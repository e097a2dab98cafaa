# A TLA+ model of the local inference stack

The stack runs one local LLM server (llama.cpp in a container) and changes it
through a control plane: a Python CLI (`./stack`), shell adapters around docker
compose, and a systemd user supervisor. The server itself is easy; what is hard
is changing it safely while commands fail, time out, are killed, or race each
other. This directory models that control plane.

Paths below are those of the repository; `transactions.py`, `cli.py` and so on
are in `src/local_inference_stack/`, shell scripts in `scripts/`.

## The system

| Component | State it keeps | Operations | Interacts through |
|---|---|---|---|
| Transaction store (`transactions.py`) | `cache/control-plane/transaction.json` (the slot), `transactions/*.json` (the archive), `transaction.lock`, `runtime.lock` | begin, begin_rollout, transition, advance_rollout_action, fence_orphaned, resolve_legacy_*, archive, reconciliation_plan, authorized_runtime_mutation | files, flock, `QWEN_CONTROL_TRANSACTION_ID` in the environment of children |
| Rollback store (`rollout.py`, `materials.py`) | immutable anchors in `rollback-specs/`, one pointer `rollback.json`, `rollback.lock` | put, publish, clear, restore, read_active | compare-and-swap on generation and anchor; link, rename, fsync |
| Commands (`cli.py`) | none across a restart | deploy, upgrade, rollback, release, profile, reconcile | the two stores, child processes (`runner.py`) |
| Runtime adapters (`scripts/runtime.sh`, `runtime-reconcile.sh`, `release-candidate.sh`, `candidate-runtime.sh`, `lib/deployment.sh`) | the container, the container of a candidate | start, stop, profile, restart, the release script with its trap | inherited lock descriptors 203 and 204 |
| Model manager (`scripts/model-manager.py`, `storage.py`) | the selection `profiles/deployment.local.env`, artifacts, partial files, stamps | select, download, verify, admit, storage gc | the store, per-artifact locks, descriptors of curl |
| Supervisor (`scripts/runtime-supervisor.py`, its systemd unit) | wait and alert markers | step: wait, start, reconcile, alert, give up | runs the scripts above |
| Acceptance evidence (`acceptance-evidence.py`, `acceptance-suite.sh`, `acceptance.py`) | run manifests, evidence files, the receipt in the transaction | quick, standard and full suites, checkpoints, seal | the pending rollout action, the container |
| Catalog, attestation, admission (`catalog.py`, `attestation.py`, model manager) | Catalog entries, attestation documents, detached signatures | attest create, sign, verify; plan, admit | files edited by people; the evidence |
| Runtime identity (`runtime_identity.py`) | none | render, normalise, compare | read by acceptance and admission |
| Performance, calibration, bundle | documents | validation | pure functions |
| Operations report, dashboard, benchmarks, release checks | none | reading, load generation | read-only |

Hard behaviours: processes that interleave at every lock and every durable
write; a child that outlives the command that started it; a crash between two
writes that belong together; checks made outside the locks on state that
changes; timeouts that kill only the direct child; recovery that is itself
interrupted, repeated, or run twice at once. The list with its lines is
`hazards` in `PROJECT.json`.

What makes each component correct:

* store: one transaction at a time, no verdict lost or changed, a mutation keeps
  its authority while it runs, the journal is the plan, recovery is one-way,
  nobody waits for ever;
* rollback store: every writer replaces exactly what it read, an unfinished
  rollout can always be undone, a consumed anchor is never active again;
* commands and recovery: `completed` means in effect, `failed-restored` means
  undone, and the anchor agrees with the verdict;
* adapters: the container is changed under both locks only, by one process tree;
* artifacts: a stamp vouches only for a good file, and an interrupted download
  leaves something the next one can use;
* supervisor: never at work against an open transaction, never stuck without an
  alert;
* acceptance: evidence of a pass stands for all of its steps on one runtime;
* promotion: no sequence of edits makes more of evidence than was measured.

## Modules

**TransactionRecord** - the transaction document and the pure decisions on it:
states, legal transitions, plans, the action journal, and `Authorized`, the
decision of `authorized_runtime_mutation` and of its twin in
`acquire_runtime_lock`. Constant `Fetches`: the number of required artifacts.

**TransactionStore** - the store under concurrent processes. `slot`, `archive`
and `lastId` are durable; `call`, `child`, `runtimeLock` and `txLock` are not.
A step is one durable write or one lock operation; a call that writes twice (a
terminal transition: slot, then archive) is two steps, and a process may die
between them (`Crash`, `Reboot`). `child` is runtime work, which takes the two
locks itself and survives its parent. A host may start with a schema v1 record.

**TransactionLedger** - the abstract specification of the store: ids opened one
at a time in order, and a verdict for each that stays. `LedgerSpec` in
TransactionStore is the refinement: the verdict of an id is read from the slot
or, failing that, the archive. The slot write is the linearization point.

**RuntimeLocks** - the two flock locks at the level of descriptors: bash opens
203 and 204 inheritable, Python opens close-on-exec, a timeout kills the shell
but not what it started, and the admissions of `model-manager.py` run under the
locks (from `apply_profile` and from the capture of a rollout). Helpers that
need a schema v5 evidence receipt call `read_by_id`, which locks
`transaction.lock` once more.

**RollbackPointer** - the pointer of the rollback store as operators: document
validation, compare-and-swap, publish, clear, restore.

**RuntimeChange** - deploy, upgrade, rollback, release and profile, what they
change (the selection, the container, the candidate, the pointer), and
`reconcile --yes`, composed with TransactionRecord and RollbackPointer. Here a
call of the store is one step: TransactionStore shows that a call is atomic up
to its archive write, which no other call can tell from one step. `cmd[c].at` is
the place of a command in its plan, `rec[r].at` that of a reconciler between the
code's own reads, locks and writes, `work[p]` the shell or model-manager child.
`Raise` and `Die` are possible at every place. release has one action,
`release-candidate.sh`: the `Release...` actions are its programs and its trap,
one step each, and `work[p].script` says whether the script passes, is failing,
or was killed, in which case the program it was at is its last. A command is
modelled from its admission on, which is Promotion's. A container is named after
its model, so the selected name decides which container the code looks at.

**RollbackFiles** - the rollback store as system calls, with the operators of
RollbackPointer for its decisions. `pointer`, `dir`, `links` and `body` are what
processes see; `disk` is what a power failure would leave of the names, and
`body` knows whether a content has been synced. Every mkdir, write, fsync, link,
unlink and rename is a step, `Killed` may come between any two, and the kernel
may write a directory back on its own (`WriteBackState`, `WriteBackLink`).
`journal` is what a transaction remembers of the pointer it replaced; it
outlives its process, and is what `restore` is called with.

**ArtifactStore** - one artifact: the partial file, the published file, the
stamp, the download lock and the runtime boundary of `select`. Files are inodes;
`curl` is a program with a descriptor of its own, which may outlive the download
that started it. A download runs `StartDownload`, `LookExisting`, `OpenPartial`,
`SpawnCurl`, `CurlWrites`, `Hash`, `Promote`, `PublishedVerified`; a
verification `StartVerify`, `ReadStamp`, then `HashPublished` and `WriteStamp` or
a `StampHit`; the command `verify` may also hash whatever the stamp says, or write
none. `GcScan` and `GcDelete` are the two halves of `storage gc`.

**Supervisor** - `RuntimeSupervisor.step`, one step of the model for each check
it makes, with `stack reconcile --yes` (`cli`) and `runtime-reconcile.sh`
(`script`) as its children. `TimesOut` kills the first and leaves the second; a
check that raises ends the unit (`StepRaises`).
Around it: an operator who deploys, restarts and reconciles, docker, the
container, and systemd, which restarts the unit or runs its alert.

**Acceptance** - `acceptance-suite.sh` and the four calls of
`acceptance-evidence.py` (open, checkpoint and append, finish, build and seal),
for one unbound run (number 0) and the bound run of each upgrade with full
qualification; the `target-full` action of the command, which starts the run,
reads its evidence and binds it to the transaction as a receipt; recovery,
replaced containers and edits around them. `Qualifies` is the reading side,
`acceptance_matches_host`.

**Promotion** - from a run that passed to an admission: `CreateDraft`, the four
parts of `attest sign` (`SignChecks`, `Sign`, `SignHashes`, `SignRecords`), the
maintainer's edits (`Promote`, `EditCatalogSomehow`, `Edit`, `Commit`), and the
decisions `Verified`, `ReadyToDeploy`, `AdmitsUpgrade`. A revision stands for
all validation inputs, a container is the revision it was started from. Drafts
with the same content count as one; `spent` is one set for evidence that is too
old, deleted, or of a host that has changed since, because every reader treats
the three alike. `Edit` may or may not change what Compose renders.

The **MC** modules give the constants their values. The **..._proofs** modules
hold the theorems: one for each of TransactionStore, RuntimeLocks, RollbackFiles,
RuntimeChange, ArtifactStore, Acceptance, Promotion and Supervisor.

### How they fit together

TransactionRecord and RollbackPointer are the decisions that TransactionStore,
RuntimeChange and RollbackFiles share by EXTENDS. TransactionStore shows that a
store call can be taken for one step, and RollbackFiles that a pointer call can:
RuntimeChange, Supervisor and Acceptance do so. RuntimeChange abstracts the
supervisor to its two effects, Supervisor abstracts the command to one change of
the selection and the container; Acceptance abstracts recovery to its effect on
the run; Promotion abstracts a run to its result, which is what Acceptance is
about.

## Runs

Processes of a kind, models and revisions are model values, interchangeable where
a run uses `SYMMETRY`; runs with a liveness property do not. All but four runs
check for deadlock; in acceptance and supervisor everything may really be over, and
the schedule of change_pointer and change_overtaken ends where it forbids what would
come next.

| Run | Question | Bounds |
|---|---|---|
| store | locks, authority, journal, archive, finality, refinement | 2 processes with a child each; after an optional v1 record 2 deploys, or 1 upgrade (full tier, 1 fetch) or rollback |
| locks | mutual exclusion and progress at descriptor level | 2 launchers, 1 planner |
| locks_hang | a statement of the code's comments, refuted | the same |
| change_deploy | a completed deploy, release or profile switch is in effect; a candidate and production do not run together | 1 command, 1 reconciler, 2 models, 2 transactions |
| change_rollout | verdict, runtime and anchor agree; the pointer can be put back; anchors are one-shot; recovery has the runtime to itself | 1 command, 1 reconciler, 2 models, 3 transactions |
| change_pointer | what holds of the pointer when one recovery overtakes another | 1 command, 2 reconcilers, 2 models, 4 transactions in a fixed order |
| change_overtaken | a statement of `cli.py`, refuted | the same |
| artifacts | stamps, published and partial files, progress | 2 processes, 2 curls, 3 inodes, 2 chunks, 1 retention period |
| supervisor | no work against a transaction, recovery, progress, alerts | 2 failures (docker, container, checks or the unit), 2 operator commands, alert after 2 waits |
| acceptance | complete evidence about one runtime, qualification | plans of 2 and 1 steps, 2 upgrades, 3 container processes, 1 edit |
| promotion | what a signature covers, what verifies, what is admitted | 2 models, 1 signer, 2 revisions, 2 keys, 1 run per model, 3 mishaps |
| rollback_files | whole anchors, acknowledged calls, exact swaps | 2 writers, 1 reader, 2 anchors, 3 generations, 2 kills, 1 power failure |

Why the bounds are enough. All locks and the slot are single, so two processes
already produce every pairwise race, and one more child each gives the third
party (the theorems remove the bound for the store). Two transactions are needed
for anything that outlives the first; three give upgrade, rollback, upgrade, the
shortest sequence in which a consumed anchor could come back. Two models are the
selected one and another. One artifact makes the journal longer than its
skeleton. In store a rollout is the only transaction of its behaviours (`StoreSpec`):
what one leaves to the next is a document in the slot, which a deploy leaves as well.
A command process has one child at a time, so a child that outlives
its command delays the next command of that process only: change_deploy was also
explored once with two command processes and deploys alone (7.3 million states, no
error), which is too long for a regular run. A pointer generation grows by at most two in a
transaction, which `TypeOK` checks.

change_pointer and change_overtaken: upgrade, rollback, deploy, rollback is the
least sequence in which a reconciler that was overtaken finds the very write its own
transaction described, made by another: a second rollback of one anchor, and between
the two a deploy that selects another model, since the recovery of the first leaves
the anchor's own selected, and such a rollback is refused. `Overtaking` in
MCRuntimeChange is the part of `Next` that follows this order, with containers that
start and stay and processes that are killed rather than fail; each of its behaviours
is one of `Spec`. Within it commands and reconcilers interleave freely. Two
reconcilers over four transactions of any order are too many for TLC; that
`OwnWriteIsUndoable` and `PointerHasOwner` hold of them all is what the theorems say.

artifacts: two chunks are the least for which a partial file differs from an
empty and a whole one; three inodes are the published file, the partial one and
one that an old curl still writes. supervisor: two failures allow docker and the
container to fail together or one after the other, or either beside a unit that stops, two commands a restart of the
unit or a repair after a deploy. acceptance: three container processes are source,
target and a replacement; two upgrades give a runner of the first one a chance to
meet the second. promotion: two runs of different models are what an upgrade needs;
three mishaps suffice to set up a host, let one thing expire and change another.
rollback_files: three generations are publish, publish or clear, and restore; two
kills cut a put and the put that repairs it.

Every run's type invariant is named `TypeOK`. RuntimeLocks, RollbackFiles and
Promotion have one too, which holds in the same instances; those runs spend their
time on the other properties.

### Fairness

locks and locks_hang assume that programs go on, that timeouts expire, and
strong fairness of a wait for `transaction.lock`: the kernel hands a lock that
is free again and again to a waiter. artifacts assumes, for `Published`, that a
download is tried again and again and each of its waits is served, that a curl
that can write does so and can finish, and that what goes on ends by itself;
nothing prevents processes from being killed for ever, but strong fairness of the
productive steps lets one attempt through. supervisor assumes that the loop of the
supervisor runs (systemd and `Restart=`), that its children end, refused or
given up if they must, and that a starting container answers; neither docker nor
the operator needs to do anything. The other runs state no liveness.

## Where the code and its docs differ

`locks_hang` and `change_overtaken` are runs of their own. The others were met with
the same models; how to see them is said with each. A counterexample needs one transaction and no
fetch (`MaxTx = 1`, `Fetches = 0`).

* **An admission that waits for its own lock (locks_hang).** With schema v5
  evidence of the selected model, an admission that runs under both locks calls
  `read_by_id` and waits for the lock its own process tree holds. Started by
  `runtime.sh start`, it survives the timeout of its command (only the shell is
  killed) and keeps both locks. `transactions.py:1616-1617` promises a lock order
  that cannot deadlock; the progress property of the locks run therefore carries
  the premise that there is no such evidence. The trace begins with
  `FullUpgradeCompletes`, the upgrade that leaves it; today's admission grants none
  ("Who can be admitted" below), so the wait shows on a host that has such evidence
  already, or once that admission is repaired.
* **A second reconciler.** `_restore_deployment_profile` (`cli.py:632`, called at
  2407) writes the selection outside the locks and without a second look at the
  transaction; a reconciler that was overtaken by another writes it after the
  transaction was closed. `docs/ARCHITECTURE.md:75-76` says that the runtime flock
  and the transaction identity protect changes together. The supervisor runs
  `reconcile --yes` by itself, so two reconcilers are a normal situation. Seen
  with change_rollout's `RecoveryIsExclusive` (its part `SelectionIsOwned`) and
  two reconcilers. With two reconcilers `CompletedIsInEffect` fails as well.
* **A pointer that another transaction wrote (change_overtaken).**
  `_restore_rollout_pointer` says that it undoes "only the pointer write described by
  one persisted rollout intent" (`cli.py:2144`) and does not replay "the old CAS
  forever" (`cli.py:2176-2178`), but it and `store.restore` compare the generation,
  the active anchor and its predecessor, not who wrote them (`cli.py:2188-2194`,
  `rollout.py:1642-1664`). A rollback that fails before its clear leaves the pointer
  as it was, so the next rollback of the same anchor makes exactly the write that
  the first one described. In the trace upgrade 1 completes; rollback 2 is killed and
  one reconciler closes it, while another stops just before it reads the pointer;
  deploy 3 completes; rollback 4 clears the pointer, and the overtaken reconciler
  undoes that clear for transaction 2. Rollback 4 is open with a pointer that is
  neither the one it found nor the one it wrote, so its recovery fails each time. If
  rollback 4 had completed, its anchor would be active again, against
  `AnchorIsOneShot`. What holds in spite of it is in change_pointer: the pointer moves
  for the open rollout or for an overtaken reconciler, which makes the anchor active
  that its own transaction found (`PointerHasOwner`), and a rollout that was the last
  to write can put its write back (`OwnWriteIsUndoable`). The other theorems on the
  pointer (below) suppose that no reconciler is overtaken.
* **A deploy on a stopped host.** Recovery takes "the original container is not
  running" for "the original runtime is restored" (`cli.py:674`, 2351) and ends
  `failed-restored` with the failed target still selected;
  `docs/ARCHITECTURE.md:72-74` lets it end only after the recovery subject is
  restored and verified. Seen with `RecoveryIsExclusive` (`ConfirmedIsOriginal`)
  and `Commands = {"deploy"}`.
* **A child that arrives late.** A child of a killed deploy that has not reached
  the locks is not seen by the fence, and is still authorized during recovery,
  because a deploy child is bound to the transaction and its Catalog spec, not to
  a state (`transactions.py:1397`; `_reconcile` says at `cli.py:2303-2305` that
  such a child cannot be mistaken for an orphan). Children of a rollout are bound
  to the pending action, and are refused. Seen with `RecoveryIsExclusive`
  (`FencedWorkIsOver`) and `Commands = {"deploy"}`. For this and the previous
  point change_deploy does not check `FailedIsUndone`.
* **A release that leaves its candidate.** Recovery looks at production only. If
  the original was not healthy and production is down, it finds the original
  "already restored" and closes the transaction without stopping a candidate
  (`cli.py:2110`, 2333), which the release script leaves running when it is killed
  by its timeout or an interrupt, without its trap. The next profile switch or
  deploy then starts production beside it, under the same network alias. The plan
  of the same reconciliation lists "stop any release-candidate runtime"
  (`transactions.py:2236`), and `docs/ROADMAP.md` (phase 3) asks that no point of
  failure leave production and candidate on the stable alias together. The other
  way to both is the trap itself, which starts production even when the candidate
  could not be stopped (`release-candidate.sh:29-34`); the transaction then stays
  open, and its recovery may still close it on a healthy production. Seen with
  `CandidateIsSerial` without its right side, or with "stuck" beside "up". As
  with the deploy on a stopped host, this is what the command does once admitted;
  today's admission (below) asks for a healthy production and so hides it.
* **reconcile takes over.** `docs/OPERATIONS.md:44-45` says that `reconcile --yes`
  only waits for a planned, deploying or accepting transaction; the code (and
  `FenceOrphan`) takes it over once its initiator is proven dead.
* **A curl that outlives its download.** `docs/LEARNING_GUIDE.md:223` and 231 say
  that downloads are serialised by the lock of the model and that a partial file is
  kept for a safe resume. The lock falls with the process that is killed, curl
  writes on, and the next attempt resumes the same file under it. ArtifactStore
  remembers such bytes in `foreign`; `PublishedIsGood`, `PartialIsPrefix` and
  `Published` speak of what happens without them, `StampIsTrue` always.
* **Waiting or giving up.** `docs/OPERATIONS.md:122-123` says that normal
  maintenance only makes the supervisor wait. It looks at the runtime lock first
  (`runtime-supervisor.py:314`) and at health and configuration later; maintenance
  that begins in between can be met half done, and is given up on. `Settles`
  therefore allows `sup = "failed"`, and `TroubleIsAlerted` requires the alert.
  Three smaller things the model shows: a failing alert webhook stops the
  supervisor (`AlertFails`), as does any check that raises (`StepRaises`); the docker-wait marker is neither counted nor cleared
  by a step that finds a transaction or a busy lock; a reconcile that is killed
  by its 600 s timeout leaves `production_restoring`, which the next steps wait
  for without an alert (`NeedsReview`).
* **What acceptance compares.** A bound run compares container and inputs at its
  checkpoints, an unbound one when it is opened and when it is sealed: inputs that
  change and return in between are not seen. A bound run whose runtime died or
  whose transaction was taken over stays `running` and has no failed evidence,
  which `docs/ACCEPTANCE.md:60-66` does not exclude. `RunsAreSealed` speaks of
  runs that nothing disturbs.
* **Who can be admitted.** `acceptance_matches_host` compares the private profile
  (`deploymentProfileSha256`, `runtime_identity.py:561` and 598) and the healthy
  container named after the model; only the digest of the Catalog is exempt. So
  an entry is eligible only while its model is selected and running
  (`AdmitsOnlyTheInstalled`, which also has a proof). No upgrade is ever
  admitted, since its source and its target would both have to be; a rollback
  anchor cannot be verified again while the target runs (`cli.py:1502`, 1880,
  1924); a fresh host cannot deploy; a deploy of the running model needs
  memory for a second one; and a release is admitted while production runs, stops
  it, and is then refused by the admission of its own candidate
  (`candidate-runtime.sh:58`), so that it costs the downtime and fails. `docs/UPGRADING.md:90-93`,
  `docs/GETTING_STARTED.md:59` and 64-73, `docs/ACCEPTANCE.md:149` and
  `README.md:33` describe these operations as possible with eligible entries.
  RuntimeChange and Acceptance model what the commands do once admitted.
* **Concurrent signing.** `sign_file` takes no lock; two at once can leave a
  document that names the digest of the other's signature. That fails safe: the
  document does not verify. A process killed between the signature and the
  document leaves a signature nobody names, and the draft can be signed again.

## Proofs

Every invariant and action property of a passing run is also a theorem, for every
value of the constants that satisfies the assumptions. Left to TLC alone: liveness
(`Published`, `QuickPublicationEnds`, `Settles`, `TroubleIsAlerted`), because
fairness and ENABLED are outside the prover's reach. TLC checked each inductive
invariant on the configuration of its run before it was proved.

| module | theorems (the property of the run) | inductive invariant | assumptions |
|---|---|---|---|
| TransactionStore_proofs | `TypeCorrect` (`TypeOK`), `LocksAreExact` (a part of `StoreInv`), `AuthorityHolds` (`WorkIsAuthorized`), `StoreIsSound` (`StoreInv`), `CaptureIsQuiet` (`CaptureIsQuiescent`), `VerdictsAreFinal` (`TerminalIsFinal`), `JournalIsPrefix` (`JournalFollowsPlan`), `RecoveryNeverReturns` (`RecoveryIsOneWay`, which no run checks: it held in the store run when it was tried), `StoreImplementsLedger` (`LedgerSpec`) | `TypeOK /\ StoreInv` | `FetchesAssumption`, `StoreAssumption` |
| RuntimeLocks_proofs | `DescriptorsAreExact`, `ComposeAlwaysLocked` (`ComposeIsLocked`) | `LocksInv` | `RuntimeLocksAssumption` |
| RollbackFiles_proofs | `FilesAreSound`, `PointerAlwaysResolves` (`PointerResolves`), `ReturnedIsDurable` (`AckedSurvives`), `CasIsAlwaysExact` (`CasIsExact`) | `FilesInv` | `IdsAssumption`, `BoundsAssumption`, `NoneAssumption` |
| RuntimeChange_proofs | see below | `BaseInv` and what is added to it | `RuntimeChangeAssumption`, `FetchesAssumption` |
| ArtifactStore_proofs | `FilesAreKnown`, `StoreIsTyped` (`TypeOK`), `StampsAreTrue` (`StampIsTrue`), `PublicationIsGood` (`PublishedIsGood`), `PartialsArePrefixes` (`PartialIsPrefix`) | `ArtifactInv` | sizes, bounds, `NoneAssumption` |
| Acceptance_proofs | `RunsAreFollowed`, `AcceptanceIsTyped` (`TypeOK`), `SealsAreComplete` (`SealedIsComplete`), `BoundRunsSawOneRuntime` (`BoundRunSawOneRuntime`), `QualificationIsMeasured` (`QualifiedIsMeasured`), `RunsEndSealed` (`RunsAreSealed`) | `AcceptanceInv`, `SealInv` for the last | `StepsAssumption`, `BoundsAssumption` |
| Promotion_proofs | `OnlyTheInstalled` (`AdmitsOnlyTheInstalled`), `PayloadsAreFollowed`, `SignaturesAreQualified` (`SignedIsQualified`), `AdmissionIsBacked` (`VerifiedIsBacked`) | `PromotionInv` | `TrustedAssumption`, `CapacityAssumption`, `NoneAssumption` |
| Supervisor_proofs | `SupervisionIsFollowed`, `SupervisorIsTyped` (`TypeOK`), `ScriptAlwaysWorksAlone` (`ScriptWorksAlone`), `ClosingRestores` (`ClosedIsRestored`) | `SupervisorInv` | `AlertAssumption`, `BoundsAssumption` |

The assumptions say that bounds are naturals, that "nobody" is none of the
processes, that commanders are not reconcilers; none restricts the system.

**TransactionStore.** `LocksMatch` makes `StoreInv` inductive: every write of the
slot happens with `transaction.lock` free or one's own, so it happens while no work
runs and no capture is under way. That a call in `archiving` has a terminal document
in the slot gives the archive write its meaning, and that the archive of the current
id is the slot's document is what lets a begin overwrite the slot without losing a
verdict. `WorkIsAuthorized` is inductive relative to it: whoever changes the slot
holds the lock that running work would hold. The ledger's verdict of an id changes
only at a slot write that makes the document terminal, and a begin changes only
which ids are open.

**RuntimeLocks.** Mutual exclusion is not inductive, because it does not say who
keeps a lock when a shell dies. `FdsExact` does: who has a descriptor of which lock
is a function of where each shell, helper and capture is, a killed shell's helper
included. A lock is taken only when nobody has a descriptor of it.

**RollbackFiles.** What each place in a call knows (`Knows`) of its object and of
the pointer, what the disk may lag behind by (`FilesOK`, `PointersOK`), and that
within one boot the generations of the pointer only grow, so that a pointer of the
generation a caller saw is the one it saw. An object becomes `Kept` (whole, of one
name, its link synced) before the pointer names it, and nothing undoes that.

**RuntimeChange.** `BaseInv` ties three views of a transaction together: the slot
and what its intent froze (`SlotOK`, `IntentsOK`), what a command or a reconciler
that goes on believes of it (`ControlOK`), and what each piece of runtime work may
still do (`WorksOK`: one work at most has the locks, under the authority it came
with, and while a command goes on no other process works on its transaction). It is
proved without further hypotheses (`BaseIsInvariant`), one case per action, for any
numbers of models, commands, reconcilers, artifacts and transactions. The theorems
add one invariant each:

| theorem (the property of the run) | added to `BaseInv` |
|---|---|
| `PointerIsFollowed`, `PointerStaysRecoverable` (`PointerIsRecoverable`), `AnchorStaysInStep` (`AnchorFollowsVerdict`) | `PointerOK`: the pointer of an open rollout is as found, as written or as undone, by where its command and its reconcilers are |
| `PointerGrows`, `OwnWriteStaysUndoable` (`OwnWriteIsUndoable`), `PointerStaysOwned` (`PointerHasOwner`), `ChangeIsTyped` (`TypeOK`) | `GrowthOK`: each transaction moves the generation by two at most, and the pointer is what its last writer's own compare-and-swap was to make of it |
| `AnchorsAreOneShot` (`AnchorIsOneShot`) | `Gone`: a consumed anchor is not active and no open rollout would make it active |
| `FailureIsUndone` (rollouts, whatever else is run), `FailuresAreUndone` (`FailedIsUndone`) | `RestoredOK`: a reconciler that concludes has the subject selected, and running if anything does |
| `SelectionStaysOwned` (`SelectionIsOwned`), `RolloutsAreRecovered` (`RecoveryIsExclusive`) | none |
| `CompletedStaysInEffect` (`CompletedIsInEffect`) | `EffectOK`: what the actions that are done have brought about, and that a release script about to succeed has stopped its candidate |
| `CandidateStaysSerial` (`CandidateIsSerial`) | `CandidateOK`: where a candidate is up, its release is open, production is down, its command waits or fails and every program of its script that would start production is behind or ahead of it |

Those of `GrowthOK` hold however many reconcilers overtake each other: a pointer that
r2 undid for another transaction is still an undone write of r2's own, by the numbers
that are compared. All the others carry the hypothesis `[]NobodyOvertaken`: no
reconciler goes on with a transaction that another one has closed, which the code does
not enforce for two. `OneIsNeverOvertaken` proves it where one process at most
recovers, and `OneReconcilerIsEnough` and `OneReconcilerUndoes` put the results
together without it. With two reconcilers it fails, and some of them with it (above,
"A second reconciler" and "A pointer that another transaction wrote"). `FailuresAreUndone` and
`RolloutsAreRecovered` further suppose that upgrades and rollbacks are all that is
run, as change_rollout does: a deploy refutes both (above). The recovery of a release
whose candidate is up cannot conclude, because its original ran and nothing runs;
this is why `CandidateOK` is claimed where every release found production healthy.

**ArtifactStore.** A stamp is written from what a process learnt earlier: `ProcOK`
says what each place knows of the file it has open, as long as that file was left
alone. A file is the artifact only if one curl at a time wrote it from where the last
one stopped: `OwnBytes` needs the download lock, the curl of each download and the
length the file has under it, and holds while no byte is `foreign`.

**Acceptance.** The invariant follows a run from its log to its seal. Its record
lags behind what its children did by the one that ended last. The processes its
children met lie between the one the run was opened on and the one that runs now, and
process numbers only grow, so a checkpoint that finds the container of the opening
knows that nobody met another one.

**Promotion.** For `AdmitsOnlyTheInstalled` the inductive part is small (the
checkout holds a revision); the rest follows at the moment of the admission from what
verification compares. The other two follow a payload through the four parts of a
signature: what was checked when it was read still vouches for it when it is signed,
because runs never change and a signer's copy is its own.

**Supervisor.** A script holds the lock while it works. One bound to a transaction is
only there while that transaction is being restored, orphaned by a timeout or not,
since the states behind production_restoring are reached only when its CLI has seen
it end; one without a transaction holds the lock only while none is open.

## Not modelled

* The contents of documents: digests, timestamps, free text, file format, private
  file modes. Validation failures appear as calls that are refused or raise. In
  RollbackFiles an anchor is whole or not.
* Legacy v1 recovery outside the store, mutations without a transaction in
  RuntimeChange (Supervisor and Acceptance have them; release-candidate.sh and
  candidate-runtime.sh can be run by hand too), the health of a candidate, profiles
  other than the selected model (a profile switch recreates the container), ports.
* In RuntimeChange the verification of an anchor's materials and image: a step
  that may fail.
* In ArtifactStore: credentials, mirrors, the free-space check, several artifacts
  of one model; the moment for which `storage gc` holds a download lock to see that
  it is free. In Acceptance: what a step measures, and what `build_payload` refuses
  besides inputs and container (no machine id, an artifact without its stamp,
  `acceptance-evidence.py:1493-1538`), which ends a run as a killed runner does.
* In Promotion: hardware profiles and the choice of a plan by capacity; a
  revocation or supersession, which `create_draft` never writes and any other
  hand makes the document differ from its evidence.
* RollbackFiles starts with `cache/control-plane` durable. A process killed
  between the mkdir of that directory and the fsync of its parent
  (`rollout.py:1010-1037`) leaves it unsynced for everyone later; the same window
  of `rollback-specs` is modelled, and closed by the sync of the pointer. A reader
  without a lock may see a generation that no call has acknowledged yet, and that
  a power failure takes back.
* Performance, calibration, bundle, the file trees of materials, the
  normalisation of docker's output: pure functions over documents.
* Reports, dashboard, benchmarks, release checks: nothing they do changes the
  state of the stack.

## Plan

1. Done: the modules above, and a theorem for each of their safety properties.
2. Proofs: the rollout part of `RecoveryIsExclusive` while other commands are run
   too; that a call of RollbackFiles refines the operators of RollbackPointer.
3. Extensions: mutations without a transaction in RuntimeChange, several artifacts
   of a model.
