----------------------------- MODULE Acceptance -----------------------------
(***************************************************************************)
(* Recorded acceptance runs and the host qualification they give           *)
(* (scripts/acceptance-suite.sh, scripts/acceptance-evidence.py,           *)
(* acceptance.py, the target-full action of cli.py, discover_host_         *)
(* acceptance of model-manager.py).                                        *)
(*                                                                         *)
(* A bound run belongs to the target-full action of one upgrade: its       *)
(* records carry the name of the transaction, and each of its checkpoints  *)
(* compares the transaction, the container process and every input with    *)
(* what the run was opened with. An unbound run, number 0 here, is only    *)
(* looked at when it is opened and when it is sealed. The runner is a      *)
(* shell: it outlives the command that started it, and what it was in the  *)
(* middle of when it is killed stays as it is.                             *)
(***************************************************************************)
EXTENDS Naturals, Sequences

CONSTANTS FullSteps,       \* number of steps of the full plan
          QuickSteps,      \* number of steps of the quick plan
          MaxTransactions, \* bound: upgrades with full qualification
          MaxProcesses,    \* bound: container processes
          MaxEdits         \* bound: changes of the inputs

ASSUME StepsAssumption == QuickSteps \in Nat \ {0} /\ FullSteps \in Nat \ {0}
ASSUME BoundsAssumption ==
  MaxTransactions \in Nat \ {0} /\ MaxProcesses \in Nat \ {0} /\ MaxEdits \in Nat

VARIABLES container,  \* the container process: its number, its model, its health
          inputs,     \* version of the Catalog, the repository and ModelPort
          tx,         \* transaction -> its state, planned inputs and receipt
          cli,        \* the upgrade command: where it is, its transaction
          run,        \* run -> where its runner is, result of the last child
          manifest,   \* run -> <name>.run.json
          evidence,   \* run -> <name>.json
          did,        \* history: run -> results of the children that have ended
          saw,        \* history: transaction -> processes its children met
          disturbed,  \* history: runs during which what they are about changed
          edits

world == <<container, inputs, edits>>
records == <<manifest, evidence>>
history == <<did, saw, disturbed>>
vars == <<world, tx, cli, run, records, history>>

Transactions == 1..MaxTransactions
Runs == 0..MaxTransactions
Versions == {"reviewed", "edited"}
None == [kind |-> "none"]

ContainerStates == [process : 1..MaxProcesses, model : {"source", "target"}, up : BOOLEAN]

\* _modelport_source_identity, _target_provider_qualification_identity, the validation
\* input and the configuration, all of them digests of files that anybody may edit.
InputIdentity == inputs

\* _live_target_runtime_identity: container id and start time, image, configuration.
RuntimeIdentity(n) == IF n > 0 THEN [process |-> container.process, model |-> container.model]
                      ELSE [process |-> 0, model |-> "any"]

\* _rollout_frozen_inputs. An unbound run records its validation input only.
Frozen(n) == [process |-> RuntimeIdentity(n).process, model |-> RuntimeIdentity(n).model,
              inputs |-> InputIdentity]

\* expected_steps: the plan of the mode. A bound run is full, the unbound run here
\* a quick one.
Steps(n) == IF n = 0 THEN QuickSteps ELSE FullSteps

Results == UNION {[1..n -> BOOLEAN] : n \in 0..(FullSteps + QuickSteps)}

AllPassed(n) == [i \in 1..Steps(n) |-> TRUE]

\* run_record_valid of a passed record: every step of the plan, in order, once.
Passed(n, record) == record.status = "passed" /\ record.results = AllPassed(n)

\* rollout_frozen_inputs_valid
FrozenInputs == [process : 0..MaxProcesses, model : {"source", "target", "any"},
                 inputs : Versions]

Manifests == [kind : {"manifest"}, frozen : FrozenInputs,
              results : Results, status : {"running", "passed", "failed"}]

Evidences == [kind : {"evidence"}, manifest : Manifests, inputs : Versions,
              model : {"source", "target"}]

\* What a runner in memory has of the evidence it builds.
NotBuilt == [inputs |-> "reviewed", model |-> "source"]

Places == {"none", "log", "step", "child", "ended", "append", "exit", "finish",
           "write", "built", "done", "killed"}

TypeOK ==
    /\ container \in ContainerStates
    /\ inputs \in Versions /\ edits \in 0..MaxEdits
    /\ tx \in [Transactions ->
         [state : {"none", "planned", "target-full", "publish-rollback", "completed",
                   "recovery_required", "failed-restored"},
          inputs : Versions, receipt : Evidences \cup {None}]]
    /\ cli \in [at : {"none", "plan", "spawn", "wait", "read", "publish"},
                tx : Transactions]
    /\ run \in [Runs -> [at : Places, ok : BOOLEAN,
                        built : [inputs : Versions, model : {"source", "target"}]]]
    /\ manifest \in [Runs -> Manifests \cup {None}]
    /\ evidence \in [Runs -> Evidences \cup {None}]
    /\ did \in [Runs -> Results]
    /\ saw \in [Transactions -> SUBSET (1..MaxProcesses)]
    /\ disturbed \in SUBSET Runs

Init ==
    /\ container = [process |-> 1, model |-> "source", up |-> TRUE]
    /\ inputs = "reviewed" /\ edits = 0
    /\ tx = [t \in Transactions |->
               [state |-> "none", inputs |-> "reviewed", receipt |-> None]]
    /\ cli = [at |-> "none", tx |-> 1]
    /\ run = [n \in Runs |-> [at |-> "none", ok |-> TRUE, built |-> NotBuilt]]
    /\ manifest = [n \in Runs |-> None] /\ evidence = [n \in Runs |-> None]
    /\ did = [n \in Runs |-> <<>>]
    /\ saw = [t \in Transactions |-> {}]
    /\ disturbed = {}

-----------------------------------------------------------------------------
(* The transaction, as a run sees it                                       *)

Open(t) == tx[t].state \notin {"none", "completed", "failed-restored"}

\* pending_rollout_qualification_binding: the upgrade is accepting and target-full
\* is its next action.
Pending(t) == tx[t].state = "target-full"

\* _rollout_authority, _pending_rollout_binding: a bound run inherits its transaction
\* and its action, and both are pending; an unbound run inherits none.
Authorized(n) == n > 0 => Pending(n)

\* The provider contract, the dashboard and the ModelPort checkout pass their checks
\* with the very inputs the plan was made with.
InputsArePlanned(t) == InputIdentity = tx[t].inputs

\* _rollout_frozen_inputs: and the target is healthy and canonical.
MayFreeze(t) ==
    /\ container.up /\ container.model = "target"
    /\ InputsArePlanned(t)

\* Mutant: a manifest that names its transaction is enough.
ValidManifestByName(n) == Authorized(n)

\* _validated_manifest: a bound manifest is compared with the present.
ValidManifest(n) ==
    n > 0 => Pending(n) /\ MayFreeze(n) /\ manifest[n].frozen = Frozen(n)

InProgress(n) == run[n].at \notin {"none", "done", "killed"}

Disturbs(ns) == disturbed' = disturbed \cup {n \in ns : InProgress(n)}

-----------------------------------------------------------------------------
(* The runner: acceptance-suite.sh                                         *)

GoesTo(n, place) == run' = [run EXCEPT ![n].at = place]

\* A run that ends without evidence is of no further interest.
EndsUnsealed(n, place) ==
    /\ run' = [run EXCEPT ![n] = [at |-> place, ok |-> FALSE, built |-> NotBuilt]]
    /\ did' = [did EXCEPT ![n] = <<>>]
    /\ saw' = [t \in Transactions |-> IF t = n THEN {} ELSE saw[t]]
    /\ disturbed' = disturbed \ {n}

Meet(ns, process) ==
    saw' = [t \in Transactions |-> IF t \in ns THEN saw[t] \cup {process} ELSE saw[t]]

\* The log of a run is created with noclobber: a name is used once.
OpenLog(n) ==
    /\ run[n].at = "none"
    /\ GoesTo(n, "log")
    /\ UNCHANGED <<world, tx, records, history>>

\* The operator starts an unbound run; its performance preflight has passed.
StartUnbound ==
    /\ OpenLog(0)
    /\ UNCHANGED cli

\* initialize_manifest
RunStart(n) ==
    /\ run[n].at = "log"
    /\ Authorized(n)
    /\ n > 0 => MayFreeze(n)
    /\ manifest' = [manifest EXCEPT ![n] =
         [kind |-> "manifest", frozen |-> Frozen(n), results |-> <<>>, status |-> "running"]]
    /\ GoesTo(n, "step")
    /\ UNCHANGED <<world, tx, cli, evidence, history>>

\* run-start comes before the EXIT trap is set: a run refused there has no record.
RunStartRefused(n) ==
    /\ run[n].at = "log"
    /\ n > 0 /\ ~(Authorized(n) /\ MayFreeze(n))
    /\ EndsUnsealed(n, "done")
    /\ UNCHANGED <<world, tx, cli, records>>

\* Mutant: the suite goes on behind the end of its plan.
StartChildBeyond(n) ==
    /\ run[n].at = "step"
    /\ Authorized(n)
    /\ GoesTo(n, "child")
    /\ Meet({n}, container.process)
    /\ UNCHANGED <<world, tx, cli, records, did, disturbed>>

\* run_step: the authority (assert_approved_catalog_spec), then the child.
StartChild(n) ==
    /\ run[n].at = "step"
    /\ Len(manifest[n].results) < Steps(n)
    /\ Authorized(n)
    /\ GoesTo(n, "child")
    /\ Meet({n}, container.process)
    /\ UNCHANGED <<world, tx, cli, records, did, disturbed>>

\* A step can only pass on a runtime that answers.
EndChild(n) ==
    /\ run[n].at = "child"
    /\ \E ok \in {FALSE, container.up} :
         /\ run' = [run EXCEPT ![n].at = "ended", ![n].ok = ok]
         /\ did' = [did EXCEPT ![n] = Append(@, ok)]
    /\ UNCHANGED <<world, tx, cli, records, saw, disturbed>>

\* The authority again, and the first half of append_step: the manifest is read
\* and validated.
ReadManifest(n) ==
    /\ run[n].at = "ended"
    /\ Authorized(n)
    /\ ValidManifest(n)
    /\ GoesTo(n, "append")
    /\ UNCHANGED <<world, tx, cli, records, history>>

\* _replace_bound_manifest: over the record that was read, which nobody else writes.
ReplaceManifest(n, record) == manifest' = [manifest EXCEPT ![n] = record]

\* Mutant: the result of the child is not looked at.
AppendStepPassed(n) ==
    /\ run[n].at = "append"
    /\ manifest' = [manifest EXCEPT ![n].results = Append(@, TRUE)]
    /\ GoesTo(n, "step")
    /\ UNCHANGED <<world, tx, cli, evidence, history>>

\* The rest of append_step: a step that failed ends the suite.
AppendStep(n) ==
    /\ run[n].at = "append"
    /\ ReplaceManifest(n, [manifest[n] EXCEPT !.results = Append(@, run[n].ok)])
    /\ GoesTo(n, IF run[n].ok THEN "step" ELSE "exit")
    /\ UNCHANGED <<world, tx, cli, evidence, history>>

\* set -e: what a check refuses ends the suite, and so does its last step. In a full
\* run, standard_suite looks for its tools between two steps and exits without them.
Leave(n) ==
    /\ \/ run[n].at \in {"step", "ended"} /\ ~Authorized(n)
       \/ n > 0 /\ run[n].at = "step" /\ Len(manifest[n].results) < Steps(n)
       \/ run[n].at = "ended" /\ ~ValidManifest(n)
       \/ run[n].at = "step" /\ Len(manifest[n].results) = Steps(n)
    /\ run' = [run EXCEPT ![n].at = "exit",
                          ![n].ok = run[n].at = "step" /\ Len(manifest[n].results) = Steps(n)]
    /\ UNCHANGED <<world, tx, cli, records, history>>

\* record_exit, finalize_manifest: passed needs every step of the plan. A manifest
\* that is not valid any more stays unfinished for ever.
BeginFinish(n) ==
    /\ run[n].at = "exit"
    /\ IF ValidManifest(n) /\ (run[n].ok => manifest[n].results = AllPassed(n))
       THEN GoesTo(n, "finish") /\ UNCHANGED history
       ELSE EndsUnsealed(n, "done")
    /\ UNCHANGED <<world, tx, cli, records>>

\* Mutant: only a run that passed is worth a record.
RunFinishPassed(n) ==
    /\ run[n].at = "finish"
    /\ manifest' = IF run[n].ok THEN [manifest EXCEPT ![n].status = "passed"] ELSE manifest
    /\ IF run[n].ok THEN GoesTo(n, "write") /\ UNCHANGED history
       ELSE EndsUnsealed(n, "done")
    /\ UNCHANGED <<world, tx, cli, evidence>>

RunFinish(n) ==
    /\ run[n].at = "finish"
    /\ ReplaceManifest(n, [manifest[n] EXCEPT
                             !.status = IF run[n].ok THEN "passed" ELSE "failed"])
    /\ GoesTo(n, "write")
    /\ UNCHANGED <<world, tx, cli, evidence, history>>

\* Mutant: the inputs of the evidence are those of the moment it is written.
MayBuildNow(n) ==
    /\ ValidManifest(n)
    /\ manifest[n].status = "passed" => container.up

\* build_payload: evidence of a pass needs the inputs of the start and a canonical
\* runtime.  What else it refuses, no machine id or an artifact without its stamp, ends
\* the run without evidence; a killed runner stands for it.
MayBuild(n) ==
    /\ ValidManifest(n)
    /\ manifest[n].status = "passed" =>
         container.up /\ manifest[n].frozen.inputs = inputs

Build(n) ==
    /\ run[n].at = "write"
    /\ IF MayBuild(n)
       THEN /\ run' = [run EXCEPT ![n].at = "built",
                 ![n].built = [inputs |-> inputs, model |-> container.model]]
            /\ UNCHANGED history
       ELSE EndsUnsealed(n, "done")
    /\ UNCHANGED <<world, tx, cli, records>>

\* write_noreplace: a name is linked once.
WriteNoReplace(n, record) ==
    /\ evidence[n] = None
    /\ evidence' = [evidence EXCEPT ![n] = record]

\* The end of build_payload looks at a bound manifest once more, then the evidence
\* is written.
Seal(n) ==
    /\ run[n].at = "built"
    /\ IF ValidManifest(n) /\ evidence[n] = None
       THEN /\ WriteNoReplace(n,
                 [kind |-> "evidence", manifest |-> manifest[n],
                  inputs |-> run[n].built.inputs, model |-> run[n].built.model])
            /\ run' = [run EXCEPT ![n].at = "done", ![n].built = NotBuilt]
            /\ UNCHANGED history
       ELSE /\ EndsUnsealed(n, "done")
            /\ UNCHANGED evidence
    /\ UNCHANGED <<world, tx, cli, manifest>>

\* Its children go on, but nobody records what they do.
KillRunner(n) ==
    /\ InProgress(n)
    /\ EndsUnsealed(n, "killed")
    /\ UNCHANGED <<world, tx, cli, records>>

-----------------------------------------------------------------------------
(* The upgrade command                                                     *)

CliAt(place) == cli.at = place

TxBecomes(state) == tx' = [tx EXCEPT ![cli.tx].state = state]

\* _modelport_qualification_preflight: the qualification input as it is now.
QualificationInput == inputs

\* _upgrade: the qualification input and the performance policy are resolved
\* before the transaction is begun, and are part of its plan.
CliPlans ==
    /\ CliAt("none")
    /\ \A t \in Transactions : ~Open(t)
    /\ \E t \in Transactions :
         /\ tx[t].state = "none"
         /\ \A u \in 1..(t - 1) : tx[u].state # "none"
         /\ cli' = [at |-> "plan", tx |-> t]
         /\ tx' = [tx EXCEPT ![t] = [@ EXCEPT !.state = "planned",
                                             !.inputs = QualificationInput]]
    /\ UNCHANGED <<world, run, records, history>>

\* stop-source resolves them again and refuses a difference; the target starts and
\* passes the quick suite.
CliStartsTarget ==
    /\ CliAt("plan")
    /\ QualificationInput = tx[cli.tx].inputs
    /\ container.process < MaxProcesses
    /\ container' = [process |-> container.process + 1, model |-> "target", up |-> TRUE]
    /\ TxBecomes("target-full")
    /\ cli' = [cli EXCEPT !.at = "spawn"]
    /\ Disturbs({0})
    /\ Meet({n \in Runs : run[n].at = "child"}, container'.process)
    /\ UNCHANGED <<inputs, edits, run, records, did>>

\* target-full: acceptance-suite.sh full, under the runtime boundary of the command.
CliSpawns ==
    /\ CliAt("spawn")
    /\ OpenLog(cli.tx)
    /\ cli' = [cli EXCEPT !.at = "wait"]

\* run_manifest_matches_evidence, acceptance_run_manifest_matches: evidence names the
\* manifest it was written from by digest, and that file is still the same.
Matches(n) == evidence[n].manifest = manifest[n]

\* _qualification_evidence_receipt: passed evidence of this very action, with the
\* manifest it was written from, while the action is still pending.
ReceiptMayBeRead(t) ==
    /\ Pending(t)
    /\ evidence[t] # None
    /\ Matches(t)
    /\ Passed(t, manifest[t])

CliReads ==
    /\ CliAt("wait")
    /\ run[cli.tx].at = "done"
    /\ ReceiptMayBeRead(cli.tx)
    /\ cli' = [cli EXCEPT !.at = "read"]
    /\ UNCHANGED <<world, tx, run, records, history>>

\* advance_rollout_action compares the state and the ordinal under the lock.
CliAdvances ==
    /\ CliAt("read")
    /\ Pending(cli.tx)
    /\ tx' = [tx EXCEPT ![cli.tx] =
         [@ EXCEPT !.state = "publish-rollback", !.receipt = evidence[cli.tx]]]
    /\ cli' = [cli EXCEPT !.at = "publish"]
    /\ UNCHANGED <<world, run, records, history>>

CliCompletes ==
    /\ CliAt("publish")
    /\ tx[cli.tx].state = "publish-rollback"
    /\ TxBecomes("completed")
    /\ cli' = [cli EXCEPT !.at = "none"]
    /\ UNCHANGED <<world, run, records, history>>

\* Whatever fails: the command marks its transaction. Its timeout kills the runner.
CliFails ==
    /\ ~CliAt("none")
    /\ Open(cli.tx)
    /\ TxBecomes("recovery_required")
    /\ cli' = [cli EXCEPT !.at = "none"]
    /\ IF InProgress(cli.tx) THEN EndsUnsealed(cli.tx, "killed")
       ELSE UNCHANGED <<run, history>>
    /\ UNCHANGED <<world, records>>

\* The command is killed: its runner goes on, its boundary falls.
CliDies ==
    /\ ~CliAt("none")
    /\ cli' = [cli EXCEPT !.at = "none"]
    /\ UNCHANGED <<world, tx, run, records, history>>

-----------------------------------------------------------------------------
(* Recovery and the rest of the world                                      *)

\* stack reconcile: fence an orphan (its command is dead), then restore the source.
Fence(t) ==
    /\ Open(t) /\ tx[t].state # "recovery_required"
    /\ CliAt("none")
    /\ tx' = [tx EXCEPT ![t].state = "recovery_required"]
    /\ Disturbs({t})
    /\ UNCHANGED <<world, cli, run, records, did, saw>>

\* The container gets a new process; a child that is under way meets it.
NewProcess(model) ==
    /\ container.process < MaxProcesses
    /\ container' = [process |-> container.process + 1, model |-> model, up |-> TRUE]
    /\ Meet({n \in Runs : run[n].at = "child"}, container'.process)
    /\ Disturbs(Runs)
    /\ UNCHANGED <<inputs, edits, cli, run, records, did>>

\* A source that is back already, or has never left, is left alone.
Restore(t) ==
    /\ tx[t].state = "recovery_required"
    /\ IF container.up /\ container.model = "source"
       THEN UNCHANGED <<world, cli, run, records, history>>
       ELSE NewProcess("source")
    /\ tx' = [tx EXCEPT ![t].state = "failed-restored"]

\* The supervisor restarts a runtime that failed; a docker restart by hand needs no
\* lock at all.
ContainerRestarts ==
    /\ NewProcess(container.model)
    /\ UNCHANGED tx

\* A select and a profile outside any transaction.
OperatorSwitches ==
    /\ \A t \in Transactions : ~Open(t)
    /\ CliAt("none")
    /\ \E model \in {"source", "target"} : NewProcess(model)
    /\ UNCHANGED tx

ContainerFails ==
    /\ container.up
    /\ container' = [container EXCEPT !.up = FALSE]
    /\ Disturbs(Runs)
    /\ UNCHANGED <<inputs, edits, tx, cli, run, records, did, saw>>

\* Somebody edits the repository, the Catalog or the ModelPort checkout.
Edit ==
    /\ edits < MaxEdits /\ edits' = edits + 1
    /\ inputs' \in Versions \ {inputs}
    /\ Disturbs(Runs)
    /\ UNCHANGED <<container, tx, cli, run, records, did, saw>>

-----------------------------------------------------------------------------
Runner(n) ==
    \/ RunStart(n) \/ RunStartRefused(n) \/ StartChild(n) \/ EndChild(n)
    \/ ReadManifest(n) \/ AppendStep(n) \/ Leave(n) \/ BeginFinish(n) \/ RunFinish(n)
    \/ Build(n) \/ Seal(n)

Command ==
    CliPlans \/ CliStartsTarget \/ CliSpawns \/ CliReads \/ CliAdvances \/ CliCompletes

Surroundings ==
    \/ \E t \in Transactions : Fence(t) \/ Restore(t)
    \/ ContainerRestarts \/ OperatorSwitches \/ ContainerFails \/ Edit

Next ==
    \/ StartUnbound
    \/ \E n \in Runs : Runner(n) \/ KillRunner(n)
    \/ Command \/ CliFails \/ CliDies
    \/ Surroundings

Spec == Init /\ [][Next]_vars

-----------------------------------------------------------------------------
(* Properties                                                              *)

\* completed_rollout_qualification_matches: bound evidence counts only as the receipt
\* of its completed upgrade.
IsReceipt(n) == tx[n].state = "completed" /\ tx[n].receipt = evidence[n]

\* acceptance_matches_host: the record is a pass with its manifest, and the inputs and
\* the runtime are those it was written for.
Qualifies(n) ==
    /\ evidence[n] # None
    /\ Matches(n) /\ Passed(n, manifest[n])
    /\ evidence[n].inputs = inputs
    /\ container.up /\ container.model = evidence[n].model
    /\ n > 0 => IsReceipt(n)

\* Evidence of a pass stands for a run that did all of its steps and passed each:
\* an interrupted, refused or failed run is never sealed as one, wherever its
\* runner, its command or its transaction ended.
SealedIsComplete ==
    \A n \in Runs : evidence[n] # None /\ evidence[n].manifest.status = "passed"
                      => did[n] = AllPassed(n)

\* All steps of a bound run that passed met one and the same container process,
\* although a docker restart by hand asks nobody and recovery may replace it while the
\* runner of a dead command is still at work.
BoundRunSawOneRuntime ==
    \A n \in Transactions :
        evidence[n] # None /\ evidence[n].manifest.status = "passed"
            => saw[n] = {evidence[n].manifest.frozen.process}

\* What qualifies was measured: a completed upgrade has the evidence its receipt
\* names on disk, unchanged, passed, and made with the inputs it was planned for;
\* what qualifies the host was measured with the inputs that are in place now, in
\* full, and a bound run on the model that runs now.
QualifiedIsMeasured ==
    /\ \A t \in Transactions : tx[t].state = "completed" =>
         /\ tx[t].receipt = evidence[t] /\ evidence[t] # None
         /\ evidence[t].manifest.status = "passed"
         /\ evidence[t].inputs = tx[t].inputs
    /\ \A n \in Runs : Qualifies(n) =>
         /\ manifest[n].frozen.inputs = inputs
         /\ n > 0 => manifest[n].frozen.model = container.model

\* A run that was opened, that nobody kills and nothing disturbs ends sealed,
\* passed or failed: its own checks never throw a good record away.
RunsAreSealed ==
    [][\A n \in Runs : manifest[n] # None /\ InProgress(n) /\ run'[n].at = "done"
         => evidence'[n] # None \/ n \in disturbed]_vars

=============================================================================
