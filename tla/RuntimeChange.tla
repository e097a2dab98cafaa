----------------------------- MODULE RuntimeChange -----------------------------
(***************************************************************************)
(* The commands that change the production runtime (deploy, upgrade,       *)
(* rollback, release and profile in cli.py), what they change, and the     *)
(* recovery of an unfinished change (reconcile --yes), composed with the   *)
(* transaction document and the rollback store.                            *)
(*                                                                         *)
(* The runtime is the selected model (profiles/deployment.local.env), the  *)
(* running container, which is named after its model, and the container of *)
(* a release candidate, which answers to the same alias.  A call of the    *)
(* transaction store is one step (TransactionStore shows why), refused     *)
(* while runtime work holds transaction.lock.  Any step of a command may   *)
(* instead raise or be its last; a refused call is one that raises.        *)
(* Upgrades are qualified by the quick tier.                               *)
(***************************************************************************)
EXTENDS TransactionRecord, RollbackPointer

CONSTANTS
  Model,        \* Catalog entries
  NoModel,      \* no container is running
  Commander,    \* processes that run the commands
  Reconciler,   \* processes that run reconcile --yes
  Commands,     \* the operations that are run
  MaxTx         \* bound: how many transactions are begun

ASSUME RuntimeChangeAssumption ==
  /\ MaxTx \in Nat
  /\ NoModel \notin Model
  /\ Commands \subseteq Operations
  /\ Commander \cap Reconciler = {}

Ids == 1 .. MaxTx
Process == Commander \union Reconciler

VARIABLES
  slot,        \* transaction.json
  intent,      \* what each transaction froze when it began
  objects,     \* the anchors in the rollback store
  pointer,     \* the rollback pointer
  selection,   \* the selected model
  container,   \* the model of the running container
  healthy,     \* its health probe answers
  candidate,   \* the candidate's container: "none", "up", or "stuck" once
               \* docker failed to stop it
  cmd,         \* what each commander is doing
  rec,         \* what each reconciler is doing
  work         \* the runtime work each process started, {} or a singleton

vars == <<slot, intent, objects, pointer, selection, container, healthy,
          candidate, cmd, rec, work>>
runtime == <<selection, container, healthy, candidate>>
store == <<objects, pointer>>

\* _original_runtime: the container is looked up under the selected name.
Current ==
  [selection |-> selection, healthy |-> healthy,
   model |-> IF container = selection THEN container ELSE NoModel]

Nothing == [selection |-> NoModel, healthy |-> FALSE, model |-> NoModel]
NoIntent == [op |-> "none", original |-> Nothing, target |-> NoModel, spec |-> 0,
             previous |-> NoPointer]

\* "captured": has its original, a rollout takes it as it begins; "act": before the next action of the
\* plan; "publish": asserted the pending pointer action; "wait": on its work;
\* "journal": the action is done; "failing": raised, the failure is not marked.
Quiet == [at |-> "idle", id |-> 0, state |-> "none", step |-> 0,
          original |-> Nothing]

\* "fenced", "planned", "confirm", "restore", "profile", "spawn", "wait",
\* "verify", "pointer", "cas", "resolve", "reopen", "close", "failing".
Away == [at |-> "idle", id |-> 0, name |-> NoModel]

Init ==
  /\ slot = NoDoc
  /\ intent = [id \in Ids |-> NoIntent]
  /\ objects = {}
  /\ pointer = NoPointer
  /\ selection \in Model
  /\ container \in {selection, NoModel}
  /\ healthy = (container # NoModel)
  /\ candidate = "none"
  /\ cmd = [c \in Commander |-> Quiet]
  /\ rec = [r \in Reconciler |-> Away]
  /\ work = [p \in Process |-> {}]

--------------------------------------------------------------------------------
\* No runtime work has the two locks.
LocksFree == \A p \in Process : \A w \in work[p] : w.at = "spawned"

DeployPlan == FetchActions \o <<"activate-target", "start-target", "target-quick">>

\* The release script does the whole release; then the runtime is verified.
ReleasePlan == <<"release", "verify-restored">>

\* What the transaction of a command froze, and its plan, journalled or not.
Mine(c) == intent[cmd[c].id]
IsMineRollout(c) == Mine(c).op \in RolloutOperations
Actions(c) ==
  CASE Mine(c).op = "deploy" -> DeployPlan
    [] Mine(c).op = "release" -> ReleasePlan
    [] Mine(c).op = "profile" -> <<"switch-profile">>
    [] OTHER -> Plan(Mine(c).op, "quick")
HasNext(c) == cmd[c].step < Len(Actions(c))
NextKind(c) == Actions(c)[cmd[c].step + 1]

\* The fields of the slot a command relies on: its id, and for a rollout the
\* state and the ordinal it last saw (expected_id, expected_state,
\* expected_action_ordinal).
CasHolds(c) ==
  /\ slot.id = cmd[c].id
  /\ IsRollout(slot) => slot.state = cmd[c].state /\ slot.ordinal = cmd[c].step

\* release enters its three states one after the other, before its script runs.
ReleaseStates ==
  [planned |-> "production_stopping", production_stopping |-> "candidate_starting",
   candidate_starting |-> "accepting", accepting |-> "accepting"]

\* The state a command enters before its next action, or before its plan.
StateBefore(c) ==
  CASE NextKind(c) = "release" -> ReleaseStates[cmd[c].state]
    [] NextKind(c) = "verify-restored" -> "production_restoring"
    [] Mine(c).op \in {"deploy", "profile"} /\ cmd[c].state = "planned" -> "deploying"
    [] IsMineRollout(c) /\ NextKind(c) = "stop-source" -> "production_stopping"
    [] IsMineRollout(c) /\ NextKind(c) = "activate-target" -> "candidate_starting"
    [] NextKind(c) = "target-quick" /\ cmd[c].state # "planned" -> "accepting"
    [] OTHER -> cmd[c].state

\* The command takes an action of this kind, in the state that is due.
At(c, kind) ==
  /\ cmd[c].at = "act"
  /\ HasNext(c)
  /\ NextKind(c) = kind
  /\ StateBefore(c) = cmd[c].state

\* What its work presents to the runtime boundary.
Pending(c) ==
  IF IsMineRollout(c)
  THEN Presented("action", cmd[c].id, cmd[c].step, NextKind(c))
  ELSE Presented("bound", cmd[c].id, 0, "none")

--------------------------------------------------------------------------------
\* deploy, release and profile look at the runtime they may have to restore, then
\* begin.
CaptureOriginal(c) ==
  /\ Commands \ RolloutOperations # {}
  /\ cmd[c].at = "idle"
  /\ cmd' = [cmd EXCEPT ![c] = [Quiet EXCEPT !.at = "captured",
                                             !.original = Current]]
  /\ UNCHANGED <<slot, intent, objects, pointer, runtime, rec, work>>

BeginWith(c, frozen) ==
  /\ LocksFree
  /\ ~IsActive(slot)
  /\ slot.id < MaxTx
  /\ slot' = NewDoc(slot.id + 1, frozen.op, "quick", {c})
  /\ intent' = [intent EXCEPT ![slot.id + 1] = frozen]
  /\ cmd' = [cmd EXCEPT ![c] = [Quiet EXCEPT !.at = "act", !.id = slot.id + 1,
                                             !.state = "planned"]]
  /\ UNCHANGED <<pointer, runtime, rec, work>>

BeginDeploy(c, target) ==
  /\ "deploy" \in Commands
  /\ cmd[c].at = "captured"
  /\ BeginWith(c, [NoIntent EXCEPT !.op = "deploy", !.target = target,
                                   !.original = cmd[c].original])
  /\ UNCHANGED objects

BeginRelease(c) ==
  /\ "release" \in Commands
  /\ cmd[c].at = "captured"
  /\ BeginWith(c, [NoIntent EXCEPT !.op = "release", !.original = cmd[c].original])
  /\ UNCHANGED objects

BeginProfile(c) ==
  /\ "profile" \in Commands
  /\ cmd[c].at = "captured"
  /\ BeginWith(c, [NoIntent EXCEPT !.op = "profile", !.original = cmd[c].original])
  /\ UNCHANGED objects

\* _rollout_intent: what a rollout freezes, with the pointer as it is.
RolloutIntent(op, original, target, spec) ==
  [op |-> op, original |-> original, target |-> target, spec |-> spec,
   previous |-> pointer]

\* The capture of an upgrade, under both locks: a healthy source, its anchor
\* stored, and the pointer as it is.
BeginUpgrade(c, target) ==
  /\ "upgrade" \in Commands
  /\ cmd[c].at = "idle"
  /\ target # selection
  /\ healthy /\ container = selection
  /\ BeginWith(c, RolloutIntent("upgrade", Current, target, slot.id + 1))
  /\ objects' = objects \union {slot.id + 1}

\* The runtime an anchor restores (recovery_original).
AnchorOriginal(spec) == intent[spec].original

\* verify_rollback_spec, of what it rechecks the anchor itself: it is in the store.
\* What else may have changed is a reason to raise.
AnchorIsVerified(spec) == spec \in objects

\* The capture of a rollback: the active anchor, which is not the selection, is
\* its target and its recovery subject.
BeginRollback(c) ==
  /\ "rollback" \in Commands
  /\ cmd[c].at = "idle"
  /\ AnchorIsVerified(pointer.active)
  /\ LET original == AnchorOriginal(pointer.active)
     IN  /\ original.selection # selection
         /\ BeginWith(c, RolloutIntent("rollback", original, original.selection,
                                       pointer.active))
  /\ UNCHANGED objects

CommandTransition(c, state) ==
  /\ LocksFree
  /\ CasHolds(c)
  /\ CanTransition(slot, state)
  /\ slot' = Transitioned(slot, state)
  /\ UNCHANGED <<intent, store, runtime, rec, work>>

\* The transition in front of an action.
Enter(c) ==
  /\ cmd[c].at = "act"
  /\ HasNext(c)
  /\ StateBefore(c) # cmd[c].state
  /\ CommandTransition(c, StateBefore(c))
  /\ cmd' = [cmd EXCEPT ![c].state = StateBefore(c)]

\* An action is done: a rollout journals it, a deploy goes on.
Done(c) ==
  cmd' = IF IsMineRollout(c) THEN [cmd EXCEPT ![c].at = "journal"]
                             ELSE [cmd EXCEPT ![c].at = "act", ![c].step = @ + 1]

\* approved_catalog_action: a model action of a transaction is the one that is due,
\* and approved.
ApprovedAction(req, kind) ==
  /\ req.mode = "action" => req.kind = kind
  /\ Approved(slot, req)

\* model-manager.py download: nothing the runtime depends on changes.
Fetch(c) ==
  /\ At(c, "fetch-target-artifact")
  /\ LocksFree
  /\ ApprovedAction(Pending(c), "fetch-target-artifact")
  /\ Authorized(slot, Pending(c))
  /\ Done(c)
  /\ UNCHANGED <<slot, intent, store, runtime, rec, work>>

\* acceptance-suite.sh quick: the pending action, the selection of its subject
\* and the canonical profile of a healthy container are asserted throughout.
QuickPasses(c) ==
  /\ \/ At(c, "source-quick") /\ selection = Mine(c).original.selection
     \/ At(c, "target-quick") /\ selection = Mine(c).target
  /\ Authorized(slot, Pending(c))
  /\ healthy /\ container = selection
  /\ Done(c)
  /\ UNCHANGED <<slot, intent, store, runtime, rec, work>>

WorkKinds ==
  {"stop-source", "activate-target", "start-target", "release", "switch-profile"}

\* The command starts runtime.sh stop, start or profile, model-manager.py select,
\* or release-candidate.sh.
SpawnWork(c) ==
  \E kind \in WorkKinds :
    /\ At(c, kind)
    /\ ~(Mine(c).op = "rollback" /\ kind = "activate-target")
    /\ work[c] = {}
    /\ work' = [work EXCEPT ![c] = {[at |-> "spawned", req |-> Pending(c),
                                     does |-> kind, model |-> Mine(c).target,
                                     script |-> "passing"]}]
    /\ cmd' = [cmd EXCEPT ![c].at = "wait"]
    /\ UNCHANGED <<slot, intent, store, runtime, rec>>

\* rollback writes the selection of its anchor itself, inside both locks.
ActivateAnchor(c) ==
  /\ At(c, "activate-target")
  /\ Mine(c).op = "rollback"
  /\ LocksFree
  /\ Authorized(slot, Pending(c))
  /\ AnchorIsVerified(Mine(c).spec)
  /\ selection' = AnchorOriginal(Mine(c).spec).selection
  /\ Done(c)
  /\ UNCHANGED <<slot, intent, store, container, healthy, candidate, rec, work>>

\* Mutant: healthy is taken for restored.
RestoredWhenHealthy(original) ==
  IF original.healthy THEN healthy /\ container = selection
                      ELSE container # original.selection

\* _verify_restored_runtime.
Restored(original) ==
  IF original.healthy
  THEN healthy /\ container = selection /\ container = original.model
  ELSE container # original.selection

\* release verifies what its script restored.
VerifyRelease(c) ==
  /\ At(c, "verify-restored")
  /\ Restored(Mine(c).original)
  /\ Done(c)
  /\ UNCHANGED <<slot, intent, store, runtime, rec, work>>

\* The pending pointer action is asserted, then the pointer is written.
AssertPointerAction(c) ==
  /\ \/ At(c, "publish-rollback") \/ At(c, "clear-rollback")
  /\ LocksFree
  /\ Approved(slot, Pending(c))
  /\ cmd' = [cmd EXCEPT ![c].at = "publish"]
  /\ UNCHANGED <<slot, intent, store, runtime, rec, work>>

PublishRollback(c) ==
  /\ cmd[c].at = "publish"
  /\ Mine(c).op = "upgrade"
  /\ AnchorIsVerified(Mine(c).spec)
  /\ CanPublish(pointer, objects, Mine(c).spec,
                Mine(c).previous.generation, Mine(c).previous.active)
  /\ pointer' = Successor(pointer, Mine(c).spec, cmd[c].id)
  /\ cmd' = [cmd EXCEPT ![c].at = "journal"]
  /\ UNCHANGED <<slot, intent, objects, runtime, rec, work>>

ClearRollback(c) ==
  /\ cmd[c].at = "publish"
  /\ Mine(c).op = "rollback"
  /\ CanClear(pointer, objects, Mine(c).previous.generation, Mine(c).spec)
  /\ pointer' = Successor(pointer, 0, cmd[c].id)
  /\ cmd' = [cmd EXCEPT ![c].at = "journal"]
  /\ UNCHANGED <<slot, intent, objects, runtime, rec, work>>

\* _advance_rollout: the journal entry of the finished action.
Journal(c) ==
  /\ cmd[c].at = "journal"
  /\ LocksFree
  /\ CasHolds(c)
  /\ CanAdvance(slot, cmd[c].step, NextKind(c))
  /\ slot' = Advanced(slot, cmd[c].step, NextKind(c))
  /\ cmd' = [cmd EXCEPT ![c].at = "act", ![c].step = @ + 1]
  /\ UNCHANGED <<intent, store, runtime, rec, work>>

Complete(c) ==
  /\ cmd[c].at = "act"
  /\ ~HasNext(c)
  /\ CommandTransition(c, "completed")
  /\ cmd' = [cmd EXCEPT ![c] = Quiet]

\* _mark_recovery_required: only its own transaction, and only when the
\* transition is legal; the command exits either way.
Marked(id) ==
  IF slot.id = id /\ slot.state # "recovery_required"
       /\ CanTransition(slot, "recovery_required")
  THEN Transitioned(slot, "recovery_required")
  ELSE slot

\* runner.run kills the program it waited for, but not what a shell among them
\* has started under the locks; of a release script, the one program it was at.
Survivors(works) ==
  {[w EXCEPT !.script = "killed"] :
     w \in {v \in works : v.at = "running" /\ v.does # "activate-target"}}

\* An exception or an interrupt anywhere in the plan.
Raise(c) ==
  /\ cmd[c].at \in {"act", "publish", "journal", "wait"}
  /\ cmd' = [cmd EXCEPT ![c].at = "failing"]
  /\ work' = IF cmd[c].at = "wait" THEN [work EXCEPT ![c] = Survivors(@)] ELSE work
  /\ UNCHANGED <<slot, intent, store, runtime, rec>>

Mark(c) ==
  /\ cmd[c].at = "failing"
  /\ LocksFree
  /\ slot' = Marked(cmd[c].id)
  /\ cmd' = [cmd EXCEPT ![c] = Quiet]
  /\ UNCHANGED <<intent, store, runtime, rec, work>>

\* The command is killed, or gives up marking; its work lives on.
Die(c) ==
  /\ cmd[c].at # "idle"
  /\ cmd' = [cmd EXCEPT ![c] = Quiet]
  /\ UNCHANGED <<slot, intent, store, runtime, rec, work>>

--------------------------------------------------------------------------------
\* The work of a process is over; a process that still waits for it goes on, or
\* fails.
CmdAfter(p, ok) ==
  IF p \in Commander /\ cmd[p].at = "wait"
  THEN IF ok THEN Done(p) ELSE cmd' = [cmd EXCEPT ![p].at = "failing"]
  ELSE UNCHANGED cmd

RecAfter(p, ok) ==
  IF p \in Reconciler /\ rec[p].at = "wait"
  THEN rec' = [rec EXCEPT ![p].at = IF ok THEN "verify" ELSE "failing"]
  ELSE UNCHANGED rec

WorkOver(p, ok) ==
  /\ work' = [work EXCEPT ![p] = {}]
  /\ CmdAfter(p, ok)
  /\ RecAfter(p, ok)

\* runtime.lock is tried, transaction.lock follows, and the authority is decided
\* on the slot under both.
WorkEnters(p) ==
  /\ \E w \in work[p] :
       /\ w.at = "spawned"
       /\ LocksFree
       /\ Authorized(slot, w.req)
       /\ w.does = "activate-target" => ApprovedAction(w.req, "activate-target")
       /\ work' = [work EXCEPT ![p] = {[w EXCEPT !.at = "running"]}]
  /\ UNCHANGED <<slot, intent, store, runtime, cmd, rec>>

\* What release-candidate.sh does once its trap is set.
ReleaseSteps ==
  {"stop-production", "start-candidate", "accept-candidate", "stop-candidate",
   "restore-production"}

\* Refused, or failed before it changed anything.
WorkFails(p) ==
  /\ \E w \in work[p] : w.does \notin ReleaseSteps \/ w.script = "killed"
  /\ WorkOver(p, FALSE)
  /\ UNCHANGED <<slot, intent, store, runtime>>

\* model-manager.py select.
WorkSelects(p, w) ==
  /\ w.does = "activate-target"
  /\ selection' = w.model
  /\ WorkOver(p, TRUE)
  /\ UNCHANGED <<container, healthy, candidate>>

\* runtime.sh stop.
WorkStops(p, w) ==
  /\ w.does = "stop-source"
  /\ container' = NoModel
  /\ healthy' = FALSE
  /\ WorkOver(p, TRUE)
  /\ UNCHANGED <<selection, candidate>>

\* assert_deployment_binding: the approved model is the selected one.
SelectedIsApproved(w) == selection = w.model

\* runtime.sh start for a transaction that approved the selected model, or
\* runtime.sh profile; compose replaces the container, which has to become healthy.
WorkStarts(p, w) ==
  /\ \/ w.does = "start-target" /\ SelectedIsApproved(w)
     \/ w.does = "switch-profile"
  /\ container' = selection
  /\ healthy' \in BOOLEAN
  /\ WorkOver(p, healthy')
  /\ UNCHANGED <<selection, candidate>>

\* The candidate after its compose down failed.
StopFailed == IF candidate = "none" THEN "none" ELSE "stuck"

\* Mutant: runtime-reconcile.sh leaves a candidate alone.
WorkRestoresProduction(p, w) ==
  /\ w.does = "restore"
  /\ intent[w.req.id].original.healthy
  /\ container' = selection
  /\ healthy' \in BOOLEAN
  /\ WorkOver(p, healthy')
  /\ UNCHANGED <<selection, candidate>>

\* runtime-reconcile.sh: the candidate is stopped first; then the selected model is
\* started again, or, when the original was not healthy, the containers it knows
\* by name are stopped.
WorkRestores(p, w) ==
  /\ w.does = "restore"
  /\ \/ /\ candidate' = StopFailed
        /\ WorkOver(p, FALSE)
        /\ UNCHANGED <<container, healthy>>
     \/ /\ candidate' = "none"
        /\ intent[w.req.id].original.healthy
        /\ container' = selection
        /\ healthy' \in BOOLEAN
        /\ WorkOver(p, healthy')
     \/ /\ candidate' = "none"
        /\ ~intent[w.req.id].original.healthy
        /\ container' = IF container \in {w.model, selection} THEN NoModel
                                                              ELSE container
        /\ healthy' = (healthy /\ container' # NoModel)
        /\ WorkOver(p, TRUE)
  /\ UNCHANGED selection

\* The release script goes on with its next program; when it was killed, the one
\* it was at is the last.
ScriptGoesOn(p, w, next) ==
  IF w.script = "killed"
  THEN WorkOver(p, FALSE)
  ELSE /\ work' = [work EXCEPT ![p] = {next}]
       /\ UNCHANGED <<cmd, rec>>

Failing(w) == [w EXCEPT !.script = "failing"]

\* release-candidate.sh notes whether production runs, and verifies the artifacts;
\* where that fails its trap restores production.
ReleaseBegins(p, w) ==
  /\ w.does = "release"
  /\ LET noted == [w EXCEPT !.model = IF container = selection THEN container
                                                              ELSE NoModel]
     IN  \E next \in {[noted EXCEPT !.does = "stop-production"],
                       Failing([noted EXCEPT !.does = "restore-production"])} :
           ScriptGoesOn(p, w, next)
  /\ UNCHANGED runtime

\* runtime.sh stop.
ReleaseStops(p, w) ==
  /\ w.does = "stop-production"
  /\ \/ /\ container' = NoModel
        /\ healthy' = FALSE
        /\ ScriptGoesOn(p, w, [w EXCEPT !.does = "start-candidate"])
     \/ /\ ScriptGoesOn(p, w, Failing([w EXCEPT !.does = "restore-production"]))
        /\ UNCHANGED <<container, healthy>>
  /\ UNCHANGED <<selection, candidate>>

\* candidate-runtime.sh start: never beside a running production.
ReleaseStartsCandidate(p, w) ==
  /\ w.does = "start-candidate"
  /\ \/ /\ container # selection
        /\ candidate' = "up"
        /\ \E next \in {[w EXCEPT !.does = "accept-candidate"],
                         Failing([w EXCEPT !.does = "stop-candidate"])} :
             ScriptGoesOn(p, w, next)
     \/ /\ ScriptGoesOn(p, w, Failing([w EXCEPT !.does = "stop-candidate"]))
        /\ UNCHANGED candidate
  /\ UNCHANGED <<selection, container, healthy>>

\* candidate-runtime.sh accept, and the long tier.
ReleaseAccepts(p, w) ==
  /\ w.does = "accept-candidate"
  /\ LET next == [w EXCEPT !.does = "stop-candidate"]
     IN  \/ candidate # "none" /\ ScriptGoesOn(p, w, next)
         \/ ScriptGoesOn(p, w, Failing(next))
  /\ UNCHANGED runtime

\* recover: the candidate is stopped ...
ReleaseStopsCandidate(p, w) ==
  /\ w.does = "stop-candidate"
  /\ LET next == [w EXCEPT !.does = "restore-production"]
     IN  \/ /\ candidate' = "none"
            /\ ScriptGoesOn(p, w, next)
         \/ /\ candidate' = StopFailed
            /\ ScriptGoesOn(p, w, Failing(next))
  /\ UNCHANGED <<selection, container, healthy>>

\* ... and whatever came of that, production is started if it ran before.  The
\* script succeeds if both it and its recovery did.
ReleaseRestores(p, w) ==
  /\ w.does = "restore-production"
  /\ \/ /\ w.model # NoModel
        /\ container' = selection
        /\ healthy' \in BOOLEAN
        /\ WorkOver(p, healthy' /\ w.script = "passing")
     \/ /\ WorkOver(p, w.model = NoModel /\ w.script = "passing")
        /\ UNCHANGED <<container, healthy>>
  /\ UNCHANGED <<selection, candidate>>

ReleaseStep(p, w) ==
  \/ ReleaseBegins(p, w) \/ ReleaseStops(p, w) \/ ReleaseStartsCandidate(p, w)
  \/ ReleaseAccepts(p, w) \/ ReleaseStopsCandidate(p, w) \/ ReleaseRestores(p, w)

WorkActs(p) ==
  /\ \E w \in work[p] :
       /\ w.at = "running"
       /\ \/ WorkSelects(p, w) \/ WorkStops(p, w) \/ WorkStarts(p, w)
          \/ WorkRestores(p, w) \/ ReleaseStep(p, w)
  /\ UNCHANGED <<slot, intent, store>>

\* A container stops by itself, or the supervisor starts the selected one while no
\* transaction is open (runtime-reconcile.sh once more).
ContainerExits ==
  /\ container # NoModel
  /\ container' = NoModel
  /\ healthy' = FALSE
  /\ UNCHANGED <<slot, intent, store, selection, candidate, cmd, rec, work>>

CandidateExits ==
  /\ candidate # "none"
  /\ candidate' = "none"
  /\ UNCHANGED <<slot, intent, store, selection, container, healthy, cmd, rec, work>>

SupervisorStarts ==
  /\ ~IsActive(slot)
  /\ LocksFree
  /\ ~healthy
  /\ candidate' = "none"
  /\ container' = selection
  /\ healthy' \in BOOLEAN
  /\ UNCHANGED <<slot, intent, store, selection, cmd, rec, work>>

--------------------------------------------------------------------------------
Goes(r, at) == rec' = [rec EXCEPT ![r].at = at]

\* Mutant: the fence believes that the initiator is gone.
InitiatorAssumedDead == TRUE

\* No process is at work on the transaction in the slot.
InitiatorDead ==
  \A c \in slot.owner : cmd[c].at = "idle" \/ cmd[c].id # slot.id

\* reconcile --yes first fences an orphan, whatever it was doing, and reads the
\* plan again.
FenceOrphan(r) ==
  /\ rec[r].at = "idle"
  /\ IsActive(slot)
  /\ slot.state # "recovery_required"
  /\ LocksFree
  /\ InitiatorDead
  /\ slot' = [slot EXCEPT !.state = "recovery_required", !.fenced = TRUE]
  /\ Goes(r, "fenced")
  /\ UNCHANGED <<intent, store, runtime, cmd, work>>

ReadPlan(r) ==
  /\ rec[r].at \in {"idle", "fenced"}
  /\ IsActive(slot)
  /\ slot.state = "recovery_required"
  /\ rec' = [rec EXCEPT ![r] = [Away EXCEPT !.at = "planned", !.id = slot.id]]
  /\ UNCHANGED <<slot, intent, store, runtime, cmd, work>>

Recovers(r) == intent[rec[r].id]
RecoversRollout(r) == Recovers(r).op \in RolloutOperations

\* _verified_rollout_recovery_anchor: the anchor the rollout named, and it restores
\* the runtime the transaction recorded.
RecoveryAnchorHolds(r) ==
  RecoversRollout(r) =>
    /\ AnchorIsVerified(Recovers(r).spec)
    /\ AnchorOriginal(Recovers(r).spec) = Recovers(r).original

\* recovery_original_is_safe.
Safe(original) == original.healthy => original.model # NoModel

\* _reconciliation_runtime_plan: what is there, not what ought to be.
Classify(r) ==
  /\ rec[r].at = "planned"
  /\ LET original == Recovers(r).original
     IN  \/ /\ Restored(original) /\ (healthy => original.healthy)
            /\ Goes(r, "confirm")
         \/ /\ ~(Restored(original) /\ (healthy => original.healthy))
            /\ Safe(original)
            /\ Goes(r, "restore")
  /\ UNCHANGED <<slot, intent, store, runtime, cmd, work>>

\* The runtime is the original already: a rollout verifies its anchor, runs the
\* quick suite and undoes its pointer, another transaction is resolved.
Confirm(r) ==
  /\ rec[r].at = "confirm"
  /\ RecoveryAnchorHolds(r)
  /\ RecoversRollout(r) => Restored(Recovers(r).original)
  /\ Goes(r, IF RecoversRollout(r) THEN "pointer" ELSE "resolve")
  /\ UNCHANGED <<slot, intent, store, runtime, cmd, work>>

\* transition("production_restoring"), after the anchor was verified.
BeginRestoring(r) ==
  /\ rec[r].at = "restore"
  /\ LocksFree
  /\ RecoveryAnchorHolds(r)
  /\ slot.id = rec[r].id
  /\ CanTransition(slot, "production_restoring")
  /\ slot' = Transitioned(slot, "production_restoring")
  /\ Goes(r, "profile")
  /\ UNCHANGED <<intent, store, runtime, cmd, work>>

\* Mutant: the profile is named after the captured container.
RestoreProfileOfContainer(r) ==
  /\ rec[r].at = "profile"
  /\ rec' = [rec EXCEPT ![r].at = "spawn", ![r].name = selection]
  /\ selection' = Recovers(r).original.model
  /\ UNCHANGED <<slot, intent, store, container, healthy, candidate, cmd, work>>

\* _restore_deployment_profile, outside every lock.
RestoreProfile(r) ==
  /\ rec[r].at = "profile"
  /\ rec' = [rec EXCEPT ![r].at = "spawn", ![r].name = selection]
  /\ selection' = Recovers(r).original.selection
  /\ UNCHANGED <<slot, intent, store, container, healthy, candidate, cmd, work>>

\* The restore inherits the id of the transaction alone.
SpawnRestore(r) ==
  /\ rec[r].at = "spawn"
  /\ work[r] = {}
  /\ work' = [work EXCEPT ![r] = {[at |-> "spawned", does |-> "restore",
                                   req |-> Presented("restore", rec[r].id, 0, "none"),
                                   model |-> rec[r].name, script |-> "passing"]}]
  /\ Goes(r, "wait")
  /\ UNCHANGED <<slot, intent, store, runtime, cmd>>

Verify(r) ==
  /\ rec[r].at = "verify"
  /\ RecoveryAnchorHolds(r)
  /\ Restored(Recovers(r).original)
  /\ Goes(r, IF RecoversRollout(r) THEN "pointer" ELSE "resolve")
  /\ UNCHANGED <<slot, intent, store, runtime, cmd, work>>

\* What the pointer action of a rollout makes active.
OwnActive(id) == IF intent[id].op = "upgrade" THEN intent[id].spec ELSE 0

\* The pointer as this transaction found it, or as it put it back before.
PointerIsBack(id) ==
  \/ pointer = intent[id].previous
  \/ /\ pointer.generation = intent[id].previous.generation + 2
     /\ pointer.active = intent[id].previous.active
     /\ pointer.previous = OwnActive(id)
     /\ pointer.by = id

CanUndoPointer(id) ==
  CanRestore(pointer, objects, intent[id].previous,
             intent[id].previous.generation + 1, OwnActive(id))

\* Mutant: a pointer the rollout wrote is not put back.
ReadPointerTrusting(r) ==
  /\ rec[r].at = "pointer"
  /\ Goes(r, "resolve")
  /\ UNCHANGED <<slot, intent, store, runtime, cmd, work>>

\* _restore_rollout_pointer reads the pointer first and compares again when it
\* writes.
ReadPointer(r) ==
  /\ rec[r].at = "pointer"
  /\ Goes(r, IF PointerIsBack(rec[r].id) THEN "resolve" ELSE "cas")
  /\ UNCHANGED <<slot, intent, store, runtime, cmd, work>>

\* Mutant: the pointer is written as it was read, without the comparison.
RestorePointerBlind(r) ==
  /\ rec[r].at = "cas"
  /\ pointer' = Successor(pointer, Recovers(r).previous.active, rec[r].id)
  /\ Goes(r, "resolve")
  /\ UNCHANGED <<slot, intent, objects, runtime, cmd, work>>

\* Mutant: the anchor before the previous one is put back.
RestorePointerTooFar(r) ==
  /\ rec[r].at = "cas"
  /\ CanUndoPointer(rec[r].id)
  /\ pointer' = Successor(pointer, Recovers(r).previous.previous, rec[r].id)
  /\ Goes(r, "resolve")
  /\ UNCHANGED <<slot, intent, objects, runtime, cmd, work>>

\* store.restore, under rollback.lock.
RestorePointer(r) ==
  /\ rec[r].at = "cas"
  /\ CanUndoPointer(rec[r].id)
  /\ pointer' = Successor(pointer, Recovers(r).previous.active, rec[r].id)
  /\ Goes(r, "resolve")
  /\ UNCHANGED <<slot, intent, objects, runtime, cmd, work>>

\* _resolve_verified_transaction reads the state and takes the transitions that
\* are left, each under the id it began with.
Resolve(r) ==
  /\ rec[r].at = "resolve"
  /\ slot.id = rec[r].id
  /\ \/ slot.state = "production_restoring" /\ Goes(r, "close")
     \/ slot.state = "recovery_required" /\ Goes(r, "reopen")
  /\ UNCHANGED <<slot, intent, store, runtime, cmd, work>>

Reopen(r) ==
  /\ rec[r].at = "reopen"
  /\ LocksFree
  /\ slot.id = rec[r].id
  /\ CanTransition(slot, "production_restoring")
  /\ slot' = Transitioned(slot, "production_restoring")
  /\ Goes(r, "close")
  /\ UNCHANGED <<intent, store, runtime, cmd, work>>

Close(r) ==
  /\ rec[r].at = "close"
  /\ LocksFree
  /\ slot.id = rec[r].id
  /\ CanTransition(slot, "failed-restored")
  /\ slot' = Transitioned(slot, "failed-restored")
  /\ rec' = [rec EXCEPT ![r] = Away]
  /\ UNCHANGED <<intent, store, runtime, cmd, work>>

\* An exception or an interrupt where the reconciler marks the transaction.
RecoveryRaises(r) ==
  /\ rec[r].at \in {"confirm", "restore", "profile", "spawn", "wait", "verify",
                    "pointer", "cas"}
  /\ rec[r].at = "confirm" => RecoversRollout(r)
  /\ Goes(r, "failing")
  /\ work' = IF rec[r].at = "wait" THEN [work EXCEPT ![r] = Survivors(@)] ELSE work
  /\ UNCHANGED <<slot, intent, store, runtime, cmd>>

MarkRecovery(r) ==
  /\ rec[r].at = "failing"
  /\ LocksFree
  /\ slot' = Marked(rec[r].id)
  /\ rec' = [rec EXCEPT ![r] = Away]
  /\ UNCHANGED <<intent, store, runtime, cmd, work>>

\* The reconciler is killed, or fails where nothing is marked.
Leave(r) ==
  /\ rec[r].at # "idle"
  /\ rec' = [rec EXCEPT ![r] = Away]
  /\ UNCHANGED <<slot, intent, store, runtime, cmd, work>>

CommandStep(c) ==
  \/ CaptureOriginal(c)
  \/ \E target \in Model : BeginDeploy(c, target) \/ BeginUpgrade(c, target)
  \/ BeginRollback(c) \/ BeginRelease(c) \/ BeginProfile(c)
  \/ Enter(c) \/ Fetch(c) \/ QuickPasses(c) \/ SpawnWork(c) \/ ActivateAnchor(c)
  \/ VerifyRelease(c) \/ AssertPointerAction(c) \/ PublishRollback(c) \/ ClearRollback(c)
  \/ Journal(c) \/ Complete(c) \/ Raise(c) \/ Mark(c) \/ Die(c)

WorkStep(p) == WorkEnters(p) \/ WorkFails(p) \/ WorkActs(p)

RecoveryStep(r) ==
  \/ FenceOrphan(r) \/ ReadPlan(r) \/ Classify(r) \/ Confirm(r)
  \/ BeginRestoring(r) \/ RestoreProfile(r) \/ SpawnRestore(r) \/ Verify(r)
  \/ ReadPointer(r) \/ RestorePointer(r) \/ Resolve(r) \/ Reopen(r) \/ Close(r)
  \/ RecoveryRaises(r) \/ MarkRecovery(r) \/ Leave(r)

Next ==
  \/ \E c \in Commander : CommandStep(c)
  \/ \E r \in Reconciler : RecoveryStep(r)
  \/ \E p \in Process : WorkStep(p)
  \/ ContainerExits \/ CandidateExits \/ SupervisorStarts

Spec == Init /\ [][Next]_vars

--------------------------------------------------------------------------------
Originals == [selection : Model \union {NoModel}, healthy : BOOLEAN,
              model : Model \union {NoModel}]
Pointers == PointerDocs(Ids, 0 .. 2 * slot.id)   \* each rollout writes it twice
Works == [at : {"spawned", "running"}, model : Model \union {NoModel},
          does : WorkKinds \union ReleaseSteps \union {"restore"},
          script : {"passing", "failing", "killed"},
          req : [mode : RequestModes, id : Ids, ordinal : Nat,
                 kind : ActionKinds \union {"none"}]]

TypeOK ==
  /\ slot.id \in 0 .. MaxTx
  /\ slot.state \in States \union {"none"}
  /\ intent \in [Ids -> [op : Operations \union {"none"}, original : Originals,
                         target : Model \union {NoModel}, spec : 0 .. MaxTx,
                         previous : Pointers]]
  /\ objects \subseteq Ids
  /\ pointer \in Pointers
  /\ selection \in Model
  /\ container \in Model \union {NoModel}
  /\ healthy \in BOOLEAN
  /\ candidate \in {"none", "up", "stuck"}
  /\ \A c \in Commander :
       /\ cmd[c].at \in {"idle", "captured", "act", "publish", "wait", "journal",
                         "failing"}
       /\ cmd[c].id \in 0 .. MaxTx
       /\ cmd[c].state \in States \union {"none"}
  /\ \A r \in Reconciler :
       /\ rec[r].at \in {"idle", "fenced", "planned", "confirm", "restore",
                         "profile", "spawn", "wait", "verify", "pointer", "cas",
                         "resolve", "reopen", "close", "failing"}
       /\ rec[r].id \in 0 .. MaxTx
  /\ work \in [Process -> SUBSET Works]

EndsAs(state) == slot.state # state /\ slot'.state = state

\* A change that completed is in effect.  deploy, upgrade and rollback: the target
\* is selected, and what runs, if anything does, is the target.  release: its
\* candidate is gone and production is as it was found, although the script works
\* on after the command has given up or died and its trap swallows what fails.
CompletedIsInEffect ==
  [][EndsAs("completed") =>
       LET done == intent[slot.id]
       IN  CASE done.op = "release" ->
                  /\ candidate = "none"
                  /\ IF done.original.healthy
                     THEN /\ selection = done.original.selection
                          /\ container \in {done.original.model, NoModel}
                     ELSE container # done.original.selection
             [] done.op = "profile" -> container \in {selection, NoModel}
             [] OTHER -> /\ selection = done.target
                         /\ container \in {done.target, NoModel}]_vars

\* "No point of failure leaves production and candidate behind together, holding
\* the stable alias" (docs/ROADMAP.md, phase 3): they run together only where
\* docker failed to stop the candidate, or after a release that found production
\* down, whose recovery does not look for a candidate (README, "Where the code
\* and its docs differ").
CandidateIsSerial ==
  candidate = "up" /\ container # NoModel =>
    \E id \in Ids : intent[id].op = "release" /\ ~intent[id].original.healthy

\* "... only after the recovery subject the transaction fixed in advance is
\* restored and verified" (docs/ARCHITECTURE.md): a change that ended
\* failed-restored left its subject selected, and running if anything does; the
\* subject is the source of an upgrade and the anchor of a rollback.
FailedIsUndone ==
  [][EndsAs("failed-restored") =>
       /\ selection = intent[slot.id].original.selection
       /\ container \in {intent[slot.id].original.model, NoModel}]_vars

\* The anchor of a rollout and its verdict agree: completing an upgrade leaves
\* its source as the active anchor, completing a rollback leaves none, and
\* undoing either leaves the anchor that was active before it.
AnchorFollowsVerdict ==
  [][/\ EndsAs("completed") /\ intent[slot.id].op = "upgrade"
          => pointer.active = intent[slot.id].spec
     /\ EndsAs("completed") /\ intent[slot.id].op = "rollback"
          => pointer.active = 0
     /\ EndsAs("failed-restored") /\ IsRollout(slot)
          => pointer.active = intent[slot.id].previous.active]_vars

\* Recovery of a rollout can always put the pointer back, wherever the command
\* and its recoveries died: it is as the transaction found it, as it wrote it,
\* or as it put it back, and recovery is never "replaying the old CAS forever"
\* (cli.py).  So it is where one process at most recovers; a reconciler that
\* another one overtook breaks it (README, "Where the code and its docs differ").
PointerIsRecoverable ==
  IsActive(slot) /\ IsRollout(slot) =>
    PointerIsBack(slot.id) \/ CanUndoPointer(slot.id)

\* What is left of it whoever recovers at the same time: a rollout that was the last
\* to write the pointer can put it back, however often it was written, read and put
\* back by recoveries that knew nothing of each other.
OwnWriteIsUndoable ==
  IsActive(slot) /\ IsRollout(slot) /\ pointer.by = slot.id =>
    PointerIsBack(slot.id) \/ CanUndoPointer(slot.id)

\* Another reconciler has closed what r recovers.
Overtaken(r) == ~(rec[r].id = slot.id /\ IsActive(slot))

\* Only the open rollout moves the pointer, but for a reconciler that was overtaken,
\* which at worst makes the anchor active again that its own transaction found; no
\* command moves it for a transaction that was taken from it.  Its anchors are
\* stored.
PointerHasOwner ==
  [][pointer' # pointer =>
       /\ {pointer'.active, pointer'.previous} \ {0} \subseteq objects
       /\ \/ IsActive(slot) /\ IsRollout(slot) /\ pointer'.by = slot.id
          \/ \E r \in Reconciler :
               /\ rec[r].at = "cas" /\ Overtaken(r)
               /\ pointer'.by = rec[r].id
               /\ pointer'.active = Recovers(r).previous.active]_vars

\* A rollback consumes its anchor: once it completed, that anchor is never
\* active again.
AnchorIsOneShot ==
  \A spec \in Ids :
    [](slot.state = "completed" /\ slot.op = "rollback"
         /\ intent[slot.id].spec = spec => [](pointer.active # spec))

\* "The runtime flock and the transaction identity protect every change; a
\* delayed failure of an old process cannot pollute a new transaction"
\* (docs/ARCHITECTURE.md): the selection moves for the open transaction alone,
\* to the model it deploys or to the one it recovers.
SelectionIsOwned ==
  selection' # selection =>
    /\ IsActive(slot)
    /\ selection' \in {intent[slot.id].target, intent[slot.id].original.selection}

\* "A surviving initiator or child runtime mutation cannot be mistaken for an
\* orphan" (_reconcile): once a transaction is fenced, no work its command left
\* behind enters the runtime for it.
FencedWorkIsOver ==
  \A c \in Commander : \A w \in work'[c] :
    w.at = "running" /\ w \notin work[c] => slot.state \notin RecoveryStates

\* "The original runtime was already restored and verified" (_reconcile, which
\* closes the transaction on it): the original counts as restored only while its
\* model is the selected one.
ConfirmedIsOriginal ==
  \A r \in Reconciler :
    rec[r].at = "planned" /\ rec'[r].at = "confirm"
      => selection = Recovers(r).original.selection

\* Recovery has the runtime to itself: every step is one of the three above.  So
\* it is for upgrades and rollbacks under one reconciler; a deploy breaks the
\* last two and a second reconciler the first (README, "Where the code and its
\* docs differ").
RecoveryIsExclusive ==
  [][SelectionIsOwned /\ FencedWorkIsOver /\ ConfirmedIsOriginal]_vars
================================================================================
