--------------------------- MODULE TransactionRecord ---------------------------
(***************************************************************************)
(* The durable transaction document of the control plane                   *)
(* (cache/control-plane/transaction.json) and the pure decisions the code  *)
(* takes on it: which transition is legal, which rollout action is next,   *)
(* and what a runtime mutation must show before it may touch the runtime.  *)
(*                                                                         *)
(* Digests, timestamps, the free-text detail and the file format are left  *)
(* out: a document is identified by its id, and the Catalog specs a        *)
(* rollout names never change after it was published.                      *)
(***************************************************************************)
EXTENDS Naturals, Sequences

CONSTANTS
  Fetches   \* number of required artifacts of an upgrade's target

ASSUME FetchesAssumption == Fetches \in Nat

States ==
  {"planned", "deploying", "production_stopping", "candidate_starting",
   "accepting", "recovery_required", "production_restoring",
   "completed", "failed-restored", "superseded-verified"}

\* The states of a schema v1 document; "failed" needs an explicit review.
LegacyStates ==
  {"planned", "deploying", "production_stopping", "candidate_starting",
   "accepting", "production_restoring", "failed", "completed"}

TerminalStates == {"completed", "failed-restored", "superseded-verified"}

\* ROLLOUT_RECOVERY_STATES: a rollout here has no action authority left.
RecoveryStates == {"recovery_required", "production_restoring"}

AllowedTransitions ==
  [s \in States |->
    CASE s = "planned" ->
           {"production_stopping", "candidate_starting", "deploying",
            "recovery_required"}
      [] s = "deploying" ->
           {"accepting", "production_restoring", "completed",
            "recovery_required"}
      [] s = "production_stopping" ->
           {"candidate_starting", "production_restoring", "recovery_required"}
      [] s = "candidate_starting" ->
           {"accepting", "production_restoring", "recovery_required"}
      [] s = "accepting" ->
           {"production_restoring", "completed", "recovery_required"}
      [] s = "recovery_required" ->
           {"production_restoring", "superseded-verified"}
      [] s = "production_restoring" ->
           {"completed", "failed-restored", "recovery_required"}
      [] OTHER -> {}]

Operations == {"deploy", "release", "profile", "upgrade", "rollback"}
RolloutOperations == {"upgrade", "rollback"}

\* The acceptance tier of a rollout plan: schema v1 plans prove "quick",
\* schema v2 upgrade plans prove "full".
Tiers == {"quick", "full"}

FetchActions == [i \in 1 .. Fetches |-> "fetch-target-artifact"]

UpgradePlan(tier) ==
  <<"source-quick">> \o FetchActions
    \o <<"stop-source", "activate-target", "start-target", "target-quick">>
    \o (IF tier = "full" THEN <<"target-full">> ELSE <<>>)
    \o <<"publish-rollback">>

RollbackPlan ==
  <<"stop-source", "activate-target", "start-target", "target-quick",
    "clear-rollback">>

ActionKinds ==
  {"source-quick", "fetch-target-artifact", "stop-source", "activate-target",
   "start-target", "target-quick", "target-full", "publish-rollback",
   "clear-rollback"}

\* The exact lifecycle a plan must spell out; empty for the other operations.
Plan(op, tier) ==
  CASE op = "upgrade" -> UpgradePlan(tier)
    [] op = "rollback" -> RollbackPlan
    [] OTHER -> <<>>

(***************************************************************************)
(* A document.  "owner" is the process that began it (pid, start time and  *)
(* boot id together), "results" the kinds of the journalled actions,       *)
(* "fenced" whether its history holds a fence event.  NoDoc stands for an  *)
(* absent file.                                                            *)
(***************************************************************************)
NoDoc ==
  [id |-> 0, schema |-> 2, op |-> "none", tier |-> "quick",
   state |-> "none", owner |-> {}, ordinal |-> 0, results |-> <<>>,
   fenced |-> FALSE]

PlanOf(doc) == Plan(doc.op, doc.tier)
IsRollout(doc) == doc.op \in RolloutOperations

IsTerminal(doc) ==
  IF doc.schema = 1 THEN doc.state = "completed"
                    ELSE doc.state \in TerminalStates

\* A document is present and unfinished: it blocks every unrelated change.
IsActive(doc) == doc.id # 0 /\ ~IsTerminal(doc)

\* The document _publish_begin_locked writes.
NewDoc(id, op, tier, owner) ==
  [id |-> id, schema |-> 2, op |-> op, tier |-> tier, state |-> "planned",
   owner |-> owner, ordinal |-> 0, results |-> <<>>, fenced |-> FALSE]

\* Mutant: a rollout is successful before its plan was carried out.
CanTransitionEarly(doc, target) ==
  doc.schema = 2 /\ target \in AllowedTransitions[doc.state]

(***************************************************************************)
(* transition: legal target, and a rollout is successful only after its    *)
(* last action was journalled.                                             *)
(***************************************************************************)
CanTransition(doc, target) ==
  /\ doc.schema = 2
  /\ target \in AllowedTransitions[doc.state]
  /\ IsRollout(doc) /\ target \in {"completed", "superseded-verified"}
       => doc.ordinal = Len(PlanOf(doc))

Transitioned(doc, target) == [doc EXCEPT !.state = target]

(***************************************************************************)
(* advance_rollout_action: exactly the next action of the plan, never in   *)
(* recovery; the full qualification only while accepting.                  *)
(***************************************************************************)
CanAdvance(doc, ordinal, kind) ==
  /\ IsActive(doc)
  /\ doc.schema = 2
  /\ doc.state \notin RecoveryStates
  /\ IsRollout(doc)
  /\ ordinal = doc.ordinal
  /\ ordinal < Len(PlanOf(doc))
  /\ PlanOf(doc)[ordinal + 1] = kind
  /\ kind = "target-full" => doc.state = "accepting"

Advanced(doc, ordinal, kind) ==
  [doc EXCEPT !.ordinal = ordinal + 1,
              !.results = Append(doc.results, kind)]

(***************************************************************************)
(* What a runtime mutation presents: the transaction id it inherited in    *)
(* its environment (0 when none) and, for a rollout action, the ordinal    *)
(* and kind of that action.  runtime-reconcile.sh presents only the id.    *)
(***************************************************************************)
Presented(mode, id, ordinal, kind) ==
  [mode |-> mode, id |-> id, ordinal |-> ordinal, kind |-> kind]

RequestModes == {"unbound", "bound", "action", "restore"}

\* _require_rollout_action: the request names the next pending action.
IsPendingAction(doc, req) ==
  /\ doc.state \notin RecoveryStates
  /\ req.ordinal = doc.ordinal
  /\ req.ordinal < Len(PlanOf(doc))
  /\ PlanOf(doc)[req.ordinal + 1] = req.kind

\* assert_approved_deployment: what a child, or the command itself, asks of the slot
\* before an action that is bound to a Catalog approval.
Approved(doc, req) ==
  /\ IsActive(doc) /\ doc.schema = 2
  /\ req.id = doc.id
  /\ IF IsRollout(doc) THEN req.mode = "action" /\ IsPendingAction(doc, req)
                       ELSE req.mode = "bound"

\* authorized_runtime_mutation and its shell twin in acquire_runtime_lock:
\* without an active transaction only an unbound request passes; with one,
\* the id must match, a rollout needs its pending action outside recovery,
\* and a rollout action never serves any other operation.
Authorized(doc, req) ==
  IF ~IsActive(doc)
  THEN req.mode = "unbound"
  ELSE /\ req.mode # "unbound"
       /\ req.id = doc.id
       /\ req.mode = "action" => /\ doc.schema = 2
                                 /\ IsRollout(doc)
                                 /\ IsPendingAction(doc, req)
       /\ req.mode = "bound"
            => ~(IsRollout(doc) /\ doc.state \notin RecoveryStates)
       /\ req.mode = "restore"
            => (doc.schema = 2 => doc.state = "production_restoring")
================================================================================
