--------------------------- MODULE TransactionStore ----------------------------
(***************************************************************************)
(* The transaction store (TransactionStore in transactions.py) under       *)
(* concurrent control-plane processes, the runtime work they start, and    *)
(* crashes between any two durable writes.                                 *)
(*                                                                         *)
(* A step is one durable write or one lock operation: what the code does   *)
(* between taking transaction.lock and its only write is one step, and a   *)
(* call that writes twice (a terminal transition, a begin over a terminal  *)
(* slot) is two.  A refused call changes nothing and is no step, unless it *)
(* gives up a lock it already had.                                         *)
(*                                                                         *)
(* runtime.lock is tried without waiting, transaction.lock is waited for,  *)
(* always in this order.  The kernel frees a lock when its holder dies;    *)
(* a shell child keeps the locks it took when its parent dies or gives up. *)
(***************************************************************************)
EXTENDS TransactionRecord

CONSTANTS
  Proc,     \* control-plane processes: pid, start time and boot id together
  Begun,    \* the operations the commands begin, with their tier
  MaxTx     \* bound: how many transactions are ever begun

ASSUME StoreAssumption ==
  /\ MaxTx \in Nat \ {0}
  /\ Begun \subseteq Operations \X Tiers
  /\ \A b \in Begun : b[2] = "full" => b[1] = "upgrade"

Ids == 1 .. MaxTx

VARIABLES
  slot,          \* transaction.json, NoDoc when absent
  archive,       \* transactions/<id>.json, NoDoc when absent
  lastId,        \* number of ids given out; a fresh uuid is never used again
  call,          \* what each process is doing in the store
  child,         \* the runtime work each process started, {} or a singleton
  runtimeLock,   \* holder of cache/locks/runtime.lock, {} or a singleton
  txLock         \* holder of transaction.lock, {} or a singleton

vars == <<slot, archive, lastId, call, child, runtimeLock, txLock>>
durable == <<slot, archive, lastId>>

\* "begin": waits for transaction.lock inside the runtime boundary;
\* "capture": both locks held, the previous terminal document archived;
\* "boundary": holds the runtime boundary across a full qualification;
\* "archiving": a terminal document is in the slot but not yet archived.
Calls == {"idle", "begin", "capture", "boundary", "archiving", "dead"}

Cli(p) == <<"cli", p>>
Work(p) == <<"child", p>>
Holders == {"cli", "child"} \X Proc

Requests ==
  [mode : RequestModes, id : 0 .. MaxTx, ordinal : Nat,
   kind : ActionKinds \union {"none"}]
\* "spawned": no lock yet; "boundary": runtime.lock only; "running": both.
Children == [at : {"spawned", "boundary", "running"}, req : Requests]

Docs ==
  [id : 0 .. MaxTx, schema : {1, 2}, op : Operations \union {"none"},
   tier : Tiers, state : States \union LegacyStates \union {"none"},
   owner : SUBSET Proc, ordinal : Nat, results : Seq(ActionKinds),
   fenced : BOOLEAN]

LegacyDoc(state) == [NewDoc(1, "deploy", "quick", {}) EXCEPT !.schema = 1,
                                                             !.state = state]

\* A host that never ran a transaction, or one that still has a v1 record.
Init ==
  /\ slot \in {NoDoc} \union {LegacyDoc(s) : s \in LegacyStates}
  /\ archive = [id \in Ids |-> NoDoc]
  /\ lastId = slot.id
  /\ call = [p \in Proc |-> "idle"]
  /\ child = [p \in Proc |-> {}]
  /\ runtimeLock = {}
  /\ txLock = {}

--------------------------------------------------------------------------------
\* _archive_terminal publishes without replacing: an existing file wins.
Archived(doc) ==
  IF archive[doc.id] = NoDoc THEN [archive EXCEPT ![doc.id] = doc] ELSE archive

\* A different document under the same id refuses the archive.
ArchiveConflict(doc) ==
  doc.id # 0 /\ archive[doc.id] # NoDoc /\ archive[doc.id] # doc

\* The write that makes a terminal document current; its archive comes next,
\* under the same transaction.lock.
WriteSlot(p, doc) ==
  /\ txLock = {}
  /\ slot' = doc
  /\ IF IsTerminal(doc)
     THEN /\ call' = [call EXCEPT ![p] = "archiving"]
          /\ txLock' = {Cli(p)}
     ELSE UNCHANGED <<call, txLock>>
  /\ UNCHANGED <<archive, lastId, child, runtimeLock>>

InStore(p) == call[p] \in {"idle", "boundary"}

\* Mutant: the boundary is entered without looking at runtime.lock.
BeginBoundaryShared(p) ==
  /\ call[p] = "idle" /\ lastId < MaxTx
  /\ runtimeLock' = runtimeLock \union {Cli(p)}
  /\ call' = [call EXCEPT ![p] = "begin"]
  /\ UNCHANGED <<slot, archive, lastId, child, txLock>>

\* begin / begin_rollout enter the runtime boundary, or are refused at once.
BeginBoundary(p) ==
  /\ call[p] = "idle"
  /\ lastId < MaxTx
  /\ runtimeLock = {}
  /\ runtimeLock' = {Cli(p)}
  /\ call' = [call EXCEPT ![p] = "begin"]
  /\ UNCHANGED <<slot, archive, lastId, child, txLock>>

\* Mutant: an unfinished transaction does not refuse the begin.
BeginPrepareAnyway(p) ==
  /\ call[p] = "begin" /\ txLock = {}
  /\ call' = [call EXCEPT ![p] = "capture"]
  /\ txLock' = {Cli(p)}
  /\ archive' = IF slot.id = 0 THEN archive ELSE Archived(slot)
  /\ UNCHANGED <<slot, lastId, child, runtimeLock>>

\* Mutant: the slot is reused without archiving the document in it.
BeginPrepareUnarchived(p) ==
  /\ call[p] = "begin" /\ txLock = {} /\ ~IsActive(slot)
  /\ call' = [call EXCEPT ![p] = "capture"]
  /\ txLock' = {Cli(p)}
  /\ UNCHANGED <<slot, archive, lastId, child, runtimeLock>>

\* _prepare_begin_locked: an unfinished transaction refuses the begin, a
\* terminal one is archived before the slot is reused.
BeginPrepare(p) ==
  /\ call[p] = "begin"
  /\ txLock = {}
  /\ IF IsActive(slot) \/ ArchiveConflict(slot)
     THEN /\ call' = [call EXCEPT ![p] = "idle"]
          /\ runtimeLock' = {}
          /\ UNCHANGED <<archive, txLock>>
     ELSE /\ call' = [call EXCEPT ![p] = "capture"]
          /\ txLock' = {Cli(p)}
          /\ archive' = IF slot.id = 0 THEN archive ELSE Archived(slot)
          /\ UNCHANGED runtimeLock
  /\ UNCHANGED <<slot, lastId, child>>

\* _publish_begin_locked: a fresh id replaces the slot.
BeginPublish(p, b) ==
  /\ call[p] = "capture"
  /\ lastId < MaxTx
  /\ slot' = NewDoc(lastId + 1, b[1], b[2], {p})
  /\ lastId' = lastId + 1
  /\ call' = [call EXCEPT ![p] = "idle"]
  /\ runtimeLock' = {}
  /\ txLock' = {}
  /\ UNCHANGED <<archive, child>>

\* The capture callback raised: nothing is published.
CaptureFails(p) ==
  /\ call[p] = "capture"
  /\ call' = [call EXCEPT ![p] = "idle"]
  /\ runtimeLock' = {}
  /\ txLock' = {}
  /\ UNCHANGED <<slot, archive, lastId, child>>

\* transition(target_state): any process that knows the current id may call it.
Transition(p, target) ==
  /\ InStore(p)
  /\ slot.id # 0
  /\ CanTransition(slot, target)
  /\ WriteSlot(p, Transitioned(slot, target))

\* advance_rollout_action for the next pending action.
Advance(p) ==
  /\ InStore(p)
  /\ \E kind \in ActionKinds :
       /\ CanAdvance(slot, slot.ordinal, kind)
       /\ WriteSlot(p, Advanced(slot, slot.ordinal, kind))

\* resolve_legacy_failed and resolve_legacy_active: a reviewed v1 record
\* becomes a v2 terminal one.
ResolveLegacy(p, target) ==
  /\ InStore(p)
  /\ IsActive(slot)
  /\ slot.schema = 1
  /\ target \in {"failed-restored", "superseded-verified"}
  /\ WriteSlot(p, [slot EXCEPT !.schema = 2, !.state = target])

\* The second write of a terminal transition or resolution.
ArchiveTerminal(p) ==
  /\ call[p] = "archiving"
  /\ archive' = Archived(slot)
  /\ call' = [call EXCEPT ![p] = "idle"]
  /\ runtimeLock' = runtimeLock \ {Cli(p)}
  /\ txLock' = {}
  /\ UNCHANGED <<slot, lastId, child>>

\* initiator_status: the owner's pid, start time and boot id match no process.
ProvenDead(doc) == \A p \in doc.owner : call[p] = "dead"

\* Mutant: the fence does not look at the state it overwrites.
FenceAnyState(p) ==
  /\ call[p] = "idle" /\ runtimeLock = {}
  /\ slot.id # 0 /\ slot.schema = 2 /\ ProvenDead(slot)
  /\ WriteSlot(p, [slot EXCEPT !.state = "recovery_required", !.fenced = TRUE])

\* fence_orphaned: with the runtime boundary free and the initiator dead.
Fence(p) ==
  /\ call[p] = "idle"
  /\ runtimeLock = {}
  /\ IsActive(slot)
  /\ slot.schema = 2
  /\ slot.state # "recovery_required"
  /\ ProvenDead(slot)
  /\ WriteSlot(p, [slot EXCEPT !.state = "recovery_required", !.fenced = TRUE])

\* The initiator of a full qualification keeps the boundary across its run.
EnterBoundary(p) ==
  /\ call[p] = "idle"
  /\ runtimeLock = {}
  /\ runtimeLock' = {Cli(p)}
  /\ call' = [call EXCEPT ![p] = "boundary"]
  /\ UNCHANGED <<slot, archive, lastId, child, txLock>>

LeaveBoundary(p) ==
  /\ call[p] = "boundary"
  /\ runtimeLock' = {}
  /\ call' = [call EXCEPT ![p] = "idle"]
  /\ UNCHANGED <<slot, archive, lastId, child, txLock>>

--------------------------------------------------------------------------------
\* The environment a process gives its child: no transaction, the current one,
\* its pending rollout action, or its id alone for a restore.
RequestOf(mode) ==
  CASE mode = "unbound" -> Presented(mode, 0, 0, "none")
    [] mode = "action" -> Presented(mode, slot.id, slot.ordinal,
                                    PlanOf(slot)[slot.ordinal + 1])
    [] OTHER -> Presented(mode, slot.id, 0, "none")

\* A process starts runtime work: runtime.sh, runtime-reconcile.sh, or a
\* model-manager mutation.
Spawn(p, mode) ==
  /\ call[p] = "idle"
  /\ child[p] = {}
  /\ mode # "unbound" => IsActive(slot)
  /\ mode = "action" => IsRollout(slot) /\ slot.ordinal < Len(PlanOf(slot))
  /\ child' = [child EXCEPT ![p] = {[at |-> "spawned", req |-> RequestOf(mode)]}]
  /\ UNCHANGED <<durable, call, runtimeLock, txLock>>

\* flock -n on runtime.lock: taken, or the mutation is refused.
ChildBoundary(p) ==
  /\ \E c \in child[p] :
       /\ c.at = "spawned"
       /\ IF runtimeLock = {}
          THEN /\ runtimeLock' = {Work(p)}
               /\ child' = [child EXCEPT ![p] = {[c EXCEPT !.at = "boundary"]}]
          ELSE /\ child' = [child EXCEPT ![p] = {}]
               /\ UNCHANGED runtimeLock
  /\ UNCHANGED <<durable, call, txLock>>

\* Mutant: the state is checked but transaction.lock is not kept.
ChildEnterUnlocked(p) ==
  /\ txLock = {}
  /\ \E c \in child[p] :
       /\ c.at = "boundary" /\ Authorized(slot, c.req)
       /\ child' = [child EXCEPT ![p] = {[c EXCEPT !.at = "running"]}]
  /\ UNCHANGED <<durable, call, runtimeLock, txLock>>

\* With transaction.lock too, the authorization is decided on the slot as it
\* is now; an unauthorized mutation leaves without touching the runtime.
ChildEnter(p) ==
  /\ txLock = {}
  /\ \E c \in child[p] :
       /\ c.at = "boundary"
       /\ IF Authorized(slot, c.req)
          THEN /\ txLock' = {Work(p)}
               /\ child' = [child EXCEPT ![p] = {[c EXCEPT !.at = "running"]}]
               /\ UNCHANGED runtimeLock
          ELSE /\ runtimeLock' = {}
               /\ child' = [child EXCEPT ![p] = {}]
               /\ UNCHANGED txLock
  /\ UNCHANGED <<durable, call>>

\* The work ends, by itself or killed; its descriptors close.
ChildEnd(p) ==
  /\ child[p] # {}
  /\ child' = [child EXCEPT ![p] = {}]
  /\ runtimeLock' = runtimeLock \ {Work(p)}
  /\ txLock' = txLock \ {Work(p)}
  /\ UNCHANGED <<durable, call>>

--------------------------------------------------------------------------------
\* A process ends at any point; its own descriptors close, its child lives on.
Crash(p) ==
  /\ call[p] # "dead"
  /\ call' = [call EXCEPT ![p] = "dead"]
  /\ runtimeLock' = runtimeLock \ {Cli(p)}
  /\ txLock' = txLock \ {Cli(p)}
  /\ UNCHANGED <<durable, child>>

\* The host restarts: every process and all runtime work are gone.
Reboot ==
  /\ \E p \in Proc : call[p] # "dead" \/ child[p] # {}
  /\ call' = [p \in Proc |-> "dead"]
  /\ child' = [p \in Proc |-> {}]
  /\ runtimeLock' = {}
  /\ txLock' = {}
  /\ UNCHANGED durable

\* A new process.  It takes a name no active transaction is owned by: a reused
\* pid is told apart by its start time.
Start(p) ==
  /\ call[p] = "dead"
  /\ child[p] = {}
  /\ IsActive(slot) => p \notin slot.owner
  /\ call' = [call EXCEPT ![p] = "idle"]
  /\ UNCHANGED <<durable, child, runtimeLock, txLock>>

CliStep(p) ==
  \/ BeginBoundary(p) \/ BeginPrepare(p) \/ CaptureFails(p)
  \/ \E b \in Begun : BeginPublish(p, b)
  \/ \E target \in States : Transition(p, target)
  \/ Advance(p)
  \/ \E target \in States : ResolveLegacy(p, target)
  \/ ArchiveTerminal(p) \/ Fence(p)
  \/ EnterBoundary(p) \/ LeaveBoundary(p)

ChildStep(p) ==
  \/ \E mode \in RequestModes : Spawn(p, mode)
  \/ ChildBoundary(p) \/ ChildEnter(p) \/ ChildEnd(p)

Next ==
  \/ \E p \in Proc : CliStep(p) \/ ChildStep(p) \/ Crash(p) \/ Start(p)
  \/ Reboot

Spec == Init /\ [][Next]_vars

--------------------------------------------------------------------------------
TypeOK ==
  /\ slot \in Docs
  /\ archive \in [Ids -> Docs]
  /\ lastId \in 0 .. MaxTx
  /\ call \in [Proc -> Calls]
  /\ child \in [Proc -> SUBSET Children]
  /\ \A p \in Proc : \A c, d \in child[p] : c = d
  /\ runtimeLock \in {{}} \union {{h} : h \in Holders}
  /\ txLock \in {{}} \union {{h} : h \in Holders}

\* The runtime work of a process is past runtime.lock, or past both locks.
Inside(p) == \E c \in child[p] : c.at # "spawned"
Running(p) == \E c \in child[p] : c.at = "running"

\* Both locks say exactly who is where: a process or a child past a lock holds
\* it, and nobody else does.  A crash at any point leaves no lock behind.
LocksMatch ==
  \A p \in Proc :
    /\ call[p] \in {"begin", "capture", "boundary"} => runtimeLock = {Cli(p)}
    /\ call[p] \in {"capture", "archiving"} <=> txLock = {Cli(p)}
    /\ runtimeLock = {Cli(p)} => call[p] \notin {"idle", "dead"}
    /\ Inside(p) <=> runtimeLock = {Work(p)}
    /\ Running(p) <=> txLock = {Work(p)}

\* Runtime work keeps its authority for as long as it may touch the runtime:
\* no begin, transition, advance or fence of any process, alive or crashed,
\* changes the transaction under it (authorized_runtime_mutation, "closes the
\* gap between checking transaction state and changing a selection").
WorkIsAuthorized ==
  \A p \in Proc : \A c \in child[p] : c.at = "running" => Authorized(slot, c.req)

\* No transaction is ever forgotten, wherever a process dies between the slot
\* write and the archive write: it is in the slot or it has its own archive
\* file, and only terminal documents are in the archive.
NothingLost ==
  /\ slot.id = lastId
  /\ \A id \in Ids : id < lastId => archive[id].id = id
  /\ \A id \in Ids : archive[id] # NoDoc => IsTerminal(archive[id])

\* The archive of the current transaction, when there is one, is the slot's
\* exact document: a begin is never blocked by an archive conflict.
ArchiveAgrees ==
  \A id \in Ids : archive[id] # NoDoc =>
    /\ archive[id].id = id
    /\ slot.id = id => archive[id] = slot

\* The journal is a prefix of the approved plan, each action once and in order,
\* and a rollout that ended successfully journalled all of them.
JournalFollowsPlan ==
  \A doc \in {slot} \union {archive[id] : id \in Ids} :
    /\ doc.ordinal = Len(doc.results)
    /\ IsRollout(doc) => doc.results = SubSeq(PlanOf(doc), 1, doc.ordinal)
    /\ IsRollout(doc) /\ doc.state \in {"completed", "superseded-verified"}
         => doc.results = PlanOf(doc)

\* A rollout captures its source with the host quiet: no transaction is open,
\* the one before it is archived, and no other process or child is at work.
CaptureIsQuiescent ==
  \A p \in Proc : call[p] = "capture" =>
    /\ ~IsActive(slot)
    /\ (slot.id # 0 => archive[slot.id] = slot)
    /\ \A q \in Proc : \A c \in child[q] : c.at = "spawned"
    /\ \A q \in Proc \ {p} : call[q] \in {"idle", "dead"}

\* The inductive invariant behind the ledger: the properties above and what a
\* call in progress knows of the slot.
StoreInv ==
  /\ LocksMatch
  /\ NothingLost
  /\ ArchiveAgrees
  /\ slot.id # 0 /\ slot.schema = 2 => slot.state \in States
  /\ \A id \in Ids : archive[id] # NoDoc => id <= lastId
  /\ \A p \in Proc :
       /\ call[p] = "capture" => ~IsActive(slot)
       /\ call[p] = "capture" /\ slot.id # 0 => archive[slot.id] = slot
       /\ call[p] = "archiving" => slot.id # 0 /\ IsTerminal(slot)

\* Once a transaction is recovering its journal is closed, and it leaves
\* recovery only by ending: what the fence took away never comes back.
RecoveryIsOneWay ==
  [][slot.state \in RecoveryStates /\ slot.schema = 2 /\ slot'.id = slot.id
       => /\ slot'.results = slot.results
          /\ slot'.state \in RecoveryStates \union TerminalStates]_vars

\* A verdict is final: a terminal document leaves the slot only for a new
\* transaction and only when archived, and an archive file never changes.
TerminalIsFinal ==
  [][/\ slot.id # 0 /\ IsTerminal(slot) /\ slot' # slot
          => slot'.id = slot.id + 1 /\ archive[slot.id] = slot
     /\ \A id \in Ids : archive[id] # NoDoc => archive'[id] = archive[id]]_vars

\* What the store looks like to its users: one transaction at a time, and a
\* verdict for each that stays.
Ledger ==
  INSTANCE TransactionLedger
    WITH Ids <- Ids,
         Verdicts <- TerminalStates,
         Open <- "open",
         opened <- 1 .. lastId,
         verdict <- [id \in Ids |->
                       LET doc == IF slot.id = id THEN slot ELSE archive[id]
                       IN  IF doc.id # 0 /\ IsTerminal(doc) THEN doc.state
                                                            ELSE "open"]

\* Every durable step of the store, a crash included, is a step of the ledger
\* or none: the slot write is the moment a verdict is given.
LedgerSpec == Ledger!Spec
================================================================================
