------------------------ MODULE TransactionStore_proofs ------------------------
(***************************************************************************)
(* Proofs about the transaction store, for any set of processes, any       *)
(* number of transactions and any plan length.                             *)
(***************************************************************************)
EXTENDS TransactionStore, SequenceTheorems, TLAPS

--------------------------------------------------------------------------------
\* Facts about the records of TransactionRecord.

\* A plan is a sequence of action kinds, whatever the operation.
LEMMA PlanType ==
  ASSUME NEW op, NEW tier
  PROVE  Plan(op, tier) \in Seq(ActionKinds)
<1>1. FetchActions \in Seq(ActionKinds)
  BY FetchesAssumption DEF FetchActions, ActionKinds
<1>2. <<"source-quick">> \in Seq(ActionKinds)
  BY DEF ActionKinds
<1>3. <<"stop-source", "activate-target", "start-target", "target-quick">>
        \in Seq(ActionKinds)
  BY DEF ActionKinds
<1>4. (IF tier = "full" THEN <<"target-full">> ELSE <<>>) \in Seq(ActionKinds)
  <2>1. <<"target-full">> \in Seq(ActionKinds)
    BY DEF ActionKinds
  <2>2. <<>> \in Seq(ActionKinds)
    BY EmptySeq
  <2> QED
    BY <2>1, <2>2
<1>5. <<"publish-rollback">> \in Seq(ActionKinds)
  BY DEF ActionKinds
<1>6. UpgradePlan(tier) \in Seq(ActionKinds)
  BY <1>1, <1>2, <1>3, <1>4, <1>5, ConcatProperties DEF UpgradePlan
<1>7. RollbackPlan \in Seq(ActionKinds)
  BY DEF RollbackPlan, ActionKinds
<1>8. <<>> \in Seq(ActionKinds)
  BY EmptySeq
<1> QED
  BY <1>6, <1>7, <1>8 DEF Plan

LEMMA TransitionedType ==
  ASSUME NEW doc \in Docs, NEW target \in States
  PROVE  Transitioned(doc, target) \in Docs
BY DEF Docs, Transitioned

LEMMA AdvancedType ==
  ASSUME NEW doc \in Docs, NEW kind \in ActionKinds
  PROVE  Advanced(doc, doc.ordinal, kind) \in Docs
<1>1. doc.results \in Seq(ActionKinds) /\ doc.ordinal \in Nat
  BY DEF Docs
<1>2. Append(doc.results, kind) \in Seq(ActionKinds) /\ doc.ordinal + 1 \in Nat
  BY <1>1, AppendProperties
<1>3. \A n \in Nat, r \in Seq(ActionKinds) :
        [doc EXCEPT !.ordinal = n, !.results = r] \in Docs
  BY DEF Docs
<1> QED
  BY <1>2, <1>3 DEF Advanced

LEMMA NewDocType ==
  ASSUME NEW op \in Operations, NEW tier \in Tiers,
         NEW id \in 0 .. MaxTx, NEW owner \in SUBSET Proc
  PROVE  NewDoc(id, op, tier, owner) \in Docs
<1>1. <<>> \in Seq(ActionKinds) /\ "planned" \in States
  BY EmptySeq DEF States
<1> QED
  BY <1>1 DEF Docs, NewDoc

LEMMA NoDocType == NoDoc \in Docs
<1>1. <<>> \in Seq(ActionKinds) /\ 0 \in 0 .. MaxTx
  BY EmptySeq, StoreAssumption
<1> QED
  BY <1>1 DEF Docs, NoDoc, Tiers

LEMMA LegacyDocType ==
  ASSUME NEW s \in LegacyStates
  PROVE  LegacyDoc(s) \in Docs
<1>1. NewDoc(1, "deploy", "quick", {}) \in Docs
  BY NewDocType, StoreAssumption DEF Operations, Tiers
<1>2. \A doc \in Docs : [doc EXCEPT !.schema = 1, !.state = s] \in Docs
  BY DEF Docs
<1> QED
  BY <1>1, <1>2 DEF LegacyDoc

--------------------------------------------------------------------------------
\* Type correctness.

LEMMA RequestType ==
  ASSUME TypeOK, NEW mode \in RequestModes, slot.ordinal < Len(PlanOf(slot))
                                              \/ mode # "action"
  PROVE  RequestOf(mode) \in Requests
<1>1. slot.id \in 0 .. MaxTx /\ slot.ordinal \in Nat
  BY DEF TypeOK, Docs
<1>2. 0 \in 0 .. MaxTx
  BY StoreAssumption
<1>3. CASE mode = "action"
  <2>1. PlanOf(slot) \in Seq(ActionKinds)
    BY PlanType DEF PlanOf
  <2>2. PlanOf(slot)[slot.ordinal + 1] \in ActionKinds
    <3>1. slot.ordinal + 1 \in 1 .. Len(PlanOf(slot))
      BY <1>1, <1>3, <2>1, LenProperties
    <3> QED
      BY <3>1, <2>1, ElementOfSeq
  <2> QED
    BY <1>1, <1>3, <2>2 DEF RequestOf, Presented, Requests, RequestModes
<1>4. CASE mode # "action"
  BY <1>1, <1>2, <1>4 DEF RequestOf, Presented, Requests, RequestModes
<1> QED
  BY <1>3, <1>4

LEMMA WriteSlotType ==
  ASSUME TypeOK, NEW p \in Proc, NEW doc \in Docs, WriteSlot(p, doc)
  PROVE  TypeOK'
<1>1. slot' \in Docs /\ UNCHANGED <<archive, lastId, child, runtimeLock>>
  BY DEF WriteSlot
<1>2. call' \in [Proc -> Calls]
  BY DEF WriteSlot, TypeOK, Calls
<1>3. txLock' \in {{}} \union {{h} : h \in Holders}
  BY DEF WriteSlot, TypeOK, Holders, Cli
<1> QED
  BY <1>1, <1>2, <1>3 DEF TypeOK

\* Taking and giving up locks keeps their type.
LEMMA LockType ==
  ASSUME NEW p \in Proc, NEW lock \in {{}} \union {{h} : h \in Holders}, NEW x
  PROVE  /\ {Cli(p)} \in {{}} \union {{h} : h \in Holders}
         /\ {Work(p)} \in {{}} \union {{h} : h \in Holders}
         /\ lock \ {x} \in {{}} \union {{h} : h \in Holders}
         /\ {} \in {{}} \union {{h} : h \in Holders}
<1>1. Cli(p) \in Holders /\ Work(p) \in Holders
  BY DEF Cli, Work, Holders
<1>2. lock \ {x} = lock \/ lock \ {x} = {}
  OBVIOUS
<1> QED
  BY <1>1, <1>2

\* The state of a process or of its child after a step keeps its type.
LEMMA ChildType ==
  ASSUME NEW p \in Proc, TypeOK, NEW s \in SUBSET Children,
         \A c, d \in s : c = d,
         child' = [child EXCEPT ![p] = s]
  PROVE  /\ child' \in [Proc -> SUBSET Children]
         /\ \A q \in Proc : \A c, d \in child'[q] : c = d
BY DEF TypeOK

LEMMA CliType ==
  ASSUME TypeOK, NEW p \in Proc, CliStep(p)
  PROVE  TypeOK'
<1>1. CASE BeginBoundary(p)
  <2>1. call' \in [Proc -> Calls]
    BY <1>1 DEF BeginBoundary, TypeOK, Calls
  <2> QED
    BY <1>1, <2>1, LockType DEF BeginBoundary, TypeOK
<1>2. CASE BeginPrepare(p)
  <2>1. call' \in [Proc -> Calls]
    BY <1>2 DEF BeginPrepare, TypeOK, Calls
  <2>2. archive' \in [Ids -> Docs]
    BY <1>2 DEF BeginPrepare, TypeOK, Archived
  <2>3. /\ runtimeLock' \in {{}} \union {{h} : h \in Holders}
        /\ txLock' \in {{}} \union {{h} : h \in Holders}
    BY <1>2, LockType DEF BeginPrepare, TypeOK
  <2> QED
    BY <1>2, <2>1, <2>2, <2>3 DEF BeginPrepare, TypeOK
<1>3. CASE CaptureFails(p)
  <2>1. call' \in [Proc -> Calls]
    BY <1>3 DEF CaptureFails, TypeOK, Calls
  <2> QED
    BY <1>3, <2>1, LockType DEF CaptureFails, TypeOK
<1>4. ASSUME NEW b \in Begun, BeginPublish(p, b)
      PROVE  TypeOK'
  <2>1. call' \in [Proc -> Calls]
    BY <1>4 DEF BeginPublish, TypeOK, Calls
  <2>2. lastId + 1 \in 0 .. MaxTx
    BY <1>4, StoreAssumption DEF BeginPublish, TypeOK
  <2>3. b[1] \in Operations /\ b[2] \in Tiers
    BY StoreAssumption
  <2>4. slot' \in Docs
    BY <1>4, <2>2, <2>3, NewDocType DEF BeginPublish
  <2> QED
    BY <1>4, <2>1, <2>2, <2>4, LockType DEF BeginPublish, TypeOK
<1>5. ASSUME NEW target \in States, Transition(p, target)
      PROVE  TypeOK'
  <2>1. Transitioned(slot, target) \in Docs
    BY TransitionedType DEF TypeOK
  <2> QED
    BY <1>5, <2>1, WriteSlotType DEF Transition
<1>6. CASE Advance(p)
  <2>1. PICK kind \in ActionKinds : WriteSlot(p, Advanced(slot, slot.ordinal, kind))
    BY <1>6 DEF Advance
  <2>2. Advanced(slot, slot.ordinal, kind) \in Docs
    BY AdvancedType DEF TypeOK
  <2> QED
    BY <2>1, <2>2, WriteSlotType
<1>7. ASSUME NEW target \in States, ResolveLegacy(p, target)
      PROVE  TypeOK'
  <2>1. [slot EXCEPT !.schema = 2, !.state = target] \in Docs
    BY DEF TypeOK, Docs
  <2> QED
    BY <1>7, <2>1, WriteSlotType DEF ResolveLegacy
<1>8. CASE ArchiveTerminal(p)
  <2>1. call' \in [Proc -> Calls]
    BY <1>8 DEF ArchiveTerminal, TypeOK, Calls
  <2>2. archive' \in [Ids -> Docs]
    BY <1>8 DEF ArchiveTerminal, TypeOK, Archived
  <2>3. runtimeLock \in {{}} \union {{h} : h \in Holders}
    BY DEF TypeOK
  <2> QED
    BY <1>8, <2>1, <2>2, <2>3, LockType DEF ArchiveTerminal, TypeOK
<1>9. CASE Fence(p)
  <2>1. [slot EXCEPT !.state = "recovery_required", !.fenced = TRUE] \in Docs
    BY DEF TypeOK, Docs, States
  <2> QED
    BY <1>9, <2>1, WriteSlotType DEF Fence
<1>10. CASE EnterBoundary(p)
  <2>1. call' \in [Proc -> Calls]
    BY <1>10 DEF EnterBoundary, TypeOK, Calls
  <2> QED
    BY <1>10, <2>1, LockType DEF EnterBoundary, TypeOK
<1>11. CASE LeaveBoundary(p)
  <2>1. call' \in [Proc -> Calls]
    BY <1>11 DEF LeaveBoundary, TypeOK, Calls
  <2> QED
    BY <1>11, <2>1, LockType DEF LeaveBoundary, TypeOK
<1> QED
  BY <1>1, <1>2, <1>3, <1>4, <1>5, <1>6, <1>7, <1>8, <1>9, <1>10, <1>11
  DEF CliStep

LEMMA ChildStepType ==
  ASSUME TypeOK, NEW p \in Proc, ChildStep(p)
  PROVE  TypeOK'
<1>1. ASSUME NEW mode \in RequestModes, Spawn(p, mode)
      PROVE  TypeOK'
  <2>1. RequestOf(mode) \in Requests
    BY <1>1, RequestType DEF Spawn
  <2>2. {[at |-> "spawned", req |-> RequestOf(mode)]} \in SUBSET Children
    BY <2>1 DEF Children
  <2> QED
    BY <1>1, <2>2, ChildType DEF Spawn, TypeOK, durable
<1>2. CASE ChildBoundary(p)
  <2>1. PICK c \in child[p] :
          IF runtimeLock = {}
          THEN /\ runtimeLock' = {Work(p)}
               /\ child' = [child EXCEPT ![p] = {[c EXCEPT !.at = "boundary"]}]
          ELSE /\ child' = [child EXCEPT ![p] = {}]
               /\ UNCHANGED runtimeLock
    BY <1>2 DEF ChildBoundary
  <2>2. {[c EXCEPT !.at = "boundary"]} \in SUBSET Children
    BY <2>1 DEF TypeOK, Children
  <2>3. runtimeLock' \in {{}} \union {{h} : h \in Holders}
    <3>1. {Work(p)} \in {{}} \union {{h} : h \in Holders}
      BY DEF Work, Holders
    <3> QED
      BY <2>1, <3>1 DEF TypeOK
  <2>4. PICK s \in SUBSET Children : /\ \A d, e \in s : d = e
                                    /\ child' = [child EXCEPT ![p] = s]
    <3>1. {} \in SUBSET Children /\ \A d, e \in {} : d = e
      OBVIOUS
    <3>2. \A d, e \in {[c EXCEPT !.at = "boundary"]} : d = e
      OBVIOUS
    <3>3. CASE child' = [child EXCEPT ![p] = {}]
      BY <3>1, <3>3
    <3>4. CASE child' = [child EXCEPT ![p] = {[c EXCEPT !.at = "boundary"]}]
      BY <2>2, <3>2, <3>4
    <3> QED
      BY <2>1, <3>3, <3>4
  <2>5. /\ child' \in [Proc -> SUBSET Children]
        /\ \A q \in Proc : \A d, e \in child'[q] : d = e
    BY <2>4, ChildType
  <2> QED
    BY <1>2, <2>3, <2>5 DEF ChildBoundary, TypeOK, durable
<1>3. CASE ChildEnter(p)
  <2>1. PICK c \in child[p] :
          IF Authorized(slot, c.req)
          THEN /\ txLock' = {Work(p)}
               /\ child' = [child EXCEPT ![p] = {[c EXCEPT !.at = "running"]}]
               /\ UNCHANGED runtimeLock
          ELSE /\ runtimeLock' = {}
               /\ child' = [child EXCEPT ![p] = {}]
               /\ UNCHANGED txLock
    BY <1>3 DEF ChildEnter
  <2>2. {[c EXCEPT !.at = "running"]} \in SUBSET Children
    BY <2>1 DEF TypeOK, Children
  <2>3. /\ runtimeLock' \in {{}} \union {{h} : h \in Holders}
        /\ txLock' \in {{}} \union {{h} : h \in Holders}
    <3>1. {Work(p)} \in {{}} \union {{h} : h \in Holders}
      BY DEF Work, Holders
    <3> QED
      BY <2>1, <3>1 DEF TypeOK
  <2>4. PICK s \in SUBSET Children : /\ \A d, e \in s : d = e
                                    /\ child' = [child EXCEPT ![p] = s]
    <3>1. {} \in SUBSET Children /\ \A d, e \in {} : d = e
      OBVIOUS
    <3>2. \A d, e \in {[c EXCEPT !.at = "running"]} : d = e
      OBVIOUS
    <3>3. CASE child' = [child EXCEPT ![p] = {}]
      BY <3>1, <3>3
    <3>4. CASE child' = [child EXCEPT ![p] = {[c EXCEPT !.at = "running"]}]
      BY <2>2, <3>2, <3>4
    <3> QED
      BY <2>1, <3>3, <3>4
  <2>5. /\ child' \in [Proc -> SUBSET Children]
        /\ \A q \in Proc : \A d, e \in child'[q] : d = e
    BY <2>4, ChildType
  <2> QED
    BY <1>3, <2>3, <2>5 DEF ChildEnter, TypeOK, durable
<1>4. CASE ChildEnd(p)
  <2>1. /\ runtimeLock \in {{}} \union {{h} : h \in Holders}
        /\ txLock \in {{}} \union {{h} : h \in Holders}
    BY DEF TypeOK
  <2> QED
    BY <1>4, <2>1, LockType, ChildType DEF ChildEnd, TypeOK, durable
<1> QED
  BY <1>1, <1>2, <1>3, <1>4 DEF ChildStep

LEMMA TypeInductive == TypeOK /\ [Next]_vars => TypeOK'
<1> SUFFICES ASSUME TypeOK, [Next]_vars
             PROVE  TypeOK'
  OBVIOUS
<1>1. ASSUME NEW p \in Proc, CliStep(p)
      PROVE  TypeOK'
  BY <1>1, CliType
<1>2. ASSUME NEW p \in Proc, ChildStep(p)
      PROVE  TypeOK'
  BY <1>2, ChildStepType
<1>3. ASSUME NEW p \in Proc, Crash(p)
      PROVE  TypeOK'
  <2>1. call' \in [Proc -> Calls]
    BY <1>3 DEF Crash, TypeOK, Calls
  <2>2. /\ runtimeLock \in {{}} \union {{h} : h \in Holders}
        /\ txLock \in {{}} \union {{h} : h \in Holders}
    BY DEF TypeOK
  <2> QED
    BY <1>3, <2>1, <2>2, LockType DEF Crash, TypeOK, durable
<1>4. ASSUME NEW p \in Proc, Start(p)
      PROVE  TypeOK'
  <2>1. call' \in [Proc -> Calls]
    BY <1>4 DEF Start, TypeOK, Calls
  <2> QED
    BY <1>4, <2>1 DEF Start, TypeOK, durable
<1>5. CASE Reboot
  BY <1>5 DEF Reboot, TypeOK, durable, Calls
<1>6. CASE UNCHANGED vars
  BY <1>6 DEF vars, TypeOK
<1> QED
  BY <1>1, <1>2, <1>3, <1>4, <1>5, <1>6 DEF Next

\* Every reachable state of the store is well formed, for any number of
\* processes and transactions.
THEOREM TypeCorrect == Spec => []TypeOK
<1>1. Init => TypeOK
  <2> SUFFICES ASSUME Init PROVE TypeOK
    OBVIOUS
  <2>1. slot \in Docs
    BY NoDocType, LegacyDocType DEF Init
  <2>2. lastId \in 0 .. MaxTx
    BY <2>1 DEF Init, Docs
  <2> QED
    BY <2>1, <2>2, NoDocType DEF Init, TypeOK, Calls
<1> QED
  BY <1>1, TypeInductive, PTL DEF Spec

--------------------------------------------------------------------------------
\* The locks.

\* A process and its runtime work are different holders, each its own.
LEMMA HoldersDiffer ==
  ASSUME NEW p \in Proc, NEW q \in Proc
  PROVE  /\ {Cli(p)} # {Work(q)}
         /\ {Cli(p)} = {Cli(q)} => p = q
         /\ {Work(p)} = {Work(q)} => p = q
         /\ {Cli(p)} # {} /\ {Work(p)} # {}
<1>1. Cli(p) # Work(q) /\ (Cli(p) = Cli(q) => p = q) /\ (Work(p) = Work(q) => p = q)
  BY DEF Cli, Work
<1> QED
  BY <1>1

\* Giving up a lock frees it only for the holder named.
LEMMA Released ==
  ASSUME NEW x, NEW y, NEW lock \in {{}} \union {{h} : h \in Holders}
  PROVE  /\ lock = {x} => lock \ {x} = {}
         /\ lock # {x} => lock \ {x} = lock
OBVIOUS

\* LocksMatch for one process.
LocksOf(p) ==
  /\ call[p] \in {"begin", "capture", "boundary"} => runtimeLock = {Cli(p)}
  /\ call[p] \in {"capture", "archiving"} <=> txLock = {Cli(p)}
  /\ runtimeLock = {Cli(p)} => call[p] \notin {"idle", "dead"}
  /\ Inside(p) <=> runtimeLock = {Work(p)}
  /\ Running(p) <=> txLock = {Work(p)}

LEMMA LocksEach ==
  /\ LocksMatch <=> \A p \in Proc : LocksOf(p)
  /\ LocksMatch' <=> \A p \in Proc : LocksOf(p)'
BY DEF LocksMatch, LocksOf

\* A step that leaves the runtime work alone disturbs only what the processes
\* hold.
LEMMA WorkUntouched ==
  ASSUME UNCHANGED child
  PROVE  \A q \in Proc : (Inside(q)' <=> Inside(q)) /\ (Running(q)' <=> Running(q))
BY DEF Inside, Running

LEMMA WriteSlotLocks ==
  ASSUME TypeOK, LocksMatch, NEW p \in Proc, NEW doc, InStore(p), WriteSlot(p, doc)
  PROVE  LocksMatch'
<1>1. \A q \in Proc : LocksOf(q)
  BY LocksEach
<1>2. SUFFICES ASSUME NEW q \in Proc PROVE LocksOf(q)'
  BY LocksEach
<1>3. /\ txLock = {} /\ UNCHANGED <<child, runtimeLock>>
      /\ call[p] \in {"idle", "boundary"}
  BY DEF WriteSlot, InStore
<1>4. (Inside(q)' <=> Inside(q)) /\ (Running(q)' <=> Running(q))
  BY <1>3, WorkUntouched
<1>5. CASE UNCHANGED <<call, txLock>>
  BY <1>1, <1>3, <1>4, <1>5 DEF LocksOf
<1>6. CASE /\ call' = [call EXCEPT ![p] = "archiving"]
           /\ txLock' = {Cli(p)}
  <2>1. call'[q] = IF q = p THEN "archiving" ELSE call[q]
    BY <1>6 DEF TypeOK
  <2> QED
    BY <1>1, <1>3, <1>4, <1>6, <2>1, HoldersDiffer DEF LocksOf
<1> QED
  BY <1>5, <1>6 DEF WriteSlot

LEMMA CliLocks ==
  ASSUME TypeOK, LocksMatch, NEW p \in Proc, CliStep(p)
  PROVE  LocksMatch'
<1>1. \A q \in Proc : LocksOf(q)
  BY LocksEach
<1>2. \A q \in Proc : \A x : call' = [call EXCEPT ![p] = x] =>
        call'[q] = IF q = p THEN x ELSE call[q]
  BY DEF TypeOK
<1>3. /\ runtimeLock \in {{}} \union {{h} : h \in Holders}
      /\ txLock \in {{}} \union {{h} : h \in Holders}
  BY DEF TypeOK
<1>4. CASE BeginBoundary(p)
  <2>1. ASSUME NEW q \in Proc PROVE LocksOf(q)'
    <3>1. call'[q] = IF q = p THEN "begin" ELSE call[q]
      BY <1>4 DEF BeginBoundary, TypeOK
    <3>2. (Inside(q)' <=> Inside(q)) /\ (Running(q)' <=> Running(q))
      BY <1>4, WorkUntouched DEF BeginBoundary
    <3> QED
      BY <1>1, <1>4, <3>1, <3>2, HoldersDiffer DEF LocksOf, BeginBoundary
  <2> QED
    BY <2>1, LocksEach
<1>5. CASE BeginPrepare(p)
  <2>1. ASSUME NEW q \in Proc PROVE LocksOf(q)'
    BY <1>1, <1>2, <1>5, HoldersDiffer, WorkUntouched DEF LocksOf, BeginPrepare
  <2> QED
    BY <2>1, LocksEach
<1>6. CASE CaptureFails(p)
  <2>1. ASSUME NEW q \in Proc PROVE LocksOf(q)'
    <3>1. call'[q] = IF q = p THEN "idle" ELSE call[q]
      BY <1>6 DEF CaptureFails, TypeOK
    <3>2. (Inside(q)' <=> Inside(q)) /\ (Running(q)' <=> Running(q))
      BY <1>6, WorkUntouched DEF CaptureFails
    <3> QED
      BY <1>1, <1>6, <3>1, <3>2, HoldersDiffer DEF LocksOf, CaptureFails
  <2> QED
    BY <2>1, LocksEach
<1>7. ASSUME NEW b \in Begun, BeginPublish(p, b)
      PROVE  LocksMatch'
  <2>1. ASSUME NEW q \in Proc PROVE LocksOf(q)'
    <3>1. call'[q] = IF q = p THEN "idle" ELSE call[q]
      BY <1>7 DEF BeginPublish, TypeOK
    <3>2. (Inside(q)' <=> Inside(q)) /\ (Running(q)' <=> Running(q))
      BY <1>7, WorkUntouched DEF BeginPublish
    <3> QED
      BY <1>1, <1>7, <3>1, <3>2, HoldersDiffer DEF LocksOf, BeginPublish
  <2> QED
    BY <2>1, LocksEach
<1>8. ASSUME NEW target \in States, Transition(p, target)
      PROVE  LocksMatch'
  BY <1>8, WriteSlotLocks DEF Transition
<1>9. CASE Advance(p)
  BY <1>9, WriteSlotLocks DEF Advance
<1>10. ASSUME NEW target \in States, ResolveLegacy(p, target)
       PROVE  LocksMatch'
  BY <1>10, WriteSlotLocks DEF ResolveLegacy
<1>11. CASE ArchiveTerminal(p)
  <2>1. ASSUME NEW q \in Proc PROVE LocksOf(q)'
    <3>1. call'[q] = IF q = p THEN "idle" ELSE call[q]
      BY <1>11 DEF ArchiveTerminal, TypeOK
    <3>2. (Inside(q)' <=> Inside(q)) /\ (Running(q)' <=> Running(q))
      BY <1>11, WorkUntouched DEF ArchiveTerminal
    <3> QED
      BY <1>1, <1>3, <1>11, <3>1, <3>2, HoldersDiffer, Released
      DEF LocksOf, ArchiveTerminal
  <2> QED
    BY <2>1, LocksEach
<1>12. CASE Fence(p)
  BY <1>12, WriteSlotLocks DEF Fence, InStore
<1>13. CASE EnterBoundary(p)
  <2>1. ASSUME NEW q \in Proc PROVE LocksOf(q)'
    <3>1. call'[q] = IF q = p THEN "boundary" ELSE call[q]
      BY <1>13 DEF EnterBoundary, TypeOK
    <3>2. (Inside(q)' <=> Inside(q)) /\ (Running(q)' <=> Running(q))
      BY <1>13, WorkUntouched DEF EnterBoundary
    <3> QED
      BY <1>1, <1>13, <3>1, <3>2, HoldersDiffer DEF LocksOf, EnterBoundary
  <2> QED
    BY <2>1, LocksEach
<1>14. CASE LeaveBoundary(p)
  <2>1. ASSUME NEW q \in Proc PROVE LocksOf(q)'
    <3>1. call'[q] = IF q = p THEN "idle" ELSE call[q]
      BY <1>14 DEF LeaveBoundary, TypeOK
    <3>2. (Inside(q)' <=> Inside(q)) /\ (Running(q)' <=> Running(q))
      BY <1>14, WorkUntouched DEF LeaveBoundary
    <3> QED
      BY <1>1, <1>14, <3>1, <3>2, HoldersDiffer DEF LocksOf, LeaveBoundary
  <2> QED
    BY <2>1, LocksEach
<1> QED
  BY <1>4, <1>5, <1>6, <1>7, <1>8, <1>9, <1>10, <1>11, <1>12, <1>13, <1>14
  DEF CliStep

LEMMA ChildLocks ==
  ASSUME TypeOK, LocksMatch, NEW p \in Proc, ChildStep(p)
  PROVE  LocksMatch'
<1>1. \A q \in Proc : LocksOf(q)
  BY LocksEach
<1>2. /\ runtimeLock \in {{}} \union {{h} : h \in Holders}
      /\ txLock \in {{}} \union {{h} : h \in Holders}
      /\ UNCHANGED call
  BY DEF TypeOK, ChildStep, Spawn, ChildBoundary, ChildEnter, ChildEnd
<1>3. SUFFICES ASSUME NEW q \in Proc PROVE LocksOf(q)'
  BY LocksEach
<1>4. \A s : child' = [child EXCEPT ![p] = s] =>
        child'[q] = IF q = p THEN s ELSE child[q]
  BY DEF TypeOK
<1>5. \A c, d \in child[p] : c = d
  BY DEF TypeOK
<1>6. ASSUME NEW mode \in RequestModes, Spawn(p, mode)
      PROVE  LocksOf(q)'
  <2>1. UNCHANGED <<runtimeLock, txLock>> /\ child[p] = {}
    BY <1>6 DEF Spawn
  <2>2. child'[q] = IF q = p THEN {[at |-> "spawned", req |-> RequestOf(mode)]}
                             ELSE child[q]
    BY <1>4, <1>6 DEF Spawn
  <2>3. (Inside(q)' <=> Inside(q)) /\ (Running(q)' <=> Running(q))
    BY <2>1, <2>2 DEF Inside, Running
  <2> QED
    BY <1>1, <1>2, <2>1, <2>3 DEF LocksOf
<1>7. CASE ChildBoundary(p)
  <2>1. PICK c \in child[p] :
          /\ c.at = "spawned"
          /\ IF runtimeLock = {}
             THEN /\ runtimeLock' = {Work(p)}
                  /\ child' = [child EXCEPT ![p] = {[c EXCEPT !.at = "boundary"]}]
             ELSE /\ child' = [child EXCEPT ![p] = {}]
                  /\ UNCHANGED runtimeLock
    BY <1>7 DEF ChildBoundary
  <2>2. ~Inside(p) /\ ~Running(p) /\ UNCHANGED txLock
    BY <1>5, <1>7, <2>1 DEF Inside, Running, ChildBoundary
  <2>3. [c EXCEPT !.at = "boundary"].at = "boundary"
    BY DEF TypeOK, Children
  <2>4. CASE runtimeLock = {}
    <3>1. child'[q] = IF q = p THEN {[c EXCEPT !.at = "boundary"]} ELSE child[q]
      BY <1>4, <2>1, <2>4
    <3>2. /\ Inside(q)' <=> (q = p \/ Inside(q))
          /\ Running(q)' <=> Running(q)
      BY <2>2, <2>3, <3>1 DEF Inside, Running
    <3> QED
      BY <1>1, <1>2, <2>1, <2>2, <2>4, <3>2, HoldersDiffer DEF LocksOf
  <2>5. CASE runtimeLock # {}
    <3>1. child'[q] = IF q = p THEN {} ELSE child[q]
      BY <1>4, <2>1, <2>5
    <3>2. /\ Inside(q)' <=> Inside(q)
          /\ Running(q)' <=> Running(q)
      BY <2>2, <3>1 DEF Inside, Running
    <3> QED
      BY <1>1, <1>2, <2>1, <2>2, <2>5, <3>2 DEF LocksOf
  <2> QED
    BY <2>4, <2>5
<1>8. CASE ChildEnter(p)
  <2>1. PICK c \in child[p] :
          /\ c.at = "boundary"
          /\ IF Authorized(slot, c.req)
             THEN /\ txLock' = {Work(p)}
                  /\ child' = [child EXCEPT ![p] = {[c EXCEPT !.at = "running"]}]
                  /\ UNCHANGED runtimeLock
             ELSE /\ runtimeLock' = {}
                  /\ child' = [child EXCEPT ![p] = {}]
                  /\ UNCHANGED txLock
    BY <1>8 DEF ChildEnter
  <2>2. Inside(p) /\ ~Running(p) /\ txLock = {}
    BY <1>5, <1>8, <2>1 DEF Inside, Running, ChildEnter
  <2>3. [c EXCEPT !.at = "running"].at = "running"
    BY DEF TypeOK, Children
  <2>4. CASE Authorized(slot, c.req)
    <3>1. child'[q] = IF q = p THEN {[c EXCEPT !.at = "running"]} ELSE child[q]
      BY <1>4, <2>1, <2>4
    <3>2. /\ Inside(q)' <=> Inside(q)
          /\ Running(q)' <=> (q = p \/ Running(q))
      BY <2>2, <2>3, <3>1 DEF Inside, Running
    <3> QED
      BY <1>1, <1>2, <2>1, <2>2, <2>4, <3>2, HoldersDiffer DEF LocksOf
  <2>5. CASE ~Authorized(slot, c.req)
    <3>1. child'[q] = IF q = p THEN {} ELSE child[q]
      BY <1>4, <2>1, <2>5
    <3>2. /\ Inside(q)' <=> (q # p /\ Inside(q))
          /\ Running(q)' <=> Running(q)
      BY <2>2, <3>1 DEF Inside, Running
    <3> QED
      BY <1>1, <1>2, <2>1, <2>2, <2>5, <3>2, HoldersDiffer DEF LocksOf
  <2> QED
    BY <2>4, <2>5
<1>9. CASE ChildEnd(p)
  <2>1. child'[q] = IF q = p THEN {} ELSE child[q]
    BY <1>4, <1>9 DEF ChildEnd
  <2>2. /\ Inside(q)' <=> (q # p /\ Inside(q))
        /\ Running(q)' <=> (q # p /\ Running(q))
    BY <2>1 DEF Inside, Running
  <2>3. /\ runtimeLock' = IF runtimeLock = {Work(p)} THEN {} ELSE runtimeLock
        /\ txLock' = IF txLock = {Work(p)} THEN {} ELSE txLock
    BY <1>2, <1>9, Released DEF ChildEnd
  <2> QED
    BY <1>1, <1>2, <2>2, <2>3, HoldersDiffer DEF LocksOf
<1> QED
  BY <1>6, <1>7, <1>8, <1>9 DEF ChildStep

LEMMA LocksInductive == TypeOK /\ LocksMatch /\ [Next]_vars => LocksMatch'
<1> SUFFICES ASSUME TypeOK, LocksMatch, [Next]_vars
             PROVE  LocksMatch'
  OBVIOUS
<1>1. \A q \in Proc : LocksOf(q)
  BY LocksEach
<1>2. /\ runtimeLock \in {{}} \union {{h} : h \in Holders}
      /\ txLock \in {{}} \union {{h} : h \in Holders}
  BY DEF TypeOK
<1>3. ASSUME NEW p \in Proc, CliStep(p) \/ ChildStep(p)
      PROVE  LocksMatch'
  BY <1>3, CliLocks, ChildLocks
<1>4. ASSUME NEW p \in Proc, Crash(p)
      PROVE  LocksMatch'
  <2>1. ASSUME NEW q \in Proc PROVE LocksOf(q)'
    <3>1. call'[q] = IF q = p THEN "dead" ELSE call[q]
      BY <1>4 DEF Crash, TypeOK
    <3>2. (Inside(q)' <=> Inside(q)) /\ (Running(q)' <=> Running(q))
      BY <1>4, WorkUntouched DEF Crash
    <3> QED
      BY <1>1, <1>2, <1>4, <3>1, <3>2, HoldersDiffer, Released DEF LocksOf, Crash
  <2> QED
    BY <2>1, LocksEach
<1>5. ASSUME NEW p \in Proc, Start(p)
      PROVE  LocksMatch'
  <2>1. ASSUME NEW q \in Proc PROVE LocksOf(q)'
    <3>1. call'[q] = IF q = p THEN "idle" ELSE call[q]
      BY <1>5 DEF Start, TypeOK
    <3>2. (Inside(q)' <=> Inside(q)) /\ (Running(q)' <=> Running(q))
      BY <1>5, WorkUntouched DEF Start
    <3> QED
      BY <1>1, <1>5, <3>1, <3>2 DEF LocksOf, Start
  <2> QED
    BY <2>1, LocksEach
<1>6. CASE Reboot
  <2>1. ASSUME NEW q \in Proc PROVE LocksOf(q)'
    <3>1. call'[q] = "dead" /\ child'[q] = {} /\ runtimeLock' = {} /\ txLock' = {}
      BY <1>6 DEF Reboot
    <3>2. ~Inside(q)' /\ ~Running(q)'
      BY <3>1 DEF Inside, Running
    <3> QED
      BY <3>1, <3>2, HoldersDiffer DEF LocksOf
  <2> QED
    BY <2>1, LocksEach
<1>7. CASE UNCHANGED vars
  <2>1. ASSUME NEW q \in Proc PROVE LocksOf(q)'
    <3>1. (Inside(q)' <=> Inside(q)) /\ (Running(q)' <=> Running(q))
      BY <1>7, WorkUntouched DEF vars
    <3> QED
      BY <1>1, <1>7, <3>1 DEF LocksOf, vars
  <2> QED
    BY <2>1, LocksEach
<1> QED
  BY <1>3, <1>4, <1>5, <1>6, <1>7 DEF Next

\* The initial state: no lock is held and nothing is at work.
LEMMA LocksInit == Init => LocksMatch
<1> SUFFICES ASSUME Init, NEW q \in Proc PROVE LocksOf(q)
  BY LocksEach
<1>1. call[q] = "idle" /\ child[q] = {} /\ runtimeLock = {} /\ txLock = {}
  BY DEF Init
<1>2. ~Inside(q) /\ ~Running(q)
  BY <1>1 DEF Inside, Running
<1> QED
  BY <1>1, <1>2, HoldersDiffer DEF LocksOf

\* Whoever is past a lock holds it and nobody else does, after any sequence of
\* calls, child exits, crashes and reboots (locked, runtime_boundary and
\* acquire_runtime_lock together).
THEOREM LocksAreExact == Spec => []LocksMatch
<1>1. Init => LocksMatch
  BY LocksInit
<1> QED
  BY <1>1, TypeCorrect, LocksInductive, PTL DEF Spec

--------------------------------------------------------------------------------
\* Authority.

\* While runtime work has transaction.lock, the transaction stands still.
LEMMA SlotStands ==
  ASSUME TypeOK, LocksMatch, [Next]_vars, NEW q \in Proc, Running(q)
  PROVE  slot' = slot
<1>1. txLock = {Work(q)} /\ txLock # {}
  BY HoldersDiffer DEF LocksMatch
<1>2. \A p \in Proc : txLock # {Cli(p)}
  BY <1>1, HoldersDiffer
<1>3. ASSUME NEW p \in Proc, CliStep(p)
      PROVE  slot' = slot
  <2>1. call[p] \notin {"capture", "archiving"}
    BY <1>2 DEF LocksMatch
  <2>2. \A doc : ~WriteSlot(p, doc)
    BY <1>1 DEF WriteSlot
  <2>3. \A b \in Begun : ~BeginPublish(p, b)
    BY <2>1 DEF BeginPublish
  <2>4. /\ \A target \in States : ~Transition(p, target) /\ ~ResolveLegacy(p, target)
        /\ ~Advance(p) /\ ~Fence(p)
    BY <2>2 DEF Transition, ResolveLegacy, Advance, Fence
  <2> QED
    BY <1>3, <2>3, <2>4
    DEF CliStep, BeginBoundary, BeginPrepare, CaptureFails, ArchiveTerminal,
        EnterBoundary, LeaveBoundary
<1>4. ASSUME NEW p \in Proc, ChildStep(p) \/ Crash(p) \/ Start(p)
      PROVE  slot' = slot
  BY <1>4 DEF ChildStep, Spawn, ChildBoundary, ChildEnter, ChildEnd, Crash, Start,
              durable
<1>5. CASE Reboot
  BY <1>5 DEF Reboot, durable
<1>6. CASE UNCHANGED vars
  BY <1>6 DEF vars
<1> QED
  BY <1>3, <1>4, <1>5, <1>6 DEF Next

\* Runtime work that may touch the runtime after a step either could before, or
\* was admitted by this step, on the transaction as it is.
LEMMA RunningStep ==
  ASSUME TypeOK, [Next]_vars, NEW q \in Proc, NEW c \in child'[q], c.at = "running"
  PROVE  c \in child[q] \/ (Authorized(slot, c.req) /\ slot' = slot)
<1>1. ASSUME NEW p \in Proc, CliStep(p) \/ Crash(p) \/ Start(p)
      PROVE  child' = child
  BY <1>1 DEF CliStep, BeginBoundary, BeginPrepare, CaptureFails, BeginPublish,
              Transition, Advance, ResolveLegacy, ArchiveTerminal, Fence,
              EnterBoundary, LeaveBoundary, WriteSlot, Crash, Start
<1>2. ASSUME NEW p \in Proc, NEW s, child' = [child EXCEPT ![p] = s]
      PROVE  child'[q] = IF q = p THEN s ELSE child[q]
  BY <1>2 DEF TypeOK
<1>3. ASSUME NEW p \in Proc, NEW mode \in RequestModes, Spawn(p, mode)
      PROVE  c \in child[q]
  <2>1. child' = [child EXCEPT ![p] = {[at |-> "spawned", req |-> RequestOf(mode)]}]
    BY <1>3 DEF Spawn
  <2> QED
    BY <1>2, <2>1
<1>4. ASSUME NEW p \in Proc, ChildBoundary(p)
      PROVE  c \in child[q]
  <2>1. PICK d \in child[p] :
          \/ child' = [child EXCEPT ![p] = {[d EXCEPT !.at = "boundary"]}]
          \/ child' = [child EXCEPT ![p] = {}]
    BY <1>4 DEF ChildBoundary
  <2>2. [d EXCEPT !.at = "boundary"].at = "boundary"
    BY <2>1 DEF TypeOK, Children
  <2>3. CASE child' = [child EXCEPT ![p] = {}]
    BY <1>2, <2>3
  <2>4. CASE child' = [child EXCEPT ![p] = {[d EXCEPT !.at = "boundary"]}]
    <3>1. child'[q] = IF q = p THEN {[d EXCEPT !.at = "boundary"]} ELSE child[q]
      BY <1>2, <2>4
    <3> QED
      BY <2>2, <3>1
  <2> QED
    BY <2>1, <2>3, <2>4
<1>5. ASSUME NEW p \in Proc, ChildEnter(p)
      PROVE  c \in child[q] \/ (Authorized(slot, c.req) /\ slot' = slot)
  <2>1. slot' = slot
    BY <1>5 DEF ChildEnter, durable
  <2>2. PICK d \in child[p] :
          \/ /\ Authorized(slot, d.req)
             /\ child' = [child EXCEPT ![p] = {[d EXCEPT !.at = "running"]}]
          \/ child' = [child EXCEPT ![p] = {}]
    BY <1>5 DEF ChildEnter
  <2>3. [d EXCEPT !.at = "running"].req = d.req
    BY <2>2 DEF TypeOK, Children
  <2>4. CASE child' = [child EXCEPT ![p] = {}]
    BY <1>2, <2>4
  <2>5. CASE /\ Authorized(slot, d.req)
             /\ child' = [child EXCEPT ![p] = {[d EXCEPT !.at = "running"]}]
    <3>1. CASE q = p
      <4>1. child'[q] = {[d EXCEPT !.at = "running"]}
        BY <1>2, <2>5, <3>1
      <4>2. c = [d EXCEPT !.at = "running"]
        BY <4>1
      <4> QED
        BY <2>1, <2>3, <2>5, <4>2
    <3>2. CASE q # p
      BY <1>2, <2>5, <3>2
    <3> QED
      BY <3>1, <3>2
  <2> QED
    BY <2>2, <2>4, <2>5
<1>6. ASSUME NEW p \in Proc, ChildEnd(p)
      PROVE  c \in child[q]
  <2>1. child' = [child EXCEPT ![p] = {}]
    BY <1>6 DEF ChildEnd
  <2> QED
    BY <1>2, <2>1
<1>7. CASE Reboot
  BY <1>7 DEF Reboot
<1>8. CASE UNCHANGED vars
  BY <1>8 DEF vars
<1> QED
  BY <1>1, <1>3, <1>4, <1>5, <1>6, <1>7, <1>8 DEF Next, ChildStep

LEMMA WorkInductive ==
  TypeOK /\ LocksMatch /\ WorkIsAuthorized /\ [Next]_vars => WorkIsAuthorized'
<1> SUFFICES ASSUME TypeOK, LocksMatch, WorkIsAuthorized, [Next]_vars,
                    NEW q \in Proc, NEW c \in child'[q], c.at = "running"
             PROVE  Authorized(slot', c.req)
  BY DEF WorkIsAuthorized, Authorized, IsActive, IsTerminal, IsRollout,
         IsPendingAction, PlanOf
<1>1. CASE c \in child[q]
  <2>1. Authorized(slot, c.req) /\ Running(q)
    BY <1>1 DEF WorkIsAuthorized, Running
  <2> QED
    BY <2>1, SlotStands
<1>2. CASE Authorized(slot, c.req) /\ slot' = slot
  BY <1>2
<1> QED
  BY <1>1, <1>2, RunningStep

\* Runtime work keeps its authority: no begin, transition, advance, fence or
\* crash changes the transaction under work that passed both locks
\* (authorized_runtime_mutation and acquire_runtime_lock hold transaction.lock
\* across the mutation).
THEOREM AuthorityHolds == Spec => []WorkIsAuthorized
<1>1. Init => WorkIsAuthorized
  BY DEF Init, WorkIsAuthorized
<1> QED
  BY <1>1, TypeCorrect, LocksAreExact, WorkInductive, PTL DEF Spec

--------------------------------------------------------------------------------
\* The slot and the archive.

\* WriteSlot under the store invariant, for a document that keeps the identity
\* of the current one and is not yet archived.
LEMMA WriteSlotStore ==
  ASSUME TypeOK, StoreInv, LocksMatch', NEW p \in Proc, NEW doc,
         InStore(p), WriteSlot(p, doc),
         doc.id = slot.id, slot.id # 0,
         doc.schema = 2 => doc.state \in States,
         ~IsTerminal(slot) \/ doc = slot
  PROVE  StoreInv'
<1>1. slot' = doc /\ UNCHANGED <<archive, lastId>> /\ txLock = {}
  BY DEF WriteSlot
<1>2. archive[slot.id] = NoDoc \/ doc = slot
  <2>1. slot.id \in Ids
    BY DEF TypeOK, Docs, Ids
  <2> QED
    BY <2>1 DEF StoreInv, NothingLost, ArchiveAgrees
<1>3. NothingLost'
  BY <1>1 DEF StoreInv, NothingLost, IsTerminal
<1>4. ArchiveAgrees'
  BY <1>1, <1>2 DEF StoreInv, ArchiveAgrees, NoDoc
<1>5. \A q \in Proc : call[q] \notin {"capture", "archiving"}
  BY <1>1, HoldersDiffer DEF StoreInv, LocksMatch
<1>6. \A q \in Proc : call'[q] # "capture" /\ (call'[q] = "archiving" => IsTerminal(doc))
  <2>1. CASE UNCHANGED call
    BY <1>5, <2>1
  <2>2. CASE IsTerminal(doc) /\ call' = [call EXCEPT ![p] = "archiving"]
    BY <1>5, <2>2 DEF TypeOK
  <2> QED
    BY <2>1, <2>2 DEF WriteSlot
<1>7. IsTerminal(slot)' <=> IsTerminal(doc)
  BY <1>1 DEF IsTerminal
<1> QED
  BY <1>1, <1>3, <1>4, <1>6, <1>7 DEF StoreInv

\* Archiving the current terminal document.
LEMMA ArchivedStore ==
  ASSUME TypeOK, NothingLost, ArchiveAgrees,
         \A id \in Ids : archive[id] # NoDoc => id <= lastId,
         slot.id # 0, IsTerminal(slot),
         archive' = Archived(slot), UNCHANGED <<slot, lastId>>
  PROVE  /\ NothingLost' /\ ArchiveAgrees'
         /\ \A id \in Ids : archive'[id] # NoDoc => id <= lastId
         /\ archive'[slot.id] = slot
<1>1. slot.id \in Ids /\ slot.id = lastId /\ lastId \in Nat
  BY DEF TypeOK, Docs, Ids, NothingLost
<1>2. \A id \in Ids : archive'[id] = IF id = slot.id THEN slot ELSE archive[id]
  <2>1. CASE archive[slot.id] = NoDoc
    <3>1. archive' = [archive EXCEPT ![slot.id] = slot]
      BY <2>1 DEF Archived
    <3> QED
      BY <3>1 DEF TypeOK
  <2>2. CASE archive[slot.id] # NoDoc
    BY <1>1, <2>2 DEF Archived, ArchiveAgrees
  <2> QED
    BY <2>1, <2>2
<1>3. NothingLost'
  BY <1>1, <1>2 DEF NothingLost, IsTerminal, Ids
<1>4. ArchiveAgrees'
  BY <1>1, <1>2 DEF ArchiveAgrees
<1> QED
  BY <1>1, <1>2, <1>3, <1>4

LEMMA StoreCli ==
  ASSUME TypeOK, StoreInv, LocksMatch', NEW p \in Proc, CliStep(p)
  PROVE  StoreInv'
<1>1. /\ LocksMatch /\ NothingLost /\ ArchiveAgrees
      /\ \A id \in Ids : archive[id] # NoDoc => id <= lastId
      /\ slot.id = lastId /\ slot \in Docs
      /\ slot.id # 0 /\ slot.schema = 2 => slot.state \in States
  BY DEF StoreInv, NothingLost, TypeOK
<1>2. \A x : call' = [call EXCEPT ![p] = x] =>
        \A q \in Proc : call'[q] = IF q = p THEN x ELSE call[q]
  BY DEF TypeOK
<1>3. ASSUME NEW x \in {"idle", "begin", "boundary"},
             call' = [call EXCEPT ![p] = x], UNCHANGED durable
      PROVE  StoreInv'
  <2>1. \A q \in Proc : call'[q] = IF q = p THEN x ELSE call[q]
    BY <1>2, <1>3
  <2>2. UNCHANGED <<slot, archive, lastId>>
    BY <1>3 DEF durable
  <2>3. NothingLost' /\ ArchiveAgrees'
    BY <1>1, <2>2 DEF NothingLost, ArchiveAgrees, IsTerminal
  <2> QED
    BY <1>1, <2>1, <2>2, <2>3 DEF StoreInv, IsActive, IsTerminal
<1>4. CASE BeginBoundary(p) \/ CaptureFails(p) \/ EnterBoundary(p) \/ LeaveBoundary(p)
  BY <1>3, <1>4 DEF BeginBoundary, CaptureFails, EnterBoundary, LeaveBoundary, durable
<1>5. CASE BeginPrepare(p)
  <2>1. CASE IsActive(slot) \/ ArchiveConflict(slot)
    BY <1>3, <1>5, <2>1 DEF BeginPrepare, durable
  <2>2. CASE ~(IsActive(slot) \/ ArchiveConflict(slot))
    <3>1. /\ call' = [call EXCEPT ![p] = "capture"] /\ UNCHANGED <<slot, lastId>>
          /\ archive' = IF slot.id = 0 THEN archive ELSE Archived(slot)
      BY <1>5, <2>2 DEF BeginPrepare
    <3>2. /\ NothingLost' /\ ArchiveAgrees'
          /\ \A id \in Ids : archive'[id] # NoDoc => id <= lastId
          /\ slot.id # 0 => archive'[slot.id] = slot
      <4>1. CASE slot.id = 0
        BY <1>1, <3>1, <4>1 DEF NothingLost, ArchiveAgrees, IsTerminal
      <4>2. CASE slot.id # 0
        BY <1>1, <2>2, <3>1, <4>2, ArchivedStore DEF IsActive
      <4> QED
        BY <4>1, <4>2
    <3>3. \A q \in Proc : call'[q] = IF q = p THEN "capture" ELSE call[q]
      BY <1>2, <3>1
    <3>4. ~IsActive(slot)'
      BY <2>2, <3>1 DEF IsActive, IsTerminal
    <3>5. \A q \in Proc : call[q] # "archiving"
      BY <1>1, <1>5, HoldersDiffer DEF BeginPrepare, LocksMatch
    <3> QED
      BY <1>1, <3>1, <3>2, <3>3, <3>4, <3>5 DEF StoreInv
  <2> QED
    BY <2>1, <2>2
<1>6. ASSUME NEW b \in Begun, BeginPublish(p, b)
      PROVE  StoreInv'
  <2>1. /\ slot' = NewDoc(lastId + 1, b[1], b[2], {p}) /\ lastId' = lastId + 1
        /\ UNCHANGED archive
        /\ call' = [call EXCEPT ![p] = "idle"]
    BY <1>6 DEF BeginPublish
  <2>2. slot'.id = lastId + 1 /\ slot'.schema = 2 /\ slot'.state = "planned"
    BY <2>1 DEF NewDoc
  <2>3. lastId \in Nat /\ \A id \in Ids : id \in Nat
    BY DEF TypeOK, Ids
  <2>4. slot.id # 0 => archive[slot.id] = slot
    BY <1>6 DEF BeginPublish, StoreInv
  <2>5. NothingLost'
    <3>1. ASSUME NEW id \in Ids, id < lastId' PROVE archive[id].id = id
      <4>1. CASE id < lastId
        BY <1>1, <4>1 DEF NothingLost
      <4>2. CASE id = lastId
        BY <1>1, <2>4, <4>2 DEF Ids
      <4> QED
        BY <2>1, <2>3, <3>1, <4>1, <4>2
    <3>2. \A id \in Ids : archive[id] # NoDoc => IsTerminal(archive[id])
      BY <1>1 DEF NothingLost
    <3> QED
      BY <2>1, <2>2, <3>1, <3>2 DEF NothingLost, IsTerminal
  <2>6. \A id \in Ids : archive[id] # NoDoc => id # slot'.id
    BY <1>1, <2>2, <2>3
  <2>7. ArchiveAgrees'
    BY <1>1, <2>1, <2>6 DEF ArchiveAgrees
  <2>8. \A q \in Proc : call'[q] = IF q = p THEN "idle" ELSE call[q]
    BY <1>2, <2>1
  <2>9. \A q \in Proc : q # p => call[q] \notin {"capture", "archiving"}
    BY <1>1, <1>6, HoldersDiffer DEF BeginPublish, LocksMatch
  <2>10. \A id \in Ids : archive'[id] # NoDoc => id <= lastId'
    BY <1>1, <2>1, <2>3
  <2> QED
    BY <2>1, <2>2, <2>5, <2>7, <2>8, <2>9, <2>10 DEF StoreInv, States
<1>7. ASSUME NEW target \in States, Transition(p, target)
      PROVE  StoreInv'
  <2>1. /\ Transitioned(slot, target).id = slot.id
        /\ Transitioned(slot, target).state = target
    BY <1>1 DEF Transitioned, Docs
  <2>2. slot.schema = 2 /\ slot.state \in States
    BY <1>1, <1>7 DEF Transition, CanTransition
  <2>3. ~IsTerminal(slot)
    BY <1>7, <2>2 DEF Transition, CanTransition, AllowedTransitions, IsTerminal,
                      TerminalStates, States
  <2> QED
    BY <1>7, <2>1, <2>3, WriteSlotStore DEF Transition
<1>8. CASE Advance(p)
  <2>1. PICK kind \in ActionKinds : /\ CanAdvance(slot, slot.ordinal, kind)
                                   /\ WriteSlot(p, Advanced(slot, slot.ordinal, kind))
    BY <1>8 DEF Advance
  <2>2. /\ Advanced(slot, slot.ordinal, kind).id = slot.id
        /\ Advanced(slot, slot.ordinal, kind).state = slot.state
        /\ Advanced(slot, slot.ordinal, kind).schema = slot.schema
    BY <1>1 DEF Advanced, Docs
  <2>3. slot.id # 0 /\ ~IsTerminal(slot) /\ InStore(p)
    BY <1>8, <2>1 DEF Advance, CanAdvance, IsActive
  <2> QED
    BY <1>1, <2>1, <2>2, <2>3, WriteSlotStore
<1>9. ASSUME NEW target \in States, ResolveLegacy(p, target)
      PROVE  StoreInv'
  <2>1. slot.schema = 1 /\ ~IsTerminal(slot) /\ slot.id # 0
    BY <1>9 DEF ResolveLegacy, IsActive
  <2>2. /\ [slot EXCEPT !.schema = 2, !.state = target].id = slot.id
        /\ [slot EXCEPT !.schema = 2, !.state = target].state = target
    BY <1>1 DEF Docs
  <2> QED
    BY <1>9, <2>1, <2>2, WriteSlotStore DEF ResolveLegacy
<1>10. CASE ArchiveTerminal(p)
  <2>1. slot.id # 0 /\ IsTerminal(slot)
    BY <1>10 DEF ArchiveTerminal, StoreInv
  <2>2. /\ archive' = Archived(slot) /\ UNCHANGED <<slot, lastId>>
        /\ call' = [call EXCEPT ![p] = "idle"]
    BY <1>10 DEF ArchiveTerminal
  <2>3. /\ NothingLost' /\ ArchiveAgrees'
        /\ \A id \in Ids : archive'[id] # NoDoc => id <= lastId
    BY <1>1, <2>1, <2>2, ArchivedStore
  <2>4. \A q \in Proc : call'[q] = IF q = p THEN "idle" ELSE call[q]
    BY <1>2, <2>2
  <2>5. \A q \in Proc : call'[q] \notin {"capture", "archiving"}
    BY <1>1, <1>10, <2>4, HoldersDiffer DEF ArchiveTerminal, LocksMatch
  <2> QED
    BY <1>1, <2>2, <2>3, <2>5 DEF StoreInv
<1>11. CASE Fence(p)
  <2>1. slot.id # 0 /\ ~IsTerminal(slot) /\ InStore(p)
    BY <1>11 DEF Fence, IsActive, InStore
  <2>2. /\ [slot EXCEPT !.state = "recovery_required", !.fenced = TRUE].id = slot.id
        /\ [slot EXCEPT !.state = "recovery_required", !.fenced = TRUE].state \in States
    BY <1>1 DEF Docs, States
  <2> QED
    BY <1>11, <2>1, <2>2, WriteSlotStore DEF Fence
<1> QED
  BY <1>4, <1>5, <1>6, <1>7, <1>8, <1>9, <1>10, <1>11 DEF CliStep

LEMMA StoreInductive == TypeOK /\ StoreInv /\ [Next]_vars => StoreInv'
<1> SUFFICES ASSUME TypeOK, StoreInv, [Next]_vars
             PROVE  StoreInv'
  OBVIOUS
<1>1. LocksMatch'
  BY LocksInductive DEF StoreInv
<1>2. ASSUME NEW p \in Proc, CliStep(p)
      PROVE  StoreInv'
  BY <1>1, <1>2, StoreCli
\* The other steps write no file and no process enters a call by them.
<1>3. ASSUME UNCHANGED durable,
             \A q \in Proc : call'[q] \in {call[q], "idle", "dead"}
      PROVE  StoreInv'
  <2>1. UNCHANGED <<slot, archive, lastId>>
    BY <1>3 DEF durable
  <2>2. NothingLost' /\ ArchiveAgrees'
    BY <2>1 DEF StoreInv, NothingLost, ArchiveAgrees, IsTerminal
  <2>3. /\ IsTerminal(slot)' <=> IsTerminal(slot)
        /\ IsActive(slot)' <=> IsActive(slot)
    BY <2>1 DEF IsTerminal, IsActive
  <2> QED
    BY <1>1, <1>3, <2>1, <2>2, <2>3 DEF StoreInv
<1>4. ASSUME NEW p \in Proc, ChildStep(p)
      PROVE  StoreInv'
  <2>1. UNCHANGED durable /\ UNCHANGED call
    BY <1>4 DEF ChildStep, Spawn, ChildBoundary, ChildEnter, ChildEnd, durable
  <2> QED
    BY <1>3, <2>1
<1>5. ASSUME NEW p \in Proc, Crash(p) \/ Start(p)
      PROVE  StoreInv'
  <2>1. UNCHANGED durable /\ \A q \in Proc : call'[q] \in {call[q], "idle", "dead"}
    BY <1>5 DEF Crash, Start, TypeOK, durable
  <2> QED
    BY <1>3, <2>1
<1>6. CASE Reboot
  BY <1>3, <1>6 DEF Reboot
<1>7. CASE UNCHANGED vars
  BY <1>3, <1>7 DEF vars, durable
<1> QED
  BY <1>2, <1>4, <1>5, <1>6, <1>7 DEF Next

LEMMA StoreInit == Init => StoreInv
<1> SUFFICES ASSUME Init PROVE StoreInv
  OBVIOUS
<1>1. /\ \A id \in Ids : archive[id] = NoDoc /\ id \in Nat /\ id >= 1
      /\ \A p \in Proc : call[p] = "idle"
  BY DEF Init, Ids
<1>2. slot = NoDoc \/ (slot.id = 1 /\ slot.schema = 1)
  BY DEF Init, LegacyDoc, NewDoc
<1>3. slot.id = lastId /\ lastId \in {0, 1}
  BY <1>2 DEF Init, NoDoc
<1>4. NothingLost /\ ArchiveAgrees
  BY <1>1, <1>3 DEF NothingLost, ArchiveAgrees
<1>5. slot.id # 0 /\ slot.schema = 2 => slot.state \in States
  BY <1>2 DEF NoDoc
<1> QED
  BY <1>1, <1>4, <1>5, LocksInit DEF StoreInv

\* Wherever processes die between the slot write and the archive write, no
\* transaction is lost and the archive never contradicts the slot, so a begin
\* is never refused for an archive conflict (_archive_terminal and
\* _prepare_begin_locked).
THEOREM StoreIsSound == Spec => []StoreInv
<1> QED
  BY StoreInit, StoreInductive, TypeCorrect, PTL DEF Spec

\* A begin captures its source with no transaction open and the one before it
\* archived, and nobody else past a lock (_prepare_begin_locked and
\* runtime_boundary).
THEOREM CaptureIsQuiet == Spec => []CaptureIsQuiescent
<1>1. TypeOK /\ StoreInv => CaptureIsQuiescent
  <2> SUFFICES ASSUME TypeOK, StoreInv, NEW p \in Proc, call[p] = "capture"
               PROVE  /\ ~IsActive(slot)
                      /\ slot.id # 0 => archive[slot.id] = slot
                      /\ \A q \in Proc : \A c \in child[q] : c.at = "spawned"
                      /\ \A q \in Proc \ {p} : call[q] \in {"idle", "dead"}
    BY DEF CaptureIsQuiescent
  <2>1. runtimeLock = {Cli(p)} /\ txLock = {Cli(p)}
    BY DEF StoreInv, LocksMatch
  <2>2. \A q \in Proc : ~Inside(q)
    BY <2>1, HoldersDiffer DEF StoreInv, LocksMatch
  <2>3. ASSUME NEW q \in Proc \ {p}
        PROVE  call[q] \in {"idle", "dead"}
    <3>1. runtimeLock # {Cli(q)} /\ txLock # {Cli(q)}
      BY <2>1, HoldersDiffer
    <3>2. call[q] \notin {"begin", "capture", "boundary", "archiving"}
      BY <3>1 DEF StoreInv, LocksMatch
    <3> QED
      BY <3>2 DEF TypeOK, Calls
  <2> QED
    BY <2>2, <2>3 DEF StoreInv, Inside
<1> QED
  BY <1>1, TypeCorrect, StoreIsSound, PTL

--------------------------------------------------------------------------------
\* Verdicts.

\* The three ways a step can touch the files.
FilesStand == UNCHANGED <<slot, lastId>> /\ archive' = archive
SlotArchived ==
  /\ UNCHANGED <<slot, lastId>> /\ archive' = Archived(slot)
  /\ slot.id # 0 /\ IsTerminal(slot)
SlotRewritten ==
  /\ UNCHANGED <<archive, lastId>> /\ slot'.id = slot.id
  /\ IsActive(slot) /\ (slot'.schema = 2 => slot'.state \in States)
SlotReplaced ==
  /\ UNCHANGED archive /\ lastId' = lastId + 1 /\ slot'.id = lastId + 1
  /\ lastId < MaxTx /\ ~IsTerminal(slot')
  /\ ~IsActive(slot) /\ (slot.id # 0 => archive[slot.id] = slot)

LEMMA FileStep ==
  ASSUME TypeOK, StoreInv, [Next]_vars
  PROVE  FilesStand \/ SlotArchived \/ SlotRewritten \/ SlotReplaced
<1> USE DEF FilesStand, SlotArchived, SlotRewritten, SlotReplaced
<1>1. /\ slot \in Docs
      /\ slot.id # 0 /\ slot.schema = 2 => slot.state \in States
  BY DEF StoreInv, TypeOK
<1>2. ASSUME NEW p \in Proc, BeginPrepare(p)
      PROVE  FilesStand \/ SlotArchived
  BY <1>2 DEF BeginPrepare, IsActive
<1>3. ASSUME NEW p \in Proc, NEW b \in Begun, BeginPublish(p, b)
      PROVE  SlotReplaced
  <2>1. slot' = NewDoc(lastId + 1, b[1], b[2], {p})
    BY <1>3 DEF BeginPublish
  <2>2. slot'.id = lastId + 1 /\ ~IsTerminal(slot')
    BY <2>1 DEF NewDoc, IsTerminal, TerminalStates
  <2>3. ~IsActive(slot) /\ (slot.id # 0 => archive[slot.id] = slot)
    BY <1>3 DEF BeginPublish, StoreInv
  <2> QED
    BY <1>3, <2>2, <2>3 DEF BeginPublish
<1>4. ASSUME NEW p \in Proc, NEW target \in States, Transition(p, target)
      PROVE  SlotRewritten
  <2>1. slot' = Transitioned(slot, target) /\ UNCHANGED <<archive, lastId>>
    BY <1>4 DEF Transition, WriteSlot
  <2>2. slot'.id = slot.id /\ slot'.state = target
    BY <1>1, <2>1 DEF Transitioned, Docs
  <2>3. slot.schema = 2 /\ slot.state \in States
    BY <1>1, <1>4 DEF Transition, CanTransition
  <2>4. IsActive(slot)
    BY <1>4, <2>3 DEF Transition, CanTransition, AllowedTransitions, IsTerminal,
                      TerminalStates, States, IsActive
  <2> QED
    BY <2>1, <2>2, <2>4
<1>5. ASSUME NEW p \in Proc, Advance(p)
      PROVE  SlotRewritten
  <2>1. PICK kind \in ActionKinds : /\ CanAdvance(slot, slot.ordinal, kind)
                                   /\ WriteSlot(p, Advanced(slot, slot.ordinal, kind))
    BY <1>5 DEF Advance
  <2>2. /\ slot'.id = slot.id /\ slot'.state = slot.state /\ slot'.schema = slot.schema
        /\ UNCHANGED <<archive, lastId>>
    BY <1>1, <2>1 DEF Advanced, Docs, WriteSlot
  <2>3. IsActive(slot)
    BY <2>1 DEF CanAdvance
  <2> QED
    BY <1>1, <2>2, <2>3 DEF IsActive
<1>6. ASSUME NEW p \in Proc, NEW target \in States, ResolveLegacy(p, target)
      PROVE  SlotRewritten
  <2>1. /\ slot' = [slot EXCEPT !.schema = 2, !.state = target]
        /\ UNCHANGED <<archive, lastId>> /\ IsActive(slot)
    BY <1>6 DEF ResolveLegacy, WriteSlot
  <2>2. slot'.id = slot.id /\ slot'.state = target
    BY <1>1, <2>1 DEF Docs
  <2> QED
    BY <2>1, <2>2
<1>7. ASSUME NEW p \in Proc, ArchiveTerminal(p)
      PROVE  SlotArchived
  BY <1>7 DEF ArchiveTerminal, StoreInv
<1>8. ASSUME NEW p \in Proc, Fence(p)
      PROVE  SlotRewritten
  <2>1. /\ slot' = [slot EXCEPT !.state = "recovery_required", !.fenced = TRUE]
        /\ UNCHANGED <<archive, lastId>> /\ IsActive(slot)
    BY <1>8 DEF Fence, WriteSlot
  <2>2. slot'.id = slot.id /\ slot'.state = "recovery_required"
    BY <1>1, <2>1 DEF Docs
  <2> QED
    BY <2>1, <2>2 DEF States
<1>9. ASSUME NEW p \in Proc, \/ BeginBoundary(p) \/ CaptureFails(p) \/ EnterBoundary(p)
                             \/ LeaveBoundary(p) \/ ChildStep(p) \/ Crash(p) \/ Start(p)
      PROVE  FilesStand
  BY <1>9 DEF BeginBoundary, CaptureFails, EnterBoundary, LeaveBoundary, ChildStep,
              Spawn, ChildBoundary, ChildEnter, ChildEnd, Crash, Start, durable
<1>10. CASE Reboot \/ UNCHANGED vars
  BY <1>10 DEF Reboot, vars, durable
<1> QED
  BY <1>2, <1>3, <1>4, <1>5, <1>6, <1>7, <1>8, <1>9, <1>10 DEF Next, CliStep

LEMMA FinalStep ==
  ASSUME TypeOK, StoreInv, [Next]_vars
  PROVE  /\ slot.id # 0 /\ IsTerminal(slot) /\ slot' # slot
              => slot'.id = slot.id + 1 /\ archive[slot.id] = slot
         /\ \A id \in Ids : archive[id] # NoDoc => archive'[id] = archive[id]
<1>1. slot.id = lastId
  BY DEF StoreInv, NothingLost
<1>2. CASE FilesStand
  BY <1>2 DEF FilesStand
<1>3. CASE SlotArchived
  <2>1. \A id \in Ids : archive[id] # NoDoc => archive'[id] = archive[id]
    BY <1>3 DEF SlotArchived, Archived, TypeOK
  <2> QED
    BY <1>3, <2>1 DEF SlotArchived
<1>4. CASE SlotRewritten
  BY <1>4 DEF SlotRewritten, IsActive
<1>5. CASE SlotReplaced
  BY <1>1, <1>5 DEF SlotReplaced
<1> QED
  BY <1>2, <1>3, <1>4, <1>5, FileStep

\* A verdict is final: no call, in any order and by any process, rewrites a
\* terminal document or an archive file, and the slot is reused only once its
\* terminal document is archived (transition and _archive_terminal).
THEOREM VerdictsAreFinal == Spec => TerminalIsFinal
<1>1. TypeOK /\ StoreInv /\ [Next]_vars =>
        [/\ slot.id # 0 /\ IsTerminal(slot) /\ slot' # slot
              => slot'.id = slot.id + 1 /\ archive[slot.id] = slot
         /\ \A id \in Ids : archive[id] # NoDoc => archive'[id] = archive[id]]_vars
  BY FinalStep
<1> QED
  BY <1>1, TypeCorrect, StoreIsSound, PTL DEF Spec, TerminalIsFinal

--------------------------------------------------------------------------------
\* The journal.

\* What JournalFollowsPlan says of one document.
JournalOf(doc) ==
  /\ doc.ordinal = Len(doc.results)
  /\ IsRollout(doc) => doc.results = SubSeq(PlanOf(doc), 1, doc.ordinal)
  /\ IsRollout(doc) /\ doc.state \in {"completed", "superseded-verified"}
       => doc.results = PlanOf(doc)

\* A schema v1 document is never a rollout, so a review that ends it skips no
\* plan.
JournalInv ==
  /\ JournalOf(slot)
  /\ \A id \in Ids : JournalOf(archive[id])
  /\ slot.schema = 1 => ~IsRollout(slot)

\* Journalling the next action of a plan extends the prefix by it.
LEMMA PrefixGrows ==
  ASSUME NEW op, NEW tier, NEW n \in Nat, n < Len(Plan(op, tier))
  PROVE  SubSeq(Plan(op, tier), 1, n + 1) =
           Append(SubSeq(Plan(op, tier), 1, n), Plan(op, tier)[n + 1])
<1> DEFINE plan == Plan(op, tier)
<1>1. plan \in Seq(ActionKinds) /\ Len(plan) \in Nat
  BY PlanType, LenProperties
<1>2. 1 \in 1 .. Len(plan) /\ n + 1 \in 1 .. Len(plan)
  BY <1>1
<1>3. SubSeq(plan, 1, n + 1) = SubSeq(plan, 1, n) \o <<plan[n + 1]>>
  BY <1>1, <1>2, SubSeqRecursiveSecond
<1>4. SubSeq(plan, 1, n) \in Seq(ActionKinds) /\ plan[n + 1] \in ActionKinds
  BY <1>1, <1>2, SubSeqProperties, ElementOfSeq
<1> QED
  BY <1>3, <1>4, AppendIsConcat

\* Journalling an action keeps the journal a prefix.
LEMMA AdvancedJournal ==
  ASSUME NEW doc \in Docs, NEW kind \in ActionKinds, JournalOf(doc),
         CanAdvance(doc, doc.ordinal, kind)
  PROVE  JournalOf(Advanced(doc, doc.ordinal, kind))
<1> DEFINE next == Advanced(doc, doc.ordinal, kind)
<1>1. doc.ordinal \in Nat /\ doc.results \in Seq(ActionKinds)
  BY DEF Docs
<1>2. /\ next.ordinal = doc.ordinal + 1 /\ next.results = Append(doc.results, kind)
      /\ next.op = doc.op /\ next.tier = doc.tier /\ next.state = doc.state
  BY DEF Advanced, Docs
<1>3. Len(next.results) = next.ordinal
  BY <1>1, <1>2, AppendProperties DEF JournalOf
<1>4. doc.results = SubSeq(PlanOf(doc), 1, doc.ordinal)
  BY DEF JournalOf, CanAdvance
<1>5. /\ doc.ordinal < Len(Plan(doc.op, doc.tier))
      /\ kind = Plan(doc.op, doc.tier)[doc.ordinal + 1]
  BY DEF CanAdvance, PlanOf
<1>6. next.results = SubSeq(PlanOf(next), 1, next.ordinal)
  BY <1>1, <1>2, <1>4, <1>5, PrefixGrows DEF PlanOf
<1>7. next.state \notin {"completed", "superseded-verified"}
  BY <1>2 DEF CanAdvance, IsActive, IsTerminal, TerminalStates
<1> QED
  BY <1>3, <1>6, <1>7 DEF JournalOf

\* A rollout is given a successful verdict only with its plan carried out.
LEMMA TransitionedJournal ==
  ASSUME NEW doc \in Docs, NEW target \in States, JournalOf(doc),
         CanTransition(doc, target)
  PROVE  JournalOf(Transitioned(doc, target))
<1> DEFINE next == Transitioned(doc, target)
<1>1. /\ next.ordinal = doc.ordinal /\ next.results = doc.results
      /\ next.op = doc.op /\ next.tier = doc.tier /\ next.state = target
  BY DEF Transitioned, Docs
<1>2. ASSUME IsRollout(doc), target \in {"completed", "superseded-verified"}
      PROVE  doc.results = PlanOf(doc)
  <2>1. doc.ordinal = Len(PlanOf(doc))
    BY <1>2 DEF CanTransition
  <2>2. PlanOf(doc) \in Seq(ActionKinds)
    BY PlanType DEF PlanOf
  <2> QED
    BY <1>2, <2>1, <2>2, SubSeqFull DEF JournalOf
<1> QED
  BY <1>1, <1>2 DEF JournalOf, IsRollout, PlanOf

LEMMA FreshJournal ==
  ASSUME NEW doc, doc.ordinal = 0, doc.results = <<>>,
         doc.state \notin {"completed", "superseded-verified"} \/ ~IsRollout(doc)
  PROVE  JournalOf(doc)
<1>1. Len(<<>>) = 0
  BY EmptySeq
<1>2. SubSeq(PlanOf(doc), 1, 0) = <<>>
  BY SubSeqEmpty
<1> QED
  BY <1>1, <1>2 DEF JournalOf

LEMMA JournalInit == Init => JournalInv
<1> SUFFICES ASSUME Init PROVE JournalInv
  OBVIOUS
<1>1. JournalOf(NoDoc)
  BY FreshJournal DEF NoDoc
<1>2. ASSUME NEW s \in LegacyStates
      PROVE  JournalOf(LegacyDoc(s)) /\ ~IsRollout(LegacyDoc(s))
  <2>1. /\ LegacyDoc(s).ordinal = 0 /\ LegacyDoc(s).results = <<>>
        /\ LegacyDoc(s).op = "deploy"
    BY DEF LegacyDoc, NewDoc
  <2> QED
    BY <2>1, FreshJournal DEF IsRollout, RolloutOperations
<1>3. NoDoc.schema = 2
  BY DEF NoDoc
<1> QED
  BY <1>1, <1>2, <1>3 DEF Init, JournalInv

\* Only these steps write a journal; every other one leaves the slot alone.
LEMMA JournalInductive ==
  ASSUME TypeOK, StoreInv, JournalInv, [Next]_vars
  PROVE  JournalInv'
<1>1. slot \in Docs /\ JournalOf(slot) /\ \A id \in Ids : JournalOf(archive[id])
  BY DEF TypeOK, JournalInv
<1>2. ASSUME archive' \in {archive, Archived(slot)}
      PROVE  \A id \in Ids : JournalOf(archive'[id])
  BY <1>1, <1>2 DEF Archived, TypeOK
<1>3. ASSUME UNCHANGED slot, archive' \in {archive, Archived(slot)}
      PROVE  JournalInv'
  BY <1>2, <1>3 DEF JournalInv
<1>4. ASSUME JournalOf(slot'), archive' = archive, slot'.schema = 1 => ~IsRollout(slot')
      PROVE  JournalInv'
  BY <1>2, <1>4 DEF JournalInv
<1>5. ASSUME NEW p \in Proc, BeginPrepare(p) \/ ArchiveTerminal(p)
      PROVE  JournalInv'
  BY <1>3, <1>5 DEF BeginPrepare, ArchiveTerminal
<1>6. ASSUME NEW p \in Proc, NEW b \in Begun, BeginPublish(p, b)
      PROVE  JournalInv'
  <2>1. /\ slot'.ordinal = 0 /\ slot'.results = <<>> /\ slot'.schema = 2
        /\ slot'.state = "planned" /\ archive' = archive
    BY <1>6 DEF BeginPublish, NewDoc
  <2> QED
    BY <1>4, <2>1, FreshJournal
<1>7. ASSUME NEW p \in Proc, NEW target \in States, Transition(p, target)
      PROVE  JournalInv'
  <2>1. slot' = Transitioned(slot, target) /\ archive' = archive
    BY <1>7 DEF Transition, WriteSlot
  <2>2. JournalOf(slot')
    BY <1>1, <1>7, <2>1, TransitionedJournal DEF Transition
  <2>3. slot'.schema = 2
    BY <1>1, <1>7, <2>1 DEF Transition, CanTransition, Transitioned, Docs
  <2> QED
    BY <1>4, <2>1, <2>2, <2>3
<1>8. ASSUME NEW p \in Proc, Advance(p)
      PROVE  JournalInv'
  <2>1. PICK kind \in ActionKinds : /\ CanAdvance(slot, slot.ordinal, kind)
                                   /\ WriteSlot(p, Advanced(slot, slot.ordinal, kind))
    BY <1>8 DEF Advance
  <2>2. slot' = Advanced(slot, slot.ordinal, kind) /\ archive' = archive
    BY <2>1 DEF WriteSlot
  <2>3. JournalOf(slot')
    BY <1>1, <2>1, <2>2, AdvancedJournal
  <2>4. slot'.schema = 2
    BY <1>1, <2>1, <2>2 DEF CanAdvance, Advanced, Docs
  <2> QED
    BY <1>4, <2>2, <2>3, <2>4
<1>9. ASSUME NEW p \in Proc, NEW target \in States, ResolveLegacy(p, target)
      PROVE  JournalInv'
  <2>1. /\ slot' = [slot EXCEPT !.schema = 2, !.state = target]
        /\ archive' = archive /\ slot.schema = 1
    BY <1>9 DEF ResolveLegacy, WriteSlot
  <2>2. /\ slot'.op = slot.op /\ slot'.ordinal = slot.ordinal
        /\ slot'.results = slot.results /\ slot'.schema = 2
    BY <1>1, <2>1 DEF Docs
  <2>3. ~IsRollout(slot) /\ ~IsRollout(slot')
    BY <2>1, <2>2 DEF JournalInv, IsRollout
  <2> QED
    BY <1>1, <1>4, <2>1, <2>2, <2>3 DEF JournalOf
<1>10. ASSUME NEW p \in Proc, Fence(p)
       PROVE  JournalInv'
  <2>1. /\ slot' = [slot EXCEPT !.state = "recovery_required", !.fenced = TRUE]
        /\ archive' = archive /\ slot.schema = 2
    BY <1>10 DEF Fence, WriteSlot
  <2>2. /\ slot'.op = slot.op /\ slot'.tier = slot.tier /\ slot'.ordinal = slot.ordinal
        /\ slot'.results = slot.results /\ slot'.schema = 2
        /\ slot'.state = "recovery_required"
    BY <1>1, <2>1 DEF Docs
  <2> QED
    BY <1>1, <1>4, <2>1, <2>2 DEF JournalOf, IsRollout, PlanOf
<1>11. ASSUME NEW p \in Proc, \/ BeginBoundary(p) \/ CaptureFails(p) \/ EnterBoundary(p)
                              \/ LeaveBoundary(p) \/ ChildStep(p) \/ Crash(p) \/ Start(p)
       PROVE  JournalInv'
  BY <1>3, <1>11 DEF BeginBoundary, CaptureFails, EnterBoundary, LeaveBoundary, ChildStep,
              Spawn, ChildBoundary, ChildEnter, ChildEnd, Crash, Start, durable
<1>12. CASE Reboot \/ UNCHANGED vars
  BY <1>3, <1>12 DEF Reboot, vars, durable
<1> QED
  BY <1>5, <1>6, <1>7, <1>8, <1>9, <1>10, <1>11, <1>12 DEF Next, CliStep

\* The journal of every document, in the slot or archived, is a prefix of the
\* approved plan, and a rollout ends successfully only with all of its plan
\* journalled (advance_rollout_action, transition, _validate_rollout_progress).
THEOREM JournalIsPrefix == Spec => []JournalFollowsPlan
<1>1. JournalInv => JournalFollowsPlan
  BY DEF JournalInv, JournalOf, JournalFollowsPlan
<1>2. TypeOK /\ StoreInv /\ JournalInv /\ [Next]_vars => JournalInv'
  BY JournalInductive
<1> QED
  BY <1>1, <1>2, JournalInit, TypeCorrect, StoreIsSound, PTL DEF Spec

\* What a step may do to a recovering transaction.
LEMMA RecoveryStep ==
  ASSUME TypeOK, StoreInv, [Next]_vars,
         slot.state \in RecoveryStates, slot.schema = 2, slot'.id = slot.id
  PROVE  /\ slot'.results = slot.results
         /\ slot'.state \in RecoveryStates \union TerminalStates
<1>1. slot \in Docs
  BY DEF TypeOK
<1>2. ASSUME NEW p \in Proc, NEW b \in Begun, BeginPublish(p, b)
      PROVE  FALSE
  <2>1. slot'.id = lastId + 1 /\ slot.id = lastId
    BY <1>2 DEF BeginPublish, NewDoc, StoreInv, NothingLost
  <2>2. lastId \in Nat
    BY DEF TypeOK
  <2>3. lastId + 1 # lastId
    BY <2>2
  <2> QED
    BY <2>1, <2>3
<1>3. ASSUME NEW p \in Proc, NEW target \in States, Transition(p, target)
      PROVE  slot'.results = slot.results /\ slot'.state \in RecoveryStates \union TerminalStates
  <2>1. slot'.results = slot.results /\ slot'.state = target
    BY <1>1, <1>3 DEF Transition, WriteSlot, Transitioned, Docs
  <2>2. target \in RecoveryStates \union TerminalStates
    BY <1>3 DEF Transition, CanTransition, AllowedTransitions, RecoveryStates,
                TerminalStates, States
  <2> QED
    BY <2>1, <2>2
<1>4. ASSUME NEW p \in Proc, Advance(p)
      PROVE  FALSE
  BY <1>4 DEF Advance, CanAdvance
<1>5. ASSUME NEW p \in Proc, NEW target \in States, ResolveLegacy(p, target)
      PROVE  FALSE
  BY <1>5 DEF ResolveLegacy
<1>6. ASSUME NEW p \in Proc, Fence(p)
      PROVE  slot'.results = slot.results /\ slot'.state \in RecoveryStates
  BY <1>1, <1>6 DEF Fence, WriteSlot, Docs, RecoveryStates
<1>7. ASSUME NEW p \in Proc,
             \/ BeginBoundary(p) \/ BeginPrepare(p) \/ CaptureFails(p)
             \/ ArchiveTerminal(p) \/ EnterBoundary(p) \/ LeaveBoundary(p)
             \/ ChildStep(p) \/ Crash(p) \/ Start(p)
      PROVE  UNCHANGED slot
  BY <1>7 DEF BeginBoundary, BeginPrepare, CaptureFails, ArchiveTerminal, EnterBoundary,
              LeaveBoundary, ChildStep, Spawn, ChildBoundary, ChildEnter, ChildEnd,
              Crash, Start, durable
<1>8. CASE Reboot \/ UNCHANGED vars
  BY <1>8 DEF Reboot, vars, durable
<1> QED
  BY <1>2, <1>3, <1>4, <1>5, <1>6, <1>7, <1>8 DEF Next, CliStep

\* No call, in any order and by any process, journals an action of a recovering
\* transaction or takes it out of recovery, but for a verdict (the recovery
\* states of advance_rollout_action and ALLOWED_TRANSITIONS).
THEOREM RecoveryNeverReturns == Spec => RecoveryIsOneWay
<1>1. TypeOK /\ StoreInv /\ [Next]_vars =>
        [slot.state \in RecoveryStates /\ slot.schema = 2 /\ slot'.id = slot.id
           => /\ slot'.results = slot.results
              /\ slot'.state \in RecoveryStates \union TerminalStates]_vars
  BY RecoveryStep
<1> QED
  BY <1>1, TypeCorrect, StoreIsSound, PTL DEF Spec, RecoveryIsOneWay

--------------------------------------------------------------------------------
\* The store implements the ledger.

\* The verdict the refinement mapping gives to an id.
VerdictOf(id) ==
  LET doc == IF slot.id = id THEN slot ELSE archive[id]
  IN  IF doc.id # 0 /\ IsTerminal(doc) THEN doc.state ELSE "open"

LEMMA LedgerInit == Init => Ledger!Init
<1> SUFFICES ASSUME Init PROVE Ledger!Init
  OBVIOUS
<1>1. slot.id = lastId /\ lastId \in {0, 1} /\ (1 .. lastId) \in {{}, {1}}
  <2>1. slot = NoDoc \/ slot.id = 1
    BY DEF Init, LegacyDoc, NewDoc
  <2>2. slot.id = lastId /\ lastId \in {0, 1}
    BY <2>1 DEF Init, NoDoc
  <2> QED
    BY <2>2
<1>2. \A id \in Ids : VerdictOf(id) \in TerminalStates \union {"open"}
  <2>1. slot = NoDoc \/ (slot.state \in LegacyStates /\ slot.schema = 1)
    BY DEF Init, LegacyDoc, NewDoc
  <2>2. \A id \in Ids : archive[id] = NoDoc
    BY DEF Init
  <2> QED
    BY <2>1, <2>2 DEF VerdictOf, NoDoc, IsTerminal, TerminalStates
<1>3. \A id \in Ids \ (1 .. lastId) : VerdictOf(id) = "open"
  <2>1. \A id \in Ids \ (1 .. lastId) : slot.id # id /\ archive[id] = NoDoc
    BY <1>1 DEF Init, Ids
  <2> QED
    BY <2>1 DEF VerdictOf, NoDoc
<1> QED
  BY <1>1, <1>2, <1>3 DEF Ledger!Init, VerdictOf

LEMMA LedgerStep ==
  ASSUME TypeOK, StoreInv, TypeOK', StoreInv', [Next]_vars
  PROVE  [Ledger!Next]_(Ledger!ledgerVars)
<1>1. slot.id = lastId /\ lastId \in 0 .. MaxTx /\ MaxTx \in Nat
  BY StoreAssumption DEF StoreInv, NothingLost, TypeOK
<1>3. CASE FilesStand
  <2>1. \A id \in Ids : VerdictOf(id)' = VerdictOf(id)
    BY <1>3 DEF FilesStand, VerdictOf, IsTerminal
  <2> QED
    BY <1>3, <2>1 DEF FilesStand, VerdictOf, Ledger!ledgerVars
<1>4. CASE SlotArchived
  <2>1. \A id \in Ids : id # slot.id => archive'[id] = archive[id]
    BY <1>4 DEF SlotArchived, Archived, TypeOK
  <2>2. \A id \in Ids : VerdictOf(id)' = VerdictOf(id)
    BY <1>4, <2>1 DEF SlotArchived, VerdictOf, IsTerminal
  <2> QED
    BY <1>4, <2>2 DEF SlotArchived, VerdictOf, Ledger!ledgerVars
<1>5. CASE SlotRewritten
  <2>1. PICK i \in Ids : i = slot.id /\ i \in 1 .. lastId
    BY <1>1, <1>5 DEF SlotRewritten, IsActive, Ids
  <2>2. VerdictOf(i) = "open"
    BY <1>5, <2>1 DEF SlotRewritten, IsActive, VerdictOf
  <2>3. \A id \in Ids : id # i => VerdictOf(id)' = VerdictOf(id)
    BY <1>5, <2>1 DEF SlotRewritten, VerdictOf, IsTerminal
  <2>4. VerdictOf(i)' \in TerminalStates \union {"open"}
    BY <1>5, <2>1 DEF SlotRewritten, VerdictOf, IsTerminal, TerminalStates
  <2>5. [id \in Ids |-> VerdictOf(id)]' =
          [[id \in Ids |-> VerdictOf(id)] EXCEPT ![i] = VerdictOf(i)']
    BY <2>1, <2>3
  <2>6. UNCHANGED (1 .. lastId)
    BY <1>5 DEF SlotRewritten
  <2>7. CASE VerdictOf(i)' = "open"
    <3>1. \A id \in Ids : VerdictOf(id)' = VerdictOf(id)
      BY <2>2, <2>3, <2>7
    <3> QED
      BY <2>6, <3>1 DEF VerdictOf, Ledger!ledgerVars
  <2>8. CASE VerdictOf(i)' \in TerminalStates
    <3>1. Ledger!Close
      BY <2>1, <2>2, <2>5, <2>6, <2>8 DEF Ledger!Close, VerdictOf
    <3> QED
      BY <3>1 DEF Ledger!Next
  <2> QED
    BY <2>4, <2>7, <2>8
<1>6. CASE SlotReplaced
  <2>1. /\ lastId + 1 \in Ids \ (1 .. lastId)
        /\ (1 .. lastId)' = (1 .. lastId) \union {lastId + 1}
        /\ \A other \in 1 .. lastId : other < lastId + 1
    BY <1>1, <1>6 DEF SlotReplaced, Ids
  <2>2. \A id \in Ids : VerdictOf(id)' = VerdictOf(id)
    <3>1. ASSUME NEW id \in Ids, id = slot.id
          PROVE  VerdictOf(id)' = VerdictOf(id)
      BY <1>1, <1>6, <3>1 DEF SlotReplaced, VerdictOf, IsTerminal, Ids
    <3>2. ASSUME NEW id \in Ids, id = lastId + 1
          PROVE  VerdictOf(id)' = VerdictOf(id)
      <4>1. archive[id] = NoDoc
        BY <1>1, <3>2 DEF StoreInv, Ids
      <4> QED
        BY <1>1, <1>6, <3>2, <4>1 DEF SlotReplaced, VerdictOf, NoDoc, IsTerminal
    <3>3. ASSUME NEW id \in Ids, id # slot.id, id # lastId + 1
          PROVE  VerdictOf(id)' = VerdictOf(id)
      BY <1>1, <1>6, <3>3 DEF SlotReplaced, VerdictOf, IsTerminal
    <3> QED
      BY <3>1, <3>2, <3>3
  <2>3. \A id \in 1 .. lastId : id \in Ids /\ VerdictOf(id) # "open"
    <3>1. ASSUME NEW id \in 1 .. lastId, id = slot.id
          PROVE  VerdictOf(id) # "open"
      <4>1. IsTerminal(slot) /\ slot.id # 0
        BY <1>1, <1>6, <3>1 DEF SlotReplaced, IsActive
      <4>2. slot.state # "open"
        BY <4>1 DEF IsTerminal, TerminalStates
      <4> QED
        BY <3>1, <4>1, <4>2 DEF VerdictOf
    <3>2. ASSUME NEW id \in 1 .. lastId, id # slot.id
          PROVE  VerdictOf(id) # "open"
      <4>1. id < lastId /\ id \in Ids /\ id # 0
        BY <1>1, <3>2 DEF Ids
      <4>2. archive[id].id = id /\ archive[id] # NoDoc
        BY <4>1 DEF StoreInv, NothingLost, NoDoc
      <4>3. IsTerminal(archive[id])
        BY <4>1, <4>2 DEF StoreInv, NothingLost
      <4>4. archive[id].state # "open"
        BY <4>3 DEF IsTerminal, TerminalStates
      <4> QED
        BY <3>2, <4>1, <4>2, <4>3, <4>4 DEF VerdictOf
    <3> QED
      BY <1>1, <3>1, <3>2 DEF Ids
  <2>4. Ledger!OpenNext
    BY <2>1, <2>2, <2>3 DEF Ledger!OpenNext, VerdictOf
  <2> QED
    BY <2>4 DEF Ledger!Next
<1> QED
  BY <1>3, <1>4, <1>5, <1>6, FileStep

\* To its users the store is a ledger that opens one transaction at a time and
\* keeps every verdict, whatever crashes in between.
THEOREM StoreImplementsLedger == Spec => LedgerSpec
<1>1. Init => Ledger!Init
  BY LedgerInit
<1>2. TypeOK /\ StoreInv /\ TypeOK' /\ StoreInv' /\ [Next]_vars
        => [Ledger!Next]_(Ledger!ledgerVars)
  BY LedgerStep
<1> QED
  BY <1>1, <1>2, TypeCorrect, StoreIsSound, PTL DEF Spec, LedgerSpec, Ledger!Spec
================================================================================
