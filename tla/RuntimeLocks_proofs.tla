-------------------------- MODULE RuntimeLocks_proofs ---------------------------
(***************************************************************************)
(* Proofs about the two kernel locks, for any launchers and planners.      *)
(*                                                                         *)
(* The argument: which processes have a descriptor of a locked file is a   *)
(* function of where each shell, each program it started and each capture  *)
(* is; and a lock is only ever taken when nobody has one, so all the       *)
(* descriptors of a lock are those of one command.                         *)
(***************************************************************************)
EXTENDS RuntimeLocks, TLAPS

\* Who has a descriptor of which lock, from where everyone is.
FdsExact ==
  /\ \A l \in Launcher :
       /\ Shell(l) \in runtimeFds <=> shell[l] \in {"ordered", "authorized", "waiting"}
       /\ Shell(l) \in txFds <=> shell[l] \in {"authorized", "waiting"}
       /\ Helper(l) \in runtimeFds <=> helper[l] # "none"
       /\ Helper(l) \in txFds <=> helper[l] # "none"
       /\ Cli(l) \notin runtimeFds \union txFds
       /\ shell[l] \in {"entering", "ordered", "authorized"} => helper[l] = "none"
  /\ \A p \in Planner :
       /\ Cli(p) \in runtimeFds <=> capture[p] \in {"ordered", "capturing"}
       /\ Cli(p) \in txFds <=> capture[p] = "capturing"
       /\ Shell(p) \notin runtimeFds \union txFds
       /\ Helper(p) \notin runtimeFds \union txFds

LocksInv == TypeOK /\ FdsExact

--------------------------------------------------------------------------------
\* Processes of different kinds or of different commands are different.
LEMMA ProcessesDiffer ==
  ASSUME NEW x, NEW y
  PROVE  /\ Shell(x) # Helper(y) /\ Shell(x) # Cli(y) /\ Helper(x) # Cli(y)
         /\ Shell(x) = Shell(y) <=> x = y
         /\ Helper(x) = Helper(y) <=> x = y
         /\ Cli(x) = Cli(y) <=> x = y
         /\ Shell(x)[2] = x /\ Helper(x)[2] = x /\ Cli(x)[2] = x
BY DEF Shell, Helper, Cli

LEMMA ProcessType ==
  ASSUME NEW x \in Launcher \union Planner
  PROVE  {Shell(x), Helper(x), Cli(x)} \subseteq Process
BY DEF Shell, Helper, Cli, Process

\* Taking a lock that is free, inheriting it from one's own shell, and giving it
\* up leave it with the descriptors of one command.
LEMMA LockOfOne ==
  ASSUME NEW fds, OfOne(fds), NEW x \in Launcher \union Planner, NEW gone
  PROVE  /\ OfOne({Shell(x)}) /\ OfOne({Cli(x)})
         /\ Shell(x) \in fds => OfOne(fds \union {Helper(x)})
         /\ OfOne(fds \ gone)
BY ProcessesDiffer, ProcessType DEF OfOne

LEMMA LauncherKeeps ==
  ASSUME LocksInv, NEW l \in Launcher, LauncherStep(l)
  PROVE  LocksInv'
<1> USE DEF LocksInv
<1>0. /\ l \in Launcher \union Planner /\ \A p \in Planner : p # l
      /\ OfOne(runtimeFds) /\ OfOne(txFds)
  BY RuntimeLocksAssumption DEF TypeOK
<1>1. ASSUME NEW action \in {"start", "stop"}, Launch(l, action)
      PROVE  LocksInv'
  <2>1. TypeOK'
    BY <1>1 DEF Launch, TypeOK
  <2>2. FdsExact'
    BY <1>1 DEF Launch, TypeOK, FdsExact
  <2> QED
    BY <2>1, <2>2
<1>2. CASE ShellTakesRuntime(l)
  <2>1. CASE runtimeFds = {}
    <3>1. TypeOK'
      BY <1>0, <1>2, <2>1, LockOfOne DEF ShellTakesRuntime, TypeOK
    <3>2. FdsExact'
      BY <1>0, <1>2, <2>1, ProcessesDiffer DEF ShellTakesRuntime, TypeOK, FdsExact
    <3> QED
      BY <3>1, <3>2
  <2>2. CASE runtimeFds # {}
    <3>1. TypeOK'
      BY <1>2, <2>2 DEF ShellTakesRuntime, TypeOK
    <3>2. FdsExact'
      BY <1>2, <2>2 DEF ShellTakesRuntime, TypeOK, FdsExact
    <3> QED
      BY <3>1, <3>2
  <2> QED
    BY <2>1, <2>2
<1>3. CASE ShellTakesTransaction(l)
  <2>1. TypeOK'
    BY <1>0, <1>3, LockOfOne DEF ShellTakesTransaction, TypeOK
  <2>2. FdsExact'
    BY <1>0, <1>3, ProcessesDiffer DEF ShellTakesTransaction, TypeOK, FdsExact
  <2> QED
    BY <2>1, <2>2
<1>4. CASE ShellForks(l)
  <2>1. Shell(l) \in runtimeFds /\ Shell(l) \in txFds
    BY <1>4 DEF ShellForks, FdsExact
  <2>2. /\ runtimeFds' = runtimeFds \union {Helper(l)}
        /\ txFds' = txFds \union {Helper(l)}
        /\ shell' = [shell EXCEPT ![l] = "waiting"]
        /\ UNCHANGED <<parent, job, capture, running, receipt>>
    BY <1>4 DEF ShellForks
  <2>3. PICK program \in {"admitting", "composing"} : helper' = [helper EXCEPT ![l] = program]
    BY <1>4 DEF ShellForks
  <2>4. TypeOK'
    BY <1>0, <2>1, <2>2, <2>3, LockOfOne DEF TypeOK
  <2>5. FdsExact'
    BY <1>0, <2>1, <2>2, <2>3, ProcessesDiffer DEF TypeOK, FdsExact
  <2> QED
    BY <2>4, <2>5
<1>5. CASE AdmissionEnds(l)
  <2>1. CASE shell[l] = "waiting"
    <3>1. TypeOK'
      BY <1>5, <2>1 DEF AdmissionEnds, TypeOK
    <3>2. FdsExact'
      BY <1>5, <2>1 DEF AdmissionEnds, TypeOK, FdsExact
    <3> QED
      BY <3>1, <3>2
  <2>2. CASE shell[l] # "waiting"
    <3>1. /\ helper' = [helper EXCEPT ![l] = "none"]
          /\ runtimeFds' = runtimeFds \ {Helper(l)} /\ txFds' = txFds \ {Helper(l)}
          /\ UNCHANGED <<parent, job, shell, capture, running, receipt>>
      BY <1>5, <2>2 DEF AdmissionEnds, Closed
    <3>2. OfOne(runtimeFds') /\ OfOne(txFds')
      BY <1>0, <3>1, LockOfOne
    <3>3. TypeOK'
      BY <3>1, <3>2 DEF TypeOK
    <3>4. FdsExact'
      BY <1>0, <3>1, ProcessesDiffer DEF TypeOK, FdsExact
    <3> QED
      BY <3>3, <3>4
  <2> QED
    BY <2>1, <2>2
<1>6. CASE ComposeEnds(l)
  <2>1. parent' \in [Launcher -> {"idle", "waiting", "marking"}]
    BY <1>6 DEF ComposeEnds, TypeOK
  <2>2. TypeOK'
    BY <1>0, <1>6, <2>1, LockOfOne DEF ComposeEnds, TypeOK
  <2>3. FdsExact'
    BY <1>0, <1>6, ProcessesDiffer DEF ComposeEnds, TypeOK, FdsExact
  <2> QED
    BY <2>2, <2>3
<1>7. CASE GiveUp(l)
  <2>1. TypeOK'
    BY <1>0, <1>7, LockOfOne DEF GiveUp, Closed, TypeOK
  <2>2. FdsExact'
    BY <1>0, <1>7, ProcessesDiffer DEF GiveUp, TypeOK, FdsExact, Closed
  <2> QED
    BY <2>1, <2>2
<1>8. CASE Mark(l)
  <2>1. TypeOK'
    BY <1>8 DEF Mark, TypeOK
  <2>2. FdsExact'
    BY <1>8 DEF Mark, FdsExact
  <2> QED
    BY <2>1, <2>2
<1> QED
  BY <1>1, <1>2, <1>3, <1>4, <1>5, <1>6, <1>7, <1>8 DEF LauncherStep

LEMMA PlannerKeeps ==
  ASSUME LocksInv, NEW p \in Planner, PlannerStep(p)
  PROVE  LocksInv'
<1> USE DEF LocksInv
<1>0. /\ p \in Launcher \union Planner /\ \A l \in Launcher : p # l
      /\ OfOne(runtimeFds) /\ OfOne(txFds)
  BY RuntimeLocksAssumption DEF TypeOK
<1>1. CASE Preflight(p)
  <2>1. TypeOK'
    BY <1>1 DEF Preflight, TypeOK
  <2>2. FdsExact'
    BY <1>0, <1>1 DEF Preflight, TypeOK, FdsExact
  <2> QED
    BY <2>1, <2>2
<1>2. CASE PlannerTakesRuntime(p)
  <2>1. CASE runtimeFds = {}
    <3>1. TypeOK'
      BY <1>0, <1>2, <2>1, LockOfOne DEF PlannerTakesRuntime, TypeOK
    <3>2. FdsExact'
      BY <1>0, <1>2, <2>1, ProcessesDiffer DEF PlannerTakesRuntime, TypeOK, FdsExact
    <3> QED
      BY <3>1, <3>2
  <2>2. CASE runtimeFds # {}
    <3>1. TypeOK'
      BY <1>2, <2>2 DEF PlannerTakesRuntime, TypeOK
    <3>2. FdsExact'
      BY <1>0, <1>2, <2>2 DEF PlannerTakesRuntime, TypeOK, FdsExact
    <3> QED
      BY <3>1, <3>2
  <2> QED
    BY <2>1, <2>2
<1>3. CASE PlannerCaptures(p)
  <2>1. TypeOK'
    BY <1>0, <1>3, LockOfOne DEF PlannerCaptures, TypeOK
  <2>2. FdsExact'
    BY <1>0, <1>3, ProcessesDiffer DEF PlannerCaptures, TypeOK, FdsExact
  <2> QED
    BY <2>1, <2>2
<1>4. CASE PlannerLeaves(p)
  <2>1. TypeOK'
    BY <1>0, <1>4, LockOfOne DEF PlannerLeaves, Closed, TypeOK
  <2>2. FdsExact'
    BY <1>0, <1>4, ProcessesDiffer DEF PlannerLeaves, TypeOK, FdsExact, Closed
  <2> QED
    BY <2>1, <2>2
<1> QED
  BY <1>1, <1>2, <1>3, <1>4 DEF PlannerStep, PlannerPublishes, AdmissionTimesOut

LEMMA OtherKeeps ==
  ASSUME LocksInv, \/ \E x \in Launcher \union Planner : HelperStep(x)
                   \/ FullUpgradeCompletes \/ ContainerExits \/ UNCHANGED vars
  PROVE  LocksInv'
<1> USE DEF LocksInv
<1>1. ASSUME NEW x \in Launcher \union Planner, HelperStep(x)
      PROVE  LocksInv'
  <2>1. PICK program \in {"reading", "admitted"} :
          /\ helper[x] \in {"admitting", "reading"}
          /\ helper' = [helper EXCEPT ![x] = program]
          /\ UNCHANGED <<parent, job, shell, capture, runtimeFds, txFds, running, receipt>>
    BY <1>1 DEF HelperStep, Discover, ReadReceipt
  <2>2. TypeOK'
    BY <2>1 DEF TypeOK
  <2>3. FdsExact'
    BY <2>1 DEF TypeOK, FdsExact
  <2> QED
    BY <2>2, <2>3
<1>2. CASE FullUpgradeCompletes \/ ContainerExits \/ UNCHANGED vars
  BY <1>2 DEF FullUpgradeCompletes, ContainerExits, vars, TypeOK, FdsExact
<1> QED
  BY <1>1, <1>2

LEMMA LocksInit == Init => LocksInv
<1> SUFFICES ASSUME Init PROVE LocksInv
  OBVIOUS
<1>1. TypeOK
  BY DEF Init, TypeOK, OfOne
<1>2. FdsExact
  BY DEF Init, FdsExact
<1> QED
  BY <1>1, <1>2 DEF LocksInv

\* Which processes keep a lock alive, and that they are those of one command
\* (acquire_runtime_lock in the shell, runtime_boundary in Python).
THEOREM DescriptorsAreExact == Spec => []LocksInv
<1>1. LocksInv /\ [Next]_vars => LocksInv'
  BY LauncherKeeps, PlannerKeeps, OtherKeeps DEF Next
<1> QED
  BY <1>1, LocksInit, PTL DEF Spec

\* The container changes under both locks and in one process tree at a time, also
\* when the launcher gave up and killed the shell that took them (runner.run).
THEOREM ComposeAlwaysLocked == Spec => []ComposeIsLocked
<1>1. LocksInv => ComposeIsLocked
  <2> SUFFICES ASSUME LocksInv, NEW l \in Launcher, helper[l] = "composing"
               PROVE  /\ Helper(l) \in runtimeFds
                      /\ Helper(l) \in txFds
                      /\ \A k \in Launcher \ {l} : helper[k] # "composing"
                      /\ \A p \in Planner : capture[p] \notin {"ordered", "capturing"}
    BY DEF ComposeIsLocked
  <2>1. Helper(l) \in runtimeFds /\ Helper(l) \in txFds
    BY DEF LocksInv, FdsExact
  <2>2. \A a \in runtimeFds : a[2] = l
    BY <2>1, ProcessesDiffer DEF LocksInv, TypeOK, OfOne
  <2>3. \A k \in Launcher \ {l} : Helper(k) \notin runtimeFds
    BY <2>2, ProcessesDiffer
  <2>4. \A p \in Planner : Cli(p) \notin runtimeFds
    BY <2>2, ProcessesDiffer, RuntimeLocksAssumption
  <2> QED
    BY <2>1, <2>3, <2>4 DEF LocksInv, FdsExact
<1> QED
  BY <1>1, DescriptorsAreExact, PTL
=============================================================================
