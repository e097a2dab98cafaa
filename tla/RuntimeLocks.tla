----------------------------- MODULE RuntimeLocks ------------------------------
(***************************************************************************)
(* The two flock locks as the kernel sees them: who holds a descriptor of  *)
(* the open file that has the lock.  bash opens descriptors 203 and 204 so *)
(* that every program runtime.sh starts inherits them; Python opens its    *)
(* lock files close-on-exec, so a program it starts inherits nothing.  The *)
(* lock is free when the last such descriptor is closed.  A process that   *)
(* opens the lock file again is a stranger to the lock of its own parent.  *)
(*                                                                         *)
(* Launchers run runtime.sh under a timeout (runner.run, which kills only  *)
(* the shell itself); planners capture a rollout under both locks          *)
(* (begin_rollout).  Both run the read-only admission of model-manager.py, *)
(* which looks for evidence that matches the host; schema v5 evidence is   *)
(* resolved through its transaction, and read_by_id takes transaction.lock. *)
(***************************************************************************)
EXTENDS Naturals

CONSTANTS
  Launcher,         \* control-plane commands and the supervisor
  Planner           \* control-plane commands that begin a rollout

ASSUME RuntimeLocksAssumption == Launcher \cap Planner = {}

VARIABLES
  parent,       \* what the launcher itself is doing
  job,          \* the action of the runtime.sh it started
  shell,        \* where that runtime.sh is
  helper,       \* the program runtime.sh or the capture has started
  capture,      \* where the begin_rollout of a planner is
  runtimeFds,   \* processes with a descriptor of the locked runtime.lock
  txFds,        \* processes with a descriptor of the locked transaction.lock
  running,      \* the production container is running
  receipt       \* the newest evidence of the selected model is schema v5

vars == <<parent, job, shell, helper, capture, runtimeFds, txFds, running, receipt>>

Shell(l) == <<"shell", l>>
Helper(x) == <<"helper", x>>
Cli(x) == <<"cli", x>>
Process == {"shell", "helper", "cli"} \X (Launcher \union Planner)

Init ==
  /\ parent = [l \in Launcher |-> "idle"]
  /\ job = [l \in Launcher |-> "start"]
  /\ shell = [l \in Launcher |-> "none"]
  /\ helper = [x \in Launcher \union Planner |-> "none"]
  /\ capture = [p \in Planner |-> "idle"]
  /\ runtimeFds = {}
  /\ txFds = {}
  /\ running = TRUE
  /\ receipt = FALSE

--------------------------------------------------------------------------------
\* A process ends and its descriptors close.
Closed(fds, process) == fds \ {process}

\* A launcher runs runtime.sh start or stop.
Launch(l, action) ==
  /\ parent[l] = "idle"
  /\ shell[l] = "none"
  /\ helper[l] = "none"
  /\ parent' = [parent EXCEPT ![l] = "waiting"]
  /\ job' = [job EXCEPT ![l] = action]
  /\ shell' = [shell EXCEPT ![l] = "entering"]
  /\ UNCHANGED <<helper, capture, runtimeFds, txFds, running, receipt>>

\* flock -n 203: taken, or the script fails and its parent marks the
\* transaction for recovery.
ShellTakesRuntime(l) ==
  /\ shell[l] = "entering"
  /\ IF runtimeFds = {}
     THEN /\ runtimeFds' = {Shell(l)}
          /\ shell' = [shell EXCEPT ![l] = "ordered"]
          /\ UNCHANGED parent
     ELSE /\ shell' = [shell EXCEPT ![l] = "none"]
          /\ parent' = [parent EXCEPT ![l] = "marking"]
          /\ UNCHANGED runtimeFds
  /\ UNCHANGED <<job, helper, capture, txFds, running, receipt>>

\* flock 204: waits.
ShellTakesTransaction(l) ==
  /\ shell[l] = "ordered"
  /\ txFds = {}
  /\ txFds' = {Shell(l)}
  /\ shell' = [shell EXCEPT ![l] = "authorized"]
  /\ UNCHANGED <<parent, job, helper, capture, runtimeFds, running, receipt>>

\* Mutant: the programs of the script do not inherit its descriptors.
ShellForksCloexec(l) ==
  /\ shell[l] = "authorized"
  /\ helper' = [helper EXCEPT ![l] = IF job[l] = "start" /\ ~running
                                     THEN "admitting" ELSE "composing"]
  /\ shell' = [shell EXCEPT ![l] = "waiting"]
  /\ UNCHANGED <<parent, job, capture, runtimeFds, txFds, running, receipt>>

\* The script starts its next program, which inherits both descriptors:
\* the admission of a start whose container is not running, else compose.
ShellForks(l) ==
  /\ shell[l] = "authorized"
  /\ helper' = [helper EXCEPT ![l] = IF job[l] = "start" /\ ~running
                                     THEN "admitting" ELSE "composing"]
  /\ shell' = [shell EXCEPT ![l] = "waiting"]
  /\ runtimeFds' = runtimeFds \union {Helper(l)}
  /\ txFds' = txFds \union {Helper(l)}
  /\ UNCHANGED <<parent, job, capture, running, receipt>>

\* discover_host_acceptance: schema v5 evidence needs its transaction, any
\* other evidence, or none, is decided without the store.
Discover(x) ==
  /\ helper[x] = "admitting"
  /\ helper' = [helper EXCEPT ![x] = IF receipt THEN "reading" ELSE "admitted"]
  /\ UNCHANGED <<parent, job, shell, capture, runtimeFds, txFds, running, receipt>>

\* read_by_id takes and gives back transaction.lock on a descriptor of its own.
ReadReceipt(x) ==
  /\ helper[x] = "reading"
  /\ txFds = {}
  /\ helper' = [helper EXCEPT ![x] = "admitted"]
  /\ UNCHANGED <<parent, job, shell, capture, runtimeFds, txFds, running, receipt>>

\* The admission exits; the script goes on to compose.
AdmissionEnds(l) ==
  /\ helper[l] = "admitted"
  /\ IF shell[l] = "waiting"
     THEN /\ helper' = [helper EXCEPT ![l] = "composing"]
          /\ UNCHANGED <<runtimeFds, txFds>>
     ELSE /\ helper' = [helper EXCEPT ![l] = "none"]
          /\ runtimeFds' = Closed(runtimeFds, Helper(l))
          /\ txFds' = Closed(txFds, Helper(l))
  /\ UNCHANGED <<parent, job, shell, capture, running, receipt>>

\* docker compose changes the container; the script ends with it.
ComposeEnds(l) ==
  /\ helper[l] = "composing"
  /\ running' = (job[l] = "start")
  /\ helper' = [helper EXCEPT ![l] = "none"]
  /\ shell' = [shell EXCEPT ![l] = "none"]
  /\ parent' = [parent EXCEPT ![l] = IF shell[l] = "waiting" THEN "idle" ELSE @]
  /\ runtimeFds' = runtimeFds \ {Shell(l), Helper(l)}
  /\ txFds' = txFds \ {Shell(l), Helper(l)}
  /\ UNCHANGED <<job, capture, receipt>>

\* subprocess.run times out: the shell is killed, what it started lives on.
GiveUp(l) ==
  /\ parent[l] = "waiting"
  /\ parent' = [parent EXCEPT ![l] = "marking"]
  /\ shell' = [shell EXCEPT ![l] = "none"]
  /\ runtimeFds' = Closed(runtimeFds, Shell(l))
  /\ txFds' = Closed(txFds, Shell(l))
  /\ UNCHANGED <<job, helper, capture, running, receipt>>

\* _mark_recovery_required waits for transaction.lock for its one write.
Mark(l) ==
  /\ parent[l] = "marking"
  /\ txFds = {}
  /\ parent' = [parent EXCEPT ![l] = "idle"]
  /\ UNCHANGED <<job, shell, helper, capture, runtimeFds, txFds, running, receipt>>

--------------------------------------------------------------------------------
\* upgrade and rollback admit the selected model before they begin.
Preflight(p) ==
  /\ capture[p] = "idle"
  /\ capture' = [capture EXCEPT ![p] = "preflight"]
  /\ helper' = [helper EXCEPT ![p] = "admitting"]
  /\ UNCHANGED <<parent, job, shell, runtimeFds, txFds, running, receipt>>

\* begin_rollout: runtime.lock without waiting, else the begin is refused.
PlannerTakesRuntime(p) ==
  /\ capture[p] = "preflight"
  /\ helper[p] = "admitted"
  /\ helper' = [helper EXCEPT ![p] = "none"]
  /\ IF runtimeFds = {}
     THEN /\ runtimeFds' = {Cli(p)}
          /\ capture' = [capture EXCEPT ![p] = "ordered"]
     ELSE /\ capture' = [capture EXCEPT ![p] = "idle"]
          /\ UNCHANGED runtimeFds
  /\ UNCHANGED <<parent, job, shell, txFds, running, receipt>>

\* With transaction.lock too the capture runs the admission of the selected
\* model; close-on-exec keeps both descriptors in the planner.
PlannerCaptures(p) ==
  /\ capture[p] = "ordered"
  /\ txFds = {}
  /\ txFds' = {Cli(p)}
  /\ capture' = [capture EXCEPT ![p] = "capturing"]
  /\ helper' = [helper EXCEPT ![p] = "admitting"]
  /\ UNCHANGED <<parent, job, shell, runtimeFds, running, receipt>>

\* Mutant: the begin returns with both locks still open.
PlannerLeavesLocked(p) ==
  /\ capture' = [capture EXCEPT ![p] = "idle"]
  /\ helper' = [helper EXCEPT ![p] = "none"]
  /\ UNCHANGED <<parent, job, shell, runtimeFds, txFds, running, receipt>>

\* The begin returns, published or not, and both locks are free.
PlannerLeaves(p) ==
  /\ capture' = [capture EXCEPT ![p] = "idle"]
  /\ helper' = [helper EXCEPT ![p] = "none"]
  /\ runtimeFds' = Closed(runtimeFds, Cli(p))
  /\ txFds' = Closed(txFds, Cli(p))
  /\ UNCHANGED <<parent, job, shell, running, receipt>>

\* The capture returned and the rollout is published.
PlannerPublishes(p) ==
  /\ capture[p] = "capturing"
  /\ helper[p] = "admitted"
  /\ PlannerLeaves(p)

\* The admission timed out: the direct child is killed and the command fails.
AdmissionTimesOut(p) ==
  /\ capture[p] \in {"preflight", "capturing"}
  /\ PlannerLeaves(p)

\* An upgrade with the full qualification is completed: from now on its
\* schema v5 evidence counts for the selected model.  Today's admission lets no
\* upgrade run (AdmitsOnlyTheInstalled of Promotion): the step stands for a host
\* that has such evidence, however the upgrade was once admitted.
FullUpgradeCompletes ==
  /\ ~receipt
  /\ txFds = {}
  /\ receipt' = TRUE
  /\ UNCHANGED <<parent, job, shell, helper, capture, runtimeFds, txFds, running>>

\* The container exits by itself, or with the host.
ContainerExits ==
  /\ running
  /\ running' = FALSE
  /\ UNCHANGED <<parent, job, shell, helper, capture, runtimeFds, txFds, receipt>>

LauncherStep(l) ==
  \/ \E action \in {"start", "stop"} : Launch(l, action)
  \/ ShellTakesRuntime(l) \/ ShellTakesTransaction(l) \/ ShellForks(l)
  \/ AdmissionEnds(l) \/ ComposeEnds(l) \/ GiveUp(l) \/ Mark(l)

HelperStep(x) == Discover(x) \/ ReadReceipt(x)

PlannerStep(p) ==
  \/ Preflight(p) \/ PlannerTakesRuntime(p) \/ PlannerCaptures(p)
  \/ PlannerPublishes(p) \/ AdmissionTimesOut(p)

Next ==
  \/ \E l \in Launcher : LauncherStep(l)
  \/ \E p \in Planner : PlannerStep(p)
  \/ \E x \in Launcher \union Planner : HelperStep(x)
  \/ FullUpgradeCompletes \/ ContainerExits

Spec == Init /\ [][Next]_vars

\* Programs go on and timeouts expire; a wait for transaction.lock ends when
\* the lock is free again and again.
Fairness ==
  /\ \A l \in Launcher :
       /\ WF_vars(ShellTakesRuntime(l))
       /\ WF_vars(ShellForks(l))
       /\ WF_vars(AdmissionEnds(l))
       /\ WF_vars(ComposeEnds(l))
       /\ WF_vars(GiveUp(l))
       /\ SF_vars(ShellTakesTransaction(l))
       /\ SF_vars(Mark(l))
  /\ \A p \in Planner :
       /\ WF_vars(PlannerTakesRuntime(p))
       /\ WF_vars(PlannerPublishes(p) \/ AdmissionTimesOut(p))
       /\ SF_vars(PlannerCaptures(p))
  /\ \A x \in Launcher \union Planner :
       /\ WF_vars(Discover(x))
       /\ SF_vars(ReadReceipt(x))

FairSpec == Spec /\ Fairness

--------------------------------------------------------------------------------
\* The descriptors are those of one command.
OfOne(fds) == fds \subseteq Process /\ \A a, b \in fds : a[2] = b[2]

TypeOK ==
  /\ parent \in [Launcher -> {"idle", "waiting", "marking"}]
  /\ job \in [Launcher -> {"start", "stop"}]
  /\ shell \in [Launcher -> {"none", "entering", "ordered", "authorized", "waiting"}]
  /\ helper \in [Launcher \union Planner ->
                   {"none", "admitting", "reading", "admitted", "composing"}]
  /\ capture \in [Planner -> {"idle", "preflight", "ordered", "capturing"}]
  /\ OfOne(runtimeFds) /\ OfOne(txFds)
  /\ running \in BOOLEAN
  /\ receipt \in BOOLEAN

\* The container is changed by one process tree at a time and always under
\* both locks, also when the launcher gave up and killed the shell that took
\* them: what the shell started inherited the descriptors.
ComposeIsLocked ==
  \A l \in Launcher : helper[l] = "composing" =>
    /\ Helper(l) \in runtimeFds
    /\ Helper(l) \in txFds
    /\ \A k \in Launcher \ {l} : helper[k] # "composing"
    /\ \A p \in Planner : capture[p] \notin {"ordered", "capturing"}

\* "... so transaction publication cannot deadlock with a concurrent
\* select/start/stop operation" (transactions.py): a begin and a transition
\* that wait for transaction.lock get it.
PublicationEnds ==
  /\ \A l \in Launcher : parent[l] = "marking" ~> parent[l] # "marking"
  /\ \A p \in Planner : capture[p] = "ordered" ~> capture[p] # "ordered"

\* The same for a host whose evidence is not resolved through the store, and more:
\* whoever got past runtime.lock leaves it free again, and nothing that was
\* started under the locks keeps them for good.
QuickPublicationEnds ==
  []~receipt =>
    /\ PublicationEnds
    /\ runtimeFds # {} ~> runtimeFds = {}
================================================================================
