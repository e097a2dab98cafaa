----------------------------- MODULE Supervisor -----------------------------
(***************************************************************************)
(* The runtime supervisor (scripts/runtime-supervisor.py) beside an        *)
(* operator, docker and a container that fail on their own.                *)
(*                                                                         *)
(* Every check of RuntimeSupervisor.step is a step of its own: the lock,   *)
(* the transaction, docker and the container may change between two of     *)
(* them. The supervisor runs runtime-reconcile.sh (cli is "none") or       *)
(* stack reconcile --yes, which runs the same script for its transaction.  *)
(* A timeout kills the program the supervisor started and leaves the       *)
(* children of that program alive.                                         *)
(***************************************************************************)
EXTENDS Naturals

CONSTANTS AlertAfter,   \* waits for docker after which the alert is due
          MaxTroubles,  \* bound: failures of docker, the container and the supervisor
          MaxCommands   \* bound: commands of the operator

ASSUME AlertAssumption == AlertAfter \in Nat \ {0}
ASSUME BoundsAssumption == MaxTroubles \in Nat /\ MaxCommands \in Nat

VARIABLES sup,        \* where the supervisor is in its step
          cli,        \* where its stack reconcile is
          script,     \* where runtime-reconcile.sh is, and who waits for it
          holder,     \* who holds runtime.lock
          tx,         \* the transaction in the slot, by what the supervisor reads
          selection,  \* the model deployment.local.env selects
          container,  \* the model the container runs, and its health
          docker,     \* the docker daemon answers
          command,    \* what the operator is doing
          waited,     \* waits for docker since docker-wait-started, None: no file
          alert,      \* the alert marker of the unit exists
          firing,     \* systemd has the failure alert of the unit to run
          troubles, commands

supervision == <<sup, waited, alert, firing>>
recovery == <<cli, script>>
runtime == <<holder, tx, selection, container>>
bounds == <<troubles, commands>>
vars == <<supervision, recovery, runtime, docker, command, bounds>>

None == 0
Models == {"old", "new"}

\* TransactionStore.reconciliation_plan, recovery_original_is_safe.
NoTransaction == [state |-> "none", safe |-> TRUE, selected |-> "old", original |-> "old"]
Required == tx.state # "none"
Eligible == tx.state = "recovery_required" /\ tx.safe

Healthy == docker /\ container.health = "healthy"
Canonical == Healthy /\ container.runs = selection

NoScript == [at |-> "none", bound |-> FALSE, left |-> FALSE]

TypeOK ==
    /\ sup \in {"look", "txLock", "txDocker", "txRun", "txFailed", "txFailedDocker",
                "lock", "docker", "health", "canonical", "starting", "run", "failedTx",
                "failedLock", "failedDocker", "confirm", "sleep", "failed"}
    /\ cli \in {"none", "begin", "restore", "wait", "verify", "resolve", "failed"}
    /\ script \in [at : {"none", "entering", "working", "waiting"},
                   bound : BOOLEAN, left : BOOLEAN]
    /\ holder \in {"none", "operator", "script"}
    /\ tx \in [state : {"none", "active", "recovery_required", "production_restoring"},
               safe : BOOLEAN, selected : Models, original : Models \cup {"stopped"}]
    /\ selection \in Models
    /\ container \in [runs : Models,
                      health : {"absent", "starting", "healthy", "unhealthy"}]
    /\ docker \in BOOLEAN
    /\ command \in [kind : {"none", "deploy", "restart"},
                    at : {"none", "begun", "selected", "started"}]
    /\ waited \in 0..(AlertAfter + 1)
    /\ alert \in BOOLEAN /\ firing \in BOOLEAN
    /\ troubles \in 0..MaxTroubles /\ commands \in 0..MaxCommands

NoCommand == [kind |-> "none", at |-> "none"]

Init ==
    /\ sup = "look" /\ cli = "none" /\ script = NoScript
    /\ holder = "none" /\ tx = NoTransaction /\ selection = "old"
    /\ container \in [runs : {"old"}, health : {"absent", "healthy"}]
    /\ docker \in BOOLEAN
    /\ command = NoCommand
    /\ waited = None /\ alert = FALSE /\ firing = FALSE
    /\ troubles = 0 /\ commands = 0

-----------------------------------------------------------------------------
(* The step of the supervisor                                              *)

GoesTo(place) == sup' = place

\* systemd kills the control group of the unit: what the supervisor started and
\* what its own timeouts left behind.
KillsChildren ==
    /\ cli' = "none"
    /\ script' = NoScript
    /\ holder' = IF holder = "script" THEN "none" ELSE holder

\* A permanent failure (exit 78): systemd does not restart the unit and fires
\* its alert.
Stops ==
    /\ sup' = "failed"
    /\ firing' = TRUE
    /\ KillsChildren
    /\ UNCHANGED <<waited, alert, tx, selection, container>>

Keeps == UNCHANGED <<waited, alert, firing, recovery, runtime>>

\* What the step did not cause: the same for every check.
Quiet == UNCHANGED <<docker, command, bounds>>

\* Mutant: a transaction that needs recovery is always left to the operator.
LookLeavesRecovery ==
    /\ sup = "look"
    /\ GoesTo(IF ~Required THEN "lock" ELSE "sleep")
    /\ Keeps
    /\ UNCHANGED <<docker, command, bounds>>

Look ==
    /\ sup = "look"
    /\ GoesTo(CASE ~Required -> "lock"
                [] Required /\ Eligible -> "txLock"
                [] OTHER -> "sleep")
    /\ Keeps
    /\ UNCHANGED <<docker, command, bounds>>

\* runtime_lock_active: a busy lock makes the supervisor wait, before recovery
\* and after a recovery that failed.
AfterLock == [lock |-> "docker", txLock |-> "txDocker",
              txFailed |-> "txFailedDocker", failedLock |-> "failedDocker"]

CheckLock ==
    /\ sup \in DOMAIN AfterLock
    /\ GoesTo(IF holder # "none" THEN "sleep" ELSE AfterLock[sup])
    /\ Keeps /\ Quiet

\* Mutant: every wait starts the clock anew.
FindDockerDownAnew ==
    /\ sup \in {"docker", "txDocker", "failedDocker", "txFailedDocker"}
    /\ ~docker
    /\ GoesTo("sleep")
    /\ waited' = 1
    /\ alert' = (alert \/ waited > AlertAfter)
    /\ UNCHANGED <<firing, recovery, runtime>>
    /\ Quiet

\* docker_available, note_docker_wait: the first wait writes the file, a wait past
\* the threshold fires the alert once.
FindDockerDown ==
    /\ sup \in {"docker", "txDocker", "failedDocker", "txFailedDocker"}
    /\ ~docker
    /\ GoesTo("sleep")
    /\ waited' = IF waited = None THEN 1 ELSE waited
    /\ alert' = (alert \/ waited > AlertAfter)
    /\ UNCHANGED <<firing, recovery, runtime>>
    /\ Quiet

\* The alert program fails, for instance because its webhook cannot be reached;
\* the marker has been written by then.
AlertFails ==
    /\ sup \in {"docker", "txDocker", "failedDocker", "txFailedDocker"}
    /\ ~docker /\ waited > AlertAfter /\ ~alert
    /\ sup' = "failed" /\ firing' = TRUE /\ alert' = TRUE
    /\ KillsChildren
    /\ UNCHANGED <<waited, tx, selection, container, docker, command, bounds>>

FindDockerUp ==
    /\ docker
    /\ \/ sup = "docker" /\ GoesTo("health") /\ waited' = None
       \/ sup = "txDocker" /\ GoesTo("txRun") /\ UNCHANGED waited
    /\ IF sup = "txDocker" THEN cli' = "begin" ELSE UNCHANGED cli
    /\ UNCHANGED <<alert, firing, script, runtime>>
    /\ Quiet

\* Recovery failed although the lock is free and docker answers.
GiveUp ==
    /\ sup \in {"failedDocker", "txFailedDocker"}
    /\ docker
    /\ Stops /\ Quiet

CheckHealth ==
    /\ sup = "health"
    /\ GoesTo(IF Healthy THEN "canonical" ELSE "starting")
    /\ Keeps /\ Quiet

\* clear_alert, and the end of a step that found the runtime as selected.
ClearsAlert ==
    /\ GoesTo("sleep")
    /\ alert' = FALSE
    /\ UNCHANGED <<waited, firing, recovery, runtime>>

\* profile_is_canonical: a healthy runtime that is not the selected one is left
\* alone; after a recovery the runtime has to be healthy as well.
CheckCanonical ==
    /\ sup \in {"canonical", "confirm"}
    /\ IF Canonical THEN ClearsAlert ELSE Stops
    /\ Quiet

CheckStarting ==
    /\ sup = "starting"
    /\ IF docker /\ container.health = "starting"
       THEN GoesTo("sleep") /\ UNCHANGED script
       ELSE GoesTo("run") /\ script' = [NoScript EXCEPT !.at = "entering"]
    /\ UNCHANGED <<waited, alert, firing, cli, runtime>>
    /\ Quiet

FailedCheckTransaction ==
    /\ sup = "failedTx"
    /\ GoesTo(IF Required THEN "sleep" ELSE "failedLock")
    /\ Keeps /\ Quiet

\* Mutant: the clock has no end.
WakeLater ==
    /\ sup = "sleep"
    /\ GoesTo("look")
    /\ waited' = IF waited > 0 THEN waited + 1 ELSE waited
    /\ UNCHANGED <<alert, firing, recovery, runtime>>
    /\ Quiet

\* The clock behind docker-wait-started runs while the supervisor sleeps.
Wake ==
    /\ sup = "sleep"
    /\ GoesTo("look")
    /\ waited' = IF waited \in 1..AlertAfter THEN waited + 1 ELSE waited
    /\ UNCHANGED <<alert, firing, recovery, runtime>>
    /\ Quiet

\* A check raises: a record, a lock or a marker that cannot be read, written or
\* removed, or is not private. The supervisor does not go on from what it cannot see.
StepRaises ==
    /\ sup \notin {"sleep", "run", "txRun", "failed"}
    /\ troubles < MaxTroubles /\ troubles' = troubles + 1
    /\ Stops
    /\ UNCHANGED <<docker, command, commands>>

\* A killed supervisor is restarted by systemd, which kills its children first.
Restarts ==
    /\ sup # "failed"
    /\ troubles < MaxTroubles /\ troubles' = troubles + 1
    /\ sup' = "look"
    /\ KillsChildren
    /\ UNCHANGED <<waited, alert, firing, tx, selection, container,
                   docker, command, commands>>

\* production-alert.sh fire, run by systemd for the failed unit.
UnitAlert ==
    /\ firing
    /\ firing' = FALSE
    /\ alert' = TRUE
    /\ UNCHANGED <<sup, waited, recovery, runtime>>
    /\ Quiet

-----------------------------------------------------------------------------
(* runtime-reconcile.sh                                                    *)

\* The script is over: the supervisor or its CLI goes on; nobody waits for a
\* script whose parent was killed by a timeout.
ScriptEnds(ok) ==
    /\ script' = NoScript
    /\ holder' = IF holder = "script" THEN "none" ELSE holder
    /\ cli' = IF script.bound /\ ~script.left THEN IF ok THEN "verify" ELSE "failed" ELSE cli
    /\ sup' = IF script.bound \/ script.left THEN sup
              ELSE IF ok THEN "confirm" ELSE "failedTx"
    /\ UNCHANGED <<waited, alert, firing, tx, selection, container>>

\* Mutant: the lock is enough.
ScriptMayEnterUnbound == holder = "none"

\* acquire_runtime_lock: the lock is not waited for, and an open transaction
\* admits only its own recovery.
ScriptMayEnter ==
    /\ holder = "none"
    /\ IF script.bound THEN tx.state = "production_restoring" ELSE ~Required

ScriptEnters ==
    /\ script.at = "entering"
    /\ ScriptMayEnter
    /\ holder' = "script"
    /\ script' = [script EXCEPT !.at = "working"]
    /\ UNCHANGED <<supervision, cli, tx, selection, container>>
    /\ Quiet

ScriptRefused ==
    /\ script.at = "entering"
    /\ ~ScriptMayEnter
    /\ ScriptEnds(FALSE)
    /\ Quiet

\* An unbound recovery leaves a healthy runtime alone, restarts a container that
\* runs and starts the selection when none does; the recovery of a transaction
\* stops production if it was stopped before, and recreates the container from
\* the restored selection otherwise.
ScriptActs ==
    /\ script.at = "working"
    /\ docker
    /\ script.bound \/ container.health # "healthy"
    /\ container' =
         IF script.bound /\ tx.original = "stopped"
         THEN [container EXCEPT !.health = "absent"]
         ELSE [runs |-> IF script.bound \/ container.health = "absent"
                        THEN selection ELSE container.runs,
               health |-> "starting"]
    /\ script' = [script EXCEPT !.at = "waiting"]
    /\ UNCHANGED <<supervision, cli, holder, tx, selection>>
    /\ Quiet

\* wait_healthy ends when /health answers; an unbound recovery of a healthy
\* runtime has nothing to do.
ScriptSucceeds ==
    /\ \/ script.at = "waiting"
       \/ script.at = "working" /\ ~script.bound
    /\ IF script.bound /\ tx.original = "stopped" THEN docker ELSE Healthy
    /\ ScriptEnds(TRUE)
    /\ Quiet

\* The admission, compose or wait_healthy fail.
ScriptFails ==
    /\ script.at \in {"working", "waiting"}
    /\ ScriptEnds(FALSE)
    /\ UNCHANGED <<docker, command, bounds>>

-----------------------------------------------------------------------------
(* stack reconcile --yes, as the supervisor runs it                        *)

\* The supervisor goes on when its CLI ends.
CliEnds(place) ==
    /\ cli' = "none"
    /\ GoesTo(place)
    /\ UNCHANGED <<waited, alert, firing, script, holder, selection, container>>

CliBegins ==
    /\ cli = "begin"
    /\ Eligible
    /\ tx' = [tx EXCEPT !.state = "production_restoring"]
    /\ cli' = "restore"
    /\ UNCHANGED <<supervision, script, holder, selection, container>>
    /\ Quiet

\* Somebody else has taken the transaction in between.
CliFindsNothing ==
    /\ cli = "begin"
    /\ ~Eligible
    /\ CliEnds(IF Required THEN "txFailed" ELSE "sleep")
    /\ UNCHANGED tx
    /\ Quiet

\* _restore_deployment_profile, then the script under the transaction.
CliRestores ==
    /\ cli = "restore"
    /\ selection' = tx.selected
    /\ script' = [at |-> "entering", bound |-> TRUE, left |-> FALSE]
    /\ cli' = "wait"
    /\ UNCHANGED <<supervision, holder, tx, container>>
    /\ Quiet

\* _verify_restored_runtime: the recorded identity, or still stopped.
Restored ==
    IF tx.original \in Models
    THEN Canonical /\ container.runs = tx.original
    ELSE docker /\ container.health = "absent"

CliVerifies ==
    /\ cli = "verify"
    /\ cli' = IF Restored THEN "resolve" ELSE "failed"
    /\ UNCHANGED <<supervision, script, runtime>>
    /\ Quiet

CliResolves ==
    /\ cli = "resolve"
    /\ tx' = NoTransaction
    /\ CliEnds("sleep")
    /\ Quiet

\* _mark_recovery_required, whatever went wrong.
CliFails ==
    /\ cli \in {"restore", "verify", "resolve", "failed"}
    /\ tx' = [tx EXCEPT !.state = "recovery_required"]
    /\ CliEnds("txFailed")
    /\ UNCHANGED <<docker, command, bounds>>

\* The 600 seconds of the supervisor are over: the program it started is killed,
\* the script of a CLI and the compose command of a script go on.
TimesOut ==
    /\ sup \in {"run", "txRun"}
    /\ troubles < MaxTroubles /\ troubles' = troubles + 1
    /\ GoesTo(IF sup = "run" THEN "failedTx" ELSE "txFailed")
    /\ cli' = "none"
    /\ script' = IF script.at = "none" \/ (~script.bound /\ script.at = "entering")
                 THEN NoScript ELSE [script EXCEPT !.left = TRUE]
    /\ UNCHANGED <<waited, alert, firing, runtime, docker, command, commands>>

-----------------------------------------------------------------------------
(* The operator, docker and the container                                  *)

\* A deploy begins a transaction inside the runtime boundary and records what
\* runs; a restart is a select and a profile outside any transaction, which look
\* for one when they take the lock.
OperatorBegins(kind) ==
    /\ command = NoCommand
    /\ commands < MaxCommands /\ commands' = commands + 1
    /\ IF kind = "deploy"
       THEN /\ ~Required /\ holder = "none"
            /\ \E safe \in BOOLEAN :
                 tx' = [state |-> "active", safe |-> safe, selected |-> selection,
                        original |-> IF Healthy THEN container.runs ELSE "stopped"]
       ELSE UNCHANGED tx
    /\ command' = [kind |-> kind, at |-> "begun"]
    /\ UNCHANGED <<supervision, recovery, holder, selection, container,
                   docker, troubles>>

\* Mutant: the lock is enough.
OperatorMayEnterUnbound == holder = "none"

\* The same boundary as the script's: a busy lock or another transaction refuses.
OperatorMayEnter ==
    /\ holder = "none"
    /\ IF command.kind = "deploy" THEN tx.state = "active" ELSE ~Required

OperatorEnters ==
    /\ command.at \in {"begun", "selected"}
    /\ OperatorMayEnter
    /\ holder' = "operator"
    /\ UNCHANGED <<supervision, recovery, tx, selection, container,
                   docker, command, bounds>>

OperatorSelects ==
    /\ holder = "operator" /\ command.at = "begun"
    /\ selection' = "new"
    /\ holder' = "none"
    /\ command' = [command EXCEPT !.at = "selected"]
    /\ UNCHANGED <<supervision, recovery, tx, container, docker, bounds>>

OperatorStarts ==
    /\ holder = "operator" /\ command.at = "selected"
    /\ docker
    /\ container' = [runs |-> selection, health |-> "starting"]
    /\ command' = [command EXCEPT !.at = "started"]
    /\ UNCHANGED <<supervision, recovery, holder, tx, selection, docker, bounds>>

\* wait_healthy is over, and the quick suite passes.
OperatorCompletes ==
    /\ holder = "operator" /\ command.at = "started"
    /\ Healthy
    /\ holder' = "none"
    /\ tx' = IF command.kind = "deploy" THEN NoTransaction ELSE tx
    /\ command' = NoCommand
    /\ UNCHANGED <<supervision, recovery, selection, container, docker, bounds>>

\* A command fails, or is killed: then its transaction stays active.
OperatorEnds(state) ==
    /\ command # NoCommand
    /\ command' = NoCommand
    /\ holder' = IF holder = "operator" THEN "none" ELSE holder
    /\ tx' = IF command.kind = "deploy" THEN [tx EXCEPT !.state = state] ELSE tx
    /\ UNCHANGED <<supervision, recovery, selection, container, docker, bounds>>

OperatorFails == OperatorEnds("recovery_required")
OperatorDies == OperatorEnds("active")

\* stack reconcile --yes by the operator, for a transaction that nobody works on
\* any more: RuntimeChange has its steps, here it is what it leaves.
OperatorReconciles ==
    /\ command = NoCommand
    /\ commands < MaxCommands /\ commands' = commands + 1
    /\ Required /\ tx.safe
    /\ holder = "none" /\ docker
    /\ cli \in {"none", "begin"} /\ script = NoScript
    /\ tx' = NoTransaction
    /\ selection' = tx.selected
    /\ container' = IF tx.original \in Models
                    THEN [runs |-> tx.original, health |-> "healthy"]
                    ELSE [container EXCEPT !.health = "absent"]
    /\ UNCHANGED <<supervision, recovery, holder, docker, command, troubles>>

\* After a permanent failure the operator starts the unit again.
OperatorRestartsUnit ==
    /\ sup = "failed"
    /\ commands < MaxCommands /\ commands' = commands + 1
    /\ GoesTo("look")
    /\ UNCHANGED <<waited, alert, firing, recovery, runtime,
                   docker, command, troubles>>

ContainerAnswers ==
    /\ docker /\ container.health = "starting"
    /\ container' = [container EXCEPT !.health = "healthy"]
    /\ UNCHANGED <<supervision, recovery, holder, tx, selection>>
    /\ Quiet

ContainerFails(health) ==
    /\ docker /\ container.health \in {"starting", "healthy"}
    /\ troubles < MaxTroubles /\ troubles' = troubles + 1
    /\ container' = [container EXCEPT !.health = health]
    /\ UNCHANGED <<supervision, recovery, holder, tx, selection,
                   docker, command, commands>>

DockerStops ==
    /\ docker
    /\ troubles < MaxTroubles /\ troubles' = troubles + 1
    /\ docker' = FALSE
    /\ container' = [container EXCEPT !.health = "absent"]
    /\ UNCHANGED <<supervision, recovery, holder, tx, selection,
                   command, commands>>

DockerReturns ==
    /\ ~docker
    /\ docker' = TRUE
    /\ UNCHANGED <<supervision, recovery, runtime, command, bounds>>

-----------------------------------------------------------------------------
Steps ==
    \/ Look \/ CheckLock \/ FindDockerDown \/ FindDockerUp \/ GiveUp \/ CheckHealth
    \/ CheckCanonical \/ CheckStarting \/ FailedCheckTransaction \/ Wake

Scripts == ScriptEnters \/ ScriptRefused \/ ScriptActs \/ ScriptSucceeds

Cli == CliBegins \/ CliFindsNothing \/ CliRestores \/ CliVerifies \/ CliResolves

Operator ==
    \/ \E kind \in {"deploy", "restart"} : OperatorBegins(kind)
    \/ OperatorEnters \/ OperatorSelects \/ OperatorStarts \/ OperatorCompletes
    \/ OperatorFails \/ OperatorDies \/ OperatorReconciles
    \/ OperatorRestartsUnit

Surroundings ==
    \/ ContainerAnswers \/ DockerStops \/ DockerReturns
    \/ \E health \in {"absent", "unhealthy"} : ContainerFails(health)

Next ==
    \/ Steps \/ AlertFails \/ StepRaises \/ Restarts \/ UnitAlert
    \/ Scripts \/ ScriptFails
    \/ Cli \/ CliFails \/ TimesOut
    \/ Operator \/ Surroundings

Spec == Init /\ [][Next]_vars

\* The programs go on: a supervisor that sleeps wakes up, a script and a command
\* that cannot go on end (wait_healthy gives up, a refused command fails), a
\* container that starts answers in the end. Docker need not come back.
Fairness ==
    /\ WF_vars(Steps) /\ WF_vars(UnitAlert)
    /\ WF_vars(Scripts) /\ WF_vars(Cli)
    /\ WF_vars(cli = "failed" /\ CliFails)
    /\ WF_vars(container.health # "starting" /\ ScriptFails)
    /\ WF_vars(OperatorFails)
    /\ WF_vars(ContainerAnswers)

FairSpec == Spec /\ Fairness

-----------------------------------------------------------------------------
(* Properties                                                              *)

\* The supervisor's own script works alone: outside a transaction it is never
\* there with one open, so it cannot start a selection that a deploy is about to
\* replace; for a transaction it is there only while that one is being restored,
\* a script that outlived its CLI included.
ScriptWorksAlone ==
    holder = "script" =>
        tx.state = IF script.bound THEN "production_restoring" ELSE "none"

\* A transaction that recovery closes has its recorded selection back, and
\* the container was not given another model since it was verified.
ClosedIsRestored ==
    [][tx.state = "production_restoring" /\ tx'.state = "none" =>
         /\ selection' = tx.selected
         /\ tx.original \in Models => container'.runs = tx.original]_vars

\* The supervisor waits for a decision it must not take itself.
NeedsReview ==
    /\ Required /\ ~Eligible
    /\ cli = "none" /\ script = NoScript /\ command = NoCommand

\* The sole owner of recovery does its work: when the failures and the commands
\* are over, the selected runtime serves again, unless docker is away, a
\* transaction waits for review or the supervisor gave up.
Settles == []<>(Canonical \/ ~docker \/ NeedsReview \/ sup = "failed")

\* Giving up and a docker that stays away are noticed: the alert stands, or the
\* operator has started the unit again.  And an alert does not outlive its cause:
\* while the selected runtime goes on serving under a supervisor, the marker is
\* gone in the end.
TroubleIsAlerted ==
    /\ sup = "failed" ~> (alert \/ sup # "failed")
    /\ <>[](~docker /\ ~Required) => []<>(alert \/ firing)
    /\ <>[](Canonical /\ ~Required /\ sup # "failed") => <>[]~alert

=============================================================================
