-------------------------- MODULE Supervisor_proofs ---------------------------
(***************************************************************************)
(* The supervisor's recovery works alone, and what it closes is restored:  *)
(* the proofs.                                                             *)
(*                                                                         *)
(* A script holds the lock while it works.  A script of a transaction,     *)
(* orphaned by a timeout or not, is only there while that transaction is   *)
(* being restored, since the states behind production_restoring are        *)
(* reached when its CLI has seen it end; and a script without one can      *)
(* hold the lock only when no transaction is open, since every             *)
(* transaction begins with the lock free and recovery begins with one      *)
(* open.                                                                   *)
(***************************************************************************)
EXTENDS Supervisor, TLAPS

Checking == {"docker", "health", "canonical", "starting"}
Restoring == {"restore", "wait", "verify", "resolve", "failed"}

\* Where the supervisor is, where its programs are.
ProgramsOK ==
    /\ cli # "none" => sup = "txRun"
    /\ sup = "run" => script.at # "none" /\ ~script.bound /\ ~script.left
    /\ sup \in Checking => script.at = "none"
    /\ sup = "lock" => ~script.bound
    /\ script.at = "none" => script = NoScript

\* The script is at work when it holds the lock, and never without a reason.
ScriptOK ==
    /\ holder = "script" <=> script.at \in {"working", "waiting"}
    /\ holder = "script" /\ ~script.bound => tx.state = "none"
    /\ script.at # "none" /\ ~script.bound /\ ~script.left => sup = "run"
    /\ script.left /\ ~script.bound => script.at # "entering"
    /\ script.bound => /\ tx.state = "production_restoring"
                       /\ IF script.left THEN cli \in {"none", "begin"} ELSE cli = "wait"

\* A recovery that began is the owner of its transaction until it ends, and what
\* it restored stays as it restored it.
RecoveryOK ==
    /\ cli \in Restoring => tx.state = "production_restoring"
    /\ cli = "wait" => script.bound /\ ~script.left
    /\ cli \in Restoring \ {"wait"} => script.at = "none"
    /\ cli \in {"wait", "verify", "resolve"} => selection = tx.selected
    /\ cli = "resolve" /\ tx.original \in Models => container.runs = tx.original

\* A command of the operator that holds the lock keeps recovery out.
OperatorOK ==
    /\ command.kind = "none" <=> command.at = "none"
    /\ command.kind = "deploy" => tx.state = "active"
    /\ holder = "operator" => /\ command.kind # "none"
                              /\ command.kind = "restart" => tx.state = "none"

SupervisorInv == TypeOK /\ ProgramsOK /\ ScriptOK /\ RecoveryOK /\ OperatorOK
-----------------------------------------------------------------------------
(* The steps                                                               *)

USE DEF supervision, recovery, runtime, bounds, None, Models, NoTransaction, Required,
        Eligible, Healthy, Canonical, NoScript, NoCommand, GoesTo, KillsChildren, Stops,
        Keeps, Quiet, AfterLock, ClearsAlert, ScriptEnds, ScriptMayEnter, CliEnds,
        Restored, OperatorMayEnter, OperatorEnds, Checking, Restoring

\* TypeIsKept: every step of the supervisor, its programs, the operator and the
\* container leaves every variable in its range.
LEMMA TypeIsKept == SupervisorInv /\ [Next]_vars => TypeOK'
  <1> SUFFICES ASSUME SupervisorInv, [Next]_vars PROVE TypeOK'
    OBVIOUS
  <1>1. CASE Look
    BY <1>1 DEF SupervisorInv, TypeOK, Look
  <1>2. CASE CheckLock
    BY <1>2 DEF SupervisorInv, TypeOK, CheckLock
  <1>3. CASE FindDockerDown
    BY <1>3, AlertAssumption DEF SupervisorInv, TypeOK, FindDockerDown
  <1>4. CASE FindDockerUp
    BY <1>4, AlertAssumption DEF SupervisorInv, TypeOK, FindDockerUp
  <1>5. CASE GiveUp
    BY <1>5 DEF SupervisorInv, TypeOK, GiveUp
  <1>6. CASE CheckHealth
    BY <1>6 DEF SupervisorInv, TypeOK, CheckHealth
  <1>7. CASE CheckCanonical
    <2>1. CASE Canonical
      BY <1>7, <2>1 DEF SupervisorInv, TypeOK, CheckCanonical
    <2>2. CASE ~Canonical
      <3>1. /\ sup' = "failed" /\ firing' = TRUE /\ cli' = "none" /\ script' = NoScript
            /\ holder' = IF holder = "script" THEN "none" ELSE holder
            /\ UNCHANGED <<waited, alert, tx, selection, container,
                           docker, command, troubles, commands>>
        BY <1>7, <2>2 DEF CheckCanonical
      <3> QED BY <3>1 DEF SupervisorInv, TypeOK
    <2> QED BY <2>1, <2>2
  <1>8. CASE CheckStarting
    <2>1. CASE docker /\ container.health = "starting"
      BY <1>8, <2>1 DEF SupervisorInv, TypeOK, CheckStarting
    <2>2. CASE ~(docker /\ container.health = "starting")
      <3>1. script' = [at |-> "entering", bound |-> FALSE, left |-> FALSE]
        BY <1>8, <2>2 DEF CheckStarting
      <3> QED BY <1>8, <2>2, <3>1 DEF SupervisorInv, TypeOK, CheckStarting
    <2> QED BY <2>1, <2>2
  <1>9. CASE FailedCheckTransaction
    BY <1>9 DEF SupervisorInv, TypeOK, FailedCheckTransaction
  <1>10. CASE Wake
    BY <1>10, AlertAssumption DEF SupervisorInv, TypeOK, Wake
  <1>11. CASE AlertFails
    BY <1>11 DEF SupervisorInv, TypeOK, AlertFails
  <1>11a. CASE StepRaises
    BY <1>11a, BoundsAssumption DEF SupervisorInv, TypeOK, StepRaises,
       Stops, KillsChildren
  <1>12. CASE Restarts
    BY <1>12, BoundsAssumption DEF SupervisorInv, TypeOK, Restarts
  <1>13. CASE UnitAlert
    <2>1. UNCHANGED <<sup, cli, script, holder, tx, selection, container, docker, command,
                      waited, troubles, commands>>
      BY <1>13 DEF UnitAlert
    <2> QED BY <1>13, <2>1 DEF SupervisorInv, TypeOK, UnitAlert
  <1>14. CASE ScriptFails
    BY <1>14 DEF SupervisorInv, TypeOK, ScriptFails
  <1>15. CASE CliFails
    BY <1>15 DEF SupervisorInv, TypeOK, CliFails
  <1>16. CASE TimesOut
    <2>1. script' \in [at : {"none", "entering", "working", "waiting"},
                       bound : BOOLEAN, left : BOOLEAN]
      BY <1>16 DEF SupervisorInv, TypeOK, TimesOut
    <2> QED BY <1>16, <2>1, BoundsAssumption DEF SupervisorInv, TypeOK, TimesOut
  <1>17. CASE ScriptEnters
    BY <1>17 DEF SupervisorInv, TypeOK, ScriptEnters
  <1>18. CASE ScriptRefused
    BY <1>18 DEF SupervisorInv, TypeOK, ScriptRefused
  <1>19. CASE ScriptActs
    BY <1>19 DEF SupervisorInv, TypeOK, ScriptActs
  <1>20. CASE ScriptSucceeds
    BY <1>20 DEF SupervisorInv, TypeOK, ScriptSucceeds
  <1>21. CASE CliBegins
    BY <1>21 DEF SupervisorInv, TypeOK, CliBegins
  <1>22. CASE CliFindsNothing
    BY <1>22 DEF SupervisorInv, TypeOK, CliFindsNothing
  <1>23. CASE CliRestores
    BY <1>23 DEF SupervisorInv, TypeOK, CliRestores
  <1>24. CASE CliVerifies
    BY <1>24 DEF SupervisorInv, TypeOK, CliVerifies
  <1>25. CASE CliResolves
    BY <1>25 DEF SupervisorInv, TypeOK, CliResolves
  <1>26. ASSUME NEW kind \in {"deploy", "restart"}, OperatorBegins(kind)
         PROVE  TypeOK'
    BY <1>26, BoundsAssumption DEF SupervisorInv, TypeOK, OperatorBegins
  <1>27. CASE OperatorEnters
    BY <1>27 DEF SupervisorInv, TypeOK, OperatorEnters
  <1>28. CASE OperatorSelects
    BY <1>28 DEF SupervisorInv, TypeOK, OperatorSelects
  <1>29. CASE OperatorStarts
    BY <1>29 DEF SupervisorInv, TypeOK, OperatorStarts
  <1>30. CASE OperatorCompletes
    BY <1>30 DEF SupervisorInv, TypeOK, OperatorCompletes
  <1>31. CASE OperatorFails
    BY <1>31 DEF SupervisorInv, TypeOK, OperatorFails, OperatorEnds
  <1>32. CASE OperatorDies
    BY <1>32 DEF SupervisorInv, TypeOK, OperatorDies, OperatorEnds
  <1>33. CASE OperatorReconciles
    BY <1>33, BoundsAssumption DEF SupervisorInv, TypeOK, OperatorReconciles
  <1>34. CASE OperatorRestartsUnit
    BY <1>34, BoundsAssumption DEF SupervisorInv, TypeOK, OperatorRestartsUnit
  <1>35. CASE ContainerAnswers
    BY <1>35 DEF SupervisorInv, TypeOK, ContainerAnswers
  <1>36. CASE DockerStops
    <2>1. container' \in [runs : Models,
                         health : {"absent", "starting", "healthy", "unhealthy"}]
      BY <1>36 DEF SupervisorInv, TypeOK, DockerStops
    <2>2. /\ troubles' = troubles + 1 /\ troubles < MaxTroubles /\ docker' = FALSE
          /\ UNCHANGED <<sup, cli, script, holder, tx, selection, command,
                         waited, alert, firing, commands>>
      BY <1>36 DEF DockerStops
    <2>3. docker' \in BOOLEAN
      BY <2>2
    <2>4. troubles' \in 0..MaxTroubles
      <3>1. troubles \in Nat
        BY BoundsAssumption DEF SupervisorInv, TypeOK
      <3> QED BY <2>2, <3>1, BoundsAssumption
    <2> QED BY <2>1, <2>2, <2>3, <2>4 DEF SupervisorInv, TypeOK
  <1>37. CASE DockerReturns
    BY <1>37 DEF SupervisorInv, TypeOK, DockerReturns
  <1>38. ASSUME NEW health \in {"absent", "unhealthy"}, ContainerFails(health)
         PROVE  TypeOK'
    BY <1>38, BoundsAssumption DEF SupervisorInv, TypeOK, ContainerFails
  <1>39. CASE UNCHANGED vars
    BY <1>39 DEF SupervisorInv, TypeOK, vars
  <1> QED
    BY <1>1, <1>2, <1>3, <1>4, <1>5, <1>6, <1>7, <1>8, <1>9, <1>10,
       <1>11, <1>11a, <1>12, <1>13, <1>14, <1>15, <1>16, <1>17, <1>18, <1>19, <1>20,
       <1>21, <1>22, <1>23, <1>24, <1>25, <1>26, <1>27, <1>28, <1>29, <1>30,
       <1>31, <1>32, <1>33, <1>34, <1>35, <1>36, <1>37, <1>38, <1>39 DEF Next,
       Steps, Scripts, Cli, Operator, Surroundings

\* ProgramsAreKept: every step keeps the supervisor and the programs it started
\* together, also when a timeout kills the one it waits for.
LEMMA ProgramsAreKept == SupervisorInv /\ [Next]_vars => ProgramsOK'
  <1> SUFFICES ASSUME SupervisorInv, [Next]_vars PROVE ProgramsOK'
    OBVIOUS
  <1>1. CASE Look
    BY <1>1 DEF SupervisorInv, TypeOK, ProgramsOK, ScriptOK, RecoveryOK, Look
  <1>2. CASE CheckLock
    BY <1>2 DEF SupervisorInv, TypeOK, ProgramsOK, ScriptOK, RecoveryOK,
       CheckLock
  <1>3. CASE FindDockerDown
    BY <1>3 DEF SupervisorInv, TypeOK, ProgramsOK, ScriptOK, RecoveryOK,
       FindDockerDown
  <1>4. CASE FindDockerUp
    BY <1>4 DEF SupervisorInv, TypeOK, ProgramsOK, ScriptOK, RecoveryOK,
       FindDockerUp
  <1>5. CASE GiveUp
    BY <1>5 DEF SupervisorInv, TypeOK, ProgramsOK, ScriptOK, RecoveryOK, GiveUp
  <1>6. CASE CheckHealth
    BY <1>6 DEF SupervisorInv, TypeOK, ProgramsOK, ScriptOK, RecoveryOK,
       CheckHealth
  <1>7. CASE CheckCanonical
    BY <1>7 DEF SupervisorInv, TypeOK, ProgramsOK, ScriptOK, RecoveryOK,
       CheckCanonical
  <1>8. CASE CheckStarting
    BY <1>8 DEF SupervisorInv, TypeOK, ProgramsOK, ScriptOK, RecoveryOK,
       CheckStarting
  <1>9. CASE FailedCheckTransaction
    BY <1>9 DEF SupervisorInv, TypeOK, ProgramsOK, ScriptOK, RecoveryOK,
       FailedCheckTransaction
  <1>10. CASE Wake
    BY <1>10 DEF SupervisorInv, TypeOK, ProgramsOK, ScriptOK, RecoveryOK, Wake
  <1>11. CASE AlertFails
    BY <1>11 DEF SupervisorInv, TypeOK, ProgramsOK, ScriptOK, RecoveryOK,
       AlertFails
  <1>11a. CASE StepRaises
    BY <1>11a, BoundsAssumption DEF SupervisorInv, TypeOK, ProgramsOK, ScriptOK, RecoveryOK,
       StepRaises,
       Stops, KillsChildren
  <1>12. CASE Restarts
    BY <1>12 DEF SupervisorInv, TypeOK, ProgramsOK, ScriptOK, RecoveryOK,
       Restarts
  <1>13. CASE UnitAlert
    BY <1>13 DEF SupervisorInv, TypeOK, ProgramsOK, ScriptOK, RecoveryOK,
       UnitAlert
  <1>14. CASE ScriptFails
    BY <1>14 DEF SupervisorInv, TypeOK, ProgramsOK, ScriptOK, RecoveryOK,
       ScriptFails
  <1>15. CASE CliFails
    BY <1>15 DEF SupervisorInv, TypeOK, ProgramsOK, ScriptOK, RecoveryOK,
       CliFails
  <1>16. CASE TimesOut
    BY <1>16 DEF SupervisorInv, TypeOK, ProgramsOK, ScriptOK, RecoveryOK,
       TimesOut
  <1>17. CASE ScriptEnters
    BY <1>17 DEF SupervisorInv, TypeOK, ProgramsOK, ScriptOK, RecoveryOK,
       ScriptEnters
  <1>18. CASE ScriptRefused
    BY <1>18 DEF SupervisorInv, TypeOK, ProgramsOK, ScriptOK, RecoveryOK,
       ScriptRefused
  <1>19. CASE ScriptActs
    BY <1>19 DEF SupervisorInv, TypeOK, ProgramsOK, ScriptOK, RecoveryOK,
       ScriptActs
  <1>20. CASE ScriptSucceeds
    BY <1>20 DEF SupervisorInv, TypeOK, ProgramsOK, ScriptOK, RecoveryOK,
       ScriptSucceeds
  <1>21. CASE CliBegins
    BY <1>21 DEF SupervisorInv, TypeOK, ProgramsOK, ScriptOK, RecoveryOK,
       CliBegins
  <1>22. CASE CliFindsNothing
    BY <1>22 DEF SupervisorInv, TypeOK, ProgramsOK, ScriptOK, RecoveryOK,
       CliFindsNothing
  <1>23. CASE CliRestores
    BY <1>23 DEF SupervisorInv, TypeOK, ProgramsOK, ScriptOK, RecoveryOK,
       CliRestores
  <1>24. CASE CliVerifies
    BY <1>24 DEF SupervisorInv, TypeOK, ProgramsOK, ScriptOK, RecoveryOK,
       CliVerifies
  <1>25. CASE CliResolves
    BY <1>25 DEF SupervisorInv, TypeOK, ProgramsOK, ScriptOK, RecoveryOK,
       CliResolves
  <1>26. ASSUME NEW kind \in {"deploy", "restart"}, OperatorBegins(kind)
         PROVE  ProgramsOK'
    BY <1>26 DEF SupervisorInv, TypeOK, ProgramsOK, ScriptOK, RecoveryOK,
       OperatorBegins
  <1>27. CASE OperatorEnters
    BY <1>27 DEF SupervisorInv, TypeOK, ProgramsOK, ScriptOK, RecoveryOK,
       OperatorEnters
  <1>28. CASE OperatorSelects
    BY <1>28 DEF SupervisorInv, TypeOK, ProgramsOK, ScriptOK, RecoveryOK,
       OperatorSelects
  <1>29. CASE OperatorStarts
    BY <1>29 DEF SupervisorInv, TypeOK, ProgramsOK, ScriptOK, RecoveryOK,
       OperatorStarts
  <1>30. CASE OperatorCompletes
    BY <1>30 DEF SupervisorInv, TypeOK, ProgramsOK, ScriptOK, RecoveryOK,
       OperatorCompletes
  <1>31. CASE OperatorFails
    BY <1>31 DEF SupervisorInv, TypeOK, ProgramsOK, ScriptOK, RecoveryOK,
       OperatorFails, OperatorEnds
  <1>32. CASE OperatorDies
    BY <1>32 DEF SupervisorInv, TypeOK, ProgramsOK, ScriptOK, RecoveryOK,
       OperatorDies, OperatorEnds
  <1>33. CASE OperatorReconciles
    BY <1>33 DEF SupervisorInv, TypeOK, ProgramsOK, ScriptOK, RecoveryOK,
       OperatorReconciles
  <1>34. CASE OperatorRestartsUnit
    BY <1>34 DEF SupervisorInv, TypeOK, ProgramsOK, ScriptOK, RecoveryOK,
       OperatorRestartsUnit
  <1>35. CASE ContainerAnswers
    BY <1>35 DEF SupervisorInv, TypeOK, ProgramsOK, ScriptOK, RecoveryOK,
       ContainerAnswers
  <1>36. CASE DockerStops
    BY <1>36 DEF SupervisorInv, TypeOK, ProgramsOK, ScriptOK, RecoveryOK,
       DockerStops
  <1>37. CASE DockerReturns
    BY <1>37 DEF SupervisorInv, TypeOK, ProgramsOK, ScriptOK, RecoveryOK,
       DockerReturns
  <1>38. ASSUME NEW health \in {"absent", "unhealthy"}, ContainerFails(health)
         PROVE  ProgramsOK'
    BY <1>38 DEF SupervisorInv, TypeOK, ProgramsOK, ScriptOK, RecoveryOK,
       ContainerFails
  <1>39. CASE UNCHANGED vars
    BY <1>39 DEF SupervisorInv, TypeOK, ProgramsOK, ScriptOK, RecoveryOK, vars
  <1> QED
    BY <1>1, <1>2, <1>3, <1>4, <1>5, <1>6, <1>7, <1>8, <1>9, <1>10,
       <1>11, <1>11a, <1>12, <1>13, <1>14, <1>15, <1>16, <1>17, <1>18, <1>19, <1>20,
       <1>21, <1>22, <1>23, <1>24, <1>25, <1>26, <1>27, <1>28, <1>29, <1>30,
       <1>31, <1>32, <1>33, <1>34, <1>35, <1>36, <1>37, <1>38, <1>39 DEF Next,
       Steps, Scripts, Cli, Operator, Surroundings

\* ScriptIsKept: every step keeps the lock and the transaction with the script that works.
LEMMA ScriptIsKept == SupervisorInv /\ [Next]_vars => ScriptOK'
  <1> SUFFICES ASSUME SupervisorInv, [Next]_vars PROVE ScriptOK'
    OBVIOUS
  <1>1. CASE Look
    BY <1>1 DEF SupervisorInv, TypeOK, ProgramsOK, ScriptOK, RecoveryOK,
       OperatorOK, Look
  <1>2. CASE CheckLock
    BY <1>2 DEF SupervisorInv, TypeOK, ProgramsOK, ScriptOK, RecoveryOK,
       OperatorOK, CheckLock
  <1>3. CASE FindDockerDown
    BY <1>3 DEF SupervisorInv, TypeOK, ProgramsOK, ScriptOK, RecoveryOK,
       OperatorOK, FindDockerDown
  <1>4. CASE FindDockerUp
    BY <1>4 DEF SupervisorInv, TypeOK, ProgramsOK, ScriptOK, RecoveryOK,
       OperatorOK, FindDockerUp
  <1>5. CASE GiveUp
    BY <1>5 DEF SupervisorInv, TypeOK, ProgramsOK, ScriptOK, RecoveryOK,
       OperatorOK, GiveUp
  <1>6. CASE CheckHealth
    BY <1>6 DEF SupervisorInv, TypeOK, ProgramsOK, ScriptOK, RecoveryOK,
       OperatorOK, CheckHealth
  <1>7. CASE CheckCanonical
    BY <1>7 DEF SupervisorInv, TypeOK, ProgramsOK, ScriptOK, RecoveryOK,
       OperatorOK, CheckCanonical
  <1>8. CASE CheckStarting
    BY <1>8 DEF SupervisorInv, TypeOK, ProgramsOK, ScriptOK, RecoveryOK,
       OperatorOK, CheckStarting
  <1>9. CASE FailedCheckTransaction
    BY <1>9 DEF SupervisorInv, TypeOK, ProgramsOK, ScriptOK, RecoveryOK,
       OperatorOK, FailedCheckTransaction
  <1>10. CASE Wake
    BY <1>10 DEF SupervisorInv, TypeOK, ProgramsOK, ScriptOK, RecoveryOK,
       OperatorOK, Wake
  <1>11. CASE AlertFails
    BY <1>11 DEF SupervisorInv, TypeOK, ProgramsOK, ScriptOK, RecoveryOK,
       OperatorOK, AlertFails
  <1>11a. CASE StepRaises
    BY <1>11a, BoundsAssumption DEF SupervisorInv, TypeOK, ProgramsOK, ScriptOK, RecoveryOK,
       OperatorOK, StepRaises,
       Stops, KillsChildren
  <1>12. CASE Restarts
    BY <1>12 DEF SupervisorInv, TypeOK, ProgramsOK, ScriptOK, RecoveryOK,
       OperatorOK, Restarts
  <1>13. CASE UnitAlert
    BY <1>13 DEF SupervisorInv, TypeOK, ProgramsOK, ScriptOK, RecoveryOK,
       OperatorOK, UnitAlert
  <1>14. CASE ScriptFails
    BY <1>14 DEF SupervisorInv, TypeOK, ProgramsOK, ScriptOK, RecoveryOK,
       OperatorOK, ScriptFails
  <1>15. CASE CliFails
    BY <1>15 DEF SupervisorInv, TypeOK, ProgramsOK, ScriptOK, RecoveryOK,
       OperatorOK, CliFails
  <1>16. CASE TimesOut
    BY <1>16 DEF SupervisorInv, TypeOK, ProgramsOK, ScriptOK, RecoveryOK,
       OperatorOK, TimesOut
  <1>17. CASE ScriptEnters
    BY <1>17 DEF SupervisorInv, TypeOK, ProgramsOK, ScriptOK, RecoveryOK,
       OperatorOK, ScriptEnters
  <1>18. CASE ScriptRefused
    BY <1>18 DEF SupervisorInv, TypeOK, ProgramsOK, ScriptOK, RecoveryOK,
       OperatorOK, ScriptRefused
  <1>19. CASE ScriptActs
    BY <1>19 DEF SupervisorInv, TypeOK, ProgramsOK, ScriptOK, RecoveryOK,
       OperatorOK, ScriptActs
  <1>20. CASE ScriptSucceeds
    BY <1>20 DEF SupervisorInv, TypeOK, ProgramsOK, ScriptOK, RecoveryOK,
       OperatorOK, ScriptSucceeds
  <1>21. CASE CliBegins
    BY <1>21 DEF SupervisorInv, TypeOK, ProgramsOK, ScriptOK, RecoveryOK,
       OperatorOK, CliBegins
  <1>22. CASE CliFindsNothing
    BY <1>22 DEF SupervisorInv, TypeOK, ProgramsOK, ScriptOK, RecoveryOK,
       OperatorOK, CliFindsNothing
  <1>23. CASE CliRestores
    BY <1>23 DEF SupervisorInv, TypeOK, ProgramsOK, ScriptOK, RecoveryOK,
       OperatorOK, CliRestores
  <1>24. CASE CliVerifies
    BY <1>24 DEF SupervisorInv, TypeOK, ProgramsOK, ScriptOK, RecoveryOK,
       OperatorOK, CliVerifies
  <1>25. CASE CliResolves
    BY <1>25 DEF SupervisorInv, TypeOK, ProgramsOK, ScriptOK, RecoveryOK,
       OperatorOK, CliResolves
  <1>26. ASSUME NEW kind \in {"deploy", "restart"}, OperatorBegins(kind)
         PROVE  ScriptOK'
    BY <1>26 DEF SupervisorInv, TypeOK, ProgramsOK, ScriptOK, RecoveryOK,
       OperatorOK, OperatorBegins
  <1>27. CASE OperatorEnters
    BY <1>27 DEF SupervisorInv, TypeOK, ProgramsOK, ScriptOK, RecoveryOK,
       OperatorOK, OperatorEnters
  <1>28. CASE OperatorSelects
    BY <1>28 DEF SupervisorInv, TypeOK, ProgramsOK, ScriptOK, RecoveryOK,
       OperatorOK, OperatorSelects
  <1>29. CASE OperatorStarts
    BY <1>29 DEF SupervisorInv, TypeOK, ProgramsOK, ScriptOK, RecoveryOK,
       OperatorOK, OperatorStarts
  <1>30. CASE OperatorCompletes
    BY <1>30 DEF SupervisorInv, TypeOK, ProgramsOK, ScriptOK, RecoveryOK,
       OperatorOK, OperatorCompletes
  <1>31. CASE OperatorFails
    BY <1>31 DEF SupervisorInv, TypeOK, ProgramsOK, ScriptOK, RecoveryOK,
       OperatorOK, OperatorFails, OperatorEnds
  <1>32. CASE OperatorDies
    BY <1>32 DEF SupervisorInv, TypeOK, ProgramsOK, ScriptOK, RecoveryOK,
       OperatorOK, OperatorDies, OperatorEnds
  <1>33. CASE OperatorReconciles
    BY <1>33 DEF SupervisorInv, TypeOK, ProgramsOK, ScriptOK, RecoveryOK,
       OperatorOK, OperatorReconciles
  <1>34. CASE OperatorRestartsUnit
    BY <1>34 DEF SupervisorInv, TypeOK, ProgramsOK, ScriptOK, RecoveryOK,
       OperatorOK, OperatorRestartsUnit
  <1>35. CASE ContainerAnswers
    BY <1>35 DEF SupervisorInv, TypeOK, ProgramsOK, ScriptOK, RecoveryOK,
       OperatorOK, ContainerAnswers
  <1>36. CASE DockerStops
    BY <1>36 DEF SupervisorInv, TypeOK, ProgramsOK, ScriptOK, RecoveryOK,
       OperatorOK, DockerStops
  <1>37. CASE DockerReturns
    BY <1>37 DEF SupervisorInv, TypeOK, ProgramsOK, ScriptOK, RecoveryOK,
       OperatorOK, DockerReturns
  <1>38. ASSUME NEW health \in {"absent", "unhealthy"}, ContainerFails(health)
         PROVE  ScriptOK'
    BY <1>38 DEF SupervisorInv, TypeOK, ProgramsOK, ScriptOK, RecoveryOK,
       OperatorOK, ContainerFails
  <1>39. CASE UNCHANGED vars
    BY <1>39 DEF SupervisorInv, TypeOK, ProgramsOK, ScriptOK, RecoveryOK, OperatorOK, vars
  <1> QED
    BY <1>1, <1>2, <1>3, <1>4, <1>5, <1>6, <1>7, <1>8, <1>9, <1>10,
       <1>11, <1>11a, <1>12, <1>13, <1>14, <1>15, <1>16, <1>17, <1>18, <1>19, <1>20,
       <1>21, <1>22, <1>23, <1>24, <1>25, <1>26, <1>27, <1>28, <1>29, <1>30,
       <1>31, <1>32, <1>33, <1>34, <1>35, <1>36, <1>37, <1>38, <1>39 DEF Next,
       Steps, Scripts, Cli, Operator, Surroundings

\* RecoveryIsKept: every step leaves a recovery that began the owner of its
\* transaction, and what it restored as it restored it.
LEMMA RecoveryIsKept == SupervisorInv /\ [Next]_vars => RecoveryOK'
  <1> SUFFICES ASSUME SupervisorInv, [Next]_vars PROVE RecoveryOK'
    OBVIOUS
  <1>1. CASE Look
    BY <1>1 DEF SupervisorInv, TypeOK, ProgramsOK, ScriptOK, RecoveryOK,
       OperatorOK, Look
  <1>2. CASE CheckLock
    BY <1>2 DEF SupervisorInv, TypeOK, ProgramsOK, ScriptOK, RecoveryOK,
       OperatorOK, CheckLock
  <1>3. CASE FindDockerDown
    BY <1>3 DEF SupervisorInv, TypeOK, ProgramsOK, ScriptOK, RecoveryOK,
       OperatorOK, FindDockerDown
  <1>4. CASE FindDockerUp
    BY <1>4 DEF SupervisorInv, TypeOK, ProgramsOK, ScriptOK, RecoveryOK,
       OperatorOK, FindDockerUp
  <1>5. CASE GiveUp
    BY <1>5 DEF SupervisorInv, TypeOK, ProgramsOK, ScriptOK, RecoveryOK,
       OperatorOK, GiveUp
  <1>6. CASE CheckHealth
    BY <1>6 DEF SupervisorInv, TypeOK, ProgramsOK, ScriptOK, RecoveryOK,
       OperatorOK, CheckHealth
  <1>7. CASE CheckCanonical
    BY <1>7 DEF SupervisorInv, TypeOK, ProgramsOK, ScriptOK, RecoveryOK,
       OperatorOK, CheckCanonical
  <1>8. CASE CheckStarting
    BY <1>8 DEF SupervisorInv, TypeOK, ProgramsOK, ScriptOK, RecoveryOK,
       OperatorOK, CheckStarting
  <1>9. CASE FailedCheckTransaction
    BY <1>9 DEF SupervisorInv, TypeOK, ProgramsOK, ScriptOK, RecoveryOK,
       OperatorOK, FailedCheckTransaction
  <1>10. CASE Wake
    BY <1>10 DEF SupervisorInv, TypeOK, ProgramsOK, ScriptOK, RecoveryOK,
       OperatorOK, Wake
  <1>11. CASE AlertFails
    BY <1>11 DEF SupervisorInv, TypeOK, ProgramsOK, ScriptOK, RecoveryOK,
       OperatorOK, AlertFails
  <1>11a. CASE StepRaises
    BY <1>11a, BoundsAssumption DEF SupervisorInv, TypeOK, ProgramsOK, ScriptOK, RecoveryOK,
       OperatorOK, StepRaises,
       Stops, KillsChildren
  <1>12. CASE Restarts
    BY <1>12 DEF SupervisorInv, TypeOK, ProgramsOK, ScriptOK, RecoveryOK,
       OperatorOK, Restarts
  <1>13. CASE UnitAlert
    BY <1>13 DEF SupervisorInv, TypeOK, ProgramsOK, ScriptOK, RecoveryOK,
       OperatorOK, UnitAlert
  <1>14. CASE ScriptFails
    BY <1>14 DEF SupervisorInv, TypeOK, ProgramsOK, ScriptOK, RecoveryOK,
       OperatorOK, ScriptFails
  <1>15. CASE CliFails
    BY <1>15 DEF SupervisorInv, TypeOK, ProgramsOK, ScriptOK, RecoveryOK,
       OperatorOK, CliFails
  <1>16. CASE TimesOut
    BY <1>16 DEF SupervisorInv, TypeOK, ProgramsOK, ScriptOK, RecoveryOK,
       OperatorOK, TimesOut
  <1>17. CASE ScriptEnters
    BY <1>17 DEF SupervisorInv, TypeOK, ProgramsOK, ScriptOK, RecoveryOK,
       OperatorOK, ScriptEnters
  <1>18. CASE ScriptRefused
    BY <1>18 DEF SupervisorInv, TypeOK, ProgramsOK, ScriptOK, RecoveryOK,
       OperatorOK, ScriptRefused
  <1>19. CASE ScriptActs
    BY <1>19 DEF SupervisorInv, TypeOK, ProgramsOK, ScriptOK, RecoveryOK,
       OperatorOK, ScriptActs
  <1>20. CASE ScriptSucceeds
    BY <1>20 DEF SupervisorInv, TypeOK, ProgramsOK, ScriptOK, RecoveryOK,
       OperatorOK, ScriptSucceeds
  <1>21. CASE CliBegins
    BY <1>21 DEF SupervisorInv, TypeOK, ProgramsOK, ScriptOK, RecoveryOK,
       OperatorOK, CliBegins
  <1>22. CASE CliFindsNothing
    BY <1>22 DEF SupervisorInv, TypeOK, ProgramsOK, ScriptOK, RecoveryOK,
       OperatorOK, CliFindsNothing
  <1>23. CASE CliRestores
    BY <1>23 DEF SupervisorInv, TypeOK, ProgramsOK, ScriptOK, RecoveryOK,
       OperatorOK, CliRestores
  <1>24. CASE CliVerifies
    BY <1>24 DEF SupervisorInv, TypeOK, ProgramsOK, ScriptOK, RecoveryOK,
       OperatorOK, CliVerifies
  <1>25. CASE CliResolves
    BY <1>25 DEF SupervisorInv, TypeOK, ProgramsOK, ScriptOK, RecoveryOK,
       OperatorOK, CliResolves
  <1>26. ASSUME NEW kind \in {"deploy", "restart"}, OperatorBegins(kind)
         PROVE  RecoveryOK'
    BY <1>26 DEF SupervisorInv, TypeOK, ProgramsOK, ScriptOK, RecoveryOK,
       OperatorOK, OperatorBegins
  <1>27. CASE OperatorEnters
    BY <1>27 DEF SupervisorInv, TypeOK, ProgramsOK, ScriptOK, RecoveryOK,
       OperatorOK, OperatorEnters
  <1>28. CASE OperatorSelects
    BY <1>28 DEF SupervisorInv, TypeOK, ProgramsOK, ScriptOK, RecoveryOK,
       OperatorOK, OperatorSelects
  <1>29. CASE OperatorStarts
    BY <1>29 DEF SupervisorInv, TypeOK, ProgramsOK, ScriptOK, RecoveryOK,
       OperatorOK, OperatorStarts
  <1>30. CASE OperatorCompletes
    BY <1>30 DEF SupervisorInv, TypeOK, ProgramsOK, ScriptOK, RecoveryOK,
       OperatorOK, OperatorCompletes
  <1>31. CASE OperatorFails
    BY <1>31 DEF SupervisorInv, TypeOK, ProgramsOK, ScriptOK, RecoveryOK,
       OperatorOK, OperatorFails, OperatorEnds
  <1>32. CASE OperatorDies
    BY <1>32 DEF SupervisorInv, TypeOK, ProgramsOK, ScriptOK, RecoveryOK,
       OperatorOK, OperatorDies, OperatorEnds
  <1>33. CASE OperatorReconciles
    BY <1>33 DEF SupervisorInv, TypeOK, ProgramsOK, ScriptOK, RecoveryOK,
       OperatorOK, OperatorReconciles
  <1>34. CASE OperatorRestartsUnit
    BY <1>34 DEF SupervisorInv, TypeOK, ProgramsOK, ScriptOK, RecoveryOK,
       OperatorOK, OperatorRestartsUnit
  <1>35. CASE ContainerAnswers
    BY <1>35 DEF SupervisorInv, TypeOK, ProgramsOK, ScriptOK, RecoveryOK,
       OperatorOK, ContainerAnswers
  <1>36. CASE DockerStops
    BY <1>36 DEF SupervisorInv, TypeOK, ProgramsOK, ScriptOK, RecoveryOK,
       OperatorOK, DockerStops
  <1>37. CASE DockerReturns
    BY <1>37 DEF SupervisorInv, TypeOK, ProgramsOK, ScriptOK, RecoveryOK,
       OperatorOK, DockerReturns
  <1>38. ASSUME NEW health \in {"absent", "unhealthy"}, ContainerFails(health)
         PROVE  RecoveryOK'
    BY <1>38 DEF SupervisorInv, TypeOK, ProgramsOK, ScriptOK, RecoveryOK,
       OperatorOK, ContainerFails
  <1>39. CASE UNCHANGED vars
    BY <1>39 DEF SupervisorInv, TypeOK, ProgramsOK, ScriptOK, RecoveryOK, OperatorOK, vars
  <1> QED
    BY <1>1, <1>2, <1>3, <1>4, <1>5, <1>6, <1>7, <1>8, <1>9, <1>10,
       <1>11, <1>11a, <1>12, <1>13, <1>14, <1>15, <1>16, <1>17, <1>18, <1>19, <1>20,
       <1>21, <1>22, <1>23, <1>24, <1>25, <1>26, <1>27, <1>28, <1>29, <1>30,
       <1>31, <1>32, <1>33, <1>34, <1>35, <1>36, <1>37, <1>38, <1>39 DEF Next,
       Steps, Scripts, Cli, Operator, Surroundings

\* OperatorIsKept: every step keeps the transaction with the command that works under it.
LEMMA OperatorIsKept == SupervisorInv /\ [Next]_vars => OperatorOK'
  <1> SUFFICES ASSUME SupervisorInv, [Next]_vars PROVE OperatorOK'
    OBVIOUS
  <1>1. CASE Look
    BY <1>1 DEF SupervisorInv, TypeOK, ScriptOK, RecoveryOK, OperatorOK, Look
  <1>2. CASE CheckLock
    BY <1>2 DEF SupervisorInv, TypeOK, ScriptOK, RecoveryOK, OperatorOK,
       CheckLock
  <1>3. CASE FindDockerDown
    BY <1>3 DEF SupervisorInv, TypeOK, ScriptOK, RecoveryOK, OperatorOK,
       FindDockerDown
  <1>4. CASE FindDockerUp
    BY <1>4 DEF SupervisorInv, TypeOK, ScriptOK, RecoveryOK, OperatorOK,
       FindDockerUp
  <1>5. CASE GiveUp
    BY <1>5 DEF SupervisorInv, TypeOK, ScriptOK, RecoveryOK, OperatorOK, GiveUp
  <1>6. CASE CheckHealth
    BY <1>6 DEF SupervisorInv, TypeOK, ScriptOK, RecoveryOK, OperatorOK,
       CheckHealth
  <1>7. CASE CheckCanonical
    BY <1>7 DEF SupervisorInv, TypeOK, ScriptOK, RecoveryOK, OperatorOK,
       CheckCanonical
  <1>8. CASE CheckStarting
    BY <1>8 DEF SupervisorInv, TypeOK, ScriptOK, RecoveryOK, OperatorOK,
       CheckStarting
  <1>9. CASE FailedCheckTransaction
    BY <1>9 DEF SupervisorInv, TypeOK, ScriptOK, RecoveryOK, OperatorOK,
       FailedCheckTransaction
  <1>10. CASE Wake
    BY <1>10 DEF SupervisorInv, TypeOK, ScriptOK, RecoveryOK, OperatorOK, Wake
  <1>11. CASE AlertFails
    BY <1>11 DEF SupervisorInv, TypeOK, ScriptOK, RecoveryOK, OperatorOK,
       AlertFails
  <1>11a. CASE StepRaises
    BY <1>11a, BoundsAssumption DEF SupervisorInv, TypeOK, ScriptOK, RecoveryOK, OperatorOK,
       StepRaises,
       Stops, KillsChildren
  <1>12. CASE Restarts
    BY <1>12 DEF SupervisorInv, TypeOK, ScriptOK, RecoveryOK, OperatorOK,
       Restarts
  <1>13. CASE UnitAlert
    BY <1>13 DEF SupervisorInv, TypeOK, ScriptOK, RecoveryOK, OperatorOK,
       UnitAlert
  <1>14. CASE ScriptFails
    BY <1>14 DEF SupervisorInv, TypeOK, ScriptOK, RecoveryOK, OperatorOK,
       ScriptFails
  <1>15. CASE CliFails
    BY <1>15 DEF SupervisorInv, TypeOK, ScriptOK, RecoveryOK, OperatorOK,
       CliFails
  <1>16. CASE TimesOut
    BY <1>16 DEF SupervisorInv, TypeOK, ScriptOK, RecoveryOK, OperatorOK,
       TimesOut
  <1>17. CASE ScriptEnters
    BY <1>17 DEF SupervisorInv, TypeOK, ScriptOK, RecoveryOK, OperatorOK,
       ScriptEnters
  <1>18. CASE ScriptRefused
    BY <1>18 DEF SupervisorInv, TypeOK, ScriptOK, RecoveryOK, OperatorOK,
       ScriptRefused
  <1>19. CASE ScriptActs
    BY <1>19 DEF SupervisorInv, TypeOK, ScriptOK, RecoveryOK, OperatorOK,
       ScriptActs
  <1>20. CASE ScriptSucceeds
    BY <1>20 DEF SupervisorInv, TypeOK, ScriptOK, RecoveryOK, OperatorOK,
       ScriptSucceeds
  <1>21. CASE CliBegins
    BY <1>21 DEF SupervisorInv, TypeOK, ScriptOK, RecoveryOK, OperatorOK,
       CliBegins
  <1>22. CASE CliFindsNothing
    BY <1>22 DEF SupervisorInv, TypeOK, ScriptOK, RecoveryOK, OperatorOK,
       CliFindsNothing
  <1>23. CASE CliRestores
    BY <1>23 DEF SupervisorInv, TypeOK, ScriptOK, RecoveryOK, OperatorOK,
       CliRestores
  <1>24. CASE CliVerifies
    BY <1>24 DEF SupervisorInv, TypeOK, ScriptOK, RecoveryOK, OperatorOK,
       CliVerifies
  <1>25. CASE CliResolves
    BY <1>25 DEF SupervisorInv, TypeOK, ScriptOK, RecoveryOK, OperatorOK,
       CliResolves
  <1>26. ASSUME NEW kind \in {"deploy", "restart"}, OperatorBegins(kind)
         PROVE  OperatorOK'
    BY <1>26 DEF SupervisorInv, TypeOK, ScriptOK, RecoveryOK, OperatorOK,
       OperatorBegins
  <1>27. CASE OperatorEnters
    BY <1>27 DEF SupervisorInv, TypeOK, ScriptOK, RecoveryOK, OperatorOK,
       OperatorEnters
  <1>28. CASE OperatorSelects
    BY <1>28 DEF SupervisorInv, TypeOK, ScriptOK, RecoveryOK, OperatorOK,
       OperatorSelects
  <1>29. CASE OperatorStarts
    BY <1>29 DEF SupervisorInv, TypeOK, ScriptOK, RecoveryOK, OperatorOK,
       OperatorStarts
  <1>30. CASE OperatorCompletes
    BY <1>30 DEF SupervisorInv, TypeOK, ScriptOK, RecoveryOK, OperatorOK,
       OperatorCompletes
  <1>31. CASE OperatorFails
    BY <1>31 DEF SupervisorInv, TypeOK, ScriptOK, RecoveryOK, OperatorOK,
       OperatorFails, OperatorEnds
  <1>32. CASE OperatorDies
    BY <1>32 DEF SupervisorInv, TypeOK, ScriptOK, RecoveryOK, OperatorOK,
       OperatorDies, OperatorEnds
  <1>33. CASE OperatorReconciles
    BY <1>33 DEF SupervisorInv, TypeOK, ScriptOK, RecoveryOK, OperatorOK,
       OperatorReconciles
  <1>34. CASE OperatorRestartsUnit
    BY <1>34 DEF SupervisorInv, TypeOK, ScriptOK, RecoveryOK, OperatorOK,
       OperatorRestartsUnit
  <1>35. CASE ContainerAnswers
    BY <1>35 DEF SupervisorInv, TypeOK, ScriptOK, RecoveryOK, OperatorOK,
       ContainerAnswers
  <1>36. CASE DockerStops
    BY <1>36 DEF SupervisorInv, TypeOK, ScriptOK, RecoveryOK, OperatorOK,
       DockerStops
  <1>37. CASE DockerReturns
    BY <1>37 DEF SupervisorInv, TypeOK, ScriptOK, RecoveryOK, OperatorOK,
       DockerReturns
  <1>38. ASSUME NEW health \in {"absent", "unhealthy"}, ContainerFails(health)
         PROVE  OperatorOK'
    BY <1>38 DEF SupervisorInv, TypeOK, ScriptOK, RecoveryOK, OperatorOK,
       ContainerFails
  <1>39. CASE UNCHANGED vars
    BY <1>39 DEF SupervisorInv, TypeOK, ScriptOK, RecoveryOK, OperatorOK, vars
  <1> QED
    BY <1>1, <1>2, <1>3, <1>4, <1>5, <1>6, <1>7, <1>8, <1>9, <1>10,
       <1>11, <1>11a, <1>12, <1>13, <1>14, <1>15, <1>16, <1>17, <1>18, <1>19, <1>20,
       <1>21, <1>22, <1>23, <1>24, <1>25, <1>26, <1>27, <1>28, <1>29, <1>30,
       <1>31, <1>32, <1>33, <1>34, <1>35, <1>36, <1>37, <1>38, <1>39 DEF Next,
       Steps, Scripts, Cli, Operator, Surroundings

\* SupervisorInv is inductive.
LEMMA StepKeepsInv == SupervisorInv /\ [Next]_vars => SupervisorInv'
  BY TypeIsKept, ProgramsAreKept, ScriptIsKept, RecoveryIsKept, OperatorIsKept
  DEF SupervisorInv

\* The supervisor begins its look at a runtime that nobody works on.
LEMMA InitHasInv == Init => SupervisorInv
  <1> SUFFICES ASSUME Init PROVE SupervisorInv
    OBVIOUS
  <1>1. /\ container \in [runs : Models,
                         health : {"absent", "starting", "healthy", "unhealthy"}]
        /\ script \in [at : {"none", "entering", "working", "waiting"},
                      bound : BOOLEAN, left : BOOLEAN]
    BY DEF Init
  <1>2. /\ tx \in [state : {"none", "active", "recovery_required", "production_restoring"},
                  safe : BOOLEAN, selected : Models, original : Models \cup {"stopped"}]
        /\ command \in [kind : {"none", "deploy", "restart"},
                       at : {"none", "begun", "selected", "started"}]
    BY DEF Init
  <1>3. waited \in 0..(AlertAfter + 1) /\ troubles \in 0..MaxTroubles
          /\ commands \in 0..MaxCommands
    BY AlertAssumption, BoundsAssumption DEF Init
  <1>4. TypeOK
    BY <1>1, <1>2, <1>3 DEF Init, TypeOK
  <1>5. ProgramsOK /\ ScriptOK /\ RecoveryOK /\ OperatorOK
    BY DEF Init, ProgramsOK, ScriptOK, RecoveryOK, OperatorOK
  <1> QED BY <1>4, <1>5 DEF SupervisorInv

-----------------------------------------------------------------------------
(* The results                                                             *)

\* SupervisionIsFollowed: the supervisor, its programs, the transaction and the
\* lock stay as SupervisorInv describes them, through timeouts, kills, orphaned
\* scripts and whatever the operator begins in between
\* (runtime-supervisor.py step, runtime-reconcile.sh, stack reconcile).
THEOREM SupervisionIsFollowed == Spec => []SupervisorInv
  <1>1. Init => SupervisorInv
    BY InitHasInv
  <1>2. SupervisorInv /\ [Next]_vars => SupervisorInv'
    BY StepKeepsInv
  <1> QED BY <1>1, <1>2, PTL DEF Spec

\* SupervisorIsTyped: every variable stays in its range; the waits for docker
\* stop at the threshold and the bounds hold.
THEOREM SupervisorIsTyped == Spec => []TypeOK
  <1>1. SupervisorInv => TypeOK
    BY DEF SupervisorInv
  <1> QED BY <1>1, SupervisionIsFollowed, PTL

\* ScriptAlwaysWorksAlone: whenever runtime-reconcile.sh holds runtime.lock, no
\* transaction is open, or it is the one the script was started for and that is
\* still being restored, however many scripts outlived what started them.
THEOREM ScriptAlwaysWorksAlone == Spec => []ScriptWorksAlone
  <1>1. SupervisorInv => ScriptWorksAlone
    BY DEF SupervisorInv, ScriptOK, ScriptWorksAlone
  <1> QED BY <1>1, SupervisionIsFollowed, PTL

\* ClosingRestores: a step that takes a transaction out of recovery leaves its
\* recorded selection, and the container with the model it had before.
THEOREM ClosingRestores == Spec => ClosedIsRestored
  <1> DEFINE Restores ==
        tx.state = "production_restoring" /\ tx'.state = "none" =>
          /\ selection' = tx.selected
          /\ tx.original \in Models => container'.runs = tx.original
  <1>1. SupervisorInv /\ [Next]_vars => [Restores]_vars
    <2> SUFFICES ASSUME SupervisorInv, Next, tx.state = "production_restoring",
                        tx'.state = "none"
                 PROVE  Restores
      OBVIOUS
    <2>1. CASE CliResolves
      BY <2>1 DEF SupervisorInv, RecoveryOK, CliResolves
    <2>2. CASE OperatorReconciles
      BY <2>2 DEF SupervisorInv, TypeOK, OperatorReconciles
    <2>3. CASE OperatorCompletes
      BY <2>3 DEF SupervisorInv, OperatorOK, OperatorCompletes
    <2>4. /\ ~Steps /\ ~AlertFails /\ ~StepRaises /\ ~Restarts /\ ~UnitAlert
          /\ ~Scripts /\ ~ScriptFails /\ ~TimesOut
      BY DEF Steps, Look, CheckLock, FindDockerDown, FindDockerUp, GiveUp, CheckHealth,
             CheckCanonical, CheckStarting, FailedCheckTransaction, Wake, AlertFails,
             StepRaises, Stops, Restarts, UnitAlert, Scripts, ScriptEnters, ScriptRefused, ScriptActs,
             ScriptSucceeds, ScriptFails, TimesOut
    <2>5. ~CliBegins /\ ~CliFindsNothing /\ ~CliRestores /\ ~CliVerifies /\ ~CliFails
      BY DEF SupervisorInv, TypeOK, CliBegins, CliFindsNothing, CliRestores, CliVerifies,
             CliFails
    <2>6. /\ ~OperatorEnters /\ ~OperatorSelects /\ ~OperatorStarts
          /\ ~OperatorFails /\ ~OperatorDies /\ ~OperatorRestartsUnit
          /\ \A kind \in {"deploy", "restart"} : ~OperatorBegins(kind)
      BY DEF SupervisorInv, TypeOK, OperatorEnters, OperatorSelects, OperatorStarts,
             OperatorFails, OperatorDies, OperatorRestartsUnit, OperatorBegins
    <2>7. ~Surroundings
      BY DEF Surroundings, ContainerAnswers, DockerStops, DockerReturns, ContainerFails
    <2> QED
      BY <2>1, <2>2, <2>3, <2>4, <2>5, <2>6, <2>7 DEF Next, Cli, Operator
  <1> QED BY <1>1, SupervisionIsFollowed, PTL DEF Spec, ClosedIsRestored

================================================================================
