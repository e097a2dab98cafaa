---------------------------- MODULE MCRuntimeChange ----------------------------
(***************************************************************************)
(* RuntimeChange for TLC.  Models, and processes of a kind, are            *)
(* interchangeable; runs with a temporal property do not use it.           *)
(***************************************************************************)
EXTENDS RuntimeChange, TLC

Symmetry ==
  Permutations(Model) \union Permutations(Commander) \union Permutations(Reconciler)

--------------------------------------------------------------------------------
(* Two reconcilers over four transactions are too many behaviours.  What they can *)
(* do to each other's pointer takes two rollbacks of one anchor, and between them *)
(* a deploy that selects another model again: Overtaking is the part of Next that *)
(* follows this order.                                                            *)

Order == <<"upgrade", "rollback", "deploy", "rollback">>

\* The next operation of the order begins; the upgrade and the deploy are only
\* followed by one if they completed.
BeginsInOrder ==
  slot'.id # slot.id =>
    /\ slot'.op = Order[slot'.id]
    /\ slot.id \in {1, 3} => slot.state = "completed"

\* The deploy goes through.
DeployGoesWell ==
  slot'.id = 3 =>
    /\ slot'.state \notin RecoveryStates
    /\ \A c \in Commander : cmd[c].id = 3 /\ cmd'[c].at = "idle"
                              => slot'.state = "completed"

\* Containers start and stay.
DockerIsWell == ~ContainerExits /\ healthy' = (container' # NoModel)

\* What fails is killed: a process that marks what it leaves behind ends in a state
\* that the fence makes as well.
OnlyKills ==
  /\ \A c \in Commander : cmd'[c].at # "failing"
  /\ \A r \in Reconciler : rec'[r].at # "failing"

Overtaking == BeginsInOrder /\ DeployGoesWell /\ DockerIsWell /\ OnlyKills

\* Each of its behaviours is one of Spec.
OvertakingSpec == Init /\ [][Next /\ Overtaking]_vars
================================================================================
