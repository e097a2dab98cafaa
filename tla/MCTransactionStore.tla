-------------------------- MODULE MCTransactionStore ---------------------------
(***************************************************************************)
(* TransactionStore for TLC.  The processes are interchangeable.           *)
(***************************************************************************)
EXTENDS TransactionStore, TLC

Symmetry == Permutations(Proc)

Operation == {<<"deploy", "quick">>, <<"upgrade", "full">>, <<"rollback", "quick">>}

\* A deploy may be followed by a deploy.  A rollout, with its longer plan, is the only
\* transaction of its behaviours but for the v1 record they may start with.
RolloutsAlone == slot'.id = 2 => slot'.op = "deploy" /\ slot.op = "deploy"

\* Each of its behaviours is one of Spec.
StoreSpec == Init /\ [][Next /\ RolloutsAlone]_vars
================================================================================
