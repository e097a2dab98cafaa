SPECIFICATION OvertakingSpec
CONSTANTS
  Model = {m1, m2}
  NoModel = NoModel
  Commander = {c1}
  Reconciler = {r1, r2}
  Commands = {"upgrade", "rollback", "deploy"}
  MaxTx = 4
  Fetches = 0
SYMMETRY Symmetry
\* The schedule ends where it forbids what would come next.
CHECK_DEADLOCK FALSE
INVARIANT PointerIsRecoverable
