SPECIFICATION Spec
CONSTANTS
  Model = {m1, m2}
  NoModel = NoModel
  Commander = {c1}
  Reconciler = {r1}
  Commands = {"upgrade", "rollback"}
  MaxTx = 3
  Fetches = 1
INVARIANT PointerIsRecoverable
PROPERTIES FailedIsUndone AnchorFollowsVerdict AnchorIsOneShot RecoveryIsExclusive
