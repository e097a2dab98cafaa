SPECIFICATION Spec
CONSTANTS
  Model = {m1, m2}
  NoModel = NoModel
  Commander = {c1}
  Reconciler = {r1}
  Commands = {"deploy", "release", "profile"}
  MaxTx = 2
  Fetches = 1
SYMMETRY Symmetry
INVARIANTS TypeOK CandidateIsSerial
PROPERTY CompletedIsInEffect
