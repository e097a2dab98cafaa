SPECIFICATION Spec
CONSTANTS
  Writers = {w1, w2}
  Readers = {r1}
  Ids = {1, 2}
  MaxGeneration = 3
  MaxKills = 2
  MaxLosses = 1
  None = None
SYMMETRY Symmetry
INVARIANTS PointerResolves AckedSurvives
PROPERTY CasIsExact
