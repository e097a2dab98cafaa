SPECIFICATION Spec
CONSTANTS
  Models = {m1, m2}
  Signers = {s1}
  Revisions = {r1, r2}
  Keys = {k1, k2}
  Trusted = k1
  Capacity = 2
  MaxRuns = 1
  MaxMishaps = 3
  None = None
SYMMETRY Symmetry
INVARIANTS SignedIsQualified VerifiedIsBacked AdmitsOnlyTheInstalled
