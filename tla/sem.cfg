CONSTANTS
  Procs = {p1, p2, p3}
  SemIds = {s1, s2}
  Nums = {0}
  Total <- SemTotal
  Counts <- SemCounts
  MaxTries = 2
  MaxHeld = 2
  NoId = NoId
SYMMETRY ProcSymmetry
SPECIFICATION Spec
INVARIANT SemBalance
