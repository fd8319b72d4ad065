CONSTANTS
  Procs = {p1, p2}
  SemIds = {s1}
  Nums = {0, 1}
  MaxResource = 2
  MaxTries = 2
  Destroyers = {}
  NoId = NoId
SPECIFICATION Spec
INVARIANT CreatorAlive
