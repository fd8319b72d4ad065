CONSTANTS
  Procs = {p1, p2, p3}
  SemIds = {s1, s2}
  Nums = {0, 1}
  MaxResource = 2
  MaxTries = 2
  Destroyers = {p1, p2, p3}
  NoId = NoId
SYMMETRY SemSymmetry
SPECIFICATION Spec
INVARIANT TypeOK
INVARIANT Exclusion
INVARIANT Conservation
INVARIANT InitialisedBeforeUse
PROPERTY WriterPreference
PROPERTY RWSpec
