CONSTANTS
  Procs = {p1, p2, p3}
  SemIds = {s1}
  Nums = {0, 1}
  MaxResource = 2
  MaxTries = 1
  Destroyers = {p1}
  NoId = NoId
SPECIFICATION FairSpec
PROPERTY ClaimedWriterEnters
PROPERTY WriterGetsClaim
