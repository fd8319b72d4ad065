CONSTANTS
  Procs = {p1, p2}
  MaxSeg = 3
  MaxSize = 2
  Dumpers = {d1, d2}
  DataLen = 3
  PageBlocks = 2
  MaxFile = 4
SPECIFICATION SharedSpec
INVARIANT AttachExact
INVARIANT ExtendKeeps
INVARIANT CrcDetects
