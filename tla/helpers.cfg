CONSTANTS
  Objs = {o1, o2}
  Files = {f1, f2}
  MaxPages = 2
  Memory = 4
  MaxBlocks = 2
  MaxIntrusions = 2
  MaxCnt = 5
  MaxKey = 3
  IntMax = 7
  SplitLen = 1
  MaxText = 5
  ReplaceDefCnt = 2
  MaxLen = 4
  MaxSrc = 2
  MaxDst = 3
  Segs = {"s", "s|t"}
  Items = {"k", "t|k"}
  Values = {"v", "false"}
  MaxLines = 4
  Threads = {t1, t2, t3}
  Addrs = {a1, a2}
  NullPt = NullPt
  NoThread = NoThread
SPECIFICATION Spec
INVARIANT MapExact
INVARIANT SourceKept
INVARIANT CopyComplete
INVARIANT SearchRight
INVARIANT SplitRight
INVARIANT ReplaceRight
INVARIANT EtcRight
INVARIANT Registered
INVARIANT LockGivenBack
PROPERTY CopyReturns
PROPERTY EtcReturns
