CONSTANTS
  Threads = {t1, t2}
  MaxDay = 2
  MaxCount = 4
  MaxSize = 1
  MaxFiles = 5
  MaxFd = 2
  NoThread = NoThread
SPECIFICATION FairSpec
INVARIANT RotationExclusive
INVARIANT KeepsLatest
INVARIANT FdIsCurrent
PROPERTY OnlyOldestGoes
PROPERTY LogReturns
