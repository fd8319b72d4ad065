CONSTANTS
  Tasks = {t1, t2}
  NoTask = NoTask
  TicketModulus = 2
SYMMETRY TaskSymmetry
SPECIFICATION Spec
CHECK_DEADLOCK FALSE
INVARIANT TypeOK
INVARIANT TaskStable
INVARIANT WaitMeansDone
INVARIANT NotifyExact
INVARIANT IdleMeansDone
PROPERTY StartMeansTaken
PROPERTY TakenOnce
PROPERTY TerminalWaits
PROPERTY RunnerSpec
