CONSTANTS
  Tasks = {t1}
  NoTask = NoTask
  TicketModulus = 2
SPECIFICATION FairSpec
CHECK_DEADLOCK FALSE
PROPERTY ParkedStartReturns
PROPERTY TerminalTaskReturns
PROPERTY StopEnds
