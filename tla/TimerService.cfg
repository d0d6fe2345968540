SPECIFICATION FairSpec
CONSTANTS
  NTimers = 2
  Size = 3
  WordMax = 2
  MaxLag = 1
  Periods <- MCPeriods
INVARIANTS
  TypeOK PendingIsDue
PROPERTIES
  QueueSpec
  EventRuns
  PendingRuns
  TimerExpires
