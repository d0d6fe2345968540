SPECIFICATION FairSpec
CONSTANT MaxErrors = 2
INVARIANTS
  OutputBelief
  MonitorBelief
  ButtonsSafe
  ConnectedIsReal
PROPERTIES
  StartsExclusive
  PollingEnds
