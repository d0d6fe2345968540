SPECIFICATION Spec
CONSTANTS
  SampleMax = 3
  CaptureTimeout = 2
  TimeoutMin = 2
  TimeoutMax = 3
  DefaultTimeout = 2
  TickMod = 8
  MaxLag = 2
  Requested <- MCRequested
INVARIANTS
  NoTriggerMeansNoEdge
