SPECIFICATION FairSpec
CONSTANTS
  Slots = {n4, n8}
  Data = {dA, dB}
  FrameLen = 3
  IntervalMin = 1
  IntervalMax = 3
  TickMod = 6
  MaxLag = 2
  DefaultSlots = n8
  DefaultData = dA
  DefaultInterval = 2
  Requested <- MCRequested
INVARIANTS
  IdleLine
PROPERTIES
  SourceSpec
  KeepsSending
