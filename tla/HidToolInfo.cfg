\* What GET_INFO reports after a commanded reset.
SPECIFICATION Spec
CONSTANTS
  Inputs <- MCInfoInputs
  MaxSeq = 2
  Delay = 2
  WordMax = 3
  MaxPackets = 2
  MaxBusResets = 0
INVARIANT
  GetInfoReportsReset
