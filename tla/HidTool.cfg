\* Every kind of request, bus resets between any two steps, a super-loop that
\* keeps running.
SPECIFICATION FairSpec
CONSTANTS
  Inputs <- MCInputs
  MaxSeq = 2
  Delay = 2
  WordMax = 3
  MaxPackets = 3
  MaxBusResets = 1
INVARIANTS
  TypeOK
  OutBufferStable
  OneReplyPerRequest
  ReplyTruthful
  ResetFollowsReply
  BusResetCancels
  ErasedMeansLeaving
PROPERTIES
  DeviceSpec
  OutRearmed
  ResetHappens
