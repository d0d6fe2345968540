SPECIFICATION FairSpec
CONSTANTS
  c1 = c1
  c2 = c2
  Cmds <- MCCmds
  SeqMod = 2
  RingSize = 1
  MaxCalls = 3
  MaxConnects = 3
  MaxResets = 1
INVARIANTS
  AnswerIsOwn
  AnswerComing
PROPERTIES
  CallSpec
  CallEnds
CHECK_DEADLOCK FALSE
