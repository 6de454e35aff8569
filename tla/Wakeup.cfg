SPECIFICATION FairSpec
CONSTANTS
  Pids = {p1, p2}
  Refs = {r1, r2}
  Codes = {0}
  RingSize = 2
  MaxProcs = 2
  MaxDepth = 2
  MaxSpins = 2
  MaxSigs = 0
  MaxOperands = 1
  Monitor = FALSE
  ForkFails = FALSE
  PidReuse = FALSE
  OperandKinds = {"pid"}
  RootCmds = {"bg", "waitops"}
  BodyCmds = {}
PROPERTIES
  FinishedWaitReturns
