SPECIFICATION EndingSpec
CONSTANTS
  Pids = {p1, p2}
  Refs = {r1, r2}
  Codes = {0}
  RingSize = 2
  MaxProcs = 2
  MaxDepth = 3
  MaxSpins = 4
  MaxSigs = 2
  MaxOperands = 1
  Monitor = FALSE
  ForkFails = TRUE
  PidReuse = FALSE
  OperandKinds = {"pid"}
  RootCmds = {"progbg", "prog", "wait", "pipe"}
  BodyCmds = {"prog"}
INVARIANTS
  NoDanglingWait
PROPERTIES
  TrapEndsWait
  CommandsComplete
