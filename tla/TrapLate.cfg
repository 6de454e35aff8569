SPECIFICATION FairSpec
CONSTANTS
  Pids = {p1}
  Refs = {r1}
  Codes = {0}
  RingSize = 2
  MaxProcs = 2
  MaxDepth = 2
  MaxSpins = 2
  MaxSigs = 1
  MaxOperands = 1
  Monitor = FALSE
  ForkFails = FALSE
  PidReuse = FALSE
  OperandKinds = {"pid"}
  RootCmds = {"prog", "jobs"}
  BodyCmds = {}
PROPERTIES
  TrapPrompt
