SPECIFICATION Spec
SYMMETRY Interchangeable
CONSTANTS
  Pids = {p1, p2}
  Refs = {r1, r2}
  Codes = {0, 1}
  RingSize = 2
  MaxProcs = 1
  MaxDepth = 2
  MaxSpins = 2
  MaxSigs = 0
  MaxOperands = 1
  Monitor = TRUE
  ForkFails = FALSE
  PidReuse = FALSE
  OperandKinds = {"pid"}
  RootCmds = {"pipe"}
  BodyCmds = {}
PROPERTIES
  StoppedJobKept
