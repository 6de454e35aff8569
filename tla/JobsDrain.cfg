SPECIFICATION Spec
SYMMETRY Interchangeable
CONSTANTS
  Pids = {p1, p2}
  Refs = {r1, r2}
  Codes = {0}
  RingSize = 2
  MaxProcs = 2
  MaxDepth = 3
  MaxSpins = 2
  MaxSigs = 0
  MaxOperands = 1
  Monitor = TRUE
  ForkFails = FALSE
  PidReuse = FALSE
  OperandKinds = {"pid"}
  RootCmds = {"bg", "cmdsub", "pipe"}
  BodyCmds = {}
INVARIANTS
  NoExitLost
