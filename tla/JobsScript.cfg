SPECIFICATION Spec
SYMMETRY Interchangeable
CONSTANTS
  Pids = {p1, p2, p3}
  Refs = {r1, r2, r3}
  Codes = {0, 1}
  RingSize = 1
  MaxProcs = 2
  MaxDepth = 2
  MaxSpins = 2
  MaxSigs = 0
  MaxOperands = 1
  Monitor = FALSE
  ForkFails = FALSE
  PidReuse = FALSE
  OperandKinds = {"pid"}
  RootCmds = {"bg", "pipe", "wait", "update", "progbg", "prog", "jobs", "waitops"}
  BodyCmds = {}
INVARIANTS
  TypeOK
  ListOrdered
  StatusTrue
