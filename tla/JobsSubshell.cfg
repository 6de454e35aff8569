SPECIFICATION Spec
SYMMETRY Interchangeable
CONSTANTS
  Pids = {p1, p2}
  Refs = {r1, r2}
  Codes = {0}
  RingSize = 2
  MaxProcs = 2
  MaxDepth = 3
  MaxSpins = 2
  MaxSigs = 0
  MaxOperands = 2
  Monitor = FALSE
  ForkFails = TRUE
  PidReuse = FALSE
  OperandKinds = {"%n", "pid", "%-"}
  RootCmds = {"bg", "sub", "prog", "waitops"}
  BodyCmds = {}
INVARIANTS
  TableSafe
  CurrentValid
  OwnJobsOnly
