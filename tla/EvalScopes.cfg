SPECIFICATION Spec
CONSTANTS
  Constructs = {"redir", "prefix", "eval", "for", "while", "test", "function", "subshell", "source"}
  Controls = {"break", "continue", "return", "exit", "fail"}
  TrapControls = {}
  ExitControls = {}
  MaxStack = 6
  MaxLevels = 2
  MaxCount = 2
  SetsExitTrap = FALSE
  Errexit = TRUE
INVARIANTS
  ChainsHeld
  CountsHeld
PROPERTIES
  BreakStays
