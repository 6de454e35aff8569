SPECIFICATION Spec
CONSTANTS
  Constructs = {"pipe", "for", "function", "subshell", "subst", "eval", "trap", "child"}
  Controls = {"break", "return", "exit"}
  TrapControls = {"exit"}
  ExitControls = {}
  MaxStack = 5
  MaxLevels = 2
  MaxCount = 2
  SetsExitTrap = TRUE
  Errexit = FALSE
INVARIANTS
  ShellsHeld
PROPERTIES
  ChildStays
