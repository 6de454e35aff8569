SPECIFICATION Spec
CONSTANTS
  Constructs = {"for", "source"}
  Controls = {"break"}
  TrapControls = {}
  ExitControls = {}
  MaxStack = 4
  MaxLevels = 2
  MaxCount = 2
  SetsExitTrap = FALSE
  Errexit = FALSE
INVARIANTS
  PopsCurrent
