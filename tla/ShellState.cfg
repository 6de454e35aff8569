SPECIFICATION Spec
CONSTANTS
  Parts <- MCParts
  MaxJobs = 3
  MaxFd = 11
  MaxStruct = 16
  Missing = "no"
  Nums <- MCNums
  Sinks <- MCSinks
  Groups <- MCGroups
  Simples <- MCSimples
  Execs <- MCExecs
  MaxDepth = 3
  MaxExec = 1
  Beneath = FALSE
  RedirectAll <- MCRedirect
  OpenAll <- MCOpenAll
  PipeAll <- MCPipeAll
  ExecAll <- MCExecAll
  Names = {"x"}
  Values = {"1", "2"}
  NoText = "notext"
  MaxTabs = 4
  sh_interactive = TRUE
  VarNames <- MCVarNames
  VAR_CHAR = 2
  VAR_BITS = 5
  MaxLevels = 1
  MaxEntries = 4
  Sigs = {1, 2}
  ShellSigs = {1}
  SIGSTACKSIZE = 2
  MaxNodes = 3
  MaxFrames = 3
  CmdNames = {"f"}
  PathDirs = {1, 2}
  Paths <- MCPaths
  MaxFns = 2
  MaxCalls = 2
  Dirs = {"a", "b"}
  Volatile = {"b"}
  MaxCells = 2
  MaxFences = 2
  MaxEnvs = 3
  MaxForks = 1
  Shells = {1, 2}
  Lines <- MCLines
  HistSizes <- MCHistSizes
  Browsers = {1}
  DEFAULT_HISTSIZE = 2
  MaxTyped = 4
  Careful = TRUE
  CarefulCmds = TRUE
INVARIANTS HandlerSafe DescriptorsRight VarsSound TrapsLive SignalsKept FunctionsLive LookupRight CwdHeld HistoryKept
PROPERTIES ScopesKept VarsPromised DirsPromised
CHECK_DEADLOCK FALSE
