SPECIFICATION Spec
CONSTANTS
  Parts = {"streams"}
  Vocabulary <- MCVocabulary
  MaxUnits <- MCMaxUnits
  Forms <- MCForms
  Seed <- MCSeed
  Stem <- MCStem
  MaxForms <- MCMaxForms
  ReFlags <- MCReFlags
  ReAlphabet <- MCReAlphabet
  Subjects <- MCSubjects
  ReSteps = 400
  DFA_MAXDUP = 3
  SedAlphabet <- MCSedAlphabet
  Regexes <- MCRegexes
  Files <- MCFiles
  Inputs <- MCInputs
  SED_MAXNEST = 1
  MaxSedSteps = 24
  ListWidths = {0, 5, 6}
  AwkNames = {"x", "a"}
  AwkNumbers = {"1"}
  AwkStrings = {"str"}
  FileText <- MCFileText
  RawSize = 2
  Units = {"a", ",", "nl"}
  MaxText = 3
  MaxStages = 2
  FileNames = {"a", "b"}
  Contents <- MCContents
  ArgLists <- MCArgLists
  BufLines = 2
  StreamCap = 3
  MaxReads = 4
  MaxPrints = 2
  RecordTexts <- MCRecordTexts
  Blank = " "
  FieldValues <- MCFieldValues
  Separators = {" ", ",", ""}
  MaxNF = 2
  Careful = FALSE
  Compile <- MCCompile
  Search <- MCSearch
  Submatch <- MCSubmatch
  Replace <- MCReplace
  ReMeant <- MCReMeant
  AllMatches <- MCAllMatches
  ParseSed <- MCParseSed
  RunSed <- MCRunSed
  SedMeant <- MCSedMeant
  ParseAwk <- MCParseAwk
  ShowAwk <- MCShowAwk
  AwkText <- MCAwkText
  RunPipe <- MCRunPipe
  PipeMeant <- MCPipeMeant
INVARIANT EveryLineRead
CHECK_DEADLOCK FALSE
