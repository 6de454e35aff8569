SPECIFICATION Spec
CONSTANTS
 Names <- MCNames
 Words <- MCWords
 Assigns <- MCAssigns
 Redirs <- MCRedirs
 Delim <- MCDelim
 Aliases <- MCAliases
 Params <- MCParams
 Vocabulary <- MCVocabulary
 Seed <- MCSeed
 MaxUnits <- MCMaxUnits
 Forms <- MCForms
 Stem <- MCStem
 MaxForms <- MCMaxForms
 Num <- MCNum
 Vars = {"x"}
 Width = 5
 Worlds <- MCWorlds
 Strings <- MCStrings
 Parse <- sh_loop
 Expand <- expand_args
 ExpandVars <- expand_vars
 FieldsMeant <- LineFields
 ValuesMeant <- AssignMeans
 Agree <- Agreed
 ArithTree <- MCTree
 ArithMeant <- MCCTree
 Climb <- MCClimb
INVARIANTS ScriptsKept AliasesReplaced PatternsMatch WordsRight ArithRight
CHECK_DEADLOCK FALSE
