SPECIFICATION Spec
CONSTANTS
  Files <- MCFiles
  MaxNodes = 2
  NULL = NULL
  Argvs <- MCArgvs
  Exprs <- MCExprs
  MaxFilters = 2
  Answers <- MCAnswers
INVARIANTS TypeOK OptionsAsTyped LoadedAsListed ViewAsAsked
