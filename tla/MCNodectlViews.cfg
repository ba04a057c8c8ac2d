SPECIFICATION Spec
CONSTANTS
  Files <- ViewFiles
  MaxNodes = 2
  NULL = NULL
  Argvs <- ViewArgvs
  Exprs <- ViewExprs
  MaxFilters = 2
  Answers <- MCAnswers
INVARIANT FiltersNarrowViews
