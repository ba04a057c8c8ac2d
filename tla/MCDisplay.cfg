SPECIFICATION Spec
CONSTANTS
  NodeCount = 3
  HostName <- MCHostName
  Fetched <- MCFetched
  Exprs <- MCExprs
  MaxFilters = 1
  Modes = {"host", "resp", "state"}
INVARIANTS TypeOK OrderConsistent TableDetermined RespIsByLatency FooterMatches HealthFilters
