SPECIFICATION WatchFair
CONSTANTS
  Nodes = {n1, n2}
  NoNode = NoNode
  Fd = {0, 1}
  MaxAddrs = 1
  MaxTicks = 2
  Persistent = TRUE
  Faults <- Dying
  Agents = {n1, n2}
  AgentOf <- OneEach
  Backlog = 1
  MaxTroubles = 3
INVARIANTS EndsAgree
PROPERTIES OneTroubleHidden FetchTerminates
