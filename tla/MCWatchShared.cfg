SPECIFICATION WatchFair
CONSTANTS
  Nodes = {n1, n2}
  NoNode = NoNode
  Fd = {0, 1}
  MaxAddrs = 1
  MaxTicks = 2
  Persistent = TRUE
  Faults <- Slow
  Agents = {n1}
  AgentOf <- Shared
  Backlog = 1
  MaxTroubles = 0
PROPERTIES QueuedAnswered
