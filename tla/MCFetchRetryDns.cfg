SPECIFICATION Spec
CONSTANTS
  Nodes = {n1, n2}
  NoNode = NoNode
  Fd = {0, 1}
  MaxAddrs = 1
  MaxTicks = 3
  Persistent = TRUE
  Faults <- RetryDns
INVARIANTS RowsOwnAndFresh
