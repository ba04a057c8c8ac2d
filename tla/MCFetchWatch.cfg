SPECIFICATION FairSpec
CONSTANTS
  Nodes = {n1, n2}
  NoNode = NoNode
  Fd = {0, 1}
  MaxAddrs = 2
  MaxTicks = 2
  Persistent = TRUE
  Faults <- Network
INVARIANTS TypeOK IInv DescriptorsAccounted OwnConnection RowsOwnAndFresh
PROPERTIES PollSpec FetchTerminates
