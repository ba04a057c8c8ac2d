SPECIFICATION FairSpec
CONSTANTS
  Nodes = {n1}
  NoNode = NoNode
  Fd = {0}
  MaxAddrs = 1
  MaxTicks = 1
  Persistent = FALSE
  Faults <- PeerClose
PROPERTIES ReadErrorIsNotConnectError
