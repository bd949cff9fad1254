CONSTANTS
  c1 = c1
  c2 = c2
  Peer <- MCPeer
  NoPeer = NoPeer
  NodesPerCapsule = 3
  MaxScan = 4
  FirstSample <- MCFirstSample
  MaxDatagrams = 3
  InboxSize = 2
SPECIFICATION Spec
INVARIANTS
  StreamsAreSeparate
  NothingForgotten
PROPERTIES
  StreamSpec
  LatestDelivered
CHECK_DEADLOCK FALSE
