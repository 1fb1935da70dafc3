CONSTANTS
  p1 = p1
  p2 = p2
  IpPort <- MCPeers
  Length <- MCLengths
  MAX_PER_TLV = 5
  Pmtu <- MCPaths
  MaxTlv = 4
SPECIFICATION Spec
INVARIANTS
  TypeOK
  SplitForWantOfRoom
  OvertakenByShorter
  NothingDropped
PROPERTY EveryTlvLeaves
CHECK_DEADLOCK FALSE
