CONSTANTS
  p1 = p1
  p2 = p2
  IpPort <- MCPeers
  Sender <- MCTeller
  MIN = 1
  MaxCalls = 3
SPECIFICATION LifeSpec
INVARIANTS
  NobodyLeft
  GoodbyesSent
PROPERTY StopEnds
CHECK_DEADLOCK FALSE
