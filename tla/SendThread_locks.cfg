CONSTANTS
  p1 = p1
  p2 = p2
  IpPort <- MCPeers
  Sender <- MCBoth
  MIN = 1
SPECIFICATION Spec
CONSTRAINT MCNarrow
INVARIANTS
  TypeOK
  OwnsByLabel
  NoDeadlock
  BothOnlyWhileMoving
