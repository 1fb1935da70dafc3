CONSTANTS
  p1 = p1
  p2 = p2
  IpPort <- MCOne
  Sender <- MCBoth
  MIN = 1
SPECIFICATION Spec
PROPERTY SendersLoseNobody
