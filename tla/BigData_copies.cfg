CONSTANTS
  a = a
  Id <- MCOneWriter
  MsgLength <- MCFour
  MAX_SZ = 2
  MAX_SZ_220 = 2
  FIVE_MIN_SEC = 3
  Again = 1
  Copies = 2
  MaxMsg = 1
SPECIFICATION Spec
PROPERTY DisplayedWhole
