CONSTANTS
  a = a
  Id <- MCOneWriter
  MsgLength <- MCLengths
  MAX_SZ = 2
  MAX_SZ_220 = 2
  FIVE_MIN_SEC = 3
  Again = 1
  Copies = 1
  MaxMsg = 2
SPECIFICATION Spec
INVARIANTS
  TypeOK
  NoncesDiffer
PROPERTIES
  DisplayedWhole
  DisplayedOnce
  EveryMessageSettled
