CONSTANTS
  p1 = p1
  me = me
  a = a
  IpPort <- MCOne
  Id <- MCIds
  MyId <- me
  Sender = {"neighbour_sender"}
  Recent = 0
  MIN = 1
  Boot <- MCBootLong
  COUNT_INOND = 2
  MaxNonce = 1
  MaxMine = 0
SPECIFICATION InondationSpec
PROPERTY ImplementsDiffusion
