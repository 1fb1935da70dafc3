CONSTANTS
  p1 = p1
  me = me
  a = a
  IpPort <- MCOne
  Id <- MCIds
  MyId <- me
  Sender = {}
  Recent = 0
  MIN = 1
  Boot <- MCBootLong
  COUNT_INOND = 1
  MaxNonce = 1
  MaxMine = 0
SPECIFICATION InondationSpec
PROPERTY SenderIsStruckOff
