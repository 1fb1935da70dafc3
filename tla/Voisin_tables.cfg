CONSTANTS
  p1 = p1
  p2 = p2
  me = me
  a = a
  IpPort <- MCPeers
  Id <- MCIds
  MyId <- me
  Sender = {"hello_sender"}
  Recent = 0
  MIN = 1
  Boot <- MCBoot
  Key <- MCKeys
  Value <- MCValues
  HASHMAP_SIZE = 2
  hash <- MCHash
SPECIFICATION VoisinSpec
INVARIANTS
  TypeOK
  TablesDisjoint
PROPERTIES
  SendersSpareSymetric
  
  SymetricByLongHello
  SilentPeerLeaves
