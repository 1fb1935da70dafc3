CONSTANTS
  l1 = l1
  l2 = l2
  Local <- MCLocal
  Datagram <- MCDatagram
  HelloShortLen = 1
  HelloLongLen = 2
  MAX_NETWRK_LOOP = 2
SPECIFICATION ControllerSpec
INVARIANTS
  ControllerTypeOK
  EveryTlvTreated
PROPERTY
  FailuresInARow
  DueIsFlooded
CHECK_DEADLOCK FALSE
