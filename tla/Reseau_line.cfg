CONSTANTS
  a = a
  b = b
  c = c
  Node <- MCNodes
  Author = a
  Linked <- MCLine
  Faults <- MCFaults
  COUNT_INOND = 1
SPECIFICATION Spec
INVARIANTS
  TypeOK
  DemotedForFaults
  ShownOnce
PROPERTY ImplementsPropagation
CHECK_DEADLOCK FALSE
