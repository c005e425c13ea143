SPECIFICATION Spec
CONSTANTS
  Handles = {h1}
  Conns = {c1}
  Workers = {w1, w2}
  None = none
  Sizes = {1}
  HighWater = 2
  MaxReqs = 4
INVARIANTS
  TypeOK
  ServedOnce
  TakenInOrder
PROPERTIES
  RequestHandled
  ShutdownReturnsIfRoom
  WorkersExit
CHECK_DEADLOCK FALSE
