SPECIFICATION Spec
CONSTANTS
  Servers = {s1, s2}
  Handles = {h1, h2}
  Callers = {c1, c2}
  None = none
  MaxHandles = 2
  PosModulus = 2
INVARIANTS
  TypeOK
  ListIsSet
  CallFindsConn
PROPERTY ImplementsTable
SYMMETRY Symmetric
