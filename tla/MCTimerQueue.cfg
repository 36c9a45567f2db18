SPECIFICATION Spec
CONSTANTS
  n1 = n1
  n2 = n2
  n3 = n3
  Nodes = {n1, n2, n3}
  Lives <- Lifes
  Half = 8
  Lag = 2
SYMMETRY Symmetry
INVARIANTS
  TypeOK
  ActiveIsQueued
  InOrder
PROPERTIES
  NeverEarly
  NoneLeft
  OncePerProcess
