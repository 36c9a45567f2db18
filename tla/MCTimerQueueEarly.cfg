SPECIFICATION Spec
CONSTANTS
  n1 = n1
  n2 = n2
  n3 = n3
  Nodes = {n1}
  Lives <- Aged
  Half = 8
  Lag = 0
PROPERTY
  NeverEarly
