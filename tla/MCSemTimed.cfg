CONSTANTS
  Threads = {"a", "b"}
  Systems = {"linux"}
  Infos <- Descriptors
  Timeouts <- Times
  SemTimeouts <- AnyTime
  Part = 2
  MaxTime = 3
  MaxOps = 2
  MaxIntr = 1
SPECIFICATION Spec
PROPERTY WaitsItsTime
