CONSTANTS
  Threads = {"a", "b"}
  Systems = {"windows"}
  Infos <- Descriptors
  Timeouts <- Times
  SemTimeouts <- WholeSeconds
  Part = 2
  MaxTime = 3
  MaxOps = 2
  MaxIntr = 1
SPECIFICATION Spec
INVARIANT StdAlways
