CONSTANTS
  Threads = {"a", "b"}
  Systems = {"linux", "apple", "windows"}
  Infos <- Descriptors
  Timeouts <- Times
  SemTimeouts <- WholeSeconds
  Part = 2
  MaxTime = 3
  MaxOps = 2
  MaxIntr = 1
SPECIFICATION FairSpec
INVARIANTS StdAsAsked NotInheritable
PROPERTIES WaitsItsTime WaitEnds
