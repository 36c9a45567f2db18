\* Two processes, four calls.
CONSTANTS
  Procs = {"a", "b"}
  Systems = {"linux", "bsd", "windows"}
  Scenarios <- AllScenarios
  MaxCalls = 4
  Depth = 3
  Old <- OldContents
  Limit = 2
SPECIFICATION Spec
INVARIANTS CreatedByOpener NewFileKept OneWriterWins ReadsOneVersion PathMade
