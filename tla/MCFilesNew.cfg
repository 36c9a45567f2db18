\* FFFILE_CREATENEW | FFFILE_TRUNCATE on Windows.
CONSTANTS
  Procs = {"a", "b"}
  Systems = {"windows"}
  Scenarios <- NewEmptied
  MaxCalls = 2
  Depth = 1
  Old <- OldContents
  Limit = 3
SPECIFICATION Spec
INVARIANT CreatedByOpener
