CONSTANTS
  Kinds = {"expand"}
  Cases <- AllCases
  UserCaps = {0, 1, 2, 3, 6}
  StackCap = 3
  MaxWrites = 0
  ErrorPaths = FALSE
SPECIFICATION Spec
INVARIANT ExpandsAll
