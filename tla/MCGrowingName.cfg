CONSTANTS
  Kinds = {"read"}
  Cases <- AllCases
  UserCaps = {1, 6}
  StackCap = 3
  MaxWrites = 0
  ErrorPaths = TRUE
SPECIFICATION Spec
INVARIANT TellsSize
