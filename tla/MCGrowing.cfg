CONSTANTS
  Kinds = {"read", "nextkey", "nextval", "volume", "netconf", "processes", "curdir", "expand"}
  Cases <- AllCases
  UserCaps = {0, 1, 2, 3, 6}
  StackCap = 3
  MaxWrites = 3
  ErrorPaths = TRUE
SPECIFICATION FairSpec
INVARIANT Complete
PROPERTY GetsValue
