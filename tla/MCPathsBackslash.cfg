CONSTANTS
  Modes <- AllModes
  Names = {"a", "b"}
  Caps = {3, 20}
  MaxUsed = 9
SPECIFICATION Spec
INVARIANT SamePlace
