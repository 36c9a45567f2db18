CONSTANTS
  Modes <- SplitModes
  Names = {"a", "b"}
  Caps = {3, 20}
  MaxUsed = 9
SPECIFICATION Spec
INVARIANTS SamePlace Normal Fits
