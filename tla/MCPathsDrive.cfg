CONSTANTS
  Modes <- SplitModes
  Names = {"a", "b"}
  Caps = {20}
  MaxUsed = 9
SPECIFICATION Spec
INVARIANT NoOtherDrive
