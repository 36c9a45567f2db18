\* The functions that convert two names.
CONSTANT Functions <- TwoNames
SPECIFICATION Spec
INVARIANT Ownership
