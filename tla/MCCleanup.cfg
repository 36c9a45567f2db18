\* Every function that keeps its promises, one after another.
CONSTANT Functions <- Clean
SPECIFICATION Spec
INVARIANT Ownership
