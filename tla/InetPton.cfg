SPECIFICATION Spec
INVARIANT PtonRight
CHECK_DEADLOCK FALSE
