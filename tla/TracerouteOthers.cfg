SPECIFICATION Spec
INVARIANT
  OthersSkipped
CHECK_DEADLOCK FALSE
