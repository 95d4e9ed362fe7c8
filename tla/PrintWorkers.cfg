SPECIFICATION Spec
CONSTANTS
  Workers = {w1, w2, w3}
  Null = Null
INVARIANT KillsAll
CHECK_DEADLOCK FALSE
