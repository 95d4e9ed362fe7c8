SPECIFICATION Spec
INVARIANTS
  SockSafe
  PingSafe
  IcmpSafe
  TimersSafe
PROPERTIES
  EverythingEnds
CHECK_DEADLOCK FALSE
