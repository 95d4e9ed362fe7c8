SPECIFICATION OSpec
CONSTANTS
  Procs = {p1, p2}
  Recs = {r1}
  None = None
  Oflags <- AnyFlags
INVARIANT
  InitialisesAtomically
CHECK_DEADLOCK FALSE
