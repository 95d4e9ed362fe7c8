SPECIFICATION Spec
CONSTANTS
  Threads = {"t1", "t2"}
  Objs = {"o1", "o2"}
  Ids = {1}
  MaxRefs = 2
  Jobs = {"j1", "j2", "j3"}
  Finders = {"t1", "t2"}
  NULL = "NULL"
  QSIZE = 3
  MaxDg = 7
  Procs = {"p1", "p2"}
  Recs = {"r1", "r2"}
  None = "None"
  Oflags <- AnyFlags
INVARIANTS
  EchoSafe
  HandOversSafe
  SignalsSafe
  StatusJudged
  FooTableSafe
  ListIsQueue
  SigioSafe
PROPERTIES
  InitialisesOnce
  NothingOverlooked
  EverythingFinishes
CHECK_DEADLOCK FALSE
