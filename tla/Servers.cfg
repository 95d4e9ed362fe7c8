SPECIFICATION Spec
INVARIANTS
  OpenServerSafe
  WebServersSafe
PROPERTIES
  EveryoneServed
CHECK_DEADLOCK FALSE
