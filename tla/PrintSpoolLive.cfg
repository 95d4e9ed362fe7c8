SPECIFICATION FairSpec
CONSTANTS
  Clients = {c1}
  None = None
  Partial = Partial
  MaxJobId = 2
  Chunks = 1
  MaxCrash = 1
  MaxConf = 2
INVARIANTS
  ConfigIsCurrent
PROPERTIES
  AcceptedIsPrinted
  ClientIsAnswered
