SPECIFICATION Spec
CONSTANTS
  Clients = {c1, c2}
  None = None
  Partial = Partial
  MaxJobId = 2
  Chunks = 0
  MaxCrash = 1
  MaxConf = 1
SYMMETRY Symmetry
INVARIANTS
  TypeOK
  AcceptedIsDurable
  AcceptedIsScheduled
  QueuedOnce
  NoLostWakeup
  PrintsOwnDocument
  FilesHaveOwner
PROPERTY
  ServesInOrder
