SPECIFICATION Spec
INVARIANTS
  LibcSafe
  ToolsSafe
  MatrixRight
CHECK_DEADLOCK FALSE
