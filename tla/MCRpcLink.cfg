SPECIFICATION Spec
CONSTANTS
  GCalls = {g1}
  Checks = {m1}
  MaxConns = 2
  None = None
INVARIANTS
  Registered
PROPERTIES
  CallsKeepPromise
  ChecksReturn
CHECK_DEADLOCK FALSE
