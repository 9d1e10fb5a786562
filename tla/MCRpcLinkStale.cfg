SPECIFICATION Spec
CONSTANTS
  GCalls = {}
  Checks = {m1, m2}
  MaxConns = 2
  None = None
INVARIANTS
  ChecksOwnAnswer
CHECK_DEADLOCK FALSE
