SPECIFICATION MCSpec
CONSTANTS
  Clients = {c1, c2}
  Slots = {s1, s2}
  Places = {p1, p2}
  Start = p1
  Secrets = {k1, k2}
  MaxFails = 1
  Modes = {"login", "lobby", "secret", "faults"}
  None = None
INVARIANTS
  SingleLogin
  AnsweredUp
PROPERTIES
  FreshEntry
  SecretKept
CHECK_DEADLOCK FALSE
