SPECIFICATION MCSpec
CONSTANTS
  a = a
  b = b
  a1 = a1
  a2 = a2
  b1 = b1
  Chars = {a, b}
  Sessions = {a1, a2, b1}
  Owner <- MCOwner
  Handlers = {h1, h2}
  Statuses = {"online", "busy"}
  MaxMembers = 1
  Nil = Nil
INVARIANTS
  InvitesLive
CHECK_DEADLOCK FALSE
