SPECIFICATION MCSpec
CONSTANTS
  a = a
  b = b
  x = x
  Chars = {a, b}
  Items = {x}
  Slots = {0}
  Handlers = {h1, h2}
  Amounts = {0, 1}
  StartAlz <- MCStartAlz
  StartItems <- MCStartItems
  AttachmentFee = 1
  MaxAlz = 4
  MaxMailbox = 1
  MaxMails = 2
  UpdateCount = 5
  None = None
INVARIANTS
  AlzKept
  ItemOnce
  SoloCopies
  ListsKnowNew
VIEW View
SYMMETRY Symmetry
CHECK_DEADLOCK FALSE
