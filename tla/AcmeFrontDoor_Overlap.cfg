CONSTANTS
  Keys = {k1}
  Messages = {m1, m2}
  Handlers = {h1, h2}
  None = None
  MaxNonces = 2
  MaxAccounts = 2
SPECIFICATION Spec
INVARIANTS OneAccountPerKey
CHECK_DEADLOCK FALSE
