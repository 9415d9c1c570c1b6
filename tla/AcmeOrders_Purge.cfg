CONSTANTS
  Orders = {o1}
  Idents = {i1}
  Handlers = {h1, h2}
  Purgers = {p1}
  None = None
  MaxIssued = 1
  MaxCrashes = 0
SPECIFICATION Spec
PROPERTIES ValidOrdersKept
CHECK_DEADLOCK FALSE
