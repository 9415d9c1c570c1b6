CONSTANTS
  Orders = {o1}
  Idents = {i1}
  Handlers = {h1, h2}
  Purgers = {}
  None = None
  MaxIssued = 1
  MaxCrashes = 0
SPECIFICATION Spec
INVARIANTS EitherIsEnough
