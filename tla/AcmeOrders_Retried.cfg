CONSTANTS
  Orders = {o1}
  Idents = {i1}
  Handlers = {h1, h2}
  Purgers = {p1}
  None = None
  MaxIssued = 3
  MaxCrashes = 1
SPECIFICATION FairSpec
INVARIANT IssuedPerOverlap
PROPERTIES ImplementsLifecycle FinalizeResolves
CHECK_DEADLOCK FALSE
