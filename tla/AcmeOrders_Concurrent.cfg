CONSTANTS
  Orders = {o1}
  Idents = {i1, i2}
  Handlers = {h1, h2}
  Purgers = {p1}
  None = None
  MaxIssued = 2
  MaxCrashes = 1
SPECIFICATION Spec
INVARIANTS TypeOK IssuedOnlyIfProved ValidHasCertificate InvalidHasCause ProcessingHasWorker IssuanceAccounted
SYMMETRY Symmetry
\* With its only order deleted the model has nothing left to do.
CHECK_DEADLOCK FALSE
