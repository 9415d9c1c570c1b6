CONSTANTS
  Keys = {k1, k2}
  Messages = {m1, m2, m3}
  Handlers = {h1, h2}
  None = None
  MaxNonces = 3
  MaxAccounts = 2
SPECIFICATION Spec
INVARIANTS TypeOK NonceSpentOnce
PROPERTIES ChangedByOwnKey DeactivationSticks
SYMMETRY Symmetry
\* Past the bounds on nonces and accounts the model stops.
CHECK_DEADLOCK FALSE
