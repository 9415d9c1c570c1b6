SPECIFICATION Spec
CONSTANTS
  Visitors = {v1}
  Admins = {a1, a2}
  People = {p, q}
  None = None
  AuthRequired = TRUE
  AdminToken = TRUE
  AutoCreate = TRUE
  Allowed = {}
  MaxUsers = 2
  MaxSessions = 2
  MaxEdits = 0
  MaxStates = 1
SYMMETRY Symmetry
PROPERTY LastUserStays
