CONSTANTS
  Hosts = {h1, h2}
  Places = {p1}
  NameSets = {n1}
  Scheduler = Scheduler
  Operators = {}
  None = None
  Deleted = Deleted
  Lifetime = 2
  RenewBefore = 1
  MaxDays = 1
  MaxCerts = 3
  MaxFaults = 1
  MaxEdits = 1
SPECIFICATION Spec
INVARIANTS RenewedWhenDue
PROPERTIES DueIsServed
\* Past the bound on certificates the model stops.
CHECK_DEADLOCK FALSE
