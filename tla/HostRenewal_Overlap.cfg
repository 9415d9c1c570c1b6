CONSTANTS
  Hosts = {h1}
  Places = {p1, p2}
  NameSets = {n1, n2}
  Scheduler = Scheduler
  Operators = {op}
  None = None
  Deleted = Deleted
  Lifetime = 2
  RenewBefore = 1
  MaxDays = 0
  MaxCerts = 3
  MaxFaults = 1
  MaxEdits = 1
SYMMETRY Symmetry
SPECIFICATION Spec
INVARIANTS TypeOK DeviceIsAsRecorded
\* Past the bound on certificates the model stops.
CHECK_DEADLOCK FALSE
