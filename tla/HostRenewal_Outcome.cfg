CONSTANTS
  Hosts = {h1}
  Places = {p1}
  NameSets = {n1}
  Scheduler = Scheduler
  Operators = {op}
  None = None
  Deleted = Deleted
  Lifetime = 1
  RenewBefore = 1
  MaxDays = 0
  MaxCerts = 3
  MaxFaults = 1
  MaxEdits = 1
SPECIFICATION Spec
PROPERTIES OutcomeRecorded
\* Past the bound on certificates the model stops.
CHECK_DEADLOCK FALSE
