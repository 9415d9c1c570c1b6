SPECIFICATION Spec
CONSTANTS
  host = host
  name = name
  wildcard = wildcard
  Hosts = {host}
  Identifiers = {name}
  Bare <- MCBare
  NameLists <- MCOneName
  Lives = {2}
  WarnDays = 1
  MaxCerts = 3
  MaxDays = 1
  MaxFaults = 2
  MaxEdits = 1
INVARIANTS TypeOK WarnedOnce
PROPERTIES RetirementStays EveryoneIsWarned
CHECK_DEADLOCK FALSE
