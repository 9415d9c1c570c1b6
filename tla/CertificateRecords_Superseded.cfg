SPECIFICATION Spec
CONSTANTS
  host = host
  name = name
  wildcard = wildcard
  Hosts = {host}
  Identifiers = {name, wildcard}
  Bare <- MCBare
  NameLists <- MCNameLists
  Lives = {1, 2}
  WarnDays = 1
  MaxCerts = 2
  MaxDays = 1
  MaxFaults = 0
  MaxEdits = 1
INVARIANT SupersededIsQuiet
CHECK_DEADLOCK FALSE
