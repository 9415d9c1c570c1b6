SPECIFICATION Spec
CONSTANTS
  Domains = {d1, d2}
  Secrets = {s1, s2}
  Account = Account
  Threads = {t1}
  Self = Self
  None = None
  MaxCerts = 5
  MaxKeys = 2
  MaxFaults = 2
  MaxChanges = 2
INVARIANTS TypeOK PairMatches AccountKept
PROPERTY Recovers
