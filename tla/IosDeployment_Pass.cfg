SPECIFICATION Spec
CONSTANTS
  Workers = {w1, w2}
  None = None
  MaxKeys = 3
  MaxCerts = 3
  MaxFaults = 2
INVARIANTS TypeOK SuccessIsInstalled KeepsCertificate InstalledIsRecorded
CHECK_DEADLOCK FALSE
