SPECIFICATION Spec
CONSTANTS
  Workers = {w1, w2}
  x = x
  wild = wild
  rx = rx
  Identifiers = {x, wild}
  Records = {rx}
  RecordOf <- MCRecordOf
  Cas = {ca, private}
  DefaultCa = ca
  PrivateCa = private
  None = None
  Csrs = {{x}, {x, wild}}
  Methods = {"cloudflare", "acmedns", "challtestsrv", "edge"}
  MaxOrders = 2
  MaxFaults = 1
  MaxRevocations = 1
INVARIANTS TypeOK NothingLeftBehind ProofsAreFound
PROPERTY Returns
CHECK_DEADLOCK FALSE
