SPECIFICATION Spec
CONSTANTS
  Workers = {w1, w2}
  x = x
  wild = wild
  rx = rx
  Identifiers = {x, wild}
  Records = {rx}
  RecordOf <- MCRecordOf
  Cas = {ca, other, private}
  DefaultCa = ca
  PrivateCa = private
  None = None
  Csrs = {{x}, {x, wild}}
  Methods = {"cloudflare"}
  MaxOrders = 2
  MaxFaults = 0
  MaxRevocations = 1
INVARIANT RevokedAtIssuer
CHECK_DEADLOCK FALSE
