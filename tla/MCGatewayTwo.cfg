SPECIFICATION GatewaySpec
CONSTANTS
  PermitIDs = {p1, p2}
  AuthorityKeys = {k1}
  MaxEpoch = 2
  MaxTime = 1
  Requests = {q1, q2}
  RequestOf <- OwnRequest
  Calls = {c1, c2}
  AuditMayFail = TRUE
SYMMETRY Symmetry
CHECK_DEADLOCK FALSE
INVARIANTS
  FinalStatesAreTrue
