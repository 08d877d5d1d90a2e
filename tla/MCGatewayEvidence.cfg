SPECIFICATION GatewaySpec
CONSTANTS
  PermitIDs = {p1}
  AuthorityKeys = {k1}
  MaxEpoch = 3
  MaxTime = 1
  Requests = {q1}
  RequestOf <- OwnRequest
  Calls = {c1}
  AuditMayFail = FALSE
CHECK_DEADLOCK FALSE
INVARIANT
  AttemptIsTold
