SPECIFICATION FairGatewaySpec
CONSTANTS
  PermitIDs = {p1}
  AuthorityKeys = {k1}
  MaxEpoch = 2
  MaxTime = 1
  Requests = {q1}
  RequestOf <- OwnRequest
  Calls = {c1, c2}
  AuditMayFail = TRUE
CHECK_DEADLOCK FALSE
PROPERTY
  ForwardedIsSettled
