SPECIFICATION GatewaySpec
CONSTANTS
  PermitIDs = {p1}
  AuthorityKeys = {k1}
  MaxEpoch = 3
  MaxTime = 1
  Requests = {q1}
  RequestOf <- OwnRequest
  Calls = {c1, c2, c3}
  AuditMayFail = TRUE
SYMMETRY Symmetry
CHECK_DEADLOCK FALSE
INVARIANTS
  GatewayTypeOK
  ForwardedOnRecord
  OneForwardPerPermit
  ReceiptsNeverOverstate
  FinalStatesAreTrue
  RefusedGrantsAreDead
PROPERTY
  ExecutionToldOnce
