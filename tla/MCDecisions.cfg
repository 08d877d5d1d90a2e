SPECIFICATION MCSpec
CONSTANTS
  MaxExponent = 2
  Payment <- ThePayment
  Workspace <- TheWorkspace
  SecretLabels = {"vault"}
  LowerCase <- Lower
  Policies <- SomePolicies
  Proposals <- SomeProposals
  Peers <- SomePeers
  Fixtures <- SomeFixtures
  Calls <- SomeCalls
  PermitTTL = 4
  Second = 2
  MaxNow = 5
  Literals <- SomeLiterals
  RequestIds = {"a", "b", "c", "d"}
  Sessions = {"s"}
  SomeRequests <- SomeSteps
  PrivacyReadBudget = 1
  CumulativeRiskLimit = 80
  MaxEvents = 2
  MaxAncestors = 2
  RecentEvents = 1
  MaxEvaluations = 4
INVARIANTS
  ForwardedWasGranted
  DispatchedIsSigned
  FaithfulEventsStayInside
  FlowsAreReported
  SameNumberSameForm
CHECK_DEADLOCK FALSE
