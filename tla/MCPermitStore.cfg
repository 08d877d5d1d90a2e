SPECIFICATION Spec
CONSTANTS
  PermitIDs = {p1, p2}
  AuthorityKeys = {k1, k2}
  MaxEpoch = 3
  MaxTime = 2
SYMMETRY Symmetry
INVARIANTS
  TypeOK
  IssuedUnderPresentAuthority
  OneEndPerPermit
  NoClaimFromAFutureEpoch
PROPERTIES
  EndedIsFinal
  TransitionLeavesNoneOutstanding
  ImplementsLifecycle
