SPECIFICATION ReplaySpec
CONSTANTS
  PermitIDs = {p1}
  AuthorityKeys = {k1}
  MaxEpoch = 1
  MaxTime = 3
  Attempts = {a1, a2, a3}
  Nonces = {n1, n2}
  MaxAge = 0
  ClockSkew = 2
  MaxStall = 1
SYMMETRY Symmetry
INVARIANTS
  ProofAcceptedOnce
CHECK_DEADLOCK FALSE
