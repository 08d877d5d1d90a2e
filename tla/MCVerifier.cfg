SPECIFICATION VerifierSpec
CONSTANTS
  PermitIDs = {p1}
  AuthorityKeys = {k1}
  MaxEpoch = 2
  MaxTime = 2
  Attempts = {a1, a2}
  Nonces = {n1}
  MaxAge = 1
  ClockSkew = 1
  MaxStall = 2
SYMMETRY Symmetry
INVARIANTS
  VerifierTypeOK
  AtMostOneVerified
  VerifiedSpentIt
  SpentForAVerifiedCall
  NonceSpentWithPermit
