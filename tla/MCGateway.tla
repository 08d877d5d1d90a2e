------------------------------ MODULE MCGateway -------------------------------
(***************************************************************************)
(* The gateway for TLC.  Each permit has a request of its own.             *)
(***************************************************************************)
EXTENDS Gateway, TLC

OwnRequest ==
  CHOOSE f \in [PermitIDs -> Requests] : \A p, q \in PermitIDs : f[p] = f[q] => p = q

Symmetry == Permutations(Calls)

=============================================================================
