----------------------------- MODULE MCVerifier -----------------------------
(***************************************************************************)
(* The verifier for TLC.  Attempts, nonces and permits are each            *)
(* interchangeable.                                                        *)
(***************************************************************************)
EXTENDS Verifier, TLC

Symmetry == Permutations(Attempts) \cup Permutations(Nonces)
              \cup Permutations(PermitIDs)

(* The steps that matter to the nonce store: proofs of execution permits   *)
(* that last, presented over and over while the clock runs.  The other     *)
(* steps of the verifier do not touch a nonce.                             *)
ReplayNext ==
  \/ \E p \in PermitIDs, k \in AuthorityKeys :
       /\ Register(p, [class |-> "execution", key |-> k, epoch |-> 1,
                       expiresAt |-> MaxTime])
       /\ UNCHANGED verifierVars
  \/ \E a \in Attempts :
       \/ \E p \in PermitIDs, proof \in Proof : Begin(a, "execution", p, proof)
       \/ Inspect(a) \/ RejectAction(a) \/ UseNonce(a)
       \/ Reread(a) \/ ConsumeInspected(a)
  \/ NotStalled /\ Tick /\ UNCHANGED verifierVars

ReplaySpec == VerifierInit /\ [][ReplayNext]_allVars

=============================================================================
