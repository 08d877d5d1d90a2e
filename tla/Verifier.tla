------------------------------- MODULE Verifier -------------------------------
(***************************************************************************)
(* verifier.Verifier (src/internal/verifier/verifier.go) and the nonce     *)
(* store of executionproof (registry.go), over the permit store.  Each     *)
(* attempt is one call, in a goroutine of its own:                         *)
(*                                                                         *)
(*   idle --Begin--> inspect --Inspect--> examine --UseNonce--> reread     *)
(*        --Reread--> consume --ConsumeInspected--> done                   *)
(*                                                                         *)
(* A step is what happens between two points where another goroutine can   *)
(* get in: the two clock readings and the critical sections of the stores. *)
(*                                                                         *)
(* Signatures, digests and the fields they cover are data the properties   *)
(* do not tell apart: whether they fit is chosen where the code compares   *)
(* them, and the refusals they lead to are one outcome, REJECTED.  A       *)
(* genuine token carries the claims that were registered, and a monotone   *)
(* clock never reads earlier than an issue time, so neither a claims       *)
(* mismatch nor NOT_YET_VALID arises.                                      *)
(***************************************************************************)
EXTENDS PermitStore

CONSTANTS
  Attempts,    \* calls to the verifier, each made once
  Nonces,      \* nonces of one executor key's proofs
  MaxAge,      \* DefaultExecutionProofMaxAge
  ClockSkew,   \* DefaultExecutionProofSkew
  MaxStall     \* longest time from a call's first clock reading to its nonce

ASSUME VerifierAssumption ==
  /\ MaxAge \in Nat
  /\ ClockSkew \in Nat \ {0}
  /\ MaxStall \in Nat

VARIABLES
  nonces,     \* NonceStore.expires, NoTime where the map has no entry
  attempts    \* the local state of each call

verifierVars == <<nonces, attempts>>
allVars == <<vars, verifierVars>>

-----------------------------------------------------------------------------
(* The ways in: VerifyExecutionAndConsume, VerifySimulationAndConsume and  *)
(* CheckExecution.                                                         *)
Entries == {"execution", "simulation", "check"}

ExpectedClass(entry) ==
  IF entry = "simulation" THEN "simulation" ELSE "execution"

Proof == [nonce : Nonces, issuedAt : Time]
NoProof == [nonce |-> "none"]

Outcomes == {"VERIFIED", "EXPIRED", "REPLAYED", "REVOKED", "UNKNOWN_PERMIT",
             "WRONG_PERMIT_CLASS", "WRONG_EXECUTOR", "REJECTED",
             "VALID_NOT_CONSUMED"}

Attempt == [pc : {"inspect", "examine", "reread", "consume", "done"},
            entry : Entries, permit : PermitIDs, proof : Proof \cup {NoProof},
            inspectedAt : Time, consumeAt : Time \cup {NoTime},
            outcome : Outcomes \cup {"none"}]

Idle == [pc |-> "idle"]

At(a, pc) == attempts[a].pc = pc

Goto(a, pc) == attempts' = [attempts EXCEPT ![a].pc = pc]

Return(a, outcome) ==
  attempts' = [attempts EXCEPT ![a].pc = "done", ![a].outcome = outcome]

-----------------------------------------------------------------------------
VerifierInit ==
  /\ Init
  /\ nonces = [n \in Nonces |-> NoTime]
  /\ attempts = [a \in Attempts |-> Idle]

(* A call starts and reads its clock.  The caller picks the permit and the *)
(* proof: it may replay either.                                            *)
Begin(a, entry, p, proof) ==
  /\ At(a, "idle")
  /\ proof = NoProof <=> entry # "execution"
  /\ attempts' = [attempts EXCEPT ![a] =
                    [pc |-> "inspect", entry |-> entry, permit |-> p,
                     proof |-> proof, inspectedAt |-> clock,
                     consumeAt |-> NoTime, outcome |-> "none"]]
  /\ UNCHANGED <<vars, nonces>>

(* The token is not genuine: the store is not asked.                       *)
RejectToken(a) ==
  /\ At(a, "inspect")
  /\ Return(a, "REJECTED")
  /\ UNCHANGED <<vars, nonces>>

(* Fault: the class of the token is not compared.                          *)
TokenClassesUnchecked(p) == Classes

(* The class a token was signed for: that of its record, if it has one.    *)
TokenClasses(p) == IF Known(p) THEN {records[p].claims.class} ELSE Classes

(* It is compared before the store is asked.                               *)
RejectClass(a) ==
  /\ At(a, "inspect")
  /\ TokenClasses(attempts[a].permit) # {ExpectedClass(attempts[a].entry)}
  /\ Return(a, "WRONG_PERMIT_CLASS")
  /\ UNCHANGED <<vars, nonces>>

(* What the state a record is found in means to the caller.                *)
OutcomeOf(state) ==
  CASE state = "NONE" -> "UNKNOWN_PERMIT"
    [] state = "ISSUED" -> "VERIFIED"
    [] state = "CONSUMED" -> "REPLAYED"
    [] OTHER -> state

(* store.Get expires the record if its time had come when the clock was    *)
(* read, and the state it is then in decides.                              *)
Inspect(a) ==
  LET p == attempts[a].permit
      found == ExpireIfNeeded(records[p], attempts[a].inspectedAt)
  IN  /\ At(a, "inspect")
      /\ ExpectedClass(attempts[a].entry) \in TokenClasses(p)
      /\ records' = [records EXCEPT ![p] = found]
      /\ IF found.state = "ISSUED"
         THEN Goto(a, "examine")
         ELSE Return(a, OutcomeOf(found.state))
      /\ UNCHANGED <<authorities, clock, nonces>>

(* Fault: an obligation is looked at when the nonce is spent already.      *)
RejectActionLate(a) ==
  /\ At(a, "examine") \/ At(a, "reread")
  /\ Return(a, "REJECTED")
  /\ UNCHANGED <<vars, nonces>>

(* The proof, the action or an obligation does not fit.  Proofs are only   *)
(* asked for on the execution path.                                        *)
RejectAction(a) ==
  /\ At(a, "examine")
  /\ \/ Return(a, "REJECTED")
     \/ attempts[a].entry = "execution" /\ Return(a, "WRONG_EXECUTOR")
  /\ UNCHANGED <<vars, nonces>>

(* Fault: a check goes through the store's Consume.                        *)
PassCheckConsuming(a) ==
  /\ At(a, "examine")
  /\ attempts[a].entry = "check"
  /\ Consume(attempts[a].permit, attempts[a].inspectedAt)
  /\ Return(a, "VALID_NOT_CONSUMED")
  /\ UNCHANGED nonces

PassCheck(a) ==
  /\ At(a, "examine")
  /\ attempts[a].entry = "check"
  /\ Return(a, "VALID_NOT_CONSUMED")
  /\ UNCHANGED <<vars, nonces>>

(* Freshness is judged by the reading the call started with.               *)
Fresh(a) ==
  LET now == attempts[a].inspectedAt
      issuedAt == attempts[a].proof.issuedAt
  IN  issuedAt <= now + ClockSkew /\ now - issuedAt <= MaxAge

(* Fault: an entry lasts as long as its proof does, without the skew.      *)
NonceExpiryWithoutSkew(proof) == proof.issuedAt + MaxAge

(* Fault: the skew is allowed for on both sides of the age.                *)
NonceExpiryPadded(proof) == proof.issuedAt + MaxAge + 2 * ClockSkew

NonceExpiry(proof) == proof.issuedAt + MaxAge + ClockSkew

Purged(now) == [n \in Nonces |-> IF nonces[n] <= now THEN NoTime ELSE nonces[n]]

(* NonceStore.Use purges by the same reading, then claims the nonce.  That *)
(* the new entry would itself have expired is tested first, but never so   *)
(* for a fresh proof.                                                      *)
UseNonce(a) ==
  LET proof == attempts[a].proof
      kept == Purged(attempts[a].inspectedAt)
  IN  /\ At(a, "examine")
      /\ attempts[a].entry = "execution"
      /\ Fresh(a)
      /\ \/ /\ kept[proof.nonce] = NoTime
            /\ nonces' = [kept EXCEPT ![proof.nonce] = NonceExpiry(proof)]
            /\ Goto(a, "reread")
         \/ /\ kept[proof.nonce] # NoTime
            /\ nonces' = kept
            /\ Return(a, "WRONG_EXECUTOR")
      /\ UNCHANGED vars

(* The clock is read again at the consume boundary.                        *)
Reread(a) ==
  /\ \/ At(a, "reread")
     \/ At(a, "examine") /\ attempts[a].entry = "simulation"
  /\ attempts' = [attempts EXCEPT ![a].pc = "consume", ![a].consumeAt = clock]
  /\ UNCHANGED <<vars, nonces>>

ConsumeInspected(a) ==
  LET p == attempts[a].permit
      outcome == ConsumeOutcome(records[p], attempts[a].consumeAt)
  IN  /\ At(a, "consume")
      /\ Consume(p, attempts[a].consumeAt)
      /\ Return(a, IF outcome = "CONSUMED" THEN "VERIFIED" ELSE outcome)
      /\ UNCHANGED nonces

(* No call is in front of the nonce store for longer than MaxStall.        *)
NotStalled ==
  \A a \in Attempts :
    At(a, "inspect") \/ At(a, "examine")
      => clock - attempts[a].inspectedAt < MaxStall

-----------------------------------------------------------------------------
AttemptStep(a) ==
  \/ RejectToken(a) \/ RejectClass(a) \/ Inspect(a)
  \/ RejectAction(a) \/ PassCheck(a) \/ UseNonce(a)
  \/ Reread(a) \/ ConsumeInspected(a)

(* What the rest of the program does to the store meanwhile.               *)
Surroundings ==
  /\ \/ \E p \in PermitIDs, c \in Claims : Register(p, c)
     \/ \E p \in PermitIDs, at \in Readings : Revoke(p, at)
     \/ \E now \in Readings : List(now)
     \/ \E k \in AuthorityKeys, enabled \in BOOLEAN, at \in Readings :
          SetAuthorityEnabled(k, enabled, at)
     \/ NotStalled /\ Tick
  /\ UNCHANGED verifierVars

VerifierNext ==
  \/ \E a \in Attempts, entry \in Entries, p \in PermitIDs,
        proof \in Proof \cup {NoProof} : Begin(a, entry, p, proof)
  \/ \E a \in Attempts : AttemptStep(a)
  \/ Surroundings

VerifierSpec == VerifierInit /\ [][VerifierNext]_allVars

-----------------------------------------------------------------------------
Verified(a) == At(a, "done") /\ attempts[a].outcome = "VERIFIED"

(* The call's proof was accepted by the nonce store.                       *)
Accepted(a) ==
  /\ ~At(a, "idle")
  /\ attempts[a].entry = "execution"
  /\ At(a, "reread") \/ attempts[a].consumeAt # NoTime

(* Every variable holds a value of its type.                               *)
VerifierTypeOK ==
  /\ TypeOK
  /\ nonces \in [Nonces -> 0..(MaxTime + MaxAge + ClockSkew) \cup {NoTime}]
  /\ attempts \in [Attempts -> Attempt \cup {Idle}]

(* However many calls race for a permit, with its token replayed, its      *)
(* authority withdrawn and the clock running, at most one is told VERIFIED *)
(* (verifier.go:130-136, store.go:126-160).                                *)
AtMostOneVerified ==
  \A a, b \in Attempts :
    Verified(a) /\ Verified(b) /\ attempts[a].permit = attempts[b].permit
      => a = b

(* VERIFIED means this very call spent the permit, by the class of permit  *)
(* its entry is for, before the permit expired, and on the execution path  *)
(* with a proof the nonce store accepted (verifier.go:279-306).            *)
VerifiedSpentIt ==
  \A a \in Attempts : Verified(a) =>
    LET r == records[attempts[a].permit]
    IN  /\ r.state = "CONSUMED"
        /\ r.consumedAt = attempts[a].consumeAt
        /\ r.consumedAt < r.claims.expiresAt
        /\ r.claims.class = ExpectedClass(attempts[a].entry)
        /\ r.claims.class = "execution" => Accepted(a)

(* No permit is spent on a call that was refused or only checked: each     *)
(* spent permit has its VERIFIED call (verifier.go:138-215).               *)
SpentForAVerifiedCall ==
  \A p \in PermitIDs : records[p].state = "CONSUMED" =>
    \E a \in Attempts : Verified(a) /\ attempts[a].permit = p

(* A nonce that was spent is not lost on a permit that could still be      *)
(* used: the call that spent it is about to consume, or has found its      *)
(* permit ended for good, whoever ended it in between and whatever the     *)
(* authority or the clock did since the call looked (verifier.go:174-194,  *)
(* 279-306).                                                               *)
NonceSpentWithPermit ==
  \A n \in Nonces : nonces[n] # NoTime =>
    \E a \in Attempts :
      /\ Accepted(a) /\ attempts[a].proof.nonce = n
      /\ At(a, "done") => records[attempts[a].permit].state \notin {"NONE", "ISSUED"}

(* One proof is accepted once: a nonce is not purged while a call that     *)
(* judged its proof fresh can still present it (registry.go:52-78).        *)
ProofAcceptedOnce ==
  \A a, b \in Attempts :
    Accepted(a) /\ Accepted(b) /\ attempts[a].proof = attempts[b].proof
      => a = b

=============================================================================
