---------------------------- MODULE VerifierProofs ----------------------------
(***************************************************************************)
(* Theorems about the verifier, for any sets of calls, nonces, permits and *)
(* authorities and any clock.  The store's part is PermitStoreProofs'; the *)
(* lemmas here say how far each call has come and what it knows by then.   *)
(***************************************************************************)
EXTENDS Verifier, PermitStoreProofs

USE DEF Time, NoTime, Readings

(* What a call knows at each of its points: its readings are past, and     *)
(* from the store's answer on, its permit is one of its class.             *)
CallInv(a) ==
  LET t == attempts[a]
  IN  /\ t.entry = "execution" => t.proof # NoProof
      /\ t.inspectedAt <= clock
      /\ t.consumeAt # NoTime => t.consumeAt <= clock
      /\ At(a, "consume") => t.consumeAt # NoTime /\ t.entry # "check"
      /\ ~At(a, "consume") /\ ~At(a, "done") => t.consumeAt = NoTime
      /\ At(a, "reread") => t.entry = "execution"
      /\ At(a, "examine") \/ At(a, "reread") \/ At(a, "consume") =>
           /\ Known(t.permit)
           /\ records[t.permit].claims.class = ExpectedClass(t.entry)

CallsInv == \A a \in Attempts : ~At(a, "idle") => CallInv(a)

VerifierInv ==
  /\ StoreInv
  /\ VerifierTypeOK
  /\ CallsInv
  /\ AtMostOneVerified
  /\ VerifiedSpentIt
  /\ SpentForAVerifiedCall

-----------------------------------------------------------------------------
(* What a call hands to the store is a time that has passed.               *)
LEMMA ReadingsArePast ==
  ASSUME TypeOK, CallsInv, NEW a \in Attempts, attempts[a] \in Attempt
  PROVE  /\ attempts[a].permit \in PermitIDs
         /\ attempts[a].inspectedAt \in Readings
         /\ attempts[a].consumeAt # NoTime => attempts[a].consumeAt \in Readings
<1>1. ~At(a, "idle")
  BY DEF Attempt, At
<1>2. /\ attempts[a].inspectedAt <= clock
      /\ attempts[a].consumeAt # NoTime => attempts[a].consumeAt <= clock
  BY <1>1 DEF CallsInv, CallInv
<1>3. /\ attempts[a].permit \in PermitIDs
      /\ attempts[a].inspectedAt \in Time
      /\ attempts[a].consumeAt \in Time \cup {NoTime}
  BY DEF Attempt
<1>4. clock \in Int
  BY PermitStoreAssumption DEF TypeOK
<1> QED
  BY <1>2, <1>3, <1>4, PermitStoreAssumption

(* A step of the verifier is a step of the store, or leaves it alone       *)
(* (verifier.go:138-370).                                                  *)
LEMMA VerifierStepIsStoreStep ==
  ASSUME TypeOK, VerifierTypeOK, CallsInv, [VerifierNext]_allVars
  PROVE  [Next]_vars
<1>1. ASSUME NEW a \in Attempts, Inspect(a)
      PROVE  [Next]_vars
  <2> DEFINE p == attempts[a].permit
             now == attempts[a].inspectedAt
  <2>1. At(a, "inspect") /\ ~At(a, "idle")
    BY <1>1 DEF Inspect, At
  <2>2. attempts[a] \in Attempt
    BY <2>1 DEF VerifierTypeOK, At, Idle
  <2>3. p \in PermitIDs /\ now \in Readings
    BY <2>1, <2>2, ReadingsArePast
  <2>4. records' = [records EXCEPT ![p] = ExpireIfNeeded(@, now)]
        /\ UNCHANGED <<authorities, clock>>
    BY <1>1 DEF Inspect
  <2>5. CASE Known(p)
    <3>1. Get(p, now)
      BY <2>4, <2>5 DEF Get
    <3> QED
      BY <2>3, <3>1 DEF Next
  <2>6. CASE ~Known(p)
    <3>1. ExpireIfNeeded(records[p], now) = records[p]
      BY <2>6, NoRecordFacts DEF Known, ExpireIfNeeded
    <3>2. records' = records
      BY <2>3, <2>4, <3>1 DEF TypeOK
    <3> QED
      BY <2>4, <3>2 DEF vars
  <2> QED
    BY <2>5, <2>6
<1>2. ASSUME NEW a \in Attempts, ConsumeInspected(a)
      PROVE  [Next]_vars
  <2>1. At(a, "consume") /\ ~At(a, "idle")
    BY <1>2 DEF ConsumeInspected, At
  <2>2. attempts[a] \in Attempt
    BY <2>1 DEF VerifierTypeOK, At, Idle
  <2>3. attempts[a].consumeAt # NoTime
    BY <2>1 DEF CallsInv, CallInv
  <2>4. attempts[a].consumeAt \in Readings /\ attempts[a].permit \in PermitIDs
    BY <2>1, <2>2, <2>3, ReadingsArePast
  <2> QED
    BY <1>2, <2>4 DEF ConsumeInspected, Next
<1>3. Surroundings => [Next]_vars
  BY DEF Surroundings, Next
<1>4. ASSUME UNCHANGED vars PROVE [Next]_vars
  BY <1>4
<1> QED
  BY <1>1, <1>2, <1>3, <1>4
     DEF VerifierNext, AttemptStep, Begin, RejectToken, RejectClass, RejectAction,
         PassCheck, UseNonce, Reread, allVars

-----------------------------------------------------------------------------
(* What the moves of a call do to its local state.                         *)
Typed == attempts \in [Attempts -> Attempt \cup {Idle}]

LEMMA Begun ==
  ASSUME VerifierTypeOK, NEW a \in Attempts, ~At(a, "idle")
  PROVE  attempts[a] \in Attempt
  BY DEF VerifierTypeOK, At, Idle

LEMMA GotoFacts ==
  ASSUME Typed, NEW a \in Attempts, attempts[a] \in Attempt,
         NEW pc \in {"inspect", "examine", "reread", "consume", "done"}, Goto(a, pc)
  PROVE  /\ Typed'
         /\ attempts'[a] = [attempts[a] EXCEPT !.pc = pc]
         /\ \A b \in Attempts \ {a} : attempts'[b] = attempts[b]
<1>1. [attempts[a] EXCEPT !.pc = pc] \in Attempt
  BY DEF Attempt
<1> QED
  BY <1>1 DEF Typed, Goto

LEMMA ReturnFacts ==
  ASSUME Typed, NEW a \in Attempts, attempts[a] \in Attempt,
         NEW o \in Outcomes, Return(a, o)
  PROVE  /\ Typed'
         /\ attempts'[a] = [attempts[a] EXCEPT !.pc = "done", !.outcome = o]
         /\ \A b \in Attempts \ {a} : attempts'[b] = attempts[b]
<1>1. [attempts[a] EXCEPT !.pc = "done", !.outcome = o] \in Attempt
  BY DEF Attempt
<1>2. attempts' = [attempts EXCEPT ![a] = [attempts[a] EXCEPT !.pc = "done", !.outcome = o]]
  BY DEF Return
<1> QED
  BY <1>1, <1>2 DEF Typed

LEMMA RereadFacts ==
  ASSUME Typed, clock \in Time, NEW a \in Attempts, attempts[a] \in Attempt, Reread(a)
  PROVE  /\ Typed'
         /\ attempts'[a] = [attempts[a] EXCEPT !.pc = "consume", !.consumeAt = clock]
         /\ \A b \in Attempts \ {a} : attempts'[b] = attempts[b]
<1>1. [attempts[a] EXCEPT !.pc = "consume", !.consumeAt = clock] \in Attempt
  BY DEF Attempt
<1>2. attempts' = [attempts EXCEPT ![a] =
                     [attempts[a] EXCEPT !.pc = "consume", !.consumeAt = clock]]
  BY DEF Reread
<1> QED
  BY <1>1, <1>2 DEF Typed

LEMMA BeginFacts ==
  ASSUME Typed, clock \in Time, NEW a \in Attempts, NEW entry \in Entries,
         NEW p \in PermitIDs, NEW proof \in Proof \cup {NoProof},
         Begin(a, entry, p, proof)
  PROVE  /\ Typed'
         /\ attempts'[a] = [pc |-> "inspect", entry |-> entry, permit |-> p,
                            proof |-> proof, inspectedAt |-> clock,
                            consumeAt |-> NoTime, outcome |-> "none"]
         /\ attempts'[a] \in Attempt
         /\ \A b \in Attempts \ {a} : attempts'[b] = attempts[b]
<1> DEFINE new == [pc |-> "inspect", entry |-> entry, permit |-> p,
                   proof |-> proof, inspectedAt |-> clock,
                   consumeAt |-> NoTime, outcome |-> "none"]
<1>1. new \in Attempt
  BY DEF Attempt
<1>2. attempts' = [attempts EXCEPT ![a] = new]
  BY DEF Begin
<1> HIDE DEF new
<1>3. attempts'[a] = new /\ Typed' /\ \A b \in Attempts \ {a} : attempts'[b] = attempts[b]
  BY <1>1, <1>2 DEF Typed
<1> QED
  BY <1>1, <1>3 DEF new

(* Every way a call ends, with the outcomes it may end with.               *)
Ends(a) == \E o \in Outcomes : Return(a, o)

LEMMA ConsumeOutcomes ==
  ASSUME NEW r \in Record, NEW now
  PROVE  /\ ConsumeOutcome(r, now) \in {"CONSUMED", "EXPIRED", "REPLAYED", "REVOKED"}
         /\ ConsumeOutcome(r, now) = "CONSUMED" =>
              r.state = "ISSUED" /\ Consumed(r, now) = [r EXCEPT !.state = "CONSUMED",
                                                                 !.consumedAt = now]
<1>1. CASE r.state = "CONSUMED"
  BY <1>1 DEF ConsumeOutcome
<1>2. CASE r.state # "CONSUMED"
  <2>1. ConsumeOutcome(r, now) = Consumed(r, now).state
    BY <1>2 DEF ConsumeOutcome, Record, States
  <2>2. ExpireIfNeeded(r, now) = r \/ ExpireIfNeeded(r, now).state = "EXPIRED"
    BY DEF ExpireIfNeeded, Record
  <2>3. CASE ExpireIfNeeded(r, now).state # "ISSUED"
    BY <1>2, <2>1, <2>2, <2>3 DEF Consumed, Record, States
  <2>4. CASE ExpireIfNeeded(r, now).state = "ISSUED"
    <3>1. \/ Consumed(r, now) = [r EXCEPT !.state = "REVOKED", !.revokedAt = now]
          \/ Consumed(r, now) = [r EXCEPT !.state = "CONSUMED", !.consumedAt = now]
      BY <2>2, <2>4 DEF Consumed
    <3> QED
      BY <2>1, <2>2, <2>4, <3>1 DEF Record
  <2> QED
    BY <2>3, <2>4
<1> QED
  BY <1>1, <1>2

-----------------------------------------------------------------------------
(* A record that is known stays known, with its claims; a spent one stays  *)
(* as it is; and the clock does not go back.                               *)
LEMMA StoreMovesOn ==
  ASSUME TypeOK, [Next]_vars
  PROVE  /\ clock \in Time /\ clock' \in Int /\ clock <= clock'
         /\ \A p \in PermitIDs : Known(p) =>
              /\ Known(p)'
              /\ records'[p].claims = records[p].claims
              /\ records[p].state # "ISSUED" => records'[p] = records[p]
<1>1. clock' = clock \/ Tick
  BY DEF Next, Register, Get, List, Consume, Revoke, SetAuthorityEnabled, vars
<1>2. clock \in Time /\ clock' \in Int /\ clock <= clock'
  BY <1>1, PermitStoreAssumption DEF TypeOK, Tick
<1>3. ASSUME NEW p \in PermitIDs, Known(p)
      PROVE  /\ Known(p)'
             /\ records'[p].claims = records[p].claims
             /\ records[p].state # "ISSUED" => records'[p] = records[p]
  <2>1. EndsOrStays(records[p], records'[p])
    BY <1>3, StepFares DEF Fares
  <2> QED
    BY <2>1, NoRecordFacts DEF EndsOrStays, Known
<1> QED
  BY <1>2, <1>3

LEMMA CallStays ==
  ASSUME TypeOK, [Next]_vars, NEW b \in Attempts, attempts[b] \in Attempt,
         CallInv(b), attempts'[b] = attempts[b]
  PROVE  CallInv(b)'
<1>1. /\ attempts[b].permit \in PermitIDs
      /\ attempts[b].inspectedAt \in Int
      /\ attempts[b].consumeAt \in Int
  BY PermitStoreAssumption DEF Attempt
<1>2. /\ attempts[b].inspectedAt <= clock'
      /\ attempts[b].consumeAt # NoTime => attempts[b].consumeAt <= clock'
  BY <1>1, StoreMovesOn, PermitStoreAssumption DEF CallInv
<1>3. Known(attempts[b].permit) =>
        /\ Known(attempts[b].permit)'
        /\ records'[attempts[b].permit].claims = records[attempts[b].permit].claims
  BY <1>1, StoreMovesOn
<1>4. Known(attempts[b].permit)' <=> records'[attempts'[b].permit] # NoRecord
  BY DEF Known
<1> QED
  BY <1>2, <1>3, <1>4 DEF CallInv, At, Known

(* A record found in another state than ISSUED refuses the call.           *)
LEMMA InspectOutcome ==
  ASSUME TypeOK, NEW p \in PermitIDs, NEW t \in Int,
         ExpireIfNeeded(records[p], t).state # "ISSUED"
  PROVE  OutcomeOf(ExpireIfNeeded(records[p], t).state) \in Outcomes \ {"VERIFIED"}
<1> DEFINE s == ExpireIfNeeded(records[p], t).state
<1>1. s \in {"NONE", "CONSUMED", "EXPIRED", "REVOKED"}
  <2>1. CASE Known(p)
    BY <2>1, KnownIsRecord, ExpireFacts DEF Record, States
  <2>2. CASE ~Known(p)
    BY <2>2, NoRecordFacts DEF Known, ExpireIfNeeded
  <2> QED
    BY <2>1, <2>2
<1> QED
  BY <1>1 DEF OutcomeOf, Outcomes

(* Every step of a call leaves it typed and knowing what it should, and    *)
(* the other calls where they were (verifier.go:138-370).                  *)
LEMMA AttemptStepFacts ==
  ASSUME TypeOK, VerifierTypeOK, CallsInv, [Next]_vars,
         NEW a \in Attempts, AttemptStep(a)
  PROVE  /\ Typed'
         /\ attempts'[a] \in Attempt /\ CallInv(a)'
         /\ \A b \in Attempts \ {a} : attempts'[b] = attempts[b]
<1>1. ~At(a, "idle")
  BY DEF AttemptStep, RejectToken, RejectClass, Inspect, RejectAction, PassCheck,
         UseNonce, Reread, ConsumeInspected, At
<1>2. attempts[a] \in Attempt /\ CallInv(a) /\ Typed
  BY <1>1, Begun DEF CallsInv, VerifierTypeOK, Typed
<1>2a. attempts[a].entry = "execution" => attempts[a].proof # NoProof
  BY <1>2 DEF CallInv
<1>3. /\ attempts[a].permit \in PermitIDs
      /\ attempts[a].inspectedAt \in Int
      /\ attempts[a].consumeAt \in Int
  BY <1>2, PermitStoreAssumption DEF Attempt
<1>4. /\ attempts[a].inspectedAt <= clock'
      /\ attempts[a].consumeAt # NoTime => attempts[a].consumeAt <= clock'
  BY <1>2, <1>3, StoreMovesOn, PermitStoreAssumption DEF CallInv
<1>4a. Known(attempts[a].permit) =>
        /\ records'[attempts[a].permit] # NoRecord
        /\ records'[attempts[a].permit].claims = records[attempts[a].permit].claims
  <2>1. ASSUME NEW p \in PermitIDs, Known(p)
        PROVE  records'[p] # NoRecord /\ records'[p].claims = records[p].claims
    BY <2>1, StoreMovesOn DEF Known
  <2> QED
    BY <1>3, <2>1
<1>5. ASSUME Ends(a)
      PROVE  /\ Typed'
             /\ attempts'[a] \in Attempt /\ CallInv(a)'
             /\ \A b \in Attempts \ {a} : attempts'[b] = attempts[b]
  <2>1. PICK o \in Outcomes : Return(a, o)
    BY <1>5 DEF Ends
  <2>2. /\ Typed'
        /\ attempts'[a] = [attempts[a] EXCEPT !.pc = "done", !.outcome = o]
        /\ \A b \in Attempts \ {a} : attempts'[b] = attempts[b]
    BY <1>2, <2>1, ReturnFacts
  <2>3. attempts'[a] \in Attempt
    BY <1>2, <2>2 DEF Attempt
  <2>4. /\ attempts'[a].pc = "done"
        /\ attempts'[a].entry = attempts[a].entry
        /\ attempts'[a].proof = attempts[a].proof
        /\ attempts'[a].inspectedAt = attempts[a].inspectedAt
        /\ attempts'[a].consumeAt = attempts[a].consumeAt
    BY <1>2, <2>2 DEF Attempt
  <2>5. CallInv(a)'
    BY <1>4, <1>2a, <2>4 DEF CallInv, At
  <2> QED
    BY <2>2, <2>3, <2>5
<1>6. ASSUME RejectToken(a) \/ RejectClass(a) \/ RejectAction(a) \/ PassCheck(a)
      PROVE  Ends(a)
  BY <1>6 DEF RejectToken, RejectClass, RejectAction, PassCheck, Ends, Outcomes
<1>7. ASSUME NEW pc \in {"examine", "reread"}, Goto(a, pc),
             attempts[a].consumeAt = NoTime,
             pc = "reread" => attempts[a].entry = "execution",
             records'[attempts[a].permit] # NoRecord,
             records'[attempts[a].permit].claims.class = ExpectedClass(attempts[a].entry)
      PROVE  /\ Typed'
             /\ attempts'[a] \in Attempt /\ CallInv(a)'
             /\ \A b \in Attempts \ {a} : attempts'[b] = attempts[b]
  <2>1. /\ Typed'
        /\ attempts'[a] = [attempts[a] EXCEPT !.pc = pc]
        /\ \A b \in Attempts \ {a} : attempts'[b] = attempts[b]
    BY <1>2, <1>7, GotoFacts
  <2>2. attempts'[a] \in Attempt
    BY <1>2, <2>1 DEF Attempt
  <2>3. /\ attempts'[a].pc = pc
        /\ attempts'[a].entry = attempts[a].entry
        /\ attempts'[a].permit = attempts[a].permit
        /\ attempts'[a].proof = attempts[a].proof
        /\ attempts'[a].inspectedAt = attempts[a].inspectedAt
        /\ attempts'[a].consumeAt = attempts[a].consumeAt
    BY <1>2, <2>1 DEF Attempt
  <2>4. CallInv(a)'
    BY <1>4, <1>7, <1>2a, <2>3 DEF CallInv, At, Known
  <2> QED
    BY <2>1, <2>2, <2>4
<1>8. CASE Inspect(a)
  <2> DEFINE p == attempts[a].permit
             found == ExpireIfNeeded(records[p], attempts[a].inspectedAt)
  <2>1. records'[p] = found
    BY <1>3, <1>8 DEF Inspect, TypeOK
  <2>2. CASE found.state = "ISSUED"
    <3>1. records[p].state = "ISSUED" /\ found = records[p]
      BY <2>2 DEF ExpireIfNeeded, Known
    <3>2. Known(p)
      BY <3>1, NoRecordFacts DEF Known
    <3>3. records'[p] # NoRecord /\ records'[p].claims.class = ExpectedClass(attempts[a].entry)
      BY <1>4a, <1>8, <3>2 DEF Inspect, TokenClasses
    <3>4. attempts[a].consumeAt = NoTime
      BY <1>2, <1>8 DEF Inspect, CallInv, At
    <3> QED
      BY <1>7, <1>8, <2>2, <3>3, <3>4 DEF Inspect
  <2>3. CASE found.state # "ISSUED"
    <3>1. OutcomeOf(found.state) \in Outcomes
      BY <1>3, <2>3, InspectOutcome
    <3>2. Ends(a)
      BY <1>8, <2>3, <3>1 DEF Inspect, Ends
    <3> QED
      BY <1>5, <3>2
  <2> QED
    BY <2>2, <2>3
<1>9. CASE UseNonce(a)
  <2>1. CASE Goto(a, "reread")
    <3>1. /\ Known(attempts[a].permit)
          /\ records[attempts[a].permit].claims.class = ExpectedClass(attempts[a].entry)
          /\ attempts[a].consumeAt = NoTime
          /\ attempts[a].entry = "execution"
      BY <1>2, <1>9 DEF UseNonce, CallInv, At
    <3>2. /\ records'[attempts[a].permit] # NoRecord
          /\ records'[attempts[a].permit].claims.class = ExpectedClass(attempts[a].entry)
      BY <1>4a, <3>1
    <3> QED
      BY <1>7, <2>1, <3>1, <3>2
  <2>2. CASE Return(a, "WRONG_EXECUTOR")
    <3>1. Ends(a)
      BY <2>2 DEF Ends, Outcomes
    <3> QED
      BY <1>5, <3>1
  <2> QED
    BY <1>9, <2>1, <2>2 DEF UseNonce
<1>10. CASE Reread(a)
  <2>1. /\ Typed'
        /\ attempts'[a] = [attempts[a] EXCEPT !.pc = "consume", !.consumeAt = clock]
        /\ \A b \in Attempts \ {a} : attempts'[b] = attempts[b]
    BY <1>2, <1>10, RereadFacts DEF TypeOK
  <2>2. attempts'[a] \in Attempt
    BY <1>2, <2>1 DEF Attempt, TypeOK
  <2>3. /\ attempts'[a].pc = "consume"
        /\ attempts'[a].entry = attempts[a].entry
        /\ attempts'[a].permit = attempts[a].permit
        /\ attempts'[a].proof = attempts[a].proof
        /\ attempts'[a].inspectedAt = attempts[a].inspectedAt
        /\ attempts'[a].consumeAt = clock
    BY <1>2, <2>1 DEF Attempt
  <2>4. /\ Known(attempts[a].permit)
        /\ records[attempts[a].permit].claims.class = ExpectedClass(attempts[a].entry)
        /\ attempts[a].entry # "check"
    BY <1>2, <1>10 DEF Reread, CallInv, At
  <2>5. /\ records'[attempts[a].permit] # NoRecord
        /\ records'[attempts[a].permit].claims.class = ExpectedClass(attempts[a].entry)
    BY <1>4a, <2>4
  <2>6. clock # NoTime /\ clock <= clock'
    BY StoreMovesOn, PermitStoreAssumption
  <2>7. CallInv(a)'
    BY <1>4, <1>2a, <2>3, <2>4, <2>5, <2>6 DEF CallInv, At, Known
  <2> QED
    BY <2>1, <2>2, <2>7
<1>11. CASE ConsumeInspected(a)
  <2>1. records[attempts[a].permit] \in Record
    BY <1>2, <1>3, <1>11, KnownIsRecord DEF ConsumeInspected, CallInv
  <2>2. Ends(a)
    BY <1>11, <2>1, ConsumeOutcomes DEF ConsumeInspected, Ends, Outcomes
  <2> QED
    BY <1>5, <2>2
<1> QED
  BY <1>5, <1>6, <1>8, <1>9, <1>10, <1>11 DEF AttemptStep

-----------------------------------------------------------------------------
(* A call is told VERIFIED by the store's Consume and by nothing else, and *)
(* then the record carries its stamp (verifier.go:279-306).                *)
LEMMA VerifiedByConsume ==
  ASSUME TypeOK, VerifierTypeOK, CallsInv, StoreInv',
         NEW a \in Attempts, AttemptStep(a), Verified(a)'
  PROVE  /\ ConsumeInspected(a)
         /\ records[attempts[a].permit].state = "ISSUED"
         /\ records'[attempts[a].permit].state = "CONSUMED"
         /\ records'[attempts[a].permit].consumedAt = attempts'[a].consumeAt
         /\ attempts'[a].permit = attempts[a].permit
         /\ attempts'[a].entry = attempts[a].entry
         /\ attempts'[a].consumeAt = attempts[a].consumeAt
<1>1. ~At(a, "idle")
  BY DEF AttemptStep, RejectToken, RejectClass, Inspect, RejectAction, PassCheck,
         UseNonce, Reread, ConsumeInspected, At
<1>2. attempts[a] \in Attempt /\ CallInv(a) /\ Typed
  BY <1>1, Begun DEF CallsInv, VerifierTypeOK, Typed
<1>3. ASSUME NEW o \in Outcomes \ {"VERIFIED"}, Return(a, o)
      PROVE  FALSE
  <2>1. attempts'[a] = [attempts[a] EXCEPT !.pc = "done", !.outcome = o]
    BY <1>2, <1>3, ReturnFacts
  <2> QED
    BY <1>2, <2>1 DEF Verified, Attempt
<1>4. ASSUME NEW pc \in {"examine", "reread"}, Goto(a, pc)
      PROVE  FALSE
  <2>1. attempts'[a] = [attempts[a] EXCEPT !.pc = pc]
    BY <1>2, <1>4, GotoFacts
  <2> QED
    BY <1>2, <2>1 DEF Verified, At, Attempt
<1>5. ASSUME RejectToken(a) \/ RejectClass(a) \/ RejectAction(a) \/ PassCheck(a)
      PROVE  FALSE
  BY <1>3, <1>5 DEF RejectToken, RejectClass, RejectAction, PassCheck, Outcomes
<1>6. ASSUME Inspect(a)
      PROVE  FALSE
  <2> DEFINE s == ExpireIfNeeded(records[attempts[a].permit], attempts[a].inspectedAt).state
  <2>1. CASE s = "ISSUED"
    BY <1>4, <1>6, <2>1 DEF Inspect
  <2>2. CASE s # "ISSUED"
    <3>1. attempts[a].permit \in PermitIDs /\ attempts[a].inspectedAt \in Int
      BY <1>2, PermitStoreAssumption DEF Attempt
    <3>2. OutcomeOf(s) \in Outcomes \ {"VERIFIED"}
      BY <2>2, <3>1, InspectOutcome
    <3> QED
      BY <1>3, <1>6, <2>2, <3>2 DEF Inspect
  <2> QED
    BY <2>1, <2>2
<1>7. ASSUME UseNonce(a)
      PROVE  FALSE
  BY <1>3, <1>4, <1>7 DEF UseNonce, Outcomes
<1>8. ASSUME Reread(a)
      PROVE  FALSE
  <2>1. attempts'[a] = [attempts[a] EXCEPT !.pc = "consume", !.consumeAt = clock]
    BY <1>2, <1>8, RereadFacts DEF TypeOK
  <2> QED
    BY <1>2, <2>1 DEF Verified, At, Attempt
<1>9. ConsumeInspected(a)
  BY <1>5, <1>6, <1>7, <1>8 DEF AttemptStep
<1>10. attempts[a].permit \in PermitIDs /\ records[attempts[a].permit] \in Record
  BY <1>2, <1>9, KnownIsRecord DEF ConsumeInspected, CallInv, Attempt
<1>11. ConsumeOutcome(records[attempts[a].permit], attempts[a].consumeAt) = "CONSUMED"
  BY <1>3, <1>9, <1>10, ConsumeOutcomes DEF ConsumeInspected, Outcomes
<1>12. Return(a, "VERIFIED")
  BY <1>9, <1>11 DEF ConsumeInspected
<1>13. attempts'[a] = [attempts[a] EXCEPT !.pc = "done", !.outcome = "VERIFIED"]
  BY <1>2, <1>12, ReturnFacts DEF Outcomes
<1>14. records[attempts[a].permit].state = "ISSUED" /\ records'[attempts[a].permit] =
         [records[attempts[a].permit] EXCEPT !.state = "CONSUMED",
                                             !.consumedAt = attempts[a].consumeAt]
  BY <1>9, <1>10, <1>11, ConsumeOutcomes DEF ConsumeInspected, Consume, TypeOK
<1> QED
  BY <1>2, <1>9, <1>10, <1>13, <1>14 DEF Attempt, Record

(* A permit is spent by the last step of a call that is then VERIFIED, and *)
(* by no other step of the program (verifier.go:130-136).                  *)
LEMMA SpentByVerified ==
  ASSUME TypeOK, VerifierTypeOK, CallsInv, VerifierNext,
         NEW p \in PermitIDs,
         records[p].state # "CONSUMED", records'[p].state = "CONSUMED"
  PROVE  \E a \in Attempts : Verified(a)' /\ attempts'[a].permit = p
<1>0. \A t \in Readings : t \in Time /\ t \in Int
  BY PermitStoreAssumption DEF TypeOK
<1>1. records'[p] # records[p]
  OBVIOUS
<1>2. ASSUME NEW a \in Attempts, ConsumeInspected(a)
      PROVE  Verified(a)' /\ attempts'[a].permit = p
  <2>1. attempts[a] \in Attempt /\ CallInv(a) /\ Typed
    BY <1>2, Begun DEF ConsumeInspected, CallsInv, VerifierTypeOK, Typed, At
  <2>2. attempts[a].permit = p
    BY <1>1, <1>2 DEF ConsumeInspected, Consume, TypeOK
  <2>3. ConsumeOutcome(records[p], attempts[a].consumeAt) = "CONSUMED"
    <3>1. records[p] \in Record
      BY <1>2, <2>2, KnownIsRecord DEF ConsumeInspected, Consume
    <3>2. records'[p] = Consumed(records[p], attempts[a].consumeAt)
      BY <1>2, <2>2 DEF ConsumeInspected, Consume, TypeOK
    <3> QED
      BY <3>1, <3>2 DEF ConsumeOutcome, Record, States
  <2>4. Return(a, "VERIFIED")
    BY <1>2, <2>2, <2>3 DEF ConsumeInspected
  <2>5. attempts'[a] = [attempts[a] EXCEPT !.pc = "done", !.outcome = "VERIFIED"]
    BY <2>1, <2>4, ReturnFacts DEF Outcomes
  <2> QED
    BY <2>1, <2>2, <2>5 DEF Verified, At, Attempt
<1>3. ASSUME NEW q \in PermitIDs, NEW t \in Int,
             records' = [records EXCEPT ![q] = ExpireIfNeeded(@, t)]
      PROVE  FALSE
  <2>1. records'[p] = ExpireIfNeeded(records[p], t)
    BY <1>1, <1>3 DEF TypeOK
  <2> QED
    BY <1>1, <2>1, KnownIsRecord, ExpireFacts, NoRecordFacts DEF ExpireIfNeeded, Known
<1>4. ASSUME NEW a \in Attempts, Inspect(a)
      PROVE  FALSE
  <2>1. attempts[a] \in Attempt
    BY <1>4, Begun DEF Inspect, At
  <2>2. attempts[a].permit \in PermitIDs /\ attempts[a].inspectedAt \in Int
    BY <2>1, PermitStoreAssumption DEF Attempt
  <2> QED
    BY <1>3, <1>4, <2>2 DEF Inspect
<1>5. ASSUME NEW q \in PermitIDs, NEW c \in Claims, Register(q, c)
      PROVE  FALSE
  BY <1>1, <1>5 DEF Register, TypeOK
<1>6. ASSUME NEW q \in PermitIDs, NEW at \in Readings, Revoke(q, at)
      PROVE  FALSE
  <2>1. records'[p] = Revoked(records[p], at)
    BY <1>1, <1>6 DEF Revoke, TypeOK
  <2>2. Known(p)
    BY <1>1, <1>6 DEF Revoke, TypeOK
  <2> QED
    BY <1>0, <2>1, <2>2, KnownIsRecord, OnlyConsumeConsumes
<1>7. ASSUME NEW now \in Readings, List(now)
      PROVE  FALSE
  <2>1. records'[p] = ExpireIfNeeded(records[p], now)
    BY <1>7 DEF List
  <2> QED
    BY <1>0, <1>1, <2>1, KnownIsRecord, ExpireFacts, NoRecordFacts DEF ExpireIfNeeded, Known
<1>8. ASSUME NEW k \in AuthorityKeys, NEW enabled \in BOOLEAN, NEW at \in Readings,
             SetAuthorityEnabled(k, enabled, at)
      PROVE  FALSE
  <2>1. UnderKey(records[p], k)
    BY <1>1, <1>8 DEF SetAuthorityEnabled
  <2>2. records[p] \in Record
    BY <2>1, KnownIsRecord, NoRecordFacts DEF UnderKey, Known
  <2> QED
    BY <1>8, <2>1, <2>2 DEF SetAuthorityEnabled, Record
<1>9. \E a \in Attempts : ConsumeInspected(a)
  BY <1>1, <1>4, <1>5, <1>6, <1>7, <1>8
     DEF VerifierNext, AttemptStep, Begin, RejectToken, RejectClass, RejectAction,
         PassCheck, UseNonce, Reread, Surroundings, Tick, vars, storeVars
<1> QED
  BY <1>2, <1>9

-----------------------------------------------------------------------------
LEMMA VerifierInitEstablishes == VerifierInit => VerifierInv
<1> SUFFICES ASSUME VerifierInit PROVE VerifierInv
  OBVIOUS
<1>1. StoreInv
  BY InitEstablishes DEF VerifierInit
<1>2. \A a \in Attempts : attempts[a] = Idle /\ attempts[a].pc = "idle"
  BY DEF VerifierInit, Idle
<1>3. \A p \in PermitIDs : records[p].state = "NONE"
  BY NoRecordFacts DEF VerifierInit, Init
<1>4. VerifierTypeOK
  BY <1>1 DEF StoreInv, VerifierTypeOK, VerifierInit
<1>5. CallsInv /\ VerifiedSpentIt /\ AtMostOneVerified
  BY <1>2 DEF CallsInv, VerifiedSpentIt, AtMostOneVerified, Verified, At
<1>6. SpentForAVerifiedCall
  BY <1>3 DEF SpentForAVerifiedCall
<1> QED
  BY <1>1, <1>4, <1>5, <1>6 DEF VerifierInv

LEMMA NoncesTyped ==
  ASSUME VerifierTypeOK, CallsInv, [VerifierNext]_allVars
  PROVE  nonces' \in [Nonces -> 0..(MaxTime + MaxAge + ClockSkew) \cup {NoTime}]
<1>1. CASE nonces' = nonces
  BY <1>1 DEF VerifierTypeOK
<1>2. ASSUME NEW a \in Attempts, UseNonce(a)
      PROVE  nonces' \in [Nonces -> 0..(MaxTime + MaxAge + ClockSkew) \cup {NoTime}]
  <2> DEFINE T == 0..(MaxTime + MaxAge + ClockSkew) \cup {NoTime}
             kept == Purged(attempts[a].inspectedAt)
             proof == attempts[a].proof
  <2>1. kept \in [Nonces -> T]
    BY DEF VerifierTypeOK, Purged
  <2>2. CASE nonces' = kept
    BY <2>1, <2>2
  <2>3. CASE nonces' = [kept EXCEPT ![proof.nonce] = NonceExpiry(proof)]
    <3>1. attempts[a] \in Attempt /\ ~At(a, "idle") /\ attempts[a].entry = "execution"
      BY <1>2, Begun DEF UseNonce, At
    <3>2. proof \in Proof
      <4>1. attempts[a].proof # NoProof
        BY <3>1 DEF CallsInv, CallInv
      <4>2. attempts[a].proof \in Proof \cup {NoProof}
        BY <3>1 DEF Attempt
      <4> QED
        BY <4>1, <4>2
    <3>3. NonceExpiry(proof) \in T
      <4>1. proof.issuedAt \in 0..MaxTime
        BY <3>2 DEF Proof
      <4> QED
        BY <4>1, PermitStoreAssumption, VerifierAssumption DEF NonceExpiry
    <3> QED
      BY <2>1, <2>3, <3>3
  <2> QED
    BY <1>2, <2>2, <2>3 DEF UseNonce
<1> QED
  BY <1>1, <1>2
     DEF VerifierNext, AttemptStep, Begin, RejectToken, RejectClass, Inspect,
         RejectAction, PassCheck, Reread, ConsumeInspected, Surroundings,
         verifierVars, allVars


(* Whoever takes the step, the calls stay typed and knowing what they      *)
(* should, and a call is told VERIFIED by a step of its own, for good.     *)
CallsMoveOn ==
  /\ Typed' /\ CallsInv'
  /\ \A b \in Attempts : Verified(b) => attempts'[b] = attempts[b]
  /\ \A b \in Attempts : Verified(b)' => Verified(b) \/ AttemptStep(b)

LEMMA OneCallMoves ==
  ASSUME TypeOK, VerifierTypeOK, CallsInv, [Next]_vars,
         NEW a \in Attempts, ~Verified(a),
         Typed', attempts'[a] \in Attempt, CallInv(a)',
         \A b \in Attempts \ {a} : attempts'[b] = attempts[b],
         Verified(a)' => AttemptStep(a)
  PROVE  CallsMoveOn
<1>1. ASSUME NEW b \in Attempts, ~At(b, "idle")' PROVE CallInv(b)'
  <2>1. CASE b = a
    BY <2>1
  <2>2. CASE b # a
    <3>1. attempts'[b] = attempts[b]
      BY <2>2
    <3>2. ~At(b, "idle")
      BY <1>1, <3>1 DEF At
    <3>3. attempts[b] \in Attempt /\ CallInv(b)
      BY <3>2, Begun DEF CallsInv
    <3> QED
      BY <3>1, <3>3, CallStays
  <2> QED
    BY <2>1, <2>2
<1>2. CallsInv'
  BY <1>1 DEF CallsInv
<1>3. \A b \in Attempts : Verified(b) => attempts'[b] = attempts[b]
  OBVIOUS
<1>4. \A b \in Attempts : Verified(b)' => Verified(b) \/ AttemptStep(b)
  BY DEF Verified, At
<1> QED
  BY <1>2, <1>3, <1>4 DEF CallsMoveOn

LEMMA AllCallsMoveOn ==
  ASSUME TypeOK, VerifierTypeOK, CallsInv, [Next]_vars, [VerifierNext]_allVars
  PROVE  CallsMoveOn
<1>1. Typed
  BY DEF VerifierTypeOK, Typed
<1>2. CASE \E a \in Attempts : AttemptStep(a)
  <2> PICK a \in Attempts : AttemptStep(a)
    BY <1>2
  <2>1. /\ Typed'
        /\ attempts'[a] \in Attempt /\ CallInv(a)'
        /\ \A b \in Attempts \ {a} : attempts'[b] = attempts[b]
    BY AttemptStepFacts
  <2>2. ~Verified(a)
    BY DEF AttemptStep, RejectToken, RejectClass, Inspect, RejectAction, PassCheck,
           UseNonce, Reread, ConsumeInspected, At, Verified
  <2> QED
    BY <2>1, <2>2, OneCallMoves
<1>3. CASE \E a \in Attempts, entry \in Entries, p \in PermitIDs,
              proof \in Proof \cup {NoProof} : Begin(a, entry, p, proof)
  <2> PICK a \in Attempts, entry \in Entries, p \in PermitIDs,
           proof \in Proof \cup {NoProof} : Begin(a, entry, p, proof)
    BY <1>3
  <2>1. /\ Typed'
        /\ attempts'[a] = [pc |-> "inspect", entry |-> entry, permit |-> p,
                           proof |-> proof, inspectedAt |-> clock,
                           consumeAt |-> NoTime, outcome |-> "none"]
        /\ attempts'[a] \in Attempt
        /\ \A b \in Attempts \ {a} : attempts'[b] = attempts[b]
    BY <1>1, BeginFacts DEF TypeOK
  <2>2. ~Verified(a) /\ ~Verified(a)'
    BY <2>1 DEF Begin, At, Verified
  <2>3. clock' = clock /\ clock \in Int /\ (proof = NoProof <=> entry # "execution")
    BY PermitStoreAssumption DEF Begin, vars, TypeOK
  <2>4. CallInv(a)'
    BY <2>1, <2>3 DEF CallInv, At
  <2> QED
    BY <2>1, <2>2, <2>4, OneCallMoves
<1>4. CASE UNCHANGED attempts
  <2>1. ASSUME NEW b \in Attempts, ~At(b, "idle")' PROVE CallInv(b)'
    <3>1. ~At(b, "idle") /\ attempts'[b] = attempts[b]
      BY <1>4, <2>1 DEF At
    <3>2. attempts[b] \in Attempt /\ CallInv(b)
      BY <3>1, Begun DEF CallsInv
    <3> QED
      BY <3>1, <3>2, CallStays
  <2> QED
    BY <1>1, <1>4, <2>1 DEF CallsMoveOn, CallsInv, Typed, Verified, At
<1> QED
  BY <1>2, <1>3, <1>4 DEF VerifierNext, Surroundings, verifierVars, allVars

LEMMA VerifierNextPreserves ==
  ASSUME VerifierInv, [VerifierNext]_allVars
  PROVE  VerifierInv'
<1>0. TypeOK /\ VerifierTypeOK /\ CallsInv /\ StoreInv
  BY DEF VerifierInv, StoreInv
<1>1. [Next]_vars
  BY <1>0, VerifierStepIsStoreStep
<1>2. StoreInv'
  BY <1>0, <1>1, NextPreserves
<1>3. CallsMoveOn
  BY <1>0, <1>1, AllCallsMoveOn
<1>4. VerifierTypeOK'
  BY <1>0, <1>2, <1>3, NoncesTyped DEF VerifierTypeOK, StoreInv, CallsMoveOn, Typed
<1>5. VerifiedSpentIt'
  <2> SUFFICES ASSUME NEW a \in Attempts, Verified(a)'
               PROVE  LET r == records'[attempts'[a].permit]
                      IN  /\ r.state = "CONSUMED"
                          /\ r.consumedAt = attempts'[a].consumeAt
                          /\ r.consumedAt < r.claims.expiresAt
                          /\ r.claims.class = ExpectedClass(attempts'[a].entry)
                          /\ r.claims.class = "execution" => Accepted(a)'
    BY DEF VerifiedSpentIt, ExpectedClass
  <2>1. CASE Verified(a)
    <3>1. attempts'[a] = attempts[a]
      BY <1>3, <2>1 DEF CallsMoveOn
    <3>2. attempts[a] \in Attempt
      BY <1>0, <2>1, Begun DEF Verified, At
    <3>3. attempts[a].permit \in PermitIDs
      BY <3>2 DEF Attempt
    <3>4. LET r == records[attempts[a].permit]
          IN  /\ r.state = "CONSUMED"
              /\ r.consumedAt = attempts[a].consumeAt
              /\ r.consumedAt < r.claims.expiresAt
              /\ r.claims.class = ExpectedClass(attempts[a].entry)
              /\ r.claims.class = "execution" => Accepted(a)
      BY <2>1 DEF VerifierInv, VerifiedSpentIt
    <3>5. Known(attempts[a].permit)
      BY <3>4, NoRecordFacts DEF Known
    <3>6. records'[attempts[a].permit] = records[attempts[a].permit]
      BY <1>0, <1>1, <3>3, <3>4, <3>5, StoreMovesOn
    <3>7. Accepted(a) => Accepted(a)'
      BY <3>1 DEF Accepted, At
    <3> QED
      BY <3>1, <3>4, <3>6, <3>7
  <2>2. CASE AttemptStep(a)
    <3>1. /\ ConsumeInspected(a)
          /\ records'[attempts[a].permit].state = "CONSUMED"
          /\ records'[attempts[a].permit].consumedAt = attempts'[a].consumeAt
          /\ attempts'[a].permit = attempts[a].permit
          /\ attempts'[a].entry = attempts[a].entry
          /\ attempts'[a].consumeAt = attempts[a].consumeAt
      BY <1>0, <1>2, <2>2, VerifiedByConsume
    <3>2. attempts[a] \in Attempt /\ CallInv(a) /\ At(a, "consume")
      BY <1>0, <3>1, Begun DEF ConsumeInspected, CallsInv, At
    <3>3. attempts[a].permit \in PermitIDs /\ attempts[a].consumeAt # NoTime
      BY <3>2 DEF Attempt, CallInv
    <3>4. records'[attempts[a].permit].claims = records[attempts[a].permit].claims
      BY <1>0, <1>1, <3>2, <3>3, StoreMovesOn DEF CallInv
    <3>5. OneEnd(records'[attempts[a].permit])
      BY <1>2, <3>1, <3>3, NoRecordFacts DEF StoreInv, OneEndPerPermit, Known
    <3>6. records'[attempts[a].permit].claims.class = ExpectedClass(attempts[a].entry)
      BY <3>2, <3>4 DEF CallInv
    <3>7. attempts[a].entry = "execution" => Accepted(a)'
      BY <3>1, <3>3, <2>2 DEF Accepted, Verified, At
    <3>8. ExpectedClass(attempts[a].entry) = "execution" => attempts[a].entry = "execution"
      BY <3>2 DEF ExpectedClass, CallInv, Attempt, Entries
    <3> QED
      BY <3>1, <3>5, <3>6, <3>7, <3>8 DEF OneEnd
  <2> QED
    BY <1>3, <2>1, <2>2 DEF CallsMoveOn
<1>6. SpentForAVerifiedCall'
  <2> SUFFICES ASSUME NEW p \in PermitIDs, records'[p].state = "CONSUMED"
               PROVE  \E a \in Attempts : Verified(a)' /\ attempts'[a].permit = p
    BY DEF SpentForAVerifiedCall
  <2>1. CASE records[p].state = "CONSUMED"
    <3>1. PICK a \in Attempts : Verified(a) /\ attempts[a].permit = p
      BY <2>1 DEF VerifierInv, SpentForAVerifiedCall
    <3>2. attempts'[a] = attempts[a]
      BY <1>3, <3>1 DEF CallsMoveOn
    <3> QED
      BY <3>1, <3>2 DEF Verified, At
  <2>2. CASE records[p].state # "CONSUMED"
    <3>1. VerifierNext
      BY <2>2 DEF allVars, vars
    <3> QED
      BY <1>0, <2>2, <3>1, SpentByVerified
  <2> QED
    BY <2>1, <2>2
<1>7. AtMostOneVerified'
  <2>1. ASSUME NEW a \in Attempts, NEW b \in Attempts,
               Verified(a)', ~Verified(a), Verified(b)',
               attempts'[a].permit = attempts'[b].permit, a # b
        PROVE  FALSE
    <3>1. AttemptStep(a)
      BY <1>3, <2>1 DEF CallsMoveOn
    <3>2. /\ ConsumeInspected(a)
          /\ records[attempts[a].permit].state = "ISSUED"
          /\ attempts'[a].permit = attempts[a].permit
      BY <1>0, <1>2, <2>1, <3>1, VerifiedByConsume
    <3>3. attempts'[b] = attempts[b]
      BY <1>0, <1>1, <2>1, <3>1, AttemptStepFacts
    <3>4. Verified(b)
      BY <2>1, <3>3 DEF Verified, At
    <3>5. records[attempts[b].permit].state = "CONSUMED"
      BY <3>4 DEF VerifierInv, VerifiedSpentIt
    <3> QED
      BY <2>1, <3>2, <3>3, <3>5
  <2>2. ASSUME NEW a \in Attempts, NEW b \in Attempts,
               Verified(a), Verified(b), attempts'[a].permit = attempts'[b].permit
        PROVE  a = b
    <3>1. attempts'[a] = attempts[a] /\ attempts'[b] = attempts[b]
      BY <1>3, <2>2 DEF CallsMoveOn
    <3> QED
      BY <2>2, <3>1 DEF VerifierInv, AtMostOneVerified
  <2> QED
    BY <2>1, <2>2 DEF AtMostOneVerified
<1> QED
  BY <1>2, <1>3, <1>4, <1>5, <1>6, <1>7 DEF VerifierInv, CallsMoveOn

(* VERIFIED means spent, spent means VERIFIED, each with the right call.   *)
THEOREM VerifierIsCorrect == VerifierSpec => []VerifierInv
<1>1. VerifierInit => VerifierInv
  BY VerifierInitEstablishes
<1>2. VerifierInv /\ [VerifierNext]_allVars => VerifierInv'
  BY VerifierNextPreserves
<1> QED
  BY <1>1, <1>2, PTL DEF VerifierSpec

-----------------------------------------------------------------------------
(* The nonce store.  An accepted proof's nonce is kept until the proof is   *)
(* no longer fresh for any call that has not stalled past the skew.        *)
Expiry(a) == NonceExpiry(attempts[a].proof)

InFront(a) == At(a, "inspect") \/ At(a, "examine")

NonceInv ==
  /\ VerifierInv
  /\ \A a \in Attempts : InFront(a) => clock - attempts[a].inspectedAt <= MaxStall
  /\ \A a \in Attempts : Accepted(a) =>
       nonces[attempts[a].proof.nonce] = Expiry(a) \/ Expiry(a) <= clock
  /\ ProofAcceptedOnce

(* The moves of a call: it ends, or goes on to its next point.             *)
LEMMA Moves ==
  ASSUME TypeOK, VerifierTypeOK, NEW a \in Attempts, AttemptStep(a)
  PROVE  \/ Ends(a)
         \/ Inspect(a) /\ Goto(a, "examine")
         \/ UseNonce(a) /\ Goto(a, "reread")
         \/ Reread(a)
         \/ ConsumeInspected(a)
<1>1. ASSUME RejectToken(a) \/ RejectClass(a) \/ RejectAction(a) \/ PassCheck(a)
      PROVE  Ends(a)
  BY <1>1 DEF RejectToken, RejectClass, RejectAction, PassCheck, Ends, Outcomes
<1>2. ASSUME Inspect(a)
      PROVE  Ends(a) \/ Goto(a, "examine")
  <2>1. attempts[a] \in Attempt
    BY <1>2, Begun DEF Inspect, At
  <2>2. attempts[a].permit \in PermitIDs /\ attempts[a].inspectedAt \in Int
    BY <2>1, PermitStoreAssumption DEF Attempt
  <2> QED
    BY <1>2, <2>2, InspectOutcome DEF Inspect, Ends
<1>3. ASSUME UseNonce(a)
      PROVE  Ends(a) \/ Goto(a, "reread")
  BY <1>3 DEF UseNonce, Ends, Outcomes
<1> QED
  BY <1>1, <1>2, <1>3 DEF AttemptStep

(* What a move leaves alone, and the one move that accepts a proof.        *)
LEMMA MovesKeep ==
  ASSUME TypeOK, VerifierTypeOK, CallsInv, [Next]_vars,
         NEW a \in Attempts, AttemptStep(a)
  PROVE  /\ attempts'[a].proof = attempts[a].proof
         /\ attempts'[a].inspectedAt = attempts[a].inspectedAt
         /\ InFront(a)' => InFront(a)
         /\ Accepted(a)' => Accepted(a) \/ (UseNonce(a) /\ Goto(a, "reread"))
<1>1. ~At(a, "idle") /\ ~At(a, "done")
  BY DEF AttemptStep, RejectToken, RejectClass, Inspect, RejectAction, PassCheck,
         UseNonce, Reread, ConsumeInspected, At
<1>2. attempts[a] \in Attempt /\ CallInv(a) /\ Typed
  BY <1>1, Begun DEF CallsInv, VerifierTypeOK, Typed
<1>3. CASE Ends(a) \/ ConsumeInspected(a)
  <2>1. PICK o \in Outcomes : Return(a, o)
    <3>1. CASE ConsumeInspected(a)
      <4>1. records[attempts[a].permit] \in Record
        BY <1>2, <3>1, KnownIsRecord DEF ConsumeInspected, CallInv, Attempt
      <4> QED
        BY <3>1, <4>1, ConsumeOutcomes DEF ConsumeInspected, Outcomes
    <3> QED
      BY <1>3, <3>1 DEF Ends
  <2>2. attempts'[a] = [attempts[a] EXCEPT !.pc = "done", !.outcome = o]
    BY <1>2, <2>1, ReturnFacts
  <2>3. /\ attempts'[a].pc = "done"
        /\ attempts'[a].entry = attempts[a].entry
        /\ attempts'[a].proof = attempts[a].proof
        /\ attempts'[a].inspectedAt = attempts[a].inspectedAt
        /\ attempts'[a].consumeAt = attempts[a].consumeAt
    BY <1>2, <2>2 DEF Attempt
  <2> QED
    BY <1>1, <2>3 DEF InFront, Accepted, At
<1>4. CASE Inspect(a) /\ Goto(a, "examine")
  <2>1. attempts'[a] = [attempts[a] EXCEPT !.pc = "examine"]
    BY <1>2, <1>4, GotoFacts
  <2> QED
    BY <1>2, <1>4, <2>1 DEF Attempt, InFront, Accepted, At, CallInv, Inspect
<1>5. CASE UseNonce(a) /\ Goto(a, "reread")
  <2>1. attempts'[a] = [attempts[a] EXCEPT !.pc = "reread"]
    BY <1>2, <1>5, GotoFacts
  <2> QED
    BY <1>2, <1>5, <2>1 DEF Attempt, InFront, Accepted, At, UseNonce
<1>6. CASE Reread(a)
  <2>1. attempts'[a] = [attempts[a] EXCEPT !.pc = "consume", !.consumeAt = clock]
    BY <1>2, <1>6, RereadFacts DEF TypeOK
  <2>2. /\ attempts'[a].pc = "consume"
        /\ attempts'[a].entry = attempts[a].entry
        /\ attempts'[a].proof = attempts[a].proof
        /\ attempts'[a].inspectedAt = attempts[a].inspectedAt
    BY <1>2, <2>1 DEF Attempt
  <2>3. At(a, "reread") \/ attempts[a].entry = "simulation"
    BY <1>6 DEF Reread
  <2> QED
    BY <1>1, <2>2, <2>3 DEF InFront, Accepted, At
<1> QED
  BY <1>3, <1>4, <1>5, <1>6, Moves

(* An acceptance finds no trace of the nonce: the entry of an earlier       *)
(* acceptance of the same proof would have expired by the clock, and then  *)
(* only a stalled call could still hold the proof fresh                    *)
(* (registry.go:61-78, verifier.go:174-194).                               *)
LEMMA AcceptingIsFirst ==
  ASSUME MaxStall < ClockSkew, NonceInv,
         NEW a \in Attempts, UseNonce(a), Goto(a, "reread"),
         NEW b \in Attempts, Accepted(b)
  PROVE  attempts[a].proof # attempts[b].proof
<1> SUFFICES ASSUME attempts[a].proof = attempts[b].proof PROVE FALSE
  OBVIOUS
<1> DEFINE q == attempts[a].proof
           now == attempts[a].inspectedAt
           kept == Purged(now)
<1>1. VerifierTypeOK /\ CallsInv /\ TypeOK
  BY DEF NonceInv, VerifierInv, StoreInv
<1>2. attempts[a] \in Attempt /\ attempts[a].pc = "examine"
  BY <1>1, Begun DEF UseNonce, At
<1>3. now \in Nat /\ clock \in Int /\ now <= clock
  <2>1. now \in Time
    BY <1>2 DEF Attempt
  <2>2. now <= clock
    BY <1>1, <1>2 DEF CallsInv, CallInv, At
  <2> QED
    BY <1>1, <2>1, <2>2, PermitStoreAssumption DEF TypeOK
<1>4. q \in Proof
  <2>1. q # NoProof
    BY <1>1, <1>2 DEF UseNonce, CallsInv, CallInv, At
  <2> QED
    BY <1>2, <2>1 DEF Attempt
<1>5. q.nonce \in Nonces /\ q.issuedAt \in Int
  BY <1>4, PermitStoreAssumption DEF Proof
<1>6. kept[q.nonce] = NoTime
  <2>1. Typed
    BY <1>1 DEF VerifierTypeOK, Typed
  <2>2. attempts'[a] = [attempts[a] EXCEPT !.pc = "reread"]
    BY <1>2, <2>1, GotoFacts
  <2>3. ASSUME Return(a, "WRONG_EXECUTOR") PROVE FALSE
    <3>1. attempts'[a] = [attempts[a] EXCEPT !.pc = "done", !.outcome = "WRONG_EXECUTOR"]
      BY <1>2, <2>1, <2>3, ReturnFacts DEF Outcomes
    <3> QED
      BY <1>2, <2>2, <3>1 DEF Attempt
  <2> QED
    BY <2>3 DEF UseNonce
<1>7. nonces[q.nonce] <= now
  BY <1>3, <1>5, <1>6 DEF Purged
<1>8. NonceExpiry(q) <= clock
  <2>1. nonces[q.nonce] = NonceExpiry(q) \/ NonceExpiry(q) <= clock
    BY DEF NonceInv, Expiry
  <2>2. NonceExpiry(q) \in Int
    BY <1>5, VerifierAssumption DEF NonceExpiry
  <2> QED
    BY <1>3, <1>7, <2>1, <2>2
<1>9. now - q.issuedAt <= MaxAge
  BY DEF UseNonce, Fresh
<1>10. clock - now <= MaxStall
  BY <1>2 DEF NonceInv, InFront, At
<1> QED
  BY <1>3, <1>5, <1>8, <1>9, <1>10, VerifierAssumption DEF NonceExpiry

(* Whatever the nonce store does, an entry goes only when its time has     *)
(* come.                                                                   *)
LEMMA KeptUntilExpiry ==
  ASSUME NonceInv, NEW a \in Attempts, UseNonce(a),
         NEW b \in Attempts, Accepted(b)
  PROVE  nonces'[attempts[b].proof.nonce] = Expiry(b) \/ Expiry(b) <= clock
<1> DEFINE m == attempts[b].proof.nonce
           now == attempts[a].inspectedAt
           kept == Purged(now)
<1>1. VerifierTypeOK /\ CallsInv /\ TypeOK
  BY DEF NonceInv, VerifierInv, StoreInv
<1>2. attempts[a] \in Attempt /\ attempts[a].pc = "examine" /\ attempts[b] \in Attempt
  BY <1>1, Begun DEF UseNonce, At, Accepted
<1>3. now \in Nat /\ clock \in Int /\ now <= clock
  <2>1. now \in Time
    BY <1>2 DEF Attempt
  <2>2. now <= clock
    BY <1>1, <1>2 DEF CallsInv, CallInv, At
  <2> QED
    BY <1>1, <2>1, <2>2, PermitStoreAssumption DEF TypeOK
<1>4. attempts[b].proof \in Proof
  <2>1. attempts[b].proof # NoProof
    BY <1>1 DEF Accepted, CallsInv, CallInv
  <2> QED
    BY <1>2, <2>1 DEF Attempt
<1>5. m \in Nonces /\ Expiry(b) \in Int
  BY <1>4, PermitStoreAssumption, VerifierAssumption DEF Proof, Expiry, NonceExpiry
<1>6. nonces[m] = Expiry(b) \/ Expiry(b) <= clock
  BY DEF NonceInv
<1>7. CASE nonces[m] <= now
  BY <1>3, <1>5, <1>6, <1>7
<1>8. CASE ~(nonces[m] <= now)
  <2>1. kept[m] = nonces[m] /\ kept[m] # NoTime
    BY <1>3, <1>5, <1>8 DEF Purged
  <2>2. nonces'[m] = kept[m]
    <3>1. \/ /\ kept[attempts[a].proof.nonce] = NoTime
             /\ nonces' = [kept EXCEPT ![attempts[a].proof.nonce] =
                             NonceExpiry(attempts[a].proof)]
          \/ nonces' = kept
      BY DEF UseNonce
    <3>2. kept = [n \in Nonces |-> kept[n]]
      BY DEF Purged
    <3> HIDE DEF kept
    <3> QED
      BY <1>5, <2>1, <3>1, <3>2
  <2> QED
    BY <1>6, <2>1, <2>2
<1> QED
  BY <1>7, <1>8

LEMMA StepKeepsClock ==
  ASSUME NEW a \in Attempts, AttemptStep(a)
  PROVE  clock' = clock /\ (UseNonce(a) \/ nonces' = nonces)
  BY DEF AttemptStep, RejectToken, RejectClass, Inspect, RejectAction, PassCheck,
         UseNonce, Reread, ConsumeInspected, Consume, vars

(* The clock runs on only while no call in front of the nonce store has    *)
(* stalled for as long as it may.                                          *)
LEMMA NobodyStalls ==
  ASSUME NonceInv, [VerifierNext]_allVars, NEW b \in Attempts, InFront(b)'
  PROVE  clock' - attempts'[b].inspectedAt <= MaxStall
<1>1. VerifierTypeOK /\ CallsInv /\ TypeOK
  BY DEF NonceInv, VerifierInv, StoreInv
<1>2. [Next]_vars
  BY <1>1, VerifierStepIsStoreStep
<1>3. clock \in Int /\ MaxStall \in Nat
  BY <1>1, PermitStoreAssumption, VerifierAssumption DEF TypeOK
<1>4. ASSUME InFront(b), attempts'[b].inspectedAt = attempts[b].inspectedAt,
             clock' = clock
      PROVE  clock' - attempts'[b].inspectedAt <= MaxStall
  BY <1>4 DEF NonceInv
<1>5. ASSUME attempts'[b] = attempts[b]
      PROVE  InFront(b) /\ attempts'[b].inspectedAt = attempts[b].inspectedAt
  BY <1>5 DEF InFront, At
<1>6. CASE \E a \in Attempts : AttemptStep(a)
  <2> PICK a \in Attempts : AttemptStep(a)
    BY <1>6
  <2>1. clock' = clock
    BY StepKeepsClock
  <2>2. CASE b = a
    <3>1. InFront(b) /\ attempts'[b].inspectedAt = attempts[b].inspectedAt
      BY <1>1, <1>2, <2>2, MovesKeep
    <3> QED
      BY <1>4, <2>1, <3>1
  <2>3. CASE b # a
    <3>1. attempts'[b] = attempts[b]
      BY <1>1, <1>2, <2>3, AttemptStepFacts
    <3> QED
      BY <1>4, <1>5, <2>1, <3>1
  <2> QED
    BY <2>2, <2>3
<1>7. CASE \E a \in Attempts, entry \in Entries, p \in PermitIDs,
              proof \in Proof \cup {NoProof} : Begin(a, entry, p, proof)
  <2> PICK a \in Attempts, entry \in Entries, p \in PermitIDs,
           proof \in Proof \cup {NoProof} : Begin(a, entry, p, proof)
    BY <1>7
  <2>1. clock' = clock
    BY DEF Begin, vars
  <2>2. /\ attempts'[a].inspectedAt = clock
        /\ \A c \in Attempts \ {a} : attempts'[c] = attempts[c]
    <3>1. clock \in Time /\ Typed
      BY <1>1 DEF TypeOK, VerifierTypeOK, Typed
    <3>2. attempts'[a] = [pc |-> "inspect", entry |-> entry, permit |-> p,
                          proof |-> proof, inspectedAt |-> clock,
                          consumeAt |-> NoTime, outcome |-> "none"]
      BY <3>1, BeginFacts
    <3>3. \A c \in Attempts \ {a} : attempts'[c] = attempts[c]
      BY <3>1, BeginFacts
    <3> QED
      BY <3>2, <3>3
  <2>3. CASE b = a
    BY <1>3, <2>1, <2>2, <2>3
  <2>4. CASE b # a
    BY <1>4, <1>5, <2>1, <2>2, <2>4
  <2> QED
    BY <2>3, <2>4
<1>8. CASE Surroundings
  <2>1. attempts' = attempts
    BY <1>8 DEF Surroundings, verifierVars
  <2>2. clock' = clock \/ (NotStalled /\ Tick)
    BY <1>8 DEF Surroundings, Register, Revoke, List, SetAuthorityEnabled
  <2>3. CASE NotStalled /\ Tick
    <3>1. clock - attempts[b].inspectedAt < MaxStall
      BY <1>5, <2>1, <2>3 DEF NotStalled, InFront
    <3>2. attempts[b].inspectedAt \in Int
      BY <1>1, <1>5, <2>1, Begun, PermitStoreAssumption DEF InFront, At, Attempt
    <3> QED
      BY <1>3, <2>1, <2>3, <3>1, <3>2 DEF Tick
  <2> QED
    BY <1>4, <1>5, <2>1, <2>2, <2>3
<1>9. CASE UNCHANGED allVars
  BY <1>4, <1>5, <1>9 DEF allVars, vars, verifierVars
<1> QED
  BY <1>6, <1>7, <1>8, <1>9 DEF VerifierNext

LEMMA NonceInvPreserved ==
  ASSUME MaxStall < ClockSkew, NonceInv, [VerifierNext]_allVars
  PROVE  NonceInv'
<1>1. VerifierTypeOK /\ CallsInv /\ TypeOK
  BY DEF NonceInv, VerifierInv, StoreInv
<1>2. [Next]_vars
  BY <1>1, VerifierStepIsStoreStep
<1>3. VerifierInv'
  BY VerifierNextPreserves DEF NonceInv
<1>4. clock \in Int /\ clock' \in Int /\ clock <= clock'
  BY <1>1, <1>2, StoreMovesOn, PermitStoreAssumption
<1>5. ASSUME NEW b \in Attempts, Accepted(b)
      PROVE  Expiry(b) \in Int
  <2>1. attempts[b] \in Attempt /\ attempts[b].proof # NoProof
    BY <1>1, <1>5, Begun DEF Accepted, CallsInv, CallInv
  <2>2. attempts[b].proof \in Proof
    BY <2>1 DEF Attempt
  <2> QED
    BY <2>2, PermitStoreAssumption, VerifierAssumption DEF Proof, Expiry, NonceExpiry
<1>6. ASSUME nonces' = nonces, NEW b \in Attempts, Accepted(b)
      PROVE  nonces'[attempts[b].proof.nonce] = Expiry(b) \/ Expiry(b) <= clock'
  BY <1>4, <1>5, <1>6 DEF NonceInv
<1>7. CASE UNCHANGED attempts /\ UNCHANGED nonces
  <2>1. \A b \in Attempts : Accepted(b)' <=> Accepted(b)
    BY <1>7 DEF Accepted, At
  <2>2. \A b \in Attempts : Expiry(b)' = Expiry(b)
    BY <1>7 DEF Expiry, NonceExpiry
  <2>3. \A b \in Attempts : Accepted(b)' =>
          (nonces[attempts[b].proof.nonce] = Expiry(b) \/ Expiry(b) <= clock)'
    BY <1>6, <1>7, <2>1, <2>2
  <2>4. ProofAcceptedOnce'
    BY <1>7, <2>1 DEF NonceInv, ProofAcceptedOnce
  <2> QED
    BY <1>3, <2>3, <2>4, NobodyStalls DEF NonceInv
<1>8. CASE \E a \in Attempts, entry \in Entries, p \in PermitIDs,
              proof \in Proof \cup {NoProof} : Begin(a, entry, p, proof)
  <2> PICK a \in Attempts, entry \in Entries, p \in PermitIDs,
           proof \in Proof \cup {NoProof} : Begin(a, entry, p, proof)
    BY <1>8
  <2>1. /\ attempts'[a].pc = "inspect" /\ attempts'[a].consumeAt = NoTime
        /\ \A c \in Attempts \ {a} : attempts'[c] = attempts[c]
    <3>1. clock \in Time /\ Typed
      BY <1>1 DEF TypeOK, VerifierTypeOK, Typed
    <3>2. attempts'[a] = [pc |-> "inspect", entry |-> entry, permit |-> p,
                          proof |-> proof, inspectedAt |-> clock,
                          consumeAt |-> NoTime, outcome |-> "none"]
      BY <3>1, BeginFacts
    <3>3. \A c \in Attempts \ {a} : attempts'[c] = attempts[c]
      BY <3>1, BeginFacts
    <3> QED
      BY <3>2, <3>3
  <2>2. nonces' = nonces
    BY DEF Begin
  <2>3. ASSUME NEW b \in Attempts, Accepted(b)'
        PROVE  Accepted(b) /\ attempts'[b] = attempts[b] /\ Expiry(b)' = Expiry(b)
    <3>1. b # a
      BY <2>1, <2>3 DEF Accepted, At
    <3> QED
      BY <2>1, <2>3, <3>1 DEF Accepted, At, Expiry, NonceExpiry
  <2> QED
    BY <1>3, <1>6, <2>2, <2>3, NobodyStalls DEF NonceInv, ProofAcceptedOnce
<1>9. CASE \E a \in Attempts : AttemptStep(a)
  <2> PICK a \in Attempts : AttemptStep(a)
    BY <1>9
  <2>1. \A b \in Attempts : attempts'[b].proof = attempts[b].proof
    <3>1. attempts'[a].proof = attempts[a].proof
      BY <1>1, <1>2, MovesKeep
    <3>2. \A b \in Attempts \ {a} : attempts'[b] = attempts[b]
      BY <1>1, <1>2, AttemptStepFacts
    <3> QED
      BY <3>1, <3>2
  <2>2. \A b \in Attempts : Expiry(b)' = Expiry(b)
    BY <2>1 DEF Expiry, NonceExpiry
  <2>3. ASSUME NEW b \in Attempts, Accepted(b)', ~Accepted(b)
        PROVE  b = a /\ UseNonce(a) /\ Goto(a, "reread")
    <3>1. CASE b = a
      BY <1>1, <1>2, <2>3, <3>1, MovesKeep
    <3>2. CASE b # a
      <4>1. attempts'[b] = attempts[b]
        BY <1>1, <1>2, <3>2, AttemptStepFacts
      <4> QED
        BY <2>3, <4>1 DEF Accepted, At
    <3> QED
      BY <3>1, <3>2
  <2>4. ASSUME NEW b \in Attempts, Accepted(b)
        PROVE  nonces'[attempts[b].proof.nonce] = Expiry(b) \/ Expiry(b) <= clock'
    <3>1. CASE UseNonce(a)
      BY <1>4, <1>5, <2>4, <3>1, StepKeepsClock, KeptUntilExpiry
    <3>2. CASE nonces' = nonces
      BY <1>6, <2>4, <3>2
    <3> QED
      BY <3>1, <3>2, StepKeepsClock
  <2>5. ASSUME UseNonce(a), Goto(a, "reread")
        PROVE  nonces'[attempts[a].proof.nonce] = Expiry(a)
    <3> DEFINE q == attempts[a].proof
               kept == Purged(attempts[a].inspectedAt)
    <3>1. attempts[a] \in Attempt /\ Typed
      BY <1>1, <2>5, Begun DEF UseNonce, At, VerifierTypeOK, Typed
    <3>2. ~Return(a, "WRONG_EXECUTOR")
      <4>1. attempts'[a] = [attempts[a] EXCEPT !.pc = "reread"]
        BY <2>5, <3>1, GotoFacts
      <4>2. ASSUME Return(a, "WRONG_EXECUTOR") PROVE FALSE
        <5>1. attempts'[a] = [attempts[a] EXCEPT !.pc = "done", !.outcome = "WRONG_EXECUTOR"]
          BY <3>1, <4>2, ReturnFacts DEF Outcomes
        <5> QED
          BY <3>1, <4>1, <5>1 DEF Attempt
      <4> QED
        BY <4>2
    <3>3. nonces' = [kept EXCEPT ![q.nonce] = NonceExpiry(q)]
      BY <2>5, <3>2 DEF UseNonce
    <3>4. q.nonce \in Nonces
      <4>1. q # NoProof
        BY <1>1, <2>5 DEF UseNonce, CallsInv, CallInv, At
      <4>2. q \in Proof
        BY <3>1, <4>1 DEF Attempt
      <4> QED
        BY <4>2 DEF Proof
    <3>5. q.nonce \in DOMAIN kept
      BY <3>4 DEF Purged
    <3> HIDE DEF kept, q
    <3>6. nonces'[q.nonce] = NonceExpiry(q)
      BY <3>3, <3>5
    <3> QED
      BY <3>6 DEF q, Expiry
  <2>6. ASSUME NEW b \in Attempts, Accepted(b)'
        PROVE  (nonces[attempts[b].proof.nonce] = Expiry(b) \/ Expiry(b) <= clock)'
    BY <2>1, <2>2, <2>3, <2>4, <2>5, <2>6
  <2>7. ASSUME NEW b \in Attempts, NEW c \in Attempts, Accepted(b)', Accepted(c)',
               attempts'[b].proof = attempts'[c].proof
        PROVE  b = c
    <3>1. CASE Accepted(b) /\ Accepted(c)
      BY <2>1, <2>7, <3>1 DEF NonceInv, ProofAcceptedOnce
    <3>2. CASE ~Accepted(b) /\ Accepted(c)
      BY <2>1, <2>3, <2>7, <3>2, AcceptingIsFirst
    <3>3. CASE Accepted(b) /\ ~Accepted(c)
      BY <2>1, <2>3, <2>7, <3>3, AcceptingIsFirst
    <3>4. CASE ~Accepted(b) /\ ~Accepted(c)
      BY <2>3, <2>7, <3>4
    <3> QED
      BY <3>1, <3>2, <3>3, <3>4
  <2> QED
    BY <1>3, <2>6, <2>7, NobodyStalls DEF NonceInv, ProofAcceptedOnce
<1> QED
  BY <1>7, <1>8, <1>9 DEF VerifierNext, Surroundings, verifierVars, allVars

-----------------------------------------------------------------------------
(* A proof is accepted once, if no call takes the whole skew to get from   *)
(* its first clock reading to the nonce store (registry.go:52-78).         *)
THEOREM ProofsAcceptedOnce ==
  ASSUME MaxStall < ClockSkew
  PROVE  VerifierSpec => []ProofAcceptedOnce
<1>1. VerifierInit => NonceInv
  <2> SUFFICES ASSUME VerifierInit PROVE NonceInv
    OBVIOUS
  <2>1. \A a \in Attempts : attempts[a].pc = "idle"
    BY DEF VerifierInit, Idle
  <2> QED
    BY <2>1, VerifierInitEstablishes
       DEF NonceInv, InFront, Accepted, At, ProofAcceptedOnce
<1>2. NonceInv /\ [VerifierNext]_allVars => NonceInv'
  BY NonceInvPreserved
<1>3. NonceInv => ProofAcceptedOnce
  BY DEF NonceInv
<1> QED
  BY <1>1, <1>2, <1>3, PTL DEF VerifierSpec

-----------------------------------------------------------------------------
(* A call that spent its nonce and has come to its end left its permit     *)
(* ended.                                                                  *)
Spender(a, n) ==
  /\ Accepted(a) /\ attempts[a].proof.nonce = n
  /\ At(a, "done") => records[attempts[a].permit].state \notin {"NONE", "ISSUED"}

(* What Consume leaves behind is no longer issued (store.go:126-160).      *)
LEMMA ConsumeEnds ==
  ASSUME NEW r \in Record, NEW now
  PROVE  Consumed(r, now).state \in States \ {"ISSUED"}
<1> DEFINE e == ExpireIfNeeded(r, now)
<1>1. e = r \/ e = [r EXCEPT !.state = "EXPIRED", !.expiredAt = r.claims.expiresAt]
  BY DEF ExpireIfNeeded
<1>2. e.state \in States /\ "state" \in DOMAIN e
  BY <1>1 DEF Record, States
<1> HIDE DEF e
<1>3. \/ e.state # "ISSUED" /\ Consumed(r, now) = e
      \/ Consumed(r, now) = [e EXCEPT !.state = "REVOKED", !.revokedAt = now]
      \/ Consumed(r, now) = [e EXCEPT !.state = "CONSUMED", !.consumedAt = now]
  BY DEF Consumed, e
<1> QED
  BY <1>2, <1>3 DEF States

(* Whoever moves, a spender remains one.                                   *)
LEMMA SpenderStays ==
  ASSUME VerifierInv, [VerifierNext]_allVars, NEW b \in Attempts, NEW n, Spender(b, n)
  PROVE  Spender(b, n)'
<1>1. TypeOK /\ VerifierTypeOK /\ CallsInv /\ Typed
  BY DEF VerifierInv, StoreInv, VerifierTypeOK, Typed
<1>2. [Next]_vars
  BY <1>1, VerifierStepIsStoreStep
<1>3. /\ ~At(b, "idle") /\ attempts[b] \in Attempt /\ CallInv(b)
      /\ attempts[b].permit \in PermitIDs
  BY <1>1, Begun DEF Spender, Accepted, CallsInv, Attempt
<1>4. At(b, "reread") \/ At(b, "consume") \/ At(b, "done")
  BY <1>3 DEF Spender, Accepted, CallInv
<1>5. ASSUME attempts'[b] = attempts[b]
      PROVE  Spender(b, n)'
  <2>1. Accepted(b)' /\ attempts'[b].proof.nonce = n
    BY <1>5 DEF Spender, Accepted, At
  <2>2. ASSUME At(b, "done")
        PROVE  records'[attempts[b].permit] = records[attempts[b].permit]
    <3>1. Known(attempts[b].permit)
      BY <2>2, NoRecordFacts DEF Spender, Known
    <3> QED
      BY <1>1, <1>2, <1>3, <2>2, <3>1, StoreMovesOn DEF Spender
  <2> QED
    BY <1>5, <2>1, <2>2 DEF Spender, At
<1>6. ASSUME AttemptStep(b)
      PROVE  Spender(b, n)'
  <2>1. Reread(b) \/ ConsumeInspected(b)
    BY <1>4, <1>6 DEF AttemptStep, RejectToken, RejectClass, Inspect, RejectAction, PassCheck,
         UseNonce, At
  <2>2. CASE Reread(b)
    <3>1. attempts'[b] = [attempts[b] EXCEPT !.pc = "consume", !.consumeAt = clock]
      BY <1>1, <1>3, <2>2, RereadFacts DEF TypeOK
    <3>2. /\ attempts'[b].pc = "consume" /\ attempts'[b].consumeAt = clock
          /\ attempts'[b].entry = attempts[b].entry /\ attempts'[b].proof = attempts[b].proof
      BY <1>3, <3>1 DEF Attempt
    <3>3. clock # NoTime
      BY <1>1, PermitStoreAssumption DEF TypeOK
    <3> QED
      BY <3>2, <3>3 DEF Spender, Accepted, At
  <2>3. CASE ConsumeInspected(b)
    <3> DEFINE p == attempts[b].permit
               answer == IF ConsumeOutcome(records[p], attempts[b].consumeAt) = "CONSUMED"
                         THEN "VERIFIED" ELSE ConsumeOutcome(records[p], attempts[b].consumeAt)
    <3>1. At(b, "consume") /\ Consume(p, attempts[b].consumeAt) /\ Return(b, answer)
      BY <2>3 DEF ConsumeInspected
    <3>2. records[p] \in Record
      BY <1>1, <1>3, <3>1, KnownIsRecord DEF Consume
    <3>3. answer \in Outcomes
      BY <3>2, ConsumeOutcomes DEF Outcomes
    <3> HIDE DEF answer
    <3>4. attempts'[b] = [attempts[b] EXCEPT !.pc = "done", !.outcome = answer]
      BY <1>1, <1>3, <3>1, <3>3, ReturnFacts
    <3>5. /\ attempts'[b].pc = "done" /\ attempts'[b].consumeAt = attempts[b].consumeAt
          /\ attempts'[b].entry = attempts[b].entry /\ attempts'[b].proof = attempts[b].proof
          /\ attempts'[b].permit = p
      BY <1>3, <3>4 DEF Attempt
    <3>6. records'[p] = Consumed(records[p], attempts[b].consumeAt)
      BY <1>1, <1>3, <3>1 DEF Consume, TypeOK
    <3>7. records'[p].state \notin {"NONE", "ISSUED"}
      BY <3>2, <3>6, ConsumeEnds DEF States
    <3>8. attempts[b].consumeAt # NoTime
      BY <1>3, <3>1 DEF CallInv
    <3> QED
      BY <3>5, <3>7, <3>8 DEF Spender, Accepted, At
  <2> QED
    BY <2>1, <2>2, <2>3
<1>7. ASSUME NEW a \in Attempts, AttemptStep(a), a # b
      PROVE  attempts'[b] = attempts[b]
  BY <1>1, <1>2, <1>7, AttemptStepFacts
<1>8. ASSUME NEW a \in Attempts, NEW entry \in Entries, NEW p \in PermitIDs,
             NEW proof \in Proof \cup {NoProof}, Begin(a, entry, p, proof)
      PROVE  attempts'[b] = attempts[b]
  <2>1. a # b
    BY <1>3, <1>8 DEF Begin
  <2> QED
    BY <1>1, <1>8, <2>1, BeginFacts DEF TypeOK
<1>9. ASSUME Surroundings \/ UNCHANGED allVars
      PROVE  attempts'[b] = attempts[b]
  BY <1>9 DEF Surroundings, allVars, verifierVars
<1> QED
  BY <1>5, <1>6, <1>7, <1>8, <1>9 DEF VerifierNext

(* An entry of the nonce store is there since before, or is that of the    *)
(* call whose proof was accepted just now (registry.go:61-78).             *)
LEMMA NewEntryHasSpender ==
  ASSUME VerifierInv, [VerifierNext]_allVars, NEW n \in Nonces, nonces'[n] # NoTime
  PROVE  nonces[n] # NoTime \/ \E a \in Attempts : Spender(a, n)'
<1>1. VerifierTypeOK /\ Typed
  BY DEF VerifierInv, VerifierTypeOK, Typed
<1>2. CASE nonces' = nonces
  BY <1>2
<1>3. ASSUME NEW a \in Attempts, UseNonce(a)
      PROVE  nonces[n] # NoTime \/ Spender(a, n)'
  <2> DEFINE q == attempts[a].proof
             kept == Purged(attempts[a].inspectedAt)
  <2>1. kept[n] # NoTime => nonces[n] # NoTime
    BY DEF Purged
  <2>2. CASE nonces' = kept
    BY <2>1, <2>2
  <2>3. CASE nonces' = [kept EXCEPT ![q.nonce] = NonceExpiry(q)] /\ Goto(a, "reread")
    <3>1. CASE q.nonce = n
      <4>1. attempts[a] \in Attempt
        BY <1>1, <1>3, Begun DEF UseNonce, At
      <4>2. attempts'[a] = [attempts[a] EXCEPT !.pc = "reread"]
        BY <1>1, <2>3, <4>1, GotoFacts
      <4>3. /\ attempts'[a].pc = "reread" /\ attempts'[a].entry = attempts[a].entry
            /\ attempts'[a].proof = q
        BY <4>1, <4>2 DEF Attempt
      <4> QED
        BY <1>3, <3>1, <4>3 DEF Spender, Accepted, At, UseNonce
    <3>2. CASE q.nonce # n
      <4>1. DOMAIN kept = Nonces
        BY DEF Purged
      <4> HIDE DEF kept, q
      <4>2. nonces'[n] = kept[n]
        BY <2>3, <3>2, <4>1
      <4> QED
        BY <2>1, <4>2
    <3> QED
      BY <3>1, <3>2
  <2> QED
    BY <1>3, <2>2, <2>3 DEF UseNonce
<1>4. nonces' = nonces \/ \E a \in Attempts : UseNonce(a)
  <2>1. ASSUME NEW a \in Attempts, AttemptStep(a)
        PROVE  nonces' = nonces \/ UseNonce(a)
    BY <2>1, StepKeepsClock
  <2> QED
    BY <2>1 DEF VerifierNext, Begin, Surroundings, verifierVars, allVars
<1> QED
  BY <1>2, <1>3, <1>4

(* An executor loses a nonce only with a permit that has ended             *)
(* (verifier.go:174-194, 279-306).                                         *)
THEOREM NoncesAreNotLost == VerifierSpec => []NonceSpentWithPermit
<1>1. VerifierInit => NonceSpentWithPermit
  BY DEF VerifierInit, NonceSpentWithPermit
<1>2. VerifierInv /\ NonceSpentWithPermit /\ [VerifierNext]_allVars => NonceSpentWithPermit'
  <2> SUFFICES ASSUME VerifierInv, NonceSpentWithPermit, [VerifierNext]_allVars,
                      NEW n \in Nonces, nonces'[n] # NoTime
               PROVE  \E a \in Attempts : Spender(a, n)'
    BY DEF NonceSpentWithPermit, Spender
  <2>1. CASE nonces[n] # NoTime
    <3>1. PICK a \in Attempts : Spender(a, n)
      BY <2>1 DEF NonceSpentWithPermit, Spender
    <3> QED
      BY <3>1, SpenderStays
  <2> QED
    BY <2>1, NewEntryHasSpender
<1> QED
  BY <1>1, <1>2, VerifierIsCorrect, PTL DEF VerifierSpec

(* Every variable keeps to its type, nonce expiries included               *)
(* (verifier.go:138-197, registry.go:61-78).                               *)
THEOREM VerifierTypes == VerifierSpec => []VerifierTypeOK
<1>1. VerifierInv => VerifierTypeOK
  BY DEF VerifierInv
<1> QED
  BY <1>1, VerifierIsCorrect, PTL

(* At most one of the calls racing for a permit is told VERIFIED           *)
(* (verifier.go:130-136).                                                  *)
THEOREM OneVerified == VerifierSpec => []AtMostOneVerified
<1>1. VerifierInv => AtMostOneVerified
  BY DEF VerifierInv
<1> QED
  BY <1>1, VerifierIsCorrect, PTL

(* VERIFIED is said of a permit this call spent in time, of the right      *)
(* class and with an accepted proof (verifier.go:279-306).                 *)
THEOREM VerifiedMeansSpent == VerifierSpec => []VerifiedSpentIt
<1>1. VerifierInv => VerifiedSpentIt
  BY DEF VerifierInv
<1> QED
  BY <1>1, VerifierIsCorrect, PTL

(* No permit is spent but on a VERIFIED call (verifier.go:138-215).        *)
THEOREM SpentMeansVerified == VerifierSpec => []SpentForAVerifiedCall
<1>1. VerifierInv => SpentForAVerifiedCall
  BY DEF VerifierInv
<1> QED
  BY <1>1, VerifierIsCorrect, PTL

-----------------------------------------------------------------------------
(* The verifier takes no step with the store that the store's own          *)
(* specification does not take: what is proved of the store, and that it   *)
(* keeps the life cycle it promises, holds with the verifier in front of   *)
(* it (verifier.go:130-370).                                               *)
THEOREM VerifierUsesTheStore == VerifierSpec => Spec
<1>1. VerifierInit => Init
  BY DEF VerifierInit
<1>2. VerifierInv /\ [VerifierNext]_allVars => [Next]_vars
  BY VerifierStepIsStoreStep DEF VerifierInv, StoreInv
<1> QED
  BY <1>1, <1>2, VerifierIsCorrect, PTL DEF VerifierSpec, Spec

(* A step that answers a call, and the sections that can settle one: the   *)
(* state the inspection finds decides, or the consumption does, or it is   *)
(* refused, or only checked, without the store.                            *)
Answers(a) == ~At(a, "done") /\ At(a, "done")'

Inspected(a, now) ==
  LET p == attempts[a].permit
  IN  /\ Get(p, now)
      /\ records'[p].state # "ISSUED"
      /\ attempts'[a].outcome = OutcomeOf(records'[p].state)

Spent(a, now) ==
  LET p == attempts[a].permit
      outcome == ConsumeOutcome(records[p], now)
  IN  /\ Consume(p, now)
      /\ attempts'[a].outcome = IF outcome = "CONSUMED" THEN "VERIFIED" ELSE outcome

Refused(a) ==
  /\ UNCHANGED vars
  /\ attempts'[a].outcome \in {"REJECTED", "WRONG_PERMIT_CLASS", "WRONG_EXECUTOR",
                               "UNKNOWN_PERMIT", "VALID_NOT_CONSUMED"}
  /\ attempts'[a].outcome = "UNKNOWN_PERMIT" => ~Known(attempts[a].permit)
  /\ attempts'[a].outcome = "VALID_NOT_CONSUMED" => attempts[a].entry = "check"

(* Before that, a call expires the record it inspects, at most.            *)
Passes(a) ==
  UNCHANGED vars \/ \E now \in Readings : Get(attempts[a].permit, now)

OneSection(a) ==
  /\ Answers(a) => Refused(a) \/ \E now \in Readings : Inspected(a, now) \/ Spent(a, now)
  /\ ~Answers(a) /\ attempts'[a] # attempts[a] => Passes(a)

LEMMA OneSectionEach ==
  ASSUME TypeOK, VerifierTypeOK, CallsInv, NEW a \in Attempts, AttemptStep(a)
  PROVE  OneSection(a)
<1>1. ~At(a, "idle") /\ attempts[a] \in Attempt
  BY Begun DEF AttemptStep, RejectToken, RejectClass, Inspect, RejectAction, PassCheck,
       UseNonce, Reread, ConsumeInspected, At
<1>2. /\ attempts[a].permit \in PermitIDs /\ attempts[a].inspectedAt \in Readings
      /\ attempts[a].consumeAt # NoTime => attempts[a].consumeAt \in Readings
  BY <1>1, ReadingsArePast
<1>3. Typed
  BY DEF VerifierTypeOK, Typed
<1>4. ASSUME NEW o \in Outcomes, Return(a, o)
      PROVE  attempts'[a].outcome = o /\ attempts'[a].pc = "done"
  BY <1>1, <1>3, <1>4 DEF Return, Typed, Attempt
<1>5. ASSUME NEW pc \in {"examine", "reread"}, Goto(a, pc)
      PROVE  attempts'[a].pc = pc
  BY <1>1, <1>3, <1>5 DEF Goto, Typed, Attempt
<1>6. CASE Inspect(a)
  <2> DEFINE p == attempts[a].permit
             now == attempts[a].inspectedAt
             found == ExpireIfNeeded(records[p], now)
  <2>1. /\ records' = [records EXCEPT ![p] = found] /\ records'[p] = found
        /\ UNCHANGED <<authorities, clock>>
        /\ found.state = "ISSUED" => Goto(a, "examine")
        /\ found.state # "ISSUED" => Return(a, OutcomeOf(found.state))
    BY <1>2, <1>6 DEF Inspect, TypeOK
  <2>2. CASE Known(p)
    <3>1. Get(p, now)
      BY <2>1, <2>2 DEF Get
    <3>2. CASE found.state = "ISSUED"
      <4>1. ~Answers(a)
        BY <1>5, <2>1, <3>2 DEF Answers, At
      <4> QED BY <1>2, <3>1, <4>1 DEF OneSection, Passes
    <3>3. CASE found.state # "ISSUED"
      <4>1. found.state \in {"CONSUMED", "EXPIRED", "REVOKED"}
        <5>1. records[p] \in Record
          BY <1>2, <2>2, KnownIsRecord
        <5>2. found = records[p] \/ found.state = "EXPIRED"
          BY <5>1 DEF ExpireIfNeeded, Record
        <5> QED BY <3>3, <5>1, <5>2 DEF Record, States
      <4>2. OutcomeOf(found.state) \in Outcomes
        BY <4>1 DEF OutcomeOf, Outcomes
      <4>3. Inspected(a, now)
        BY <1>4, <2>1, <3>1, <3>3, <4>2 DEF Inspected
      <4>4. Answers(a)
        BY <1>4, <1>6, <2>1, <3>3, <4>2 DEF Answers, At, Inspect
      <4> QED BY <1>2, <4>3, <4>4 DEF OneSection
    <3> QED BY <3>2, <3>3
  <2>3. CASE ~Known(p)
    <3>1. found = records[p] /\ found.state = "NONE"
      BY <2>3, NoRecordFacts DEF Known, ExpireIfNeeded
    <3>2. UNCHANGED vars
      BY <1>2, <2>1, <3>1 DEF TypeOK, vars
    <3>3. Return(a, "UNKNOWN_PERMIT")
      BY <2>1, <3>1 DEF OutcomeOf
    <3> QED BY <1>4, <2>3, <3>2, <3>3 DEF OneSection, Refused, Passes, Outcomes
  <2> QED BY <2>2, <2>3
<1>7. CASE ConsumeInspected(a)
  <2> DEFINE p == attempts[a].permit
             now == attempts[a].consumeAt
             outcome == ConsumeOutcome(records[p], now)
             answer == IF outcome = "CONSUMED" THEN "VERIFIED" ELSE outcome
  <2>1. Consume(p, now) /\ Return(a, answer) /\ At(a, "consume")
    BY <1>7 DEF ConsumeInspected
  <2>2. now \in Readings
    BY <1>1, <1>2, <2>1 DEF CallsInv, CallInv
  <2>3. answer \in Outcomes
    <3>1. records[p] \in Record
      BY <1>2, <2>1, KnownIsRecord DEF Consume
    <3>2. outcome \in {"CONSUMED", "EXPIRED", "REPLAYED", "REVOKED"}
      BY <3>1, ConsumeOutcomes, Zenon
    <3> HIDE DEF outcome
    <3> QED BY <3>2 DEF Outcomes
  <2>4. Spent(a, now) /\ Answers(a)
    BY <1>4, <2>1, <2>3 DEF Spent, Answers, At
  <2> QED BY <2>2, <2>4 DEF OneSection
<1>8. CASE RejectToken(a) \/ RejectClass(a) \/ RejectAction(a) \/ PassCheck(a)
  <2>1. /\ UNCHANGED vars
        /\ \E o \in {"REJECTED", "WRONG_PERMIT_CLASS", "WRONG_EXECUTOR",
                     "VALID_NOT_CONSUMED"} :
             Return(a, o) /\ (o = "VALID_NOT_CONSUMED" => attempts[a].entry = "check")
    BY <1>8 DEF RejectToken, RejectClass, RejectAction, PassCheck
  <2> QED BY <1>4, <2>1 DEF OneSection, Refused, Passes, Outcomes
<1>9. CASE UseNonce(a) \/ Reread(a)
  <2>1. UNCHANGED vars
    BY <1>9 DEF UseNonce, Reread
  <2>2. Answers(a) => Return(a, "WRONG_EXECUTOR")
    <3>1. CASE UseNonce(a)
      BY <1>5, <3>1 DEF UseNonce, Answers, At
    <3>2. CASE Reread(a)
      BY <1>1, <1>3, <3>2 DEF Reread, Answers, At, Typed
    <3> QED BY <1>9, <3>1, <3>2
  <2> QED BY <1>4, <2>1, <2>2 DEF OneSection, Refused, Passes, Outcomes
<1> QED BY <1>6, <1>7, <1>8, <1>9 DEF AttemptStep

(* Two clock readings and two sections make a call, but one section        *)
(* settles it, by the state the store is in then, and what comes before    *)
(* leaves nothing behind but a lazy expiry (verifier.go:138-370): a call   *)
(* may be taken for one step, as the gateway does.                         *)
THEOREM AnswersSettleInOneSection ==
  VerifierSpec => [][\A a \in Attempts : OneSection(a)]_allVars
<1>1. ASSUME VerifierInv, VerifierNext, NEW a \in Attempts
      PROVE  OneSection(a)
  <2>1. TypeOK /\ VerifierTypeOK /\ CallsInv /\ Typed
    BY <1>1 DEF VerifierInv, StoreInv, VerifierTypeOK, Typed
  <2>2. ASSUME attempts'[a] = attempts[a] PROVE OneSection(a)
    BY <2>2 DEF OneSection, Answers, At
  <2>3. ASSUME NEW b \in Attempts, AttemptStep(b) PROVE OneSection(a)
    <3>1. CASE a = b
      BY <2>1, <2>3, <3>1, OneSectionEach
    <3>2. CASE a # b
      <4>1. \A x : attempts' = [attempts EXCEPT ![b] = x] => attempts'[a] = attempts[a]
        BY <2>1, <3>2 DEF Typed
      <4>2. \E x : attempts' = [attempts EXCEPT ![b] = x]
        BY <2>3 DEF AttemptStep, RejectToken, RejectClass, Inspect, RejectAction, PassCheck,
             UseNonce, Reread, ConsumeInspected, Goto, Return
      <4> QED BY <2>2, <4>1, <4>2
    <3> QED BY <3>1, <3>2
  <2>4. ASSUME NEW b \in Attempts, NEW entry \in Entries, NEW p \in PermitIDs,
               NEW proof \in Proof \cup {NoProof}, Begin(b, entry, p, proof)
        PROVE  OneSection(a)
    <3>1. UNCHANGED vars
      BY <2>4 DEF Begin
    <3>2. ~Answers(a)
      BY <2>1, <2>4 DEF Begin, Answers, At, Typed
    <3> QED BY <3>1, <3>2 DEF OneSection, Passes
  <2>5. CASE Surroundings
    BY <2>2, <2>5 DEF Surroundings, verifierVars
  <2> QED BY <1>1, <2>3, <2>4, <2>5 DEF VerifierNext
<1> DEFINE Settled == \A a \in Attempts : OneSection(a)
<1>2. VerifierInv /\ [VerifierNext]_allVars => [Settled]_allVars
  BY <1>1
<1> HIDE DEF Settled
<1>3. VerifierSpec => [][Settled]_allVars
  BY <1>2, VerifierIsCorrect, PTL DEF VerifierSpec
<1> QED BY <1>3 DEF Settled

=============================================================================
