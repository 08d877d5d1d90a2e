---------------------------- MODULE GatewayProofs -----------------------------
(***************************************************************************)
(* Theorems about the gateway, for any number of permits, requests and     *)
(* concurrent calls.                                                       *)
(***************************************************************************)
EXTENDS Gateway, PermitStoreProofs

USE DEF Time, NoTime, Readings

Ended == {"CONSUMED", "EXPIRED", "REVOKED"}

(* What the store and the router know of a permit, by how far its          *)
(* authorization has come (router.go:140-276).                             *)
GrantKnows(p) ==
  LET at == grants[p].at
  IN  /\ at \in {"idle", "resolving", "denying"} => ~Known(p)
      /\ at \in {"issued", "active", "unaudited", "revoked", "released"} => Known(p)
      /\ at \in {"revoked", "refused"} => records[p].state # "ISSUED"
      /\ p \in active => at \in {"active", "unaudited", "revoked", "released"}
      /\ at = "resolving" => grants[p].key \in AuthorityKeys

GrantsKnow == \A p \in PermitIDs : GrantKnows(p)

(* What a call knows at each of its points (router.go:304-760,             *)
(* proxy.go:235-360).                                                      *)
CallKnows(c) ==
  LET v == calls[c]
      p == v.permit
  IN  /\ v.at = "idle" => v = Idle
      /\ v.receivedAt <= clock
      /\ v.sent \/ v.at \notin {"idle", "listing", "withdrawing", "done"} => p \in PermitIDs
      /\ v.at \in {"verified", "terminating", "taken", "completing", "auditing"} => Known(p)
      /\ v.at \in {"verified", "completing"} /\ v.state \in Ended => records[p].state = v.state
      /\ v.at = "verified" => v.result \in Outcomes /\ v.state \in States
      /\ v.at = "verified" /\ v.result = "VERIFIED" => v.state = "CONSUMED"
      /\ v.at \in {"verified", "cleared"} => GrantAt(p, "released") /\ v.status = "none"
      /\ v.at \in {"verified", "cleared", "awaiting", "observing", "reporting"} => v.by = "gateway"
      /\ v.at = "awaiting" => v.sent /\ v.status = "none"
      /\ v.at \in {"taken", "completing"} => v.status # "none"
      /\ v.by = "gateway" /\ v.at \in {"observing", "terminating", "noting", "reporting"}
           => v.status # "none"
      /\ v.at \in {"idle", "verified", "cleared", "listing", "withdrawing", "auditing"} => ~v.sent
      /\ v.sent /\ v.at # "awaiting" => v.status # "none"
      /\ v.by = "gateway" /\ v.status = "completed" => v.sent
      /\ \A x \in v.revoked : records[x].state = "REVOKED"
      /\ v.at = "auditing" => p \in v.revoked

CallsKnow == \A c \in Calls : CallKnows(c)

-----------------------------------------------------------------------------
(* A step of the store that registers nothing.                             *)
Quiet ==
  \/ UNCHANGED vars
  \/ \E p \in PermitIDs, t \in Readings : Get(p, t) \/ Consume(p, t) \/ Revoke(p, t)
  \/ \E t \in Readings : List(t)
  \/ \E k \in AuthorityKeys, enabled \in BOOLEAN, t \in Readings :
       SetAuthorityEnabled(k, enabled, t)
  \/ Tick

Issues == \E p \in PermitIDs, c \in Claims :
  /\ Register(p, c)
  /\ GrantAt(p, "resolving")
  /\ AdvanceGrant(p, "issued")

(* Every step of the gateway is one of the store or leaves it alone, and   *)
(* only an issue registers (router.go:1106-1146).                          *)
LEMMA GatewayStepIsStoreStep ==
  ASSUME TypeOK, GatewayTypeOK, GrantsKnow, CallsKnow, [GatewayNext]_gatewayVars
  PROVE  Quiet \/ Issues
<1>1. ASSUME NEW p \in PermitIDs, NEW e \in Time \ {0}, Issue(p, e)
      PROVE  Quiet \/ Issues
  <2> DEFINE c == [class |-> "execution", key |-> grants[p].key,
                   epoch |-> grants[p].epoch, expiresAt |-> e]
  <2>1. CASE Register(p, c) /\ AdvanceGrant(p, "issued")
    <3>1. GrantAt(p, "resolving")
      BY <1>1 DEF Issue
    <3>2. c \in Claims
      BY <3>1 DEF GatewayTypeOK, Grant, GrantsKnow, GrantKnows, GrantAt, Claims, Classes
    <3> QED
      BY <2>1, <3>1, <3>2 DEF Issues
  <2> QED
    BY <1>1, <2>1 DEF Issue, Quiet
<1>2. ASSUME NEW c \in Calls, CallStep(c)
      PROVE  Quiet
  <2>1. clock \in Int /\ calls[c] \in Call
    BY PermitStoreAssumption DEF TypeOK, GatewayTypeOK
  <2>2. calls[c].receivedAt \in Readings
    BY <2>1, PermitStoreAssumption DEF CallsKnow, CallKnows, Call
  <2>3. ASSUME NEW now \in Readings, TerminatePermit(c, now) PROVE Quiet
    BY <2>3 DEF TerminatePermit, Quiet, CallsKnow, CallKnows, CallAt
  <2>4. CASE ReadFinalState(c)
    BY <2>2, <2>4 DEF ReadFinalState, Quiet, CallsKnow, CallKnows, CallAt
  <2>5. CASE ListRevoked(c)
    BY <2>2, <2>5 DEF ListRevoked, Quiet
  <2> QED
    BY <1>2, <2>3, <2>4, <2>5
       DEF CallStep, RecordVerification, Forward, Answer, NoteEvent, RecordCompletion,
           AuditRevocation, IngestRuntimeEvent, CompleteExecution, Withdraw, Quiet
<1>3. ASSUME NEW c \in Calls, Arrival(c)
      PROVE  Quiet
  BY <1>3 DEF Arrival, Verify, RevokePermit, ChangeAuthority, IngestRuntimeEvent,
              CompleteExecution, Quiet
<1>4. ASSUME NEW p \in PermitIDs, GrantStep(p)
      PROVE  Quiet \/ Issues
  BY <1>1, <1>4 DEF GrantStep, Deny, Activate, Release, DropUnaudited, RevokeUnaudited,
                    Quiet
<1> QED
  BY <1>2, <1>3, <1>4 DEF GatewayNext, Authorize, Evict, gatewayVars, Quiet

LEMMA StoreStep ==
  ASSUME Quiet \/ Issues
  PROVE  [Next]_vars
  BY DEF Quiet, Issues, Next

-----------------------------------------------------------------------------
(* How the records and the grants fare in a step: what is known stays      *)
(* known, what ended stays as it is, and a released permit stays released. *)
Onward ==
  /\ \A p \in PermitIDs :
       /\ Known(p) => Known(p)'
       /\ records[p].state # "ISSUED" /\ ~GrantAt(p, "resolving") => records'[p] = records[p]
       /\ records[p].state \in Ended => records'[p] = records[p]
       /\ GrantAt(p, "released") => GrantAt(p, "released")'
  /\ clock <= clock'

LEMMA QuietKeepsUnknown ==
  ASSUME TypeOK, Quiet, NEW p \in PermitIDs, ~Known(p)
  PROVE  records'[p] = records[p]
<1>1. records[p] = NoRecord /\ records[p].state = "NONE"
  BY NoRecordFacts DEF Known
<1>2. ASSUME NEW q \in PermitIDs, NEW t \in Readings, Get(q, t) \/ Consume(q, t) \/ Revoke(q, t)
      PROVE  records'[p] = records[p]
  <2>1. q # p
    BY <1>2 DEF Get, Consume, Revoke
  <2> QED
    BY <1>2, <2>1 DEF Get, Consume, Revoke, TypeOK
<1>3. ASSUME NEW t \in Readings, List(t)
      PROVE  records'[p] = records[p]
  BY <1>1, <1>3 DEF List, ExpireIfNeeded
<1>4. ASSUME NEW k \in AuthorityKeys, NEW enabled \in BOOLEAN, NEW t \in Readings,
             SetAuthorityEnabled(k, enabled, t)
      PROVE  records'[p] = records[p]
  BY <1>1, <1>4 DEF SetAuthorityEnabled, UnderKey
<1> QED
  BY <1>2, <1>3, <1>4 DEF Quiet, Tick, vars, storeVars

(* Only RevokeUnaudited, DropUnaudited and the steps before the release    *)
(* move a grant.                                                           *)
LEMMA ReleasedStays ==
  ASSUME GatewayTypeOK, [GatewayNext]_gatewayVars, NEW p \in PermitIDs,
         GrantAt(p, "released")
  PROVE  GrantAt(p, "released")'
<1>1. ASSUME NEW q \in PermitIDs, NEW at, q # p, AdvanceGrant(q, at)
      PROVE  grants'[p] = grants[p]
  BY <1>1 DEF AdvanceGrant, GatewayTypeOK
<1>2. ASSUME NEW q \in PermitIDs, GrantStep(q)
      PROVE  grants'[p] = grants[p]
  BY <1>1, <1>2 DEF GrantStep, Deny, Issue, Activate, Release, RevokeUnaudited,
                    DropUnaudited, GrantAt
<1>3. ASSUME NEW q \in PermitIDs, NEW k \in AuthorityKeys, Authorize(q, k)
      PROVE  grants'[p] = grants[p]
  BY <1>3 DEF Authorize, GrantAt, GatewayTypeOK
<1>4. ASSUME NEW c \in Calls, CallStep(c) \/ Arrival(c)
      PROVE  grants'[p] = grants[p]
  BY <1>4 DEF CallStep, Arrival, RecordVerification, Forward, Answer, NoteEvent,
              ReadFinalState, RecordCompletion, ListRevoked, AuditRevocation,
              TerminatePermit, IngestRuntimeEvent, CompleteExecution, Withdraw,
              Verify, RevokePermit, ChangeAuthority
<1> QED
  BY <1>2, <1>3, <1>4 DEF GatewayNext, Evict, routerVars, gatewayVars, GrantAt

LEMMA StepIsOnward ==
  ASSUME StoreInv, GatewayTypeOK, GrantsKnow, CallsKnow, [GatewayNext]_gatewayVars
  PROVE  Onward
<1>1. TypeOK /\ (Quiet \/ Issues)
  BY GatewayStepIsStoreStep DEF StoreInv
<1>2. [Next]_vars
  BY <1>1, StoreStep
<1>3. clock <= clock'
  <2>1. clock' = clock \/ clock' = clock + 1
    BY <1>2 DEF Next, Register, Get, List, Consume, Revoke, SetAuthorityEnabled, Tick, vars
  <2>2. clock \in Int
    BY <1>1, PermitStoreAssumption DEF TypeOK
  <2> QED
    BY <2>1, <2>2
<1>4. ASSUME NEW p \in PermitIDs
      PROVE  /\ Known(p) => Known(p)'
             /\ records[p].state # "ISSUED" /\ ~GrantAt(p, "resolving")
                  => records'[p] = records[p]
             /\ records[p].state \in Ended => records'[p] = records[p]
  <2>1. Fares(p)
    BY <1>1, <1>2, StepFares
  <2>2. CASE Known(p)
    <3>1. EndsOrStays(records[p], records'[p])
      BY <2>1, <2>2 DEF Fares
    <3> QED
      BY <2>2, <3>1, NoRecordFacts DEF EndsOrStays, Known, Ended
  <2>3. CASE ~Known(p) /\ Quiet
    BY <1>1, <2>3, QuietKeepsUnknown DEF Known
  <2>4. CASE ~Known(p) /\ Issues
    <3>1. PICK q \in PermitIDs, c \in Claims : Register(q, c) /\ GrantAt(q, "resolving")
      BY <2>4 DEF Issues
    <3>2. CASE q = p
      BY <2>4, <3>1, <3>2, NoRecordFacts DEF Known, Ended
    <3>3. CASE q # p
      BY <1>1, <2>4, <3>1, <3>3 DEF Register, TypeOK, Known
    <3> QED
      BY <3>2, <3>3
  <2> QED
    BY <1>1, <2>2, <2>3, <2>4
<1> QED
  BY <1>3, <1>4, ReleasedStays DEF Onward

-----------------------------------------------------------------------------
(* A call that does not move knows no less afterwards.                     *)
LEMMA CallStays ==
  ASSUME TypeOK, GatewayTypeOK, CallsKnow, Onward, clock' \in Int, NEW c \in Calls,
         calls'[c] = calls[c]
  PROVE  CallKnows(c)'
<1>1. CallKnows(c) /\ calls[c] \in Call /\ clock \in Int
  BY PermitStoreAssumption DEF CallsKnow, GatewayTypeOK, TypeOK
<1>2. calls[c].revoked \subseteq PermitIDs /\ calls[c].receivedAt \in Int
  BY <1>1, PermitStoreAssumption DEF Call
<1>3. calls'[c].receivedAt <= clock'
  BY <1>1, <1>2 DEF CallKnows, Onward
<1>4. \A x \in calls'[c].revoked : records'[x].state = "REVOKED"
  BY <1>1, <1>2 DEF CallKnows, Onward, Ended
<1>5. LET v == calls[c]
          p == v.permit
      IN  /\ v.at \in {"verified", "terminating", "taken", "completing", "auditing"} => Known(p)'
          /\ v.at \in {"verified", "completing"} /\ v.state \in Ended => records'[p].state = v.state
          /\ v.at \in {"verified", "cleared"} => GrantAt(p, "released")' /\ v.status = "none"
  BY <1>1 DEF CallKnows, Onward
<1> QED
  BY <1>1, <1>3, <1>4, <1>5 DEF CallKnows, Ended, Known, GrantAt

-----------------------------------------------------------------------------
(* c moves, alone, and knows what it should afterwards.                    *)
Moves(c) ==
  /\ calls' = [calls EXCEPT ![c] = calls'[c]]
  /\ calls'[c] \in Call
  /\ CallKnows(c)'

(* What the lemmas below start from.                                       *)
Before ==
  /\ TypeOK /\ GatewayTypeOK /\ GrantsKnow /\ CallsKnow
  /\ Onward /\ TypeOK'

LEMMA RecordVerificationMoves ==
  ASSUME Before, NEW c \in Calls, RecordVerification(c)
  PROVE  Moves(c)
<1>1. calls[c] \in Call /\ CallKnows(c)
  BY DEF Before, GatewayTypeOK, CallsKnow
<1>2. PICK at \in {"cleared", "done"} :
        /\ calls' = [calls EXCEPT ![c].at = at]
        /\ at = "cleared" => calls[c].result = "VERIFIED"
  BY DEF RecordVerification, Advance, Cleared
<1>3. calls'[c] = [calls[c] EXCEPT !.at = at]
  BY <1>2 DEF Before, GatewayTypeOK
<1>4. calls'[c] \in Call
  BY <1>1, <1>3 DEF Call
<1>5. CallKnows(c)'
  BY <1>1, <1>3, <1>2 DEF CallKnows, RecordVerification, CallAt, GrantAt, vars, Call, Known
<1> QED
  BY <1>2, <1>3, <1>4, <1>5 DEF Moves

LEMMA ForwardMoves ==
  ASSUME Before, NEW c \in Calls, Forward(c)
  PROVE  Moves(c)
<1>1. calls[c] \in Call /\ CallKnows(c)
  BY DEF Before, GatewayTypeOK, CallsKnow
<1>2. CASE calls' = [calls EXCEPT ![c].at = "awaiting", ![c].sent = TRUE]
  <2>1. calls'[c] = [calls[c] EXCEPT !.at = "awaiting", !.sent = TRUE]
    BY <1>2 DEF Before, GatewayTypeOK
  <2>2. calls'[c] \in Call /\ calls' = [calls EXCEPT ![c] = calls'[c]]
    BY <1>1, <1>2, <2>1 DEF Call, Before, GatewayTypeOK
  <2>3. CallKnows(c)'
    BY <1>1, <2>1 DEF CallKnows, Forward, CallAt, GrantAt, vars, Call, Known
  <2> QED
    BY <2>2, <2>3 DEF Moves
<1>3. CASE calls' = [calls EXCEPT ![c].at = "reporting", ![c].status = "failed"]
  <2>1. calls'[c] = [calls[c] EXCEPT !.at = "reporting", !.status = "failed"]
    BY <1>3 DEF Before, GatewayTypeOK
  <2> "failed" \in Executions
    BY DEF Executions
  <2>2. calls'[c] \in Call /\ calls' = [calls EXCEPT ![c] = calls'[c]]
    BY <1>1, <1>3, <2>1 DEF Call, Before, GatewayTypeOK
  <2>3. CallKnows(c)'
    BY <1>1, <2>1 DEF CallKnows, Forward, CallAt, GrantAt, vars, Call, Known
  <2> QED
    BY <2>2, <2>3 DEF Moves
<1> QED
  BY <1>2, <1>3 DEF Forward

LEMMA AnswerMoves ==
  ASSUME Before, NEW c \in Calls, Answer(c)
  PROVE  Moves(c)
<1>1. calls[c] \in Call /\ CallKnows(c)
  BY DEF Before, GatewayTypeOK, CallsKnow
<1>2. PICK at \in {"reporting", "observing"}, status \in Executions :
        calls' = [calls EXCEPT ![c].at = at, ![c].status = status]
  BY DEF Answer, Executions
<1>3. calls'[c] = [calls[c] EXCEPT !.at = at, !.status = status]
  BY <1>2 DEF Before, GatewayTypeOK
<1>4. calls'[c] \in Call /\ calls' = [calls EXCEPT ![c] = calls'[c]]
  BY <1>1, <1>2, <1>3 DEF Call, Before, GatewayTypeOK
<1>5. CallKnows(c)'
  BY <1>1, <1>3 DEF CallKnows, Answer, CallAt, GrantAt, vars, Call, Known, Executions
<1> QED
  BY <1>4, <1>5 DEF Moves

LEMMA IngestMoves ==
  ASSUME Before, NEW c \in Calls, NEW by \in Sources, NEW p \in PermitIDs,
         NEW now \in Readings, IngestRuntimeEvent(c, by, p, now)
  PROVE  Moves(c)
<1>1. calls[c] \in Call /\ CallKnows(c) /\ CallAt(c, IF by = "gateway" THEN "observing" ELSE "idle")
      /\ (by = "gateway" => p = calls[c].permit)
  BY DEF Before, GatewayTypeOK, CallsKnow, IngestRuntimeEvent, Enters, Sources
<1>2. PICK at \in {"noting", "terminating", AfterEvent(by)},
           result \in {"WITHIN", "UNKNOWN", "REJECTED", "BOUNDARY"} :
        /\ calls' = [calls EXCEPT ![c] = [@ EXCEPT !.at = at, !.by = by, !.permit = p,
                                                   !.result = result]]
        /\ at = "terminating" => p \in active
  BY DEF IngestRuntimeEvent, EventResults, Sources
<1>3. calls'[c] = [calls[c] EXCEPT !.at = at, !.by = by, !.permit = p, !.result = result]
  BY <1>2 DEF Before, GatewayTypeOK
<1>4. at \in {"noting", "terminating", "reporting", "done"}
      /\ (at = "reporting" <=> at = AfterEvent(by) /\ by = "gateway")
  BY <1>2 DEF AfterEvent, Sources
<1>5. calls'[c] \in Call /\ calls' = [calls EXCEPT ![c] = calls'[c]]
  <2>1. /\ result \in Outcomes \cup {"none", "WITHIN", "UNKNOWN", "BOUNDARY", "TIMELY"}
        /\ p \in PermitIDs \cup {NoPermit}
    BY DEF Outcomes
  <2>2. calls'[c] \in Call
    BY <1>1, <1>3, <1>4, <2>1 DEF Call
  <2> QED
    BY <1>2, <1>3, <2>2 DEF Before, GatewayTypeOK
<1>6. at = "terminating" => Known(p)
  BY <1>2 DEF Before, GrantsKnow, GrantKnows
<1>7. CallKnows(c)'
  BY <1>1, <1>3, <1>4, <1>6
     DEF CallKnows, IngestRuntimeEvent, CallAt, GrantAt, vars, Call, Known, Idle
<1> QED
  BY <1>5, <1>7 DEF Moves

LEMMA TerminateMoves ==
  ASSUME Before, NEW c \in Calls, NEW now \in Readings, TerminatePermit(c, now)
  PROVE  Moves(c)
<1>1. calls[c] \in Call /\ CallKnows(c)
  BY DEF Before, GatewayTypeOK, CallsKnow
<1>2. calls' = [calls EXCEPT ![c].at = "noting"]
  BY DEF TerminatePermit, Advance
<1>3. calls'[c] = [calls[c] EXCEPT !.at = "noting"]
  BY <1>2 DEF Before, GatewayTypeOK
<1>4. calls'[c] \in Call /\ calls' = [calls EXCEPT ![c] = calls'[c]]
  BY <1>1, <1>2, <1>3 DEF Call, Before, GatewayTypeOK
<1>5. \A x \in calls[c].revoked : records'[x].state = "REVOKED"
  BY <1>1 DEF CallKnows, Before, Onward, Call, Ended
<1>6. clock' = clock
  BY DEF TerminatePermit, Revoke
<1>7. CallKnows(c)'
  BY <1>1, <1>3, <1>5, <1>6 DEF CallKnows, TerminatePermit, CallAt, Call
<1> QED
  BY <1>4, <1>7 DEF Moves

LEMMA NoteMoves ==
  ASSUME Before, NEW c \in Calls, NoteEvent(c)
  PROVE  Moves(c)
<1>1. calls[c] \in Call /\ CallKnows(c)
  BY DEF Before, GatewayTypeOK, CallsKnow
<1>2. calls' = [calls EXCEPT ![c].at = AfterEvent(calls[c].by)]
  BY DEF NoteEvent, Advance
<1>3. calls'[c] = [calls[c] EXCEPT !.at = AfterEvent(calls[c].by)]
  BY <1>2 DEF Before, GatewayTypeOK
<1>4. calls'[c] \in Call /\ calls' = [calls EXCEPT ![c] = calls'[c]]
  BY <1>1, <1>2, <1>3 DEF Call, Before, GatewayTypeOK, AfterEvent
<1>5. CallKnows(c)'
  BY <1>1, <1>3 DEF CallKnows, NoteEvent, CallAt, GrantAt, vars, Call, Known, AfterEvent
<1> QED
  BY <1>4, <1>5 DEF Moves

LEMMA CompleteMoves ==
  ASSUME Before, NEW c \in Calls, NEW by \in Sources, NEW p \in PermitIDs,
         NEW status \in Executions, NEW now \in Readings,
         by = "gateway" => status = calls[c].status,
         CompleteExecution(c, by, p, status, now)
  PROVE  Moves(c)
<1>1. calls[c] \in Call /\ CallKnows(c) /\ CallAt(c, IF by = "gateway" THEN "reporting" ELSE "idle")
      /\ (by = "gateway" => p = calls[c].permit)
  BY DEF Before, GatewayTypeOK, CallsKnow, CompleteExecution, Enters, Sources
<1>2. CASE Advance(c, "done")
  <2>1. calls'[c] = [calls[c] EXCEPT !.at = "done"]
    BY <1>2 DEF Before, GatewayTypeOK, Advance
  <2>2. calls'[c] \in Call
    BY <1>1, <2>1 DEF Call
  <2>3. calls' = [calls EXCEPT ![c] = calls'[c]]
    BY <1>2, <2>1 DEF Before, GatewayTypeOK, Advance
  <2>4. CallKnows(c)'
    BY <1>1, <2>1 DEF CallKnows, CompleteExecution, CallAt, GrantAt, vars, Call, Known, Idle
  <2> QED
    BY <2>2, <2>3, <2>4 DEF Moves
<1>3. ASSUME NEW result \in {"EXPIRED", "TIMELY"}, p \in active,
             calls' = [calls EXCEPT ![c] =
                         [@ EXCEPT !.at = "taken", !.by = by, !.permit = p,
                           !.status = status, !.result = result, !.receivedAt = now]]
      PROVE  Moves(c)
  <2>1. calls'[c] = [calls[c] EXCEPT !.at = "taken", !.by = by, !.permit = p,
                       !.status = status, !.result = result, !.receivedAt = now]
    BY <1>3 DEF Before, GatewayTypeOK
  <2>2. now \in Time /\ now <= clock
    BY PermitStoreAssumption DEF Before, TypeOK
  <2>3. calls'[c] \in Call
    <3>1. result \in Outcomes \cup {"none", "WITHIN", "UNKNOWN", "BOUNDARY", "TIMELY"}
      BY <1>3 DEF Outcomes
    <3> QED
      BY <1>1, <2>1, <2>2, <3>1 DEF Call
  <2>4. calls' = [calls EXCEPT ![c] = calls'[c]]
    BY <1>3, <2>1 DEF Before, GatewayTypeOK
  <2>5. Known(p) /\ "none" \notin Executions
    BY <1>3 DEF Before, GrantsKnow, GrantKnows, Executions
  <2>6. CallKnows(c)'
    BY <1>1, <2>1, <2>2, <2>5
       DEF CallKnows, CompleteExecution, CallAt, GrantAt, vars, Call, Known, Idle
  <2> QED
    BY <2>3, <2>4, <2>6 DEF Moves
<1> QED
  BY <1>2, <1>3 DEF CompleteExecution

LEMMA ReadMoves ==
  ASSUME Before, NEW c \in Calls, ReadFinalState(c)
  PROVE  Moves(c)
<1> DEFINE v == calls[c]
           found == ExpireIfNeeded(records[v.permit], v.receivedAt)
<1>1. v \in Call /\ CallKnows(c) /\ CallAt(c, "taken")
  BY DEF Before, GatewayTypeOK, CallsKnow, ReadFinalState
<1>2. v.permit \in PermitIDs /\ records[v.permit] \in Record /\ v.receivedAt \in Int
  BY <1>1, KnownIsRecord, PermitStoreAssumption DEF CallKnows, CallAt, Before, Call
<1>3. found \in Record /\ records'[v.permit] = found
  BY <1>2, ExpireFacts DEF ReadFinalState, Get, Before, TypeOK
<1>4. found.state \in States
  BY <1>3 DEF Record
<1>5. calls' = [calls EXCEPT ![c].at = "completing", ![c].state = found.state]
  BY DEF ReadFinalState
<1> HIDE DEF found
<1>6. calls'[c] = [v EXCEPT !.at = "completing", !.state = found.state]
  BY <1>5 DEF Before, GatewayTypeOK
<1>7. calls'[c] \in Call /\ calls' = [calls EXCEPT ![c] = calls'[c]]
  <2>1. calls'[c] \in Call
    BY <1>1, <1>4, <1>6 DEF Call
  <2> QED
    BY <1>5, <1>6, <2>1 DEF Before, GatewayTypeOK
<1>8. \A x \in v.revoked : records'[x].state = "REVOKED"
  BY <1>1 DEF CallKnows, Before, Onward, Call, Ended
<1>9. clock' = clock /\ records'[v.permit] # NoRecord
  BY <1>3, NoRecordFacts DEF ReadFinalState, Get
<1>10. CallKnows(c)'
  BY <1>1, <1>3, <1>6, <1>8, <1>9 DEF CallKnows, CallAt, Call, Known
<1> QED
  BY <1>7, <1>10 DEF Moves

LEMMA RecordCompletionMoves ==
  ASSUME Before, NEW c \in Calls, RecordCompletion(c)
  PROVE  Moves(c)
<1>1. calls[c] \in Call /\ CallKnows(c)
  BY DEF Before, GatewayTypeOK, CallsKnow
<1>2. calls'[c] = [calls[c] EXCEPT !.at = "done"]
      /\ calls' = [calls EXCEPT ![c].at = "done"]
  BY DEF RecordCompletion, Advance, Before, GatewayTypeOK
<1>3. calls'[c] \in Call /\ calls' = [calls EXCEPT ![c] = calls'[c]]
  BY <1>1, <1>2 DEF Call, Before, GatewayTypeOK
<1>4. CallKnows(c)'
  BY <1>1, <1>2 DEF CallKnows, RecordCompletion, CallAt, GrantAt, vars, Call, Known
<1> QED
  BY <1>3, <1>4 DEF Moves

LEMMA RevokeMoves ==
  ASSUME Before, NEW c \in Calls, NEW p \in PermitIDs, NEW now \in Readings,
         RevokePermit(c, p, now)
  PROVE  Moves(c)
<1>1. calls[c] \in Call /\ CallKnows(c) /\ calls[c] = Idle
  BY DEF Before, GatewayTypeOK, CallsKnow, RevokePermit, CallAt, CallKnows
<1>2. clock' = clock
  BY DEF RevokePermit, Revoke
<1>3. CASE /\ calls' = [calls EXCEPT ![c].at = "withdrawing", ![c].revoked = {p}]
           /\ RevocationMade(records[p].state, records'[p].state)
  <2>1. calls'[c] = [calls[c] EXCEPT !.at = "withdrawing", !.revoked = {p}]
    BY <1>3 DEF Before, GatewayTypeOK
  <2>2. calls'[c] \in Call /\ calls' = [calls EXCEPT ![c] = calls'[c]]
    BY <1>1, <1>3, <2>1 DEF Call, Before, GatewayTypeOK
  <2>3. \A x \in {p} : records'[x].state = "REVOKED"
    BY <1>3 DEF RevocationMade
  <2>4. CallKnows(c)'
    BY <1>1, <1>2, <2>1, <2>3 DEF CallKnows, Idle
  <2> QED
    BY <2>2, <2>4 DEF Moves
<1>4. CASE Advance(c, "done")
  <2>1. calls'[c] = [calls[c] EXCEPT !.at = "done"]
    BY <1>4 DEF Before, GatewayTypeOK, Advance
  <2>2. calls'[c] \in Call /\ calls' = [calls EXCEPT ![c] = calls'[c]]
    BY <1>1, <1>4, <2>1 DEF Call, Before, GatewayTypeOK, Advance
  <2>3. CallKnows(c)'
    BY <1>1, <1>2, <2>1 DEF CallKnows, Idle
  <2> QED
    BY <2>2, <2>3 DEF Moves
<1> QED
  BY <1>3, <1>4 DEF RevokePermit

LEMMA ChangeMoves ==
  ASSUME Before, NEW c \in Calls, NEW k \in AuthorityKeys, NEW enabled \in BOOLEAN,
         NEW at \in Readings, ChangeAuthority(c, k, enabled, at)
  PROVE  Moves(c)
<1>1. calls[c] \in Call /\ CallKnows(c) /\ calls[c] = Idle
  BY DEF Before, GatewayTypeOK, CallsKnow, ChangeAuthority, CallAt, CallKnows
<1>2. clock' = clock /\ at <= clock /\ at \in Time
  <2>1. clock' = clock
    BY DEF ChangeAuthority, SetAuthorityEnabled
  <2>2. clock \in Time
    BY DEF Before, TypeOK
  <2> QED
    BY <2>1, <2>2, PermitStoreAssumption
<1>3. authorities'[k].epoch \in 0..MaxEpoch
  <2>1. authorities'[k] \in AuthorityState
    BY DEF Before, TypeOK
  <2> QED
    BY <2>1, PermitStoreAssumption DEF AuthorityState, Epochs
<1>4. calls' = [calls EXCEPT ![c].at = "listing", ![c].key = k,
                             ![c].epoch = authorities'[k].epoch, ![c].receivedAt = at]
  BY DEF ChangeAuthority
<1>5. calls'[c] = [calls[c] EXCEPT !.at = "listing", !.key = k,
                             !.epoch = authorities'[k].epoch, !.receivedAt = at]
  BY <1>4 DEF Before, GatewayTypeOK
<1>6. calls'[c] \in Call
  BY <1>1, <1>2, <1>3, <1>5 DEF Call
<1>7. calls' = [calls EXCEPT ![c] = calls'[c]]
  BY <1>4, <1>5 DEF Before, GatewayTypeOK
<1>8. CallKnows(c)'
  BY <1>1, <1>2, <1>5 DEF CallKnows, Idle
<1> QED
  BY <1>6, <1>7, <1>8 DEF Moves

(* A call between two permits of a transition, or past them.               *)
LEMMA Pausing ==
  ASSUME NEW c \in Calls,
         calls'[c].at \in {"withdrawing", "done"}, ~calls'[c].sent,
         ~(calls'[c].by = "gateway" /\ calls'[c].status = "completed"),
         calls'[c].receivedAt <= clock',
         \A x \in calls'[c].revoked : records'[x].state = "REVOKED"
  PROVE  CallKnows(c)'
  BY DEF CallKnows

LEMMA ListMoves ==
  ASSUME Before, NEW c \in Calls, ListRevoked(c)
  PROVE  Moves(c)
<1> DEFINE S == {p \in PermitIDs : Outdated(records'[p], calls[c])}
<1>1. calls[c] \in Call /\ CallKnows(c)
  BY DEF Before, GatewayTypeOK, CallsKnow
<1>2. clock' = clock
  BY DEF ListRevoked, List
<1>3. S \subseteq PermitIDs /\ \A x \in S : records'[x].state = "REVOKED"
  BY DEF Outdated
<1>4. PICK at \in {"done", "withdrawing"} :
        calls' = [calls EXCEPT ![c].at = at, ![c].revoked = S]
  BY DEF ListRevoked
<1> HIDE DEF S
<1>5. calls'[c] = [calls[c] EXCEPT !.at = at, !.revoked = S]
  BY <1>4 DEF Before, GatewayTypeOK
<1>6. calls'[c] \in Call
  BY <1>1, <1>3, <1>5 DEF Call
<1>7. calls' = [calls EXCEPT ![c] = calls'[c]]
  BY <1>4, <1>5 DEF Before, GatewayTypeOK
<1>8. CallKnows(c)'
  <2>1. ~calls[c].sent /\ calls[c].receivedAt <= clock
        /\ ~(calls[c].by = "gateway" /\ calls[c].status = "completed")
    BY <1>1 DEF CallKnows, ListRevoked, CallAt
  <2> QED
    BY <1>1, <1>2, <1>3, <1>5, <2>1, Pausing DEF Call
<1> QED
  BY <1>6, <1>7, <1>8 DEF Moves

LEMMA WithdrawMoves ==
  ASSUME Before, NEW c \in Calls, NEW p \in PermitIDs, Withdraw(c, p)
  PROVE  Moves(c)
<1>1. calls[c] \in Call /\ CallKnows(c)
  BY DEF Before, GatewayTypeOK, CallsKnow
<1>2. calls' = [calls EXCEPT ![c].at = "auditing", ![c].permit = p]
  BY DEF Withdraw
<1>3. calls'[c] = [calls[c] EXCEPT !.at = "auditing", !.permit = p]
  BY <1>2 DEF Before, GatewayTypeOK
<1>4. calls'[c] \in Call /\ calls' = [calls EXCEPT ![c] = calls'[c]]
  BY <1>1, <1>2, <1>3 DEF Call, Before, GatewayTypeOK
<1>5. records[p].state = "REVOKED" /\ Known(p)
  BY <1>1, NoRecordFacts DEF CallKnows, Withdraw, Known
<1>6. CallKnows(c)'
  <2> DEFINE v == calls[c]
             w == calls'[c]
  <2>1. /\ w.at = "auditing" /\ w.permit = p /\ w.sent = v.sent /\ w.by = v.by
        /\ w.status = v.status /\ w.revoked = v.revoked /\ w.receivedAt = v.receivedAt
    BY <1>1, <1>3 DEF Call
  <2>2. v.at = "withdrawing" /\ p \in v.revoked /\ records' = records /\ clock' = clock
    BY DEF Withdraw, CallAt, vars
  <2>3. ~v.sent /\ v.receivedAt <= clock
        /\ \A x \in v.revoked : records[x].state = "REVOKED"
    BY <1>1, <2>2 DEF CallKnows
  <2>4. ~(v.by = "gateway" /\ v.status = "completed")
    BY <1>1, <2>3 DEF CallKnows
  <2>5. records'[p] # NoRecord
    BY <1>5, <2>2 DEF Known
  <2> HIDE DEF v, w
  <2> QED
    BY <2>1, <2>2, <2>3, <2>4, <2>5 DEF CallKnows, Known, w
<1> QED
  BY <1>4, <1>6 DEF Moves

LEMMA AuditMoves ==
  ASSUME Before, NEW c \in Calls, AuditRevocation(c)
  PROVE  Moves(c)
<1> DEFINE rest == calls[c].revoked \ {calls[c].permit}
<1>1. calls[c] \in Call /\ CallKnows(c)
  BY DEF Before, GatewayTypeOK, CallsKnow
<1>2. PICK at \in {"done", "withdrawing"} :
        calls' = [calls EXCEPT ![c].at = at, ![c].revoked = rest]
  BY DEF AuditRevocation
<1>3. rest \subseteq calls[c].revoked
  OBVIOUS
<1> HIDE DEF rest
<1>4. calls'[c] = [calls[c] EXCEPT !.at = at, !.revoked = rest]
  BY <1>2 DEF Before, GatewayTypeOK
<1>5. calls'[c] \in Call
  BY <1>1, <1>3, <1>4 DEF Call
<1>6. calls' = [calls EXCEPT ![c] = calls'[c]]
  BY <1>2, <1>4 DEF Before, GatewayTypeOK
<1>7. CallKnows(c)'
  <2>1. ~calls[c].sent /\ calls[c].receivedAt <= clock
        /\ ~(calls[c].by = "gateway" /\ calls[c].status = "completed")
        /\ \A x \in calls[c].revoked : records[x].state = "REVOKED"
    BY <1>1 DEF CallKnows, AuditRevocation, CallAt
  <2>2. clock' = clock /\ records' = records
    BY DEF AuditRevocation, vars
  <2> QED
    BY <1>1, <1>3, <1>4, <2>1, <2>2, Pausing DEF Call
<1> QED
  BY <1>5, <1>6, <1>7 DEF Moves

(* What the store tells a consumer, in the terms of its record.            *)
LEMMA ConsumeTells ==
  ASSUME NEW r \in Record, NEW now \in Time
  PROVE  /\ ConsumeOutcome(r, now) = "CONSUMED"
              => r.state = "ISSUED" /\ Consumed(r, now).state = "CONSUMED"
         /\ r.state = "CONSUMED" => ConsumeOutcome(r, now) = "REPLAYED"
         /\ ConsumeOutcome(r, now) \in {"CONSUMED", "REPLAYED", "EXPIRED", "REVOKED"}
         /\ Consumed(r, now).state \in Ended
<1>1. r.state \in States /\ now \in Int
  BY PermitStoreAssumption DEF Record
<1>2. ExpireIfNeeded(r, now) \in Record
      /\ \/ ExpireIfNeeded(r, now) = r
         \/ ExpireIfNeeded(r, now).state = "EXPIRED"
  BY <1>1, ExpireFacts
<1>3. Consumed(r, now).state \in Ended
      /\ (Consumed(r, now).state = "CONSUMED" => r.state \in {"ISSUED", "CONSUMED"})
  <2> DEFINE e == ExpireIfNeeded(r, now)
  <2>1. CASE e.state # "ISSUED"
    BY <1>1, <1>2, <2>1 DEF Consumed, Ended, Record, States
  <2>2. CASE e.state = "ISSUED"
    <3>1. e = r
      BY <1>2, <2>2
    <3>2. Consumed(r, now).state \in {"REVOKED", "CONSUMED"}
      BY <1>2, <2>2 DEF Consumed, Record
    <3> QED
      BY <2>2, <3>1, <3>2 DEF Ended
  <2> QED
    BY <2>1, <2>2
<1> QED
  BY <1>1, <1>3 DEF ConsumeOutcome, Ended, States

LEMMA VerifyMoves ==
  ASSUME Before, NEW c \in Calls, NEW p \in PermitIDs, NEW now \in Readings, Verify(c, p, now)
  PROVE  /\ Moves(c)
         /\ calls'[c].permit = p /\ ~calls'[c].sent /\ calls'[c].at = "verified"
         /\ calls'[c].result = "VERIFIED"
              => records[p].state = "ISSUED" /\ records'[p].state = "CONSUMED"
<1>1. calls[c] \in Call /\ CallKnows(c) /\ calls[c] = Idle
  BY DEF Before, GatewayTypeOK, CallsKnow, Verify, CallAt, CallKnows
<1>2. clock' = clock /\ GrantAt(p, "released") /\ GrantAt(p, "released")' /\ Known(p)
  BY DEF Verify, Get, Consume, GrantAt, Before, GrantsKnow, GrantKnows
<1>3. records[p] \in Record /\ now \in Time /\ now \in Int
  BY <1>2, KnownIsRecord, PermitStoreAssumption DEF Before, TypeOK
<1>4. PICK state \in States, result \in Outcomes :
        /\ calls' = [calls EXCEPT ![c] = [@ EXCEPT !.at = "verified", !.by = "gateway",
                       !.permit = p, !.state = state, !.result = result]]
        /\ records'[p].state = state
        /\ result = "VERIFIED" => state = "CONSUMED" /\ records[p].state = "ISSUED"
  <2>1. CASE /\ Get(p, now)
             /\ calls' = [calls EXCEPT ![c] = [@ EXCEPT !.at = "verified", !.by = "gateway",
                            !.permit = p, !.state = ExpireIfNeeded(records[p], now).state,
                            !.result = OutcomeOf(ExpireIfNeeded(records[p], now).state)]]
    <3> DEFINE state == ExpireIfNeeded(records[p], now).state
    <3>1. state \in States
      BY <1>3, ExpireFacts DEF Record
    <3>2. OutcomeOf(state) \in Outcomes \ {"VERIFIED"}
      BY <3>1 DEF OutcomeOf, States, Outcomes
    <3>3. records'[p].state = state
      BY <2>1 DEF Get, Before, TypeOK
    <3> HIDE DEF state
    <3> QED
      BY <2>1, <3>1, <3>2, <3>3 DEF state
  <2>2. CASE /\ Consume(p, now)
             /\ calls' = [calls EXCEPT ![c] = [@ EXCEPT !.at = "verified", !.by = "gateway",
                            !.permit = p, !.state = Consumed(records[p], now).state,
                            !.result = IF ConsumeOutcome(records[p], now) = "CONSUMED"
                                       THEN "VERIFIED"
                                       ELSE ConsumeOutcome(records[p], now)]]
    <3> DEFINE state == Consumed(records[p], now).state
               outcome == ConsumeOutcome(records[p], now)
               result == IF outcome = "CONSUMED" THEN "VERIFIED" ELSE outcome
    <3>1. state \in States /\ outcome \in {"CONSUMED", "REPLAYED", "EXPIRED", "REVOKED"}
          /\ (outcome = "CONSUMED" => state = "CONSUMED" /\ records[p].state = "ISSUED")
      BY <1>3, ConsumeTells DEF Ended, States
    <3>2. records'[p].state = state
      BY <2>2 DEF Consume, Before, TypeOK
    <3> HIDE DEF state, outcome
    <3>3. result \in Outcomes /\ (result = "VERIFIED" => outcome = "CONSUMED")
      BY <3>1 DEF Outcomes
    <3> HIDE DEF result
    <3> QED
      BY <2>2, <3>1, <3>2, <3>3 DEF state, outcome, result
  <2> QED
    BY <2>1, <2>2 DEF Verify
<1>5. calls'[c] = [calls[c] EXCEPT !.at = "verified", !.by = "gateway",
                     !.permit = p, !.state = state, !.result = result]
  BY <1>4 DEF Before, GatewayTypeOK
<1>6. calls'[c] \in Call
  <2>1. /\ state \in States \cup {"none"} /\ p \in PermitIDs \cup {NoPermit}
        /\ result \in Outcomes \cup {"none", "WITHIN", "UNKNOWN", "BOUNDARY", "TIMELY"}
    BY <1>4
  <2> QED
    BY <1>1, <1>5, <2>1 DEF Call, Sources
<1>7. calls' = [calls EXCEPT ![c] = calls'[c]]
  BY <1>4, <1>5 DEF Before, GatewayTypeOK
<1>8. Known(p)' /\ clock \in Int
  BY <1>2, PermitStoreAssumption DEF Before, Onward, TypeOK
<1>9. CallKnows(c)'
  BY <1>1, <1>2, <1>4, <1>5, <1>8 DEF CallKnows, Idle, Known, GrantAt
<1>10. calls'[c].permit = p /\ ~calls'[c].sent /\ calls'[c].at = "verified"
       /\ calls'[c].result = result
  BY <1>1, <1>5 DEF Idle
<1>11. Moves(c)
  BY <1>6, <1>7, <1>9 DEF Moves
<1> QED
  BY <1>4, <1>10, <1>11

-----------------------------------------------------------------------------
(* One call moves at a time.                                               *)
LEMMA OneMoves ==
  ASSUME Before, [GatewayNext]_gatewayVars
  PROVE  calls' = calls \/ \E c \in Calls : Moves(c)
<1>1. ASSUME NEW c \in Calls, CallStep(c)
      PROVE  Moves(c)
  <2>1. ASSUME NEW now \in Readings, NEW p \in PermitIDs,
               CompleteExecution(c, "gateway", p, calls[c].status, now)
        PROVE  Moves(c)
    <3>1. calls[c] \in Call /\ CallKnows(c) /\ CallAt(c, "reporting")
      BY <2>1 DEF Before, GatewayTypeOK, CallsKnow, CompleteExecution, Enters
    <3>2. calls[c].status \in Executions
      BY <3>1 DEF CallKnows, CallAt, Call
    <3> QED
      BY <2>1, <3>2, CompleteMoves DEF Sources
  <2>2. ASSUME NEW now \in Readings, NEW p \in PermitIDs,
               IngestRuntimeEvent(c, "gateway", p, now)
        PROVE  Moves(c)
    BY <2>2, IngestMoves DEF Sources
  <2> QED
    BY <1>1, <2>1, <2>2, RecordVerificationMoves, ForwardMoves, AnswerMoves, TerminateMoves,
       NoteMoves, ReadMoves, RecordCompletionMoves, ListMoves, WithdrawMoves, AuditMoves
       DEF CallStep
<1>2. ASSUME NEW c \in Calls, Arrival(c)
      PROVE  Moves(c)
  <2>1. ASSUME NEW now \in Readings, NEW p \in PermitIDs,
               NEW status \in {"completed", "failed", "terminated"},
               CompleteExecution(c, "reporter", p, status, now)
        PROVE  Moves(c)
    <3>1. status \in Executions
      BY DEF Executions
    <3> QED
      BY <2>1, <3>1, CompleteMoves DEF Sources
  <2>2. ASSUME NEW now \in Readings, NEW p \in PermitIDs,
               IngestRuntimeEvent(c, "reporter", p, now)
        PROVE  Moves(c)
    BY <2>2, IngestMoves DEF Sources
  <2> QED
    BY <1>2, <2>1, <2>2, VerifyMoves, RevokeMoves, ChangeMoves DEF Arrival
<1>3. ASSUME NEW p \in PermitIDs, GrantStep(p)
      PROVE  calls' = calls
  BY <1>3 DEF GrantStep, Deny, Issue, Activate, Release, RevokeUnaudited, DropUnaudited
<1> QED
  BY <1>1, <1>2, <1>3 DEF GatewayNext, Authorize, Evict, routerVars, gatewayVars

LEMMA CallsTyped ==
  ASSUME Before, [GatewayNext]_gatewayVars
  PROVE  calls' \in [Calls -> Call] /\ CallsKnow'
<1>1. calls \in [Calls -> Call] /\ clock' \in Int
  BY PermitStoreAssumption DEF Before, GatewayTypeOK, TypeOK
<1>2. CASE calls' = calls
  BY <1>1, <1>2, CallStays DEF Before, CallsKnow
<1>3. ASSUME NEW c \in Calls, Moves(c)
      PROVE  calls' \in [Calls -> Call] /\ CallsKnow'
  <2>1. \A d \in Calls \ {c} : calls'[d] = calls[d]
    BY <1>1, <1>3 DEF Moves
  <2>2. \A d \in Calls : CallKnows(d)'
    BY <1>1, <1>3, <2>1, CallStays DEF Before, Moves
  <2>3. calls' \in [Calls -> Call]
    BY <1>1, <1>3 DEF Moves
  <2> QED
    BY <2>2, <2>3 DEF CallsKnow
<1> QED
  BY <1>2, <1>3, OneMoves

-----------------------------------------------------------------------------
(* How the authorizations and the active permits fare.                     *)
LEMMA GrantsTyped ==
  ASSUME TypeOK, GatewayTypeOK, [GatewayNext]_gatewayVars
  PROVE  grants' \in [PermitIDs -> Grant]
<1>0. grants \in [PermitIDs -> Grant]
  BY DEF GatewayTypeOK
<1>1. ASSUME NEW p \in PermitIDs,
             NEW at \in {"issued", "active", "unaudited", "revoked", "released", "refused"},
             AdvanceGrant(p, at)
      PROVE  grants' \in [PermitIDs -> Grant]
  BY <1>0, <1>1 DEF AdvanceGrant, Grant
<1>2. ASSUME NEW p \in PermitIDs, NEW k \in AuthorityKeys, Authorize(p, k)
      PROVE  grants' \in [PermitIDs -> Grant]
  <2>1. authorities[k].epoch \in 0..MaxEpoch
    <3>1. authorities[k] \in AuthorityState
      BY DEF TypeOK
    <3> QED
      BY <3>1, PermitStoreAssumption DEF AuthorityState, Epochs
  <2>2. PICK at \in {"resolving", "denying"} :
          grants' = [grants EXCEPT ![p] =
                       [at |-> at, key |-> k, epoch |-> authorities[k].epoch]]
    BY <1>2 DEF Authorize
  <2>3. [at |-> at, key |-> k, epoch |-> authorities[k].epoch] \in Grant
    BY <2>1 DEF Grant
  <2> QED
    BY <1>0, <2>2, <2>3
<1>3. ASSUME NEW p \in PermitIDs, GrantStep(p)
      PROVE  grants' \in [PermitIDs -> Grant]
  BY <1>1, <1>3 DEF GrantStep, Deny, Issue, Activate, Release, RevokeUnaudited,
                    DropUnaudited
<1>4. ASSUME NEW c \in Calls, CallStep(c) \/ Arrival(c)
      PROVE  grants' = grants
  BY <1>4 DEF CallStep, Arrival, RecordVerification, Forward, Answer, NoteEvent,
              ReadFinalState, RecordCompletion, ListRevoked, AuditRevocation,
              TerminatePermit, IngestRuntimeEvent, CompleteExecution, Withdraw,
              Verify, RevokePermit, ChangeAuthority
<1> QED
  BY <1>0, <1>2, <1>3, <1>4 DEF GatewayNext, Evict, routerVars, gatewayVars

LEMMA ActiveFares ==
  ASSUME GatewayTypeOK, [GatewayNext]_gatewayVars
  PROVE  \/ active' \subseteq active
         \/ \E p \in PermitIDs : GrantAt(p, "issued") /\ AdvanceGrant(p, "active")
                                   /\ active' = active \cup {p}
<1>1. ASSUME NEW p \in PermitIDs, GrantStep(p)
      PROVE  \/ active' \subseteq active
             \/ /\ GrantAt(p, "issued") /\ AdvanceGrant(p, "active")
                /\ active' = active \cup {p}
  BY <1>1 DEF GrantStep, Deny, Issue, Activate, Release, RevokeUnaudited, DropUnaudited
<1>2. ASSUME NEW c \in Calls, CallStep(c) \/ Arrival(c)
      PROVE  active' \subseteq active
  BY <1>2 DEF CallStep, Arrival, RecordVerification, Forward, Answer, NoteEvent,
              ReadFinalState, RecordCompletion, ListRevoked, AuditRevocation,
              TerminatePermit, IngestRuntimeEvent, CompleteExecution, Completed, Withdraw,
              Verify, RevokePermit, ChangeAuthority
<1> QED
  BY <1>1, <1>2 DEF GatewayNext, Authorize, Evict, routerVars, gatewayVars

LEMMA WhoseGrant ==
  ASSUME GatewayTypeOK, [GatewayNext]_gatewayVars, NEW p \in PermitIDs
  PROVE  \/ grants'[p] = grants[p]
         \/ GrantStep(p)
         \/ \E k \in AuthorityKeys : Authorize(p, k)
<1>1. ASSUME NEW q \in PermitIDs, q # p, NEW at, AdvanceGrant(q, at)
      PROVE  grants'[p] = grants[p]
  BY <1>1 DEF AdvanceGrant, GatewayTypeOK
<1>2. ASSUME NEW q \in PermitIDs, q # p, GrantStep(q)
      PROVE  grants'[p] = grants[p]
  BY <1>1, <1>2 DEF GrantStep, Deny, Issue, Activate, Release, RevokeUnaudited,
                    DropUnaudited
<1>3. ASSUME NEW q \in PermitIDs, q # p, NEW k \in AuthorityKeys, Authorize(q, k)
      PROVE  grants'[p] = grants[p]
  BY <1>3 DEF Authorize, GatewayTypeOK
<1>4. ASSUME NEW c \in Calls, CallStep(c) \/ Arrival(c)
      PROVE  grants' = grants
  BY <1>4 DEF CallStep, Arrival, RecordVerification, Forward, Answer, NoteEvent,
              ReadFinalState, RecordCompletion, ListRevoked, AuditRevocation,
              TerminatePermit, IngestRuntimeEvent, CompleteExecution, Withdraw,
              Verify, RevokePermit, ChangeAuthority
<1> QED
  BY <1>2, <1>3, <1>4 DEF GatewayNext, Evict, routerVars, gatewayVars

LEMMA GrantsKnowOn ==
  ASSUME TypeOK, GatewayTypeOK, GrantsKnow, CallsKnow, Onward, TypeOK',
         [GatewayNext]_gatewayVars
  PROVE  GrantsKnow'
<1> SUFFICES ASSUME NEW p \in PermitIDs PROVE GrantKnows(p)'
  BY DEF GrantsKnow
<1>1. GrantKnows(p) /\ grants \in [PermitIDs -> Grant]
  BY DEF GrantsKnow, GatewayTypeOK
<1>2. ~Known(p) => records[p].state # "ISSUED"
  BY NoRecordFacts DEF Known
<1>3. CASE grants'[p] = grants[p]
  <2>1. ~Known(p) => records'[p] = records[p]
    <3>1. ASSUME ~Known(p), Issues PROVE records'[p] = records[p]
      <4>1. PICK q \in PermitIDs, c \in Claims :
              Register(q, c) /\ GrantAt(q, "resolving") /\ AdvanceGrant(q, "issued")
        BY <3>1 DEF Issues
      <4>2. q # p
        BY <1>1, <1>3, <4>1 DEF GrantAt, AdvanceGrant, Grant
      <4> QED
        BY <4>1, <4>2 DEF Register, TypeOK
    <3> QED
      BY <3>1, QuietKeepsUnknown, GatewayStepIsStoreStep
  <2>2. p \in active' => p \in active
    <3>1. ASSUME NEW q \in PermitIDs, GrantAt(q, "issued"), AdvanceGrant(q, "active"),
                 active' = active \cup {q}, p \in active'
          PROVE  p \in active
      <4>1. q # p
        BY <1>1, <1>3, <3>1 DEF GrantAt, AdvanceGrant, Grant
      <4> QED
        BY <3>1, <4>1
    <3> QED
      BY <3>1, ActiveFares
  <2>3. grants[p].at \in {"revoked", "refused"} => records'[p] = records[p]
    BY <1>1, <1>2, <2>1 DEF GrantKnows, Onward, GrantAt
  <2>4. Known(p) => Known(p)'
    BY DEF Onward
  <2> QED
    BY <1>1, <1>3, <2>1, <2>2, <2>3, <2>4 DEF GrantKnows, Known
<1>4. ASSUME NEW at, AdvanceGrant(p, at)
      PROVE  grants'[p].at = at /\ grants'[p].key = grants[p].key
  BY <1>1, <1>4 DEF AdvanceGrant, Grant
<1>5. ASSUME NEW k \in AuthorityKeys, Authorize(p, k)
      PROVE  GrantKnows(p)'
  <2>1. /\ grants'[p].at \in {"resolving", "denying"} /\ grants'[p].key = k
        /\ grants[p].at = "idle" /\ records' = records /\ active' = active
    BY <1>1, <1>5 DEF Authorize, GrantAt, vars
  <2> QED
    BY <1>1, <2>1 DEF GrantKnows, Known
<1>6. CASE Deny(p)
  <2>1. /\ grants'[p].at = "refused" /\ grants[p].at = "denying"
        /\ records' = records /\ active' = active
    BY <1>4, <1>6 DEF Deny, GrantAt, vars
  <2> QED
    BY <1>1, <1>2, <2>1 DEF GrantKnows, Known
<1>7. ASSUME NEW e \in Time \ {0}, Issue(p, e)
      PROVE  GrantKnows(p)'
  <2>1. grants[p].at = "resolving" /\ active' = active
    BY <1>7 DEF Issue, GrantAt
  <2>2. CASE grants'[p].at = "refused" /\ records' = records
    BY <1>1, <1>2, <2>1, <2>2 DEF GrantKnows, Known
  <2>3. CASE grants'[p].at = "issued" /\ records'[p].state = "ISSUED"
    BY <1>1, <2>1, <2>3, NoRecordFacts DEF GrantKnows, Known
  <2>4. \A c : Register(p, c) => records'[p].state = "ISSUED"
    BY DEF Register, TypeOK
  <2> QED
    BY <1>4, <1>7, <2>2, <2>3, <2>4 DEF Issue, vars
<1>8. CASE Activate(p)
  <2>1. /\ grants'[p].at = "active" /\ grants[p].at = "issued" /\ records' = records
    BY <1>4, <1>8 DEF Activate, GrantAt, vars
  <2> QED
    BY <1>1, <2>1 DEF GrantKnows, Known
<1>9. CASE Release(p)
  <2>1. /\ grants'[p].at \in {"released", "unaudited"} /\ grants[p].at = "active"
        /\ records' = records /\ active' = active
    BY <1>4, <1>9 DEF Release, GrantAt, vars
  <2> QED
    BY <1>1, <2>1 DEF GrantKnows, Known
<1>10. ASSUME NEW now \in Readings, RevokeUnaudited(p, now)
       PROVE  GrantKnows(p)'
  <2>1. /\ grants'[p].at = "revoked" /\ grants[p].at = "unaudited" /\ active' = active
        /\ Revoke(p, now)
    BY <1>4, <1>10 DEF RevokeUnaudited, GrantAt
  <2>2. Known(p) /\ Known(p)' /\ records[p] \in Record /\ now \in Int
    BY <1>1, <2>1, KnownIsRecord, PermitStoreAssumption
       DEF Revoke, Onward, TypeOK
  <2>3. records'[p].state # "ISSUED"
    <3>1. records'[p] = Revoked(records[p], now)
      BY <2>1 DEF Revoke, TypeOK
    <3>2. ExpireIfNeeded(records[p], now) \in Record
      BY <2>2, ExpireFacts
    <3> QED
      BY <3>1, <3>2 DEF Revoked, Record
  <2> QED
    BY <1>1, <2>1, <2>2, <2>3 DEF GrantKnows
<1>11. CASE DropUnaudited(p)
  <2>1. /\ grants'[p].at = "refused" /\ grants[p].at = "revoked"
        /\ records' = records /\ active' = active \ {p}
    BY <1>4, <1>11 DEF DropUnaudited, GrantAt, vars
  <2> QED
    BY <1>1, <2>1 DEF GrantKnows, Known
<1> QED
  BY <1>3, <1>5, <1>6, <1>7, <1>8, <1>9, <1>10, <1>11, WhoseGrant DEF GrantStep

-----------------------------------------------------------------------------
(* How a receipt fares in a step: it stays, is lost, is written anew by an *)
(* authorization, or tells more of the same permit.                        *)
Amended(q) ==
  /\ Recorded(q) /\ receipts'[q] \in Receipt
  /\ receipts'[q].permit = receipts[q].permit
  /\ receipts[q].outcome # "none" => receipts'[q].outcome # "none"

Written(q, p) ==
  \/ /\ receipts'[q] \in Receipt
     /\ receipts'[q].permit = p /\ GrantAt(p, "active") /\ AdvanceGrant(p, "released")
     /\ receipts'[q].permitState = "ISSUED" /\ ~receipts'[q].attempted
     /\ receipts'[q].execution = "none" /\ receipts'[q].verdict = "AUTHORIZED"
  \/ /\ receipts'[q] \in Receipt
     /\ receipts'[q].permit = NoPermit /\ GrantAt(p, "denying") /\ AdvanceGrant(p, "refused")
     /\ receipts'[q].permitState = "none" /\ ~receipts'[q].attempted
     /\ receipts'[q].execution = "none" /\ receipts'[q].verdict = "BLOCKED_BEFORE_EXECUTION"

ReceiptFares(q) ==
  \/ receipts'[q] = receipts[q]
  \/ receipts'[q] = NoReceipt
  \/ Amended(q)
  \/ \E p \in PermitIDs : q = RequestOf[p] /\ Written(q, p)

LEMMA NoReceiptFacts == NoReceipt \notin Receipt
  BY DEF NoReceipt, Receipt

LEMMA ReceiptsFare ==
  ASSUME TypeOK, GatewayTypeOK, CallsKnow, [GatewayNext]_gatewayVars
  PROVE  /\ receipts' = [q \in Requests |-> receipts'[q]]
         /\ \A q \in Requests : ReceiptFares(q)
<1>0. /\ receipts \in [Requests -> Receipt \cup {NoReceipt}]
      /\ RequestOf \in [PermitIDs -> Requests] /\ NoPermit \notin PermitIDs
  BY GatewayAssumption DEF GatewayTypeOK
<1> DEFINE Fine == /\ receipts' = [q \in Requests |-> receipts'[q]]
                   /\ \A q \in Requests : ReceiptFares(q)
<1>1. ASSUME receipts' = receipts PROVE Fine
  BY <1>0, <1>1 DEF ReceiptFares
<1>2. ASSUME NEW q \in Requests, NEW r, receipts' = [receipts EXCEPT ![q] = r],
             \/ r = NoReceipt
             \/ /\ Recorded(q) /\ r \in Receipt /\ r.permit = receipts[q].permit
                /\ receipts[q].outcome # "none" => r.outcome # "none"
      PROVE  Fine
  <2>1. receipts'[q] = r /\ \A x \in Requests \ {q} : receipts'[x] = receipts[x]
    BY <1>0, <1>2
  <2>2. ReceiptFares(q)
    BY <1>2, <2>1 DEF ReceiptFares, Amended
  <2>3. \A x \in Requests : ReceiptFares(x)
    BY <2>1, <2>2 DEF ReceiptFares
  <2> QED
    BY <1>0, <1>2, <2>3
<1>3. ASSUME NEW p \in PermitIDs, NEW r, receipts' = [receipts EXCEPT ![RequestOf[p]] = r],
             receipts'[RequestOf[p]] = r => Written(RequestOf[p], p)
      PROVE  Fine
  <2>1. RequestOf[p] \in Requests
    BY <1>0
  <2>2. receipts'[RequestOf[p]] = r
        /\ \A x \in Requests \ {RequestOf[p]} : receipts'[x] = receipts[x]
    BY <1>0, <1>3, <2>1
  <2>3. \A x \in Requests : ReceiptFares(x)
    BY <1>3, <2>2 DEF ReceiptFares
  <2> QED
    BY <1>0, <1>3, <2>3
<1>4. ASSUME NEW q \in Requests, Recorded(q)
      PROVE  receipts[q] \in Receipt
  BY <1>0, <1>4 DEF Recorded
<1> HIDE DEF Fine
<1>5. ASSUME NEW p \in PermitIDs, Deny(p) PROVE Fine
  <2> DEFINE r == [permit |-> NoPermit, permitState |-> "none", outcome |-> "none",
                   verdict |-> "BLOCKED_BEFORE_EXECUTION",
                   attempted |-> FALSE, execution |-> "none"]
  <2>1. r \in Receipt
    BY DEF Receipt, Verdicts
  <2>2. receipts' = [receipts EXCEPT ![RequestOf[p]] = r] \/ receipts' = receipts
    BY <1>5 DEF Deny
  <2>3. receipts'[RequestOf[p]] = r => Written(RequestOf[p], p)
    BY <1>5, <2>1 DEF Written, Deny
  <2> HIDE DEF r
  <2> QED
    BY <1>1, <1>3, <2>2, <2>3
<1>6. ASSUME NEW p \in PermitIDs, Release(p) PROVE Fine
  <2> DEFINE r == [permit |-> p, permitState |-> "ISSUED", outcome |-> "none",
                   verdict |-> "AUTHORIZED", attempted |-> FALSE, execution |-> "none"]
  <2>1. r \in Receipt
    BY DEF Receipt, Verdicts, States
  <2>2. \/ receipts' = [receipts EXCEPT ![RequestOf[p]] = r] /\ AdvanceGrant(p, "released")
        \/ receipts' = receipts
    BY <1>6 DEF Release
  <2>3. AdvanceGrant(p, "released") /\ receipts'[RequestOf[p]] = r => Written(RequestOf[p], p)
    BY <1>6, <2>1 DEF Written, Release
  <2> HIDE DEF r
  <2> QED
    BY <1>1, <1>3, <2>2, <2>3
<1>7. ASSUME NEW c \in Calls, RecordVerification(c) PROVE Fine
  <2> DEFINE v == calls[c]
             q == RequestOf[v.permit]
             r == WithVerification(receipts[q], v)
  <2>1. /\ v.permit \in PermitIDs /\ v.state \in States
        /\ v.result \in Outcomes
    BY <1>7 DEF RecordVerification, CallsKnow, CallKnows, CallAt
  <2>2. q \in Requests
    BY <1>0, <2>1
  <2>3. CASE Recorded(q) /\ receipts' = [receipts EXCEPT ![q] = r]
    <3>1. receipts[q] \in Receipt
      BY <1>4, <2>2, <2>3
    <3>2. VerdictOf(v.result) \in Verdicts /\ v.result # "none"
      BY <2>1 DEF VerdictOf, Outcomes, Verdicts
    <3>3. r \in Receipt /\ r.permit = receipts[q].permit
          /\ (receipts[q].outcome # "none" => r.outcome # "none")
      BY <2>1, <3>1, <3>2 DEF WithVerification, Receipt
    <3> HIDE DEF q, r
    <3> QED
      BY <1>2, <2>2, <2>3, <3>3
  <2> QED
    BY <1>1, <1>7, <2>3 DEF RecordVerification
<1>8. ASSUME NEW c \in Calls, NoteEvent(c) PROVE Fine
  <2> DEFINE v == calls[c]
             q == RequestOf[v.permit]
             r == [receipts[q] EXCEPT !.verdict = EventVerdict(receipts[q], v.result)]
  <2>1. q \in Requests
    BY <1>0, <1>8 DEF NoteEvent, CallsKnow, CallKnows, CallAt
  <2>2. CASE Recorded(q)
             /\ receipts' = [receipts EXCEPT ![q].verdict = EventVerdict(receipts[q], v.result)]
    <3>1. receipts[q] \in Receipt
      BY <1>4, <2>1, <2>2
    <3>2. EventVerdict(receipts[q], v.result) \in Verdicts
      BY DEF EventVerdict, Verdicts
    <3>3. r \in Receipt /\ r.permit = receipts[q].permit /\ r.outcome = receipts[q].outcome
      BY <3>1, <3>2 DEF Receipt
    <3>4. receipts' = [receipts EXCEPT ![q] = r]
      BY <2>2
    <3> HIDE DEF q, r
    <3> QED
      BY <1>2, <2>1, <2>2, <3>3, <3>4
  <2> QED
    BY <1>1, <1>8, <2>2 DEF NoteEvent
<1>9. ASSUME NEW c \in Calls, RecordCompletion(c) PROVE Fine
  <2> DEFINE v == calls[c]
             q == RequestOf[v.permit]
             r == WithCompletion(receipts[q], v)
  <2>1. q \in Requests /\ v \in Call /\ v.status # "none"
    BY <1>0, <1>9 DEF RecordCompletion, CallsKnow, CallKnows, CallAt, GatewayTypeOK
  <2>2. CASE Recorded(q) /\ receipts' = [receipts EXCEPT ![q] = r]
    <3>1. receipts[q] \in Receipt
      BY <1>4, <2>1, <2>2
    <3>2. /\ v.state \in States \cup {"none"} /\ v.sent \in BOOLEAN
          /\ v.status \in Executions
          /\ receipts[q].verdict \in Verdicts
      BY <2>1, <3>1 DEF Call, Receipt
    <3>3. CompletionVerdict(receipts[q], v) \in Verdicts
      <4> DEFINE verdict == receipts[q].verdict
                 status == v.status
      <4>1. status \in {"completed", "failed", "terminated", "UPSTREAM_REDIRECT_BLOCKED"}
        BY <3>2 DEF Executions
      <4>2. {"EXECUTION_REDIRECT_BLOCKED", "EXECUTION_FAILED", "EXECUTION_TERMINATED",
             "EXECUTED_WITH_VALID_PERMIT", "COMPLETED_WITHOUT_BOUNDARY_VERIFICATION"}
              \subseteq Verdicts
        BY DEF Verdicts
      <4> QED
        BY <3>2, <4>1, <4>2 DEF CompletionVerdict
    <3>4. "EXPIRED" \in Outcomes /\ "PERMIT_EXPIRED" \in Verdicts
      BY DEF Outcomes, Verdicts
    <3>5. r \in Receipt /\ r.permit = receipts[q].permit
          /\ (receipts[q].outcome # "none" => r.outcome # "none")
      BY <3>1, <3>2, <3>3, <3>4 DEF WithCompletion, Receipt
    <3> HIDE DEF q, r
    <3> QED
      BY <1>2, <2>1, <2>2, <3>5
  <2> QED
    BY <1>1, <1>9, <2>2 DEF RecordCompletion
<1>10. ASSUME NEW c \in Calls, AuditRevocation(c) PROVE Fine
  <2> DEFINE q == RequestOf[calls[c].permit]
             r == WithRevocation(receipts[q])
  <2>1. q \in Requests
    BY <1>0, <1>10 DEF AuditRevocation, CallsKnow, CallKnows, CallAt
  <2>2. CASE Recorded(q) /\ receipts' = [receipts EXCEPT ![q] = r]
    <3>1. receipts[q] \in Receipt
      BY <1>4, <2>1, <2>2
    <3>2. "REVOKED" \in States /\ "REVOKED" \in Outcomes /\ "PERMIT_REVOKED" \in Verdicts
      BY DEF States, Outcomes, Verdicts
    <3>3. r \in Receipt /\ r.permit = receipts[q].permit /\ r.outcome # "none"
      BY <3>1, <3>2 DEF WithRevocation, Receipt
    <3> HIDE DEF q, r
    <3> QED
      BY <1>2, <2>1, <2>2, <3>3
  <2> QED
    BY <1>1, <1>10, <2>2 DEF AuditRevocation
<1>11. ASSUME NEW q \in Requests, Evict(q) PROVE Fine
  BY <1>2, <1>11 DEF Evict
<1>12. ASSUME NEW c \in Calls, CallStep(c) PROVE Fine
  BY <1>1, <1>7, <1>8, <1>9, <1>10, <1>12
     DEF CallStep, Forward, Answer, ReadFinalState, ListRevoked, TerminatePermit,
         IngestRuntimeEvent, CompleteExecution, Withdraw
<1>13. ASSUME NEW c \in Calls, Arrival(c) PROVE Fine
  BY <1>1, <1>13
     DEF Arrival, Verify, RevokePermit, ChangeAuthority, IngestRuntimeEvent, CompleteExecution
<1>14. ASSUME NEW p \in PermitIDs, GrantStep(p) PROVE Fine
  BY <1>1, <1>5, <1>6, <1>14 DEF GrantStep, Issue, Activate, RevokeUnaudited, DropUnaudited
<1> QED
  BY <1>1, <1>11, <1>12, <1>13, <1>14
     DEF GatewayNext, Authorize, routerVars, gatewayVars, Fine

-----------------------------------------------------------------------------
(* c called the upstream under its permit, or it alone still may.          *)
Holder(c) ==
  \/ calls[c].sent
  \/ CallAt(c, "cleared")
  \/ CallAt(c, "verified") /\ calls[c].result = "VERIFIED"

HoldersSpent ==
  \A c \in Calls : Holder(c) =>
    /\ calls[c].permit \in PermitIDs
    /\ records[calls[c].permit].state = "CONSUMED"
    /\ GrantAt(calls[c].permit, "released")

OneHolder ==
  \A c, d \in Calls :
    Holder(c) /\ Holder(d) /\ calls[c].permit = calls[d].permit => c = d

(* The receipt of p, if it is kept, tells how its verification ended.      *)
Told(p) ==
  LET r == receipts[RequestOf[p]]
  IN  r # NoReceipt /\ r.permit = p => r.outcome # "none"

HoldersTold ==
  \A c \in Calls : calls[c].sent \/ CallAt(c, "cleared") => Told(calls[c].permit)

Completing(c) == calls[c].at \in {"taken", "completing"}

(* How a call that is not a new verification moves on.                     *)
Advances(c) ==
  LET v == calls[c]
      w == calls'[c]
  IN  /\ w.at # "verified"
      /\ w.sent \/ w.at = "cleared" => Holder(c) /\ w.permit = v.permit
      /\ w.sent \/ w.at = "cleared" =>
           \/ v.sent \/ v.at = "cleared"
           \/ RecordVerification(c) /\ v.at = "verified" /\ w.at = "cleared"
      /\ v.sent => w.sent /\ w.permit = v.permit
      /\ v.sent /\ v.at # "awaiting" => w.status = v.status /\ w.at # "awaiting"
      /\ w.at \in {"taken", "completing"} =>
           \/ v.at \in {"taken", "completing"} /\ w.permit = v.permit
           \/ w.permit \in active /\ active' = active \ {w.permit}

LEMMA CallStepAdvances ==
  ASSUME GatewayTypeOK, CallsKnow, NEW c \in Calls, CallStep(c)
  PROVE  Advances(c)
<1>1. CallKnows(c) /\ calls[c] \in Call /\ calls \in [Calls -> Call]
  BY DEF CallsKnow, GatewayTypeOK
<1>2. ASSUME NEW at \in {"cleared", "done"}, CallAt(c, "verified"), Advance(c, at),
             at = "cleared" => calls[c].result = "VERIFIED" /\ RecordVerification(c)
      PROVE  Advances(c)
  <2>1. calls'[c] = [calls[c] EXCEPT !.at = at]
    BY <1>1, <1>2 DEF Advance
  <2> QED
    BY <1>1, <1>2, <2>1 DEF Advances, Call, CallAt, Holder, CallKnows
<1>3. CASE RecordVerification(c)
  BY <1>2, <1>3 DEF RecordVerification, Cleared
<1>4. CASE Forward(c)
  <2>1. CASE calls' = [calls EXCEPT ![c].at = "awaiting", ![c].sent = TRUE]
    <3>1. calls'[c] = [calls[c] EXCEPT !.at = "awaiting", !.sent = TRUE]
      BY <1>1, <2>1
    <3> QED
      BY <1>1, <1>4, <3>1 DEF Advances, Call, CallAt, Forward, Holder, CallKnows
  <2>2. CASE calls' = [calls EXCEPT ![c].at = "reporting", ![c].status = "failed"]
    <3>1. calls'[c] = [calls[c] EXCEPT !.at = "reporting", !.status = "failed"]
      BY <1>1, <2>2
    <3> QED
      BY <1>1, <1>4, <3>1 DEF Advances, Call, CallAt, Forward, Holder, CallKnows
  <2> QED
    BY <1>4, <2>1, <2>2 DEF Forward
<1>5. CASE Answer(c)
  <2>1. PICK at \in {"reporting", "observing"}, status \in Executions :
          calls' = [calls EXCEPT ![c].at = at, ![c].status = status]
    BY <1>5 DEF Answer, Executions
  <2>2. calls'[c] = [calls[c] EXCEPT !.at = at, !.status = status]
    BY <1>1, <2>1
  <2> QED
    BY <1>1, <1>5, <2>2 DEF Advances, Call, CallAt, Answer, Holder, CallKnows
<1>6. ASSUME NEW at \in {"noting", "done", "reporting"}, Advance(c, at), ~CallAt(c, "awaiting")
      PROVE  Advances(c)
  <2>1. calls'[c] = [calls[c] EXCEPT !.at = at]
    BY <1>1, <1>6 DEF Advance
  <2> QED
    BY <1>1, <1>6, <2>1 DEF Advances, Call, CallAt, Holder
<1>7. CASE NoteEvent(c) \/ RecordCompletion(c)
  BY <1>6, <1>7 DEF NoteEvent, RecordCompletion, CallAt, AfterEvent
<1>8. ASSUME NEW now \in Readings, TerminatePermit(c, now)
      PROVE  Advances(c)
  BY <1>6, <1>8 DEF TerminatePermit, CallAt
<1>9. CASE ReadFinalState(c)
  <2>1. PICK state : calls' = [calls EXCEPT ![c].at = "completing", ![c].state = state]
    BY <1>9 DEF ReadFinalState
  <2>2. calls'[c] = [calls[c] EXCEPT !.at = "completing", !.state = state]
    BY <1>1, <2>1
  <2> QED
    BY <1>1, <1>9, <2>2 DEF Advances, Call, CallAt, ReadFinalState, Holder
<1>10. ASSUME NEW at \in {"withdrawing", "done"}, NEW S,
              CallAt(c, "listing") \/ CallAt(c, "auditing"),
              calls' = [calls EXCEPT ![c].at = at, ![c].revoked = S]
       PROVE  Advances(c)
  <2>1. calls'[c] = [calls[c] EXCEPT !.at = at, !.revoked = S]
    BY <1>1, <1>10
  <2> QED
    BY <1>1, <1>10, <2>1 DEF Advances, Call, CallAt, Holder, CallKnows
<1>11. CASE ListRevoked(c)
  BY <1>10, <1>11 DEF ListRevoked
<1>12. CASE AuditRevocation(c)
  BY <1>10, <1>12 DEF AuditRevocation
<1>13. ASSUME NEW p \in PermitIDs, Withdraw(c, p)
       PROVE  Advances(c)
  <2>1. calls'[c] = [calls[c] EXCEPT !.at = "auditing", !.permit = p]
    BY <1>1, <1>13 DEF Withdraw
  <2> QED
    BY <1>1, <1>13, <2>1 DEF Advances, Call, CallAt, Withdraw, Holder, CallKnows
<1>14. ASSUME NEW p \in PermitIDs, NEW now \in Readings, IngestRuntimeEvent(c, "gateway", p, now)
       PROVE  Advances(c)
  <2>1. PICK at \in {"noting", "terminating", "reporting"},
             result \in {"WITHIN", "UNKNOWN", "REJECTED", "BOUNDARY"} :
          calls' = [calls EXCEPT ![c] = [@ EXCEPT !.at = at, !.by = "gateway", !.permit = p,
                                                  !.result = result]]
    BY <1>14 DEF IngestRuntimeEvent, AfterEvent, EventResults
  <2>2. calls'[c] = [calls[c] EXCEPT !.at = at, !.by = "gateway", !.permit = p,
                                     !.result = result]
    BY <1>1, <2>1
  <2>3. CallAt(c, "observing") /\ p = calls[c].permit
    BY <1>14 DEF IngestRuntimeEvent, Enters
  <2> QED
    BY <1>1, <2>2, <2>3 DEF Advances, Call, CallAt, Holder
<1>15. ASSUME NEW p \in PermitIDs, NEW now \in Readings,
              CompleteExecution(c, "gateway", p, calls[c].status, now)
       PROVE  Advances(c)
  <2>1. CallAt(c, "reporting") /\ p = calls[c].permit
    BY <1>15 DEF CompleteExecution, Enters
  <2>2. CASE Advance(c, "done")
    BY <1>6, <2>1, <2>2 DEF CallAt
  <2>3. ASSUME NEW result, p \in active, active' = active \ {p},
               calls' = [calls EXCEPT ![c] =
                           [@ EXCEPT !.at = "taken", !.by = "gateway", !.permit = p,
                             !.status = calls[c].status, !.result = result,
                             !.receivedAt = now]]
        PROVE  Advances(c)
    <3>1. calls'[c] = [calls[c] EXCEPT !.at = "taken", !.by = "gateway", !.permit = p,
                         !.status = calls[c].status, !.result = result, !.receivedAt = now]
      BY <1>1, <2>3
    <3> QED
      BY <1>1, <2>1, <2>3, <3>1 DEF Advances, Call, CallAt, Holder
  <2> QED
    BY <1>15, <2>2, <2>3 DEF CompleteExecution, Completed
<1> QED
  BY <1>3, <1>4, <1>5, <1>7, <1>8, <1>9, <1>11, <1>12, <1>13, <1>14, <1>15 DEF CallStep

LEMMA ArrivalAdvances ==
  ASSUME GatewayTypeOK, CallsKnow, NEW c \in Calls, Arrival(c)
  PROVE  \/ Advances(c)
         \/ \E p \in PermitIDs, now \in Readings : Verify(c, p, now)
<1>1. calls[c] \in Call /\ calls \in [Calls -> Call] /\ CallKnows(c)
  BY DEF CallsKnow, GatewayTypeOK
<1>2. CASE ~CallAt(c, "idle")
  BY <1>2 DEF Arrival, Verify, RevokePermit, ChangeAuthority, IngestRuntimeEvent,
              CompleteExecution, Enters
<1>3. ASSUME CallAt(c, "idle"), NEW w, calls' = [calls EXCEPT ![c] = w], ~w.sent,
             w.at \in {"withdrawing", "done", "listing", "noting", "terminating", "taken"},
             w.at = "taken" => w.permit \in active /\ active' = active \ {w.permit}
      PROVE  Advances(c)
  <2>1. calls'[c] = w /\ calls[c].at = "idle" /\ ~calls[c].sent
    BY <1>1, <1>3 DEF CallAt, CallKnows
  <2> QED
    BY <1>3, <2>1 DEF Advances
<1>4. ASSUME CallAt(c, "idle"), NEW p \in PermitIDs, NEW now \in Readings,
             RevokePermit(c, p, now)
      PROVE  Advances(c)
  <2>1. ~calls[c].sent
    BY <1>1, <1>4 DEF CallKnows, CallAt
  <2>2. CASE calls' = [calls EXCEPT ![c].at = "withdrawing", ![c].revoked = {p}]
    <3> DEFINE w == [calls[c] EXCEPT !.at = "withdrawing", !.revoked = {p}]
    <3>1. ~w.sent /\ w.at = "withdrawing"
      BY <1>1, <2>1 DEF Call
    <3>2. calls' = [calls EXCEPT ![c] = w]
      BY <1>1, <2>2
    <3> HIDE DEF w
    <3> QED
      BY <1>3, <1>4, <3>1, <3>2
  <2>3. CASE Advance(c, "done")
    <3> DEFINE w == [calls[c] EXCEPT !.at = "done"]
    <3>1. ~w.sent /\ w.at = "done" /\ calls' = [calls EXCEPT ![c] = w]
      BY <1>1, <2>1, <2>3 DEF Call, Advance
    <3> HIDE DEF w
    <3> QED
      BY <1>3, <1>4, <3>1
  <2> QED
    BY <1>4, <2>2, <2>3 DEF RevokePermit
<1>5. ASSUME CallAt(c, "idle"), NEW k \in AuthorityKeys, NEW enabled \in BOOLEAN,
             NEW at \in Readings, ChangeAuthority(c, k, enabled, at)
      PROVE  Advances(c)
  <2> DEFINE w == [calls[c] EXCEPT !.at = "listing", !.key = k,
                     !.epoch = authorities'[k].epoch, !.receivedAt = at]
  <2>1. ~w.sent /\ w.at = "listing"
    BY <1>1, <1>5 DEF Call, CallKnows, CallAt
  <2>2. calls' = [calls EXCEPT ![c] = w]
    BY <1>1, <1>5 DEF ChangeAuthority
  <2> HIDE DEF w
  <2> QED
    BY <1>3, <1>5, <2>1, <2>2
<1>6. ASSUME CallAt(c, "idle"), NEW p \in PermitIDs, NEW now \in Readings,
             IngestRuntimeEvent(c, "reporter", p, now)
      PROVE  Advances(c)
  <2>1. PICK at \in {"noting", "terminating", "done"},
             result \in {"WITHIN", "UNKNOWN", "REJECTED", "BOUNDARY"} :
          calls' = [calls EXCEPT ![c] = [@ EXCEPT !.at = at, !.by = "reporter", !.permit = p,
                                                  !.result = result]]
    BY <1>6 DEF IngestRuntimeEvent, AfterEvent, EventResults
  <2> DEFINE w == [calls[c] EXCEPT !.at = at, !.by = "reporter", !.permit = p,
                                   !.result = result]
  <2>2. ~w.sent /\ w.at = at
    BY <1>1, <1>6 DEF Call, CallKnows, CallAt
  <2>3. calls' = [calls EXCEPT ![c] = w]
    BY <2>1
  <2> HIDE DEF w
  <2> QED
    BY <1>3, <1>6, <2>2, <2>3
<1>7. ASSUME CallAt(c, "idle"), NEW p \in PermitIDs, NEW now \in Readings,
             NEW status \in {"completed", "failed", "terminated"},
             CompleteExecution(c, "reporter", p, status, now)
      PROVE  Advances(c)
  <2>1. CASE Advance(c, "done")
    <3> DEFINE w == [calls[c] EXCEPT !.at = "done"]
    <3>1. ~w.sent /\ w.at = "done" /\ calls' = [calls EXCEPT ![c] = w]
      BY <1>1, <1>7, <2>1 DEF Call, Advance, CallKnows, CallAt
    <3> HIDE DEF w
    <3> QED
      BY <1>3, <1>7, <3>1
  <2>2. ASSUME NEW result, p \in active, active' = active \ {p},
               calls' = [calls EXCEPT ![c] =
                           [@ EXCEPT !.at = "taken", !.by = "reporter", !.permit = p,
                             !.status = status, !.result = result, !.receivedAt = now]]
        PROVE  Advances(c)
    <3> DEFINE w == [calls[c] EXCEPT !.at = "taken", !.by = "reporter", !.permit = p,
                       !.status = status, !.result = result, !.receivedAt = now]
    <3>1. ~w.sent /\ w.at = "taken" /\ w.permit = p
      BY <1>1, <1>7 DEF Call, CallKnows, CallAt
    <3>2. calls' = [calls EXCEPT ![c] = w]
      BY <2>2
    <3> HIDE DEF w
    <3> QED
      BY <1>3, <1>7, <2>2, <3>1, <3>2
  <2> QED
    BY <1>7, <2>1, <2>2 DEF CompleteExecution, Completed
<1> QED
  BY <1>2, <1>4, <1>5, <1>6, <1>7 DEF Arrival

-----------------------------------------------------------------------------
(* The inductive invariant, as far as it does not depend on whose request  *)
(* a permit is issued for.                                                 *)
GatewayInv ==
  /\ StoreInv
  /\ GatewayTypeOK
  /\ GrantsKnow
  /\ CallsKnow
  /\ HoldersSpent
  /\ OneHolder
  /\ HoldersTold

LEMMA EachCall ==
  ASSUME GatewayTypeOK, CallsKnow, [GatewayNext]_gatewayVars, NEW c \in Calls
  PROVE  \/ calls'[c] = calls[c]
         \/ Advances(c)
         \/ \E p \in PermitIDs, now \in Readings : Verify(c, p, now)
<1>1. ASSUME NEW p \in PermitIDs, GrantStep(p)
      PROVE  calls' = calls
  BY <1>1 DEF GrantStep, Deny, Issue, Activate, Release, RevokeUnaudited, DropUnaudited
<1>2. ASSUME NEW d \in Calls, d # c, CallStep(d)
      PROVE  calls'[c] = calls[c]
  <2>1. CASE ListRevoked(d) \/ AuditRevocation(d) \/ ReadFinalState(d)
    BY <1>2, <2>1 DEF ListRevoked, AuditRevocation, ReadFinalState, GatewayTypeOK
  <2>2. CASE RecordVerification(d) \/ Forward(d) \/ Answer(d) \/ NoteEvent(d)
               \/ RecordCompletion(d)
    BY <1>2, <2>2 DEF RecordVerification, Forward, Answer, NoteEvent, RecordCompletion,
                      Advance, GatewayTypeOK
  <2>3. ASSUME NEW now \in Readings, NEW p \in PermitIDs,
               \/ IngestRuntimeEvent(d, "gateway", p, now)
               \/ CompleteExecution(d, "gateway", p, calls[d].status, now)
        PROVE  calls'[c] = calls[c]
    BY <1>2, <2>3 DEF IngestRuntimeEvent, CompleteExecution, Advance, GatewayTypeOK
  <2>4. ASSUME NEW now \in Readings, TerminatePermit(d, now)
        PROVE  calls'[c] = calls[c]
    BY <1>2, <2>4 DEF TerminatePermit, Advance, GatewayTypeOK
  <2>5. ASSUME NEW p \in PermitIDs, Withdraw(d, p)
        PROVE  calls'[c] = calls[c]
    BY <1>2, <2>5 DEF Withdraw, GatewayTypeOK
  <2> QED
    BY <1>2, <2>1, <2>2, <2>3, <2>4, <2>5 DEF CallStep
<1>3. ASSUME NEW d \in Calls, d # c, Arrival(d)
      PROVE  calls'[c] = calls[c]
  <2>1. ASSUME NEW now \in Readings, NEW p \in PermitIDs,
               Verify(d, p, now) \/ RevokePermit(d, p, now)
        PROVE  calls'[c] = calls[c]
    BY <1>3, <2>1 DEF Verify, RevokePermit, Advance, GatewayTypeOK
  <2>2. ASSUME NEW now \in Readings, NEW p \in PermitIDs,
               IngestRuntimeEvent(d, "reporter", p, now)
        PROVE  calls'[c] = calls[c]
    BY <1>3, <2>2 DEF IngestRuntimeEvent, GatewayTypeOK
  <2>3. ASSUME NEW now \in Readings, NEW p \in PermitIDs,
               NEW status \in {"completed", "failed", "terminated"},
               CompleteExecution(d, "reporter", p, status, now)
        PROVE  calls'[c] = calls[c]
    BY <1>3, <2>3 DEF CompleteExecution, Advance, GatewayTypeOK
  <2>4. ASSUME NEW k \in AuthorityKeys, NEW enabled \in BOOLEAN, NEW at \in Readings,
               ChangeAuthority(d, k, enabled, at)
        PROVE  calls'[c] = calls[c]
    BY <1>3, <2>4 DEF ChangeAuthority, GatewayTypeOK
  <2> QED
    BY <1>3, <2>1, <2>2, <2>3, <2>4 DEF Arrival
<1> QED
  BY <1>1, <1>2, <1>3, CallStepAdvances, ArrivalAdvances
     DEF GatewayNext, Authorize, Evict, routerVars, gatewayVars

LEMMA InvIsBefore ==
  ASSUME GatewayInv, [GatewayNext]_gatewayVars
  PROVE  Before /\ StoreInv'
<1>1. Onward
  BY StepIsOnward DEF GatewayInv
<1>2. TypeOK
  BY DEF GatewayInv, StoreInv
<1>3. [Next]_vars
  BY <1>2, GatewayStepIsStoreStep, StoreStep DEF GatewayInv
<1>4. StoreInv'
  BY <1>3, NextPreserves DEF GatewayInv
<1> QED
  BY <1>1, <1>2, <1>4 DEF Before, GatewayInv, StoreInv

LEMMA HoldersSpentOn ==
  ASSUME GatewayInv, [GatewayNext]_gatewayVars
  PROVE  HoldersSpent'
<1>0. Before
  BY InvIsBefore
<1> SUFFICES ASSUME NEW c \in Calls, Holder(c)'
             PROVE  /\ calls'[c].permit \in PermitIDs
                    /\ records'[calls'[c].permit].state = "CONSUMED"
                    /\ GrantAt(calls[c].permit, "released")'
  BY DEF HoldersSpent
<1>1. CASE Holder(c) /\ calls'[c].permit = calls[c].permit
  BY <1>0, <1>1 DEF GatewayInv, HoldersSpent, Before, Onward, Ended, GrantAt
<1>2. CASE calls'[c] = calls[c]
  BY <1>1, <1>2 DEF Holder, CallAt
<1>3. CASE Advances(c)
  BY <1>1, <1>3 DEF Advances, Holder, CallAt
<1>4. ASSUME NEW p \in PermitIDs, NEW now \in Readings, Verify(c, p, now)
      PROVE  /\ calls'[c].permit \in PermitIDs
             /\ records'[calls'[c].permit].state = "CONSUMED"
             /\ GrantAt(calls[c].permit, "released")'
  <2>1. /\ calls'[c].permit = p /\ ~calls'[c].sent /\ calls'[c].at = "verified"
        /\ calls'[c].result = "VERIFIED" => records'[p].state = "CONSUMED"
    BY <1>0, <1>4, VerifyMoves
  <2>2. calls'[c].result = "VERIFIED"
    BY <2>1 DEF Holder, CallAt
  <2>3. grants'[p].at = "released"
    BY <1>4 DEF Verify, GrantAt
  <2> QED
    BY <2>1, <2>2, <2>3 DEF GrantAt
<1> QED
  BY <1>2, <1>3, <1>4, EachCall DEF GatewayInv

LEMMA OneHolderOn ==
  ASSUME GatewayInv, [GatewayNext]_gatewayVars
  PROVE  OneHolder'
<1>0. Before
  BY InvIsBefore
<1>1. ASSUME NEW c \in Calls, Holder(c)'
      PROVE  \/ Holder(c) /\ calls'[c].permit = calls[c].permit
             \/ /\ records[calls'[c].permit].state = "ISSUED"
                /\ \A d \in Calls \ {c} : calls'[d] = calls[d]
  <2>1. CASE calls'[c] = calls[c]
    BY <1>1, <2>1 DEF Holder, CallAt
  <2>2. CASE Advances(c)
    BY <1>1, <2>2 DEF Advances, Holder, CallAt
  <2>3. ASSUME NEW p \in PermitIDs, NEW now \in Readings, Verify(c, p, now)
        PROVE  /\ records[calls'[c].permit].state = "ISSUED"
               /\ \A d \in Calls \ {c} : calls'[d] = calls[d]
    <3>1. /\ calls'[c].permit = p /\ ~calls'[c].sent /\ calls'[c].at = "verified"
          /\ calls'[c].result = "VERIFIED" => records[p].state = "ISSUED"
      BY <1>0, <2>3, VerifyMoves
    <3>2. calls'[c].result = "VERIFIED"
      BY <1>1, <3>1 DEF Holder, CallAt
    <3>3. calls' = [calls EXCEPT ![c] = calls'[c]]
      BY <1>0, <2>3, VerifyMoves DEF Moves
    <3> QED
      BY <3>1, <3>2, <3>3 DEF GatewayInv, GatewayTypeOK
  <2> QED
    BY <2>1, <2>2, <2>3, EachCall DEF GatewayInv
<1> SUFFICES ASSUME NEW c \in Calls, NEW d \in Calls, c # d, Holder(c)', Holder(d)',
                    calls'[c].permit = calls'[d].permit
             PROVE  FALSE
  BY DEF OneHolder
<1>2. CASE /\ Holder(c) /\ calls'[c].permit = calls[c].permit
           /\ Holder(d) /\ calls'[d].permit = calls[d].permit
  BY <1>2 DEF GatewayInv, OneHolder
<1>3. ASSUME NEW x \in Calls, NEW y \in Calls, x # y, Holder(y)',
             calls'[x].permit = calls'[y].permit,
             records[calls'[x].permit].state = "ISSUED",
             \A z \in Calls \ {x} : calls'[z] = calls[z]
      PROVE  FALSE
  <2>1. Holder(y) /\ calls'[y].permit = calls[y].permit
    BY <1>3 DEF Holder, CallAt
  <2>2. records[calls[y].permit].state = "CONSUMED"
    BY <2>1 DEF GatewayInv, HoldersSpent
  <2> QED
    BY <1>3, <2>1, <2>2
<1> QED
  BY <1>1, <1>2, <1>3

LEMMA HoldersToldOn ==
  ASSUME GatewayInv, [GatewayNext]_gatewayVars
  PROVE  HoldersTold'
<1>0. Before /\ TypeOK
  BY InvIsBefore DEF Before
<1> SUFFICES ASSUME NEW c \in Calls, calls'[c].sent \/ calls'[c].at = "cleared"
             PROVE  Told(calls[c].permit)'
  BY DEF HoldersTold, CallAt
<1>1. ASSUME NEW p, p = calls[c].permit, calls[c].sent \/ calls[c].at = "cleared",
             calls'[c].permit = p
      PROVE  Told(calls[c].permit)'
  <2> DEFINE q == RequestOf[p]
  <2>1. p \in PermitIDs /\ GrantAt(p, "released") /\ Told(p)
    BY <1>1 DEF GatewayInv, HoldersSpent, HoldersTold, Holder, CallAt
  <2>2. q \in Requests /\ NoPermit \notin PermitIDs
    BY <2>1, GatewayAssumption
  <2>3. ReceiptFares(q)
    BY <1>0, <2>2, ReceiptsFare DEF GatewayInv
  <2>4. receipts'[q] # NoReceipt /\ receipts'[q].permit = p => receipts'[q].outcome # "none"
    BY <2>1, <2>2, <2>3 DEF ReceiptFares, Amended, Written, Told, Recorded, GrantAt
  <2> QED
    BY <1>1, <2>4 DEF Told
<1>2. CASE calls'[c] = calls[c]
  BY <1>1, <1>2
<1>3. CASE Advances(c) /\ ~(calls[c].sent \/ calls[c].at = "cleared")
  <2> DEFINE v == calls[c]
             q == RequestOf[v.permit]
  <2>1. /\ RecordVerification(c) /\ v.at = "verified" /\ calls'[c].at = "cleared"
        /\ calls'[c].permit = v.permit
    BY <1>3 DEF Advances
  <2>2. /\ v.permit \in PermitIDs /\ v.result \in Outcomes /\ v \in Call
    BY <2>1 DEF GatewayInv, CallsKnow, CallKnows, GatewayTypeOK
  <2>3. q \in Requests
    BY <2>2, GatewayAssumption
  <2>4. receipts'[q] = WithVerification(receipts[q], v) /\ receipts[q] \in Receipt
    <3>1. ASSUME Advance(c, IF Cleared(v, FALSE) THEN "cleared" ELSE "done")
          PROVE  FALSE
      BY <2>1, <2>2, <3>1 DEF Advance, Cleared, GatewayInv, GatewayTypeOK, Call
    <3>2. Recorded(q) /\ receipts' = [receipts EXCEPT ![q] = WithVerification(@, v)]
      BY <2>1, <3>1 DEF RecordVerification
    <3> QED
      BY <2>3, <3>2 DEF GatewayInv, GatewayTypeOK, Recorded
  <2>5. receipts'[q].outcome # "none"
    BY <2>2, <2>4 DEF WithVerification, Receipt, Priority, Outcomes
  <2> QED
    BY <2>1, <2>5 DEF Told
<1>4. CASE Advances(c) /\ (calls[c].sent \/ calls[c].at = "cleared")
  BY <1>1, <1>4 DEF Advances
<1>5. ASSUME NEW p \in PermitIDs, NEW now \in Readings, Verify(c, p, now)
      PROVE  FALSE
  BY <1>0, <1>5, VerifyMoves
<1> QED
  BY <1>2, <1>3, <1>4, <1>5, EachCall DEF GatewayInv

LEMMA GatewayInitEstablishes == GatewayInit => GatewayInv
<1> SUFFICES ASSUME GatewayInit PROVE GatewayInv
  OBVIOUS
<1>1. StoreInv
  BY InitEstablishes DEF GatewayInit
<1>2. Idle \in Call
  BY PermitStoreAssumption DEF Idle, Call, Sources
<1>3. [at |-> "idle", key |-> "none", epoch |-> 0] \in Grant
  BY PermitStoreAssumption DEF Grant
<1>4. GatewayTypeOK
  BY <1>1, <1>2, <1>3 DEF GatewayTypeOK, GatewayInit, StoreInv
<1>5. GrantsKnow
  BY DEF GatewayInit, Init, GrantsKnow, GrantKnows, Known
<1>6. CallsKnow
  BY DEF GatewayInit, Init, CallsKnow, CallKnows, Idle
<1>7. \A c \in Calls : ~Holder(c)
  BY DEF GatewayInit, Holder, CallAt, Idle
<1> QED
  BY <1>1, <1>4, <1>5, <1>6, <1>7
     DEF GatewayInv, HoldersSpent, OneHolder, HoldersTold, Holder

LEMMA GatewayNextPreserves == GatewayInv /\ [GatewayNext]_gatewayVars => GatewayInv'
<1> SUFFICES ASSUME GatewayInv, [GatewayNext]_gatewayVars PROVE GatewayInv'
  OBVIOUS
<1>1. Before /\ StoreInv'
  BY InvIsBefore
<1>2. GatewayTypeOK'
  <2>1. TypeOK' /\ TypeOK
    BY <1>1 DEF Before
  <2>2. active' \subseteq PermitIDs
    BY ActiveFares DEF GatewayInv, GatewayTypeOK
  <2>3. receipts' \in [Requests -> Receipt \cup {NoReceipt}]
    <3>1. receipts' = [q \in Requests |-> receipts'[q]] /\ \A q \in Requests : ReceiptFares(q)
      BY <2>1, ReceiptsFare DEF GatewayInv
    <3>2. \A q \in Requests : receipts'[q] \in Receipt \cup {NoReceipt}
      BY <3>1 DEF ReceiptFares, Amended, Written, GatewayInv, GatewayTypeOK
    <3> QED
      BY <3>1, <3>2
  <2>4. grants' \in [PermitIDs -> Grant]
    BY <2>1, GrantsTyped DEF GatewayInv
  <2>5. calls' \in [Calls -> Call]
    BY <1>1, CallsTyped
  <2> QED
    BY <2>1, <2>2, <2>3, <2>4, <2>5 DEF GatewayTypeOK
<1>3. GrantsKnow'
  BY <1>1, GrantsKnowOn DEF Before
<1>4. CallsKnow'
  BY <1>1, CallsTyped
<1> QED
  BY <1>1, <1>2, <1>3, <1>4, HoldersSpentOn, OneHolderOn, HoldersToldOn DEF GatewayInv

(* The gateway's invariant holds in every reachable state                  *)
(* (router.go, proxy.go).                                                  *)
THEOREM GatewayIsCorrect == GatewaySpec => []GatewayInv
<1>1. GatewayInit => GatewayInv
  BY GatewayInitEstablishes
<1>2. GatewayInv /\ [GatewayNext]_gatewayVars => GatewayInv'
  BY GatewayNextPreserves
<1> QED
  BY <1>1, <1>2, PTL DEF GatewaySpec

(* Every variable of the gateway keeps its type.                           *)
THEOREM GatewayTypes == GatewaySpec => []GatewayTypeOK
<1>1. GatewayInv => GatewayTypeOK
  BY DEF GatewayInv
<1> QED
  BY <1>1, GatewayIsCorrect, PTL

(* At most one call reaches the upstream under a permit (proxy.go:235-247).*)
THEOREM ForwardsAreUnique == GatewaySpec => []OneForwardPerPermit
<1>1. GatewayInv => OneForwardPerPermit
  BY DEF GatewayInv, OneHolder, Holder, OneForwardPerPermit
<1> QED
  BY <1>1, GatewayIsCorrect, PTL

(* Whatever is forwarded was spent and is on record (proxy.go:232-248).    *)
THEOREM ForwardsAreRecorded == GatewaySpec => []ForwardedOnRecord
<1>1. GatewayInv => ForwardedOnRecord
  BY DEF GatewayInv, HoldersSpent, HoldersTold, Told, Holder, ForwardedOnRecord
<1> QED
  BY <1>1, GatewayIsCorrect, PTL

(* A permit whose authorization failed is dead (router.go:266-274).        *)
THEOREM RefusalsAreDead == GatewaySpec => []RefusedGrantsAreDead
<1>1. ASSUME GatewayInv, NEW p \in PermitIDs, GrantAt(p, "refused")
      PROVE  /\ p \notin InState({"ISSUED"}) /\ p \notin active
             /\ \A c \in Calls : calls[c].sent => calls[c].permit # p
  <2>1. GrantKnows(p) /\ grants[p].at = "refused"
    BY <1>1 DEF GatewayInv, GrantsKnow, GrantAt
  <2>2. \A c \in Calls : calls[c].sent => grants[calls[c].permit].at = "released"
    BY <1>1 DEF GatewayInv, HoldersSpent, Holder, GrantAt
  <2> QED
    BY <2>1, <2>2 DEF GrantKnows, InState
<1>2. GatewayInv => RefusedGrantsAreDead
  BY <1>1 DEF RefusedGrantsAreDead
<1> QED
  BY <1>2, GatewayIsCorrect, PTL

(* The gateway takes no step with the store that the store's own           *)
(* specification does not take (router.go:140-509).                        *)
THEOREM GatewayUsesTheStore == GatewaySpec => Spec
<1>1. GatewayInit => Init
  BY DEF GatewayInit
<1>2. GatewayInv /\ [GatewayNext]_gatewayVars => [Next]_vars
  BY GatewayStepIsStoreStep, StoreStep DEF GatewayInv, StoreInv
<1> QED
  BY <1>1, <1>2, GatewayIsCorrect, PTL DEF GatewaySpec, Spec

=============================================================================
