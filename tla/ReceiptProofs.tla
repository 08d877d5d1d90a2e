---------------------------- MODULE ReceiptProofs -----------------------------
(***************************************************************************)
(* Theorems about the receipts of the gateway, when no two permits share a *)
(* request (OwnRequests).                                                  *)
(***************************************************************************)
EXTENDS GatewayProofs

(* A receipt of an authorization that was denied.                          *)
Blank(r) ==
  /\ r.permitState = "none" /\ ~r.attempted /\ r.execution = "none"
  /\ r.verdict # "EXECUTED_WITH_VALID_PERMIT"

(* Whose receipt it is: that of a released permit, or of a denial.         *)
ReceiptKnows(q) ==
  Recorded(q) =>
    \E p \in PermitIDs :
      /\ RequestOf[p] = q
      /\ \/ receipts[q].permit = p /\ GrantAt(p, "released")
         \/ /\ receipts[q].permit = NoPermit /\ GrantAt(p, "refused")
            /\ ~Known(p) /\ Blank(receipts[q])

ReceiptsKnow == \A q \in Requests : ReceiptKnows(q)

(* The envelope of p was entered.                                          *)
Entered(p) == grants[p].at \in {"active", "unaudited", "revoked", "released", "refused"}

(* A completion that has taken its permit from the active ones is the only *)
(* one, and the receipt does not tell of it yet (router.go:684-691).       *)
CompletionKnows(c) ==
  LET p == calls[c].permit
      q == RequestOf[p]
  IN  /\ p \in PermitIDs /\ p \notin active /\ Entered(p)
      /\ Recorded(q) => receipts[q].execution = "none"

CompletionsKnow ==
  /\ \A c \in Calls : Completing(c) => CompletionKnows(c)
  /\ \A c, d \in Calls :
       Completing(c) /\ Completing(d) /\ calls[c].permit = calls[d].permit => c = d
  /\ \A q \in Requests :
       Recorded(q) /\ receipts[q].execution # "none" => receipts[q].permit \notin active

ReceiptInv ==
  /\ GatewayInv
  /\ ReceiptsKnow
  /\ CompletionsKnow
  /\ FinalStatesAreTrue
  /\ ReceiptsNeverOverstate

-----------------------------------------------------------------------------
(* The ways a call rewrites the receipt of its permit.                     *)
Rewrites(c, q) ==
  /\ q = RequestOf[calls[c].permit] /\ Recorded(q) /\ receipts[q] \in Receipt
  /\ \/ /\ RecordVerification(c)
        /\ receipts'[q] = WithVerification(receipts[q], calls[c])
     \/ /\ NoteEvent(c)
        /\ receipts'[q] = [receipts[q] EXCEPT !.verdict = EventVerdict(receipts[q], calls[c].result)]
     \/ /\ RecordCompletion(c)
        /\ receipts'[q] = WithCompletion(receipts[q], calls[c])
     \/ /\ AuditRevocation(c)
        /\ receipts'[q] = WithRevocation(receipts[q])

Rewritten(q) ==
  \/ receipts'[q] = receipts[q]
  \/ receipts'[q] = NoReceipt
  \/ \E p \in PermitIDs : q = RequestOf[p] /\ Written(q, p)
  \/ \E c \in Calls : Rewrites(c, q)

LEMMA ReceiptsRewritten ==
  ASSUME TypeOK, GatewayTypeOK, CallsKnow, [GatewayNext]_gatewayVars, NEW q \in Requests
  PROVE  Rewritten(q)
<1>0. ReceiptFares(q) /\ receipts \in [Requests -> Receipt \cup {NoReceipt}]
  BY ReceiptsFare DEF GatewayTypeOK
<1>1. CASE receipts'[q] = receipts[q] \/ receipts'[q] = NoReceipt
           \/ \E p \in PermitIDs : q = RequestOf[p] /\ Written(q, p)
  BY <1>1 DEF Rewritten
<1>2. CASE receipts'[q] # receipts[q] /\ Amended(q)
  <2>1. ASSUME NEW c \in Calls, CallStep(c) PROVE Rewritten(q)
    <3>1. receipts' # receipts /\ receipts[q] \in Receipt
      BY <1>0, <1>2 DEF Amended, Recorded
    <3>2. ASSUME NEW r, receipts' = [receipts EXCEPT ![RequestOf[calls[c].permit]] = r]
          PROVE  q = RequestOf[calls[c].permit] /\ receipts'[q] = r
      BY <1>0, <1>2, <3>2
    <3>3. CASE RecordVerification(c)
      <4>1. receipts' = [receipts EXCEPT ![RequestOf[calls[c].permit]] =
                           WithVerification(@, calls[c])]
        BY <3>1, <3>3 DEF RecordVerification
      <4> QED
        BY <1>2, <3>1, <3>2, <3>3, <4>1 DEF Rewritten, Rewrites, Amended
    <3>4. CASE NoteEvent(c)
      <4> DEFINE x == RequestOf[calls[c].permit]
      <4>1. receipts' = [receipts EXCEPT ![x] =
              [receipts[x] EXCEPT !.verdict = EventVerdict(receipts[x], calls[c].result)]]
        BY <3>1, <3>4 DEF NoteEvent
      <4> QED
        BY <1>2, <3>1, <3>2, <3>4, <4>1 DEF Rewritten, Rewrites, Amended
    <3>5. CASE RecordCompletion(c)
      <4>1. receipts' = [receipts EXCEPT ![RequestOf[calls[c].permit]] =
                           WithCompletion(@, calls[c])]
        BY <3>1, <3>5 DEF RecordCompletion
      <4> QED
        BY <1>2, <3>1, <3>2, <3>5, <4>1 DEF Rewritten, Rewrites, Amended
    <3>6. CASE AuditRevocation(c)
      <4>1. receipts' = [receipts EXCEPT ![RequestOf[calls[c].permit]] = WithRevocation(@)]
        BY <3>1, <3>6 DEF AuditRevocation
      <4> QED
        BY <1>2, <3>1, <3>2, <3>6, <4>1 DEF Rewritten, Rewrites, Amended
    <3> QED
      BY <2>1, <3>1, <3>3, <3>4, <3>5, <3>6
         DEF CallStep, Forward, Answer, ReadFinalState, ListRevoked, TerminatePermit,
             IngestRuntimeEvent, CompleteExecution, Withdraw
  <2>2. ASSUME NEW c \in Calls, Arrival(c) PROVE receipts' = receipts
    BY <2>2 DEF Arrival, Verify, RevokePermit, ChangeAuthority, IngestRuntimeEvent,
                CompleteExecution
  <2>3. ASSUME NEW p \in PermitIDs, GrantStep(p) PROVE Rewritten(q)
    <3>1. CASE Release(p) \/ Deny(p)
      <4>1. RequestOf[p] \in Requests
        BY GatewayAssumption
      <4>2. GrantAt(p, "active") \/ GrantAt(p, "denying")
        BY <3>1 DEF Release, Deny
      <4>3. q = RequestOf[p]
        BY <1>0, <1>2, <3>1, <4>1 DEF Release, Deny
      <4>4. receipts'[q] \in Receipt
        BY <1>2 DEF Amended
      <4>5. CASE Release(p)
        <5>1. receipts'[q] = [permit |-> p, permitState |-> "ISSUED", outcome |-> "none",
                              verdict |-> "AUTHORIZED", attempted |-> FALSE,
                              execution |-> "none"]
              /\ AdvanceGrant(p, "released") /\ GrantAt(p, "active")
          BY <1>0, <1>2, <4>1, <4>3, <4>5 DEF Release
        <5>2. Written(q, p)
          BY <4>4, <5>1 DEF Written
        <5> QED
          BY <4>3, <5>2 DEF Rewritten
      <4>6. CASE Deny(p)
        <5>1. receipts'[q] = [permit |-> NoPermit, permitState |-> "none",
                              outcome |-> "none", verdict |-> "BLOCKED_BEFORE_EXECUTION",
                              attempted |-> FALSE, execution |-> "none"]
              /\ AdvanceGrant(p, "refused") /\ GrantAt(p, "denying")
          BY <1>0, <1>2, <4>1, <4>3, <4>6 DEF Deny
        <5>2. Written(q, p)
          BY <4>4, <5>1 DEF Written
        <5> QED
          BY <4>3, <5>2 DEF Rewritten
      <4> QED
        BY <3>1, <4>5, <4>6
    <3> QED
      BY <1>2, <2>3, <3>1 DEF GrantStep, Issue, Activate, RevokeUnaudited, DropUnaudited
  <2>4. ASSUME NEW x \in Requests, Evict(x) PROVE Rewritten(q)
    BY <1>0, <2>4 DEF Evict, Rewritten
  <2> QED
    BY <1>2, <2>1, <2>2, <2>3, <2>4 DEF GatewayNext, Authorize, routerVars, gatewayVars
<1> QED
  BY <1>0, <1>1, <1>2 DEF ReceiptFares

-----------------------------------------------------------------------------
(* The receipt of a registered permit, once written, is its own.           *)
LEMMA OwnReceipt ==
  ASSUME OwnRequests, ReceiptsKnow, NEW p \in PermitIDs, Known(p), Recorded(RequestOf[p])
  PROVE  receipts[RequestOf[p]].permit = p /\ GrantAt(p, "released")
<1>1. RequestOf[p] \in Requests
  BY GatewayAssumption
<1>2. ReceiptKnows(RequestOf[p])
  BY <1>1 DEF ReceiptsKnow
<1> QED
  BY <1>2 DEF ReceiptKnows, OwnRequests

LEMMA GrantsGoOn ==
  ASSUME GatewayTypeOK, [GatewayNext]_gatewayVars, NEW p \in PermitIDs
  PROVE  /\ Entered(p) => Entered(p)'
         /\ GrantAt(p, "refused") => GrantAt(p, "refused")'
<1>0. grants \in [PermitIDs -> Grant]
  BY DEF GatewayTypeOK
<1>1. CASE grants'[p] = grants[p]
  BY <1>1 DEF Entered, GrantAt
<1>2. ASSUME NEW k \in AuthorityKeys, Authorize(p, k)
      PROVE  ~Entered(p) /\ ~GrantAt(p, "refused")
  BY <1>2 DEF Authorize, Entered, GrantAt
<1>3. CASE GrantStep(p)
  <2>1. ASSUME NEW at, AdvanceGrant(p, at) PROVE grants'[p].at = at
    BY <1>0, <2>1 DEF AdvanceGrant, Grant
  <2> QED
    BY <1>3, <2>1 DEF GrantStep, Deny, Issue, Activate, Release, RevokeUnaudited,
                      DropUnaudited, Entered, GrantAt
<1> QED
  BY <1>1, <1>2, <1>3, WhoseGrant

-----------------------------------------------------------------------------
(* What a rewrite leaves alone, and what it may not claim.                 *)
LEMMA RewritesKeep ==
  ASSUME NEW c \in Calls, NEW q \in Requests, Rewrites(c, q)
  PROVE  /\ receipts'[q].permit = receipts[q].permit
         /\ ~RecordCompletion(c) => /\ receipts'[q].execution = receipts[q].execution
                                    /\ receipts'[q].attempted = receipts[q].attempted
<1>1. receipts[q] \in Receipt
  BY DEF Rewrites
<1>2. CASE RecordVerification(c) /\ receipts'[q] = WithVerification(receipts[q], calls[c])
  BY <1>1, <1>2 DEF WithVerification, Receipt
<1>3. CASE /\ NoteEvent(c)
           /\ receipts'[q] = [receipts[q] EXCEPT
                                !.verdict = EventVerdict(receipts[q], calls[c].result)]
  BY <1>1, <1>3 DEF Receipt
<1>4. CASE RecordCompletion(c) /\ receipts'[q] = WithCompletion(receipts[q], calls[c])
  BY <1>1, <1>4 DEF WithCompletion, Receipt
<1>5. CASE AuditRevocation(c) /\ receipts'[q] = WithRevocation(receipts[q])
  BY <1>1, <1>5 DEF WithRevocation, Receipt
<1> QED
  BY <1>2, <1>3, <1>4, <1>5 DEF Rewrites

(* Only a runtime event is noted for a permit that was never registered.   *)
LEMMA RewriterOwns ==
  ASSUME OwnRequests, GatewayInv, ReceiptsKnow, NEW c \in Calls, NEW q \in Requests,
         Rewrites(c, q), ~NoteEvent(c)
  PROVE  /\ calls[c].permit \in PermitIDs
         /\ receipts[q].permit = calls[c].permit
         /\ GrantAt(calls[c].permit, "released")
<1> DEFINE p == calls[c].permit
<1>1. calls[c].at \in {"verified", "completing", "auditing"}
  BY DEF Rewrites, RecordVerification, RecordCompletion, AuditRevocation, CallAt
<1>2. CallKnows(c)
  BY DEF GatewayInv, CallsKnow
<1>3. p \in PermitIDs /\ Known(p)
  BY <1>1, <1>2 DEF CallKnows
<1>4. Recorded(RequestOf[p]) /\ q = RequestOf[p]
  BY DEF Rewrites
<1> QED
  BY <1>3, <1>4, OwnReceipt

LEMMA ReceiptsKnowOn ==
  ASSUME OwnRequests, ReceiptInv, [GatewayNext]_gatewayVars
  PROVE  ReceiptsKnow'
<1>0. Onward /\ TypeOK /\ GatewayTypeOK /\ CallsKnow /\ NoPermit \notin PermitIDs
  BY InvIsBefore, GatewayAssumption DEF ReceiptInv, Before
<1> SUFFICES ASSUME NEW q \in Requests, Recorded(q)'
             PROVE  \E p \in PermitIDs :
                      /\ RequestOf[p] = q
                      /\ \/ receipts'[q].permit = p /\ GrantAt(p, "released")'
                         \/ /\ receipts'[q].permit = NoPermit /\ GrantAt(p, "refused")'
                            /\ ~Known(p)' /\ Blank(receipts'[q])
  BY DEF ReceiptsKnow, ReceiptKnows
<1>1. Rewritten(q) /\ receipts'[q] # NoReceipt
  BY <1>0, ReceiptsRewritten DEF Recorded
<1>2. ASSUME NEW p \in PermitIDs, ~Known(p), ~GrantAt(p, "resolving")
      PROVE  ~Known(p)'
  BY <1>0, <1>2, NoRecordFacts DEF Onward, Known
<1>3. ASSUME Recorded(q), receipts'[q].permit = receipts[q].permit,
             Blank(receipts[q]) /\ receipts[q].permit = NoPermit => Blank(receipts'[q])
      PROVE  \E p \in PermitIDs :
               /\ RequestOf[p] = q
               /\ \/ receipts'[q].permit = p /\ GrantAt(p, "released")'
                  \/ /\ receipts'[q].permit = NoPermit /\ GrantAt(p, "refused")'
                     /\ ~Known(p)' /\ Blank(receipts'[q])
  <2>1. PICK p \in PermitIDs :
          /\ RequestOf[p] = q
          /\ \/ receipts[q].permit = p /\ GrantAt(p, "released")
             \/ /\ receipts[q].permit = NoPermit /\ GrantAt(p, "refused")
                /\ ~Known(p) /\ Blank(receipts[q])
    BY <1>3 DEF ReceiptInv, ReceiptsKnow, ReceiptKnows
  <2>2. CASE receipts[q].permit = p /\ GrantAt(p, "released")
    BY <1>0, <1>3, <2>1, <2>2 DEF Onward
  <2>3. CASE /\ receipts[q].permit = NoPermit /\ GrantAt(p, "refused")
             /\ ~Known(p) /\ Blank(receipts[q])
    <3>1. ~Known(p)'
      BY <1>2, <2>3 DEF GrantAt
    <3>2. GrantAt(p, "refused")'
      BY <1>0, <2>3, GrantsGoOn
    <3> QED
      BY <1>3, <2>1, <2>3, <3>1, <3>2
  <2> QED
    BY <2>1, <2>2, <2>3
<1>4. CASE receipts'[q] = receipts[q]
  BY <1>1, <1>3, <1>4 DEF Recorded
<1>5. ASSUME NEW p \in PermitIDs, q = RequestOf[p], Written(q, p)
      PROVE  \E x \in PermitIDs :
               /\ RequestOf[x] = q
               /\ \/ receipts'[q].permit = x /\ GrantAt(x, "released")'
                  \/ /\ receipts'[q].permit = NoPermit /\ GrantAt(x, "refused")'
                     /\ ~Known(x)' /\ Blank(receipts'[q])
  <2>1. ASSUME NEW at, AdvanceGrant(p, at) PROVE GrantAt(p, at)'
    BY <1>0, <2>1 DEF AdvanceGrant, GatewayTypeOK, Grant, GrantAt
  <2>2. GrantAt(p, "denying") => ~Known(p)'
    BY <1>2 DEF ReceiptInv, GatewayInv, GrantsKnow, GrantKnows, GrantAt
  <2> QED
    BY <1>5, <2>1, <2>2 DEF Written, Blank
<1>6. ASSUME NEW c \in Calls, Rewrites(c, q)
      PROVE  \E p \in PermitIDs :
               /\ RequestOf[p] = q
               /\ \/ receipts'[q].permit = p /\ GrantAt(p, "released")'
                  \/ /\ receipts'[q].permit = NoPermit /\ GrantAt(p, "refused")'
                     /\ ~Known(p)' /\ Blank(receipts'[q])
  <2>1. Recorded(q) /\ receipts'[q].permit = receipts[q].permit
    BY <1>6, RewritesKeep DEF Rewrites
  <2>2. CASE ~NoteEvent(c)
    <3>1. receipts[q].permit # NoPermit
      BY <1>0, <1>6, <2>2, RewriterOwns DEF ReceiptInv
    <3> QED
      BY <1>3, <2>1, <3>1
  <2>3. CASE NoteEvent(c)
    <3>1. CallAt(c, "noting") /\ receipts[q] \in Receipt
      BY <1>6, <2>3 DEF NoteEvent, Rewrites
    <3>2. receipts'[q] = [receipts[q] EXCEPT
                           !.verdict = EventVerdict(receipts[q], calls[c].result)]
      BY <1>6, <3>1 DEF Rewrites, RecordVerification, RecordCompletion, AuditRevocation, CallAt
    <3>3. EventVerdict(receipts[q], calls[c].result) # "EXECUTED_WITH_VALID_PERMIT"
      BY DEF EventVerdict
    <3>4. Blank(receipts[q]) => Blank(receipts'[q])
      BY <3>1, <3>2, <3>3 DEF Blank, Receipt
    <3> QED
      BY <1>3, <2>1, <3>4
  <2> QED
    BY <2>2, <2>3
<1> QED
  BY <1>1, <1>4, <1>5, <1>6 DEF Rewritten

-----------------------------------------------------------------------------
(* A permit that has left the active ones does not come back.              *)
LEMMA NotActiveAgain ==
  ASSUME GatewayTypeOK, [GatewayNext]_gatewayVars, NEW p \in PermitIDs,
         p \notin active, Entered(p)
  PROVE  p \notin active'
BY ActiveFares DEF Entered, GrantAt

(* How a completion came to be one.                                        *)
LEMMA CompletingFares ==
  ASSUME ReceiptInv, [GatewayNext]_gatewayVars, NEW c \in Calls, Completing(c)'
  PROVE  \/ /\ Completing(c) /\ calls'[c].permit = calls[c].permit
            /\ ~RecordCompletion(c)
         \/ /\ calls'[c].permit \in active /\ active' = active \ {calls'[c].permit}
            /\ calls'[c] # calls[c]
<1>0. Before /\ GatewayTypeOK /\ CallsKnow
  BY InvIsBefore DEF ReceiptInv, Before
<1>1. ~RecordCompletion(c)
  BY <1>0 DEF RecordCompletion, Advance, Completing, GatewayTypeOK, Call
<1>2. CASE calls'[c] = calls[c]
  BY <1>1, <1>2 DEF Completing
<1>3. CASE Advances(c) /\ calls'[c] # calls[c]
  BY <1>1, <1>3 DEF Advances, Completing
<1>4. ASSUME NEW p \in PermitIDs, NEW now \in Readings, Verify(c, p, now)
      PROVE  FALSE
  BY <1>0, <1>4, VerifyMoves DEF Completing
<1> QED
  BY <1>0, <1>2, <1>3, <1>4, EachCall

(* One completion per permit, and it is its own turn to tell.              *)
LEMMA CompletionKnowsOn ==
  ASSUME OwnRequests, ReceiptInv, [GatewayNext]_gatewayVars, NEW c \in Calls, Completing(c)'
  PROVE  CompletionKnows(c)'
<1>a. PICK p : p = calls'[c].permit
  OBVIOUS
<1>b. PICK q : q = RequestOf[p]
  OBVIOUS
<1>0. Before /\ TypeOK /\ GatewayTypeOK /\ CallsKnow /\ NoPermit \notin PermitIDs
  BY InvIsBefore, GatewayAssumption DEF ReceiptInv, Before
<1>1. p \in PermitIDs /\ Entered(p)
      /\ (Recorded(q) => receipts[q].execution = "none") /\ p \notin active'
  <2>1. CASE Completing(c) /\ p = calls[c].permit
    <3>1. CompletionKnows(c)
      BY <2>1 DEF ReceiptInv, CompletionsKnow
    <3> QED
      BY <1>0, <1>b, <2>1, <3>1, NotActiveAgain DEF CompletionKnows
  <2>2. CASE p \in active /\ active' = active \ {p}
    <3>1. p \in PermitIDs /\ GrantKnows(p)
      BY <1>0, <2>2 DEF GatewayTypeOK, ReceiptInv, GatewayInv, GrantsKnow
    <3>2. Entered(p) /\ Known(p) /\ q \in Requests
      BY <1>b, <2>2, <3>1, GatewayAssumption DEF GrantKnows, Entered
    <3>3. Recorded(q) => receipts[q].permit = p
      BY <1>b, <3>1, <3>2, OwnReceipt DEF ReceiptInv
    <3>4. Recorded(q) => receipts[q].execution = "none"
      BY <2>2, <3>2, <3>3 DEF ReceiptInv, CompletionsKnow
    <3> QED
      BY <2>2, <3>1, <3>2, <3>4
  <2> QED
    BY <1>a, <2>1, <2>2, CompletingFares
<1>2. q \in Requests /\ Entered(p)'
  BY <1>0, <1>1, <1>b, GrantsGoOn, GatewayAssumption
<1>3. ASSUME NEW d \in Calls, Rewrites(d, q), RecordCompletion(d)
      PROVE  FALSE
  <2>1. Completing(d) /\ ~NoteEvent(d)
    BY <1>3 DEF RecordCompletion, NoteEvent, CallAt, Completing
  <2>2. calls[d].permit \in PermitIDs /\ RequestOf[calls[d].permit] = q
    BY <1>2, <1>3, <2>1, RewriterOwns DEF ReceiptInv, Rewrites
  <2>3. calls[d].permit = p
    BY <1>1, <1>b, <2>2 DEF OwnRequests
  <2>4. CompletionKnows(d)
    BY <2>1 DEF ReceiptInv, CompletionsKnow
  <2>5. Completing(c) /\ p = calls[c].permit /\ ~RecordCompletion(c)
    BY <1>a, <2>3, <2>4, CompletingFares DEF CompletionKnows
  <2>6. d = c
    BY <2>1, <2>3, <2>5 DEF ReceiptInv, CompletionsKnow
  <2> QED
    BY <1>3, <2>5, <2>6
<1>4. receipts'[q] # NoReceipt => receipts'[q].execution = "none"
  <2>1. Rewritten(q)
    BY <1>0, <1>2, ReceiptsRewritten
  <2>2. ASSUME NEW d \in Calls, Rewrites(d, q)
        PROVE  receipts'[q].execution = "none"
    <3>1. receipts'[q].execution = receipts[q].execution /\ Recorded(q)
      BY <1>2, <1>3, <2>2, RewritesKeep DEF Rewrites
    <3> QED
      BY <1>1, <3>1
  <2> QED
    BY <1>1, <2>1, <2>2 DEF Rewritten, Written, Recorded
<1> QED
  BY <1>1, <1>2, <1>4, <1>a, <1>b DEF CompletionKnows, Recorded, Entered

LEMMA CompletionsKnowOn ==
  ASSUME OwnRequests, ReceiptInv, [GatewayNext]_gatewayVars
  PROVE  CompletionsKnow'
<1>0. Before /\ TypeOK /\ GatewayTypeOK /\ CallsKnow /\ NoPermit \notin PermitIDs
  BY InvIsBefore, GatewayAssumption DEF ReceiptInv, Before
<1>1. \A c \in Calls : Completing(c)' => CompletionKnows(c)'
  BY CompletionKnowsOn
<1>2. ASSUME NEW c \in Calls, NEW d \in Calls, Completing(c)', Completing(d)',
             calls'[c].permit = calls'[d].permit, c # d
      PROVE  FALSE
  <2>1. calls'[c] = calls[c] \/ calls'[d] = calls[d]
    <3>1. calls' = calls \/ \E x \in Calls : calls' = [calls EXCEPT ![x] = calls'[x]]
      BY <1>0, OneMoves DEF Moves
    <3> QED
      BY <1>0, <1>2, <3>1 DEF GatewayTypeOK
  <2>2. ASSUME NEW x \in Calls, NEW y \in Calls, x # y, Completing(x)', Completing(y)',
               calls'[x].permit = calls'[y].permit, calls'[x] = calls[x]
        PROVE  FALSE
    <3>1. Completing(x) /\ CompletionKnows(x)
      BY <2>2 DEF Completing, ReceiptInv, CompletionsKnow
    <3>2. calls'[y].permit \notin active
      BY <2>2, <3>1 DEF CompletionKnows
    <3>3. Completing(y) /\ calls'[y].permit = calls[y].permit
      BY <2>2, <3>2, CompletingFares
    <3> QED
      BY <2>2, <3>1, <3>3 DEF ReceiptInv, CompletionsKnow
  <2> QED
    BY <1>2, <2>1, <2>2
<1>3. ASSUME NEW q \in Requests, Recorded(q)', receipts'[q].execution # "none"
      PROVE  receipts'[q].permit \notin active'
  <2>1. Rewritten(q) /\ receipts'[q] # NoReceipt
    BY <1>0, <1>3, ReceiptsRewritten DEF Recorded
  <2>2. ASSUME Recorded(q), receipts'[q].permit = receipts[q].permit,
               receipts[q].permit \notin active
        PROVE  receipts'[q].permit \notin active'
    <3>1. \/ receipts[q].permit = NoPermit
          \/ receipts[q].permit \in PermitIDs /\ GrantAt(receipts[q].permit, "released")
      BY <2>2 DEF ReceiptInv, ReceiptsKnow, ReceiptKnows
    <3>2. CASE receipts[q].permit = NoPermit
      BY <1>0, <2>2, <3>2, GatewayNextPreserves DEF ReceiptInv, GatewayInv, GatewayTypeOK
    <3>3. CASE receipts[q].permit \in PermitIDs /\ GrantAt(receipts[q].permit, "released")
      BY <1>0, <2>2, <3>3, NotActiveAgain DEF Entered, GrantAt
    <3> QED
      BY <3>1, <3>2, <3>3
  <2>3. ASSUME Recorded(q), receipts'[q].permit = receipts[q].permit,
               receipts'[q].execution = receipts[q].execution
        PROVE  receipts'[q].permit \notin active'
    BY <1>3, <2>2, <2>3 DEF ReceiptInv, CompletionsKnow
  <2>4. ASSUME NEW c \in Calls, Rewrites(c, q), RecordCompletion(c)
        PROVE  receipts'[q].permit \notin active'
    <3>1. Completing(c) /\ ~NoteEvent(c) /\ Recorded(q)
      BY <2>4 DEF RecordCompletion, NoteEvent, CallAt, Completing, Rewrites
    <3>2. receipts[q].permit = calls[c].permit /\ receipts'[q].permit = receipts[q].permit
      BY <2>4, <3>1, RewriterOwns, RewritesKeep DEF ReceiptInv
    <3>3. calls[c].permit \notin active
      BY <3>1 DEF ReceiptInv, CompletionsKnow, CompletionKnows
    <3> QED
      BY <2>2, <3>1, <3>2, <3>3
  <2>5. ASSUME NEW c \in Calls, Rewrites(c, q), ~RecordCompletion(c)
        PROVE  receipts'[q].permit \notin active'
    BY <2>3, <2>5, RewritesKeep DEF Rewrites
  <2> QED
    BY <1>3, <2>1, <2>3, <2>4, <2>5 DEF Rewritten, Written, Recorded
<1> QED
  BY <1>1, <1>2, <1>3 DEF CompletionsKnow

-----------------------------------------------------------------------------
(* A final state that is written is the one the store holds, and stays it. *)
LEMMA FinalStatesOn ==
  ASSUME OwnRequests, ReceiptInv, [GatewayNext]_gatewayVars
  PROVE  FinalStatesAreTrue'
<1>0. Before /\ Onward /\ TypeOK /\ GatewayTypeOK /\ CallsKnow
  BY InvIsBefore DEF ReceiptInv, Before
<1> SUFFICES ASSUME NEW q \in Requests, Recorded(q)', receipts'[q].permitState \in Ended
             PROVE  /\ receipts'[q].permit \in PermitIDs
                    /\ records'[receipts'[q].permit].state = receipts'[q].permitState
  BY DEF FinalStatesAreTrue, Ended
<1>1. Rewritten(q) /\ receipts'[q] # NoReceipt
  BY <1>0, ReceiptsRewritten DEF Recorded
<1>2. CASE /\ Recorded(q) /\ receipts'[q].permit = receipts[q].permit
           /\ receipts'[q].permitState = receipts[q].permitState
  <2>1. /\ receipts[q].permit \in PermitIDs
        /\ records[receipts[q].permit].state = receipts[q].permitState
    BY <1>2 DEF ReceiptInv, FinalStatesAreTrue, Ended
  <2> QED
    BY <1>0, <1>2, <2>1 DEF Onward
<1>3. ASSUME NEW c \in Calls, Rewrites(c, q)
      PROVE  /\ receipts'[q].permit \in PermitIDs
             /\ records'[receipts'[q].permit].state = receipts'[q].permitState
  <2> DEFINE v == calls[c]
  <2>1. receipts[q] \in Receipt /\ Recorded(q) /\ receipts'[q].permit = receipts[q].permit
    BY <1>3, RewritesKeep DEF Rewrites
  <2>2. CASE NoteEvent(c)
    <3>1. receipts'[q] = [receipts[q] EXCEPT !.verdict = EventVerdict(receipts[q], v.result)]
      BY <1>3, <2>2
         DEF Rewrites, NoteEvent, RecordVerification, RecordCompletion, AuditRevocation, CallAt
    <3>2. receipts'[q].permitState = receipts[q].permitState
      BY <2>1, <3>1 DEF Receipt
    <3> QED
      BY <1>2, <2>1, <3>2
  <2>3. CASE ~NoteEvent(c)
    <3>1. v.permit \in PermitIDs /\ receipts[q].permit = v.permit /\ CallKnows(c)
      BY <1>0, <1>3, <2>3, RewriterOwns DEF ReceiptInv, CallsKnow
    <3>2. records' = records
      BY <1>3, <2>3 DEF Rewrites, RecordVerification, RecordCompletion, AuditRevocation,
                        vars, storeVars
    <3>3. CASE RecordVerification(c) /\ receipts'[q] = WithVerification(receipts[q], v)
      <4>1. receipts'[q].permitState = v.state /\ v.at = "verified"
        BY <2>1, <3>3 DEF WithVerification, Receipt, RecordVerification, CallAt
      <4> QED
        BY <2>1, <3>1, <3>2, <4>1 DEF CallKnows
    <3>4. CASE RecordCompletion(c) /\ receipts'[q] = WithCompletion(receipts[q], v)
      <4>1. receipts'[q].permitState = v.state /\ v.at = "completing"
        BY <2>1, <3>4 DEF WithCompletion, Receipt, RecordCompletion, CallAt
      <4> QED
        BY <2>1, <3>1, <3>2, <4>1 DEF CallKnows
    <3>5. CASE AuditRevocation(c) /\ receipts'[q] = WithRevocation(receipts[q])
      <4>1. receipts'[q].permitState = "REVOKED" /\ v.at = "auditing"
        BY <2>1, <3>5 DEF WithRevocation, Receipt, AuditRevocation, CallAt
      <4> QED
        BY <2>1, <3>1, <3>2, <4>1 DEF CallKnows
    <3> QED
      BY <1>3, <2>3, <3>3, <3>4, <3>5 DEF Rewrites
  <2> QED
    BY <2>2, <2>3
<1> QED
  BY <1>1, <1>2, <1>3 DEF Rewritten, Written, Recorded, Ended

-----------------------------------------------------------------------------
(* A forward, and how it was answered, is not forgotten.                   *)
LEMMA AnswersStay ==
  ASSUME GatewayInv, [GatewayNext]_gatewayVars, NEW c \in Calls, calls[c].sent,
         calls[c].status \in Executions
  PROVE  calls'[c].sent /\ calls'[c].permit = calls[c].permit
         /\ calls'[c].status = calls[c].status
<1>1. CallKnows(c) /\ "none" \notin Executions
  BY DEF GatewayInv, CallsKnow, Executions
<1>2. calls[c].at # "awaiting" /\ calls[c].at # "idle"
  BY <1>1 DEF CallKnows
<1>3. CASE Advances(c)
  BY <1>2, <1>3 DEF Advances
<1> QED
  BY <1>2, <1>3, EachCall DEF GatewayInv, Verify, CallAt

(* The call that completes the execution of q is the one that made it.     *)
LEMMA CompletionTells ==
  ASSUME GatewayInv, NEW c \in Calls, NEW r \in Receipt, CallAt(c, "completing")
  PROVE  LET s == WithCompletion(r, calls[c])
             v == calls[c]
         IN  /\ s.attempted => r.attempted \/ (v.sent /\ v.status \in Executions)
             /\ s.verdict = "EXECUTED_WITH_VALID_PERMIT" => v.sent /\ v.status = "completed"
<1> DEFINE s == WithCompletion(r, calls[c])
           v == calls[c]
<1>1. CallKnows(c) /\ v \in Call
  BY DEF GatewayInv, CallsKnow, GatewayTypeOK
<1>2. v.status \in Executions /\ v.sent \in BOOLEAN
  BY <1>1 DEF CallKnows, CallAt, Call
<1>3. s.attempted => r.attempted \/ v.sent
  BY <1>2 DEF WithCompletion, Receipt
<1>4. s.verdict \in {"PERMIT_EXPIRED", CompletionVerdict(r, v)}
  BY DEF WithCompletion, Receipt
<1>5. CompletionVerdict(r, v) = "EXECUTED_WITH_VALID_PERMIT"
        => v.by = "gateway" /\ v.status = "completed"
  BY <1>2 DEF CompletionVerdict, Settled, Executions
<1>6. v.by = "gateway" /\ v.status = "completed" => v.sent
  BY <1>1 DEF CallKnows
<1> QED
  BY <1>2, <1>3, <1>4, <1>5, <1>6

LEMMA NeverOverstateOn ==
  ASSUME OwnRequests, ReceiptInv, [GatewayNext]_gatewayVars
  PROVE  ReceiptsNeverOverstate'
<1>0. TypeOK /\ GatewayTypeOK /\ CallsKnow /\ GatewayInv
  BY InvIsBefore DEF ReceiptInv, Before
<1> DEFINE Made(p, status) ==
             \E c \in Calls : /\ calls[c].sent /\ calls[c].status \in status
                              /\ calls[c].permit = p
           MadeNext(p, status) ==
             \E c \in Calls : /\ calls'[c].sent /\ calls'[c].status \in status
                              /\ calls'[c].permit = p
<1> SUFFICES ASSUME NEW q \in Requests, Recorded(q)'
             PROVE  LET p == receipts'[q].permit
                    IN  /\ receipts'[q].attempted => MadeNext(p, Executions)
                        /\ receipts'[q].verdict = "EXECUTED_WITH_VALID_PERMIT"
                              => MadeNext(p, {"completed"})
  BY DEF ReceiptsNeverOverstate
<1>1. Rewritten(q) /\ receipts'[q] # NoReceipt
  BY <1>0, ReceiptsRewritten DEF Recorded
<1>2. ASSUME NEW p, NEW status, status \subseteq Executions, Made(p, status)
      PROVE  MadeNext(p, status)
  BY <1>0, <1>2, AnswersStay
<1>3. "completed" \in Executions
  BY DEF Executions
<1>4. Recorded(q) => LET p == receipts[q].permit
                     IN  /\ receipts[q].attempted => MadeNext(p, Executions)
                         /\ receipts[q].verdict = "EXECUTED_WITH_VALID_PERMIT"
                               => MadeNext(p, {"completed"})
  <2>1. Recorded(q) => LET p == receipts[q].permit
                       IN  /\ receipts[q].attempted => Made(p, Executions)
                           /\ receipts[q].verdict = "EXECUTED_WITH_VALID_PERMIT"
                                 => Made(p, {"completed"})
    BY DEF ReceiptInv, ReceiptsNeverOverstate
  <2> HIDE DEF Made, MadeNext
  <2> QED
    BY <1>2, <1>3, <2>1
<1>5. ASSUME NEW c \in Calls, Rewrites(c, q), ~RecordCompletion(c)
      PROVE  receipts'[q].verdict = "EXECUTED_WITH_VALID_PERMIT"
               => receipts[q].verdict = "EXECUTED_WITH_VALID_PERMIT"
  <2>1. receipts[q] \in Receipt
    BY <1>5 DEF Rewrites
  <2>2. CASE RecordVerification(c) /\ receipts'[q] = WithVerification(receipts[q], calls[c])
    <3>1. calls[c].result \in Outcomes
      BY <1>0, <2>2 DEF RecordVerification, CallsKnow, CallKnows, CallAt
    <3>2. VerdictOf(calls[c].result) # "EXECUTED_WITH_VALID_PERMIT"
      BY <3>1 DEF VerdictOf, Outcomes
    <3> QED
      BY <2>1, <2>2, <3>2 DEF WithVerification, Receipt
  <2>3. CASE /\ NoteEvent(c)
             /\ receipts'[q] = [receipts[q] EXCEPT
                                  !.verdict = EventVerdict(receipts[q], calls[c].result)]
    <3>1. EventVerdict(receipts[q], calls[c].result) # "EXECUTED_WITH_VALID_PERMIT"
      BY DEF EventVerdict
    <3> QED
      BY <2>1, <2>3, <3>1 DEF Receipt
  <2>4. CASE AuditRevocation(c) /\ receipts'[q] = WithRevocation(receipts[q])
    BY <2>1, <2>4 DEF WithRevocation, Receipt
  <2> QED
    BY <1>5, <2>2, <2>3, <2>4 DEF Rewrites
<1>6. ASSUME NEW c \in Calls, Rewrites(c, q), RecordCompletion(c)
      PROVE  LET p == receipts'[q].permit
             IN  /\ receipts'[q].attempted => MadeNext(p, Executions)
                 /\ receipts'[q].verdict = "EXECUTED_WITH_VALID_PERMIT"
                       => MadeNext(p, {"completed"})
  <2>1. CallAt(c, "completing") /\ receipts[q] \in Receipt /\ Recorded(q) /\ ~NoteEvent(c)
    BY <1>6 DEF RecordCompletion, Rewrites, NoteEvent, CallAt
  <2>2. receipts[q].permit = calls[c].permit /\ receipts'[q].permit = receipts[q].permit
    BY <1>6, <2>1, RewriterOwns, RewritesKeep DEF ReceiptInv
  <2>3. receipts'[q] = WithCompletion(receipts[q], calls[c])
    BY <1>6, <2>1 DEF Rewrites, RecordVerification, AuditRevocation, NoteEvent, CallAt
  <2>4. /\ receipts'[q].attempted =>
             receipts[q].attempted \/ (calls[c].sent /\ calls[c].status \in Executions)
        /\ receipts'[q].verdict = "EXECUTED_WITH_VALID_PERMIT" =>
             calls[c].sent /\ calls[c].status = "completed"
    BY <1>0, <2>1, <2>3, CompletionTells
  <2>5. /\ calls[c].sent /\ calls[c].status \in Executions => Made(calls[c].permit, Executions)
        /\ calls[c].sent /\ calls[c].status = "completed" =>
             Made(calls[c].permit, {"completed"})
    OBVIOUS
  <2> HIDE DEF Made, MadeNext
  <2> QED
    BY <1>2, <1>3, <1>4, <2>1, <2>2, <2>4, <2>5
<1>7. ASSUME NEW c \in Calls, Rewrites(c, q), ~RecordCompletion(c)
      PROVE  /\ Recorded(q) /\ receipts'[q].permit = receipts[q].permit
             /\ receipts'[q].attempted = receipts[q].attempted
  BY <1>7, RewritesKeep DEF Rewrites
<1> HIDE DEF MadeNext
<1>8. ASSUME NEW p \in PermitIDs, Written(q, p)
      PROVE  ~receipts'[q].attempted /\ receipts'[q].verdict # "EXECUTED_WITH_VALID_PERMIT"
  BY <1>8 DEF Written
<1>9. CASE receipts'[q] = receipts[q]
  BY <1>1, <1>4, <1>9 DEF Recorded
<1>10. ASSUME NEW c \in Calls, Rewrites(c, q), ~RecordCompletion(c)
       PROVE  LET p == receipts'[q].permit
              IN  /\ receipts'[q].attempted => MadeNext(p, Executions)
                  /\ receipts'[q].verdict = "EXECUTED_WITH_VALID_PERMIT"
                        => MadeNext(p, {"completed"})
  BY <1>4, <1>5, <1>7, <1>10
<1> QED
  BY <1>1, <1>6, <1>8, <1>9, <1>10 DEF Rewritten

-----------------------------------------------------------------------------
LEMMA ReceiptInitEstablishes == GatewayInit => ReceiptInv
<1> SUFFICES ASSUME GatewayInit PROVE ReceiptInv
  OBVIOUS
<1>1. GatewayInv
  BY GatewayInitEstablishes
<1>2. \A q \in Requests : ~Recorded(q)
  BY DEF GatewayInit, Recorded
<1>3. \A c \in Calls : ~Completing(c)
  BY DEF GatewayInit, Completing, Idle
<1> QED
  BY <1>1, <1>2, <1>3
     DEF ReceiptInv, ReceiptsKnow, ReceiptKnows, CompletionsKnow, FinalStatesAreTrue,
         ReceiptsNeverOverstate

LEMMA ReceiptNextPreserves ==
  ASSUME OwnRequests
  PROVE  ReceiptInv /\ [GatewayNext]_gatewayVars => ReceiptInv'
<1> SUFFICES ASSUME ReceiptInv, [GatewayNext]_gatewayVars PROVE ReceiptInv'
  OBVIOUS
<1>1. GatewayInv'
  BY GatewayNextPreserves DEF ReceiptInv
<1> QED
  BY <1>1, ReceiptsKnowOn, CompletionsKnowOn, FinalStatesOn, NeverOverstateOn DEF ReceiptInv

(* The receipts' invariant holds in every reachable state                  *)
(* (audit/store.go, router.go).                                            *)
THEOREM ReceiptsAreCorrect ==
  ASSUME OwnRequests
  PROVE  GatewaySpec => []ReceiptInv
<1>1. GatewayInit => ReceiptInv
  BY ReceiptInitEstablishes
<1>2. ReceiptInv /\ [GatewayNext]_gatewayVars => ReceiptInv'
  BY ReceiptNextPreserves
<1> QED
  BY <1>1, <1>2, PTL DEF GatewaySpec

(* A final state on a receipt is the one the store holds (router.go:353-   *)
(* 356, 495-498, 692-723).                                                 *)
THEOREM FinalStatesTold ==
  ASSUME OwnRequests
  PROVE  GatewaySpec => []FinalStatesAreTrue
<1>1. ReceiptInv => FinalStatesAreTrue
  BY DEF ReceiptInv
<1> QED
  BY <1>1, ReceiptsAreCorrect, PTL

(* A receipt claims no attempt and no success that the gateway did not     *)
(* have (router.go:645-647, 721-748).                                      *)
THEOREM NothingOverstated ==
  ASSUME OwnRequests
  PROVE  GatewaySpec => []ReceiptsNeverOverstate
<1>1. ReceiptInv => ReceiptsNeverOverstate
  BY DEF ReceiptInv
<1> QED
  BY <1>1, ReceiptsAreCorrect, PTL

(* No step retells an execution: a completion found no other to have told  *)
(* it, since it took the permit from the active ones (router.go:684-691).  *)
LEMMA StepRetellsNothing ==
  ASSUME OwnRequests, ReceiptInv, [GatewayNext]_gatewayVars, NEW q \in Requests,
         Recorded(q), Recorded(q)', receipts'[q].permit = receipts[q].permit,
         receipts[q].execution # "none"
  PROVE  /\ receipts'[q].execution = receipts[q].execution
         /\ receipts'[q].attempted = receipts[q].attempted
<1>1. Rewritten(q) /\ receipts'[q] # NoReceipt /\ NoPermit \notin PermitIDs
  BY ReceiptsRewritten, GatewayAssumption DEF ReceiptInv, GatewayInv, StoreInv, Recorded
<1>2. ASSUME NEW p \in PermitIDs, Written(q, p)
      PROVE  FALSE
  <2>1. PICK x \in PermitIDs : receipts[q].permit = x /\ GrantAt(x, "released")
    BY DEF ReceiptInv, ReceiptsKnow, ReceiptKnows, Blank
  <2> QED
    BY <1>1, <1>2, <2>1 DEF Written, GrantAt
<1>3. ASSUME NEW c \in Calls, Rewrites(c, q), RecordCompletion(c)
      PROVE  FALSE
  BY <1>3 DEF Rewrites, RecordCompletion, CallAt, Completing, ReceiptInv, CompletionsKnow,
              CompletionKnows
<1> QED
  BY <1>1, <1>2, <1>3, RewritesKeep DEF Rewritten

(* What a receipt says of the execution is written once (router.go:684-    *)
(* 691).                                                                   *)
THEOREM ExecutionsToldOnce ==
  ASSUME OwnRequests
  PROVE  GatewaySpec => ExecutionToldOnce
<1> DEFINE Once == \A q \in Requests :
       /\ Recorded(q) /\ Recorded(q)' /\ receipts'[q].permit = receipts[q].permit
       /\ receipts[q].execution # "none"
       => /\ receipts'[q].execution = receipts[q].execution
          /\ receipts'[q].attempted = receipts[q].attempted
<1>1. ReceiptInv /\ [GatewayNext]_gatewayVars => [Once]_gatewayVars
  BY StepRetellsNothing
<1>2. GatewaySpec => [][Once]_gatewayVars
  BY <1>1, ReceiptsAreCorrect, PTL DEF GatewaySpec
<1> QED
  BY <1>2 DEF ExecutionToldOnce

=============================================================================
