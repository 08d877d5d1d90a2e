------------------------------- MODULE Gateway --------------------------------
(***************************************************************************)
(* router.Router (src/internal/router/router.go) and the MCP proxy that    *)
(* drives it (src/internal/adapters/mcp/proxy.go), over the permit store:  *)
(* the life of an execution permit from its authorization to its receipt.  *)
(*                                                                         *)
(* Three locks are taken one after the other, never together: the store's, *)
(* r.mu around Router.permits (here: active) and the audit store's.  A     *)
(* step is one critical section, so every gap between two of them is open  *)
(* to every other goroutine.                                               *)
(*                                                                         *)
(* One call to the verifier is one step here, the section in which its     *)
(* answer is settled; module Verifier has the steps before it.  Policy and *)
(* semantic resolution are a choice.  The refusals of a proof or an action *)
(* are one outcome, REJECTED.  Left out: simulation permits, which have a  *)
(* consumer of their own, and permits with an obligation nobody enforces,  *)
(* which are always refused before they are spent.                         *)
(***************************************************************************)
EXTENDS PermitStore

CONSTANTS
  Requests,      \* request identifiers
  RequestOf,     \* the request a permit would be issued for
  Calls,         \* goroutines serving one HTTP or in-process call each
  AuditMayFail   \* whether a write to the audit log may fail

NoPermit == "no permit"

ASSUME GatewayAssumption ==
  /\ NoPermit \notin PermitIDs
  /\ RequestOf \in [PermitIDs -> Requests]
  /\ AuditMayFail \in BOOLEAN

VARIABLES
  active,     \* Router.permits, the permits it holds an envelope of
  receipts,   \* audit.Store: the latest record of each request
  grants,     \* the authorization that issues each permit
  calls       \* the local state of every other call

(* No two permits are issued for one request.  A client is free to reuse a *)
(* request_id; what a receipt then tells is not stated here.               *)
OwnRequests ==
  \A p, q \in PermitIDs : RequestOf[p] = RequestOf[q] => p = q

routerVars == <<active, receipts, grants, calls>>
gatewayVars == <<vars, routerVars>>

-----------------------------------------------------------------------------
Outcomes == {"VERIFIED", "REJECTED", "EXPIRED", "REPLAYED", "REVOKED"}

(* UPSTREAM_REDIRECT_BLOCKED is a boundary outcome: it replaces "failed".  *)
Executions == {"completed", "failed", "terminated", "UPSTREAM_REDIRECT_BLOCKED"}

Verdicts ==
  {"AUTHORIZED", "BLOCKED_BEFORE_EXECUTION",
   "PERMIT_VERIFIED", "PERMIT_REJECTED", "PERMIT_EXPIRED", "PERMIT_REPLAY",
   "PERMIT_REVOKED", "RUNTIME_EVENT_REJECTED",
   "AUTHORIZATION_BOUNDARY_VIOLATION", "EXECUTED_WITH_VALID_PERMIT",
   "COMPLETED_WITHOUT_BOUNDARY_VERIFICATION", "EXECUTION_FAILED",
   "EXECUTION_TERMINATED", "EXECUTION_REDIRECT_BLOCKED"}

Receipt == [permit : PermitIDs \cup {NoPermit}, permitState : States \cup {"none"},
            outcome : Outcomes \cup {"none"}, verdict : Verdicts,
            attempted : BOOLEAN, execution : Executions \cup {"none"}]

(* Not written, or one of the records beyond the last hundred.             *)
NoReceipt == [verdict |-> "NONE"]

Recorded(q) == receipts[q] # NoReceipt

(* A file that cannot be written, or a record that is not there.           *)
AuditFails(q) == AuditMayFail \/ ~Recorded(q)

Grant == [at : {"idle", "resolving", "denying", "issued", "active", "unaudited",
                "revoked", "released", "refused"},
          key : AuthorityKeys \cup {"none"}, epoch : 0..MaxEpoch]

GrantAt(p, at) == grants[p].at = at

AdvanceGrant(p, at) == grants' = [grants EXCEPT ![p].at = at]

Sources == {"gateway", "reporter"}

(* What a call carries from one critical section to the next.              *)
Call == [at : {"idle", "verified", "cleared", "awaiting", "observing",
               "terminating", "noting", "reporting", "taken", "completing",
               "listing", "withdrawing", "auditing", "done"},
         by : Sources, permit : PermitIDs \cup {NoPermit},
         result : Outcomes \cup {"none", "WITHIN", "UNKNOWN", "BOUNDARY", "TIMELY"},
         state : States \cup {"none"}, sent : BOOLEAN,
         status : Executions \cup {"none"}, receivedAt : Time,
         key : AuthorityKeys \cup {"none"}, epoch : 0..MaxEpoch,
         revoked : SUBSET PermitIDs]

Idle == [at |-> "idle", by |-> "reporter", permit |-> NoPermit, result |-> "none",
         state |-> "none", sent |-> FALSE, status |-> "none", receivedAt |-> 0,
         key |-> "none", epoch |-> 0, revoked |-> {}]

CallAt(c, at) == calls[c].at = at

Advance(c, at) == calls' = [calls EXCEPT ![c].at = at]

GatewayInit ==
  /\ Init
  /\ active = {}
  /\ receipts = [q \in Requests |-> NoReceipt]
  /\ grants = [p \in PermitIDs |-> [at |-> "idle", key |-> "none", epoch |-> 0]]
  /\ calls = [c \in Calls |-> Idle]

-----------------------------------------------------------------------------
(* authorizeResolvedAction.  The epoch is captured before policy is asked; *)
(* a disabled authority, policy or the semantic profile may deny.          *)
Authorize(p, k) ==
  /\ GrantAt(p, "idle")
  /\ \E at \in {"resolving", "denying"} :
       /\ ~authorities[k].enabled => at = "denying"
       /\ grants' = [grants EXCEPT ![p] =
                       [at |-> at, key |-> k, epoch |-> authorities[k].epoch]]
  /\ UNCHANGED <<vars, active, receipts, calls>>

(* A denial is recorded too; no permit comes of it.                        *)
Deny(p) ==
  /\ GrantAt(p, "denying")
  /\ \/ receipts' = [receipts EXCEPT ![RequestOf[p]] =
                       [permit |-> NoPermit, permitState |-> "none", outcome |-> "none",
                        verdict |-> "BLOCKED_BEFORE_EXECUTION",
                        attempted |-> FALSE, execution |-> "none"]]
     \/ AuditMayFail /\ UNCHANGED receipts
  /\ AdvanceGrant(p, "refused")
  /\ UNCHANGED <<vars, active, calls>>

(* Register compares the captured epoch with the authority's.              *)
Issue(p, expiresAt) ==
  LET c == [class |-> "execution", key |-> grants[p].key,
            epoch |-> grants[p].epoch, expiresAt |-> expiresAt]
  IN  /\ GrantAt(p, "resolving")
      /\ \/ Register(p, c) /\ AdvanceGrant(p, "issued")
         \/ ~AuthorityHolds(c) /\ AdvanceGrant(p, "refused") /\ UNCHANGED vars
      /\ UNCHANGED <<active, receipts, calls>>

Activate(p) ==
  /\ GrantAt(p, "issued")
  /\ active' = active \cup {p}
  /\ AdvanceGrant(p, "active")
  /\ UNCHANGED <<vars, receipts, calls>>

(* Fault: a permit that could not be recorded is only not handed out.      *)
ReleaseForgetting(p) ==
  /\ GrantAt(p, "active")
  /\ \/ /\ receipts' = [receipts EXCEPT ![RequestOf[p]] =
                          [permit |-> p, permitState |-> "ISSUED", outcome |-> "none",
                           verdict |-> "AUTHORIZED",
                           attempted |-> FALSE, execution |-> "none"]]
        /\ AdvanceGrant(p, "released")
     \/ AuditMayFail /\ AdvanceGrant(p, "refused") /\ UNCHANGED receipts
  /\ UNCHANGED <<vars, active, calls>>

(* The token leaves Aegis only once its receipt is written.                *)
Release(p) ==
  /\ GrantAt(p, "active")
  /\ \/ /\ receipts' = [receipts EXCEPT ![RequestOf[p]] =
                          [permit |-> p, permitState |-> "ISSUED", outcome |-> "none",
                           verdict |-> "AUTHORIZED",
                           attempted |-> FALSE, execution |-> "none"]]
        /\ AdvanceGrant(p, "released")
     \/ AuditMayFail /\ AdvanceGrant(p, "unaudited") /\ UNCHANGED receipts
  /\ UNCHANGED <<vars, active, calls>>

RevokeUnaudited(p, now) ==
  /\ GrantAt(p, "unaudited")
  /\ Revoke(p, now)
  /\ AdvanceGrant(p, "revoked")
  /\ UNCHANGED <<active, receipts, calls>>

DropUnaudited(p) ==
  /\ GrantAt(p, "revoked")
  /\ active' = active \ {p}
  /\ AdvanceGrant(p, "refused")
  /\ UNCHANGED <<vars, receipts, calls>>

-----------------------------------------------------------------------------
(* The section in which a verifier call is settled: an inspection that     *)
(* ends in a refusal, or Consume.                                          *)
OutcomeOf(state) ==
  CASE state = "ISSUED" -> "REJECTED"
    [] state = "CONSUMED" -> "REPLAYED"
    [] OTHER -> state

Verify(c, p, now) ==
  LET answer(state, result) ==
        calls' = [calls EXCEPT ![c] = [@ EXCEPT !.at = "verified", !.by = "gateway",
                    !.permit = p, !.state = state, !.result = result]]
      found == ExpireIfNeeded(records[p], now)
      consumed == Consumed(records[p], now)
      outcome == ConsumeOutcome(records[p], now)
  IN  /\ CallAt(c, "idle")
      /\ GrantAt(p, "released")
      /\ \/ Get(p, now) /\ answer(found.state, OutcomeOf(found.state))
         \/ /\ Consume(p, now)
            /\ answer(consumed.state,
                      IF outcome = "CONSUMED" THEN "VERIFIED" ELSE outcome)
      /\ UNCHANGED <<active, receipts, grants>>

Priority(outcome) ==
  CASE outcome = "none" -> 0
    [] outcome = "VERIFIED" -> 1
    [] OTHER -> 2

(* Fault: the outcomes are taken for verdicts.                             *)
VerdictOfPlain(outcome) == outcome

VerdictOf(outcome) ==
  CASE outcome = "VERIFIED" -> "PERMIT_VERIFIED"
    [] outcome = "REPLAYED" -> "PERMIT_REPLAY"
    [] outcome = "EXPIRED" -> "PERMIT_EXPIRED"
    [] outcome = "REVOKED" -> "PERMIT_REVOKED"
    [] outcome = "REJECTED" -> "PERMIT_REJECTED"

(* The state is always written; the outcome unless a refusal came first.   *)
WithVerification(r, v) ==
  IF Priority(v.result) >= Priority(r.outcome)
  THEN [r EXCEPT !.permitState = v.state, !.outcome = v.result,
                 !.verdict = VerdictOf(v.result)]
  ELSE [r EXCEPT !.permitState = v.state]

(* Fault: the error of auditPermitVerification is dropped.                 *)
ClearedUnaudited(v, audited) == v.result = "VERIFIED"

Cleared(v, audited) == v.result = "VERIFIED" /\ audited

(* auditPermitVerification; an error is answered 500 and nothing is sent.  *)
RecordVerification(c) ==
  LET v == calls[c]
      q == RequestOf[v.permit]
  IN  /\ CallAt(c, "verified")
      /\ \/ /\ Recorded(q)
            /\ receipts' = [receipts EXCEPT ![q] = WithVerification(@, v)]
            /\ Advance(c, IF Cleared(v, TRUE) THEN "cleared" ELSE "done")
         \/ /\ AuditFails(q)
            /\ Advance(c, IF Cleared(v, FALSE) THEN "cleared" ELSE "done")
            /\ UNCHANGED receipts
      /\ UNCHANGED <<vars, active, grants>>

(* Proxy.forward: the request is built, or not, and sent.                  *)
Forward(c) ==
  /\ CallAt(c, "cleared")
  /\ \/ calls' = [calls EXCEPT ![c].at = "awaiting", ![c].sent = TRUE]
     \/ calls' = [calls EXCEPT ![c].at = "reporting", ![c].status = "failed"]
  /\ UNCHANGED <<vars, active, receipts, grants>>

(* No answer, a redirect, or an answer with any other status.              *)
Answer(c) ==
  /\ CallAt(c, "awaiting")
  /\ \/ \E status \in {"failed", "UPSTREAM_REDIRECT_BLOCKED"} :
          calls' = [calls EXCEPT ![c].at = "reporting", ![c].status = status]
     \/ \E status \in {"completed", "failed"} :
          calls' = [calls EXCEPT ![c].at = "observing", ![c].status = status]
  /\ UNCHANGED <<vars, active, receipts, grants>>

-----------------------------------------------------------------------------
Expired(p, now) == now >= records[p].claims.expiresAt

(* The gateway goes on to the next stage of its call; a reporter is new.   *)
Enters(c, by, at, p) ==
  \/ by = "gateway" /\ CallAt(c, at) /\ p = calls[c].permit
  \/ by = "reporter" /\ CallAt(c, "idle")

AfterEvent(by) == IF by = "gateway" THEN "reporting" ELSE "done"

(* What Observer.Evaluate may say of an event.  The gateway's own copies   *)
(* the verified binding: only the expiry can be held against it.           *)
EventResults(by, p, now) ==
  CASE Expired(p, now) -> {"REJECTED"}
    [] ~Expired(p, now) /\ by = "gateway" -> {"WITHIN"}
    [] ~Expired(p, now) /\ by = "reporter" -> {"WITHIN", "REJECTED", "BOUNDARY"}

(* IngestRuntimeEvent up to the release of r.mu.                           *)
IngestRuntimeEvent(c, by, p, now) ==
  LET judged(at, result) ==
        calls' = [calls EXCEPT ![c] = [@ EXCEPT !.at = at, !.by = by, !.permit = p,
                                                !.result = result]]
  IN  /\ Enters(c, by, "observing", p)
      /\ \/ /\ p \notin active \/ by = "reporter"   \* or unfit metadata
            /\ judged("noting", "UNKNOWN")
            /\ UNCHANGED active
         \/ /\ p \in active
            /\ \E result \in EventResults(by, p, now) :
                 IF result = "WITHIN"
                 THEN judged(AfterEvent(by), result) /\ UNCHANGED active
                 ELSE judged("terminating", result) /\ active' = active \ {p}
      /\ UNCHANGED <<vars, receipts, grants>>

(* A terminated permit is revoked; the error for a spent one is dropped.   *)
TerminatePermit(c, now) ==
  /\ CallAt(c, "terminating")
  /\ Revoke(calls[c].permit, now)
  /\ Advance(c, "noting")
  /\ UNCHANGED <<active, receipts, grants>>

EventVerdict(r, result) ==
  IF result = "BOUNDARY" \/ (result = "UNKNOWN" /\ r.verdict = "AUTHORIZATION_BOUNDARY_VIOLATION")
  THEN "AUTHORIZATION_BOUNDARY_VIOLATION"
  ELSE "RUNTIME_EVENT_REJECTED"

NoteEvent(c) ==
  LET v == calls[c]
      q == RequestOf[v.permit]
  IN  /\ CallAt(c, "noting")
      /\ \/ /\ Recorded(q)
            /\ receipts' = [receipts EXCEPT ![q].verdict = EventVerdict(receipts[q], v.result)]
         \/ AuditFails(q) /\ UNCHANGED receipts
      /\ Advance(c, AfterEvent(v.by))
      /\ UNCHANGED <<vars, active, grants>>

-----------------------------------------------------------------------------
(* Fault: a completion leaves the permit active.                           *)
CompletedKept(p) == active

(* The permits left active once p is completed.                            *)
Completed(p) == active \ {p}

(* completeExecution up to the release of r.mu.  Only the gateway must     *)
(* show a consumed permit (Get leaves it as it is); a reporter may also    *)
(* claim to have completed after the expiry.                               *)
CompleteExecution(c, by, p, status, now) ==
  LET accepted == /\ by = "gateway" => records[p].state = "CONSUMED"
                  /\ p \in active
  IN  /\ Enters(c, by, "reporting", p)
      /\ \/ ~accepted /\ Advance(c, "done") /\ UNCHANGED active
         \/ /\ accepted
            /\ \E result \in {"EXPIRED", "TIMELY"} :
                 /\ Expired(p, now) => result = "EXPIRED"
                 /\ by = "gateway" /\ ~Expired(p, now) => result = "TIMELY"
                 /\ calls' = [calls EXCEPT ![c] =
                       [@ EXCEPT !.at = "taken", !.by = by, !.permit = p,
                         !.status = status, !.result = result, !.receivedAt = now]]
            /\ active' = Completed(p)
      /\ UNCHANGED <<vars, receipts, grants>>

ReadFinalState(c) ==
  LET p == calls[c].permit
  IN  /\ CallAt(c, "taken")
      /\ Get(p, calls[c].receivedAt)
      /\ calls' = [calls EXCEPT ![c].at = "completing",
                     ![c].state = ExpireIfNeeded(records[p], calls[c].receivedAt).state]
      /\ UNCHANGED <<active, receipts, grants>>

(* The verdicts a completion does not replace.                             *)
Settled == {"AUTHORIZATION_BOUNDARY_VIOLATION", "RUNTIME_EVENT_REJECTED",
            "PERMIT_REJECTED", "PERMIT_EXPIRED", "PERMIT_REPLAY", "PERMIT_REVOKED"}

(* Fault: it is not asked who reports the completion.                      *)
CompletionVerdictTrusting(r, v) ==
  CASE r.verdict \in Settled -> r.verdict
    [] r.verdict \notin Settled /\ v.status # "completed" -> "EXECUTION_FAILED"
    [] r.verdict \notin Settled /\ v.status = "completed" ->
         IF r.outcome = "VERIFIED" THEN "EXECUTED_WITH_VALID_PERMIT"
         ELSE "COMPLETED_WITHOUT_BOUNDARY_VERIFICATION"

CompletionVerdict(r, v) ==
  CASE v.status = "UPSTREAM_REDIRECT_BLOCKED" -> "EXECUTION_REDIRECT_BLOCKED"
    [] v.status # "UPSTREAM_REDIRECT_BLOCKED" /\ r.verdict \in Settled -> r.verdict
    [] r.verdict \notin Settled /\ v.status = "failed" -> "EXECUTION_FAILED"
    [] r.verdict \notin Settled /\ v.status = "terminated" -> "EXECUTION_TERMINATED"
    [] r.verdict \notin Settled /\ v.status = "completed" ->
         IF r.outcome = "VERIFIED" /\ v.by = "gateway"
         THEN "EXECUTED_WITH_VALID_PERMIT"
         ELSE "COMPLETED_WITHOUT_BOUNDARY_VERIFICATION"

WithCompletion(r, v) ==
  IF v.result = "EXPIRED"
  THEN [r EXCEPT !.permitState = v.state, !.outcome = "EXPIRED",
                 !.verdict = "PERMIT_EXPIRED"]
  ELSE [r EXCEPT !.permitState = v.state, !.attempted = v.sent,
                 !.execution = v.status, !.verdict = CompletionVerdict(r, v)]

RecordCompletion(c) ==
  LET q == RequestOf[calls[c].permit]
  IN  /\ CallAt(c, "completing")
      /\ \/ /\ Recorded(q)
            /\ receipts' = [receipts EXCEPT ![q] = WithCompletion(@, calls[c])]
         \/ AuditFails(q) /\ UNCHANGED receipts
      /\ Advance(c, "done")
      /\ UNCHANGED <<vars, active, grants>>

-----------------------------------------------------------------------------
(* Fault: ErrPermitNotActive is not looked at.                             *)
RevocationMadeOrNot(before, after) == TRUE

RevocationMade(before, after) == before = "ISSUED" /\ after = "REVOKED"

(* Router.RevokePermit: ErrPermitNotActive ends it.                        *)
RevokePermit(c, p, now) ==
  /\ CallAt(c, "idle")
  /\ Revoke(p, now)
  /\ IF RevocationMade(records[p].state, records'[p].state)
     THEN calls' = [calls EXCEPT ![c].at = "withdrawing", ![c].revoked = {p}]
     ELSE Advance(c, "done")
  /\ UNCHANGED <<active, receipts, grants>>

(* Router.SetAuthorityEnabled: the transition, then the list of what it,   *)
(* or an earlier one, revoked.                                             *)
ChangeAuthority(c, k, enabled, at) ==
  /\ CallAt(c, "idle")
  /\ SetAuthorityEnabled(k, enabled, at)
  /\ calls' = [calls EXCEPT ![c].at = "listing", ![c].key = k,
                            ![c].epoch = authorities'[k].epoch, ![c].receivedAt = at]
  /\ UNCHANGED <<active, receipts, grants>>

(* Fault: the state the permit was left in is not looked at.               *)
OutdatedInAnyState(r, v) ==
  r.state # "NONE" /\ r.claims.key = v.key /\ r.claims.epoch < v.epoch

Outdated(r, v) ==
  r.state = "REVOKED" /\ r.claims.key = v.key /\ r.claims.epoch < v.epoch

ListRevoked(c) ==
  LET v == calls[c]
      revoked == {p \in PermitIDs : Outdated(records'[p], v)}
  IN  /\ CallAt(c, "listing")
      /\ List(v.receivedAt)
      /\ calls' = [calls EXCEPT ![c].at = IF revoked = {} THEN "done" ELSE "withdrawing",
                                ![c].revoked = revoked]
      /\ UNCHANGED <<active, receipts, grants>>

(* recordPermitRevocation of the next one.                                 *)
Withdraw(c, p) ==
  /\ CallAt(c, "withdrawing")
  /\ p \in calls[c].revoked
  /\ active' = active \ {p}
  /\ calls' = [calls EXCEPT ![c].at = "auditing", ![c].permit = p]
  /\ UNCHANGED <<vars, receipts, grants>>

WithRevocation(r) ==
  [r EXCEPT !.permitState = "REVOKED", !.outcome = "REVOKED",
            !.verdict = "PERMIT_REVOKED"]

AuditRevocation(c) ==
  LET q == RequestOf[calls[c].permit]
      rest == calls[c].revoked \ {calls[c].permit}
  IN  /\ CallAt(c, "auditing")
      /\ \/ Recorded(q) /\ receipts' = [receipts EXCEPT ![q] = WithRevocation(@)]
         \/ AuditFails(q) /\ UNCHANGED receipts
      /\ calls' = [calls EXCEPT ![c].at = IF rest = {} THEN "done" ELSE "withdrawing",
                                ![c].revoked = rest]
      /\ UNCHANGED <<vars, active, grants>>

(* A hundred later records push a receipt out of the audit store.          *)
Evict(q) ==
  /\ Recorded(q)
  /\ receipts' = [receipts EXCEPT ![q] = NoReceipt]
  /\ UNCHANGED <<vars, active, grants, calls>>

-----------------------------------------------------------------------------
(* The steps of an authorization and of a call that has begun.             *)
GrantStep(p) ==
  \/ Deny(p) \/ Activate(p) \/ Release(p) \/ DropUnaudited(p)
  \/ \E expiresAt \in Time \ {0} : Issue(p, expiresAt)
  \/ \E now \in Readings : RevokeUnaudited(p, now)

CallStep(c) ==
  \/ RecordVerification(c) \/ Forward(c) \/ Answer(c)
  \/ NoteEvent(c) \/ ReadFinalState(c) \/ RecordCompletion(c)
  \/ ListRevoked(c) \/ AuditRevocation(c)
  \/ \E now \in Readings :
       \/ TerminatePermit(c, now)
       \/ \E p \in PermitIDs :
            \/ IngestRuntimeEvent(c, "gateway", p, now)
            \/ CompleteExecution(c, "gateway", p, calls[c].status, now)
  \/ \E p \in PermitIDs : Withdraw(c, p)

Arrival(c) ==
  \E now \in Readings :
    \/ \E p \in PermitIDs :
         \/ Verify(c, p, now)
         \/ RevokePermit(c, p, now)
         \/ IngestRuntimeEvent(c, "reporter", p, now)
         \/ \E status \in {"completed", "failed", "terminated"} :
              CompleteExecution(c, "reporter", p, status, now)
    \/ \E k \in AuthorityKeys, enabled \in BOOLEAN : ChangeAuthority(c, k, enabled, now)

GatewayNext ==
  \/ \E p \in PermitIDs : GrantStep(p) \/ \E k \in AuthorityKeys : Authorize(p, k)
  \/ \E c \in Calls : CallStep(c) \/ Arrival(c)
  \/ \E q \in Requests : Evict(q)
  \/ Tick /\ UNCHANGED routerVars

GatewaySpec == GatewayInit /\ [][GatewayNext]_gatewayVars

(* Handlers run to their end: none holds a lock over a call, and the http  *)
(* client gives up on an upstream after its timeout (proxy.go:85).         *)
FairGatewaySpec == GatewaySpec /\ \A c \in Calls : WF_gatewayVars(CallStep(c))

-----------------------------------------------------------------------------
(* Every variable holds a value of its type; the verdicts are those the    *)
(* code and project-brief.md:140 name.                                     *)
GatewayTypeOK ==
  /\ TypeOK
  /\ active \subseteq PermitIDs
  /\ receipts \in [Requests -> Receipt \cup {NoReceipt}]
  /\ grants \in [PermitIDs -> Grant]
  /\ calls \in [Calls -> Call]

(* An upstream is only called under a permit that is spent and whose       *)
(* verification its receipt tells of, as long as the receipt is kept:      *)
(* proxy.go:232-248 gives up when auditPermitVerification fails.           *)
ForwardedOnRecord ==
  \A c \in Calls : calls[c].sent =>
    LET p == calls[c].permit
        r == receipts[RequestOf[p]]
    IN  /\ records[p].state = "CONSUMED"
        /\ r # NoReceipt /\ r.permit = p => r.outcome # "none"

(* However many calls present a permit, and whatever is reported, revoked  *)
(* or rotated meanwhile, one of them at most reaches the upstream          *)
(* (README.md:96, proxy.go:235-247).                                       *)
OneForwardPerPermit ==
  \A c, d \in Calls :
    calls[c].sent /\ calls[d].sent /\ calls[c].permit = calls[d].permit => c = d

(* A receipt does not claim more than happened: an attempt is one the      *)
(* gateway made, and EXECUTED_WITH_VALID_PERMIT means it was answered with *)
(* success, whatever an agent reports of itself (router.go:645-647,        *)
(* 721-748).                                                               *)
ReceiptsNeverOverstate ==
  \A q \in Requests : Recorded(q) =>
    LET forwarded(status) ==
          \E c \in Calls : /\ calls[c].sent /\ calls[c].status \in status
                           /\ calls[c].permit = receipts[q].permit
    IN  /\ receipts[q].attempted => forwarded(Executions)
        /\ receipts[q].verdict = "EXECUTED_WITH_VALID_PERMIT" => forwarded({"completed"})

(* A final state on a receipt is the state the store holds the permit in,  *)
(* although it was read in one critical section and written in another     *)
(* (router.go:353-356, 495-498, 692-723).                                  *)
FinalStatesAreTrue ==
  \A q \in Requests :
    Recorded(q) /\ receipts[q].permitState \in {"CONSUMED", "EXPIRED", "REVOKED"} =>
      /\ receipts[q].permit \in PermitIDs
      /\ records[receipts[q].permit].state = receipts[q].permitState

(* A permit whose authorization failed after it was registered is of no    *)
(* use to anybody (router.go:266-274).                                     *)
RefusedGrantsAreDead ==
  \A p \in PermitIDs : GrantAt(p, "refused") =>
    /\ p \notin InState({"ISSUED"}) /\ p \notin active
    /\ \A c \in Calls : calls[c].sent => calls[c].permit # p

(* What a receipt says of the execution is written once: a second report,  *)
(* from whomever, does not change it (router.go:684-691).                  *)
ExecutionToldOnce ==
  [][\A q \in Requests :
       /\ Recorded(q) /\ Recorded(q)' /\ receipts'[q].permit = receipts[q].permit
       /\ receipts[q].execution # "none"
       => /\ receipts'[q].execution = receipts[q].execution
          /\ receipts'[q].attempted = receipts[q].attempted]_gatewayVars

(* The receipt of a call that has returned tells that the upstream was     *)
(* attempted (README.md:273).                                              *)
AttemptIsTold ==
  \A c \in Calls :
    LET p == calls[c].permit
        r == receipts[RequestOf[p]]
    IN  calls[c].sent /\ CallAt(c, "done") /\ r # NoReceipt /\ r.permit = p
        => r.attempted

(* No forwarded call leaves its permit among the active ones for ever,     *)
(* whoever else reports, revokes or rotates (router.go:603, 690).          *)
ForwardedIsSettled ==
  \A c \in Calls : calls[c].sent ~> calls[c].permit \notin active

=============================================================================
