----------------------------- MODULE PermitStore -----------------------------
(***************************************************************************)
(* permit.MemoryStore (src/internal/permit/store.go, authority.go): the    *)
(* permit records and the authority epochs one mutex guards.  Every        *)
(* exported method is one action, because it holds the mutex throughout.   *)
(*                                                                         *)
(* A caller reads its clock before it asks for the mutex, and may wait for *)
(* the mutex as long as the scheduler likes, so the time a method is given *)
(* is any reading up to the present (Readings).  A call that returns an    *)
(* error without writing anything is not a step.                           *)
(***************************************************************************)
EXTENDS Integers

CONSTANTS
  PermitIDs,      \* identifiers the issuer draws from
  AuthorityKeys,  \* (principal, agent, workload) grant domains
  MaxEpoch,       \* math.MaxUint64: the last epoch an authority can have
  MaxTime         \* horizon of the clock

ASSUME PermitStoreAssumption ==
  /\ MaxEpoch \in Nat \ {0}
  /\ MaxTime \in Nat

VARIABLES
  records,      \* MemoryStore.records
  authorities,  \* MemoryStore.authorities, with its default filled in
  clock         \* the present

storeVars == <<records, authorities>>
vars == <<records, authorities, clock>>

-----------------------------------------------------------------------------
Time == 0..MaxTime
NoTime == -1    \* a nil *time.Time
Epochs == 1..MaxEpoch

Classes == {"execution", "simulation"}
States == {"ISSUED", "CONSUMED", "EXPIRED", "REVOKED"}

(* Epoch 0 marks claims without an execution binding (version 1 permits).  *)
Claims == [class : Classes, key : AuthorityKeys, epoch : 0..MaxEpoch,
           expiresAt : Time \ {0}]

IsBound(c) == c.epoch # 0

ValidClaims(c) == IsBound(c) => c.class = "execution"

Record == [claims : Claims, state : States, consumedAt : Time \cup {NoTime},
           expiredAt : Time \cup {NoTime}, revokedAt : Time \cup {NoTime}]

(* The map has no entry for this identifier.                               *)
NoRecord == [state |-> "NONE"]

Known(p) == records[p] # NoRecord

AuthorityState == [epoch : Epochs, enabled : BOOLEAN]

(* Fault: an epoch ahead of the authority's is let through.                *)
AuthorityNotAhead(c) ==
  authorities[c.key].enabled /\ c.epoch >= authorities[c.key].epoch

(* The authority the claims were issued under is still the present one.    *)
AuthorityHolds(c) ==
  authorities[c.key].enabled /\ c.epoch = authorities[c.key].epoch

Readings == 0..clock

-----------------------------------------------------------------------------
Init ==
  /\ records = [p \in PermitIDs |-> NoRecord]
  /\ authorities = [k \in AuthorityKeys |-> [epoch |-> 1, enabled |-> TRUE]]
  /\ clock = 0

Register(p, c) ==
  /\ ValidClaims(c)
  /\ ~Known(p)
  /\ IsBound(c) => AuthorityHolds(c)
  /\ records' = [records EXCEPT ![p] =
                   [claims |-> c, state |-> "ISSUED", consumedAt |-> NoTime,
                    expiredAt |-> NoTime, revokedAt |-> NoTime]]
  /\ UNCHANGED <<authorities, clock>>

(* Fault: a permit is still good at the very second it expires.            *)
ExpireIfPassed(r, now) ==
  IF r.state = "ISSUED" /\ now > r.claims.expiresAt
  THEN [r EXCEPT !.state = "EXPIRED", !.expiredAt = r.claims.expiresAt]
  ELSE r

(* Only a record still ISSUED expires, lazily, when somebody looks at it.  *)
ExpireIfNeeded(r, now) ==
  IF r.state = "ISSUED" /\ now >= r.claims.expiresAt
  THEN [r EXCEPT !.state = "EXPIRED", !.expiredAt = r.claims.expiresAt]
  ELSE r

Get(p, now) ==
  /\ Known(p)
  /\ records' = [records EXCEPT ![p] = ExpireIfNeeded(@, now)]
  /\ UNCHANGED <<authorities, clock>>

List(now) ==
  /\ records' = [p \in PermitIDs |-> ExpireIfNeeded(records[p], now)]
  /\ UNCHANGED <<authorities, clock>>

(* Fault: only a replay is refused.                                        *)
ConsumedUnlessReplayed(r, now) ==
  IF r.state = "CONSUMED" THEN r
  ELSE [r EXCEPT !.state = "CONSUMED", !.consumedAt = now]

(* The record Consume leaves behind.                                       *)
Consumed(r, now) ==
  LET e == ExpireIfNeeded(r, now)
  IN  IF e.state # "ISSUED" THEN e
      ELSE IF IsBound(e.claims) /\ ~AuthorityHolds(e.claims)
           THEN [e EXCEPT !.state = "REVOKED", !.revokedAt = now]
           ELSE [e EXCEPT !.state = "CONSUMED", !.consumedAt = now]

(* Fault: consuming a consumed permit again succeeds.                      *)
ConsumeOutcomeIdempotent(r, now) ==
  CASE r.state = "NONE" -> "UNKNOWN"
    [] OTHER -> Consumed(r, now).state

(* The ConsumeOutcome it returns: a record found CONSUMED was replayed.    *)
ConsumeOutcome(r, now) ==
  CASE r.state = "NONE" -> "UNKNOWN"
    [] r.state = "CONSUMED" -> "REPLAYED"
    [] OTHER -> Consumed(r, now).state

Consume(p, now) ==
  /\ Known(p)
  /\ records' = [records EXCEPT ![p] = Consumed(@, now)]
  /\ UNCHANGED <<authorities, clock>>

(* Fault: revocation does not ask whether the permit is still active.      *)
RevokedInAnyState(r, at) ==
  [ExpireIfNeeded(r, at) EXCEPT !.state = "REVOKED", !.revokedAt = at]

(* The record Revoke leaves behind; ErrPermitNotActive leaves an expiry.   *)
Revoked(r, at) ==
  LET e == ExpireIfNeeded(r, at)
  IN  IF e.state = "ISSUED"
      THEN [e EXCEPT !.state = "REVOKED", !.revokedAt = at]
      ELSE e

Revoke(p, at) ==
  /\ Known(p)
  /\ records' = [records EXCEPT ![p] = Revoked(@, at)]
  /\ UNCHANGED <<authorities, clock>>

(* Fault: bound permits are left for Consume to refuse.                    *)
UnboundUnderKey(r, k) ==
  /\ r.state = "ISSUED" /\ r.claims.class = "execution" /\ r.claims.key = k
  /\ ~IsBound(r.claims)

(* The records an authority transition of key k revokes: it does not look  *)
(* at their expiry first.                                                  *)
UnderKey(r, k) ==
  r.state = "ISSUED" /\ r.claims.class = "execution" /\ r.claims.key = k

(* Fault: a refresh that keeps the authority enabled revokes nothing.      *)
SetAuthorityRefreshing(k, enabled, at) ==
  /\ authorities[k].epoch < MaxEpoch
  /\ authorities' = [authorities EXCEPT ![k] =
                       [epoch |-> @.epoch + 1, enabled |-> enabled]]
  /\ records' = [p \in PermitIDs |->
                   IF UnderKey(records[p], k) /\ ~enabled
                   THEN [records[p] EXCEPT !.state = "REVOKED", !.revokedAt = at]
                   ELSE records[p]]
  /\ UNCHANGED clock

(* Fault: the epoch counter is not checked for exhaustion.                 *)
SetAuthorityUnchecked(k, enabled, at) ==
  /\ authorities' = [authorities EXCEPT ![k] =
                       [epoch |-> (@.epoch + 1) % (MaxEpoch + 1), enabled |-> enabled]]
  /\ records' = [p \in PermitIDs |->
                   IF UnderKey(records[p], k)
                   THEN [records[p] EXCEPT !.state = "REVOKED", !.revokedAt = at]
                   ELSE records[p]]
  /\ UNCHANGED clock

SetAuthorityEnabled(k, enabled, at) ==
  /\ authorities[k].epoch < MaxEpoch
  /\ authorities' = [authorities EXCEPT ![k] =
                       [epoch |-> @.epoch + 1, enabled |-> enabled]]
  /\ records' = [p \in PermitIDs |->
                   IF UnderKey(records[p], k)
                   THEN [records[p] EXCEPT !.state = "REVOKED", !.revokedAt = at]
                   ELSE records[p]]
  /\ UNCHANGED clock

(* Bounds the clock by MaxTime.                                            *)
Tick ==
  /\ clock < MaxTime
  /\ clock' = clock + 1
  /\ UNCHANGED storeVars

Next ==
  \/ \E p \in PermitIDs, c \in Claims : Register(p, c)
  \/ \E p \in PermitIDs, now \in Readings :
       Get(p, now) \/ Consume(p, now) \/ Revoke(p, now)
  \/ \E now \in Readings : List(now)
  \/ \E k \in AuthorityKeys, enabled \in BOOLEAN, at \in Readings :
       SetAuthorityEnabled(k, enabled, at)
  \/ Tick

Spec == Init /\ [][Next]_vars

-----------------------------------------------------------------------------
(* Every variable holds a value of its type; the stamps of a record are    *)
(* moments the clock has reached, except an expiry, which is the claimed   *)
(* one (store.go:28-34).                                                   *)
TypeOK ==
  /\ records \in [PermitIDs -> Record \cup {NoRecord}]
  /\ authorities \in [AuthorityKeys -> AuthorityState]
  /\ clock \in Time

(* A bound permit still ISSUED was issued under the authority that is in   *)
(* force now: no interleaving of the epoch read, Register and an authority *)
(* transition leaves one behind (store.go:86-91, authority.go:65-71).      *)
IssuedUnderPresentAuthority ==
  \A p \in PermitIDs :
    (records[p].state = "ISSUED" /\ IsBound(records[p].claims))
      => AuthorityHolds(records[p].claims)

(* A record carries the stamp of the state it ended in and no other, and   *)
(* one that was consumed was consumed before it expired, however stale the *)
(* consumer's clock (store.go:126-191).                                    *)
OneEnd(r) ==
  /\ r.state = "CONSUMED" <=> r.consumedAt # NoTime
  /\ r.state = "EXPIRED" <=> r.expiredAt # NoTime
  /\ r.state = "REVOKED" <=> r.revokedAt # NoTime
  /\ r.state = "CONSUMED" => r.consumedAt < r.claims.expiresAt

OneEndPerPermit == \A p \in PermitIDs : Known(p) => OneEnd(records[p])

(* No claims carry an epoch their authority has not reached, so an epoch   *)
(* that comes into force was never issued under before (authority.go:56).  *)
NoClaimFromAFutureEpoch ==
  \A p \in PermitIDs : Known(p) =>
    records[p].claims.epoch <= authorities[records[p].claims.key].epoch

(* The record of a permit that ended never changes again, and the claims   *)
(* of one that has not never do: replays, late revocations, sweeps and     *)
(* authority transitions leave it alone (store.go:126-179).                *)
EndedIsFinal ==
  [][\A p \in PermitIDs : Known(p) =>
       /\ records'[p].claims = records[p].claims
       /\ records[p].state # "ISSUED" => records'[p] = records[p]]_vars

(* When an authority transition returns, no execution permit of its key is *)
(* outstanding, of either version, and the epoch it leaves is a new one    *)
(* (authority.go:39-73).                                                   *)
TransitionLeavesNoneOutstanding ==
  [][\A k \in AuthorityKeys : authorities'[k] # authorities[k] =>
       /\ authorities'[k].epoch > authorities[k].epoch
       /\ \A p \in PermitIDs :
            Known(p) => ~UnderKey(records'[p], k)]_vars

(* The store implements the promised life cycle.                           *)
InState(S) == {p \in PermitIDs : records[p].state \in S}

Lifecycle == INSTANCE PermitLifecycle WITH
  live <- InState({"ISSUED"}),
  spent <- InState({"CONSUMED"}),
  dead <- InState({"EXPIRED", "REVOKED"})

ImplementsLifecycle == Lifecycle!Spec

=============================================================================
