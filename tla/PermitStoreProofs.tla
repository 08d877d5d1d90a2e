-------------------------- MODULE PermitStoreProofs --------------------------
(***************************************************************************)
(* Theorems about the permit store, for any sets of permits and            *)
(* authorities, any last epoch and any horizon of the clock.               *)
(***************************************************************************)
EXTENDS PermitStore, TLAPS

(* Register validates the claims it is given (store.go:75).                *)
ClaimsValid ==
  \A p \in PermitIDs : Known(p) => ValidClaims(records[p].claims)

(* The inductive invariant.                                                *)
StoreInv ==
  /\ TypeOK
  /\ ClaimsValid
  /\ IssuedUnderPresentAuthority
  /\ OneEndPerPermit
  /\ NoClaimFromAFutureEpoch

USE DEF Time, NoTime, Epochs, Classes, States, AuthorityState, Readings

-----------------------------------------------------------------------------
(* What a lazy expiry makes of a record: a record of the same claims, that *)
(* moved from ISSUED to EXPIRED or did not change (store.go:181-191).      *)
LEMMA ExpireFacts ==
  ASSUME NEW r \in Record, NEW now \in Int
  PROVE  /\ ExpireIfNeeded(r, now) \in Record
         /\ ExpireIfNeeded(r, now).claims = r.claims
         /\ \/ ExpireIfNeeded(r, now) = r
            \/ /\ r.state = "ISSUED"
               /\ ExpireIfNeeded(r, now).state = "EXPIRED"
               /\ ExpireIfNeeded(r, now).consumedAt = r.consumedAt
               /\ ExpireIfNeeded(r, now).expiredAt = r.claims.expiresAt
               /\ ExpireIfNeeded(r, now).revokedAt = r.revokedAt
         /\ ExpireIfNeeded(r, now).state = "ISSUED"
              => ExpireIfNeeded(r, now) = r /\ now < r.claims.expiresAt
<1>1. CASE r.state = "ISSUED" /\ now >= r.claims.expiresAt
  <2>1. ExpireIfNeeded(r, now) = [r EXCEPT !.state = "EXPIRED",
                                           !.expiredAt = r.claims.expiresAt]
    BY <1>1 DEF ExpireIfNeeded
  <2>2. r.claims.expiresAt \in Time /\ "EXPIRED" \in States
    BY DEF Record, Claims
  <2> QED
    BY <1>1, <2>1, <2>2 DEF Record
<1>2. CASE ~(r.state = "ISSUED" /\ now >= r.claims.expiresAt)
  <2>1. ExpireIfNeeded(r, now) = r
    BY <1>2 DEF ExpireIfNeeded
  <2>2. r.claims.expiresAt \in Int
    BY PermitStoreAssumption DEF Record, Claims
  <2> QED
    BY <1>2, <2>1, <2>2
<1> QED
  BY <1>1, <1>2

(* What a store operation may do to a record it finds: the claims stay,    *)
(* and the record changes only if it was ISSUED, into an ended one.        *)
EndsOrStays(r, s) ==
  /\ s \in Record
  /\ s.claims = r.claims
  /\ s = r \/ (r.state = "ISSUED" /\ s.state # "ISSUED")
  /\ OneEnd(r) => OneEnd(s)

(* Ending an ISSUED record with the right stamp leaves one end              *)
(* (store.go:126-191).                                                     *)
LEMMA EndFacts ==
  ASSUME NEW r \in Record, r.state = "ISSUED", NEW t \in Time
  PROVE  /\ EndsOrStays(r, [r EXCEPT !.state = "REVOKED", !.revokedAt = t])
         /\ t < r.claims.expiresAt =>
              EndsOrStays(r, [r EXCEPT !.state = "CONSUMED", !.consumedAt = t])
<1>1. [r EXCEPT !.state = "REVOKED", !.revokedAt = t] \in Record
  BY DEF Record
<1>2. [r EXCEPT !.state = "CONSUMED", !.consumedAt = t] \in Record
  BY DEF Record
<1>3. t # NoTime
  BY PermitStoreAssumption
<1> QED
  BY <1>1, <1>2, <1>3 DEF EndsOrStays, OneEnd, Record

LEMMA ExpireEndsOrStays ==
  ASSUME NEW r \in Record, NEW now \in Int
  PROVE  EndsOrStays(r, ExpireIfNeeded(r, now))
<1>1. r.claims.expiresAt \in Time \ {0} /\ NoTime \notin Time \ {0}
  BY PermitStoreAssumption DEF Record, Claims
<1>2. CASE ExpireIfNeeded(r, now) = r
  BY <1>2 DEF EndsOrStays
<1>3. CASE ExpireIfNeeded(r, now) # r
  BY <1>1, <1>3, ExpireFacts DEF EndsOrStays, OneEnd
<1> QED
  BY <1>2, <1>3

LEMMA ConsumedEndsOrStays ==
  ASSUME NEW r \in Record, NEW now \in Time
  PROVE  EndsOrStays(r, Consumed(r, now))
<1> DEFINE e == ExpireIfNeeded(r, now)
<1>1. now \in Int
  BY PermitStoreAssumption
<1>2. CASE e.state # "ISSUED"
  BY <1>1, <1>2, ExpireEndsOrStays DEF Consumed
<1>3. CASE e.state = "ISSUED"
  <2>1. e = r /\ now < r.claims.expiresAt
    BY <1>1, <1>3, ExpireFacts
  <2>2. \/ Consumed(r, now) = [r EXCEPT !.state = "REVOKED", !.revokedAt = now]
        \/ Consumed(r, now) = [r EXCEPT !.state = "CONSUMED", !.consumedAt = now]
    BY <1>3, <2>1 DEF Consumed
  <2> QED
    BY <1>3, <2>1, <2>2, EndFacts
<1> QED
  BY <1>2, <1>3

LEMMA RevokedEndsOrStays ==
  ASSUME NEW r \in Record, NEW at \in Time
  PROVE  EndsOrStays(r, Revoked(r, at))
<1> DEFINE e == ExpireIfNeeded(r, at)
<1>1. at \in Int
  BY PermitStoreAssumption
<1>2. CASE e.state # "ISSUED"
  BY <1>1, <1>2, ExpireEndsOrStays DEF Revoked
<1>3. CASE e.state = "ISSUED"
  <2>1. e = r
    BY <1>1, <1>3, ExpireFacts
  <2>2. Revoked(r, at) = [r EXCEPT !.state = "REVOKED", !.revokedAt = at]
    BY <1>3, <2>1 DEF Revoked
  <2> QED
    BY <1>3, <2>1, <2>2, EndFacts
<1> QED
  BY <1>2, <1>3

(* How a record fares in one step, whichever operation takes it: an        *)
(* unknown one stays unknown or is registered under its authority, a known *)
(* one ends or stays (store.go:74-191, authority.go:44-73).                *)
Registered(s) ==
  /\ s \in Record
  /\ s.state = "ISSUED"
  /\ OneEnd(s)
  /\ ValidClaims(s.claims)
  /\ IsBound(s.claims) => AuthorityHolds(s.claims)

Fares(p) ==
  \/ ~Known(p) /\ records'[p] = NoRecord
  \/ ~Known(p) /\ Registered(records'[p]) /\ authorities' = authorities
  \/ Known(p) /\ EndsOrStays(records[p], records'[p])

LEMMA NoRecordFacts == NoRecord.state = "NONE" /\ NoRecord \notin Record
  BY DEF NoRecord, Record

LEMMA KnownIsRecord ==
  ASSUME TypeOK, NEW p \in PermitIDs
  PROVE  Known(p) <=> records[p] \in Record
  BY NoRecordFacts DEF TypeOK, Known

LEMMA StayingFares ==
  ASSUME TypeOK, NEW p \in PermitIDs, records'[p] = records[p]
  PROVE  Fares(p)
  BY KnownIsRecord DEF Fares, EndsOrStays, Known

(* Only one record changes when an operation names the permit.             *)
LEMMA OneRecordFares ==
  ASSUME TypeOK, NEW q \in PermitIDs, NEW s,
         records' = [records EXCEPT ![q] = s],
         Known(q), EndsOrStays(records[q], s)
  PROVE  \A p \in PermitIDs : Fares(p)
<1> SUFFICES ASSUME NEW p \in PermitIDs PROVE Fares(p)
  OBVIOUS
<1>1. CASE p = q
  BY <1>1 DEF Fares, TypeOK
<1>2. CASE p # q
  BY <1>2, StayingFares DEF TypeOK
<1> QED
  BY <1>1, <1>2

LEMMA StepFares ==
  ASSUME TypeOK, [Next]_vars
  PROVE  \A p \in PermitIDs : Fares(p)
<1>0. \A t \in Readings : t \in Time /\ t \in Int
  BY PermitStoreAssumption DEF TypeOK
<1>1. ASSUME NEW q \in PermitIDs, NEW c \in Claims, Register(q, c)
      PROVE  \A p \in PermitIDs : Fares(p)
  <2> DEFINE s == [claims |-> c, state |-> "ISSUED", consumedAt |-> NoTime,
                   expiredAt |-> NoTime, revokedAt |-> NoTime]
  <2>1. Registered(s)
    BY <1>1 DEF Registered, Record, OneEnd, Register
  <2> SUFFICES ASSUME NEW p \in PermitIDs PROVE Fares(p)
    OBVIOUS
  <2>2. CASE p = q
    BY <1>1, <2>1, <2>2 DEF Fares, Register, TypeOK
  <2>3. CASE p # q
    BY <1>1, <2>3, StayingFares DEF Register, TypeOK
  <2> QED
    BY <2>2, <2>3
<1>2. ASSUME NEW q \in PermitIDs, NEW now \in Readings, Get(q, now)
      PROVE  \A p \in PermitIDs : Fares(p)
  BY <1>0, <1>2, KnownIsRecord, ExpireEndsOrStays, OneRecordFares DEF Get
<1>3. ASSUME NEW q \in PermitIDs, NEW now \in Readings, Consume(q, now)
      PROVE  \A p \in PermitIDs : Fares(p)
  BY <1>0, <1>3, KnownIsRecord, ConsumedEndsOrStays, OneRecordFares DEF Consume
<1>4. ASSUME NEW q \in PermitIDs, NEW at \in Readings, Revoke(q, at)
      PROVE  \A p \in PermitIDs : Fares(p)
  BY <1>0, <1>4, KnownIsRecord, RevokedEndsOrStays, OneRecordFares DEF Revoke
<1>5. ASSUME NEW now \in Readings, List(now), NEW p \in PermitIDs
      PROVE  Fares(p)
  <2>1. records'[p] = ExpireIfNeeded(records[p], now)
    BY <1>5 DEF List
  <2>2. CASE Known(p)
    BY <1>0, <2>1, <2>2, KnownIsRecord, ExpireEndsOrStays DEF Fares
  <2>3. CASE ~Known(p)
    BY <2>1, <2>3, NoRecordFacts DEF Fares, Known, ExpireIfNeeded
  <2> QED
    BY <2>2, <2>3
<1>6. ASSUME NEW k \in AuthorityKeys, NEW enabled \in BOOLEAN, NEW at \in Readings,
             SetAuthorityEnabled(k, enabled, at), NEW p \in PermitIDs
      PROVE  Fares(p)
  <2>1. CASE UnderKey(records[p], k)
    <3>1. records'[p] = [records[p] EXCEPT !.state = "REVOKED", !.revokedAt = at]
      BY <1>6, <2>1 DEF SetAuthorityEnabled
    <3>2. records[p].state = "ISSUED" /\ Known(p)
      BY <2>1, NoRecordFacts DEF UnderKey, Known
    <3>3. records[p] \in Record /\ at \in Time
      BY <1>0, <3>2, KnownIsRecord
    <3>4. EndsOrStays(records[p], [records[p] EXCEPT !.state = "REVOKED", !.revokedAt = at])
      BY <3>2, <3>3, EndFacts
    <3> QED
      BY <3>1, <3>2, <3>4 DEF Fares
  <2>2. CASE ~UnderKey(records[p], k)
    BY <1>6, <2>2, StayingFares DEF SetAuthorityEnabled
  <2> QED
    BY <2>1, <2>2
<1>7. ASSUME UNCHANGED records
      PROVE  \A p \in PermitIDs : Fares(p)
  BY <1>7, StayingFares
<1> QED
  BY <1>1, <1>2, <1>3, <1>4, <1>5, <1>6, <1>7 DEF Next, Tick, vars, storeVars

-----------------------------------------------------------------------------
(* What a step does to the authorities: nothing, or one transition that    *)
(* raises an epoch and leaves nothing ISSUED under its key                 *)
(* (authority.go:44-73).                                                   *)
LEMMA StepOfAuthorities ==
  ASSUME TypeOK, [Next]_vars
  PROVE  \/ authorities' = authorities
         \/ \E k \in AuthorityKeys, enabled \in BOOLEAN :
              /\ authorities[k].epoch < MaxEpoch
              /\ authorities' = [authorities EXCEPT ![k] =
                                   [epoch |-> @.epoch + 1, enabled |-> enabled]]
              /\ \A p \in PermitIDs : Known(p) => ~UnderKey(records'[p], k)
<1>1. ASSUME NEW k \in AuthorityKeys, NEW enabled \in BOOLEAN, NEW at \in Readings,
             SetAuthorityEnabled(k, enabled, at),
             NEW p \in PermitIDs, Known(p)
      PROVE  ~UnderKey(records'[p], k)
  <2>1. records[p] \in Record
    BY <1>1, KnownIsRecord
  <2> QED
    BY <1>1, <2>1 DEF SetAuthorityEnabled, UnderKey, Record
<1>2. ASSUME NEW k \in AuthorityKeys, NEW enabled \in BOOLEAN, NEW at \in Readings,
             SetAuthorityEnabled(k, enabled, at)
      PROVE  /\ authorities[k].epoch < MaxEpoch
             /\ authorities' = [authorities EXCEPT ![k] =
                                  [epoch |-> @.epoch + 1, enabled |-> enabled]]
             /\ \A p \in PermitIDs : Known(p) => ~UnderKey(records'[p], k)
  BY <1>1, <1>2 DEF SetAuthorityEnabled
<1>3. (\A k \in AuthorityKeys, enabled \in BOOLEAN, at \in Readings :
         ~SetAuthorityEnabled(k, enabled, at)) => authorities' = authorities
  BY DEF Next, Register, Get, List, Consume, Revoke, Tick, vars, storeVars
<1> QED
  BY <1>2, <1>3

-----------------------------------------------------------------------------
LEMMA InitEstablishes == Init => StoreInv
  BY PermitStoreAssumption, NoRecordFacts
     DEF Init, StoreInv, ClaimsValid, TypeOK, IssuedUnderPresentAuthority, OneEndPerPermit,
         NoClaimFromAFutureEpoch, Known

LEMMA NextPreserves == StoreInv /\ [Next]_vars => StoreInv'
<1> SUFFICES ASSUME StoreInv, [Next]_vars PROVE StoreInv'
  OBVIOUS
<1>0. TypeOK
  BY DEF StoreInv
<1>1. \A p \in PermitIDs : Fares(p)
  BY <1>0, StepFares
<1>2. TypeOK'
  <2>1. clock' \in Time
    <3>1. clock' = clock \/ Tick
      BY DEF Next, Register, Get, List, Consume, Revoke, SetAuthorityEnabled, vars
    <3> QED
      BY <1>0, <3>1, PermitStoreAssumption DEF TypeOK, Tick
  <2>2. authorities' \in [AuthorityKeys -> AuthorityState]
    <3>1. CASE authorities' = authorities
      BY <1>0, <3>1 DEF TypeOK
    <3>2. ASSUME NEW k \in AuthorityKeys, NEW enabled \in BOOLEAN,
                 authorities[k].epoch < MaxEpoch,
                 authorities' = [authorities EXCEPT ![k] =
                                   [epoch |-> @.epoch + 1, enabled |-> enabled]]
          PROVE  authorities' \in [AuthorityKeys -> AuthorityState]
      <4>1. authorities[k].epoch + 1 \in Epochs
        BY <1>0, <3>2, PermitStoreAssumption DEF TypeOK
      <4>2. [epoch |-> authorities[k].epoch + 1, enabled |-> enabled] \in AuthorityState
        BY <4>1
      <4> HIDE DEF AuthorityState
      <4> QED
        BY <1>0, <3>2, <4>2 DEF TypeOK
    <3> QED
      BY <1>0, <3>1, <3>2, StepOfAuthorities
  <2>3. records' \in [PermitIDs -> Record \cup {NoRecord}]
    <3>1. \A p \in PermitIDs : records'[p] \in Record \cup {NoRecord}
      BY <1>1 DEF Fares, Registered, EndsOrStays
    <3>2. records' = [p \in PermitIDs |-> records'[p]]
      BY <1>0 DEF TypeOK, Next, Register, Get, List, Consume, Revoke,
                  SetAuthorityEnabled, Tick, vars, storeVars
    <3> QED
      BY <3>1, <3>2
  <2> QED
    BY <2>1, <2>2, <2>3 DEF TypeOK
<1>3. IssuedUnderPresentAuthority'
  <2> SUFFICES ASSUME NEW p \in PermitIDs, records'[p].state = "ISSUED",
                      IsBound(records'[p].claims)
               PROVE  AuthorityHolds(records[p].claims)'
    BY DEF IssuedUnderPresentAuthority, IsBound
  <2>1. CASE Registered(records'[p]) /\ authorities' = authorities
    BY <2>1 DEF Registered, AuthorityHolds, IsBound
  <2>2. CASE Known(p) /\ EndsOrStays(records[p], records'[p])
    <3>1. records'[p] = records[p] /\ records[p] \in Record
      BY <1>0, <2>2, KnownIsRecord DEF EndsOrStays
    <3>2. AuthorityHolds(records[p].claims)
      BY <3>1, <2>2 DEF StoreInv, IssuedUnderPresentAuthority
    <3>3. CASE authorities' = authorities
      BY <3>1, <3>2, <3>3 DEF AuthorityHolds
    <3>4. ASSUME NEW k \in AuthorityKeys, NEW enabled \in BOOLEAN,
                 authorities' = [authorities EXCEPT ![k] =
                                   [epoch |-> @.epoch + 1, enabled |-> enabled]],
                 \A q \in PermitIDs : Known(q) => ~UnderKey(records'[q], k)
          PROVE  AuthorityHolds(records[p].claims)'
      <4>1. records[p].claims.key # k
        <5>1. records[p].claims.class = "execution"
          BY <2>2, <3>1 DEF StoreInv, ClaimsValid, ValidClaims
        <5> QED
          BY <2>2, <3>1, <3>4, <5>1 DEF UnderKey
      <4>2. records[p].claims.key \in AuthorityKeys
        BY <3>1 DEF Record, Claims
      <4>3. authorities'[records[p].claims.key] = authorities[records[p].claims.key]
        BY <1>0, <3>4, <4>1, <4>2 DEF TypeOK
      <4> QED
        BY <3>1, <3>2, <4>3 DEF AuthorityHolds
    <3> QED
      BY <1>0, <3>1, <3>3, <3>4, StepOfAuthorities
  <2>3. CASE records'[p] = NoRecord
    BY <2>3, NoRecordFacts
  <2> QED
    BY <1>1, <2>1, <2>2, <2>3 DEF Fares
<1>4. OneEndPerPermit'
  <2> SUFFICES ASSUME NEW p \in PermitIDs, Known(p)' PROVE OneEnd(records'[p])
    BY DEF OneEndPerPermit, OneEnd
  <2> QED
    BY <1>1 DEF Fares, Registered, EndsOrStays, StoreInv, OneEndPerPermit, Known
<1>5. NoClaimFromAFutureEpoch'
  <2> SUFFICES ASSUME NEW p \in PermitIDs, Known(p)'
               PROVE  records'[p].claims.epoch
                        <= authorities'[records'[p].claims.key].epoch
    BY DEF NoClaimFromAFutureEpoch
  <2> DEFINE c == records'[p].claims
  <2>1. c \in Claims
    BY <1>1 DEF Fares, Registered, EndsOrStays, Record, Known
  <2>2. c.key \in AuthorityKeys /\ c.epoch \in Int
    BY <2>1, PermitStoreAssumption DEF Claims
  <2>3. authorities[c.key].epoch \in Int /\ authorities[c.key].epoch >= 1
    BY <1>0, <2>2, PermitStoreAssumption DEF TypeOK
  <2>4. c.epoch <= authorities[c.key].epoch
    <3>1. CASE Registered(records'[p])
      BY <2>2, <2>3, <3>1 DEF Registered, IsBound, AuthorityHolds
    <3>2. CASE Known(p) /\ EndsOrStays(records[p], records'[p])
      BY <3>2 DEF EndsOrStays, StoreInv, NoClaimFromAFutureEpoch
    <3> QED
      BY <1>1, <3>1, <3>2 DEF Fares, Known
  <2>5. authorities[c.key].epoch <= authorities'[c.key].epoch
    <3>1. CASE authorities' = authorities
      BY <2>3, <3>1
    <3>2. ASSUME NEW k \in AuthorityKeys, NEW enabled \in BOOLEAN,
                 authorities' = [authorities EXCEPT ![k] =
                                   [epoch |-> @.epoch + 1, enabled |-> enabled]]
          PROVE  authorities[c.key].epoch <= authorities'[c.key].epoch
      <4>1. CASE c.key = k
        BY <1>0, <2>3, <3>2, <4>1 DEF TypeOK
      <4>2. CASE c.key # k
        BY <1>0, <2>2, <2>3, <3>2, <4>2 DEF TypeOK
      <4> QED
        BY <4>1, <4>2
    <3> QED
      BY <1>0, <3>1, <3>2, StepOfAuthorities
  <2>6. authorities'[c.key].epoch \in Int
    BY <1>2, <2>2, PermitStoreAssumption DEF TypeOK
  <2> QED
    BY <2>2, <2>3, <2>4, <2>5, <2>6
<1>6. ClaimsValid'
  BY <1>1 DEF ClaimsValid, Fares, Registered, EndsOrStays, StoreInv, Known,
              ValidClaims, IsBound
<1> QED
  BY <1>2, <1>3, <1>4, <1>5, <1>6 DEF StoreInv

(* Every invariant the runs check holds for every instance.                *)
THEOREM StoreIsCorrect == Spec => []StoreInv
<1>1. Init => StoreInv
  BY InitEstablishes
<1>2. StoreInv /\ [Next]_vars => StoreInv'
  BY NextPreserves
<1> QED
  BY <1>1, <1>2, PTL DEF Spec

(* Every variable keeps its type, stamps included (store.go:28-34).        *)
THEOREM StoreTypes == Spec => []TypeOK
<1>1. StoreInv => TypeOK
  BY DEF StoreInv
<1> QED
  BY <1>1, StoreIsCorrect, PTL

(* What is ISSUED and bound was issued under the present authority         *)
(* (store.go:86-91, authority.go:65-71).                                   *)
THEOREM NothingOutlivesItsAuthority == Spec => []IssuedUnderPresentAuthority
<1>1. StoreInv => IssuedUnderPresentAuthority
  BY DEF StoreInv
<1> QED
  BY <1>1, StoreIsCorrect, PTL

(* A permit ends once, and is consumed before it expires or not at all     *)
(* (store.go:126-191).                                                     *)
THEOREM PermitsEndOnce == Spec => []OneEndPerPermit
<1>1. StoreInv => OneEndPerPermit
  BY DEF StoreInv
<1> QED
  BY <1>1, StoreIsCorrect, PTL

(* An epoch that comes into force is a new one (authority.go:56).          *)
THEOREM EpochsAreFresh == Spec => []NoClaimFromAFutureEpoch
<1>1. StoreInv => NoClaimFromAFutureEpoch
  BY DEF StoreInv
<1> QED
  BY <1>1, StoreIsCorrect, PTL

(* The record of a permit that ended never changes again (store.go:126-179).*)
THEOREM EndedStaysEnded == Spec => EndedIsFinal
<1>1. ASSUME StoreInv, [Next]_vars, NEW p \in PermitIDs, Known(p)
      PROVE  /\ records'[p].claims = records[p].claims
             /\ records[p].state # "ISSUED" => records'[p] = records[p]
  <2>1. TypeOK
    BY <1>1 DEF StoreInv
  <2>2. EndsOrStays(records[p], records'[p])
    BY <1>1, <2>1, StepFares DEF Fares
  <2> QED
    BY <2>2 DEF EndsOrStays
<1>2. StoreInv /\ [Next]_vars =>
        [\A p \in PermitIDs : Known(p) =>
           /\ records'[p].claims = records[p].claims
           /\ records[p].state # "ISSUED" => records'[p] = records[p]]_vars
  BY <1>1
<1> QED
  BY <1>2, StoreIsCorrect, PTL DEF Spec, EndedIsFinal

(* When an authority transition returns, nothing issued under its key is    *)
(* outstanding, and its epoch is a new one (authority.go:39-73).           *)
THEOREM TransitionsRevoke == Spec => TransitionLeavesNoneOutstanding
<1>1. ASSUME StoreInv, [Next]_vars, NEW k \in AuthorityKeys,
             authorities'[k] # authorities[k]
      PROVE  /\ authorities'[k].epoch > authorities[k].epoch
             /\ \A p \in PermitIDs : Known(p) => ~UnderKey(records'[p], k)
  <2>1. TypeOK
    BY <1>1 DEF StoreInv
  <2>2. PICK j \in AuthorityKeys, enabled \in BOOLEAN :
          /\ authorities' = [authorities EXCEPT ![j] =
                               [epoch |-> @.epoch + 1, enabled |-> enabled]]
          /\ \A p \in PermitIDs : Known(p) => ~UnderKey(records'[p], j)
    BY <1>1, <2>1, StepOfAuthorities
  <2>3. j = k
    BY <1>1, <2>1, <2>2 DEF TypeOK
  <2>4. authorities[k].epoch \in Int
    BY <2>1, PermitStoreAssumption DEF TypeOK
  <2>5. authorities'[k].epoch = authorities[k].epoch + 1
    BY <2>1, <2>2, <2>3 DEF TypeOK
  <2> QED
    BY <2>2, <2>3, <2>4, <2>5
<1>2. StoreInv /\ [Next]_vars =>
        [\A k \in AuthorityKeys : authorities'[k] # authorities[k] =>
           /\ authorities'[k].epoch > authorities[k].epoch
           /\ \A p \in PermitIDs :
                Known(p) => ~UnderKey(records'[p], k)]_vars
  BY <1>1
<1> QED
  BY <1>2, StoreIsCorrect, PTL DEF Spec, TransitionLeavesNoneOutstanding

-----------------------------------------------------------------------------
(* A step that registers nothing and consumes nothing withdraws the        *)
(* permits that ended in it.                                               *)
LEMMA Withdrawal ==
  ASSUME \A p \in PermitIDs :
           \/ records'[p].state = records[p].state
           \/ /\ records[p].state = "ISSUED"
              /\ records'[p].state \in {"EXPIRED", "REVOKED"}
  PROVE  Lifecycle!Next
<1> DEFINE S == InState({"ISSUED"}) \ InState({"ISSUED"})'
<1>1. S \in SUBSET PermitIDs /\ S \subseteq InState({"ISSUED"})
  BY DEF InState
<1>2. InState({"ISSUED"})' = InState({"ISSUED"}) \ S
  BY DEF InState
<1>3. InState({"EXPIRED", "REVOKED"})' = InState({"EXPIRED", "REVOKED"}) \cup S
  BY DEF InState
<1>4. InState({"CONSUMED"})' = InState({"CONSUMED"})
  BY DEF InState
<1> QED
  BY <1>1, <1>2, <1>3, <1>4 DEF Lifecycle!Next, Lifecycle!Withdraw

(* A step in which one permit moves and the others keep their state.       *)
LEMMA Grants ==
  ASSUME NEW q \in PermitIDs,
         records[q].state = "NONE", records'[q].state = "ISSUED",
         \A p \in PermitIDs \ {q} : records'[p].state = records[p].state
  PROVE  Lifecycle!Next
<1>1. Lifecycle!Grant(q)
  BY DEF Lifecycle!Grant, InState
<1> QED
  BY <1>1 DEF Lifecycle!Next

LEMMA Spends ==
  ASSUME NEW q \in PermitIDs,
         records[q].state = "ISSUED", records'[q].state = "CONSUMED",
         \A p \in PermitIDs \ {q} : records'[p].state = records[p].state
  PROVE  Lifecycle!Next
<1>1. Lifecycle!Spend(q)
  BY DEF Lifecycle!Spend, InState
<1> QED
  BY <1>1 DEF Lifecycle!Next

(* The state a record ends in tells the operation: only Consume consumes.  *)
LEMMA OnlyConsumeConsumes ==
  ASSUME NEW r \in Record, NEW t \in Time
  PROVE  /\ ExpireIfNeeded(r, t).state \in {r.state, "EXPIRED"}
         /\ Revoked(r, t).state \in {r.state, "EXPIRED", "REVOKED"}
  BY DEF ExpireIfNeeded, Revoked, Record

(* The step correspondence: Register grants, Consume spends if it consumes *)
(* and withdraws otherwise, every other operation withdraws.               *)
LEMMA StepImplements ==
  ASSUME StoreInv, [Next]_vars
  PROVE  Lifecycle!Next \/ UNCHANGED Lifecycle!vars
<1>0. TypeOK
  BY DEF StoreInv
<1>1. \A t \in Readings : t \in Time
  BY <1>0, PermitStoreAssumption DEF TypeOK
<1>2. \A p \in PermitIDs : Fares(p)
  BY <1>0, StepFares
<1>3. ASSUME NEW p \in PermitIDs, ~Known(p), ~Registered(records'[p])
      PROVE  records'[p].state = records[p].state
  BY <1>2, <1>3 DEF Fares, Known
<1>4. ASSUME NEW p \in PermitIDs, Known(p)
      PROVE  \/ records'[p].state = records[p].state
             \/ /\ records[p].state = "ISSUED"
                /\ records'[p].state \in {"CONSUMED", "EXPIRED", "REVOKED"}
  BY <1>2, <1>4 DEF Fares, EndsOrStays, Record
<1>5. ASSUME NEW q \in PermitIDs, NEW c \in Claims, Register(q, c)
      PROVE  Lifecycle!Next
  <2>1. records[q].state = "NONE" /\ records'[q].state = "ISSUED"
    BY <1>0, <1>5, NoRecordFacts DEF Register, Known, TypeOK
  <2>2. \A p \in PermitIDs \ {q} : records'[p].state = records[p].state
    BY <1>0, <1>5 DEF Register, TypeOK
  <2> QED
    BY <2>1, <2>2, Grants
<1>6. ASSUME NEW q \in PermitIDs, NEW now \in Readings, Consume(q, now)
      PROVE  Lifecycle!Next
  <2>1. \A p \in PermitIDs \ {q} : records'[p].state = records[p].state
    BY <1>0, <1>6 DEF Consume, TypeOK
  <2>2. Known(q)
    BY <1>6 DEF Consume
  <2>3. CASE records[q].state = "ISSUED" /\ records'[q].state = "CONSUMED"
    BY <2>1, <2>3, Spends
  <2>4. CASE ~(records[q].state = "ISSUED" /\ records'[q].state = "CONSUMED")
    BY <1>4, <2>1, <2>2, <2>4, Withdrawal
  <2> QED
    BY <2>3, <2>4
<1>7. ASSUME NEW q \in PermitIDs, NEW t \in Readings, Get(q, t) \/ Revoke(q, t)
      PROVE  Lifecycle!Next
  <2>1. \A p \in PermitIDs \ {q} : records'[p].state = records[p].state
    BY <1>0, <1>7 DEF Get, Revoke, TypeOK
  <2>2. Known(q) /\ records[q] \in Record
    BY <1>0, <1>7, KnownIsRecord DEF Get, Revoke
  <2>3. records'[q].state \in {records[q].state, "EXPIRED", "REVOKED"}
    BY <1>0, <1>1, <1>7, <2>2, OnlyConsumeConsumes DEF Get, Revoke, TypeOK
  <2> QED
    BY <1>4, <2>1, <2>2, <2>3, Withdrawal
<1>8. ASSUME NEW now \in Readings, List(now)
      PROVE  Lifecycle!Next
  <2>1. ASSUME NEW p \in PermitIDs
        PROVE  \/ records'[p].state = records[p].state
               \/ /\ records[p].state = "ISSUED"
                  /\ records'[p].state \in {"EXPIRED", "REVOKED"}
    <3>1. records'[p] = ExpireIfNeeded(records[p], now)
      BY <1>8 DEF List
    <3>2. CASE Known(p)
      BY <1>0, <1>1, <1>4, <3>1, <3>2, KnownIsRecord, OnlyConsumeConsumes
    <3>3. CASE ~Known(p)
      BY <3>1, <3>3, NoRecordFacts DEF Known, ExpireIfNeeded
    <3> QED
      BY <3>2, <3>3
  <2> QED
    BY <2>1, Withdrawal
<1>9. ASSUME NEW k \in AuthorityKeys, NEW enabled \in BOOLEAN, NEW at \in Readings,
             SetAuthorityEnabled(k, enabled, at)
      PROVE  Lifecycle!Next
  <2>1. ASSUME NEW p \in PermitIDs
        PROVE  \/ records'[p].state = records[p].state
               \/ /\ records[p].state = "ISSUED"
                  /\ records'[p].state \in {"EXPIRED", "REVOKED"}
    <3>1. CASE UnderKey(records[p], k)
      <4>1. records[p].state = "ISSUED" /\ Known(p)
        BY <3>1, NoRecordFacts DEF UnderKey, Known
      <4>2. records'[p] = [records[p] EXCEPT !.state = "REVOKED", !.revokedAt = at]
        BY <1>9, <3>1 DEF SetAuthorityEnabled
      <4>3. records[p] \in Record
        BY <1>0, <4>1, KnownIsRecord
      <4>4. records'[p].state = "REVOKED"
        BY <4>2, <4>3 DEF Record
      <4> QED
        BY <4>1, <4>4
    <3>2. CASE ~UnderKey(records[p], k)
      BY <1>9, <3>2 DEF SetAuthorityEnabled
    <3> QED
      BY <3>1, <3>2
  <2> QED
    BY <2>1, Withdrawal
<1>10. ASSUME UNCHANGED records
       PROVE  UNCHANGED Lifecycle!vars
  BY <1>10 DEF Lifecycle!vars, InState
<1> QED
  BY <1>5, <1>6, <1>7, <1>8, <1>9, <1>10 DEF Next, Tick, vars, storeVars

(* The store implements the life cycle it promises: a permit is granted     *)
(* once, spent at most once and never comes back (store.go, authority.go). *)
THEOREM StoreImplementsLifecycle == Spec => ImplementsLifecycle
<1>1. Init => Lifecycle!Init
  BY NoRecordFacts DEF Init, Lifecycle!Init, InState
<1>2. StoreInv /\ [Next]_vars => [Lifecycle!Next]_(Lifecycle!vars)
  BY StepImplements
<1> QED
  BY <1>1, <1>2, StoreIsCorrect, PTL DEF Spec, Lifecycle!Spec, ImplementsLifecycle

=============================================================================
