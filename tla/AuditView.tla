------------------------------- MODULE AuditView ------------------------------
(***************************************************************************)
(* What the audit store promises its readers: the revision a request's     *)
(* record is shown in (0: none) never falls behind the one whose write was *)
(* acknowledged, whatever fails or crashes in between.  A record may be    *)
(* forgotten; it is never shown in an older state.                         *)
(***************************************************************************)
EXTENDS Naturals

CONSTANTS Requests, MaxWrites

VARIABLES view, promised

Revisions == [Requests -> 0..MaxWrites]

ViewInit ==
  /\ view = [q \in Requests |-> 0]
  /\ promised = [q \in Requests |-> 0]

(* A write is acknowledged and shown; other records may have to make room. *)
Promise ==
  \E q \in Requests, n \in 1..MaxWrites :
    /\ n > promised[q] /\ n > view[q]
    /\ promised' = [promised EXCEPT ![q] = n]
    /\ view' \in Revisions
    /\ view'[q] = n
    /\ \A o \in Requests \ {q} : view'[o] \in {view[o], 0}

LoseAll == view' = [q \in Requests |-> 0] /\ UNCHANGED promised

(* A write that was not acknowledged may turn out to be there.             *)
Restore ==
  /\ view = [q \in Requests |-> 0]
  /\ view' \in Revisions
  /\ \A q \in Requests : view'[q] >= promised[q]
  /\ UNCHANGED promised

ViewNext == Promise \/ LoseAll \/ Restore

ViewSpec == ViewInit /\ [][ViewNext]_<<view, promised>>

=============================================================================
