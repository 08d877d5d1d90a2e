--------------------------- MODULE PermitLifecycle ---------------------------
(***************************************************************************)
(* What the permit store promises its callers, with records, clocks and    *)
(* authorities left out: an identifier is granted at most once, a live     *)
(* permit is spent at most once, and a permit that was spent or withdrawn  *)
(* never becomes live again.  Many permits may be withdrawn in one step    *)
(* (an authority transition, a sweep over expired records), but a step     *)
(* spends at most one.                                                     *)
(***************************************************************************)

CONSTANT PermitIDs

VARIABLES
  live,    \* granted, and neither spent nor withdrawn
  spent,   \* consumed by the one execution they allow
  dead     \* withdrawn unspent: expired or revoked

vars == <<live, spent, dead>>

TypeOK ==
  /\ live \subseteq PermitIDs
  /\ spent \subseteq PermitIDs
  /\ dead \subseteq PermitIDs

Init ==
  /\ live = {}
  /\ spent = {}
  /\ dead = {}

Grant(p) ==
  /\ p \notin live \cup spent \cup dead
  /\ live' = live \cup {p}
  /\ UNCHANGED <<spent, dead>>

Spend(p) ==
  /\ p \in live
  /\ live' = live \ {p}
  /\ spent' = spent \cup {p}
  /\ UNCHANGED dead

Withdraw(S) ==
  /\ S \subseteq live
  /\ live' = live \ S
  /\ dead' = dead \cup S
  /\ UNCHANGED spent

Next ==
  \/ \E p \in PermitIDs : Grant(p) \/ Spend(p)
  \/ \E S \in SUBSET PermitIDs : Withdraw(S)

Spec == Init /\ [][Next]_vars

=============================================================================
