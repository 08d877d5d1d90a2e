------------------------------ MODULE MCJournals ------------------------------
(***************************************************************************)
(* The two journals for TLC.  The server's audit store and the observers   *)
(* share no file and no lock, so each is explored on its own: in a         *)
(* behaviour the one runs and the other rests.                             *)
(***************************************************************************)
EXTENDS AuditStore, SessionObserver, TLC

CONSTANTS s1, s2

VARIABLE running

(* A line that is not JSON, a tool call, and one that claims the child's   *)
(* end.                                                                    *)
SomeLines == {[json |-> FALSE, type |-> "", item |-> ""],
              [json |-> TRUE, type |-> "process.exited", item |-> "tool_call"]}

(* The second child writes nothing; its observer shares the journal.       *)
FirstWritesThree == (s1 :> 3) @@ (s2 :> 0)

JournalsInit == AuditInit /\ SessionInit /\ running \in {"audit", "observers"}

JournalsNext ==
  \/ running = "audit" /\ AuditNext /\ UNCHANGED <<running, sessionVars>>
  \/ running = "observers" /\ SessionNext /\ UNCHANGED <<running, auditVars>>

JournalsSpec ==
  /\ JournalsInit
  /\ [][JournalsNext]_<<running, auditVars, sessionVars>>
  /\ running = "observers" => SessionFairness

ObserversEndUnlessJammed == running = "observers" => EndsUnlessJammed

=============================================================================
