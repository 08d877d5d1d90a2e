------------------------------ MODULE JournalFile -----------------------------
(***************************************************************************)
(* A file of JSON lines opened with O_APPEND, as the operating system      *)
(* keeps it for the audit log (src/internal/audit/store.go) and the        *)
(* session journal (src/internal/sessionaudit/recorder.go).  A write may   *)
(* stop anywhere; what is written next continues the unfinished line, and  *)
(* two pieces on one line are no JSON value.                               *)
(***************************************************************************)
EXTENDS Naturals, Sequences

(* A line that is no JSON value.                                           *)
Torn == [torn |-> TRUE]

EmptyFile == [lines |-> <<>>, open |-> FALSE]

(* How a write of one line ends: in full, without its newline, somewhere   *)
(* before, or before its first byte.                                       *)
Writes == {"written", "unterminated", "cut", "nothing"}

(* The content joins the unfinished line when there is one.                *)
AddLine(f, content, open) ==
  [lines |-> IF f.open THEN [f.lines EXCEPT ![Len(f.lines)] = Torn]
                       ELSE Append(f.lines, content),
   open |-> open]

AfterWrite(f, line, how) ==
  CASE how = "written" -> AddLine(f, line, FALSE)
    [] how = "unterminated" -> AddLine(f, line, TRUE)
    [] how = "cut" -> AddLine(f, Torn, TRUE)
    [] how = "nothing" -> f

=============================================================================
