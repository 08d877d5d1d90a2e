------------------------------ MODULE AuditStore ------------------------------
(***************************************************************************)
(* audit.Store (src/internal/audit/store.go): the records a server holds   *)
(* in memory, the append-only log behind them, and the server's starts and *)
(* ends.  Every operation runs under one lock and is one step, except the  *)
(* loading of the log, which is a step a line.                             *)
(*                                                                         *)
(* A record is its request and the number of the write that made it.  Its  *)
(* line may be longer than the 64 KiB a bufio.Scanner takes: labels are    *)
(* short, lists of labels are not.  Every request here has an identifier   *)
(* (the router gives one to those without), and the store has a path.  A   *)
(* mutation that refuses, like an unknown request, changes nothing.        *)
(***************************************************************************)
EXTENDS JournalFile

CONSTANTS
  Requests,    \* request identifiers
  Limit,       \* how many records memory keeps: a hundred
  MaxWrites    \* bound: writes in a behaviour

ASSUME AuditAssumption == Limit \in Nat \ {0} /\ MaxWrites \in Nat

VARIABLES
  records,    \* Store.records, the oldest first
  log,        \* the file
  phase,      \* whether a server runs, or loads the log to run
  pos,        \* while it loads, the lines it has read
  writes,     \* how many writes there were: the next record's number
  acked       \* of each request, the last write that returned no error

auditVars == <<records, log, phase, pos, writes, acked>>

Record == [request : Requests, rev : 1..MaxWrites, long : BOOLEAN]

AuditTypeOK ==
  /\ records \in Seq(Record)
  /\ log \in [lines : Seq(Record \cup {Torn}), open : BOOLEAN]
  /\ phase \in {"down", "loading", "up"}
  /\ pos \in Nat
  /\ writes \in 0..MaxWrites
  /\ acked \in [Requests -> 0..MaxWrites]

AuditInit ==
  /\ records = <<>> /\ log = EmptyFile
  /\ phase = "loading" /\ pos = 0 /\ writes = 0
  /\ acked = [q \in Requests |-> 0]

-----------------------------------------------------------------------------
IndexesOf(rs, q) == {i \in 1..Len(rs) : rs[i].request = q}

(* The newest record of the request.                                       *)
LatestIndex(rs, q) ==
  CHOOSE i \in IndexesOf(rs, q) : \A j \in IndexesOf(rs, q) : j <= i

(* Get: the revision shown for a request, 0 when there is none.            *)
Shown(rs, q) == IF IndexesOf(rs, q) = {} THEN 0 ELSE rs[LatestIndex(rs, q)].rev

(* Recent: the newest first, all of them when the limit is not positive.   *)
Recent(n) ==
  LET m == IF n <= 0 \/ n > Len(records) THEN Len(records) ELSE n
  IN  [i \in 1..m |-> records[Len(records) + 1 - i]]

(* Fault: room is made at the wrong end.                                   *)
FirstOf(rs) == IF Len(rs) > Limit THEN SubSeq(rs, 1, Limit) ELSE rs

LastOf(rs) == IF Len(rs) > Limit THEN SubSeq(rs, Len(rs) - Limit + 1, Len(rs)) ELSE rs

(* Fault: writes are numbered from two.                                    *)
NewRecordSkipping(q, long) == [request |-> q, rev |-> writes + 2, long |-> long]

NewRecord(q, long) == [request |-> q, rev |-> writes + 1, long |-> long]

(* Fault: the error of file.Write is not looked at.                        *)
PersistedUnchecked(r) == \E how \in Writes : log' = AfterWrite(log, r, how)

(* persist: an error may hide a write that reached the file, when only     *)
(* closing it failed.                                                      *)
Persisted(r) == log' = AfterWrite(log, r, "written")

NotPersisted(r) == \E how \in Writes : log' = AfterWrite(log, r, how)

(* One write under the lock: what memory becomes when it succeeds.         *)
Write(r, rs) ==
  /\ writes < MaxWrites
  /\ writes' = writes + 1
  /\ \/ /\ Persisted(r)
        /\ records' = rs
        /\ acked' = [acked EXCEPT ![r.request] = r.rev]
     \/ NotPersisted(r) /\ UNCHANGED <<records, acked>>
  /\ UNCHANGED <<phase, pos>>

AppendRecord(q, long) ==
  /\ phase = "up"
  /\ LET r == NewRecord(q, long) IN Write(r, LastOf(Append(records, r)))

Replaced(rs, r) == [rs EXCEPT ![LatestIndex(rs, r.request)] = r]

(* Update, of a copy the caller holds, and Mutate, of the record itself.   *)
Update(q, long) ==
  /\ phase = "up" /\ IndexesOf(records, q) # {}
  /\ LET r == NewRecord(q, long) IN Write(r, Replaced(records, r))

Mutate(q, long) == Update(q, long)

-----------------------------------------------------------------------------
(* The server ends, perhaps while it writes.                               *)
Stop ==
  /\ phase # "down"
  /\ phase' = "down" /\ records' = <<>> /\ pos' = 0
  /\ \/ UNCHANGED <<log, writes>>
     \/ /\ phase = "up" /\ writes < MaxWrites
        /\ writes' = writes + 1
        /\ \E q \in Requests, long \in BOOLEAN : NotPersisted(NewRecord(q, long))
  /\ UNCHANGED acked

Start ==
  /\ phase = "down"
  /\ phase' = "loading"
  /\ UNCHANGED <<records, log, pos, writes, acked>>

(* Fault: the first line of a request is kept.                             *)
MergedKeepingFirst(rs, r) ==
  IF IndexesOf(rs, r.request) = {} THEN Append(rs, r) ELSE rs

(* A line is taken as a revision of the last record with its request, or   *)
(* as a record of its own.                                                 *)
Merged(rs, r) ==
  IF IndexesOf(rs, r.request) = {} THEN Append(rs, r) ELSE Replaced(rs, r)

Readable(line) == line # Torn /\ ~line.long

(* Fault: a line that cannot be loaded is skipped.                         *)
LoadLineLeniently ==
  /\ phase = "loading" /\ pos < Len(log.lines)
  /\ LET line == log.lines[pos + 1] IN
       records' = IF Readable(line) THEN Merged(records, line) ELSE records
  /\ pos' = pos + 1
  /\ UNCHANGED <<phase, log, writes, acked>>

(* A line that is no JSON value or too long ends the start, and the server *)
(* with it.                                                                *)
LoadLine ==
  /\ phase = "loading" /\ pos < Len(log.lines)
  /\ LET line == log.lines[pos + 1] IN
       IF Readable(line)
       THEN records' = Merged(records, line) /\ pos' = pos + 1 /\ UNCHANGED phase
       ELSE records' = <<>> /\ pos' = 0 /\ phase' = "down"
  /\ UNCHANGED <<log, writes, acked>>

Loaded ==
  /\ phase = "loading" /\ pos = Len(log.lines)
  /\ phase' = "up" /\ pos' = 0
  /\ UNCHANGED <<records, log, writes, acked>>

AuditNext ==
  \/ \E q \in Requests, long \in BOOLEAN :
       AppendRecord(q, long) \/ Update(q, long) \/ Mutate(q, long)
  \/ Stop \/ Start \/ LoadLine \/ Loaded

AuditSpec == AuditInit /\ [][AuditNext]_auditVars

-----------------------------------------------------------------------------
Loadable == \A i \in 1..Len(log.lines) : Readable(log.lines[i])

(* If the log can be loaded at all, it has the last acknowledged revision  *)
(* of every request: a write that joins an unfinished line is lost though  *)
(* persist reports success, but never silently, for the next start refuses *)
(* the whole log (store.go:140-204).                                       *)
NothingLostSilently ==
  Loadable =>
    \A q \in Requests : acked[q] # 0 =>
      \E i \in 1..Len(log.lines) :
        log.lines[i].request = q /\ log.lines[i].rev = acked[q]

(* A log with a line that cannot be loaded is never mended, although the   *)
(* server goes on writing to it: its next end is its last (store.go:150-   *)
(* 178).                                                                   *)
DamageIsFinal ==
  [][~Loadable => ~Loadable' /\ (phase # "up" => phase' # "up")]_auditVars

(* What Get shows of a request it has not forgotten is no older than the   *)
(* request's last acknowledged write, however often an identifier is used  *)
(* and whichever write failed before (store.go:68-72, 106-117, 160-172).   *)
ShownIsCurrent ==
  phase = "up" => \A q \in Requests :
    Shown(records, q) # 0 => acked[q] <= Shown(records, q)

view == [q \in Requests |-> IF phase = "up" THEN Shown(records, q) ELSE 0]

Promised == INSTANCE AuditView WITH promised <- acked

(* The store keeps the promise of AuditView across failed writes, torn     *)
(* lines, crashes and restarts.                                            *)
KeepsItsPromise == Promised!ViewSpec

=============================================================================
