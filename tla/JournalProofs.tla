----------------------------- MODULE JournalProofs ----------------------------
(***************************************************************************)
(* Theorems about the two journals of JSON lines: what a write does to the *)
(* file, the audit store for any number of requests and writes and any     *)
(* limit of its memory, and the session recorder with its observer for any *)
(* number of sessions, any lines an agent writes and any size of the pipe. *)
(***************************************************************************)
EXTENDS AuditStore, SessionObserver, FiniteSetTheorems, SequenceTheorems,
        WellFoundedInduction, TLAPS

(* How a file f and what a write of the line r made of it, g, differ.       *)
Extends(f, g, r, how, Line) ==
  /\ g \in [lines : Seq(Line), open : BOOLEAN]
  /\ g.open => Len(g.lines) > 0
  /\ Len(f.lines) <= Len(g.lines)
  /\ \A i \in 1..Len(f.lines) : g.lines[i] \in {f.lines[i], Torn}
  /\ \A i \in 1..Len(g.lines) :
       i \in 1..Len(f.lines) \/ (i = Len(f.lines) + 1 /\ g.lines[i] \in {r, Torn})
  /\ how = "written" =>
       IF f.open THEN g.lines[Len(f.lines)] = Torn
       ELSE Len(g.lines) = Len(f.lines) + 1 /\ g.lines[Len(f.lines) + 1] = r

(* One write adds its line or part of it, or spoils the line it joins; the *)
(* other lines stay (store.go:180-204, recorder.go:181-221).               *)
LEMMA WriteKeepsLines ==
  ASSUME NEW Line, Torn \in Line,
         NEW f \in [lines : Seq(Line), open : BOOLEAN], NEW r \in Line,
         NEW how \in Writes, f.open => Len(f.lines) > 0,
         NEW g, g = AfterWrite(f, r, how)
  PROVE  Extends(f, g, r, how, Line)
<1>1. f.lines \in Seq(Line) /\ f.open \in BOOLEAN /\ Len(f.lines) \in Nat
  OBVIOUS
<1>2. r \in Line /\ Torn \in Line
  OBVIOUS
<1>3. ASSUME NEW c \in {r, Torn}, NEW o \in BOOLEAN, g = AddLine(f, c, o)
      PROVE  /\ g \in [lines : Seq(Line), open : BOOLEAN]
             /\ Len(g.lines) > 0
             /\ Len(f.lines) <= Len(g.lines)
             /\ \A i \in 1..Len(f.lines) : g.lines[i] \in {f.lines[i], Torn}
             /\ \A i \in 1..Len(g.lines) :
                  i \in 1..Len(f.lines) \/ (i = Len(f.lines) + 1 /\ g.lines[i] \in {r, Torn})
             /\ IF f.open THEN g.lines[Len(f.lines)] = Torn
                ELSE Len(g.lines) = Len(f.lines) + 1 /\ g.lines[Len(f.lines) + 1] = c
  <2>1. CASE f.open
    <3>1. g.open = o /\ g.lines = [f.lines EXCEPT ![Len(f.lines)] = Torn]
      BY <1>3, <2>1 DEF AddLine
    <3>2. g = [lines |-> g.lines, open |-> g.open]
      BY <1>3 DEF AddLine
    <3>3. Len(f.lines) \in 1..Len(f.lines)
      BY <1>1, <2>1
    <3>4. /\ g.lines \in Seq(Line) /\ Len(g.lines) = Len(f.lines)
          /\ \A i \in 1..Len(f.lines) :
               g.lines[i] = IF i = Len(f.lines) THEN Torn ELSE f.lines[i]
      BY <1>1, <1>2, <3>1, <3>3, ExceptSeq
    <3> QED BY <1>1, <2>1, <3>1, <3>2, <3>3, <3>4
  <2>2. CASE ~f.open
    <3>1. g.open = o /\ g.lines = Append(f.lines, c)
      BY <1>3, <2>2 DEF AddLine
    <3>2. g = [lines |-> g.lines, open |-> g.open]
      BY <1>3 DEF AddLine
    <3>3. c \in Line
      BY <1>2
    <3>4. /\ g.lines \in Seq(Line) /\ Len(g.lines) = Len(f.lines) + 1
          /\ g.lines[Len(f.lines) + 1] = c
          /\ \A i \in 1..Len(f.lines) : g.lines[i] = f.lines[i]
      BY <1>1, <3>1, <3>3, AppendProperties
    <3> QED BY <1>1, <2>2, <3>1, <3>2, <3>4
  <2> QED BY <2>1, <2>2
<1> USE DEF Extends
<1>4. CASE how = "nothing"
  BY <1>1, <1>4 DEF AfterWrite
<1>5. CASE how = "written"
  BY <1>3, <1>5 DEF AfterWrite
<1>6. CASE how = "unterminated"
  BY <1>3, <1>6 DEF AfterWrite
<1>7. CASE how = "cut"
  BY <1>3, <1>7 DEF AfterWrite
<1> QED BY <1>4, <1>5, <1>6, <1>7 DEF Writes

-----------------------------------------------------------------------------
(* The audit store.                                                        *)
Line == Record \cup {Torn}

(* What is known of the lines of the log, torn ones aside: each is a write *)
(* there has been, and a later line is a later write (store.go:180-204).   *)
LogKnows ==
  /\ log.open => Len(log.lines) > 0
  /\ \A i \in 1..Len(log.lines) : log.lines[i] # Torn => log.lines[i].rev <= writes
  /\ \A i, j \in 1..Len(log.lines) :
       i < j /\ log.lines[i] # Torn /\ log.lines[j] # Torn
         => log.lines[i].rev < log.lines[j].rev

(* Every record is one of the writes there have been.                      *)
RecordsKnow == \A k \in 1..Len(records) : records[k].rev <= writes

AcksKnow == \A q \in Requests : acked[q] <= writes

(* While the log is loaded, every line read is readable and the record of  *)
(* its request is no older (store.go:150-178).                             *)
LoadKnows ==
  phase = "loading" =>
    /\ pos <= Len(log.lines)
    /\ \A i \in 1..pos :
         /\ Readable(log.lines[i])
         /\ log.lines[i].rev <= Shown(records, log.lines[i].request)

DownKnows == phase = "down" => pos = 0

AuditInv ==
  /\ AuditTypeOK
  /\ LogKnows
  /\ RecordsKnow
  /\ AcksKnow
  /\ LoadKnows
  /\ DownKnows
  /\ NothingLostSilently
  /\ ShownIsCurrent

-----------------------------------------------------------------------------
(* A set of positions has a last one.                                      *)
LEMMA LastExists ==
  ASSUME NEW n \in Nat, NEW S \in SUBSET (1..n), S # {}
  PROVE  \E m \in S : \A j \in S : j <= m
<1> DEFINE R == {ss \in Nat \X Nat : ss[1] < ss[2]}
<1> DEFINE T == {n - i : i \in S}
<1>1. IsWellFoundedOn(R, Nat)
  BY NatLessThanWellFounded DEF OpToRel
<1>2. T \subseteq Nat /\ T # {}
  <2>1. \A i \in S : i \in 1..n /\ n - i \in Nat
    OBVIOUS
  <2>2. PICK i \in S : TRUE
    OBVIOUS
  <2>3. n - i \in T
    OBVIOUS
  <2> QED BY <2>1, <2>3
<1>3. \E x \in T : \A y \in T : ~ (<<y, x>> \in R)
  <2> HIDE DEF R, T
  <2> QED BY <1>1, <1>2, WFMin
<1>4. PICK x \in T : \A y \in T : ~ (y < x)
  BY <1>3, <1>2
<1>5. PICK m \in S : x = n - m
  BY <1>4
<1>6. \A j \in S : n - j \in T /\ ~(n - j < n - m)
  BY <1>4, <1>5
<1> QED
  BY <1>5, <1>6

LEMMA LatestIndexIsLast ==
  ASSUME NEW rs \in Seq(Record), NEW q, IndexesOf(rs, q) # {}
  PROVE  /\ LatestIndex(rs, q) \in IndexesOf(rs, q)
         /\ \A j \in IndexesOf(rs, q) : j <= LatestIndex(rs, q)
<1>1. Len(rs) \in Nat /\ IndexesOf(rs, q) \in SUBSET (1..Len(rs))
  BY DEF IndexesOf
<1>2. \E m \in IndexesOf(rs, q) : \A j \in IndexesOf(rs, q) : j <= m
  BY <1>1, LastExists
<1> QED BY <1>2 DEF LatestIndex

(* The record shown is the one no other of the request follows.            *)
LEMMA ShownIsLast ==
  ASSUME NEW rs \in Seq(Record), NEW k \in 1..Len(rs),
         \A j \in 1..Len(rs) : rs[j].request = rs[k].request => j <= k
  PROVE  Shown(rs, rs[k].request) = rs[k].rev
<1> DEFINE q == rs[k].request
<1>1. k \in IndexesOf(rs, q)
  BY DEF IndexesOf
<1>2. LatestIndex(rs, q) \in IndexesOf(rs, q) /\ k <= LatestIndex(rs, q)
  BY <1>1, LatestIndexIsLast
<1>3. LatestIndex(rs, q) \in 1..Len(rs) /\ LatestIndex(rs, q) <= k
  BY <1>2 DEF IndexesOf
<1>4. LatestIndex(rs, q) = k
  BY <1>2, <1>3
<1> QED BY <1>1, <1>4 DEF Shown

LEMMA ShownIsNone ==
  ASSUME NEW rs, NEW q, \A j \in 1..Len(rs) : rs[j].request # q
  PROVE  Shown(rs, q) = 0
BY DEF Shown, IndexesOf

(* Something is shown of a request exactly when it has a record.           *)
LEMMA ShownIsSome ==
  ASSUME NEW rs \in Seq(Record), NEW q, IndexesOf(rs, q) # {}
  PROVE  \E k \in 1..Len(rs) :
           /\ rs[k] \in Record /\ rs[k].request = q /\ Shown(rs, q) = rs[k].rev
           /\ \A j \in 1..Len(rs) : rs[j].request = q => j <= k
<1>1. /\ LatestIndex(rs, q) \in IndexesOf(rs, q)
      /\ \A j \in IndexesOf(rs, q) : j <= LatestIndex(rs, q)
  BY LatestIndexIsLast
<1>2. /\ LatestIndex(rs, q) \in 1..Len(rs)
      /\ rs[LatestIndex(rs, q)].request = q
      /\ \A j \in 1..Len(rs) : rs[j].request = q => j <= LatestIndex(rs, q)
  BY <1>1 DEF IndexesOf
<1>3. rs[LatestIndex(rs, q)] \in Record
  BY <1>2, ElementOfSeq
<1> QED BY <1>2, <1>3 DEF Shown

LEMMA ShownType ==
  ASSUME NEW rs \in Seq(Record), NEW q
  PROVE  Shown(rs, q) \in 0..MaxWrites
<1>1. CASE IndexesOf(rs, q) = {}
  BY <1>1, AuditAssumption DEF Shown
<1>2. CASE IndexesOf(rs, q) # {}
  <2>1. PICK k \in 1..Len(rs) : rs[k] \in Record /\ Shown(rs, q) = rs[k].rev
    BY <1>2, ShownIsSome
  <2>2. rs[k].rev \in 1..MaxWrites
    BY <2>1 DEF Record
  <2> QED BY <2>1, <2>2, AuditAssumption
<1> QED BY <1>1, <1>2

(* Two lists that agree on where a request's last record is, and on its    *)
(* revision, show the same of it.                                          *)
LEMMA ShownOfReplaced ==
  ASSUME NEW rs \in Seq(Record), NEW r \in Record, IndexesOf(rs, r.request) # {}
  PROVE  /\ Replaced(rs, r) \in Seq(Record)
         /\ Len(Replaced(rs, r)) = Len(rs)
         /\ \A k \in 1..Len(rs) : Replaced(rs, r)[k] \in {rs[k], r}
         /\ Shown(Replaced(rs, r), r.request) = r.rev
         /\ \A q : q # r.request => Shown(Replaced(rs, r), q) = Shown(rs, q)
<1> DEFINE l == LatestIndex(rs, r.request)
           ts == Replaced(rs, r)
<1>1. /\ l \in 1..Len(rs) /\ rs[l].request = r.request
      /\ \A j \in 1..Len(rs) : rs[j].request = r.request => j <= l
  BY LatestIndexIsLast DEF IndexesOf
<1>2. /\ ts \in Seq(Record) /\ Len(ts) = Len(rs)
      /\ \A k \in 1..Len(rs) : ts[k] = IF k = l THEN r ELSE rs[k]
  BY <1>1, ExceptSeq DEF Replaced
<1> HIDE DEF l, ts
<1>3. \A k \in 1..Len(rs) : ts[k].request = rs[k].request
  BY <1>1, <1>2
<1>4. Shown(ts, r.request) = r.rev
  <2>1. l \in 1..Len(ts) /\ ts[l] = r
    BY <1>1, <1>2
  <2>2. \A j \in 1..Len(ts) : ts[j].request = ts[l].request => j <= l
    BY <1>1, <1>2, <1>3, <2>1
  <2> QED BY <1>2, <2>1, <2>2, ShownIsLast
<1>5. ASSUME NEW q, q # r.request
      PROVE  Shown(ts, q) = Shown(rs, q)
  <2>1. CASE IndexesOf(rs, q) = {}
    <3>1. \A j \in 1..Len(ts) : ts[j].request # q
      BY <2>1, <1>2, <1>3 DEF IndexesOf
    <3> QED BY <2>1, <3>1, ShownIsNone DEF Shown
  <2>2. CASE IndexesOf(rs, q) # {}
    <3>1. PICK k \in 1..Len(rs) :
            /\ rs[k].request = q /\ Shown(rs, q) = rs[k].rev
            /\ \A j \in 1..Len(rs) : rs[j].request = q => j <= k
      BY <2>2, ShownIsSome
    <3>2. k \in 1..Len(ts) /\ ts[k] = rs[k]
      BY <3>1, <1>1, <1>2, <1>5
    <3>3. \A j \in 1..Len(ts) : ts[j].request = ts[k].request => j <= k
      BY <3>1, <3>2, <1>2, <1>3
    <3> QED BY <1>2, <3>1, <3>2, <3>3, ShownIsLast
  <2> QED BY <2>1, <2>2
<1>6. \A k \in 1..Len(rs) : ts[k] \in {rs[k], r}
  BY <1>2
<1> QED BY <1>2, <1>4, <1>5, <1>6 DEF ts

LEMMA ShownOfAppended ==
  ASSUME NEW rs \in Seq(Record), NEW r \in Record
  PROVE  /\ Append(rs, r) \in Seq(Record)
         /\ Len(Append(rs, r)) = Len(rs) + 1
         /\ Append(rs, r)[Len(rs) + 1] = r
         /\ \A k \in 1..Len(rs) : Append(rs, r)[k] = rs[k]
         /\ Shown(Append(rs, r), r.request) = r.rev
         /\ \A q : q # r.request => Shown(Append(rs, r), q) = Shown(rs, q)
<1> DEFINE ts == Append(rs, r)
           n == Len(rs) + 1
<1>1. /\ ts \in Seq(Record) /\ Len(ts) = n /\ ts[n] = r
      /\ \A k \in 1..Len(rs) : ts[k] = rs[k]
      /\ Len(rs) \in Nat /\ n \in Nat
  BY AppendProperties
<1> HIDE DEF ts
<1>2. Shown(ts, r.request) = r.rev
  BY <1>1, ShownIsLast
<1>3. ASSUME NEW q, q # r.request
      PROVE  Shown(ts, q) = Shown(rs, q)
  <2>1. CASE IndexesOf(rs, q) = {}
    <3>1. \A j \in 1..Len(ts) : ts[j].request # q
      BY <2>1, <1>1, <1>3 DEF IndexesOf
    <3> QED BY <2>1, <3>1, ShownIsNone DEF Shown
  <2>2. CASE IndexesOf(rs, q) # {}
    <3>1. PICK k \in 1..Len(rs) :
            /\ rs[k].request = q /\ Shown(rs, q) = rs[k].rev
            /\ \A j \in 1..Len(rs) : rs[j].request = q => j <= k
      BY <2>2, ShownIsSome
    <3>2. k \in 1..Len(ts) /\ ts[k] = rs[k]
      BY <3>1, <1>1
    <3>3. \A j \in 1..Len(ts) : ts[j].request = ts[k].request => j <= k
      BY <3>1, <3>2, <1>1, <1>3
    <3> QED BY <1>1, <3>1, <3>2, <3>3, ShownIsLast
  <2> QED BY <2>1, <2>2
<1> QED BY <1>1, <1>2, <1>3 DEF ts

(* Making room forgets a request or shows the same of it, and keeps the    *)
(* record that needed the room.                                            *)
LEMMA ShownOfLast ==
  ASSUME NEW rs \in Seq(Record), Len(rs) > 0
  PROVE  /\ LastOf(rs) \in Seq(Record)
         /\ \A k \in 1..Len(LastOf(rs)) : \E j \in 1..Len(rs) : LastOf(rs)[k] = rs[j]
         /\ Shown(LastOf(rs), rs[Len(rs)].request) = rs[Len(rs)].rev
         /\ \A q : Shown(LastOf(rs), q) \in {Shown(rs, q), 0}
<1>1. Len(rs) \in Nat /\ Limit \in Nat \ {0}
  BY AuditAssumption, LenProperties
<1>2. CASE ~(Len(rs) > Limit)
  <2>1. LastOf(rs) = rs
    BY <1>2 DEF LastOf
  <2>2. Shown(rs, rs[Len(rs)].request) = rs[Len(rs)].rev
    BY <1>1, ShownIsLast
  <2> QED BY <2>1, <2>2
<1>3. CASE Len(rs) > Limit
  <2> DEFINE d == Len(rs) - Limit
             ts == SubSeq(rs, d + 1, Len(rs))
  <2>1. LastOf(rs) = ts
    BY <1>3, <1>1 DEF LastOf
  <2>2. d \in Nat /\ d + Limit = Len(rs)
    BY <1>1, <1>3
  <2>3. ts \in Seq(Record) /\ Len(ts) = Limit
    BY <1>1, <2>2, SubSeqProperties
  <2>4. \A k \in 1..Limit : ts[k] = rs[d + k]
    BY <1>1, <2>2, SubSeqProperties
  <2> HIDE DEF ts, d
  <2>5. \A k \in 1..Limit : d + k \in 1..Len(rs)
    BY <1>1, <2>2
  <2>6. Shown(ts, rs[Len(rs)].request) = rs[Len(rs)].rev
    <3>1. Limit \in 1..Len(ts) /\ ts[Limit] = rs[Len(rs)]
      BY <1>1, <2>2, <2>3, <2>4
    <3>2. \A j \in 1..Len(ts) : j <= Limit
      BY <2>3, <1>1
    <3> QED BY <2>3, <3>1, <3>2, ShownIsLast
  <2>7. ASSUME NEW q
        PROVE  Shown(ts, q) \in {Shown(rs, q), 0}
    <3>1. CASE IndexesOf(ts, q) = {}
      BY <3>1 DEF Shown
    <3>2. CASE IndexesOf(ts, q) # {}
      <4>1. PICK k \in 1..Len(ts) :
              /\ ts[k].request = q /\ Shown(ts, q) = ts[k].rev
              /\ \A j \in 1..Len(ts) : ts[j].request = q => j <= k
        BY <3>2, <2>3, ShownIsSome
      <4>2. d + k \in 1..Len(rs) /\ rs[d + k] = ts[k]
        BY <4>1, <2>3, <2>4, <2>5
      <4>3. ASSUME NEW j \in 1..Len(rs), rs[j].request = q
            PROVE  j <= d + k
        <5>1. CASE j <= d
          BY <5>1, <2>2, <2>3, <1>1
        <5>2. CASE ~(j <= d)
          <6>1. j - d \in 1..Limit /\ d + (j - d) = j
            BY <5>2, <2>2, <1>1
          <6>2. ts[j - d] = rs[j]
            BY <6>1, <2>4
          <6>3. j - d <= k
            BY <6>1, <6>2, <4>1, <4>3, <2>3
          <6> QED BY <6>3, <2>2, <2>3, <1>1
        <5> QED BY <5>1, <5>2
      <4>4. Shown(rs, rs[d + k].request) = rs[d + k].rev
        BY <4>1, <4>2, <4>3, ShownIsLast
      <4> QED BY <4>1, <4>2, <4>4
    <3> QED BY <3>1, <3>2
  <2>8. \A k \in 1..Len(ts) : \E j \in 1..Len(rs) : ts[k] = rs[j]
    BY <2>3, <2>4, <2>5
  <2> QED BY <2>1, <2>3, <2>6, <2>7, <2>8
<1> QED BY <1>2, <1>3

-----------------------------------------------------------------------------
(* The parts of the invariant that speak of the log, after one write of    *)
(* the next revision.                                                      *)
LEMMA WriteKeepsLog ==
  ASSUME AuditTypeOK, LogKnows, writes < MaxWrites, writes' = writes + 1,
         NEW q \in Requests, NEW long \in BOOLEAN, NEW how \in Writes,
         log' = AfterWrite(log, NewRecord(q, long), how)
  PROVE  /\ NewRecord(q, long) \in Record
         /\ NewRecord(q, long).request = q /\ NewRecord(q, long).rev = writes + 1
         /\ writes' \in 0..MaxWrites
         /\ log' \in [lines : Seq(Line), open : BOOLEAN]
         /\ LogKnows'
         /\ Len(log.lines) <= Len(log.lines')
         /\ \A i \in 1..Len(log.lines) : log.lines'[i] \in {log.lines[i], Torn}
         /\ Loadable' => Loadable
         /\ how = "written" /\ Loadable' =>
              \E i \in 1..Len(log.lines') : log.lines'[i] = NewRecord(q, long)
<1> DEFINE r == NewRecord(q, long)
<1>1. writes \in 0..MaxWrites /\ writes + 1 \in 1..MaxWrites /\ MaxWrites \in Nat
  BY AuditAssumption DEF AuditTypeOK
<1>2. r.request = q /\ r.rev = writes + 1 /\ r \in Record
  BY <1>1 DEF NewRecord, Record
<1> HIDE DEF r
<1>3. log \in [lines : Seq(Line), open : BOOLEAN] /\ (log.open => Len(log.lines) > 0)
  BY DEF AuditTypeOK, Line, LogKnows
<1>4. log' = AfterWrite(log, r, how)
  BY DEF r
<1>5. PICK g : g = log'
  OBVIOUS
<1>6. /\ g \in [lines : Seq(Line), open : BOOLEAN]
      /\ g.open => Len(g.lines) > 0
      /\ Len(log.lines) <= Len(g.lines)
      /\ \A i \in 1..Len(log.lines) : g.lines[i] \in {log.lines[i], Torn}
      /\ \A i \in 1..Len(g.lines) :
           i \in 1..Len(log.lines) \/ (i = Len(log.lines) + 1 /\ g.lines[i] \in {r, Torn})
      /\ how = "written" =>
           IF log.open THEN g.lines[Len(log.lines)] = Torn
           ELSE Len(g.lines) = Len(log.lines) + 1 /\ g.lines[Len(log.lines) + 1] = r
  <2>1. Torn \in Line /\ r \in Line
    BY <1>2 DEF Line
  <2>2. g = AfterWrite(log, r, how)
    BY <1>4, <1>5
  <2>3. Extends(log, g, r, how, Line)
    BY <2>1, <2>2, <1>3, WriteKeepsLines
  <2> QED BY <2>3 DEF Extends
<1>7. Len(log.lines) \in Nat /\ Len(g.lines) \in Nat
  BY <1>3, <1>6
<1>8. \A i \in 1..Len(log.lines) : log.lines[i] # Torn => log.lines[i].rev \in 1..MaxWrites
  <2> SUFFICES ASSUME NEW i \in 1..Len(log.lines), log.lines[i] # Torn
               PROVE  log.lines[i].rev \in 1..MaxWrites
    OBVIOUS
  <2>1. log.lines[i] \in Line
    BY <1>3, ElementOfSeq
  <2>2. log.lines[i] \in Record
    BY <2>1 DEF Line
  <2> QED BY <2>2 DEF Record
<1>9. /\ \A i \in 1..Len(log.lines) : log.lines[i] # Torn => log.lines[i].rev <= writes
      /\ \A i, j \in 1..Len(log.lines) :
           i < j /\ log.lines[i] # Torn /\ log.lines[j] # Torn
             => log.lines[i].rev < log.lines[j].rev
  BY DEF LogKnows
<1>10. \A i \in 1..Len(g.lines) : g.lines[i] # Torn => g.lines[i].rev <= writes'
  BY <1>1, <1>2, <1>6, <1>7, <1>8, <1>9
<1>11. \A i, j \in 1..Len(g.lines) :
         i < j /\ g.lines[i] # Torn /\ g.lines[j] # Torn
           => g.lines[i].rev < g.lines[j].rev
  <2> SUFFICES ASSUME NEW i \in 1..Len(g.lines), NEW j \in 1..Len(g.lines),
                      i < j, g.lines[i] # Torn, g.lines[j] # Torn
               PROVE  g.lines[i].rev < g.lines[j].rev
    OBVIOUS
  <2>1. i \in 1..Len(log.lines)
    BY <1>6, <1>7
  <2>2. g.lines[i] = log.lines[i] /\ log.lines[i].rev <= writes /\ log.lines[i].rev \in 1..MaxWrites
    BY <2>1, <1>6, <1>8, <1>9
  <2>3. CASE j \in 1..Len(log.lines)
    <3>1. g.lines[j] = log.lines[j]
      BY <2>3, <1>6
    <3> QED BY <2>1, <2>2, <2>3, <3>1, <1>9
  <2>4. CASE j = Len(log.lines) + 1
    <3>1. g.lines[j].rev = writes + 1
      BY <2>4, <1>2, <1>6, <1>7
    <3> QED BY <2>2, <3>1, <1>1
  <2> QED BY <1>6, <2>3, <2>4
<1>12. LogKnows'
  <2>1. g.open => Len(g.lines) > 0
    BY <1>6
  <2> QED BY <2>1, <1>5, <1>10, <1>11 DEF LogKnows
<1>13. Loadable' => Loadable
  <2>1. ~Readable(Torn)
    BY DEF Readable
  <2> SUFFICES ASSUME Loadable', NEW i \in 1..Len(log.lines)
               PROVE  Readable(log.lines[i])
    BY DEF Loadable
  <2>2. i \in 1..Len(g.lines)
    BY <1>6, <1>7
  <2>3. Readable(g.lines[i])
    BY <2>2, <1>5 DEF Loadable, Readable
  <2> QED BY <2>1, <2>3, <1>6
<1>14. how = "written" /\ Loadable' => \E i \in 1..Len(g.lines) : g.lines[i] = r
  <2> SUFFICES ASSUME how = "written", Loadable'
               PROVE  \E i \in 1..Len(g.lines) : g.lines[i] = r
    OBVIOUS
  <2>1. CASE log.open
    <3>1. Len(log.lines) \in 1..Len(g.lines) /\ g.lines[Len(log.lines)] = Torn
      BY <2>1, <1>3, <1>6, <1>7
    <3> QED BY <3>1, <1>5 DEF Loadable, Readable
  <2>2. CASE ~log.open
    BY <2>2, <1>6, <1>7
  <2> QED BY <2>1, <2>2
<1>15. writes' \in 0..MaxWrites
  BY <1>1
<1> QED BY <1>2, <1>5, <1>6, <1>12, <1>13, <1>14, <1>15 DEF r

-----------------------------------------------------------------------------
(* What memory may become when a write of a request succeeds: it shows the *)
(* new revision, and of another request what it did or nothing.            *)
Shows(rs, q) ==
  /\ rs \in Seq(Record)
  /\ \A k \in 1..Len(rs) : rs[k].rev <= writes + 1
  /\ Shown(rs, q) = writes + 1
  /\ \A o \in Requests \ {q} : Shown(rs, o) \in {Shown(records, o), 0}

LEMMA NewRecordType ==
  ASSUME AuditTypeOK, writes < MaxWrites, NEW q \in Requests, NEW long \in BOOLEAN
  PROVE  /\ NewRecord(q, long) \in Record
         /\ NewRecord(q, long).request = q /\ NewRecord(q, long).rev = writes + 1
<1>1. writes \in 0..MaxWrites /\ writes + 1 \in 1..MaxWrites
  BY AuditAssumption DEF AuditTypeOK
<1> QED BY <1>1 DEF NewRecord, Record

LEMMA RevType ==
  ASSUME NEW rs \in Seq(Record), NEW k \in 1..Len(rs)
  PROVE  rs[k] \in Record /\ rs[k].rev \in 1..MaxWrites /\ rs[k].request \in Requests
<1>1. rs[k] \in Record
  BY ElementOfSeq
<1> QED BY <1>1 DEF Record

LEMMA AppendedShows ==
  ASSUME AuditTypeOK, RecordsKnow, writes < MaxWrites,
         NEW q \in Requests, NEW long \in BOOLEAN
  PROVE  Shows(LastOf(Append(records, NewRecord(q, long))), q)
<1> DEFINE r == NewRecord(q, long)
           ts == Append(records, r)
<1>1. r \in Record /\ r.request = q /\ r.rev = writes + 1
  BY NewRecordType
<1>2. records \in Seq(Record) /\ writes \in Nat
  BY AuditAssumption DEF AuditTypeOK
<1> HIDE DEF r
<1>3. /\ ts \in Seq(Record) /\ Len(ts) = Len(records) + 1 /\ ts[Len(records) + 1] = r
      /\ \A k \in 1..Len(records) : ts[k] = records[k]
      /\ Shown(ts, q) = writes + 1
      /\ \A o : o # q => Shown(ts, o) = Shown(records, o)
  BY <1>1, <1>2, ShownOfAppended
<1>4. Len(records) \in Nat
  BY <1>2
<1>5. Len(ts) > 0 /\ ts[Len(ts)] = r
  BY <1>3, <1>4
<1>6. \A k \in 1..Len(ts) : ts[k].rev <= writes + 1
  <2> SUFFICES ASSUME NEW k \in 1..Len(ts) PROVE ts[k].rev <= writes + 1
    OBVIOUS
  <2>1. CASE k \in 1..Len(records)
    BY <2>1, <1>2, <1>3, RevType DEF RecordsKnow
  <2>2. CASE k = Len(records) + 1
    BY <2>2, <1>1, <1>2, <1>3
  <2> QED BY <2>1, <2>2, <1>3, <1>4
<1> HIDE DEF ts
<1>7. /\ LastOf(ts) \in Seq(Record)
      /\ \A k \in 1..Len(LastOf(ts)) : \E j \in 1..Len(ts) : LastOf(ts)[k] = ts[j]
      /\ Shown(LastOf(ts), q) = writes + 1
      /\ \A o : Shown(LastOf(ts), o) \in {Shown(ts, o), 0}
  BY <1>1, <1>3, <1>5, ShownOfLast
<1>8. Shows(LastOf(ts), q)
  BY <1>3, <1>6, <1>7 DEF Shows
<1> QED BY <1>8 DEF ts, r

LEMMA ReplacedShows ==
  ASSUME AuditTypeOK, RecordsKnow, writes < MaxWrites,
         NEW q \in Requests, NEW long \in BOOLEAN, IndexesOf(records, q) # {}
  PROVE  Shows(Replaced(records, NewRecord(q, long)), q)
<1> DEFINE r == NewRecord(q, long)
<1>1. r \in Record /\ r.request = q /\ r.rev = writes + 1
  BY NewRecordType
<1>2. records \in Seq(Record) /\ writes \in Nat
  BY AuditAssumption DEF AuditTypeOK
<1> HIDE DEF r
<1>3. /\ Replaced(records, r) \in Seq(Record)
      /\ Len(Replaced(records, r)) = Len(records)
      /\ \A k \in 1..Len(records) : Replaced(records, r)[k] \in {records[k], r}
      /\ Shown(Replaced(records, r), q) = writes + 1
      /\ \A o : o # q => Shown(Replaced(records, r), o) = Shown(records, o)
  BY <1>1, <1>2, ShownOfReplaced
<1>4. \A k \in 1..Len(records) : records[k].rev <= writes + 1
  BY <1>2, RevType DEF RecordsKnow
<1>5. Shows(Replaced(records, r), q)
  BY <1>1, <1>2, <1>3, <1>4 DEF Shows
<1> QED BY <1>5 DEF r

LEMMA WriteInv ==
  ASSUME AuditInv, phase = "up", NEW q \in Requests, NEW long \in BOOLEAN,
         NEW rs, Shows(rs, q), Write(NewRecord(q, long), rs)
  PROVE  AuditInv'
<1> DEFINE r == NewRecord(q, long)
<1> USE DEF AuditInv
<1>1. /\ writes < MaxWrites /\ writes' = writes + 1
      /\ phase' = phase /\ pos' = pos
  BY DEF Write
<1>2. \E how \in Writes :
        /\ log' = AfterWrite(log, r, how)
        /\ \/ /\ how = "written" /\ records' = rs
              /\ acked' = [acked EXCEPT ![r.request] = r.rev]
           \/ UNCHANGED <<records, acked>>
  BY DEF Write, Persisted, NotPersisted, Writes
<1>3. PICK how \in Writes :
        /\ log' = AfterWrite(log, r, how)
        /\ \/ /\ how = "written" /\ records' = rs
              /\ acked' = [acked EXCEPT ![r.request] = r.rev]
           \/ UNCHANGED <<records, acked>>
  BY <1>2
<1>4. /\ r \in Record /\ r.request = q /\ r.rev = writes + 1
      /\ writes' \in 0..MaxWrites
      /\ log' \in [lines : Seq(Line), open : BOOLEAN]
      /\ LogKnows'
      /\ Len(log.lines) <= Len(log.lines')
      /\ \A i \in 1..Len(log.lines) : log.lines'[i] \in {log.lines[i], Torn}
      /\ Loadable' => Loadable
      /\ how = "written" /\ Loadable' =>
           \E i \in 1..Len(log.lines') : log.lines'[i] = r
  BY <1>1, <1>3, WriteKeepsLog
<1> HIDE DEF r
<1>5. /\ writes \in 0..MaxWrites /\ writes + 1 \in 1..MaxWrites
      /\ acked \in [Requests -> 0..MaxWrites] /\ records \in Seq(Record)
      /\ \A o \in Requests : acked[o] <= writes
  BY <1>1, AuditAssumption DEF AuditTypeOK, AcksKnow
<1>6. /\ rs \in Seq(Record)
      /\ \A k \in 1..Len(rs) : rs[k].rev <= writes + 1
      /\ Shown(rs, q) = writes + 1
      /\ \A o \in Requests \ {q} : Shown(rs, o) \in {Shown(records, o), 0}
  BY DEF Shows
<1>7. AuditTypeOK'
  <2>1. records' \in Seq(Record)
    BY <1>3, <1>5, <1>6
  <2>3. [acked EXCEPT ![r.request] = r.rev] \in [Requests -> 0..MaxWrites]
    BY <1>4, <1>5
  <2>4. acked' \in [Requests -> 0..MaxWrites]
    BY <1>3, <1>5, <2>3
  <2>2. phase' \in {"down", "loading", "up"} /\ pos' \in Nat
    BY <1>1 DEF AuditTypeOK
  <2> QED BY <1>4, <2>1, <2>2, <2>4 DEF AuditTypeOK, Line
<1>8. RecordsKnow'
  <2>1. CASE records' = rs
    BY <2>1, <1>1, <1>6 DEF RecordsKnow
  <2>2. CASE records' = records
    BY <2>2, <1>1, <1>5, RevType DEF RecordsKnow
  <2> QED BY <1>3, <2>1, <2>2
<1>9. AcksKnow'
  BY <1>1, <1>3, <1>4, <1>5 DEF AcksKnow
<1>10. LoadKnows' /\ DownKnows'
  BY <1>1 DEF LoadKnows, DownKnows
<1>11. NothingLostSilently'
  <2> SUFFICES ASSUME Loadable', NEW o \in Requests, acked'[o] # 0
               PROVE  \E i \in 1..Len(log.lines') :
                        log.lines'[i].request = o /\ log.lines'[i].rev = acked'[o]
    BY DEF NothingLostSilently
  <2>1. CASE acked'[o] = acked[o]
    <3>1. PICK i \in 1..Len(log.lines) :
            log.lines[i].request = o /\ log.lines[i].rev = acked[o]
      BY <2>1, <1>4 DEF NothingLostSilently
    <3>2. i \in 1..Len(log.lines')
      BY <1>4 DEF AuditTypeOK
    <3>3. log.lines'[i] # Torn
      BY <3>2 DEF Loadable, Readable
    <3> QED BY <2>1, <3>1, <3>2, <3>3, <1>4
  <2>2. CASE acked'[o] # acked[o]
    <3>1. how = "written" /\ o = q /\ acked'[o] = r.rev
      BY <2>2, <1>3, <1>4, <1>5
    <3> QED BY <3>1, <1>4
  <2> QED BY <2>1, <2>2
<1>12. ShownIsCurrent'
  <2>1. CASE records' = records /\ acked' = acked
    BY <2>1, <1>1 DEF ShownIsCurrent
  <2>2. CASE records' = rs /\ acked' = [acked EXCEPT ![r.request] = r.rev]
    <3> SUFFICES ASSUME NEW o \in Requests, Shown(rs, o) # 0
                 PROVE  acked'[o] <= Shown(rs, o)
      BY <2>2 DEF ShownIsCurrent
    <3>1. CASE o = q
      BY <3>1, <2>2, <1>4, <1>5, <1>6
    <3>2. CASE o # q
      <4>1. acked'[o] = acked[o] /\ Shown(rs, o) = Shown(records, o)
        BY <3>2, <2>2, <1>4, <1>5, <1>6
      <4> QED BY <4>1 DEF ShownIsCurrent
    <3> QED BY <3>1, <3>2
  <2> QED BY <1>3, <2>1, <2>2
<1> QED BY <1>4, <1>7, <1>8, <1>9, <1>10, <1>11, <1>12

LEMMA StopInv ==
  ASSUME AuditInv, Stop
  PROVE  AuditInv'
<1> USE DEF AuditInv
<1>1. phase' = "down" /\ records' = <<>> /\ pos' = 0 /\ acked' = acked
  BY DEF Stop
<1>2. RecordsKnow' /\ LoadKnows' /\ DownKnows' /\ ShownIsCurrent'
  BY <1>1 DEF RecordsKnow, LoadKnows, DownKnows, ShownIsCurrent
<1>3. records' \in Seq(Record) /\ pos' \in Nat /\ phase' \in {"down", "loading", "up"}
  BY <1>1
<1>4. CASE UNCHANGED <<log, writes>>
  <2>1. AuditTypeOK'
    BY <1>1, <1>3, <1>4 DEF AuditTypeOK
  <2>2. LogKnows' /\ AcksKnow' /\ NothingLostSilently'
    BY <1>1, <1>4 DEF LogKnows, AcksKnow, NothingLostSilently, Loadable
  <2> QED BY <1>2, <2>1, <2>2
<1>5. CASE /\ phase = "up" /\ writes < MaxWrites
           /\ writes' = writes + 1
           /\ \E q \in Requests, long \in BOOLEAN : NotPersisted(NewRecord(q, long))
  <2>1. PICK q \in Requests, long \in BOOLEAN, how \in Writes :
          log' = AfterWrite(log, NewRecord(q, long), how)
    BY <1>5 DEF NotPersisted
  <2>2. /\ writes' \in 0..MaxWrites
        /\ log' \in [lines : Seq(Line), open : BOOLEAN]
        /\ LogKnows'
        /\ Len(log.lines) <= Len(log.lines')
        /\ \A i \in 1..Len(log.lines) : log.lines'[i] \in {log.lines[i], Torn}
        /\ Loadable' => Loadable
    BY <1>5, <2>1, WriteKeepsLog
  <2>3. AuditTypeOK'
    <3>1. acked' \in [Requests -> 0..MaxWrites]
      BY <1>1 DEF AuditTypeOK
    <3> QED BY <1>3, <2>2, <3>1 DEF AuditTypeOK, Line
  <2>4. AcksKnow'
    BY <1>1, <1>5, AuditAssumption DEF AcksKnow, AuditTypeOK
  <2>5. NothingLostSilently'
    <3> SUFFICES ASSUME Loadable', NEW o \in Requests, acked'[o] # 0
                 PROVE  \E i \in 1..Len(log.lines') :
                          log.lines'[i].request = o /\ log.lines'[i].rev = acked'[o]
      BY DEF NothingLostSilently
    <3>1. PICK i \in 1..Len(log.lines) :
            log.lines[i].request = o /\ log.lines[i].rev = acked[o]
      BY <1>1, <2>2 DEF NothingLostSilently
    <3>2. i \in 1..Len(log.lines')
      BY <2>2 DEF AuditTypeOK
    <3>3. log.lines'[i] # Torn
      BY <3>2 DEF Loadable, Readable
    <3> QED BY <1>1, <3>1, <3>2, <3>3, <2>2
  <2> QED BY <1>2, <2>2, <2>3, <2>4, <2>5
<1> QED BY <1>4, <1>5 DEF Stop

(* A line of the log taken as a record, and what is shown then.            *)
LEMMA MergedShows ==
  ASSUME NEW rs \in Seq(Record), NEW r \in Record
  PROVE  /\ Merged(rs, r) \in Seq(Record)
         /\ \A k \in 1..Len(Merged(rs, r)) :
              (k \in 1..Len(rs) /\ Merged(rs, r)[k] = rs[k]) \/ Merged(rs, r)[k] = r
         /\ Shown(Merged(rs, r), r.request) = r.rev
         /\ \A q : q # r.request => Shown(Merged(rs, r), q) = Shown(rs, q)
<1>1. CASE IndexesOf(rs, r.request) = {}
  <2>1. Merged(rs, r) = Append(rs, r)
    BY <1>1 DEF Merged
  <2> QED BY <2>1, ShownOfAppended
<1>2. CASE IndexesOf(rs, r.request) # {}
  <2>1. Merged(rs, r) = Replaced(rs, r)
    BY <1>2 DEF Merged
  <2>2. PICK ts : ts = Replaced(rs, r)
    OBVIOUS
  <2>3. /\ ts \in Seq(Record) /\ Len(ts) = Len(rs)
        /\ \A k \in 1..Len(rs) : ts[k] \in {rs[k], r}
        /\ Shown(ts, r.request) = r.rev
        /\ \A q : q # r.request => Shown(ts, q) = Shown(rs, q)
    BY <1>2, <2>2, ShownOfReplaced
  <2> QED BY <2>1, <2>2, <2>3
<1> QED BY <1>1, <1>2

LEMMA LoadLineInv ==
  ASSUME AuditInv, LoadLine
  PROVE  AuditInv'
<1> USE DEF AuditInv
<1>1. /\ phase = "loading" /\ pos < Len(log.lines) /\ pos \in Nat
      /\ log' = log /\ writes' = writes /\ acked' = acked
  BY DEF LoadLine, AuditTypeOK
<1>2. LogKnows' /\ AcksKnow' /\ NothingLostSilently'
  BY <1>1 DEF LogKnows, AcksKnow, NothingLostSilently, Loadable
<1>3. PICK r : r = log.lines[pos + 1]
  OBVIOUS
<1>4. CASE Readable(r)
  <2>1. records' = Merged(records, r) /\ pos' = pos + 1 /\ phase' = phase
    BY <1>3, <1>4 DEF LoadLine
  <2>2. /\ log.lines \in Seq(Line) /\ Len(log.lines) \in Nat
        /\ pos + 1 \in 1..Len(log.lines)
    BY <1>1 DEF AuditTypeOK, Line
  <2>3. r \in Record /\ r # Torn
    <3>1. r \in Line
      BY <1>3, <2>2, ElementOfSeq
    <3> QED BY <1>4, <3>1 DEF Line, Readable
  <2>4. /\ records' \in Seq(Record)
        /\ \A k \in 1..Len(records') :
             (k \in 1..Len(records) /\ records'[k] = records[k]) \/ records'[k] = r
        /\ Shown(records', r.request) = r.rev
        /\ \A q : q # r.request => Shown(records', q) = Shown(records, q)
    <3>1. records \in Seq(Record)
      BY DEF AuditTypeOK
    <3> QED BY <2>1, <2>3, <3>1, MergedShows
  <2>5. AuditTypeOK'
    <3>1. pos' \in Nat
      BY <1>1, <2>1
    <3> QED BY <1>1, <2>1, <2>4, <3>1 DEF AuditTypeOK
  <2>6. RecordsKnow'
    <3>1. r.rev <= writes
      BY <1>3, <2>2, <2>3 DEF LogKnows
    <3> QED BY <1>1, <2>4, <3>1 DEF RecordsKnow
  <2>7. LoadKnows'
    <3>1. pos' <= Len(log.lines')
      BY <1>1, <2>1, <2>2
    <3>2. ASSUME NEW i \in 1..pos'
          PROVE  /\ Readable(log.lines[i])
                 /\ log.lines[i].rev <= Shown(records', log.lines[i].request)
      <4>1. CASE i = pos + 1
        <5>1. r.rev <= r.rev
          BY <2>3 DEF Record
        <5> QED BY <4>1, <5>1, <1>3, <1>4, <2>4
      <4>2. CASE i # pos + 1
        <5>1. i \in 1..pos /\ i < pos + 1 /\ i \in 1..Len(log.lines)
          BY <4>2, <1>1, <2>1, <2>2
        <5>2. /\ Readable(log.lines[i])
              /\ log.lines[i].rev <= Shown(records, log.lines[i].request)
          BY <5>1, <1>1 DEF LoadKnows
        <5>3. log.lines[i] # Torn /\ log.lines[i].rev < r.rev
          BY <5>1, <5>2, <1>3, <2>2, <2>3 DEF LogKnows, Readable
        <5>4. log.lines[i].rev \in Nat /\ r.rev \in Nat
          <6>1. log.lines[i] \in Record
            BY <2>2, <5>1, <5>3, ElementOfSeq DEF Line
          <6> QED BY <2>3, <6>1, AuditAssumption DEF Record
        <5>5. CASE log.lines[i].request = r.request
          BY <5>2, <5>3, <5>4, <5>5, <2>4
        <5>6. CASE log.lines[i].request # r.request
          BY <5>2, <5>6, <2>4
        <5> QED BY <5>5, <5>6
      <4> QED BY <4>1, <4>2
    <3> QED BY <1>1, <3>1, <3>2 DEF LoadKnows
  <2>8. DownKnows' /\ ShownIsCurrent'
    BY <1>1, <2>1 DEF DownKnows, ShownIsCurrent
  <2> QED BY <1>2, <2>5, <2>6, <2>7, <2>8
<1>5. CASE ~Readable(r)
  <2>1. records' = <<>> /\ pos' = 0 /\ phase' = "down"
    BY <1>3, <1>5 DEF LoadLine
  <2>2. AuditTypeOK'
    BY <1>1, <2>1 DEF AuditTypeOK
  <2> QED BY <1>2, <2>1, <2>2 DEF RecordsKnow, LoadKnows, DownKnows, ShownIsCurrent
<1> QED BY <1>4, <1>5

(* Once every line is loaded, nothing acknowledged is shown in an older    *)
(* state.                                                                  *)
LEMMA LoadedShows ==
  ASSUME AuditInv, Loaded, NEW q \in Requests
  PROVE  acked[q] <= Shown(records, q)
<1> USE DEF AuditInv
<1>1. phase = "loading" /\ pos = Len(log.lines)
  BY DEF Loaded
<1>2. Loadable
  BY <1>1 DEF Loadable, LoadKnows
<1>3. CASE acked[q] = 0
  <2>1. Shown(records, q) \in 0..MaxWrites
    BY ShownType DEF AuditTypeOK
  <2> QED BY <1>3, <2>1
<1>4. CASE acked[q] # 0
  <2>1. PICK i \in 1..Len(log.lines) :
          log.lines[i].request = q /\ log.lines[i].rev = acked[q]
    BY <1>2, <1>4 DEF NothingLostSilently
  <2> QED BY <1>1, <2>1 DEF LoadKnows
<1> QED BY <1>3, <1>4

LEMMA StartsInv ==
  ASSUME AuditInv, Start \/ Loaded
  PROVE  AuditInv'
<1> USE DEF AuditInv
<1>1. /\ records' = records /\ log' = log /\ writes' = writes /\ acked' = acked
      /\ phase' \in {"loading", "up"} /\ pos' \in Nat
      /\ phase' = "loading" => pos' = 0
  BY DEF Start, Loaded, DownKnows
<1>2. AuditTypeOK'
  BY <1>1 DEF AuditTypeOK
<1>3. LogKnows' /\ AcksKnow' /\ NothingLostSilently' /\ RecordsKnow' /\ DownKnows'
  BY <1>1 DEF LogKnows, AcksKnow, NothingLostSilently, Loadable, RecordsKnow, DownKnows
<1>4. LoadKnows'
  BY <1>1 DEF LoadKnows, AuditTypeOK
<1>5. ShownIsCurrent'
  <2>1. CASE Start
    BY <2>1 DEF Start, ShownIsCurrent
  <2>2. CASE Loaded
    BY <2>2, <1>1, LoadedShows DEF ShownIsCurrent
  <2> QED BY <2>1, <2>2
<1> QED BY <1>2, <1>3, <1>4, <1>5

-----------------------------------------------------------------------------
LEMMA AuditInit_Inv == AuditInit => AuditInv
<1> SUFFICES ASSUME AuditInit PROVE AuditInv
  OBVIOUS
<1>1. /\ records = <<>> /\ log = [lines |-> <<>>, open |-> FALSE]
      /\ phase = "loading" /\ pos = 0 /\ writes = 0
      /\ acked = [q \in Requests |-> 0]
  BY DEF AuditInit, EmptyFile
<1>2. writes \in 0..MaxWrites /\ acked \in [Requests -> 0..MaxWrites]
  BY <1>1, AuditAssumption
<1>3. AuditTypeOK
  BY <1>1, <1>2 DEF AuditTypeOK
<1>4. LogKnows /\ RecordsKnow /\ AcksKnow /\ LoadKnows /\ DownKnows
  BY <1>1 DEF LogKnows, RecordsKnow, AcksKnow, LoadKnows, DownKnows
<1>5. NothingLostSilently /\ ShownIsCurrent
  BY <1>1 DEF NothingLostSilently, ShownIsCurrent
<1> QED BY <1>3, <1>4, <1>5 DEF AuditInv

(* An AppendRecord or Update is a write of a record and what memory        *)
(* becomes.                                                                *)
LEMMA WritesAre ==
  ASSUME AuditInv, NEW q \in Requests, NEW long \in BOOLEAN,
         AppendRecord(q, long) \/ Update(q, long) \/ Mutate(q, long)
  PROVE  phase = "up" /\ \E rs : Shows(rs, q) /\ Write(NewRecord(q, long), rs)
<1>1. phase = "up" /\ writes < MaxWrites
  BY DEF AppendRecord, Update, Mutate, Write
<1>2. AuditTypeOK /\ RecordsKnow
  BY DEF AuditInv
<1>3. CASE AppendRecord(q, long)
  BY <1>1, <1>2, <1>3, AppendedShows DEF AppendRecord
<1>4. CASE Update(q, long) \/ Mutate(q, long)
  BY <1>1, <1>2, <1>4, ReplacedShows DEF Update, Mutate
<1> QED BY <1>1, <1>3, <1>4

LEMMA AuditNext_Inv == AuditInv /\ [AuditNext]_auditVars => AuditInv'
<1> SUFFICES ASSUME AuditInv, [AuditNext]_auditVars PROVE AuditInv'
  OBVIOUS
<1>1. ASSUME NEW q \in Requests, NEW long \in BOOLEAN,
             AppendRecord(q, long) \/ Update(q, long) \/ Mutate(q, long)
      PROVE  AuditInv'
  BY <1>1, WritesAre, WriteInv
<1>2. CASE Stop
  BY <1>2, StopInv
<1>3. CASE Start \/ Loaded
  BY <1>3, StartsInv
<1>4. CASE LoadLine
  BY <1>4, LoadLineInv
<1>5. CASE UNCHANGED auditVars
  BY <1>5 DEF auditVars, AuditInv, AuditTypeOK, LogKnows, RecordsKnow, AcksKnow,
       LoadKnows, DownKnows, NothingLostSilently, ShownIsCurrent, Loadable
<1> QED BY <1>1, <1>2, <1>3, <1>4, <1>5 DEF AuditNext

(* The invariant of the log, of what is shown of it and of what was        *)
(* acknowledged holds throughout, crashes and reloads included             *)
(* (store.go:20-204).                                                      *)
THEOREM AuditInvariant == AuditSpec => []AuditInv
BY AuditInit_Inv, AuditNext_Inv, PTL DEF AuditSpec

(* The log, the memory and the loading of one into the other keep to their *)
(* types (store.go:24-34, 140-204).                                        *)
THEOREM AuditTypesHold == AuditSpec => []AuditTypeOK
<1>1. AuditInv => AuditTypeOK
  BY DEF AuditInv
<1> QED BY <1>1, AuditInvariant, PTL

(* No acknowledged write is missing from a log that can be loaded, however *)
(* many writes failed or tore before (store.go:140-204).                   *)
THEOREM LossesAreNoticed == AuditSpec => []NothingLostSilently
<1>1. AuditInv => NothingLostSilently
  BY DEF AuditInv
<1> QED BY <1>1, AuditInvariant, PTL

(* Get never shows a request in an older state than the last acknowledged  *)
(* one (store.go:68-72, 106-117, 160-172).                                 *)
THEOREM ReadsAreCurrent == AuditSpec => []ShownIsCurrent
<1>1. AuditInv => ShownIsCurrent
  BY DEF AuditInv
<1> QED BY <1>1, AuditInvariant, PTL

-----------------------------------------------------------------------------
LEMMA DamageStays ==
  ASSUME AuditInv, [AuditNext]_auditVars, ~Loadable
  PROVE  ~Loadable' /\ (phase # "up" => phase' # "up")
<1> USE DEF AuditInv
<1>1. ASSUME log' = log PROVE ~Loadable'
  BY <1>1 DEF Loadable
<1>2. ASSUME NEW q \in Requests, NEW long \in BOOLEAN,
             AppendRecord(q, long) \/ Update(q, long) \/ Mutate(q, long)
      PROVE  ~Loadable' /\ phase = "up"
  <2>1. /\ phase = "up" /\ writes < MaxWrites /\ writes' = writes + 1
        /\ \E how \in Writes : log' = AfterWrite(log, NewRecord(q, long), how)
    BY <1>2 DEF AppendRecord, Update, Mutate, Write, Persisted, NotPersisted, Writes
  <2> QED BY <2>1, WriteKeepsLog
<1>3. CASE Stop
  <2>1. phase' = "down"
    BY <1>3 DEF Stop
  <2>2. CASE UNCHANGED <<log, writes>>
    BY <1>1, <2>1, <2>2
  <2>3. CASE /\ writes < MaxWrites /\ writes' = writes + 1
             /\ \E q \in Requests, long \in BOOLEAN : NotPersisted(NewRecord(q, long))
    BY <2>1, <2>3, WriteKeepsLog DEF NotPersisted
  <2> QED BY <1>3, <2>2, <2>3 DEF Stop
<1>4. CASE Start
  BY <1>1, <1>4 DEF Start
<1>5. CASE LoadLine
  BY <1>1, <1>5 DEF LoadLine
<1>6. CASE Loaded
  BY <1>6 DEF Loaded, LoadKnows, Loadable
<1>7. CASE UNCHANGED auditVars
  BY <1>1, <1>7 DEF auditVars
<1> QED BY <1>2, <1>3, <1>4, <1>5, <1>6, <1>7 DEF AuditNext

(* A log that cannot be loaded stays so, and no server starts on it again  *)
(* (store.go:150-178).                                                     *)
THEOREM DamageStaysForever == AuditSpec => DamageIsFinal
<1>1. AuditInv /\ [AuditNext]_auditVars
        => [~Loadable => ~Loadable' /\ (phase # "up" => phase' # "up")]_auditVars
  BY DamageStays
<1> QED BY <1>1, AuditInvariant, PTL DEF AuditSpec, DamageIsFinal

-----------------------------------------------------------------------------
LEMMA ViewType ==
  ASSUME AuditInv'
  PROVE  view' \in [Requests -> 0..MaxWrites]
<1> SUFFICES ASSUME NEW q \in Requests
             PROVE  (IF phase' = "up" THEN Shown(records', q) ELSE 0) \in 0..MaxWrites
  BY DEF view
<1>1. records' \in Seq(Record)
  BY DEF AuditInv, AuditTypeOK
<1>2. Shown(records', q) \in 0..MaxWrites
  BY <1>1, ShownType
<1> QED BY <1>2, AuditAssumption

LEMMA ViewIsAt ==
  ASSUME NEW q \in Requests
  PROVE  /\ view[q] = IF phase = "up" THEN Shown(records, q) ELSE 0
         /\ view'[q] = IF phase' = "up" THEN Shown(records', q) ELSE 0
BY DEF view

LEMMA WriteIsPromise ==
  ASSUME AuditInv, AuditInv', NEW q \in Requests, NEW long \in BOOLEAN,
         AppendRecord(q, long) \/ Update(q, long) \/ Mutate(q, long)
  PROVE  Promised!Promise \/ UNCHANGED <<view, acked>>
<1>1. phase = "up" /\ AuditTypeOK
  BY WritesAre DEF AuditInv
<1>2. PICK rs : Shows(rs, q) /\ Write(NewRecord(q, long), rs)
  BY WritesAre
<1>3. writes < MaxWrites /\ phase' = "up"
  BY <1>1, <1>2 DEF Write
<1>4. NewRecord(q, long).request = q /\ NewRecord(q, long).rev = writes + 1
  BY <1>1, <1>3, NewRecordType
<1>5. CASE records' = rs /\ acked' = [acked EXCEPT ![q] = writes + 1]
  <2>1. writes + 1 \in 1..MaxWrites /\ writes \in Nat
    BY <1>1, <1>3, AuditAssumption DEF AuditTypeOK
  <2>2. acked[q] <= writes /\ acked[q] \in Nat
    BY AuditAssumption DEF AuditInv, AcksKnow, AuditTypeOK
  <2>3. view[q] = Shown(records, q)
    BY <1>1, ViewIsAt
  <2>4. Shown(records, q) <= writes
    <3>1. records \in Seq(Record)
      BY <1>1 DEF AuditTypeOK
    <3>2. CASE IndexesOf(records, q) = {}
      BY <2>1, <3>2 DEF Shown
    <3>3. CASE IndexesOf(records, q) # {}
      BY <3>1, <3>3, ShownIsSome DEF AuditInv, RecordsKnow
    <3> QED BY <3>2, <3>3
  <2>5. view[q] \in Nat /\ writes + 1 > view[q] /\ writes + 1 > acked[q]
    <3>1. Shown(records, q) \in 0..MaxWrites
      BY <1>1, ShownType DEF AuditTypeOK
    <3> QED BY <2>1, <2>2, <2>3, <2>4, <3>1, AuditAssumption
  <2>6. view' \in [Requests -> 0..MaxWrites]
    BY ViewType
  <2>7. view'[q] = writes + 1
    BY <1>2, <1>3, <1>5, ViewIsAt DEF Shows
  <2>8. \A o \in Requests \ {q} : view'[o] \in {view[o], 0}
    BY <1>1, <1>2, <1>3, <1>5, ViewIsAt DEF Shows
  <2> QED BY <1>5, <2>1, <2>5, <2>6, <2>7, <2>8
       DEF Promised!Promise, Promised!Revisions
<1>6. CASE UNCHANGED <<records, acked>>
  BY <1>1, <1>3, <1>6 DEF view
<1> QED BY <1>2, <1>4, <1>5, <1>6 DEF Write

LEMMA StepKeepsPromise ==
  ASSUME AuditInv, AuditInv', [AuditNext]_auditVars
  PROVE  [Promised!ViewNext]_<<view, acked>>
<1>1. ASSUME NEW q \in Requests, NEW long \in BOOLEAN,
             AppendRecord(q, long) \/ Update(q, long) \/ Mutate(q, long)
      PROVE  Promised!Promise \/ UNCHANGED <<view, acked>>
  BY <1>1, WriteIsPromise
<1>2. CASE Stop \/ Start \/ LoadLine
  <2>1. phase' # "up" /\ acked' = acked
    BY <1>2 DEF Stop, Start, LoadLine, AuditInv, AuditTypeOK
  <2>2. view' = [q \in Requests |-> 0]
    BY <2>1 DEF view
  <2> QED BY <2>1, <2>2 DEF Promised!ViewNext, Promised!LoseAll
<1>3. CASE Loaded
  <2>1. /\ phase # "up" /\ phase' = "up" /\ acked' = acked /\ records' = records
    BY <1>3 DEF Loaded
  <2>2. view = [q \in Requests |-> 0]
    BY <2>1 DEF view
  <2>3. view' \in [Requests -> 0..MaxWrites]
    BY ViewType
  <2>4. \A q \in Requests : view'[q] >= acked[q]
    <3> SUFFICES ASSUME NEW q \in Requests PROVE view'[q] >= acked[q]
      OBVIOUS
    <3>1. acked[q] <= Shown(records, q) /\ view'[q] = Shown(records, q)
      BY <1>3, <2>1, LoadedShows, ViewIsAt
    <3>2. acked[q] \in Nat /\ Shown(records, q) \in Nat
      BY ShownType, AuditAssumption DEF AuditInv, AuditTypeOK
    <3> QED BY <3>1, <3>2
  <2> QED BY <2>1, <2>2, <2>3, <2>4
       DEF Promised!ViewNext, Promised!Restore, Promised!Revisions
<1>4. CASE UNCHANGED auditVars
  BY <1>4 DEF auditVars, view
<1> QED BY <1>1, <1>2, <1>3, <1>4 DEF AuditNext, Promised!ViewNext

LEMMA ViewStartsEmpty == AuditInit => Promised!ViewInit
BY DEF AuditInit, Promised!ViewInit, view

(* The store implements AuditView: each step of it is a step of the        *)
(* promise or changes nothing a reader sees (store.go:36-204).             *)
THEOREM StoreKeepsItsPromise == AuditSpec => KeepsItsPromise
<1>1. AuditInit => Promised!ViewInit
  BY ViewStartsEmpty
<1>2. AuditInv /\ AuditInv' /\ [AuditNext]_auditVars => [Promised!ViewNext]_<<view, acked>>
  BY StepKeepsPromise
<1> QED BY <1>1, <1>2, AuditInvariant, PTL
     DEF AuditSpec, KeepsItsPromise, Promised!ViewSpec

-----------------------------------------------------------------------------
(* The session recorder and its observer.                                  *)
JournalLine == Entry \cup {Torn}

Lines == journal.lines

ObserverTypes ==
  /\ observers \in [Sessions -> Observer]
  /\ children \in [Sessions -> [at : {"none", "running", "exited"}, left : Nat]]
  /\ pipes \in [Sessions -> Seq(AgentLines)]
  /\ \A s \in Sessions : Len(pipes[s]) <= PipeSize

JournalTypes ==
  /\ journal \in [lines : Seq(JournalLine), open : BOOLEAN]
  /\ journal.open => Len(Lines) > 0
  /\ told \subseteq Entry

(* How far the child has come, by where its observer is (main.go:54-96).   *)
ChildKnows ==
  \A s \in Sessions :
    /\ observers[s].at \in {"new", "starting", "launching", "unstarted"}
         => children[s].at = "none"
    /\ observers[s].at = "exited" => children[s].at = "exited"

(* What the lines of the observer's own events say of the child: its end   *)
(* is final, and after a failed start nothing starts it.                   *)
WitnessKnows ==
  \A i \in 1..Len(Lines) : Lines[i] # Torn /\ Lines[i].event.trust = "observer_recorded" =>
    LET s == Lines[i].session
    IN  /\ Lines[i].event.type = "process.exited" => children[s].at = "exited"
        /\ Lines[i].event.type = "process.start_failed" =>
             children[s].at = "none" /\ observers[s].at \in {"closing", "returned"}

(* A session's lines are numbered in order, and no further than its        *)
(* recorder has counted (recorder.go:181-221).                             *)
OrderKnows ==
  /\ \A i \in 1..Len(Lines) : Lines[i] # Torn =>
       Lines[i].sequence <= observers[Lines[i].session].sequence
  /\ \A i, j \in 1..Len(Lines) :
       (i < j /\ Lines[i] # Torn /\ Lines[j] # Torn /\ Lines[i].session = Lines[j].session)
         => Lines[i].sequence < Lines[j].sequence

(* What was reported as recorded is in a journal with no torn line.        *)
ToldKnows ==
  (\A i \in 1..Len(Lines) : Lines[i] # Torn) =>
    \A e \in told : \E i \in 1..Len(Lines) : Lines[i] = e

(* The recorder reported its first events and then none.                   *)
CountKnows(s) ==
  /\ IsFiniteSet(EntriesTold(s))
  /\ {e.sequence : e \in EntriesTold(s)} = 1..Cardinality(EntriesTold(s))
  /\ Cardinality(EntriesTold(s)) <= observers[s].sequence
  /\ ~observers[s].broken => Cardinality(EntriesTold(s)) = observers[s].sequence

CountsKnow == \A s \in Sessions : CountKnows(s)

SessionInv ==
  /\ ObserverTypes /\ JournalTypes
  /\ ChildKnows /\ WitnessKnows
  /\ OrderKnows /\ ToldKnows /\ CountsKnow

-----------------------------------------------------------------------------
LEMMA EntryParts ==
  ASSUME NEW e \in Entry
  PROVE  e.session \in Sessions /\ e.sequence \in Nat /\ e.event \in Event
BY DEF Entry

LEMMA LineParts ==
  ASSUME JournalTypes, NEW i \in 1..Len(Lines), Lines[i] # Torn
  PROVE  /\ Lines[i] \in Entry /\ Lines[i].session \in Sessions
         /\ Lines[i].sequence \in Nat /\ Lines[i].event \in Event
<1>1. Lines \in Seq(JournalLine)
  BY DEF JournalTypes, Lines
<1>2. Lines[i] \in JournalLine
  BY <1>1, ElementOfSeq
<1>3. Lines[i] \in Entry
  BY <1>2 DEF JournalLine
<1> QED BY <1>3, EntryParts

(* A step of the observer of s that records the event, or fails to.        *)
Records(s, event, ok, after) ==
  /\ Recording(s, event, ok)
  /\ observers' = [observers EXCEPT ![s] = after]
  /\ after \in Observer
  /\ after.sequence = observers[s].sequence + 1
  /\ after.broken = (observers[s].broken \/ ~ok)
  /\ children' = children

(* What becomes of the file and of what was reported.                      *)
LEMMA RecordsAre ==
  ASSUME JournalTypes, ObserverTypes, NEW s \in Sessions, NEW event \in Event,
         NEW ok \in BOOLEAN, NEW after, Records(s, event, ok, after)
  PROVE  LET entry == [session |-> s, sequence |-> observers[s].sequence + 1, event |-> event]
         IN  /\ entry \in Entry
             /\ \/ journal' = journal /\ told' = told /\ ~ok
                \/ \E how \in Writes :
                     /\ Extends(journal, journal', entry, how, JournalLine)
                     /\ \/ ~ok /\ told' = told
                        \/ ok /\ ~observers[s].broken /\ how = "written" /\ told' = told \cup {entry}
<1> DEFINE entry == [session |-> s, sequence |-> observers[s].sequence + 1, event |-> event]
<1>1. observers[s].sequence \in Nat
  BY DEF ObserverTypes, Observer
<1>2. entry \in Entry
  BY <1>1 DEF Entry
<1>3. \/ journal' = journal /\ told' = told /\ ~ok
      \/ \E how \in Writes :
           /\ journal' = AfterWrite(journal, entry, how)
           /\ \/ ~ok /\ told' = told
              \/ ok /\ ~observers[s].broken /\ how = "written" /\ told' = told \cup {entry}
  BY DEF Records, Recording, Writes
<1> HIDE DEF entry
<1>4. /\ entry \in JournalLine /\ Torn \in JournalLine
      /\ journal \in [lines : Seq(JournalLine), open : BOOLEAN]
      /\ journal.open => Len(journal.lines) > 0
  BY <1>2 DEF JournalTypes, JournalLine, Lines
<1>5. ASSUME NEW how \in Writes, NEW g, g = AfterWrite(journal, entry, how)
      PROVE  Extends(journal, g, entry, how, JournalLine)
  BY <1>4, <1>5, WriteKeepsLines
<1>6. \A how \in Writes : journal' = AfterWrite(journal, entry, how)
        => Extends(journal, journal', entry, how, JournalLine)
  BY <1>5
<1>7. /\ entry \in Entry
      /\ \/ journal' = journal /\ told' = told /\ ~ok
         \/ \E how \in Writes :
              /\ Extends(journal, journal', entry, how, JournalLine)
              /\ \/ ~ok /\ told' = told
                 \/ ok /\ ~observers[s].broken /\ how = "written" /\ told' = told \cup {entry}
  BY <1>2, <1>3, <1>6
<1> QED BY <1>7 DEF entry

(* Recording keeps the journal in order and complete, whatever the event.  *)
LEMMA RecordsInv ==
  ASSUME JournalTypes, ObserverTypes, OrderKnows, ToldKnows, CountsKnow,
         NEW s \in Sessions, NEW event \in Event,
         NEW ok \in BOOLEAN, NEW after, Records(s, event, ok, after)
  PROVE  JournalTypes' /\ OrderKnows' /\ ToldKnows' /\ CountsKnow'
<1>1. PICK entry : entry = [session |-> s, sequence |-> observers[s].sequence + 1, event |-> event]
  OBVIOUS
<1>2. /\ entry \in Entry /\ entry.session = s /\ entry.sequence = observers[s].sequence + 1
      /\ \/ journal' = journal /\ told' = told /\ ~ok
         \/ \E how \in Writes :
              /\ Extends(journal, journal', entry, how, JournalLine)
              /\ \/ ~ok /\ told' = told
                 \/ ok /\ ~observers[s].broken /\ how = "written" /\ told' = told \cup {entry}
  BY <1>1, RecordsAre
<1>3. /\ observers[s].sequence \in Nat /\ observers \in [Sessions -> Observer]
      /\ \A o \in Sessions : observers[o].sequence \in Nat /\ observers[o].broken \in BOOLEAN
  BY DEF ObserverTypes, Observer
<1>4. /\ observers'[s].sequence = observers[s].sequence + 1
      /\ observers'[s].broken = (observers[s].broken \/ ~ok)
      /\ \A o \in Sessions : o # s => observers'[o] = observers[o]
      /\ \A o \in Sessions : observers[o].sequence <= observers'[o].sequence
  BY <1>3 DEF Records
<1>5. told \subseteq Entry /\ \A e \in told : e.session \in Sessions /\ e.sequence \in Nat
  BY EntryParts DEF JournalTypes
<1>6. \A i \in 1..Len(Lines) : Lines[i] # Torn =>
        /\ Lines[i].session \in Sessions /\ Lines[i].sequence \in Nat
        /\ Lines[i].sequence <= observers[Lines[i].session].sequence
  BY LineParts DEF OrderKnows
<1>7. Len(Lines) \in Nat
  BY DEF JournalTypes, Lines
<1>8. CASE journal' = journal /\ told' = told /\ ~ok
  <2>1. JournalTypes' /\ ToldKnows'
    BY <1>8 DEF JournalTypes, ToldKnows, Lines
  <2>2. OrderKnows'
    <3>1. \A i \in 1..Len(Lines) : Lines[i] # Torn =>
            Lines[i].sequence <= observers'[Lines[i].session].sequence
      BY <1>3, <1>4, <1>6
    <3>2. Lines' = Lines
      BY <1>8 DEF Lines
    <3> QED BY <3>1, <3>2 DEF OrderKnows
  <2>3. CountsKnow'
    <3> SUFFICES ASSUME NEW o \in Sessions PROVE CountKnows(o)'
      BY DEF CountsKnow
    <3>1. EntriesTold(o)' = EntriesTold(o)
      BY <1>8 DEF EntriesTold
    <3>2. CountKnows(o)
      BY DEF CountsKnow
    <3>3. Cardinality(EntriesTold(o)) \in Nat
      BY <3>2, FS_CardinalityType DEF CountKnows
    <3>4. Cardinality(EntriesTold(o)) <= observers'[o].sequence
      BY <3>2, <3>3, <1>3, <1>4 DEF CountKnows
    <3>5. ~observers'[o].broken => Cardinality(EntriesTold(o)) = observers'[o].sequence
      BY <3>2, <1>4, <1>8 DEF CountKnows
    <3> QED BY <3>1, <3>2, <3>4, <3>5 DEF CountKnows
  <2> QED BY <2>1, <2>2, <2>3
<1>9. ASSUME NEW how \in Writes,
             Extends(journal, journal', entry, how, JournalLine),
             \/ ~ok /\ told' = told
             \/ ok /\ ~observers[s].broken /\ how = "written" /\ told' = told \cup {entry}
      PROVE  JournalTypes' /\ OrderKnows' /\ ToldKnows' /\ CountsKnow'
  <2>1. PICK ls : ls = journal'.lines
    OBVIOUS
  <2>2. /\ journal' \in [lines : Seq(JournalLine), open : BOOLEAN]
        /\ journal'.open => Len(ls) > 0
        /\ Len(Lines) <= Len(ls) /\ Len(ls) \in Nat
        /\ \A i \in 1..Len(Lines) : ls[i] \in {Lines[i], Torn}
        /\ \A i \in 1..Len(ls) :
             i \in 1..Len(Lines) \/ (i = Len(Lines) + 1 /\ ls[i] \in {entry, Torn})
        /\ how = "written" =>
             IF journal.open THEN ls[Len(Lines)] = Torn
             ELSE Len(ls) = Len(Lines) + 1 /\ ls[Len(Lines) + 1] = entry
    BY <1>9, <2>1 DEF Extends, Lines
  <2>3. Lines' = ls
    BY <2>1 DEF Lines
  <2>4. JournalTypes'
    <3>1. told' \subseteq Entry
      BY <1>2, <1>5, <1>9
    <3> QED BY <2>2, <2>3, <3>1 DEF JournalTypes
  <2>5. \A i \in 1..Len(ls) : ls[i] # Torn =>
          ls[i].sequence <= observers'[ls[i].session].sequence
    <3> SUFFICES ASSUME NEW i \in 1..Len(ls), ls[i] # Torn
                 PROVE  ls[i].sequence <= observers'[ls[i].session].sequence
      OBVIOUS
    <3>1. CASE i \in 1..Len(Lines)
      <4>1. ls[i] = Lines[i] /\ Lines[i] # Torn
        BY <3>1, <2>2
      <4> QED BY <3>1, <4>1, <1>3, <1>4, <1>6
    <3>2. CASE i = Len(Lines) + 1 /\ ls[i] = entry
      BY <3>2, <1>2, <1>3, <1>4
    <3> QED BY <2>2, <3>1, <3>2
  <2>6. \A i, j \in 1..Len(ls) :
          (i < j /\ ls[i] # Torn /\ ls[j] # Torn /\ ls[i].session = ls[j].session)
            => ls[i].sequence < ls[j].sequence
    <3> SUFFICES ASSUME NEW i \in 1..Len(ls), NEW j \in 1..Len(ls), i < j,
                        ls[i] # Torn, ls[j] # Torn, ls[i].session = ls[j].session
                 PROVE  ls[i].sequence < ls[j].sequence
      OBVIOUS
    <3>1. i \in 1..Len(Lines) /\ ls[i] = Lines[i]
      BY <2>2, <1>7
    <3>2. CASE j \in 1..Len(Lines)
      <4>1. ls[j] = Lines[j]
        BY <3>2, <2>2
      <4> QED BY <3>1, <3>2, <4>1 DEF OrderKnows
    <3>3. CASE ls[j] = entry
      BY <3>1, <3>3, <1>2, <1>3, <1>6
    <3> QED BY <2>2, <3>2, <3>3
  <2>7. OrderKnows'
    BY <2>3, <2>5, <2>6 DEF OrderKnows
  <2>8. ToldKnows'
    <3> SUFFICES ASSUME \A i \in 1..Len(ls) : ls[i] # Torn, NEW e \in told'
                 PROVE  \E i \in 1..Len(ls) : ls[i] = e
      BY <2>3 DEF ToldKnows
    <3>1. \A i \in 1..Len(Lines) : i \in 1..Len(ls) /\ ls[i] = Lines[i] /\ Lines[i] # Torn
      BY <2>2, <1>7
    <3>2. CASE e \in told
      <4>1. PICK i \in 1..Len(Lines) : Lines[i] = e
        BY <3>1, <3>2 DEF ToldKnows
      <4> QED BY <3>1, <4>1
    <3>3. CASE e \notin told
      <4>1. how = "written" /\ e = entry
        BY <3>3, <1>9
      <4>2. ~journal.open
        <5>1. journal.open => Len(Lines) \in 1..Len(Lines)
          BY <1>7 DEF JournalTypes
        <5> QED BY <3>1, <4>1, <5>1, <2>2
      <4> QED BY <4>1, <4>2, <2>2, <1>7
    <3> QED BY <3>2, <3>3
  <2>9. CountsKnow'
    <3> SUFFICES ASSUME NEW o \in Sessions PROVE CountKnows(o)'
      BY DEF CountsKnow
    <3>1. CountKnows(o)
      BY DEF CountsKnow
    <3>2. PICK T : T = EntriesTold(o)
      OBVIOUS
    <3>3. /\ IsFiniteSet(T) /\ Cardinality(T) \in Nat
          /\ {e.sequence : e \in T} = 1..Cardinality(T)
          /\ Cardinality(T) <= observers[o].sequence
          /\ ~observers[o].broken => Cardinality(T) = observers[o].sequence
      BY <3>1, <3>2, FS_CardinalityType DEF CountKnows
    <3>4. CASE o # s \/ told' = told
      <4>1. EntriesTold(o)' = T
        BY <3>2, <3>4, <1>2, <1>9 DEF EntriesTold
      <4>2. Cardinality(T) <= observers'[o].sequence
        BY <3>3, <1>3, <1>4
      <4>3. ~observers'[o].broken => Cardinality(T) = observers'[o].sequence
        <5>1. CASE o # s
          BY <5>1, <3>3, <1>4
        <5>2. CASE o = s
          <6>1. ~ok \/ told' # told
            <7>1. CASE ok
              <8>1. entry \notin told
                <9>1. o = s /\ ~observers[s].broken
                  BY <5>2, <7>1, <1>9
                <9>2. entry \in told => entry \in T
                  BY <3>2, <1>2, <9>1 DEF EntriesTold
                <9>3. entry \in T => entry.sequence \in 1..Cardinality(T)
                  BY <3>3
                <9> QED BY <9>1, <9>2, <9>3, <3>3, <1>2, <1>3
              <8> QED BY <7>1, <8>1, <1>9
            <7> QED BY <7>1
          <6> QED BY <5>2, <6>1, <3>4, <1>4
        <5> QED BY <5>1, <5>2
      <4> QED BY <4>1, <4>2, <4>3, <3>3 DEF CountKnows
    <3>5. CASE o = s /\ told' # told
      <4>1. ok /\ ~observers[s].broken /\ told' = told \cup {entry}
        BY <3>5, <1>9
      <4>2. EntriesTold(o)' = T \cup {entry}
        BY <3>2, <3>5, <4>1, <1>2 DEF EntriesTold
      <4>3. Cardinality(T) = observers[s].sequence
        BY <3>3, <3>5, <4>1
      <4>4. entry \notin T
        <5>1. entry \in T => entry.sequence \in 1..Cardinality(T)
          BY <3>3
        <5> QED BY <5>1, <4>3, <1>2, <1>3
      <4>5. IsFiniteSet(T \cup {entry}) /\ Cardinality(T \cup {entry}) = observers[s].sequence + 1
        BY <3>3, <4>3, <4>4, FS_AddElement
      <4>6. {e.sequence : e \in T \cup {entry}} = 1..(observers[s].sequence + 1)
        <5>1. {e.sequence : e \in T \cup {entry}} = {e.sequence : e \in T} \cup {entry.sequence}
          OBVIOUS
        <5>2. {e.sequence : e \in T} = 1..observers[s].sequence
          BY <3>3, <4>3
        <5> QED BY <5>1, <5>2, <1>2, <1>3
      <4>7. observers'[o].sequence = observers[s].sequence + 1
        BY <3>5, <1>4
      <4>8. PICK U : U = T \cup {entry}
        OBVIOUS
      <4>9. /\ IsFiniteSet(U) /\ {e.sequence : e \in U} = 1..Cardinality(U)
            /\ Cardinality(U) = observers'[o].sequence
        BY <4>5, <4>6, <4>7, <4>8
      <4>10. Cardinality(U) <= observers'[o].sequence
        BY <4>7, <4>9, <1>3
      <4>11. EntriesTold(o)' = U
        BY <4>2, <4>8
      <4> QED BY <4>9, <4>10, <4>11 DEF CountKnows
    <3> QED BY <3>4, <3>5
  <2> QED BY <2>4, <2>7, <2>8, <2>9
<1> QED BY <1>2, <1>8, <1>9

(* What a session's observer records is witnessed, when the child is where *)
(* the event says.                                                         *)
LEMMA RecordsWitness ==
  ASSUME JournalTypes, ObserverTypes, ChildKnows, WitnessKnows,
         NEW s \in Sessions, NEW event \in Event,
         NEW ok \in BOOLEAN, NEW after, Records(s, event, ok, after),
         observers[s].at \in {"closing", "returned"} => after.at \in {"closing", "returned"},
         event.trust = "observer_recorded" =>
           /\ event.type = "process.exited" => children[s].at = "exited"
           /\ event.type = "process.start_failed" =>
                children[s].at = "none" /\ after.at \in {"closing", "returned"}
  PROVE  WitnessKnows'
<1>1. PICK entry : entry = [session |-> s, sequence |-> observers[s].sequence + 1, event |-> event]
  OBVIOUS
<1>2. /\ entry \in Entry /\ entry.session = s /\ entry.event = event
      /\ \/ journal' = journal
         \/ \E how \in Writes : Extends(journal, journal', entry, how, JournalLine)
  BY <1>1, RecordsAre
<1>3. /\ children' = children /\ observers'[s] = after
      /\ \A o \in Sessions : observers[o].at \in {"closing", "returned"}
           => observers'[o].at \in {"closing", "returned"}
  BY DEF Records, ObserverTypes
<1>4. \A i \in 1..Len(Lines) : Lines[i] # Torn => Lines[i].session \in Sessions
  BY LineParts
<1>5. \A i \in 1..Len(journal'.lines) :
        \/ journal'.lines[i] \in {entry, Torn}
        \/ i \in 1..Len(Lines) /\ journal'.lines[i] = Lines[i]
  <2>1. CASE journal' = journal
    BY <2>1 DEF Lines
  <2>2. ASSUME NEW how \in Writes, Extends(journal, journal', entry, how, JournalLine)
        PROVE  \A i \in 1..Len(journal'.lines) :
                 \/ journal'.lines[i] \in {entry, Torn}
                 \/ i \in 1..Len(Lines) /\ journal'.lines[i] = Lines[i]
    BY <2>2 DEF Extends, Lines
  <2> QED BY <1>2, <2>1, <2>2
<1> SUFFICES ASSUME NEW i \in 1..Len(Lines'), Lines'[i] # Torn,
                    Lines'[i].event.trust = "observer_recorded"
             PROVE  LET o == Lines'[i].session
                    IN  /\ Lines'[i].event.type = "process.exited" => children'[o].at = "exited"
                        /\ Lines'[i].event.type = "process.start_failed" =>
                             /\ children'[o].at = "none"
                             /\ observers'[o].at \in {"closing", "returned"}
  BY DEF WitnessKnows
<1>6. CASE Lines'[i] = entry
  BY <1>2, <1>3, <1>6
<1>7. CASE i \in 1..Len(Lines) /\ Lines'[i] = Lines[i]
  BY <1>3, <1>4, <1>7 DEF WitnessKnows
<1> QED BY <1>5, <1>6, <1>7 DEF Lines

LEMMA LifecycleEvents ==
  ASSUME NEW type \in LifecycleTypes
  PROVE  /\ Lifecycle(type) \in Event
         /\ Lifecycle(type).type = type
BY DEF Lifecycle, Event

LEMMA AgentEvents ==
  ASSUME NEW line \in AgentLines
  PROVE  Normalized(line) \in Event /\ Normalized(line).trust # "observer_recorded"
BY DEF Normalized, Event

(* One step of an observer that records: everything is kept.               *)
LEMMA RecordingInv ==
  ASSUME SessionInv, NEW s \in Sessions, NEW event \in Event,
         NEW ok \in BOOLEAN, NEW after, Records(s, event, ok, after),
         observers[s].at \notin {"closing", "returned"},
         event.trust = "observer_recorded" =>
           /\ event.type = "process.exited" => children[s].at = "exited"
           /\ event.type = "process.start_failed" =>
                children[s].at = "none" /\ after.at \in {"closing", "returned"},
         after.at \in {"new", "starting", "launching", "unstarted"} => children[s].at = "none",
         after.at = "exited" => children[s].at = "exited",
         pipes' \in [Sessions -> Seq(AgentLines)],
         \A o \in Sessions : Len(pipes'[o]) <= PipeSize
  PROVE  SessionInv'
<1> USE DEF SessionInv
<1>1. JournalTypes' /\ OrderKnows' /\ ToldKnows' /\ CountsKnow'
  BY RecordsInv
<1>2. WitnessKnows'
  BY RecordsWitness
<1>3. ObserverTypes'
  BY DEF ObserverTypes, Records
<1>4. ChildKnows'
  BY DEF ChildKnows, Records, ObserverTypes
<1> QED BY <1>1, <1>2, <1>3, <1>4

(* A step that leaves the journal and the recorders alone.                 *)
Rests ==
  /\ UNCHANGED <<journal, told>>
  /\ \A s \in Sessions : /\ observers'[s].sequence = observers[s].sequence
                         /\ observers'[s].broken = observers[s].broken
  /\ \A s \in Sessions :
       /\ children[s].at = "exited" => children'[s].at = "exited"
       /\ children[s].at = "none" /\ observers[s].at \in {"closing", "returned"}
            => children'[s].at = "none"
       /\ observers[s].at \in {"closing", "returned"}
            => observers'[s].at \in {"closing", "returned"}

LEMMA RestsInv ==
  ASSUME SessionInv, Rests, ObserverTypes', ChildKnows'
  PROVE  SessionInv'
<1> USE DEF SessionInv
<1>1. Lines' = Lines /\ told' = told /\ journal' = journal
  BY DEF Rests, Lines
<1>2. \A i \in 1..Len(Lines) : Lines[i] # Torn => Lines[i].session \in Sessions
  BY LineParts
<1>3. JournalTypes' /\ ToldKnows'
  BY <1>1 DEF JournalTypes, ToldKnows
<1>4. OrderKnows'
  BY <1>1, <1>2 DEF OrderKnows, Rests
<1>5. WitnessKnows'
  BY <1>1, <1>2 DEF WitnessKnows, Rests
<1>6. CountsKnow'
  <2> SUFFICES ASSUME NEW s \in Sessions PROVE CountKnows(s)'
    BY DEF CountsKnow
  <2>1. EntriesTold(s)' = EntriesTold(s)
    BY <1>1 DEF EntriesTold
  <2> QED BY <2>1 DEF CountsKnow, CountKnows, Rests
<1> QED BY <1>3, <1>4, <1>5, <1>6

-----------------------------------------------------------------------------
Places == {"new", "starting", "launching", "unstarted", "started",
           "streaming", "waiting", "exited", "closing", "returned"}

LEMMA GotoIs ==
  ASSUME ObserverTypes, NEW s \in Sessions, NEW at \in Places, Goto(s, at)
  PROVE  /\ observers' \in [Sessions -> Observer]
         /\ observers'[s].at = at
         /\ \A o \in Sessions : o # s => observers'[o] = observers[o]
         /\ \A o \in Sessions : /\ observers'[o].sequence = observers[o].sequence
                                /\ observers'[o].broken = observers[o].broken
<1>1. observers \in [Sessions -> Observer]
  BY DEF ObserverTypes
<1>2. [observers[s] EXCEPT !.at = at] \in Observer
  BY <1>1 DEF Observer, Places
<1>3. observers' = [observers EXCEPT ![s] = [observers[s] EXCEPT !.at = at]]
  BY DEF Goto
<1>4. PICK x : x = [observers[s] EXCEPT !.at = at]
  OBVIOUS
<1>5. /\ x \in Observer /\ x.at = at
      /\ x.sequence = observers[s].sequence /\ x.broken = observers[s].broken
  BY <1>1, <1>2, <1>4 DEF Observer
<1> QED BY <1>1, <1>3, <1>4, <1>5

LEMMA AfterRecordingIs ==
  ASSUME ObserverTypes, NEW s \in Sessions, NEW at \in Places, NEW ok \in BOOLEAN,
         NEW event, Recording(s, event, ok), AfterRecording(s, at, ok), children' = children
  PROVE  \E after : Records(s, event, ok, after) /\ after.at = at
<1>1. observers \in [Sessions -> Observer] /\ observers[s] \in Observer
  BY DEF ObserverTypes
<1>2. PICK b \in BOOLEAN : b = (observers[s].broken \/ ~ok)
  OBVIOUS
<1>3. PICK x : x = [observers[s] EXCEPT !.at = at, !.sequence = observers[s].sequence + 1,
                                        !.broken = b]
  OBVIOUS
<1>4. x \in Observer /\ x.at = at /\ x.sequence = observers[s].sequence + 1 /\ x.broken = b
  <2>1. x.at = at /\ x.sequence = observers[s].sequence + 1
    BY <1>1, <1>3 DEF Observer
  <2>2. x.broken = b
    BY <1>1, <1>3 DEF Observer
  <2>3. x \in Observer
    <3>1. PICK o \in Observer : o = observers[s]
      BY <1>1
    <3>2. PICK n \in Nat : n = observers[s].sequence + 1
      BY <3>1 DEF Observer
    <3>3. x = [o EXCEPT !.at = at, !.sequence = n, !.broken = b]
      BY <1>3, <3>1, <3>2
    <3> QED BY <3>3 DEF Observer, Places
  <2> QED BY <2>1, <2>2, <2>3
<1>5. observers' = [observers EXCEPT ![s] = x]
  BY <1>2, <1>3 DEF AfterRecording
<1> QED BY <1>2, <1>4, <1>5 DEF Records

(* An event of the observer itself, after which it goes to at.             *)
LEMMA LifecycleInv ==
  ASSUME SessionInv, NEW s \in Sessions, NEW type \in LifecycleTypes,
         NEW at \in Places, NEW ok \in BOOLEAN,
         Recording(s, Lifecycle(type), ok), AfterRecording(s, at, ok),
         UNCHANGED <<children, pipes>>,
         observers[s].at \notin {"closing", "returned"},
         type = "process.exited" => children[s].at = "exited",
         type = "process.start_failed" =>
           children[s].at = "none" /\ at \in {"closing", "returned"},
         at \in {"new", "starting", "launching", "unstarted"} => children[s].at = "none",
         at = "exited" => children[s].at = "exited"
  PROVE  SessionInv'
<1>1. ObserverTypes
  BY DEF SessionInv
<1>2. PICK after : Records(s, Lifecycle(type), ok, after) /\ after.at = at
  BY <1>1, AfterRecordingIs
<1>3. Lifecycle(type) \in Event /\ Lifecycle(type).type = type
  BY LifecycleEvents
<1>4. pipes' \in [Sessions -> Seq(AgentLines)] /\ \A o \in Sessions : Len(pipes'[o]) <= PipeSize
  BY <1>1 DEF ObserverTypes
<1> QED BY <1>2, <1>3, <1>4, RecordingInv

LEMMA RecordsLifecycleInv ==
  ASSUME SessionInv, NEW s \in Sessions,
         RecordStarting(s) \/ RecordStarted(s) \/ RecordExited(s)
  PROVE  SessionInv'
<1>1. ChildKnows
  BY DEF SessionInv
<1>2. CASE RecordStarting(s)
  <2>1. PICK ok \in BOOLEAN :
          /\ Recording(s, Lifecycle("process.starting"), ok)
          /\ AfterRecording(s, IF ok THEN "launching" ELSE "closing", ok)
    BY <1>2 DEF RecordStarting
  <2>2. /\ observers[s].at = "starting" /\ children[s].at = "none"
        /\ UNCHANGED <<children, pipes>>
    BY <1>1, <1>2 DEF RecordStarting, At, ChildKnows
  <2>3. "process.starting" \in LifecycleTypes
    BY DEF LifecycleTypes
  <2>4. PICK at : at = IF ok THEN "launching" ELSE "closing"
    OBVIOUS
  <2>5. at \in Places /\ at # "exited" /\ AfterRecording(s, at, ok)
    BY <2>1, <2>4 DEF Places
  <2> QED BY <2>1, <2>2, <2>3, <2>5, LifecycleInv
<1>3. CASE RecordStarted(s)
  <2>1. PICK ok \in BOOLEAN :
          \/ /\ At(s, "started")
             /\ Recording(s, Lifecycle("process.started"), ok)
             /\ AfterRecording(s, "streaming", ok)
          \/ /\ At(s, "unstarted")
             /\ Recording(s, Lifecycle("process.start_failed"), ok)
             /\ AfterRecording(s, "closing", ok)
    BY <1>3 DEF RecordStarted
  <2>2. UNCHANGED <<children, pipes>>
    BY <1>3 DEF RecordStarted
  <2>3. /\ "process.started" \in LifecycleTypes /\ "process.start_failed" \in LifecycleTypes
        /\ "streaming" \in Places /\ "closing" \in Places
    BY DEF LifecycleTypes, Places
  <2>4. CASE /\ At(s, "started")
             /\ Recording(s, Lifecycle("process.started"), ok)
             /\ AfterRecording(s, "streaming", ok)
    BY <2>2, <2>3, <2>4, LifecycleInv DEF At
  <2>5. CASE /\ At(s, "unstarted")
             /\ Recording(s, Lifecycle("process.start_failed"), ok)
             /\ AfterRecording(s, "closing", ok)
    <3>1. children[s].at = "none" /\ observers[s].at = "unstarted"
      BY <1>1, <2>5 DEF At, ChildKnows
    <3> QED BY <3>1, <2>2, <2>3, <2>5, LifecycleInv
  <2> QED BY <2>1, <2>4, <2>5
<1>4. CASE RecordExited(s)
  <2>1. PICK ok \in BOOLEAN :
          /\ Recording(s, Lifecycle("process.exited"), ok)
          /\ AfterRecording(s, "closing", ok)
    BY <1>4 DEF RecordExited
  <2>2. /\ observers[s].at = "exited" /\ children[s].at = "exited"
        /\ UNCHANGED <<children, pipes>>
    BY <1>1, <1>4 DEF RecordExited, At, ChildKnows
  <2>3. "process.exited" \in LifecycleTypes /\ "closing" \in Places
    BY DEF LifecycleTypes, Places
  <2> QED BY <2>1, <2>2, <2>3, LifecycleInv
<1> QED BY <1>2, <1>3, <1>4

LEMMA StreamInv ==
  ASSUME SessionInv, NEW s \in Sessions, Stream(s)
  PROVE  SessionInv'
<1>1. ObserverTypes /\ ChildKnows
  BY DEF SessionInv
<1>2. /\ observers[s].at = "streaming" /\ pipes[s] # <<>>
      /\ pipes' = [pipes EXCEPT ![s] = Tail(pipes[s])]
      /\ children' = children
  BY DEF Stream, At
<1>3. /\ observers \in [Sessions -> Observer] /\ observers[s] \in Observer
      /\ pipes \in [Sessions -> Seq(AgentLines)] /\ pipes[s] \in Seq(AgentLines)
      /\ \A o \in Sessions : Len(pipes[o]) <= PipeSize
  BY <1>1 DEF ObserverTypes
<1>4. /\ Tail(pipes[s]) \in Seq(AgentLines) /\ Len(Tail(pipes[s])) <= Len(pipes[s])
      /\ Head(pipes[s]) \in AgentLines
  BY <1>2, <1>3, HeadTailProperties
<1>5. pipes' \in [Sessions -> Seq(AgentLines)] /\ \A o \in Sessions : Len(pipes'[o]) <= PipeSize
  <2>1. Len(Tail(pipes[s])) <= PipeSize
    BY <1>3, <1>4, LenProperties, SessionAssumption
  <2> QED BY <1>2, <1>3, <1>4, <2>1
<1>6. PICK event : event = Normalized(Head(pipes[s]))
  OBVIOUS
<1>7. event \in Event /\ event.trust # "observer_recorded"
  BY <1>4, <1>6, AgentEvents
<1>8. ASSUME NEW ok \in BOOLEAN, Recording(s, event, ok), AfterRecording(s, "streaming", ok)
      PROVE  SessionInv'
  <2>1. "streaming" \in Places
    BY DEF Places
  <2>2. PICK after : Records(s, event, ok, after) /\ after.at = "streaming"
    BY <1>1, <1>2, <1>8, <2>1, AfterRecordingIs
  <2> QED BY <1>2, <1>5, <1>7, <2>2, RecordingInv
<1>9. ASSUME NEW ok \in BOOLEAN, ~ok, Recording(s, event, ok),
             observers' = [observers EXCEPT ![s].at = "waiting", ![s].sequence = @ + 1,
                                            ![s].broken = TRUE, ![s].scanErr = TRUE]
      PROVE  SessionInv'
  <2>1. PICK b \in BOOLEAN : b = TRUE
    OBVIOUS
  <2>2. PICK x : x = [observers[s] EXCEPT !.at = "waiting", !.sequence = observers[s].sequence + 1,
                                          !.broken = b, !.scanErr = b]
    OBVIOUS
  <2>3. /\ x \in Observer /\ x.at = "waiting" /\ x.sequence = observers[s].sequence + 1
        /\ x.broken = b
    <3>1. x.at = "waiting" /\ x.sequence = observers[s].sequence + 1
      BY <1>3, <2>2 DEF Observer
    <3>2. x.broken = b
      BY <1>3, <2>2 DEF Observer
    <3>3. x \in Observer
      <4>1. PICK o \in Observer : o = observers[s]
        BY <1>3
      <4>2. PICK n \in Nat : n = observers[s].sequence + 1
        BY <4>1 DEF Observer
      <4>3. x = [o EXCEPT !.at = "waiting", !.sequence = n, !.broken = b, !.scanErr = b]
        BY <2>2, <4>1, <4>2
      <4> QED BY <4>3 DEF Observer
    <3> QED BY <3>1, <3>2, <3>3
  <2>4. observers' = [observers EXCEPT ![s] = x] /\ x.broken = (observers[s].broken \/ ~ok)
    <3>1. observers' = [observers EXCEPT ![s].at = "waiting",
                          ![s].sequence = observers[s].sequence + 1,
                          ![s].broken = b, ![s].scanErr = b]
      BY <1>9, <2>1
    <3>2. x.broken = (observers[s].broken \/ ~ok)
      BY <1>9, <2>1, <2>3
    <3> QED BY <2>2, <3>1, <3>2
  <2>5. Records(s, event, ok, x)
    BY <1>2, <1>9, <2>3, <2>4 DEF Records
  <2> QED BY <1>2, <1>5, <1>7, <2>3, <2>5, RecordingInv
<1>10. CASE /\ observers' = [observers EXCEPT ![s].at = "waiting", ![s].scanErr = TRUE]
            /\ UNCHANGED <<journal, told>>
  <2>1. PICK x : x = [observers[s] EXCEPT !.at = "waiting", !.scanErr = TRUE]
    OBVIOUS
  <2>2. /\ x \in Observer /\ x.at = "waiting" /\ x.sequence = observers[s].sequence
        /\ x.broken = observers[s].broken
    BY <1>3, <2>1 DEF Observer
  <2>3. observers' = [observers EXCEPT ![s] = x]
    BY <1>3, <1>10, <2>1 DEF Observer
  <2>4. ObserverTypes'
    BY <1>1, <1>2, <1>3, <1>5, <2>2, <2>3 DEF ObserverTypes
  <2>5. ChildKnows'
    BY <1>1, <1>2, <1>3, <2>2, <2>3 DEF ChildKnows
  <2>6. Rests
    BY <1>2, <1>3, <1>10, <2>2, <2>3 DEF Rests
  <2> QED BY <2>4, <2>5, <2>6, RestsInv
<1>11. \/ \E ok \in BOOLEAN : Recording(s, event, ok) /\ AfterRecording(s, "streaming", ok)
       \/ \E ok \in BOOLEAN :
            /\ ~ok /\ Recording(s, event, ok)
            /\ observers' = [observers EXCEPT ![s].at = "waiting", ![s].sequence = @ + 1,
                                              ![s].broken = TRUE, ![s].scanErr = TRUE]
       \/ /\ observers' = [observers EXCEPT ![s].at = "waiting", ![s].scanErr = TRUE]
          /\ UNCHANGED <<journal, told>>
  BY <1>6, Zenon DEF Stream
<1> QED BY <1>8, <1>9, <1>10, <1>11

(* A step that only moves the observer of s, or its child.                 *)
LEMMA MovesInv ==
  ASSUME SessionInv, NEW s \in Sessions,
         New(s) \/ Launch(s) \/ EndOfStream(s) \/ Wait(s) \/ Close(s)
  PROVE  SessionInv'
<1>1. ObserverTypes /\ ChildKnows
  BY DEF SessionInv
<1>2. UNCHANGED <<pipes, journal, told>>
  BY DEF New, Launch, EndOfStream, Wait, Close
<1>3. ASSUME NEW at \in Places, Goto(s, at), children' = children,
             observers[s].at \in {"closing", "returned"} => at \in {"closing", "returned"},
             at \in {"new", "starting", "launching", "unstarted"} => children[s].at = "none",
             at = "exited" => children[s].at = "exited"
      PROVE  SessionInv'
  <2>1. /\ observers' \in [Sessions -> Observer]
        /\ observers'[s].at = at
        /\ \A o \in Sessions : o # s => observers'[o] = observers[o]
        /\ \A o \in Sessions : /\ observers'[o].sequence = observers[o].sequence
                               /\ observers'[o].broken = observers[o].broken
    BY <1>1, <1>3, GotoIs
  <2>2. ObserverTypes'
    BY <1>1, <1>2, <1>3, <2>1 DEF ObserverTypes
  <2>3. ChildKnows'
    BY <1>1, <1>3, <2>1 DEF ChildKnows
  <2>4. Rests
    BY <1>2, <1>3, <2>1 DEF Rests
  <2> QED BY <2>2, <2>3, <2>4, RestsInv
<1>4. CASE New(s)
  BY <1>1, <1>3, <1>4 DEF New, At, ChildKnows, Places
<1>5. CASE Launch(s) /\ children' = children
  <2>1. observers[s].at = "launching" /\ children[s].at = "none"
    BY <1>1, <1>5 DEF Launch, At, ChildKnows
  <2>2. Goto(s, "started") \/ Goto(s, "unstarted")
    BY <1>5 DEF Launch
  <2> QED BY <1>3, <1>5, <2>1, <2>2 DEF Places
<1>6. CASE /\ At(s, "launching") /\ Goto(s, "started")
           /\ children' = [children EXCEPT ![s].at = "running"]
  <2>1. /\ observers' \in [Sessions -> Observer]
        /\ observers'[s].at = "started"
        /\ \A o \in Sessions : o # s => observers'[o] = observers[o]
        /\ \A o \in Sessions : /\ observers'[o].sequence = observers[o].sequence
                               /\ observers'[o].broken = observers[o].broken
    BY <1>1, <1>6, GotoIs DEF Places
  <2>2. /\ children' \in [Sessions -> [at : {"none", "running", "exited"}, left : Nat]]
        /\ children'[s].at = "running"
        /\ \A o \in Sessions : o # s => children'[o] = children[o]
    BY <1>1, <1>6 DEF ObserverTypes
  <2>3. observers[s].at = "launching" /\ children[s].at = "none"
    BY <1>1, <1>6 DEF At, ChildKnows
  <2>4. ObserverTypes'
    BY <1>1, <1>2, <2>1, <2>2 DEF ObserverTypes
  <2>5. ChildKnows'
    BY <1>1, <2>1, <2>2 DEF ChildKnows
  <2>6. Rests
    BY <1>2, <2>1, <2>2, <2>3 DEF Rests
  <2> QED BY <2>4, <2>5, <2>6, RestsInv
<1>7. CASE EndOfStream(s)
  BY <1>3, <1>7 DEF EndOfStream, At, Places
<1>8. CASE Wait(s)
  BY <1>3, <1>8 DEF Wait, At, Places
<1>9. CASE Close(s)
  BY <1>3, <1>9 DEF Close, At, Places
<1> QED BY <1>4, <1>5, <1>6, <1>7, <1>8, <1>9 DEF Launch

LEMMA ChildInv ==
  ASSUME SessionInv, NEW s \in Sessions, ChildWrites(s) \/ ChildEnds(s) \/ ChildDies(s)
  PROVE  SessionInv'
<1>1. ObserverTypes /\ ChildKnows
  BY DEF SessionInv
<1>2. UNCHANGED <<observers, journal, told>> /\ children[s].at = "running"
  BY DEF ChildWrites, ChildEnds, ChildDies
<1>3. /\ children' \in [Sessions -> [at : {"none", "running", "exited"}, left : Nat]]
      /\ children'[s].at \in {"running", "exited"}
      /\ \A o \in Sessions : o # s => children'[o] = children[o]
  <2>1. children \in [Sessions -> [at : {"none", "running", "exited"}, left : Nat]]
    BY <1>1 DEF ObserverTypes
  <2>2. CASE ChildWrites(s)
    <3>1. /\ children[s].left > 0
          /\ children' = [children EXCEPT ![s].left = children[s].left - 1]
      BY <2>2 DEF ChildWrites
    <3>2. children[s].left - 1 \in Nat
      BY <2>1, <3>1
    <3> QED BY <1>2, <2>1, <3>1, <3>2
  <2>3. CASE ChildEnds(s) \/ ChildDies(s)
    BY <2>1, <2>3 DEF ChildEnds, ChildDies
  <2> QED BY <2>2, <2>3
<1>4. pipes' \in [Sessions -> Seq(AgentLines)] /\ \A o \in Sessions : Len(pipes'[o]) <= PipeSize
  <2>1. /\ pipes \in [Sessions -> Seq(AgentLines)]
        /\ \A o \in Sessions : Len(pipes[o]) <= PipeSize
    BY <1>1 DEF ObserverTypes
  <2>2. CASE pipes' = pipes
    BY <2>1, <2>2
  <2>3. CASE ChildWrites(s)
    <3>1. PICK line \in AgentLines : pipes' = [pipes EXCEPT ![s] = Append(pipes[s], line)]
      BY <2>3 DEF ChildWrites
    <3>2. Append(pipes[s], line) \in Seq(AgentLines) /\ Len(Append(pipes[s], line)) <= PipeSize
      <4>1. Len(pipes[s]) < PipeSize /\ Len(pipes[s]) \in Nat /\ pipes[s] \in Seq(AgentLines)
        BY <2>1, <2>3 DEF ChildWrites
      <4> QED BY <4>1, AppendProperties, SessionAssumption
    <3> QED BY <2>1, <3>1, <3>2
  <2> QED BY <2>2, <2>3 DEF ChildEnds, ChildDies
<1>5. ObserverTypes'
  BY <1>1, <1>2, <1>3, <1>4 DEF ObserverTypes
<1>6. ChildKnows'
  BY <1>1, <1>2, <1>3 DEF ChildKnows
<1>7. Rests
  BY <1>2, <1>3 DEF Rests
<1> QED BY <1>5, <1>6, <1>7, RestsInv

-----------------------------------------------------------------------------
LEMMA SessionInit_Inv == SessionInit => SessionInv
<1> SUFFICES ASSUME SessionInit PROVE SessionInv
  OBVIOUS
<1>1. /\ observers = [s \in Sessions |->
           [at |-> "new", sequence |-> 0, broken |-> FALSE, scanErr |-> FALSE]]
      /\ children = [s \in Sessions |-> [at |-> "none", left |-> LinesOf[s]]]
      /\ pipes = [s \in Sessions |-> <<>>]
      /\ journal = [lines |-> <<>>, open |-> FALSE] /\ told = {}
  BY DEF SessionInit, EmptyFile
<1>2. ObserverTypes
  <2>1. observers \in [Sessions -> Observer]
    BY <1>1 DEF Observer
  <2>2. children \in [Sessions -> [at : {"none", "running", "exited"}, left : Nat]]
    BY <1>1, SessionAssumption
  <2>3. pipes \in [Sessions -> Seq(AgentLines)] /\ \A s \in Sessions : Len(pipes[s]) <= PipeSize
    BY <1>1, SessionAssumption
  <2> QED BY <2>1, <2>2, <2>3 DEF ObserverTypes
<1>3. JournalTypes /\ WitnessKnows /\ OrderKnows /\ ToldKnows
  BY <1>1 DEF JournalTypes, WitnessKnows, OrderKnows, ToldKnows, Lines
<1>4. ChildKnows
  BY <1>1 DEF ChildKnows
<1>5. CountsKnow
  <2> SUFFICES ASSUME NEW s \in Sessions PROVE CountKnows(s)
    BY DEF CountsKnow
  <2>1. EntriesTold(s) = {}
    BY <1>1 DEF EntriesTold
  <2>2. IsFiniteSet({}) /\ Cardinality({}) = 0
    BY FS_EmptySet
  <2>3. {e.sequence : e \in {}} = 1..0
    OBVIOUS
  <2>4. observers[s].sequence = 0
    BY <1>1
  <2> QED BY <2>1, <2>2, <2>3, <2>4 DEF CountKnows
<1> QED BY <1>2, <1>3, <1>4, <1>5 DEF SessionInv

LEMMA SessionNext_Inv == SessionInv /\ [SessionNext]_sessionVars => SessionInv'
<1> SUFFICES ASSUME SessionInv, [SessionNext]_sessionVars PROVE SessionInv'
  OBVIOUS
<1>1. ASSUME NEW s \in Sessions, ObserverStep(s)
      PROVE  SessionInv'
  BY <1>1, RecordsLifecycleInv, StreamInv, MovesInv DEF ObserverStep
<1>2. ASSUME NEW s \in Sessions, ChildWrites(s) \/ ChildEnds(s) \/ ChildDies(s)
      PROVE  SessionInv'
  BY <1>2, ChildInv
<1>3. CASE UNCHANGED sessionVars
  <2>1. UNCHANGED <<observers, children, pipes, journal, told>>
    BY <1>3 DEF sessionVars
  <2>2. ObserverTypes' /\ ChildKnows' /\ Rests
    BY <2>1 DEF SessionInv, ObserverTypes, ChildKnows, Rests
  <2> QED BY <2>2, RestsInv
<1> QED BY <1>1, <1>2, <1>3 DEF SessionNext

(* The invariant of the observers and of their journal holds throughout    *)
(* (recorder.go:52-179, cmd/observe/main.go:51-114).                       *)
THEOREM SessionInvariant == SessionSpec => []SessionInv
BY SessionInit_Inv, SessionNext_Inv, PTL DEF SessionSpec

(* Observers, children, pipes and the journal keep to their types          *)
(* (main.go:54-114, recorder.go:99-221).                                   *)
THEOREM SessionTypesHold == SessionSpec => []SessionTypeOK
<1>1. SessionInv => SessionTypeOK
  BY DEF SessionInv, SessionTypeOK, ObserverTypes, JournalTypes, JournalLine, Lines
<1> QED BY <1>1, SessionInvariant, PTL

(* What the observer says of its child's end or failed start is so,        *)
(* whatever the agent writes (main.go:54-96, recorder.go:80-97).           *)
THEOREM LifecycleWitnessed == SessionSpec => []LifecycleIsWitnessed
<1>1. SessionInv => LifecycleIsWitnessed
  BY DEF SessionInv, WitnessKnows, LifecycleIsWitnessed, Lines
<1> QED BY <1>1, SessionInvariant, PTL

(* A journal that can be read has every event reported as recorded, each   *)
(* session's in order and without a gap (recorder.go:99-114, 181-221).     *)
THEOREM NothingToldIsLost == SessionSpec => []JournalTellsAll
<1>1. SessionInv => JournalTellsAll
  <2> SUFFICES ASSUME SessionInv, NEW recent \in RecentEvents(Len(journal.lines)),
                      NEW s \in Sessions
               PROVE  /\ EntriesTold(s) \subseteq {recent[i] : i \in 1..Len(recent)}
                      /\ {e.sequence : e \in EntriesTold(s)} = 1..Cardinality(EntriesTold(s))
                      /\ \A i, j \in 1..Len(recent) :
                           (i < j /\ recent[i].session = s /\ recent[j].session = s)
                             => recent[i].sequence > recent[j].sequence
    BY DEF JournalTellsAll
  <2> DEFINE n == Len(Lines)
  <2>1. n \in Nat /\ JournalTypes
    BY DEF SessionInv, JournalTypes, Lines
  <2>2. /\ \A i \in 1..n : Lines[i] # Torn
        /\ recent = [i \in 1..n |-> Lines[n + 1 - i]]
    BY <2>1 DEF RecentEvents, Lines
  <2> HIDE DEF n
  <2>3. Len(recent) = n
    BY <2>1, <2>2
  <2>4. \A i \in 1..n : n + 1 - i \in 1..n /\ recent[i] = Lines[n + 1 - i]
    BY <2>1, <2>2
  <2>5. ASSUME NEW e \in EntriesTold(s)
        PROVE  e \in {recent[i] : i \in 1..Len(recent)}
    <3>1. PICK i \in 1..n : Lines[i] = e
      BY <2>2 DEF EntriesTold, SessionInv, ToldKnows, n
    <3>2. n + 1 - i \in 1..n /\ n + 1 - (n + 1 - i) = i
      BY <2>1
    <3> QED BY <2>3, <2>4, <3>1, <3>2
  <2>6. {e.sequence : e \in EntriesTold(s)} = 1..Cardinality(EntriesTold(s))
    BY DEF SessionInv, CountsKnow, CountKnows
  <2>7. ASSUME NEW i \in 1..n, NEW j \in 1..n, i < j,
               recent[i].session = s, recent[j].session = s
        PROVE  recent[i].sequence > recent[j].sequence
    <3>1. PICK a \in 1..n, b \in 1..n : a = n + 1 - i /\ b = n + 1 - j
      BY <2>4
    <3>2. b < a /\ recent[i] = Lines[a] /\ recent[j] = Lines[b]
      BY <2>1, <2>4, <2>7, <3>1
    <3>3. Lines[b].sequence < Lines[a].sequence
      BY <2>2, <2>7, <3>2 DEF SessionInv, OrderKnows, n
    <3>4. Lines[a].sequence \in Nat /\ Lines[b].sequence \in Nat
      BY <2>1, <2>2, LineParts DEF n
    <3> QED BY <3>2, <3>3, <3>4
  <2> QED BY <2>3, <2>5, <2>6, <2>7
<1> QED BY <1>1, SessionInvariant, PTL

=============================================================================
