---------------------------- MODULE SessionObserver ---------------------------
(***************************************************************************)
(* The observe command (src/cmd/observe/main.go) and its recorder          *)
(* (src/internal/sessionaudit/recorder.go): an observer starts an agent    *)
(* as a child, reads the lines it writes through a pipe, and records them, *)
(* with the events of the child's own life, in a journal other sessions    *)
(* write to as well.                                                       *)
(*                                                                         *)
(* The observer is one thread; a step ends where it could wait, or where a *)
(* write could fail.  An event is what a reader tells events apart by; the *)
(* digest of the agent's line, its identifiers and status are left out.    *)
(***************************************************************************)
EXTENDS JournalFile, FiniteSets

CONSTANTS
  Sessions,     \* sessions, each with an observer and a child of its own
  AgentLines,   \* the lines a child may write
  LinesOf,      \* bound: how many lines the child of a session writes
  PipeSize,     \* how many lines the pipe between them holds
  WritesFail    \* whether a write to the journal or the output may fail

ASSUME SessionAssumption ==
  LinesOf \in [Sessions -> Nat] /\ PipeSize \in Nat \ {0} /\ WritesFail \in BOOLEAN

VARIABLES
  observers,   \* of each session, where its observer is and what it holds
  children,    \* the child: whether it runs and the lines it has yet to write
  pipes,       \* the lines written and not read
  journal,     \* the file
  told         \* the events whose recording returned no error

sessionVars == <<observers, children, pipes, journal, told>>

-----------------------------------------------------------------------------
(* classify: the item decides before the event does.                       *)
classify(type, item) ==
  CASE item = "command_execution" -> "process.exec"
    [] item \in {"mcp_tool_call", "tool_call"} -> "tool.call"
    [] item = "file_change" -> "file.change"
    [] item \in {"web_search", "web_search_call"} -> "network.search"
    [] item \in {"agent_message", "reasoning"} -> "agent.output"
    [] OTHER -> CASE type \in {"thread.started", "turn.completed"} -> "agent.lifecycle"
                  [] type = "error" -> "agent.error"
                  [] OTHER -> "agent.event"

(* Fault: the wrapper's own trust is given to what the agent wrote.        *)
NormalizedAsObserved(line) ==
  [trust |-> "observer_recorded",
   type |-> IF line.json /\ line.type # "" THEN line.type ELSE "unparsed",
   class |-> IF line.json THEN classify(line.type, line.item) ELSE "agent.event"]

(* normalizeJSONLine: what an agent says of itself, whatever it calls it.  *)
(* A line is [json, type, item]; a type that is missing is "".             *)
Normalized(line) ==
  [trust |-> "self_reported",
   type |-> IF line.json /\ line.type # "" THEN line.type ELSE "unparsed",
   class |-> IF line.json THEN classify(line.type, line.item) ELSE "agent.event"]

Lifecycle(type) ==
  [trust |-> "observer_recorded", type |-> type, class |-> "process.lifecycle"]

LifecycleTypes ==
  {"process.starting", "process.started", "process.start_failed", "process.exited"}

Event == {Lifecycle(type) : type \in LifecycleTypes} \cup {Normalized(line) : line \in AgentLines}

(* An event of a session, with the number its recorder gave it.            *)
Entry == [session : Sessions, sequence : Nat, event : Event]

Observer == [at : {"new", "starting", "launching", "unstarted", "started",
                   "streaming", "waiting", "exited", "closing", "returned"},
             sequence : Nat, broken : BOOLEAN, scanErr : BOOLEAN]

SessionTypeOK ==
  /\ observers \in [Sessions -> Observer]
  /\ children \in [Sessions -> [at : {"none", "running", "exited"}, left : Nat]]
  /\ \A s \in Sessions : pipes[s] \in Seq(AgentLines) /\ Len(pipes[s]) <= PipeSize
  /\ journal \in [lines : Seq(Entry \cup {Torn}), open : BOOLEAN]
  /\ told \subseteq Entry

SessionInit ==
  /\ observers = [s \in Sessions |->
                    [at |-> "new", sequence |-> 0, broken |-> FALSE, scanErr |-> FALSE]]
  /\ children = [s \in Sessions |-> [at |-> "none", left |-> LinesOf[s]]]
  /\ pipes = [s \in Sessions |-> <<>>]
  /\ journal = EmptyFile
  /\ told = {}

At(s, at) == observers[s].at = at

Goto(s, at) == observers' = [observers EXCEPT ![s].at = at]

(* Fault: the event is returned before its session is filled in.           *)
RecordingUnstamped(s, event, ok) ==
  LET entry == [session |-> s, sequence |-> observers[s].sequence + 1, event |-> event]
  IN  /\ ok /\ ~observers[s].broken
      /\ journal' = AfterWrite(journal, entry, "written")
      /\ told' = told \cup {[entry EXCEPT !.session = ""]}

(* Recorder.append: the number is taken before the write.  A bufio.Writer  *)
(* that failed once fails for good and writes nothing more.                *)
Recording(s, event, ok) ==
  LET entry == [session |-> s, sequence |-> observers[s].sequence + 1, event |-> event]
  IN  IF ok
      THEN /\ ~observers[s].broken
           /\ journal' = AfterWrite(journal, entry, "written")
           /\ told' = told \cup {entry}
      ELSE /\ IF observers[s].broken
              THEN UNCHANGED journal
              ELSE /\ WritesFail
                   /\ \E how \in Writes \ {"written"} :
                        journal' = AfterWrite(journal, entry, how)
           /\ UNCHANGED told

(* Fault: the writer is used again after an error.                         *)
AfterRecordingForgetful(s, at, ok) ==
  observers' = [observers EXCEPT ![s].at = at, ![s].sequence = @ + 1]

AfterRecording(s, at, ok) ==
  observers' = [observers EXCEPT ![s].at = at, ![s].sequence = @ + 1,
                                 ![s].broken = @ \/ ~ok]

-----------------------------------------------------------------------------
(* New opens the journal, or the command ends.                             *)
New(s) ==
  /\ At(s, "new")
  /\ \/ Goto(s, "starting")
     \/ WritesFail /\ Goto(s, "returned")
  /\ UNCHANGED <<children, pipes, journal, told>>

RecordStarting(s) ==
  /\ At(s, "starting")
  /\ \E ok \in BOOLEAN :
       /\ Recording(s, Lifecycle("process.starting"), ok)
       /\ AfterRecording(s, IF ok THEN "launching" ELSE "closing", ok)
  /\ UNCHANGED <<children, pipes>>

Launch(s) ==
  /\ At(s, "launching")
  /\ \/ children' = [children EXCEPT ![s].at = "running"] /\ Goto(s, "started")
     \/ UNCHANGED children /\ Goto(s, "unstarted")
  /\ UNCHANGED <<pipes, journal, told>>

(* The errors of these two are ignored.                                    *)
RecordStarted(s) ==
  /\ \E ok \in BOOLEAN :
       \/ /\ At(s, "started")
          /\ Recording(s, Lifecycle("process.started"), ok)
          /\ AfterRecording(s, "streaming", ok)
       \/ /\ At(s, "unstarted")
          /\ Recording(s, Lifecycle("process.start_failed"), ok)
          /\ AfterRecording(s, "closing", ok)
  /\ UNCHANGED <<children, pipes>>

(* stream: a line is copied to the output and then recorded; an error of   *)
(* either, like a line too long to scan, ends the reading.                 *)
Stream(s) ==
  /\ At(s, "streaming") /\ pipes[s] # <<>>
  /\ pipes' = [pipes EXCEPT ![s] = Tail(@)]
  /\ \/ /\ Recording(s, Normalized(Head(pipes[s])), TRUE)
        /\ AfterRecording(s, "streaming", TRUE)
     \/ /\ Recording(s, Normalized(Head(pipes[s])), FALSE)
        /\ observers' = [observers EXCEPT ![s].at = "waiting", ![s].sequence = @ + 1,
                                          ![s].broken = TRUE, ![s].scanErr = TRUE]
     \/ /\ WritesFail
        /\ observers' = [observers EXCEPT ![s].at = "waiting", ![s].scanErr = TRUE]
        /\ UNCHANGED <<journal, told>>
  /\ UNCHANGED children

EndOfStream(s) ==
  /\ At(s, "streaming") /\ pipes[s] = <<>> /\ children[s].at = "exited"
  /\ Goto(s, "waiting")
  /\ UNCHANGED <<children, pipes, journal, told>>

(* Fault: the observer drains the pipe before it waits for the child.      *)
WaitUntilDrained(s) ==
  /\ At(s, "waiting") /\ children[s].at = "exited" /\ pipes[s] = <<>>
  /\ Goto(s, "exited")
  /\ UNCHANGED <<children, pipes, journal, told>>

(* child.Wait; nobody reads the pipe any more.                             *)
Wait(s) ==
  /\ At(s, "waiting") /\ children[s].at = "exited"
  /\ Goto(s, "exited")
  /\ UNCHANGED <<children, pipes, journal, told>>

RecordExited(s) ==
  /\ At(s, "exited")
  /\ \E ok \in BOOLEAN :
       /\ Recording(s, Lifecycle("process.exited"), ok)
       /\ AfterRecording(s, "closing", ok)
  /\ UNCHANGED <<children, pipes>>

(* Close flushes nothing that append has not flushed.                      *)
Close(s) ==
  /\ At(s, "closing")
  /\ Goto(s, "returned")
  /\ UNCHANGED <<children, pipes, journal, told>>

(* Recent: the last of the journal's entries, the newest first, unless a   *)
(* line of it is no entry.                                                 *)
RecentEvents(limit) ==
  LET entries == journal.lines
      n == IF Len(entries) < limit THEN Len(entries) ELSE limit
  IN  IF \E i \in 1..Len(entries) : entries[i] = Torn
      THEN {}
      ELSE {[i \in 1..n |-> entries[Len(entries) + 1 - i]]}

-----------------------------------------------------------------------------
(* The child (external): it writes while the pipe has room, and waits when *)
(* it has none; it may die before it has written everything.               *)
ChildWrites(s) ==
  /\ children[s].at = "running" /\ children[s].left > 0 /\ Len(pipes[s]) < PipeSize
  /\ children' = [children EXCEPT ![s].left = @ - 1]
  /\ \E line \in AgentLines : pipes' = [pipes EXCEPT ![s] = Append(@, line)]
  /\ UNCHANGED <<observers, journal, told>>

ChildEnds(s) ==
  /\ children[s].at = "running" /\ children[s].left = 0
  /\ children' = [children EXCEPT ![s].at = "exited"]
  /\ UNCHANGED <<observers, pipes, journal, told>>

ChildDies(s) ==
  /\ children[s].at = "running" /\ children[s].left > 0
  /\ children' = [children EXCEPT ![s].at = "exited"]
  /\ UNCHANGED <<observers, pipes, journal, told>>

ObserverStep(s) ==
  \/ New(s) \/ RecordStarting(s) \/ Launch(s) \/ RecordStarted(s) \/ Stream(s)
  \/ EndOfStream(s) \/ Wait(s) \/ RecordExited(s) \/ Close(s)

SessionNext ==
  \E s \in Sessions : ObserverStep(s) \/ ChildWrites(s) \/ ChildEnds(s) \/ ChildDies(s)

(* The observer runs on, and so does a child that is not kept waiting.     *)
SessionFairness ==
  \A s \in Sessions :
    /\ WF_sessionVars(ObserverStep(s))
    /\ WF_sessionVars(ChildWrites(s)) /\ WF_sessionVars(ChildEnds(s))

SessionSpec == SessionInit /\ [][SessionNext]_sessionVars /\ SessionFairness

-----------------------------------------------------------------------------
EntriesTold(s) == {e \in told : e.session = s}

(* A reader that gets the journal gets every event whose recording was     *)
(* reported as done, each session's in order and without a gap: what was   *)
(* lost after a failed write is the end of a session, never its middle     *)
(* (recorder.go:99-114, 181-221).                                          *)
JournalTellsAll ==
  \A recent \in RecentEvents(Len(journal.lines)) : \A s \in Sessions :
    /\ EntriesTold(s) \subseteq {recent[i] : i \in 1..Len(recent)}
    /\ {e.sequence : e \in EntriesTold(s)} = 1..Cardinality(EntriesTold(s))
    /\ \A i, j \in 1..Len(recent) :
         (i < j /\ recent[i].session = s /\ recent[j].session = s)
           => recent[i].sequence > recent[j].sequence

(* The observer says that a child exited only after it did, and that it    *)
(* could not be started only if it was not, whatever events the agent      *)
(* reports of itself (main.go:54-96, recorder.go:80-97).                   *)
LifecycleIsWitnessed ==
  \A i \in 1..Len(journal.lines) : journal.lines[i] # Torn =>
    LET e == journal.lines[i].event
        child == children[journal.lines[i].session]
    IN  e.trust = "observer_recorded" =>
          /\ e.type = "process.exited" => child.at = "exited"
          /\ e.type = "process.start_failed" => child.at = "none"

(* The observer left its child writing to a pipe it reads no longer.       *)
Jammed(s) ==
  /\ At(s, "waiting") /\ observers[s].scanErr
  /\ children[s].at = "running" /\ children[s].left > 0 /\ Len(pipes[s]) = PipeSize

(* Every observer comes to its end, unless its reading ended in an error   *)
(* while the child still filled the pipe: then each waits for the other    *)
(* for good (main.go:76-77, 101-114).                                      *)
EndsUnlessJammed == \A s \in Sessions : <>(At(s, "returned") \/ Jammed(s))

=============================================================================
