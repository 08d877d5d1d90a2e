------------------------------- MODULE Discovery ------------------------------
(***************************************************************************)
(* The inventory of agents: discovery.Manager over the approval registry   *)
(* file and the Scanner (src/internal/discovery).  The manager's methods   *)
(* run under one lock, so each goes from its save to the end of its scan   *)
(* before the next begins; but the scan takes its time, a step for every   *)
(* file and every signature, and meanwhile the workspace changes, days     *)
(* pass, an operator edits the configuration and the server may end.       *)
(*                                                                         *)
(* Names, owners, confidence and exposure texts are left out.  A path      *)
(* fragment stands for the files it occurs in, a fingerprint for the       *)
(* project it is the digest of.                                            *)
(***************************************************************************)
EXTENDS Naturals, Sequences, FiniteSets, Functions

CONSTANTS
  Walk,          \* the files of the roots in the order WalkDir visits them
  KnownTypes,    \* agent types with a signature
  Entries,       \* approvals an administrator may save
  Configs,       \* configuration files an operator may write
  Worlds,        \* what may become of the files
  MaxFindings,   \* agents a scan reports: 500 unless configured
  MaxGaps,       \* coverage gaps a scan lists: 50
  MaxDay,        \* bound: the last day
  WritesFail     \* whether writing the temporary registry file may fail

ASSUME DiscoveryAssumption ==
  /\ MaxFindings \in Nat /\ MaxGaps \in Nat /\ MaxDay \in Nat
  /\ WritesFail \in BOOLEAN

EntryFields == {"id", "type", "path", "fingerprint", "state", "expires", "complete"}

IsEntry(e) == e = [x \in EntryFields |-> e[x]]

(* Entries have the fields of a RegistryEntry, a file its signatures.      *)
ASSUME WalkAssumption ==
  /\ \A e \in Entries : IsEntry(e)
  /\ \A c \in Configs : \A list \in {c.approved, c.registered} :
       list \in Seq(Range(list)) /\ \A i \in 1..Len(list) : IsEntry(list[i])
  /\ Walk \in Seq(Range(Walk))
  /\ \A n \in 1..Len(Walk) : Walk[n].finds \in Seq(Range(Walk[n].finds))

(* What can become of a file: it may not be there, not be readable, or its *)
(* directory not be listed, as when it goes once it is listed.             *)
Conditions == {"present", "absent", "unreadable", "unlisted"}

VARIABLES
  world,      \* the condition of the root and of each file
  today,      \* the day
  config,     \* the configuration file
  file,       \* the registry file
  manager,    \* the running manager: its registry, the approvals its scanner
              \* has, its report and how far the scan of it has come
  scanned,    \* history: the condition each file was met in, and the day
  kept        \* the registry last put in place of the file, if any

discoveryVars == <<world, today, config, file, manager, scanned, kept>>

-----------------------------------------------------------------------------
NoId == <<>>
Anywhere == "anywhere"
Never == MaxDay + 1

(* normalizeRegistry: an entry without an identifier gets a digest of what *)
(* it approves, an entry without a state is active.                        *)
Normalized(e) ==
  [e EXCEPT !.id = IF e.id = NoId THEN <<e.type, e.path, e.fingerprint>> ELSE e.id,
            !.state = IF e.state = "" THEN "active" ELSE e.state]

NormalizedAll(entries) == [i \in 1..Len(entries) |-> Normalized(entries[i])]

(* ValidateRegistryEntry.                                                  *)
ValidEntry(e) == e.complete /\ e.type \in KnownTypes /\ e.state \in {"", "active", "suspended"}

(* LoadConfig: an older name of the approvals is used when there are none. *)
ConfiguredApprovals(c) == IF c.approved = <<>> THEN c.registered ELSE c.approved

NoFile == [is |-> "absent"]
Cut == [is |-> "cut"]
FileOf(entries) == [is |-> "registry", entries |-> entries]

(* Fault: an empty registry counts as none.                                *)
LoadRegistryUnlessEmpty ==
  NormalizedAll(IF file = NoFile \/ file = FileOf(<<>>)
                THEN ConfiguredApprovals(config) ELSE file.entries)

(* LoadRegistry: a file that is not there leaves the configured approvals. *)
LoadRegistry ==
  NormalizedAll(IF file = NoFile THEN ConfiguredApprovals(config) ELSE file.entries)

LoadFails == file = Cut

-----------------------------------------------------------------------------
(* deploymentState: an indicator in a file's content, or a place in a      *)
(* catalog or cache, shows an agent that could be used, not one that is.   *)
DeploymentState(f, basis) ==
  IF basis = "dependency_or_config_indicator" \/ f.shelved
  THEN "available"
  ELSE IF basis = "configuration_file" THEN "configured" ELSE "installed"

deploymentRank == [available |-> 1, installed |-> 2, configured |-> 3, observed |-> 4]

governanceStatus(state) == IF state = "available" THEN "unassessed" ELSE "shadow"

(* Fault: the evidence found first decides how an agent is deployed.       *)
AddEvidenceFirstDecides(scan, f, find) ==
  LET state == DeploymentState(f, find.basis)
      known == {a \in scan.agents : a.project = f.project /\ a.type = find.type}
  IN  IF known # {} THEN scan
      ELSE IF Cardinality(scan.agents) >= MaxFindings
      THEN [scan EXCEPT !.truncated = TRUE]
      ELSE [scan EXCEPT !.agents = @ \cup
             {[project |-> f.project, type |-> find.type, state |-> state,
               status |-> governanceStatus(state), approval |-> NoId,
               evidence |-> {f.path}]}]

(* addEvidence: a project's files make one agent of a type, deployed as    *)
(* the strongest of them says, as long as there is room for it.            *)
AddEvidence(scan, f, find) ==
  LET state == DeploymentState(f, find.basis)
      known == {a \in scan.agents : a.project = f.project /\ a.type = find.type}
  IN  IF known = {}
      THEN IF Cardinality(scan.agents) >= MaxFindings
           THEN [scan EXCEPT !.truncated = TRUE]
           ELSE [scan EXCEPT !.agents = @ \cup
                  {[project |-> f.project, type |-> find.type, state |-> state,
                    status |-> governanceStatus(state), approval |-> NoId,
                    evidence |-> {f.path}]}]
      ELSE LET a == CHOOSE b \in known : TRUE
               s == IF deploymentRank[state] > deploymentRank[a.state]
                    THEN state ELSE a.state
           IN  [scan EXCEPT !.agents = (@ \ {a}) \cup
                  {[a EXCEPT !.state = s, !.status = governanceStatus(s),
                             !.evidence = @ \cup {f.path}]}]

(* Fault: the list of gaps is not bounded.                                 *)
AddEveryCoverageGap(scan) == [scan EXCEPT !.gapCount = @ + 1, !.gaps = @ + 1]

(* addCoverageGap: every gap is counted, the first are listed.             *)
AddCoverageGap(scan) ==
  [scan EXCEPT !.gapCount = @ + 1,
               !.gaps = IF @ >= MaxGaps THEN @ ELSE @ + 1]

(* One signature at one file: its name is evidence, and so is its content, *)
(* which is looked at unless it is too large and may not be readable.      *)
VisitFind(scan, f, condition, find) ==
  IF find.basis = "configuration_file"
  THEN AddEvidence(scan, f, find)
  ELSE IF f.large THEN scan
  ELSE IF condition # "present" THEN AddCoverageGap(scan)
  ELSE AddEvidence(scan, f, find)

(* approvalIsActive: an approval holds to the end of its last day.         *)
approvalIsActive(e, day) == e.state = "active" /\ e.expires >= day

Covers(e, agent, day) ==
  /\ approvalIsActive(e, day)
  /\ e.type = agent.type
  /\ e.fingerprint \in {Anywhere, agent.project}
  /\ e.path = Anywhere \/ e.path \in agent.evidence

(* reconcile: the first approval that covers the agent.                    *)
Reconciled(agent, registry, day) ==
  LET covering == {i \in 1..Len(registry) : Covers(registry[i], agent, day)}
  IN  IF agent.state = "available"
      THEN [agent EXCEPT !.status = "unassessed"]
      ELSE IF covering = {} THEN agent
      ELSE [agent EXCEPT !.status = "approved",
              !.approval = registry[CHOOSE i \in covering : \A j \in covering : i <= j].id]

EmptyScan == [agents |-> {}, gaps |-> 0, gapCount |-> 0, truncated |-> FALSE]

-----------------------------------------------------------------------------
Down == [up |-> FALSE]

(* Where a scan is: at a signature of a file, or, at none, before it.      *)
At(n, k) == <<n, k>>
Done == <<>>

After(n, k) == IF k < Len(Walk[n].finds) THEN At(n, k + 1) ELSE At(n + 1, 0)

(* The manager's lock is free.                                             *)
Complete == manager.up /\ manager.visit = Done

(* scanLocked begins.  A root that cannot be inspected is a report of one  *)
(* gap and no agent.                                                       *)
Scanning(registry, approved) ==
  /\ manager' =
       IF world.root = "missing"
       THEN [up |-> TRUE, registry |-> registry, approved |-> approved,
             visit |-> Done, report |-> AddCoverageGap(EmptyScan)]
       ELSE [up |-> TRUE, registry |-> registry, approved |-> approved,
             visit |-> At(1, 0), report |-> EmptyScan]
  /\ scanned' = [files |-> [n \in 1..Len(Walk) |-> "absent"], day |-> today]

ConditionOf(n) == IF world.root = "missing" THEN "absent" ELSE world.files[n]

(* scanRoot comes to a file of the walk.                                   *)
VisitFile(n) ==
  /\ manager.up /\ manager.visit = At(n, 0)
  /\ scanned' = [scanned EXCEPT !.files[n] = ConditionOf(n)]
  /\ manager' =
       IF ConditionOf(n) = "absent" \/ Walk[n].skipped
       THEN [manager EXCEPT !.visit = At(n + 1, 0)]
       ELSE IF ConditionOf(n) = "unlisted"
       THEN [manager EXCEPT !.visit = At(n + 1, 0), !.report = AddCoverageGap(@)]
       ELSE [manager EXCEPT !.visit = After(n, 0)]
  /\ UNCHANGED <<world, today, config, file, kept>>

(* It holds a signature against the file, which may have changed.          *)
LookAt(n, k) ==
  /\ manager.up /\ manager.visit = At(n, k)
  /\ manager' = [manager EXCEPT !.visit = After(n, k),
                    !.report = VisitFind(@, Walk[n], ConditionOf(n), Walk[n].finds[k])]
  /\ UNCHANGED <<world, today, config, file, scanned, kept>>

(* Scan ends with the approvals.                                           *)
Reconcile ==
  /\ manager.up /\ manager.visit = At(Len(Walk) + 1, 0)
  /\ manager' = [manager EXCEPT !.visit = Done,
                    !.report.agents = {Reconciled(a, manager.approved, today) : a \in @}]
  /\ scanned' = [scanned EXCEPT !.day = today]
  /\ UNCHANGED <<world, today, config, file, kept>>

ScanStep ==
  \/ \E n \in 1..Len(Walk) :
       VisitFile(n) \/ \E k \in 1..Len(Walk[n].finds) : LookAt(n, k)
  \/ Reconcile

-----------------------------------------------------------------------------
DiscoveryInit ==
  /\ world \in Worlds /\ today = 0 /\ config \in Configs
  /\ file = NoFile /\ manager = Down /\ kept = NoFile
  /\ scanned = [files |-> [n \in 1..Len(Walk) |-> "absent"], day |-> 0]

(* NewManager and Rescan read both files and scan; when the registry       *)
(* cannot be read a new server ends and a running one keeps what it has.   *)
Rescan ==
  /\ manager.up => Complete
  /\ ~LoadFails
  /\ Scanning(LoadRegistry, LoadRegistry)
  /\ UNCHANGED <<world, today, config, file, kept>>

(* SaveRegistry: the entries go to a temporary file that is renamed over   *)
(* the old one.  The error of the write is assigned to a variable of the   *)
(* inner block and lost, so what was written of it is put in place.        *)
SaveRegistry(entries) ==
  /\ \/ file' = FileOf(NormalizedAll(entries))
     \/ WritesFail /\ file' = Cut
  /\ kept' = FileOf(NormalizedAll(entries))

(* Fault: the scanner is not told of the new approvals.                    *)
SaveForItself(entries) ==
  /\ SaveRegistry(entries)
  /\ Scanning(entries, manager.approved)
  /\ UNCHANGED <<world, today, config>>

(* Saving an approval, or deleting one, and scanning anew.                 *)
Save(entries) ==
  /\ SaveRegistry(entries)
  /\ Scanning(entries, entries)
  /\ UNCHANGED <<world, today, config>>

(* The first entry with the identifier is replaced.                        *)
WithEntry(entries, e) ==
  LET same == {i \in 1..Len(entries) : entries[i].id = e.id}
  IN  IF same = {} THEN Append(entries, e)
      ELSE [entries EXCEPT ![CHOOSE i \in same : \A j \in same : i <= j] = e]

SaveApproval(e) ==
  /\ Complete /\ ValidEntry(e)
  /\ Save(WithEntry(manager.registry, Normalized(e)))

(* Every entry with it is left out.                                        *)
WithoutId(entries, id) ==
  LET left[n \in 0..Len(entries)] ==
        IF n = 0 THEN <<>>
        ELSE IF entries[n].id = id THEN left[n - 1] ELSE Append(left[n - 1], entries[n])
  IN  left[Len(entries)]

DeleteApproval(id) ==
  /\ Complete /\ \E i \in 1..Len(manager.registry) : manager.registry[i].id = id
  /\ Save(WithoutId(manager.registry, id))

(* The server ends, perhaps in a scan; a save may have come to its rename. *)
Stop ==
  /\ manager.up
  /\ manager' = Down
  /\ \/ UNCHANGED <<file, kept>>
     \/ /\ Complete
        /\ \E e \in Entries :
             ValidEntry(e) /\ SaveRegistry(WithEntry(manager.registry, Normalized(e)))
  /\ UNCHANGED <<world, today, config, scanned>>

(* What goes on around the server.                                         *)
WorldChanges ==
  /\ world' \in Worlds
  /\ UNCHANGED <<today, config, file, manager, scanned, kept>>

DayPasses ==
  /\ today < MaxDay /\ today' = today + 1
  /\ UNCHANGED <<world, config, file, manager, scanned, kept>>

ConfigEdited ==
  /\ config' \in Configs
  /\ UNCHANGED <<world, today, file, manager, scanned, kept>>

DiscoveryNext ==
  \/ Rescan \/ ScanStep \/ Stop
  \/ \E e \in Entries : SaveApproval(e)
  \/ manager.up /\ \E i \in 1..Len(manager.registry) : DeleteApproval(manager.registry[i].id)
  \/ WorldChanges \/ DayPasses \/ ConfigEdited

DiscoverySpec == DiscoveryInit /\ [][DiscoveryNext]_discoveryVars

-----------------------------------------------------------------------------
DiscoveryTypeOK ==
  /\ world \in Worlds /\ today \in 0..MaxDay /\ config \in Configs
  /\ \A f \in {file, kept} : f.is \in {"absent", "cut", "registry"}
  /\ manager.up =>
       /\ \A i \in 1..Len(manager.registry) :
            manager.registry[i].id # NoId /\ manager.registry[i].state # ""
       /\ Cardinality(manager.report.agents) <= MaxFindings
       /\ manager.report.gaps <= MaxGaps

(* The report never calls an agent approved unless the registry the        *)
(* manager holds has an entry that covers it, active on the day of the     *)
(* scan, and names that entry: neither a refused save, a failed rescan nor *)
(* a deletion leaves an approval behind (manager.go:58-136).               *)
ReportFollowsRegistry ==
  Complete => \A a \in manager.report.agents :
    IF a.status = "approved"
    THEN \E i \in 1..Len(manager.registry) :
           LET e == manager.registry[i] IN
             /\ e.id = a.approval /\ e.state = "active" /\ e.expires >= scanned.day
             /\ e.type = a.type /\ e.fingerprint \in {Anywhere, a.project}
             /\ e.path \in a.evidence \cup {Anywhere}
    ELSE a.approval = NoId

(* A configured agent the walk came upon is reported, as shadow or         *)
(* approved, or the report says that it does not tell everything; the      *)
(* order of the walk, weaker evidence found first and what changes         *)
(* meanwhile do not hide it (scanner.go:36-154).                           *)
NothingHidden ==
  Complete =>
    \/ manager.report.gapCount > 0 \/ manager.report.truncated
    \/ \A n \in 1..Len(Walk) : \A k \in 1..Len(Walk[n].finds) :
         (/\ scanned.files[n] # "absent" /\ ~Walk[n].skipped /\ ~Walk[n].shelved
          /\ Walk[n].finds[k].basis = "configuration_file") =>
           \E a \in manager.report.agents :
             /\ a.project = Walk[n].project /\ a.type = Walk[n].finds[k].type
             /\ a.state = "configured" /\ a.status \in {"shadow", "approved"}

(* A manager has the registry that was last put in place, also after a     *)
(* restart and when it became empty: the approvals of the configuration    *)
(* never come back once a registry was saved (manager.go:81-84, 109-112,   *)
(* 118-131; registry.go:17-20).                                            *)
RegistryIsAsSaved ==
  manager.up /\ kept # NoFile => manager.registry = kept.entries

(* An approval that was saved is there for the next server to load.        *)
SavedCanBeLoaded == kept # NoFile => ~LoadFails

=============================================================================
