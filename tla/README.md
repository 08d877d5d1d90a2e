# Aegis Router in TLA+

Aegis Router decides whether an agent may execute an action, hands out a signed
single-use *execution permit* for it, and stands in front of the tool that
executes it: a gateway verifies the permit, consumes it, calls the upstream and
writes down what happened. This directory holds TLA+ models of that life cycle,
TLC configurations that check them on small instances, and TLAPS proofs of what
matters most for every size. Paths are relative to the repository's root.

    tlc -config MCGateway.cfg MCGateway       # a run: module and cfg are in PROJECT.json
    tlapm GatewayProofs.tla                   # the proofs of a module

## 1. Inventory

### Permit store and authority epochs: `internal/permit/store.go`, `authority.go`
*State*: `records` by permit id (claims, state, three time stamps) and
`authorities` by principal, agent and workload (epoch, enabled), one mutex.
*Operations*: Register, Get, List, Consume, Revoke, SetAuthorityEnabled,
CurrentAuthority. *Hard*: every method takes a `now` its caller read before it
got the mutex; expiry is lazy; a transition moves an epoch and every outstanding
permit at once; the epoch counter ends at `math.MaxUint64`. *Correct when*: a
permit ends once, for good; nothing outstanding is from an authority that has
changed; a spent permit was spent in time.

### Claims, issuer, token: `claims.go`, `issuer.go`, `token.go`
Pure validation, signing and decoding; `Issue` chooses the expiry and registers.

### Verifier and execution proofs: `internal/verifier`, `internal/executionproof`, `internal/executionconstraints`
*State*: the nonce store (nonce of a workload key -> expiry); each call's locals.
*Operations*: VerifyExecutionAndConsume, VerifySimulationAndConsume,
CheckExecution, NonceStore.Use. *Hard*: two clock readings and two critical
sections per call, with other calls in between; the nonce is spent before the
permit is tried. *Correct when*: of any number of calls one is told VERIFIED, and
exactly when it spent the permit; a proof is accepted once, and lost only with its permit.

### Router: `internal/router/router.go`
*State*: `permits`, the envelopes of the active permits (`r.mu`). *Operations*:
authorize, IngestRuntimeEvent, CompleteExecution and its gateway form,
VerifyAndConsume and its audit, RevokePermit, SetAuthorityEnabled. *Interacts*
with the permit store, the audit store, policy, semantic profiles and the
observer by calls; the three locks are taken one after the other, never nested.
*Hard*: everything between two of those sections. *Correct when*: the receipt
tells the truth about the permit and the execution.

### MCP proxy: `internal/adapters/mcp/proxy.go`
One goroutine per request: verify, audit, forward, observe, complete, answer.
*Hard*: concurrent presentations of one permit; audit failures before and after
the upstream was called; redirects, no answer, an answer after expiry. *Correct
when*: no upstream is called twice under a permit, or off the record.

### Audit store: `internal/audit/store.go`
*State*: the records in memory (at most a hundred), the JSONL file. *Operations*:
Append, Update, Get, Recent, load. *Hard*: a write that fails, tears a line or is
reported failed although it is there; a line longer than the reader takes; the
reload after an end at any point. *Correct when*: no request is ever shown in an
older state than one that was acknowledged, and no acknowledged record is lost
from a log that loads.

### Observer: `internal/observer/observer.go`
Compares a runtime event with the permit's envelope; WITHIN, REJECTED or a
boundary violation. Pure.

### Policy engine: `internal/policy/engine.go`, `internal/models`, `internal/config`
Pure: from a request and the policy to a status, a route, a grant with merged
constraints. The router asks it twice, with what the caller declared and with what
the semantic profile found. *Hard*: two request shapes with fallbacks from one to
the other; a limit of zero that means none; a grant with and without resources.
*Correct when*: what is executed is inside one grant of the connection's agent.

### Semantic profiles and canonical actions: `internal/semanticaction`, `internal/canonicalaction`
Pure: raw arguments to normalised arguments and facts, an action to its canonical
JSON and digest. *Hard*: two decoders that disagree on the capitals of a key, a
number that has many spellings. *Correct when*: what is dispatched is what was
digested, and two spellings of one value have one form.

### Trusted intake: `internal/intake`
Pure: the identity a trusted proxy states in its headers replaces the caller's.

### Detection and risk: `internal/detection`, `internal/risk`
*State*: for each session the last events, a risk that accumulates and a count of
protected reads, one mutex. *Operations*: Evaluate; advisory. *Hard*: three
bounds (events, ancestors, recent events) that cut a chain of causes. *Correct
when*: a flow between two requests is reported when the bounds reach it, and never
made up.

### Agent discovery: `internal/discovery`
*State*: the manager's registry and report, the registry file. *Operations*:
NewManager, Rescan, SaveApproval, DeleteApproval; the scan. *Hard*: saving,
taking over and scanning are three steps that fail separately; files change while
the scan walks through them; limits on findings and gaps; the configuration's
approvals stand in for a missing file. *Correct
when*: the report follows the registry, the registry is the one last saved.

### Session audit recorder: `internal/sessionaudit`, `cmd/observe`
*State*: per observer its sequence, buffer and counts, the child and the pipe;
the journal is shared by the sessions of a directory. *Hard*: a write that fails
in the middle, two observers appending to one file, a child that fills the pipe
nobody reads. *Correct when*: what was recorded can be read, and the observer
comes to its end.

### The rest
The HTTP API, the demonstration and the web UI (`internal/httpapi`, `demo`,
`web`), start-up (`cmd`, `internal/config`, `keyprovider`, `scenario`), and the
measurement harness under `experiments`.

The hazards, each at its line and with the properties aimed at it, are in
`PROJECT.json`.

## 2. Modules

| module | models | extends |
|---|---|---|
| `PermitLifecycle` | what the store promises: grant once, spend once, never come back | - |
| `PermitStore` | `permit.MemoryStore` | - |
| `PermitStoreProofs` | theorems | PermitStore |
| `Verifier` | `verifier.Verifier`, `executionproof.NonceStore` | PermitStore |
| `VerifierProofs` | theorems | Verifier, PermitStoreProofs |
| `Gateway` | `router.Router`, the MCP proxy, the audit store as they see it | PermitStore |
| `GatewayProofs` | theorems | Gateway, PermitStoreProofs |
| `ReceiptProofs` | theorems about the receipts | GatewayProofs |
| `JournalFile` | a file of JSON lines under failing writes | - |
| `AuditView` | what the audit store promises its readers | - |
| `AuditStore` | `audit.Store` | JournalFile |
| `SessionObserver` | `sessionaudit.Recorder` and `cmd/observe` | JournalFile |
| `JournalProofs` | theorems about both journals | AuditStore, SessionObserver |
| `Discovery` | `discovery.Manager`, the registry file and the scanner | - |
| `Detection` | `risk.Scorer`, `detection.Engine` | - |
| `AdvisoryProofs` | theorems about these two | Detection, Discovery, ProofLemmas |
| `CanonicalAction` | canonical JSON, numbers, action digests | - |
| `Numbers` | what two numbers have to do with each other | CanonicalAction |
| `SemanticAction` | both profiles and their registry | CanonicalAction |
| `Policy` | `policy.Engine`, the effective request, the observer's comparison | - |
| `Decisions` | intake, router and proxy over these, one permit at a time | Policy, SemanticAction |
| `DecisionProofs` | theorems | Decisions, Numbers, ProofLemmas |
| `ProofLemmas` | positions, induction and recursion over finite ranges | - |
| `MC...` | the instances TLC checks | |

**PermitStore.** One action per exported method, since each holds the mutex
throughout. `Readings == 0..clock` is the set of times a method may be given: the
caller reads its clock, then waits for the mutex. `ExpireIfNeeded` is
`expireIfNeeded`; `Consumed`, `Revoked` give the record an operation leaves. A
version 1 permit has epoch 0 (`IsBound`). Issue times are not kept: a monotone
clock never reads earlier than one, so NOT_YET_VALID does not arise. A call that
fails without writing is no step. `SetAuthorityEnabled` revokes without looking
at the expiry first, as the code does.

**Verifier.** An attempt is one call: `Begin` reads the clock (`inspectedAt`),
`Inspect` is `store.Get`, `UseNonce` is `NonceStore.Use`, `Reread` is the second
reading at the consume boundary, `ConsumeInspected` is `store.Consume`. Whether a
signature, a digest or a binding fits is chosen where the code compares it.
`CheckExecution` goes through the same inspection and ends in `PassCheck`.

**Gateway.** `active` is `Router.permits`, `receipts` the latest audit record of
each request, `grants` how far the authorization of each permit has come and
`calls` the local state of every other goroutine. A step is one critical section
of one of the three locks. An authorization captures the epoch (`Authorize`),
registers (`Issue`), enters the envelope (`Activate`) and writes its record
(`Release`); if that fails it revokes (`RevokeUnaudited`) and drops
(`DropUnaudited`). A gated call is `Verify`, `RecordVerification`, `Forward`,
`Answer`, then `IngestRuntimeEvent` and `CompleteExecution` as "gateway"; a
reporter enters the last two by itself. Revocations and authority changes walk
`RevokePermit` / `ChangeAuthority`, `ListRevoked`, `Withdraw`,
`AuditRevocation`. `Evict` is the loss of a record beyond the hundredth. One call
to the verifier is one step here, the section that settles its answer: the steps
before it leave nothing behind but a lazy expiry, which `Get` is free to do
anyway, and a nonce, which no gateway property mentions
(`AnswersSettleInOneSection`). A refusal that is found after the inspection is placed at
the inspection; in between the call touches nothing of another but that nonce. A request is labelled with
the permit it will have (`RequestOf`), which loses nothing because identifiers
are interchangeable before they are used.

**JournalFile.** A file is its lines and whether the last one is unfinished. A
write ends in one of four ways (`Writes`): in full, without its newline, cut
somewhere, or before its first byte. What is written after an unfinished line joins
it, and the joined line is `Torn`.

**AuditStore.** A record is its request and the number of its write, which is all
that tells two records apart. `AppendRecord` and `Update` are `Append` and
`Update` with the trimming to `Limit` and the persistence, which may report an error
although the line is there; `Stop` is the end of
the server at any point, a write under way included; `Start`, `LoadLine` and
`Loaded` are `Open` and `load`, which merges by request and has no limit.
`AuditView` is the promise: a request is shown in a state no older than the last
one acknowledged, or not at all.

**SessionObserver.** One observer and one child per session; a step of the
observer ends where it waits or where a write may fail. `Recording` is `Record`:
the sequence number is taken first, and a writer that failed once keeps failing,
as `bufio.Writer` does. `Stream` is the loop over the child's lines, `EndOfStream`
and `Wait` what follows it; `ChildDies` lets a child end early.

**Discovery.** The manager's methods run under its lock: none begins before the
scan of the one before has ended (`Complete`). The scan itself takes a step for
each file of the walk (`VisitFile`), each signature held against it (`LookAt`) and
the approvals at its end (`Reconcile`), and between two steps the files, the day
and the configuration change or the server ends. `VisitFind`, `AddEvidence` and
`AddCoverageGap` are the calls a step makes; `scanned` remembers in which condition
each file was met. `Reconcile` is one step on one day: the code does no I/O there,
and reads the clock for every approval. `SaveRegistry` may put an unfinished file
in place when `WritesFail`, because the code loses that error.

**Detection.** A session is the events it remembers with their order and the two
counters; `Evaluate` is one action, from the score to the recommended route.

**CanonicalAction, SemanticAction.** A JSON number is its sign, digits, point and
exponent, so `normalizeJSONNumber` is modelled by what it does. `ValueOf` is not
code: it is the integer a literal means in units of the smallest exponent, the
reference the normalisation is compared with; `Numbers` steps from one literal to
another so that the comparison is an invariant. A key is a name
and whether it has the profile's own capitals: the canonicalizer compares both,
`encoding/json` the name only. A digest is the canonical form itself, that is,
SHA-256 is taken to be injective. `Prepare` is `Registry.Prepare`.

**Policy.** `EvaluatePolicy` is `Engine.Evaluate`, `Effective` the fields a request has
in either shape, `mergeConstraints`, `legacyGrant` and `policyObligations` as in the code.
`LoadPolicy` is what `config.Load` refuses a policy for. `Accepted` and
`WithinEnvelope` are the observer's two verdicts.

**Decisions.** One authorization is one step (`AuthorizeTrustedAction`,
`AuthorizeSyntheticDemoAction`): intake, validation, the policy, the profile, the
policy again, the permit's lifetime and limits. `CallTool` is a gated call:
routing metadata, parameters, preparation, the comparison of digests, the
constraints, and the body that is sent; `CallProtocol` the methods that need no
permit. `Tick` moves the clock and takes away an expired permit. `Gateway` leaves
these answers open, and has everything that happens between them.

## 3. Runs

| run | instance | shows |
|---|---|---|
| `store` | 2 permits, 2 authorities, 3 epochs, 3 moments | one end per permit, nothing outlives its authority, the store implements `PermitLifecycle` |
| `verifier` | 2 calls, 1 permit, 2 epochs, 3 moments, 1 nonce | one VERIFIED at most, exactly when the permit is spent; no nonce is lost on a permit that could still be used |
| `nonces` | 3 calls, 2 nonces, 4 moments, skew 2, stall 1 | a proof is accepted once |
| `nonces_stalled` | the same, stall 2 | ... but not when a call stalls for the skew |
| `gateway` | 1 permit, 3 calls of any kind, 3 epochs, 2 moments | receipts, forwards and withdrawals of one permit |
| `gateway_two` | 2 permits, 2 calls, 2 epochs, 2 moments | a transition that walks two permits of one authority writes no false end |
| `gateway_settled` | 1 permit, 2 calls, fair | a forwarded call's permit leaves the active ones |
| `gateway_evidence` | 1 permit, 1 call, no failing write | the attempt is missing from the receipt after an expiry |
| `journals` | 2 requests, 2 records, 4 writes; 2 observers, 3 lines of a child, a pipe of 1 | nothing acknowledged is shown old or lost; journals tell what was recorded; observers end |
| `discovery` | 5 files, 2 types, 4 approvals, 2 configurations, 7 worlds, 2 findings, 1 gap, 2 days, a walk in steps | the report follows the registry, nothing configured is hidden |
| `discovery_cut` | the same, 1 day, failing writes | a registry that was saved cannot be loaded |
| `decisions` | 2 policies, some 20 proposals and calls, 6 peers; 4 requests of a session; every number of 1-2 digits and up to 2 decimals | what is sent was granted and signed; faithful events are accepted; flows are reported; one number has one form |

*Bounds.* `MaxEpoch` stands for `math.MaxUint64`: three epochs let a permit meet
two transitions and the exhausted counter. `MaxTime` is the clock's horizon:
`Claims.expiresAt` ranges over 1..MaxTime, so permits that expire before, at and
(readings being stale) after a step all occur. Two calls are enough for a race,
the third is the one that purges a nonce or rotates the authority between the
other two. Two permits and two authorities are what it takes for a transition to
confuse them. The `gateway` properties also hold with three moments (2.9 million
states), a run left out for its length. Permits, calls and nonces are
interchangeable (SYMMETRY), except in the liveness run. The `nonces` runs take
only the verifier's steps that touch a nonce (`ReplaySpec`).

In `journals` a limit of two records is reached by two requests, so that a
third record evicts and a reload brings back what was evicted; four writes are
enough for a torn line, one that joins it, a restart and one after. The store and
the observers share nothing, so each is explored by itself (`running`): 311,993
states. Three lines and a pipe of one let the child block; the second
observer's child is silent, because what two observers share is the journal.
`discovery` puts the agent with weak evidence first in the walk and one that
meets the limit last, and lets every file change before any step of the walk;
396,102 states. `decisions` gives each field of a request a value
that fits, one that does not and one that is missing, one at a time; its detection
part bounds events, ancestors and recent events by 2, 2 and 1, so that a session of
four requests passes each of them; `SameNumberSameForm` compares each number of the
domain with all the others; the three parts share nothing and are explored each by
itself; 157,457 states.

*Deadlock* is checked in `store`, `verifier` and `discovery`, where sweeps or
rescans are always possible. Everywhere else it is off because the instance really stops: every call is made
once and the clock has a horizon.

*Fairness.* `FairGatewaySpec` asks that a call that has begun goes on: no handler
holds a lock over a call it waits for, `sync.Mutex` does not starve a waiter, and
the HTTP client gives up on an upstream after its timeout (`proxy.go:85`). Nothing
is asked of new calls, of authorizations or of the clock. `SessionFairness` asks
that an observer runs on, and that a child that is not kept waiting writes its
lines and ends: one process each, under the operating system's scheduler. A child
that waits for a full pipe is asked nothing, which is why the property has to
name that case (`Jammed`).

## 4. Findings

* `nonces_stalled`. `registry.go:52` says `NonceStore` rejects a second use of a
  nonce. It purges by the caller's reading, which may be as old as the caller is
  slow: a call that stalls between its reading and `Use` for as long as the skew
  finds its nonce purged by another call. The permit is still spent once. The
  theorem `ProofsAcceptedOnce` shows the bound is sharp: below the skew the claim
  holds.
* `gateway_evidence`. `README.md:273` says a receipt states whether the upstream
  was attempted. When the permit expires while the answer is on its way,
  `completeExecution` takes the expired branch (`router.go:695`), which writes
  neither `UpstreamAttempted` nor the outcome, or, after a successful answer, the
  event has already removed the permit and the completion is refused.
* `discovery_cut`. `SaveRegistry` assigns the error of the write to a variable of
  the inner block (`registry.go:53`); the branch at `registry.go:58` that reports
  a failed write can only see one from closing the file. The unfinished file is renamed over the
  registry, the caller is told it was saved, and the next `LoadRegistry` fails,
  where `manager_test.go:42` loads what was saved.

## 5. Proofs

What is assumed of the constants is named where they are declared:
`PermitStoreAssumption`, `VerifierAssumption`, `GatewayAssumption`,
`AuditAssumption`, `SessionAssumption`, `DecisionsAssumption`,
`CanonicalAssumption`, `RegistryAssumption` (what the profiles' constructors
require), `InputAssumption` (each policy is one `config.Load` accepts, each
request has the types of its Go fields, each number the digits of a JSON literal),
`LiteralsAssumption` (the same of the numbers that are compared),
`DetectionAssumption` (the recent events are among the remembered ones, 12 of 128
in `engine.go`), `RequestsAssumption` (an accepted request has an identifier),
`DiscoveryAssumption` and `WalkAssumption` (entries have the fields of a
`RegistryEntry`, lists are lists), besides what a theorem states as its own
hypothesis (`MaxStall < ClockSkew`, `OwnRequests`). The sets are arbitrary, the
numbers any naturals. TLC evaluates every one of these on the instances.

*Store.* `StoreInv` is the conjunction of the types, the validity of claims and
the three state invariants. `IssuedUnderPresentAuthority` is not inductive alone:
a transition could bring back an old epoch were it not for
`NoClaimFromAFutureEpoch`. The argument is one lemma per operation: each leaves a
record as it was or ends an ISSUED one (`EndsOrStays`). The action properties
and the refinement of `PermitLifecycle` follow from the same lemmas: Register is
a grant, a consumption that succeeds spends, everything else withdraws.

*Verifier.* Each verifier step is a step of the store or leaves it alone
(`VerifierUsesTheStore`), so the store's theorems carry over.
`AnswersSettleInOneSection` is an action property: the step that answers a call is an
inspection that finds the permit ended, the consumption, or a refusal that leaves
the store alone, and every other step of a call leaves a lazy expiry at most. `CallInv` says what a call knows at each point: its
readings are past, and from the store's answer on its permit has a record of the
right class. `ProofsAcceptedOnce` has an invariant of its own, `NonceInv`: the
entry of an accepted proof is there until a reading reaches its expiry, and no
call that judged the proof fresh with an older reading is left in front of the
nonce store, by `MaxStall < ClockSkew`. `NoncesAreNotLost` says what the order of nonce
and consumption costs: from the nonce on the call can only be refused by the store,
which refuses a permit that has ended (`ConsumeEnds`) and leaves it so (`SpenderStays`).

*Gateway.* Every gateway step is a step of the store or leaves it alone, so a
behaviour of the gateway is one of the store (`GatewayUsesTheStore`) and
`StoreInv` holds of it. `GatewayInv` adds three things. `GrantKnows`: how far an
authorization has come fixes what the store holds of its permit and whether its
envelope may be active; without it nothing rules out that a permit is revoked as
unaudited and yet spent. `CallKnows`: what each goroutine still knows at each of
its points of what it read in an earlier section; it is stable because an ended
permit never changes (`Onward`). `OneHolder`: a call *holds* a permit once it was
told VERIFIED, was cleared, or called the upstream; a new holder found the permit
ISSUED, an older one would have left it CONSUMED, so there is one at most and
`OneForwardPerPermit` follows. `HoldersTold` carries the outcome on the receipt
from `RecordVerification` past every later write. None of this needs requests to
be distinct.

*Receipts.* `ReceiptInv` is for the case that no two permits share a request
(`OwnRequests`, a hypothesis of these theorems). `ReceiptKnows` says whose a
receipt is. `CompletionKnows` is what makes an execution told once: a completion
takes its permit from the active ones, so there is one at most, its receipt has
told nothing yet, and a permit never becomes active again. `FinalStatesAreTrue`
uses that a call's copy of a final state cannot be out of date, since no ended
permit moves; `ReceiptsNeverOverstate` that a call's status, once set, is kept.

*Audit store.* `AuditInv` adds to the two state properties that the lines' numbers
increase along the log (`LogKnows`), that no record and no acknowledgement is from
a write that has not been (`RecordsKnow`, `AcksKnow`), and, while a server loads,
that every line read is readable and no newer than what memory has of its request
(`LoadKnows`); at the last line `NothingLostSilently` turns this into
`ShownIsCurrent`. Where the code takes the last record of a
request, a well-founded argument gives the proof a last position
(`LastExists`). `KeepsItsPromise` maps a successful write to `Promise`, a failed
one to a stutter, an end to `LoseAll`, and the last step of the load to `Restore`.

*Session.* `SessionInv`: what an observer knows of its child at each of its points
(`ChildKnows`), that an event of the child's life in the journal had its witness
(`WitnessKnows`), that each session's numbers increase along the file although
another observer writes in between (`OrderKnows`), that what was told is a line
of a journal without a torn one (`ToldKnows`), and that the numbers told have no gap (`CountsKnow`): a writer
that failed once tells nothing more.

*Decisions.* `DecisionInv` says of the permit that is out that it has the limits
of its grant (`Limits`), ends within its time (`Lasting`), and, when it is for an
execution, is for a prepared action within the grant (`Bound`). The heart is
`DigestCommits`: prepared actions with one canonical form have equal fields and
equal facts. It rests on one lemma per profile (`SameFormSamePayment`,
`SameFormSameWrite`) and on a whole amount above zero being written in one way
only (`SameFormSameInteger`), so that the arguments are the same and the facts computed from what the
client sends at execution are those the policy saw at authorization. A grant that
leaves no obligations behind cannot be one by name only (`NotByNameOnly`), which
is why scopes and operations were compared. `ForwardedWasGranted` and
`FaithfulEventsStayInside` follow for every policy, request and call of the
assumed types.


`DispatchedIsSigned` needs that besides: prepared arguments with the permit's
digest are the prepared arguments of the authorization, and an upstream reads of
these, field by field, what a decoder finds in the ones that were asked for
(`ReadAsAsked`): the last member of a name, in any capitals.

*Numbers.* `ValueOf` reads digits from the left, ten times what was read plus the
next. Two literals are brought to the same number of digits by zeros on the right
(`AlignedHaveOneForm`, `OneFormIsAligned`), zeros add nothing but powers of ten
(`NothingIsReadOfZeros`), and digits of one length read the same only if they are
the same (`SameDigitsAreRead`). The normalised form is the one without zeros at
either end (`FormOfShown`), so equal values have equal forms and the reverse
(`OneFormOneValue`), for literals of any length.

*Detection.* `SessionKnows` says what the engine has of a session: the identifiers
in order are those of the last requests, and an event is the summary of the last
request under its identifier. The chain `causalAncestors` follows is a path of
parents (`NextChainIsPath`); step for step it covers the causes the history names
(`CausesAreFollowed`), so that with distinct identifiers nothing within the bounds is missed. What is
found among the candidates is always an earlier request, which is why no flow is
made up. `PrivacyReadBudget` counts every read, forgotten ones too (`ReadsOfAppend`).

*Discovery.* The invariant holds in the middle of a scan. `WalkOK`: until the
end nothing is approved (`Unreconciled`), and every signature already passed that
makes a configured agent of its file is among the agents as such, or the report
already tells of a gap or of a dropped agent (`AccountsFor`); neither is ever
taken back (`Grows`), which is all that is needed when files change meanwhile.
`ManagerOK`: the scanner has the approvals the manager has, and they are those
last put in place (`kept`); a registry that is cut keeps the next server from
coming up, so `RegistryIsAsSaved` survives the finding above, and without a failing
write no registry is ever cut (`SavedIsLoadedUnlessWritesFail`). `DeletionIsComplete` is an
action property: a step that deletes an approval leaves no entry with its identifier.

*Induction.* The library's induction theorems take an operator, which no installed
prover instantiates. `ProofLemmas` states them over sets: a set that has 0 and with each
number below a limit the next has them all (`InductionUpTo`), and a recursive
function over `0..n` exists and has its type (`FiniteRecursion`). The recursion in
`ValueOf`, `CausesOf`, `causalAncestors` and `WithoutId` is a recursive function
for this reason.

*Only model-checked*: liveness (`ForwardedIsSettled`, `ObserversEndUnlessJammed`),
which needs ENABLED; and the counterexamples (the evidence an expiry removes, the
stalled nonce, the registry that is cut). Every invariant and every action property that a passing run
checks is also proved.

## 6. Not modelled

* `internal/httpapi`, `demo` and `web`: handlers that decode, call one of the
  modelled operations and encode its answer.
* `cmd/server`, `cmd/discover`, `keyprovider`, `scenario`: sequential start-up and
  file reading. `experiments`: a measurement harness.
* Signatures, digests as bits, the bytes of JSON, formatting, finding texts. Values nested
  in the arguments of a call: both profiles refuse them.
* The static and loopback identity providers, CIDR parsing; the router's legacy
  dispatch projection and coverage labels; the record written for a token that is
  not genuine.
* In `Gateway`: the simulation permits' consumer (it is in `Verifier`); an
  obligation that nobody enforces (always refused before the permit is spent); what
  receipts tell when two authorizations share a request id, which the code allows:
  its runs and `ReceiptProofs` take a request of its own for each permit.
  `AuditStore` makes no such assumption.
* In `Decisions`: the time that passes inside one authorization
  (`router.go:1118`), read once there. Validated labels carry no white space, so
  trimming them (`engine.go:104`) is left out; capitals count
  but where the code folds them (`LowerCase`, `SecretLabels`). An amount that an int64 does not hold is refused by
  the decoder and would be by the profile's limits: one refusal.
* A restart of the router: permits and epochs are in memory, so it is a new
  behaviour of `PermitStore`; the audit log, which survives, has its restarts.

## 7. What is left

1. **Composition**: that `Verifier` implements `Gateway`'s `Verify` (the mapping
   has to foresee a refusal at the inspection; the sections it rests on are proved),
   and `AuditStore` the receipts `Gateway` keeps (argued above, not proved).
2. **Reused request ids** in `Gateway`: `FinalStatesAreTrue` fails by design then;
   the property worth stating is what the latest record may still claim.
3. **HTTP API**: the management endpoints' order of checks, if they come to keep
   state of their own.
