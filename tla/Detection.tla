------------------------------ MODULE Detection -------------------------------
(***************************************************************************)
(* The advisory signals of a request: the score of risk.Scorer and the     *)
(* findings of detection.Engine, which remembers the requests of a session *)
(* (src/internal/risk/scorer.go, src/internal/detection/engine.go) and     *)
(* tells whether one that leaves the boundary follows a protected read, or *)
(* one with a side effect an instruction found in retrieved content.       *)
(*                                                                         *)
(* A request is reduced to what the two ask of it.  Summaries, evidence    *)
(* and severities are left out.  Evaluate runs under one lock, so it is    *)
(* one step.                                                               *)
(***************************************************************************)
EXTENDS Integers, Sequences, FiniteSets, SequencesExt, FiniteSetsExt

CONSTANTS
  RequestIds,        \* identifiers of requests, chosen by the clients
  Sessions,          \* identifiers of sessions
  SomeRequests,      \* the requests that may be made
  PrivacyReadBudget, CumulativeRiskLimit,
  MaxEvents,         \* requests a session remembers: 128
  MaxAncestors,      \* causes that are followed: 16
  RecentEvents,      \* requests looked at when no cause is named: 12
  MaxEvaluations     \* bound: requests made in one behaviour

ASSUME DetectionAssumption ==
  /\ PrivacyReadBudget \in Nat /\ CumulativeRiskLimit \in Nat
  /\ MaxEvents \in Nat \ {0} /\ MaxAncestors \in Nat \ {0}
  /\ RecentEvents \in 0..MaxEvents /\ MaxEvaluations \in Nat

NoName == ""

(* The router gives a request an identifier when it comes without one; it  *)
(* may come without a session and without a cause.                         *)
ASSUME RequestsAssumption ==
  /\ NoName \notin RequestIds
  /\ \A r \in SomeRequests :
       /\ r.id \in RequestIds /\ r.parent \in RequestIds \cup {NoName}
       /\ r.session \in Sessions \cup {NoName}
       /\ {r.protected, r.reads, r.poisoned} \subseteq BOOLEAN

VARIABLES
  sessions,   \* what the engine remembers of each session
  asked,      \* history: the requests of each session
  advice      \* the advisory signals of the last request

detectionVars == <<sessions, asked, advice>>

-----------------------------------------------------------------------------
(* Scorer.Assess.                                                          *)
SensitivityPoints ==
  [low |-> 0, medium |-> 20, high |-> 35, critical |-> 50, unclassified |-> 50]

Points(holds, n) == IF holds THEN n ELSE 0

Assess(r) ==
  LET score == SensitivityPoints[r.sensitivity]
                 + Points(r.lacksScope /\ r.sensitivity # "unclassified", 35)
                 + Points(r.sensitive, 20) + Points(r.prohibited, 60)
                 + Points(r.external, 25) + Points(r.changes, 15)
                 + Points(r.protected, 10)
  IN  IF score > 100 THEN 100 ELSE score

riskLevel(score) == IF score >= 70 THEN "high" ELSE IF score >= 35 THEN "medium" ELSE "low"

-----------------------------------------------------------------------------
(* What the engine reads off a request.  A protected read is an open or a  *)
(* read of protected data; only a source that is not untrusted vouches for *)
(* protected data it brings along.                                         *)
isSensitiveRead(r) == r.protected /\ r.reads
Egress(r) == r.external \/ r.egressCapability
SideEffect(r) == Egress(r) \/ r.effectCapability \/ r.changes
hasPoisonedInput(r) == r.poisoned
protectedInputSource(r) == r.vouched

routeRank == [none |-> 0, allow |-> 1, restrict |-> 2, sandbox |-> 3, escalate |-> 4, deny |-> 5]

stronger(current, candidate) ==
  IF routeRank[candidate] > routeRank[current] THEN candidate ELSE current

(* causalAncestors: from cause to cause as long as the session remembers   *)
(* them, none twice.                                                       *)
causalAncestors(state, parentID) ==
  LET chain[k \in 0..MaxAncestors] ==
        IF k = 0 THEN <<>>
        ELSE LET found == chain[k - 1]
                 next == IF found = <<>> THEN parentID ELSE state.events[Last(found)].parent
             IN  IF next = NoName \/ next \in Range(found)
                 THEN found ELSE Append(found, next)
  IN  chain[MaxAncestors]

recent(order) == SubSeq(order, Max({1, Len(order) - RecentEvents + 1}), Len(order))

(* The remembered events the request is held against.                      *)
Candidates(state, r) ==
  LET ancestors == causalAncestors(state, r.parent)
      ids == IF ancestors = <<>> THEN recent(state.order) ELSE ancestors
  IN  {state.events[id] : id \in {i \in Range(ids) : i # r.id /\ state.events[i].known}}

(* The findings of a request: with the route each recommends and its share *)
(* of the risk.                                                            *)
Found(state, r) ==
  LET priors == Candidates(state, r)
      reads == state.protectedReads + Points(isSensitiveRead(r), 1)
      finding(rule, route, delta) == [rule |-> rule, route |-> route, delta |-> delta]
  IN  UNION
      { IF isSensitiveRead(r) THEN {finding("protected_read_requested", "none", 10)} ELSE {},
        IF ~hasPoisonedInput(r) THEN {}
          ELSE {IF SideEffect(r) THEN finding("indirect_prompt_injection", "deny", 60)
                ELSE finding("indirect_prompt_injection", "sandbox", 35)},
        IF r.drift THEN {finding("schema_hash_mismatch", "deny", 50)} ELSE {},
        IF Egress(r) /\ (protectedInputSource(r) \/ \E p \in priors : p.sensitiveRead)
          THEN {finding("protected_read_then_egress", "deny", 50)} ELSE {},
        IF SideEffect(r) /\ \E p \in priors : p.poisonedInput
          THEN {finding("poisoned_input_then_side_effect", "deny", 45)} ELSE {},
        IF reads > PrivacyReadBudget
          THEN {finding("privacy_read_request_budget", "escalate", 30)} ELSE {} }

(* Fault: the oldest events are kept.                                      *)
RememberTheOldest(state, r, event) ==
  IF Len(state.order) >= MaxEvents THEN state
  ELSE [state EXCEPT !.events[r.id] = event, !.order = Append(@, r.id)]

NoEvent == [known |-> FALSE, parent |-> NoName, sensitiveRead |-> FALSE, poisonedInput |-> FALSE]

(* Beyond its bound a session forgets the identifier it remembered first,  *)
(* also when the identifier was used again since.                          *)
Remember(state, r, event) ==
  LET events == [state.events EXCEPT ![r.id] = event]
      order == Append(state.order, r.id)
  IN  IF Len(order) > MaxEvents
      THEN [state EXCEPT !.events = [events EXCEPT ![Head(order)] = NoEvent],
                         !.order = Tail(order)]
      ELSE [state EXCEPT !.events = events, !.order = order]

SessionOf(r) == IF r.session = NoName THEN r.id ELSE r.session

(* Engine.Evaluate, between evaluateAdvisorySignals' assessment and        *)
(* mergeAdvisoryRisk.                                                      *)
Evaluate(r) ==
  LET state == sessions[SessionOf(r)]
      base == Assess(r)
      found == Found(state, r)
      delta == MapThenSumSet(LAMBDA f : f.delta, found)
      route == FoldSet(LAMBDA f, acc : stronger(acc, f.route), "none", found)
      risk == Min({100, state.cumulativeRisk + Max({1, base \div 4 + delta})})
      limited == risk >= CumulativeRiskLimit /\ route # "deny"
      score == IF delta > 0 THEN Min({100, base + delta}) ELSE base
      event == [known |-> TRUE, parent |-> r.parent, sensitiveRead |-> isSensitiveRead(r),
                 poisonedInput |-> hasPoisonedInput(r)]
  IN  /\ sessions' = [sessions EXCEPT ![SessionOf(r)] =
           Remember([state EXCEPT !.protectedReads = @ + Points(isSensitiveRead(r), 1),
                                  !.cumulativeRisk = risk], r, event)]
      /\ advice' = [session |-> SessionOf(r), score |-> score, level |-> riskLevel(score),
                    rules |-> {f.rule : f \in found} \cup
                                (IF limited THEN {"cumulative_risk_limit"} ELSE {}),
                    route |-> IF limited THEN stronger(route, "escalate") ELSE route]
      /\ asked' = [asked EXCEPT ![SessionOf(r)] = Append(@, r)]

NewSession ==
  [events |-> [id \in RequestIds |-> NoEvent], order |-> <<>>,
   cumulativeRisk |-> 0, protectedReads |-> 0]

NoAdvice == [session |-> NoName, score |-> 0, level |-> "low", rules |-> {}, route |-> "none"]

DetectionInit ==
  /\ sessions = [s \in Sessions \cup RequestIds |-> NewSession]
  /\ asked = [s \in Sessions \cup RequestIds |-> <<>>]
  /\ advice = NoAdvice

Evaluations == MapThenSumSet(LAMBDA s : Len(asked[s]), DOMAIN asked)

DetectionNext ==
  Evaluations < MaxEvaluations /\ \E r \in SomeRequests : Evaluate(r)

DetectionSpec == DetectionInit /\ [][DetectionNext]_detectionVars

-----------------------------------------------------------------------------
(* The causes of a request as the history of its session has them, among   *)
(* the last requests that may still be remembered.                         *)
Remembered(history) ==
  {history[i] : i \in {j \in 1..Len(history) : j + MaxEvents > Len(history)}}

CausesOf(history, r) ==
  LET named[k \in 0..(MaxAncestors - 1)] ==
        IF k = 0 THEN {r.parent}
        ELSE named[k - 1] \cup {p.parent : p \in {q \in Remembered(history) : q.id \in named[k - 1]}}
  IN  IF r.parent = NoName
      THEN {history[i] : i \in {j \in 1..Len(history) : j + RecentEvents > Len(history)}}
      ELSE {p \in Remembered(history) : p.id \in named[MaxAncestors - 1]}

Distinct(history) ==
  \A i, j \in 1..Len(history) : i # j => history[i].id # history[j].id

(* A finding that relates two requests is never made up: an earlier        *)
(* request of the same session, or the request itself, is the protected    *)
(* read or the poisoned one.  And none is missed among the causes the      *)
(* bounds reach, as long as the session's clients do not use an identifier *)
(* twice (engine.go:57-198).                                               *)
FlowsAreReported ==
  advice.session # NoName =>
    LET all == asked[advice.session]
        r == Last(all)
        history == Front(all)
        before == Range(history)
        reported(rule) == rule \in advice.rules
        ask == CausesOf(history, r)
        read == protectedInputSource(r) \/ \E p \in ask : isSensitiveRead(p)
    IN  /\ reported("protected_read_then_egress") =>
             Egress(r) /\ (protectedInputSource(r) \/ \E p \in before : isSensitiveRead(p))
        /\ reported("poisoned_input_then_side_effect") =>
             SideEffect(r) /\ \E p \in before : hasPoisonedInput(p)
        /\ Distinct(all) =>
             /\ Egress(r) /\ read => reported("protected_read_then_egress")
             /\ SideEffect(r) /\ (\E p \in ask : hasPoisonedInput(p)) =>
                  reported("poisoned_input_then_side_effect")
        /\ reported("privacy_read_request_budget") <=>
             Quantify(DOMAIN all, LAMBDA i : isSensitiveRead(all[i])) > PrivacyReadBudget

=============================================================================
