---------------------------- MODULE AdvisoryProofs ----------------------------
(***************************************************************************)
(* Theorems about the two parts that advise and decide nothing.            *)
(*                                                                         *)
(* Advisory detection: the invariant relates what the engine remembers of  *)
(* a session to the requests it was asked about; the path of causes it     *)
(* follows covers, step by step, the causes the history names.             *)
(*                                                                         *)
(* The inventory of agents: the invariant says what holds in the middle of *)
(* a scan: every signature the walk has passed is accounted for, and the   *)
(* approvals the scanner was given are those the manager has, which are    *)
(* those last put in place.                                                *)
(***************************************************************************)
EXTENDS Detection, Discovery, ProofLemmas

-----------------------------------------------------------------------------
(* Detection.                                                              *)
SessionNames == Sessions \cup RequestIds
Names == RequestIds \cup {NoName}

Summaries ==
  [known : BOOLEAN, parent : Names, sensitiveRead : BOOLEAN, poisonedInput : BOOLEAN]

(* What Evaluate remembers of a request.                                   *)
Summary(r) ==
  [known |-> TRUE, parent |-> r.parent, sensitiveRead |-> isSensitiveRead(r),
   poisonedInput |-> hasPoisonedInput(r)]

StateTypes(state) ==
  /\ state = [events |-> state.events, order |-> state.order,
              cumulativeRisk |-> state.cumulativeRisk, protectedReads |-> state.protectedReads]
  /\ state.events \in [RequestIds -> Summaries] /\ state.order \in Seq(RequestIds)

ReadsOf(history) == {i \in DOMAIN history : isSensitiveRead(history[i])}

(* The order has the identifiers of the last requests.                     *)
OrderKnows(state, history) ==
  /\ Len(state.order) = IF Len(history) <= MaxEvents THEN Len(history) ELSE MaxEvents
  /\ \A i \in 1..Len(state.order) :
       state.order[i] = history[Len(history) - Len(state.order) + i].id

(* What is remembered was asked, under its identifier.                     *)
EventsKnow(state, history) ==
  \A id \in RequestIds : state.events[id].known =>
    \E i \in 1..Len(history) : history[i].id = id /\ state.events[id] = Summary(history[i])

(* And of the last requests nothing is forgotten.                          *)
NothingForgotten(state, history) ==
  Distinct(history) => \A i \in 1..Len(history) :
    i + MaxEvents > Len(history) => state.events[history[i].id] = Summary(history[i])

SessionKnows(state, history) ==
  /\ StateTypes(state)
  /\ history \in Seq(SomeRequests)
  /\ OrderKnows(state, history) /\ EventsKnow(state, history)
  /\ NothingForgotten(state, history)
  /\ IsFiniteSet(ReadsOf(history)) /\ state.protectedReads = Cardinality(ReadsOf(history))

(* FlowsAreReported of the advice about the last of all requests.          *)
FlowsOf(rules, all) ==
  LET r == Last(all)
      history == Front(all)
      before == Range(history)
      ask == CausesOf(history, r)
      read == protectedInputSource(r) \/ \E p \in ask : isSensitiveRead(p)
  IN  /\ "protected_read_then_egress" \in rules =>
           Egress(r) /\ (protectedInputSource(r) \/ \E p \in before : isSensitiveRead(p))
      /\ "poisoned_input_then_side_effect" \in rules =>
           SideEffect(r) /\ \E p \in before : hasPoisonedInput(p)
      /\ Distinct(all) =>
           /\ Egress(r) /\ read => "protected_read_then_egress" \in rules
           /\ SideEffect(r) /\ (\E p \in ask : hasPoisonedInput(p)) =>
                "poisoned_input_then_side_effect" \in rules
      /\ "privacy_read_request_budget" \in rules <=>
           Cardinality(ReadsOf(all)) > PrivacyReadBudget

DetectionInv ==
  /\ sessions = [s \in SessionNames |-> sessions[s]]
  /\ asked = [s \in SessionNames |-> asked[s]]
  /\ \A s \in SessionNames : SessionKnows(sessions[s], asked[s])
  /\ advice.session # NoName => FlowsOf(advice.rules, asked[advice.session])

-----------------------------------------------------------------------------
(* The path of causes.                                                     *)

(* One cause more, unless there is none or it was met.                     *)
NextChain(state, parentID, found) ==
  LET next == IF found = <<>> THEN parentID ELSE state.events[Last(found)].parent
  IN  IF next = NoName \/ next \in Range(found) THEN found ELSE Append(found, next)

(* Each is the cause of the one before.                                    *)
Path(state, parentID, found) ==
  /\ found \in Seq(RequestIds)
  /\ found # <<>> => found[1] = parentID
  /\ \A i \in 1..(Len(found) - 1) : found[i + 1] = state.events[found[i]].parent

LEMMA RangeOfAppend ==
  ASSUME NEW S, NEW s \in Seq(S), NEW e \in S
  PROVE  /\ Range(s) = {s[i] : i \in 1..Len(s)}
         /\ Range(Append(s, e)) = Range(s) \cup {e}
<1>1. Range(s) = {s[i] : i \in 1..Len(s)}
  BY DEF Range
<1>2. Append(s, e) \in Seq(S) /\ Len(Append(s, e)) = Len(s) + 1
      /\ (\A i \in 1..Len(s) : Append(s, e)[i] = s[i]) /\ Append(s, e)[Len(s) + 1] = e
  BY AppendProperties
<1> DEFINE t == Append(s, e)
<1>3. Range(t) = {t[i] : i \in 1..(Len(s) + 1)}
  BY <1>2 DEF Range
<1>4. Len(s) \in Nat /\ \A i \in 1..(Len(s) + 1) : i \in 1..Len(s) \/ i = Len(s) + 1
  OBVIOUS
<1>5. Len(s) + 1 \in 1..(Len(s) + 1) /\ \A i \in 1..Len(s) : i \in 1..(Len(s) + 1)
  BY <1>4
<1>6. (\A i \in 1..Len(s) : t[i] = s[i]) /\ t[Len(s) + 1] = e
  BY <1>2
<1> HIDE DEF t
<1>7. \A x \in Range(t) : x \in Range(s) \cup {e}
  BY <1>1, <1>3, <1>4, <1>6
<1>8. \A x \in Range(s) \cup {e} : x \in Range(t)
  BY <1>1, <1>3, <1>5, <1>6
<1>9. Range(t) = Range(s) \cup {e}
  BY <1>7, <1>8
<1> QED BY <1>1, <1>9 DEF t

LEMMA NextChainIsPath ==
  ASSUME NEW state, StateTypes(state), NEW parentID \in Names,
         NEW found, Path(state, parentID, found)
  PROVE  LET next == IF found = <<>> THEN parentID ELSE state.events[Last(found)].parent IN
         /\ Path(state, parentID, NextChain(state, parentID, found))
         /\ next \in Names
         /\ Range(NextChain(state, parentID, found)) =
              Range(found) \cup (IF next = NoName THEN {} ELSE {next})
<1> DEFINE next == IF found = <<>> THEN parentID ELSE state.events[Last(found)].parent
           more == NextChain(state, parentID, found)
<1>1. found \in Seq(RequestIds) /\ Len(found) \in Nat
  BY DEF Path
<1>2. next \in Names
  <2>1. CASE found = <<>>
    BY <2>1
  <2>2. CASE found # <<>>
    <3>1. found[Len(found)] \in RequestIds
      BY <1>1, <2>2
    <3> QED BY <2>2, <3>1 DEF Last, StateTypes, Summaries
  <2> QED BY <2>1, <2>2
<1>3. CASE next = NoName \/ next \in Range(found)
  <2>1. more = found
    BY <1>3 DEF NextChain
  <2> HIDE DEF next, more
  <2>2. Range(found) = Range(found) \cup (IF next = NoName THEN {} ELSE {next})
    BY <1>3
  <2> QED BY <1>2, <2>1, <2>2 DEF next, more
<1>4. CASE next # NoName /\ next \notin Range(found)
  <2>1. more = Append(found, next)
    BY <1>4 DEF NextChain
  <2>2. next \in RequestIds
    BY <1>2, <1>4 DEF Names
  <2>3. found # <<>> => next = state.events[found[Len(found)]].parent
    BY DEF Last
  <2>4. found = <<>> => next = parentID
    OBVIOUS
  <2> HIDE DEF next, more
  <2>5. /\ more \in Seq(RequestIds) /\ Len(more) = Len(found) + 1
        /\ \A i \in 1..Len(found) : more[i] = found[i]
        /\ more[Len(found) + 1] = next
    BY <1>1, <2>1, <2>2, AppendProperties
  <2>6. more[1] = parentID
    BY <1>1, <2>4, <2>5 DEF Path
  <2>7. ASSUME NEW i \in 1..(Len(more) - 1) PROVE more[i + 1] = state.events[more[i]].parent
    <3>1. CASE i = Len(found)
      BY <1>1, <2>3, <2>5, <3>1
    <3>2. CASE i # Len(found)
      <4>1. i \in 1..(Len(found) - 1) /\ i \in 1..Len(found) /\ i + 1 \in 1..Len(found)
        BY <1>1, <2>5, <3>2
      <4> QED BY <2>5, <4>1 DEF Path
    <3> QED BY <3>1, <3>2
  <2>8. Path(state, parentID, more)
    BY <2>5, <2>6, <2>7 DEF Path
  <2>9. Range(more) = Range(found) \cup {next}
    BY <1>1, <2>1, <2>2, RangeOfAppend
  <2> QED BY <1>2, <1>4, <2>8, <2>9 DEF next, more
<1> QED BY <1>3, <1>4

(* What the recursion computes.                                            *)
IsChain(chain, state, parentID) ==
  chain = [k \in 0..MaxAncestors |->
             IF k = 0 THEN <<>> ELSE NextChain(state, parentID, chain[k - 1])]

LEMMA ChainExists ==
  ASSUME NEW state, StateTypes(state), NEW parentID \in Names
  PROVE  \E chain :
           /\ IsChain(chain, state, parentID)
           /\ causalAncestors(state, parentID) = chain[MaxAncestors]
           /\ \A k \in 0..MaxAncestors : Path(state, parentID, chain[k])
<1> DEFINE V == {s \in Seq(RequestIds) : Path(state, parentID, s)}
           step == [k \in 1..MaxAncestors |-> [s \in V |-> NextChain(state, parentID, s)]]
           c == CHOOSE h : IsChain(h, state, parentID)
<1>0. MaxAncestors \in Nat
  BY DetectionAssumption
<1>1. <<>> \in V
  BY DEF Path
<1>2. \A s \in V : NextChain(state, parentID, s) \in V
  <2> SUFFICES ASSUME NEW s \in V PROVE NextChain(state, parentID, s) \in V
    OBVIOUS
  <2>1. Path(state, parentID, NextChain(state, parentID, s))
    BY NextChainIsPath
  <2> QED BY <2>1 DEF Path
<1>3. step \in Steps(MaxAncestors, V)
  <2> HIDE DEF V
  <2> QED BY <1>2 DEF Steps
<1>4. PICK g \in [0..MaxAncestors -> V] : Follows(g, MaxAncestors, <<>>, step)
  <2> HIDE DEF V, step
  <2> QED BY <1>0, <1>1, <1>3, FiniteRecursion
<1>5. IsChain(g, state, parentID)
  <2>1. ASSUME NEW k \in 1..MaxAncestors PROVE g[k] = NextChain(state, parentID, g[k - 1])
    <3>1. k - 1 \in 0..MaxAncestors
      BY <1>0
    <3>2. g[k - 1] \in V
      BY <3>1
    <3> HIDE DEF V
    <3> QED BY <1>4, <3>2 DEF Follows
  <2>2. \A k \in 0..MaxAncestors : k = 0 \/ k \in 1..MaxAncestors
    BY <1>0
  <2> HIDE DEF V
  <2> QED BY <1>4, <2>1, <2>2 DEF Follows, IsChain
<1>6. IsChain(c, state, parentID)
  BY <1>5
<1>7. causalAncestors(state, parentID) = c[MaxAncestors]
  BY DEF causalAncestors, IsChain, NextChain
<1>8. c[0] = <<>> /\ \A k \in 1..MaxAncestors : c[k] = NextChain(state, parentID, c[k - 1])
  <2>1. 0 \in 0..MaxAncestors /\ \A k \in 1..MaxAncestors : k \in 0..MaxAncestors /\ k # 0
    BY <1>0
  <2> HIDE DEF c
  <2> QED BY <1>6, <2>1 DEF IsChain
<1> HIDE DEF c
<1>9. \A k \in 0..MaxAncestors : Path(state, parentID, c[k])
  <2> DEFINE S == {k \in 0..MaxAncestors : c[k] \in V}
  <2>1. 0 \in S
    <3>1. 0 \in 0..MaxAncestors
      BY <1>0
    <3> HIDE DEF V
    <3> QED BY <1>1, <1>8, <3>1
  <2>2. ASSUME NEW k \in 0..(MaxAncestors - 1), k \in S PROVE k + 1 \in S
    <3>1. k + 1 \in 1..MaxAncestors /\ (k + 1) - 1 = k
      BY <1>0
    <3>2. c[k + 1] = NextChain(state, parentID, c[k])
      BY <1>8, <3>1
    <3> QED BY <1>2, <2>2, <3>1, <3>2
  <2> HIDE DEF S, V
  <2>3. \A k \in 0..MaxAncestors : k \in S
    BY <1>0, <2>1, <2>2, InductionUpTo
  <2> QED BY <2>3 DEF S, V
<1> QED BY <1>6, <1>7, <1>9

(* The causes of the causes that the history names.                        *)
NextNamed(history, names) ==
  names \cup {p.parent : p \in {q \in Remembered(history) : q.id \in names}}

IsNamed(named, history, r) ==
  named = [k \in 0..(MaxAncestors - 1) |->
             IF k = 0 THEN {r.parent} ELSE NextNamed(history, named[k - 1])]

LEMMA NamedExists ==
  ASSUME NEW history \in Seq(SomeRequests), NEW r \in SomeRequests
  PROVE  \E named :
           /\ IsNamed(named, history, r)
           /\ r.parent # NoName =>
                CausesOf(history, r) = {p \in Remembered(history) : p.id \in named[MaxAncestors - 1]}
<1> DEFINE V == SUBSET Names
           n == MaxAncestors - 1
           step == [k \in 1..n |-> [s \in V |-> NextNamed(history, s)]]
           c == CHOOSE h : IsNamed(h, history, r)
<1>0. n \in Nat
  BY DetectionAssumption
<1>1. {r.parent} \in V
  BY RequestsAssumption DEF Names
<1>2. \A s \in V : NextNamed(history, s) \in V
  <2>1. \A q \in Remembered(history) : q \in SomeRequests
    BY DEF Remembered
  <2> QED BY <2>1, RequestsAssumption DEF NextNamed, Names
<1>3. step \in Steps(n, V)
  <2> HIDE DEF V, n
  <2> QED BY <1>2 DEF Steps
<1>4. PICK g \in [0..n -> V] : Follows(g, n, {r.parent}, step)
  <2> DEFINE first == {r.parent}
  <2>1. first \in V
    BY <1>1
  <2> HIDE DEF V, step, n, first
  <2>2. \E g \in [0..n -> V] : Follows(g, n, first, step)
    BY <1>0, <2>1, <1>3, FiniteRecursion
  <2> QED BY <2>2 DEF first
<1>5. IsNamed(g, history, r)
  <2>1. ASSUME NEW k \in 1..n PROVE g[k] = NextNamed(history, g[k - 1])
    <3>1. k - 1 \in 0..n
      BY <1>0
    <3>2. g[k - 1] \in V
      BY <3>1
    <3> HIDE DEF V, n
    <3> QED BY <1>4, <3>2 DEF Follows
  <2>2. \A k \in 0..n : k = 0 \/ k \in 1..n
    BY <1>0
  <2>3. g = [k \in 0..n |-> IF k = 0 THEN {r.parent} ELSE NextNamed(history, g[k - 1])]
    <3> HIDE DEF V, n
    <3> QED BY <1>4, <2>1, <2>2 DEF Follows
  <2> HIDE DEF V
  <2> QED BY <2>3 DEF IsNamed
<1>6. IsNamed(c, history, r)
  BY <1>5
<1>7. r.parent # NoName =>
        CausesOf(history, r) = {p \in Remembered(history) : p.id \in c[MaxAncestors - 1]}
  BY DEF CausesOf, IsNamed, NextNamed
<1> QED BY <1>6, <1>7

(* As far as the engine follows causes, none the history names is missed.  *)
LEMMA CausesAreFollowed ==
  ASSUME NEW state, StateTypes(state), NEW history \in Seq(SomeRequests),
         \A q \in Remembered(history) : state.events[q.id].parent = q.parent,
         NEW r \in SomeRequests, r.parent # NoName
  PROVE  /\ \A p \in CausesOf(history, r) : p.id \in Range(causalAncestors(state, r.parent))
         /\ causalAncestors(state, r.parent) # <<>>
<1>1. r.parent \in Names /\ MaxAncestors \in Nat /\ MaxAncestors > 0
  BY RequestsAssumption, DetectionAssumption DEF Names
<1>2. PICK chain : /\ IsChain(chain, state, r.parent)
                   /\ causalAncestors(state, r.parent) = chain[MaxAncestors]
                   /\ \A k \in 0..MaxAncestors : Path(state, r.parent, chain[k])
  BY <1>1, ChainExists
<1>3. PICK named : /\ IsNamed(named, history, r)
                   /\ CausesOf(history, r) =
                        {p \in Remembered(history) : p.id \in named[MaxAncestors - 1]}
  BY NamedExists
<1>4. /\ chain[0] = <<>>
      /\ \A k \in 1..MaxAncestors : chain[k] = NextChain(state, r.parent, chain[k - 1])
  <2>1. 0 \in 0..MaxAncestors /\ \A k \in 1..MaxAncestors : k \in 0..MaxAncestors /\ k # 0
    BY <1>1
  <2> QED BY <1>2, <2>1 DEF IsChain
<1>5. /\ named[0] = {r.parent}
      /\ \A k \in 1..(MaxAncestors - 1) : named[k] = NextNamed(history, named[k - 1])
  <2>1. 0 \in 0..(MaxAncestors - 1)
        /\ \A k \in 1..(MaxAncestors - 1) : k \in 0..(MaxAncestors - 1) /\ k # 0
    BY <1>1
  <2> QED BY <1>3, <2>1 DEF IsNamed
<1> DEFINE Reaches(k) == \A x \in named[k] : x # NoName => x \in Range(chain[k + 1])
           S == {k \in 0..(MaxAncestors - 1) : Reaches(k)}
<1>6. 0 \in S
  <2>1. 0 \in 0..(MaxAncestors - 1) /\ 0 \in 0..MaxAncestors /\ 1 \in 1..MaxAncestors
    BY <1>1
  <2>2. chain[1] = NextChain(state, r.parent, <<>>) /\ Path(state, r.parent, <<>>)
    BY <1>2, <1>4, <2>1
  <2>3. r.parent \in Range(chain[1])
    BY <1>1, <2>2, NextChainIsPath
  <2> QED BY <1>5, <2>1, <2>3
<1>7. ASSUME NEW k \in 0..((MaxAncestors - 1) - 1), k \in S PROVE k + 1 \in S
  <2> DEFINE found == chain[k + 1]
             next == IF found = <<>> THEN r.parent ELSE state.events[Last(found)].parent
  <2>1. /\ k \in Nat /\ k + 1 \in 1..(MaxAncestors - 1) /\ k + 1 \in 0..MaxAncestors
        /\ (k + 1) + 1 \in 1..MaxAncestors /\ (k + 1) - 1 = k
        /\ ((k + 1) + 1) - 1 = k + 1 /\ k + 1 \in 0..(MaxAncestors - 1)
    BY <1>1
  <2>2. Path(state, r.parent, found)
    BY <1>2, <2>1
  <2>3. chain[(k + 1) + 1] = NextChain(state, r.parent, found)
    BY <1>4, <2>1
  <2>4. Range(chain[(k + 1) + 1]) = Range(found) \cup (IF next = NoName THEN {} ELSE {next})
    BY <1>1, <2>2, <2>3, NextChainIsPath
  <2>5. named[k + 1] = NextNamed(history, named[k])
    BY <1>5, <2>1
  <2>6. ASSUME NEW q \in Remembered(history), q.id \in named[k], q.parent # NoName
        PROVE  q.parent \in Range(chain[(k + 1) + 1])
    <3>1. q \in SomeRequests
      BY DEF Remembered
    <3>2. q.id # NoName
      BY <3>1, RequestsAssumption
    <3>3. q.id \in Range(found)
      BY <1>7, <2>6, <3>2
    <3>4. found \in Seq(RequestIds)
      BY <2>2 DEF Path
    <3> HIDE DEF found
    <3>5. PICK j \in 1..Len(found) : q.id = found[j]
      BY <3>3, <3>4 DEF Range
    <3>6. state.events[found[j]].parent = q.parent
      BY <3>5
    <3>7. CASE j = Len(found)
      <4>1. found # <<>> /\ Last(found) = found[j]
        BY <3>4, <3>7 DEF Last
      <4> QED BY <2>4, <2>6, <3>6, <4>1
    <3>8. CASE j # Len(found)
      <4>1. j \in 1..(Len(found) - 1) /\ j + 1 \in 1..Len(found)
        BY <3>4, <3>8
      <4>2. found[j + 1] = q.parent
        BY <2>2, <3>6, <4>1 DEF Path
      <4>3. q.parent \in Range(found)
        BY <3>4, <4>1, <4>2 DEF Range
      <4> QED BY <2>4, <4>3
    <3> QED BY <3>7, <3>8
  <2>7. Reaches(k + 1)
    <3> SUFFICES ASSUME NEW x \in named[k + 1], x # NoName
                 PROVE  x \in Range(chain[(k + 1) + 1])
      OBVIOUS
    <3>1. CASE x \in named[k]
      BY <1>7, <2>4, <3>1
    <3>2. ASSUME NEW q \in Remembered(history), q.id \in named[k], x = q.parent
          PROVE  x \in Range(chain[(k + 1) + 1])
      BY <2>6, <3>2
    <3> QED BY <2>5, <3>1, <3>2 DEF NextNamed
  <2> QED BY <2>1, <2>7
<1>8. MaxAncestors - 1 \in S
  <2> DEFINE n == MaxAncestors - 1
  <2>1. n \in Nat /\ \A k \in 0..(n - 1) : k \in S => k + 1 \in S
    <3>1. n \in Nat
      BY <1>1
    <3> HIDE DEF S
    <3> QED BY <1>7, <3>1
  <2> HIDE DEF S, n
  <2>2. \A k \in 0..n : k \in S
    BY <1>6, <2>1, InductionUpTo
  <2> QED BY <1>1, <2>2 DEF n
<1>9. \A x \in named[MaxAncestors - 1] : x # NoName => x \in Range(chain[MaxAncestors])
  <2>1. (MaxAncestors - 1) + 1 = MaxAncestors
    BY <1>1
  <2> QED BY <1>8, <2>1
<1>10. \A p \in CausesOf(history, r) : p.id \in Range(chain[MaxAncestors])
  <2>1. \A p \in Remembered(history) : p \in SomeRequests
    BY DEF Remembered
  <2>2. \A p \in Remembered(history) : p.id # NoName
    BY <2>1, RequestsAssumption
  <2> QED BY <1>3, <1>9, <2>2
<1>11. chain[MaxAncestors] # <<>>
  <2>1. MaxAncestors \in 1..MaxAncestors /\ MaxAncestors - 1 \in 0..MaxAncestors
    BY <1>1
  <2> DEFINE found == chain[MaxAncestors - 1]
  <2>2. Path(state, r.parent, found) /\ chain[MaxAncestors] = NextChain(state, r.parent, found)
    BY <1>2, <1>4, <2>1
  <2> HIDE DEF found
  <2>3. found = <<>> => r.parent \in Range(chain[MaxAncestors])
    BY <1>1, <2>2, NextChainIsPath
  <2>4. found # <<>> => \E x : x \in Range(found)
    <3>1. found \in Seq(RequestIds)
      BY <2>2 DEF Path
    <3>2. found # <<>> => 1 \in DOMAIN found
      BY <3>1
    <3> QED BY <3>2 DEF Range
  <2>5. Range(found) \subseteq Range(chain[MaxAncestors])
    BY <1>1, <2>2, NextChainIsPath
  <2>6. Range(<<>>) = {}
    BY DEF Range
  <2> QED BY <2>3, <2>4, <2>5, <2>6
<1> QED BY <1>2, <1>10, <1>11

-----------------------------------------------------------------------------
(* What a session remembers.                                               *)

LEMMA ReadsOfAppend ==
  ASSUME NEW history \in Seq(SomeRequests), NEW r \in SomeRequests, IsFiniteSet(ReadsOf(history))
  PROVE  LET all == Append(history, r) IN
           /\ IsFiniteSet(ReadsOf(all))
           /\ Cardinality(ReadsOf(all)) =
                Cardinality(ReadsOf(history)) + Points(isSensitiveRead(r), 1)
<1> DEFINE all == Append(history, r)
           n == Len(history)
<1>1. n \in Nat /\ DOMAIN history = 1..n
  OBVIOUS
<1>2. /\ DOMAIN all = 1..(n + 1) /\ all[n + 1] = r
      /\ \A i \in 1..n : all[i] = history[i]
  BY AppendProperties
<1>3. \A i : i \in 1..(n + 1) <=> i \in 1..n \/ i = n + 1
  BY <1>1
<1>4. n + 1 \notin ReadsOf(history)
  BY <1>1 DEF ReadsOf
<1> HIDE DEF all, n
<1>5. \A i : i \in ReadsOf(all) <=>
               i \in ReadsOf(history) \/ (i = n + 1 /\ isSensitiveRead(r))
  <2>1. \A i : i \in ReadsOf(all) <=> i \in 1..(n + 1) /\ isSensitiveRead(all[i])
    BY <1>2 DEF ReadsOf
  <2>2. \A i : i \in ReadsOf(history) <=> i \in 1..n /\ isSensitiveRead(history[i])
    BY <1>1 DEF ReadsOf
  <2>3. \A i \in 1..n : isSensitiveRead(all[i]) <=> isSensitiveRead(history[i])
    BY <1>2
  <2>4. isSensitiveRead(all[n + 1]) <=> isSensitiveRead(r)
    BY <1>2
  <2> HIDE DEF isSensitiveRead
  <2> QED BY <1>1, <1>3, <2>1, <2>2, <2>3, <2>4
<1>6. CASE isSensitiveRead(r)
  <2>1. ReadsOf(all) = ReadsOf(history) \cup {n + 1}
    BY <1>5, <1>6
  <2>2. Points(isSensitiveRead(r), 1) = 1
    BY <1>6 DEF Points
  <2> QED BY <1>4, <2>1, <2>2, FS_AddElement DEF all
<1>7. CASE ~isSensitiveRead(r)
  <2>1. ReadsOf(all) = ReadsOf(history)
    BY <1>5, <1>7
  <2>2. Points(isSensitiveRead(r), 1) = 0
    BY <1>7 DEF Points
  <2> QED BY <2>1, <2>2, FS_CardinalityType DEF all
<1> QED BY <1>6, <1>7

StateOf(events, order, risk, reads) ==
  [events |-> events, order |-> order, cumulativeRisk |-> risk, protectedReads |-> reads]

Replaced(state, events, order) == [state EXCEPT !.events = events, !.order = order]

LEMMA ReplacedParts ==
  ASSUME NEW e, NEW o, NEW risk, NEW reads, NEW events, NEW order
  PROVE  Replaced(StateOf(e, o, risk, reads), events, order) =
           StateOf(events, order, risk, reads)
<1> DEFINE x == Replaced(StateOf(e, o, risk, reads), events, order)
           state == StateOf(e, o, risk, reads)
<1>1. state = [events |-> e, order |-> o, cumulativeRisk |-> risk, protectedReads |-> reads]
  BY DEF StateOf
<1>2. x = [state EXCEPT !.events = events, !.order = order]
  BY DEF Replaced
<1> HIDE DEF x, state
<1>3. x = [events |-> events, order |-> order, cumulativeRisk |-> risk, protectedReads |-> reads]
  BY <1>1, <1>2
<1> QED BY <1>3 DEF x, StateOf

(* The oldest request of the order is forgotten, never another, when the   *)
(* identifiers differ; otherwise at most too much is.                      *)
LEMMA RememberKnows ==
  ASSUME NEW state, NEW history, SessionKnows(state, history), NEW r \in SomeRequests,
         NEW risk, NEW counted,
         counted = [events |-> state.events, order |-> state.order, cumulativeRisk |-> risk,
                    protectedReads |-> state.protectedReads + Points(isSensitiveRead(r), 1)]
  PROVE  SessionKnows(Remember(counted, r, Summary(r)), Append(history, r))
<1> DEFINE all == Append(history, r)
           n == Len(history)
           m == Len(state.order)
           event == Summary(r)
           events == [state.events EXCEPT ![r.id] = event]
           order == Append(state.order, r.id)
           more == Remember(counted, r, event)
<1>1. /\ history \in Seq(SomeRequests) /\ n \in Nat
      /\ state.order \in Seq(RequestIds) /\ m \in Nat
      /\ state.events \in [RequestIds -> Summaries]
      /\ r.id \in RequestIds /\ MaxEvents \in Nat \ {0}
  BY RequestsAssumption, DetectionAssumption DEF SessionKnows, StateTypes
<1>2. /\ all \in Seq(SomeRequests) /\ Len(all) = n + 1 /\ all[n + 1] = r
      /\ \A i \in 1..n : all[i] = history[i]
  BY <1>1, AppendProperties
<1>3. /\ order \in Seq(RequestIds) /\ Len(order) = m + 1 /\ order[m + 1] = r.id
      /\ \A i \in 1..m : order[i] = state.order[i]
  BY <1>1, AppendProperties
<1>4. event \in Summaries /\ event.known /\ NoEvent \in Summaries /\ ~NoEvent.known
  BY RequestsAssumption
     DEF Summary, Summaries, NoEvent, Names, isSensitiveRead, hasPoisonedInput
<1>5. events \in [RequestIds -> Summaries] /\ events[r.id] = event
      /\ \A id \in RequestIds : id # r.id => events[id] = state.events[id]
  BY <1>1, <1>4
<1>6. m = IF n <= MaxEvents THEN n ELSE MaxEvents
  BY DEF SessionKnows, OrderKnows
<1>7. \A i \in 1..m : order[i] = all[n - m + i].id
  <2>1. \A i \in 1..m : n - m + i \in 1..n
    BY <1>1, <1>6
  <2> QED BY <1>2, <1>3, <2>1 DEF SessionKnows, OrderKnows
<1>8. order[m + 1] = all[n + 1].id
  BY <1>2, <1>3
<1>9. more = IF m + 1 > MaxEvents
             THEN StateOf([events EXCEPT ![Head(order)] = NoEvent], Tail(order), risk,
                          counted.protectedReads)
             ELSE StateOf(events, order, risk, counted.protectedReads)
  <2> DEFINE reads == counted.protectedReads
             left == [events EXCEPT ![Head(order)] = NoEvent]
  <2>1. counted = StateOf(state.events, state.order, risk, reads)
    BY DEF StateOf
  <2>2. more = IF Len(order) > MaxEvents THEN Replaced(counted, left, Tail(order))
               ELSE Replaced(counted, events, order)
    BY DEF Remember, Replaced
  <2> HIDE DEF reads, left, order, events, more
  <2> QED BY <1>3, <2>1, <2>2, ReplacedParts DEF reads, left
<1>10. IsFiniteSet(ReadsOf(all))
       /\ Cardinality(ReadsOf(all)) = counted.protectedReads
  BY <1>1, ReadsOfAppend DEF SessionKnows
<1>11. Head(order) = order[1] /\ Head(order) \in RequestIds
  <2>1. 1 \in 1..(m + 1)
    BY <1>1
  <2> QED BY <1>3, <2>1
<1>12. Tail(order) \in Seq(RequestIds) /\ Len(Tail(order)) = m
       /\ \A i \in 1..m : Tail(order)[i] = order[i + 1]
  BY <1>1, <1>3, HeadTailProperties
<1> HIDE DEF all, n, m, event, events, order, more
<1> USE DEF StateOf
<1>13. StateTypes(more)
  BY <1>3, <1>4, <1>5, <1>9, <1>11, <1>12 DEF StateTypes
<1>14. OrderKnows(more, all)
  <2>1. CASE m + 1 > MaxEvents
    <3>1. more.order = Tail(order) /\ Len(more.order) = m /\ m = MaxEvents /\ n >= MaxEvents
      BY <1>1, <1>6, <1>9, <1>12, <2>1
    <3>2. ASSUME NEW i \in 1..m PROVE more.order[i] = all[(n + 1) - m + i].id
      <4>1. more.order[i] = order[i + 1]
        BY <1>12, <3>1
      <4>2. CASE i = m
        <5>1. (n + 1) - m + i = n + 1
          BY <1>1, <4>2
        <5> QED BY <1>8, <4>1, <4>2, <5>1
      <4>3. CASE i # m
        <5>1. i + 1 \in 1..m /\ n - m + (i + 1) = (n + 1) - m + i
          BY <1>1, <4>3
        <5>2. order[i + 1] = all[n - m + (i + 1)].id
          BY <1>7, <5>1
        <5> QED BY <4>1, <5>1, <5>2
      <4> QED BY <4>2, <4>3
    <3>3. Len(all) = n + 1 /\ ~(n + 1 <= MaxEvents)
      BY <1>1, <1>2, <3>1
    <3>4. Len(all) - Len(more.order) = (n + 1) - m
      BY <3>1, <3>3
    <3> QED BY <3>1, <3>2, <3>3, <3>4 DEF OrderKnows
  <2>2. CASE ~(m + 1 > MaxEvents)
    <3>1. more.order = order /\ m = n /\ n + 1 <= MaxEvents
      BY <1>1, <1>6, <1>9, <2>2
    <3>2. \A i \in 1..(n + 1) : order[i] = all[i].id
      <4>1. \A i \in 1..(n + 1) : i \in 1..m \/ i = m + 1
        BY <1>1, <3>1
      <4>2. \A i \in 1..m : n - m + i = i
        BY <1>1, <3>1
      <4> QED BY <1>7, <1>8, <3>1, <4>1, <4>2
    <3>3. Len(all) = n + 1 /\ Len(more.order) = n + 1
      BY <1>2, <1>3, <3>1
    <3>4. Len(all) - Len(more.order) = 0 /\ \A i \in 1..(n + 1) : 0 + i = i
      BY <1>1, <3>3
    <3> QED BY <3>1, <3>2, <3>3, <3>4 DEF OrderKnows
  <2> QED BY <2>1, <2>2
<1>15. EventsKnow(more, all)
  <2> SUFFICES ASSUME NEW id \in RequestIds, more.events[id].known
               PROVE  \E i \in 1..(n + 1) : all[i].id = id /\ more.events[id] = Summary(all[i])
    BY <1>2 DEF EventsKnow
  <2>1. more.events[id] = events[id]
    BY <1>4, <1>5, <1>9, <1>11
  <2>2. CASE id = r.id
    <3>1. n + 1 \in 1..(n + 1)
      BY <1>1
    <3> QED BY <1>2, <1>5, <2>1, <2>2, <3>1 DEF event
  <2>3. CASE id # r.id
    <3>1. more.events[id] = state.events[id]
      BY <1>5, <2>1, <2>3
    <3>2. PICK i \in 1..n : history[i].id = id /\ state.events[id] = Summary(history[i])
      BY <3>1 DEF SessionKnows, EventsKnow, n
    <3>3. i \in 1..(n + 1) /\ all[i] = history[i]
      BY <1>1, <1>2
    <3> QED BY <3>1, <3>2, <3>3
  <2> QED BY <2>2, <2>3
<1>16. NothingForgotten(more, all)
  <2> SUFFICES ASSUME Distinct(all), NEW i \in 1..(n + 1), i + MaxEvents > n + 1
               PROVE  more.events[all[i].id] = Summary(all[i])
    BY <1>2 DEF NothingForgotten
  <2>1. \A k, j \in 1..(n + 1) : k # j => all[k].id # all[j].id
    BY <1>2 DEF Distinct
  <2>2. all[i] \in SomeRequests /\ all[i].id \in RequestIds
    BY <1>2, RequestsAssumption
  <2>3. more.events[all[i].id] = events[all[i].id]
    <3>1. CASE m + 1 > MaxEvents
      <4>1. m = MaxEvents /\ n - m + 1 \in 1..(n + 1) /\ 1 \in 1..m /\ n - m + 1 # i
        BY <1>1, <1>6, <3>1
      <4>2. Head(order) = all[n - m + 1].id
        BY <1>7, <1>11, <4>1
      <4>3. Head(order) # all[i].id
        BY <2>1, <4>1, <4>2
      <4> QED BY <1>5, <1>9, <2>2, <3>1, <4>3
    <3>2. CASE ~(m + 1 > MaxEvents)
      BY <1>9, <3>2
    <3> QED BY <3>1, <3>2
  <2>4. CASE i = n + 1
    BY <1>2, <1>5, <2>3, <2>4 DEF event
  <2>5. CASE i # n + 1
    <3>1. i \in 1..n /\ i + MaxEvents > n /\ n + 1 \in 1..(n + 1)
      BY <1>1, <2>5
    <3>2. all[i] = history[i] /\ all[i].id # r.id
      BY <1>2, <2>1, <2>5, <3>1
    <3>3. Distinct(history)
      <4>1. \A k \in 1..n : k \in 1..(n + 1) /\ history[k] = all[k]
        BY <1>1, <1>2
      <4> QED BY <2>1, <4>1 DEF Distinct, n
    <3>4. state.events[history[i].id] = Summary(history[i])
      BY <3>1, <3>3 DEF SessionKnows, NothingForgotten, n
    <3> QED BY <1>5, <2>2, <2>3, <3>2, <3>4
  <2> QED BY <2>4, <2>5
<1>17. more.protectedReads = counted.protectedReads
  BY <1>9
<1> QED BY <1>2, <1>10, <1>13, <1>14, <1>15, <1>16, <1>17 DEF SessionKnows, all, more, event

-----------------------------------------------------------------------------
(* What a request is held against.                                         *)

LEMMA MaxOfTwo ==
  ASSUME NEW a \in Int, NEW b \in Int
  PROVE  Max({a, b}) = IF a >= b THEN a ELSE b
<1> DEFINE m == IF a >= b THEN a ELSE b
<1>1. m \in {a, b} /\ \A y \in {a, b} : m >= y
  OBVIOUS
<1>2. \A x \in {a, b} : (\A y \in {a, b} : x >= y) => x = m
  OBVIOUS
<1>3. (CHOOSE x \in {a, b} : \A y \in {a, b} : x >= y) = m
  <2> HIDE DEF m
  <2> QED BY <1>1, <1>2
<1> QED BY <1>3 DEF Max

LEMMA RecentAre ==
  ASSUME NEW order \in Seq(RequestIds)
  PROVE  /\ recent(order) \in Seq(RequestIds)
         /\ \A i \in 1..Len(order) :
              i + RecentEvents > Len(order) => order[i] \in Range(recent(order))
<1> DEFINE n == Len(order)
           first == Max({1, n - RecentEvents + 1})
<1>1. n \in Nat /\ RecentEvents \in Nat
  BY DetectionAssumption
<1>2. first = IF 1 >= n - RecentEvents + 1 THEN 1 ELSE n - RecentEvents + 1
  BY <1>1, MaxOfTwo
<1> HIDE DEF first
<1>3. first \in Int /\ first >= 1 /\ \A i \in 1..n : i + RecentEvents > n => i >= first
  BY <1>1, <1>2
<1>4. recent(order) = SubSeq(order, first, n)
  BY DEF recent, first
<1>5. \A i \in first..n : order[i] \in RequestIds
  BY <1>3
<1>6. /\ recent(order) \in Seq(RequestIds)
      /\ Len(recent(order)) = IF first <= n THEN n - first + 1 ELSE 0
      /\ \A i \in 1..(n - first + 1) : recent(order)[i] = order[first + i - 1]
  BY <1>1, <1>3, <1>4, <1>5, SubSeqProperties
<1>7. ASSUME NEW i \in 1..n, i + RecentEvents > n PROVE order[i] \in Range(recent(order))
  <2>1. first <= n /\ i - first + 1 \in 1..(n - first + 1) /\ first + (i - first + 1) - 1 = i
    BY <1>1, <1>3, <1>7
  <2>2. recent(order)[i - first + 1] = order[i]
    BY <1>6, <2>1
  <2>3. i - first + 1 \in DOMAIN recent(order)
    BY <1>6, <2>1
  <2> QED BY <2>2, <2>3 DEF Range
<1> QED BY <1>6, <1>7

LEMMA AncestorsType ==
  ASSUME NEW state, StateTypes(state), NEW parentID \in Names
  PROVE  causalAncestors(state, parentID) \in Seq(RequestIds)
<1>1. PICK chain : /\ causalAncestors(state, parentID) = chain[MaxAncestors]
                   /\ \A k \in 0..MaxAncestors : Path(state, parentID, chain[k])
  BY ChainExists
<1>2. MaxAncestors \in 0..MaxAncestors
  BY DetectionAssumption
<1> QED BY <1>1, <1>2 DEF Path

(* Without a cause there is no path.                                       *)
LEMMA NoCauseNoPath ==
  ASSUME NEW state, StateTypes(state)
  PROVE  causalAncestors(state, NoName) = <<>>
<1>1. NoName \in Names /\ MaxAncestors \in Nat
  BY DetectionAssumption DEF Names
<1>2. PICK chain : /\ causalAncestors(state, NoName) = chain[MaxAncestors]
                   /\ \A k \in 0..MaxAncestors : Path(state, NoName, chain[k])
  BY <1>1, ChainExists
<1>3. Path(state, NoName, chain[MaxAncestors])
  BY <1>1, <1>2
<1>4. chain[MaxAncestors] # <<>> => chain[MaxAncestors][1] \in RequestIds
  BY <1>3 DEF Path
<1> QED BY <1>2, <1>3, <1>4, RequestsAssumption DEF Path

(* What a request is held against was asked before.                        *)
LEMMA CandidatesWereAsked ==
  ASSUME NEW state, NEW history, SessionKnows(state, history), NEW r \in SomeRequests
  PROVE  \A e \in Candidates(state, r) : \E p \in Range(history) : e = Summary(p)
<1> DEFINE ancestors == causalAncestors(state, r.parent)
           ids == IF ancestors = <<>> THEN recent(state.order) ELSE ancestors
<1>1. StateTypes(state) /\ history \in Seq(SomeRequests) /\ state.order \in Seq(RequestIds)
  BY DEF SessionKnows, StateTypes
<1>2. ids \in Seq(RequestIds)
  BY <1>1, AncestorsType, RecentAre, RequestsAssumption DEF Names
<1>3. Range(ids) \subseteq RequestIds
  <2> HIDE DEF ids
  <2> QED BY <1>2 DEF Range
<1>4. Candidates(state, r) =
        {state.events[id] : id \in {i \in Range(ids) : i # r.id /\ state.events[i].known}}
  BY DEF Candidates
<1> HIDE DEF ids, ancestors
<1> SUFFICES ASSUME NEW id \in Range(ids), state.events[id].known
             PROVE  \E p \in Range(history) : state.events[id] = Summary(p)
  BY <1>4
<1>5. PICK i \in 1..Len(history) : state.events[id] = Summary(history[i])
  BY <1>3 DEF SessionKnows, EventsKnow
<1>6. history[i] \in Range(history)
  BY <1>1 DEF Range
<1> QED BY <1>5, <1>6

(* And every cause within the bounds is among it.                          *)
LEMMA CausesAreCandidates ==
  ASSUME NEW state, NEW history, SessionKnows(state, history), NEW r \in SomeRequests,
         Distinct(Append(history, r))
  PROVE  \A p \in CausesOf(history, r) : Summary(p) \in Candidates(state, r)
<1> DEFINE ancestors == causalAncestors(state, r.parent)
           ids == IF ancestors = <<>> THEN recent(state.order) ELSE ancestors
           n == Len(history)
           m == Len(state.order)
<1>1. /\ StateTypes(state) /\ history \in Seq(SomeRequests) /\ n \in Nat
      /\ state.order \in Seq(RequestIds) /\ m \in Nat
      /\ MaxEvents \in Nat /\ RecentEvents \in Nat /\ RecentEvents <= MaxEvents
  BY DetectionAssumption DEF SessionKnows, StateTypes
<1>2. (\A i \in 1..n : history[i].id # r.id) /\ Distinct(history)
  <2> DEFINE all == Append(history, r)
  <2>1. /\ Len(all) = n + 1 /\ all[n + 1] = r /\ \A i \in 1..n : all[i] = history[i]
    BY <1>1, AppendProperties
  <2>2. \A i, j \in 1..(n + 1) : i # j => all[i].id # all[j].id
    BY <2>1 DEF Distinct
  <2>3. n + 1 \in 1..(n + 1) /\ \A i \in 1..n : i \in 1..(n + 1) /\ i # n + 1
    BY <1>1
  <2> HIDE DEF all
  <2> QED BY <2>1, <2>2, <2>3 DEF Distinct
<1>3. \A i \in 1..n : i + MaxEvents > n => state.events[history[i].id] = Summary(history[i])
  BY <1>2 DEF SessionKnows, NothingForgotten
<1>4. Candidates(state, r) =
        {state.events[id] : id \in {i \in Range(ids) : i # r.id /\ state.events[i].known}}
  BY DEF Candidates
<1>5. ASSUME NEW i \in 1..n, i + MaxEvents > n, history[i].id \in Range(ids)
      PROVE  Summary(history[i]) \in Candidates(state, r)
  <2>1. state.events[history[i].id] = Summary(history[i]) /\ history[i].id # r.id
    BY <1>2, <1>3, <1>5
  <2>2. Summary(history[i]).known
    BY DEF Summary
  <2> HIDE DEF ids
  <2> QED BY <1>4, <1>5, <2>1, <2>2
<1>6. CASE r.parent = NoName
  <2>1. ids = recent(state.order)
    BY <1>1, <1>6, NoCauseNoPath
  <2> SUFFICES ASSUME NEW i \in 1..n, i + RecentEvents > n
               PROVE  Summary(history[i]) \in Candidates(state, r)
    BY <1>6 DEF CausesOf
  <2>2. i + MaxEvents > n
    BY <1>1
  <2>3. m = IF n <= MaxEvents THEN n ELSE MaxEvents
    BY DEF SessionKnows, OrderKnows
  <2>4. m + i - n \in 1..m /\ (m + i - n) + RecentEvents > m /\ n - m + (m + i - n) = i
    <3> HIDE DEF n, m
    <3>1. CASE n <= MaxEvents
      BY <1>1, <2>3, <3>1
    <3>2. CASE ~(n <= MaxEvents)
      BY <1>1, <2>2, <2>3, <3>2
    <3> QED BY <3>1, <3>2
  <2>5. state.order[m + i - n] = history[i].id
    BY <2>4 DEF SessionKnows, OrderKnows
  <2>6. history[i].id \in Range(ids)
    <3>1. state.order[m + i - n] \in Range(recent(state.order))
      BY <1>1, <2>4, RecentAre
    <3> QED BY <2>1, <2>5, <3>1
  <2> QED BY <1>5, <2>2, <2>6
<1>7. CASE r.parent # NoName
  <2>1. \A q \in Remembered(history) : \E i \in 1..n : i + MaxEvents > n /\ q = history[i]
    BY DEF Remembered
  <2>2. \A q \in Remembered(history) : state.events[q.id].parent = q.parent
    <3>1. \A q : Summary(q).parent = q.parent
      BY DEF Summary
    <3> QED BY <1>3, <2>1, <3>1
  <2>3. \A p \in CausesOf(history, r) : p.id \in Range(ancestors)
        /\ ancestors # <<>>
    BY <1>1, <1>7, <2>2, CausesAreFollowed
  <2>4. \A p \in CausesOf(history, r) : p \in Remembered(history)
    BY <1>7 DEF CausesOf
  <2> SUFFICES ASSUME NEW p \in CausesOf(history, r)
               PROVE  Summary(p) \in Candidates(state, r)
    OBVIOUS
  <2>5. PICK i \in 1..n : i + MaxEvents > n /\ p = history[i]
    BY <2>1, <2>4
  <2>6. history[i].id \in Range(ids)
    BY <2>3, <2>5
  <2> HIDE DEF ids, ancestors
  <2> QED BY <1>5, <2>5, <2>6
<1> QED BY <1>6, <1>7

(* Which requests the findings about two of them are for.                  *)
LEMMA RulesAre ==
  ASSUME NEW state, NEW r
  PROVE  LET rules == {f.rule : f \in Found(state, r)}
             priors == Candidates(state, r)
         IN  /\ "protected_read_then_egress" \in rules <=>
                  Egress(r) /\ (protectedInputSource(r) \/ \E p \in priors : p.sensitiveRead)
             /\ "poisoned_input_then_side_effect" \in rules <=>
                  SideEffect(r) /\ \E p \in priors : p.poisonedInput
             /\ "privacy_read_request_budget" \in rules <=>
                  state.protectedReads + Points(isSensitiveRead(r), 1) > PrivacyReadBudget
<1> DEFINE priors == Candidates(state, r)
           rules == {f.rule : f \in Found(state, r)}
           Flows == Egress(r) /\ (protectedInputSource(r) \/ \E p \in priors : p.sensitiveRead)
           Obeys == SideEffect(r) /\ \E p \in priors : p.poisonedInput
           reads == state.protectedReads + Points(isSensitiveRead(r), 1)
           finding(rule, route, delta) == [rule |-> rule, route |-> route, delta |-> delta]
           a == IF isSensitiveRead(r) THEN {finding("protected_read_requested", "none", 10)} ELSE {}
           b == IF ~hasPoisonedInput(r) THEN {}
                ELSE {IF SideEffect(r) THEN finding("indirect_prompt_injection", "deny", 60)
                      ELSE finding("indirect_prompt_injection", "sandbox", 35)}
           c == IF r.drift THEN {finding("schema_hash_mismatch", "deny", 50)} ELSE {}
           d == IF Flows THEN {finding("protected_read_then_egress", "deny", 50)} ELSE {}
           e == IF Obeys THEN {finding("poisoned_input_then_side_effect", "deny", 45)} ELSE {}
           g == IF reads > PrivacyReadBudget
                THEN {finding("privacy_read_request_budget", "escalate", 30)} ELSE {}
<1>1. Found(state, r) = UNION {a, b, c, d, e, g}
  BY DEF Found
<1>2. /\ \A f \in a : f.rule = "protected_read_requested"
      /\ \A f \in b : f.rule = "indirect_prompt_injection"
      /\ \A f \in c : f.rule = "schema_hash_mismatch"
      /\ \A f \in d : f.rule = "protected_read_then_egress"
      /\ \A f \in e : f.rule = "poisoned_input_then_side_effect"
      /\ \A f \in g : f.rule = "privacy_read_request_budget"
  <2> HIDE DEF priors, Flows, Obeys, reads
  <2> QED OBVIOUS
<1>3. /\ d # {} <=> Flows
      /\ e # {} <=> Obeys
      /\ g # {} <=> reads > PrivacyReadBudget
  <2> HIDE DEF priors, Flows, Obeys, reads
  <2> QED OBVIOUS
<1>4. \A f : f \in Found(state, r) <=>
               f \in a \/ f \in b \/ f \in c \/ f \in d \/ f \in e \/ f \in g
  <2> HIDE DEF a, b, c, d, e, g
  <2> QED BY <1>1
<1> HIDE DEF a, b, c, d, e, g
<1>5. /\ "protected_read_then_egress" \in rules <=> d # {}
      /\ "poisoned_input_then_side_effect" \in rules <=> e # {}
      /\ "privacy_read_request_budget" \in rules <=> g # {}
  <2>1. \A name : name \in rules <=> \E f \in Found(state, r) : f.rule = name
    OBVIOUS
  <2> HIDE DEF rules
  <2>2. "protected_read_then_egress" \in rules <=> d # {}
    BY <1>2, <1>4, <2>1
  <2>3. "poisoned_input_then_side_effect" \in rules <=> e # {}
    BY <1>2, <1>4, <2>1
  <2>4. "privacy_read_request_budget" \in rules <=> g # {}
    BY <1>2, <1>4, <2>1
  <2> QED BY <2>2, <2>3, <2>4
<1> HIDE DEF rules
<1> QED BY <1>3, <1>5 DEF rules

-----------------------------------------------------------------------------
(* The invariant.                                                          *)

LEMMA FlowsAreFound ==
  ASSUME NEW state, NEW history, SessionKnows(state, history), NEW r \in SomeRequests
  PROVE  FlowsOf({f.rule : f \in Found(state, r)}, Append(history, r))
<1> DEFINE all == Append(history, r)
           rules == {f.rule : f \in Found(state, r)}
           priors == Candidates(state, r)
           ask == CausesOf(history, r)
<1>1. history \in Seq(SomeRequests) /\ IsFiniteSet(ReadsOf(history))
      /\ state.protectedReads = Cardinality(ReadsOf(history))
  BY DEF SessionKnows
<1>2. Last(all) = r /\ Front(all) = history
  <2>1. /\ all \in Seq(SomeRequests) /\ Len(all) = Len(history) + 1
        /\ all[Len(history) + 1] = r /\ \A i \in 1..Len(history) : all[i] = history[i]
    BY <1>1, AppendProperties
  <2>2. Len(history) \in Nat /\ Len(all) - 1 = Len(history)
    BY <1>1, <2>1
  <2> HIDE DEF all
  <2>3. Front(all) = SubSeq(all, 1, Len(history)) /\ Last(all) = r
    BY <2>1, <2>2 DEF Front, Last
  <2> DEFINE front == SubSeq(all, 1, Len(history))
  <2>4. \A i \in 1..Len(history) : all[i] \in SomeRequests
    BY <1>1, <2>1
  <2>5. /\ front \in Seq(SomeRequests) /\ Len(front) = Len(history)
        /\ \A i \in 1..Len(history) : front[i] = all[i]
    <3>1. 1 \in Int /\ Len(history) \in Int
      BY <2>2
    <3>2. /\ front \in Seq(SomeRequests)
          /\ Len(front) = IF 1 <= Len(history) THEN Len(history) - 1 + 1 ELSE 0
          /\ \A i \in 1..(Len(history) - 1 + 1) : front[i] = all[1 + i - 1]
      BY <2>4, <3>1, SubSeqProperties
    <3> HIDE DEF front
    <3> QED BY <2>2, <3>2
  <2>6. front = history
    <3> HIDE DEF front
    <3> QED BY <1>1, <2>1, <2>5, SeqEqual
  <2> QED BY <2>3, <2>6
<1>3. /\ "protected_read_then_egress" \in rules <=>
           Egress(r) /\ (protectedInputSource(r) \/ \E p \in priors : p.sensitiveRead)
      /\ "poisoned_input_then_side_effect" \in rules <=>
           SideEffect(r) /\ \E p \in priors : p.poisonedInput
      /\ "privacy_read_request_budget" \in rules <=>
           state.protectedReads + Points(isSensitiveRead(r), 1) > PrivacyReadBudget
  BY RulesAre
<1>4. \A e \in priors : \E p \in Range(history) : e = Summary(p)
  BY CandidatesWereAsked
<1>5. Distinct(all) => \A p \in ask : Summary(p) \in priors
  BY CausesAreCandidates
<1>6. Cardinality(ReadsOf(all)) = state.protectedReads + Points(isSensitiveRead(r), 1)
  BY <1>1, ReadsOfAppend
<1>7. \A p : Summary(p).sensitiveRead = isSensitiveRead(p)
             /\ Summary(p).poisonedInput = hasPoisonedInput(p)
  BY DEF Summary
<1> HIDE DEF all, rules, priors, ask
<1>8. (\E e \in priors : e.sensitiveRead) => \E p \in Range(history) : isSensitiveRead(p)
  BY <1>4, <1>7
<1>9. (\E e \in priors : e.poisonedInput) => \E p \in Range(history) : hasPoisonedInput(p)
  BY <1>4, <1>7
<1>10. Distinct(all) /\ (\E p \in ask : isSensitiveRead(p)) => \E e \in priors : e.sensitiveRead
  BY <1>5, <1>7
<1>11. Distinct(all) /\ (\E p \in ask : hasPoisonedInput(p)) => \E e \in priors : e.poisonedInput
  BY <1>5, <1>7
<1>12. FlowsOf(rules, all)
  BY <1>2, <1>3, <1>6, <1>8, <1>9, <1>10, <1>11 DEF FlowsOf, ask
<1> QED BY <1>12 DEF rules, all

LEMMA DetectionInitHolds == DetectionInit => DetectionInv
<1> SUFFICES ASSUME DetectionInit PROVE DetectionInv
  OBVIOUS
<1>1. /\ sessions = [s \in SessionNames |-> NewSession]
      /\ asked = [s \in SessionNames |-> <<>>] /\ advice = NoAdvice
  BY DEF DetectionInit, SessionNames
<1>2. NewSession = [events |-> [id \in RequestIds |-> NoEvent], order |-> <<>>,
                    cumulativeRisk |-> 0, protectedReads |-> 0]
  BY DEF NewSession
<1>3. NoEvent \in Summaries /\ ~NoEvent.known
  BY DEF NoEvent, Summaries, Names
<1>4. StateTypes(NewSession)
  BY <1>2, <1>3 DEF StateTypes
<1>5. ReadsOf(<<>>) = {}
  BY DEF ReadsOf
<1>6. SessionKnows(NewSession, <<>>)
  <2>1. Len(<<>>) = 0 /\ <<>> \in Seq(SomeRequests)
    OBVIOUS
  <2>2. OrderKnows(NewSession, <<>>)
    BY <1>2, DetectionAssumption DEF OrderKnows
  <2>3. EventsKnow(NewSession, <<>>) /\ NothingForgotten(NewSession, <<>>)
    BY <1>2, <1>3 DEF EventsKnow, NothingForgotten
  <2>4. IsFiniteSet(ReadsOf(<<>>)) /\ NewSession.protectedReads = Cardinality(ReadsOf(<<>>))
    BY <1>2, <1>5, FS_EmptySet
  <2> QED BY <1>4, <2>1, <2>2, <2>3, <2>4 DEF SessionKnows
<1>7. advice.session = NoName
  BY <1>1 DEF NoAdvice
<1> QED BY <1>1, <1>6, <1>7 DEF DetectionInv

LEMMA EvaluateKeeps ==
  ASSUME DetectionInv, NEW r \in SomeRequests, Evaluate(r)
  PROVE  DetectionInv'
<1> DEFINE name == SessionOf(r)
           state == sessions[name]
           history == asked[name]
           all == Append(history, r)
           rules == {f.rule : f \in Found(state, r)}
<1>1. name \in SessionNames
  BY RequestsAssumption DEF SessionOf, SessionNames
<1>2. SessionKnows(state, history)
  BY <1>1 DEF DetectionInv
<1>3. asked' = [asked EXCEPT ![name] = all]
  BY DEF Evaluate
<1>4. PICK risk, limited : 
        /\ sessions' = [sessions EXCEPT ![name] =
             Remember([state EXCEPT !.protectedReads = @ + Points(isSensitiveRead(r), 1),
                                    !.cumulativeRisk = risk], r, Summary(r))]
        /\ advice'.session = name
        /\ advice'.rules = rules \cup (IF limited THEN {"cumulative_risk_limit"} ELSE {})
  BY DEF Evaluate, Summary
<1>5. PICK counted :
        /\ counted = [events |-> state.events, order |-> state.order, cumulativeRisk |-> risk,
                      protectedReads |-> state.protectedReads + Points(isSensitiveRead(r), 1)]
        /\ sessions' = [sessions EXCEPT ![name] = Remember(counted, r, Summary(r))]
  <2> DEFINE reads == state.protectedReads + Points(isSensitiveRead(r), 1)
             counted == [state EXCEPT !.protectedReads = reads, !.cumulativeRisk = risk]
             events == state.events
             order == state.order
             was == state.protectedReads
             old == state.cumulativeRisk
  <2>1. state = [events |-> events, order |-> order, cumulativeRisk |-> old,
                 protectedReads |-> was]
    BY <1>2 DEF SessionKnows, StateTypes
  <2>2. sessions' = [sessions EXCEPT ![name] = Remember(counted, r, Summary(r))]
    BY <1>4
  <2>3. counted = [events |-> events, order |-> order, cumulativeRisk |-> risk,
                   protectedReads |-> reads]
    <3> DEFINE x == counted
               s == state
    <3>1. x = [s EXCEPT !.protectedReads = reads, !.cumulativeRisk = risk]
      OBVIOUS
    <3>2. s = [events |-> events, order |-> order, cumulativeRisk |-> old,
               protectedReads |-> was]
      BY <2>1
    <3> HIDE DEF x, s, events, order, was, old, reads
    <3>3. x = [events |-> events, order |-> order, cumulativeRisk |-> risk,
               protectedReads |-> reads]
      BY <3>1, <3>2
    <3> QED BY <3>3 DEF x
  <2> QED BY <2>2, <2>3
<1> HIDE DEF name, state, history, all, rules
<1>6. SessionKnows(Remember(counted, r, Summary(r)), all)
  BY <1>2, <1>5, RememberKnows DEF all
<1>7. FlowsOf(rules, all)
  BY <1>2, FlowsAreFound DEF rules, all
<1>8. /\ sessions' = [s \in SessionNames |->
           IF s = name THEN Remember(counted, r, Summary(r)) ELSE sessions[s]]
      /\ asked' = [s \in SessionNames |-> IF s = name THEN all ELSE asked[s]]
  BY <1>3, <1>5 DEF DetectionInv
<1>9. \A s \in SessionNames : SessionKnows(sessions'[s], asked'[s])
  BY <1>6, <1>8 DEF DetectionInv
<1>10. FlowsOf(advice'.rules, all)
  <2>1. /\ "protected_read_then_egress" \in advice'.rules <=> "protected_read_then_egress" \in rules
        /\ "poisoned_input_then_side_effect" \in advice'.rules <=>
             "poisoned_input_then_side_effect" \in rules
        /\ "privacy_read_request_budget" \in advice'.rules <=>
             "privacy_read_request_budget" \in rules
    BY <1>4
  <2> QED BY <1>7, <2>1 DEF FlowsOf
<1>11. asked'[advice'.session] = all
  BY <1>1, <1>4, <1>8
<1>12. /\ sessions' = [s \in SessionNames |-> sessions'[s]]
       /\ asked' = [s \in SessionNames |-> asked'[s]]
  BY <1>8
<1> QED BY <1>9, <1>10, <1>11, <1>12 DEF DetectionInv

(* What the engine remembers of each session is the end of the requests it *)
(* was asked about, in their order, throughout (engine.go:60-197).         *)
THEOREM DetectionInvariant == DetectionSpec => []DetectionInv
<1>1. DetectionInit => DetectionInv
  BY DetectionInitHolds
<1>2. DetectionInv /\ [DetectionNext]_detectionVars => DetectionInv'
  <2> SUFFICES ASSUME DetectionInv, [DetectionNext]_detectionVars PROVE DetectionInv'
    OBVIOUS
  <2>1. ASSUME NEW r \in SomeRequests, Evaluate(r) PROVE DetectionInv'
    BY <2>1, EvaluateKeeps
  <2>2. CASE UNCHANGED detectionVars
    BY <2>2 DEF DetectionInv, detectionVars
  <2> QED BY <2>1, <2>2 DEF DetectionNext
<1> QED BY <1>1, <1>2, PTL DEF DetectionSpec

(* Findings about two requests are never made up, and within the bounds on *)
(* what is remembered and followed none is missed (engine.go:57-198).      *)
THEOREM FlowsAreReportedAlways == DetectionSpec => []FlowsAreReported
<1>1. DetectionInv => FlowsAreReported
  BY DEF DetectionInv, FlowsAreReported, FlowsOf, ReadsOf, Quantify
<1> QED BY <1>1, DetectionInvariant, PTL

-----------------------------------------------------------------------------
(* Discovery.                                                              *)
(* The approvals as somebody wrote them, and as the manager keeps them.    *)
Written ==
  Entries \cup UNION {Range(c.approved) \cup Range(c.registered) : c \in Configs}

Approvals == {Normalized(e) : e \in Written}

Look(n, k) == Walk[n].finds[k]

Projects == {Walk[n].project : n \in 1..Len(Walk)}
Paths == {Walk[n].path : n \in 1..Len(Walk)}
Types(n) == {Look(n, k).type : k \in 1..Len(Walk[n].finds)}
AgentTypes == UNION {Types(n) : n \in 1..Len(Walk)}

Agents ==
  [project : Projects, type : AgentTypes,
   state : {"available", "installed", "configured"},
   status : {"unassessed", "shadow", "approved"},
   approval : {NoId} \cup {e.id : e \in Approvals},
   evidence : SUBSET Paths]

Reports ==
  [agents : SUBSET Agents, gaps : Nat, gapCount : Nat, truncated : BOOLEAN]

Places == {Done} \cup {At(n, k) : n \in Nat, k \in Nat}

Managers ==
  [up : {TRUE}, registry : Seq(Approvals), approved : Seq(Approvals),
   visit : Places, report : Reports]

(* What a scan has put together stays within its limits.                   *)
Bounded(report) ==
  /\ IsFiniteSet(report.agents) /\ Cardinality(report.agents) <= MaxFindings
  /\ report.gaps <= MaxGaps

(* No agent is approved before the scan ends.                              *)
Unreconciled(report) ==
  \A a \in report.agents : a.status = governanceStatus(a.state) /\ a.approval = NoId

(* A signature that makes a configured agent of a file that was there.     *)
Tells(files, n, k) ==
  /\ files[n] # "absent" /\ ~Walk[n].skipped /\ ~Walk[n].shelved
  /\ Look(n, k).basis = "configuration_file"

IsConfigured(report, project, type) ==
  \E a \in report.agents :
    a.project = project /\ a.type = type /\ a.state = "configured"

Listed(report, n, k) == IsConfigured(report, Walk[n].project, Look(n, k).type)

Partial(report) == report.gapCount > 0 \/ report.truncated

Passed(m, j, n, k) == m < n \/ (m = n /\ j < k)

(* Every signature the walk has passed is accounted for.                   *)
AccountsFor(report, files, n, k) ==
  Partial(report) \/
  \A m \in 1..Len(Walk) : \A j \in 1..Len(Walk[m].finds) :
    Passed(m, j, n, k) /\ Tells(files, m, j) => Listed(report, m, j)

FilesOK ==
  /\ kept # NoFile => kept = FileOf(kept.entries) /\ kept.entries \in Seq(Approvals)
  /\ file = kept \/ file = Cut

ManagerOK ==
  manager.up =>
    /\ manager \in Managers
    /\ Bounded(manager.report)
    /\ manager.approved = manager.registry
    /\ kept # NoFile => manager.registry = kept.entries

WalkOK ==
  manager.up => \A n \in Nat, k \in Nat :
    manager.visit = At(n, k) =>
      /\ Unreconciled(manager.report)
      /\ AccountsFor(manager.report, scanned.files, n, k)

DiscoveryInv ==
  /\ today \in 0..MaxDay /\ config \in Configs /\ world \in Worlds
  /\ manager = Down \/ manager.up
  /\ scanned = [files |-> [n \in 1..Len(Walk) |-> scanned.files[n]], day |-> scanned.day]
  /\ FilesOK /\ ManagerOK /\ WalkOK
  /\ ReportFollowsRegistry /\ NothingHidden

-----------------------------------------------------------------------------
(* Lemmas about the entries.                                               *)

LEMMA WrittenAreEntries == \A e \in Written : IsEntry(e)
<1> SUFFICES ASSUME NEW e \in Written PROVE IsEntry(e)
  OBVIOUS
<1>1. CASE e \in Entries
  BY <1>1, WalkAssumption
<1>2. ASSUME NEW c \in Configs, NEW list \in {c.approved, c.registered}, e \in Range(list)
      PROVE  IsEntry(e)
  <2>1. list \in Seq(Range(list)) /\ \A i \in 1..Len(list) : IsEntry(list[i])
    BY WalkAssumption
  <2>2. DOMAIN list = 1..Len(list)
    BY <2>1
  <2> QED BY <1>2, <2>1, <2>2 DEF Range
<1> QED BY <1>1, <1>2 DEF Written

(* A normalized entry has an identifier and a state, and is as it is kept. *)
LEMMA ApprovalsAreNormal ==
  \A e \in Approvals : e.id # NoId /\ e.state # "" /\ Normalized(e) = e
<1> SUFFICES ASSUME NEW w \in Written
             PROVE  LET e == Normalized(w) IN
                      e.id # NoId /\ e.state # "" /\ Normalized(e) = e
  BY DEF Approvals
<1> DEFINE e == Normalized(w)
<1>1. w = [x \in EntryFields |-> w[x]]
  BY WrittenAreEntries DEF IsEntry
<1>2. /\ e.id = IF w.id = NoId THEN <<w.type, w.path, w.fingerprint>> ELSE w.id
      /\ e.state = IF w.state = "" THEN "active" ELSE w.state
      /\ e = [x \in EntryFields |-> e[x]]
  BY <1>1 DEF Normalized, EntryFields
<1>3. e.id # NoId /\ e.state # ""
  <2>1. <<w.type, w.path, w.fingerprint>> # <<>>
    OBVIOUS
  <2> HIDE DEF e
  <2> QED BY <1>2, <2>1 DEF NoId
<1>4. Normalized(e) = e
  BY <1>2, <1>3 DEF Normalized, EntryFields
<1> QED BY <1>3, <1>4

LEMMA NormalizedAllIsKept ==
  ASSUME NEW list \in Seq(Approvals)
  PROVE  NormalizedAll(list) = list
<1>1. \A i \in 1..Len(list) : Normalized(list[i]) = list[i]
  <2>1. \A i \in 1..Len(list) : list[i] \in Approvals
    OBVIOUS
  <2> QED BY <2>1, ApprovalsAreNormal
<1>2. list = [i \in 1..Len(list) |-> list[i]]
  OBVIOUS
<1> QED BY <1>1, <1>2 DEF NormalizedAll

LEMMA NormalizedAllType ==
  ASSUME NEW list \in Seq(Written)
  PROVE  NormalizedAll(list) \in Seq(Approvals)
<1>1. \A i \in 1..Len(list) : Normalized(list[i]) \in Approvals
  BY DEF Approvals
<1>2. Len(list) \in Nat
  OBVIOUS
<1> QED BY <1>1, <1>2, IsASeq DEF NormalizedAll

LEMMA ConfiguredAreWritten ==
  ASSUME NEW c \in Configs
  PROVE  ConfiguredApprovals(c) \in Seq(Written)
<1>1. ASSUME NEW list \in {c.approved, c.registered}
      PROVE  list \in Seq(Written)
  <2>1. list \in Seq(Range(list))
    BY WalkAssumption
  <2>2. Range(list) \subseteq Written
    BY DEF Written
  <2> QED BY <2>1, <2>2, SeqMonotonic
<1> QED BY <1>1 DEF ConfiguredApprovals

(* An entry replaces the first with its identifier or is added at the end. *)
LEMMA WithEntryType ==
  ASSUME NEW list \in Seq(Approvals), NEW e \in Approvals
  PROVE  WithEntry(list, e) \in Seq(Approvals)
<1> DEFINE same == {i \in 1..Len(list) : list[i].id = e.id}
           first == CHOOSE i \in same : \A j \in same : i <= j
<1>1. CASE same = {}
  BY <1>1, AppendProperties DEF WithEntry
<1>2. CASE same # {}
  <2>1. \E i \in same : \A j \in same : i <= j
    <3>1. same \in SUBSET (1..Len(list)) /\ Len(list) \in Nat
      OBVIOUS
    <3> HIDE DEF same
    <3> QED BY <1>2, <3>1, EndsOfPositions
  <2>2. first \in same
    BY <2>1
  <2>3. first \in 1..Len(list)
    BY <2>2
  <2>4. WithEntry(list, e) = [list EXCEPT ![first] = e]
    BY <1>2 DEF WithEntry
  <2> HIDE DEF first
  <2> QED BY <2>3, <2>4, ExceptSeq
<1> QED BY <1>1, <1>2

(* No entry with the identifier is left.                                   *)
LEMMA WithoutIdRemoves ==
  ASSUME NEW list \in Seq(Approvals), NEW id
  PROVE  /\ WithoutId(list, id) \in Seq(Approvals)
         /\ \A i \in 1..Len(WithoutId(list, id)) : WithoutId(list, id)[i].id # id
<1> DEFINE V == {s \in Seq(Approvals) : \A i \in 1..Len(s) : s[i].id # id}
           Keep(n, s) == IF list[n].id = id THEN s ELSE Append(s, list[n])
           step == [n \in 1..Len(list) |-> [s \in V |-> Keep(n, s)]]
           IsLeft(g) == g = [n \in 0..Len(list) |->
                               IF n = 0 THEN <<>>
                               ELSE IF list[n].id = id THEN g[n - 1] ELSE Append(g[n - 1], list[n])]
<1>1. <<>> \in V
  OBVIOUS
<1>2. ASSUME NEW n \in 1..Len(list), NEW s \in V
      PROVE  Keep(n, s) \in V
  <2>1. CASE list[n].id = id
    BY <2>1
  <2>2. CASE list[n].id # id
    <3>1. list[n] \in Approvals /\ s \in Seq(Approvals)
      OBVIOUS
    <3>2. /\ Append(s, list[n]) \in Seq(Approvals)
          /\ Len(Append(s, list[n])) = Len(s) + 1
          /\ \A i \in 1..Len(s) : Append(s, list[n])[i] = s[i]
          /\ Append(s, list[n])[Len(s) + 1] = list[n]
      BY <3>1, AppendProperties
    <3>3. \A i \in 1..(Len(s) + 1) : i \in 1..Len(s) \/ i = Len(s) + 1
      BY <3>1
    <3>4. \A i \in 1..(Len(s) + 1) : Append(s, list[n])[i].id # id
      BY <2>2, <3>2, <3>3
    <3> QED BY <2>2, <3>2, <3>4
  <2> QED BY <2>1, <2>2
<1>3. step \in Steps(Len(list), V)
  <2> HIDE DEF V, Keep
  <2> QED BY <1>2 DEF Steps
<1>4. PICK g \in [0..Len(list) -> V] : Follows(g, Len(list), <<>>, step)
  <2>1. Len(list) \in Nat
    OBVIOUS
  <2> HIDE DEF V, step
  <2> QED BY <1>1, <1>3, <2>1, FiniteRecursion
<1>5. IsLeft(g)
  <2>1. ASSUME NEW i \in 1..Len(list) PROVE g[i] = Keep(i, g[i - 1])
    <3>1. i - 1 \in 0..Len(list)
      OBVIOUS
    <3>2. g[i - 1] \in V
      BY <3>1
    <3> HIDE DEF V, Keep
    <3> QED BY <1>4, <3>2 DEF Follows
  <2>2. \A n \in 0..Len(list) : n = 0 \/ n \in 1..Len(list)
    OBVIOUS
  <2> HIDE DEF V
  <2> QED BY <1>4, <2>1, <2>2 DEF Follows
<1>6. IsLeft(CHOOSE h : IsLeft(h))
  <2> HIDE DEF IsLeft
  <2> QED BY <1>5
<1> DEFINE left == CHOOSE h : IsLeft(h)
<1>7. WithoutId(list, id) = left[Len(list)]
  BY DEF WithoutId
<1>8. left = g
  <2>1. \A n \in 0..Len(list) : n \in {m \in 0..Len(list) : left[m] = g[m]}
    <3> DEFINE S == {m \in 0..Len(list) : left[m] = g[m]}
    <3>0. ASSUME NEW h, IsLeft(h)
          PROVE  h[0] = <<>> /\ \A m \in 1..Len(list) : h[m] = Keep(m, h[m - 1])
      <4>1. 0 \in 0..Len(list) /\ \A m \in 1..Len(list) : m \in 0..Len(list) /\ m # 0
        OBVIOUS
      <4> HIDE DEF left, V
      <4> QED BY <3>0, <4>1
    <3>1. left[0] = <<>> /\ \A m \in 1..Len(list) : left[m] = Keep(m, left[m - 1])
      <4> HIDE DEF IsLeft, Keep
      <4> QED BY <1>6, <3>0 DEF left
    <3>2. g[0] = <<>> /\ \A m \in 1..Len(list) : g[m] = Keep(m, g[m - 1])
      <4> HIDE DEF IsLeft, Keep, V
      <4> QED BY <1>5, <3>0
    <3> HIDE DEF left, Keep, V
    <3>3. 0 \in S
      BY <3>1, <3>2
    <3>4. ASSUME NEW m \in 0..(Len(list) - 1), m \in S PROVE m + 1 \in S
      <4>1. m + 1 \in 1..Len(list) /\ (m + 1) - 1 = m
        OBVIOUS
      <4> QED BY <3>1, <3>2, <3>4, <4>1
    <3>5. Len(list) \in Nat
      OBVIOUS
    <3> HIDE DEF S
    <3>6. \A i \in 0..Len(list) : i \in S
      BY <3>3, <3>4, <3>5, InductionUpTo
    <3> QED BY <3>6 DEF S
  <2>2. left = [n \in 0..Len(list) |-> left[n]]
    <3> HIDE DEF left
    <3>1. IsLeft(left)
      BY <1>6 DEF left
    <3> QED BY <3>1
  <2> HIDE DEF left, V
  <2> QED BY <2>1, <2>2
<1>9. g[Len(list)] \in V
  <2> HIDE DEF V
  <2> QED OBVIOUS
<1> HIDE DEF left
<1> QED BY <1>7, <1>8, <1>9

-----------------------------------------------------------------------------
(* Lemmas about what a scan puts together.                                 *)

(* What a report of a scan has to be, and what of one the next keeps.      *)
Scanned(report) == report \in Reports /\ Bounded(report) /\ Unreconciled(report)

Grows(report, more) ==
  /\ Partial(report) => Partial(more)
  /\ \A project, type : IsConfigured(report, project, type) => IsConfigured(more, project, type)

LEMMA ReportShape ==
  ASSUME NEW report \in Reports
  PROVE  /\ report = [agents |-> report.agents, gaps |-> report.gaps,
                      gapCount |-> report.gapCount, truncated |-> report.truncated]
         /\ report.agents \in SUBSET Agents
         /\ report.gaps \in Nat /\ report.gapCount \in Nat /\ report.truncated \in BOOLEAN
  BY DEF Reports

LEMMA EmptyScanIsScanned == Scanned(EmptyScan)
  BY FS_EmptySet, DiscoveryAssumption
     DEF Scanned, EmptyScan, Reports, Bounded, Unreconciled

(* A gap is counted and the list of gaps stays bounded (addCoverageGap).   *)
LEMMA AddCoverageGapKeeps ==
  ASSUME NEW report, Scanned(report)
  PROVE  /\ Scanned(AddCoverageGap(report)) /\ Grows(report, AddCoverageGap(report))
         /\ Partial(AddCoverageGap(report))
<1> DEFINE more == AddCoverageGap(report)
<1>1. report \in Reports
  BY DEF Scanned
<1>2. more = [agents |-> report.agents,
              gaps |-> IF report.gaps >= MaxGaps THEN report.gaps ELSE report.gaps + 1,
              gapCount |-> report.gapCount + 1, truncated |-> report.truncated]
  <2> DEFINE agents == report.agents
             gaps == report.gaps
             gapCount == report.gapCount
             truncated == report.truncated
  <2>1. report = [agents |-> agents, gaps |-> gaps, gapCount |-> gapCount,
                  truncated |-> truncated]
    BY <1>1, ReportShape
  <2>2. more = [report EXCEPT !.gapCount = gapCount + 1,
                              !.gaps = IF gaps >= MaxGaps THEN gaps ELSE gaps + 1]
    BY DEF AddCoverageGap
  <2> HIDE DEF agents, gaps, gapCount, truncated, more
  <2>3. more = [agents |-> agents, gaps |-> IF gaps >= MaxGaps THEN gaps ELSE gaps + 1,
                gapCount |-> gapCount + 1, truncated |-> truncated]
    BY <2>1, <2>2
  <2> QED BY <2>3 DEF agents, gaps, gapCount, truncated
<1>3. more \in Reports
  BY <1>1, <1>2, ReportShape DEF Reports
<1>4. more.agents = report.agents /\ more.gapCount > 0
      /\ (more.gaps = report.gaps \/ (report.gaps < MaxGaps /\ more.gaps = report.gaps + 1))
  BY <1>1, <1>2, ReportShape, DiscoveryAssumption
<1> HIDE DEF more
<1>5. Bounded(more) /\ Unreconciled(more)
  BY <1>1, <1>4, ReportShape, DiscoveryAssumption DEF Scanned, Bounded, Unreconciled
<1>6. Partial(more) /\ Grows(report, more)
  BY <1>4 DEF Partial, Grows, IsConfigured
<1> QED BY <1>3, <1>5, <1>6 DEF Scanned, more

(* Evidence finds an agent that is configured still so, and one that is to *)
(* be configured makes it so when there is room (addEvidence).             *)
LEMMA AddEvidenceKeeps ==
  ASSUME NEW report, Scanned(report),
         NEW n \in 1..Len(Walk), NEW k \in 1..Len(Walk[n].finds)
  PROVE  LET more == AddEvidence(report, Walk[n], Look(n, k)) IN
           /\ Scanned(more) /\ Grows(report, more)
           /\ ~Walk[n].shelved /\ Look(n, k).basis = "configuration_file" =>
                Partial(more) \/ Listed(more, n, k)
<1> DEFINE f == Walk[n]
           find == Look(n, k)
           more == AddEvidence(report, f, find)
           state == DeploymentState(f, find.basis)
           known == {a \in report.agents : a.project = f.project /\ a.type = find.type}
           Tell == ~f.shelved /\ find.basis = "configuration_file"
<1>1. report \in Reports /\ report.agents \in SUBSET Agents
  BY ReportShape DEF Scanned
<1>2. f.project \in Projects /\ f.path \in Paths /\ find.type \in AgentTypes
  BY DEF Projects, Paths, AgentTypes, Types
<1>3. state \in {"available", "installed", "configured"} /\ (Tell => state = "configured")
  BY DEF DeploymentState
<1>4. \A s : governanceStatus(s) \in {"unassessed", "shadow", "approved"}
  BY DEF governanceStatus
<1> HIDE DEF f, find, state
<1>5. ASSUME NEW new \in Agents, NEW old \in SUBSET report.agents,
             more = [report EXCEPT !.agents = (@ \ old) \cup {new}],
             old # {} \/ Cardinality(report.agents) < MaxFindings,
             new.status = governanceStatus(new.state), new.approval = NoId,
             new.project = f.project, new.type = find.type,
             Tell => new.state = "configured",
             \A a \in old : /\ a.project = new.project /\ a.type = new.type
                            /\ a.state = "configured" => new.state = "configured"
      PROVE  /\ Scanned(more) /\ Grows(report, more)
             /\ Tell => IsConfigured(more, f.project, find.type)
  <2>1. more = [agents |-> (report.agents \ old) \cup {new}, gaps |-> report.gaps,
                gapCount |-> report.gapCount, truncated |-> report.truncated]
    BY <1>1, <1>5, ReportShape
  <2>2. more.agents = (report.agents \ old) \cup {new} /\ more \in Reports
    BY <1>1, <2>1, ReportShape DEF Reports
  <2> HIDE DEF more
  <2>3. Unreconciled(more)
    BY <1>5, <2>2 DEF Unreconciled, Scanned
  <2>4. IsFiniteSet(more.agents) /\ Cardinality(more.agents) <= MaxFindings
    <3>1. IsFiniteSet(report.agents) /\ Cardinality(report.agents) \in Nat
          /\ Cardinality(report.agents) <= MaxFindings
      BY FS_CardinalityType DEF Scanned, Bounded
    <3> DEFINE rest == report.agents \ old
    <3>2. IsFiniteSet(rest) /\ Cardinality(rest) \in Nat /\ Cardinality(rest) < MaxFindings
      <4>1. IsFiniteSet(rest) /\ Cardinality(rest) <= Cardinality(report.agents)
            /\ (Cardinality(rest) = Cardinality(report.agents) => rest = report.agents)
        <5>1. rest \in SUBSET report.agents
          OBVIOUS
        <5> HIDE DEF rest
        <5> QED BY <3>1, <5>1, FS_Subset
      <4>2. Cardinality(rest) \in Nat
        BY <4>1, FS_CardinalityType
      <4>3. old # {} => rest # report.agents
        OBVIOUS
      <4> HIDE DEF rest
      <4> QED BY <1>5, <3>1, <4>1, <4>2, <4>3, DiscoveryAssumption
    <3>3. more.agents = rest \cup {new}
      BY <2>2
    <3> HIDE DEF rest
    <3>4. IsFiniteSet(more.agents) /\ Cardinality(more.agents) <= Cardinality(rest) + 1
      <4>1. IsFiniteSet(rest \cup {new})
            /\ Cardinality(rest \cup {new}) =
                 IF new \in rest THEN Cardinality(rest) ELSE Cardinality(rest) + 1
        BY <3>2, FS_AddElement
      <4> QED BY <3>2, <3>3, <4>1
    <3>5. Cardinality(more.agents) \in Nat
      BY <3>4, FS_CardinalityType
    <3> QED BY <3>2, <3>4, <3>5, DiscoveryAssumption
  <2>5. Bounded(more)
    BY <2>1, <2>4 DEF Bounded, Scanned
  <2>6. Grows(report, more)
    <3>1. ASSUME NEW project, NEW type, IsConfigured(report, project, type)
          PROVE  IsConfigured(more, project, type)
      BY <1>5, <2>2, <3>1 DEF IsConfigured
    <3> QED BY <2>1, <3>1 DEF Grows, Partial
  <2>7. Tell => IsConfigured(more, f.project, find.type)
    BY <1>5, <2>2 DEF IsConfigured
  <2> QED BY <2>2, <2>3, <2>5, <2>6, <2>7 DEF Scanned
<1>6. CASE known = {} /\ ~(Cardinality(report.agents) >= MaxFindings)
  <2> DEFINE new == [project |-> f.project, type |-> find.type, state |-> state,
                     status |-> governanceStatus(state), approval |-> NoId,
                     evidence |-> {f.path}]
  <2>1. new \in Agents
    BY <1>2, <1>3, <1>4 DEF Agents
  <2>2. more = [report EXCEPT !.agents = @ \cup {new}]
    BY <1>6 DEF AddEvidence, state
  <2> DEFINE old == {}
  <2>3. more = [report EXCEPT !.agents = (@ \ old) \cup {new}] /\ old \in SUBSET report.agents
        /\ \A a \in old : /\ a.project = new.project /\ a.type = new.type
                          /\ a.state = "configured" => new.state = "configured"
    BY <2>2
  <2>4. Cardinality(report.agents) < MaxFindings
    <3>1. Cardinality(report.agents) \in Nat
      BY FS_CardinalityType DEF Scanned, Bounded
    <3> QED BY <1>6, <3>1, DiscoveryAssumption
  <2>5. new.status = governanceStatus(new.state) /\ new.approval = NoId
        /\ new.project = f.project /\ new.type = find.type
        /\ (Tell => new.state = "configured")
    BY <1>3
  <2> HIDE DEF new, more, known, old
  <2>6. /\ Scanned(more) /\ Grows(report, more)
        /\ Tell => IsConfigured(more, f.project, find.type)
    BY <1>5, <2>1, <2>3, <2>4, <2>5
  <2> QED BY <2>6 DEF more, Listed, f, find
<1>7. CASE known = {} /\ Cardinality(report.agents) >= MaxFindings
  <2>1. more = [report EXCEPT !.truncated = TRUE]
    BY <1>7 DEF AddEvidence
  <2>2. more = [agents |-> report.agents, gaps |-> report.gaps,
                gapCount |-> report.gapCount, truncated |-> TRUE]
    BY <1>1, <2>1, ReportShape
  <2>3. more \in Reports /\ Bounded(more) /\ Unreconciled(more)
    BY <1>1, <2>2, ReportShape DEF Reports, Scanned, Bounded, Unreconciled
  <2>4. Partial(more) /\ Grows(report, more)
    BY <2>2 DEF Partial, Grows, IsConfigured
  <2> QED BY <2>3, <2>4 DEF Scanned, f, find
<1>8. CASE known # {}
  <2> DEFINE a == CHOOSE b \in known : TRUE
             s == IF deploymentRank[state] > deploymentRank[a.state] THEN state ELSE a.state
             new == [a EXCEPT !.state = s, !.status = governanceStatus(s),
                              !.evidence = @ \cup {f.path}]
  <2>1. a \in known
    BY <1>8
  <2>2. a \in report.agents /\ a \in Agents /\ a.project = f.project /\ a.type = find.type
    BY <1>1, <2>1
  <2>3. more = [report EXCEPT !.agents = (@ \ {a}) \cup {new}]
    BY <1>8 DEF AddEvidence, state
  <2> HIDE DEF a, known, more
  <2>4. /\ s \in {"available", "installed", "configured"}
        /\ a.state = "configured" => s = "configured"
        /\ state = "configured" => s = "configured"
    <3>1. a.state \in {"available", "installed", "configured"}
      BY <2>2 DEF Agents
    <3>2. /\ deploymentRank["available"] = 1 /\ deploymentRank["installed"] = 2
          /\ deploymentRank["configured"] = 3
      BY DEF deploymentRank
    <3> QED BY <1>3, <3>1, <3>2
  <2> HIDE DEF s
  <2>5. a = [project |-> a.project, type |-> a.type, state |-> a.state, status |-> a.status,
             approval |-> a.approval, evidence |-> a.evidence]
    BY <2>2 DEF Agents
  <2>6. new = [project |-> a.project, type |-> a.type, state |-> s, status |-> governanceStatus(s),
               approval |-> a.approval, evidence |-> a.evidence \cup {f.path}]
    <3> DEFINE status == governanceStatus(s)
               evidence == a.evidence \cup {f.path}
    <3>1. new = [a EXCEPT !.state = s, !.status = status, !.evidence = evidence]
      OBVIOUS
    <3> HIDE DEF new, status, evidence
    <3>2. new = [project |-> a.project, type |-> a.type, state |-> s, status |-> status,
                 approval |-> a.approval, evidence |-> evidence]
      BY <2>5, <3>1
    <3> QED BY <3>2 DEF status, evidence
  <2>7. new \in Agents
    BY <1>2, <1>4, <2>2, <2>4, <2>6 DEF Agents
  <2>8. a.approval = NoId
    BY <2>2 DEF Scanned, Unreconciled
  <2>9. new.status = governanceStatus(new.state) /\ new.approval = NoId
        /\ new.project = f.project /\ new.type = find.type
        /\ (Tell => new.state = "configured")
    BY <1>3, <2>2, <2>4, <2>6, <2>8
  <2>10. \A b \in {a} : /\ b.project = new.project /\ b.type = new.type
                        /\ b.state = "configured" => new.state = "configured"
    BY <2>4, <2>6
  <2>11. {a} \in SUBSET report.agents /\ {a} # {}
    BY <2>2
  <2> HIDE DEF new
  <2>12. /\ Scanned(more) /\ Grows(report, more)
         /\ Tell => IsConfigured(more, f.project, find.type)
    BY <1>5, <2>3, <2>7, <2>9, <2>10, <2>11
  <2> QED BY <2>12 DEF more, Listed, f, find
<1> QED BY <1>6, <1>7, <1>8

(* A look at a signature leaves what was found and accounts for its own.   *)
LEMMA VisitFindKeeps ==
  ASSUME NEW report, Scanned(report), NEW condition,
         NEW n \in 1..Len(Walk), NEW k \in 1..Len(Walk[n].finds)
  PROVE  LET more == VisitFind(report, Walk[n], condition, Look(n, k)) IN
           /\ Scanned(more) /\ Grows(report, more)
           /\ ~Walk[n].shelved /\ Look(n, k).basis = "configuration_file" =>
                Partial(more) \/ Listed(more, n, k)
<1> DEFINE more == VisitFind(report, Walk[n], condition, Look(n, k))
<1>1. Grows(report, report)
  BY DEF Grows
<1>2. CASE Look(n, k).basis = "configuration_file"
  BY <1>2, AddEvidenceKeeps DEF VisitFind
<1>3. CASE Look(n, k).basis # "configuration_file"
  <2>1. more \in {report, AddCoverageGap(report), AddEvidence(report, Walk[n], Look(n, k))}
    BY <1>3 DEF VisitFind
  <2> HIDE DEF more
  <2>2. Scanned(more) /\ Grows(report, more)
    BY <1>1, <2>1, AddEvidenceKeeps, AddCoverageGapKeeps
  <2> QED BY <1>3, <2>2 DEF more
<1> QED BY <1>2, <1>3

-----------------------------------------------------------------------------
(* The inductive invariant.                                                *)

LEMMA PlacesDiffer ==
  /\ \A n, k : At(n, k) # Done
  /\ \A n, k, m, j : At(n, k) = At(m, j) => n = m /\ k = j
  /\ \A n \in Nat, k \in Nat : At(n, k) \in Places
  BY DEF At, Done, Places

LEMMA ManagerShape ==
  ASSUME NEW m \in Managers
  PROVE  /\ m = [up |-> TRUE, registry |-> m.registry, approved |-> m.approved,
                 visit |-> m.visit, report |-> m.report]
         /\ m.registry \in Seq(Approvals) /\ m.approved \in Seq(Approvals)
         /\ m.visit \in Places /\ m.report \in Reports
  BY DEF Managers

LEMMA FilesDiffer ==
  /\ NoFile # Cut
  /\ \A entries : FileOf(entries).entries = entries /\ FileOf(entries) # NoFile
                  /\ FileOf(entries) # Cut
  BY DEF NoFile, Cut, FileOf

LEMMA DiscoveryInitHolds == DiscoveryInit => DiscoveryInv
<1> SUFFICES ASSUME DiscoveryInit PROVE DiscoveryInv
  OBVIOUS
<1>1. manager = Down /\ ~manager.up /\ kept = NoFile /\ file = kept
  BY DEF DiscoveryInit, Down
<1>2. scanned = [files |-> [n \in 1..Len(Walk) |-> scanned.files[n]], day |-> scanned.day]
  BY DEF DiscoveryInit
<1>3. today \in 0..MaxDay /\ config \in Configs /\ world \in Worlds
  BY DiscoveryAssumption DEF DiscoveryInit
<1> QED BY <1>1, <1>2, <1>3
        DEF DiscoveryInv, FilesOK, ManagerOK, WalkOK, ReportFollowsRegistry,
            NothingHidden, Complete

(* What the manager is after a scan was begun, or done with a step.        *)
ManagerKept ==
  /\ manager.up
  /\ scanned = [files |-> [n \in 1..Len(Walk) |-> scanned.files[n]], day |-> scanned.day]
  /\ ManagerOK /\ WalkOK /\ ReportFollowsRegistry /\ NothingHidden

LEMMA ScanningBegins ==
  ASSUME NEW registry \in Seq(Approvals), Scanning(registry, registry),
         kept' # NoFile => registry = kept'.entries
  PROVE  ManagerKept'
<1>1. scanned' = [files |-> [n \in 1..Len(Walk) |-> scanned'.files[n]], day |-> scanned'.day]
  BY DEF Scanning
<1>2. CASE world.root = "missing"
  <2> DEFINE report == AddCoverageGap(EmptyScan)
  <2>1. manager' = [up |-> TRUE, registry |-> registry, approved |-> registry,
                    visit |-> Done, report |-> report]
    BY <1>2 DEF Scanning
  <2>2. Scanned(report) /\ Partial(report)
    BY EmptyScanIsScanned, AddCoverageGapKeeps
  <2>3. report.agents = {}
    BY DEF AddCoverageGap, EmptyScan
  <2> HIDE DEF report
  <2>4. manager' \in Managers
    BY <2>1, <2>2 DEF Managers, Places, Scanned
  <2>5. manager'.up /\ ManagerOK'
    BY <2>1, <2>2, <2>4 DEF ManagerOK, Scanned
  <2>6. WalkOK'
    BY <2>1, PlacesDiffer DEF WalkOK
  <2>7. ReportFollowsRegistry' /\ NothingHidden'
    BY <2>1, <2>2, <2>3 DEF ReportFollowsRegistry, NothingHidden, Partial
  <2> QED BY <1>1, <2>5, <2>6, <2>7 DEF ManagerKept
<1>3. CASE world.root # "missing"
  <2>1. manager' = [up |-> TRUE, registry |-> registry, approved |-> registry,
                    visit |-> At(1, 0), report |-> EmptyScan]
    BY <1>3 DEF Scanning
  <2>2. manager' \in Managers
    BY <2>1, EmptyScanIsScanned, PlacesDiffer DEF Managers, Scanned
  <2>3. manager'.up /\ ManagerOK'
    BY <2>1, <2>2, EmptyScanIsScanned DEF ManagerOK, Scanned
  <2>4. WalkOK'
    <3>1. ASSUME NEW n \in Nat, NEW k \in Nat, manager'.visit = At(n, k)
          PROVE  n = 1 /\ k = 0
      BY <2>1, <3>1, PlacesDiffer
    <3>2. \A m \in 1..Len(Walk) : \A j \in 1..Len(Walk[m].finds) : ~Passed(m, j, 1, 0)
      BY DEF Passed
    <3> QED BY <2>1, <3>1, <3>2, EmptyScanIsScanned DEF WalkOK, AccountsFor, Scanned
  <2>5. ~Complete'
    BY <2>1, PlacesDiffer DEF Complete
  <2>6. ReportFollowsRegistry' /\ NothingHidden'
    BY <2>5 DEF ReportFollowsRegistry, NothingHidden
  <2> QED BY <1>1, <2>3, <2>4, <2>6 DEF ManagerKept
<1> QED BY <1>2, <1>3

(* A save puts the entries in place, or what was written of them.          *)
LEMMA SaveRegistryKeeps ==
  ASSUME NEW entries \in Seq(Approvals), SaveRegistry(entries)
  PROVE  FilesOK' /\ kept' # NoFile /\ kept'.entries = entries
<1>1. kept' = FileOf(entries) /\ (file' = kept' \/ file' = Cut)
  BY NormalizedAllIsKept DEF SaveRegistry
<1> QED BY <1>1, FilesDiffer DEF FilesOK

LEMMA SaveKeeps ==
  ASSUME DiscoveryInv, NEW entries \in Seq(Approvals), Save(entries)
  PROVE  DiscoveryInv'
<1>1. FilesOK' /\ kept'.entries = entries
  BY SaveRegistryKeeps DEF Save
<1>2. ManagerKept'
  BY <1>1, ScanningBegins DEF Save
<1> QED BY <1>1, <1>2 DEF DiscoveryInv, ManagerKept, Save

LEMMA RescanKeeps ==
  ASSUME DiscoveryInv, Rescan
  PROVE  DiscoveryInv'
<1>1. file = kept
  BY DEF DiscoveryInv, FilesOK, Rescan, LoadFails
<1>2. LoadRegistry \in Seq(Approvals)
  <2>1. CASE file = NoFile
    BY <2>1, ConfiguredAreWritten, NormalizedAllType DEF LoadRegistry, DiscoveryInv
  <2>2. CASE file # NoFile
    BY <1>1, <2>2, NormalizedAllIsKept DEF LoadRegistry, DiscoveryInv, FilesOK
  <2> QED BY <2>1, <2>2
<1>3. kept # NoFile => LoadRegistry = kept.entries
  BY <1>1, NormalizedAllIsKept DEF LoadRegistry, DiscoveryInv, FilesOK
<1>4. ManagerKept'
  BY <1>2, <1>3, ScanningBegins DEF Rescan
<1> QED BY <1>4 DEF DiscoveryInv, ManagerKept, FilesOK, Rescan

(* A step of the walk that leaves the report a good one and accounts for   *)
(* all that has been passed now.                                           *)
LEMMA WalkStepKeeps ==
  ASSUME DiscoveryInv, manager.up, NEW report, NEW files, NEW n \in Nat, NEW k \in Nat,
         manager' = [manager EXCEPT !.visit = At(n, k), !.report = report],
         scanned' = [scanned EXCEPT !.files = files],
         files = [m \in 1..Len(Walk) |-> files[m]],
         Scanned(report), AccountsFor(report, files, n, k),
         UNCHANGED <<world, today, config, file, kept>>
  PROVE  DiscoveryInv'
<1>1. manager \in Managers
  BY DEF DiscoveryInv, ManagerOK
<1>2. manager' = [up |-> TRUE, registry |-> manager.registry, approved |-> manager.approved,
                  visit |-> At(n, k), report |-> report]
  <2> DEFINE registry == manager.registry
             approved == manager.approved
             visit == manager.visit
             old == manager.report
  <2>1. manager = [up |-> TRUE, registry |-> registry, approved |-> approved,
                   visit |-> visit, report |-> old]
    BY <1>1, ManagerShape
  <2> HIDE DEF registry, approved, visit, old
  <2>2. manager' = [up |-> TRUE, registry |-> registry, approved |-> approved,
                    visit |-> At(n, k), report |-> report]
    BY <2>1
  <2> QED BY <2>2 DEF registry, approved
<1>3. manager' \in Managers
  <2>1. /\ At(n, k) \in Places /\ report \in Reports
        /\ manager.registry \in Seq(Approvals) /\ manager.approved \in Seq(Approvals)
    BY <1>1, ManagerShape, PlacesDiffer DEF Scanned
  <2> QED BY <1>2, <2>1 DEF Managers
<1>4. scanned' = [files |-> files, day |-> scanned.day]
  BY DEF DiscoveryInv
<1>5. scanned' = [files |-> [m \in 1..Len(Walk) |-> scanned'.files[m]], day |-> scanned'.day]
  BY <1>4
<1>6. ManagerOK'
  BY <1>2, <1>3 DEF DiscoveryInv, ManagerOK, Scanned
<1>7. WalkOK'
  <2> SUFFICES ASSUME NEW m \in Nat, NEW j \in Nat, manager'.visit = At(m, j)
               PROVE  /\ Unreconciled(manager'.report)
                      /\ AccountsFor(manager'.report, scanned'.files, m, j)
    BY DEF WalkOK
  <2>1. m = n /\ j = k
    BY <1>2, PlacesDiffer
  <2> QED BY <1>2, <1>4, <2>1 DEF Scanned
<1>8. ~Complete'
  BY <1>2, PlacesDiffer DEF Complete
<1>9. ReportFollowsRegistry' /\ NothingHidden'
  BY <1>8 DEF ReportFollowsRegistry, NothingHidden
<1>10. FilesOK'
  BY DEF DiscoveryInv, FilesOK
<1> QED BY <1>2, <1>5, <1>6, <1>7, <1>9, <1>10 DEF DiscoveryInv

(* In the middle of the walk.                                              *)
LEMMA WalkHolds ==
  ASSUME DiscoveryInv, manager.up, NEW n \in Nat, NEW k \in Nat, manager.visit = At(n, k)
  PROVE  Scanned(manager.report) /\ AccountsFor(manager.report, scanned.files, n, k)
  BY DEF DiscoveryInv, ManagerOK, WalkOK, Scanned, Managers

LEMMA VisitFileKeeps ==
  ASSUME DiscoveryInv, NEW n \in 1..Len(Walk), VisitFile(n)
  PROVE  DiscoveryInv'
<1> DEFINE files == [scanned.files EXCEPT ![n] = ConditionOf(n)]
           report == manager.report
<1>0. n \in Nat /\ n + 1 \in Nat /\ 0 \in Nat /\ 1 \in Nat
  OBVIOUS
<1>1. manager.up /\ manager \in Managers /\ manager.visit = At(n, 0)
  BY DEF DiscoveryInv, ManagerOK, VisitFile
<1>2. Scanned(report) /\ AccountsFor(report, scanned.files, n, 0)
  BY <1>0, <1>1, WalkHolds
<1>3. scanned.files = [m \in 1..Len(Walk) |-> scanned.files[m]]
  BY DEF DiscoveryInv
<1>4. /\ files = [m \in 1..Len(Walk) |-> files[m]]
      /\ files[n] = ConditionOf(n)
      /\ \A m \in 1..Len(Walk) : m # n => files[m] = scanned.files[m]
  BY <1>3
<1>5. scanned' = [scanned EXCEPT !.files = files]
  BY DEF VisitFile
<1> HIDE DEF files
<1>6. ASSUME NEW m \in 1..Len(Walk), NEW j \in 1..Len(Walk[m].finds), NEW k \in {0, 1},
             Passed(m, j, n, k)
      PROVE  m # n /\ Passed(m, j, n, 0) /\ files[m] = scanned.files[m]
  BY <1>4, <1>6 DEF Passed
<1>7. \A k \in {0, 1} : AccountsFor(report, files, n, k)
  BY <1>2, <1>6 DEF AccountsFor, Tells
<1>8. ASSUME NEW m \in 1..Len(Walk), NEW j \in 1..Len(Walk[m].finds), Passed(m, j, n + 1, 0)
      PROVE  m = n \/ (Passed(m, j, n, 0) /\ files[m] = scanned.files[m])
  BY <1>4, <1>8 DEF Passed
<1>9. CASE ConditionOf(n) = "absent" \/ Walk[n].skipped
  <2>1. AccountsFor(report, files, n + 1, 0)
    BY <1>2, <1>4, <1>8, <1>9 DEF AccountsFor, Tells
  <2>2. manager' = [manager EXCEPT !.visit = At(n + 1, 0), !.report = report]
    <3>1. manager' = [manager EXCEPT !.visit = At(n + 1, 0)]
      BY <1>9 DEF VisitFile
    <3> QED BY <1>1, <3>1, ManagerShape
  <2> QED BY <1>0, <1>1, <1>2, <1>4, <1>5, <2>1, <2>2, WalkStepKeeps DEF VisitFile
<1>10. CASE ConditionOf(n) = "unlisted" /\ ~Walk[n].skipped
  <2> DEFINE more == AddCoverageGap(report)
  <2>1. Scanned(more) /\ Partial(more)
    BY <1>2, AddCoverageGapKeeps
  <2>2. manager' = [manager EXCEPT !.visit = At(n + 1, 0), !.report = more]
    BY <1>10 DEF VisitFile
  <2> HIDE DEF more
  <2>3. AccountsFor(more, files, n + 1, 0)
    BY <2>1 DEF AccountsFor
  <2> QED BY <1>0, <1>1, <1>4, <1>5, <2>1, <2>2, <2>3, WalkStepKeeps DEF VisitFile
<1>11. CASE ~(ConditionOf(n) = "absent" \/ Walk[n].skipped) /\ ConditionOf(n) # "unlisted"
  <2>1. manager' = [manager EXCEPT !.visit = After(n, 0)]
    BY <1>11 DEF VisitFile
  <2>2. manager' = [manager EXCEPT !.visit = After(n, 0), !.report = report]
    BY <1>1, <2>1, ManagerShape
  <2>3. CASE 0 < Len(Walk[n].finds)
    <3>1. After(n, 0) = At(n, 1)
      BY <2>3 DEF After
    <3> QED BY <1>0, <1>1, <1>2, <1>4, <1>5, <1>7, <2>2, <3>1, WalkStepKeeps DEF VisitFile
  <2>4. CASE ~(0 < Len(Walk[n].finds))
    <3>1. After(n, 0) = At(n + 1, 0)
      BY <2>4 DEF After
    <3>2. AccountsFor(report, files, n + 1, 0)
      <4>1. Walk[n].finds \in Seq(Range(Walk[n].finds))
        BY WalkAssumption
      <4>2. Len(Walk[n].finds) = 0
        BY <2>4, <4>1
      <4>3. \A j \in 1..Len(Walk[n].finds) : FALSE
        BY <4>2
      <4> QED BY <1>2, <1>8, <4>3 DEF AccountsFor, Tells
    <3> QED BY <1>0, <1>1, <1>2, <1>4, <1>5, <2>2, <3>1, <3>2, WalkStepKeeps DEF VisitFile
  <2> QED BY <2>3, <2>4
<1> QED BY <1>9, <1>10, <1>11

LEMMA LookAtKeeps ==
  ASSUME DiscoveryInv, NEW n \in 1..Len(Walk), NEW k \in 1..Len(Walk[n].finds), LookAt(n, k)
  PROVE  DiscoveryInv'
<1> DEFINE report == manager.report
           more == VisitFind(report, Walk[n], ConditionOf(n), Look(n, k))
           files == scanned.files
<1>0. n \in Nat /\ n + 1 \in Nat /\ 0 \in Nat /\ k \in Nat /\ k + 1 \in Nat
  OBVIOUS
<1>1. manager.up /\ manager.visit = At(n, k)
  BY DEF LookAt
<1>2. Scanned(report) /\ AccountsFor(report, files, n, k)
  BY <1>0, <1>1, WalkHolds
<1>3. /\ Scanned(more) /\ Grows(report, more)
      /\ Tells(files, n, k) => Partial(more) \/ Listed(more, n, k)
  BY <1>2, VisitFindKeeps DEF Tells
<1>4. manager' = [manager EXCEPT !.visit = After(n, k), !.report = more]
  BY DEF LookAt, Look
<1>5. files = [m \in 1..Len(Walk) |-> files[m]] /\ scanned' = [scanned EXCEPT !.files = files]
  BY DEF DiscoveryInv, LookAt
<1> HIDE DEF more, files
<1>6. ASSUME NEW m \in 1..Len(Walk), NEW j \in 1..Len(Walk[m].finds), Tells(files, m, j),
             Passed(m, j, n, k) \/ (m = n /\ j = k)
      PROVE  Partial(more) \/ Listed(more, m, j)
  <2>1. CASE m = n /\ j = k
    BY <1>3, <1>6, <2>1
  <2>2. CASE Passed(m, j, n, k)
    BY <1>2, <1>3, <1>6, <2>2 DEF AccountsFor, Grows, Listed
  <2> QED BY <1>6, <2>1, <2>2
<1>7. CASE k < Len(Walk[n].finds)
  <2>1. After(n, k) = At(n, k + 1)
    BY <1>7 DEF After
  <2>2. \A m \in 1..Len(Walk) : \A j \in 1..Len(Walk[m].finds) :
          Passed(m, j, n, k + 1) => Passed(m, j, n, k) \/ (m = n /\ j = k)
    BY DEF Passed
  <2>3. AccountsFor(more, files, n, k + 1)
    BY <1>6, <2>2 DEF AccountsFor
  <2> QED BY <1>0, <1>1, <1>3, <1>4, <1>5, <2>1, <2>3, WalkStepKeeps DEF LookAt
<1>8. CASE ~(k < Len(Walk[n].finds))
  <2>1. After(n, k) = At(n + 1, 0)
    BY <1>8 DEF After
  <2>2. k = Len(Walk[n].finds)
    <3>1. Walk[n].finds \in Seq(Range(Walk[n].finds))
      BY WalkAssumption
    <3> QED BY <1>8, <3>1
  <2>3. \A m \in 1..Len(Walk) : \A j \in 1..Len(Walk[m].finds) :
          Passed(m, j, n + 1, 0) => Passed(m, j, n, k) \/ (m = n /\ j = k)
    BY <2>2 DEF Passed
  <2>4. AccountsFor(more, files, n + 1, 0)
    BY <1>6, <2>3 DEF AccountsFor
  <2> QED BY <1>0, <1>1, <1>3, <1>4, <1>5, <2>1, <2>4, WalkStepKeeps DEF LookAt
<1> QED BY <1>7, <1>8

(* The first approval that covers an agent, if there is one, approves it.  *)
LEMMA ReconciledIsCovered ==
  ASSUME NEW a \in Agents, NEW registry \in Seq(Approvals), NEW day,
         a.status = governanceStatus(a.state), a.approval = NoId
  PROVE  LET r == Reconciled(a, registry, day) IN
           /\ r \in Agents
           /\ r.project = a.project /\ r.type = a.type /\ r.state = a.state
           /\ r.state = "configured" => r.status \in {"shadow", "approved"}
           /\ IF r.status = "approved"
              THEN \E i \in 1..Len(registry) :
                     /\ registry[i].id = r.approval /\ Covers(registry[i], r, day)
              ELSE r.approval = NoId
<1> DEFINE covering == {i \in 1..Len(registry) : Covers(registry[i], a, day)}
           first == CHOOSE i \in covering : \A j \in covering : i <= j
           r == Reconciled(a, registry, day)
<1> DEFINE project == a.project
           type == a.type
           state == a.state
           status == a.status
           approval == a.approval
           evidence == a.evidence
           With(s, p) == [project |-> project, type |-> type, state |-> state, status |-> s,
                          approval |-> p, evidence |-> evidence]
<1>1. a = With(status, approval)
  BY DEF Agents
<1>2. ASSUME NEW s, NEW x, x = [a EXCEPT !.status = s]
      PROVE  x = With(s, a.approval)
  <2>1. a.approval = approval
    OBVIOUS
  <2> HIDE DEF project, type, state, status, approval, evidence
  <2>2. x = With(s, approval)
    BY <1>1, <1>2
  <2> QED BY <2>1, <2>2
<1>3. ASSUME NEW s, NEW p, NEW x, x = [a EXCEPT !.status = s, !.approval = p]
      PROVE  x = With(s, p)
  <2> HIDE DEF project, type, state, status, approval, evidence
  <2> QED BY <1>1, <1>3
<1>5. a.status \in {"shadow", "unassessed"} /\ (a.state = "configured" => a.status = "shadow")
  BY DEF governanceStatus
<1>6. CASE a.state = "available"
  <2>1. r = [project |-> a.project, type |-> a.type, state |-> a.state,
             status |-> "unassessed", approval |-> a.approval, evidence |-> a.evidence]
    BY <1>2, <1>6 DEF Reconciled
  <2> HIDE DEF r
  <2>2. r \in Agents
    BY <2>1 DEF Agents
  <2> QED BY <1>6, <2>1, <2>2 DEF r
<1>7. CASE a.state # "available" /\ covering = {}
  <2>1. r = a
    BY <1>7 DEF Reconciled
  <2> HIDE DEF r
  <2> QED BY <1>5, <2>1 DEF r
<1>8. CASE a.state # "available" /\ covering # {}
  <2>1. \E i \in covering : \A j \in covering : i <= j
    <3>1. covering \in SUBSET (1..Len(registry)) /\ Len(registry) \in Nat
      OBVIOUS
    <3> HIDE DEF covering
    <3> QED BY <1>8, <3>1, EndsOfPositions
  <2>2. first \in covering
    <3> HIDE DEF covering
    <3> QED BY <2>1
  <2>3. first \in 1..Len(registry) /\ Covers(registry[first], a, day)
    BY <2>2
  <2>4. r = [a EXCEPT !.status = "approved", !.approval = registry[first].id]
    BY <1>8 DEF Reconciled
  <2> HIDE DEF first, covering
  <2>5. r = [project |-> a.project, type |-> a.type, state |-> a.state,
             status |-> "approved", approval |-> registry[first].id, evidence |-> a.evidence]
    BY <1>3, <2>4
  <2>6. registry[first].id \in {e.id : e \in Approvals}
    BY <2>3
  <2> HIDE DEF r
  <2>7. r \in Agents
    BY <2>5, <2>6 DEF Agents
  <2>8. Covers(registry[first], r, day)
    BY <2>3, <2>5 DEF Covers
  <2> QED BY <2>3, <2>5, <2>7, <2>8 DEF r
<1> QED BY <1>6, <1>7, <1>8

LEMMA ReconcileKeeps ==
  ASSUME DiscoveryInv, Reconcile
  PROVE  DiscoveryInv'
<1> DEFINE report == manager.report
           registry == manager.registry
           agents == {Reconciled(a, manager.approved, today) : a \in report.agents}
<1>1. /\ manager.up /\ manager \in Managers /\ Bounded(report)
      /\ manager.approved = registry /\ (kept # NoFile => registry = kept.entries)
  BY DEF DiscoveryInv, ManagerOK, Reconcile
<1>2. Scanned(report) /\ AccountsFor(report, scanned.files, Len(Walk) + 1, 0)
  <2>1. Len(Walk) + 1 \in Nat /\ 0 \in Nat
    BY WalkAssumption
  <2> QED BY <1>1, <2>1, WalkHolds DEF Reconcile
<1>3. report \in Reports /\ report.agents \in SUBSET Agents /\ registry \in Seq(Approvals)
  BY <1>1, <1>2, ManagerShape, ReportShape DEF Scanned
<1>4. manager' = [up |-> TRUE, registry |-> registry, approved |-> registry, visit |-> Done,
                  report |-> [agents |-> agents, gaps |-> report.gaps,
                              gapCount |-> report.gapCount, truncated |-> report.truncated]]
  <2> DEFINE old == report.agents
             gaps == report.gaps
             gapCount == report.gapCount
             truncated == report.truncated
             visit == manager.visit
  <2>1. manager = [up |-> TRUE, registry |-> registry, approved |-> registry, visit |-> visit,
                   report |-> report]
    BY <1>1, ManagerShape
  <2>2. report = [agents |-> old, gaps |-> gaps, gapCount |-> gapCount, truncated |-> truncated]
    BY <1>3, ReportShape
  <2>3. manager' = [manager EXCEPT !.visit = Done, !.report.agents = agents]
    BY DEF Reconcile
  <2> HIDE DEF old, gaps, gapCount, truncated, visit, registry, agents
  <2>4. [report EXCEPT !.agents = agents] =
          [agents |-> agents, gaps |-> gaps, gapCount |-> gapCount, truncated |-> truncated]
    <3> HIDE DEF report
    <3> QED BY <2>2
  <2>5. manager' = [up |-> TRUE, registry |-> registry, approved |-> registry, visit |-> Done,
                    report |-> [report EXCEPT !.agents = agents]]
    <3> HIDE DEF report
    <3> QED BY <2>1, <2>3
  <2> QED BY <2>4, <2>5 DEF gaps, gapCount, truncated
<1>5. scanned' = [files |-> [n \in 1..Len(Walk) |-> scanned.files[n]], day |-> today]
  BY DEF Reconcile, DiscoveryInv
<1>6. ASSUME NEW a \in report.agents
      PROVE  LET r == Reconciled(a, registry, today) IN
               /\ r \in Agents
               /\ r.project = a.project /\ r.type = a.type /\ r.state = a.state
               /\ r.state = "configured" => r.status \in {"shadow", "approved"}
               /\ IF r.status = "approved"
                  THEN \E i \in 1..Len(registry) :
                         /\ registry[i].id = r.approval /\ Covers(registry[i], r, today)
                  ELSE r.approval = NoId
  <2>1. a \in Agents /\ a.status = governanceStatus(a.state) /\ a.approval = NoId
    BY <1>2, <1>3 DEF Scanned, Unreconciled
  <2> HIDE DEF registry
  <2> QED BY <1>3, <2>1, ReconciledIsCovered
<1>7. agents = {Reconciled(a, registry, today) : a \in report.agents}
  BY <1>1
<1>8. IsFiniteSet(agents) /\ Cardinality(agents) <= Cardinality(report.agents)
  <2> DEFINE image == [a \in report.agents |-> Reconciled(a, registry, today)]
  <2>1. image \in Surjection(report.agents, agents)
    BY <1>7 DEF Surjection
  <2>2. IsFiniteSet(report.agents)
    BY <1>1 DEF Bounded
  <2> HIDE DEF image, agents
  <2> QED BY <2>1, <2>2, FS_Surjection
<1>9. agents \in SUBSET Agents
  BY <1>6, <1>7
<1> HIDE DEF agents
<1>10. manager' \in Managers
  BY <1>3, <1>4, <1>9, ReportShape DEF Managers, Reports, Places
<1>11. ManagerOK'
  <2>1. /\ Cardinality(agents) \in Nat /\ Cardinality(report.agents) \in Nat
        /\ Cardinality(report.agents) <= MaxFindings
    BY <1>1, <1>8, FS_CardinalityType DEF Bounded
  <2>2. Cardinality(agents) <= MaxFindings
    BY <1>8, <2>1, DiscoveryAssumption
  <2>3. Bounded(manager'.report)
    BY <1>1, <1>4, <1>8, <2>2 DEF Bounded
  <2>4. kept' = kept
    BY DEF Reconcile
  <2> QED BY <1>1, <1>4, <1>10, <2>3, <2>4 DEF ManagerOK
<1>12. WalkOK'
  BY <1>4, PlacesDiffer DEF WalkOK
<1>13. ReportFollowsRegistry'
  <2> SUFFICES ASSUME NEW r \in agents
               PROVE  IF r.status = "approved"
                      THEN \E i \in 1..Len(registry) :
                             /\ registry[i].id = r.approval /\ Covers(registry[i], r, today)
                      ELSE r.approval = NoId
    BY <1>4, <1>5 DEF ReportFollowsRegistry, Covers, approvalIsActive
  <2>1. PICK a \in report.agents : r = Reconciled(a, registry, today)
    BY <1>7
  <2> QED BY <1>6, <2>1
<1>14. NothingHidden'
  <2> SUFFICES ASSUME ~Partial(report), NEW n \in 1..Len(Walk),
                      NEW k \in 1..Len(Walk[n].finds), Tells(scanned.files, n, k)
               PROVE  \E r \in agents :
                        /\ r.project = Walk[n].project /\ r.type = Look(n, k).type
                        /\ r.state = "configured" /\ r.status \in {"shadow", "approved"}
    BY <1>4, <1>5 DEF NothingHidden, Partial, Tells, Look
  <2>1. Passed(n, k, Len(Walk) + 1, 0)
    BY WalkAssumption DEF Passed
  <2>2. Listed(report, n, k)
    BY <1>2, <2>1 DEF AccountsFor
  <2>3. PICK a \in report.agents :
          a.project = Walk[n].project /\ a.type = Look(n, k).type /\ a.state = "configured"
    BY <2>2 DEF Listed, IsConfigured
  <2>4. Reconciled(a, registry, today) \in agents
    BY <1>7
  <2> QED BY <1>6, <2>3, <2>4
<1>15. FilesOK' /\ today' \in 0..MaxDay /\ config' \in Configs /\ world' \in Worlds
  BY DEF DiscoveryInv, FilesOK, Reconcile
<1>16. scanned' = [files |-> [n \in 1..Len(Walk) |-> scanned'.files[n]], day |-> scanned'.day]
  BY <1>5
<1> QED BY <1>4, <1>11, <1>12, <1>13, <1>14, <1>15, <1>16 DEF DiscoveryInv

LEMMA StopKeeps ==
  ASSUME DiscoveryInv, Stop
  PROVE  DiscoveryInv'
<1>1. manager' = Down /\ ~manager'.up
  BY DEF Stop, Down
<1>2. ManagerOK' /\ WalkOK' /\ ReportFollowsRegistry' /\ NothingHidden'
  BY <1>1 DEF ManagerOK, WalkOK, ReportFollowsRegistry, NothingHidden, Complete
<1>3. FilesOK'
  <2>1. CASE UNCHANGED <<file, kept>>
    BY <2>1 DEF DiscoveryInv, FilesOK
  <2>2. ASSUME NEW e \in Entries, SaveRegistry(WithEntry(manager.registry, Normalized(e)))
        PROVE  FilesOK'
    <3>1. manager.registry \in Seq(Approvals) /\ Normalized(e) \in Approvals
      BY ManagerShape DEF DiscoveryInv, ManagerOK, Stop, Approvals, Written
    <3> QED BY <2>2, <3>1, WithEntryType, SaveRegistryKeeps
  <2> QED BY <2>1, <2>2 DEF Stop
<1> QED BY <1>1, <1>2, <1>3 DEF DiscoveryInv, Stop

(* What goes on around the server changes nothing the invariant is about.  *)
LEMMA SurroundingsKeep ==
  ASSUME DiscoveryInv, UNCHANGED <<file, manager, scanned, kept>>,
         today' \in 0..MaxDay, config' \in Configs, world' \in Worlds
  PROVE  DiscoveryInv'
  BY DEF DiscoveryInv, FilesOK, ManagerOK, WalkOK, ReportFollowsRegistry, NothingHidden, Complete

LEMMA DiscoveryNextKeeps ==
  ASSUME DiscoveryInv, [DiscoveryNext]_discoveryVars
  PROVE  DiscoveryInv'
<1>1. CASE Rescan
  BY <1>1, RescanKeeps
<1>2. CASE ScanStep
  BY <1>2, VisitFileKeeps, LookAtKeeps, ReconcileKeeps DEF ScanStep
<1>3. CASE Stop
  BY <1>3, StopKeeps
<1>4. ASSUME NEW e \in Entries, SaveApproval(e) PROVE DiscoveryInv'
  <2>1. manager.registry \in Seq(Approvals) /\ Normalized(e) \in Approvals
    BY <1>4, ManagerShape DEF DiscoveryInv, ManagerOK, SaveApproval, Complete, Approvals, Written
  <2> QED BY <1>4, <2>1, WithEntryType, SaveKeeps DEF SaveApproval
<1>5. ASSUME NEW id, DeleteApproval(id) PROVE DiscoveryInv'
  <2>1. manager.registry \in Seq(Approvals)
    BY <1>5, ManagerShape DEF DiscoveryInv, ManagerOK, DeleteApproval, Complete
  <2> QED BY <1>5, <2>1, WithoutIdRemoves, SaveKeeps DEF DeleteApproval
<1>6. CASE WorldChanges
  BY <1>6, SurroundingsKeep DEF WorldChanges, DiscoveryInv
<1>7. CASE DayPasses
  BY <1>7, SurroundingsKeep, DiscoveryAssumption DEF DayPasses, DiscoveryInv
<1>8. CASE ConfigEdited
  BY <1>8, SurroundingsKeep DEF ConfigEdited, DiscoveryInv
<1>9. CASE UNCHANGED discoveryVars
  BY <1>9, SurroundingsKeep DEF discoveryVars, DiscoveryInv
<1> QED BY <1>1, <1>2, <1>3, <1>4, <1>5, <1>6, <1>7, <1>8, <1>9 DEF DiscoveryNext

(* The invariant holds throughout, in the middle of a scan, too            *)
(* (scanner.go:33-193, manager.go:59-154).                                 *)
THEOREM DiscoveryInvariant == DiscoverySpec => []DiscoveryInv
<1>1. DiscoveryInit => DiscoveryInv
  BY DiscoveryInitHolds
<1>2. DiscoveryInv /\ [DiscoveryNext]_discoveryVars => DiscoveryInv'
  BY DiscoveryNextKeeps
<1> QED BY <1>1, <1>2, PTL DEF DiscoverySpec

-----------------------------------------------------------------------------
(* What the runs check, for every walk, registry and configuration.        *)

(* Identifiers and states are filled in and the report keeps its limits    *)
(* (registry.go:114-146, scanner.go:129-158, addCoverageGap).              *)
THEOREM DiscoveryTypes == DiscoverySpec => []DiscoveryTypeOK
<1>1. DiscoveryInv => DiscoveryTypeOK
  <2> SUFFICES ASSUME DiscoveryInv PROVE DiscoveryTypeOK
    OBVIOUS
  <2>1. \A f \in {file, kept} : f.is \in {"absent", "cut", "registry"}
    BY DEF DiscoveryInv, FilesOK, NoFile, Cut, FileOf
  <2>2. manager.up => /\ manager.registry \in Seq(Approvals)
                      /\ Cardinality(manager.report.agents) <= MaxFindings
                      /\ manager.report.gaps <= MaxGaps
    BY ManagerShape DEF DiscoveryInv, ManagerOK, Bounded
  <2>3. ASSUME manager.up, NEW i \in 1..Len(manager.registry)
        PROVE  manager.registry[i].id # NoId /\ manager.registry[i].state # ""
    <3>1. manager.registry[i] \in Approvals
      BY <2>2, <2>3
    <3> QED BY <3>1, ApprovalsAreNormal
  <2> QED BY <2>1, <2>2, <2>3 DEF DiscoveryTypeOK, DiscoveryInv
<1> QED BY <1>1, DiscoveryInvariant, PTL

(* An agent is called approved by an entry the manager has (manager.go:58-136). *)
THEOREM ReportsFollowRegistry == DiscoverySpec => []ReportFollowsRegistry
<1>1. DiscoveryInv => ReportFollowsRegistry
  BY DEF DiscoveryInv
<1> QED BY <1>1, DiscoveryInvariant, PTL

(* A configured agent is reported or the report is a partial one, however  *)
(* many files there are and whatever happens to them during the walk       *)
(* (scanner.go:36-158).                                                    *)
THEOREM NothingIsHidden == DiscoverySpec => []NothingHidden
<1>1. DiscoveryInv => NothingHidden
  BY DEF DiscoveryInv
<1> QED BY <1>1, DiscoveryInvariant, PTL

(* The registry of a running manager is the one last put in place          *)
(* (manager.go:81-84, 109-112, 118-131).                                   *)
THEOREM RegistryStaysAsSaved == DiscoverySpec => []RegistryIsAsSaved
<1>1. DiscoveryInv => RegistryIsAsSaved
  BY DEF DiscoveryInv, ManagerOK, RegistryIsAsSaved
<1> QED BY <1>1, DiscoveryInvariant, PTL

(* After a deletion no approval has the identifier (manager.go:93-117).    *)
THEOREM DeletionIsComplete ==
  DiscoverySpec =>
    [][\A id : DeleteApproval(id) =>
         \A i \in 1..Len(manager'.registry) : manager'.registry[i].id # id]_discoveryVars
<1>1. ASSUME DiscoveryInv, NEW id, DeleteApproval(id)
      PROVE  \A i \in 1..Len(manager'.registry) : manager'.registry[i].id # id
  <2>1. manager.registry \in Seq(Approvals)
    BY <1>1, ManagerShape DEF DiscoveryInv, ManagerOK, DeleteApproval, Complete
  <2>2. manager'.registry = WithoutId(manager.registry, id)
    BY <1>1 DEF DeleteApproval, Save, Scanning
  <2> QED BY <2>1, <2>2, WithoutIdRemoves
<1> DEFINE Gone == \A id : DeleteApproval(id) =>
             \A i \in 1..Len(manager'.registry) : manager'.registry[i].id # id
<1>2. DiscoveryInv => Gone
  BY <1>1
<1> HIDE DEF Gone
<1>3. DiscoverySpec => [][Gone]_discoveryVars
  BY <1>2, DiscoveryInvariant, PTL
<1> QED BY <1>3 DEF Gone

(* Where no write of the temporary file fails, an approval that was saved  *)
(* can be loaded by the next server, whatever ends in between: the lost    *)
(* error is the only way to a registry that cannot (registry.go:34-65).    *)
THEOREM SavedIsLoadedUnlessWritesFail ==
  ASSUME ~WritesFail
  PROVE  DiscoverySpec => []SavedCanBeLoaded
<1> DEFINE Whole == file = kept
<1>1. DiscoveryInit => Whole
  BY DEF DiscoveryInit
<1>2. Whole /\ [DiscoveryNext]_discoveryVars => Whole'
  <2> SUFFICES ASSUME Whole, [DiscoveryNext]_discoveryVars PROVE Whole'
    OBVIOUS
  <2>1. ASSUME NEW entries, SaveRegistry(entries) PROVE Whole'
    BY <2>1 DEF SaveRegistry
  <2>2. ASSUME UNCHANGED <<file, kept>> PROVE Whole'
    BY <2>2
  <2>3. CASE Stop
    BY <2>1, <2>2, <2>3 DEF Stop
  <2>4. ASSUME NEW entries, Save(entries) PROVE Whole'
    BY <2>1, <2>4 DEF Save
  <2>5. CASE ScanStep
    <3>1. ASSUME NEW n, VisitFile(n) PROVE Whole'
      BY <2>2, <3>1 DEF VisitFile
    <3>2. ASSUME NEW n, NEW k, LookAt(n, k) PROVE Whole'
      BY <2>2, <3>2 DEF LookAt
    <3>3. CASE Reconcile
      BY <2>2, <3>3 DEF Reconcile
    <3> HIDE DEF Whole
    <3> QED BY <2>5, <3>1, <3>2, <3>3 DEF ScanStep
  <2> HIDE DEF Whole
  <2> QED BY <2>2, <2>3, <2>4, <2>5
       DEF DiscoveryNext, Rescan, SaveApproval, DeleteApproval, WorldChanges, DayPasses,
           ConfigEdited, discoveryVars
<1>3. DiscoveryInv /\ Whole => SavedCanBeLoaded
  BY DEF DiscoveryInv, FilesOK, SavedCanBeLoaded, LoadFails, Cut, FileOf
<1> QED BY <1>1, <1>2, <1>3, DiscoveryInvariant, PTL DEF DiscoverySpec

=============================================================================
