----------------------------- MODULE MCDecisions ------------------------------
(***************************************************************************)
(* Three questions asked one at a time: decisions about a payment and a    *)
(* file, sessions of advisory detection, and the canonical form of         *)
(* numbers.                                                                *)
(***************************************************************************)
EXTENDS Decisions, Detection, Numbers

VARIABLE running   \* which of them

-----------------------------------------------------------------------------
(* Decisions: one agent that may pay and write.                            *)
ThePayment ==
  [tool |-> "payment.send", profile |-> "payment.send/v1", capability |-> "pay",
   resource |-> "ledger", operation |-> "send", audience |-> "bank", upstream |-> "bank",
   plainUpstream |-> TRUE, currencies |-> {"EUR"}, limits |-> [c \in {"EUR"} |-> 20],
   recipients |-> {"bob"}, argumentBytes |-> 2]

TheWorkspace ==
  [tool |-> "workspace.write", profile |-> "workspace.write/v1", capability |-> "edit",
   resource |-> "files", operation |-> "write", audience |-> "editor", upstream |-> "editor",
   plainUpstream |-> TRUE, maxPathBytes |-> 2, maxContentBytes |-> 3]

Lower == [label \in {"Write"} |-> "write"]

Nothing ==
  [network |-> None, secret |-> None, write |-> None, sideEffects |-> NotGiven,
   maxBytes |-> 0, maxDuration |-> 0]

Everything(effects, bytes, duration) ==
  [network |-> "allow", secret |-> "deny", write |-> "allow", sideEffects |-> Given(effects),
   maxBytes |-> bytes, maxDuration |-> duration]

Grant(profile, base, onResource, route) ==
  [tools |-> <<profile.tool>>, scopes |-> {profile.capability}, route |-> route,
   constraints |-> base,
   resources |-> [r \in {profile.resource} |->
     [operations |-> <<profile.operation, "Write">>, scopes |-> {}, constraints |-> onResource]]]

PolicyOf(pay, edit) ==
  [agents |-> [a \in {"agent"} |->
     [workloads |-> {"agent", "workload"}, deniedResources |-> {"vault"}, allowedCapabilities |-> {"read"},
      capabilities |-> [c \in {"pay", "edit"} |-> IF c = "pay" THEN pay ELSE edit]]],
   resources |-> [r \in {"ledger", "files", "vault"} |->
     [scopes |-> IF r = "ledger" THEN {"money"} ELSE {}]],
   prohibited |-> {"wipe"}, legacyRequests |-> TRUE, missingTool |-> TRUE,
   missingOperation |-> TRUE]

SomePolicies ==
  {PolicyOf(Grant(ThePayment, Everything({"financial_transaction"}, 4, 0), Nothing, None),
            Grant(TheWorkspace, Everything({}, 0, 3),
                  [Nothing EXCEPT !.sideEffects = Given({"logical_workspace_write"}),
                                  !.maxBytes = 2], "allow")),
   PolicyOf(Grant(ThePayment, Everything({"financial_transaction"}, 0, 0),
                  [Nothing EXCEPT !.network = "deny"], None),
            Grant(TheWorkspace, Everything({"logical_workspace_write"}, 0, 0), Nothing,
                  "restrict"))}

Integer(whole) == Number(Literal(FALSE, whole, <<>>, 0, FALSE))
Written(name, value) == [key |-> Key(name, TRUE), value |-> value]
Capitals(name, value) == [key |-> Key(name, FALSE), value |-> value]

Pay(amount) ==
  <<Written("amount_minor", amount), Written("currency", String("EUR")),
    Written("recipient", String("bob"))>>

Payments ==
  {Pay(Integer(<<5>>)), Reverse(Pay(Integer(<<5>>))), Pay(Integer(<<1, 0>>)),
   Pay(Integer(<<5>>)) \o <<Capitals("amount_minor", Integer(<<9>>))>>,
   Pay(Integer(<<5>>)) \o <<Capitals("amount_minor", Null)>>,
   Pay(Integer(<<5>>)) \o <<Written("amount_minor", Integer(<<9>>))>>,
   Pay(Integer(<<5>>)) \o <<Written("memo", HalfPair)>>,
   Pay(Integer(<<2, 1>>)), Pay(Integer(<<0>>)),
   Pay(Number(Literal(FALSE, <<1>>, <<>>, 1, TRUE))), <<>>}

Path(segments) == [segments |-> segments, bytes |-> Len(segments), odd |-> FALSE]

Write(segments, bytes) ==
  <<Written("path", String(Path(segments))), Written("content", String([bytes |-> bytes]))>>

Writes ==
  {Write(<<"a", "b">>, 2), Write(<<"a">>, 3), Write(<<"..">>, 1), Write(<<"a">>, 4),
   Write(<<"a">>, 1) \o <<Capitals("content", String([bytes |-> 2]))>>}

NoFlat == [user |-> None, agent |-> None, scopes |-> {}, tool |-> None,
           capability |-> None, resource |-> None]

Request(profile, arguments) ==
  [principal |-> "alice", agent |-> "agent", workload |-> "workload", fingerprint |-> "print",
   scopes |-> {"pay", "edit", "money"}, issuer |-> None, subject |-> None, expires |-> NotGiven,
   tool |-> profile.tool, capability |-> profile.capability, resource |-> profile.resource,
   operation |-> profile.operation, profile |-> None, audience |-> None, external |-> TRUE,
   sideEffect |-> None, bytes |-> 1, access |-> NotGiven, arguments |-> arguments,
   flat |-> NoFlat]

APayment == Request(ThePayment, Pay(Integer(<<5>>)))
AWrite == Request(TheWorkspace, Write(<<"a">>, 1))

FlatRequest ==
  [Request([tool |-> None, capability |-> None, resource |-> None, operation |-> None], <<>>)
     EXCEPT !.principal = None, !.agent = None, !.workload = None, !.fingerprint = None,
            !.scopes = {}, !.external = FALSE,
            !.flat = [NoFlat EXCEPT !.user = "alice", !.agent = "agent", !.scopes = {"pay", "money"},
                                    !.capability = "read", !.resource = "files"]]

SomeProposals ==
  {Request(ThePayment, a) : a \in Payments} \cup {Request(TheWorkspace, a) : a \in Writes}
    \cup {FlatRequest,
          [FlatRequest EXCEPT !.issuer = "mallory"],
          [APayment EXCEPT !.principal = "mallory", !.scopes = {"all"}, !.issuer = "mallory"],
          [APayment EXCEPT !.operation = None,
                           !.access = Given([operation |-> "send", bytes |-> 3]), !.bytes = 0],
          [APayment EXCEPT !.sideEffect = "process_execution"],
          [APayment EXCEPT !.bytes = 5], [APayment EXCEPT !.audience = "editor"],
          [APayment EXCEPT !.tool = BadLabel], [AWrite EXCEPT !.resource = "vault"]}

Headers(scopes) ==
  [principal |-> <<"alice">>, agent |-> <<"agent">>, workload |-> <<"workload">>,
   fingerprint |-> <<"print">>, key |-> <<"key">>, thumbprint |-> <<"sha256">>,
   scopes |-> <<scopes>>]

SomePeers ==
  {[address |-> "trusted proxy", headers |-> Headers(<<"pay", "edit", "money">>)],
   [address |-> "trusted proxy", headers |-> Headers(<<"pay">>)],
   [address |-> "trusted proxy", headers |-> Headers(<<"pay", "pay">>)],
   [address |-> "trusted proxy",
    headers |-> [Headers(<<"edit">>) EXCEPT !.agent = <<"agent", "other">>]],
   [address |-> "trusted proxy",
    headers |-> [Headers(<<"edit">>) EXCEPT !.thumbprint = <<>>]],
   [address |-> "elsewhere", headers |-> Headers(<<"pay", "edit", "money">>)]}

SomeFixtures ==
  {APayment, [APayment EXCEPT !.bytes = 5], [AWrite EXCEPT !.sideEffect = "logical_workspace_write",
                                                           !.expires = Given(3)],
   [AWrite EXCEPT !.operation = "Write"],
   FlatRequest, [FlatRequest EXCEPT !.issuer = "mallory"], [FlatRequest EXCEPT !.flat.capability = "pay", !.flat.resource = "ledger"],
   [FlatRequest EXCEPT !.flat.resource = "vault"]}

Call(profile, arguments) ==
  [post |-> TRUE, ambiguous |-> FALSE, version |-> ModernVersion, method |-> "tools/call",
   methodHeader |-> "tools/call", name |-> profile.tool, nameHeader |-> profile.tool,
   metaVersion |-> ModernVersion, otherParams |-> FALSE, arguments |-> arguments,
   key |-> [id |-> "key", thumbprint |-> "sha256"],
   headers |-> [principal |-> "alice", agent |-> "agent", workload |-> "workload",
                fingerprint |-> "print", capability |-> profile.capability,
                resource |-> profile.resource, operation |-> profile.operation,
                profile |-> None, audience |-> None]]

ACall == Call(ThePayment, Pay(Integer(<<5>>)))

SomeCalls ==
  {Call(ThePayment, a) : a \in Payments} \cup {Call(TheWorkspace, a) : a \in Writes}
    \cup {[ACall EXCEPT !.nameHeader = "workspace.write"], [ACall EXCEPT !.key.id = "other"],
          [ACall EXCEPT !.key.thumbprint = "other"],
          [ACall EXCEPT !.headers.principal = "mallory"], [ACall EXCEPT !.otherParams = TRUE],
          [ACall EXCEPT !.version = OlderVersion, !.metaVersion = 0, !.nameHeader = None],
          [ACall EXCEPT !.method = "tools/list", !.methodHeader = "tools/list"],
          [ACall EXCEPT !.method = "tools/list", !.methodHeader = "tools/list",
                        !.nameHeader = "workspace.write"],
          [ACall EXCEPT !.method = "ping", !.methodHeader = "ping"],
          [ACall EXCEPT !.version = ModernVersion + 1]}

-----------------------------------------------------------------------------
(* Detection: a protected read, an instruction found, a changed tool, a    *)
(* plain step and a send, in any order and with any cause.                 *)
Step ==
  [id |-> "a", session |-> "s", parent |-> None, sensitivity |-> "low", lacksScope |-> FALSE,
   sensitive |-> FALSE, prohibited |-> FALSE, external |-> FALSE, changes |-> FALSE,
   protected |-> FALSE, reads |-> FALSE, egressCapability |-> FALSE,
   effectCapability |-> FALSE, poisoned |-> FALSE, vouched |-> FALSE, drift |-> FALSE]

ProtectedRead == [Step EXCEPT !.protected = TRUE, !.reads = TRUE, !.sensitivity = "high"]
Retrieval == [Step EXCEPT !.poisoned = TRUE]
Send == [Step EXCEPT !.external = TRUE, !.changes = TRUE, !.sensitive = TRUE]

With(step, ids, parents) == {[step EXCEPT !.id = i, !.parent = p] : i \in ids, p \in parents}

SomeSteps ==
  With(ProtectedRead, {"a", "b"}, {None}) \cup With(Retrieval, {"a"}, {None})
    \cup With(Step, {"b", "c"}, {None, "a", "b"}) \cup With(Send, {"c", "d"}, {None, "a", "b", "c"})
    \cup {[Send EXCEPT !.id = "d", !.vouched = TRUE, !.session = None],
          [Retrieval EXCEPT !.id = "d", !.egressCapability = TRUE],
          [Step EXCEPT !.id = "d", !.drift = TRUE, !.lacksScope = TRUE, !.prohibited = TRUE]}

-----------------------------------------------------------------------------
(* Numbers: some digits before and after the point, all exponents.         *)
Wholes == {<<0>>, <<1>>, <<2>>, <<1, 0>>, <<2, 0>>, <<1, 2>>}
Fractions == {<<>>, <<0>>, <<1>>, <<1, 0>>}

SomeLiterals ==
  {Literal(n, w, f, e, TRUE) : n \in BOOLEAN, w \in Wholes, f \in Fractions,
                               e \in -(MaxExponent + 1)..(MaxExponent + 1)}

-----------------------------------------------------------------------------
MCInit ==
  /\ running \in {"decisions", "detection", "numbers"}
  /\ DecisionsInit /\ DetectionInit /\ NumbersInit
  /\ (running # "decisions" => policy = CHOOSE p \in Policies : TRUE)
  /\ (running # "numbers" =>
        literal = CHOOSE n \in Literals : normalizeJSONNumber(n) = Rejected)

MCNext ==
  /\ \/ running = "decisions" /\ DecisionsNext /\ UNCHANGED <<detectionVars, literal>>
     \/ running = "detection" /\ DetectionNext /\ UNCHANGED <<decisionVars, literal>>
     \/ running = "numbers" /\ NumbersNext /\ UNCHANGED <<decisionVars, detectionVars>>
  /\ UNCHANGED running

MCSpec == MCInit /\ [][MCNext]_<<decisionVars, detectionVars, running, literal>>

=============================================================================
