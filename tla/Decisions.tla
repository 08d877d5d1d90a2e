------------------------------ MODULE Decisions -------------------------------
(***************************************************************************)
(* What is decided about one action between the client and the upstream,   *)
(* with the data the other modules leave to choice: the trusted intake     *)
(* (src/internal/intake), the router's authorization with its two          *)
(* questions to the policy and the lifetime of the permit                  *)
(* (src/internal/router/router.go), and the MCP proxy's reading of a call  *)
(* (src/internal/adapters/mcp/proxy.go).  Gateway has the concurrency,     *)
(* here one permit is issued and used at a time; what is refused leaves    *)
(* everything as it was.                                                   *)
(***************************************************************************)
EXTENDS Policy, SemanticAction

CONSTANTS
  Policies,    \* policy files, one of them loaded at start-up
  Proposals,   \* bodies of authorization requests
  Peers,       \* their connections: an address and the identity headers
  Fixtures,    \* requests of the server's own demonstration
  Calls,       \* requests to the MCP proxy
  PermitTTL,   \* lifetime of a permit, in units of the clock
  Second,      \* units of the clock in a second
  MaxNow       \* bound: the last reading of the clock

ASSUME DecisionsAssumption ==
  /\ Second \in Nat \ {0} /\ PermitTTL \in Nat /\ MaxNow \in Nat
  /\ Payment.argumentBytes \in Nat

(* A size is that of a text.                                               *)
ArgumentTypes(members) ==
  /\ MemberTypes(members)
  /\ \A i \in 1..Len(members) :
       members[i].key.name = "content" /\ IsText(members[i].value)
         => members[i].value.text.bytes \in Nat

ASSUME InputAssumption ==
  /\ \A p \in Policies : LoadPolicy(p)
  /\ \A r \in Proposals \cup Fixtures : RequestTypes(r) /\ ArgumentTypes(r.arguments)
  /\ \A call \in Calls : ArgumentTypes(call.arguments)
  /\ \A peer \in Peers : \A h \in {"principal", "agent", "workload"} :
       peer.headers[h] \in Seq(STRING)

VARIABLES
  policy,      \* the policy
  now,         \* the clock
  permit,      \* the permit that is out, its envelope and what it was asked for
  forwarded    \* what the proxy last sent upstream

decisionVars == <<policy, now, permit, forwarded>>

NoPermit == [class |-> "none"]
NothingSent == [kind |-> "none"]
NoKey == [id |-> None, thumbprint |-> None]

-----------------------------------------------------------------------------
(* strictIdentityHeader: a header that occurs once, with a proper label.   *)
StrictHeader(values) == Len(values) = 1 /\ values[1] \notin {NoLabel, BadLabel}

IdentityHeaders == {"principal", "agent", "workload", "fingerprint", "key", "thumbprint"}

ProviderID == "identity-proxy"   \* the name of the configured proxy

(* parseDelegatedScopes: proper labels, none twice.                        *)
ParsedScopes(values) ==
  /\ Len(values) = 1 /\ Len(values[1]) > 0
  /\ IsInjective(values[1]) /\ {NoLabel, BadLabel} \cap Range(values[1]) = {}

(* TrustedProxy.Resolve: only the connection of a configured proxy speaks  *)
(* for who acts.                                                           *)
ResolvesIdentity(peer) ==
  /\ peer.address = "trusted proxy"
  /\ \A h \in IdentityHeaders : StrictHeader(peer.headers[h])
  /\ ParsedScopes(peer.headers.scopes)

(* resolved: the identity fields of the body are replaced; in the older    *)
(* request shape, which has others, those are.                             *)
resolved(r, peer) ==
  LET says(h) == peer.headers[h][1]
      scopes == Range(says("scopes"))
      anonymous == [r EXCEPT !.principal = None, !.agent = None, !.workload = None,
                             !.fingerprint = None, !.scopes = {}, !.issuer = None,
                             !.subject = None, !.expires = NotGiven]
  IN  IF UsesStructuredContext(r)
      THEN [r EXCEPT !.principal = says("principal"), !.agent = says("agent"),
                     !.workload = says("workload"), !.fingerprint = says("fingerprint"),
                     !.scopes = scopes, !.issuer = ProviderID, !.subject = says("principal"),
                     !.expires = NotGiven, !.flat.user = None, !.flat.agent = None, !.flat.scopes = {}]
      ELSE [anonymous EXCEPT !.flat.user = says("principal"), !.flat.agent = says("agent"),
                             !.flat.scopes = scopes]

(* Validate: the labels a request cannot do without, in the shape it uses, *)
(* and nothing that is not a short label.                                  *)
Validate(r) ==
  LET e == Effective(r)
      labels == {e[f] : f \in {"principal", "agent", "workload", "tool", "capability",
                               "operation", "resource"}}
      needed == IF UsesStructuredContext(r) THEN labels \cup {r.fingerprint}
                ELSE {r.flat.user, r.flat.agent, r.flat.capability, r.flat.resource}
  IN  /\ NoLabel \notin needed
      /\ BadLabel \notin labels \cup {e.sideEffect, e.delegated.subject} \cup e.delegated.scopes
      /\ e.bytes >= 0
      /\ r.arguments # <<>> => CanonicalizeJSON(r.arguments) # Rejected

-----------------------------------------------------------------------------
(* executionAction: the action a request asks for.                         *)
executionAction(r) ==
  LET e == Effective(r)
  IN  [principal |-> e.principal, agent |-> e.agent, workload |-> e.workload,
       delegation |-> r.fingerprint, tool |-> e.tool, capability |-> e.capability,
       resource |-> e.resource, operation |-> e.operation, profile |-> r.profile,
       audience |-> r.audience, arguments |-> r.arguments]

(* canonicalAction: completed from the grant, for the demonstration.       *)
canonicalAction(r, grant) ==
  LET action == executionAction(r)
  IN  [action EXCEPT !.tool = Or(@, grant.tool),
                     !.operation = IF @ = None /\ grant.operations # <<>>
                                   THEN grant.operations[1] ELSE @]

(* Fault: the facts the caller declared are the ones the grant is for.     *)
DecidedAsDeclared(r, prepared) ==
  LET first == EvaluatePolicy(policy, r, now)
  IN  IF first.status = "AUTHORIZED" /\ prepared = Rejected THEN Denied ELSE first

(* The decision on an execution: an eligible request is prepared, and the  *)
(* policy is asked again with the exact operation's side effect and size.  *)
Decided(r, prepared) ==
  LET first == EvaluatePolicy(policy, r, now)
      facts == prepared.facts
      size == Effective(r).bytes
  IN  IF first.status # "AUTHORIZED" THEN first
      ELSE IF prepared = Rejected THEN Denied
      ELSE EvaluatePolicy(policy,
             [r EXCEPT !.sideEffect = facts.sideEffect,
                       !.bytes = IF facts.bytes > size THEN facts.bytes ELSE size], now)

(* issuePermit: the shortest of the configured lifetime, the grant's and   *)
(* what is left of the delegation, in whole seconds.                       *)
Lifetime(r, constraints, override) ==
  LET limits == {PermitTTL}
                  \cup {t \in {override, constraints.maxDuration} : t > 0}
                  \cup (IF Effective(r).delegated.expires = NotGiven THEN {}
                        ELSE {Effective(r).delegated.expires[1] - now})
  IN  Min(limits) - (Min(limits) % Second)

(* Issue and envelopeFor.                                                  *)
PermitFor(class, r, peer, decision, action, facts, ttl) ==
  LET issuedAt == now - (now % Second)
  IN  [class |-> class, digest |-> Digest(action), action |-> action,
       key |-> IF class = "execution"
               THEN [id |-> peer.headers.key[1], thumbprint |-> peer.headers.thumbprint[1]]
               ELSE NoKey,
       obligations |-> policyObligations(decision), facts |-> facts,
       asked |-> r, peer |-> peer, issuedAt |-> issuedAt, expiresAt |-> issuedAt + ttl,
       constraints |-> decision.grant[1].constraints, tool |-> action.tool,
       capability |-> action.capability, resource |-> action.resource,
       operation |-> action.operation]

(* authorizeAction and AuthorizeTrustedAction.                             *)
AuthorizeTrustedAction(proposal, peer) ==
  LET r == resolved(proposal, peer)
      prepared == Prepare(executionAction(r))
      decision == Decided(r, prepared)
      ttl == Lifetime(r, decision.grant[1].constraints, 0)
  IN  /\ permit = NoPermit
      /\ ResolvesIdentity(peer) /\ UsesStructuredContext(r) /\ Validate(r)
      /\ decision.status = "AUTHORIZED" /\ decision.grant # NotGiven
      /\ ttl >= Second
      /\ permit' = PermitFor("execution", proposal, peer, decision, prepared.action,
                             prepared.facts, ttl)
      /\ UNCHANGED <<policy, now, forwarded>>

(* AuthorizeSyntheticDemoAction, of a request the server has itself.       *)
AuthorizeSyntheticDemoAction(r, override) ==
  LET decision == EvaluatePolicy(policy, r, now)
      action == canonicalAction(r, decision.grant[1])
      ttl == Lifetime(r, decision.grant[1].constraints, override)
      facts == [sideEffect |-> Effective(r).sideEffect, bytes |-> Effective(r).bytes]
  IN  /\ permit = NoPermit /\ Validate(r)
      /\ decision.status = "AUTHORIZED" /\ Digest(action) # Rejected
      /\ ttl >= Second
      /\ permit' = PermitFor("simulation", r, <<>>, decision, action, facts, ttl)
      /\ UNCHANGED <<policy, now, forwarded>>

-----------------------------------------------------------------------------
OlderVersion == 1
ModernVersion == 2

(* validateRoutingMetadata: the routing headers say what the body says;    *)
(* the modern protocol asks for them, an older one may leave them out; a   *)
(* name in the header is compared whatever the method.                     *)
RoutingAgrees(call) ==
  LET modern == call.version = ModernVersion
  IN  /\ call.version <= ModernVersion
      /\ call.methodHeader \in {call.method, None} /\ call.nameHeader \in {call.name, None}
      /\ modern => call.methodHeader # None
      /\ modern /\ call.method = "tools/call" => call.nameHeader # None
      /\ modern => call.metaVersion = call.version

(* parseToolCallParams and validateBoundToolMeta.                          *)
ParamsAreBound(call) ==
  /\ ~call.otherParams /\ call.name # None
  /\ call.metaVersion \in {0, call.version}

(* safeProtocolMethod.                                                     *)
safeProtocolMethod(call) ==
  call.method \in
    IF call.version = ModernVersion THEN {"server/discover", "tools/list"}
    ELSE {"initialize", "notifications/initialized", "ping", "tools/list"}

Readable(call) ==
  call.post /\ ~call.ambiguous /\ CanonicalizeJSON(call.arguments) # Rejected

(* The action of a call: who acts and under which grant from the headers.  *)
InputOf(call) ==
  [principal |-> call.headers.principal, agent |-> call.headers.agent,
   workload |-> call.headers.workload, delegation |-> call.headers.fingerprint,
   tool |-> call.name, capability |-> call.headers.capability,
   resource |-> call.headers.resource, operation |-> call.headers.operation,
   profile |-> call.headers.profile, audience |-> call.headers.audience,
   arguments |-> call.arguments]

(* Fault: the body is forwarded as it came.                                *)
SentAsReceived(call, prepared) ==
  [kind |-> "execution", tool |-> prepared.action.tool, arguments |-> call.arguments,
   action |-> prepared.action, facts |-> prepared.facts, upstream |-> prepared.upstream,
   at |-> now, permit |-> permit]

(* normalizedToolCallBody: the prepared arguments, nothing else.           *)
Sent(call, prepared) ==
  [kind |-> "execution", tool |-> prepared.action.tool, arguments |-> prepared.action.arguments,
   action |-> prepared.action, facts |-> prepared.facts, upstream |-> prepared.upstream,
   at |-> now, permit |-> permit]

(* Proxy.ServeHTTP on tools/call, and what actionBindingOutcome and the    *)
(* proof compare: the permit is spent and the call goes upstream.          *)
CallTool(call) ==
  LET prepared == Prepare(InputOf(call))
  IN  /\ Readable(call) /\ RoutingAgrees(call)
      /\ call.method = "tools/call" /\ ParamsAreBound(call) /\ prepared # Rejected
      /\ permit.class = "execution" /\ permit.expiresAt > now
      /\ call.key = permit.key
      /\ Digest(prepared.action) = permit.digest
      /\ ConstraintsAllow(permit.obligations)
      /\ forwarded' = Sent(call, prepared)
      /\ permit' = NoPermit
      /\ UNCHANGED <<policy, now>>

(* A protocol request needs no permit and goes to the control upstream.    *)
CallProtocol(call) ==
  /\ Readable(call) /\ RoutingAgrees(call)
  /\ call.method # "tools/call" /\ safeProtocolMethod(call)
  /\ forwarded' = [kind |-> "control", method |-> call.method]
  /\ UNCHANGED <<policy, now, permit>>

(* A permit nobody uses ends with its lifetime.                            *)
Tick ==
  /\ now < MaxNow /\ now' = now + 1
  /\ permit' = IF permit # NoPermit /\ permit.expiresAt <= now' THEN NoPermit ELSE permit
  /\ UNCHANGED <<policy, forwarded>>

DecisionsInit ==
  policy \in Policies /\ now = 0 /\ permit = NoPermit /\ forwarded = NothingSent

DecisionsNext ==
  \/ \E proposal \in Proposals, peer \in Peers : AuthorizeTrustedAction(proposal, peer)
  \/ \E r \in Fixtures : AuthorizeSyntheticDemoAction(r, Second)
  \/ \E call \in Calls : CallTool(call) \/ CallProtocol(call)
  \/ Tick

DecisionsSpec == DecisionsInit /\ [][DecisionsNext]_decisionVars

-----------------------------------------------------------------------------
(* What goes to an execution upstream was granted as it is sent, to whom   *)
(* the trusted connection of the authorization speaks for: tool, operation *)
(* and scopes, the side effect and the size of the arguments that are      *)
(* sent, egress and writing, and no obligation that nobody enforces,       *)
(* whatever the body of the authorization claimed of them                  *)
(* (router.go:163-222, proxy.go:176-234).                                  *)
ForwardedWasGranted ==
  forwarded.kind = "execution" =>
    LET sent == forwarded.action
        identity == forwarded.permit.peer.headers
        agent == policy.agents[identity.agent[1]]
        grant == agent.capabilities[sent.capability]
        onResource == grant.resources[sent.resource]
        either(f) == IF onResource.constraints[f] # None THEN onResource.constraints[f]
                     ELSE grant.constraints[f]
        sideEffects == IF onResource.constraints.sideEffects # NotGiven
                       THEN onResource.constraints.sideEffects[1]
                       ELSE grant.constraints.sideEffects[1]
        limit == IF onResource.constraints.maxBytes > 0 THEN onResource.constraints.maxBytes
                 ELSE grant.constraints.maxBytes
        facts == FactsOf(IF forwarded.tool = Payment.tool THEN Payment ELSE Workspace,
                         forwarded.arguments)
    IN  /\ forwarded.permit.peer.address = "trusted proxy"
        /\ <<sent.principal>> = identity.principal /\ <<sent.agent>> = identity.agent
        /\ <<sent.workload>> = identity.workload
        /\ sent.tool \in Range(grant.tools) /\ sent.operation \in Range(onResource.operations)
        /\ policy.resources[sent.resource].scopes \cup grant.scopes \cup onResource.scopes
             \subseteq Range(identity.scopes[1])
        /\ grant.route \in {None, "allow"}
        /\ either("network") = "allow" /\ either("write") = "allow"
        /\ facts.sideEffect \in sideEffects
        /\ limit > 0 => facts.bytes <= limit

(* How an upstream reads the arguments that reach it: by the names it      *)
(* knows, spelled as they are.                                             *)
UpstreamReads(arguments, name) ==
  LET members == {m \in Range(arguments) : m.key = Key(name, TRUE)}
  IN  IF members = {} THEN Null ELSE (CHOOSE m \in members : TRUE).value

(* What an upstream reads is what was asked for and signed: a second       *)
(* member of another spelling, another order or another number for the     *)
(* same amount does not make it read something else                        *)
(* (prepared.go:35-71, proxy.go:176-219, verifier.go:217-262).             *)
DispatchedIsSigned ==
  forwarded.kind = "execution" =>
    /\ \A name \in {"amount_minor", "currency", "recipient", "path", "content"} :
         UpstreamReads(forwarded.arguments, name)
           = FieldOf(forwarded.permit.asked.arguments, name)
    /\ forwarded.upstream
         = (IF forwarded.tool = Payment.tool THEN Payment ELSE Workspace).upstream

(* An event that reports what the permit was issued for, at any time of    *)
(* its lifetime, is accepted by the observer and within the envelope: the  *)
(* policy's limits and the observer's agree, and the permit does not last  *)
(* longer than the duration granted (engine.go:84-99, observer.go:57-106,  *)
(* router.go:1106-1124).                                                   *)
FaithfulEventsStayInside ==
  permit # NoPermit =>
    LET event(at) ==
          [capability |-> permit.capability, tool |-> permit.tool,
           resource |-> permit.resource, operation |-> permit.operation,
           external |-> Effective(permit.asked).external,
           sideEffect |-> permit.facts.sideEffect, bytes |-> permit.facts.bytes,
           secretAccess |-> requestsSecret(permit.facts.sideEffect, permit.capability,
                                           permit.resource),
           timestamp |-> at]
    IN  \A at \in {NotGiven} \cup {Given(t) : t \in permit.issuedAt..now} :
          Accepted(permit, event(at), now) /\ WithinEnvelope(permit, event(at))

=============================================================================
