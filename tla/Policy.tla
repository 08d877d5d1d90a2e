-------------------------------- MODULE Policy --------------------------------
(***************************************************************************)
(* The decision procedure of policy.Engine (src/internal/policy/engine.go) *)
(* over the effective fields of a request (src/internal/models/models.go), *)
(* the obligations the router derives from a decision, and the limits the  *)
(* observer holds a runtime event to (src/internal/observer/observer.go).  *)
(*                                                                         *)
(* Which rule a denial names, and its wording, are left out: a denial is   *)
(* one value.  A label is a string, the empty one stands for none; what    *)
(* Validate lets through has no white space, so trimming changes nothing.  *)
(***************************************************************************)
EXTENDS Integers, Sequences, FiniteSets, SequencesExt

CONSTANTS
  SecretLabels,   \* labels that have "secret" or "credential" in them
  LowerCase       \* how labels with a capital letter read in lower case

NotGiven == <<>>
Given(x) == <<x>>
None == ""

(* Effective*: the structured fields, or else the flat ones of the older   *)
(* request shape; an operation and a size not named are taken from the     *)
(* declared data access.                                                   *)
UsesStructuredContext(r) ==
  \/ r.principal # None \/ r.agent # None \/ r.fingerprint # None \/ r.scopes # {}
  \/ r.tool # None \/ r.capability # None \/ r.operation # None \/ r.resource # None

Or(field, older) == IF field # None THEN field ELSE older

Effective(r) ==
  [principal  |-> Or(r.principal, r.flat.user),
   agent      |-> Or(r.agent, r.flat.agent),
   workload   |-> IF r.agent # None THEN r.workload ELSE r.flat.agent,
   delegated  |-> IF r.fingerprint # None \/ r.scopes # {} \/ r.issuer # None
                       \/ r.subject # None \/ r.expires # NotGiven
                  THEN [scopes |-> r.scopes, subject |-> r.subject, expires |-> r.expires]
                  ELSE [scopes |-> r.flat.scopes, subject |-> r.flat.user, expires |-> NotGiven],
   tool       |-> Or(r.tool, r.flat.tool),
   capability |-> Or(r.capability, r.flat.capability),
   resource   |-> Or(r.resource, r.flat.resource),
   operation  |-> IF r.operation = None /\ r.access # NotGiven
                  THEN r.access[1].operation ELSE r.operation,
   bytes      |-> IF r.bytes = 0 /\ r.access # NotGiven THEN r.access[1].bytes ELSE r.bytes,
   external   |-> r.external,
   sideEffect |-> r.sideEffect]

(* The fields of a request, and which of them are numbers.                 *)
RequestFields ==
  {"principal", "agent", "workload", "fingerprint", "scopes", "issuer", "subject", "expires",
   "tool", "capability", "resource", "operation", "profile", "audience", "external",
   "sideEffect", "bytes", "access", "arguments", "flat"}

RequestTypes(r) ==
  /\ DOMAIN r = RequestFields
  /\ r.bytes \in Int /\ (r.access # NotGiven => r.access[1].bytes \in Int)
  /\ r.expires # NotGiven => r.expires[1] \in Int

IsWriteOperation(operation) ==
  (IF operation \in DOMAIN LowerCase THEN LowerCase[operation] ELSE operation) \in
    {"write", "create", "update", "delete", "append", "execute", "invoke", "admin"}

(* requestsSecret.                                                         *)
requestsSecret(sideEffect, capability, resource) ==
  {sideEffect, capability, resource} \cap SecretLabels # {}

Changes(sideEffect) == sideEffect \notin {None, "none", "read_only"}

-----------------------------------------------------------------------------
(* LoadPolicy: what is asked of a policy file, and that its limits are     *)
(* numbers (src/internal/config/config.go).                                *)
LimitTypes(constraints) == constraints.maxBytes \in Int /\ constraints.maxDuration \in Int

LoadPolicy(policy) ==
  \A a \in DOMAIN policy.agents : \A c \in DOMAIN policy.agents[a].capabilities :
    LET grant == policy.agents[a].capabilities[c] IN
      /\ grant.tools # <<>> /\ DOMAIN grant.resources # {}
      /\ grant.route \in {None, "allow", "restrict", "sandbox"}
      /\ LimitTypes(grant.constraints)
      /\ \A r \in DOMAIN grant.resources :
           /\ r \in DOMAIN policy.resources
           /\ grant.resources[r].operations # <<>>
           /\ LimitTypes(grant.resources[r].constraints)

-----------------------------------------------------------------------------
(* legacyGrant: what an agent is allowed by name only, in the older        *)
(* configuration.                                                          *)
legacyGrant(policy, resource) ==
  LET denied == [network |-> "deny", secret |-> "deny", write |-> "deny",
                 sideEffects |-> NotGiven, maxBytes |-> 0, maxDuration |-> 0]
      nothing == [network |-> None, secret |-> None, write |-> None,
                  sideEffects |-> NotGiven, maxBytes |-> 0, maxDuration |-> 0]
  IN  [tools |-> <<"legacy-unspecified">>, scopes |-> {}, route |-> None,
       constraints |-> denied,
       resources |-> [r \in {resource} |->
         [operations |-> <<"legacy-unspecified">>, scopes |-> policy.resources[resource].scopes,
          constraints |-> nothing]]]

(* mergeConstraints: what a resource grant says replaces what the          *)
(* capability says; what neither says is denied, or without limit.         *)
mergeConstraints(base, resource) ==
  LET may(f) == IF resource[f] # None THEN resource[f] ELSE Or(base[f], "deny")
      limit(f) == IF resource[f] > 0 THEN resource[f] ELSE base[f]
  IN  [network |-> may("network"), secret |-> may("secret"), write |-> may("write"),
       sideEffects |-> IF resource.sideEffects # NotGiven THEN resource.sideEffects[1]
                       ELSE IF base.sideEffects # NotGiven THEN base.sideEffects[1] ELSE {},
       maxBytes |-> limit("maxBytes"), maxDuration |-> limit("maxDuration")]

Denied == [status |-> "DENIED", route |-> "deny", grant |-> NotGiven]

(* The agent and its delegation at all, before what it asks for.           *)
Identified(policy, r, e, now) ==
  /\ UsesStructuredContext(r) \/ policy.legacyRequests
  /\ e.agent \in DOMAIN policy.agents
  /\ policy.agents[e.agent].workloads = {} \/ e.workload \in policy.agents[e.agent].workloads
  /\ e.delegated.subject \in {None, e.principal} \/ e.principal = None
  /\ e.delegated.expires # NotGiven => e.delegated.expires[1] > now
  /\ e.resource \in DOMAIN policy.resources
  /\ e.capability \notin policy.prohibited
  /\ e.resource \notin policy.agents[e.agent].deniedResources

(* The grant of the capability, if there is one.                           *)
CapabilityOf(policy, e) ==
  LET agent == policy.agents[e.agent]
  IN  IF e.capability \in DOMAIN agent.capabilities
      THEN Given(agent.capabilities[e.capability])
      ELSE IF e.capability \in agent.allowedCapabilities
      THEN Given(legacyGrant(policy, e.resource)) ELSE NotGiven

(* The older request shape may leave out the tool and the operation.       *)
MatchedOr(label, flat, lenient, granted) ==
  IF label = None /\ flat /\ lenient /\ granted # <<>> THEN granted[1] ELSE label

(* Fault: the limits of the grant are not looked at.                       *)
WithinButForBytes(constraints, e, operation) ==
  /\ e.external => constraints.network = "allow"
  /\ requestsSecret(e.sideEffect, e.capability, e.resource) => constraints.secret = "allow"
  /\ IsWriteOperation(operation) => constraints.write = "allow"
  /\ Changes(e.sideEffect) => e.sideEffect \in constraints.sideEffects

(* The constraints of the grant hold for what is asked.                    *)
Within(constraints, e, operation) ==
  /\ e.external => constraints.network = "allow"
  /\ requestsSecret(e.sideEffect, e.capability, e.resource) => constraints.secret = "allow"
  /\ IsWriteOperation(operation) => constraints.write = "allow"
  /\ Changes(e.sideEffect) => e.sideEffect \in constraints.sideEffects
  /\ constraints.maxBytes > 0 => e.bytes <= constraints.maxBytes

StatusOf(route) ==
  CASE route = "deny" -> "DENIED"
    [] route = "escalate" -> "REQUIRES_APPROVAL"
    [] OTHER -> "AUTHORIZED"

(* Engine.Evaluate once the agent and the capability are known.            *)
Granted(policy, r, e, capability) ==
  LET flat == ~UsesStructuredContext(r)
      granted == capability.resources[e.resource]
      tool == MatchedOr(e.tool, flat, policy.missingTool, capability.tools)
      operation == MatchedOr(e.operation, flat, policy.missingOperation, granted.operations)
      scopes == policy.resources[e.resource].scopes \cup capability.scopes \cup granted.scopes
      constraints == mergeConstraints(capability.constraints, granted.constraints)
      route == Or(capability.route, "allow")
  IN  IF /\ tool # None /\ tool \in Range(capability.tools)
         /\ operation # None /\ operation \in Range(granted.operations)
         /\ scopes \subseteq e.delegated.scopes
         /\ Within(constraints, e, operation)
      THEN [status |-> StatusOf(route), route |-> route,
            grant |-> Given([tool |-> tool, capability |-> e.capability,
                             resource |-> e.resource, operations |-> granted.operations,
                             constraints |-> constraints])]
      ELSE Denied

EvaluatePolicy(policy, r, now) ==
  LET e == Effective(r)
  IN  IF ~Identified(policy, r, e, now) THEN Denied
      ELSE LET capability == CapabilityOf(policy, e)
           IN  IF capability = NotGiven THEN Denied
               ELSE IF e.resource \notin DOMAIN capability[1].resources THEN Denied
               ELSE Granted(policy, r, e, capability[1])

-----------------------------------------------------------------------------
(* policyObligations.                                                      *)
policyObligations(decision) ==
  LET may(f) == decision.grant # NotGiven /\ decision.grant[1].constraints[f] = "allow"
  IN  {o \in {"isolation_required", "network_egress_denied", "read_only",
              "human_approval_required", "enhanced_audit_required"} :
         \/ o = "isolation_required" /\ decision.route = "sandbox"
         \/ o = "network_egress_denied" /\ ~may("network")
         \/ o = "read_only" /\ ~may("write")
         \/ o = "human_approval_required" /\ decision.status = "REQUIRES_APPROVAL"
         \/ o = "enhanced_audit_required" /\ decision.route \in {"restrict", "sandbox"}}

(* executionconstraints.Evaluate: nobody enforces an obligation.           *)
ConstraintsAllow(obligations) == obligations = {}

(* Observer.Evaluate of an event bound to the envelope: in its lifetime,   *)
(* and within what was granted.                                            *)
Accepted(envelope, event, now) ==
  /\ envelope.expiresAt > now
  /\ event.timestamp # NotGiven => event.timestamp[1] <= envelope.expiresAt

WithinEnvelope(envelope, event) ==
  LET c == envelope.constraints
  IN  /\ event.capability = envelope.capability /\ event.tool = envelope.tool
      /\ event.resource = envelope.resource /\ event.operation = envelope.operation
      /\ event.external => c.network = "allow"
      /\ event.secretAccess => c.secret = "allow"
      /\ IsWriteOperation(event.operation) => c.write = "allow"
      /\ Changes(event.sideEffect) => event.sideEffect \in c.sideEffects
      /\ c.maxBytes > 0 => event.bytes <= c.maxBytes
      /\ (c.maxDuration > 0 /\ event.timestamp # NotGiven) =>
           event.timestamp[1] - envelope.issuedAt <= c.maxDuration

=============================================================================
