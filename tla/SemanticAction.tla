---------------------------- MODULE SemanticAction ----------------------------
(***************************************************************************)
(* The semantic profiles and their registry (src/internal/semanticaction): *)
(* from the raw arguments of a call to the one action it stands for, its   *)
(* arguments in the profile's own spelling, its upstream, and the facts    *)
(* the policy is asked about.  The router prepares an action to authorize  *)
(* it, the MCP proxy to execute it, from the same registry.                *)
(***************************************************************************)
EXTENDS CanonicalAction

CONSTANTS
  Payment,     \* configuration of payment.send/v1
  Workspace    \* configuration of workspace.write/v1

(* What both constructors ask of a binding.                                *)
BoundConfig(c) ==
  /\ \A f \in {"capability", "resource", "operation", "audience"} : c[f] # NoLabel
  /\ c.plainUpstream

(* NewPaymentSendV1: a positive limit for each currency, and no other.     *)
NewPaymentSendV1 ==
  /\ BoundConfig(Payment)
  /\ Payment.currencies # {} /\ DOMAIN Payment.limits = Payment.currencies
  /\ \A c \in Payment.currencies : Payment.limits[c] > 0
  /\ Payment.recipients # {}

(* NewWorkspaceWriteV1.                                                    *)
NewWorkspaceWriteV1 ==
  BoundConfig(Workspace) /\ Workspace.maxPathBytes > 0 /\ Workspace.maxContentBytes > 0

(* NewRegistry, at start-up: a tool and a profile identifier each stand    *)
(* for one profile.                                                        *)
ASSUME RegistryAssumption ==
  /\ NewPaymentSendV1 /\ NewWorkspaceWriteV1
  /\ Payment.tool # Workspace.tool /\ Payment.profile # Workspace.profile

-----------------------------------------------------------------------------
(* encoding/json into the profile's fields: a name in any capitals, the    *)
(* last member of a name counts, null empties the field, a member of       *)
(* another name or of another type is an error.                            *)
FieldOf(members, name) ==
  LET named == {i \in 1..Len(members) : members[i].key.name = name}
  IN  IF named = {} THEN Null ELSE members[Max(named)].value

(* A whole number that an int64 does not hold is an error here; the limits *)
(* refuse it as well, so it is not told apart.                             *)
IsInteger(v) == v.is = "literal" /\ v.literal.fraction = <<>> /\ ~v.literal.scientific
IsText(v) == v.is = "string"

Decodes(members, types) ==
  \A i \in 1..Len(members) :
    /\ members[i].key.name \in DOMAIN types
    /\ \/ members[i].value = Null
       \/ types[members[i].key.name] = "integer" /\ IsInteger(members[i].value)
       \/ types[members[i].key.name] = "text" /\ IsText(members[i].value)

(* Marshalled again, in the profile's spelling and order.                  *)
Spelled(name, value) == [key |-> Key(name, TRUE), value |-> value]

(* PaymentSendV1.parseArguments.                                           *)
ParsePayment(members) ==
  LET amount == FieldOf(members, "amount_minor")
      currency == FieldOf(members, "currency")
      recipient == FieldOf(members, "recipient")
      minor == ValueOf(amount.literal, 0)
      valid == /\ CanonicalizeJSON(members) # Rejected
               /\ Decodes(members, [amount_minor |-> "integer", currency |-> "text",
                                    recipient |-> "text"])
               /\ Null \notin {amount, currency, recipient}
               /\ currency.text # NoLabel /\ recipient.text # NoLabel
               /\ minor > 0
               /\ currency.text \in Payment.currencies
               /\ minor <= Payment.limits[currency.text]
               /\ recipient.text \in Payment.recipients
  IN  IF valid
      THEN << Spelled("amount_minor", amount), Spelled("currency", currency),
              Spelled("recipient", recipient) >>
      ELSE <<>>

(* validateLogicalPath: a path is its segments, its length and whether it  *)
(* has a backslash, a drive or a control character.                        *)
validateLogicalPath(path) ==
  /\ path.bytes \in 1..Workspace.maxPathBytes /\ ~path.odd
  /\ \A i \in 1..Len(path.segments) : path.segments[i] \notin {"", ".", "..", "~"}

(* WorkspaceWriteV1.parseArguments.                                        *)
ParseWrite(members) ==
  LET path == FieldOf(members, "path")
      content == FieldOf(members, "content")
      valid == /\ CanonicalizeJSON(members) # Rejected
               /\ Decodes(members, [path |-> "text", content |-> "text"])
               /\ Null \notin {path, content}
               /\ validateLogicalPath(path.text)
               /\ content.text.bytes <= Workspace.maxContentBytes
  IN  IF valid THEN <<Spelled("path", path), Spelled("content", content)>> ELSE <<>>

-----------------------------------------------------------------------------
(* A profile lets a caller repeat what it is bound to, or leave it out.    *)
Repeats(profile, input) ==
  /\ \A f \in {"capability", "resource", "operation"} : input[f] = profile[f]
  /\ input.profile \in {NoLabel, profile.profile}
  /\ input.audience \in {NoLabel, profile.audience}

(* Bytes of a payment's arguments once they are marshalled.                *)
PaymentBytes(arguments) ==
  Payment.argumentBytes + Len(arguments[1].value.literal.whole)

(* The facts a profile states of its normalized arguments.                 *)
FactsOf(profile, arguments) ==
  IF profile = Payment
  THEN [sideEffect |-> "financial_transaction", bytes |-> PaymentBytes(arguments)]
  ELSE [sideEffect |-> "logical_workspace_write", bytes |-> arguments[2].value.text.bytes]

(* Fault: the action is bound to the arguments as the caller wrote them.   *)
PrepareAsWritten(input) ==
  LET profile == IF input.tool = Payment.tool THEN Payment ELSE Workspace
      arguments == IF profile = Payment THEN ParsePayment(input.arguments)
                   ELSE ParseWrite(input.arguments)
      action == [input EXCEPT !.profile = profile.profile, !.audience = profile.audience]
  IN  IF \/ input.tool \notin {Payment.tool, Workspace.tool}
         \/ ~Repeats(profile, input) \/ arguments = <<>> \/ ~ValidAction(action)
      THEN Rejected
      ELSE [is |-> "prepared", action |-> action, upstream |-> profile.upstream,
            facts |-> FactsOf(profile, arguments)]

(* Registry.Resolve and Prepare: the profile of the tool, its action with  *)
(* the caller's identity, and the arguments that are sent upstream.        *)
Prepare(input) ==
  LET profile == IF input.tool = Payment.tool THEN Payment ELSE Workspace
      arguments == IF profile = Payment THEN ParsePayment(input.arguments)
                   ELSE ParseWrite(input.arguments)
      action == [input EXCEPT !.profile = profile.profile, !.audience = profile.audience,
                              !.arguments = arguments]
  IN  IF \/ input.tool \notin {Payment.tool, Workspace.tool}
         \/ ~Repeats(profile, input) \/ arguments = <<>> \/ ~ValidAction(action)
      THEN Rejected
      ELSE [is |-> "prepared", action |-> action, upstream |-> profile.upstream,
            facts |-> FactsOf(profile, arguments)]

=============================================================================
