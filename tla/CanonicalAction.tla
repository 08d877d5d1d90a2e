--------------------------- MODULE CanonicalAction ----------------------------
(***************************************************************************)
(* Canonical actions (src/internal/canonicalaction/action.go): the one     *)
(* form of a number, of the arguments of a call and of an action that its  *)
(* digest is made of.  SHA-256 is taken to have no collision: a digest is  *)
(* the canonical form itself.                                              *)
(*                                                                         *)
(* A number is what its literal is made of, a string is an identifier, a   *)
(* member of the arguments a key and a value.  A key is a name and whether *)
(* it is spelled as the profiles spell it or with other capitals: two keys *)
(* to this package, one to a decoder of encoding/json.  Values inside the  *)
(* arguments' values are not told apart.                                   *)
(***************************************************************************)
EXTENDS Integers, Sequences, FiniteSets, SequencesExt, FiniteSetsExt

CONSTANT MaxExponent   \* 1,000,000

ASSUME CanonicalAssumption == MaxExponent \in Nat

Rejected == [is |-> "rejected"]

-----------------------------------------------------------------------------
(* A literal: its digits before and after the point, its exponent, and     *)
(* whether it is written with one.                                         *)
Literal(negative, whole, fraction, exponent, scientific) ==
  [negative |-> negative, whole |-> whole, fraction |-> fraction,
   exponent |-> exponent, scientific |-> scientific]

InRange(exponent) == exponent \in -MaxExponent..MaxExponent

(* The first position that is not a zero, the last one.                    *)
Significant(digits) == {i \in 1..Len(digits) : digits[i] # 0}

Zero == [is |-> "number", negative |-> FALSE, digits |-> <<0>>, exponent |-> 0]

(* Fault: the zeros at the end are cut without being counted.              *)
normalizeUncounted(n) ==
  LET digits == n.whole \o n.fraction
      shifted == n.exponent - Len(n.fraction)
      significant == Significant(digits)
  IN  IF ~InRange(n.exponent) \/ ~InRange(shifted) THEN Rejected
      ELSE IF significant = {} THEN Zero
      ELSE [is |-> "number", negative |-> n.negative,
            digits |-> SubSeq(digits, Min(significant), Max(significant)),
            exponent |-> shifted]

(* normalizeJSONNumber: no zero before the first digit or after the last,  *)
(* the point moved into the exponent, whose range is looked at before and  *)
(* after it moves.                                                         *)
normalizeJSONNumber(n) ==
  LET digits == n.whole \o n.fraction
      shifted == n.exponent - Len(n.fraction)
      significant == Significant(digits)
      exponent == shifted + Len(digits) - Max(significant)
  IN  IF ~InRange(n.exponent) \/ ~InRange(shifted) THEN Rejected
      ELSE IF significant = {} THEN Zero
      ELSE IF ~InRange(exponent) THEN Rejected
      ELSE [is |-> "number", negative |-> n.negative,
            digits |-> SubSeq(digits, Min(significant), Max(significant)),
            exponent |-> exponent]

-----------------------------------------------------------------------------
Key(name, exact) == [name |-> name, exact |-> exact]

Number(literal) == [is |-> "literal", literal |-> literal]
String(text) == [is |-> "string", text |-> text]
Null == [is |-> "null"]
(* A string with an escape of half a surrogate pair, which a decoder would *)
(* replace by a character of its own; an array or object; one that is too  *)
(* deep or has a key twice.                                                *)
HalfPair == [is |-> "half_pair"]
Nested == [is |-> "nested"]
BrokenNested == [is |-> "broken_nested"]

(* readJSONValue and writeCanonicalJSON at one value.                      *)
CanonicalValue(v) ==
  CASE v.is \in {"half_pair", "broken_nested"} -> Rejected
    [] v.is = "literal" -> normalizeJSONNumber(v.literal)
    [] OTHER -> v

(* What a decoder hands over of an object: digits without a leading zero,  *)
(* as JSON has them.                                                       *)
LiteralTypes(n) ==
  /\ n = Literal(n.negative, n.whole, n.fraction, n.exponent, n.scientific)
  /\ n.negative \in BOOLEAN
  /\ n.whole \in Seq(0..9) /\ n.whole # <<>> /\ (n.whole[1] = 0 => Len(n.whole) = 1)
  /\ n.fraction \in Seq(0..9) /\ n.exponent \in Int
  /\ n.scientific \in BOOLEAN /\ (~n.scientific => n.exponent = 0)

MemberTypes(members) ==
  /\ members \in Seq(Range(members))
  /\ \A i \in 1..Len(members) :
       LET v == members[i].value
       IN  v.is = "literal" => v = Number(v.literal) /\ LiteralTypes(v.literal)

KeysOf(members) == {members[i].key : i \in 1..Len(members)}

(* CanonicalizeJSON of an object: rejected when a key occurs twice, else   *)
(* the value of each key whatever their order.                             *)
CanonicalizeJSON(members) ==
  LET values == {CanonicalValue(members[i].value) : i \in 1..Len(members)}
  IN  IF Cardinality(KeysOf(members)) # Len(members) \/ Rejected \in values
      THEN Rejected
      ELSE [is |-> "object",
            value |-> [k \in KeysOf(members) |->
                        CanonicalValue((CHOOSE m \in Range(members) : m.key = k).value)]]

-----------------------------------------------------------------------------
NoLabel == ""
BadLabel == "a label that is too long or has control characters"

Scope == {"principal", "agent", "workload", "tool", "capability", "resource", "operation"}

(* Validate.                                                               *)
ValidAction(a) ==
  /\ \A f \in Scope : a[f] \notin {NoLabel, BadLabel}
  /\ (a.profile = NoLabel) = (a.audience = NoLabel)
  /\ BadLabel \notin {a.profile, a.audience}

(* Digest, of the whole action with its arguments in canonical form.       *)
Digest(a) ==
  LET arguments == CanonicalizeJSON(a.arguments)
  IN  IF ~ValidAction(a) \/ arguments = Rejected THEN Rejected
      ELSE [a EXCEPT !.arguments = arguments]

-----------------------------------------------------------------------------
(* The value of a literal, in units of 10^-unit: its digits, and zeros.    *)
ValueOf(n, unit) ==
  LET digits == n.whole \o n.fraction
      places == Len(digits) + n.exponent - Len(n.fraction) + unit
      upTo[k \in 0..places] ==
        IF k = 0 THEN 0 ELSE 10 * upTo[k - 1] + (IF k <= Len(digits) THEN digits[k] ELSE 0)
  IN  IF n.negative THEN -upTo[places] ELSE upTo[places]

=============================================================================
