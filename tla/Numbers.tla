-------------------------------- MODULE Numbers --------------------------------
(***************************************************************************)
(* The numbers of the arguments that are canonicalized, one after the      *)
(* other (src/internal/canonicalaction/action.go): what two of them have   *)
(* to do with each other, not how a call is handled.                       *)
(***************************************************************************)
EXTENDS CanonicalAction

CONSTANT Literals   \* numbers as a decoder of JSON hands them over

ASSUME LiteralsAssumption == \A n \in Literals : LiteralTypes(n)

VARIABLE literal    \* the number looked at

NumbersInit == literal \in Literals

NumbersNext == literal' \in Literals

NumbersSpec == NumbersInit /\ [][NumbersNext]_literal

-----------------------------------------------------------------------------
(* Two literals that are accepted have one canonical form exactly when     *)
(* they are the same number, and the form is its own: arguments that mean  *)
(* the same have one digest, others never (action.go:348-397).             *)
SameNumberSameForm ==
  LET form == normalizeJSONNumber(literal)
      value(n) == ValueOf(n, MaxExponent)
  IN  form # Rejected =>
        /\ normalizeJSONNumber(Literal(form.negative, form.digits, <<>>, form.exponent, TRUE)) = form
        /\ \A other \in Literals :
             LET that == normalizeJSONNumber(other)
             IN  that # Rejected => (that = form) = (value(other) = value(literal))

=============================================================================
