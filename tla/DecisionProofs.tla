----------------------------- MODULE DecisionProofs ---------------------------
(***************************************************************************)
(* Theorems about decisions, for every policy the program loads, every     *)
(* proposal, connection and call, every number of their arguments, and     *)
(* every lifetime of a permit.                                             *)
(***************************************************************************)
EXTENDS Decisions, Numbers, ProofLemmas

-----------------------------------------------------------------------------
(* The digits of a number in units of 10^-unit, and what is read of them   *)
(* from the left.                                                          *)
Digits(n) == n.whole \o n.fraction

Places(n, unit) == Len(Digits(n)) + n.exponent - Len(n.fraction) + unit

Shown(n, unit) ==
  [k \in 1..Places(n, unit) |-> IF k <= Len(Digits(n)) THEN Digits(n)[k] ELSE 0]

Reads(f, d, m) ==
  /\ f \in [0..m -> Nat] /\ f[0] = 0
  /\ \A k \in 1..m : f[k] = 10 * f[k - 1] + d[k]

LEMMA SomethingIsRead ==
  ASSUME NEW m \in Nat, NEW d \in [1..m -> 0..9]
  PROVE  \E f : Reads(f, d, m)
<1> DEFINE step == [k \in 1..m |-> [x \in Nat |-> 10 * x + d[k]]]
<1>1. step \in Steps(m, Nat)
  BY DEF Steps
<1>2. PICK f \in [0..m -> Nat] : Follows(f, m, 0, step)
  <2> HIDE DEF step
  <2> QED BY <1>1, FiniteRecursion
<1>3. ASSUME NEW k \in 1..m PROVE f[k] = 10 * f[k - 1] + d[k]
  <2>1. k - 1 \in 0..m /\ f[k - 1] \in Nat
    OBVIOUS
  <2>2. f[k] = step[k][f[k - 1]]
    BY <1>2 DEF Follows
  <2> QED BY <2>1, <2>2
<1> QED BY <1>2, <1>3 DEF Reads, Follows

LEMMA ValueIsRead ==
  ASSUME NEW n, n.whole \in Seq(0..9), n.fraction \in Seq(0..9), n.exponent \in Int,
         NEW unit \in Int, Len(Digits(n)) <= Places(n, unit)
  PROVE  /\ Places(n, unit) \in Nat /\ Shown(n, unit) \in [1..Places(n, unit) -> 0..9]
         /\ \E f : /\ Reads(f, Shown(n, unit), Places(n, unit))
                   /\ ValueOf(n, unit) = IF n.negative THEN -f[Places(n, unit)]
                                         ELSE f[Places(n, unit)]
<1> DEFINE m == Places(n, unit)
           d == Shown(n, unit)
           At(k) == IF k <= Len(Digits(n)) THEN Digits(n)[k] ELSE 0
           IsRead(g) == g = [k \in 0..m |-> IF k = 0 THEN 0 ELSE 10 * g[k - 1] + At(k)]
           upTo == CHOOSE g : IsRead(g)
<1>1. Digits(n) \in Seq(0..9) /\ Len(Digits(n)) \in Nat /\ Len(n.fraction) \in Nat
  <2>1. Digits(n) \in Seq(0..9)
    BY ConcatProperties DEF Digits
  <2> QED BY <2>1
<1>2. m \in Nat /\ d \in [1..m -> 0..9]
  <2>1. m \in Nat
    BY <1>1 DEF Places
  <2>2. ASSUME NEW k \in 1..m PROVE At(k) \in 0..9
    BY <1>1
  <2> HIDE DEF m, At
  <2>3. d = [k \in 1..m |-> At(k)]
    BY DEF Shown, At, m
  <2> HIDE DEF d
  <2> QED BY <2>1, <2>2, <2>3
<1>3. \A k \in 1..m : d[k] = At(k)
  BY DEF Shown
<1>4. PICK f : Reads(f, d, m)
  <2> HIDE DEF m, d
  <2> QED BY <1>2, SomethingIsRead
<1>5. IsRead(f)
  <2> HIDE DEF m, d, At
  <2>1. \A k \in 0..m : k = 0 \/ k \in 1..m
    BY <1>2
  <2> QED BY <1>3, <1>4, <2>1 DEF Reads
<1>6. IsRead(upTo)
  <2> HIDE DEF IsRead
  <2> QED BY <1>5
<1>7. ValueOf(n, unit) = IF n.negative THEN -upTo[m] ELSE upTo[m]
  BY DEF ValueOf, Digits, Places
<1> HIDE DEF upTo
<1>8. Reads(upTo, d, m)
  <2>1. /\ DOMAIN upTo = 0..m /\ upTo = [k \in 0..m |-> upTo[k]] /\ upTo[0] = 0
        /\ \A k \in 1..m : upTo[k] = 10 * upTo[k - 1] + d[k]
    <3> HIDE DEF m, d, At
    <3>1. 0 \in 0..m /\ \A k \in 1..m : k \in 0..m /\ k # 0
      BY <1>2
    <3> QED BY <1>3, <1>6, <3>1
  <2> DEFINE S == {k \in 0..m : upTo[k] \in Nat}
  <2>2. 0 \in S
    BY <1>2, <2>1
  <2>3. ASSUME NEW k \in 0..(m - 1), k \in S PROVE k + 1 \in S
    <3> HIDE DEF m, d
    <3>1. k + 1 \in 1..m /\ (k + 1) - 1 = k
      BY <1>2
    <3>2. d[k + 1] \in Nat
      <4>1. \A j \in 1..m : d[j] \in 0..9
        BY <1>2
      <4> QED BY <3>1, <4>1
    <3>3. upTo[k + 1] = 10 * upTo[k] + d[k + 1] /\ upTo[k] \in Nat
      BY <2>1, <2>3, <3>1
    <3> QED BY <3>1, <3>2, <3>3
  <2> HIDE DEF S, m, d
  <2>4. \A k \in 0..m : k \in S
    BY <1>2, <2>2, <2>3, InductionUpTo
  <2> QED BY <2>1, <2>4 DEF Reads, S
<1> HIDE DEF m, d
<1>9. \E g : Reads(g, d, m) /\ ValueOf(n, unit) = IF n.negative THEN -g[m] ELSE g[m]
  BY <1>7, <1>8
<1> QED BY <1>2, <1>9 DEF m, d

(* Digits on the right of others, with nothing but zeros before them.      *)
Aligned(d, m, e, l) ==
  /\ m <= l
  /\ \A i \in 1..m : d[i] = e[l - m + i]
  /\ \A i \in 1..(l - m) : e[i] = 0

(* One number is read of digits only when they are the same.               *)
LEMMA ReadTheSame ==
  ASSUME NEW m \in Nat, NEW l \in Nat, m <= l, NEW d \in [1..m -> 0..9], NEW e \in [1..l -> 0..9],
         NEW f, Reads(f, d, m), NEW g, Reads(g, e, l), f[m] = g[l]
  PROVE  Aligned(d, m, e, l)
<1>1. /\ f \in [0..m -> Nat] /\ f[0] = 0 /\ \A k \in 1..m : f[k] = 10 * f[k - 1] + d[k]
      /\ g \in [0..l -> Nat] /\ g[0] = 0 /\ \A k \in 1..l : g[k] = 10 * g[k - 1] + e[k]
  BY DEF Reads
<1>2. ASSUME NEW a \in Nat, NEW x \in 0..9, 10 * a + x = 0
      PROVE  a = 0 /\ x = 0
  BY <1>2
<1>3. /\ \A k \in 0..m : f[k] \in Nat
      /\ \A k \in 0..l : g[k] \in Nat
      /\ \A k \in 1..m : d[k] \in 0..9
      /\ \A k \in 1..l : e[k] \in 0..9
  BY <1>1
<1> DEFINE S == {i \in 0..m : f[m - i] = g[l - i]}
<1>4. \A i \in 0..m : i \in S
  <2>1. 0 \in S
    OBVIOUS
  <2>2. ASSUME NEW i \in 0..(m - 1), i \in S PROVE i + 1 \in S
    <3>1. m - i \in 1..m /\ l - i \in 1..l /\ m - i - 1 \in 0..m /\ l - i - 1 \in 0..l
      OBVIOUS
    <3>2. f[m - i] = 10 * f[m - i - 1] + d[m - i] /\ g[l - i] = 10 * g[l - i - 1] + e[l - i]
      BY <1>1, <3>1
    <3>3. f[m - i - 1] \in Nat /\ g[l - i - 1] \in Nat /\ d[m - i] \in 0..9 /\ e[l - i] \in 0..9
      BY <1>3, <3>1
    <3>4. f[m - i] = g[l - i]
      BY <2>2
    <3>5. f[m - i - 1] = g[l - i - 1]
      <4> DEFINE a == f[m - i - 1]
                 b == g[l - i - 1]
                 x == d[m - i]
                 y == e[l - i]
      <4>1. a \in Nat /\ b \in Nat /\ x \in 0..9 /\ y \in 0..9 /\ 10 * a + x = 10 * b + y
        BY <3>2, <3>3, <3>4
      <4> HIDE DEF a, b, x, y
      <4>2. a = b
        BY <4>1
      <4> QED BY <4>2 DEF a, b
    <3>6. m - (i + 1) = m - i - 1 /\ l - (i + 1) = l - i - 1 /\ i + 1 \in 0..m
      OBVIOUS
    <3> QED BY <3>5, <3>6
  <2> HIDE DEF S
  <2> QED BY <2>1, <2>2, InductionUpTo
<1>5. ASSUME NEW i \in 1..m PROVE d[i] = e[l - m + i]
  <2>1. m - i \in 0..m /\ m - i + 1 \in 0..m /\ m - (m - i) = i /\ l - (m - i) = l - m + i
        /\ m - (m - i + 1) = i - 1 /\ l - (m - i + 1) = l - m + i - 1
        /\ i \in 1..m /\ l - m + i \in 1..l /\ i - 1 \in 0..m /\ l - m + i - 1 \in 0..l
    OBVIOUS
  <2>2. m - i \in S
    BY <1>4, <2>1
  <2>3. f[i] = g[l - m + i]
    BY <2>1, <2>2
  <2>4. f[i] = 10 * f[i - 1] + d[i] /\ g[l - m + i] = 10 * g[l - m + i - 1] + e[l - m + i]
    BY <1>1, <2>1
  <2>5. f[i - 1] \in Nat /\ g[l - m + i - 1] \in Nat /\ d[i] \in 0..9 /\ e[l - m + i] \in 0..9
    BY <1>3, <2>1
  <2> DEFINE a == f[i - 1]
             b == g[l - m + i - 1]
             x == d[i]
             y == e[l - m + i]
  <2>6. a \in Nat /\ b \in Nat /\ x \in 0..9 /\ y \in 0..9 /\ 10 * a + x = 10 * b + y
    BY <2>3, <2>4, <2>5
  <2> HIDE DEF a, b, x, y
  <2>7. x = y
    BY <2>6
  <2> QED BY <2>7 DEF x, y
<1> DEFINE T == {i \in 0..(l - m) : g[l - m - i] = 0}
<1>6. \A i \in 0..(l - m) : i \in T
  <2>1. 0 \in T
    <3>1. m \in S
      BY <1>4
    <3>2. m - m = 0 /\ l - m - 0 = l - m /\ 0 \in 0..(l - m)
      OBVIOUS
    <3> QED BY <1>1, <3>1, <3>2
  <2>2. ASSUME NEW i \in 0..(l - m - 1), i \in T PROVE i + 1 \in T
    <3>1. l - m - i \in 1..l /\ l - m - i - 1 \in 0..l /\ i + 1 \in 0..(l - m)
          /\ l - m - (i + 1) = l - m - i - 1
      OBVIOUS
    <3>2. g[l - m - i] = 10 * g[l - m - i - 1] + e[l - m - i]
      BY <1>1, <3>1
    <3>3. g[l - m - i - 1] \in Nat /\ e[l - m - i] \in 0..9
      BY <1>3, <3>1
    <3>4. g[l - m - i] = 0
      BY <2>2
    <3>5. g[l - m - i - 1] = 0
      <4>1. 10 * g[l - m - i - 1] + e[l - m - i] = 0
        BY <3>2, <3>4
      <4> QED BY <1>2, <3>3, <4>1
    <3> QED BY <3>1, <3>5
  <2>3. l - m \in Nat
    OBVIOUS
  <2> HIDE DEF T
  <2> QED BY <2>1, <2>2, <2>3, InductionUpTo
<1>7. ASSUME NEW i \in 1..(l - m) PROVE e[i] = 0
  <2>1. l - m - i \in 0..(l - m) /\ l - m - (l - m - i) = i /\ i \in 1..l /\ i - 1 \in 0..l
    OBVIOUS
  <2>2. l - m - i \in T
    BY <1>6, <2>1
  <2>3. g[i] = 0
    BY <2>1, <2>2
  <2>4. g[i] = 10 * g[i - 1] + e[i]
    BY <1>1, <2>1
  <2>5. g[i - 1] \in Nat /\ e[i] \in 0..9
    BY <1>3, <2>1
  <2>6. 10 * g[i - 1] + e[i] = 0
    BY <2>3, <2>4
  <2> QED BY <1>2, <2>5, <2>6
<1> QED BY <1>5, <1>7 DEF Aligned

(* And the same digits are read as one number.                             *)
LEMMA SameDigitsAreRead ==
  ASSUME NEW m \in Nat, NEW l \in Nat, NEW d, NEW e, Aligned(d, m, e, l),
         NEW f, Reads(f, d, m), NEW g, Reads(g, e, l)
  PROVE  f[m] = g[l]
<1>1. /\ f[0] = 0 /\ \A k \in 1..m : f[k] = 10 * f[k - 1] + d[k]
      /\ g[0] = 0 /\ \A k \in 1..l : g[k] = 10 * g[k - 1] + e[k]
  BY DEF Reads
<1>2. /\ m <= l /\ l - m \in Nat
      /\ \A i \in 1..m : d[i] = e[l - m + i]
      /\ \A i \in 1..(l - m) : e[i] = 0
  BY DEF Aligned
<1> DEFINE T == {i \in 0..(l - m) : g[i] = 0}
<1>3. l - m \in T
  <2>1. 0 \in T
    BY <1>1, <1>2
  <2>2. ASSUME NEW i \in 0..(l - m - 1), i \in T PROVE i + 1 \in T
    <3>1. i + 1 \in 1..l /\ i + 1 \in 1..(l - m) /\ (i + 1) - 1 = i /\ i + 1 \in 0..(l - m)
      BY <1>2
    <3>2. g[i + 1] = 10 * g[i] + e[i + 1] /\ e[i + 1] = 0 /\ g[i] = 0
      BY <1>1, <1>2, <2>2, <3>1
    <3> QED BY <3>1, <3>2
  <2> HIDE DEF T
  <2>3. \A i \in 0..(l - m) : i \in T
    BY <1>2, <2>1, <2>2, InductionUpTo
  <2> QED BY <1>2, <2>3
<1> DEFINE S == {i \in 0..m : f[i] = g[l - m + i]}
<1>4. m \in S
  <2>1. 0 \in S
    <3>1. l - m + 0 = l - m
      OBVIOUS
    <3> QED BY <1>1, <1>3, <3>1
  <2>2. ASSUME NEW i \in 0..(m - 1), i \in S PROVE i + 1 \in S
    <3>1. /\ i + 1 \in 1..m /\ (i + 1) - 1 = i /\ i + 1 \in 0..m
          /\ l - m + (i + 1) \in 1..l /\ (l - m + (i + 1)) - 1 = l - m + i
      BY <1>2
    <3>2. /\ f[i + 1] = 10 * f[i] + d[i + 1]
          /\ g[l - m + (i + 1)] = 10 * g[l - m + i] + e[l - m + (i + 1)]
          /\ d[i + 1] = e[l - m + (i + 1)] /\ f[i] = g[l - m + i]
      BY <1>1, <1>2, <2>2, <3>1
    <3> QED BY <3>1, <3>2
  <2> HIDE DEF S
  <2>3. \A i \in 0..m : i \in S
    BY <2>1, <2>2, InductionUpTo
  <2> QED BY <2>3
<1>5. l - m + m = l
  OBVIOUS
<1> QED BY <1>4, <1>5

-----------------------------------------------------------------------------
(* A canonical form has the digits from the first that is not zero to the  *)
(* last, and counts the places after it.                                   *)
Spans(form, d, m, unit, first, last) ==
  /\ first \in 1..m /\ last \in 1..m /\ first <= last /\ d[first] # 0 /\ d[last] # 0
  /\ \A i \in 1..m : d[i] # 0 => first <= i /\ i <= last
  /\ form.digits \in Seq(0..9) /\ Len(form.digits) = last - first + 1
  /\ \A i \in 1..Len(form.digits) : form.digits[i] = d[first + i - 1]
  /\ form.exponent = m - last - unit

LEMMA FormOfShown ==
  ASSUME NEW n, n.whole \in Seq(0..9), n.fraction \in Seq(0..9), n.exponent \in Int,
         NEW unit \in Int, Len(Digits(n)) <= Places(n, unit),
         normalizeJSONNumber(n) # Rejected
  PROVE  LET form == normalizeJSONNumber(n)
             d == Shown(n, unit)
             m == Places(n, unit)
         IN  \/ form = Zero /\ \A i \in 1..m : d[i] = 0
             \/ /\ form = [is |-> "number", negative |-> n.negative, digits |-> form.digits,
                           exponent |-> form.exponent]
                /\ \E first, last : Spans(form, d, m, unit, first, last)
<1> DEFINE form == normalizeJSONNumber(n)
           d == Shown(n, unit)
           m == Places(n, unit)
           significant == Significant(Digits(n))
           shifted == n.exponent - Len(n.fraction)
<1>1. Digits(n) \in Seq(0..9) /\ Len(Digits(n)) \in Nat /\ Len(n.fraction) \in Nat
  <2>1. Digits(n) \in Seq(0..9)
    BY ConcatProperties DEF Digits
  <2> QED BY <2>1
<1>2. /\ m \in Nat /\ m = Len(Digits(n)) + shifted + unit /\ shifted \in Int
      /\ \A i \in 1..Len(Digits(n)) : i \in 1..m /\ d[i] = Digits(n)[i]
      /\ \A i \in 1..m : d[i] # 0 => i \in significant
      /\ \A i \in significant : i \in 1..Len(Digits(n)) /\ d[i] # 0
  <2>1. m \in Nat /\ m = Len(Digits(n)) + shifted + unit /\ shifted \in Int
    BY <1>1 DEF Places
  <2>2. \A i \in 1..m : d[i] = IF i <= Len(Digits(n)) THEN Digits(n)[i] ELSE 0
    BY DEF Shown
  <2>3. \A i \in 1..Len(Digits(n)) : i \in 1..m
    <3>1. Len(Digits(n)) <= m
      OBVIOUS
    <3> HIDE DEF m
    <3> QED BY <1>1, <2>1, <3>1
  <2> HIDE DEF m, d, shifted
  <2>4. \A i \in significant : i \in 1..Len(Digits(n)) /\ Digits(n)[i] # 0
    BY DEF Significant
  <2>5. \A i \in 1..m : d[i] # 0 => i \in significant
    BY <1>1, <2>1, <2>2 DEF Significant
  <2> HIDE DEF significant
  <2>6. \A i \in 1..Len(Digits(n)) : d[i] = Digits(n)[i]
    BY <1>1, <2>1, <2>2, <2>3
  <2> QED BY <2>1, <2>3, <2>4, <2>5, <2>6
<1>3. CASE significant = {}
  <2>1. form = Zero
    BY <1>3 DEF normalizeJSONNumber, Digits
  <2> HIDE DEF form, d, m
  <2>2. \A i \in 1..m : d[i] = 0
    BY <1>2, <1>3
  <2> QED BY <2>1, <2>2 DEF form, d, m
<1>4. CASE significant # {}
  <2>1. significant \in SUBSET (1..Len(Digits(n)))
    BY DEF Significant
  <2>2. /\ Max(significant) \in significant /\ \A i \in significant : i <= Max(significant)
        /\ Min(significant) \in significant /\ \A i \in significant : Min(significant) <= i
    <3> HIDE DEF significant
    <3>1. \E x \in significant : \A i \in significant : x <= i
      BY <1>1, <1>4, <2>1, EndsOfPositions
    <3>2. \E x \in significant : \A i \in significant : i <= x
      BY <1>1, <1>4, <2>1, EndsOfPositions
    <3>3. \A i \in significant : i \in Int
      BY <1>1, <2>1
    <3> QED BY <3>1, <3>2, <3>3 DEF Max, Min
  <2> DEFINE first == Min(significant)
             last == Max(significant)
  <2>3. form = [is |-> "number", negative |-> n.negative,
                digits |-> SubSeq(Digits(n), first, last),
                exponent |-> shifted + Len(Digits(n)) - last]
    BY <1>4 DEF normalizeJSONNumber, Digits
  <2> HIDE DEF first, last, form, shifted, significant
  <2>4. /\ first \in 1..Len(Digits(n)) /\ last \in 1..Len(Digits(n)) /\ first <= last
        /\ d[first] # 0 /\ d[last] # 0
        /\ \A i \in 1..m : d[i] # 0 => first <= i /\ i <= last
    BY <1>2, <2>1, <2>2 DEF first, last
  <2>5. /\ form.digits = SubSeq(Digits(n), first, last)
        /\ form.exponent = shifted + Len(Digits(n)) - last
        /\ form = [is |-> "number", negative |-> n.negative, digits |-> form.digits,
                   exponent |-> form.exponent]
    BY <2>3
  <2>6. /\ SubSeq(Digits(n), first, last) \in Seq(0..9)
        /\ Len(SubSeq(Digits(n), first, last)) = last - first + 1
        /\ \A i \in 1..(last - first + 1) :
             SubSeq(Digits(n), first, last)[i] = Digits(n)[first + i - 1]
    <3>1. first \in Int /\ last \in Int /\ \A i \in first..last : Digits(n)[i] \in 0..9
      BY <1>1, <2>4
    <3>2. first <= last
      BY <2>4
    <3> HIDE DEF d, m
    <3> QED BY <3>1, <3>2, SubSeqProperties
  <2> HIDE DEF d, m
  <2>7. \A i \in 1..(last - first + 1) : Digits(n)[first + i - 1] = d[first + i - 1]
    <3>1. \A i \in 1..(last - first + 1) : first + i - 1 \in 1..Len(Digits(n))
      BY <1>1, <2>4
    <3> QED BY <1>2, <3>1
  <2>8. form.exponent = m - last - unit
    BY <1>1, <1>2, <2>4, <2>5
  <2>9. Spans(form, d, m, unit, first, last)
    <3>1. first \in 1..m /\ last \in 1..m
      BY <1>2, <2>4
    <3> QED BY <2>4, <2>5, <2>6, <2>7, <2>8, <3>1 DEF Spans
  <2> QED BY <2>5, <2>9 DEF form, d, m
<1> QED BY <1>3, <1>4

(* Digits that are aligned have the same canonical form, and the same      *)
(* canonical form has digits that are aligned.                             *)
LEMMA AlignedHaveOneForm ==
  ASSUME NEW m \in Nat, NEW l \in Nat, NEW d, NEW e, NEW unit \in Int, NEW v, NEW w,
         NEW a, NEW b, Spans(v, d, m, unit, a, b), NEW x, NEW y, Spans(w, e, l, unit, x, y),
         Aligned(d, m, e, l)
  PROVE  v.digits = w.digits /\ v.exponent = w.exponent
<1> DEFINE k == l - m
<1>1. /\ a \in 1..m /\ b \in 1..m /\ a <= b /\ d[a] # 0 /\ d[b] # 0
      /\ \A i \in 1..m : d[i] # 0 => a <= i /\ i <= b
      /\ x \in 1..l /\ y \in 1..l /\ x <= y /\ e[x] # 0 /\ e[y] # 0
      /\ \A i \in 1..l : e[i] # 0 => x <= i /\ i <= y
  BY DEF Spans
<1>2. k \in Nat /\ k + m = l /\ (\A i \in 1..m : d[i] = e[k + i]) /\ \A i \in 1..k : e[i] = 0
  BY DEF Aligned
<1> HIDE DEF k
<1>3. \A i \in 1..l : i \in 1..k \/ (i - k \in 1..m /\ k + (i - k) = i)
  BY <1>2
<1>4. x - k \in 1..m /\ k + (x - k) = x /\ y - k \in 1..m /\ k + (y - k) = y
  BY <1>1, <1>2, <1>3
<1>5. d[x - k] # 0 /\ d[y - k] # 0
  BY <1>1, <1>2, <1>4
<1>6. a <= x - k /\ y - k <= b
  BY <1>1, <1>4, <1>5
<1>7. k + a \in 1..l /\ k + b \in 1..l /\ e[k + a] # 0 /\ e[k + b] # 0
  BY <1>1, <1>2
<1>8. x <= k + a /\ k + b <= y
  BY <1>1, <1>7
<1>9. x = k + a /\ y = k + b
  BY <1>1, <1>2, <1>6, <1>8
<1>10. /\ v.digits \in Seq(0..9) /\ Len(v.digits) = b - a + 1
       /\ \A i \in 1..Len(v.digits) : v.digits[i] = d[a + i - 1]
       /\ w.digits \in Seq(0..9) /\ Len(w.digits) = y - x + 1
       /\ \A i \in 1..Len(w.digits) : w.digits[i] = e[x + i - 1]
       /\ v.exponent = m - b - unit /\ w.exponent = l - y - unit
  BY DEF Spans
<1>11. v.exponent = w.exponent /\ Len(v.digits) = Len(w.digits) /\ Len(v.digits) = b - a + 1
  BY <1>1, <1>2, <1>9, <1>10
<1>12. ASSUME NEW i \in 1..Len(v.digits) PROVE v.digits[i] = w.digits[i]
  <2>1. a + i - 1 \in 1..m /\ k + (a + i - 1) = x + i - 1
    BY <1>1, <1>2, <1>9, <1>11
  <2>2. d[a + i - 1] = e[x + i - 1]
    BY <1>2, <2>1
  <2> QED BY <1>10, <1>11, <2>2
<1>13. v.digits = w.digits
  BY <1>10, <1>11, <1>12, SeqEqual
<1> QED BY <1>11, <1>13

LEMMA OneFormIsAligned ==
  ASSUME NEW m \in Nat, NEW l \in Nat, m <= l, NEW d, NEW e, NEW unit \in Int, NEW v, NEW w,
         NEW a, NEW b, Spans(v, d, m, unit, a, b), NEW x, NEW y, Spans(w, e, l, unit, x, y),
         v.digits = w.digits, v.exponent = w.exponent
  PROVE  Aligned(d, m, e, l)
<1> DEFINE k == l - m
<1>1. /\ a \in 1..m /\ b \in 1..m /\ a <= b
      /\ \A i \in 1..m : d[i] # 0 => a <= i /\ i <= b
      /\ x \in 1..l /\ y \in 1..l /\ x <= y
      /\ \A i \in 1..l : e[i] # 0 => x <= i /\ i <= y
      /\ Len(v.digits) = b - a + 1
      /\ \A i \in 1..Len(v.digits) : v.digits[i] = d[a + i - 1]
      /\ Len(v.digits) = y - x + 1
      /\ \A i \in 1..Len(v.digits) : v.digits[i] = e[x + i - 1]
      /\ v.exponent = m - b - unit /\ v.exponent = l - y - unit
  BY DEF Spans
<1>2. k \in Nat /\ y = k + b /\ x = k + a /\ k + m = l
  <2>1. m - b - unit = l - y - unit /\ b - a + 1 = y - x + 1
    BY <1>1, Zenon
  <2>2. a \in Int /\ b \in Int /\ x \in Int /\ y \in Int
    BY <1>1
  <2> QED BY <2>1, <2>2
<1> HIDE DEF k
<1>3. ASSUME NEW i \in 1..m PROVE d[i] = e[k + i]
  <2>1. k + i \in 1..l
    BY <1>2
  <2>2. CASE a <= i /\ i <= b
    <3>1. i - a + 1 \in 1..Len(v.digits) /\ a + (i - a + 1) - 1 = i /\ x + (i - a + 1) - 1 = k + i
      BY <1>1, <1>2, <2>2
    <3> QED BY <1>1, <3>1
  <2>3. CASE ~(a <= i /\ i <= b)
    <3>1. ~(x <= k + i /\ k + i <= y)
      BY <1>1, <1>2, <2>3
    <3> QED BY <1>1, <2>1, <2>3, <3>1
  <2> QED BY <2>2, <2>3
<1>4. ASSUME NEW i \in 1..k PROVE e[i] = 0
  <2>1. i \in 1..l /\ ~(x <= i)
    BY <1>1, <1>2
  <2> QED BY <1>1, <2>1
<1> QED BY <1>2, <1>3, <1>4 DEF Aligned, k

-----------------------------------------------------------------------------
(* A whole amount above zero is written in one way only.                   *)
LEMMA SameFormSameInteger ==
  ASSUME NEW n, LiteralTypes(n), n.fraction = <<>>, ~n.scientific, ValueOf(n, 0) > 0,
         NEW o, LiteralTypes(o), o.fraction = <<>>, ~o.scientific, ValueOf(o, 0) > 0,
         normalizeJSONNumber(n) = normalizeJSONNumber(o), normalizeJSONNumber(n) # Rejected
  PROVE  n = o
<1> DEFINE Whole(i) ==
             /\ i = Literal(i.negative, i.whole, <<>>, 0, FALSE)
             /\ i.whole \in Seq(0..9) /\ Len(i.whole) \in Nat \ {0}
             /\ Shown(i, 0) = [k \in 1..Len(i.whole) |-> i.whole[k]] /\ Places(i, 0) = Len(i.whole)
             /\ i.whole[1] # 0
             /\ normalizeJSONNumber(i) =
                  [is |-> "number", negative |-> i.negative,
                   digits |-> normalizeJSONNumber(i).digits,
                   exponent |-> normalizeJSONNumber(i).exponent]
             /\ \E first, last : Spans(normalizeJSONNumber(i), Shown(i, 0), Places(i, 0), 0, first, last)
<1>1. ASSUME NEW i, LiteralTypes(i), i.fraction = <<>>, ~i.scientific, ValueOf(i, 0) > 0,
             normalizeJSONNumber(i) # Rejected
      PROVE  Whole(i)
  <2>1. /\ i.whole \in Seq(0..9) /\ i.fraction \in Seq(0..9) /\ i.exponent = 0
        /\ Len(i.whole) \in Nat \ {0} /\ (i.whole[1] = 0 => Len(i.whole) = 1)
        /\ i = Literal(i.negative, i.whole, <<>>, 0, FALSE)
    <3>1. /\ i.whole \in Seq(0..9) /\ i.whole # <<>> /\ (i.whole[1] = 0 => Len(i.whole) = 1)
          /\ i.fraction \in Seq(0..9) /\ i.exponent = 0 /\ i.scientific = FALSE
          /\ i = Literal(i.negative, i.whole, i.fraction, i.exponent, i.scientific)
      BY <1>1 DEF LiteralTypes
    <3>2. Len(i.whole) \in Nat \ {0}
      BY <3>1
    <3>3. i = Literal(i.negative, i.whole, <<>>, 0, FALSE)
      BY <1>1, <3>1, Zenon
    <3> QED BY <3>1, <3>2, <3>3
  <2>2. Digits(i) = i.whole /\ Len(i.fraction) = 0
    <3>1. i.whole \o <<>> = i.whole
      BY <2>1, ConcatEmptySeq
    <3> QED BY <1>1, <3>1 DEF Digits
  <2>3. Places(i, 0) = Len(i.whole) /\ Len(Digits(i)) <= Places(i, 0)
    BY <2>1, <2>2 DEF Places
  <2>4. Shown(i, 0) = [k \in 1..Len(i.whole) |-> i.whole[k]]
    BY <2>1, <2>2, <2>3 DEF Shown
  <2>5. PICK f : /\ Reads(f, Shown(i, 0), Places(i, 0))
                 /\ ValueOf(i, 0) = IF i.negative THEN -f[Places(i, 0)] ELSE f[Places(i, 0)]
    BY <2>1, <2>3, ValueIsRead
  <2>6. ASSUME i.whole[1] = 0 PROVE FALSE
    <3>1. Len(i.whole) = 1
      BY <2>1, <2>6
    <3>2. f[0] = 0 /\ f[1] = 10 * f[0] + Shown(i, 0)[1] /\ Shown(i, 0)[1] = 0
      BY <2>3, <2>4, <2>5, <2>6, <3>1 DEF Reads
    <3>3. f[1] = 0
      BY <3>2
    <3>4. ValueOf(i, 0) = 0
      BY <2>3, <2>5, <3>1, <3>3
    <3> QED BY <1>1, <3>4
  <2>7. Shown(i, 0)[1] # 0 /\ 1 \in 1..Places(i, 0)
    BY <2>1, <2>3, <2>4, <2>6
  <2>8. ~ \A k \in 1..Places(i, 0) : Shown(i, 0)[k] = 0
    BY <2>7
  <2>9. /\ normalizeJSONNumber(i) =
             [is |-> "number", negative |-> i.negative, digits |-> normalizeJSONNumber(i).digits,
              exponent |-> normalizeJSONNumber(i).exponent]
        /\ \E first, last : Spans(normalizeJSONNumber(i), Shown(i, 0), Places(i, 0), 0, first, last)
    <3>1. i.exponent \in Int /\ 0 \in Int
      BY <2>1
    <3> QED BY <1>1, <2>1, <2>3, <2>8, <3>1, FormOfShown
  <2> QED BY <2>1, <2>3, <2>4, <2>6, <2>9
<1>2. Whole(n) /\ Whole(o)
  <2> HIDE DEF Whole
  <2> QED BY <1>1
<1>3. ASSUME NEW p, Whole(p), NEW q, Whole(q), Len(p.whole) <= Len(q.whole),
             normalizeJSONNumber(p) = normalizeJSONNumber(q)
      PROVE  p = q
  <2>1. PICK a, b : Spans(normalizeJSONNumber(p), Shown(p, 0), Places(p, 0), 0, a, b)
    BY <1>3
  <2>2. PICK x, y : Spans(normalizeJSONNumber(q), Shown(q, 0), Places(q, 0), 0, x, y)
    BY <1>3
  <2>3. Aligned(Shown(p, 0), Places(p, 0), Shown(q, 0), Places(q, 0))
    <3>1. Places(p, 0) \in Nat /\ Places(q, 0) \in Nat /\ Places(p, 0) <= Places(q, 0) /\ 0 \in Int
      BY <1>3
    <3> HIDE DEF Whole
    <3> QED BY <1>3, <2>1, <2>2, <3>1, OneFormIsAligned
  <2>4. /\ \A i \in 1..Len(p.whole) : Shown(p, 0)[i] = p.whole[i]
        /\ \A i \in 1..Len(q.whole) : Shown(q, 0)[i] = q.whole[i]
        /\ Places(p, 0) = Len(p.whole) /\ Places(q, 0) = Len(q.whole)
        /\ p.whole \in Seq(0..9) /\ q.whole \in Seq(0..9)
        /\ Len(p.whole) \in Nat \ {0} /\ Len(q.whole) \in Nat \ {0} /\ q.whole[1] # 0
    BY <1>3
  <2>5. Len(p.whole) = Len(q.whole)
    <3> SUFFICES ASSUME Len(p.whole) < Len(q.whole) PROVE FALSE
      BY <1>3, <2>4
    <3> HIDE DEF Whole
    <3>1. 1 \in 1..(Len(q.whole) - Len(p.whole)) /\ 1 \in 1..Len(q.whole)
      BY <2>4
    <3>2. Shown(q, 0)[1] = 0
      BY <2>3, <2>4, <3>1 DEF Aligned
    <3> QED BY <2>4, <3>1, <3>2
  <2>6. \A i \in 1..Len(p.whole) : p.whole[i] = q.whole[i]
    <3> HIDE DEF Whole
    <3>1. ASSUME NEW i \in 1..Len(p.whole) PROVE p.whole[i] = q.whole[i]
      <4>1. Len(q.whole) - Len(p.whole) + i = i /\ i \in 1..Len(q.whole)
        BY <2>4, <2>5
      <4>2. Shown(p, 0)[i] = Shown(q, 0)[Len(q.whole) - Len(p.whole) + i]
        BY <2>3, <2>4 DEF Aligned
      <4> QED BY <2>4, <4>1, <4>2
    <3> QED BY <3>1
  <2>7. p.whole = q.whole
    BY <2>4, <2>5, <2>6, SeqEqual
  <2>8. p.negative = q.negative
    <3>1. normalizeJSONNumber(p).negative = p.negative /\ normalizeJSONNumber(q).negative = q.negative
      BY <1>3
    <3> QED BY <1>3, <3>1
  <2>9. /\ p = Literal(p.negative, p.whole, <<>>, 0, FALSE)
        /\ q = Literal(q.negative, q.whole, <<>>, 0, FALSE)
    BY <1>3
  <2> QED BY <2>7, <2>8, <2>9
<1>4. Len(n.whole) <= Len(o.whole) \/ Len(o.whole) <= Len(n.whole)
  BY <1>2
<1> HIDE DEF Whole
<1> QED BY <1>2, <1>3, <1>4

-----------------------------------------------------------------------------
(* A number that is accepted has all its digits above 10^-MaxExponent: its *)
(* value and its form are those of the digits shown.                       *)
LEMMA AcceptedIsShown ==
  ASSUME NEW n, LiteralTypes(n), normalizeJSONNumber(n) # Rejected
  PROVE  LET form == normalizeJSONNumber(n)
             d == Shown(n, MaxExponent)
             m == Places(n, MaxExponent)
         IN  /\ m \in Nat /\ d \in [1..m -> 0..9] /\ n.negative \in BOOLEAN
             /\ \E f : /\ Reads(f, d, m)
                       /\ ValueOf(n, MaxExponent) = IF n.negative THEN -f[m] ELSE f[m]
             /\ \/ form = Zero /\ \A i \in 1..m : d[i] = 0
                \/ /\ form = [is |-> "number", negative |-> n.negative, digits |-> form.digits,
                              exponent |-> form.exponent]
                   /\ \E first, last : Spans(form, d, m, MaxExponent, first, last)
<1>1. /\ n.whole \in Seq(0..9) /\ n.fraction \in Seq(0..9) /\ n.exponent \in Int
      /\ n.negative \in BOOLEAN /\ MaxExponent \in Nat /\ MaxExponent \in Int
  BY CanonicalAssumption DEF LiteralTypes
<1>2. InRange(n.exponent - Len(n.fraction))
  BY DEF normalizeJSONNumber
<1>3. Len(Digits(n)) \in Nat /\ Len(n.fraction) \in Nat
  <2>1. Digits(n) \in Seq(0..9)
    BY <1>1, ConcatProperties DEF Digits
  <2> QED BY <1>1, <2>1
<1>4. Len(Digits(n)) <= Places(n, MaxExponent)
  <2>1. -MaxExponent <= n.exponent - Len(n.fraction)
    BY <1>1, <1>2, <1>3 DEF InRange
  <2> QED BY <1>1, <1>3, <2>1 DEF Places
<1>5. /\ Places(n, MaxExponent) \in Nat
      /\ Shown(n, MaxExponent) \in [1..Places(n, MaxExponent) -> 0..9]
      /\ \E f : /\ Reads(f, Shown(n, MaxExponent), Places(n, MaxExponent))
                /\ ValueOf(n, MaxExponent) = IF n.negative THEN -f[Places(n, MaxExponent)]
                                             ELSE f[Places(n, MaxExponent)]
  BY <1>1, <1>4, ValueIsRead
<1>6. LET form == normalizeJSONNumber(n)
          d == Shown(n, MaxExponent)
          m == Places(n, MaxExponent)
      IN  \/ form = Zero /\ \A i \in 1..m : d[i] = 0
          \/ /\ form = [is |-> "number", negative |-> n.negative, digits |-> form.digits,
                        exponent |-> form.exponent]
             /\ \E first, last : Spans(form, d, m, MaxExponent, first, last)
  BY <1>1, <1>4, FormOfShown
<1> QED BY <1>1, <1>5, <1>6

(* Nothing is read of zeros, and zeros only are read as nothing.           *)
LEMMA NothingIsReadOfZeros ==
  ASSUME NEW m \in Nat, NEW d \in [1..m -> 0..9], NEW f, Reads(f, d, m)
  PROVE  f[m] = 0 <=> \A i \in 1..m : d[i] = 0
<1> DEFINE none == [i \in 1..0 |-> 0]
           start == [i \in 0..0 |-> 0]
<1>1. none \in [1..0 -> 0..9] /\ Reads(start, none, 0) /\ start[0] = 0
  BY DEF Reads
<1>2. m - 0 = m /\ 0 <= m /\ 0 \in Nat /\ \A i \in 1..0 : FALSE
  OBVIOUS
<1>3. Aligned(none, 0, d, m) <=> \A i \in 1..m : d[i] = 0
  <2> HIDE DEF none
  <2> QED BY <1>2 DEF Aligned
<1>4. Aligned(none, 0, d, m) => f[m] = 0
  <2> HIDE DEF none, start
  <2> QED BY <1>1, <1>2, SameDigitsAreRead
<1>5. f[m] = 0 => Aligned(none, 0, d, m)
  <2> HIDE DEF none, start
  <2> QED BY <1>1, <1>2, ReadTheSame
<1> QED BY <1>3, <1>4, <1>5

(* Numbers of any length have one form exactly when they have one value.   *)
LEMMA OneFormOneValue ==
  ASSUME NEW n, LiteralTypes(n), normalizeJSONNumber(n) # Rejected,
         NEW o, LiteralTypes(o), normalizeJSONNumber(o) # Rejected,
         Places(n, MaxExponent) <= Places(o, MaxExponent)
  PROVE  normalizeJSONNumber(n) = normalizeJSONNumber(o)
           <=> ValueOf(n, MaxExponent) = ValueOf(o, MaxExponent)
<1> DEFINE v == normalizeJSONNumber(n)
           d == Shown(n, MaxExponent)
           m == Places(n, MaxExponent)
           w == normalizeJSONNumber(o)
           e == Shown(o, MaxExponent)
           l == Places(o, MaxExponent)
<1>1. PICK f : /\ Reads(f, d, m)
               /\ ValueOf(n, MaxExponent) = IF n.negative THEN -f[m] ELSE f[m]
  BY AcceptedIsShown
<1>2. PICK g : /\ Reads(g, e, l)
               /\ ValueOf(o, MaxExponent) = IF o.negative THEN -g[l] ELSE g[l]
  BY AcceptedIsShown
<1>3. /\ m \in Nat /\ d \in [1..m -> 0..9] /\ n.negative \in BOOLEAN
      /\ \/ v = Zero /\ \A i \in 1..m : d[i] = 0
         \/ /\ v = [is |-> "number", negative |-> n.negative, digits |-> v.digits,
                    exponent |-> v.exponent]
            /\ \E first, last : Spans(v, d, m, MaxExponent, first, last)
  BY AcceptedIsShown
<1>4. /\ l \in Nat /\ e \in [1..l -> 0..9] /\ o.negative \in BOOLEAN
      /\ \/ w = Zero /\ \A i \in 1..l : e[i] = 0
         \/ /\ w = [is |-> "number", negative |-> o.negative, digits |-> w.digits,
                    exponent |-> w.exponent]
            /\ \E first, last : Spans(w, e, l, MaxExponent, first, last)
  BY AcceptedIsShown
<1>5. m <= l
  OBVIOUS
<1> HIDE DEF v, d, m, w, e, l
<1>6. f[m] \in Nat /\ g[l] \in Nat
  BY <1>1, <1>2, <1>3, <1>4 DEF Reads
<1>7. (f[m] = 0 <=> \A i \in 1..m : d[i] = 0) /\ (g[l] = 0 <=> \A i \in 1..l : e[i] = 0)
  BY <1>1, <1>2, <1>3, <1>4, NothingIsReadOfZeros
<1>8. (v = Zero <=> f[m] = 0) /\ (w = Zero <=> g[l] = 0)
  <2>1. ASSUME NEW form, NEW c, NEW k, NEW first, NEW last,
               Spans(form, c, k, MaxExponent, first, last)
        PROVE  form # Zero /\ ~ \A i \in 1..k : c[i] = 0
    <3>1. /\ first \in 1..k /\ last \in 1..k /\ first <= last /\ c[first] # 0
          /\ Len(form.digits) = last - first + 1
          /\ \A i \in 1..Len(form.digits) : form.digits[i] = c[first + i - 1]
      BY <2>1 DEF Spans
    <3>2. 1 \in 1..Len(form.digits) /\ first + 1 - 1 = first
      BY <3>1
    <3>3. form.digits[1] # 0
      BY <3>1, <3>2
    <3>4. Zero.digits[1] = 0
      BY DEF Zero
    <3> QED BY <3>1, <3>3, <3>4
  <2> QED BY <1>3, <1>4, <1>7, <2>1
<1>9. CASE v = Zero \/ w = Zero
  <2>1. ValueOf(n, MaxExponent) = 0 <=> f[m] = 0
    BY <1>1, <1>3, <1>6
  <2>2. ValueOf(o, MaxExponent) = 0 <=> g[l] = 0
    BY <1>2, <1>4, <1>6
  <2>3. v = w <=> ValueOf(n, MaxExponent) = ValueOf(o, MaxExponent)
    BY <1>8, <1>9, <2>1, <2>2
  <2> QED BY <2>3 DEF v, w
<1>10. CASE v # Zero /\ w # Zero
  <2>1. PICK a, b : Spans(v, d, m, MaxExponent, a, b)
    BY <1>3, <1>10
  <2>2. PICK x, y : Spans(w, e, l, MaxExponent, x, y)
    BY <1>4, <1>10
  <2>3. MaxExponent \in Int
    BY CanonicalAssumption
  <2>4. /\ v = [is |-> "number", negative |-> n.negative, digits |-> v.digits, exponent |-> v.exponent]
        /\ w = [is |-> "number", negative |-> o.negative, digits |-> w.digits, exponent |-> w.exponent]
    BY <1>3, <1>4, <1>10
  <2>5. Aligned(d, m, e, l) <=> v.digits = w.digits /\ v.exponent = w.exponent
    BY <1>3, <1>4, <1>5, <2>1, <2>2, <2>3, AlignedHaveOneForm, OneFormIsAligned
  <2>6. Aligned(d, m, e, l) <=> f[m] = g[l]
    BY <1>1, <1>2, <1>3, <1>4, <1>5, SameDigitsAreRead, ReadTheSame
  <2>7. v = w <=> n.negative = o.negative /\ f[m] = g[l]
    <3>1. v.negative = n.negative /\ w.negative = o.negative
      BY <2>4
    <3>2. v = w => n.negative = o.negative /\ v.digits = w.digits /\ v.exponent = w.exponent
      BY <3>1
    <3>3. n.negative = o.negative /\ v.digits = w.digits /\ v.exponent = w.exponent => v = w
      BY <2>4
    <3> QED BY <2>5, <2>6, <3>2, <3>3
  <2>8. f[m] > 0 /\ g[l] > 0
    BY <1>6, <1>8, <1>10
  <2>9. ValueOf(n, MaxExponent) = ValueOf(o, MaxExponent)
          <=> n.negative = o.negative /\ f[m] = g[l]
    BY <1>1, <1>2, <1>3, <1>4, <1>6, <2>8
  <2> QED BY <2>7, <2>9 DEF v, w
<1> QED BY <1>9, <1>10

(* A canonical form is its own.                                            *)
LEMMA FormOfForm ==
  ASSUME NEW n, LiteralTypes(n), normalizeJSONNumber(n) # Rejected
  PROVE  LET form == normalizeJSONNumber(n)
         IN  normalizeJSONNumber(Literal(form.negative, form.digits, <<>>, form.exponent, TRUE)) = form
<1> DEFINE form == normalizeJSONNumber(n)
           again == Literal(form.negative, form.digits, <<>>, form.exponent, TRUE)
<1>1. InRange(form.exponent)
  <2>1. InRange(0)
    BY CanonicalAssumption DEF InRange
  <2> QED BY <2>1 DEF normalizeJSONNumber, Zero
<1>2. /\ again.whole = form.digits /\ again.fraction = <<>> /\ again.exponent = form.exponent
      /\ again.negative = form.negative
  BY DEF Literal
<1>3. \/ form = Zero
      \/ /\ form = [is |-> "number", negative |-> form.negative, digits |-> form.digits,
                    exponent |-> form.exponent]
         /\ form.digits \in Seq(0..9) /\ Len(form.digits) \in Nat \ {0}
         /\ form.digits[1] # 0 /\ form.digits[Len(form.digits)] # 0
  <2>1. ASSUME NEW d, NEW m \in Nat, NEW a, NEW b, Spans(form, d, m, MaxExponent, a, b)
        PROVE  /\ form.digits \in Seq(0..9) /\ Len(form.digits) \in Nat \ {0}
               /\ form.digits[1] # 0 /\ form.digits[Len(form.digits)] # 0
    <3> HIDE DEF form
    <3>1. /\ a \in 1..m /\ b \in 1..m /\ a <= b /\ d[a] # 0 /\ d[b] # 0
          /\ form.digits \in Seq(0..9) /\ Len(form.digits) = b - a + 1
          /\ \A i \in 1..Len(form.digits) : form.digits[i] = d[a + i - 1]
      BY <2>1 DEF Spans
    <3>2. /\ 1 \in 1..Len(form.digits) /\ Len(form.digits) \in 1..Len(form.digits)
          /\ a + 1 - 1 = a /\ a + Len(form.digits) - 1 = b
      BY <3>1
    <3>3. form.digits[1] = d[a] /\ form.digits[Len(form.digits)] = d[b]
      BY <3>1, <3>2
    <3>4. Len(form.digits) \in Nat \ {0}
      BY <3>1, <3>2
    <3> QED BY <3>1, <3>3, <3>4
  <2>2. \/ form = Zero
        \/ /\ form = [is |-> "number", negative |-> n.negative, digits |-> form.digits,
                      exponent |-> form.exponent]
           /\ \E first, last : Spans(form, Shown(n, MaxExponent), Places(n, MaxExponent),
                                     MaxExponent, first, last)
    BY AcceptedIsShown
  <2>3. Places(n, MaxExponent) \in Nat
    BY AcceptedIsShown
  <2> HIDE DEF form
  <2>4. form = [is |-> "number", negative |-> n.negative, digits |-> form.digits,
                exponent |-> form.exponent] => form.negative = n.negative
    OBVIOUS
  <2> QED BY <2>1, <2>2, <2>3, <2>4
<1> HIDE DEF form, again
<1>4. form.digits \in Seq(0..9) /\ Len(form.digits) \in Nat \ {0} /\ form.exponent \in Int
  <2>1. Zero.digits \in Seq(0..9) /\ Len(Zero.digits) = 1
    BY DEF Zero
  <2>2. form.digits \in Seq(0..9) /\ Len(form.digits) \in Nat \ {0}
    BY <1>3, <2>1
  <2>3. form.exponent \in Int
    BY <1>1, CanonicalAssumption DEF InRange
  <2> QED BY <2>2, <2>3
<1>5. again.whole \o again.fraction = form.digits /\ Len(again.fraction) = 0
  BY <1>2, <1>4, ConcatEmptySeq
<1>6. again.exponent - Len(again.fraction) = form.exponent
  BY <1>2, <1>4, <1>5
<1> DEFINE S == Significant(form.digits)
<1>7. normalizeJSONNumber(again) =
        IF ~InRange(form.exponent) THEN Rejected
        ELSE IF S = {} THEN Zero
        ELSE IF ~InRange(form.exponent + Len(form.digits) - Max(S)) THEN Rejected
        ELSE [is |-> "number", negative |-> form.negative,
              digits |-> SubSeq(form.digits, Min(S), Max(S)),
              exponent |-> form.exponent + Len(form.digits) - Max(S)]
  <2> HIDE DEF S
  <2> QED BY <1>2, <1>5, <1>6 DEF normalizeJSONNumber, S
<1>8. CASE form = Zero
  <2>1. S = {}
    BY <1>8 DEF Significant, Zero
  <2> QED BY <1>1, <1>7, <1>8, <2>1 DEF form, again
<1>9. CASE form # Zero
  <2>1. /\ form = [is |-> "number", negative |-> form.negative, digits |-> form.digits,
                   exponent |-> form.exponent]
        /\ form.digits[1] # 0 /\ form.digits[Len(form.digits)] # 0
    BY <1>3, <1>9
  <2>2. 1 \in S /\ Len(form.digits) \in S /\ \A i \in S : i \in Int /\ 1 <= i /\ i <= Len(form.digits)
    BY <1>4, <2>1 DEF Significant
  <2> HIDE DEF S
  <2>3. Min(S) = 1 /\ Max(S) = Len(form.digits)
    BY <1>4, <2>2 DEF Min, Max
  <2>4. SubSeq(form.digits, 1, Len(form.digits)) = form.digits
    BY <1>4
  <2>5. form.exponent + Len(form.digits) - Len(form.digits) = form.exponent
    BY <1>4
  <2> QED BY <1>1, <1>7, <2>1, <2>2, <2>3, <2>4, <2>5 DEF form, again
<1> QED BY <1>8, <1>9

(* The digest tells two numbers apart exactly when they differ, whatever   *)
(* their length and however they are written (action.go:348-397).          *)
THEOREM NumbersHaveOneForm == NumbersSpec => []SameNumberSameForm
<1>1. (literal \in Literals) => SameNumberSameForm
  <2> SUFFICES ASSUME literal \in Literals, normalizeJSONNumber(literal) # Rejected,
                      NEW other \in Literals, normalizeJSONNumber(other) # Rejected
               PROVE  (normalizeJSONNumber(other) = normalizeJSONNumber(literal))
                        = (ValueOf(other, MaxExponent) = ValueOf(literal, MaxExponent))
    BY LiteralsAssumption, FormOfForm DEF SameNumberSameForm
  <2>1. LiteralTypes(literal) /\ LiteralTypes(other)
    BY LiteralsAssumption
  <2>2. Places(literal, MaxExponent) \in Nat /\ Places(other, MaxExponent) \in Nat
    BY <2>1, AcceptedIsShown
  <2>3. CASE Places(literal, MaxExponent) <= Places(other, MaxExponent)
    BY <2>1, <2>3, OneFormOneValue
  <2>4. CASE Places(other, MaxExponent) <= Places(literal, MaxExponent)
    BY <2>1, <2>4, OneFormOneValue
  <2> QED BY <2>2, <2>3, <2>4
<1>2. NumbersSpec => [](literal \in Literals)
  <2>1. NumbersInit => literal \in Literals
    BY DEF NumbersInit
  <2>2. literal \in Literals /\ [NumbersNext]_literal => (literal \in Literals)'
    BY DEF NumbersNext
  <2> QED BY <2>1, <2>2, PTL DEF NumbersSpec
<1> QED BY <1>1, <1>2, PTL

-----------------------------------------------------------------------------
(* A set of positions has a greatest, and Max is it.                       *)
LEMMA MaxOfPositions ==
  ASSUME NEW n \in Nat, NEW S \in SUBSET (1..n), S # {}
  PROVE  Max(S) \in S /\ \A j \in S : j <= Max(S)
<1>1. \E m \in S : \A j \in S : j <= m
  BY EndsOfPositions
<1>2. \A j \in S : j \in Int
  OBVIOUS
<1> QED BY <1>1, <1>2 DEF Max

HasLeast(S) == S \subseteq Int /\ \E m \in S : \A x \in S : m <= x

LEMMA LeastWithOneMore ==
  ASSUME NEW S, HasLeast(S), NEW x \in Int
  PROVE  HasLeast(S \cup {x})
<1>1. PICK m \in S : \A y \in S : m <= y
  BY DEF HasLeast
<1>2. m \in Int
  BY DEF HasLeast
<1>3. CASE x <= m
  BY <1>1, <1>2, <1>3 DEF HasLeast
<1>4. CASE m <= x
  BY <1>1, <1>2, <1>4 DEF HasLeast
<1> QED BY <1>2, <1>3, <1>4

LEMMA MinOfLeast ==
  ASSUME NEW S, HasLeast(S)
  PROVE  Min(S) \in Int /\ \A x \in S : Min(S) <= x
BY DEF Min, HasLeast

-----------------------------------------------------------------------------
(* What a decoder finds under a name is the value of one of the members.   *)
LEMMA FieldIsAMember ==
  ASSUME NEW members, MemberTypes(members), NEW name, FieldOf(members, name) # Null
  PROVE  \E i \in 1..Len(members) :
           members[i].key.name = name /\ FieldOf(members, name) = members[i].value
<1> DEFINE named == {i \in 1..Len(members) : members[i].key.name = name}
<1>1. named # {}
  BY DEF FieldOf
<1>2. Len(members) \in Nat
  BY DEF MemberTypes
<1>3. Max(named) \in named
  BY <1>1, <1>2, MaxOfPositions
<1>4. FieldOf(members, name) = members[Max(named)].value
  BY <1>1 DEF FieldOf
<1> QED BY <1>3, <1>4

LEMMA AcceptedMembers ==
  ASSUME NEW members, CanonicalizeJSON(members) # Rejected, NEW i \in 1..Len(members)
  PROVE  CanonicalValue(members[i].value) # Rejected
BY DEF CanonicalizeJSON

(* A payment's arguments, once parsed: an integer above zero and two texts *)
(* in their place, each with a canonical form.                             *)
PaymentArguments(arguments) ==
  \E amount, currency, recipient :
    /\ arguments = << Spelled("amount_minor", amount), Spelled("currency", currency),
                      Spelled("recipient", recipient) >>
    /\ IsInteger(amount) /\ amount = Number(amount.literal) /\ LiteralTypes(amount.literal)
    /\ ValueOf(amount.literal, 0) > 0 /\ IsText(currency) /\ IsText(recipient)
    /\ Rejected \notin {CanonicalValue(amount), CanonicalValue(currency), CanonicalValue(recipient)}

LEMMA ParsedPayment ==
  ASSUME NEW members, ArgumentTypes(members), ParsePayment(members) # <<>>
  PROVE  PaymentArguments(ParsePayment(members))
<1> DEFINE amount == FieldOf(members, "amount_minor")
           currency == FieldOf(members, "currency")
           recipient == FieldOf(members, "recipient")
           types == [amount_minor |-> "integer", currency |-> "text", recipient |-> "text"]
<1>1. /\ CanonicalizeJSON(members) # Rejected /\ Decodes(members, types)
      /\ amount # Null /\ currency # Null /\ recipient # Null
      /\ ValueOf(amount.literal, 0) > 0
      /\ ParsePayment(members) = << Spelled("amount_minor", amount), Spelled("currency", currency),
                                    Spelled("recipient", recipient) >>
  BY DEF ParsePayment
<1>2. MemberTypes(members)
  BY DEF ArgumentTypes
<1>3. PICK i \in 1..Len(members) : members[i].key.name = "amount_minor" /\ amount = members[i].value
  BY <1>1, <1>2, FieldIsAMember
<1>4. PICK j \in 1..Len(members) : members[j].key.name = "currency" /\ currency = members[j].value
  BY <1>1, <1>2, FieldIsAMember
<1>5. PICK k \in 1..Len(members) : members[k].key.name = "recipient" /\ recipient = members[k].value
  BY <1>1, <1>2, FieldIsAMember
<1>6. IsInteger(amount) /\ IsText(currency) /\ IsText(recipient)
  <2>1. types["amount_minor"] = "integer" /\ types["currency"] = "text" /\ types["recipient"] = "text"
    OBVIOUS
  <2>2. \A x \in 1..Len(members) :
          \/ members[x].value = Null
          \/ types[members[x].key.name] = "integer" /\ IsInteger(members[x].value)
          \/ types[members[x].key.name] = "text" /\ IsText(members[x].value)
    BY <1>1 DEF Decodes
  <2>3. "integer" # "text"
    OBVIOUS
  <2> HIDE DEF types, amount, currency, recipient
  <2> QED BY <1>1, <1>3, <1>4, <1>5, <2>1, <2>2, <2>3
<1>7. amount = Number(amount.literal) /\ LiteralTypes(amount.literal)
  BY <1>2, <1>3, <1>6 DEF MemberTypes, IsInteger
<1>8. /\ CanonicalValue(amount) # Rejected
      /\ CanonicalValue(currency) # Rejected
      /\ CanonicalValue(recipient) # Rejected
  BY <1>1, <1>3, <1>4, <1>5, AcceptedMembers
<1> HIDE DEF amount, currency, recipient, types
<1> QED BY <1>1, <1>6, <1>7, <1>8 DEF PaymentArguments

WriteArguments(arguments) ==
  \E path, content :
    /\ arguments = <<Spelled("path", path), Spelled("content", content)>>
    /\ IsText(path) /\ IsText(content) /\ content.text.bytes \in Nat
    /\ Rejected \notin {CanonicalValue(path), CanonicalValue(content)}

LEMMA ParsedWrite ==
  ASSUME NEW members, ArgumentTypes(members), ParseWrite(members) # <<>>
  PROVE  WriteArguments(ParseWrite(members))
<1> DEFINE path == FieldOf(members, "path")
           content == FieldOf(members, "content")
           types == [path |-> "text", content |-> "text"]
<1>1. /\ CanonicalizeJSON(members) # Rejected /\ Decodes(members, types)
      /\ path # Null /\ content # Null
      /\ ParseWrite(members) = <<Spelled("path", path), Spelled("content", content)>>
  BY DEF ParseWrite
<1>2. MemberTypes(members)
  BY DEF ArgumentTypes
<1>3. PICK i \in 1..Len(members) : members[i].key.name = "path" /\ path = members[i].value
  BY <1>1, <1>2, FieldIsAMember
<1>4. PICK j \in 1..Len(members) : members[j].key.name = "content" /\ content = members[j].value
  BY <1>1, <1>2, FieldIsAMember
<1>5. IsText(path) /\ IsText(content)
  <2>1. types["path"] = "text" /\ types["content"] = "text"
    OBVIOUS
  <2>2. \A x \in 1..Len(members) :
          \/ members[x].value = Null
          \/ types[members[x].key.name] = "integer" /\ IsInteger(members[x].value)
          \/ types[members[x].key.name] = "text" /\ IsText(members[x].value)
    BY <1>1 DEF Decodes
  <2>3. "integer" # "text"
    OBVIOUS
  <2> HIDE DEF types, path, content
  <2> QED BY <1>1, <1>3, <1>4, <2>1, <2>2, <2>3
<1>6. content.text.bytes \in Nat
  BY <1>4, <1>5 DEF ArgumentTypes
<1>7. CanonicalValue(path) # Rejected /\ CanonicalValue(content) # Rejected
  BY <1>1, <1>3, <1>4, AcceptedMembers
<1> HIDE DEF path, content, types
<1> QED BY <1>1, <1>5, <1>6, <1>7 DEF WriteArguments

-----------------------------------------------------------------------------
Named(name) == Key(name, TRUE)

LEMMA CardinalityOfTwo ==
  ASSUME NEW a, NEW b, a # b
  PROVE  IsFiniteSet({a, b}) /\ Cardinality({a, b}) = 2
<1>1. IsFiniteSet({a}) /\ Cardinality({a}) = 1
  BY FS_Singleton
<1>2. b \notin {a} /\ {a} \cup {b} = {a, b}
  OBVIOUS
<1>3. IsFiniteSet({a} \cup {b}) /\ Cardinality({a} \cup {b}) = Cardinality({a}) + 1
  BY <1>1, <1>2, FS_AddElement
<1> QED BY <1>1, <1>2, <1>3

LEMMA CardinalityOfThree ==
  ASSUME NEW a, NEW b, NEW c, a # b, b # c, a # c
  PROVE  Cardinality({a, b, c}) = 3
<1>1. IsFiniteSet({a, b}) /\ Cardinality({a, b}) = 2
  BY CardinalityOfTwo
<1>2. c \notin {a, b} /\ {a, b} \cup {c} = {a, b, c}
  OBVIOUS
<1>3. Cardinality({a, b} \cup {c}) = Cardinality({a, b}) + 1
  BY <1>1, <1>2, FS_AddElement
<1> QED BY <1>1, <1>2, <1>3

(* The canonical form of arguments has the canonical form of each.         *)
LEMMA CanonicalOfThree ==
  ASSUME NEW a, NEW b, NEW c, a # b, b # c, a # c, NEW x, NEW y, NEW z,
         Rejected \notin {CanonicalValue(x), CanonicalValue(y), CanonicalValue(z)}
  PROVE  /\ CanonicalizeJSON(<<Spelled(a, x), Spelled(b, y), Spelled(c, z)>>) # Rejected
         /\ LET form == CanonicalizeJSON(<<Spelled(a, x), Spelled(b, y), Spelled(c, z)>>)
            IN  /\ form.value[Named(a)] = CanonicalValue(x)
                /\ form.value[Named(b)] = CanonicalValue(y)
                /\ form.value[Named(c)] = CanonicalValue(z)
<1> DEFINE members == <<Spelled(a, x), Spelled(b, y), Spelled(c, z)>>
<1>1. /\ Len(members) = 3 /\ DOMAIN members = 1..3
      /\ members[1] = Spelled(a, x) /\ members[2] = Spelled(b, y) /\ members[3] = Spelled(c, z)
  OBVIOUS
<1>2. /\ members[1].key = Named(a) /\ members[2].key = Named(b)
      /\ members[3].key = Named(c)
      /\ members[1].value = x /\ members[2].value = y /\ members[3].value = z
  BY <1>1 DEF Spelled, Named
<1> HIDE DEF members
<1>3. KeysOf(members) = {Named(a), Named(b), Named(c)}
  <2>1. KeysOf(members) = {members[i].key : i \in 1..3}
    BY <1>1 DEF KeysOf
  <2>2. {members[i].key : i \in 1..3} = {members[1].key, members[2].key, members[3].key}
    OBVIOUS
  <2> QED BY <1>2, <2>1, <2>2, Zenon
<1>4. Named(a) # Named(b) /\ Named(b) # Named(c) /\ Named(a) # Named(c)
  BY DEF Key, Named
<1>5. Cardinality(KeysOf(members)) = 3
  <2>1. Cardinality({Named(a), Named(b), Named(c)}) = 3
    BY <1>4, CardinalityOfThree, Zenon
  <2> QED BY <1>3, <2>1
<1>6. Rejected \notin {CanonicalValue(members[i].value) : i \in 1..Len(members)}
  <2>1. \A i \in 1..3 : i = 1 \/ i = 2 \/ i = 3
    OBVIOUS
  <2> QED BY <1>1, <1>2, <2>1
<1>7. CanonicalizeJSON(members) =
        [is |-> "object",
         value |-> [k \in KeysOf(members) |->
                     CanonicalValue((CHOOSE m \in Range(members) : m.key = k).value)]]
  BY <1>1, <1>5, <1>6 DEF CanonicalizeJSON
<1>8. CanonicalizeJSON(members) # Rejected
  BY <1>7 DEF Rejected
<1>9. ASSUME NEW i \in 1..3
      PROVE  CanonicalizeJSON(members).value[members[i].key] = CanonicalValue(members[i].value)
  <2>1. \A m \in Range(members) : m = members[1] \/ m = members[2] \/ m = members[3]
    BY <1>1 DEF Range
  <2>2. members[i] \in Range(members)
    BY <1>1 DEF Range
  <2>3. i = 1 \/ i = 2 \/ i = 3
    OBVIOUS
  <2>4. (CHOOSE m \in Range(members) : m.key = members[i].key) = members[i]
    BY <1>2, <1>4, <2>1, <2>2, <2>3
  <2>5. members[i].key \in KeysOf(members)
    BY <1>1 DEF KeysOf
  <2>6. CanonicalizeJSON(members).value =
          [k \in KeysOf(members) |->
            CanonicalValue((CHOOSE m \in Range(members) : m.key = k).value)]
    BY <1>7
  <2>7. CanonicalizeJSON(members).value[members[i].key]
          = CanonicalValue((CHOOSE m \in Range(members) : m.key = members[i].key).value)
    BY <2>5, <2>6, Zenon
  <2> QED BY <2>4, <2>7
<1>10. /\ CanonicalizeJSON(members).value[Named(a)] = CanonicalValue(x)
       /\ CanonicalizeJSON(members).value[Named(b)] = CanonicalValue(y)
       /\ CanonicalizeJSON(members).value[Named(c)] = CanonicalValue(z)
  <2>1. 1 \in 1..3 /\ 2 \in 1..3 /\ 3 \in 1..3
    OBVIOUS
  <2> QED BY <1>2, <1>9, <2>1
<1> QED BY <1>8, <1>10 DEF members

LEMMA CanonicalOfTwo ==
  ASSUME NEW a, NEW b, a # b, NEW x, NEW y,
         Rejected \notin {CanonicalValue(x), CanonicalValue(y)}
  PROVE  /\ CanonicalizeJSON(<<Spelled(a, x), Spelled(b, y)>>) # Rejected
         /\ LET form == CanonicalizeJSON(<<Spelled(a, x), Spelled(b, y)>>)
            IN  /\ form.value[Named(a)] = CanonicalValue(x)
                /\ form.value[Named(b)] = CanonicalValue(y)
<1> DEFINE members == <<Spelled(a, x), Spelled(b, y)>>
<1>1. /\ Len(members) = 2 /\ DOMAIN members = 1..2
      /\ members[1] = Spelled(a, x) /\ members[2] = Spelled(b, y)
  OBVIOUS
<1>2. /\ members[1].key = Named(a) /\ members[2].key = Named(b)
      /\ members[1].value = x /\ members[2].value = y
  BY <1>1 DEF Spelled, Named
<1> HIDE DEF members
<1>3. KeysOf(members) = {Named(a), Named(b)}
  <2>1. KeysOf(members) = {members[i].key : i \in 1..2}
    BY <1>1 DEF KeysOf
  <2>2. {members[i].key : i \in 1..2} = {members[1].key, members[2].key}
    OBVIOUS
  <2> QED BY <1>2, <2>1, <2>2, Zenon
<1>4. Named(a) # Named(b)
  BY DEF Key, Named
<1>5. Cardinality(KeysOf(members)) = 2
  BY <1>3, <1>4, CardinalityOfTwo
<1>6. Rejected \notin {CanonicalValue(members[i].value) : i \in 1..Len(members)}
  <2>1. \A i \in 1..2 : i = 1 \/ i = 2
    OBVIOUS
  <2> QED BY <1>1, <1>2, <2>1
<1>7. CanonicalizeJSON(members) =
        [is |-> "object",
         value |-> [k \in KeysOf(members) |->
                     CanonicalValue((CHOOSE m \in Range(members) : m.key = k).value)]]
  BY <1>1, <1>5, <1>6 DEF CanonicalizeJSON
<1>8. CanonicalizeJSON(members) # Rejected
  BY <1>7 DEF Rejected
<1>9. ASSUME NEW i \in 1..2
      PROVE  CanonicalizeJSON(members).value[members[i].key] = CanonicalValue(members[i].value)
  <2>1. \A m \in Range(members) : m = members[1] \/ m = members[2]
    BY <1>1 DEF Range
  <2>2. members[i] \in Range(members)
    BY <1>1 DEF Range
  <2>3. i = 1 \/ i = 2
    OBVIOUS
  <2>4. (CHOOSE m \in Range(members) : m.key = members[i].key) = members[i]
    BY <1>2, <1>4, <2>1, <2>2, <2>3
  <2>5. members[i].key \in KeysOf(members)
    BY <1>1 DEF KeysOf
  <2>6. CanonicalizeJSON(members).value =
          [k \in KeysOf(members) |->
            CanonicalValue((CHOOSE m \in Range(members) : m.key = k).value)]
    BY <1>7
  <2>7. CanonicalizeJSON(members).value[members[i].key]
          = CanonicalValue((CHOOSE m \in Range(members) : m.key = members[i].key).value)
    BY <2>5, <2>6, Zenon
  <2> QED BY <2>4, <2>7
<1>10. /\ CanonicalizeJSON(members).value[Named(a)] = CanonicalValue(x)
       /\ CanonicalizeJSON(members).value[Named(b)] = CanonicalValue(y)
  <2>1. 1 \in 1..2 /\ 2 \in 1..2
    OBVIOUS
  <2> QED BY <1>2, <1>9, <2>1
<1> QED BY <1>8, <1>10 DEF members

(* Arguments in a profile's spelling that have one canonical form are the  *)
(* same: an amount is written in one way, a text as it is.                 *)
LEMMA SameFormSamePayment ==
  ASSUME NEW v, PaymentArguments(v), NEW w, PaymentArguments(w),
         CanonicalizeJSON(v) = CanonicalizeJSON(w)
  PROVE  v = w
<1>1. PICK a1, c1, r1 :
        /\ v = <<Spelled("amount_minor", a1), Spelled("currency", c1), Spelled("recipient", r1)>>
        /\ IsInteger(a1) /\ a1 = Number(a1.literal) /\ LiteralTypes(a1.literal)
        /\ ValueOf(a1.literal, 0) > 0 /\ IsText(c1) /\ IsText(r1)
        /\ Rejected \notin {CanonicalValue(a1), CanonicalValue(c1), CanonicalValue(r1)}
  BY DEF PaymentArguments
<1>2. PICK a2, c2, r2 :
        /\ w = <<Spelled("amount_minor", a2), Spelled("currency", c2), Spelled("recipient", r2)>>
        /\ IsInteger(a2) /\ a2 = Number(a2.literal) /\ LiteralTypes(a2.literal)
        /\ ValueOf(a2.literal, 0) > 0 /\ IsText(c2) /\ IsText(r2)
        /\ Rejected \notin {CanonicalValue(a2), CanonicalValue(c2), CanonicalValue(r2)}
  BY DEF PaymentArguments
<1>3. /\ CanonicalValue(a1) = CanonicalValue(a2)
      /\ CanonicalValue(c1) = CanonicalValue(c2)
      /\ CanonicalValue(r1) = CanonicalValue(r2)
  <2> DEFINE form == CanonicalizeJSON(v)
  <2>1. "amount_minor" # "currency" /\ "currency" # "recipient" /\ "amount_minor" # "recipient"
    OBVIOUS
  <2>2. /\ form.value[Named("amount_minor")] = CanonicalValue(a1)
        /\ form.value[Named("currency")] = CanonicalValue(c1)
        /\ form.value[Named("recipient")] = CanonicalValue(r1)
    BY <1>1, <2>1, CanonicalOfThree
  <2>3. /\ form.value[Named("amount_minor")] = CanonicalValue(a2)
        /\ form.value[Named("currency")] = CanonicalValue(c2)
        /\ form.value[Named("recipient")] = CanonicalValue(r2)
    BY <1>2, <2>1, CanonicalOfThree
  <2> QED BY <2>2, <2>3
<1>4. CanonicalValue(c1) = c1 /\ CanonicalValue(c2) = c2 /\ CanonicalValue(r1) = r1 /\ CanonicalValue(r2) = r2
  BY <1>1, <1>2 DEF CanonicalValue, IsText
<1>5. /\ CanonicalValue(a1) = normalizeJSONNumber(a1.literal)
      /\ CanonicalValue(a2) = normalizeJSONNumber(a2.literal)
  BY <1>1, <1>2 DEF CanonicalValue, IsInteger
<1>6. a1.literal = a2.literal
  <2>1. /\ a1.literal.fraction = <<>> /\ ~a1.literal.scientific
        /\ a2.literal.fraction = <<>> /\ ~a2.literal.scientific
    BY <1>1, <1>2 DEF IsInteger
  <2>2. /\ normalizeJSONNumber(a1.literal) = normalizeJSONNumber(a2.literal)
        /\ normalizeJSONNumber(a1.literal) # Rejected
    BY <1>1, <1>3, <1>5
  <2> QED BY <1>1, <1>2, <2>1, <2>2, SameFormSameInteger
<1>7. a1 = a2 /\ c1 = c2 /\ r1 = r2
  BY <1>1, <1>2, <1>3, <1>4, <1>6
<1> QED BY <1>1, <1>2, <1>7

LEMMA SameFormSameWrite ==
  ASSUME NEW v, WriteArguments(v), NEW w, WriteArguments(w),
         CanonicalizeJSON(v) = CanonicalizeJSON(w)
  PROVE  v = w
<1>1. PICK p1, c1 :
        /\ v = <<Spelled("path", p1), Spelled("content", c1)>> /\ IsText(p1) /\ IsText(c1)
        /\ Rejected \notin {CanonicalValue(p1), CanonicalValue(c1)}
  BY DEF WriteArguments
<1>2. PICK p2, c2 :
        /\ w = <<Spelled("path", p2), Spelled("content", c2)>> /\ IsText(p2) /\ IsText(c2)
        /\ Rejected \notin {CanonicalValue(p2), CanonicalValue(c2)}
  BY DEF WriteArguments
<1>3. "path" # "content"
  OBVIOUS
<1>4. /\ CanonicalizeJSON(v).value[Named("path")] = CanonicalValue(p1)
      /\ CanonicalizeJSON(v).value[Named("content")] = CanonicalValue(c1)
  BY <1>1, <1>3, CanonicalOfTwo
<1>5. /\ CanonicalizeJSON(w).value[Named("path")] = CanonicalValue(p2)
      /\ CanonicalizeJSON(w).value[Named("content")] = CanonicalValue(c2)
  BY <1>2, <1>3, CanonicalOfTwo
<1>6. CanonicalValue(p1) = p1 /\ CanonicalValue(c1) = c1 /\ CanonicalValue(p2) = p2 /\ CanonicalValue(c2) = c2
  BY <1>1, <1>2 DEF CanonicalValue, IsText
<1>7. p1 = p2 /\ c1 = c2
  BY <1>4, <1>5, <1>6
<1> QED BY <1>1, <1>2, <1>7

-----------------------------------------------------------------------------
ActionFields ==
  {"principal", "agent", "workload", "delegation", "tool", "capability", "resource",
   "operation", "profile", "audience", "arguments"}

ProfileOf(tool) == IF tool = Payment.tool THEN Payment ELSE Workspace

ParsedFor(tool, members) ==
  IF ProfileOf(tool) = Payment THEN ParsePayment(members) ELSE ParseWrite(members)

ProfileArguments(action) ==
  IF ProfileOf(action.tool) = Payment THEN PaymentArguments(action.arguments)
  ELSE WriteArguments(action.arguments)

(* What a prepared action is, whoever prepared it.                         *)
IsPrepared(action, facts) ==
  /\ DOMAIN action = ActionFields
  /\ ValidAction(action)
  /\ ProfileArguments(action)
  /\ facts = FactsOf(ProfileOf(action.tool), action.arguments)

LEMMA PreparedKnows ==
  ASSUME NEW input, DOMAIN input = ActionFields, ArgumentTypes(input.arguments),
         Prepare(input) # Rejected
  PROVE  /\ IsPrepared(Prepare(input).action, Prepare(input).facts)
         /\ Prepare(input).action.arguments = ParsedFor(Prepare(input).action.tool, input.arguments)
         /\ Prepare(input).upstream = ProfileOf(Prepare(input).action.tool).upstream
         /\ \A f \in ActionFields \ {"profile", "audience", "arguments"} :
              Prepare(input).action[f] = input[f]
<1> DEFINE profile == ProfileOf(input.tool)
           arguments == IF profile = Payment THEN ParsePayment(input.arguments)
                        ELSE ParseWrite(input.arguments)
           action == [input EXCEPT !.profile = profile.profile, !.audience = profile.audience,
                                   !.arguments = arguments]
<1>1. /\ arguments # <<>> /\ ValidAction(action)
      /\ Prepare(input).action = action /\ Prepare(input).facts = FactsOf(profile, arguments)
      /\ Prepare(input).upstream = profile.upstream
  BY DEF Prepare, ProfileOf
<1>2. /\ DOMAIN action = ActionFields /\ action.arguments = arguments
      /\ \A f \in ActionFields \ {"profile", "audience", "arguments"} : action[f] = input[f]
  BY DEF ActionFields
<1>3. action.tool = input.tool
  BY <1>2 DEF ActionFields
<1>4. IF profile = Payment THEN PaymentArguments(arguments) ELSE WriteArguments(arguments)
  BY <1>1, ParsedPayment, ParsedWrite
<1>5. arguments = ParsedFor(input.tool, input.arguments)
  BY DEF ParsedFor
<1> HIDE DEF action, arguments
<1> QED BY <1>1, <1>2, <1>3, <1>4, <1>5 DEF IsPrepared, ProfileArguments

LEMMA FactsAreSized ==
  ASSUME NEW action, NEW facts, IsPrepared(action, facts)
  PROVE  /\ facts.bytes \in Nat
         /\ facts.sideEffect \in {"financial_transaction", "logical_workspace_write"}
<1>1. facts = FactsOf(ProfileOf(action.tool), action.arguments) /\ ProfileArguments(action)
  BY DEF IsPrepared
<1>2. CASE ProfileOf(action.tool) = Payment
  <2>1. PICK amount, currency, recipient :
          /\ action.arguments = << Spelled("amount_minor", amount), Spelled("currency", currency),
                                   Spelled("recipient", recipient) >>
          /\ LiteralTypes(amount.literal)
    BY <1>1, <1>2 DEF ProfileArguments, PaymentArguments
  <2>2. action.arguments[1].value = amount
    BY <2>1 DEF Spelled
  <2>3. Len(amount.literal.whole) \in Nat
    BY <2>1 DEF LiteralTypes
  <2>4. PaymentBytes(action.arguments) \in Nat
    BY <2>2, <2>3, DecisionsAssumption DEF PaymentBytes
  <2> QED BY <1>1, <1>2, <2>4 DEF FactsOf
<1>3. CASE ProfileOf(action.tool) # Payment
  <2>1. PICK path, content :
          /\ action.arguments = <<Spelled("path", path), Spelled("content", content)>>
          /\ content.text.bytes \in Nat
    BY <1>1, <1>3 DEF ProfileArguments, WriteArguments
  <2>2. action.arguments[2].value = content
    BY <2>1 DEF Spelled
  <2> QED BY <1>1, <1>3, <2>1, <2>2 DEF FactsOf
<1> QED BY <1>2, <1>3

LEMMA PreparedHasAForm ==
  ASSUME NEW action, ProfileArguments(action)
  PROVE  CanonicalizeJSON(action.arguments) # Rejected
<1>1. CASE PaymentArguments(action.arguments)
  <2>1. PICK amount, currency, recipient :
          /\ action.arguments = << Spelled("amount_minor", amount), Spelled("currency", currency),
                                   Spelled("recipient", recipient) >>
          /\ Rejected \notin {CanonicalValue(amount), CanonicalValue(currency),
                              CanonicalValue(recipient)}
    BY <1>1 DEF PaymentArguments
  <2>2. "amount_minor" # "currency" /\ "currency" # "recipient" /\ "amount_minor" # "recipient"
    OBVIOUS
  <2>3. CanonicalizeJSON(<< Spelled("amount_minor", amount), Spelled("currency", currency),
                            Spelled("recipient", recipient) >>) # Rejected
    BY <2>1, <2>2, CanonicalOfThree, SMTT(30)
  <2> QED BY <2>1, <2>3
<1>2. CASE WriteArguments(action.arguments)
  <2>1. PICK path, content :
          /\ action.arguments = <<Spelled("path", path), Spelled("content", content)>>
          /\ Rejected \notin {CanonicalValue(path), CanonicalValue(content)}
    BY <1>2 DEF WriteArguments
  <2>2. "path" # "content"
    OBVIOUS
  <2> QED BY <2>1, <2>2, CanonicalOfTwo
<1> QED BY <1>1, <1>2 DEF ProfileArguments

(* The digest commits to everything: prepared actions with one digest are  *)
(* the same, and so are their facts.                                       *)
LEMMA DigestCommits ==
  ASSUME NEW a, NEW f, IsPrepared(a, f), NEW b, NEW g, IsPrepared(b, g), Digest(a) = Digest(b)
  PROVE  f = g /\ a.arguments = b.arguments /\ \A x \in ActionFields \ {"arguments"} : a[x] = b[x]
<1>1. /\ Digest(a) = [a EXCEPT !.arguments = CanonicalizeJSON(a.arguments)]
      /\ Digest(b) = [b EXCEPT !.arguments = CanonicalizeJSON(b.arguments)]
  BY PreparedHasAForm DEF Digest, IsPrepared
<1>2. DOMAIN a = ActionFields /\ DOMAIN b = ActionFields
  BY DEF IsPrepared
<1>3. \A x \in ActionFields \ {"arguments"} : a[x] = Digest(a)[x] /\ b[x] = Digest(b)[x]
  BY <1>1, <1>2
<1>4. \A x \in ActionFields \ {"arguments"} : a[x] = b[x]
  BY <1>3
<1>5. "arguments" \in ActionFields
  BY DEF ActionFields
<1>6. /\ Digest(a).arguments = CanonicalizeJSON(a.arguments)
      /\ Digest(b).arguments = CanonicalizeJSON(b.arguments)
  BY <1>1, <1>2, <1>5
<1>7. CanonicalizeJSON(a.arguments) = CanonicalizeJSON(b.arguments)
  BY <1>6
<1>8. a.tool = b.tool
  BY <1>4 DEF ActionFields
<1>9. a.arguments = b.arguments
  BY <1>7, <1>8, SameFormSamePayment, SameFormSameWrite DEF IsPrepared, ProfileArguments
<1>10. f = g
  BY <1>8, <1>9 DEF IsPrepared
<1> QED BY <1>4, <1>9, <1>10

(* An upstream reads of the prepared arguments what a decoder finds under  *)
(* each name in those that were asked for: the last member of a name, in   *)
(* any capitals, and nothing the profile does not know.                    *)
LEMMA ReadAsAsked ==
  ASSUME NEW tool, NEW members, MemberTypes(members), ParsedFor(tool, members) # <<>>,
         NEW name \in {"amount_minor", "currency", "recipient", "path", "content"}
  PROVE  UpstreamReads(ParsedFor(tool, members), name) = FieldOf(members, name)
<1> DEFINE value == FieldOf(members, name)
           parsed == ParsedFor(tool, members)
<1> SUFFICES UpstreamReads(parsed, name) = value
  OBVIOUS
<1>1. ASSUME NEW i \in 1..Len(parsed), parsed[i] = Spelled(name, value),
             \A j \in 1..Len(parsed) : parsed[j].key = Key(name, TRUE) => parsed[j] = parsed[i],
             DOMAIN parsed = 1..Len(parsed)
      PROVE  UpstreamReads(parsed, name) = value
  <2> HIDE DEF parsed, value
  <2> DEFINE known == {m \in Range(parsed) : m.key = Key(name, TRUE)}
  <2>1. parsed[i].key = Key(name, TRUE) /\ parsed[i].value = value
    BY <1>1 DEF Spelled
  <2>2. known = {parsed[i]}
    BY <1>1, <2>1 DEF Range
  <2>3. known # {} /\ (CHOOSE m \in known : TRUE) = parsed[i]
    <3> HIDE DEF known
    <3> QED BY <2>2
  <2> QED BY <2>1, <2>3 DEF UpstreamReads
<1>2. ASSUME DOMAIN parsed = 1..Len(parsed), NEW types, Decodes(members, types),
             \A j \in 1..Len(parsed) : parsed[j].key # Key(name, TRUE), name \notin DOMAIN types
      PROVE  UpstreamReads(parsed, name) = value
  <2>1. UpstreamReads(parsed, name) = Null
    <3> HIDE DEF parsed
    <3> QED BY <1>2 DEF UpstreamReads, Range
  <2>2. \A i \in 1..Len(members) : members[i].key.name # name
    BY <1>2 DEF Decodes
  <2>3. value = Null
    BY <2>2 DEF FieldOf
  <2> QED BY <2>1, <2>3
<1>3. CASE ProfileOf(tool) = Payment
  <2> DEFINE types == [amount_minor |-> "integer", currency |-> "text", recipient |-> "text"]
             first == FieldOf(members, "amount_minor")
             second == FieldOf(members, "currency")
             third == FieldOf(members, "recipient")
  <2>1. /\ parsed = <<Spelled("amount_minor", first), Spelled("currency", second),
                      Spelled("recipient", third)>>
        /\ Decodes(members, types)
    BY <1>3 DEF ParsedFor, ParsePayment
  <2>2. DOMAIN types = {"amount_minor", "currency", "recipient"}
    OBVIOUS
  <2>3. value = CASE name = "amount_minor" -> first [] name = "currency" -> second
                  [] name = "recipient" -> third [] OTHER -> value
    OBVIOUS
  <2> HIDE DEF parsed, types, first, second, third, value
  <2>4. /\ DOMAIN parsed = 1..3 /\ Len(parsed) = 3
        /\ parsed[1] = Spelled("amount_minor", first) /\ parsed[2] = Spelled("currency", second)
        /\ parsed[3] = Spelled("recipient", third)
    BY <2>1
  <2>5. /\ parsed[1].key = Key("amount_minor", TRUE) /\ parsed[2].key = Key("currency", TRUE)
        /\ parsed[3].key = Key("recipient", TRUE)
    BY <2>4 DEF Spelled
  <2>6. \A x, y : Key(x, TRUE) = Key(y, TRUE) => x = y
    BY DEF Key
  <2>7. \A j \in 1..3 : j = 1 \/ j = 2 \/ j = 3
    OBVIOUS
  <2>8. 1 \in 1..3 /\ 2 \in 1..3 /\ 3 \in 1..3
    OBVIOUS
  <2>9. CASE name = "amount_minor"
    <3>1. parsed[1] = Spelled(name, value)
      BY <2>3, <2>4, <2>9
    <3>2. \A j \in 1..Len(parsed) : parsed[j].key = Key(name, TRUE) => parsed[j] = parsed[1]
      BY <2>4, <2>5, <2>6, <2>7, <2>9
    <3> QED BY <1>1, <2>4, <2>8, <3>1, <3>2
  <2>10. CASE name = "currency"
    <3>1. parsed[2] = Spelled(name, value)
      BY <2>3, <2>4, <2>10
    <3>2. \A j \in 1..Len(parsed) : parsed[j].key = Key(name, TRUE) => parsed[j] = parsed[2]
      BY <2>4, <2>5, <2>6, <2>7, <2>10
    <3> QED BY <1>1, <2>4, <2>8, <3>1, <3>2
  <2>11. CASE name = "recipient"
    <3>1. parsed[3] = Spelled(name, value)
      BY <2>3, <2>4, <2>11
    <3>2. \A j \in 1..Len(parsed) : parsed[j].key = Key(name, TRUE) => parsed[j] = parsed[3]
      BY <2>4, <2>5, <2>6, <2>7, <2>11
    <3> QED BY <1>1, <2>4, <2>8, <3>1, <3>2
  <2>12. CASE name \in {"path", "content"}
    <3>1. \A j \in 1..Len(parsed) : parsed[j].key # Key(name, TRUE)
      BY <2>4, <2>5, <2>6, <2>7, <2>12
    <3>2. name \notin DOMAIN types
      BY <2>2, <2>12
    <3> QED BY <1>2, <2>1, <2>4, <3>1, <3>2
  <2> QED BY <2>9, <2>10, <2>11, <2>12 DEF parsed, value
<1>4. CASE ProfileOf(tool) # Payment
  <2> DEFINE types == [path |-> "text", content |-> "text"]
             first == FieldOf(members, "path")
             second == FieldOf(members, "content")
  <2>1. /\ parsed = <<Spelled("path", first), Spelled("content", second)>>
        /\ Decodes(members, types)
    BY <1>4 DEF ParsedFor, ParseWrite
  <2>2. DOMAIN types = {"path", "content"}
    OBVIOUS
  <2>3. value = CASE name = "path" -> first [] name = "content" -> second [] OTHER -> value
    OBVIOUS
  <2> HIDE DEF parsed, types, first, second, value
  <2>4. /\ DOMAIN parsed = 1..2 /\ Len(parsed) = 2
        /\ parsed[1] = Spelled("path", first) /\ parsed[2] = Spelled("content", second)
    BY <2>1
  <2>5. parsed[1].key = Key("path", TRUE) /\ parsed[2].key = Key("content", TRUE)
    BY <2>4 DEF Spelled
  <2>6. \A x, y : Key(x, TRUE) = Key(y, TRUE) => x = y
    BY DEF Key
  <2>7. \A j \in 1..2 : j = 1 \/ j = 2
    OBVIOUS
  <2>8. 1 \in 1..2 /\ 2 \in 1..2
    OBVIOUS
  <2>9. CASE name = "path"
    BY <1>1, <2>3, <2>4, <2>5, <2>6, <2>7, <2>8, <2>9
  <2>10. CASE name = "content"
    BY <1>1, <2>3, <2>4, <2>5, <2>6, <2>7, <2>8, <2>10
  <2>11. CASE name \in {"amount_minor", "currency", "recipient"}
    BY <1>2, <2>1, <2>2, <2>4, <2>5, <2>6, <2>7, <2>11
  <2> QED BY <2>9, <2>10, <2>11 DEF parsed, value
<1> QED BY <1>3, <1>4

-----------------------------------------------------------------------------
Remainder == \A a \in Int : a % Second \in 0..(Second - 1)

LEMMA RemainderIsSmall == Remainder
BY DecisionsAssumption DEF Remainder

(* A permit lasts no longer than its grant allows.                         *)
LEMMA LifetimeIsGranted ==
  ASSUME NEW r, NEW c, NEW override \in Int, now \in Int, c.maxDuration \in Int,
         Effective(r).delegated.expires # NotGiven => Effective(r).delegated.expires[1] \in Int
  PROVE  /\ Lifetime(r, c, override) \in Int
         /\ c.maxDuration > 0 => Lifetime(r, c, override) <= c.maxDuration
<1> DEFINE T == {t \in {override, c.maxDuration} : t > 0}
           D == IF Effective(r).delegated.expires = NotGiven THEN {}
                ELSE {Effective(r).delegated.expires[1] - now}
           limits == {PermitTTL} \cup T \cup D
<1>1. HasLeast({PermitTTL})
  BY DecisionsAssumption DEF HasLeast
<1>2. HasLeast({PermitTTL} \cup T)
  <2>1. \/ T = {} \/ T = {override} \/ T = {c.maxDuration} \/ T = {override} \cup {c.maxDuration}
    OBVIOUS
  <2>2. HasLeast({PermitTTL} \cup {override}) /\ HasLeast({PermitTTL} \cup {c.maxDuration})
    BY <1>1, LeastWithOneMore
  <2>3. HasLeast(({PermitTTL} \cup {override}) \cup {c.maxDuration})
    BY <2>2, LeastWithOneMore
  <2>4. /\ {PermitTTL} \cup {} = {PermitTTL}
        /\ {PermitTTL} \cup ({override} \cup {c.maxDuration})
             = ({PermitTTL} \cup {override}) \cup {c.maxDuration}
    OBVIOUS
  <2> HIDE DEF T
  <2> QED BY <1>1, <2>1, <2>2, <2>3, <2>4
<1>3. HasLeast(limits)
  <2>1. CASE Effective(r).delegated.expires = NotGiven
    <3>1. limits = {PermitTTL} \cup T
      BY <2>1
    <3> QED BY <1>2, <3>1
  <2>2. CASE Effective(r).delegated.expires # NotGiven
    <3>1. Effective(r).delegated.expires[1] - now \in Int
      BY <2>2
    <3>2. limits = ({PermitTTL} \cup T) \cup {Effective(r).delegated.expires[1] - now}
      BY <2>2
    <3> HIDE DEF T, limits
    <3> QED BY <1>2, <3>1, <3>2, LeastWithOneMore
  <2> QED BY <2>1, <2>2
<1>4. c.maxDuration > 0 => c.maxDuration \in limits
  OBVIOUS
<1>5. Lifetime(r, c, override) = Min(limits) - (Min(limits) % Second)
  BY DEF Lifetime
<1> HIDE DEF limits
<1>6. Min(limits) \in Int /\ \A x \in limits : Min(limits) <= x
  BY <1>3, MinOfLeast
<1>7. Min(limits) % Second \in Nat
  BY <1>6, RemainderIsSmall, DecisionsAssumption DEF Remainder
<1> QED BY <1>4, <1>5, <1>6, <1>7

-----------------------------------------------------------------------------
(* What holds of a grant a decision is made of.                            *)
GrantKnows(pol, r, e, cap, decision) ==
  LET granted == cap.resources[e.resource]
      constraints == mergeConstraints(cap.constraints, granted.constraints)
      flat == ~UsesStructuredContext(r)
      tool == MatchedOr(e.tool, flat, pol.missingTool, cap.tools)
      operation == MatchedOr(e.operation, flat, pol.missingOperation, granted.operations)
  IN  /\ decision.grant = Given([tool |-> tool, capability |-> e.capability,
                                 resource |-> e.resource, operations |-> granted.operations,
                                 constraints |-> constraints])
      /\ decision.route = Or(cap.route, "allow") /\ StatusOf(decision.route) = "AUTHORIZED"
      /\ tool # None /\ tool \in Range(cap.tools)
      /\ operation # None /\ operation \in Range(granted.operations)
      /\ pol.resources[e.resource].scopes \cup cap.scopes \cup granted.scopes
           \subseteq e.delegated.scopes
      /\ Within(constraints, e, operation)
      /\ constraints.maxBytes \in Int /\ constraints.maxDuration \in Int

(* An authorization is of a capability the policy grants, or of one it     *)
(* allows by name only.                                                    *)
LEMMA AuthorizationKnows ==
  ASSUME NEW pol, LoadPolicy(pol), NEW r, NEW t,
         EvaluatePolicy(pol, r, t).status = "AUTHORIZED"
  PROVE  LET e == Effective(r)
             agent == pol.agents[e.agent]
         IN  \E cap :
               /\ GrantKnows(pol, r, e, cap, EvaluatePolicy(pol, r, t))
               /\ \/ /\ e.agent \in DOMAIN pol.agents /\ e.capability \in DOMAIN agent.capabilities
                     /\ e.resource \in DOMAIN cap.resources
                     /\ cap = agent.capabilities[e.capability]
                  \/ cap = legacyGrant(pol, e.resource)
<1> DEFINE e == Effective(r)
           agent == pol.agents[e.agent]
           d == EvaluatePolicy(pol, r, t)
           cap == CapabilityOf(pol, e)[1]
           granted == cap.resources[e.resource]
           constraints == mergeConstraints(cap.constraints, granted.constraints)
<1>1. Denied.status = "DENIED" /\ "DENIED" # "AUTHORIZED"
  BY DEF Denied
<1>2. /\ Identified(pol, r, e, t) /\ CapabilityOf(pol, e) # NotGiven
      /\ e.resource \in DOMAIN cap.resources
      /\ d = Granted(pol, r, e, cap)
  BY <1>1 DEF EvaluatePolicy
<1>3. e.agent \in DOMAIN pol.agents
  BY <1>2 DEF Identified
<1>4. \/ e.capability \in DOMAIN agent.capabilities /\ cap = agent.capabilities[e.capability]
      \/ cap = legacyGrant(pol, e.resource)
  BY <1>2 DEF CapabilityOf, Given
<1>5. LimitTypes(cap.constraints) /\ LimitTypes(granted.constraints)
  <2>1. CASE e.capability \in DOMAIN agent.capabilities /\ cap = agent.capabilities[e.capability]
    <3> HIDE DEF cap, e
    <3> QED BY <1>2, <1>3, <2>1 DEF LoadPolicy
  <2>2. CASE cap = legacyGrant(pol, e.resource)
    <3>1. cap.constraints.maxBytes = 0 /\ cap.constraints.maxDuration = 0
      BY <2>2 DEF legacyGrant
    <3>2. granted.constraints.maxBytes = 0 /\ granted.constraints.maxDuration = 0
      BY <2>2 DEF legacyGrant
    <3> QED BY <3>1, <3>2 DEF LimitTypes
  <2> QED BY <1>4, <2>1, <2>2
<1>6. constraints.maxBytes \in Int /\ constraints.maxDuration \in Int
  BY <1>5 DEF mergeConstraints, LimitTypes
<1> HIDE DEF e, cap
<1>7. GrantKnows(pol, r, e, cap, d)
  <2> DEFINE flat == ~UsesStructuredContext(r)
             tool == MatchedOr(e.tool, flat, pol.missingTool, cap.tools)
             operation == MatchedOr(e.operation, flat, pol.missingOperation, granted.operations)
             route == Or(cap.route, "allow")
  <2>1. /\ tool # None /\ tool \in Range(cap.tools)
        /\ operation # None /\ operation \in Range(granted.operations)
        /\ pol.resources[e.resource].scopes \cup cap.scopes \cup granted.scopes
             \subseteq e.delegated.scopes
        /\ Within(constraints, e, operation)
        /\ d = [status |-> StatusOf(route), route |-> route,
                grant |-> Given([tool |-> tool, capability |-> e.capability,
                                 resource |-> e.resource, operations |-> granted.operations,
                                 constraints |-> constraints])]
    BY <1>1, <1>2 DEF Granted
  <2>2. d.status = "AUTHORIZED"
    OBVIOUS
  <2> HIDE DEF d, tool, operation, route, constraints
  <2>3. d.route = route /\ StatusOf(d.route) = "AUTHORIZED" /\
        d.grant = Given([tool |-> tool, capability |-> e.capability,
                         resource |-> e.resource, operations |-> granted.operations,
                         constraints |-> constraints])
    BY <2>1, <2>2
  <2> QED BY <1>6, <2>1, <2>3 DEF GrantKnows, tool, operation, route, constraints
<1> QED BY <1>2, <1>3, <1>4, <1>7 DEF e, cap

-----------------------------------------------------------------------------
(* The second question differs from the first in the side effect and the   *)
(* size, which is no smaller than the exact one (router.go:163-195).       *)
WithFacts(r, effect, bytes) ==
  LET size == Effective(r).bytes
  IN  [r EXCEPT !.sideEffect = effect, !.bytes = IF bytes > size THEN bytes ELSE size]

LEMMA SecondQuestion ==
  ASSUME NEW r, RequestTypes(r), Effective(r).bytes >= 0, NEW effect, NEW bytes \in Nat,
         NEW s, s = WithFacts(r, effect, bytes)
  PROVE  /\ UsesStructuredContext(s) = UsesStructuredContext(r)
         /\ \A f \in {"principal", "agent", "workload", "delegated", "tool", "capability",
                      "resource", "operation", "external"} : Effective(s)[f] = Effective(r)[f]
         /\ Effective(s).sideEffect = effect
         /\ Effective(s).bytes \in Int /\ bytes <= Effective(s).bytes
<1> DEFINE size == Effective(r).bytes
           most == IF bytes > size THEN bytes ELSE size
<1>1. /\ \A f \in RequestFields \ {"sideEffect", "bytes"} : s[f] = r[f]
      /\ s.sideEffect = effect /\ s.bytes = most
  BY DEF RequestTypes, RequestFields, WithFacts
<1>2. size \in Int /\ size = (IF r.bytes = 0 /\ r.access # NotGiven THEN r.access[1].bytes ELSE r.bytes)
  BY DEF Effective, RequestTypes
<1>3. most \in Int /\ bytes <= most /\ size <= most /\ size >= 0
  BY <1>2
<1> HIDE DEF most
<1>4. /\ s.principal = r.principal /\ s.agent = r.agent /\ s.workload = r.workload
      /\ s.fingerprint = r.fingerprint /\ s.scopes = r.scopes /\ s.issuer = r.issuer
      /\ s.subject = r.subject /\ s.expires = r.expires /\ s.tool = r.tool /\ s.capability = r.capability
      /\ s.resource = r.resource /\ s.operation = r.operation /\ s.external = r.external
      /\ s.access = r.access /\ s.flat = r.flat
  BY <1>1 DEF RequestFields
<1>5. UsesStructuredContext(s) = UsesStructuredContext(r)
  BY <1>4 DEF UsesStructuredContext
<1>6. \A f \in {"principal", "agent", "workload", "delegated", "tool", "capability",
                "resource", "operation", "external"} : Effective(s)[f] = Effective(r)[f]
  BY <1>4 DEF Effective
<1>7. Effective(s).sideEffect = effect
  BY <1>1 DEF Effective
<1>8. Effective(s).bytes = IF most = 0 /\ r.access # NotGiven THEN r.access[1].bytes ELSE most
  BY <1>1, <1>4 DEF Effective
<1>9. Effective(s).bytes \in Int /\ bytes <= Effective(s).bytes
  <2>1. CASE most = 0 /\ r.access # NotGiven
    <3>1. size = 0 /\ bytes = 0
      BY <1>2, <1>3, <2>1
    <3>2. r.bytes = 0
      <4>1. r.bytes # 0 => size = r.bytes
        BY <1>2
      <4> QED BY <3>1, <4>1
    <3>3. r.access[1].bytes = 0
      BY <1>2, <2>1, <3>1, <3>2
    <3> QED BY <1>8, <2>1, <3>1, <3>3
  <2>2. CASE ~(most = 0 /\ r.access # NotGiven)
    BY <1>3, <1>8, <2>2
  <2> QED BY <2>1, <2>2
<1> QED BY <1>5, <1>6, <1>7, <1>9

(* A request of the trusted intake is from whom the connection says.       *)
LEMMA ResolvedKnows ==
  ASSUME NEW p \in Proposals, NEW peer \in Peers, ResolvesIdentity(peer),
         UsesStructuredContext(resolved(p, peer))
  PROVE  LET r == resolved(p, peer)
         IN  /\ RequestTypes(r) /\ r.arguments = p.arguments /\ r.external = p.external
             /\ r.principal = peer.headers.principal[1] /\ r.principal # None
             /\ r.agent = peer.headers.agent[1] /\ r.agent # None
             /\ r.workload = peer.headers.workload[1]
             /\ r.scopes = Range(peer.headers.scopes[1])
             /\ r.fingerprint # None /\ r.expires = NotGiven
<1>1. RequestTypes(p)
  BY InputAssumption
<1>2. \A f \in RequestFields : f \in DOMAIN p
  BY <1>1 DEF RequestTypes
<1>3. UsesStructuredContext(p)
  <2> SUFFICES ASSUME ~UsesStructuredContext(p) PROVE FALSE
    OBVIOUS
  <2> DEFINE r == resolved(p, peer)
  <2>1. /\ r.principal = None /\ r.agent = None /\ r.fingerprint = None /\ r.scopes = {}
        /\ r.tool = p.tool /\ r.capability = p.capability
        /\ r.operation = p.operation /\ r.resource = p.resource
    BY <1>2 DEF resolved, RequestFields
  <2>2. p.tool = None /\ p.capability = None /\ p.operation = None /\ p.resource = None
    BY DEF UsesStructuredContext
  <2> HIDE DEF r
  <2>3. ~UsesStructuredContext(r)
    BY <2>1, <2>2 DEF UsesStructuredContext
  <2> QED BY <2>3 DEF r
<1>4. \A h \in IdentityHeaders : peer.headers[h][1] # None
  BY DEF ResolvesIdentity, StrictHeader, NoLabel, None
<1>5. /\ peer.headers.principal[1] # None /\ peer.headers.agent[1] # None
      /\ peer.headers.fingerprint[1] # None
  BY <1>4 DEF IdentityHeaders
<1> DEFINE r == resolved(p, peer)
<1>6. /\ DOMAIN r = RequestFields
      /\ r.bytes = p.bytes /\ r.access = p.access /\ r.expires = NotGiven
      /\ r.arguments = p.arguments /\ r.external = p.external
      /\ r.principal = peer.headers.principal[1] /\ r.agent = peer.headers.agent[1]
      /\ r.workload = peer.headers.workload[1] /\ r.fingerprint = peer.headers.fingerprint[1]
      /\ r.scopes = Range(peer.headers.scopes[1])
  BY <1>1, <1>2, <1>3 DEF resolved, RequestFields, RequestTypes
<1> HIDE DEF r
<1>7. RequestTypes(r)
  BY <1>1, <1>6 DEF RequestTypes
<1> QED BY <1>5, <1>6, <1>7 DEF r

-----------------------------------------------------------------------------
(* What ForwardedWasGranted says of an action and its facts, of the policy *)
(* that grants them.                                                       *)
WithinGrantOf(granting, sent, facts, peer) ==
  LET identity == peer.headers
      agent == granting.agents[identity.agent[1]]
      grant == agent.capabilities[sent.capability]
      onResource == grant.resources[sent.resource]
      either(f) == IF onResource.constraints[f] # None THEN onResource.constraints[f]
                   ELSE grant.constraints[f]
      sideEffects == IF onResource.constraints.sideEffects # NotGiven
                     THEN onResource.constraints.sideEffects[1]
                     ELSE grant.constraints.sideEffects[1]
      limit == IF onResource.constraints.maxBytes > 0 THEN onResource.constraints.maxBytes
               ELSE grant.constraints.maxBytes
  IN  /\ peer.address = "trusted proxy"
      /\ <<sent.principal>> = identity.principal /\ <<sent.agent>> = identity.agent
      /\ <<sent.workload>> = identity.workload
      /\ sent.tool \in Range(grant.tools) /\ sent.operation \in Range(onResource.operations)
      /\ granting.resources[sent.resource].scopes \cup grant.scopes \cup onResource.scopes
           \subseteq Range(identity.scopes[1])
      /\ grant.route \in {None, "allow"}
      /\ either("network") = "allow" /\ either("write") = "allow"
      /\ facts.sideEffect \in sideEffects
      /\ limit > 0 => facts.bytes <= limit

WithinGrant(sent, facts, peer) == WithinGrantOf(policy, sent, facts, peer)

(* A grant without obligations allows egress and writing and is not one    *)
(* the agent has by name only.                                             *)
LEMMA NoObligations ==
  ASSUME NEW r, NEW e, NEW cap, NEW decision, GrantKnows(policy, r, e, cap, decision),
         policyObligations(decision) = {}
  PROVE  LET constraints == mergeConstraints(cap.constraints, cap.resources[e.resource].constraints)
         IN  /\ constraints.network = "allow" /\ constraints.write = "allow"
             /\ Or(cap.route, "allow") \notin {"restrict", "sandbox"}
<1> DEFINE constraints == mergeConstraints(cap.constraints, cap.resources[e.resource].constraints)
<1>1. decision.grant # NotGiven /\ decision.grant[1].constraints = constraints
  BY DEF GrantKnows, Given, NotGiven
<1>2. decision.route = Or(cap.route, "allow")
  BY DEF GrantKnows
<1> HIDE DEF constraints
<1>3. "network_egress_denied" \notin policyObligations(decision)
  OBVIOUS
<1>4. "read_only" \notin policyObligations(decision)
  OBVIOUS
<1>5. "enhanced_audit_required" \notin policyObligations(decision)
  OBVIOUS
<1>6. constraints.network = "allow"
  BY <1>1, <1>3 DEF policyObligations
<1>7. constraints.write = "allow"
  BY <1>1, <1>4 DEF policyObligations
<1>8. decision.route \notin {"restrict", "sandbox"}
  BY <1>5 DEF policyObligations
<1> QED BY <1>2, <1>6, <1>7, <1>8 DEF constraints

LEMMA NotByNameOnly ==
  ASSUME NEW cap, NEW resource, cap = legacyGrant(policy, resource)
  PROVE  mergeConstraints(cap.constraints, cap.resources[resource].constraints).network # "allow"
<1>1. cap.constraints.network = "deny" /\ cap.resources[resource].constraints.network = None
  BY DEF legacyGrant
<1>2. mergeConstraints(cap.constraints, cap.resources[resource].constraints).network = "deny"
  BY <1>1 DEF mergeConstraints, Or, None
<1> QED BY <1>2

(* How a decision on an execution came about: it is the answer to a second *)
(* question, with the identity of the connection and the prepared facts.   *)
TrustedKnows(p, peer, prepared, decision, s, cap) ==
  LET e == Effective(s)
      action == prepared.action
      facts == prepared.facts
  IN  /\ UsesStructuredContext(s) /\ GrantKnows(policy, s, e, cap, decision)
      /\ \/ /\ e.agent \in DOMAIN policy.agents
            /\ e.capability \in DOMAIN policy.agents[e.agent].capabilities
            /\ e.resource \in DOMAIN cap.resources
            /\ cap = policy.agents[e.agent].capabilities[e.capability]
         \/ cap = legacyGrant(policy, e.resource)
      /\ IsPrepared(action, facts)
      /\ action.arguments = ParsedFor(action.tool, p.arguments)
      /\ facts.bytes \in Nat
      /\ facts.sideEffect \in {"financial_transaction", "logical_workspace_write"}
      /\ e.sideEffect = facts.sideEffect /\ e.bytes \in Int /\ facts.bytes <= e.bytes
      /\ e.external = p.external
      /\ e.principal = peer.headers.principal[1] /\ e.agent = peer.headers.agent[1]
      /\ e.workload = peer.headers.workload[1]
      /\ e.delegated.scopes = Range(peer.headers.scopes[1])
      /\ action.principal = e.principal /\ action.agent = e.agent /\ action.workload = e.workload
      /\ action.tool = e.tool /\ action.capability = e.capability
      /\ action.resource = e.resource /\ action.operation = e.operation

LEMMA TrustedDecision ==
  ASSUME policy \in Policies, now \in Nat,
         NEW p \in Proposals, NEW peer \in Peers, ResolvesIdentity(peer),
         UsesStructuredContext(resolved(p, peer)), Effective(resolved(p, peer)).bytes >= 0,
         NEW prepared, prepared = Prepare(executionAction(resolved(p, peer))),
         prepared # Rejected, NEW decision, decision = Decided(resolved(p, peer), prepared),
         decision.status = "AUTHORIZED"
  PROVE  \E s, cap : TrustedKnows(p, peer, prepared, decision, s, cap)
<1> DEFINE r == resolved(p, peer)
           action == prepared.action
           facts == prepared.facts
           s == WithFacts(r, facts.sideEffect, facts.bytes)
           e == Effective(s)
<1>1. /\ RequestTypes(r) /\ r.arguments = p.arguments /\ r.external = p.external
      /\ r.principal = peer.headers.principal[1] /\ r.principal # None
      /\ r.agent = peer.headers.agent[1] /\ r.agent # None
      /\ r.workload = peer.headers.workload[1]
      /\ r.scopes = Range(peer.headers.scopes[1])
      /\ r.fingerprint # None /\ r.expires = NotGiven
  BY ResolvedKnows
<1>2. DOMAIN executionAction(r) = ActionFields /\ executionAction(r).arguments = p.arguments
  BY <1>1 DEF executionAction, ActionFields
<1>3. ArgumentTypes(executionAction(r).arguments)
  BY <1>2, InputAssumption
<1>4. /\ IsPrepared(action, facts)
      /\ action.arguments = ParsedFor(action.tool, p.arguments)
      /\ \A f \in ActionFields \ {"profile", "audience", "arguments"} :
           action[f] = executionAction(r)[f]
  BY <1>2, <1>3, PreparedKnows
<1>5. /\ facts.bytes \in Nat
      /\ facts.sideEffect \in {"financial_transaction", "logical_workspace_write"}
  BY <1>4, FactsAreSized
<1>6. /\ UsesStructuredContext(s)
      /\ \A f \in {"principal", "agent", "workload", "delegated", "tool", "capability",
                   "resource", "operation", "external"} : e[f] = Effective(r)[f]
      /\ e.sideEffect = facts.sideEffect /\ e.bytes \in Int /\ facts.bytes <= e.bytes
  BY <1>1, <1>5, SecondQuestion
<1>7. decision = EvaluatePolicy(policy, s, now)
  BY DEF Decided, Denied, WithFacts
<1>8. /\ e.principal = r.principal /\ e.agent = r.agent /\ e.workload = r.workload
      /\ e.delegated.scopes = r.scopes /\ e.external = p.external
  BY <1>1, <1>6 DEF Effective, Or
<1>9. /\ action.principal = e.principal /\ action.agent = e.agent /\ action.workload = e.workload
      /\ action.tool = e.tool /\ action.capability = e.capability
      /\ action.resource = e.resource /\ action.operation = e.operation
  BY <1>4, <1>6 DEF executionAction, ActionFields
<1>10. LoadPolicy(policy)
  BY InputAssumption
<1> HIDE DEF r, s, e
<1>11. EvaluatePolicy(policy, s, now).status = "AUTHORIZED"
  BY <1>7
<1>12. PICK cap :
         /\ GrantKnows(policy, s, e, cap, decision)
         /\ \/ /\ e.agent \in DOMAIN policy.agents
               /\ e.capability \in DOMAIN policy.agents[e.agent].capabilities
               /\ e.resource \in DOMAIN cap.resources
               /\ cap = policy.agents[e.agent].capabilities[e.capability]
            \/ cap = legacyGrant(policy, e.resource)
  BY <1>7, <1>10, <1>11, AuthorizationKnows DEF e
<1>13. TrustedKnows(p, peer, prepared, decision, s, cap)
  BY <1>1, <1>4, <1>5, <1>6, <1>8, <1>9, <1>12 DEF TrustedKnows, e
<1> QED BY <1>13

(* The action an execution permit is issued for is within its grant.       *)
LEMMA IssuedWithinGrant ==
  ASSUME policy \in Policies, NEW p \in Proposals, NEW peer \in Peers, ResolvesIdentity(peer),
         NEW prepared, NEW decision, NEW s, NEW cap,
         TrustedKnows(p, peer, prepared, decision, s, cap),
         policyObligations(decision) = {}
  PROVE  WithinGrant(prepared.action, prepared.facts, peer)
<1> DEFINE e == Effective(s)
           action == prepared.action
           facts == prepared.facts
           onResource == cap.resources[e.resource]
           constraints == mergeConstraints(cap.constraints, onResource.constraints)
<1>1. /\ facts.bytes \in Nat
      /\ facts.sideEffect \in {"financial_transaction", "logical_workspace_write"}
      /\ e.sideEffect = facts.sideEffect /\ e.bytes \in Int /\ facts.bytes <= e.bytes
      /\ UsesStructuredContext(s)
  BY DEF TrustedKnows
<1>2. /\ e.principal = peer.headers.principal[1] /\ e.agent = peer.headers.agent[1]
      /\ e.workload = peer.headers.workload[1]
      /\ e.delegated.scopes = Range(peer.headers.scopes[1])
  BY DEF TrustedKnows
<1>3. /\ action.principal = e.principal /\ action.agent = e.agent /\ action.workload = e.workload
      /\ action.tool = e.tool /\ action.capability = e.capability
      /\ action.resource = e.resource /\ action.operation = e.operation
  BY DEF TrustedKnows
<1>4. /\ GrantKnows(policy, s, e, cap, decision)
      /\ \/ /\ e.agent \in DOMAIN policy.agents
            /\ e.capability \in DOMAIN policy.agents[e.agent].capabilities
            /\ e.resource \in DOMAIN cap.resources
            /\ cap = policy.agents[e.agent].capabilities[e.capability]
         \/ cap = legacyGrant(policy, e.resource)
  BY DEF TrustedKnows
<1>5. LoadPolicy(policy)
  BY InputAssumption
<1> HIDE DEF e
<1>6. /\ constraints.network = "allow" /\ constraints.write = "allow"
      /\ Or(cap.route, "allow") \notin {"restrict", "sandbox"}
  BY <1>4, NoObligations
<1>7. /\ e.agent \in DOMAIN policy.agents
      /\ e.capability \in DOMAIN policy.agents[e.agent].capabilities
      /\ e.resource \in DOMAIN cap.resources
      /\ cap = policy.agents[e.agent].capabilities[e.capability]
  BY <1>4, <1>6, NotByNameOnly
<1>8. cap.route \in {None, "allow", "restrict", "sandbox"}
  BY <1>5, <1>7 DEF LoadPolicy
<1>9. cap.route \in {None, "allow"}
  BY <1>6, <1>8 DEF Or
<1>10. /\ e.tool \in Range(cap.tools) /\ e.operation \in Range(onResource.operations)
       /\ policy.resources[e.resource].scopes \cup cap.scopes \cup onResource.scopes
            \subseteq e.delegated.scopes
       /\ Within(constraints, e, e.operation)
  BY <1>1, <1>4 DEF GrantKnows, MatchedOr
<1>11. /\ (IF onResource.constraints.network # None THEN onResource.constraints.network
           ELSE cap.constraints.network) = "allow"
       /\ (IF onResource.constraints.write # None THEN onResource.constraints.write
           ELSE cap.constraints.write) = "allow"
  BY <1>6 DEF mergeConstraints, Or
<1>12. facts.sideEffect \in constraints.sideEffects
  <2>1. Changes(facts.sideEffect)
    BY <1>1 DEF Changes, None
  <2> QED BY <1>1, <1>10, <2>1 DEF Within
<1>13. facts.sideEffect \in IF onResource.constraints.sideEffects # NotGiven
                            THEN onResource.constraints.sideEffects[1]
                            ELSE cap.constraints.sideEffects[1]
  BY <1>12 DEF mergeConstraints
<1>14. constraints.maxBytes > 0 => facts.bytes <= constraints.maxBytes
  <2>1. constraints.maxBytes \in Int
    BY <1>4 DEF GrantKnows
  <2>2. constraints.maxBytes > 0 => e.bytes <= constraints.maxBytes
    BY <1>10 DEF Within
  <2> HIDE DEF constraints
  <2> QED BY <1>1, <2>1, <2>2
<1>15. constraints.maxBytes = IF onResource.constraints.maxBytes > 0
                              THEN onResource.constraints.maxBytes ELSE cap.constraints.maxBytes
  BY DEF mergeConstraints
<1>16. /\ <<action.principal>> = peer.headers.principal /\ <<action.agent>> = peer.headers.agent
       /\ <<action.workload>> = peer.headers.workload
  <2>1. \A h \in {"principal", "agent", "workload"} :
          peer.headers[h] \in Seq(STRING) /\ Len(peer.headers[h]) = 1
    BY InputAssumption DEF ResolvesIdentity, StrictHeader, IdentityHeaders
  <2>2. \A q \in Seq(STRING) : Len(q) = 1 => q = <<q[1]>>
    OBVIOUS
  <2>3. \A h \in {"principal", "agent", "workload"} : peer.headers[h] = <<peer.headers[h][1]>>
    BY <2>1, <2>2
  <2>4. /\ peer.headers.principal = <<peer.headers.principal[1]>>
        /\ peer.headers.agent = <<peer.headers.agent[1]>>
        /\ peer.headers.workload = <<peer.headers.workload[1]>>
    BY <2>3
  <2>5. /\ action.principal = peer.headers.principal[1]
        /\ action.agent = peer.headers.agent[1]
        /\ action.workload = peer.headers.workload[1]
    BY <1>2, <1>3
  <2> QED BY <2>4, <2>5, Zenon
<1>17. peer.address = "trusted proxy"
  BY DEF ResolvesIdentity
<1> HIDE DEF constraints, onResource
<1> QED
  BY <1>2, <1>3, <1>7, <1>9, <1>10, <1>11, <1>13, <1>14, <1>15, <1>16, <1>17
     DEF WithinGrant, WithinGrantOf, onResource

-----------------------------------------------------------------------------
(* What was granted with a permit holds for a faithful event.              *)
Limits(p) ==
  /\ p.facts.bytes \in Int /\ p.constraints.maxBytes \in Int /\ p.constraints.maxDuration \in Int
  /\ Effective(p.asked).external => p.constraints.network = "allow"
  /\ requestsSecret(p.facts.sideEffect, p.capability, p.resource) => p.constraints.secret = "allow"
  /\ IsWriteOperation(p.operation) => p.constraints.write = "allow"
  /\ Changes(p.facts.sideEffect) => p.facts.sideEffect \in p.constraints.sideEffects
  /\ p.constraints.maxBytes > 0 => p.facts.bytes <= p.constraints.maxBytes

(* The permit's time (router.go:1106-1124).                                *)
Lasting(p) ==
  /\ p.issuedAt \in Nat /\ p.expiresAt \in Int /\ p.issuedAt <= now /\ now < p.expiresAt
  /\ p.constraints.maxDuration > 0 => p.expiresAt - p.issuedAt <= p.constraints.maxDuration

(* An execution permit's digest is that of an action prepared from what    *)
(* was asked for, and unless obligations go with it the action is within   *)
(* its grant.                                                              *)
Bound(p) ==
  /\ IsPrepared(p.action, p.facts) /\ p.digest = Digest(p.action)
  /\ p.asked \in Proposals
  /\ p.action.arguments = ParsedFor(p.action.tool, p.asked.arguments)
  /\ p.obligations = {} => WithinGrant(p.action, p.facts, p.peer)

PermitKnows ==
  permit # NoPermit =>
    Limits(permit) /\ Lasting(permit) /\ (permit.class = "execution" => Bound(permit))

DecisionInv ==
  /\ policy \in Policies /\ now \in Nat
  /\ PermitKnows
  /\ ForwardedWasGranted
  /\ DispatchedIsSigned

LEMMA FaithfulWhenKnown ==
  ASSUME now \in Nat, PermitKnows
  PROVE  FaithfulEventsStayInside
<1> DEFINE event(at) ==
      [capability |-> permit.capability, tool |-> permit.tool,
       resource |-> permit.resource, operation |-> permit.operation,
       external |-> Effective(permit.asked).external,
       sideEffect |-> permit.facts.sideEffect, bytes |-> permit.facts.bytes,
       secretAccess |-> requestsSecret(permit.facts.sideEffect, permit.capability,
                                       permit.resource),
       timestamp |-> at]
<1> SUFFICES ASSUME permit # NoPermit,
                    NEW at \in {NotGiven} \cup {Given(t) : t \in permit.issuedAt..now}
             PROVE  Accepted(permit, event(at), now) /\ WithinEnvelope(permit, event(at))
  BY DEF FaithfulEventsStayInside
<1>1. Limits(permit) /\ Lasting(permit)
  BY DEF PermitKnows
<1>2. at # NotGiven => at[1] \in permit.issuedAt..now
  BY DEF Given, NotGiven
<1>3. at # NotGiven =>
        /\ at[1] <= permit.expiresAt
        /\ permit.constraints.maxDuration > 0
             => at[1] - permit.issuedAt <= permit.constraints.maxDuration
  BY <1>1, <1>2 DEF Lasting, Limits
<1>4. Accepted(permit, event(at), now)
  <2>1. permit.expiresAt > now
    BY <1>1 DEF Lasting
  <2> QED BY <1>3, <2>1 DEF Accepted
<1>5. WithinEnvelope(permit, event(at))
  BY <1>1, <1>3 DEF Limits, WithinEnvelope
<1> QED BY <1>4, <1>5

(* The two forms of a decision's limits.                                   *)
LEMMA LimitsOfADecision ==
  ASSUME NEW r, NEW e, NEW cap, NEW decision, GrantKnows(policy, r, e, cap, decision),
         e.bytes \in Int, NEW facts, facts.bytes \in Int, facts.bytes <= e.bytes,
         facts.sideEffect = e.sideEffect, NEW p, p.facts = facts,
         p.constraints = decision.grant[1].constraints,
         p.capability = e.capability, p.resource = e.resource,
         p.operation = MatchedOr(e.operation, ~UsesStructuredContext(r), policy.missingOperation,
                                 cap.resources[e.resource].operations),
         Effective(p.asked).external = e.external
  PROVE  Limits(p)
<1> DEFINE operation == MatchedOr(e.operation, ~UsesStructuredContext(r),
                                  policy.missingOperation, cap.resources[e.resource].operations)
           constraints == mergeConstraints(cap.constraints, cap.resources[e.resource].constraints)
<1>1. p.constraints = constraints
  BY DEF GrantKnows, Given
<1>2. /\ constraints.maxBytes \in Int /\ constraints.maxDuration \in Int
      /\ Within(constraints, e, operation)
  BY DEF GrantKnows
<1>3. p.operation = operation
  OBVIOUS
<1> HIDE DEF constraints, operation
<1> QED BY <1>1, <1>2, <1>3 DEF Limits, Within

LEMMA LastingWhenIssued ==
  ASSUME now \in Nat, NEW ttl \in Int, ttl >= Second, NEW p,
         p.issuedAt = now - (now % Second), p.expiresAt = p.issuedAt + ttl,
         p.constraints.maxDuration \in Int,
         p.constraints.maxDuration > 0 => ttl <= p.constraints.maxDuration
  PROVE  Lasting(p)
<1>1. now % Second \in 0..(Second - 1) /\ Second \in Nat
  BY RemainderIsSmall, DecisionsAssumption DEF Remainder
<1>2. now % Second <= now
  BY DecisionsAssumption
<1> QED BY <1>1, <1>2 DEF Lasting

-----------------------------------------------------------------------------
LEMMA InitKnows == DecisionsInit => DecisionInv
<1> SUFFICES ASSUME DecisionsInit PROVE DecisionInv
  OBVIOUS
<1>1. policy \in Policies /\ now = 0 /\ permit = NoPermit /\ forwarded.kind = "none"
  BY DEF DecisionsInit, NothingSent
<1>2. PermitKnows
  BY <1>1 DEF PermitKnows
<1>3. ForwardedWasGranted
  BY <1>1 DEF ForwardedWasGranted
<1>4. DispatchedIsSigned
  BY <1>1 DEF DispatchedIsSigned
<1> QED BY <1>1, <1>2, <1>3, <1>4 DEF DecisionInv

(* A step that leaves the policy, the clock and what was sent alone keeps  *)
(* the invariant when the new permit is as one should be.                  *)
LEMMA IssueKeeps ==
  ASSUME DecisionInv, UNCHANGED <<policy, now, forwarded>>,
         Limits(permit'), Lasting(permit'), permit'.class = "execution" => Bound(permit')
  PROVE  DecisionInv'
<1>1. policy' = policy /\ now' = now /\ forwarded' = forwarded
  OBVIOUS
<1>2. Limits(permit)' /\ Lasting(permit)'
  BY <1>1 DEF Limits, Lasting
<1>3. (permit.class = "execution" => Bound(permit))'
  BY <1>1 DEF Bound, WithinGrant
<1>4. PermitKnows'
  BY <1>2, <1>3 DEF PermitKnows
<1>5. ForwardedWasGranted' /\ DispatchedIsSigned'
  BY <1>1 DEF DecisionInv, ForwardedWasGranted, DispatchedIsSigned
<1> QED BY <1>1, <1>4, <1>5 DEF DecisionInv

LEMMA TrustedIssueKeeps ==
  ASSUME DecisionInv, NEW p \in Proposals, NEW peer \in Peers, AuthorizeTrustedAction(p, peer)
  PROVE  DecisionInv'
<1> DEFINE r == resolved(p, peer)
           prepared == Prepare(executionAction(r))
           decision == Decided(r, prepared)
           ttl == Lifetime(r, decision.grant[1].constraints, 0)
           issued == PermitFor("execution", p, peer, decision, prepared.action, prepared.facts, ttl)
<1>1. policy \in Policies /\ now \in Nat
  BY DEF DecisionInv
<1>2. /\ ResolvesIdentity(peer) /\ UsesStructuredContext(r) /\ Validate(r)
      /\ decision.status = "AUTHORIZED" /\ ttl >= Second
      /\ permit' = issued /\ UNCHANGED <<policy, now, forwarded>>
  BY DEF AuthorizeTrustedAction
<1>3. Effective(r).bytes >= 0
  BY <1>2 DEF Validate
<1>4. prepared # Rejected
  BY <1>2 DEF Decided, Denied
<1>5. PICK s, cap : TrustedKnows(p, peer, prepared, decision, s, cap)
  BY <1>1, <1>2, <1>3, <1>4, TrustedDecision
<1> DEFINE e == Effective(s)
           operation == MatchedOr(e.operation, ~UsesStructuredContext(s),
                                  policy.missingOperation, cap.resources[e.resource].operations)
<1>6. /\ UsesStructuredContext(s) /\ GrantKnows(policy, s, e, cap, decision)
      /\ IsPrepared(prepared.action, prepared.facts)
      /\ prepared.action.arguments = ParsedFor(prepared.action.tool, p.arguments)
      /\ prepared.facts.bytes \in Nat /\ e.bytes \in Int /\ prepared.facts.bytes <= e.bytes
      /\ e.sideEffect = prepared.facts.sideEffect /\ e.external = p.external
      /\ prepared.action.capability = e.capability /\ prepared.action.resource = e.resource
      /\ prepared.action.operation = e.operation
  BY <1>5 DEF TrustedKnows
<1>7. operation = e.operation
  BY <1>6 DEF MatchedOr
<1>8. r.expires = NotGiven /\ r.fingerprint # None
  BY <1>2, ResolvedKnows
<1>9. Effective(r).delegated.expires = NotGiven
  BY <1>8 DEF Effective
<1>10. decision.grant[1].constraints.maxDuration \in Int
  BY <1>6 DEF GrantKnows, Given
<1>11. /\ ttl \in Int
       /\ decision.grant[1].constraints.maxDuration > 0
            => ttl <= decision.grant[1].constraints.maxDuration
  BY <1>1, <1>9, <1>10, LifetimeIsGranted
<1> HIDE DEF prepared, decision, ttl, e
<1>12. /\ issued.class = "execution" /\ issued.digest = Digest(prepared.action)
       /\ issued.action = prepared.action /\ issued.facts = prepared.facts
       /\ issued.asked = p /\ issued.peer = peer
       /\ issued.obligations = policyObligations(decision)
       /\ issued.constraints = decision.grant[1].constraints
       /\ issued.capability = prepared.action.capability
       /\ issued.resource = prepared.action.resource
       /\ issued.operation = prepared.action.operation
       /\ issued.issuedAt = now - (now % Second) /\ issued.expiresAt = issued.issuedAt + ttl
  BY DEF PermitFor
<1> HIDE DEF issued
<1>13. Effective(issued.asked).external = e.external
  BY <1>6, <1>12 DEF Effective
<1>14. Limits(issued)
  BY <1>6, <1>7, <1>12, <1>13, LimitsOfADecision DEF e
<1>15. Lasting(issued)
  BY <1>1, <1>2, <1>10, <1>11, <1>12, LastingWhenIssued
<1>16. policyObligations(decision) = {} => WithinGrant(prepared.action, prepared.facts, peer)
  BY <1>1, <1>2, <1>5, IssuedWithinGrant
<1>17. Bound(issued)
  BY <1>6, <1>12, <1>16 DEF Bound
<1> QED BY <1>2, <1>14, <1>15, <1>17, IssueKeeps

LEMMA DemoIssueKeeps ==
  ASSUME DecisionInv, NEW r \in Fixtures, AuthorizeSyntheticDemoAction(r, Second)
  PROVE  DecisionInv'
<1> DEFINE decision == EvaluatePolicy(policy, r, now)
           action == canonicalAction(r, decision.grant[1])
           ttl == Lifetime(r, decision.grant[1].constraints, Second)
           facts == [sideEffect |-> Effective(r).sideEffect, bytes |-> Effective(r).bytes]
           issued == PermitFor("simulation", r, <<>>, decision, action, facts, ttl)
           e == Effective(r)
<1>1. policy \in Policies /\ now \in Nat /\ LoadPolicy(policy) /\ RequestTypes(r)
  BY InputAssumption DEF DecisionInv
<1>2. /\ decision.status = "AUTHORIZED" /\ ttl >= Second
      /\ permit' = issued /\ UNCHANGED <<policy, now, forwarded>>
  BY DEF AuthorizeSyntheticDemoAction
<1>3. PICK cap : GrantKnows(policy, r, e, cap, decision)
  BY <1>1, <1>2, AuthorizationKnows
<1>4. e.bytes \in Int
  BY <1>1 DEF Effective, RequestTypes
<1>5. e.delegated.expires # NotGiven => e.delegated.expires[1] \in Int
  BY <1>1 DEF Effective, RequestTypes
<1>6. decision.grant[1].constraints.maxDuration \in Int
  BY <1>3 DEF GrantKnows, Given
<1>7. /\ ttl \in Int
      /\ decision.grant[1].constraints.maxDuration > 0
           => ttl <= decision.grant[1].constraints.maxDuration
  BY <1>1, <1>5, <1>6, LifetimeIsGranted, DecisionsAssumption
<1>8. /\ action.capability = e.capability /\ action.resource = e.resource
      /\ action.operation = IF e.operation = None /\ decision.grant[1].operations # <<>>
                            THEN decision.grant[1].operations[1] ELSE e.operation
  BY DEF canonicalAction, executionAction
<1> HIDE DEF decision, action, ttl
<1>9. decision.grant[1].operations = cap.resources[e.resource].operations
  BY <1>3 DEF GrantKnows, Given
<1>10. MatchedOr(e.operation, ~UsesStructuredContext(r), policy.missingOperation,
                 cap.resources[e.resource].operations) # None
  BY <1>3 DEF GrantKnows
<1>11. action.operation = MatchedOr(e.operation, ~UsesStructuredContext(r),
                            policy.missingOperation, cap.resources[e.resource].operations)
  BY <1>8, <1>9, <1>10 DEF MatchedOr
<1>12. /\ issued.class = "simulation" /\ issued.facts = facts /\ issued.asked = r
       /\ issued.constraints = decision.grant[1].constraints
       /\ issued.capability = action.capability /\ issued.resource = action.resource
       /\ issued.operation = action.operation
       /\ issued.issuedAt = now - (now % Second) /\ issued.expiresAt = issued.issuedAt + ttl
  BY DEF PermitFor
<1>13. facts.bytes = e.bytes /\ facts.sideEffect = e.sideEffect
  OBVIOUS
<1> HIDE DEF issued, facts, e
<1>14. Effective(issued.asked).external = e.external
  BY <1>12 DEF e
<1>15. facts.bytes \in Int /\ facts.bytes <= e.bytes
  BY <1>4, <1>13
<1>16. Limits(issued)
  BY <1>3, <1>4, <1>8, <1>11, <1>12, <1>13, <1>14, <1>15, LimitsOfADecision
<1>17. Lasting(issued)
  BY <1>1, <1>2, <1>6, <1>7, <1>12, LastingWhenIssued
<1>18. issued.class # "execution"
  BY <1>12
<1> QED BY <1>2, <1>16, <1>17, <1>18, IssueKeeps

LEMMA CallToolKeeps ==
  ASSUME DecisionInv, NEW call \in Calls, CallTool(call)
  PROVE  DecisionInv'
<1> DEFINE prepared == Prepare(InputOf(call))
<1>1. /\ prepared # Rejected /\ permit.class = "execution"
      /\ Digest(prepared.action) = permit.digest /\ permit.obligations = {}
      /\ forwarded' = Sent(call, prepared) /\ permit' = NoPermit
      /\ policy' = policy /\ now' = now
  BY DEF CallTool, ConstraintsAllow
<1>2. DOMAIN InputOf(call) = ActionFields /\ ArgumentTypes(InputOf(call).arguments)
  BY InputAssumption DEF InputOf, ActionFields
<1>3. /\ IsPrepared(prepared.action, prepared.facts)
      /\ prepared.upstream = ProfileOf(prepared.action.tool).upstream
  BY <1>1, <1>2, PreparedKnows
<1>4. permit # NoPermit
  BY <1>1 DEF NoPermit
<1>5. Bound(permit)
  BY <1>1, <1>4 DEF DecisionInv, PermitKnows
<1>6. /\ prepared.facts = permit.facts /\ prepared.action.arguments = permit.action.arguments
      /\ \A x \in ActionFields \ {"arguments"} : prepared.action[x] = permit.action[x]
  BY <1>1, <1>3, <1>5, DigestCommits DEF Bound
<1>7. WithinGrant(permit.action, permit.facts, permit.peer)
  BY <1>1, <1>5 DEF Bound
<1> HIDE DEF prepared
<1>8. /\ prepared.action.principal = permit.action.principal
      /\ prepared.action.agent = permit.action.agent
      /\ prepared.action.workload = permit.action.workload
      /\ prepared.action.tool = permit.action.tool
      /\ prepared.action.capability = permit.action.capability
      /\ prepared.action.resource = permit.action.resource
      /\ prepared.action.operation = permit.action.operation
  BY <1>6 DEF ActionFields
<1>9. WithinGrant(prepared.action, prepared.facts, permit.peer)
  BY <1>6, <1>7, <1>8 DEF WithinGrant, WithinGrantOf
<1>10. prepared.facts = FactsOf(ProfileOf(prepared.action.tool), prepared.action.arguments)
  BY <1>3 DEF IsPrepared
<1>11. /\ forwarded'.tool = prepared.action.tool
       /\ forwarded'.arguments = prepared.action.arguments
       /\ forwarded'.action = prepared.action /\ forwarded'.permit = permit
       /\ forwarded'.upstream = prepared.upstream
  BY <1>1 DEF Sent
<1>12. WithinGrantOf(policy', forwarded'.action,
                     FactsOf(ProfileOf(forwarded'.tool), forwarded'.arguments),
                     forwarded'.permit.peer)
  BY <1>1, <1>9, <1>10, <1>11 DEF WithinGrant
<1>13. ForwardedWasGranted'
  BY <1>12 DEF WithinGrantOf, ForwardedWasGranted, ProfileOf
<1>14. PermitKnows'
  BY <1>1 DEF PermitKnows, NoPermit
<1>15. DispatchedIsSigned'
  <2>1. /\ forwarded'.arguments = ParsedFor(permit.action.tool, permit.asked.arguments)
        /\ MemberTypes(permit.asked.arguments)
    BY <1>5, <1>6, <1>11, InputAssumption DEF Bound, ArgumentTypes
  <2>2. ParsedFor(permit.action.tool, permit.asked.arguments) # <<>>
    <3>1. ProfileArguments(permit.action)
      BY <1>5 DEF Bound, IsPrepared
    <3>2. permit.action.arguments # <<>>
      BY <3>1 DEF ProfileArguments, PaymentArguments, WriteArguments
    <3> QED BY <1>5, <3>2 DEF Bound
  <2>3. \A name \in {"amount_minor", "currency", "recipient", "path", "content"} :
          UpstreamReads(forwarded'.arguments, name)
            = FieldOf(forwarded'.permit.asked.arguments, name)
    BY <1>11, <2>1, <2>2, ReadAsAsked
  <2>4. forwarded'.upstream
          = (IF forwarded'.tool = Payment.tool THEN Payment ELSE Workspace).upstream
    BY <1>3, <1>11 DEF ProfileOf
  <2> QED BY <2>3, <2>4 DEF DispatchedIsSigned
<1> QED BY <1>1, <1>13, <1>14, <1>15 DEF DecisionInv

LEMMA CallProtocolKeeps ==
  ASSUME DecisionInv, NEW call \in Calls, CallProtocol(call)
  PROVE  DecisionInv'
<1>1. forwarded'.kind = "control" /\ policy' = policy /\ now' = now /\ permit' = permit
  BY DEF CallProtocol
<1>2. ForwardedWasGranted' /\ DispatchedIsSigned'
  BY <1>1 DEF ForwardedWasGranted, DispatchedIsSigned
<1>3. PermitKnows'
  BY <1>1 DEF DecisionInv, PermitKnows, Limits, Lasting, Bound, WithinGrant
<1> QED BY <1>1, <1>2, <1>3 DEF DecisionInv

LEMMA TickKeeps ==
  ASSUME DecisionInv, Tick
  PROVE  DecisionInv'
<1>1. now' = now + 1 /\ now' \in Nat /\ policy' = policy /\ forwarded' = forwarded
  BY DEF Tick, DecisionInv
<1>2. ForwardedWasGranted' /\ DispatchedIsSigned'
  BY <1>1 DEF DecisionInv, ForwardedWasGranted, DispatchedIsSigned
<1>3. PermitKnows'
  <2> SUFFICES ASSUME permit' # NoPermit
               PROVE  /\ Limits(permit)' /\ Lasting(permit)'
                      /\ permit'.class = "execution" => Bound(permit)'
    BY DEF PermitKnows
  <2>1. permit' = permit /\ permit # NoPermit /\ ~(permit.expiresAt <= now')
    BY DEF Tick
  <2>2. Limits(permit) /\ Lasting(permit) /\ (permit.class = "execution" => Bound(permit))
    BY <2>1 DEF DecisionInv, PermitKnows
  <2>3. Limits(permit)'
    BY <2>1, <2>2 DEF Limits
  <2>4. Lasting(permit)'
    BY <1>1, <2>1, <2>2 DEF Lasting, DecisionInv
  <2>5. permit'.class = "execution" => Bound(permit)'
    BY <1>1, <2>1, <2>2 DEF Bound, WithinGrant
  <2> QED BY <2>3, <2>4, <2>5
<1> QED BY <1>1, <1>2, <1>3 DEF DecisionInv

LEMMA StutterKeeps ==
  ASSUME DecisionInv, UNCHANGED decisionVars
  PROVE  DecisionInv'
<1>1. policy' = policy /\ now' = now /\ permit' = permit /\ forwarded' = forwarded
  BY DEF decisionVars
<1>2. ForwardedWasGranted' /\ DispatchedIsSigned'
  BY <1>1 DEF DecisionInv, ForwardedWasGranted, DispatchedIsSigned
<1>3. PermitKnows'
  BY <1>1 DEF DecisionInv, PermitKnows, Limits, Lasting, Bound, WithinGrant
<1> QED BY <1>1, <1>2, <1>3 DEF DecisionInv

LEMMA NextKeeps == DecisionInv /\ [DecisionsNext]_decisionVars => DecisionInv'
BY TrustedIssueKeeps, DemoIssueKeeps, CallToolKeeps, CallProtocolKeeps, TickKeeps, StutterKeeps
   DEF DecisionsNext

-----------------------------------------------------------------------------
(* The inductive invariant of decisions: a permit keeps the limits of its  *)
(* grant and its time, an execution permit is for a prepared action, and   *)
(* what was sent was granted.                                              *)
THEOREM DecisionInvariant == DecisionsSpec => []DecisionInv
BY InitKnows, NextKeeps, PTL DEF DecisionsSpec

(* Whatever reaches an execution upstream was granted as it is sent, to    *)
(* whom the trusted connection speaks for, under any policy LoadPolicy     *)
(* accepts (router.go:163-222, proxy.go:176-234).                          *)
THEOREM ForwardsAreGranted == DecisionsSpec => []ForwardedWasGranted
<1>1. DecisionInv => ForwardedWasGranted
  BY DEF DecisionInv
<1> QED BY <1>1, DecisionInvariant, PTL

(* What an execution upstream reads is what the authorization asked for    *)
(* and the permit's digest commits to, for every number, spelling and      *)
(* order of the arguments, and it goes to the upstream of its profile      *)
(* (prepared.go:35-71, proxy.go:176-219, verifier.go:217-262).             *)
THEOREM DispatchesAreSigned == DecisionsSpec => []DispatchedIsSigned
<1>1. DecisionInv => DispatchedIsSigned
  BY DEF DecisionInv
<1> QED BY <1>1, DecisionInvariant, PTL

(* The observer never raises a violation, nor refuses an event, for an     *)
(* execution that did what the permit was issued for in its lifetime       *)
(* (engine.go:84-99, observer.go:57-106, router.go:1106-1124).             *)
THEOREM FaithfulEventsAreAccepted == DecisionsSpec => []FaithfulEventsStayInside
<1>1. DecisionInv => FaithfulEventsStayInside
  BY FaithfulWhenKnown DEF DecisionInv
<1> QED BY <1>1, DecisionInvariant, PTL

=============================================================================
