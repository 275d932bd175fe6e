---------------------------- MODULE RequestProofs ----------------------------
(***************************************************************************)
(* Theorems about Request, for any messages, any way of cutting them up    *)
(* and any widths of int and size_t.                                       *)
(***************************************************************************)
EXTENDS Request, SequenceTheorems, FiniteSetTheorems, WellFoundedInduction, TLAPS

Text == Seq(STRING)

-----------------------------------------------------------------------------
(* Numbers in texts                                                        *)

(* Minimal counterexamples: induction without a predicate as a parameter.  *)
LEMMA Smallest ==
  ASSUME NEW T, T \subseteq Nat, T # {}
  PROVE  \E n \in T : \A m \in T : n <= m
  <1>1. PICK n \in T : \A m \in T : <<m, n>> \notin OpToRel(<, Nat)
    BY NatLessThanWellFounded, WFMin
  <1>2. \A m \in T : ~(m < n)
    BY <1>1 DEF OpToRel
  <1>3. QED
    BY <1>2

(* The characters that are skipped are all that there are in front.        *)
Skipped(n, chars, s) ==
  /\ n \in 0..Len(s)
  /\ \A i \in 1..n : s[i] \in chars
  /\ n = Len(s) \/ s[n + 1] \notin chars

LEMMA SomeSkipped ==
  ASSUME NEW s, NEW chars, Len(s) \in Nat
  PROVE  \E n : Skipped(n, chars, s)
  <1> DEFINE T == {n \in 0..Len(s) : n = Len(s) \/ s[n + 1] \notin chars}
  <1>1. T \subseteq Nat /\ T # {}
    <2>1. Len(s) \in T
      OBVIOUS
    <2>2. QED
      BY <2>1
  <1>2. PICK n \in T : \A m \in T : n <= m
    <2> HIDE DEF T
    <2>1. QED
      BY <1>1, Smallest
  <1>3. ASSUME NEW i \in 1..n PROVE s[i] \in chars
    <2>1. i - 1 \in 0..Len(s) /\ i - 1 < n /\ i - 1 # Len(s)
      BY <1>2
    <2>2. i - 1 \notin T
      <3>1. i - 1 \in Int /\ n \in Int /\ ~(n <= i - 1)
        BY <1>2, <2>1
      <3> HIDE DEF T
      <3>2. QED
        BY <1>2, <3>1
    <2>3. s[(i - 1) + 1] \in chars
      BY <2>1, <2>2
    <2>4. (i - 1) + 1 = i
      OBVIOUS
    <2>5. QED
      BY <2>3, <2>4
  <1>4. QED
    BY <1>2, <1>3 DEF Skipped

LEMMA LeadingSkipped ==
  ASSUME NEW s, NEW chars, Len(s) \in Nat
  PROVE  Skipped(LeadingIn(chars, s), chars, s)
  BY SomeSkipped DEF LeadingIn, Skipped

LEMMA SkippedOnce ==
  ASSUME NEW s, NEW chars, Len(s) \in Nat, NEW n, NEW m,
         Skipped(n, chars, s), Skipped(m, chars, s)
  PROVE  n = m
  <1>1. n \in Nat /\ m \in Nat /\ n <= Len(s) /\ m <= Len(s)
    BY DEF Skipped
  <1>2. ~(n < m)
    <2>1. SUFFICES ASSUME n < m PROVE FALSE
      OBVIOUS
    <2>2. n + 1 \in 1..m /\ n # Len(s)
      BY <1>1, <2>1
    <2>3. QED
      BY <2>2 DEF Skipped
  <1>3. ~(m < n)
    <2>1. SUFFICES ASSUME m < n PROVE FALSE
      OBVIOUS
    <2>2. m + 1 \in 1..n /\ m # Len(s)
      BY <1>1, <2>1
    <2>3. QED
      BY <2>2 DEF Skipped
  <1>4. QED
    BY <1>1, <1>2, <1>3

(* A number is read off its digits, one after the other.                   *)
LEMMA BinaryRead ==
  ASSUME NEW digits, Len(digits) \in Nat
  PROVE  Binary(digits) \in Nat /\ (Len(digits) = 0 => Binary(digits) = 0)
  <1> DEFINE bit(i) == IF digits[i] = "1" THEN 1 ELSE 0
             Reads(n, h) == h = [i \in 0..n |-> IF i = 0 THEN 0 ELSE 2 * h[i - 1] + bit(i)]
             T == {n \in Nat : ~\E h : Reads(n, h)}
  <1>1. T = {}
    <2>1. SUFFICES ASSUME T # {} PROVE FALSE
      OBVIOUS
    <2>2. PICK n \in T : \A m \in T : n <= m
      <3>1. T \subseteq Nat
        OBVIOUS
      <3> HIDE DEF T
      <3>2. QED
        BY <2>1, <3>1, Smallest
    <2>3. CASE n = 0
      <3>1. PICK h : h = [i \in 0..0 |-> 0]
        OBVIOUS
      <3>2. Reads(0, h)
        BY <3>1
      <3>3. QED
        BY <2>3, <3>2
    <2>4. CASE n # 0
      <3>1. n - 1 \in Nat /\ n - 1 \notin T
        <4>1. n \in Nat
          BY <2>2
        <4>2. n - 1 \in Nat /\ ~(n <= n - 1)
          BY <2>4, <4>1
        <4> HIDE DEF T
        <4>3. QED
          BY <2>2, <4>2
      <3>2. PICK g : Reads(n - 1, g)
        BY <3>1
      <3>3. PICK h : h = [i \in 0..n |-> IF i = n THEN 2 * g[n - 1] + bit(n) ELSE g[i]]
        OBVIOUS
      <3> HIDE DEF bit
      <3>4. ASSUME NEW i \in 0..n
            PROVE  h[i] = IF i = 0 THEN 0 ELSE 2 * h[i - 1] + bit(i)
        <4>1. CASE i = n
          BY <2>4, <3>3, <4>1
        <4>2. CASE i # n
          <5>1. i \in 0..(n - 1) /\ h[i] = g[i]
            BY <3>3, <4>2
          <5>2. i # 0 => h[i - 1] = g[i - 1]
            BY <3>3, <4>2
          <5>3. QED
            BY <3>2, <5>1, <5>2
        <4>3. QED
          BY <4>1, <4>2
      <3>5. h = [i \in 0..n |-> h[i]]
        BY <3>3
      <3>6. Reads(n, h)
        BY <3>4, <3>5
      <3>7. QED
        BY <2>2, <3>6
    <2>5. QED
      BY <2>3, <2>4
  <1>2. PICK h : h = CHOOSE g : Reads(Len(digits), g)
    OBVIOUS
  <1>3. Reads(Len(digits), h)
    <2>1. \E g : Reads(Len(digits), g)
      BY <1>1
    <2> HIDE DEF Reads
    <2>2. QED
      BY <1>2, <2>1
  <1>4. Binary(digits) = h[Len(digits)]
    BY <1>2 DEF Binary
  <1> DEFINE W == {i \in 0..Len(digits) : h[i] \notin Nat}
  <1>5. W = {}
    <2>1. SUFFICES ASSUME W # {} PROVE FALSE
      OBVIOUS
    <2>2. PICK i \in W : \A j \in W : i <= j
      <3>1. W \subseteq Nat
        OBVIOUS
      <3> HIDE DEF W
      <3>2. QED
        BY <2>1, <3>1, Smallest
    <2>3. i # 0
      BY <1>3, <2>2
    <2>4. i - 1 \in 0..Len(digits) /\ i - 1 \notin W
      BY <2>2, <2>3
    <2>5. h[i - 1] \in Nat
      BY <2>4
    <2>6. h[i] = 2 * h[i - 1] + bit(i)
      BY <1>3, <2>2, <2>3
    <2>7. QED
      BY <2>2, <2>5, <2>6
  <1>6. h[Len(digits)] \in Nat
    <2>1. Len(digits) \in 0..Len(digits)
      OBVIOUS
    <2>2. QED
      BY <1>5, <2>1
  <1>7. Len(digits) = 0 => h[Len(digits)] = 0
    BY <1>3
  <1>8. QED
    BY <1>4, <1>6, <1>7

LEMMA SubText ==
  ASSUME NEW s \in Text, NEW m \in Nat, m > 0, NEW n \in Nat, m <= n + 1, n <= Len(s)
  PROVE  /\ SubSeq(s, m, n) \in Text
         /\ Len(SubSeq(s, m, n)) = n - m + 1
         /\ \A i \in 1..(n - m + 1) : SubSeq(s, m, n)[i] = s[m + i - 1]
  <1>1. s \in Seq(STRING) /\ Len(s) \in Nat
    BY LenProperties DEF Text
  <1>2. \A i \in m..n : s[i] \in STRING
    BY <1>1, ElementOfSeq
  <1>3. QED
    BY <1>1, <1>2, SubSeqProperties DEF Text

LEMMA UnblankedText == ASSUME NEW s \in Text PROVE Unblanked(s) \in Text
  <1>1. Len(s) \in Nat
    BY LenProperties DEF Text
  <1>2. LeadingIn({Blank}, s) \in 0..Len(s)
    BY <1>1, LeadingSkipped DEF Skipped
  <1>3. PICK n, m : n = Len(s) /\ m = LeadingIn({Blank}, s) + 1
    OBVIOUS
  <1>4. n \in Nat /\ m \in Nat /\ m > 0 /\ m <= n + 1
    BY <1>1, <1>2, <1>3
  <1>5. SubSeq(s, m, n) \in Text
    BY <1>3, <1>4, SubText
  <1>6. QED
    BY <1>3, <1>5 DEF Unblanked

LEMMA NumeralRead ==
  ASSUME NEW s \in Text
  PROVE  /\ ReadNumeral(s).size \in Nat
         /\ \/ ReadNumeral(s).value = ReadNumeral(s).size
            \/ ReadNumeral(s).value = -ReadNumeral(s).size
         /\ ~ReadNumeral(s).found => ReadNumeral(s).size = 0
  <1>1. PICK signed : signed = Unblanked(s)
    OBVIOUS
  <1>2. signed \in Text /\ Len(signed) \in Nat
    BY <1>1, UnblankedText, LenProperties DEF Text
  <1>3. PICK negative : negative = IsPrefix(<<"-">>, signed)
    OBVIOUS
  <1>4. PICK unsigned : unsigned = IF negative THEN Tail(signed) ELSE signed
    OBVIOUS
  <1>5. unsigned \in Text /\ Len(unsigned) \in Nat
    <2>1. CASE negative
      <3>1. Len(signed) > 0
        <4>1. IsPrefix(<<"-">>, signed)
          BY <1>3, <2>1
        <4>2. Len(<<"-">>) = 1
          OBVIOUS
        <4>3. QED
          BY <1>2, <4>1, <4>2 DEF IsPrefix
      <3>2. signed # <<>>
        BY <3>1
      <3>3. Tail(signed) \in Seq(STRING)
        BY <1>2, <3>2, HeadTailProperties DEF Text
      <3>4. QED
        BY <1>4, <2>1, <3>3, LenProperties DEF Text
    <2>2. CASE ~negative
      BY <1>2, <1>4, <2>2
    <2>3. QED
      BY <2>1, <2>2
  <1>6. PICK digits : digits = SubSeq(unsigned, 1, LeadingIn({"0", "1"}, unsigned))
    OBVIOUS
  <1>7. digits \in Text /\ Len(digits) \in Nat
    <2>1. LeadingIn({"0", "1"}, unsigned) \in 0..Len(unsigned)
      BY <1>5, LeadingSkipped DEF Skipped
    <2>2. PICK n : n = LeadingIn({"0", "1"}, unsigned)
      OBVIOUS
    <2>3. n \in Nat /\ n <= Len(unsigned) /\ 1 <= n + 1
      BY <1>5, <2>1, <2>2
    <2>4. SubSeq(unsigned, 1, n) \in Text
      BY <1>5, <2>3, SubText
    <2>5. digits \in Text
      BY <1>6, <2>2, <2>4
    <2>6. QED
      BY <2>5, LenProperties DEF Text
  <1>8. Binary(digits) \in Nat /\ (digits = <<>> => Binary(digits) = 0)
    BY <1>7, BinaryRead, EmptySeq
  <1>9. ReadNumeral(s) =
          [found |-> digits # <<>>, size |-> Binary(digits),
           value |-> IF negative THEN -Binary(digits) ELSE Binary(digits)]
    BY <1>1, <1>3, <1>4, <1>6 DEF ReadNumeral
  <1>10. PICK n : n = Binary(digits)
    OBVIOUS
  <1>11. /\ ReadNumeral(s).size = n /\ ReadNumeral(s).found = (digits # <<>>)
         /\ ReadNumeral(s).value = IF negative THEN -n ELSE n
    <2>1. PICK found : found = (digits # <<>>)
      OBVIOUS
    <2>2. PICK value : value = IF negative THEN -n ELSE n
      OBVIOUS
    <2>3. ReadNumeral(s) = [found |-> found, size |-> n, value |-> value]
      BY <1>9, <1>10, <2>1, <2>2, Zenon
    <2>4. /\ ReadNumeral(s).size = n /\ ReadNumeral(s).found = found
          /\ ReadNumeral(s).value = value
      BY <2>3
    <2>5. QED
      BY <2>1, <2>2, <2>4, Zenon
  <1>12. ReadNumeral(s).value = n \/ ReadNumeral(s).value = -n
    BY <1>11, Zenon
  <1>13. ~ReadNumeral(s).found => n = 0
    BY <1>8, <1>10, <1>11, Zenon
  <1>14. n \in Nat
    BY <1>8, <1>10, Zenon
  <1>15. QED
    BY <1>11, <1>12, <1>13, <1>14, Zenon

(* A blank in front makes no difference to the number.                     *)
LEMMA BlankSkipped ==
  ASSUME NEW s \in Text, Len(s) > 0, s[1] = Blank
  PROVE  ReadNumeral(SubSeq(s, 2, Len(s))) = ReadNumeral(s)
  <1>1. Len(s) \in Nat
    BY LenProperties DEF Text
  <1>2. PICK t : t = SubSeq(s, 2, Len(s))
    OBVIOUS
  <1>3. /\ t \in Text /\ Len(t) = Len(s) - 1 /\ Len(t) \in Nat
        /\ \A i \in 1..Len(t) : t[i] = s[i + 1]
    <2>1. /\ t \in Text /\ Len(t) = Len(s) - 2 + 1
          /\ \A i \in 1..(Len(s) - 2 + 1) : t[i] = s[2 + i - 1]
      <3>1. PICK n : n = Len(s)
        OBVIOUS
      <3>2. n \in Nat /\ 2 \in Nat /\ 2 > 0 /\ 2 <= n + 1 /\ n <= Len(s)
        BY <1>1, <3>1
      <3>3. /\ SubSeq(s, 2, n) \in Text /\ Len(SubSeq(s, 2, n)) = n - 2 + 1
            /\ \A i \in 1..(n - 2 + 1) : SubSeq(s, 2, n)[i] = s[2 + i - 1]
        BY <3>2, SubText
      <3>4. QED
        BY <1>2, <3>1, <3>3
    <2>2. Len(t) = Len(s) - 1 /\ Len(t) \in Nat
      BY <1>1, <2>1
    <2>3. ASSUME NEW i \in 1..Len(t) PROVE t[i] = s[i + 1]
      <3>1. i \in 1..(Len(s) - 2 + 1) /\ 2 + i - 1 = i + 1
        BY <1>1, <2>2
      <3>2. t[i] = s[2 + i - 1]
        BY <2>1, <3>1
      <3>3. QED
        BY <3>1, <3>2
    <2>4. QED
      BY <2>1, <2>2, <2>3
  <1>4. PICK n : n = LeadingIn({Blank}, t)
    OBVIOUS
  <1>5. Skipped(n, {Blank}, t)
    BY <1>3, <1>4, LeadingSkipped
  <1>6. n \in 0..Len(t)
    BY <1>5 DEF Skipped
  <1>7. Skipped(n + 1, {Blank}, s)
    <2>1. n + 1 \in 0..Len(s)
      BY <1>1, <1>3, <1>6
    <2>2. ASSUME NEW i \in 1..(n + 1) PROVE s[i] = Blank
      <3>1. CASE i = 1
        BY <3>1
      <3>2. CASE i # 1
        <4>1. i - 1 \in 1..n /\ i - 1 \in 1..Len(t) /\ (i - 1) + 1 = i
          BY <1>3, <1>6, <3>2
        <4>2. t[i - 1] = Blank
          BY <1>5, <4>1 DEF Skipped
        <4>3. t[i - 1] = s[(i - 1) + 1]
          BY <1>3, <4>1
        <4>4. QED
          BY <4>1, <4>2, <4>3
      <3>3. QED
        BY <3>1, <3>2
    <2>3. n + 1 = Len(s) \/ s[(n + 1) + 1] # Blank
      <3>1. CASE n = Len(t)
        BY <1>1, <1>3, <3>1
      <3>2. CASE n # Len(t)
        <4>1. n + 1 \in 1..Len(t)
          BY <1>3, <1>6, <3>2
        <4>2. t[n + 1] # Blank
          BY <1>5, <3>2 DEF Skipped
        <4>3. t[n + 1] = s[(n + 1) + 1]
          BY <1>3, <4>1
        <4>4. QED
          BY <4>2, <4>3
      <3>3. QED
        BY <3>1, <3>2
    <2>4. QED
      BY <2>1, <2>2, <2>3 DEF Skipped
  <1>8. LeadingIn({Blank}, s) = n + 1
    BY <1>1, <1>7, LeadingSkipped, SkippedOnce
  <1>9. Unblanked(t) = Unblanked(s)
    <2>1. PICK u : u = Unblanked(t)
      OBVIOUS
    <2>2. PICK v : v = Unblanked(s)
      OBVIOUS
    <2>3. u = SubSeq(t, n + 1, Len(t)) /\ v = SubSeq(s, (n + 1) + 1, Len(s))
      BY <1>4, <1>8, <2>1, <2>2 DEF Unblanked
    <2>4. /\ u \in Text /\ Len(u) = Len(t) - (n + 1) + 1
          /\ \A i \in 1..(Len(t) - (n + 1) + 1) : u[i] = t[(n + 1) + i - 1]
      <3>1. n + 1 \in Nat /\ n + 1 > 0 /\ n + 1 <= Len(t) + 1
        BY <1>3, <1>6
      <3>2. QED
        BY <1>3, <2>3, <3>1, SubText
    <2>5. /\ v \in Text /\ Len(v) = Len(s) - (n + 2) + 1
          /\ \A i \in 1..(Len(s) - (n + 2) + 1) : v[i] = s[(n + 2) + i - 1]
      <3>1. n + 2 \in Nat /\ n + 2 > 0 /\ n + 2 <= Len(s) + 1 /\ (n + 1) + 1 = n + 2
        BY <1>1, <1>3, <1>6
      <3>2. v = SubSeq(s, n + 2, Len(s))
        BY <2>3, <3>1
      <3>3. QED
        BY <1>1, <3>1, <3>2, SubText
    <2>6. Len(u) = Len(t) - n /\ Len(v) = Len(t) - n
      BY <1>1, <1>3, <1>6, <2>4, <2>5
    <2>7. ASSUME NEW i \in 1..Len(u) PROVE u[i] = v[i]
      <3>1. /\ i \in 1..(Len(t) - (n + 1) + 1) /\ i \in 1..(Len(s) - (n + 2) + 1)
            /\ n + i \in 1..Len(t)
            /\ (n + 1) + i - 1 = n + i /\ (n + 2) + i - 1 = (n + i) + 1
        BY <1>1, <1>3, <1>6, <2>6
      <3>2. u[i] = t[n + i] /\ v[i] = s[(n + i) + 1]
        BY <2>4, <2>5, <3>1
      <3>3. t[n + i] = s[(n + i) + 1]
        BY <1>3, <3>1
      <3>4. QED
        BY <3>2, <3>3
    <2>8. u = v
      BY <2>4, <2>5, <2>6, <2>7, SeqEqual DEF Text
    <2>9. QED
      BY <2>1, <2>2, <2>8
  <1>10. ReadNumeral(t) = ReadNumeral(s)
    BY <1>9 DEF ReadNumeral
  <1>11. QED
    BY <1>2, <1>10

-----------------------------------------------------------------------------
(* Where a text is cut                                                     *)

(* Finitely many numbers in their order.                                   *)
Places(C) == C \subseteq Nat /\ IsFiniteSet(C)

LEMMA BelowCounts ==
  ASSUME NEW C, Places(C), NEW i \in C
  PROVE  Below(C, i) \in 0..Cardinality(C) - 1
  <1>1. PICK B : B = {j \in C : j < i}
    OBVIOUS
  <1>2. B \in SUBSET C /\ i \notin B
    <2>1. i \in Nat
      BY DEF Places
    <2>2. ~(i < i)
      BY <2>1
    <2>3. QED
      BY <1>1, <2>2
  <1>3. /\ Cardinality(B) \in Nat /\ Cardinality(C) \in Nat
        /\ Cardinality(B) <= Cardinality(C) /\ Cardinality(B) # Cardinality(C)
    <2>1. IsFiniteSet(B) /\ Cardinality(B) <= Cardinality(C)
      BY <1>2, FS_Subset DEF Places
    <2>2. Cardinality(B) # Cardinality(C)
      BY <1>2, FS_Subset DEF Places
    <2>3. QED
      BY <2>1, <2>2, FS_CardinalityType DEF Places
  <1>4. QED
    BY <1>1, <1>3 DEF Below

LEMMA BelowGrows ==
  ASSUME NEW C, Places(C), NEW i \in C, NEW j \in C, i < j
  PROVE  Below(C, i) < Below(C, j)
  <1>1. PICK A, B : A = {k \in C : k < i} /\ B = {k \in C : k < j}
    OBVIOUS
  <1>2. A \in SUBSET B /\ i \in B /\ i \notin A /\ B \in SUBSET C
    <2>1. C \subseteq Int /\ i \in Int /\ j \in Int
      BY DEF Places
    <2>2. \A k \in C : k < i => k < j
      BY <2>1
    <2>3. ~(i < i)
      BY <2>1
    <2>4. QED
      BY <1>1, <2>2, <2>3
  <1>3. IsFiniteSet(B)
    BY <1>2, FS_Subset DEF Places
  <1>4. IsFiniteSet(A) /\ Cardinality(A) <= Cardinality(B) /\ Cardinality(A) # Cardinality(B)
    BY <1>2, <1>3, FS_Subset
  <1>5. Cardinality(A) \in Nat /\ Cardinality(B) \in Nat
    BY <1>3, <1>4, FS_CardinalityType
  <1>6. QED
    BY <1>1, <1>4, <1>5 DEF Below

LEMMA NthThere ==
  ASSUME NEW C, Places(C), NEW n \in 1..Cardinality(C)
  PROVE  Nth(C, n) \in C /\ Below(C, Nth(C, n)) = n - 1
  <1>1. Cardinality(C) \in Nat
    BY FS_CardinalityType DEF Places
  <1>2. PICK T : T = 0..Cardinality(C) - 1
    OBVIOUS
  <1>3. IsFiniteSet(T) /\ Cardinality(T) = Cardinality(C)
    <2>1. IsFiniteSet(0..Cardinality(C) - 1)
      BY <1>1, FS_Interval
    <2>2. Cardinality(0..Cardinality(C) - 1) = Cardinality(C)
      BY <1>1, FS_Interval
    <2>3. QED
      BY <1>2, <2>1, <2>2
  <1>4. PICK f : f = [i \in C |-> Below(C, i)]
    OBVIOUS
  <1>5. f \in [C -> T]
    BY <1>2, <1>4, BelowCounts
  <1>6. \A i, j \in C : f[i] = f[j] => i = j
    <2>1. SUFFICES ASSUME NEW i \in C, NEW j \in C, i # j PROVE f[i] # f[j]
      OBVIOUS
    <2>2. i \in Nat /\ j \in Nat
      BY DEF Places
    <2>3. Below(C, i) \in Nat /\ Below(C, j) \in Nat
      BY BelowCounts
    <2>4. CASE i < j
      BY <1>4, <2>3, <2>4, BelowGrows
    <2>5. CASE j < i
      BY <1>4, <2>3, <2>5, BelowGrows
    <2>6. QED
      BY <2>1, <2>2, <2>4, <2>5
  <1>7. f \in Injection(C, T)
    BY <1>5, <1>6 DEF Injection, IsInjective
  <1>8. f \in Surjection(C, T)
    BY <1>3, <1>7, FS_Injection
  <1>9. \E i \in C : Below(C, i) = n - 1
    <2>1. n - 1 \in T
      BY <1>1, <1>2
    <2>2. PICK i \in C : f[i] = n - 1
      BY <1>8, <2>1 DEF Surjection
    <2>3. QED
      BY <1>4, <2>2
  <1>10. QED
    BY <1>9 DEF Nth

(* The next place is the next.                                             *)
LEMMA NthNext ==
  ASSUME NEW C, Places(C), NEW n \in 1..Cardinality(C), NEW i \in C, i > Nth(C, n)
  PROVE  n + 1 \in 1..Cardinality(C) /\ Nth(C, n + 1) > Nth(C, n) /\ Nth(C, n + 1) <= i
  <1>1. Cardinality(C) \in Nat
    BY FS_CardinalityType DEF Places
  <1>2. PICK a : a = Nth(C, n)
    OBVIOUS
  <1>3. a \in C /\ Below(C, a) = n - 1
    BY <1>2, NthThere
  <1>4. Below(C, i) \in 0..Cardinality(C) - 1 /\ Below(C, i) > n - 1
    BY <1>2, <1>3, BelowCounts, BelowGrows
  <1>5. n + 1 \in 1..Cardinality(C)
    BY <1>1, <1>4
  <1>6. PICK b : b = Nth(C, n + 1)
    OBVIOUS
  <1>7. b \in C /\ Below(C, b) = n
    <2>1. b \in C /\ Below(C, b) = (n + 1) - 1
      BY <1>5, <1>6, NthThere
    <2>2. QED
      BY <2>1
  <1>8. a \in Nat /\ b \in Nat /\ i \in Nat
    BY <1>3, <1>7 DEF Places
  <1>9. ~(i < b)
    <2>1. i < b => Below(C, i) < Below(C, b)
      BY <1>7, BelowGrows
    <2>2. QED
      BY <1>4, <1>7, <2>1
  <1>10. a # b /\ ~(b < a)
    <2>1. b < a => Below(C, b) < Below(C, a)
      BY <1>3, <1>7, BelowGrows
    <2>2. QED
      BY <1>3, <1>7, <2>1
  <1>11. QED
    BY <1>2, <1>5, <1>6, <1>8, <1>9, <1>10

LEMMA NthFirst ==
  ASSUME NEW C, Places(C), NEW i \in C, \A j \in C : i <= j
  PROVE  Cardinality(C) > 0 /\ Nth(C, 1) = i
  <1>1. Cardinality(C) \in Nat
    BY FS_CardinalityType DEF Places
  <1>2. Below(C, i) \in 0..Cardinality(C) - 1
    BY BelowCounts
  <1>3. 1 \in 1..Cardinality(C)
    BY <1>1, <1>2
  <1>4. PICK a : a = Nth(C, 1)
    OBVIOUS
  <1>5. a \in C /\ Below(C, a) = 0
    <2>1. a \in C /\ Below(C, a) = 1 - 1
      BY <1>3, <1>4, NthThere
    <2>2. QED
      BY <2>1
  <1>6. ~(i < a)
    <2>1. i < a => Below(C, i) < Below(C, a)
      BY <1>5, BelowGrows
    <2>2. QED
      BY <1>2, <1>5, <2>1
  <1>7. a \in Nat /\ i \in Nat /\ i <= a
    BY <1>5 DEF Places
  <1>8. QED
    BY <1>1, <1>3, <1>4, <1>6, <1>7

(* The n-th part of a text stands between two cuts, and has none inside.   *)
CutAt(s, c, n) == Nth(Cuts(s, c), n)
Parted(s, c, n, a, b) ==
  /\ a \in 0..Len(s) /\ b \in a + 1 .. Len(s) + 1
  /\ a # 0 => s[a] = c
  /\ b # Len(s) + 1 => s[b] = c
  /\ \A i \in a + 1 .. b - 1 : s[i] # c
  /\ Split(s, c)[n] = SubSeq(s, a + 1, b - 1)

LEMMA CutsRead ==
  ASSUME NEW s \in Text, NEW c
  PROVE  /\ Places(Cuts(s, c))
         /\ Cardinality(Cuts(s, c)) \in Nat /\ Cardinality(Cuts(s, c)) > 1
         /\ CutAt(s, c, 1) = 0
         /\ CutAt(s, c, Cardinality(Cuts(s, c))) = Len(s) + 1
  <1>1. Len(s) \in Nat
    BY LenProperties DEF Text
  <1>2. PICK C : C = Cuts(s, c)
    OBVIOUS
  <1>3. 0 \in C /\ Len(s) + 1 \in C /\ C \subseteq 0..Len(s) + 1
    BY <1>1, <1>2 DEF Cuts
  <1>4. Places(C)
    <2>1. IsFiniteSet(0..Len(s) + 1)
      BY <1>1, FS_Interval
    <2>2. IsFiniteSet(C)
      BY <1>3, <2>1, FS_Subset
    <2>3. C \subseteq Nat
      BY <1>1, <1>3
    <2>4. QED
      BY <2>2, <2>3 DEF Places
  <1>5. PICK m : m = Cardinality(C)
    OBVIOUS
  <1>6. m \in Nat /\ m > 0 /\ Nth(C, 1) = 0
    <2>1. \A j \in C : 0 <= j
      BY <1>3
    <2>2. QED
      BY <1>3, <1>4, <1>5, <2>1, NthFirst, FS_CardinalityType DEF Places
  <1>7. m > 1
    <2>1. 1 \in 1..Cardinality(C) /\ Len(s) + 1 > Nth(C, 1)
      BY <1>1, <1>5, <1>6
    <2>2. 1 + 1 \in 1..Cardinality(C)
      BY <1>3, <1>4, <2>1, NthNext
    <2>3. QED
      BY <1>5, <1>6, <2>2
  <1>8. Nth(C, m) = Len(s) + 1
    <2>1. m \in 1..Cardinality(C)
      BY <1>5, <1>6
    <2>2. Nth(C, m) \in C
      BY <1>4, <2>1, NthThere
    <2>3. Nth(C, m) \in Nat /\ Nth(C, m) <= Len(s) + 1
      <3>1. PICK a : a = Nth(C, m)
        OBVIOUS
      <3>2. a \in 0..Len(s) + 1
        BY <1>3, <2>2, <3>1
      <3>3. QED
        BY <1>1, <3>1, <3>2
    <2>4. Len(s) + 1 > Nth(C, m) => m + 1 \in 1..Cardinality(C)
      BY <1>3, <1>4, <2>1, NthNext
    <2>5. m + 1 \notin 1..Cardinality(C)
      BY <1>5, <1>6
    <2>6. QED
      BY <1>1, <2>3, <2>4, <2>5
  <1>9. QED
    BY <1>2, <1>4, <1>5, <1>6, <1>7, <1>8 DEF CutAt

LEMMA SplitRead ==
  ASSUME NEW s \in Text, NEW c
  PROVE  /\ Len(Split(s, c)) = Cardinality(Cuts(s, c)) - 1
         /\ DOMAIN Split(s, c) = 1..Len(Split(s, c))
         /\ Len(Split(s, c)) \in Nat /\ Len(Split(s, c)) > 0
         /\ \A n \in 1..Len(Split(s, c)) :
              Parted(s, c, n, CutAt(s, c, n), CutAt(s, c, n + 1))
  <1>1. Len(s) \in Nat
    BY LenProperties DEF Text
  <1>2. PICK C : C = Cuts(s, c)
    OBVIOUS
  <1>3. PICK m : m = Cardinality(C) - 1
    OBVIOUS
  <1>4. Places(C) /\ Cardinality(C) = m + 1 /\ m \in Nat /\ m > 0
    BY <1>2, <1>3, CutsRead
  <1>5. PICK parts : parts = Split(s, c)
    OBVIOUS
  <1>6. parts = [n \in 1..m |-> SubSeq(s, Nth(C, n) + 1, Nth(C, n + 1) - 1)]
    BY <1>2, <1>3, <1>5 DEF Split
  <1>7. DOMAIN parts = 1..m
    BY <1>6
  <1>8. Len(parts) = m
    <2>1. parts \in Seq({parts[n] : n \in 1..m})
      <3>1. parts \in [1..m -> {parts[n] : n \in 1..m}]
        BY <1>6
      <3>2. QED
        BY <1>4, <3>1, SeqDef
    <2>2. DOMAIN parts = 1..Len(parts) /\ Len(parts) \in Nat
      BY <2>1, LenProperties
    <2>3. QED
      BY <1>4, <1>7, <2>2
  <1>9. ASSUME NEW n \in 1..m
        PROVE  Parted(s, c, n, CutAt(s, c, n), CutAt(s, c, n + 1))
    <2>1. PICK a, b : a = Nth(C, n) /\ b = Nth(C, n + 1)
      OBVIOUS
    <2>2. n \in 1..Cardinality(C) /\ n + 1 \in 1..Cardinality(C)
      BY <1>4
    <2>3. a \in C /\ b \in C /\ Below(C, a) = n - 1 /\ Below(C, b) = (n + 1) - 1
      BY <1>4, <2>1, <2>2, NthThere
    <2>4. C \subseteq 0..Len(s) + 1 /\ a \in Nat /\ b \in Nat
      BY <1>1, <1>2, <2>3 DEF Cuts
    <2>5. b > a
      <3>1. b < a => Below(C, b) < Below(C, a)
        BY <1>4, <2>3, BelowGrows
      <3>2. a # b
        BY <2>2, <2>3
      <3>3. QED
        BY <2>2, <2>3, <2>4, <3>1, <3>2
    <2>6. ASSUME NEW i \in a + 1 .. b - 1 PROVE i \notin C
      <3>1. i \in C /\ i > a => b <= i
        BY <1>4, <2>1, <2>2, NthNext
      <3>2. i \in Nat /\ i > a /\ ~(b <= i)
        BY <2>4
      <3>3. QED
        BY <3>1, <3>2
    <2>7. a \in 0..Len(s) /\ b \in a + 1 .. Len(s) + 1
      BY <1>1, <2>3, <2>4, <2>5
    <2>8. /\ a # 0 => s[a] = c
          /\ b # Len(s) + 1 => s[b] = c
      BY <1>1, <1>2, <2>3, <2>4, <2>5, <2>7 DEF Cuts
    <2>9. \A i \in a + 1 .. b - 1 : s[i] # c
      <3>1. ASSUME NEW i \in a + 1 .. b - 1 PROVE s[i] # c
        <4>1. i \in 1..Len(s)
          BY <1>1, <2>7
        <4>2. QED
          BY <1>2, <2>6, <4>1 DEF Cuts
      <3>2. QED
        BY <3>1
    <2>10. Split(s, c)[n] = SubSeq(s, a + 1, b - 1)
      BY <1>5, <1>6, <2>1
    <2>11. QED
      BY <1>2, <2>1, <2>7, <2>8, <2>9, <2>10 DEF Parted, CutAt
  <1>10. QED
    BY <1>2, <1>4, <1>5, <1>7, <1>8, <1>9

-----------------------------------------------------------------------------
(* What the loops over texts find                                          *)

(* The place that find() comes to is the only one of its kind.             *)
Found(s, c, from, k) ==
  /\ k \in from..Len(s) + 1
  /\ \A i \in from..k - 1 : s[i] # c
  /\ k = Len(s) + 1 \/ s[k] = c

LEMMA FindIs ==
  ASSUME NEW s \in Text, NEW c, NEW from \in Nat, from > 0,
         NEW k, Found(s, c, from, k)
  PROVE  Find(s, c, from) = k
  <1>1. Len(s) \in Nat /\ k \in Nat
    BY LenProperties DEF Text, Found
  <1>2. PICK places : places = {i \in from..Len(s) : s[i] = c}
    OBVIOUS
  <1>3. \A i \in places : i \in Nat /\ k <= i
    <2>1. ASSUME NEW i \in places PROVE i \in Nat /\ k <= i
      <3>1. i \in from..Len(s) /\ s[i] = c
        BY <1>2
      <3>2. i \notin from..k - 1
        BY <3>1 DEF Found
      <3>3. QED
        BY <1>1, <3>1, <3>2
    <2>2. QED
      BY <2>1
  <1>4. CASE k = Len(s) + 1
    <2>1. places = {}
      <3>1. ASSUME NEW i \in places PROVE FALSE
        <4>1. i <= Len(s) /\ k <= i
          BY <1>1, <1>2, <1>3
        <4>2. QED
          BY <1>1, <1>3, <1>4, <4>1
      <3>2. QED
        BY <3>1
    <2>2. QED
      BY <1>2, <1>4, <2>1 DEF Find
  <1>5. CASE k # Len(s) + 1
    <2>1. k \in places
      BY <1>1, <1>2, <1>5 DEF Found
    <2>2. PICK m : m = CHOOSE i \in places : \A j \in places : i <= j
      OBVIOUS
    <2>3. m \in places /\ \A j \in places : m <= j
      BY <1>3, <2>1, <2>2
    <2>4. m = k
      <3>1. m <= k /\ k <= m /\ m \in Nat
        BY <1>3, <2>1, <2>3
      <3>2. QED
        BY <1>1, <3>1
    <2>5. Find(s, c, from) = m
      BY <1>2, <2>1, <2>2 DEF Find
    <2>6. QED
      BY <2>4, <2>5
  <1>6. QED
    BY <1>4, <1>5

LEMMA FindFinds ==
  ASSUME NEW s \in Text, NEW c, NEW from \in Nat, from > 0, from <= Len(s) + 1
  PROVE  Found(s, c, from, Find(s, c, from))
  <1>1. Len(s) \in Nat
    BY LenProperties DEF Text
  <1>2. PICK T : T = {i \in from..Len(s) + 1 : i = Len(s) + 1 \/ s[i] = c}
    OBVIOUS
  <1>3. T \subseteq Nat /\ Len(s) + 1 \in T
    BY <1>1, <1>2
  <1>4. PICK k \in T : \A i \in T : k <= i
    BY <1>3, Smallest
  <1>5. Found(s, c, from, k)
    <2>1. k \in from..Len(s) + 1 /\ (k = Len(s) + 1 \/ s[k] = c)
      BY <1>2
    <2>2. ASSUME NEW i \in from..k - 1 PROVE s[i] # c
      <3>1. i \in from..Len(s) + 1 /\ ~(k <= i)
        BY <1>1, <2>1
      <3>2. i \notin T
        BY <1>4, <3>1
      <3>3. QED
        BY <1>2, <3>1, <3>2
    <2>3. QED
      BY <2>1, <2>2 DEF Found
  <1>6. QED
    BY <1>5, FindIs

LEMMA FindRange ==
  ASSUME NEW s \in Text, NEW c, NEW from \in Nat, from > 0, from <= Len(s) + 1
  PROVE  Find(s, c, from) \in from..Len(s) + 1
  BY FindFinds DEF Found

(* A part of a part                                                        *)
LEMMA SubOfSub ==
  ASSUME NEW s \in Text, NEW m \in Nat, m > 0, NEW n \in Nat, m <= n + 1, n <= Len(s),
         NEW i \in Nat, i > 0, NEW j \in Nat, i <= j + 1, j <= n - m + 1
  PROVE  SubSeq(SubSeq(s, m, n), i, j) = SubSeq(s, m + i - 1, m + j - 1)
  <1>1. PICK p, u, v : /\ p = SubSeq(s, m, n) /\ u = SubSeq(p, i, j)
                       /\ v = SubSeq(s, m + i - 1, m + j - 1)
    OBVIOUS
  <1>2. /\ p \in Text /\ Len(p) = n - m + 1
        /\ \A k \in 1..(n - m + 1) : p[k] = s[m + k - 1]
    BY <1>1, SubText
  <1>3. /\ u \in Text /\ Len(u) = j - i + 1
        /\ \A k \in 1..(j - i + 1) : u[k] = p[i + k - 1]
    <2>1. j <= Len(p)
      BY <1>2
    <2>2. QED
      BY <1>1, <1>2, <2>1, SubText
  <1>4. /\ v \in Text /\ Len(v) = j - i + 1
        /\ \A k \in 1..(j - i + 1) : v[k] = s[(m + i - 1) + k - 1]
    <2>1. PICK a, b : a = m + i - 1 /\ b = m + j - 1
      OBVIOUS
    <2>2. /\ a \in Nat /\ b \in Nat /\ a > 0 /\ a <= b + 1 /\ b <= Len(s)
          /\ b - a + 1 = j - i + 1
      <3>1. Len(s) \in Nat
        BY LenProperties DEF Text
      <3>2. QED
        BY <2>1, <3>1
    <2>3. /\ SubSeq(s, a, b) \in Text /\ Len(SubSeq(s, a, b)) = b - a + 1
          /\ \A k \in 1..(b - a + 1) : SubSeq(s, a, b)[k] = s[a + k - 1]
      BY <2>2, SubText
    <2>4. v = SubSeq(s, a, b)
      BY <1>1, <2>1
    <2>5. QED
      BY <2>1, <2>2, <2>3, <2>4
  <1>5. ASSUME NEW k \in 1..Len(u) PROVE u[k] = v[k]
    <2>1. /\ k \in 1..(j - i + 1) /\ i + k - 1 \in 1..(n - m + 1)
          /\ m + (i + k - 1) - 1 = (m + i - 1) + k - 1
      BY <1>3
    <2>2. QED
      BY <1>2, <1>3, <1>4, <2>1
  <1>6. u = v
    BY <1>3, <1>4, <1>5, SeqEqual DEF Text
  <1>7. QED
    BY <1>1, <1>6

(* What one turn of the loop over the query reads is one of the parts that *)
(* the query has.                                                          *)
LEMMA TurnReads ==
  ASSUME NEW q \in Text, NEW n \in 1..Len(Split(q, "&")),
         "=" \in ToSet(Split(q, "&")[n]),
         NEW a \in Nat, NEW b \in Nat, Parted(q, "&", n, a, b)
  PROVE  \E h \in a + 1 .. b - 1 :
           /\ Find(q, "=", a + 1) = h
           /\ Find(q, "&", h + 1) = b
           /\ KeyOf(Split(q, "&")[n]) = Decode(SubSeq(q, a + 1, h - 1))
           /\ ValueIn(Split(q, "&")[n]) = Decode(SubSeq(q, h + 1, b - 1))
  <1>1. Len(q) \in Nat
    BY LenProperties DEF Text
  <1>2. Parted(q, "&", n, a, b)
    OBVIOUS
  <1>3. a \in Nat /\ b \in Nat /\ a < b /\ b <= Len(q) + 1
    BY <1>1, <1>2 DEF Parted
  <1>4. /\ b # Len(q) + 1 => q[b] = "&"
        /\ \A i \in a + 1 .. b - 1 : q[i] # "&"
    BY <1>2 DEF Parted
  <1>5. PICK p : p = Split(q, "&")[n]
    OBVIOUS
  <1>6. PICK m, l : m = a + 1 /\ l = b - 1
    OBVIOUS
  <1>7. p = SubSeq(q, m, l)
    BY <1>2, <1>6, <1>5 DEF Parted
  <1>8. m \in Nat /\ m > 0 /\ l \in Nat /\ m <= l + 1 /\ l <= Len(q)
    BY <1>1, <1>3, <1>6
  <1>9. PICK N : N = l - m + 1
    OBVIOUS
  <1>10. N \in Nat
    BY <1>8, <1>9
  <1>11. /\ Len(p) = N /\ p \in Text
         /\ \A i \in 1..N : p[i] = q[a + i]
    <2>1. /\ p \in Text /\ Len(p) = l - m + 1
          /\ \A i \in 1..(l - m + 1) : p[i] = q[m + i - 1]
      BY <1>7, <1>8, SubText
    <2>2. ASSUME NEW i \in 1..N PROVE p[i] = q[a + i]
      <3>1. i \in 1..(l - m + 1) /\ m + i - 1 = a + i
        BY <1>3, <1>6, <1>9, <1>10
      <3>2. QED
        BY <2>1, <3>1
    <2>3. QED
      BY <1>9, <2>1, <2>2
  <1>12. PICK k : k = Find(p, "=", 1)
    OBVIOUS
  <1>13. Found(p, "=", 1, k)
    BY <1>11, <1>12, FindFinds
  <1>14. k \in Nat /\ 1 <= k /\ k <= N
    <2>1. PICK i \in 1..N : p[i] = "="
      <3>1. DOMAIN p = 1..N
        BY <1>11, LenProperties DEF Text
      <3>2. QED
        BY <1>5, <3>1 DEF ToSet
    <2>2. k \in 1..N + 1 /\ i \notin 1..k - 1
      BY <1>11, <1>13, <2>1 DEF Found
    <2>3. QED
      BY <1>10, <2>1, <2>2
  <1>15. p[k] = "="
    <2>1. k # N + 1
      BY <1>10, <1>14
    <2>2. QED
      BY <1>11, <1>13, <2>1 DEF Found
  <1>16. PICK h : h = a + k
    OBVIOUS
  <1>17. N = b - 1 - a
    BY <1>3, <1>6, <1>9
  <1>18. h \in Nat /\ a + 1 <= h /\ h <= b - 1 /\ h <= Len(q)
    BY <1>1, <1>3, <1>14, <1>16, <1>17
  <1>19. Find(q, "=", a + 1) = h
    <2>1. h \in a + 1 .. Len(q) + 1
      BY <1>1, <1>3, <1>18
    <2>2. ASSUME NEW i \in a + 1 .. h - 1 PROVE q[i] # "="
      <3>1. PICK d : d = i - a
        OBVIOUS
      <3>2. d \in 1..k - 1 /\ d \in 1..N /\ a + d = i
        BY <1>3, <1>10, <1>14, <1>16, <3>1
      <3>3. p[d] # "="
        BY <1>13, <3>2 DEF Found
      <3>4. QED
        BY <1>11, <3>2, <3>3
    <2>3. q[h] = "="
      BY <1>11, <1>10, <1>14, <1>15, <1>16
    <2>4. Found(q, "=", a + 1, h)
      BY <2>1, <2>2, <2>3 DEF Found
    <2>5. a + 1 \in Nat /\ a + 1 > 0
      BY <1>3
    <2>6. QED
      BY <2>4, <2>5, FindIs
  <1>20. Find(q, "&", h + 1) = b
    <2>1. Found(q, "&", h + 1, b)
      BY <1>1, <1>3, <1>4, <1>18 DEF Found
    <2>2. h + 1 \in Nat /\ h + 1 > 0
      BY <1>18
    <2>3. QED
      BY <2>1, <2>2, FindIs
  <1>21. SubSeq(p, 1, k - 1) = SubSeq(q, a + 1, h - 1)
    <2>1. PICK j : j = k - 1
      OBVIOUS
    <2>2. j \in Nat /\ 1 <= j + 1 /\ j <= l - m + 1 /\ m + 1 - 1 = a + 1 /\ m + j - 1 = h - 1
      BY <1>3, <1>6, <1>9, <1>14, <1>16, <2>1
    <2>3. SubSeq(SubSeq(q, m, l), 1, j) = SubSeq(q, m + 1 - 1, m + j - 1)
      BY <1>8, <2>2, SubOfSub
    <2>4. QED
      BY <1>7, <2>1, <2>2, <2>3
  <1>22. SubSeq(p, k + 1, N) = SubSeq(q, h + 1, b - 1)
    <2>1. PICK i : i = k + 1
      OBVIOUS
    <2>2. /\ i \in Nat /\ i > 0 /\ N \in Nat /\ i <= N + 1 /\ N <= l - m + 1
          /\ m + i - 1 = h + 1 /\ m + N - 1 = b - 1
      BY <1>3, <1>6, <1>9, <1>10, <1>14, <1>16, <2>1
    <2>3. SubSeq(SubSeq(q, m, l), i, N) = SubSeq(q, m + i - 1, m + N - 1)
      BY <1>8, <2>2, SubOfSub
    <2>4. QED
      BY <1>7, <2>1, <2>2, <2>3
  <1>23. KeyOf(p) = Decode(SubSeq(q, a + 1, h - 1))
    BY <1>12, <1>21 DEF KeyOf
  <1>24. ValueIn(p) = Decode(SubSeq(q, h + 1, b - 1))
    BY <1>11, <1>12, <1>22 DEF ValueIn
  <1>25. h \in a + 1 .. b - 1
    BY <1>3, <1>18
  <1>26. QED
    BY <1>5, <1>19, <1>20, <1>23, <1>24, <1>25

-----------------------------------------------------------------------------
(* What a message looks like on the wire                                   *)

Piece == STRING \cup {"head", "emptyLine"}

LEMMA WireRead ==
  ASSUME NEW m \in Messages
  PROVE  /\ Wire(m) \in Seq(Piece)
         /\ m.body \o m.more \in Seq(Piece)
         /\ m.body \in Seq(Piece)
         /\ Len(m.body) \in Nat /\ Len(m.more) \in Nat
         /\ Len(m.body \o m.more) = Len(m.body) + Len(m.more)
         /\ Len(Wire(m)) = 2 + Len(m.body) + Len(m.more)
         /\ \A i \in 1..Len(m.body) + Len(m.more) :
              Wire(m)[2 + i] = (m.body \o m.more)[i]
         /\ \A i \in 1..Len(m.body) : (m.body \o m.more)[i] = m.body[i]
         /\ Len(Wire(m)) < SizeMax - IntMax
  <1>1. PICK b, o : b = m.body /\ o = m.more
    OBVIOUS
  <1>2. b \in Seq(Piece) /\ o \in Seq(Piece) /\ Len(b) \in Nat /\ Len(o) \in Nat
    <2>1. STRING \subseteq Piece
      BY DEF Piece
    <2>2. b \in Seq(STRING) /\ o \in Seq(STRING)
      BY <1>1, RequestAssumption
    <2>3. QED
      BY <2>1, <2>2, SeqMonotonic, LenProperties
  <1>3. PICK h : h = <<"head", "emptyLine">>
    OBVIOUS
  <1>4. h \in Seq(Piece) /\ Len(h) = 2
    <2>1. PICK x \in Piece, y \in Piece : x = "head" /\ y = "emptyLine"
      BY DEF Piece
    <2>2. <<x, y>> \in Seq(Piece)
      OBVIOUS
    <2>3. h = <<x, y>>
      BY <1>3, <2>1
    <2>4. QED
      BY <2>2, <2>3
  <1>5. PICK t : t = b \o o
    OBVIOUS
  <1>6. /\ t \in Seq(Piece) /\ Len(t) = Len(b) + Len(o)
        /\ \A i \in 1..Len(b) : t[i] = b[i]
    <2>1. /\ t \in Seq(Piece) /\ Len(t) = Len(b) + Len(o)
          /\ \A i \in 1..Len(b) + Len(o) : t[i] = IF i <= Len(b) THEN b[i] ELSE o[i - Len(b)]
      BY <1>2, <1>5, ConcatProperties
    <2>2. \A i \in 1..Len(b) : t[i] = b[i]
      BY <1>2, <2>1
    <2>3. QED
      BY <2>1, <2>2
  <1>7. Wire(m) = h \o t
    <2>1. Wire(m) = (h \o b) \o o
      BY <1>1, <1>3 DEF Wire
    <2>2. (h \o b) \o o = h \o (b \o o)
      BY <1>2, <1>4, ConcatAssociative
    <2>3. QED
      BY <1>5, <2>1, <2>2
  <1>8. PICK w : w = Wire(m)
    OBVIOUS
  <1>9. /\ w \in Seq(Piece) /\ Len(w) = 2 + Len(t)
        /\ \A i \in 1..Len(t) : w[2 + i] = t[i]
    <2>1. /\ w \in Seq(Piece) /\ Len(w) = Len(h) + Len(t)
          /\ \A i \in 1..Len(h) + Len(t) : w[i] = IF i <= Len(h) THEN h[i] ELSE t[i - Len(h)]
      <3>1. w = h \o t
        BY <1>7, <1>8
      <3>2. h \in Seq(Piece) /\ t \in Seq(Piece)
        BY <1>4, <1>6
      <3>3. QED
        BY <3>1, <3>2, ConcatProperties
    <2>2. Len(t) \in Nat
      BY <1>2, <1>6
    <2>3. ASSUME NEW i \in 1..Len(t) PROVE w[2 + i] = t[i]
      <3>1. 2 + i \in 1..Len(h) + Len(t) /\ ~(2 + i <= Len(h)) /\ (2 + i) - Len(h) = i
        BY <1>4, <2>2
      <3>2. QED
        BY <2>1, <3>1
    <2>4. QED
      BY <1>4, <2>1, <2>3
  <1>10. Len(w) < SizeMax - IntMax
    BY <1>8, RequestAssumption
  <1>11. Len(w) = 2 + Len(b) + Len(o)
    BY <1>2, <1>6, <1>9
  <1>12. \A i \in 1..Len(b) + Len(o) : w[2 + i] = t[i]
    BY <1>6, <1>9
  <1>13. QED
    BY <1>1, <1>2, <1>5, <1>6, <1>8, <1>9, <1>10, <1>11, <1>12

(* The first pieces of a sequence                                          *)
LEMMA FirstPieces ==
  ASSUME NEW S, NEW w \in Seq(S), NEW n \in Nat, n <= Len(w)
  PROVE  /\ SubSeq(w, 1, n) \in Seq(S)
         /\ Len(SubSeq(w, 1, n)) = n
         /\ \A i \in 1..n : SubSeq(w, 1, n)[i] = w[i]
  <1>1. \A i \in 1..n : w[i] \in S
    BY LenProperties, ElementOfSeq
  <1>2. QED
    BY <1>1, SubSeqProperties

LEMMA PrefixElements ==
  ASSUME NEW S, NEW s \in Seq(S), NEW t \in Seq(S), Len(s) <= Len(t),
         \A i \in 1..Len(s) : s[i] = t[i]
  PROVE  IsPrefix(s, t)
  <1>1. Len(s) \in Nat /\ Len(t) \in Nat
    BY LenProperties
  <1>2. PICK u : u = SubSeq(t, 1, Len(s))
    OBVIOUS
  <1>3. u \in Seq(S) /\ Len(u) = Len(s) /\ \A i \in 1..Len(s) : u[i] = t[i]
    BY <1>1, <1>2, FirstPieces
  <1>4. \A i \in 1..Len(s) : s[i] = u[i]
    BY <1>3
  <1>5. s = u
    BY <1>3, <1>4, SeqEqual
  <1>6. SubSeq(s, 1, Len(s)) = s
    BY <1>1, SubSeqFull
  <1>7. QED
    BY <1>2, <1>5, <1>6 DEF IsPrefix

-----------------------------------------------------------------------------
(* The inductive invariant                                                 *)

Sending ==
  /\ message \in Messages
  /\ sent \in 0..Len(Wire(message))
  /\ finished \in BOOLEAN /\ silent \in BOOLEAN
  /\ \E n \in 0..sent : readBuffer = SubSeq(Wire(message), 1, n)
  /\ step \in Steps

(* The worker has a request that is complete, and nothing is read then.    *)
Complete == step \notin {"reading", "closed"} => IsRequestComplete(readBuffer)

Throws ==
  \E i \in DOMAIN message.lengths : StoiThrows(ValueOf(message.lengths[i]))
LastLength ==
  IF message.lengths = <<>> THEN 0 ELSE Stoi(ValueOf(Last(message.lengths)))

Converted ==
  /\ contentLength \in -IntMax - 1 .. IntMax
  /\ step \in {"queries", "body", "handled"} =>
       ~Throws /\ contentLength = LastLength

Looping == start \in 1..Len(message.query) + 2

Kept ==
  step = "handled" /\ HasBody =>
    body = IF message.type \in Parsed
           THEN SubSeq(readBuffer, HeadPieces + 1, Len(readBuffer))
           ELSE <<>>

(* Nothing is taken for a body before the last step.                       *)
NoBodyYet == step # "handled" => body = <<>>

IInv == Sending /\ Complete /\ Converted /\ Looping /\ Kept /\ NoBodyYet

LEMMA ArrivedRead ==
  ASSUME Sending
  PROVE  Arrived = SubSeq(Wire(message), 1, sent) /\ sent \in 0..sent
  BY WireRead DEF Sending, Arrived

(* A number that std::stoi does not throw for is an int.                   *)
LEMMA IntConverted ==
  ASSUME Sending, ~Throws
  PROVE  LastLength \in -IntMax - 1 .. IntMax
  <1>1. IntMax \in Nat
    BY RequestAssumption
  <1>2. CASE message.lengths = <<>>
    BY <1>1, <1>2 DEF LastLength
  <1>3. CASE message.lengths # <<>>
    <2>1. PICK lengths : lengths = message.lengths
      OBVIOUS
    <2>2. lengths \in Seq(Seq(STRING)) /\ lengths # <<>>
      BY <1>3, <2>1, RequestAssumption DEF Sending
    <2>3. Len(lengths) \in Nat /\ Len(lengths) > 0 /\ DOMAIN lengths = 1..Len(lengths)
      BY <2>2, LenProperties, EmptySeq
    <2>4. Len(lengths) \in DOMAIN lengths
      BY <2>3
    <2>5. ~StoiThrows(ValueOf(lengths[Len(lengths)]))
      BY <2>1, <2>4 DEF Throws
    <2>6. LastLength = Stoi(ValueOf(lengths[Len(lengths)]))
      BY <1>3, <2>1 DEF LastLength, Last
    <2>7. QED
      BY <2>5, <2>6 DEF StoiThrows, Stoi
  <1>4. QED
    BY <1>2, <1>3

LEMMA InitIInv == ASSUME Init PROVE IInv
  <1>1. Sending
    <2>1. /\ message \in Messages /\ sent = 0 /\ readBuffer = <<>>
          /\ step = "reading" /\ finished = FALSE /\ silent = FALSE
      BY DEF Init
    <2>2. Wire(message) \in Seq(Piece) /\ Len(Wire(message)) \in Nat
      BY <2>1, WireRead, LenProperties
    <2>3. SubSeq(Wire(message), 1, 0) = <<>>
      <3>1. PICK w : w = SubSeq(Wire(message), 1, 0)
        OBVIOUS
      <3>2. w \in Seq(Piece) /\ Len(w) = 0
        BY <2>2, <3>1, FirstPieces
      <3>3. w = <<>>
        BY <3>2, EmptySeq
      <3>4. QED
        BY <3>1, <3>3
    <2>4. QED
      <3>1. sent \in 0..Len(Wire(message)) /\ 0 \in 0..sent
        BY <2>1, <2>2
      <3>2. readBuffer = SubSeq(Wire(message), 1, 0)
        BY <2>1, <2>3
      <3>3. \E n \in 0..sent : readBuffer = SubSeq(Wire(message), 1, n)
        BY <3>1, <3>2
      <3>4. step \in Steps /\ finished \in BOOLEAN /\ silent \in BOOLEAN
        BY <2>1 DEF Steps
      <3>5. QED
        BY <2>1, <3>1, <3>3, <3>4 DEF Sending
  <1>2. Complete /\ Kept /\ NoBodyYet
    BY DEF Init, Complete, Kept, NoBodyYet
  <1>3. Converted
    BY RequestAssumption DEF Init, Converted
  <1>4. Looping
    <2>1. message.query \in Seq(STRING)
      BY RequestAssumption DEF Init
    <2>2. Len(message.query) \in Nat
      BY <2>1, LenProperties
    <2>3. QED
      BY <2>2 DEF Init, Looping
  <1>5. QED
    BY <1>1, <1>2, <1>3, <1>4 DEF IInv

(* Steps of the worker leave alone what it has been given.                 *)
Given == UNCHANGED clientVars /\ UNCHANGED connectionVars

LEMMA SameFrame ==
  ASSUME message' = message
  PROVE  /\ \A text : IsRequestComplete(text)' <=> IsRequestComplete(text)
         /\ Throws' <=> Throws
         /\ LastLength' = LastLength
         /\ HasBody' <=> HasBody
  BY DEF IsRequestComplete, FramedLength, Throws, LastLength, HasBody

(* Whatever step a worker goes to, it keeps what it was given.             *)
LEMMA WorkKeeps ==
  ASSUME Sending, Complete, Given, step \notin {"reading", "closed"}, step' \in Steps
  PROVE  Sending' /\ Complete'
  <1>1. Sending'
    BY DEF Sending, Given, clientVars, connectionVars
  <1>2. IsRequestComplete(readBuffer)'
    <2>1. IsRequestComplete(readBuffer)
      BY DEF Complete
    <2>2. QED
      BY <2>1 DEF Given, clientVars, connectionVars, IsRequestComplete, FramedLength
  <1>3. QED
    BY <1>1, <1>2 DEF Complete

LEMMA StepIInv == ASSUME IInv, [Next]_vars PROVE IInv'
  <1>1. Sending /\ Complete /\ Converted /\ Looping /\ Kept /\ NoBodyYet
    BY DEF IInv
  <1>2. message.query \in Text /\ Len(message.query) \in Nat
    BY <1>1, RequestAssumption, LenProperties DEF Sending, Text
  <1>3. CASE Send
    <2>1. /\ message' = message /\ finished' = finished
          /\ readBuffer' = readBuffer /\ silent' = silent
          /\ step' = step /\ contentLength' = contentLength /\ start' = start
          /\ body' = body /\ sent' \in sent + 1 .. Len(Wire(message))
      BY <1>3 DEF Send, reqVars, connectionVars
    <2>2. Sending'
      <3>1. sent' \in 0..Len(Wire(message)) /\ \A n \in 0..sent : n \in 0..sent'
        BY <1>1, <2>1, WireRead DEF Sending
      <3>2. QED
        BY <1>1, <2>1, <3>1 DEF Sending
    <2>3. Complete' /\ Converted' /\ Looping' /\ Kept' /\ NoBodyYet'
      BY <1>1, <2>1, SameFrame DEF Complete, Converted, Looping, Kept, NoBodyYet
    <2>4. QED
      BY <2>2, <2>3 DEF IInv
  <1>4. CASE Finish
    <2>1. /\ message' = message /\ sent' = sent
          /\ readBuffer' = readBuffer /\ silent' = silent
          /\ step' = step /\ contentLength' = contentLength /\ start' = start
          /\ body' = body /\ finished' = TRUE
      BY <1>4 DEF Finish, reqVars, connectionVars
    <2>2. Sending'
      BY <1>1, <2>1 DEF Sending
    <2>3. Complete' /\ Converted' /\ Looping' /\ Kept' /\ NoBodyYet'
      BY <1>1, <2>1, SameFrame DEF Complete, Converted, Looping, Kept, NoBodyYet
    <2>4. QED
      BY <2>2, <2>3 DEF IInv
  <1>5. CASE Read
    <2>1. /\ message' = message /\ sent' = sent /\ finished' = finished
          /\ readBuffer' = Arrived /\ contentLength' = contentLength
          /\ start' = start /\ body' = body /\ silent' = FALSE
          /\ step = "reading"
          /\ step' = IF finished THEN "closed"
                     ELSE IF IsRequestComplete(Arrived) THEN "line" ELSE "reading"
      BY <1>5 DEF Read, clientVars, reqVars
    <2>2. step' \in {"closed", "line", "reading"}
          /\ (step' = "line" => IsRequestComplete(Arrived))
      BY <2>1
    <2>3. Sending'
      <3>1. readBuffer' = SubSeq(Wire(message), 1, sent) /\ sent \in 0..sent
        BY <1>1, <2>1, ArrivedRead
      <3>2. QED
        BY <1>1, <2>1, <2>2, <3>1 DEF Sending, Steps
    <2>4. Complete'
      <3>1. SUFFICES ASSUME step' = "line" PROVE IsRequestComplete(readBuffer)'
        BY <2>2 DEF Complete
      <3>2. IsRequestComplete(readBuffer')
        BY <2>1, <2>2, <3>1
      <3>3. QED
        BY <2>1, <3>2 DEF IsRequestComplete, FramedLength
    <2>5. Converted' /\ Looping' /\ Kept' /\ NoBodyYet'
      BY <1>1, <2>1, <2>2 DEF Converted, Looping, Kept, NoBodyYet
    <2>6. QED
      BY <2>3, <2>4, <2>5 DEF IInv
  <1>6. ASSUME Given, step \notin {"reading", "closed", "handled"}, step' = "failed",
               contentLength' = contentLength, start' = start, body' = body
        PROVE  IInv'
    <2>1. Sending' /\ Complete'
      BY <1>1, <1>6, WorkKeeps DEF Steps, Done
    <2>2. Converted' /\ Looping' /\ Kept' /\ NoBodyYet'
      BY <1>1, <1>6 DEF Converted, Looping, Kept, NoBodyYet, Given, clientVars, connectionVars
    <2>3. QED
      BY <2>1, <2>2 DEF IInv
  <1>7. CASE ParseLine
    <2>1. CASE step' = "failed"
      BY <1>6, <1>7, <2>1 DEF ParseLine, Fail, Go, Given, reqVars
    <2>2. CASE step' # "failed"
      <3>1. /\ Given /\ step = "line" /\ step' = "headers"
            /\ contentLength' = contentLength /\ start' = start /\ body' = body
        BY <1>7, <2>2 DEF ParseLine, Fail, Go, Given, reqVars
      <3>2. Sending' /\ Complete'
        BY <1>1, <3>1, WorkKeeps DEF Steps
      <3>3. Converted' /\ Looping' /\ Kept' /\ NoBodyYet'
        BY <1>1, <3>1 DEF Converted, Looping, Kept, NoBodyYet, Given, clientVars, connectionVars
      <3>4. QED
        BY <3>2, <3>3 DEF IInv
    <2>3. QED
      BY <2>1, <2>2
  <1>8. CASE ParseHeaders
    <2>1. CASE Throws
      <3>1. Fail /\ step = "headers"
        BY <1>8, <2>1 DEF ParseHeaders, Throws
      <3>2. QED
        BY <1>6, <3>1 DEF Fail, Given, clientVars, reqVars
    <2>2. CASE ~Throws
      <3>1. /\ Given /\ step = "headers" /\ step' = "queries" /\ start' = start
            /\ contentLength' = LastLength /\ body' = body
        BY <1>8, <2>2 DEF ParseHeaders, Go, Given, clientVars, Throws, LastLength
      <3>2. Sending' /\ Complete'
        BY <1>1, <3>1, WorkKeeps DEF Steps
      <3>3. LastLength \in -IntMax - 1 .. IntMax
        BY <1>1, <2>2, IntConverted
      <3>4. Converted'
        BY <2>2, <3>1, <3>3, SameFrame DEF Converted, Given, clientVars, connectionVars
      <3>5. Looping' /\ Kept' /\ NoBodyYet'
        BY <1>1, <3>1 DEF Looping, Kept, NoBodyYet, Given, clientVars, connectionVars
      <3>6. QED
        BY <3>2, <3>4, <3>5 DEF IInv
    <2>3. QED
      BY <2>1, <2>2
  <1>9. CASE ParsePair
    <2>1. PICK query, equals, end :
            query = message.query /\ equals = Find(query, "=", start)
            /\ end = Find(query, "&", equals + 1)
      OBVIOUS
    <2>2. /\ Given /\ step = "queries" /\ step' = "queries" /\ start <= Len(query)
          /\ equals <= Len(query) /\ start' = end + 1
          /\ contentLength' = contentLength /\ body' = body
      BY <1>9, <2>1 DEF ParsePair, InQuery, Equals, After, Go, Given, clientVars
    <2>3. Sending' /\ Complete'
      BY <1>1, <2>2, WorkKeeps DEF Steps
    <2>4. Converted' /\ Kept' /\ NoBodyYet'
      BY <1>1, <2>2, SameFrame DEF Converted, Kept, NoBodyYet, Given, clientVars, connectionVars
    <2>5. Looping'
      <3>1. start \in Nat /\ start > 0 /\ start <= Len(query) + 1
            /\ query \in Text /\ Len(query) \in Nat
        BY <1>1, <1>2, <2>1, <2>2 DEF Looping
      <3>2. equals \in start..Len(query) + 1
        BY <2>1, <3>1, FindRange
      <3>3. equals + 1 \in Nat /\ equals + 1 > 0 /\ equals + 1 <= Len(query) + 1
        BY <2>2, <3>1, <3>2
      <3>4. end \in equals + 1 .. Len(query) + 1
        BY <2>1, <3>1, <3>3, FindRange
      <3>5. start' \in 1..Len(query) + 2
        BY <2>2, <3>1, <3>3, <3>4
      <3>6. QED
        BY <2>1, <2>2, <3>5 DEF Looping, Given, clientVars, connectionVars
    <2>6. QED
      BY <2>3, <2>4, <2>5 DEF IInv
  <1>10. CASE EndQuery
    <2>1. /\ Given /\ step = "queries" /\ step' = "body" /\ start' = start
          /\ contentLength' = contentLength /\ body' = body
      BY <1>10 DEF EndQuery, Go, Given, clientVars, reqVars
    <2>2. Sending' /\ Complete'
      BY <1>1, <2>1, WorkKeeps DEF Steps
    <2>3. Converted' /\ Looping' /\ Kept' /\ NoBodyYet'
      BY <1>1, <2>1, SameFrame DEF Converted, Looping, Kept, NoBodyYet, Given, clientVars, connectionVars
    <2>4. QED
      BY <2>2, <2>3 DEF IInv
  <1>11. CASE ParseBody
    <2>1. CASE step' = "failed"
      BY <1>6, <1>11, <2>1 DEF ParseBody, Fail, Go, Given, clientVars, reqVars
    <2>2. CASE step' # "failed"
      <3>1. /\ Given /\ step = "body" /\ step' = "handled" /\ start' = start
            /\ contentLength' = contentLength
            /\ HasBody => body' = IF message.type \in Parsed
                                  THEN SubSeq(readBuffer, HeadPieces + 1, Len(readBuffer))
                                  ELSE <<>>
        BY <1>1, <1>11, <2>2 DEF ParseBody, Fail, Go, Given, reqVars, NoBodyYet
      <3>2. Sending' /\ Complete'
        BY <1>1, <3>1, WorkKeeps DEF Steps, Done
      <3>3. Converted' /\ Looping'
        BY <1>1, <3>1, SameFrame DEF Converted, Looping, Given, clientVars, connectionVars
      <3>4. Kept' /\ NoBodyYet'
        BY <3>1, SameFrame DEF Kept, NoBodyYet, Given, clientVars, connectionVars
      <3>5. QED
        BY <3>2, <3>3, <3>4 DEF IInv
    <2>3. QED
      BY <2>1, <2>2
  <1>12. CASE UNCHANGED vars
    <2>1. /\ message' = message /\ sent' = sent /\ finished' = finished
          /\ readBuffer' = readBuffer /\ silent' = silent
          /\ step' = step /\ start' = start
          /\ contentLength' = contentLength /\ body' = body
      BY <1>12 DEF vars, clientVars, reqVars, connectionVars
    <2>2. Sending'
      BY <1>1, <2>1 DEF Sending
    <2>3. Complete' /\ Converted' /\ Looping' /\ Kept' /\ NoBodyYet'
      BY <1>1, <2>1, SameFrame DEF Complete, Converted, Looping, Kept, NoBodyYet
    <2>4. QED
      BY <2>2, <2>3 DEF IInv
  <1>13. CASE Pause \/ Sweep
    <2>1. /\ message' = message /\ sent' = sent /\ finished' = finished
          /\ readBuffer' = readBuffer /\ start' = start
          /\ contentLength' = contentLength /\ body' = body
          /\ silent' \in {TRUE, silent}
          /\ step = "reading" /\ step' \in {"reading", "closed"}
      BY <1>13 DEF Pause, Sweep, clientVars, reqVars, connectionVars
    <2>2. Sending'
      BY <1>1, <2>1 DEF Sending, Steps
    <2>3. Complete' /\ Converted' /\ Looping' /\ Kept' /\ NoBodyYet'
      BY <1>1, <2>1, SameFrame DEF Complete, Converted, Looping, Kept, NoBodyYet
    <2>4. QED
      BY <2>2, <2>3 DEF IInv
  <1>14. QED
    BY <1>13, <1>3, <1>4, <1>5, <1>7, <1>8, <1>9, <1>10, <1>11, <1>12 DEF Next, Work, TurnInVain

LEMMA Invariance == Spec => []IInv
  BY InitIInv, StepIInv, PTL DEF Spec

-----------------------------------------------------------------------------
(* What has been read                                                      *)

(* The buffer holds the first pieces of what the client sends.             *)
LEMMA BufferRead ==
  ASSUME Sending
  PROVE  \E n \in 0..sent :
           /\ n <= Len(Wire(message))
           /\ readBuffer \in Seq(Piece) /\ Len(readBuffer) = n
           /\ \A i \in 1..n : readBuffer[i] = Wire(message)[i]
  <1>1. PICK n \in 0..sent : readBuffer = SubSeq(Wire(message), 1, n)
    BY DEF Sending
  <1>2. Wire(message) \in Seq(Piece) /\ Len(Wire(message)) \in Nat
    BY WireRead, LenProperties DEF Sending
  <1>3. n \in Nat /\ n <= Len(Wire(message))
    BY <1>2 DEF Sending
  <1>4. QED
    BY <1>1, <1>2, <1>3, FirstPieces

LEMMA TypeStep == ASSUME IInv PROVE TypeOK
  <1>1. Sending /\ Converted /\ Looping
    BY DEF IInv
  <1>2. PICK n \in 0..sent :
          /\ n <= Len(Wire(message))
          /\ readBuffer \in Seq(Piece) /\ Len(readBuffer) = n
          /\ \A i \in 1..n : readBuffer[i] = Wire(message)[i]
    BY <1>1, BufferRead
  <1>3. Wire(message) \in Seq(Piece)
    BY <1>1, WireRead DEF Sending
  <1>4. IsPrefix(readBuffer, Wire(message))
    BY <1>2, <1>3, PrefixElements
  <1>5. Len(readBuffer) <= sent
    BY <1>1, <1>2, WireRead DEF Sending
  <1>6. QED
    BY <1>1, <1>4, <1>5 DEF Sending, Converted, Looping, TypeOK

-----------------------------------------------------------------------------
(* What is announced                                                       *)

(* The only content-length there is, as the event loop and as the worker   *)
(* take it.                                                                *)
LEMMA LengthRead ==
  ASSUME Sending, OneLength(message)
  PROVE  \E s \in Text :
           /\ s = message.lengths[1]
           /\ Stoi(s) = ReadNumeral(s).value
           /\ FramedLength = Stoull(s)
           /\ Numeral[s] = ReadNumeral(s)
           /\ LastLength = ReadNumeral(s).value
           /\ ~Throws => /\ ReadNumeral(s).found
                         /\ ReadNumeral(s).value \in -IntMax - 1 .. IntMax
  <1>1. PICK lengths : lengths = message.lengths
    OBVIOUS
  <1>2. message \in Messages
    BY DEF Sending
  <1>3. lengths \in Seq(Text) /\ Len(lengths) = 1
    BY <1>1, <1>2, RequestAssumption DEF OneLength, Text
  <1>4. PICK s : s = lengths[1]
    OBVIOUS
  <1>5. s \in Text
    BY <1>3, <1>4, ElementOfSeq
  <1>6. PICK n : n = Len(s)
    OBVIOUS
  <1>7. n \in Nat
    BY <1>5, <1>6, LenProperties DEF Text
  <1>8. n > 0 /\ s[1] = Blank
    <2>1. IsPrefix(<<Blank>>, s)
      BY <1>1, <1>4 DEF OneLength
    <2>2. PICK b : b = <<Blank>>
      OBVIOUS
    <2>3. Len(b) = 1 /\ b[1] = Blank
      BY <2>2
    <2>4. 1 <= n /\ SubSeq(b, 1, 1) = SubSeq(s, 1, 1)
      BY <1>6, <2>1, <2>2, <2>3 DEF IsPrefix
    <2>5. SubSeq(s, 1, 1)[1] = s[1]
      BY <1>5, <1>6, <1>7, <2>4, FirstPieces DEF Text
    <2>6. SubSeq(b, 1, 1)[1] = b[1]
      BY <2>2
    <2>7. QED
      BY <1>7, <2>3, <2>4, <2>5, <2>6
  <1>9. s \in Values
    <2>1. s \in ToSet(message.lengths)
      <3>1. 1 \in DOMAIN lengths
        BY <1>3, LenProperties
      <3>2. QED
        BY <1>1, <1>4, <3>1 DEF ToSet
    <2>2. QED
      BY <1>2, <2>1 DEF Values
  <1>10. s \in Texts /\ Numeral[s] = ReadNumeral(s)
    <2>1. s = SubSeq(s, 1, Len(s))
      BY <1>5, SubSeqFull DEF Text
    <2>2. s \in Texts
      BY <1>9, <2>1 DEF Texts
    <2>3. QED
      BY <2>2 DEF Numeral
  <1>11. ValueOf(s) \in Texts /\ Numeral[ValueOf(s)] = ReadNumeral(s)
    <2>1. ValueOf(s) \in Texts
      BY <1>9 DEF Texts, ValueOf
    <2>2. Numeral[ValueOf(s)] = ReadNumeral(ValueOf(s))
      BY <2>1 DEF Numeral
    <2>3. ReadNumeral(ValueOf(s)) = ReadNumeral(s)
      BY <1>5, <1>6, <1>8, BlankSkipped DEF ValueOf
    <2>4. QED
      BY <2>1, <2>2, <2>3
  <1>12. Stoi(s) = ReadNumeral(s).value
    BY <1>10 DEF Stoi
  <1>13. lengths # <<>>
    BY <1>3, EmptySeq
  <1>14. FramedLength = Stoull(s)
    <2>1. Head(lengths) = s
      BY <1>3, <1>4, <1>13
    <2>2. FramedLength = Stoull(Head(lengths))
      BY <1>1, <1>13, Zenon DEF FramedLength
    <2>3. QED
      BY <2>1, <2>2
  <1>15. LastLength = ReadNumeral(s).value
    BY <1>1, <1>3, <1>4, <1>11, <1>13 DEF LastLength, Last, Stoi
  <1>16. ASSUME ~Throws
         PROVE  /\ ReadNumeral(s).found
                /\ ReadNumeral(s).value \in -IntMax - 1 .. IntMax
    <2>1. 1 \in DOMAIN lengths
      BY <1>3, LenProperties
    <2>2. ~StoiThrows(ValueOf(s))
      BY <1>1, <1>4, <1>16, <2>1 DEF Throws
    <2>3. QED
      BY <1>11, <2>2 DEF StoiThrows
  <1>17. QED
    BY <1>1, <1>4, <1>5, <1>10, <1>12, <1>14, <1>15, <1>16

(* The length that is waited for is the length that is announced; a        *)
(* negative one is more than anybody sends.                                *)
LEMMA LengthWaited ==
  ASSUME Sending, OneLength(message), ~Throws, IsRequestComplete(readBuffer)
  PROVE  FramedLength = LastLength
  <1>1. PICK s \in Text :
           /\ FramedLength = Stoull(s)
           /\ Numeral[s] = ReadNumeral(s)
           /\ LastLength = ReadNumeral(s).value
           /\ ReadNumeral(s).found
           /\ ReadNumeral(s).value \in -IntMax - 1 .. IntMax
    BY LengthRead
  <1>2. PICK size, value : size = ReadNumeral(s).size /\ value = ReadNumeral(s).value
    OBVIOUS
  <1>3. /\ size \in Nat /\ (value = size \/ value = -size)
        /\ value \in -IntMax - 1 .. IntMax
    BY <1>1, <1>2, NumeralRead
  <1>4. IntMax \in Nat /\ SizeMax \in Nat /\ IntMax < SizeMax
    BY RequestAssumption
  <1>5. FramedLength = IF size > SizeMax THEN 0 ELSE value % (SizeMax + 1)
    BY <1>1, <1>2 DEF Stoull
  <1>6. size <= SizeMax
    BY <1>3, <1>4
  <1>7. FramedLength = value % (SizeMax + 1)
    BY <1>5, <1>6, <1>3, <1>4
  <1>8. CASE value >= 0
    <2>1. value % (SizeMax + 1) = value
      BY <1>3, <1>4, <1>8
    <2>2. QED
      BY <1>1, <1>2, <1>7, <2>1
  <1>9. CASE value < 0
    <2>1. value % (SizeMax + 1) = SizeMax + 1 + value
      BY <1>3, <1>4, <1>9
    <2>2. FramedLength \in Nat /\ FramedLength >= SizeMax - IntMax
      BY <1>3, <1>4, <1>7, <1>9, <2>1
    <2>3. PICK n \in 0..sent : n <= Len(Wire(message)) /\ Len(readBuffer) = n
      BY BufferRead
    <2>4. Len(readBuffer) \in Nat /\ Len(readBuffer) < SizeMax - IntMax
      <3>1. Len(Wire(message)) \in Nat /\ Len(Wire(message)) < SizeMax - IntMax
        BY WireRead, LenProperties DEF Sending
      <3>2. n \in Nat
        BY <2>3, <3>1 DEF Sending
      <3>3. QED
        BY <1>4, <2>3, <3>1, <3>2
    <2>5. Len(readBuffer) - 2 >= FramedLength
      BY DEF IsRequestComplete, HeadPieces
    <2>6. FALSE
      BY <1>4, <2>2, <2>4, <2>5
    <2>7. QED
      BY <2>6
  <1>10. QED
    BY <1>3, <1>8, <1>9

LEMMA LengthsStep == ASSUME IInv PROVE LengthsAgree
  <1>1. SUFFICES ASSUME step = "handled", OneLength(message)
                 PROVE  contentLength = FramedLength
    BY DEF LengthsAgree
  <1>2. Sending /\ Complete /\ Converted
    BY DEF IInv
  <1>3. IsRequestComplete(readBuffer) /\ ~Throws /\ contentLength = LastLength
    BY <1>1, <1>2 DEF Complete, Converted
  <1>4. QED
    BY <1>1, <1>2, <1>3, LengthWaited

-----------------------------------------------------------------------------
(* What the handler gets                                                   *)

LEMMA BodyStep == ASSUME IInv PROVE BodyIsWhole
  <1>1. SUFFICES ASSUME step = "handled", HasBody, Honest(message),
                        message.type \in Parsed
                 PROVE  /\ IsPrefix(message.body, body)
                        /\ IsPrefix(body, message.body \o message.more)
    BY DEF BodyIsWhole, IInv, Kept
  <1>2. Sending /\ IsRequestComplete(readBuffer) /\ ~Throws
    BY <1>1 DEF IInv, Complete, Converted
  <1>3. OneLength(message) /\ Stoi(message.lengths[1]) = Len(message.body)
    BY <1>1 DEF Honest
  <1>4. FramedLength = Len(message.body)
    BY <1>2, <1>3, LengthWaited, LengthRead
  <1>5. PICK b : b = message.body
    OBVIOUS
  <1>6. PICK t : t = message.body \o message.more
    OBVIOUS
  <1>7. PICK w : w = Wire(message)
    OBVIOUS
  <1>8. /\ b \in Seq(Piece) /\ t \in Seq(Piece)
        /\ Len(b) \in Nat /\ Len(t) \in Nat /\ Len(b) <= Len(t)
        /\ Len(w) = 2 + Len(t)
        /\ \A i \in 1..Len(t) : w[2 + i] = t[i]
        /\ \A i \in 1..Len(b) : t[i] = b[i]
    <2>1. message \in Messages
      BY <1>2 DEF Sending
    <2>2. Len(t) = Len(message.body) + Len(message.more)
      BY <1>6, <2>1, WireRead
    <2>3. Len(b) \in Nat /\ Len(message.more) \in Nat /\ Len(t) = Len(b) + Len(message.more)
      BY <1>5, <2>1, <2>2, WireRead
    <2>4. Len(t) \in Nat /\ Len(b) <= Len(t)
      BY <2>3
    <2>5. Len(w) = 2 + Len(t)
      <3>1. Len(w) = 2 + Len(b) + Len(message.more)
        BY <1>5, <1>7, <2>1, WireRead
      <3>2. PICK k, l, n : k = Len(b) /\ l = Len(message.more) /\ n = Len(t)
        OBVIOUS
      <3>3. k \in Nat /\ l \in Nat /\ n = k + l
        BY <2>3, <3>2
      <3>4. 2 + k + l = 2 + n
        BY <3>3
      <3>5. QED
        BY <3>1, <3>2, <3>4
    <2>6. \A i \in 1..Len(t) : w[2 + i] = t[i]
      BY <1>5, <1>6, <1>7, <2>1, <2>3, WireRead
    <2>7. b \in Seq(Piece) /\ t \in Seq(Piece) /\ \A i \in 1..Len(b) : t[i] = b[i]
      BY <1>5, <1>6, <2>1, WireRead
    <2>8. QED
      BY <2>3, <2>4, <2>5, <2>6, <2>7
  <1>9. PICK n \in 0..sent :
           /\ n <= Len(w)
           /\ readBuffer \in Seq(Piece) /\ Len(readBuffer) = n
           /\ \A i \in 1..n : readBuffer[i] = w[i]
    BY <1>2, <1>7, BufferRead
  <1>10. n \in Nat /\ n - 2 >= Len(b)
    BY <1>2, <1>4, <1>5, <1>7, <1>8, <1>9 DEF IsRequestComplete, HeadPieces, Sending
  <1>11. body = SubSeq(readBuffer, 3, n)
    BY <1>1, <1>9 DEF IInv, Kept, HeadPieces
  <1>12. /\ body \in Seq(Piece) /\ Len(body) = n - 2
         /\ \A i \in 1..n - 2 : body[i] = t[i]
    <2>1. \A i \in 3..n : readBuffer[i] \in Piece
      BY <1>9, ElementOfSeq
    <2>2. n - 3 + 1 = n - 2
      BY <1>10
    <2>3. /\ body \in Seq(Piece) /\ Len(body) = n - 2
          /\ \A i \in 1..n - 2 : body[i] = readBuffer[3 + i - 1]
      BY <1>8, <1>9, <1>10, <1>11, <2>1, <2>2, SubSeqProperties
    <2>4. ASSUME NEW i \in 1..n - 2 PROVE body[i] = t[i]
      <3>1. 3 + i - 1 = 2 + i /\ 2 + i \in 1..n /\ i \in 1..Len(t)
        BY <1>8, <1>9, <1>10
      <3>2. QED
        BY <1>8, <1>9, <2>3, <3>1
    <2>5. QED
      BY <2>3, <2>4
  <1>13. IsPrefix(b, body)
    <2>1. Len(b) <= Len(body) /\ \A i \in 1..Len(b) : b[i] = body[i]
      BY <1>8, <1>10, <1>12
    <2>2. QED
      BY <1>8, <1>12, <2>1, PrefixElements
  <1>14. IsPrefix(body, t)
    <2>1. Len(body) <= Len(t) /\ \A i \in 1..Len(body) : body[i] = t[i]
      BY <1>8, <1>9, <1>10, <1>12
    <2>2. QED
      BY <1>8, <1>12, <2>1, PrefixElements
  <1>15. QED
    BY <1>5, <1>6, <1>13, <1>14

-----------------------------------------------------------------------------
(* The pairs of a query: the loop reads them part by part.                *)

(* Of the first n parts each key is there, with the value it was given     *)
(* last.                                                                   *)
Collected(map, parts, n) ==
  /\ map = [key \in DOMAIN map |-> map[key]]
  /\ DOMAIN map = {KeyOf(parts[i]) : i \in 1..n}
  /\ \A i \in 1..n :
       \/ \E j \in i + 1 .. n : KeyOf(parts[j]) = KeyOf(parts[i])
       \/ map[KeyOf(parts[i])] = ValueIn(parts[i])

LEMMA NoneCollected == ASSUME NEW parts PROVE Collected(<<>>, parts, 0)
  <1>1. DOMAIN <<>> = {}
    OBVIOUS
  <1>2. <<>> = [key \in DOMAIN <<>> |-> <<>>[key]]
    OBVIOUS
  <1>3. {KeyOf(parts[i]) : i \in 1..0} = {}
    OBVIOUS
  <1>4. QED
    BY <1>1, <1>2, <1>3 DEF Collected

LEMMA OneMoreCollected ==
  ASSUME NEW parts, NEW map, NEW n \in Nat, Collected(map, parts, n)
  PROVE  Collected(Set(map, KeyOf(parts[n + 1]), ValueIn(parts[n + 1])), parts, n + 1)
  <1>1. PICK key, value : key = KeyOf(parts[n + 1]) /\ value = ValueIn(parts[n + 1])
    OBVIOUS
  <1>2. PICK new : new = Set(map, key, value)
    OBVIOUS
  <1>3. new = [k \in DOMAIN map \cup {key} |-> IF k = key THEN value ELSE map[k]]
    BY <1>2 DEF Set
  <1>4. DOMAIN new = DOMAIN map \cup {key} /\ new = [k \in DOMAIN new |-> new[k]]
    BY <1>3
  <1>5. DOMAIN new = {KeyOf(parts[i]) : i \in 1..n + 1}
    <2>1. 1..n + 1 = (1..n) \cup {n + 1}
      OBVIOUS
    <2>2. {KeyOf(parts[i]) : i \in 1..n + 1} = {KeyOf(parts[i]) : i \in 1..n} \cup {KeyOf(parts[n + 1])}
      BY <2>1
    <2>3. QED
      BY <1>1, <1>4, <2>2 DEF Collected
  <1>6. ASSUME NEW i \in 1..n + 1
        PROVE  \/ \E j \in i + 1 .. n + 1 : KeyOf(parts[j]) = KeyOf(parts[i])
               \/ new[KeyOf(parts[i])] = ValueIn(parts[i])
    <2>1. CASE i = n + 1
      BY <1>1, <1>3, <2>1
    <2>2. CASE i # n + 1 /\ KeyOf(parts[i]) = key
      <3>1. n + 1 \in i + 1 .. n + 1
        BY <2>2
      <3>2. QED
        BY <1>1, <2>2, <3>1
    <2>3. CASE i # n + 1 /\ KeyOf(parts[i]) # key
      <3>1. i \in 1..n
        BY <2>3
      <3>2. PICK k : k = KeyOf(parts[i])
        OBVIOUS
      <3>3. k \in DOMAIN map /\ k # key
        BY <2>3, <3>1, <3>2 DEF Collected
      <3>4. new[k] = map[k]
        BY <1>3, <3>3
      <3>5. CASE \E j \in i + 1 .. n : KeyOf(parts[j]) = k
        <4>1. PICK j \in i + 1 .. n : KeyOf(parts[j]) = k
          BY <3>5
        <4>2. j \in i + 1 .. n + 1
          BY <3>1, <4>1
        <4>3. QED
          BY <3>2, <4>1, <4>2
      <3>6. CASE map[k] = ValueIn(parts[i])
        BY <3>2, <3>4, <3>6
      <3>7. QED
        BY <3>1, <3>2, <3>5, <3>6 DEF Collected
    <2>4. QED
      BY <2>1, <2>2, <2>3
  <1>7. Collected(new, parts, n + 1)
    BY <1>4, <1>5, <1>6 DEF Collected
  <1>8. QED
    BY <1>1, <1>2, <1>7

LEMMA AllCollected ==
  ASSUME NEW parts, Len(parts) \in Nat,
         DOMAIN parts = 1..Len(parts), NEW map, Collected(map, parts, Len(parts))
  PROVE  map = PairsIn(parts)
  <1>1. PICK n \in Nat : n = Len(parts)
    OBVIOUS
  <1> DEFINE IsLast(key, i) == /\ KeyOf(parts[i]) = key
                               /\ \A j \in i + 1 .. n : KeyOf(parts[j]) # key
             LastWith(key) == CHOOSE i \in 1..n : IsLast(key, i)
  <1>2. ASSUME NEW key \in DOMAIN map
        PROVE  map[key] = ValueIn(parts[LastWith(key)])
    <2>1. PICK T : T = {d \in 0..n : d < n /\ KeyOf(parts[n - d]) = key}
      OBVIOUS
    <2>2. PICK i \in 1..n : KeyOf(parts[i]) = key
      BY <1>1, <1>2 DEF Collected
    <2>3. n - i \in T
      <3>1. n - i \in 0..n /\ n - i < n /\ n - (n - i) = i
        BY <2>2
      <3>2. QED
        BY <2>1, <2>2, <3>1
    <2>4. PICK d \in T : \A e \in T : d <= e
      <3>1. T \subseteq Nat /\ T # {}
        <4>1. T \subseteq 0..n
          BY <2>1
        <4>2. QED
          BY <2>3, <4>1
      <3>2. QED
        BY <3>1, Smallest
    <2>5. d \in 0..n /\ d < n /\ n - d \in 1..n
      BY <2>1, <2>4
    <2>6. IsLast(key, n - d)
      <3>1. KeyOf(parts[n - d]) = key
        BY <2>1, <2>4
      <3>2. ASSUME NEW j \in n - d + 1 .. n, KeyOf(parts[j]) = key PROVE FALSE
        <4>1. n - j \in 0..n /\ n - j < n /\ n - (n - j) = j /\ n - j < d
          BY <2>5, <3>2
        <4>2. n - j \in T
          BY <2>1, <3>2, <4>1
        <4>3. d <= n - j
          BY <2>4, <4>2
        <4>4. QED
          BY <2>5, <4>1, <4>3
      <3>3. QED
        BY <3>1, <3>2
    <2>7. LastWith(key) \in 1..n /\ IsLast(key, LastWith(key))
      <3>1. \E k \in 1..n : IsLast(key, k)
        BY <2>5, <2>6
      <3> HIDE DEF IsLast
      <3>2. QED
        BY <3>1
    <2>8. PICK k : k = LastWith(key)
      OBVIOUS
    <2>9. k \in 1..n /\ IsLast(key, k)
      BY <2>7, <2>8
    <2>10. map[key] = ValueIn(parts[k])
      BY <1>1, <2>9 DEF Collected
    <2>11. QED
      BY <2>8, <2>10
  <1>3. DOMAIN map = {KeyOf(parts[i]) : i \in 1..n}
    BY <1>1 DEF Collected
  <1>4. map = [key \in {KeyOf(parts[i]) : i \in 1..n} |-> ValueIn(parts[LastWith(key)])]
    <2>1. map = [key \in DOMAIN map |-> map[key]]
      BY DEF Collected
    <2> HIDE DEF LastWith
    <2>2. QED
      BY <1>2, <1>3, <2>1
  <1>5. PairsIn(parts) = [key \in {KeyOf(parts[i]) : i \in 1..n} |-> ValueIn(parts[LastWith(key)])]
    <2>1. DOMAIN parts = 1..n
      BY <1>1
    <2>2. PairsIn(parts) =
            [key \in {KeyOf(parts[i]) : i \in DOMAIN parts} |->
               ValueIn(parts[CHOOSE i \in DOMAIN parts :
                               /\ KeyOf(parts[i]) = key
                               /\ \A j \in i + 1 .. Len(parts) : KeyOf(parts[j]) # key])]
      BY Zenon DEF PairsIn
    <2>3. QED
      BY <1>1, <2>1, <2>2, Zenon
  <1>6. QED
    BY <1>4, <1>5

(* The turns of the loop over the query have read its first parts.         *)
Parts == Split(message.query, "&")
Turned(n) ==
  /\ start = CutAt(message.query, "&", n + 1) + 1
  /\ Collected(queries, Parts, n)

Paired ==
  message.query # <<>> /\ WellFormed(message.query) =>
    /\ step \in {"reading", "line", "headers"} => start = 1 /\ queries = <<>>
    /\ step = "queries" => \E n \in 0..Len(Parts) : Turned(n)
    /\ step \in {"body", "handled"} => queries = PairsIn(Parts)

LEMMA InitPaired == Init => Paired
  BY DEF Init, Paired

LEMMA PartsRead ==
  ASSUME NEW q \in Text
  PROVE  /\ Len(Split(q, "&")) \in Nat
         /\ DOMAIN Split(q, "&") = 1..Len(Split(q, "&"))
         /\ CutAt(q, "&", 1) = 0
         /\ \A n \in 1..Len(Split(q, "&")) :
              /\ CutAt(q, "&", n) \in 0..Len(q)
              /\ CutAt(q, "&", n + 1) \in CutAt(q, "&", n) + 1 .. Len(q) + 1
              /\ Parted(q, "&", n, CutAt(q, "&", n), CutAt(q, "&", n + 1))
         /\ CutAt(q, "&", Len(Split(q, "&")) + 1) = Len(q) + 1
  <1>1. PICK m : m = Len(Split(q, "&"))
    OBVIOUS
  <1>2. m \in Nat /\ DOMAIN Split(q, "&") = 1..m /\ Cardinality(Cuts(q, "&")) = m + 1
    BY <1>1, SplitRead, CutsRead
  <1>3. CutAt(q, "&", 1) = 0 /\ CutAt(q, "&", m + 1) = Len(q) + 1
    BY <1>2, CutsRead
  <1>4. \A n \in 1..m : Parted(q, "&", n, CutAt(q, "&", n), CutAt(q, "&", n + 1))
    BY <1>1, SplitRead
  <1>5. \A n \in 1..m :
          /\ CutAt(q, "&", n) \in 0..Len(q)
          /\ CutAt(q, "&", n + 1) \in CutAt(q, "&", n) + 1 .. Len(q) + 1
    BY <1>4 DEF Parted
  <1>6. QED
    BY <1>1, <1>2, <1>3, <1>4, <1>5

(* The part that begins where a turn does has been read by its end.        *)
LEMMA TurnPaired ==
  ASSUME message.query \in Text, WellFormed(message.query),
         message.query # <<>>, NEW n \in 0..Len(Parts), Turned(n), ParsePair
  PROVE  \E m \in 0..Len(Parts) : Turned(m)'
  <1>1. PICK q : q = message.query
    OBVIOUS
  <1>2. q \in Text /\ Len(q) \in Nat /\ Parts = Split(q, "&")
    BY <1>1, LenProperties DEF Text, Parts
  <1>3. start <= Len(q)
    BY <1>1 DEF ParsePair, InQuery
  <1>4. n + 1 \in 1..Len(Parts)
    <2>1. CutAt(q, "&", Len(Parts) + 1) = Len(q) + 1 /\ Len(Parts) \in Nat
      BY <1>2, PartsRead
    <2>2. start = CutAt(q, "&", n + 1) + 1
      BY <1>1 DEF Turned
    <2>3. n # Len(Parts)
      BY <1>2, <1>3, <2>1, <2>2
    <2>4. QED
      BY <2>1, <2>3
  <1>5. PICK a, b : a = CutAt(q, "&", n + 1) /\ b = CutAt(q, "&", (n + 1) + 1)
    OBVIOUS
  <1>6. a \in Nat /\ b \in Nat /\ Parted(q, "&", n + 1, a, b)
    <2>1. /\ CutAt(q, "&", n + 1) \in 0..Len(q)
          /\ CutAt(q, "&", (n + 1) + 1) \in CutAt(q, "&", n + 1) + 1 .. Len(q) + 1
          /\ Parted(q, "&", n + 1, CutAt(q, "&", n + 1), CutAt(q, "&", (n + 1) + 1))
      BY <1>2, <1>4, PartsRead
    <2>2. a \in Nat
      BY <1>2, <1>5, <2>1
    <2>3. b \in a + 1 .. Len(q) + 1
      BY <1>5, <2>1
    <2>4. b \in Nat
      BY <1>2, <2>2, <2>3
    <2>5. QED
      BY <1>5, <2>1, <2>2, <2>4
  <1>7. PICK part : part = Split(q, "&")[n + 1]
    OBVIOUS
  <1>8. "=" \in ToSet(part)
    <2>1. part \in ToSet(Split(q, "&"))
      <3>1. n + 1 \in DOMAIN Split(q, "&")
        BY <1>2, <1>4, PartsRead
      <3>2. QED
        BY <1>7, <3>1 DEF ToSet
    <2>2. QED
      BY <1>1, <2>1 DEF WellFormed
  <1>9. PICK h \in a + 1 .. b - 1 :
           /\ Find(q, "=", a + 1) = h
           /\ Find(q, "&", h + 1) = b
           /\ KeyOf(part) = Decode(SubSeq(q, a + 1, h - 1))
           /\ ValueIn(part) = Decode(SubSeq(q, h + 1, b - 1))
    BY <1>2, <1>4, <1>6, <1>7, <1>8, TurnReads
  <1>10. start = a + 1
    BY <1>1, <1>5 DEF Turned
  <1>11. Equals = h
    BY <1>1, <1>9, <1>10 DEF Equals
  <1>12. /\ queries' = Set(queries, KeyOf(part), ValueIn(part))
         /\ start' = b + 1 /\ message' = message
    <2>1. /\ queries' = Set(queries, Decode(SubSeq(q, start, Equals - 1)),
                            Decode(SubSeq(q, Equals + 1, Find(q, "&", Equals + 1) - 1)))
          /\ start' = Find(q, "&", Equals + 1) + 1 /\ message' = message
      BY <1>1 DEF ParsePair, After, Go, clientVars
    <2>2. QED
      BY <1>9, <1>10, <1>11, <2>1
  <1>13. Collected(queries', Parts, n + 1)
    <2>1. Collected(queries, Parts, n) /\ n \in Nat /\ part = Parts[n + 1]
      BY <1>2, <1>4, <1>7 DEF Turned
    <2>2. Collected(Set(queries, KeyOf(Parts[n + 1]), ValueIn(Parts[n + 1])), Parts, n + 1)
      BY <2>1, OneMoreCollected
    <2>3. QED
      BY <1>12, <2>1, <2>2
  <1>14. start' = CutAt(q, "&", (n + 1) + 1) + 1 /\ Parts' = Parts /\ message'.query = q
    BY <1>1, <1>5, <1>12 DEF Parts
  <1>15. Turned(n + 1)'
    BY <1>13, <1>14 DEF Turned
  <1>16. n + 1 \in 0..Len(Parts)
    BY <1>4
  <1>17. QED
    BY <1>15, <1>16

(* When the loop ends no part is left.                                     *)
LEMMA EndPaired ==
  ASSUME message.query \in Text, WellFormed(message.query),
         message.query # <<>>, NEW n \in 0..Len(Parts), Turned(n),
         start > Len(message.query)
  PROVE  queries = PairsIn(Parts)
  <1>1. PICK q : q = message.query
    OBVIOUS
  <1>2. q \in Text /\ Len(q) \in Nat /\ Parts = Split(q, "&")
    BY <1>1, LenProperties DEF Text, Parts
  <1>3. Len(Parts) \in Nat /\ DOMAIN Parts = 1..Len(Parts)
    BY <1>2, PartsRead
  <1>4. start = CutAt(q, "&", n + 1) + 1 /\ start > Len(q)
    BY <1>1 DEF Turned
  <1>5. n = Len(Parts)
    <2>1. SUFFICES ASSUME n # Len(Parts) PROVE FALSE
      OBVIOUS
    <2>2. n + 1 \in 1..Len(Parts)
      <3>1. PICK k : k = Len(Parts)
        OBVIOUS
      <3>2. k \in Nat /\ n \in 0..k /\ n # k
        BY <1>3, <2>1, <3>1
      <3>3. n + 1 \in 1..k
        BY <3>2
      <3>4. QED
        BY <3>1, <3>3
    <2>3. PICK a, b : a = CutAt(q, "&", n + 1) /\ b = CutAt(q, "&", (n + 1) + 1)
      OBVIOUS
    <2>4. a \in 0..Len(q) /\ b \in a + 1 .. Len(q) + 1 /\ Parted(q, "&", n + 1, a, b)
      BY <1>2, <2>2, <2>3, PartsRead
    <2>5. a = Len(q) /\ b = Len(q) + 1
      BY <1>2, <1>4, <2>3, <2>4
    <2>6. Parts[n + 1] = SubSeq(q, Len(q) + 1, Len(q))
      <3>1. Split(q, "&")[n + 1] = SubSeq(q, a + 1, b - 1) /\ b - 1 = Len(q)
        BY <1>2, <2>4, <2>5 DEF Parted
      <3>2. QED
        BY <1>2, <2>5, <3>1
    <2>7. PICK part : part = Parts[n + 1]
      OBVIOUS
    <2>8. Len(part) = 0 /\ part \in Text
      <3>1. PICK m, l : m = Len(q) + 1 /\ l = Len(q)
        OBVIOUS
      <3>2. m \in Nat /\ m > 0 /\ l \in Nat /\ m <= l + 1 /\ l <= Len(q)
        BY <1>2, <3>1
      <3>3. SubSeq(q, m, l) \in Text /\ Len(SubSeq(q, m, l)) = l - m + 1
        BY <1>2, <3>2, SubText
      <3>4. l - m + 1 = 0
        BY <1>2, <3>1
      <3>5. QED
        BY <2>6, <2>7, <3>1, <3>3, <3>4
    <2>9. DOMAIN part = {}
      BY <2>8, LenProperties DEF Text
    <2>10. part \in ToSet(Split(q, "&"))
      BY <1>2, <1>3, <2>2, <2>7 DEF ToSet
    <2>11. "=" \in ToSet(part)
      BY <1>1, <2>10 DEF WellFormed
    <2>12. QED
      BY <2>9, <2>11 DEF ToSet
  <1>6. QED
    BY <1>3, <1>5, AllCollected DEF Turned

LEMMA StepPaired == ASSUME Sending, Paired, [Next]_vars PROVE Paired'
  <1>1. CASE message.query = <<>> \/ ~WellFormed(message.query)
    <2>1. message' = message
      BY DEF Next, vars, clientVars, Send, Finish, Pause, Read, Sweep, Work, ParseLine, ParseHeaders,
         ParsePair, TurnInVain, EndQuery, ParseBody, Fail, Go
    <2>2. QED
      BY <1>1, <2>1 DEF Paired, WellFormed
  <1>2. CASE message.query # <<>> /\ WellFormed(message.query)
    <2>1. message.query \in Text
      BY RequestAssumption DEF Sending, Text
    <2>2. /\ step \in {"reading", "line", "headers"} => start = 1 /\ queries = <<>>
          /\ step = "queries" => \E n \in 0..Len(Parts) : Turned(n)
          /\ step \in {"body", "handled"} => queries = PairsIn(Parts)
      BY <1>2 DEF Paired
    <2>3. ASSUME message' = message, start' = start, queries' = queries, step' = step
          PROVE  Paired'
      BY <1>2, <2>2, <2>3 DEF Paired, Turned, Parts, WellFormed
    <2>4. ASSUME message' = message, step' \in {"failed", "closed"} PROVE Paired'
      BY <2>4 DEF Paired
    <2>5. ASSUME message' = message, start' = start, queries' = queries,
                 step \in {"reading", "line"}, step' \in {"reading", "line", "headers"}
          PROVE  Paired'
      BY <1>2, <2>2, <2>5 DEF Paired
    <2>6. CASE Send \/ Finish \/ TurnInVain \/ UNCHANGED vars
      BY <2>3, <2>6 DEF Send, Finish, TurnInVain, vars, reqVars, clientVars
    <2>7. CASE Read
      <3>1. message' = message /\ start' = start /\ queries' = queries /\ step = "reading"
            /\ step' \in {"closed", "line", "reading"}
        BY <2>7 DEF Read, clientVars, reqVars
      <3>2. QED
        BY <2>4, <2>5, <3>1
    <2>8. CASE ParseLine
      BY <2>4, <2>5, <2>8 DEF ParseLine, Fail, Go, clientVars, reqVars
    <2>9. CASE ParseHeaders
      <3>1. CASE step' = "failed"
        BY <2>4, <2>9, <3>1 DEF ParseHeaders, Fail, Go, clientVars
      <3>2. CASE step' # "failed"
        <4>1. /\ step = "headers" /\ step' = "queries" /\ message' = message
              /\ start' = start /\ queries' = queries
          BY <2>9, <3>2 DEF ParseHeaders, Fail, Go, clientVars
        <4>2. start' = CutAt(message.query, "&", 0 + 1) + 1
          <5>1. CutAt(message.query, "&", 1) = 0
            BY <2>1, PartsRead
          <5>2. QED
            BY <2>2, <4>1, <5>1
        <4>3. Collected(queries', Parts, 0)
          BY <2>2, <4>1, NoneCollected
        <4>4. Turned(0)'
          BY <4>1, <4>2, <4>3 DEF Turned, Parts
        <4>5. 0 \in 0..Len(Parts)'
          BY <2>1, <4>1, PartsRead DEF Parts
        <4>6. QED
          BY <4>1, <4>4, <4>5 DEF Paired
      <3>3. QED
        BY <3>1, <3>2
    <2>10. CASE ParsePair
      <3>1. step = "queries" /\ step' = "queries" /\ message' = message
        BY <2>10 DEF ParsePair, InQuery, Go, clientVars
      <3>2. PICK n \in 0..Len(Parts) : Turned(n)
        BY <2>2, <3>1
      <3>3. PICK m \in 0..Len(Parts) : Turned(m)'
        BY <1>2, <2>1, <2>10, <3>2, TurnPaired
      <3>4. Parts' = Parts
        BY <3>1 DEF Parts
      <3>5. QED
        BY <3>1, <3>3, <3>4 DEF Paired
    <2>11. CASE EndQuery
      <3>1. /\ step = "queries" /\ step' = "body" /\ message' = message
            /\ queries' = queries /\ start > Len(message.query)
        BY <2>11 DEF EndQuery, Go, clientVars, reqVars
      <3>2. PICK n \in 0..Len(Parts) : Turned(n)
        BY <2>2, <3>1
      <3>3. queries = PairsIn(Parts)
        BY <1>2, <2>1, <3>1, <3>2, EndPaired
      <3>4. QED
        BY <3>1, <3>3 DEF Paired, Parts
    <2>12. CASE ParseBody
      <3>1. CASE step' = "failed"
        BY <2>4, <2>12, <3>1 DEF ParseBody, Fail, Go, clientVars
      <3>2. CASE step' # "failed"
        <4>1. /\ step = "body" /\ step' = "handled" /\ message' = message
              /\ queries' = queries
          BY <2>12, <3>2 DEF ParseBody, Fail, Go, clientVars, reqVars
        <4>2. QED
          BY <2>2, <4>1 DEF Paired, Parts
      <3>3. QED
        BY <3>1, <3>2
    <2>13. CASE Pause \/ Sweep
      <3>1. /\ message' = message /\ start' = start /\ queries' = queries
            /\ step = "reading" /\ step' \in {"reading", "closed"}
        BY <2>13 DEF Pause, Sweep, clientVars, reqVars
      <3>2. QED
        BY <2>4, <2>5, <3>1
    <2>14. QED
      BY <2>13, <2>6, <2>7, <2>8, <2>9, <2>10, <2>11, <2>12 DEF Next, Work
  <1>3. QED
    BY <1>1, <1>2

-----------------------------------------------------------------------------
(* The theorems                                                            *)

(* The variables have their types; what has been read is the beginning of  *)
(* what was sent, and the loop over the query stays in it                  *)
(* (connection.cpp:68-90, server.cpp:368-387).                             *)
THEOREM TypeCorrect == Spec => []TypeOK
  BY Invariance, TypeStep, PTL

(* A handler gets the whole body of a request that announces its length    *)
(* honestly and a type that makeRequest knows, and behind it at most what  *)
(* the client sent behind it; of another type it gets none                 *)
(* (helpers/request.cpp:28, server.cpp:196, 403-459).                      *)
THEOREM WholeBody == Spec => []BodyIsWhole
  BY Invariance, BodyStep, PTL

(* The length a handler sees is the one the event loop waited for, though  *)
(* one of them reads it as an int and the other modulo 2^w                 *)
(* (helpers/request.cpp:16-22, server.cpp:346-349).                        *)
THEOREM SameLength == Spec => []LengthsAgree
  BY Invariance, LengthsStep, PTL

(* The handler finds each key of a well-formed query, decoded, with the    *)
(* value that was given to it last, and no other (server.cpp:368-387).     *)
THEOREM RightPairs == Spec => []PairsRight
  <1>1. Init => Paired
    BY InitPaired
  <1>2. IInv /\ Paired /\ [Next]_vars => Paired'
    BY StepPaired DEF IInv
  <1>3. Paired => PairsRight
    BY DEF Paired, PairsRight, Parts
  <1>4. QED
    BY <1>1, <1>2, <1>3, Invariance, PTL DEF Spec

=============================================================================
