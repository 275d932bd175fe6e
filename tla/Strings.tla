-------------------------------- MODULE Strings --------------------------------
(***************************************************************************)
(* What the program does to texts with std::string and brewtils::string.   *)
(* A text is a sequence of strings, each standing for a letter or for a    *)
(* word that nothing takes apart; numerals are binary.                     *)
(***************************************************************************)
EXTENDS Integers, Sequences, SequencesExt, FiniteSets

Blank == " "

(* How many of the first characters are among chars.                       *)
LeadingIn(chars, s) ==
  CHOOSE n \in 0..Len(s) :
    /\ \A i \in 1..n : s[i] \in chars
    /\ n = Len(s) \/ s[n + 1] \notin chars

(* brewtils::string::trim                                                  *)
Trim(s) ==
  LET first == LeadingIn({Blank}, s) + 1
      last == Len(s) - LeadingIn({Blank}, Reverse(s))
  IN  SubSeq(s, first, last)

(* Where a text is cut; its two ends count as cuts.                        *)
Cuts(s, c) == {0, Len(s) + 1} \cup {i \in 1..Len(s) : s[i] = c}

(* The n-th of these numbers in their order.                               *)
Below(places, i) == Cardinality({j \in places : j < i})
Nth(places, n) == CHOOSE i \in places : Below(places, i) = n - 1

(* brewtils::string::split: as many parts as separators and one more, so   *)
(* that "bytes=0-1" has two parts at "bytes=", as getRange wants it.       *)
Split(s, c) ==
  LET cuts == Cuts(s, c)
  IN  [n \in 1..Cardinality(cuts) - 1 |->
         SubSeq(s, Nth(cuts, n) + 1, Nth(cuts, n + 1) - 1)]

(* What is left of a text when its leading blanks are skipped.             *)
Unblanked(s) == SubSeq(s, LeadingIn({Blank}, s) + 1, Len(s))

(* The number that is written in these digits.                             *)
Binary(digits) ==
  LET upTo[i \in 0..Len(digits)] ==
        IF i = 0 THEN 0
        ELSE 2 * upTo[i - 1] + (IF digits[i] = "1" THEN 1 ELSE 0)
  IN  upTo[Len(digits)]

(* What std::stoi and its kind read: spaces, a sign, digits up to the      *)
(* first character that is none.                                           *)
ReadNumeral(s) ==
  LET signed == Unblanked(s)
      negative == IsPrefix(<<"-">>, signed)
      unsigned == IF negative THEN Tail(signed) ELSE signed
      digits == SubSeq(unsigned, 1, LeadingIn({"0", "1"}, unsigned))
  IN  [found |-> digits # <<>>,
       size |-> Binary(digits),
       value |-> IF negative THEN -Binary(digits) ELSE Binary(digits)]

=============================================================================
