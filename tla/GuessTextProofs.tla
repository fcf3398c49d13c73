-------------------------- MODULE GuessTextProofs --------------------------
(***************************************************************************)
(* Theorems about the texts: what is written is read again, whatever the   *)
(* numbers and the payload, and guesses score what the rules say.          *)
(*                                                                         *)
(* The module proves what its recursive functions compute.  It takes       *)
(* induction from the fact that < is well-founded on Nat, stated for sets  *)
(* of numbers: what is to be shown of every number is shown of the set of  *)
(* the numbers of which it holds.                                          *)
(***************************************************************************)
EXTENDS GuessText, FiniteSetTheorems, SequenceTheorems, TLAPS

(***************************************************************************)
(* Induction over numbers and the functions it defines.                    *)
(***************************************************************************)

\* A set of numbers has a least one.
LEMMA Least ==
  ASSUME NEW T, T \subseteq Nat, T # {}
  PROVE  \E x \in T : \A y \in T : x <= y
<1> DEFINE R == OpToRel(<, Nat)
<1>1. IsWellFoundedOn(R, Nat)
  BY NatLessThanWellFounded
<1>2. PICK x \in T : \A y \in T : <<y, x>> \notin R
  <2> HIDE DEF R
  <2> QED
    BY <1>1, WFMin
<1>3. ASSUME NEW y \in T PROVE x <= y
  <2>1. ~(y < x)
    BY <1>2 DEF OpToRel
  <2> QED
    BY <2>1
<1> QED
  BY <1>2, <1>3

\* Induction: from all smaller numbers to the next one.
LEMMA Induction ==
  ASSUME NEW T, \A n \in Nat : (\A m \in 0 .. n - 1 : m \in T) => n \in T
  PROVE  \A n \in Nat : n \in T
<1> SUFFICES ASSUME Nat \ T # {} PROVE FALSE
  OBVIOUS
<1>1. PICK n \in Nat \ T : \A m \in Nat \ T : n <= m
  BY Least
<1>2. \A m \in 0 .. n - 1 : m \in T
  BY <1>1
<1> QED
  BY <1>1, <1>2

\* Induction up to a bound, one step at a time.
LEMMA StepInduction ==
  ASSUME NEW n \in Nat, NEW T, 0 \in T, \A i \in 1 .. n : i - 1 \in T => i \in T
  PROVE  \A i \in 0 .. n : i \in T
<1> DEFINE U == T \cup {i \in Nat : i > n}
<1>1. ASSUME NEW i \in Nat, \A m \in 0 .. i - 1 : m \in U PROVE i \in U
  <2>1. CASE i = 0 \/ i > n
    BY <2>1
  <2>2. CASE i \in 1 .. n
    <3>1. i - 1 \in T
      BY <1>1, <2>2
    <3> QED
      BY <2>2, <3>1
  <2> QED
    BY <2>1, <2>2
<1> HIDE DEF U
<1>2. \A i \in Nat : i \in U
  BY <1>1, Induction
<1> QED
  BY <1>2 DEF U

\* f has the values of a loop of n rounds, whose body is step.
LoopRun(f, x0, step, n) == f[0] = x0 /\ \A i \in 1 .. n : f[i] = step[<<f[i - 1], i>>]

\* A loop whose body is a function of the value before it has a run.
LEMMA LoopRuns ==
  ASSUME NEW n \in Nat, NEW X, NEW x0 \in X, NEW step \in [X \X (1 .. n) -> X]
  PROVE  \E f \in [0 .. n -> X] : LoopRun(f, x0, step, n)
<1> DEFINE T == {k \in 0 .. n : \E f \in [0 .. k -> X] : LoopRun(f, x0, step, k)}
<1>1. 0 \in T
  <2> DEFINE f == [i \in 0 .. 0 |-> x0]
  <2>1. f \in [0 .. 0 -> X] /\ f[0] = x0 /\ 1 .. 0 = {}
    OBVIOUS
  <2>2. LoopRun(f, x0, step, 0)
    BY <2>1 DEF LoopRun
  <2> HIDE DEF f
  <2> QED
    BY <2>1, <2>2
<1>2. ASSUME NEW k \in 1 .. n, k - 1 \in T PROVE k \in T
  <2>1. PICK f \in [0 .. k - 1 -> X] : LoopRun(f, x0, step, k - 1)
    BY <1>2
  <2> DEFINE g == [i \in 0 .. k |-> IF i = k THEN step[<<f[k - 1], k>>] ELSE f[i]]
  <2>2. k - 1 \in 0 .. k - 1 /\ <<f[k - 1], k>> \in X \X (1 .. n)
    OBVIOUS
  <2>3. g \in [0 .. k -> X]
    BY <2>2
  <2>4. LoopRun(g, x0, step, k)
    <3>1. g[0] = x0
      BY <2>1 DEF LoopRun
    <3>2. ASSUME NEW i \in 1 .. k PROVE g[i] = step[<<g[i - 1], i>>]
      <4>1. CASE i = k
        <5>1. g[k] = step[<<f[k - 1], k>>] /\ g[k - 1] = f[k - 1]
          BY <2>2
        <5> QED
          BY <4>1, <5>1
      <4>2. CASE i # k
        <5>1. i \in 1 .. k - 1 /\ i - 1 \in 0 .. k - 1 /\ i - 1 # k
          BY <4>2
        <5>2. g[i] = f[i] /\ g[i - 1] = f[i - 1]
          BY <5>1
        <5> QED
          BY <2>1, <5>1, <5>2 DEF LoopRun
      <4> QED
        BY <4>1, <4>2
    <3> QED
      BY <3>1, <3>2 DEF LoopRun
  <2> HIDE DEF g
  <2> QED
    BY <2>3, <2>4
<1> HIDE DEF T
<1>3. n \in T
  BY <1>1, <1>2, StepInduction
<1> QED
  BY <1>3 DEF T
-----------------------------------------------------------------------------
(***************************************************************************)
(* Scores.                                                                 *)
(***************************************************************************)

\* The first n places in which a secret and a guess agree, and those of the first n
\* whose digit is elsewhere in the guess.
BullsAt(s, w, n) == {i \in 1 .. n : s[i] = w[i]}
CowsAt(s, w, n) == {i \in 1 .. n : s[i] # w[i] /\ \E j \in DOMAIN w : s[i] = w[j]}

ScoreOf(s, w, n) ==
  [bulls |-> Cardinality(BullsAt(s, w, n)), cows |-> Cardinality(CowsAt(s, w, n))]

\* The places up to n are finitely many.
LEMMA PlacesAreFinite ==
  ASSUME NEW s, NEW w, NEW n \in Nat
  PROVE  /\ IsFiniteSet(BullsAt(s, w, n)) /\ Cardinality(BullsAt(s, w, n)) \in 0 .. n
         /\ IsFiniteSet(CowsAt(s, w, n)) /\ Cardinality(CowsAt(s, w, n)) \in 0 .. n
<1>1. IsFiniteSet(1 .. n) /\ Cardinality(1 .. n) = n
  BY FS_Interval
<1>2. BullsAt(s, w, n) \in SUBSET (1 .. n) /\ CowsAt(s, w, n) \in SUBSET (1 .. n)
  BY DEF BullsAt, CowsAt
<1>3. ASSUME NEW S \in SUBSET (1 .. n)
      PROVE  IsFiniteSet(S) /\ Cardinality(S) \in 0 .. n
  <2>1. IsFiniteSet(S) /\ Cardinality(S) <= n
    BY <1>1, FS_Subset
  <2> QED
    BY <2>1, FS_CardinalityType
<1> QED
  BY <1>2, <1>3

\* One more place is a bull, a cow or neither.
LEMMA ScoreGrows ==
  ASSUME NEW s, NEW w, NEW n \in Nat, NEW i \in 1 .. n
  PROVE  ScoreOf(s, w, i) = addPlace(s, w, ScoreOf(s, w, i - 1), i)
<1>1. i - 1 \in Nat /\ i \notin 1 .. i - 1 /\ 1 .. i = (1 .. i - 1) \cup {i}
  OBVIOUS
<1>2. /\ IsFiniteSet(BullsAt(s, w, i - 1)) /\ IsFiniteSet(CowsAt(s, w, i - 1))
      /\ i \notin BullsAt(s, w, i - 1) /\ i \notin CowsAt(s, w, i - 1)
  <2>1. i \notin BullsAt(s, w, i - 1) /\ i \notin CowsAt(s, w, i - 1)
    BY <1>1 DEF BullsAt, CowsAt
  <2> QED
    BY <1>1, <2>1, PlacesAreFinite
<1>3. CASE s[i] = w[i]
  <2>1. /\ BullsAt(s, w, i) = BullsAt(s, w, i - 1) \cup {i}
        /\ CowsAt(s, w, i) = CowsAt(s, w, i - 1)
    BY <1>1, <1>3 DEF BullsAt, CowsAt
  <2>2. Cardinality(BullsAt(s, w, i)) = Cardinality(BullsAt(s, w, i - 1)) + 1
    BY <1>2, <2>1, FS_AddElement
  <2> QED
    BY <1>3, <2>1, <2>2 DEF ScoreOf, addPlace
<1>4. CASE s[i] # w[i] /\ \E j \in DOMAIN w : s[i] = w[j]
  <2>1. /\ BullsAt(s, w, i) = BullsAt(s, w, i - 1)
        /\ CowsAt(s, w, i) = CowsAt(s, w, i - 1) \cup {i}
    BY <1>1, <1>4 DEF BullsAt, CowsAt
  <2>2. Cardinality(CowsAt(s, w, i)) = Cardinality(CowsAt(s, w, i - 1)) + 1
    BY <1>2, <2>1, FS_AddElement
  <2> QED
    BY <1>4, <2>1, <2>2 DEF ScoreOf, addPlace
<1>5. CASE s[i] # w[i] /\ ~ \E j \in DOMAIN w : s[i] = w[j]
  <2>1. /\ BullsAt(s, w, i) = BullsAt(s, w, i - 1)
        /\ CowsAt(s, w, i) = CowsAt(s, w, i - 1)
    BY <1>1, <1>5 DEF BullsAt, CowsAt
  <2> QED
    BY <1>5, <2>1 DEF ScoreOf, addPlace
<1> QED
  BY <1>3, <1>4, <1>5

\* The loop of calculateBullsCows counts the bulls and the cows, for every secret and
\* every guess.
LEMMA ScoreIs ==
  ASSUME NEW s, NEW w, Len(s) \in Nat
  PROVE  calculateBullsCows(s, w) = ScoreOf(s, w, Len(s))
<1> PICK n \in Nat : n = Len(s)
  OBVIOUS
<1> DEFINE IsScore(g) ==
             g = [i \in 0 .. n |-> IF i = 0 THEN [bulls |-> 0, cows |-> 0]
                                   ELSE addPlace(s, w, g[i - 1], i)]
           tally == [i \in 0 .. n |-> ScoreOf(s, w, i)]
           score == CHOOSE g : IsScore(g)
           T == {i \in 0 .. n : score[i] = tally[i]}
<1>1. calculateBullsCows(s, w) = score[n]
  BY DEF calculateBullsCows
<1>2. ScoreOf(s, w, 0) = [bulls |-> 0, cows |-> 0]
  <2>1. BullsAt(s, w, 0) = {} /\ CowsAt(s, w, 0) = {}
    BY DEF BullsAt, CowsAt
  <2> QED
    BY <2>1, FS_EmptySet DEF ScoreOf
<1>3. IsScore(tally)
  <2>1. \A i \in 1 .. n : tally[i] = addPlace(s, w, tally[i - 1], i)
    <3>1. ASSUME NEW i \in 1 .. n PROVE tally[i] = addPlace(s, w, tally[i - 1], i)
      <4>1. i \in 0 .. n /\ i - 1 \in 0 .. n
        OBVIOUS
      <4>2. ScoreOf(s, w, i) = addPlace(s, w, ScoreOf(s, w, i - 1), i)
        BY ScoreGrows
      <4> QED
        BY <4>1, <4>2
    <3> QED
      BY <3>1
  <2>2. tally[0] = [bulls |-> 0, cows |-> 0]
    BY <1>2
  <2>3. tally = [i \in 0 .. n |-> tally[i]]
    OBVIOUS
  <2> HIDE DEF tally
  <2>4. \A i \in 0 .. n : tally[i] = IF i = 0 THEN [bulls |-> 0, cows |-> 0]
                                     ELSE addPlace(s, w, tally[i - 1], i)
    BY <2>1, <2>2
  <2> QED
    BY <2>3, <2>4
<1>4. IsScore(score)
  <2> HIDE DEF IsScore, tally
  <2> QED
    BY <1>3, Zenon
<1> HIDE DEF score
<1>5. score[0] = [bulls |-> 0, cows |-> 0]
      /\ \A i \in 1 .. n : score[i] = addPlace(s, w, score[i - 1], i)
  BY <1>4
<1> HIDE DEF IsScore
<1>6. 0 \in T
  BY <1>2, <1>5
<1>7. ASSUME NEW i \in 1 .. n, i - 1 \in T PROVE i \in T
  <2>1. score[i - 1] = ScoreOf(s, w, i - 1)
    BY <1>7
  <2>2. score[i] = addPlace(s, w, score[i - 1], i)
    BY <1>5
  <2>3. score[i] = ScoreOf(s, w, i)
    BY <2>1, <2>2, ScoreGrows
  <2> QED
    BY <2>3
<1> HIDE DEF T
<1>8. \A i \in 0 .. n : i \in T
  BY <1>6, <1>7, StepInduction
<1>9. n \in T
  BY <1>8
<1> QED
  BY <1>1, <1>9 DEF T

\* Words of four bytes are sequences.
LEMMA WordsAreTexts ==
  ASSUME NEW S, NEW word \in [1 .. Length -> S]
  PROVE  word \in Seq(S) /\ Len(word) = Length /\ DOMAIN word = 1 .. Length
<1>1. Length \in Nat
  BY DEF Length
<1>2. word \in Seq(S)
  BY <1>1, SeqDef
<1>3. 1 .. Len(word) = 1 .. Length /\ Len(word) \in Nat
  BY <1>2, LenProperties
<1> QED
  BY <1>1, <1>2, <1>3

\* The words that are taken for guesses are the codes.
LEMMA WellFormedWords ==
  ASSUME NEW S, NEW word \in [1 .. Length -> S]
  PROVE  wellFormed(word) <=> word \in Codes
<1>1. Len(word) = Length /\ DOMAIN word = 1 .. Length
  BY WordsAreTexts
<1>2. ASSUME wellFormed(word) PROVE word \in Codes
  <2>1. \A i \in 1 .. Length :
          word[i] \in DigitByte /\ \A j \in 1 .. i - 1 : word[i] # word[j]
    BY <1>2 DEF wellFormed
  <2>2. ASSUME NEW i \in 1 .. Length, NEW j \in 1 .. Length, word[i] = word[j]
        PROVE  i = j
    <3>1. CASE i < j
      <4>1. i \in 1 .. j - 1
        BY <3>1 DEF Length
      <4> QED
        BY <2>1, <2>2, <4>1
    <3>2. CASE j < i
      <4>1. j \in 1 .. i - 1
        BY <3>2 DEF Length
      <4> QED
        BY <2>1, <2>2, <4>1
    <3> QED
      BY <3>1, <3>2 DEF Length
  <2> QED
    BY <1>1, <2>1, <2>2 DEF Codes, distinct
<1>3. ASSUME word \in Codes PROVE wellFormed(word)
  <2>1. ASSUME NEW i \in 1 .. Length
        PROVE  word[i] \in DigitByte /\ word[i] \notin {word[j] : j \in 1 .. i - 1}
    <3>1. word[i] \in DigitByte
      BY <1>3 DEF Codes
    <3>2. ASSUME NEW j \in 1 .. i - 1 PROVE word[i] # word[j]
      <4>1. j \in 1 .. Length /\ j # i
        BY DEF Length
      <4> QED
        BY <1>1, <1>3, <4>1 DEF Codes, distinct
    <3> QED
      BY <3>1, <3>2
  <2> QED
    BY <1>1, <2>1 DEF wellFormed
<1> QED
  BY <1>2, <1>3

\* Bulls and cows together are the digits that a code and a guess share.
LEMMA SharedDigits ==
  ASSUME NEW s \in Codes, NEW w \in Codes
  PROVE  Cardinality(ToSet(w) \cap ToSet(s)) =
           Cardinality(BullsAt(s, w, Length)) + Cardinality(CowsAt(s, w, Length))
<1> DEFINE B == BullsAt(s, w, Length)
           C == CowsAt(s, w, Length)
           V == ToSet(w) \cap ToSet(s)
           f == [i \in B \cup C |-> s[i]]
<1>1. /\ DOMAIN s = 1 .. Length /\ DOMAIN w = 1 .. Length
      /\ \A i, j \in 1 .. Length : s[i] = s[j] => i = j
  BY DEF Codes, distinct
<1>2. B \cup C = {i \in 1 .. Length : \E j \in 1 .. Length : s[i] = w[j]}
  BY <1>1 DEF BullsAt, CowsAt
<1>3. V = {s[i] : i \in B \cup C}
  BY <1>1, <1>2 DEF ToSet
<1>4. B \cap C = {} /\ Length \in Nat
  BY DEF BullsAt, CowsAt, Length
<1>5. IsFiniteSet(B) /\ IsFiniteSet(C) /\ Cardinality(B) \in Nat /\ Cardinality(C) \in Nat
  BY <1>4, PlacesAreFinite
<1> HIDE DEF B, C, V
<1>6. IsFiniteSet(B \cup C) /\ Cardinality(B \cup C) = Cardinality(B) + Cardinality(C)
  <2>1. /\ IsFiniteSet(B \cup C)
        /\ Cardinality(B \cup C) = Cardinality(B) + Cardinality(C) - Cardinality(B \cap C)
    BY <1>5, FS_Union
  <2>2. Cardinality(B \cap C) = 0
    BY <1>4, FS_EmptySet
  <2> QED
    BY <1>5, <2>1, <2>2
<1>7. f \in Bijection(B \cup C, V)
  <2>1. f \in [B \cup C -> V]
    BY <1>3
  <2>2. \A i, j \in B \cup C : f[i] = f[j] => i = j
    BY <1>1, <1>2
  <2>3. \A v \in V : \E i \in B \cup C : f[i] = v
    BY <1>3
  <2> HIDE DEF f
  <2> QED
    BY <2>1, <2>2, <2>3 DEF Bijection, Injection, Surjection, IsInjective
<1>8. Cardinality(V) = Cardinality(B \cup C)
  BY <1>6, <1>7, FS_Bijection DEF ExistsBijection
<1> QED
  BY <1>6, <1>8 DEF B, C, V

\* The score of a code is what the rules say; it is four bulls for the secret alone.
LEMMA CodeScores ==
  ASSUME secret \in Codes, NEW word \in Codes
  PROVE  /\ calculateBullsCows(secret, word) = reference(word)
         /\ calculateBullsCows(secret, word).bulls = Length <=> word = secret
<1> DEFINE B == BullsAt(secret, word, Length)
           C == CowsAt(secret, word, Length)
<1>1. /\ secret \in [1 .. Length -> DigitByte] /\ word \in [1 .. Length -> DigitByte]
      /\ Length \in Nat
  BY DEF Codes, Length
<1>2. Len(secret) = Length
  BY <1>1, WordsAreTexts
<1>3. calculateBullsCows(secret, word) = [bulls |-> Cardinality(B), cows |-> Cardinality(C)]
  BY <1>1, <1>2, ScoreIs DEF ScoreOf
<1>4. Cardinality(B) \in 0 .. Length /\ Cardinality(C) \in 0 .. Length
  BY <1>1, PlacesAreFinite
<1>5. B = {i \in 1 .. Length : word[i] = secret[i]}
  BY DEF BullsAt
<1>6. Cardinality(C) = Cardinality(ToSet(word) \cap ToSet(secret)) - Cardinality(B)
  <2>1. Cardinality(ToSet(word) \cap ToSet(secret)) = Cardinality(B) + Cardinality(C)
    BY SharedDigits
  <2> HIDE DEF B, C
  <2> QED
    BY <1>1, <1>4, <2>1
<1>7. Cardinality(B) = Length <=> word = secret
  <2>1. B \in SUBSET (1 .. Length)
    BY DEF BullsAt
  <2>2. IsFiniteSet(1 .. Length) /\ Cardinality(1 .. Length) = Length
    BY <1>1, FS_Interval
  <2>3. Cardinality(B) = Length <=> B = 1 .. Length
    BY <2>1, <2>2, FS_Subset
  <2>4. B = 1 .. Length <=> \A i \in 1 .. Length : word[i] = secret[i]
    BY <1>5
  <2> QED
    BY <1>1, <2>3, <2>4
<1> HIDE DEF B, C
<1>8. reference(word) = [bulls |-> Cardinality(B),
                         cows |-> Cardinality(ToSet(word) \cap ToSet(secret))
                                    - Cardinality(B)]
  BY <1>5 DEF reference
<1> QED
  BY <1>3, <1>6, <1>7, <1>8

\* A secret is a code without a leading zero, whatever the shuffle.
LEMMA SecretIsCode ==
  ASSUME NEW digits \in Shuffled
  PROVE  generateSecretNumber(digits) \in Codes /\ generateSecretNumber(digits)[1] # Zero
<1>1. /\ digits \in Seq(DigitByte) /\ Len(digits) \in Nat /\ Len(digits) >= 4
      /\ \A i \in 1 .. Len(digits) : digits[i] \in DigitByte
      /\ \A i, j \in 1 .. Len(digits) : digits[i] = digits[j] => i = j
  BY GuessTextAssumption DEF Length, distinct
<1> DEFINE t == IF digits[1] = Zero THEN swap(digits, 1, 2) ELSE digits
<1>2. /\ \A i \in 1 .. 4 : t[i] \in DigitByte
      /\ \A i, j \in 1 .. 4 : t[i] = t[j] => i = j
      /\ t[1] # Zero
  <2>1. CASE digits[1] = Zero
    <3>1. \A i \in 1 .. 4 : t[i] = IF i = 1 THEN digits[2]
                                  ELSE IF i = 2 THEN digits[1] ELSE digits[i]
      BY <1>1, <2>1 DEF swap
    <3> HIDE DEF t
    <3> QED
      BY <1>1, <2>1, <3>1
  <2>2. CASE digits[1] # Zero
    BY <1>1, <2>2
  <2> QED
    BY <2>1, <2>2
<1>3. generateSecretNumber(digits) = SubSeq(t, 1, 4)
  BY DEF generateSecretNumber, Length
<1> HIDE DEF t
<1> DEFINE u == SubSeq(t, 1, 4)
<1>4. u \in Seq(DigitByte) /\ Len(u) = 4 /\ \A i \in 1 .. 4 : u[i] = t[i]
  <2>1. 4 - 1 + 1 = 4 /\ \A i \in 1 .. 4 : 1 + i - 1 = i
    OBVIOUS
  <2> QED
    BY <1>2, <2>1, SubSeqProperties
<1> HIDE DEF u
<1>5. u \in [1 .. 4 -> DigitByte] /\ DOMAIN u = 1 .. 4
  BY <1>4, LenProperties
<1>6. u \in Codes /\ u[1] # Zero
  BY <1>2, <1>4, <1>5 DEF Codes, distinct, Length
<1> QED
  BY <1>3, <1>6 DEF u
-----------------------------------------------------------------------------
(***************************************************************************)
(* Numbers.                                                                *)
(***************************************************************************)

Digits == ToSet(Digit)

\* The digits are bytes, neither the space nor NUL, and stand for the numbers up to nine.
LEMMA DigitFacts ==
  /\ \A n \in 0 .. 9 : Digit[n + 1] \in Digits /\ value(Digit[n + 1]) = n
  /\ \A d \in Digits : d \in Byte /\ d # Space /\ d # Nul /\ value(d) \in 0 .. 9
<1>1. \A m, n \in 0 .. 9 : Digit[m + 1] = Digit[n + 1] => m = n
  BY DEF Digit
<1>2. Digits = {Digit[n + 1] : n \in 0 .. 9}
  <2>1. DOMAIN Digit = 1 .. 10
    BY DEF Digit
  <2>2. \A i \in 1 .. 10 : i - 1 \in 0 .. 9 /\ (i - 1) + 1 = i
    OBVIOUS
  <2> QED
    BY <2>1, <2>2 DEF Digits, ToSet
<1>3. \A n \in 0 .. 9 : value(Digit[n + 1]) = n
  BY <1>1 DEF value
<1>4. \A n \in 0 .. 9 : Digit[n + 1] # Space /\ Digit[n + 1] # Nul
  <2> DEFINE S == {"0", "1", "2", "3", "4", "5", "6", "7", "8", "9"}
  <2>1. \A n \in 0 .. 9 : Digit[n + 1] \in S
    BY DEF Digit
  <2>2. \A d \in S : d # " " /\ d # "NUL"
    OBVIOUS
  <2> QED
    BY <2>1, <2>2 DEF Space, Nul
<1>5. \A d \in Digits : d \in Byte
  BY WireAssumption DEF Digits
<1> QED
  BY <1>2, <1>3, <1>4, <1>5

\* f has the values of the loop of number over a run of digits.
Sums(f, run) ==
  f[0] = 0 /\ \A i \in 1 .. Len(run) : f[i] = 10 * f[i - 1] + value(run[i])

\* What number computes.
LEMMA NumberLoop ==
  ASSUME NEW run \in Seq(Digits)
  PROVE  \E f \in [0 .. Len(run) -> Nat] : Sums(f, run) /\ number(run) = f[Len(run)]
<1> PICK n \in Nat : n = Len(run)
  OBVIOUS
<1> DEFINE step == [xi \in Nat \X (1 .. n) |-> 10 * xi[1] + value(run[xi[2]])]
           IsNumber(g) ==
             g = [i \in 0 .. n |-> IF i = 0 THEN 0 ELSE 10 * g[i - 1] + value(run[i])]
           g == CHOOSE g : IsNumber(g)
<1>1. \A i \in 1 .. n : value(run[i]) \in Nat
  BY DigitFacts
<1>2. step \in [Nat \X (1 .. n) -> Nat]
  BY <1>1
<1>3. PICK f \in [0 .. n -> Nat] : LoopRun(f, 0, step, n)
  <2> HIDE DEF step
  <2> QED
    BY <1>2, LoopRuns
<1>4. Sums(f, run)
  <2>1. ASSUME NEW i \in 1 .. n PROVE f[i] = 10 * f[i - 1] + value(run[i])
    <3>1. f[i] = step[<<f[i - 1], i>>]
      <4> HIDE DEF step
      <4> QED
        BY <1>3 DEF LoopRun
    <3>2. f[i - 1] \in Nat
      OBVIOUS
    <3> QED
      BY <3>1, <3>2
  <2> QED
    BY <1>3, <2>1 DEF Sums, LoopRun
<1> HIDE DEF step
<1>5. IsNumber(f)
  <2>1. \A i \in 0 .. n : f[i] = IF i = 0 THEN 0 ELSE 10 * f[i - 1] + value(run[i])
    BY <1>4 DEF Sums
  <2> QED
    BY <2>1
<1>6. IsNumber(g)
  <2> HIDE DEF IsNumber
  <2> QED
    BY <1>5, Zenon
<1>7. number(run) = g[n]
  BY DEF number
<1> HIDE DEF g
<1>8. g[0] = 0 /\ \A i \in 1 .. n : g[i] = 10 * g[i - 1] + value(run[i])
  BY <1>6
<1> HIDE DEF IsNumber
<1> DEFINE T == {i \in 0 .. n : g[i] = f[i]}
<1>9. 0 \in T
  BY <1>4, <1>8 DEF Sums
<1>10. ASSUME NEW i \in 1 .. n, i - 1 \in T PROVE i \in T
  <2>1. g[i] = 10 * g[i - 1] + value(run[i]) /\ f[i] = 10 * f[i - 1] + value(run[i])
    BY <1>4, <1>8 DEF Sums
  <2> QED
    BY <1>10, <2>1
<1> HIDE DEF T
<1>11. \A i \in 0 .. n : i \in T
  BY <1>9, <1>10, StepInduction
<1>12. g[n] = f[n]
  BY <1>11 DEF T
<1> QED
  BY <1>3, <1>4, <1>7, <1>12

\* The number of a run is its digits' one after another, ten times what was there before.
LEMMA NumberStep ==
  ASSUME NEW run \in Seq(Digits), NEW d \in Digits
  PROVE  /\ number(<<>>) = 0 /\ number(run) \in Nat
         /\ number(Append(run, d)) = 10 * number(run) + value(d)
<1> DEFINE long == Append(run, d)
<1> PICK n \in Nat : n = Len(run)
  OBVIOUS
<1>1. /\ long \in Seq(Digits) /\ Len(long) = n + 1 /\ long[n + 1] = d
      /\ \A i \in 1 .. n : long[i] = run[i]
  BY AppendProperties
<1>2. PICK f \in [0 .. n -> Nat] : Sums(f, run) /\ number(run) = f[n]
  BY NumberLoop
<1>3. PICK g \in [0 .. n + 1 -> Nat] : Sums(g, long) /\ number(long) = g[n + 1]
  <2> HIDE DEF long
  <2> QED
    BY <1>1, NumberLoop
<1> DEFINE T == {i \in 0 .. n : f[i] = g[i]}
<1>4. 0 \in T
  BY <1>2, <1>3 DEF Sums
<1>5. ASSUME NEW i \in 1 .. n, i - 1 \in T PROVE i \in T
  <2>1. i \in 1 .. n + 1 /\ f[i - 1] = g[i - 1]
    BY <1>5
  <2> HIDE DEF long
  <2>2. f[i] = 10 * f[i - 1] + value(run[i])
    BY <1>2 DEF Sums
  <2>3. g[i] = 10 * g[i - 1] + value(long[i])
    BY <1>1, <1>3, <2>1 DEF Sums
  <2>4. long[i] = run[i]
    BY <1>1
  <2> QED
    BY <2>1, <2>2, <2>3, <2>4
<1> HIDE DEF long, T
<1>6. \A i \in 0 .. n : i \in T
  BY <1>4, <1>5, StepInduction
<1>7. f[n] = g[n]
  BY <1>6 DEF T
<1>8. g[n + 1] = 10 * g[n] + value(d)
  <2>1. n + 1 \in 1 .. n + 1 /\ n + 1 - 1 = n
    OBVIOUS
  <2>2. g[n + 1] = 10 * g[n + 1 - 1] + value(long[n + 1])
    BY <1>1, <1>3, <2>1 DEF Sums
  <2> QED
    BY <1>1, <2>1, <2>2
<1>9. number(<<>>) = 0
  <2>1. <<>> \in Seq(Digits) /\ Len(<<>>) = 0
    OBVIOUS
  <2>2. \E h \in [0 .. 0 -> Nat] : Sums(h, <<>>) /\ number(<<>>) = h[0]
    BY <2>1, NumberLoop
  <2> QED
    BY <2>2 DEF Sums
<1> QED
  BY <1>2, <1>3, <1>7, <1>8, <1>9 DEF long

\* A last digit is a digit, and the number before it is smaller.
LEMMA LastDigit ==
  ASSUME NEW n \in Nat
  PROVE  /\ n \div 10 \in Nat /\ n % 10 \in 0 .. 9 /\ n = 10 * (n \div 10) + (n % 10)
         /\ n >= 10 => n \div 10 \in 0 .. n - 1
  OBVIOUS

\* f is the decimal of every number up to n.
Decimals(f, n) ==
  f = [k \in 0 .. n |-> IF k < 10 THEN <<Digit[k + 1]>>
                        ELSE Append(f[k \div 10], Digit[(k % 10) + 1])]

\* Two decimals of different lengths agree where both are defined.
LEMMA DecimalsAgree ==
  ASSUME NEW m \in Nat, NEW n \in Nat, NEW f, NEW g, Decimals(f, m), Decimals(g, n)
  PROVE  \A k \in 0 .. m : k <= n => f[k] = g[k]
<1> DEFINE T == {k \in Nat : k <= m /\ k <= n => f[k] = g[k]}
<1>1. /\ \A k \in 0 .. m : f[k] = IF k < 10 THEN <<Digit[k + 1]>>
                                ELSE Append(f[k \div 10], Digit[(k % 10) + 1])
      /\ \A k \in 0 .. n : g[k] = IF k < 10 THEN <<Digit[k + 1]>>
                                ELSE Append(g[k \div 10], Digit[(k % 10) + 1])
  BY DEF Decimals
<1>2. ASSUME NEW k \in Nat, \A j \in 0 .. k - 1 : j \in T PROVE k \in T
  <2>1. CASE k <= m /\ k <= n /\ k >= 10
    <3>1. PICK j \in 0 .. k - 1 : j = k \div 10
      BY <2>1, LastDigit
    <3>2. f[j] = g[j]
      BY <1>2, <2>1, <3>1
    <3>3. k \in 0 .. m /\ k \in 0 .. n /\ ~(k < 10)
      BY <2>1
    <3>4. /\ f[k] = Append(f[j], Digit[(k % 10) + 1])
          /\ g[k] = Append(g[j], Digit[(k % 10) + 1])
      BY <1>1, <3>1, <3>3
    <3> QED
      BY <3>2, <3>4
  <2>2. CASE k <= m /\ k <= n /\ k < 10
    <3>1. k \in 0 .. m /\ k \in 0 .. n
      BY <2>2
    <3>2. f[k] = <<Digit[k + 1]>> /\ g[k] = <<Digit[k + 1]>>
      BY <1>1, <2>2, <3>1
    <3> QED
      BY <3>2
  <2> QED
    BY <2>1, <2>2
<1> HIDE DEF T
<1>3. \A k \in Nat : k \in T
  BY <1>2, Induction
<1> QED
  BY <1>3 DEF T

\* There are decimals up to every number.
LEMMA DecimalsExist == \A n \in Nat : \E f : Decimals(f, n)
<1> DEFINE T == {n \in Nat : \E f : Decimals(f, n)}
<1>1. ASSUME NEW n \in Nat, \A k \in 0 .. n - 1 : k \in T PROVE n \in T
  <2> DEFINE digit(k) == Digit[(k % 10) + 1]
             next(h, k) == IF k < 10 THEN <<Digit[k + 1]>> ELSE Append(h[k \div 10], digit(k))
  <2>1. CASE n = 0
    <3> DEFINE f == [k \in 0 .. n |-> <<Digit[k + 1]>>]
    <3>1. \A k \in 0 .. n : k < 10
      BY <2>1
    <3>2. Decimals(f, n)
      BY <3>1 DEF Decimals
    <3> HIDE DEF f
    <3> QED
      BY <3>2
  <2>2. CASE n # 0
    <3>1. n - 1 \in 0 .. n - 1
      BY <2>2
    <3>2. PICK f : Decimals(f, n - 1)
      BY <1>1, <3>1
    <3>3. \A k \in 0 .. n - 1 : f[k] = next(f, k)
      BY <3>2 DEF Decimals
    <3> DEFINE g == [k \in 0 .. n |-> IF k = n THEN next(f, n) ELSE f[k]]
    <3>4. \A k \in 0 .. n - 1 : g[k] = f[k]
      OBVIOUS
    <3>5. g[n] = next(f, n) /\ g = [k \in 0 .. n |-> g[k]]
      OBVIOUS
    <3> HIDE DEF g
    <3>6. ASSUME NEW k \in 0 .. n PROVE g[k] = next(g, k)
      <4>1. k >= 10 => g[k \div 10] = f[k \div 10]
        <5>1. k >= 10 => k \div 10 \in 0 .. k - 1
          BY LastDigit
        <5> PICK j : j = k \div 10
          OBVIOUS
        <5> QED
          BY <3>4, <5>1
      <4> HIDE DEF digit
      <4>2. next(g, k) = next(f, k)
        BY <4>1
      <4>3. g[k] = next(f, k)
        <5> HIDE DEF next
        <5>1. CASE k = n
          BY <3>5, <5>1
        <5>2. CASE k # n
          <6>1. k \in 0 .. n - 1
            BY <5>2
          <6> QED
            BY <3>3, <3>4, <6>1
        <5> QED
          BY <5>1, <5>2
      <4> QED
        BY <4>2, <4>3
    <3>7. Decimals(g, n)
      BY <3>5, <3>6 DEF Decimals
    <3> QED
      BY <3>7
  <2> QED
    BY <2>1, <2>2
<1> HIDE DEF T
<1>2. \A n \in Nat : n \in T
  BY <1>1, Induction
<1> QED
  BY <1>2 DEF T

\* The recursive definition of decimal has a solution, and decimal is one.
LEMMA DecimalIs ==
  ASSUME NEW n \in Nat
  PROVE  decimal[n] = IF n < 10 THEN <<Digit[n + 1]>>
                      ELSE Append(decimal[n \div 10], Digit[(n % 10) + 1])
<1> DEFINE IsDecimal(g) ==
             g = [k \in Nat |-> IF k < 10 THEN <<Digit[k + 1]>>
                                ELSE Append(g[k \div 10], Digit[(k % 10) + 1])]
           upTo(k) == CHOOSE f : Decimals(f, k)
           F == [k \in Nat |-> upTo(k)[k]]
<1>1. \A k \in Nat : Decimals(upTo(k), k)
  BY DecimalsExist
<1> HIDE DEF upTo
<1>2. ASSUME NEW k \in Nat
      PROVE  F[k] = IF k < 10 THEN <<Digit[k + 1]>>
                    ELSE Append(F[k \div 10], Digit[(k % 10) + 1])
  <2>1. upTo(k)[k] = IF k < 10 THEN <<Digit[k + 1]>>
                     ELSE Append(upTo(k)[k \div 10], Digit[(k % 10) + 1])
    <3>1. Decimals(upTo(k), k) /\ k \in 0 .. k
      BY <1>1
    <3> QED
      BY <3>1 DEF Decimals
  <2>2. CASE k >= 10
    <3>1. PICK j \in 0 .. k - 1 : j = k \div 10
      BY <2>2, LastDigit
    <3>2. j \in Nat /\ j \in 0 .. j /\ j <= k
      OBVIOUS
    <3>3. Decimals(upTo(j), j) /\ Decimals(upTo(k), k)
      BY <1>1, <3>2
    <3>4. upTo(j)[j] = upTo(k)[j]
      BY <3>2, <3>3, DecimalsAgree
    <3>5. F[j] = upTo(j)[j] /\ F[k] = upTo(k)[k]
      BY <3>2
    <3> HIDE DEF F
    <3>6. upTo(k)[k] = Append(upTo(k)[j], Digit[(k % 10) + 1])
      BY <2>1, <2>2, <3>1
    <3>7. F[k] = Append(F[j], Digit[(k % 10) + 1])
      BY <3>4, <3>5, <3>6
    <3> QED
      BY <2>2, <3>1, <3>7
  <2>3. CASE k < 10
    BY <2>1, <2>3
  <2> QED
    BY <2>2, <2>3
<1>3. F = [k \in Nat |-> F[k]]
  OBVIOUS
<1> HIDE DEF F
<1>4. IsDecimal(F)
  BY <1>2, <1>3
<1>5. IsDecimal(CHOOSE g : IsDecimal(g))
  <2> HIDE DEF IsDecimal
  <2> QED
    BY <1>4, Zenon
<1>6. decimal = CHOOSE g : IsDecimal(g)
  BY DEF decimal
<1>7. IsDecimal(decimal)
  <2> HIDE DEF IsDecimal
  <2> QED
    BY <1>5, <1>6, Zenon
<1> QED
  BY <1>7

\* A decimal is a run of digits, and its number is the one that was written.
LEMMA DecimalReads ==
  \A n \in Nat : /\ decimal[n] \in Seq(Digits) /\ decimal[n] # <<>>
                 /\ number(decimal[n]) = n
<1> DEFINE reads(n) == /\ decimal[n] \in Seq(Digits) /\ decimal[n] # <<>>
                       /\ number(decimal[n]) = n
           T == {n \in Nat : reads(n)}
<1>1. ASSUME NEW n \in Nat, \A k \in 0 .. n - 1 : k \in T PROVE n \in T
  <2>1. CASE n < 10
    <3>1. Digit[n + 1] \in Digits /\ value(Digit[n + 1]) = n
      BY <2>1, DigitFacts
    <3>2. decimal[n] = Append(<<>>, Digit[n + 1])
      <4>1. decimal[n] = <<Digit[n + 1]>>
        BY <2>1, DecimalIs
      <4> HIDE DEF T
      <4> QED
        BY <4>1
    <3>3. <<>> \in Seq(Digits)
      OBVIOUS
    <3>4. number(decimal[n]) = n
      <4>1. number(<<>>) = 0
        BY <3>1, <3>3, NumberStep
      <4>2. number(decimal[n]) = 10 * number(<<>>) + value(Digit[n + 1])
        BY <3>1, <3>2, <3>3, NumberStep
      <4> QED
        BY <3>1, <4>1, <4>2
    <3>5. decimal[n] \in Seq(Digits) /\ decimal[n] # <<>>
      BY <3>1, <3>2, <3>3, AppendProperties
    <3> QED
      BY <3>4, <3>5
  <2>2. CASE n >= 10
    <3>1. PICK k \in 0 .. n - 1 : k = n \div 10
      BY <2>2, LastDigit
    <3>2. PICK j \in 0 .. 9 : j = (n % 10) /\ n = 10 * k + j
      BY <3>1, LastDigit
    <3>3. reads(k)
      BY <1>1, <3>1
    <3>4. Digit[j + 1] \in Digits /\ value(Digit[j + 1]) = j
      BY DigitFacts
    <3>5. decimal[n] = Append(decimal[k], Digit[j + 1])
      <4>1. ~(n < 10)
        BY <2>2
      <4> QED
        BY <3>1, <3>2, <4>1, DecimalIs
    <3>6. number(decimal[n]) = 10 * k + j
      BY <3>3, <3>4, <3>5, NumberStep
    <3>7. decimal[n] \in Seq(Digits) /\ decimal[n] # <<>>
      BY <3>3, <3>4, <3>5, AppendProperties
    <3> QED
      BY <3>2, <3>6, <3>7
  <2> QED
    BY <2>1, <2>2
<1> HIDE DEF T
<1>2. \A n \in Nat : n \in T
  BY <1>1, Induction
<1> QED
  BY <1>2 DEF T
-----------------------------------------------------------------------------
(***************************************************************************)
(* Texts.                                                                  *)
(***************************************************************************)

\* A text of two parts.
LEMMA Parts ==
  ASSUME NEW S, NEW a \in Seq(S), NEW b \in Seq(S)
  PROVE  /\ a \o b \in Seq(S) /\ Len(a \o b) = Len(a) + Len(b)
         /\ \A i \in 1 .. Len(a) : (a \o b)[i] = a[i]
         /\ \A i \in 1 .. Len(b) : (a \o b)[Len(a) + i] = b[i]
         /\ SubSeq(a \o b, 1, Len(a)) = a
         /\ SubSeq(a \o b, Len(a) + 1, Len(a) + Len(b)) = b
<1> PICK s : s = a \o b
  OBVIOUS
<1> PICK m \in Nat : m = Len(a)
  OBVIOUS
<1> PICK n \in Nat : n = Len(b)
  OBVIOUS
<1>1. /\ s \in Seq(S) /\ Len(s) = m + n
      /\ \A i \in 1 .. m + n : s[i] = IF i <= m THEN a[i] ELSE b[i - m]
  BY ConcatProperties
<1>2. \A i \in 1 .. m + n : s[i] \in S
  BY <1>1, ElementOfSeq
<1>3. \A i \in 1 .. m : s[i] = a[i]
  BY <1>1
<1>4. \A i \in 1 .. n : s[m + i] = b[i]
  BY <1>1
<1>5. SubSeq(s, 1, m) = a
  <2>1. m - 1 + 1 = m /\ \A i \in 1 .. m : 1 + i - 1 = i /\ s[i] \in S
    BY <1>2
  <2>2. /\ SubSeq(s, 1, m) \in Seq(S) /\ Len(SubSeq(s, 1, m)) = IF 1 <= m THEN m ELSE 0
        /\ \A i \in 1 .. m : SubSeq(s, 1, m)[i] = s[i]
    BY <2>1, SubSeqProperties
  <2>3. Len(SubSeq(s, 1, m)) = m
    BY <2>2
  <2> QED
    BY <1>3, <2>2, <2>3, SeqEqual
<1>6. SubSeq(s, m + 1, m + n) = b
  <2> PICK c : c = SubSeq(s, m + 1, m + n)
    OBVIOUS
  <2>1. /\ m + n - (m + 1) + 1 = n /\ \A i \in 1 .. n : m + 1 + i - 1 = m + i
        /\ \A i \in m + 1 .. m + n : s[i] \in S
    BY <1>2
  <2>2. /\ c \in Seq(S) /\ Len(c) = IF m + 1 <= m + n THEN n ELSE 0
        /\ \A i \in 1 .. n : c[i] = s[m + i]
    BY <2>1, SubSeqProperties
  <2>3. Len(c) = n
    BY <2>2
  <2> QED
    BY <1>4, <2>2, <2>3, SeqEqual
<1> QED
  BY <1>1, <1>3, <1>4, <1>5, <1>6

\* The least element of a set.
LEMMA MinIs ==
  ASSUME NEW I, I \subseteq Nat, NEW x \in I, \A y \in I : x <= y
  PROVE  Min(I) = x
<1> DEFINE IsMin(z) == z \in I /\ \A y \in I : z <= y
<1>1. IsMin(x)
  OBVIOUS
<1>2. Min(I) = CHOOSE z : IsMin(z)
  BY Zenon DEF Min
<1>3. IsMin(Min(I))
  <2> HIDE DEF IsMin
  <2> QED
    BY <1>1, <1>2, Zenon
<1>4. Min(I) \in Nat /\ x \in Nat /\ Min(I) <= x /\ x <= Min(I)
  <2> HIDE DEF Min
  <2> QED
    BY <1>1, <1>3
<1> QED
  BY <1>4

\* Where the first byte of a set is.
LEMMA FirstIs ==
  ASSUME NEW text, NEW S, Len(text) \in Nat, NEW i \in 1 .. Len(text), text[i] \in S,
         \A j \in 1 .. i - 1 : text[j] \notin S
  PROVE  firstOf(text, S) = i
<1> DEFINE I == {j \in 1 .. Len(text) : text[j] \in S}
<1>1. i \in I /\ I \subseteq Nat
  OBVIOUS
<1>2. \A j \in I : i <= j
  OBVIOUS
<1>3. firstOf(text, S) = Min(I)
  BY <1>1 DEF firstOf, SelectInSeq
<1> HIDE DEF I
<1> QED
  BY <1>1, <1>2, <1>3, MinIs

\* There is none.
LEMMA NoneIs ==
  ASSUME NEW text, NEW S, Len(text) \in Nat, \A i \in 1 .. Len(text) : text[i] \notin S
  PROVE  firstOf(text, S) = 0
<1>1. {j \in 1 .. Len(text) : text[j] \in S} = {}
  OBVIOUS
<1> QED
  BY <1>1 DEF firstOf, SelectInSeq

\* The first bytes of a text, up to a place in it.
LEMMA FirstBytes ==
  ASSUME NEW y \in Seq(Byte), NEW k \in 1 .. Len(y)
  PROVE  LET z == SubSeq(y, 1, k - 1)
         IN  z \in Seq(Byte) /\ Len(z) = k - 1 /\ \A i \in 1 .. k - 1 : z[i] = y[i]
<1> PICK n \in Nat : n = Len(y)
  BY LenProperties
<1> PICK z : z = SubSeq(y, 1, k - 1)
  OBVIOUS
<1>1. k - 1 \in Int /\ k - 1 - 1 + 1 = k - 1 /\ \A i \in 1 .. k - 1 : 1 + i - 1 = i
  OBVIOUS
<1>2. \A i \in 1 .. k - 1 : y[i] \in Byte
  <2>1. \A i \in 1 .. k - 1 : i \in 1 .. n
    OBVIOUS
  <2> QED
    BY <2>1, ElementOfSeq
<1>3. /\ z \in Seq(Byte) /\ Len(z) = IF 1 <= k - 1 THEN k - 1 ELSE 0
      /\ \A i \in 1 .. k - 1 : z[i] = y[i]
  BY <1>1, <1>2, SubSeqProperties
<1>4. Len(z) = k - 1
  BY <1>3
<1> QED
  BY <1>3, <1>4

\* The bytes of a run of digits.
LEMMA RunsAreTexts ==
  /\ \A run \in Seq(Digits) :
       run \in Seq(Byte) /\ \A i \in 1 .. Len(run) : run[i] \in Digits
  /\ Space \in Byte /\ <<Space>> \in Seq(Byte) /\ Len(<<Space>>) = 1 /\ <<Space>>[1] = Space
<1>1. Digits \subseteq Byte /\ Space \in Byte
  BY WireAssumption DEF Digits
<1> QED
  BY <1>1

\* Spaces before the first digit are skipped.
LEMMA SpacesSkipped ==
  ASSUME NEW lead \in Seq(Byte), \A i \in 1 .. Len(lead) : lead[i] = Space,
         NEW u \in Seq(Byte), u # <<>>, u[1] \in Digits
  PROVE  skipSpaces(lead \o u) = u
<1>0. /\ lead \o u \in Seq(Byte) /\ Len(lead \o u) = Len(lead) + Len(u)
      /\ \A i \in 1 .. Len(lead) : (lead \o u)[i] = lead[i]
      /\ \A i \in 1 .. Len(u) : (lead \o u)[Len(lead) + i] = u[i]
      /\ SubSeq(lead \o u, 1, Len(lead)) = lead
      /\ SubSeq(lead \o u, Len(lead) + 1, Len(lead) + Len(u)) = u
  BY Parts
<1> PICK m \in Nat : m = Len(lead)
  OBVIOUS
<1> PICK n \in Nat : n = Len(u) /\ n # 0
  BY EmptySeq
<1>1. PICK text : text = lead \o u
  OBVIOUS
<1>2. /\ text \in Seq(Byte) /\ Len(text) = m + n
      /\ \A i \in 1 .. m : text[i] = lead[i]
      /\ \A i \in 1 .. n : text[m + i] = u[i]
      /\ SubSeq(text, m + 1, m + n) = u
  BY <1>0, <1>1
<1> PICK S : S = Byte \ {Space}
  OBVIOUS
<1> PICK p \in Nat : p = m + 1
  OBVIOUS
<1>3. text[p] \in S
  <2>1. text[m + 1] = u[1]
    BY <1>2
  <2> QED
    BY <2>1, DigitFacts
<1>4. Len(text) \in Nat /\ p \in 1 .. Len(text)
  BY <1>2
<1>5. \A i \in 1 .. p - 1 : text[i] \notin S
  BY <1>2
<1>6. firstOf(text, S) = p
  BY <1>3, <1>4, <1>5, FirstIs
<1>7. SubSeq(text, p, Len(text)) = u /\ p # 0
  BY <1>2
<1> QED
  BY <1>1, <1>6, <1>7 DEF skipSpaces

\* Digits are taken up to the next space.
LEMMA DigitsTaken ==
  ASSUME NEW run \in Seq(Byte), \A i \in 1 .. Len(run) : run[i] \in Digits, run # <<>>,
         NEW v \in Seq(Byte), v # <<>>, v[1] = Space
  PROVE  /\ run \o v \in Seq(Byte) /\ run \o v # <<>> /\ (run \o v)[1] \in Digits
         /\ leadingDigits(run \o v) = run
         /\ SubSeq(run \o v, Len(run) + 1, Len(run \o v)) = v
<1>0. /\ run \o v \in Seq(Byte) /\ Len(run \o v) = Len(run) + Len(v)
      /\ \A i \in 1 .. Len(run) : (run \o v)[i] = run[i]
      /\ \A i \in 1 .. Len(v) : (run \o v)[Len(run) + i] = v[i]
      /\ SubSeq(run \o v, 1, Len(run)) = run
      /\ SubSeq(run \o v, Len(run) + 1, Len(run) + Len(v)) = v
  BY Parts
<1> PICK m \in Nat : m = Len(run) /\ m # 0
  BY EmptySeq
<1> PICK n \in Nat : n = Len(v) /\ n # 0
  BY EmptySeq
<1>1. PICK text : text = run \o v
  OBVIOUS
<1>2. /\ text \in Seq(Byte) /\ Len(text) = m + n
      /\ \A i \in 1 .. m : text[i] = run[i]
      /\ \A i \in 1 .. n : text[m + i] = v[i]
      /\ SubSeq(text, 1, m) = run /\ SubSeq(text, m + 1, m + n) = v
  BY <1>0, <1>1
<1> PICK S : S = Byte \ ToSet(Digit)
  OBVIOUS
<1> PICK p \in Nat : p = m + 1
  OBVIOUS
<1>3. text[p] \in S
  <2>1. text[m + 1] = v[1]
    BY <1>2
  <2> QED
    BY <2>1, DigitFacts, RunsAreTexts DEF Digits
<1>4. Len(text) \in Nat /\ p \in 1 .. Len(text)
  BY <1>2
<1>5. \A i \in 1 .. p - 1 : text[i] \notin S
  BY <1>2 DEF Digits
<1>6. firstOf(text, S) = p
  BY <1>3, <1>4, <1>5, FirstIs
<1>7. SubSeq(text, 1, p - 1) = run /\ p # 0 /\ SubSeq(text, m + 1, Len(text)) = v
  <2>1. p - 1 = m /\ p # 0
    OBVIOUS
  <2> QED
    BY <1>2, <2>1
<1>8. leadingDigits(text) = run
  BY <1>6, <1>7 DEF leadingDigits
<1>9. text # <<>> /\ text[1] \in Digits
  BY <1>2
<1> QED
  BY <1>1, <1>2, <1>7, <1>8, <1>9

\* Nothing but spaces, and nothing but digits.
Blank(text) == \A i \in 1 .. Len(text) : text[i] = Space
IsRun(text) == text # <<>> /\ \A i \in 1 .. Len(text) : text[i] \in Digits

\* The next number of a text is the run of digits up to the next space, whether or not
\* spaces are left before it.
LEMMA Extracts ==
  ASSUME NEW lead \in Seq(Byte), Blank(lead), NEW run \in Seq(Byte), IsRun(run),
         NEW v \in Seq(Byte), v # <<>>, v[1] = Space
  PROVE  extract(lead \o (run \o v)) = [good |-> TRUE, number |-> number(run), rest |-> v]
<1>1. PICK u : u = run \o v
  OBVIOUS
<1>2. /\ u \in Seq(Byte) /\ u # <<>> /\ u[1] \in Digits
      /\ leadingDigits(u) = run /\ SubSeq(u, Len(run) + 1, Len(u)) = v
  BY <1>1, DigitsTaken DEF IsRun
<1>3. PICK text : text = lead \o u
  OBVIOUS
<1>4. skipSpaces(text) = u
  BY <1>2, <1>3, SpacesSkipped DEF Blank
<1>5. extract(text) = [good |-> run # <<>>, number |-> number(run),
                       rest |-> SubSeq(u, Len(run) + 1, Len(u))]
  BY <1>2, <1>4 DEF extract
<1> QED
  BY <1>1, <1>2, <1>3, <1>5 DEF IsRun

\* A space before a text.
LEMMA SpaceBefore ==
  ASSUME NEW t \in Seq(Byte)
  PROVE  /\ <<Space>> \o t \in Seq(Byte) /\ <<Space>> \o t # <<>>
         /\ (<<Space>> \o t)[1] = Space /\ Len(<<Space>> \o t) = 1 + Len(t)
<1>1. <<Space>> \in Seq(Byte) /\ Len(<<Space>>) = 1 /\ <<Space>>[1] = Space
  BY RunsAreTexts
<1>2. /\ <<Space>> \o t \in Seq(Byte) /\ Len(<<Space>> \o t) = Len(<<Space>>) + Len(t)
      /\ \A i \in 1 .. Len(<<Space>>) : (<<Space>> \o t)[i] = <<Space>>[i]
  BY <1>1, Parts
<1> PICK u : u = <<Space>> \o t
  OBVIOUS
<1>3. u \in Seq(Byte) /\ Len(u) = 1 + Len(t) /\ u # <<>> /\ u[1] = Space
  BY <1>1, <1>2
<1> QED
  BY <1>3

\* A number before a text that starts with a space.
LEMMA NumberBefore ==
  ASSUME NEW n \in Nat, NEW v \in Seq(Byte), v # <<>>, v[1] = Space
  PROVE  /\ decimal[n] \o v \in Seq(Byte) /\ decimal[n] \o v # <<>>
         /\ Len(decimal[n] \o v) >= Len(v)
         /\ \A lead \in {<<>>, <<Space>>} :
              extract(lead \o (decimal[n] \o v)) = [good |-> TRUE, number |-> n, rest |-> v]
<1> PICK d : d = decimal[n]
  OBVIOUS
<1>1. d \in Seq(Byte) /\ IsRun(d) /\ number(d) = n
  BY DecimalReads, RunsAreTexts DEF IsRun
<1>2. ASSUME NEW lead \in {<<>>, <<Space>>}
      PROVE  extract(lead \o (d \o v)) = [good |-> TRUE, number |-> n, rest |-> v]
  <2>1. lead \in Seq(Byte) /\ Blank(lead)
    <3>1. CASE lead = <<>>
      BY <3>1, EmptySeq DEF Blank
    <3>2. CASE lead = <<Space>>
      BY <3>2, RunsAreTexts DEF Blank
    <3> QED
      BY <3>1, <3>2
  <2> HIDE <1>2
  <2> QED
    BY <1>1, <2>1, Extracts
<1>3. d \o v \in Seq(Byte) /\ d \o v # <<>>
  BY <1>1, DigitsTaken DEF IsRun
<1>4. Len(d \o v) = Len(d) + Len(v) /\ Len(d) \in Nat /\ Len(v) \in Nat
  BY <1>1, ConcatProperties, LenProperties
<1>5. Len(d \o v) >= Len(v)
  BY <1>4
<1> QED
  BY <1>2, <1>3, <1>5

\* What a text is made of: three numbers, a space after each, and the payload.
Text(a, b, c, payload) ==
  decimal[a] \o (<<Space>> \o (decimal[b] \o (<<Space>> \o
    (decimal[c] \o (<<Space>> \o payload)))))

\* Texts can be joined in any order.
LEMMA Regroup ==
  ASSUME NEW x \in Seq(Byte), NEW y \in Seq(Byte), NEW z \in Seq(Byte)
  PROVE  (x \o y) \o z = x \o (y \o z)
BY ConcatAssociative

\* toString makes such a text, whatever is written behind it.
LEMMA Written ==
  ASSUME NEW msg \in [type : Nat, client_pid : Nat, payload : Seq(Byte)],
         NEW rest \in Seq(Byte)
  PROVE  toString(msg) \o rest =
           Text(msg.type, msg.client_pid, Len(msg.payload), msg.payload \o rest)
<1> DEFINE S == Seq(Byte)
           join(x, y) == x \o y
           sp == <<Space>>
           a == decimal[msg.type]
           b == decimal[msg.client_pid]
           c == decimal[Len(msg.payload)]
           p == msg.payload
<1>1. \A x, y \in S : join(x, y) \in S
  BY ConcatProperties
<1>2. ASSUME NEW x \in S, NEW y \in S, NEW z \in S
      PROVE  join(join(x, y), z) = join(x, join(y, z))
  BY Regroup
<1>3. sp \in S /\ a \in S /\ b \in S /\ c \in S /\ p \in S /\ rest \in S
  BY DecimalReads, RunsAreTexts
<1>4. toString(msg) \o rest =
        join(join(join(join(join(join(join(a, sp), b), sp), c), sp), p), rest)
  BY DEF toString
<1>5. Text(msg.type, msg.client_pid, Len(msg.payload), msg.payload \o rest) =
        join(a, join(sp, join(b, join(sp, join(c, join(sp, join(p, rest)))))))
  BY DEF Text
<1> HIDE DEF S, join, sp, a, b, c, p
<1>6. join(join(join(join(join(join(join(a, sp), b), sp), c), sp), p), rest) =
        join(a, join(sp, join(b, join(sp, join(c, join(sp, join(p, rest)))))))
  <2> DEFINE x1 == join(a, sp)
             x2 == join(x1, b)
             x3 == join(x2, sp)
             x4 == join(x3, c)
             x5 == join(x4, sp)
             y1 == join(p, rest)
             y2 == join(sp, y1)
             y3 == join(c, y2)
             y4 == join(sp, y3)
             y5 == join(b, y4)
  <2>1. x1 \in S /\ x2 \in S /\ x3 \in S /\ x4 \in S /\ x5 \in S
    BY <1>1, <1>3
  <2>2. y1 \in S /\ y2 \in S /\ y3 \in S /\ y4 \in S /\ y5 \in S
    BY <1>1, <1>3
  <2>3. join(join(x5, p), rest) = join(x5, y1)
    BY <1>2, <1>3, <2>1
  <2>4. join(x5, y1) = join(x4, y2)
    BY <1>2, <1>3, <2>1, <2>2
  <2>5. join(x4, y2) = join(x3, y3)
    BY <1>2, <1>3, <2>1, <2>2
  <2>6. join(x3, y3) = join(x2, y4)
    BY <1>2, <1>3, <2>1, <2>2
  <2>7. join(x2, y4) = join(x1, y5)
    BY <1>2, <1>3, <2>1, <2>2
  <2>8. join(x1, y5) = join(a, join(sp, y5))
    BY <1>2, <1>3, <2>2
  <2> QED
    BY <2>3, <2>4, <2>5, <2>6, <2>7, <2>8
<1> QED
  BY <1>4, <1>5, <1>6

\* A text is read back: its type, its sender, and as many of its last bytes as the
\* header says, if there are so many.
LEMMA TextsRead ==
  ASSUME NEW a \in Nat, NEW b \in Nat, NEW c \in Nat, NEW t \in Seq(Byte)
  PROVE  LET s == Text(a, b, c, t)
         IN  /\ s \in Seq(Byte) /\ s # <<>> /\ Len(t) <= Len(s)
             /\ fromString(s) = IF c > Len(s) THEN Threw
                                ELSE Message(a, b, SubSeq(s, Len(s) - c + 1, Len(s)))
<1>1. PICK v3 : v3 = <<Space>> \o t
  OBVIOUS
<1>2. v3 \in Seq(Byte) /\ v3 # <<>> /\ v3[1] = Space /\ Len(v3) = 1 + Len(t)
  BY <1>1, SpaceBefore
<1>3. PICK u3 : u3 = decimal[c] \o v3
  OBVIOUS
<1>4. /\ u3 \in Seq(Byte) /\ Len(u3) >= Len(v3)
      /\ extract(<<Space>> \o u3) = [good |-> TRUE, number |-> c, rest |-> v3]
  BY <1>2, <1>3, NumberBefore
<1>5. PICK v2 : v2 = <<Space>> \o u3
  OBVIOUS
<1>6. v2 \in Seq(Byte) /\ v2 # <<>> /\ v2[1] = Space /\ Len(v2) = 1 + Len(u3)
  BY <1>4, <1>5, SpaceBefore
<1>7. PICK u2 : u2 = decimal[b] \o v2
  OBVIOUS
<1>8. /\ u2 \in Seq(Byte) /\ Len(u2) >= Len(v2)
      /\ extract(<<Space>> \o u2) = [good |-> TRUE, number |-> b, rest |-> v2]
  BY <1>6, <1>7, NumberBefore
<1>9. PICK v1 : v1 = <<Space>> \o u2
  OBVIOUS
<1>10. v1 \in Seq(Byte) /\ v1 # <<>> /\ v1[1] = Space /\ Len(v1) = 1 + Len(u2)
  BY <1>8, <1>9, SpaceBefore
<1>11. PICK s : s = decimal[a] \o v1
  OBVIOUS
<1>12. /\ s \in Seq(Byte) /\ Len(s) >= Len(v1) /\ s # <<>>
       /\ extract(<<>> \o s) = [good |-> TRUE, number |-> a, rest |-> v1]
  BY <1>10, <1>11, NumberBefore
<1>13. s = Text(a, b, c, t)
  BY <1>1, <1>3, <1>5, <1>7, <1>9, <1>11 DEF Text
<1>14. /\ extract(s) = [good |-> TRUE, number |-> a, rest |-> v1]
       /\ extract(v1) = [good |-> TRUE, number |-> b, rest |-> v2]
       /\ extract(v2) = [good |-> TRUE, number |-> c, rest |-> v3]
  <2>1. <<>> \o s = s
    BY <1>12, ConcatEmptySeq
  <2> QED
    BY <1>4, <1>5, <1>8, <1>9, <1>12, <2>1
<1>15. Len(t) <= Len(s)
  <2>1. /\ Len(t) \in Nat /\ Len(v3) \in Nat /\ Len(u3) \in Nat /\ Len(v2) \in Nat
        /\ Len(u2) \in Nat /\ Len(v1) \in Nat /\ Len(s) \in Nat
    BY <1>2, <1>4, <1>6, <1>8, <1>10, <1>12, LenProperties
  <2>2. /\ Len(v3) = 1 + Len(t) /\ Len(u3) >= Len(v3) /\ Len(v2) = 1 + Len(u3)
        /\ Len(u2) >= Len(v2) /\ Len(v1) = 1 + Len(u2) /\ Len(s) >= Len(v1)
    BY <1>2, <1>4, <1>6, <1>8, <1>10, <1>12
  <2> QED
    BY <2>1, <2>2
<1>16. fromString(s) = IF c > Len(s) THEN Threw
                       ELSE Message(a, b, SubSeq(s, Len(s) - c + 1, Len(s)))
  BY <1>14 DEF fromString
<1> QED
  BY <1>12, <1>13, <1>15, <1>16

Messages == [type : Nat, client_pid : Nat, payload : Seq(Byte)]

\* A message's text ends with its payload.
LEMMA PayloadIsLast ==
  ASSUME NEW msg \in Messages
  PROVE  /\ toString(msg) \in Seq(Byte)
         /\ \E header \in Seq(Byte) : toString(msg) = header \o msg.payload
<1>1. \A n \in Nat : decimal[n] \in Seq(Byte)
  BY DecimalReads, RunsAreTexts
<1>2. \A x, y \in Seq(Byte) : x \o y \in Seq(Byte)
  BY ConcatProperties
<1>3. /\ decimal[msg.type] \in Seq(Byte) /\ decimal[msg.client_pid] \in Seq(Byte)
      /\ decimal[Len(msg.payload)] \in Seq(Byte) /\ <<Space>> \in Seq(Byte)
      /\ msg.payload \in Seq(Byte)
  BY <1>1, RunsAreTexts DEF Messages
<1> DEFINE header == decimal[msg.type] \o <<Space>> \o decimal[msg.client_pid] \o <<Space>>
                       \o decimal[Len(msg.payload)] \o <<Space>>
<1>4. header \in Seq(Byte)
  BY <1>2, <1>3
<1>5. toString(msg) = header \o msg.payload
  BY DEF toString
<1> HIDE DEF header
<1> QED
  BY <1>2, <1>3, <1>4, <1>5

\* The last bytes of a text that ends with p.
LEMMA LastBytes ==
  ASSUME NEW before \in Seq(Byte), NEW p \in Seq(Byte), NEW f, f = before \o p
  PROVE  SubSeq(f, Len(f) - Len(p) + 1, Len(f)) = p
<1>1. /\ Len(before \o p) = Len(before) + Len(p)
      /\ SubSeq(before \o p, Len(before) + 1, Len(before) + Len(p)) = p
  BY Parts
<1>2. Len(before) \in Nat /\ Len(p) \in Nat
  BY LenProperties
<1>3. Len(f) = Len(before) + Len(p)
  BY <1>1
<1>4. Len(f) - Len(p) + 1 = Len(before) + 1
  BY <1>2, <1>3
<1> QED
  BY <1>1, <1>3, <1>4

\* A text without NULs is taken as it is.
LEMMA Uncut ==
  ASSUME NEW y, Len(y) \in Nat, \A i \in 1 .. Len(y) : y[i] # Nul
  PROVE  cString(y) = y
<1>1. firstOf(y, {Nul}) = 0
  BY NoneIs
<1> QED
  BY <1>1 DEF cString

\* Of a text whose first NUL is at k, what is before k is left.
LEMMA CutAt ==
  ASSUME NEW y \in Seq(Byte), NEW k \in 1 .. Len(y), y[k] = Nul,
         \A j \in 1 .. k - 1 : y[j] # Nul
  PROVE  /\ cString(y) \in Seq(Byte) /\ Len(cString(y)) = k - 1
         /\ \A i \in 1 .. k - 1 : cString(y)[i] = y[i]
<1>1. Len(y) \in Nat /\ k \in Nat \ {0}
  BY LenProperties
<1>2. firstOf(y, {Nul}) = k
  <2>1. y[k] \in {Nul} /\ \A j \in 1 .. k - 1 : y[j] \notin {Nul}
    OBVIOUS
  <2> QED
    BY <1>1, <2>1, FirstIs
<1>3. cString(y) = SubSeq(y, 1, k - 1)
  <2>1. k # 0
    BY <1>1
  <2> QED
    BY <1>2, <2>1, Zenon DEF cString
<1> QED
  BY <1>3, FirstBytes

\* Where the first NUL is, if there is one.
LEMMA NulOrNot ==
  ASSUME NEW y \in Seq(Byte)
  PROVE  \/ \A i \in 1 .. Len(y) : y[i] # Nul
         \/ \E k \in 1 .. Len(y) : y[k] = Nul /\ \A j \in 1 .. k - 1 : y[j] # Nul
<1> PICK n \in Nat : n = Len(y)
  BY LenProperties
<1> DEFINE T == {i \in 1 .. n : y[i] = Nul}
<1>1. CASE T = {}
  BY <1>1
<1>2. CASE T # {}
  <2>1. T \subseteq Nat
    OBVIOUS
  <2> HIDE DEF T
  <2>2. PICK k \in T : \A j \in T : k <= j
    BY <1>2, <2>1, Least
  <2>3. k \in 1 .. n /\ y[k] = Nul /\ \A j \in 1 .. k - 1 : y[j] # Nul
    BY <2>2 DEF T
  <2> QED
    BY <2>3
<1> QED
  BY <1>1, <1>2

\* A text is kept whole before another one with a NUL.
LEMMA KeptBeforeNul ==
  ASSUME NEW x \in Seq(Byte), \A i \in 1 .. Len(x) : x[i] # Nul, NEW y \in Seq(Byte)
  PROVE  /\ cString(y) \in Seq(Byte)
         /\ cString(x \o y) = x \o cString(y)
<1>0. \A z \in Seq(Byte) :
        /\ x \o z \in Seq(Byte) /\ Len(x \o z) = Len(x) + Len(z)
        /\ \A i \in 1 .. Len(x) : (x \o z)[i] = x[i]
        /\ \A i \in 1 .. Len(z) : (x \o z)[Len(x) + i] = z[i]
  BY Parts
<1> PICK m \in Nat : m = Len(x)
  BY LenProperties
<1> PICK n \in Nat : n = Len(y)
  BY LenProperties
<1> PICK u : u = x \o y
  OBVIOUS
<1>1. /\ u \in Seq(Byte) /\ Len(u) = m + n
      /\ \A i \in 1 .. m : u[i] = x[i]
      /\ \A i \in 1 .. n : u[m + i] = y[i]
  BY Parts
<1>2. \A i \in 1 .. m : u[i] # Nul
  BY <1>1
<1>3. CASE \A i \in 1 .. n : y[i] # Nul
  <2>1. \A i \in 1 .. m + n : u[i] # Nul
    <3>1. \A i \in 1 .. m + n : i \in 1 .. m \/ (i - m \in 1 .. n /\ m + (i - m) = i)
      OBVIOUS
    <3> QED
      BY <1>1, <1>2, <1>3, <3>1
  <2>2. cString(y) = y
    BY <1>3, Uncut
  <2>3. cString(u) = u
    <3>1. Len(u) \in Nat /\ \A i \in 1 .. Len(u) : u[i] # Nul
      BY <1>1, <2>1
    <3> QED
      BY <3>1, Uncut
  <2> QED
    BY <2>2, <2>3
<1>4. ASSUME NEW k \in 1 .. n, y[k] = Nul, \A j \in 1 .. k - 1 : y[j] # Nul
      PROVE  cString(y) \in Seq(Byte) /\ cString(u) = x \o cString(y)
  <2> PICK z : z = cString(y)
    OBVIOUS
  <2>1. z \in Seq(Byte) /\ Len(z) = k - 1 /\ \A i \in 1 .. k - 1 : z[i] = y[i]
    BY <1>4, CutAt
  <2> PICK l : l = m + k
    OBVIOUS
  <2>2. l \in 1 .. Len(u) /\ u[l] = Nul /\ \A j \in 1 .. l - 1 : u[j] # Nul
    <3>1. \A j \in 1 .. l - 1 :
            j \in 1 .. m \/ (j - m \in 1 .. k - 1 /\ j - m \in 1 .. n /\ m + (j - m) = j)
      OBVIOUS
    <3>2. l \in 1 .. Len(u)
      BY <1>1
    <3>3. u[l] = Nul
      BY <1>1, <1>4
    <3>4. \A j \in 1 .. l - 1 : u[j] # Nul
      BY <1>1, <1>2, <1>4, <3>1
    <3> QED
      BY <3>2, <3>3, <3>4
  <2> PICK v : v = cString(u)
    OBVIOUS
  <2>3. v \in Seq(Byte) /\ Len(v) = l - 1 /\ \A i \in 1 .. l - 1 : v[i] = u[i]
    BY <1>1, <2>2, CutAt
  <2> PICK w : w = x \o z
    OBVIOUS
  <2>4. /\ w \in Seq(Byte) /\ Len(w) = m + (k - 1)
        /\ \A i \in 1 .. m : w[i] = x[i]
        /\ \A i \in 1 .. k - 1 : w[m + i] = z[i]
    <3>1. /\ w \in Seq(Byte) /\ Len(w) = Len(x) + Len(z)
          /\ \A i \in 1 .. Len(x) : w[i] = x[i]
          /\ \A i \in 1 .. Len(z) : w[Len(x) + i] = z[i]
      BY <1>0, <2>1
    <3> QED
      BY <2>1, <3>1
  <2>5. \A i \in 1 .. l - 1 : v[i] = w[i]
    <3> SUFFICES ASSUME NEW i \in 1 .. l - 1 PROVE v[i] = w[i]
      OBVIOUS
    <3>1. CASE i \in 1 .. m
      BY <1>1, <2>3, <2>4, <3>1
    <3>2. CASE i \notin 1 .. m
      <4> PICK j : j = i - m
        OBVIOUS
      <4>1. j \in 1 .. k - 1 /\ j \in 1 .. n /\ m + j = i
        BY <3>2
      <4>2. v[i] = u[i] /\ u[m + j] = y[j] /\ w[m + j] = z[j] /\ z[j] = y[j]
        BY <1>1, <2>1, <2>3, <2>4, <4>1
      <4> QED
        BY <4>1, <4>2
    <3> QED
      BY <3>1, <3>2
  <2>6. v = w
    <3>1. Len(v) = Len(w) /\ \A i \in 1 .. Len(v) : v[i] = w[i]
      BY <2>3, <2>4, <2>5
    <3> QED
      BY <2>3, <2>4, <3>1, SeqEqual
  <2> QED
    BY <2>1, <2>6
<1>5. \/ \A i \in 1 .. n : y[i] # Nul
      \/ \E k \in 1 .. n : y[k] = Nul /\ \A j \in 1 .. k - 1 : y[j] # Nul
  BY NulOrNot
<1> QED
  BY <1>3, <1>4, <1>5

\* A text that is shortened by a NUL holds one right behind what is left; another one is
\* taken as it is.
LEMMA ShortenedByNul ==
  ASSUME NEW y \in Seq(Byte)
  PROVE  /\ Len(cString(y)) \in Nat
         /\ \/ cString(y) = y
            \/ /\ Len(cString(y)) + 1 \in 1 .. Len(y)
               /\ y[Len(cString(y)) + 1] = Nul
<1> PICK n \in Nat : n = Len(y)
  BY LenProperties
<1>1. CASE \A i \in 1 .. n : y[i] # Nul
  BY <1>1, Uncut
<1>2. ASSUME NEW k \in 1 .. n, y[k] = Nul, \A j \in 1 .. k - 1 : y[j] # Nul
      PROVE  /\ Len(cString(y)) \in Nat
             /\ Len(cString(y)) + 1 \in 1 .. n /\ y[Len(cString(y)) + 1] = Nul
  <2>1. Len(cString(y)) = k - 1
    BY <1>2, CutAt
  <2> QED
    BY <1>2, <2>1
<1>3. \/ \A i \in 1 .. n : y[i] # Nul
      \/ \E k \in 1 .. n : y[k] = Nul /\ \A j \in 1 .. k - 1 : y[j] # Nul
  BY NulOrNot
<1> QED
  BY <1>1, <1>2, <1>3

\* A header holds no NUL: what a NUL takes away is taken from the payloads.
LEMMA HeadersStay ==
  ASSUME NEW a \in Nat, NEW b \in Nat, NEW c \in Nat, NEW t \in Seq(Byte)
  PROVE  cString(t) \in Seq(Byte) /\ cString(Text(a, b, c, t)) = Text(a, b, c, cString(t))
<1> DEFINE Clean(x) == x \in Seq(Byte) /\ \A i \in 1 .. Len(x) : x[i] # Nul
<1>1. Nul \notin Digits /\ Nul # Space
  <2>1. " " # "NUL"
    OBVIOUS
  <2> QED
    BY <2>1, DigitFacts DEF Nul, Space
<1>2. \A n \in Nat : Clean(decimal[n])
  BY <1>1, DecimalReads, RunsAreTexts
<1>3. Clean(<<Space>>)
  BY <1>1, RunsAreTexts
<1>4. \A x, y \in Seq(Byte) : x \o y \in Seq(Byte)
  BY ConcatProperties
<1>5. ASSUME NEW x, Clean(x), NEW y \in Seq(Byte)
      PROVE  cString(y) \in Seq(Byte) /\ cString(x \o y) = x \o cString(y)
  BY <1>5, KeptBeforeNul
<1> HIDE DEF Clean
<1> DEFINE sp == <<Space>>
           t1 == sp \o t
           t2 == decimal[c] \o t1
           t3 == sp \o t2
           t4 == decimal[b] \o t3
           t5 == sp \o t4
           t6 == decimal[a] \o t5
<1>6. sp \in Seq(Byte) /\ \A n \in Nat : decimal[n] \in Seq(Byte)
  BY <1>2, <1>3 DEF Clean
<1>7. /\ t1 \in Seq(Byte) /\ t2 \in Seq(Byte) /\ t3 \in Seq(Byte) /\ t4 \in Seq(Byte)
      /\ t5 \in Seq(Byte) /\ t6 \in Seq(Byte)
  <2> HIDE DEF sp
  <2> QED
    BY <1>4, <1>6
<1>8. cString(t) \in Seq(Byte) /\ cString(t1) = sp \o cString(t)
  BY <1>3, <1>5
<1>9. cString(t2) = decimal[c] \o cString(t1)
  <2> HIDE DEF t1
  <2> QED
    BY <1>2, <1>5, <1>7
<1>10. cString(t3) = sp \o cString(t2)
  <2> HIDE DEF t2
  <2> QED
    BY <1>3, <1>5, <1>7
<1>11. cString(t4) = decimal[b] \o cString(t3)
  <2> HIDE DEF t3
  <2> QED
    BY <1>2, <1>5, <1>7
<1>12. cString(t5) = sp \o cString(t4)
  <2> HIDE DEF t4
  <2> QED
    BY <1>3, <1>5, <1>7
<1>13. cString(t6) = decimal[a] \o cString(t5)
  <2> HIDE DEF t5
  <2> QED
    BY <1>2, <1>5, <1>7
<1>14. t6 = Text(a, b, c, t)
  BY DEF Text
<1>15. cString(t6) = Text(a, b, c, cString(t))
  <2> HIDE DEF t1, t2, t3, t4, t5, t6
  <2> QED
    BY <1>8, <1>9, <1>10, <1>11, <1>12, <1>13 DEF Text
<1> HIDE DEF t6
<1> QED
  BY <1>8, <1>14, <1>15

\* What is read of a message's text, cut at a NUL, is its header and the last bytes before
\* the NUL.
LEMMA ReadToNul ==
  ASSUME NEW a \in Nat, NEW b \in Nat, NEW c \in Nat, NEW t \in Seq(Byte), c <= Len(t)
  PROVE  LET s == Text(a, b, c, t)
         IN  /\ s \in Seq(Byte) /\ s # <<>> /\ Len(t) <= Len(s)
             /\ fromString(cString(s)) =
                  IF c > Len(cString(s)) THEN Threw
                  ELSE Message(a, b, SubSeq(cString(s), Len(cString(s)) - c + 1,
                                            Len(cString(s))))
<1>1. cString(t) \in Seq(Byte) /\ cString(Text(a, b, c, t)) = Text(a, b, c, cString(t))
  BY HeadersStay
<1> PICK v : v = cString(t)
  OBVIOUS
<1>2. v \in Seq(Byte) /\ cString(Text(a, b, c, t)) = Text(a, b, c, v)
  BY <1>1
<1> PICK u : u = cString(Text(a, b, c, t))
  OBVIOUS
<1>3. fromString(u) = IF c > Len(u) THEN Threw
                      ELSE Message(a, b, SubSeq(u, Len(u) - c + 1, Len(u)))
  BY <1>2, TextsRead
<1>4. /\ Text(a, b, c, t) \in Seq(Byte) /\ Text(a, b, c, t) # <<>>
      /\ Len(t) <= Len(Text(a, b, c, t))
  BY TextsRead
<1> QED
  BY <1>3, <1>4

\* What starts with a message's text is read as that message, with the last bytes before the
\* first NUL; there are too few of them only if there is a NUL.
LEMMA FirstIsRead ==
  ASSUME NEW msg \in Messages, NEW rest \in Seq(Byte), NEW s, s = toString(msg) \o rest
  PROVE  LET len == Len(msg.payload)
         IN  /\ s \in Seq(Byte) /\ s # <<>> /\ len <= Len(s)
             /\ fromString(cString(s)) =
                  IF len > Len(cString(s)) THEN Threw
                  ELSE Message(msg.type, msg.client_pid,
                               SubSeq(cString(s), Len(cString(s)) - len + 1,
                                      Len(cString(s))))
<1> PICK t : t = msg.payload \o rest
  OBVIOUS
<1>1. msg.type \in Nat /\ msg.client_pid \in Nat /\ msg.payload \in Seq(Byte)
  BY DEF Messages
<1>2. Len(msg.payload) \in Nat /\ Len(rest) \in Nat
  BY <1>1, LenProperties
<1>3. t \in Seq(Byte) /\ Len(t) = Len(msg.payload) + Len(rest)
  BY <1>1, ConcatProperties
<1>4. Len(msg.payload) <= Len(t)
  BY <1>2, <1>3
<1>5. s = Text(msg.type, msg.client_pid, Len(msg.payload), t)
  BY Written DEF Messages
<1>6. /\ s \in Seq(Byte) /\ s # <<>> /\ Len(t) <= Len(s)
      /\ fromString(cString(s)) =
           IF Len(msg.payload) > Len(cString(s)) THEN Threw
           ELSE Message(msg.type, msg.client_pid,
                        SubSeq(cString(s), Len(cString(s)) - Len(msg.payload) + 1,
                               Len(cString(s))))
  <2> PICK x : x = Text(msg.type, msg.client_pid, Len(msg.payload), t)
    OBVIOUS
  <2>1. /\ x \in Seq(Byte) /\ x # <<>> /\ Len(t) <= Len(x)
        /\ fromString(cString(x)) =
             IF Len(msg.payload) > Len(cString(x)) THEN Threw
             ELSE Message(msg.type, msg.client_pid,
                          SubSeq(cString(x), Len(cString(x)) - Len(msg.payload) + 1,
                                 Len(cString(x))))
    <3>1. ASSUME NEW a \in Nat, NEW b \in Nat, NEW c \in Nat, NEW t0 \in Seq(Byte),
                 c <= Len(t0), x = Text(a, b, c, t0)
          PROVE  /\ x \in Seq(Byte) /\ x # <<>> /\ Len(t0) <= Len(x)
                 /\ fromString(cString(x)) =
                      IF c > Len(cString(x)) THEN Threw
                      ELSE Message(a, b, SubSeq(cString(x), Len(cString(x)) - c + 1,
                                                Len(cString(x))))
      BY <3>1, ReadToNul
    <3> QED
      BY <1>1, <1>2, <1>3, <1>4, <3>1
  <2>2. s = x
    BY <1>5
  <2> QED
    BY <2>1, <2>2
<1>7. Len(msg.payload) <= Len(s)
  <2>1. Len(s) \in Nat /\ Len(t) \in Nat
    BY <1>3, <1>6, LenProperties
  <2> QED
    BY <1>2, <1>4, <1>6, <2>1
<1> QED
  BY <1>6, <1>7
-----------------------------------------------------------------------------
(***************************************************************************)
(* The inductive invariant.                                                *)
(***************************************************************************)

\* While no read has cut a message, the FIFO starts with the first message's text and ends
\* with the last one's payload.
Whole ==
  fifo # <<>> /\ ~cut =>
    /\ written # <<>>
    /\ \E rest \in Seq(Byte) : fifo = toString(written[1]) \o rest
    /\ \E before \in Seq(Byte) : fifo = before \o written[Len(written)].payload

Inv ==
  /\ TypeOK
  /\ fifo \in Seq(Byte) /\ written \in Seq(Messages)
  /\ fifo = <<>> => written = <<>>
  /\ Whole

\* The messages that may be written are messages.
LEMMA MsgFacts == Msg \subseteq Messages /\ ReadSize \in Nat \ {0}
BY GuessTextAssumption DEF Messages

\* Initially nothing was written.
LEMMA InitInv == Init => Inv
<1> SUFFICES ASSUME Init PROVE Inv
  OBVIOUS
<1>1. PICK digits \in Shuffled : secret = generateSecretNumber(digits)
  BY DEF Init
<1>2. secret \in Codes /\ secret[1] # Zero
  BY <1>1, SecretIsCode
<1>3. MaxWritten \in Nat
  BY GuessTextAssumption
<1>5. /\ fifo = <<>> /\ written = <<>> /\ cut = FALSE /\ count = 0
      /\ result = NotAccepted
  BY DEF Init
<1>6. TypeOK
  <2>1. result \in [bulls : 0 .. Length, cows : 0 .. Length] \cup {NotAccepted}
    BY <1>5
  <2>2. Len(written) = 0
    BY <1>5, EmptySeq
  <2>3. count = 0 /\ 0 \in 0 .. MaxWritten /\ 0 <= 0
    BY <1>3, <1>5
  <2>4. cut \in BOOLEAN
    BY <1>5, Zenon
  <2> QED
    BY <1>2, <2>1, <2>2, <2>3, <2>4 DEF TypeOK
<1> QED
  BY <1>5, <1>6, EmptySeq DEF Inv, Whole

\* A message is written behind what is there.
LEMMA WriteInv ==
  ASSUME Inv, NEW msg \in Msg, Write(msg)
  PROVE  Inv'
<1>1. msg \in Messages /\ msg.payload \in Seq(Byte)
  BY MsgFacts DEF Messages
<1>2. PICK s \in Seq(Byte) : s = toString(msg)
  BY <1>1, PayloadIsLast
<1>3. PICK header \in Seq(Byte) : s = header \o msg.payload
  BY <1>1, <1>2, PayloadIsLast
<1>4. PICK f \in Seq(Byte) : f = fifo
  BY DEF Inv
<1>5. PICK w \in Seq(Messages) : w = written
  BY DEF Inv
<1>6. /\ fifo' = f \o s /\ written' = Append(w, msg) /\ count' = count + 1
      /\ count < MaxWritten /\ secret' = secret /\ cut' = cut /\ got' = got
      /\ result' = result
  BY <1>2, <1>4, <1>5 DEF Write
<1>7. f \o s \in Seq(Byte) /\ f \o header \in Seq(Byte)
  BY ConcatProperties
<1>8. /\ Append(w, msg) \in Seq(Messages) /\ Len(Append(w, msg)) = Len(w) + 1
      /\ Append(w, msg) # <<>> /\ Append(w, msg)[Len(w) + 1] = msg
      /\ \A i \in 1 .. Len(w) : Append(w, msg)[i] = w[i]
  BY <1>1, AppendProperties
<1>9. TypeOK'
  <2>1. /\ secret \in Codes /\ secret[1] # Zero /\ cut \in BOOLEAN
        /\ result \in [bulls : 0 .. Length, cows : 0 .. Length] \cup {NotAccepted}
        /\ count \in 0 .. MaxWritten /\ Len(w) <= count
    BY <1>5 DEF Inv, TypeOK
  <2>2. count + 1 \in 0 .. MaxWritten /\ Len(w) + 1 <= count + 1
    <3>1. MaxWritten \in Nat /\ Len(w) \in Nat
      BY GuessTextAssumption, LenProperties
    <3> QED
      BY <1>6, <2>1, <3>1
  <2> QED
    BY <1>6, <1>8, <2>1, <2>2 DEF TypeOK, Codes, NotAccepted
<1>10. fifo' # <<>>
  <2>1. s # <<>>
    <3>1. <<>> \in Seq(Byte) /\ s = toString(msg) \o <<>>
      BY <1>2, ConcatEmptySeq, EmptySeq
    <3> QED
      BY <1>1, <3>1, FirstIsRead
  <2> QED
    BY <1>6, <2>1, ConcatEqualIffEmpty
<1>11. Whole'
  <2> SUFFICES ASSUME ~cut
               PROVE  /\ Append(w, msg) # <<>>
                      /\ \E rest \in Seq(Byte) :
                           f \o s = toString(Append(w, msg)[1]) \o rest
                      /\ \E before \in Seq(Byte) :
                           f \o s = before \o Append(w, msg)[Len(Append(w, msg))].payload
    BY <1>6 DEF Whole
  <2>1. f \o s = (f \o header) \o msg.payload
    BY <1>1, <1>3, Regroup
  <2>2. Append(w, msg)[Len(Append(w, msg))] = msg
    BY <1>8
  <2>3. CASE f = <<>>
    <3>1. w = <<>>
      BY <1>4, <1>5, <2>3 DEF Inv
    <3>2. Append(w, msg)[1] = msg
      BY <1>8, <3>1
    <3>3. f \o s = s \o <<>> /\ <<>> \in Seq(Byte)
      BY <2>3, ConcatEmptySeq, EmptySeq
    <3> QED
      BY <1>2, <1>7, <1>8, <2>1, <2>2, <3>2, <3>3
  <2>4. CASE f # <<>>
    <3>1. w # <<>> /\ \E rest \in Seq(Byte) : f = toString(w[1]) \o rest
      BY <1>4, <1>5, <2>4 DEF Inv, Whole
    <3>2. PICK rest \in Seq(Byte) : f = toString(w[1]) \o rest
      BY <3>1
    <3>3. 1 \in 1 .. Len(w) /\ w[1] \in Messages
      BY <3>1, EmptySeq, ElementOfSeq
    <3>4. PICK first \in Seq(Byte) : first = toString(w[1])
      BY <3>3, PayloadIsLast
    <3>5. rest \o s \in Seq(Byte)
      BY ConcatProperties
    <3>6. f \o s = first \o (rest \o s)
      BY <3>2, <3>4, Regroup
    <3>7. Append(w, msg)[1] = w[1]
      BY <1>8, <3>3
    <3> QED
      BY <1>7, <1>8, <2>1, <2>2, <3>4, <3>5, <3>6, <3>7
  <2> QED
    BY <2>3, <2>4
<1> QED
  BY <1>6, <1>7, <1>8, <1>9, <1>10, <1>11 DEF Inv

\* A read that empties the FIFO has read all of it.
LEMMA WholeRead ==
  ASSUME Inv, Read, fifo' = <<>>, ~cut
  PROVE  LET first == written[1]
             last  == written[Len(written)]
             text  == cString(fifo)
             len   == Len(first.payload)
         IN  /\ got' = IF len > Len(text) THEN Threw
                       ELSE Message(first.type, first.client_pid,
                                    SubSeq(text, Len(text) - len + 1, Len(text)))
             /\ Nul \notin ToSet(fifo) /\ Len(last.payload) = len
                  => got'.payload = last.payload
             /\ len <= Len(fifo)
<1>1. PICK f \in Seq(Byte) : f = fifo
  BY DEF Inv
<1>2. PICK w \in Seq(Messages) : w = written
  BY DEF Inv
<1>3. f # <<>> /\ w # <<>>
  BY <1>1, <1>2 DEF Inv, Whole, Read
<1>4. Len(f) \in Nat /\ Len(w) \in Nat \ {0}
  BY <1>3, EmptySeq, LenProperties
<1>5. PICK size \in Nat : /\ size = IF Len(f) < ReadSize THEN Len(f) ELSE ReadSize
                          /\ got' = fromString(cString(SubSeq(f, 1, size)))
                          /\ fifo' = SubSeq(f, size + 1, Len(f))
  BY <1>1, <1>4, MsgFacts DEF Read
<1>6. size = Len(f)
  <2>1. size <= Len(f)
    BY <1>4, <1>5, MsgFacts
  <2>2. \A i \in size + 1 .. Len(f) : f[i] \in Byte
    BY <1>4, ElementOfSeq
  <2>3. size + 1 \in Int /\ Len(f) \in Int
    BY <1>4
  <2>4. Len(SubSeq(f, size + 1, Len(f))) =
          IF size + 1 <= Len(f) THEN Len(f) - (size + 1) + 1 ELSE 0
    BY <2>2, <2>3, SubSeqProperties
  <2>5. Len(SubSeq(f, size + 1, Len(f))) = 0
    BY <1>5, EmptySeq
  <2> QED
    BY <1>4, <2>1, <2>4, <2>5
<1>7. got' = fromString(cString(f))
  BY <1>5, <1>6, SubSeqFull
<1>8. w[1] \in Messages /\ w[Len(w)] \in Messages
  BY <1>4, ElementOfSeq
<1>9. PICK rest \in Seq(Byte) : f = toString(w[1]) \o rest
  BY <1>1, <1>2, <1>3 DEF Inv, Whole
<1>10. PICK before \in Seq(Byte) : f = before \o w[Len(w)].payload
  BY <1>1, <1>2, <1>3 DEF Inv, Whole
<1>11. /\ got' = IF Len(w[1].payload) > Len(cString(f)) THEN Threw
                 ELSE Message(w[1].type, w[1].client_pid,
                              SubSeq(cString(f), Len(cString(f)) - Len(w[1].payload) + 1,
                                     Len(cString(f))))
       /\ Len(w[1].payload) <= Len(f)
  BY <1>7, <1>8, <1>9, FirstIsRead
<1>12. ASSUME Nul \notin ToSet(f), Len(w[Len(w)].payload) = Len(w[1].payload)
       PROVE  got'.payload = w[Len(w)].payload
  <2> PICK p : p = w[Len(w)].payload
    OBVIOUS
  <2>1. p \in Seq(Byte) /\ f = before \o p
    BY <1>8, <1>10 DEF Messages
  <2>2. SubSeq(f, Len(f) - Len(p) + 1, Len(f)) = p
    BY <2>1, LastBytes
  <2>3. cString(f) = f
    <3>1. \A i \in 1 .. Len(f) : f[i] # Nul
      BY <1>4, <1>12 DEF ToSet
    <3> QED
      BY <1>4, <3>1, Uncut
  <2>4. Len(w[1].payload) = Len(p) /\ ~(Len(p) > Len(f))
    <3>1. Len(p) \in Nat /\ Len(p) <= Len(f)
      BY <1>11, <1>12, <2>1, LenProperties
    <3> QED
      BY <1>4, <1>12, <3>1
  <2>5. got' = Message(w[1].type, w[1].client_pid, SubSeq(f, Len(f) - Len(p) + 1, Len(f)))
    BY <1>11, <2>3, <2>4
  <2>6. got'.payload = SubSeq(f, Len(f) - Len(p) + 1, Len(f))
    BY <2>5 DEF Message
  <2> QED
    BY <2>2, <2>6
<1> QED
  BY <1>1, <1>2, <1>11, <1>12

\* A read takes a text from the FIFO and scores it.
LEMMA ReadInv ==
  ASSUME Inv, Read
  PROVE  Inv'
<1>1. PICK f \in Seq(Byte) : f = fifo
  BY DEF Inv
<1>2. PICK w \in Seq(Messages) : w = written
  BY DEF Inv
<1>3. Len(f) \in Nat /\ Len(w) \in Nat
  BY LenProperties
<1>4. PICK size \in Nat : fifo' = SubSeq(f, size + 1, Len(f))
  BY <1>1, <1>3, MsgFacts DEF Read
<1>5. /\ cut' = (cut \/ fifo' # <<>>) /\ secret' = secret /\ count' = count
      /\ written' = IF fifo' = <<>> THEN <<>> ELSE w
      /\ result' = IF got'.kind = "message" /\ got'.type = GUESS_NUMBER
                   THEN guess(got'.payload) ELSE NotAccepted
  BY <1>2 DEF Read
<1>6. fifo' \in Seq(Byte)
  <2>1. \A i \in size + 1 .. Len(f) : f[i] \in Byte
    BY <1>3, ElementOfSeq
  <2> QED
    BY <1>3, <1>4, <2>1, SubSeqProperties
<1>7. \A word : guess(word) \in [bulls : 0 .. Length, cows : 0 .. Length] \cup {NotAccepted}
  <2> SUFFICES ASSUME NEW word, wellFormed(word)
               PROVE  calculateBullsCows(secret, word)
                        \in [bulls : 0 .. Length, cows : 0 .. Length]
    BY DEF guess
  <2>1. secret \in [1 .. Length -> DigitByte] /\ Length \in Nat
    BY DEF Inv, TypeOK, Codes, Length
  <2>2. Len(secret) = Length
    BY <2>1, WordsAreTexts
  <2>3. calculateBullsCows(secret, word) = ScoreOf(secret, word, Length)
    BY <2>1, <2>2, ScoreIs
  <2> QED
    BY <2>1, <2>3, PlacesAreFinite DEF ScoreOf
<1>8. TypeOK'
  <2>1. /\ secret \in Codes /\ secret[1] # Zero /\ cut \in BOOLEAN
        /\ count \in 0 .. MaxWritten /\ Len(w) <= count
    BY <1>2 DEF Inv, TypeOK
  <2>2. result' \in [bulls : 0 .. Length, cows : 0 .. Length] \cup {NotAccepted}
    BY <1>5, <1>7
  <2>3. Len(written') <= count
    BY <1>3, <1>5, <2>1, EmptySeq, GuessTextAssumption
  <2> QED
    BY <1>5, <2>1, <2>2, <2>3 DEF TypeOK, Codes, NotAccepted
<1>9. written' \in Seq(Messages) /\ (fifo' = <<>> => written' = <<>>)
  BY <1>5, EmptySeq
<1>10. Whole'
  BY <1>5 DEF Whole
<1> QED
  BY <1>6, <1>8, <1>9, <1>10 DEF Inv

\* Every step keeps the invariant.
LEMMA NextInv == Inv /\ [Next]_vars => Inv'
<1> SUFFICES ASSUME Inv, [Next]_vars PROVE Inv'
  OBVIOUS
<1>1. CASE Read
  BY <1>1, ReadInv
<1>2. ASSUME NEW msg \in Msg, Write(msg) PROVE Inv'
  BY <1>2, WriteInv
<1>3. CASE UNCHANGED vars
  BY <1>3 DEF vars, Inv, TypeOK, Whole, Codes, NotAccepted
<1> QED
  BY <1>1, <1>2, <1>3 DEF Next

\* The invariant holds always.
THEOREM Invariance == Spec => []Inv
<1> QED
  BY InitInv, NextInv, PTL DEF Spec
-----------------------------------------------------------------------------
(***************************************************************************)
(* What the run checks, for every shuffle, message and buffer.             *)
(***************************************************************************)

\* Secrets are codes without a leading zero and scores stay in their range.
THEOREM TypeCorrect == Spec => []TypeOK
<1>1. Inv => TypeOK
  BY DEF Inv
<1> QED
  BY <1>1, Invariance, PTL

\* A guess is taken when it is a code and scores what the rules of the game say.
THEOREM ScoresAreRight == Spec => []ScoresRight
<1>1. Inv => ScoresRight
  <2> SUFFICES ASSUME Inv, NEW word \in [1 .. Length -> DigitByte \cup {Space}]
               PROVE  /\ wellFormed(word) <=> word \in Codes
                      /\ word \in Codes =>
                           /\ calculateBullsCows(secret, word) = reference(word)
                           /\ calculateBullsCows(secret, word).bulls = Length
                                <=> word = secret
    BY DEF ScoresRight
  <2>1. secret \in Codes
    BY DEF Inv, TypeOK
  <2>2. wellFormed(word) <=> word \in Codes
    BY WellFormedWords
  <2> QED
    BY <2>1, <2>2, CodeScores
<1> QED
  BY <1>1, Invariance, PTL

\* A step that drains the FIFO is a read of it.
LEMMA DrainIsRead ==
  ASSUME Inv, Next, fifo # <<>>, fifo' = <<>>
  PROVE  Read
<1>1. ASSUME NEW msg \in Msg, Write(msg) PROVE FALSE
  <2>1. msg \in Messages /\ fifo \in Seq(Byte)
    BY MsgFacts DEF Inv
  <2>2. PICK s \in Seq(Byte) : s = toString(msg)
    BY <2>1, PayloadIsLast
  <2>3. fifo \o s = <<>>
    BY <1>1, <2>2 DEF Write
  <2> QED
    BY <2>1, <2>3, ConcatEqualIffEmpty
<1> QED
  BY <1>1 DEF Next

\* Whatever is read whole has the first message's head and as many of the last bytes as it
\* says, up to the first NUL; with messages as long as the first one and no NUL, that is the
\* last one's payload.
THEOREM WholeTextsAreDecoded == Spec => WholeTextsDecode
<1> DEFINE Decodes ==
      fifo # <<>> /\ fifo' = <<>> /\ ~cut =>
        LET first == written[1]
            last  == written[Len(written)]
            text  == cString(fifo)
            len   == Len(first.payload)
        IN  /\ got' = IF len > Len(text) THEN Threw
                      ELSE Message(first.type, first.client_pid,
                                   SubSeq(text, Len(text) - len + 1, Len(text)))
            /\ Nul \notin ToSet(fifo) /\ Len(last.payload) = len
                 => got'.payload = last.payload
<1>1. Inv /\ [Next]_vars => [Decodes]_vars
  <2> SUFFICES ASSUME Inv, Next, fifo # <<>>, fifo' = <<>>, ~cut
               PROVE  Decodes
    OBVIOUS
  <2> QED
    BY DrainIsRead, WholeRead
<1> QED
  BY <1>1, Invariance, PTL DEF Spec, WholeTextsDecode

\* Only a cut, or a NUL within the first message's length from the start, makes the server
\* throw, whatever the buffer and whatever else is in the FIFO.
THEOREM ThrowsOnlyOnCutOrNulHolds == Spec => ThrowsOnlyOnCutOrNul
<1> DEFINE Excused ==
      got' = Threw /\ got # Threw /\ ~cut' =>
        \E k \in DOMAIN fifo : k <= Len(written[1].payload) /\ fifo[k] = Nul
<1>1. Inv /\ [Next]_vars => [Excused]_vars
  <2> SUFFICES ASSUME Inv, Next, got' = Threw, got # Threw, ~cut'
               PROVE  \E k \in DOMAIN fifo : k <= Len(written[1].payload) /\ fifo[k] = Nul
    OBVIOUS
  <2>1. Read
    BY DEF Next, Write
  <2>2. ~cut /\ fifo' = <<>> /\ fifo # <<>>
    BY <2>1 DEF Read
  <2> PICK len : len = Len(written[1].payload)
    OBVIOUS
  <2>3. len \in Nat /\ len <= Len(fifo) /\ Len(fifo) \in Nat
    <3>1. written \in Seq(Messages) /\ written # <<>> /\ fifo \in Seq(Byte)
      BY <2>2 DEF Inv, Whole
    <3>2. 1 \in 1 .. Len(written)
      BY <3>1, EmptySeq, LenProperties
    <3>3. written[1].payload \in Seq(Byte)
      <4>1. written[1] \in Messages
        BY <3>1, <3>2, ElementOfSeq
      <4> QED
        BY <4>1 DEF Messages
    <3>4. len \in Nat /\ Len(fifo) \in Nat
      BY <3>1, <3>3, LenProperties
    <3> QED
      BY <2>1, <2>2, <3>4, WholeRead
  <2>4. len > Len(cString(fifo))
    <3>1. got' = IF len > Len(cString(fifo)) THEN Threw
                 ELSE Message(written[1].type, written[1].client_pid,
                              SubSeq(cString(fifo), Len(cString(fifo)) - len + 1,
                                     Len(cString(fifo))))
      BY <2>1, <2>2, WholeRead
    <3>2. \A a, b, p : Message(a, b, p).kind = "message" /\ Threw.kind = "threw"
      BY DEF Message, Threw
    <3> QED
      BY <3>1, <3>2
  <2>5. /\ Len(cString(fifo)) \in Nat
        /\ \/ cString(fifo) = fifo
           \/ /\ Len(cString(fifo)) + 1 \in 1 .. Len(fifo)
              /\ fifo[Len(cString(fifo)) + 1] = Nul
    BY ShortenedByNul DEF Inv
  <2>6. cString(fifo) # fifo
    BY <2>3, <2>4
  <2>7. Len(cString(fifo)) + 1 <= len
    BY <2>3, <2>4, <2>5
  <2>8. DOMAIN fifo = 1 .. Len(fifo)
    BY LenProperties DEF Inv
  <2> QED
    BY <2>5, <2>6, <2>7, <2>8
<1> QED
  BY <1>1, Invariance, PTL DEF Spec, ThrowsOnlyOnCutOrNul
=============================================================================
