------------------------------- MODULE Scoring -------------------------------
(***************************************************************************)
(* The arithmetic of the game, on the digits themselves: how a secret is   *)
(* made from shuffled digits, which guesses are taken and what they score. *)
(* Game abstracts from it (Code, Secret and fourBulls there).              *)
(***************************************************************************)
EXTENDS Naturals, Sequences, FiniteSets, SequencesExt

CONSTANT DigitByte   \* the digits

Length == 4
Zero == "0"

distinct(word) == \A i, j \in DOMAIN word : word[i] = word[j] => i = j

swap(s, i, j) == [s EXCEPT ![i] = s[j], ![j] = s[i]]

\* Seeded fault: a leading zero stays.
generateSecretNumber_NoSwap(shuffled) == SubSeq(shuffled, 1, Length)

\* shuffled is what std::shuffle makes of the digits.
generateSecretNumber(shuffled) ==
  SubSeq(IF shuffled[1] = Zero THEN swap(shuffled, 1, 2) ELSE shuffled, 1, Length)

\* Four bytes, each of them a digit that was not seen before it.
wellFormed(word) ==
  /\ Len(word) = Length
  /\ \A i \in 1 .. Length :
       word[i] \in DigitByte /\ word[i] \notin {word[j] : j \in 1 .. i - 1}

\* Seeded fault: a bull is a cow as well.
calculateBullsCows_Both(secret, guess) ==
  [bulls |-> Cardinality({i \in DOMAIN secret : secret[i] = guess[i]}),
   cows |-> Cardinality({i \in DOMAIN secret : secret[i] \in ToSet(guess)})]

\* A byte of the secret in its place is a bull, one found elsewhere a cow.
addPlace(secret, guess, score, i) ==
  IF secret[i] = guess[i] THEN [score EXCEPT !.bulls = @ + 1]
  ELSE IF \E j \in DOMAIN guess : secret[i] = guess[j]
       THEN [score EXCEPT !.cows = @ + 1]
  ELSE score

\* The loop over the secret.
calculateBullsCows(secret, guess) ==
  LET score[i \in 0 .. Len(secret)] ==
        IF i = 0 THEN [bulls |-> 0, cows |-> 0]
        ELSE addPlace(secret, guess, score[i - 1], i)
  IN  score[Len(secret)]
=============================================================================
