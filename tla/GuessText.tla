------------------------------ MODULE GuessText ------------------------------
(***************************************************************************)
(* KP: the way of a guess through the texts.  The clients write messages   *)
(* to the server's FIFO; the server reads what is there, at most ReadSize  *)
(* bytes, ends the text at its first NUL, takes it apart and scores a      *)
(* guess.  System and Game abstract from it; here the bytes are kept and   *)
(* the players left out.                                                   *)
(***************************************************************************)
EXTENDS Integers, Wire, Scoring

CONSTANTS
  Shuffled,    \* what std::shuffle may make of the digits
  Msg,         \* the messages that may be written
  GUESS_NUMBER,\* the type of a guess
  ReadSize,    \* sizeof(buffer) - 1
  MaxWritten   \* bound: how many messages are written

\* A shuffle loses and doubles no digit; a payload is any text, with NULs or without.
ASSUME GuessTextAssumption ==
  /\ \A digits \in Shuffled :
       digits \in Seq(DigitByte) /\ Len(digits) >= Length /\ distinct(digits)
  /\ Msg \subseteq [type : Nat, client_pid : Nat, payload : Seq(Byte)]
  /\ ReadSize \in Nat \ {0} /\ MaxWritten \in Nat

VARIABLES
  secret,   \* secret_number_
  fifo,     \* the bytes in the server's FIFO
  written,  \* history: the messages written since the FIFO was empty
  cut,      \* history: whether a read has left something in the FIFO
  count,    \* how many messages were written
  got,      \* what fromString made of the last read
  result    \* what the last guess scored

vars == <<secret, fifo, written, cut, count, got, result>>

NotAccepted == [bulls |-> -1, cows |-> -1]

Init ==
  /\ secret \in {generateSecretNumber(digits) : digits \in Shuffled}
  /\ fifo = <<>> /\ written = <<>> /\ cut = FALSE /\ count = 0
  /\ got = Garbage /\ result = NotAccepted

\* Seeded fault: a write takes only a part of the text.
Write_Partly(msg) ==
  /\ count < MaxWritten
  /\ count' = count + 1
  /\ fifo' = fifo \o SubSeq(toString(msg), 1, Len(toString(msg)) - Len(msg.payload))
  /\ written' = Append(written, msg)
  /\ UNCHANGED <<secret, cut, got, result>>

Write(msg) ==
  /\ count < MaxWritten
  /\ count' = count + 1
  /\ fifo' = fifo \o toString(msg)
  /\ written' = Append(written, msg)
  /\ UNCHANGED <<secret, cut, got, result>>

guess(word) ==
  IF wellFormed(word) THEN calculateBullsCows(secret, word) ELSE NotAccepted

\* A text that throws ends the server.
Read ==
  /\ fifo # <<>> /\ got # Threw
  /\ LET size == IF Len(fifo) < ReadSize THEN Len(fifo) ELSE ReadSize
         text == cString(SubSeq(fifo, 1, size))
     IN  /\ got' = fromString(text)
         /\ fifo' = SubSeq(fifo, size + 1, Len(fifo))
         /\ cut' = (cut \/ fifo' # <<>>)
  /\ written' = IF fifo' = <<>> THEN <<>> ELSE written
  /\ result' = IF got'.kind = "message" /\ got'.type = GUESS_NUMBER
               THEN guess(got'.payload) ELSE NotAccepted
  /\ UNCHANGED <<secret, count>>

Next == Read \/ \E msg \in Msg : Write(msg)

Spec == Init /\ [][Next]_vars
-----------------------------------------------------------------------------
(***************************************************************************)
(* Properties.                                                             *)
(***************************************************************************)

\* The codes of the game.
Codes == {word \in [1 .. Length -> DigitByte] : distinct(word)}

\* A secret is a code without a leading zero, however the digits were shuffled; and
\* scores stay in their range.
TypeOK ==
  /\ secret \in Codes /\ secret[1] # Zero
  /\ result \in [bulls : 0 .. Length, cows : 0 .. Length] \cup {NotAccepted}
  /\ count \in 0 .. MaxWritten /\ Len(written) <= count /\ cut \in BOOLEAN

\* A read that takes whole messages, one or several, finds the first one's length, type and
\* sender, whatever the payloads are.  The payload is as many of the last bytes before the
\* first NUL; without a NUL it is the last message's payload, when that is as long: with one
\* message, exactly what was sent.
WholeTextsDecode ==
  [][fifo # <<>> /\ fifo' = <<>> /\ ~cut =>
       LET first == written[1]
           last  == written[Len(written)]
           text  == cString(fifo)
           len   == Len(first.payload)
       IN  /\ got' = IF len > Len(text) THEN Threw
                     ELSE Message(first.type, first.client_pid,
                                  SubSeq(text, Len(text) - len + 1, Len(text)))
           /\ Nul \notin ToSet(fifo) /\ Len(last.payload) = len
                => got'.payload = last.payload]_vars

\* substr throws for two reasons only: a read has cut a message, or the payload of the first
\* message is long and a NUL comes so early that less than its length is left of the text.
\* Later messages, and a NUL in a short payload, never make it throw.
ThrowsOnlyOnCutOrNul ==
  [][got' = Threw /\ got # Threw /\ ~cut' =>
       \E k \in DOMAIN fifo : k <= Len(written[1].payload) /\ fifo[k] = Nul]_vars

\* What a guess scores is what the rules of the game say, four bulls being the secret
\* itself and nothing else: checked of every word before the first message.
reference(word) ==
  [bulls |-> Cardinality({i \in 1 .. Length : word[i] = secret[i]}),
   cows |-> Cardinality(ToSet(word) \cap ToSet(secret))
              - Cardinality({i \in 1 .. Length : word[i] = secret[i]})]

ScoresRight ==
  count = 0 =>
    \A word \in [1 .. Length -> DigitByte \cup {Space}] :
      /\ wellFormed(word) <=> word \in Codes
      /\ word \in Codes =>
           /\ calculateBullsCows(secret, word) = reference(word)
           /\ calculateBullsCows(secret, word).bulls = Length <=> word = secret
=============================================================================
