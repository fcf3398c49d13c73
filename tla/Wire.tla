-------------------------------- MODULE Wire --------------------------------
(***************************************************************************)
(* The text of a message: Message::toString and Message::fromString of KP. *)
(* A text is a sequence of bytes: the digits, the space and the bytes that *)
(* are neither, NUL among them.  The payload is cut from the end of the    *)
(* text, its length is taken from the header.                              *)
(***************************************************************************)
EXTENDS Naturals, Sequences, SequencesExt

CONSTANT Byte   \* the characters of a text

Digit == <<"0", "1", "2", "3", "4", "5", "6", "7", "8", "9">>
Space == " "
Nul == "NUL"    \* the byte 0

ASSUME WireAssumption == ToSet(Digit) \cup {Space} \subseteq Byte

\* What becomes of a text that is not a whole message: substr throws out_of_range, or
\* variables that were never set decide.
Threw == [kind |-> "threw"]
Garbage == [kind |-> "garbage"]
Message(type, client_pid, payload) ==
  [kind |-> "message", type |-> type, client_pid |-> client_pid, payload |-> payload]

value(digit) == CHOOSE n \in 0 .. 9 : Digit[n + 1] = digit

decimal[n \in Nat] ==
  IF n < 10 THEN <<Digit[n + 1]>> ELSE Append(decimal[n \div 10], Digit[(n % 10) + 1])

\* Seeded fault: the length is that of the whole text.
toString_CountsAll(msg) ==
  LET header == decimal[msg.type] \o <<Space>> \o decimal[msg.client_pid] \o <<Space>>
  IN  header \o decimal[Len(header) + Len(msg.payload)] \o <<Space>> \o msg.payload

toString(msg) ==
  decimal[msg.type] \o <<Space>> \o decimal[msg.client_pid] \o <<Space>>
    \o decimal[Len(msg.payload)] \o <<Space>> \o msg.payload
-----------------------------------------------------------------------------
\* The number that a run of digits makes, one digit after another.
number(run) ==
  LET upTo[i \in 0 .. Len(run)] ==
        IF i = 0 THEN 0 ELSE 10 * upTo[i - 1] + value(run[i])
  IN  upTo[Len(run)]

\* Where the first byte of S is, 0 when there is none.
firstOf(text, S) == SelectInSeq(text, LAMBDA b : b \in S)

skipSpaces(text) ==
  LET start == firstOf(text, Byte \ {Space})
  IN  IF start = 0 THEN <<>> ELSE SubSeq(text, start, Len(text))

leadingDigits(text) ==
  LET stop == firstOf(text, Byte \ ToSet(Digit))
  IN  IF stop = 0 THEN text ELSE SubSeq(text, 1, stop - 1)

\* The stream operator >> for a number: spaces are skipped, digits are taken.
extract(text) ==
  LET rest == skipSpaces(text)
      run  == leadingDigits(rest)
  IN  [good |-> run # <<>>,
       number |-> number(run),
       rest |-> SubSeq(rest, Len(run) + 1, Len(rest))]

\* std::string(buffer): what is read ends at its first NUL.
cString(bytes) ==
  LET stop == firstOf(bytes, {Nul})
  IN  IF stop = 0 THEN bytes ELSE SubSeq(bytes, 1, stop - 1)

\* Seeded fault: the payload is what follows the header.
fromString_FollowsHeader(s) ==
  LET type == extract(s)
      pid  == extract(type.rest)
      len  == extract(pid.rest)
  IN  IF ~(type.good /\ pid.good /\ len.good) THEN Garbage
      ELSE Message(type.number, pid.number, Tail(len.rest))

\* s.size() - payload_len underflows when the text is shorter than the length says.
fromString(s) ==
  LET type == extract(s)
      pid  == extract(type.rest)
      len  == extract(pid.rest)
  IN  IF ~(type.good /\ pid.good /\ len.good) THEN Garbage
      ELSE IF len.number > Len(s) THEN Threw
      ELSE Message(type.number, pid.number, SubSeq(s, Len(s) - len.number + 1, Len(s)))
=============================================================================
