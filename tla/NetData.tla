-------------------------------- MODULE NetData --------------------------------
(***************************************************************************)
(* The data network/ works on: the body of a Message as a stack of values, *)
(* and the scrambled challenge of the handshake. A body is a sequence of   *)
(* bytes, a u64 a sequence of sixteen hexadecimal digits, the lowest first.*)
(***************************************************************************)
EXTENDS Basics

NewMessage == [body |-> <<>>, size |-> 0]

\* operator <<: the value's bytes at the end, and header.size with them.
Push(message, data) ==
  LET body == message.body \o data
  IN [body |-> body, size |-> Len(body)]

\* operator >> asks nothing of the body: on one shorter than the value the
\* position wraps around, and the copy is undefined.
Fits(message, n) == n <= Len(message.body)

\* A mutant of Position: values come off the wrong end.
PositionAtFront(message, n) == 0

\* Where operator >> reads n bytes from, if they fit.
Position(message, n) == Len(message.body) - n

\* operator >>: the value, and the message without it and what follows it.
Pull(message, n) ==
  LET position == Position(message, n)
      body == SubSeq(message.body, 1, position)
  IN [data |-> SubSeq(message.body, position + 1, position + n),
      message |-> [body |-> body, size |-> Len(body)]]

------------------------------------------------------------------------------
Word == 1 .. 16

Digits1 == <<10, 14, 15, 1, 8, 3, 11, 10, 2, 5, 8, 12, 3, 11, 10, 13>>  \* 0xDAB3C852AB381FEA
Digits2 == <<1, 0, 0, 0, 15, 13, 4, 8, 1, 13, 10, 8, 2, 13, 11, 10>>    \* 0xABD28AD184DF0001

Neighbour(i) == IF i % 2 = 1 THEN i + 1 ELSE i - 1

\* A mutant of Swap: the low half is not shifted up again.
SwapOneWay(digits) ==
  [i \in Word |-> IF i > 14 \/ i % 2 = 0 THEN 0 ELSE digits[Neighbour(i)]]

\* The digits of each byte change places; the masks have seven bytes, so that
\* the highest byte is lost.
Swap(digits) == [i \in Word |-> IF i > 14 THEN 0 ELSE digits[Neighbour(i)]]

scrambleData(input) ==
  LET out == Swap([i \in Word |-> XorDigit(input[i], Digits1[i])])
  IN [i \in Word |-> XorDigit(out[i], Digits2[i])]
==============================================================================
