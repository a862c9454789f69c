-------------------------------- MODULE Basics --------------------------------
(***************************************************************************)
(* What the algorithms share: a map that is assigned to, and exclusive or  *)
(* on the hexadecimal digits of a number.                                  *)
(***************************************************************************)
EXTENDS Integers, Sequences

\* map[key] = value, of a C++ or Python map.
Put(map, key, value) ==
  [k \in DOMAIN map \cup {key} |-> IF k = key THEN value ELSE map[k]]

Digit == 0 .. 15

XorBit(a, b, weight) == weight * ((a \div weight + b \div weight) % 2)

XorDigit(a, b) == XorBit(a, b, 1) + XorBit(a, b, 2) + XorBit(a, b, 4) + XorBit(a, b, 8)

XorByte(a, b) == 16 * XorDigit(a \div 16, b \div 16) + XorDigit(a % 16, b % 16)
==============================================================================
