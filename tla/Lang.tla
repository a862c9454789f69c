--------------------------------- MODULE Lang ---------------------------------
(***************************************************************************)
(* lang.h: the two FNV-1a hashes and the reader of language files. A       *)
(* string is a sequence of bytes. A u32 is <<high, low>>, 16 bits each.    *)
(***************************************************************************)
EXTENDS Basics

Space == 32
val_32_const == <<33052, 40389>>   \* 0x811c9dc5

\* Times 0x1000193, that is 2^24 + 403.
TimesPrime(h) ==
  LET low == h[2] * 403
  IN <<(h[1] * 403 + low \div 65536 + (h[2] % 256) * 256) % 65536, low % 65536>>

\* The hash with its lowest byte changed.
XorLow(h, byte) == <<h[1], 256 * (h[2] \div 256) + XorByte(h[2] % 256, byte)>>

\* A mutant of Step: first the product, as FNV-1 has it.
StepProductFirst(h, byte) == XorLow(TimesPrime(h), byte)

\* One round of hash_32_fnv1a: the char goes through a uint8_t.
Step(h, byte) == TimesPrime(XorLow(h, byte))

hash_32_fnv1a(str) ==
  LET hash[n \in 0 .. Len(str)] == IF n = 0 THEN val_32_const ELSE Step(hash[n - 1], str[n])
  IN hash[Len(str)]

\* One round of hash_32_fnv1a_const: a char above 127 is negative, and its sign
\* inverts the three other bytes.
StepConst(h, byte) ==
  LET x == XorLow(h, byte)
  IN TimesPrime(IF byte < 128 THEN x
                ELSE <<65535 - x[1], 256 * (255 - x[2] \div 256) + (x[2] % 256)>>)

\* The recursion ends at the terminating zero, which the sequence leaves out.
hash_32_fnv1a_const(str) ==
  LET hash[n \in 0 .. Len(str)] == IF n = 0 THEN val_32_const ELSE StepConst(hash[n - 1], str[n])
  IN hash[Len(str)]

getLocalStringID(str) == hash_32_fnv1a_const(str)

\* find_first_of(' '), 0 for npos.
FirstSpace(line) ==
  LET spaces == {i \in DOMAIN line : line[i] = Space}
  IN IF spaces = {} THEN 0 ELSE CHOOSE i \in spaces : \A j \in spaces : i <= j

\* The table with one more line: the key ends at the first space, and the value
\* begins after it; without a space, npos + 1 = 0 makes both the whole line.
AddLine(table, line) ==
  LET pos == FirstSpace(line)
      key == IF pos = 0 THEN line ELSE SubSeq(line, 1, pos - 1)
      value == SubSeq(line, pos + 1, Len(line))
  IN Put(table, hash_32_fnv1a(key), value)

\* The loop of readLanguageFile over the lines of a file.
NewTable == [read |-> 0, table |-> <<>>]

LinesLeft(lines, loop) == loop.read < Len(lines)

ReadLine(lines, loop) ==
  [read |-> loop.read + 1, table |-> AddLine(loop.table, lines[loop.read + 1])]
==============================================================================
