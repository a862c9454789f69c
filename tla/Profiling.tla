------------------------------- MODULE Profiling -------------------------------
(***************************************************************************)
(* cleanupOutputString, which takes the calling convention out of the name *)
(* of a profiled function when the program is compiled. A string is the    *)
(* sequence of its chars, without the zero at its end.                     *)
(***************************************************************************)
EXTENDS Integers, Sequences

Quote == 34
Apostrophe == 39

OccursAt(remove, expr, i) ==
  /\ i + Len(remove) - 1 <= Len(expr)
  /\ \A k \in DOMAIN remove : expr[i + k - 1] = remove[k]

Clean(char) == IF char = Quote THEN Apostrophe ELSE char

\* The loop of cleanupOutputString: where it is in expr, and result.Data.
NewClean == [src |-> 1, Data |-> <<>>]

CharsLeft(expr, loop) == loop.src <= Len(expr)

\* A mutant of CleanAt: the char after what is removed is removed as well.
CleanOneMore(expr, remove, loop) ==
  IF OccursAt(remove, expr, loop.src)
  THEN [loop EXCEPT !.src = @ + Len(remove) + 1]
  ELSE [src |-> loop.src + 1, Data |-> Append(loop.Data, Clean(expr[loop.src]))]

\* One turn: what matches here is passed over, and the char after it is copied
\* without another look; after the last it is the zero at the end.
CleanAt(expr, remove, loop) ==
  LET src == IF OccursAt(remove, expr, loop.src) THEN loop.src + Len(remove) ELSE loop.src
  IN [src  |-> src + 1,
      Data |-> IF src > Len(expr) THEN loop.Data ELSE Append(loop.Data, Clean(expr[src]))]
==============================================================================
