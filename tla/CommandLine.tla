------------------------------ MODULE CommandLine ------------------------------
(***************************************************************************)
(* cli.py, which splits its arguments into commands and runs the script of *)
(* each, and what a script makes of its options (_helpers.py). An argument *)
(* is its whole text, what that begins with ("-", nothing at all, or       *)
(* another char) and, without a "-" in front, the key up to its first "="  *)
(* and the value after it, 0 without one. The text names a script, the key *)
(* an option.                                                              *)
(***************************************************************************)
EXTENDS Basics

IsOption(arg) == arg.begins = "-"

\* The loop over sys.argv at its beginning. i is the argument it is at; at and
\* options are cmds; used counts the options the script that runs has put into
\* dict; run are the commands that were run.
NewLoop ==
  [phase |-> "next", i |-> 1, at |-> 1, options |-> <<>>, used |-> 0, dict |-> <<>>, run |-> <<>>]

ArgumentsLeft(argv, loop) ==
  \/ loop.phase \in {"collect", "script"}
  \/ loop.phase = "next" /\ loop.i <= Len(argv)

\* A mutant of RunCommand: a script that is not there is passed over.
RunOrSkip(exit, name) == IF name \in DOMAIN exit THEN exit[name] ELSE 0

\* exit gives the exit code of each script in tools/, by the text that names it.
\* One with "_" in front is not refused: the path that is tested begins with "./".
RunCommand(exit, name) == IF name \in DOMAIN exit THEN exit[name] ELSE -1

\* run_command returns: the loop goes on only after SUCCESS.
Finish(argv, exit, loop) ==
  LET name == argv[loop.at].text
  IN [loop EXCEPT !.phase = IF RunCommand(exit, name) = 0 THEN "next" ELSE "failed",
                  !.i = @ + 1,
                  !.run = Append(@, [name |-> name, at |-> loop.at, dict |-> loop.dict])]

\* The inner loop, which takes the options; to look at the first char of an
\* empty argument raises. Then the script starts, if it is there.
Collect(argv, exit, loop) ==
  LET next == loop.i + 1
  IN IF next <= Len(argv) /\ argv[next].begins = "none"
     THEN [loop EXCEPT !.phase = "raised"]
     ELSE IF next <= Len(argv) /\ IsOption(argv[next])
     THEN [loop EXCEPT !.i = next, !.options = Append(@, argv[next])]
     ELSE IF argv[loop.at].text \in DOMAIN exit
     THEN [loop EXCEPT !.phase = "script"]
     ELSE Finish(argv, exit, loop)

\* process_args, an option at a time, without its "-": a key that comes again
\* replaces the value. Then the script does its work and exits.
RunScript(argv, exit, loop) ==
  IF loop.used < Len(loop.options)
  THEN LET arg == loop.options[loop.used + 1]
       IN [loop EXCEPT !.used = @ + 1, !.dict = Put(@, arg.key, arg.value)]
  ELSE Finish(argv, exit, loop)

\* One turn of the innermost loop that runs.
Turn(argv, exit, loop) ==
  CASE loop.phase = "next" ->
         [loop EXCEPT !.phase = "collect", !.at = loop.i, !.options = <<>>, !.used = 0, !.dict = <<>>]
    [] loop.phase = "collect" -> Collect(argv, exit, loop)
    [] loop.phase = "script" -> RunScript(argv, exit, loop)

\* A mutant of get_arg_value: the last of the names wins.
get_last_value(dict, names, default) ==
  LET found == {i \in DOMAIN names : names[i] \in DOMAIN dict}
  IN IF found = {} THEN default
     ELSE dict[names[CHOOSE i \in found : \A j \in found : j <= i]]

\* The value under the first of the names that was given.
get_arg_value(dict, names, default) ==
  LET found == {i \in DOMAIN names : names[i] \in DOMAIN dict}
  IN IF found = {} THEN default
     ELSE dict[names[CHOOSE i \in found : \A j \in found : i <= j]]
==============================================================================
