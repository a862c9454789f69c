----------------------------- MODULE MCAlgorithms -----------------------------
(* Inputs of Algorithms for TLC. *)
EXTENDS Algorithms, SequencesExt

\* Some keys are prefixes of each other, one is empty, one is not ASCII, and a
\* value may hold spaces.
Keys == {<<>>, <<65>>, <<65, 66>>, <<66, 65>>, <<127>>, <<200, 65>>}
Texts == {<<>>, <<120>>, <<120, Space, 65>>}
MCFiles == BoundedSeq(Keys \X Texts, 3)

MCDataValues == {<<1>>, <<2>>, <<1, 2>>, <<2, 1>>, <<1, 1, 2>>}

\* Challenges that differ from a common one in one digit.
MCChallenges == {[Digits1 EXCEPT ![i] = d] : i \in Word, d \in {0, 7, 15}}

\* Three colliders on a small plane: inside, crossing, touching, apart, scaled,
\* and some without extent, the scale 0 included.
Colliders ==
  [x : {0, 1}, y : {0, 1}, offset : {0, 1}, scale : {1, 2}, width : {0, 1, 3}, height : {0, 2}]
    \cup [x : {1}, y : {1}, offset : {0}, scale : {0}, width : {1}, height : {2}]
MCScenes ==
  {<<a, b, c>> : a, b \in Colliders,
                 c \in {d \in Colliders : d.offset = 0 /\ d.x = 0 /\ d.y = 0 /\ d.scale = 1}}

\* Animations that begin before and after the clock wraps around.
MCMoments ==
  {m \in [began : 0 .. Wrap + 1, now : 0 .. Wrap + 4, frameCount : 1 .. 3,
          frameSpeed : 0 .. 6, width : {2}] : m.began <= m.now}

\* Scripts that may fail, options with two names for one thing, an empty argument,
\* and texts that have the key of a script and name none.
Argument(text, begins, key, value) ==
  [text |-> text, begins |-> begins, key |-> key, value |-> value]
MCArguments ==
  {Argument("build", "other", "build", 0), Argument("run", "other", "run", 0),
   Argument("build=1", "other", "build", 1), Argument("-build", "-", "build", 0),
   Argument("-project=1", "-", "project", 1), Argument("-p", "-", "p", 0),
   Argument("-p=2", "-", "p", 2), Argument("", "none", "", 0)}
MCNames == <<"project", "p">>
MCCommandLines ==
  {[argv |-> argv, exit |-> exit] : argv \in BoundedSeq(MCArguments, 4) \ {<<>>},
                                    exit \in [{"build", "run"} -> {0, 1}]}

\* Signatures that hold the calling convention and quotes.
MCConvention == <<1, 2>>
MCSignatures == BoundedSeq({1, 2, Quote}, 6)
==============================================================================
