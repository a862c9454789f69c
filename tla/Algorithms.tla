------------------------------ MODULE Algorithms ------------------------------
(***************************************************************************)
(* The algorithms of Lang, NetData, Collision, Animation, CommandLine and  *)
(* Profiling, each against what it is for. A behaviour is one call with    *)
(* one input, and then the turns of the loop the call runs; the functions  *)
(* without a loop have an input only.                                      *)
(***************************************************************************)
EXTENDS Lang, NetData, Collision, Animation, CommandLine, Profiling, FiniteSets

CONSTANTS
  Files,        \* the language files, as sequences of <<key, value>>
  DataValues,   \* what is pushed to a message, as bytes
  MaxPushes,    \* bound of the model: values in a message
  Challenges,   \* of the handshake
  Scenes,       \* what the collision system is given
  Moments,      \* animations, when they began, and when they are shown
  CommandLines, \* the arguments of cli.py and the exit codes of the scripts
  Names,        \* the two names of an option
  Signatures,   \* the names of functions
  Convention    \* the calling convention in them

Chars == 1 .. 255
Ascii == 1 .. 127

Arguments == [text : STRING, begins : {"-", "none", "other"}, key : STRING, value : Nat]

ASSUME AlgorithmsAssumption ==
  \* Keys have no spaces, and those of a file have hashes of their own.
  /\ \A file \in Files :
       /\ file \in Seq(Seq(Chars \ {Space}) \X Seq(Nat))
       /\ \A i, j \in DOMAIN file :
            hash_32_fnv1a(file[i][1]) = hash_32_fnv1a(file[j][1]) => file[i][1] = file[j][1]
  /\ DataValues \subseteq Seq(Nat)
  /\ MaxPushes \in Nat
  /\ Challenges \subseteq [Word -> Digit]
  \* A scale that is negative, which turns a box over, is no input.
  /\ \A scene \in Scenes : scene \in Seq([x : Int, y : Int, offset : Int,
                                          scale : Nat, width : Nat, height : Nat])
  \* Time goes on, and the frames of a sheet side by side fit a u32.
  /\ \A m \in Moments :
       /\ m \in [began : Nat, now : Nat, frameCount : Nat \ {0}, frameSpeed : Nat, width : Nat]
       /\ m.began <= m.now /\ m.frameCount * m.width <= Wrap
  /\ \A c \in CommandLines : c.argv \in Seq(Arguments) \ {<<>>} /\ c.exit \in [DOMAIN c.exit -> Int]
  /\ Names \in Seq(STRING) /\ Len(Names) = 2
  /\ \A s \in Signatures : s \in Seq(Nat)
  /\ Convention \in Seq(Nat) \ {<<>>}

VARIABLES
  call,   \* which algorithm, and with what
  loop    \* where its loop is and what it has so far

callVars == <<call, loop>>

NoCall == call = [kind |-> "none"] /\ loop = <<>>

Begin(kind, data, start) ==
  /\ call' = [kind |-> kind, data |-> data]
  /\ loop' = start

Call ==
  /\ call.kind = "none"
  /\ \/ \E file \in Files : Begin("file", file, NewTable)
     \/ Begin("message", <<>>, [message |-> NewMessage, pushed |-> <<>>])
     \/ \E a, b \in Challenges : Begin("challenges", <<a, b>>, <<>>)
     \/ \E scene \in Scenes : Begin("scene", scene, <<>>)
     \/ \E m \in Moments : Begin("moment", m, <<>>)
     \/ \E c \in CommandLines : Begin("arguments", c, NewLoop)
     \/ \E s \in Signatures : Begin("signature", s, NewClean)

\* The lines "key value" of a file.
Lines(file) == [i \in DOMAIN file |-> file[i][1] \o <<Space>> \o file[i][2]]

NextLine ==
  /\ call.kind = "file" /\ LinesLeft(Lines(call.data), loop)
  /\ loop' = ReadLine(Lines(call.data), loop)
  /\ UNCHANGED call

\* The sender of a message pushes what it likes. pushed are the values in it.
PushValue(data) ==
  /\ call.kind = "message" /\ Len(loop.pushed) < MaxPushes
  /\ loop' = [message |-> Push(loop.message, data), pushed |-> Append(loop.pushed, data)]
  /\ UNCHANGED call

LastPushed == loop.pushed[Len(loop.pushed)]

\* The reader pulls a value of the type that was pushed last.
PullValue ==
  /\ call.kind = "message" /\ loop.pushed # <<>>
  /\ loop' = [message |-> Pull(loop.message, Len(LastPushed)).message,
              pushed  |-> SubSeq(loop.pushed, 1, Len(loop.pushed) - 1)]
  /\ UNCHANGED call

NextArgument ==
  /\ call.kind = "arguments" /\ ArgumentsLeft(call.data.argv, loop)
  /\ loop' = Turn(call.data.argv, call.data.exit, loop)
  /\ UNCHANGED call

NextChar ==
  /\ call.kind = "signature" /\ CharsLeft(call.data, loop)
  /\ loop' = CleanAt(call.data, Convention, loop)
  /\ UNCHANGED call

NextStep ==
  \/ Call \/ NextLine \/ PullValue \/ NextArgument \/ NextChar
  \/ \E data \in DataValues : PushValue(data)

Calls == NoCall /\ [][NextStep]_callVars

------------------------------------------------------------------------------
\* The id a program computes at compile time of an ASCII key finds the value of
\* the last line that was read with it, whatever other keys the file has: the
\* constexpr hash and the one the reader uses agree on chars up to 127, though not
\* above, and the key ends at the first space (lang.h:17-38,52-72).
LookupFindsLastLine ==
  call.kind = "file" =>
    \A i \in 1 .. loop.read :
      /\ call.data[i][1] \in Seq(Ascii)
      /\ \A j \in i + 1 .. loop.read : call.data[j][1] # call.data[i][1]
      =>
        LET id == getLocalStringID(call.data[i][1])
        IN id \in DOMAIN loop.table /\ loop.table[id] = call.data[i][2]

\* Whoever pulls as many bytes as the last value in a message has gets that
\* value and does not read outside the body, whatever was pushed and pulled
\* before; and with the last value a message is empty again (message.h:26-53).
PulledAsPushed ==
  call.kind = "message" =>
    /\ loop.message.size = Len(loop.message.body)
    /\ loop.pushed = <<>> => loop.message = NewMessage
    /\ loop.pushed # <<>> =>
         /\ Fits(loop.message, Len(LastPushed))
         /\ Pull(loop.message, Len(LastPushed)).data = LastPushed

\* Two challenges have the same answer only if they differ in nothing but the
\* highest byte, which the masks drop (connection.cpp:218-222).
AnswersTellApart ==
  call.kind = "challenges" =>
    (scrambleData(call.data[1]) = scrambleData(call.data[2])
       <=> \A i \in 1 .. 14 : call.data[1][i] = call.data[2][i])

\* Two boxes meet along an axis if they have a pixel in common there. One without
\* extent has none: it meets the one it is strictly inside of.
Meet(a, length, b, other) ==
  \/ (a .. a + length - 1) \cap (b .. b + other - 1) # {}
  \/ length = 0 /\ b < a /\ a < b + other
  \/ other = 0 /\ a < b /\ b < a + length

Overlap(r, q) == Meet(r.x, r.w, q.x, q.w) /\ Meet(r.y, r.h, q.y, q.h)

\* Each two entities whose boxes have a pixel in common are reported, once; to
\* touch is not to collide. A box without extent, the default of Box_Collider,
\* covers no pixel and is reported nevertheless, with each box it lies strictly
\* inside of; no others are (collision_system.cpp:24-62, box_collider.h:12).
CollidedOverlap ==
  call.kind = "scene" =>
    /\ \A i, j \in DOMAIN call.data : i < j =>
         (Overlap(Rectangle(call.data[i]), Rectangle(call.data[j]))
            <=> <<i, j>> \in Collided(call.data))
    /\ \A p \in Collided(call.data) : p[1] < p[2]

\* The frame that shows is the one real time asks for, also across the wrap of
\* SDL_GetTicks, as long as time since the start times speed fits a u32: beyond
\* that the animation jumps (animation_system.cpp:19-20).
AnimatedOnTime ==
  call.kind = "moment" =>
    LET m == call.data
        frames == (m.now - m.began) * m.frameSpeed
    IN frames < Wrap =>
         SrcX(NewAnimation(m.began, m.frameCount, m.frameSpeed), m.width, m.now)
           = m.width * ((frames \div Second) % m.frameCount)

\* Where the commands are: the first argument, and each that is no option.
Typed(argv) == {i \in DOMAIN argv : i = 1 \/ ~ IsOption(argv[i])}

Started == {loop.run[c].at : c \in DOMAIN loop.run}

\* cli.py runs the commands in the order they are typed, none is passed over, and
\* each one only if all before it succeeded; and it stops early for no other
\* reason than a failure, one without a script included, or an empty argument
\* right after the options of the command it would run next. A command is its
\* whole argument: a "-" in front of the first, or a "=", makes it one that has
\* no script (cli.py:16-60).
ChainStopsAtFailure ==
  call.kind = "arguments" =>
    LET argv == call.data.argv
        exit == call.data.exit
        run == loop.run
        succeeds(c) == run[c].name \in DOMAIN exit /\ exit[run[c].name] = 0
    IN /\ Started \subseteq Typed(argv)
       /\ \A c \in DOMAIN run : run[c].name = argv[run[c].at].text
       /\ \A s \in Started : \A i \in Typed(argv) : i < s => i \in Started
       /\ \A c \in 1 .. Len(run) - 1 : run[c].at < run[c + 1].at /\ succeeds(c)
       /\ ~ ArgumentsLeft(argv, loop) =>
            \/ Started = Typed(argv)
            \/ run # <<>> /\ ~ succeeds(Len(run))
            \/ \E i \in Typed(argv) \ Started :
                 /\ \A j \in Typed(argv) : j < i => j \in Started
                 /\ \E k \in i + 1 .. Len(argv) :
                      argv[k].begins = "none" /\ \A j \in i + 1 .. k - 1 : IsOption(argv[j])

\* What a script reads under a name with an alias is the last value typed under
\* that name, under the alias only where the name is not typed, between its own
\* command and the next, and nothing of the others (cli.py:49-56,
\* _helpers.py:6-25).
OptionsReachTheirCommand ==
  call.kind = "arguments" =>
    LET argv == call.data.argv
        own(s, key) ==
          {j \in s + 1 .. Len(argv) :
             argv[j].key = key /\ \A k \in s + 1 .. j : IsOption(argv[k])}
        IsLast(s, key, value) ==
          \E j \in own(s, key) : argv[j].value = value /\ \A k \in own(s, key) : k <= j
    IN \A c \in DOMAIN loop.run :
         LET s == loop.run[c].at
             got == get_arg_value(loop.run[c].dict, Names, -1)
         IN loop.run[c].name \in DOMAIN call.data.exit =>
              IF own(s, Names[1]) # {} THEN IsLast(s, Names[1], got)
              ELSE IF own(s, Names[2]) # {} THEN IsLast(s, Names[2], got)
              ELSE got = -1

\* Each calling convention leaves the name, every quote that is left is one JSON
\* can hold, and no other char is lost or moves, in a name whose matches have
\* chars between them: the one after a match is copied without a look
\* (instrumentor.h:151-167).
SignaturesCleaned ==
  call.kind = "signature" =>
    LET n == Len(Convention)
        found == {i \in DOMAIN call.data : OccursAt(Convention, call.data, i)}
        kept == {i \in DOMAIN call.data : \A k \in found : i \notin k .. k + n - 1}
        Rank(i) == Cardinality(kept \cap 1 .. i)
    IN (\A i, k \in found : i < k => i + n < k) =>
         /\ Len(loop.Data) = Rank(loop.src - 1)
         /\ \A i \in kept : i < loop.src => loop.Data[Rank(i)] = Clean(call.data[i])
==============================================================================
