------------------------------- MODULE Animation -------------------------------
(***************************************************************************)
(* Animation_System::update for one entity: the frame and the place of the *)
(* sprite's source rectangle, by the clock, in the arithmetic of u32.      *)
(***************************************************************************)
EXTENDS Integers

CONSTANTS
  Second,   \* SDL_GetTicks() in a second, 1000
  Wrap      \* the values of a u32, 2^32

ASSUME AnimationAssumption == {Second, Wrap} \subseteq Nat \ {0}

\* SDL_GetTicks() when now milliseconds have gone by.
Ticks(now) == now % Wrap

\* The constructor, called at now; shouldLoop, which nothing reads, is left out.
NewAnimation(now, frameCount, frameSpeed) ==
  [frameCount |-> frameCount, frameSpeed |-> frameSpeed, startTime |-> Ticks(now)]

\* A mutant of CurrentFrame: the time is taken not to wrap around.
FrameWithoutWrap(a, now) ==
  LET elapsed == IF Ticks(now) >= a.startTime THEN Ticks(now) - a.startTime ELSE 0
  IN  (((elapsed * a.frameSpeed) % Wrap) \div Second) % a.frameCount

CurrentFrame(a, now) ==
  LET elapsed == (Ticks(now) - a.startTime) % Wrap
  IN  (((elapsed * a.frameSpeed) % Wrap) \div Second) % a.frameCount

SrcX(a, width, now) == (CurrentFrame(a, now) * width) % Wrap
==============================================================================
