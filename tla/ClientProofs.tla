----------------------------- MODULE ClientProofs -----------------------------
(***************************************************************************)
(* Theorems about Client, for any number of lives and waiting handlers.    *)
(*                                                                         *)
(* The heart of both safety theorems is that the io_context is never       *)
(* restarted: as long as it is not stopped there has been one life at      *)
(* most, so that every handler that waits is of the Connection that is     *)
(* there; and a game that does not misuse the client cannot destroy that   *)
(* Connection before it has joined the thread.                             *)
(***************************************************************************)
EXTENDS Client, TLAPS

\* No handler waits for a Connection that was never made.
WorkInv == \A n \in Lives : work[n] > 0 => n <= lives

\* Why a life that is served is the first and only one.
LifeInv ==
  /\ program = "runs"
  /\ lives > 1 => stopped
  /\ lives > 0 /\ ~ stopped => connection = lives
  /\ served \subseteq {1}

\* What the game's thread and the io_context's know of each other.
ThreadInv ==
  /\ app = "joining" => stopped
  /\ app = "connecting" => thread = "none"
  /\ app # "connecting" /\ thread = "none" /\ lives > 0 => stopped
  /\ handling # None => thread = "running" /\ handling = connection

ClientInv == ~ misused => LifeInv /\ ThreadInv

IInv == TypeOK /\ WorkInv /\ ClientInv

------------------------------------------------------------------------------
\* A Client that was just constructed satisfies the invariant (client.h:15,30-33).
LEMMA InitHolds ==
  ASSUME Init
  PROVE  IInv
  <1>1. TypeOK
    <2>1. lives \in 0 .. MaxLives
      BY ClientAssumption DEF Init
    <2>2. work \in [Lives -> Nat]
      BY DEF Init
    <2>3. QED
      BY <2>1, <2>2 DEF Init, TypeOK
  <1>2. WorkInv
    BY DEF Init, WorkInv
  <1>3. ClientInv
    BY DEF Init, ClientInv, LifeInv, ThreadInv
  <1>4. QED
    BY <1>1, <1>2, <1>3 DEF IInv

\* Handlers are posted for the Connection that is there, and follow others of
\* their own.
LEMMA WorkIsKept ==
  ASSUME TypeOK, WorkInv, [Next]_vars
  PROVE  WorkInv'
  <1>1. CASE Connect
    BY <1>1, ClientAssumption DEF Connect, TypeOK, WorkInv, Lives, Post
  <1>2. CASE StartThread
    BY <1>2 DEF StartThread, WorkInv
  <1>3. CASE Send
    BY <1>3, ClientAssumption
    DEF Send, TypeOK, WorkInv, gameVars, Post, isConnected
  <1>4. CASE SetId
    BY <1>4 DEF SetId, WorkInv, contextVars
  <1>5. CASE Disconnect
    BY <1>5, ClientAssumption DEF Disconnect, TypeOK, WorkInv, Post, isConnected
  <1>6. CASE Stop
    BY <1>6 DEF Stop, WorkInv
  <1>7. CASE JoinAndReset
    BY <1>7 DEF JoinAndReset, WorkInv, Lives, None
  <1>8. ASSUME NEW n \in Lives, BeginHandler(n) PROVE WorkInv'
    BY <1>8 DEF BeginHandler, TypeOK, WorkInv, gameVars, Lives, None
  <1>9. CASE EndHandler
    BY <1>9, ClientAssumption
    DEF EndHandler, TypeOK, WorkInv, gameVars, Lives, None
  <1>10. CASE RunReturns
    BY <1>10 DEF RunReturns, WorkInv, gameVars
  <1>11. CASE UNCHANGED vars
    BY <1>11 DEF vars, gameVars, contextVars, WorkInv
  <1>12. QED
    BY <1>1, <1>2, <1>3, <1>4, <1>5, <1>6, <1>7, <1>8, <1>9, <1>10, <1>11 DEF Next

\* Every step keeps the types.
LEMMA TypesAreKept ==
  ASSUME TypeOK, WorkInv, [Next]_vars
  PROVE  TypeOK'
  <1>1. CASE Connect
    BY <1>1, ClientAssumption DEF Connect, TypeOK, Lives, Post, WorkInv
  <1>2. CASE StartThread
    BY <1>2 DEF StartThread, TypeOK
  <1>3. CASE Send
    BY <1>3, ClientAssumption DEF Send, TypeOK, gameVars, Lives, None, Post, isConnected
  <1>4. CASE SetId
    BY <1>4 DEF SetId, TypeOK, contextVars
  <1>5. CASE Disconnect
    BY <1>5, ClientAssumption DEF Disconnect, TypeOK, Post, WorkInv
  <1>6. CASE Stop
    BY <1>6 DEF Stop, TypeOK
  <1>7. CASE JoinAndReset
    BY <1>7 DEF JoinAndReset, TypeOK
  <1>8. ASSUME NEW n \in Lives, BeginHandler(n) PROVE TypeOK'
    BY <1>8, ClientAssumption DEF BeginHandler, TypeOK, gameVars, Lives, WorkInv
  <1>9. CASE EndHandler
    <2>1. PICK follows \in 0 .. 1 : work' = [work EXCEPT ![handling] = @ + follows]
      BY <1>9 DEF EndHandler
    <2>2. handling \in Lives /\ work[handling] + follows \in Nat
      BY <1>9, <2>1, ClientAssumption DEF EndHandler, TypeOK, WorkInv, Lives
    <2>3. work' \in [Lives -> Nat]
      BY <2>1, <2>2 DEF TypeOK
    <2>4. QED
      BY <1>9, <2>3 DEF EndHandler, TypeOK, gameVars
  <1>10. CASE RunReturns
    BY <1>10 DEF RunReturns, TypeOK, gameVars
  <1>11. CASE UNCHANGED vars
    BY <1>11 DEF vars, gameVars, contextVars, TypeOK
  <1>12. QED
    BY <1>1, <1>2, <1>3, <1>4, <1>5, <1>6, <1>7, <1>8, <1>9, <1>10, <1>11 DEF Next

\* Every step, of the game or of the io_context, keeps what a Client that is not
\* misused relies on.
LEMMA ClientIsKept ==
  ASSUME IInv, [Next]_vars
  PROVE  ClientInv'
  <1>0. TypeOK /\ WorkInv /\ ClientInv
    BY DEF IInv
  <1>1. CASE Connect
    <2>1. SUFFICES ASSUME ~ misused' PROVE (LifeInv /\ ThreadInv)'
      BY DEF ClientInv
    <2>2. LifeInv /\ ThreadInv /\ thread = "none"
      BY <1>0, <1>1, <2>1 DEF Connect, ClientInv
    <2>3. LifeInv'
      BY <1>0, <1>1, <2>2 DEF Connect, LifeInv, ThreadInv, TypeOK
    <2>4. ThreadInv'
      BY <1>1, <2>2 DEF Connect, ThreadInv
    <2>5. QED
      BY <2>3, <2>4
  <1>2. CASE StartThread
    BY <1>2, <1>0 DEF StartThread, ClientInv, LifeInv, ThreadInv
  <1>3. CASE Send
    BY <1>3, <1>0 DEF Send, ClientInv, LifeInv, ThreadInv, gameVars
  <1>4. CASE SetId
    BY <1>4, <1>0 DEF SetId, ClientInv
  <1>5. CASE Disconnect
    BY <1>5, <1>0 DEF Disconnect, ClientInv, LifeInv, ThreadInv
  <1>6. CASE Stop
    BY <1>6, <1>0 DEF Stop, ClientInv, LifeInv, ThreadInv
  <1>7. CASE JoinAndReset
    BY <1>7, <1>0 DEF JoinAndReset, ClientInv, LifeInv, ThreadInv
  <1>8. ASSUME NEW n \in Lives, BeginHandler(n) PROVE ClientInv'
    BY <1>8, <1>0
    DEF BeginHandler, TypeOK, WorkInv, ClientInv, LifeInv, ThreadInv, gameVars, Lives
  <1>9. CASE EndHandler
    BY <1>9, <1>0 DEF EndHandler, ClientInv, LifeInv, ThreadInv, gameVars
  <1>10. CASE RunReturns
    BY <1>10, <1>0 DEF RunReturns, ClientInv, LifeInv, ThreadInv, gameVars
  <1>11. CASE UNCHANGED vars
    BY <1>0, <1>11
    DEF vars, gameVars, contextVars, ClientInv, LifeInv, ThreadInv
  <1>12. QED
    BY <1>1, <1>2, <1>3, <1>4, <1>5, <1>6, <1>7, <1>8, <1>9, <1>10, <1>11 DEF Next

\* The inductive invariant holds in every state of a Client (client.cpp:9-59).
THEOREM Invariant == Spec => []IInv
  <1>1. Init => IInv
    BY InitHolds
  <1>2. IInv /\ [Next]_vars => IInv'
    BY WorkIsKept, TypesAreKept, ClientIsKept DEF IInv
  <1>3. QED
    BY <1>1, <1>2, PTL DEF Spec

------------------------------------------------------------------------------
\* The variables of a Client keep their types, over any number of lives
\* (client.cpp:13-47).
THEOREM TypeCorrect == Spec => []TypeOK
  <1>1. IInv => TypeOK
    BY DEF IInv
  <1>2. QED
    BY <1>1, Invariant, PTL

\* However often a game connects and disconnects, and whatever handlers are left
\* in the io_context, a Client ends the program only if it is misused
\* (client.cpp:9-41).
THEOREM NeverUnsafe == Spec => []SafeUnlessMisused
  <1>1. IInv => SafeUnlessMisused
    BY DEF IInv, ClientInv, LifeInv, SafeUnlessMisused
  <1>2. QED
    BY <1>1, Invariant, PTL

\* No life of a Client but the first is served, however many there are
\* (client.cpp:22,36).
THEOREM FirstOnly == Spec => []OnlyFirstIsServed
  <1>1. IInv => OnlyFirstIsServed
    BY DEF IInv, ClientInv, LifeInv, OnlyFirstIsServed
  <1>2. QED
    BY <1>1, Invariant, PTL
==============================================================================
