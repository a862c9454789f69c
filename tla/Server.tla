-------------------------------- MODULE Server --------------------------------
(***************************************************************************)
(* network::server::Server: the accept loop, which the thread of the       *)
(* server's io_context runs, against the list of connections, which that   *)
(* thread extends and the application's thread walks and shortens without  *)
(* a lock. What a connection does once it is made is module Connection;    *)
(* here it is only open or closed. processMessages is the consumer of      *)
(* module ThreadsafeQueue.                                                 *)
(*                                                                         *)
(* When the two threads are in m_connections at the same time the program  *)
(* may get away with it or not: then it is corrupt, and goes nowhere.      *)
(***************************************************************************)
EXTENDS Integers, Sequences, FiniteSets

CONSTANTS
  Clients,       \* the clients that may come, each once
  Null,          \* nullptr
  AcceptFaults,  \* how an accept may go wrong: "denied", "failed"
  MaxAccepts,    \* bound of the model: start() is called while fewer accepts wait
  MaxDirect      \* bound of the model: messageClient calls for a closed client

ASSUME ServerAssumption ==
  /\ Null \notin Clients
  /\ AcceptFaults \subseteq {"denied", "failed"}
  /\ MaxAccepts \in Nat
  /\ MaxDirect \in Nat

VARIABLES
  io,           \* the io_context, or how the program ended: "threw", "terminated"
  starting,     \* the application's thread is in start(), between its two lines
  joinable,     \* m_contextThread is
  accepts,      \* async_accepts that wait for a client
  accepting,    \* the client whose accept handler runs, and how far it is
  socket,       \* m_socket of each client's Connection, "away" before it comes
  ids,          \* m_id of each client's Connection
  idCounter,    \* m_idCounter
  connections,  \* m_connections
  broadcast,    \* messageAllClients, while the application's thread is in it
  notices,      \* calls of onClientDisconnect for each client
  direct,       \* those of them made by messageClient
  corrupt       \* m_connections was torn by the two threads

threadVars == <<io, starting, joinable>>
acceptVars == <<threadVars, accepts, accepting, socket, ids, idCounter>>
reportVars == <<notices, direct>>
vars == <<acceptVars, connections, broadcast, reportVars, corrupt>>

FirstId == 10000

Idle == [client |-> Null, stage |-> "idle"]

Quiet == [active |-> FALSE, at |-> 1, last |-> 0, ignored |-> Null,
          invalid |-> FALSE, told |-> {}]

Broadcasts == [active : BOOLEAN, at : Nat \ {0}, last : Nat, ignored : Clients \cup {Null},
               invalid : BOOLEAN, told : SUBSET Clients]

TypeOK ==
  /\ io \in {"off", "running", "stopped", "threw", "terminated"}
  /\ starting \in BOOLEAN /\ joinable \in BOOLEAN
  /\ accepts \in Nat
  /\ accepting \in [client : Clients \cup {Null}, stage : {"idle", "pushing", "pushed"}]
  /\ socket \in [Clients -> {"away", "open", "closed"}]
  /\ ids \in [Clients -> Nat]
  /\ idCounter \in Nat
  /\ connections \in Seq(Clients \cup {Null})
  /\ broadcast \in Broadcasts
  /\ broadcast.last <= Len(connections)
  /\ notices \in [Clients -> Nat]
  /\ direct \in [Clients -> Nat]
  /\ corrupt \in BOOLEAN

Init ==
  /\ io = "off"
  /\ starting = FALSE /\ joinable = FALSE
  /\ accepts = 0
  /\ accepting = Idle
  /\ socket = [c \in Clients |-> "away"]
  /\ ids = [c \in Clients |-> 0]
  /\ idCounter = FirstId
  /\ connections = <<>>
  /\ broadcast = Quiet
  /\ notices = [c \in Clients |-> 0]
  /\ direct = [c \in Clients |-> 0]
  /\ corrupt = FALSE

IoRuns  == io = "running" /\ ~ corrupt

\* The application's thread, in no call of the server, and in messageAllClients.
Alive == io \notin {"threw", "terminated"} /\ ~ corrupt
AppIdle == Alive /\ ~ starting /\ ~ broadcast.active
AppLoops == Alive /\ broadcast.active

\* A thread is in m_connections; it may be torn if the other one is as well.
Touch(otherIsIn) == corrupt' = corrupt \/ (otherIsIn /\ corrupt' = TRUE)

\* From the push_back to the last back() of the accept handler.
IoThreadIsIn == accepting # Idle

------------------------------------------------------------------------------
\* The application starts and stops the server

\* start(): another accept waits, whether or not the server runs ...
StartAccept ==
  /\ AppIdle
  /\ accepts < MaxAccepts
  /\ accepts' = accepts + 1
  /\ starting' = TRUE
  /\ UNCHANGED <<io, joinable, accepting, socket, ids, idCounter, connections, broadcast,
                 reportVars, corrupt>>

\* A mutant of StartThread: a thread that is there is kept.
StartUnlessJoinable ==
  /\ Alive /\ starting
  /\ starting' = FALSE
  /\ joinable' = TRUE
  /\ io' = IF io = "off" THEN "running" ELSE io
  /\ UNCHANGED <<accepts, accepting, socket, ids, idCounter, connections, broadcast,
                 reportVars, corrupt>>

\* ... and a new thread calls run(), which after a stop() returns at once, as
\* nothing restarts the context. A thread that was not joined since the last
\* start() is assigned to: std::terminate.
StartThread ==
  /\ Alive /\ starting
  /\ starting' = FALSE
  /\ joinable' = TRUE
  /\ io' = IF joinable THEN "terminated" ELSE IF io = "off" THEN "running" ELSE io
  /\ UNCHANGED <<accepts, accepting, socket, ids, idCounter, connections, broadcast,
                 reportVars, corrupt>>

\* stop(): the join waits for the handler that runs, if one does.
Stop ==
  /\ AppIdle
  /\ accepting = Idle
  /\ io' = "stopped"
  /\ joinable' = FALSE
  /\ UNCHANGED <<starting, accepts, accepting, socket, ids, idCounter, connections, broadcast,
                 reportVars, corrupt>>

------------------------------------------------------------------------------
\* The io_context's thread

\* The accept handler up to m_connections.push_back, for an approved client.
Accept(c) ==
  /\ IoRuns /\ accepts > 0
  /\ accepting = Idle
  /\ socket[c] = "away"
  /\ accepts' = accepts - 1
  /\ socket' = [socket EXCEPT ![c] = "open"]
  /\ accepting' = [client |-> c, stage |-> "pushing"]
  /\ UNCHANGED <<threadVars, ids, idCounter, connections, broadcast, reportVars, corrupt>>

Push ==
  /\ IoRuns
  /\ accepting.stage = "pushing"
  /\ connections' = Append(connections, accepting.client)
  /\ accepting' = [accepting EXCEPT !.stage = "pushed"]
  /\ Touch(broadcast.active)
  /\ UNCHANGED <<threadVars, accepts, socket, ids, idCounter, broadcast, reportVars>>

\* A mutant of FinishAccept: the counter stays where it is.
FinishSameId ==
  /\ IoRuns
  /\ accepting.stage = "pushed"
  /\ ids' = [ids EXCEPT ![connections[Len(connections)]] = idCounter]
  /\ accepts' = accepts + 1
  /\ accepting' = Idle
  /\ Touch(broadcast.active)
  /\ UNCHANGED <<threadVars, idCounter, socket, connections, broadcast, reportVars>>

\* m_connections.back()->connectToClient(this, m_idCounter++), then the next
\* accept. The back is read again, here and for the log, while the application's
\* thread may be in the list.
FinishAccept ==
  /\ IoRuns
  /\ accepting.stage = "pushed"
  /\ ids' = [ids EXCEPT ![connections[Len(connections)]] = idCounter]
  /\ idCounter' = idCounter + 1
  /\ accepts' = accepts + 1
  /\ accepting' = Idle
  /\ Touch(broadcast.active)
  /\ UNCHANGED <<threadVars, socket, connections, broadcast, reportVars>>

\* The handler throws out of run(), which ends the program: after a denial the
\* log asks the socket that was moved from for its endpoint, after an error the
\* socket that was never opened, and a client may be gone before line 43 asks.
AcceptThrows ==
  /\ IoRuns /\ accepts > 0
  /\ accepting = Idle
  /\ \/ "denied" \in AcceptFaults /\ \E c \in Clients : socket[c] = "away"
     \/ "failed" \in AcceptFaults
  /\ io' = "threw"
  /\ UNCHANGED <<starting, joinable, accepts, accepting, socket, ids, idCounter, connections,
                 broadcast, reportVars, corrupt>>

\* A Connection closes its socket: an error, an invalid answer, a disconnect().
CloseSocket(c) ==
  /\ IoRuns /\ accepting = Idle
  /\ socket[c] = "open"
  /\ socket' = [socket EXCEPT ![c] = "closed"]
  /\ UNCHANGED <<threadVars, accepts, accepting, ids, idCounter, connections, broadcast,
                 reportVars, corrupt>>

------------------------------------------------------------------------------
\* The application sends

NonNull(s) == {i \in DOMAIN s : s[i] # Null}

\* erase(remove(..., nullptr)): what is left, in the order it was in. The list
\* is given by its positions, each after the one before.
NoNulls(s) ==
  {[i \in DOMAIN f |-> s[f[i]]] : f \in
     {f \in [1 .. Cardinality(NonNull(s)) -> NonNull(s)] :
        /\ \A i, j \in DOMAIN f : i < j => f[i] < f[j]
        /\ \A p \in NonNull(s) : \E i \in DOMAIN f : f[i] = p}}

\* messageClient for a client that is not connected. The pointer is reset
\* before the erase, which therefore looks for nullptr and not for the client.
\* (For a connected one it is a send, see Connection.)
MessageClient(c) ==
  /\ AppIdle
  /\ socket[c] = "closed"
  /\ direct[c] < MaxDirect
  /\ direct' = [direct EXCEPT ![c] = @ + 1]
  /\ notices' = [notices EXCEPT ![c] = @ + 1]
  /\ connections' \in NoNulls(connections)
  /\ Touch(IoThreadIsIn)
  /\ UNCHANGED <<acceptVars, broadcast>>

\* messageAllClients: the loop takes the end of m_connections once.
BroadcastBegin(ignored) ==
  /\ AppIdle
  /\ broadcast' = [Quiet EXCEPT !.active = TRUE, !.last = Len(connections), !.ignored = ignored]
  /\ Touch(IoThreadIsIn)
  /\ UNCHANGED <<acceptVars, connections, reportVars>>

\* The loop meets a connection that is open ...
BroadcastSend ==
  /\ AppLoops /\ broadcast.at <= broadcast.last
  /\ LET c == connections[broadcast.at]
     IN /\ c # Null /\ socket[c] = "open"
        /\ broadcast' = [broadcast EXCEPT !.at = @ + 1,
                                          !.told = @ \cup ({c} \ {broadcast.ignored})]
  /\ Touch(IoThreadIsIn)
  /\ UNCHANGED <<acceptVars, connections, reportVars>>

\* A mutant of BroadcastDrop: the closed connection is erased there and then.
DropAtOnce ==
  /\ connections' = [i \in 1 .. Len(connections) - 1 |->
                       IF i < broadcast.at THEN connections[i] ELSE connections[i + 1]]
  /\ broadcast' = [broadcast EXCEPT !.at = @ + 1, !.last = @ - 1]

\* A mutant of BroadcastDrop: the pointer is not reset.
DropNothing ==
  /\ broadcast' = [broadcast EXCEPT !.at = @ + 1, !.invalid = TRUE]
  /\ UNCHANGED connections

\* What becomes of a connection that is not open.
BroadcastDrop ==
  /\ connections' = [connections EXCEPT ![broadcast.at] = Null]
  /\ broadcast' = [broadcast EXCEPT !.at = @ + 1, !.invalid = TRUE]

\* ... or one that is not: onClientDisconnect, and nullptr in its place.
BroadcastReport ==
  /\ AppLoops /\ broadcast.at <= broadcast.last
  /\ LET c == connections[broadcast.at]
     IN /\ c = Null \/ socket[c] # "open"
        /\ notices' = [d \in Clients |-> IF d = c THEN notices[d] + 1 ELSE notices[d]]
        /\ BroadcastDrop
  /\ Touch(IoThreadIsIn)
  /\ UNCHANGED <<acceptVars, direct>>

\* A mutant of BroadcastEnd: the pointers that were reset stay.
EndWithoutErase ==
  /\ AppLoops /\ broadcast.at > broadcast.last
  /\ broadcast' = Quiet
  /\ Touch(IoThreadIsIn)
  /\ UNCHANGED <<acceptVars, connections, reportVars>>

BroadcastEnd ==
  /\ AppLoops /\ broadcast.at > broadcast.last
  /\ connections' \in IF broadcast.invalid THEN NoNulls(connections) ELSE {connections}
  /\ broadcast' = Quiet
  /\ Touch(IoThreadIsIn)
  /\ UNCHANGED <<acceptVars, reportVars>>

------------------------------------------------------------------------------
Next ==
  \/ StartAccept \/ StartThread \/ Stop
  \/ \E c \in Clients : Accept(c) \/ CloseSocket(c) \/ MessageClient(c)
  \/ Push \/ FinishAccept \/ AcceptThrows
  \/ \E ignored \in Clients \cup {Null} : BroadcastBegin(ignored)
  \/ BroadcastSend \/ BroadcastReport \/ BroadcastEnd

Spec == Init /\ [][Next]_vars

------------------------------------------------------------------------------
\* Properties, of a program whose two threads have not met in m_connections

Listed(c) == {i \in DOMAIN connections : connections[i] = c}

\* A running server waits for the next client with one accept, whatever is
\* denied, closed, sent or broadcast; only a start() that runs has armed a second
\* one, and such a start() ends the program: no accept is ever armed twice in a
\* server that goes on (server.cpp:16-29,39-66).
AcceptorArmed ==
  ~ corrupt /\ io = "running" =>
    accepts = (IF accepting = Idle THEN 1 ELSE 0) + (IF starting THEN 1 ELSE 0)

\* Every client that was let in has an id of its own, although the handler that
\* gives it asks the list for its back again after the push_back, and not the
\* Connection it has made (server.cpp:49-53).
IdsUnique ==
  ~ corrupt =>
    \A c \in Clients :
      socket[c] # "away" /\ c # accepting.client =>
        /\ ids[c] \in FirstId .. idCounter - 1
        /\ \A d \in Clients \ {c} : ids[d] # ids[c]

\* No client is lost and none is there twice (server.cpp:68-100): an open one
\* is in m_connections once from its push_back on; a null pointer is there only
\* while messageAllClients runs.
ListSound ==
  ~ corrupt =>
    /\ \A c \in Clients :
         /\ Cardinality(Listed(c)) <= 1
         /\ socket[c] = "open" /\ accepting # [client |-> c, stage |-> "pushing"] => Listed(c) # {}
    /\ Listed(Null) # {} => broadcast.active

\* onClientDisconnect is called once for a connection that leaves the list, by
\* messageAllClients; messageClient calls it every time it meets a closed
\* client, and never removes that client (server.cpp:68-100).
LeavesReported ==
  ~ corrupt => \A c \in Clients :
    notices[c] = direct[c] + (IF socket[c] = "closed" /\ Listed(c) = {} THEN 1 ELSE 0)

\* When the loop of messageAllClients is over, every client that is open has
\* been sent the message, except the ignored one and those that came since the
\* loop began (server.cpp:81-100).
EveryoneIsTold ==
  ~ corrupt /\ broadcast.active /\ broadcast.at > broadcast.last =>
    \A c \in Clients : socket[c] = "open" =>
      \/ c \in broadcast.told \cup {broadcast.ignored}
      \/ \E i \in Listed(c) : i > broadcast.last
      \/ accepting = [client |-> c, stage |-> "pushing"]

\* What the log line of the denied branch (server.cpp:56) and the accept after
\* it (server.cpp:63) say: the client is denied and the server goes on.
SurvivesDenial == io # "threw"
==============================================================================
