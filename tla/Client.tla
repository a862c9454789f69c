-------------------------------- MODULE Client --------------------------------
(***************************************************************************)
(* network::client::Client over several calls of connect() and             *)
(* disconnect(): which Connection there is, what the thread of the         *)
(* io_context does, and which handlers wait there. What handlers do is     *)
(* module Connection; here a handler is a visit to the Connection whose    *)
(* `this` it captured.                                                     *)
(***************************************************************************)
EXTENDS Integers

CONSTANTS
  MaxLives,  \* bound of the model: Connections that are made
  MaxWork    \* bound of the model: handlers that wait when the game sends

ASSUME ClientAssumption ==
  /\ MaxLives \in Nat \ {0}
  /\ MaxWork \in Nat \ {0}

VARIABLES
  program,     \* "runs", or what ended it: "terminated", "undefined"
  app,         \* where the game's thread is
  lives,       \* how many Connections were made
  connection,  \* m_connection, None for nullptr
  open,        \* its socket is open
  stopped,     \* the io_context is stopped
  thread,      \* m_contextThread
  handling,    \* the Connection whose handler that thread runs, or None
  work,        \* handlers of each Connection that wait, or will when their operation is over
  served,      \* the Connections that had a handler run
  misused      \* connect() with a thread there, or setId() with no connection

gameVars == <<app, lives, connection, misused>>
contextVars == <<stopped, thread, handling, work, served>>
vars == <<program, gameVars, open, contextVars>>

None == 0
Lives == 1 .. MaxLives

TypeOK ==
  /\ program \in {"runs", "terminated", "undefined"}
  /\ app \in {"idle", "connecting", "disconnecting", "joining", "destroyed"}
  /\ lives \in 0 .. MaxLives
  /\ connection \in {None, lives}
  /\ open \in BOOLEAN
  /\ stopped \in BOOLEAN
  /\ thread \in {"none", "running", "returned"}
  /\ handling \in {None} \cup 1 .. lives
  /\ work \in [Lives -> Nat]
  /\ served \subseteq 1 .. lives
  /\ misused \in BOOLEAN

Init ==
  /\ program = "runs"
  /\ app = "idle"
  /\ lives = 0
  /\ connection = None
  /\ open = FALSE
  /\ stopped = FALSE
  /\ thread = "none"
  /\ handling = None
  /\ work = [n \in Lives |-> 0]
  /\ served = {}
  /\ misused = FALSE

Waits == \E n \in Lives : work[n] > 0

isConnected == connection # None /\ open

Post(n) == work' = [work EXCEPT ![n] = @ + 1]

------------------------------------------------------------------------------
\* The game's thread

\* A mutant of Connect: the io_context is restarted.
ConnectRestarts ==
  /\ program = "runs" /\ app = "idle"
  /\ lives < MaxLives
  /\ lives' = lives + 1
  /\ connection' = lives + 1
  /\ open' = TRUE
  /\ Post(lives + 1)
  /\ misused' = (misused \/ thread # "none")
  /\ stopped' = FALSE
  /\ app' = "connecting"
  /\ UNCHANGED <<program, thread, handling, served>>

\* connect() of a host that resolves: a new Connection, which destroys the old
\* one, and async_connect, which opens its socket. For any other host connect()
\* returns false and nothing has changed.
Connect ==
  /\ program = "runs" /\ app = "idle"
  /\ lives < MaxLives
  /\ lives' = lives + 1
  /\ connection' = lives + 1
  /\ open' = TRUE
  /\ Post(lives + 1)
  /\ misused' = (misused \/ thread # "none")
  /\ app' = "connecting"
  /\ UNCHANGED <<program, stopped, thread, handling, served>>

\* Then the thread. Assigning to one that was not joined is std::terminate.
StartThread ==
  /\ program = "runs" /\ app = "connecting"
  /\ IF thread = "none"
     THEN thread' = "running" /\ app' = "idle" /\ UNCHANGED program
     ELSE program' = "terminated" /\ UNCHANGED <<thread, app>>
  /\ UNCHANGED <<lives, connection, misused, open, stopped, handling, work, served>>

\* send(): posted if the socket is open. The code posts without limit: MaxWork
\* is the model's.
Send ==
  /\ program = "runs" /\ app = "idle"
  /\ isConnected
  /\ work[connection] < MaxWork
  /\ Post(connection)
  /\ UNCHANGED <<program, gameVars, open, stopped, thread, handling, served>>

\* setId() does not ask whether there is a connection.
SetId ==
  /\ program = "runs" /\ app = "idle"
  /\ connection = None
  /\ program' = "undefined"
  /\ misused' = TRUE
  /\ UNCHANGED <<app, lives, connection, open, contextVars>>

\* disconnect() and ~Client(): the close is posted ...
Disconnect ==
  /\ program = "runs" /\ app = "idle"
  /\ IF isConnected THEN Post(connection) ELSE UNCHANGED work
  /\ app' = "disconnecting"
  /\ UNCHANGED <<program, lives, connection, misused, open, stopped, thread, handling, served>>

\* A mutant of Stop: the io_context goes on.
StopForgotten ==
  /\ program = "runs" /\ app = "disconnecting"
  /\ app' = "joining"
  /\ UNCHANGED <<program, lives, connection, misused, open, contextVars>>

\* A mutant of Stop: the connection is reset before the join.
StopAndReset ==
  /\ program = "runs" /\ app = "disconnecting"
  /\ stopped' = TRUE
  /\ connection' = None
  /\ app' = "joining"
  /\ UNCHANGED <<program, lives, misused, open, thread, handling, work, served>>

\* ... m_context.stop() ...
Stop ==
  /\ program = "runs" /\ app = "disconnecting"
  /\ stopped' = TRUE
  /\ app' = "joining"
  /\ UNCHANGED <<program, lives, connection, misused, open, thread, handling, work, served>>

\* ... the join, if there is a thread, and m_connection.reset(). What waits in
\* the io_context stays there, until ~Client() destroys it with the context.
JoinAndReset ==
  /\ program = "runs" /\ app = "joining"
  /\ thread # "running"
  /\ thread' = "none"
  /\ connection' = None
  /\ open' = FALSE
  /\ app' \in {"idle", "destroyed"}
  /\ UNCHANGED <<program, lives, misused, stopped, handling, work, served>>

------------------------------------------------------------------------------
\* The io_context's thread

\* run() takes the next handler, of any Connection.
BeginHandler(n) ==
  /\ program = "runs" /\ thread = "running"
  /\ ~ stopped /\ handling = None
  /\ work[n] > 0
  /\ handling' = n
  /\ work' = [work EXCEPT ![n] = @ - 1]
  /\ served' = served \cup {n}
  /\ UNCHANGED <<program, gameVars, open, stopped, thread>>

\* The handler uses its Connection, may close the socket, and has at most one
\* operation follow. If the Connection was destroyed meanwhile, or before, that
\* is undefined.
EndHandler ==
  /\ program = "runs"
  /\ handling # None
  /\ \E follows \in 0 .. 1 : work' = [work EXCEPT ![handling] = @ + follows]
  /\ program' = IF connection = handling THEN "runs" ELSE "undefined"
  /\ open' \in {open, FALSE}
  /\ handling' = None
  /\ UNCHANGED <<gameVars, stopped, thread, served>>

\* run() returns when the context is stopped or has no work left, which stops it.
RunReturns ==
  /\ program = "runs" /\ thread = "running"
  /\ handling = None
  /\ stopped \/ ~ Waits
  /\ thread' = "returned"
  /\ stopped' = TRUE
  /\ UNCHANGED <<program, gameVars, open, handling, work, served>>

------------------------------------------------------------------------------
Next ==
  \/ Connect \/ StartThread \/ Send \/ SetId
  \/ Disconnect \/ Stop \/ JoinAndReset
  \/ \E n \in Lives : BeginHandler(n)
  \/ EndHandler \/ RunReturns

Spec == Init /\ [][Next]_vars

\* The game's thread comes out of its calls as far as they let it; a handler
\* that runs ends, and run() returns once it may. Nobody owes a connect, and no
\* operation that waits on the network need ever be over.
Fairness ==
  /\ WF_vars(Stop) /\ WF_vars(JoinAndReset)
  /\ WF_vars(EndHandler) /\ WF_vars(RunReturns)

FairSpec == Spec /\ Fairness

------------------------------------------------------------------------------
\* A game that disconnects before it connects again, and sets no id without a
\* connection, is safe whatever the network does: no handler runs for a
\* Connection that is gone, though handlers hold a bare `this` and those of
\* earlier lives are still in the io_context, and no thread is left unjoined
\* (client.cpp:9-41).
SafeUnlessMisused == program # "runs" => misused

\* Only the first Connection is ever served: connect() after disconnect()
\* returns true, but nothing restarts the io_context (client.cpp:22,36). That
\* also keeps the handlers of the first from finding it gone.
OnlyFirstIsServed == misused \/ served \subseteq {1}

\* disconnect(), and so the destructor, returns, even if the server never
\* answers (client.cpp:31-41).
DisconnectReturns == app = "disconnecting" ~> program # "runs" \/ app \in {"idle", "destroyed"}
==============================================================================
