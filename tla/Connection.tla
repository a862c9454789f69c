------------------------------ MODULE Connection ------------------------------
(***************************************************************************)
(* network::Connection at both ends of one TCP connection: the client's    *)
(* (Owner::CLIENT) and the one the server makes when it accepts.           *)
(*                                                                         *)
(* Each end has an asio io_context run by one thread: a FIFO of handlers   *)
(* ready to run. The application thread only posts to it. An asynchronous  *)
(* operation is outstanding until the kernel finishes it, which puts its   *)
(* completion handler at the end of that FIFO; closing the socket finishes *)
(* whatever is outstanding with an error.                                  *)
(*                                                                         *)
(* What travels is not bytes but units, one per asio write: the handshake  *)
(* word, a header, a body. A read of the handshake word that meets another *)
(* unit takes bytes that are no valid answer.                              *)
(***************************************************************************)
EXTENDS Integers, Sequences, FiniteSets

CONSTANTS
  Messages,     \* what the applications send: records [id, body]
  MaxSends,     \* bound of the model: calls of send() at each end
  EagerClient,  \* may the client send before it has received anything?
  Faults        \* which of "disconnect", "stop", "refuse", "break" may happen

Ends == {"client", "server"}
Peer(e) == CHOOSE p \in Ends : p # e

ASSUME ConnectionAssumption ==
  /\ \A m \in Messages :
       /\ DOMAIN m = {"id", "body"}
       /\ Len(m.body) \in Nat /\ m.body = [i \in 1 .. Len(m.body) |-> m.body[i]]  \* a sequence
  /\ MaxSends \in [Ends -> Nat]
  /\ EagerClient \in BOOLEAN
  /\ Faults \subseteq {"disconnect", "stop", "refuse", "break"}

VARIABLES
  link,       \* the TCP connection
  end,        \* the Connection object and io_context of each end
  wire,       \* units an end has written and the other has not read
  validated,  \* Server::onClientValidated has been called
  received,   \* everything an end has put into its m_messagesIn
  sent        \* everything an end's application has given to send()

vars == <<link, end, wire, validated, received, sent>>

Reads  == {"readValidation", "readHeader", "readBody"}
Writes == {"writeValidation", "writeHeader", "writeBody"}
MessageWrites == {"writeHeader", "writeBody"}

\* The handshake words: m_handshakeOut of the server, the answer that equals
\* its m_handshakeCheck, and any other eight bytes.
Handshakes == {"challenge", "answer", "other"}

Init ==
  /\ link = "none"
  /\ end = [e \in Ends |->
       [socket  |-> "none",   \* m_socket: none, open or closed
        running |-> TRUE,     \* run() of the io_context has not returned
        ready   |-> <<>>,     \* handlers the io_context will run, in order
        read    |-> "none",   \* the outstanding read
        writes  |-> <<>>,     \* the outstanding writes, oldest first
        out     |-> <<>>,     \* m_messagesOut
        temp    |-> [id |-> 0, size |-> 0, body |-> <<>>]]]  \* m_tempMessageIn
  /\ wire = [e \in Ends |-> <<>>]
  /\ validated = FALSE
  /\ received = [e \in Ends |-> <<>>]
  /\ sent = [e \in Ends |-> <<>>]

------------------------------------------------------------------------------
\* What the member functions do to their Connection c

Post(c, handler) == [c EXCEPT !.ready = Append(@, handler)]

Completion(op, ok, unit) == [op |-> op, ok |-> ok, unit |-> unit]

NoUnit == [kind |-> "none"]

\* async_read / async_write. On a closed socket they complete at once.
StartRead(c, op) ==
  IF c.socket = "open" THEN [c EXCEPT !.read = op]
                       ELSE Post(c, Completion(op, FALSE, NoUnit))

StartWrite(c, op, unit) ==
  IF c.socket = "open" THEN [c EXCEPT !.writes = Append(@, [op |-> op, unit |-> unit])]
                       ELSE Post(c, Completion(op, FALSE, NoUnit))

\* m_socket.close(): outstanding operations are aborted, reads first.
Close(c) ==
  LET abortedRead == IF c.read = "none" THEN <<>> ELSE <<Completion(c.read, FALSE, NoUnit)>>
      abortedWrites == [i \in 1 .. Len(c.writes) |-> Completion(c.writes[i].op, FALSE, NoUnit)]
  IN [c EXCEPT !.socket = IF @ = "open" THEN "closed" ELSE @,
               !.ready = @ \o abortedRead \o abortedWrites,
               !.read = "none",
               !.writes = <<>>]

WriteValidation(c, value) ==
  StartWrite(c, "writeValidation", [kind |-> "validation", value |-> value])

ReadValidation(c) == StartRead(c, "readValidation")
ReadHeader(c)     == StartRead(c, "readHeader")
ReadBody(c)       == StartRead(c, "readBody")

WriteHeader(c) ==
  LET m == Head(c.out)
  IN StartWrite(c, "writeHeader", [kind |-> "header", id |-> m.id, size |-> Len(m.body)])

WriteBody(c) == StartWrite(c, "writeBody", [kind |-> "body", data |-> Head(c.out).body])

\* A mutant of PopAndGoOn: the next message waits for the next send().
PopAndStop(c) == [c EXCEPT !.out = Tail(@)]

\* A mutant of PopAndGoOn: the newest message is popped, not the one written.
PopNewestAndGoOn(c) ==
  LET popped == [c EXCEPT !.out = SubSeq(@, 1, Len(@) - 1)]
  IN IF popped.out = <<>> THEN popped ELSE WriteHeader(popped)

\* m_messagesOut.popFront(); the next message follows, if there is one.
PopAndGoOn(c) ==
  LET popped == [c EXCEPT !.out = Tail(@)]
  IN IF popped.out = <<>> THEN popped ELSE WriteHeader(popped)

IsConnected(e) == end[e].socket = "open"

------------------------------------------------------------------------------
\* The application threads

\* Client::connect up to the return of async_connect, which opens the socket.
Connect ==
  /\ link = "none"
  /\ link' = "connecting"
  /\ end' = [end EXCEPT !["client"].socket = "open"]
  /\ UNCHANGED <<wire, validated, received, sent>>

\* Client::send, Server::messageClient: nothing is sent when not connected.
\* There is no callback that tells a client it was accepted: one that is not
\* eager waits until the server has said something.
Send(e, m) ==
  /\ IsConnected(e)
  /\ Len(sent[e]) < MaxSends[e]
  /\ e = "client" => EagerClient \/ received["client"] # <<>>
  /\ sent' = [sent EXCEPT ![e] = Append(@, m)]
  /\ end' = [end EXCEPT ![e] = Post(@, [op |-> "send", message |-> m])]
  /\ UNCHANGED <<link, wire, validated, received>>

\* Connection::disconnect posts the close.
Disconnect(e) ==
  /\ "disconnect" \in Faults
  /\ IsConnected(e)
  /\ \A i \in DOMAIN end[e].ready : end[e].ready[i].op # "close"  \* bound of the model
  /\ end' = [end EXCEPT ![e] = Post(@, [op |-> "close"])]
  /\ UNCHANGED <<link, wire, validated, received, sent>>

\* Client::disconnect: the close may be posted, but the context is stopped
\* and the Connection destroyed before any handler has to run.
StopClient ==
  /\ "stop" \in Faults
  /\ end["client"].socket # "none"
  /\ end["client"].running \/ IsConnected("client")
  /\ end' = [end EXCEPT !["client"] =
                [Close(@) EXCEPT !.running = FALSE, !.ready = <<>>]]
  /\ UNCHANGED <<link, wire, validated, received, sent>>

\* Server::stop: no handler runs any more; the sockets stay open.
StopServer ==
  /\ "stop" \in Faults
  /\ end["server"].running
  /\ end' = [end EXCEPT !["server"].running = FALSE]
  /\ UNCHANGED <<link, wire, validated, received, sent>>

------------------------------------------------------------------------------
\* The kernel

Establish ==
  /\ link = "connecting"
  /\ IsConnected("client")
  /\ link' = "up"
  /\ end' = [end EXCEPT !["client"] = Post(@, Completion("connected", TRUE, NoUnit)),
                        !["server"] = Post(@, [op |-> "accept"])]
  /\ UNCHANGED <<wire, validated, received, sent>>

\* No endpoint answers, or the socket is closed meanwhile.
ConnectFails ==
  /\ link = "connecting"
  /\ "refuse" \in Faults \/ ~ IsConnected("client")
  /\ link' = "refused"
  /\ end' = [end EXCEPT !["client"] = Post(@, Completion("connected", FALSE, NoUnit))]
  /\ UNCHANGED <<wire, validated, received, sent>>

Break ==
  /\ "break" \in Faults
  /\ link = "up"
  /\ link' = "broken"
  /\ UNCHANGED <<end, wire, validated, received, sent>>

\* The other end has closed, or the network is gone.
PeerLost(e) == link = "broken" \/ end[Peer(e)].socket = "closed"

FinishWrite(e, ok) ==
  LET w == Head(end[e].writes)
      c == [end[e] EXCEPT !.writes = Tail(@)]
  IN end' = [end EXCEPT ![e] = Post(c, Completion(w.op, ok, w.unit))]

\* The oldest write goes out; the kernel may accept it even if the peer is lost.
Transmit(e) ==
  /\ end[e].running /\ end[e].writes # <<>>
  /\ link = "up"
  /\ wire' = [wire EXCEPT ![e] = Append(@, Head(end[e].writes).unit)]
  /\ FinishWrite(e, TRUE)
  /\ UNCHANGED <<link, validated, received, sent>>

\* The write fails. Before the connection is up some systems report an error
\* and some keep the write waiting: both may happen.
TransmitFails(e) ==
  /\ end[e].running /\ end[e].writes # <<>>
  /\ link # "up" \/ PeerLost(e)
  /\ FinishWrite(e, FALSE)
  /\ UNCHANGED <<link, wire, validated, received, sent>>

FinishRead(e, ok, unit) ==
  end' = [end EXCEPT ![e] = Post([@ EXCEPT !.read = "none"], Completion(@.read, ok, unit))]

Arrive(e) ==
  /\ end[e].running /\ end[e].read # "none"
  /\ wire[Peer(e)] # <<>>
  /\ FinishRead(e, TRUE, Head(wire[Peer(e)]))
  /\ wire' = [wire EXCEPT ![Peer(e)] = Tail(@)]
  /\ UNCHANGED <<link, validated, received, sent>>

\* End of file, or a reset that also destroys what had not been read.
ArriveFails(e) ==
  /\ end[e].running /\ end[e].read # "none"
  /\ PeerLost(e)
  /\ FinishRead(e, FALSE, NoUnit)
  /\ UNCHANGED <<link, wire, validated, received, sent>>

------------------------------------------------------------------------------
\* The io_context's thread runs the oldest ready handler

\* The next handler of e is that of op, with this error state.
Runs(e, op, ok) ==
  /\ end[e].running /\ end[e].ready # <<>>
  /\ Head(end[e].ready).op = op
  /\ op \notin {"send", "close", "accept"} => Head(end[e].ready).ok = ok

Handled(e) == [end[e] EXCEPT !.ready = Tail(@)]

\* run() returns when there is nothing left to wait for; nothing starts it again
\* (Client::connect). The server's always has the accept to wait for.
OutOfWork(e, c) ==
  /\ e = "client" /\ link # "connecting"
  /\ c.read = "none" /\ c.writes = <<>> /\ c.ready = <<>>

Becomes(e, c) == end' = [end EXCEPT ![e] = [c EXCEPT !.running = @ /\ ~ OutOfWork(e, c)]]

\* Server::waitForClientConnection's handler for an approved client:
\* Connection::connectToClient.
RunAccept ==
  /\ Runs("server", "accept", TRUE)
  /\ LET c == [Handled("server") EXCEPT !.socket = "open"]
     IN Becomes("server", ReadValidation(WriteValidation(c, "challenge")))
  /\ UNCHANGED <<link, wire, validated, received, sent>>

\* The handler of connectToServer. asio tells it of a socket closed since as of
\* a failure; on a failure it does nothing, and the socket may stay open.
RunConnected(ok) ==
  /\ Runs("client", "connected", ok)
  /\ LET c == Handled("client")
     IN Becomes("client", IF ok /\ c.socket = "open" THEN ReadValidation(c) ELSE c)
  /\ UNCHANGED <<link, wire, validated, received, sent>>

\* A mutant of RunSend: every message is written at once.
RunSendUnchecked(e) ==
  /\ Runs(e, "send", TRUE)
  /\ Becomes(e, WriteHeader([Handled(e) EXCEPT !.out = Append(@, Head(end[e].ready).message)]))
  /\ UNCHANGED <<link, wire, validated, received, sent>>

\* What send() posts: write the header only if no message is being written.
RunSend(e) ==
  /\ Runs(e, "send", TRUE)
  /\ LET c == [Handled(e) EXCEPT !.out = Append(@, Head(end[e].ready).message)]
     IN Becomes(e, IF end[e].out = <<>> THEN WriteHeader(c) ELSE c)
  /\ UNCHANGED <<link, wire, validated, received, sent>>

RunClose(e) ==
  /\ Runs(e, "close", TRUE)
  /\ Becomes(e, Close(Handled(e)))
  /\ UNCHANGED <<link, wire, validated, received, sent>>

\* Every completion handler closes the socket on an error.
RunFailure(e, op) ==
  /\ Runs(e, op, FALSE)
  /\ Becomes(e, Close(Handled(e)))
  /\ UNCHANGED <<link, wire, validated, received, sent>>

RunWriteValidation(e) ==
  /\ Runs(e, "writeValidation", TRUE)
  /\ Becomes(e, IF e = "client" THEN ReadHeader(Handled(e)) ELSE Handled(e))
  /\ UNCHANGED <<link, wire, validated, received, sent>>

\* The eight bytes a readValidation finds in a unit.
HandshakeIn(unit) == IF unit.kind = "validation" THEN unit.value ELSE "other"

\* A mutant of ScrambleData: the client echoes the challenge.
EchoData(input) == input

\* scrambleData as the handshake uses it: the answer to the challenge.
ScrambleData(input) == IF input = "challenge" THEN "answer" ELSE "other"

\* A mutant of ReadValidationServer: a wrong answer is as good as a right one.
AcceptAnyAnswer(value) ==
  /\ validated' = (value = "answer")
  /\ Becomes("server", ReadHeader(Handled("server")))

\* readValidation's handler on the server's side.
ReadValidationServer(value) ==
  IF value = "answer"
  THEN validated' = TRUE /\ Becomes("server", ReadHeader(Handled("server")))
  ELSE UNCHANGED validated /\ Becomes("server", Close(Handled("server")))

\* readValidation's handler on the client's side.
ReadValidationClient(value) ==
  /\ Becomes("client", WriteValidation(Handled("client"), ScrambleData(value)))
  /\ UNCHANGED validated

RunReadValidation(e) ==
  /\ Runs(e, "readValidation", TRUE)
  /\ LET value == HandshakeIn(Head(end[e].ready).unit)
     IN IF e = "server" THEN ReadValidationServer(value) ELSE ReadValidationClient(value)
  /\ UNCHANGED <<link, wire, received, sent>>

\* A mutant of RunWriteHeader: the body is never written.
RunWriteHeaderOnly(e) ==
  /\ Runs(e, "writeHeader", TRUE)
  /\ Becomes(e, PopAndGoOn(Handled(e)))
  /\ UNCHANGED <<link, wire, validated, received, sent>>

RunWriteHeader(e) ==
  /\ Runs(e, "writeHeader", TRUE)
  /\ Becomes(e, IF Head(end[e].out).body # <<>> THEN WriteBody(Handled(e))
                                                ELSE PopAndGoOn(Handled(e)))
  /\ UNCHANGED <<link, wire, validated, received, sent>>

RunWriteBody(e) ==
  /\ Runs(e, "writeBody", TRUE)
  /\ Becomes(e, PopAndGoOn(Handled(e)))
  /\ UNCHANGED <<link, wire, validated, received, sent>>

\* addToIncomingMessageQueue, then the next header.
AddToIncomingMessageQueue(e, c) ==
  /\ received' = [received EXCEPT ![e] = Append(@, c.temp)]
  /\ Becomes(e, ReadHeader(c))

\* A mutant of RunReadHeader: the size stays that of the message before.
RunReadHeaderId(e) ==
  /\ Runs(e, "readHeader", TRUE)
  /\ LET unit == Head(end[e].ready).unit
         c == [Handled(e) EXCEPT !.temp.id = unit.id]
     IN IF unit.size > 0
        THEN Becomes(e, ReadBody(c)) /\ UNCHANGED received
        ELSE AddToIncomingMessageQueue(e, c)
  /\ UNCHANGED <<link, wire, validated, sent>>

\* A header fills m_tempMessageIn.header; its body is resized, so that it is
\* left alone when there is none to read.
RunReadHeader(e) ==
  /\ Runs(e, "readHeader", TRUE)
  /\ LET unit == Head(end[e].ready).unit
         c == [Handled(e) EXCEPT !.temp = [@ EXCEPT !.id = unit.id, !.size = unit.size]]
     IN IF unit.size > 0
        THEN Becomes(e, ReadBody(c)) /\ UNCHANGED received
        ELSE AddToIncomingMessageQueue(e, c)
  /\ UNCHANGED <<link, wire, validated, sent>>

RunReadBody(e) ==
  /\ Runs(e, "readBody", TRUE)
  /\ AddToIncomingMessageQueue(e, [Handled(e) EXCEPT !.temp.body = Head(end[e].ready).unit.data])
  /\ UNCHANGED <<link, wire, validated, sent>>

------------------------------------------------------------------------------
Application ==
  \/ Connect
  \/ \E e \in Ends, m \in Messages : Send(e, m)
  \/ \E e \in Ends : Disconnect(e)
  \/ StopClient \/ StopServer

Finish(e) == Transmit(e) \/ TransmitFails(e) \/ Arrive(e) \/ ArriveFails(e)

Run(e) ==
  \/ RunSend(e) \/ RunClose(e)
  \/ \E op \in Reads \cup Writes : RunFailure(e, op)
  \/ RunWriteValidation(e) \/ RunReadValidation(e)
  \/ RunWriteHeader(e) \/ RunWriteBody(e)
  \/ RunReadHeader(e) \/ RunReadBody(e)

RunConnect ==
  \/ RunAccept
  \/ \E ok \in BOOLEAN : RunConnected(ok)

Next ==
  \/ Application
  \/ Establish \/ ConnectFails \/ Break
  \/ RunConnect
  \/ \E e \in Ends : Finish(e) \/ Run(e)

Spec == Init /\ [][Next]_vars

\* The io_context's thread is always in run(), the network delivers, and the
\* reactor finishes reads and writes independently of each other.
Fairness ==
  /\ WF_vars(Establish \/ ConnectFails) /\ WF_vars(RunConnect)
  /\ \A e \in Ends :
       /\ WF_vars(Run(e))
       /\ WF_vars(Transmit(e) \/ TransmitFails(e))
       /\ WF_vars(Arrive(e) \/ ArriveFails(e))

FairSpec == Spec /\ Fairness

------------------------------------------------------------------------------
\* Properties

\* The message writes of a Connection that are outstanding, and those that are
\* finished with their handler still to run.
Outstanding(c) == {i \in DOMAIN c.writes : c.writes[i].op \in MessageWrites}
Finished(c) == {i \in DOMAIN c.ready : c.ready[i].op \in MessageWrites}

OneAtMost(c) ==
  /\ \A i, j \in Outstanding(c) : i = j
  /\ \A i, j \in Finished(c) : i = j
  /\ Outstanding(c) = {} \/ Finished(c) = {}

IsOfFront(c, w) ==
  /\ c.out # <<>>
  /\ w.op = "writeHeader" => w.unit.id = Head(c.out).id
  /\ w.op = "writeBody" => w.unit.data = Head(c.out).body

\* asio writes straight from the front of m_messagesOut (connection.cpp:133,156),
\* and popFront frees it: at most one message is being written, and it is the
\* front one, even when sends, errors and closes come in between.
WritesFromFront ==
  \A e \in Ends :
    /\ OneAtMost(end[e])
    /\ \A i \in Outstanding(end[e]) : IsOfFront(end[e], end[e].writes[i])

\* The pump of send/writeHeader/writeBody (connection.cpp:51-62,132-171) never
\* stalls: while the socket is open, a queued message has a write under way.
PumpRuns ==
  \A e \in Ends :
    IsConnected(e) /\ end[e].out # <<>> => Outstanding(end[e]) \cup Finished(end[e]) # {}

\* The reader's next read always meets the unit the writer wrote for it: once
\* the handshake is over no end takes a body for a header or the reverse
\* (connection.cpp:173-205), also for a client that sends during the handshake.
WellFramed ==
  \A e \in Ends :
    wire[Peer(e)] # <<>> =>
      LET unit == Head(wire[Peer(e)])
      IN /\ end[e].read = "readHeader" => unit.kind = "header"
         /\ end[e].read = "readBody" => unit.kind = "body" /\ Len(unit.data) = end[e].temp.size

\* The server takes no message from a client, and starts to read none, before
\* that client's answer was checked (connection.cpp:103-130).
NothingBeforeValidation ==
  received["server"] # <<>> \/ end["server"].read \in {"readHeader", "readBody"} => validated

FromClient == INSTANCE Pipe WITH sent <- sent["client"], received <- received["server"]
FromServer == INSTANCE Pipe WITH sent <- sent["server"], received <- received["client"]

\* Each direction is a pipe that may only lose its tail, whatever is closed,
\* stopped, refused or broken in between.
ImplementsPipes == FromClient!Spec /\ FromServer!Spec

\* A client that waits for the server to speak is never taken for an invalid
\* one (connection.cpp:114-117): until the connection is refused or breaks,
\* everything it or the server sends is delivered.
AllDelivered ==
  ~ EagerClient /\ Faults \cap {"disconnect", "stop"} = {} =>
    \A e \in Ends : \A n \in 1 .. MaxSends[e] :
      Len(sent[e]) >= n
        ~> Len(received[Peer(e)]) >= n \/ link \in {"refused", "broken"}
==============================================================================
