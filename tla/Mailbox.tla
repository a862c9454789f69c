------------------------------- MODULE Mailbox -------------------------------
(***************************************************************************)
(* What a user of core::Threadsafe_Queue may rely on: a double-ended queue *)
(* whose operations are single indivisible steps, and a consumer that      *)
(* removes an item only when there is one.                                 *)
(*                                                                         *)
(* It knows nothing of mutexes, of the condition variable or of the gap    *)
(* between isEmpty() and popFront(); ThreadsafeQueue implements it when a  *)
(* single thread consumes.                                                 *)
(***************************************************************************)
EXTENDS Integers, Sequences

CONSTANTS
  Consumers,  \* the threads that take items
  Items       \* what is queued

VARIABLES
  queue,      \* the items, oldest first
  phase       \* what each consumer is doing

vars == <<queue, phase>>

Phases == {"out", "waiting", "taking", "peeked"}

Init ==
  /\ queue = <<>>
  /\ phase = [c \in Consumers |-> "out"]

Move(c, from, to) ==
  /\ phase[c] = from
  /\ phase' = [phase EXCEPT ![c] = to]

\* Any producer adds an item at either end.
Put ==
  /\ \E item \in Items : queue' \in {Append(queue, item), <<item>> \o queue}
  /\ UNCHANGED phase

\* A consumer enters the draining loop, blocking first or not.
Enter(c) ==
  /\ \E to \in {"waiting", "taking"} : Move(c, "out", to)
  /\ UNCHANGED queue

\* The blocking call returns: only when there is something to take.
Ready(c) ==
  /\ queue # <<>>
  /\ Move(c, "waiting", "taking")
  /\ UNCHANGED queue

TakeFront(c) ==
  /\ queue # <<>>
  /\ phase[c] = "taking"
  /\ queue' = Tail(queue)
  /\ UNCHANGED phase

Leave(c) ==
  /\ Move(c, "taking", "out")
  /\ UNCHANGED queue

\* A consumer outside the loop looks, and takes the newest item it has seen.
Peek(c) ==
  /\ queue # <<>>
  /\ Move(c, "out", "peeked")
  /\ UNCHANGED queue

TakeBack(c) ==
  /\ queue # <<>>
  /\ Move(c, "peeked", "out")
  /\ queue' = SubSeq(queue, 1, Len(queue) - 1)

Discard(c) ==
  /\ phase[c] = "out"
  /\ queue' = <<>>
  /\ UNCHANGED phase

Next ==
  \/ Put
  \/ \E c \in Consumers :
       \/ Enter(c) \/ Ready(c) \/ TakeFront(c) \/ Leave(c)
       \/ Peek(c) \/ TakeBack(c) \/ Discard(c)

Spec == Init /\ [][Next]_vars
==============================================================================
