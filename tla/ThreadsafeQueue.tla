--------------------------- MODULE ThreadsafeQueue ---------------------------
(***************************************************************************)
(* core::Threadsafe_Queue with the threads that use it: producers that     *)
(* push (the asio thread, in Connection::addToIncomingMessageQueue) and    *)
(* consumers that drain (the caller of Server::processMessages, or of      *)
(* Client::incoming()).                                                    *)
(*                                                                         *)
(* The queue owns two mutexes. m_mutex guards the deque. m_mutexBlock goes *)
(* with the condition variable m_cvBlock. A push holds m_mutex while it    *)
(* takes m_mutexBlock to notify; wait() never holds both. A critical       *)
(* section under m_mutex alone is one step; every acquisition of           *)
(* m_mutexBlock, and the sleep that gives it up, is a step of its own.     *)
(***************************************************************************)
EXTENDS Integers, Sequences

CONSTANTS
  Producers,    \* threads that push
  Consumers,    \* threads that wait and pop
  NoThread,     \* owner of a free mutex
  Items,        \* what is queued
  MaxLen,       \* bound of the model: no push starts on a queue this long
  MaxMessages   \* values of processMessages' maxMessages argument

Threads == Producers \cup Consumers

ASSUME ThreadsAssumption ==
  /\ Producers \cap Consumers = {}
  /\ NoThread \notin Threads

ASSUME BoundsAssumption ==
  /\ MaxLen \in Nat
  /\ MaxMessages \subseteq Nat

VARIABLES
  mutex,         \* owner of m_mutex
  mutexBlock,    \* owner of m_mutexBlock
  queue,         \* m_queue
  pc,            \* where each thread is
  waited,        \* processMessages' argument wait, per consumer
  maxMessages,   \* its argument maxMessages
  messageCount   \* its local messageCount

callVars == <<waited, maxMessages, messageCount>>
vars == <<mutex, mutexBlock, queue, pc, waited, maxMessages, messageCount>>

ProducerPcs == {"idle", "enqueued", "notifying"}
WaitPcs     == {"wait", "block", "enter", "asleep", "woken", "relocked"}
ConsumerPcs == WaitPcs \cup {"idle", "check", "pop", "peeked", "undefined"}

TypeOK ==
  /\ mutex \in Producers \cup {NoThread}
  /\ mutexBlock \in Threads \cup {NoThread}
  /\ queue \in Seq(Items)
  /\ pc \in [Threads -> ProducerPcs \cup ConsumerPcs]
  /\ \A p \in Producers : pc[p] \in ProducerPcs
  /\ \A c \in Consumers : pc[c] \in ConsumerPcs
  /\ waited \in [Consumers -> BOOLEAN]
  /\ maxMessages \in [Consumers -> Nat]
  /\ messageCount \in [Consumers -> Nat]
  /\ \A c \in Consumers : messageCount[c] <= maxMessages[c]

Init ==
  /\ mutex = NoThread
  /\ mutexBlock = NoThread
  /\ queue = <<>>
  /\ pc = [t \in Threads |-> "idle"]
  /\ waited = [c \in Consumers |-> FALSE]
  /\ maxMessages = [c \in Consumers |-> 0]
  /\ messageCount = [c \in Consumers |-> 0]

Go(t, from, to) ==
  /\ pc[t] = from
  /\ pc' = [pc EXCEPT ![t] = to]

------------------------------------------------------------------------------
\* Producers

\* pushBack / pushFront up to the change of the deque: m_mutex stays held.
Enqueue(p, newQueue) ==
  /\ mutex = NoThread
  /\ Len(queue) < MaxLen
  /\ Go(p, "idle", "enqueued")
  /\ mutex' = p
  /\ queue' = newQueue
  /\ UNCHANGED <<mutexBlock, callVars>>

PushBack(p, item)  == Enqueue(p, Append(queue, item))
PushFront(p, item) == Enqueue(p, <<item>> \o queue)

\* std::unique_lock ul(m_mutexBlock), with m_mutex held.
LockBlock(p) ==
  /\ mutexBlock = NoThread
  /\ Go(p, "enqueued", "notifying")
  /\ mutexBlock' = p
  /\ UNCHANGED <<mutex, queue, callVars>>

\* A mutant of WakeOne: the notification is forgotten.
WakeNobody(p, awake) == pc' = [pc EXCEPT ![p] = awake]

\* The thread that notify_one picks, if one is asleep, starts to wake up.
WakeOne(p, awake) ==
  LET asleep == {c \in Consumers : pc[c] = "asleep"}
      base   == [pc EXCEPT ![p] = awake]
  IN IF asleep = {}
     THEN pc' = base
     ELSE \E c \in asleep : pc' = [base EXCEPT ![c] = "woken"]

\* m_cvBlock.notify_one(); both locks are released as the push returns.
NotifyOne(p) ==
  /\ pc[p] = "notifying"
  /\ WakeOne(p, "idle")
  /\ mutex' = NoThread
  /\ mutexBlock' = NoThread
  /\ UNCHANGED <<queue, callVars>>

------------------------------------------------------------------------------
\* Consumers: Threadsafe_Queue::wait

\* while (isEmpty()): the lock of isEmpty() is released before the branch.
WaitIsEmpty(c) ==
  /\ mutex = NoThread
  /\ Go(c, "wait", IF queue = <<>> THEN "block" ELSE "check")
  /\ UNCHANGED <<mutex, mutexBlock, queue, callVars>>

TakeMutexBlock(c, from, to) ==
  /\ mutexBlock = NoThread
  /\ Go(c, from, to)
  /\ mutexBlock' = c
  /\ UNCHANGED <<mutex, queue, callVars>>

LeaveMutexBlock(c, from, to) ==
  /\ Go(c, from, to)
  /\ mutexBlock' = NoThread
  /\ UNCHANGED <<mutex, queue, callVars>>

\* std::unique_lock ul(m_mutexBlock)
WaitLock(c) == TakeMutexBlock(c, "block", "enter")

\* m_cvBlock.wait(ul): gives the mutex up and sleeps, in one step.
WaitSleep(c) == LeaveMutexBlock(c, "enter", "asleep")

\* The standard lets the condition variable wake a thread for no reason.
SpuriousWake(c) ==
  /\ Go(c, "asleep", "woken")
  /\ UNCHANGED <<mutex, mutexBlock, queue, callVars>>

\* The wait has the mutex again before it returns ...
WaitRelock(c) == TakeMutexBlock(c, "woken", "relocked")

\* A mutant of WaitUnlock: ul outlives the loop's body.
KeepMutexBlock(c) ==
  /\ Go(c, "relocked", "wait")
  /\ UNCHANGED <<mutex, mutexBlock, queue, callVars>>

\* A mutant of WaitUnlock: isEmpty() is not asked again after the wake-up.
WaitOnce(c) == LeaveMutexBlock(c, "relocked", "check")

\* ... and ul goes out of scope at the end of the loop's body.
WaitUnlock(c) == LeaveMutexBlock(c, "relocked", "wait")

------------------------------------------------------------------------------
\* Consumers: Server::processMessages, and a direct user of the queue

ProcessMessages(c, max, wait) ==
  /\ Go(c, "idle", IF wait THEN "wait" ELSE "check")
  /\ waited' = [waited EXCEPT ![c] = wait]
  /\ maxMessages' = [maxMessages EXCEPT ![c] = max]
  /\ messageCount' = [messageCount EXCEPT ![c] = 0]
  /\ UNCHANGED <<mutex, mutexBlock, queue>>

\* A mutant of LoopTest: the count is tested, the queue is not.
LoopTestCountOnly(c) ==
  /\ messageCount[c] < maxMessages[c]
  /\ Go(c, "check", "pop")
  /\ UNCHANGED <<mutex, mutexBlock, queue, callVars>>

\* messageCount < maxMessages && !isEmpty(): the loop is entered.
LoopTest(c) ==
  /\ messageCount[c] < maxMessages[c]
  /\ mutex = NoThread
  /\ queue # <<>>
  /\ Go(c, "check", "pop")
  /\ UNCHANGED <<mutex, mutexBlock, queue, callVars>>

\* The loop ends: on the count, without a look at the queue, or on isEmpty().
LoopExit(c) ==
  /\ \/ messageCount[c] >= maxMessages[c]
     \/ mutex = NoThread /\ queue = <<>>
  /\ Go(c, "check", "idle")
  /\ UNCHANGED <<mutex, mutexBlock, queue, callVars>>

\* front() or back() of an empty std::deque is undefined behaviour, after
\* which the model says nothing more of this thread.
Pop(c, from, to, rest) ==
  /\ mutex = NoThread
  /\ Go(c, from, IF queue = <<>> THEN "undefined" ELSE to)
  /\ queue' = IF queue = <<>> THEN queue ELSE rest
  /\ UNCHANGED <<mutex, mutexBlock>>

\* popFront() and onMessage(): the pop takes m_mutex for itself.
PopFront(c) ==
  /\ Pop(c, "pop", "check", Tail(queue))
  /\ messageCount' = [messageCount EXCEPT ![c] = @ + 1]
  /\ UNCHANGED <<waited, maxMessages>>

\* A direct user: isEmpty(), then popBack().
PeekIsEmpty(c) ==
  /\ mutex = NoThread
  /\ queue # <<>>
  /\ Go(c, "idle", "peeked")
  /\ UNCHANGED <<mutex, mutexBlock, queue, callVars>>

PopBack(c) ==
  /\ Pop(c, "peeked", "idle", SubSeq(queue, 1, Len(queue) - 1))
  /\ UNCHANGED callVars

Clear(c) ==
  /\ mutex = NoThread
  /\ pc[c] = "idle"
  /\ queue' = <<>>
  /\ UNCHANGED <<mutex, mutexBlock, pc, callVars>>

------------------------------------------------------------------------------
Produce(p) ==
  \/ \E item \in Items : PushBack(p, item) \/ PushFront(p, item)
  \/ LockBlock(p)
  \/ NotifyOne(p)

Wait(c) ==
  \/ WaitIsEmpty(c) \/ WaitLock(c) \/ WaitSleep(c)
  \/ SpuriousWake(c) \/ WaitRelock(c) \/ WaitUnlock(c)

Consume(c) ==
  \/ \E max \in MaxMessages, wait \in BOOLEAN : ProcessMessages(c, max, wait)
  \/ LoopTest(c) \/ LoopExit(c) \/ PopFront(c)
  \/ PeekIsEmpty(c) \/ PopBack(c) \/ Clear(c)

Next ==
  \/ \E p \in Producers : Produce(p)
  \/ \E c \in Consumers : Wait(c) \/ Consume(c)

Spec == Init /\ [][Next]_vars

\* A thread inside a call keeps running, and a mutex that is released again
\* and again is in the end granted to each thread that asks for it. Nobody is
\* obliged to make a call, and spurious wake-ups are never owed.
Fairness ==
  /\ \A p \in Producers : SF_vars(LockBlock(p)) /\ WF_vars(NotifyOne(p))
  /\ \A c \in Consumers :
       /\ SF_vars(WaitIsEmpty(c)) /\ SF_vars(WaitLock(c)) /\ WF_vars(WaitSleep(c))
       /\ SF_vars(WaitRelock(c)) /\ WF_vars(WaitUnlock(c))

FairSpec == Spec /\ Fairness

------------------------------------------------------------------------------
\* Properties

SingleConsumer == \A c, d \in Consumers : c = d

\* The next step of the thread acquires the named mutex.
WantsMutex(t)      == pc[t] \in {"wait", "check", "pop", "peeked"}
WantsMutexBlock(t) == pc[t] \in {"enqueued", "block", "woken"}

\* The nested locking of pushBack (threadsafe_queue.h:39-45) cannot deadlock
\* against wait(): the holder of m_mutexBlock never asks for m_mutex while the
\* holder of m_mutex asks for m_mutexBlock.
NoLockCycle ==
  \A t, u \in Threads :
    ~ (mutex = t /\ WantsMutexBlock(t) /\ mutexBlock = u /\ WantsMutex(u))

\* isEmpty() and popFront() take the lock separately (server.cpp:108-109), yet
\* with one consuming thread the item that was seen is still there to be popped.
PopFindsItem ==
  SingleConsumer =>
    \A c \in Consumers : /\ pc[c] \in {"pop", "peeked"} => queue # <<>>
                         /\ pc[c] # "undefined"

\* processMessages(max, true) (server.cpp:102-115) never returns empty-handed
\* when max > 0, whatever wake-ups are spurious: until the first message is
\* handled the queue that wait() left behind holds one.
WaitYieldsMessage ==
  SingleConsumer =>
    \A c \in Consumers :
      pc[c] \in {"check", "pop"} /\ waited[c] /\ messageCount[c] = 0 => queue # <<>>

\* A push whose notification finds the consumer asleep, or already holding the
\* mutex to go to sleep, gets it out of wait() (threadsafe_queue.h:39-45,70-75).
\* A push that completes before the consumer holds m_mutexBlock is not covered:
\* that notification is lost, and it takes this next push to make up for it.
PushWakes ==
  \A c \in Consumers :
    (pc[c] \in {"enter", "asleep"} /\ \E p \in Producers : pc[p] = "enqueued")
      ~> pc[c] = "check"

\* The queue as its users see it.
Phase(c) ==
  CASE pc[c] \in WaitPcs           -> "waiting"
    [] pc[c] \in {"check", "pop"}  -> "taking"
    [] pc[c] = "peeked"            -> "peeked"
    [] pc[c] = "idle"              -> "out"
    [] OTHER                       -> "undefined"

Abstract == INSTANCE Mailbox WITH phase <- [c \in Consumers |-> Phase(c)]

\* With one consumer the two-lock queue behaves as a queue of indivisible
\* operations: no pop is lost between the check and the removal.
ImplementsMailbox == Abstract!Spec
==============================================================================
