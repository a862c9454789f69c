------------------------ MODULE ThreadsafeQueueProofs ------------------------
(***************************************************************************)
(* What holds of ThreadsafeQueue for any number of producers, any items    *)
(* and any bounds. LockInv ties the owners of the two mutexes to the       *)
(* program counters; ItemInv is what a single consumer knows of the queue. *)
(***************************************************************************)
EXTENDS ThreadsafeQueue, SequenceTheorems, TLAPS

LockInv ==
  /\ \A p \in Producers : mutex = p <=> pc[p] \in {"enqueued", "notifying"}
  /\ \A t \in Threads : mutexBlock = t <=> pc[t] \in {"notifying", "enter", "relocked"}

\* The count is below its limit between the loop's test and the pop.
TypeInv ==
  /\ TypeOK
  /\ \A c \in Consumers : pc[c] = "pop" => messageCount[c] < maxMessages[c]

IInv == TypeInv /\ LockInv

ItemInv == PopFindsItem /\ WaitYieldsMessage

------------------------------------------------------------------------------
\* The ends of a non-empty sequence can be cut and stay sequences.
LEMMA Cuts ==
  ASSUME NEW S, NEW s \in Seq(S), s # <<>>
  PROVE  /\ Tail(s) \in Seq(S)
         /\ SubSeq(s, 1, Len(s) - 1) \in Seq(S)
  <1>1. Tail(s) \in Seq(S)
    BY HeadTailProperties
  <1>2. Len(s) \in Nat /\ \A i \in 1 .. Len(s) - 1 : s[i] \in S
    BY LenProperties, ElementOfSeq
  <1>3. SubSeq(s, 1, Len(s) - 1) \in Seq(S)
    BY <1>2, SubSeqProperties
  <1> QED
    BY <1>1, <1>3

\* An item can be added at either end.
LEMMA Grows ==
  ASSUME NEW S, NEW s \in Seq(S), NEW e \in S
  PROVE  /\ Append(s, e) \in Seq(S) /\ Append(s, e) # <<>>
         /\ <<e>> \o s \in Seq(S) /\ <<e>> \o s # <<>>
  <1>1. Append(s, e) \in Seq(S) /\ Append(s, e) # <<>>
    BY AppendProperties
  <1>2. <<e>> \in Seq(S) /\ Len(<<e>>) = 1
    OBVIOUS
  <1>3. <<e>> \o s \in Seq(S) /\ Len(<<e>> \o s) = 1 + Len(s)
    BY <1>2, ConcatProperties
  <1>4. <<e>> \o s # <<>>
    BY <1>3, LenProperties, EmptySeq
  <1> QED
    BY <1>1, <1>3, <1>4

LEMMA InitIInv == Init => IInv /\ ItemInv
  BY ThreadsAssumption
     DEF Init, IInv, ItemInv, TypeInv, TypeOK, LockInv, PopFindsItem, WaitYieldsMessage,
         Threads, ProducerPcs, ConsumerPcs, WaitPcs

------------------------------------------------------------------------------
\* Every step keeps the types and the ownership of the mutexes.
LEMMA NextIInv == IInv /\ [Next]_vars => IInv'
  <1> SUFFICES ASSUME TypeInv, LockInv, [Next]_vars PROVE TypeInv' /\ LockInv'
    BY DEF IInv
  <1>1. ASSUME NEW p \in Producers, NEW item \in Items, PushBack(p, item) \/ PushFront(p, item)
        PROVE  TypeInv' /\ LockInv'
    <2>1. PICK newQueue \in Seq(Items) : Enqueue(p, newQueue)
      BY <1>1, Grows DEF PushBack, PushFront, TypeInv, TypeOK
    <2>2. TypeInv'
      BY <2>1, ThreadsAssumption
         DEF Enqueue, Go, callVars, TypeInv, TypeOK, Threads, ProducerPcs, ConsumerPcs
    <2>3. LockInv'
      BY <2>1, ThreadsAssumption DEF Enqueue, Go, LockInv, TypeInv, TypeOK, Threads
    <2> QED
      BY <2>2, <2>3
  <1>2. ASSUME NEW p \in Producers, LockBlock(p) PROVE TypeInv' /\ LockInv'
    <2>1. TypeInv'
      BY <1>2, ThreadsAssumption
         DEF LockBlock, Go, callVars, TypeInv, TypeOK, Threads, ProducerPcs, ConsumerPcs
    <2>2. LockInv'
      BY <1>2, ThreadsAssumption DEF LockBlock, Go, LockInv, TypeInv, TypeOK, Threads
    <2> QED
      BY <2>1, <2>2
  <1>3. ASSUME NEW p \in Producers, NotifyOne(p) PROVE TypeInv' /\ LockInv'
    <2>1. CASE pc' = [pc EXCEPT ![p] = "idle"]
      <3>1. TypeInv'
        BY <1>3, <2>1, ThreadsAssumption
           DEF NotifyOne, callVars, TypeInv, TypeOK, Threads, ProducerPcs, ConsumerPcs
      <3>2. LockInv'
        BY <1>3, <2>1, ThreadsAssumption DEF NotifyOne, LockInv, TypeInv, TypeOK, Threads
      <3> QED
        BY <3>1, <3>2
    <2>2. ASSUME NEW c \in Consumers, pc[c] = "asleep",
                 pc' = [[pc EXCEPT ![p] = "idle"] EXCEPT ![c] = "woken"]
          PROVE  TypeInv' /\ LockInv'
      <3>1. c # p /\ c \in Threads /\ p \in Threads
        BY ThreadsAssumption DEF Threads
      <3>2. pc' \in [Threads -> ProducerPcs \cup ConsumerPcs]
        BY <2>2, <3>1 DEF TypeInv, TypeOK, ProducerPcs, ConsumerPcs, WaitPcs
      <3>3. \A t \in Threads : pc'[t] = IF t = c THEN "woken" ELSE IF t = p THEN "idle" ELSE pc[t]
        BY <2>2, <3>1 DEF TypeInv, TypeOK
      <3>4. TypeInv'
        BY <1>3, <3>1, <3>2, <3>3, ThreadsAssumption
           DEF NotifyOne, callVars, TypeInv, TypeOK, Threads, ProducerPcs, ConsumerPcs, WaitPcs
      <3>5. LockInv'
        BY <1>3, <2>2, <3>1, <3>3, ThreadsAssumption DEF NotifyOne, LockInv, TypeInv, TypeOK, Threads
      <3> QED
        BY <3>4, <3>5
    <2> QED
      BY <1>3, <2>1, <2>2 DEF NotifyOne, WakeOne
  <1>4. ASSUME NEW c \in Consumers, Wait(c) PROVE TypeInv' /\ LockInv'
    <2>1. CASE WaitIsEmpty(c) \/ SpuriousWake(c)
      <3>1. TypeInv'
        BY <2>1, ThreadsAssumption
           DEF WaitIsEmpty, SpuriousWake, Go, callVars, TypeInv, TypeOK, Threads, ProducerPcs,
               ConsumerPcs, WaitPcs
      <3>2. LockInv'
        BY <2>1, ThreadsAssumption DEF WaitIsEmpty, SpuriousWake, Go, LockInv, TypeInv, TypeOK, Threads
      <3> QED
        BY <3>1, <3>2
    <2>2. CASE WaitLock(c) \/ WaitRelock(c)
      <3>1. TypeInv'
        BY <2>2, ThreadsAssumption
           DEF WaitLock, WaitRelock, TakeMutexBlock, Go, callVars, TypeInv, TypeOK, Threads, ProducerPcs,
               ConsumerPcs, WaitPcs
      <3>2. LockInv'
        BY <2>2, ThreadsAssumption
           DEF WaitLock, WaitRelock, TakeMutexBlock, Go, LockInv, TypeInv, TypeOK, Threads
      <3> QED
        BY <3>1, <3>2
    <2>3. CASE WaitSleep(c) \/ WaitUnlock(c)
      <3>1. TypeInv'
        BY <2>3, ThreadsAssumption
           DEF WaitSleep, WaitUnlock, LeaveMutexBlock, Go, callVars, TypeInv, TypeOK, Threads, ProducerPcs,
               ConsumerPcs, WaitPcs
      <3>2. LockInv'
        BY <2>3, ThreadsAssumption
           DEF WaitSleep, WaitUnlock, LeaveMutexBlock, Go, LockInv, TypeInv, TypeOK, Threads
      <3> QED
        BY <3>1, <3>2
    <2> QED
      BY <1>4, <2>1, <2>2, <2>3 DEF Wait
  <1>5. ASSUME NEW c \in Consumers, Consume(c) PROVE TypeInv' /\ LockInv'
    <2>1. ASSUME NEW max \in MaxMessages, NEW wait \in BOOLEAN, ProcessMessages(c, max, wait)
          PROVE  TypeInv' /\ LockInv'
      <3>1. TypeInv'
        BY <2>1, ThreadsAssumption, BoundsAssumption
           DEF ProcessMessages, Go, TypeInv, TypeOK, Threads, ProducerPcs, ConsumerPcs, WaitPcs
      <3>2. LockInv'
        BY <2>1, ThreadsAssumption DEF ProcessMessages, Go, LockInv, TypeInv, TypeOK, Threads
      <3> QED
        BY <3>1, <3>2
    <2>2. CASE LoopTest(c) \/ LoopExit(c) \/ PeekIsEmpty(c)
      <3>1. TypeInv'
        BY <2>2, ThreadsAssumption
           DEF LoopTest, LoopExit, PeekIsEmpty, Go, callVars, TypeInv, TypeOK, Threads, ProducerPcs,
               ConsumerPcs, WaitPcs
      <3>2. LockInv'
        BY <2>2, ThreadsAssumption
           DEF LoopTest, LoopExit, PeekIsEmpty, Go, LockInv, TypeInv, TypeOK, Threads
      <3> QED
        BY <3>1, <3>2
    <2>3. CASE PopFront(c)
      <3>1. queue' \in Seq(Items)
        BY <2>3, Cuts DEF PopFront, Pop, TypeInv, TypeOK
      <3>2. messageCount[c] < maxMessages[c]
        BY <2>3 DEF PopFront, Pop, Go, TypeInv
      <3>3. TypeInv'
        BY <2>3, <3>1, <3>2, ThreadsAssumption
           DEF PopFront, Pop, Go, TypeInv, TypeOK, Threads, ProducerPcs, ConsumerPcs, WaitPcs
      <3>4. LockInv'
        BY <2>3, ThreadsAssumption DEF PopFront, Pop, Go, LockInv, TypeInv, TypeOK, Threads
      <3> QED
        BY <3>3, <3>4
    <2>4. CASE PopBack(c) \/ Clear(c)
      <3>1. queue' \in Seq(Items)
        BY <2>4, Cuts, EmptySeq DEF PopBack, Pop, Clear, TypeInv, TypeOK
      <3>2. TypeInv'
        BY <2>4, <3>1, ThreadsAssumption
           DEF PopBack, Pop, Clear, Go, callVars, TypeInv, TypeOK, Threads, ProducerPcs, ConsumerPcs,
               WaitPcs
      <3>3. LockInv'
        BY <2>4, ThreadsAssumption DEF PopBack, Pop, Clear, Go, LockInv, TypeInv, TypeOK, Threads
      <3> QED
        BY <3>2, <3>3
    <2> QED
      BY <1>5, <2>1, <2>2, <2>3, <2>4 DEF Consume
  <1>6. CASE UNCHANGED vars
    BY <1>6 DEF vars, TypeInv, TypeOK, LockInv
  <1> QED
    BY <1>1, <1>2, <1>3, <1>4, <1>5, <1>6 DEF Next, Produce

\* Every variable keeps its type (ThreadsafeQueue::TypeOK), and in particular
\* processMessages never handles more messages than it was asked to.
THEOREM TypeCorrect == Spec => []TypeOK
  <1>1. IInv => TypeOK
    BY DEF IInv, TypeInv
  <1> QED
    BY InitIInv, NextIInv, <1>1, PTL DEF Spec

\* The nested locking of pushBack and pushFront never closes a cycle with
\* wait(): the owner of m_mutexBlock is at a point where it takes no m_mutex.
THEOREM LockOrder == Spec => []NoLockCycle
  <1>1. IInv => NoLockCycle
    BY DEF IInv, LockInv, NoLockCycle, WantsMutex, WantsMutexBlock
  <1> QED
    BY InitIInv, NextIInv, <1>1, PTL DEF Spec

------------------------------------------------------------------------------
\* A single consumer is the only one to take items away, so what it saw stays.
LEMMA NextItemInv ==
  ASSUME SingleConsumer
  PROVE  IInv /\ ItemInv /\ [Next]_vars => ItemInv'
  <1> SUFFICES ASSUME TypeOK, ItemInv, [Next]_vars PROVE ItemInv'
    BY DEF IInv, TypeInv
  <1> USE ThreadsAssumption DEF ItemInv, PopFindsItem, WaitYieldsMessage, SingleConsumer
  <1>1. ASSUME NEW p \in Producers, Produce(p) PROVE ItemInv'
    <2>1. ASSUME NEW item \in Items, PushBack(p, item) \/ PushFront(p, item) PROVE ItemInv'
      <3>1. queue' # <<>>
        BY <2>1, Grows DEF PushBack, PushFront, Enqueue, TypeOK
      <3>2. \A c \in Consumers : pc'[c] = pc[c]
        BY <2>1 DEF PushBack, PushFront, Enqueue, Go, TypeOK, Threads
      <3> QED
        BY <2>1, <3>1, <3>2
    <2>2. CASE LockBlock(p)
      BY <2>2 DEF LockBlock, Go, callVars, TypeOK, Threads
    <2>3. CASE NotifyOne(p)
      <3>1. \A c \in Consumers : pc'[c] \in {pc[c], "woken"}
        BY <2>3 DEF NotifyOne, WakeOne, TypeOK, Threads
      <3> QED
        BY <2>3, <3>1 DEF NotifyOne, callVars
    <2> QED
      BY <1>1, <2>1, <2>2, <2>3 DEF Produce
  <1>2. ASSUME NEW c \in Consumers, Wait(c) PROVE ItemInv'
    <2>1. CASE WaitIsEmpty(c)
      BY <2>1 DEF WaitIsEmpty, Go, callVars, TypeOK, Threads
    <2>2. CASE SpuriousWake(c)
      BY <2>2 DEF SpuriousWake, Go, callVars, TypeOK, Threads
    <2>3. CASE WaitLock(c) \/ WaitRelock(c)
      BY <2>3 DEF WaitLock, WaitRelock, TakeMutexBlock, Go, callVars, TypeOK, Threads
    <2>4. CASE WaitSleep(c) \/ WaitUnlock(c)
      BY <2>4 DEF WaitSleep, WaitUnlock, LeaveMutexBlock, Go, callVars, TypeOK, Threads
    <2> QED
      BY <1>2, <2>1, <2>2, <2>3, <2>4 DEF Wait
  <1>3. ASSUME NEW c \in Consumers, Consume(c) PROVE ItemInv'
    <2>1. ASSUME NEW max \in MaxMessages, NEW wait \in BOOLEAN, ProcessMessages(c, max, wait)
          PROVE  ItemInv'
      BY <2>1 DEF ProcessMessages, Go, TypeOK, Threads
    <2>2. CASE LoopTest(c) \/ LoopExit(c) \/ PeekIsEmpty(c)
      BY <2>2 DEF LoopTest, LoopExit, PeekIsEmpty, Go, callVars, TypeOK, Threads
    <2>3. CASE PopFront(c)
      BY <2>3 DEF PopFront, Pop, Go, TypeOK, Threads
    <2>4. CASE PopBack(c) \/ Clear(c)
      BY <2>4 DEF PopBack, Pop, Clear, Go, callVars, TypeOK, Threads
    <2> QED
      BY <1>3, <2>1, <2>2, <2>3, <2>4 DEF Consume
  <1>4. CASE UNCHANGED vars
    BY <1>4 DEF vars
  <1> QED
    BY <1>1, <1>2, <1>3, <1>4 DEF Next

\* One consumer: the item isEmpty() reported is there when it is popped.
THEOREM NoPopOnEmpty ==
  ASSUME SingleConsumer
  PROVE  Spec => []PopFindsItem
  <1>1. ItemInv => PopFindsItem
    BY DEF ItemInv
  <1> QED
    BY InitIInv, NextIInv, NextItemInv, <1>1, PTL DEF Spec

\* One consumer: a blocking processMessages has a message to handle.
THEOREM WaitIsNotInVain ==
  ASSUME SingleConsumer
  PROVE  Spec => []WaitYieldsMessage
  <1>1. ItemInv => WaitYieldsMessage
    BY DEF ItemInv
  <1> QED
    BY InitIInv, NextIInv, NextItemInv, <1>1, PTL DEF Spec

------------------------------------------------------------------------------
\* Moving one thread moves its phase and no other.
LEMMA OnePhaseMoves ==
  ASSUME TypeOK, NEW c \in Consumers, NEW to, pc' = [pc EXCEPT ![c] = to]
  PROVE  [d \in Consumers |-> Phase(d)]' = [[d \in Consumers |-> Phase(d)] EXCEPT ![c] = Phase(c)']
  <1>1. \A d \in Consumers : d # c => pc'[d] = pc[d]
    BY DEF TypeOK, Threads
  <1>2. \A d \in Consumers : d # c => Phase(d)' = Phase(d)
    BY <1>1 DEF Phase
  <1> QED
    BY <1>2

\* Every step of the locks and threads is a step of the abstract queue.
LEMMA StepRefines ==
  ASSUME SingleConsumer, TypeOK, ItemInv, [Next]_vars
  PROVE  [Abstract!Next]_(Abstract!vars)
  <1> DEFINE phase == [d \in Consumers |-> Phase(d)]
  <1> USE ThreadsAssumption
  <1> SUFFICES [Abstract!Next]_<<queue, phase>>
    BY DEF Abstract!vars
  <1>1. ASSUME NEW p \in Producers, Produce(p) PROVE [Abstract!Next]_<<queue, phase>>
    <2>1. ASSUME NEW item \in Items, PushBack(p, item) \/ PushFront(p, item)
          PROVE  Abstract!Put
      <3>1. \A c \in Consumers : pc'[c] = pc[c]
        BY <2>1 DEF PushBack, PushFront, Enqueue, Go, TypeOK, Threads
      <3>2. phase' = phase
        BY <3>1 DEF Phase
      <3> QED
        BY <2>1, <3>2 DEF Abstract!Put, PushBack, PushFront, Enqueue
    <2>2. CASE LockBlock(p) \/ NotifyOne(p)
      <3>1. \A c \in Consumers : pc'[c] = pc[c] \/ (pc[c] = "asleep" /\ pc'[c] = "woken")
        BY <2>2 DEF LockBlock, Go, NotifyOne, WakeOne, TypeOK, Threads
      <3>2. phase' = phase
        BY <3>1 DEF Phase, WaitPcs
      <3> QED
        BY <2>2, <3>2 DEF LockBlock, NotifyOne
    <2> QED
      BY <1>1, <2>1, <2>2 DEF Produce, Abstract!Next
  <1>2. ASSUME NEW c \in Consumers, Wait(c) PROVE [Abstract!Next]_<<queue, phase>>
    <2>1. PICK to : pc' = [pc EXCEPT ![c] = to]
      BY <1>2
         DEF Wait, WaitIsEmpty, WaitLock, WaitSleep, SpuriousWake, WaitRelock, WaitUnlock,
             TakeMutexBlock, LeaveMutexBlock, Go
    <2>2. phase' = [phase EXCEPT ![c] = Phase(c)'] /\ phase[c] = Phase(c) /\ pc'[c] = to
      BY <2>1, OnePhaseMoves DEF TypeOK, Threads
    <2>3. CASE WaitIsEmpty(c) /\ queue # <<>>
      <3>1. Phase(c) = "waiting" /\ Phase(c)' = "taking" /\ queue' = queue
        BY <2>1, <2>2, <2>3 DEF WaitIsEmpty, Go, Phase, WaitPcs, TypeOK, Threads
      <3>2. Abstract!Ready(c)
        BY <2>2, <2>3, <3>1 DEF Abstract!Ready, Abstract!Move
      <3> QED
        BY <3>2 DEF Abstract!Next
    <2>4. CASE ~ (WaitIsEmpty(c) /\ queue # <<>>)
      <3>1. pc[c] \in WaitPcs /\ pc'[c] \in WaitPcs /\ queue' = queue
        BY <1>2, <2>4
           DEF Wait, WaitIsEmpty, WaitLock, WaitSleep, SpuriousWake, WaitRelock, WaitUnlock,
               TakeMutexBlock, LeaveMutexBlock, Go, WaitPcs, TypeOK, Threads
      <3>2. Phase(c)' = Phase(c)
        BY <3>1 DEF Phase, WaitPcs
      <3> QED
        BY <2>2, <3>1, <3>2
    <2> QED
      BY <2>3, <2>4
  <1>3. ASSUME NEW c \in Consumers, Consume(c) PROVE [Abstract!Next]_<<queue, phase>>
    <2>1. CASE Clear(c)
      <3>1. phase[c] = "out" /\ phase' = phase /\ queue' = <<>>
        BY <2>1 DEF Clear, Phase, WaitPcs
      <3> QED
        BY <3>1 DEF Abstract!Discard, Abstract!Next
    <2>2. ASSUME NEW to, pc' = [pc EXCEPT ![c] = to], ~ Clear(c)
          PROVE  [Abstract!Next]_<<queue, phase>>
      <3>1. phase' = [phase EXCEPT ![c] = Phase(c)'] /\ phase[c] = Phase(c) /\ pc'[c] = to
        BY <2>2, OnePhaseMoves DEF TypeOK, Threads
      <3>2. CASE \E max \in MaxMessages, wait \in BOOLEAN : ProcessMessages(c, max, wait)
        <4>1. Phase(c) = "out" /\ Phase(c)' \in {"waiting", "taking"} /\ queue' = queue
          BY <3>2 DEF ProcessMessages, Go, Phase, WaitPcs, TypeOK, Threads
        <4> QED
          BY <3>1, <4>1 DEF Abstract!Enter, Abstract!Move, Abstract!Next
      <3>3. CASE LoopTest(c)
        <4>1. Phase(c) = "taking" /\ Phase(c)' = "taking" /\ queue' = queue
          BY <3>3 DEF LoopTest, Go, Phase, WaitPcs, TypeOK, Threads
        <4> QED
          BY <3>1, <4>1
      <3>4. CASE LoopExit(c)
        <4>1. Phase(c) = "taking" /\ Phase(c)' = "out" /\ queue' = queue
          BY <3>4 DEF LoopExit, Go, Phase, WaitPcs, TypeOK, Threads
        <4> QED
          BY <3>1, <4>1 DEF Abstract!Leave, Abstract!Move, Abstract!Next
      <3>5. CASE PopFront(c)
        <4>1. queue # <<>>
          BY <3>5 DEF PopFront, Pop, Go, ItemInv, PopFindsItem
        <4>2. Phase(c) = "taking" /\ Phase(c)' = "taking" /\ queue' = Tail(queue)
          BY <3>5, <4>1 DEF PopFront, Pop, Go, Phase, WaitPcs, TypeOK, Threads
        <4> QED
          BY <3>1, <4>1, <4>2 DEF Abstract!TakeFront, Abstract!Next
      <3>6. CASE PeekIsEmpty(c)
        <4>1. Phase(c) = "out" /\ Phase(c)' = "peeked" /\ queue' = queue
          BY <3>6 DEF PeekIsEmpty, Go, Phase, WaitPcs, TypeOK, Threads
        <4> QED
          BY <3>1, <3>6, <4>1 DEF PeekIsEmpty, Abstract!Peek, Abstract!Move, Abstract!Next
      <3>7. CASE PopBack(c)
        <4>1. queue # <<>>
          BY <3>7 DEF PopBack, Pop, Go, ItemInv, PopFindsItem
        <4>2. /\ Phase(c) = "peeked" /\ Phase(c)' = "out"
              /\ queue' = SubSeq(queue, 1, Len(queue) - 1)
          BY <3>7, <4>1 DEF PopBack, Pop, Go, Phase, WaitPcs, TypeOK, Threads
        <4> QED
          BY <3>1, <4>1, <4>2 DEF Abstract!TakeBack, Abstract!Move, Abstract!Next
      <3> QED
        BY <1>3, <2>2, <3>2, <3>3, <3>4, <3>5, <3>6, <3>7 DEF Consume
    <2>3. Clear(c) \/ \E to : pc' = [pc EXCEPT ![c] = to]
      BY <1>3
         DEF Consume, ProcessMessages, LoopTest, LoopExit, PopFront, PeekIsEmpty, PopBack,
             Pop, Go
    <2> QED
      BY <2>1, <2>2, <2>3
  <1>4. CASE UNCHANGED vars
    BY <1>4 DEF vars, Phase
  <1> QED
    BY <1>1, <1>2, <1>3, <1>4 DEF Next

\* One consumer: the queue with its two locks implements the queue of
\* indivisible operations (Mailbox).
THEOREM QueueImplementsMailbox ==
  ASSUME SingleConsumer
  PROVE  Spec => ImplementsMailbox
  <1>1. Init => Abstract!Init
    BY ThreadsAssumption DEF Init, Abstract!Init, Phase, WaitPcs, Threads
  <1>2. IInv /\ ItemInv /\ [Next]_vars => [Abstract!Next]_(Abstract!vars)
    BY StepRefines DEF IInv, TypeInv
  <1> QED
    BY InitIInv, NextIInv, NextItemInv, <1>1, <1>2, PTL
       DEF Spec, ImplementsMailbox, Abstract!Spec
==============================================================================
