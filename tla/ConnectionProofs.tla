---------------------------- MODULE ConnectionProofs ----------------------------
(***************************************************************************)
(* What holds of a Connection for any messages, bounds and faults.         *)
(*                                                                         *)
(* The first half is about each end by itself: Inv says what it writes and *)
(* reads at a time. The second half is about a direction from end to end.  *)
(* StreamInv says that the units on the wire are a chain, from the one the *)
(* reader takes next (Due, by how far it is: Stage) to the one the writer  *)
(* gives next (WriterAt, by the front of its queue), with every message in *)
(* between once. It says so while the reader still reads and the handshake *)
(* word comes first, which AnswerInv and ChallengeInv give. A close, or a  *)
(* write or read that fails, ends the chain but never bends it.            *)
(***************************************************************************)
EXTENDS Connection, SequenceTheorems, TLAPS

IsSeq(s) == \E S : s \in Seq(S)

\* The places in s of what has one of these operations.
At(s, ops) == {i \in DOMAIN s : s[i].op \in ops}

\* The shape of a Connection; what its fields hold matters for the operations only.
IsEnd(c) ==
  /\ c = [socket |-> c.socket, running |-> c.running, ready |-> c.ready, read |-> c.read,
          writes |-> c.writes, out |-> c.out, temp |-> c.temp]
  /\ IsSeq(c.ready) /\ IsSeq(c.writes) /\ IsSeq(c.out)
  /\ c.read \in Reads \cup {"none"}
  /\ \A i \in DOMAIN c.writes : c.writes[i].op \in Writes

\* A Connection is accepted once, and has no socket before.
AcceptInv(c) ==
  /\ \A i, j \in At(c.ready, {"accept"}) : i = j
  /\ At(c.ready, {"accept"}) # {} => c.socket = "none"

\* Whose handler runs may pop the front, so that it must be there.
WriteInv(c) ==
  /\ OneAtMost(c)
  /\ \A i \in Outstanding(c) : IsOfFront(c, c.writes[i])
  /\ Finished(c) # {} => c.out # <<>>
  /\ c.socket = "none" => c.out = <<>> /\ At(c.ready, {"send"}) = {}

Free(c) == Outstanding(c) = {} /\ Finished(c) = {}

PumpInv(c) == c.socket = "open" /\ c.out # <<>> => ~ Free(c)

EndInv(c) == IsEnd(c) /\ AcceptInv(c) /\ WriteInv(c) /\ PumpInv(c)

MessageReads == {"readHeader", "readBody"}

\* Nothing of a message was or is being read.
Silent(c) == c.read \notin MessageReads /\ At(c.ready, MessageReads) = {}

------------------------------------------------------------------------------
(* Sequences of anything. *)

LEMMA AppendSeq ==
  ASSUME NEW s, NEW x, IsSeq(s)
  PROVE  /\ IsSeq(Append(s, x))
         /\ DOMAIN s = 1 .. Len(s) /\ Len(s) \in Nat
         /\ DOMAIN Append(s, x) = 1 .. Len(s) + 1
         /\ \A i \in 1 .. Len(s) : Append(s, x)[i] = s[i]
         /\ Append(s, x)[Len(s) + 1] = x
         /\ Append(s, x) # <<>>
         /\ s # <<>> => Head(Append(s, x)) = Head(s)
         /\ s = <<>> => Head(Append(s, x)) = x
<1>1. PICK S : s \in Seq(S)
  BY DEF IsSeq
<1>2. s \in Seq(S \cup {x})
  BY <1>1
<1>3. /\ Append(s, x) \in Seq(S \cup {x}) /\ Len(s) \in Nat /\ Len(Append(s, x)) = Len(s) + 1
      /\ \A i \in 1 .. Len(s) : Append(s, x)[i] = s[i]
      /\ Append(s, x)[Len(s) + 1] = x
  BY <1>2
<1>4. Append(s, x) # <<>>
  BY <1>3
<1>5. s # <<>> => Len(s) >= 1 /\ Head(s) = s[1]
  BY <1>1
<1>6. Head(Append(s, x)) = Append(s, x)[1]
  BY <1>3, <1>4
<1>7. s = <<>> => Len(s) = 0
  OBVIOUS
<1>8. DOMAIN s = 1 .. Len(s) /\ DOMAIN Append(s, x) = 1 .. Len(s) + 1
  BY <1>1, <1>3
<1>9. s # <<>> => Head(Append(s, x)) = Head(s)
  BY <1>3, <1>5, <1>6
<1>10. s = <<>> => Head(Append(s, x)) = x
  BY <1>3, <1>6, <1>7
<1> QED BY <1>3, <1>4, <1>8, <1>9, <1>10 DEF IsSeq

LEMMA TailSeq ==
  ASSUME NEW s, IsSeq(s), s # <<>>
  PROVE  /\ IsSeq(Tail(s))
         /\ DOMAIN s = 1 .. Len(s) /\ Len(s) \in Nat \ {0}
         /\ DOMAIN Tail(s) = 1 .. Len(s) - 1
         /\ \A i \in 1 .. Len(s) - 1 : Tail(s)[i] = s[i + 1]
         /\ Head(s) = s[1]
<1>1. PICK S : s \in Seq(S)
  BY DEF IsSeq
<1>2. Tail(s) \in Seq(S)
  BY <1>1
<1> QED BY <1>1, <1>2 DEF IsSeq

LEMMA ConcatSeq ==
  ASSUME NEW s, NEW t, IsSeq(s), IsSeq(t)
  PROVE  /\ IsSeq(s \o t)
         /\ DOMAIN s = 1 .. Len(s) /\ Len(s) \in Nat
         /\ DOMAIN t = 1 .. Len(t) /\ Len(t) \in Nat
         /\ DOMAIN (s \o t) = 1 .. Len(s) + Len(t)
         /\ \A i \in 1 .. Len(s) : (s \o t)[i] = s[i]
         /\ \A i \in 1 .. Len(t) : (s \o t)[Len(s) + i] = t[i]
<1>1. PICK S : s \in Seq(S)
  BY DEF IsSeq
<1>2. PICK T : t \in Seq(T)
  BY DEF IsSeq
<1>3. s \in Seq(S \cup T) /\ t \in Seq(S \cup T)
  BY <1>1, <1>2
<1>4. s \o t \in Seq(S \cup T)
  BY <1>3
<1> QED BY <1>3, <1>4 DEF IsSeq

LEMMA AppendAt ==
  ASSUME NEW s, NEW x, NEW ops, IsSeq(s)
  PROVE  /\ x.op \notin ops => At(Append(s, x), ops) = At(s, ops)
         /\ x.op \in ops => At(Append(s, x), ops) = At(s, ops) \cup {Len(s) + 1}
BY AppendSeq DEF At

LEMMA TailAt ==
  ASSUME NEW s, NEW ops, IsSeq(s), s # <<>>
  PROVE  /\ \A i \in At(Tail(s), ops) : i + 1 \in At(s, ops) /\ i \in Nat \ {0}
         /\ At(s, ops) = {} => At(Tail(s), ops) = {}
         /\ \A i \in At(s, ops) : i \in Nat \ {0} /\ (i # 1 => i - 1 \in At(Tail(s), ops))
         /\ 1 \in At(s, ops) <=> Head(s).op \in ops
<1>1. \A i \in At(Tail(s), ops) : i + 1 \in At(s, ops) /\ i \in Nat \ {0}
  BY TailSeq DEF At
<1>2. \A i \in At(s, ops) : i \in Nat \ {0} /\ (i # 1 => i - 1 \in At(Tail(s), ops))
  <2> SUFFICES ASSUME NEW i \in At(s, ops)
               PROVE  i \in Nat \ {0} /\ (i # 1 => i - 1 \in At(Tail(s), ops))
    OBVIOUS
  <2>1. i \in 1 .. Len(s) /\ s[i].op \in ops
    BY TailSeq DEF At
  <2>2. ASSUME i # 1 PROVE i - 1 \in At(Tail(s), ops)
    <3>1. i - 1 \in 1 .. Len(s) - 1 /\ (i - 1) + 1 = i
      BY <2>1, <2>2, TailSeq
    <3>2. Tail(s)[i - 1] = s[i]
      BY <3>1, TailSeq
    <3> QED BY <2>1, <3>1, <3>2, TailSeq DEF At
  <2> QED BY <2>1, <2>2
<1>3. 1 \in At(s, ops) <=> Head(s).op \in ops
  BY TailSeq DEF At
<1> QED BY <1>1, <1>2, <1>3

\* What is there at most once stays so, and is gone with the head that was it.
LEMMA TailUnique ==
  ASSUME NEW s, NEW ops, IsSeq(s), s # <<>>, \A i, j \in At(s, ops) : i = j
  PROVE  /\ \A i, j \in At(Tail(s), ops) : i = j
         /\ Head(s).op \in ops => At(Tail(s), ops) = {}
         /\ Head(s).op \notin ops => (At(Tail(s), ops) = {} <=> At(s, ops) = {})
<1>1. ASSUME NEW i \in At(Tail(s), ops), NEW j \in At(Tail(s), ops) PROVE i = j
  <2>1. i + 1 = j + 1 /\ i \in Nat /\ j \in Nat
    BY TailAt
  <2> QED BY <2>1
<1>2. ASSUME Head(s).op \in ops, NEW i \in At(Tail(s), ops) PROVE FALSE
  <2>1. i + 1 = 1 /\ i \in Nat \ {0}
    BY <1>2, TailAt
  <2> QED BY <2>1
<1>3. ASSUME Head(s).op \notin ops PROVE At(Tail(s), ops) = {} <=> At(s, ops) = {}
  BY <1>3, TailAt
<1> QED BY <1>1, <1>2, <1>3

LEMMA ConcatAt ==
  ASSUME NEW s, NEW t, NEW ops, IsSeq(s), IsSeq(t)
  PROVE  /\ At(t, ops) = {} => At(s \o t, ops) = At(s, ops)
         /\ At(s, ops) = {} /\ At(t, ops) = {} => At(s \o t, ops) = {}
         /\ At(s, ops) = {} /\ (\A i, j \in At(t, ops) : i = j) => \A i, j \in At(s \o t, ops) : i = j
         /\ At(t, ops) # {} => At(s \o t, ops) # {}
<1>1. ASSUME NEW i \in At(s \o t, ops)
      PROVE  i \in At(s, ops) \/ \E k \in At(t, ops) : i = Len(s) + k
  <2>1. i \in 1 .. Len(s) + Len(t) /\ (s \o t)[i].op \in ops
    BY <1>1, ConcatSeq DEF At
  <2>2. CASE i <= Len(s)
    <3>1. i \in 1 .. Len(s) /\ (s \o t)[i] = s[i]
      BY <2>1, <2>2, ConcatSeq
    <3> QED BY <2>1, <3>1, ConcatSeq DEF At
  <2>3. CASE i > Len(s)
    <3>1. PICK k \in 1 .. Len(t) : i = Len(s) + k
      <4>1. i - Len(s) \in 1 .. Len(t) /\ i = Len(s) + (i - Len(s))
        BY <2>1, <2>3, ConcatSeq
      <4> QED BY <4>1
    <3>2. (s \o t)[i] = t[k]
      BY <3>1, ConcatSeq
    <3>3. k \in At(t, ops)
      BY <2>1, <3>2, ConcatSeq DEF At
    <3> QED BY <3>1, <3>3
  <2> QED BY <2>1, <2>2, <2>3, ConcatSeq
<1>2. \A i \in At(s, ops) : i \in At(s \o t, ops)
  BY ConcatSeq DEF At
<1>3. ASSUME NEW k \in At(t, ops) PROVE Len(s) + k \in At(s \o t, ops)
  <2>1. k \in 1 .. Len(t) /\ t[k].op \in ops
    BY ConcatSeq DEF At
  <2>2. Len(s) + k \in 1 .. Len(s) + Len(t) /\ (s \o t)[Len(s) + k] = t[k]
    BY <2>1, ConcatSeq
  <2> QED BY <2>1, <2>2, ConcatSeq DEF At
<1> QED BY <1>1, <1>2, <1>3

------------------------------------------------------------------------------
(* What the member functions do to a Connection. *)

LEMMA PostKeeps ==
  ASSUME NEW c, NEW h, EndInv(c), h.op \notin MessageWrites \cup {"accept"},
         h.op = "send" => c.socket # "none"
  PROVE  /\ EndInv(Post(c, h))
         /\ Silent(c) /\ h.op \notin MessageReads => Silent(Post(c, h))
<1> DEFINE d == Post(c, h)
<1>1. d = [c EXCEPT !.ready = Append(c.ready, h)]
  BY DEF Post
<1>2. /\ IsEnd(d)
      /\ d.socket = c.socket /\ d.read = c.read /\ d.writes = c.writes /\ d.out = c.out
      /\ d.ready = Append(c.ready, h)
  <2> HIDE DEF d
  <2>1. IsEnd(c) /\ IsSeq(Append(c.ready, h))
    BY AppendSeq DEF EndInv, IsEnd
  <2>2. d = [socket |-> c.socket, running |-> c.running, ready |-> Append(c.ready, h), read |-> c.read,
              writes |-> c.writes, out |-> c.out, temp |-> c.temp]
    BY <1>1, <2>1 DEF IsEnd
  <2> QED BY <2>2, <1>1, <2>1 DEF IsEnd
<1> HIDE DEF d
<1>3. IsSeq(c.ready)
  BY DEF EndInv, IsEnd
<1>4. \A ops : h.op \notin ops => At(d.ready, ops) = At(c.ready, ops)
  BY <1>2, <1>3, AppendAt
<1>5. Finished(d) = Finished(c) /\ Outstanding(d) = Outstanding(c)
  BY <1>2, <1>4 DEF Finished, Outstanding, At
<1>6. AcceptInv(d)
  <2>1. At(d.ready, {"accept"}) = At(c.ready, {"accept"})
    BY <1>4
  <2> QED BY <1>2, <2>1 DEF AcceptInv, EndInv
<1>7. c.socket = "none" => At(d.ready, {"send"}) = At(c.ready, {"send"})
  BY <1>4
<1>8. WriteInv(d) /\ PumpInv(d)
  BY <1>2, <1>5, <1>7 DEF WriteInv, PumpInv, EndInv, OneAtMost, IsOfFront, Free
<1>9. Silent(c) /\ h.op \notin MessageReads => Silent(d)
  BY <1>2, <1>4 DEF Silent
<1> QED BY <1>2, <1>6, <1>8, <1>9 DEF EndInv, d

\* A handler that is not that of a message's write has come to run.
LEMMA HandledKeeps ==
  ASSUME NEW c, EndInv(c), c.ready # <<>>, Head(c.ready).op \notin MessageWrites,
         NEW d, d = [c EXCEPT !.ready = Tail(c.ready)]
  PROVE  /\ EndInv(d)
         /\ d.socket = c.socket /\ d.out = c.out
         /\ Silent(c) => Silent(d)
<1>1. IsSeq(c.ready) /\ IsSeq(Tail(c.ready)) /\ IsEnd(c)
  BY TailSeq DEF EndInv, IsEnd
<1>2. /\ IsEnd(d)
      /\ d.socket = c.socket /\ d.read = c.read /\ d.writes = c.writes /\ d.out = c.out
      /\ d.ready = Tail(c.ready)
  <2>1. d = [socket |-> c.socket, running |-> c.running, ready |-> Tail(c.ready), read |-> c.read,
              writes |-> c.writes, out |-> c.out, temp |-> c.temp]
    BY <1>1 DEF IsEnd
  <2> QED BY <2>1, <1>1 DEF IsEnd
<1>3. AcceptInv(d)
  <2>1. \A i, j \in At(d.ready, {"accept"}) : i = j
    BY <1>1, <1>2, TailUnique DEF AcceptInv, EndInv
  <2>2. At(c.ready, {"accept"}) = {} => At(d.ready, {"accept"}) = {}
    BY <1>1, <1>2, TailAt
  <2> QED BY <1>2, <2>1, <2>2 DEF AcceptInv, EndInv
<1>4. Outstanding(d) = Outstanding(c)
  BY <1>2 DEF Outstanding
<1>5. (\A i, j \in Finished(d) : i = j) /\ (Finished(d) = {} <=> Finished(c) = {})
  <2>1. Finished(c) = At(c.ready, MessageWrites) /\ Finished(d) = At(d.ready, MessageWrites)
    BY DEF Finished, At
  <2>2. \A i, j \in At(c.ready, MessageWrites) : i = j
    BY <2>1 DEF EndInv, WriteInv, OneAtMost
  <2>3. /\ \A i, j \in At(Tail(c.ready), MessageWrites) : i = j
        /\ At(Tail(c.ready), MessageWrites) = {} <=> At(c.ready, MessageWrites) = {}
    BY <1>1, <2>2, TailUnique
  <2> QED BY <1>2, <2>1, <2>3
<1>6. At(c.ready, {"send"}) = {} => At(d.ready, {"send"}) = {}
  BY <1>1, <1>2, TailAt
<1>7. WriteInv(d) /\ PumpInv(d)
  BY <1>2, <1>4, <1>5, <1>6 DEF WriteInv, PumpInv, EndInv, OneAtMost, IsOfFront, Free
<1>8. Silent(c) => Silent(d)
  BY <1>1, <1>2, TailAt DEF Silent
<1> QED BY <1>2, <1>3, <1>7, <1>8 DEF EndInv

\* The handler of a message's write has come to run: nothing else of it is under way.
LEMMA HandledWrite ==
  ASSUME NEW c, EndInv(c), c.ready # <<>>, Head(c.ready).op \in MessageWrites,
         NEW d, d = [c EXCEPT !.ready = Tail(c.ready)]
  PROVE  /\ IsEnd(d) /\ AcceptInv(d) /\ Free(d)
         /\ d.socket = c.socket /\ d.out = c.out
         /\ d.out # <<>> /\ d.socket # "none"
         /\ Silent(c) => Silent(d)
<1>1. IsSeq(c.ready) /\ IsSeq(Tail(c.ready)) /\ IsEnd(c)
  BY TailSeq DEF EndInv, IsEnd
<1>2. /\ IsEnd(d)
      /\ d.socket = c.socket /\ d.read = c.read /\ d.writes = c.writes /\ d.out = c.out
      /\ d.ready = Tail(c.ready)
  <2>1. d = [socket |-> c.socket, running |-> c.running, ready |-> Tail(c.ready), read |-> c.read,
              writes |-> c.writes, out |-> c.out, temp |-> c.temp]
    BY <1>1 DEF IsEnd
  <2> QED BY <2>1, <1>1 DEF IsEnd
<1>3. AcceptInv(d)
  <2>1. \A i, j \in At(d.ready, {"accept"}) : i = j
    BY <1>1, <1>2, TailUnique DEF AcceptInv, EndInv
  <2>2. At(c.ready, {"accept"}) = {} => At(d.ready, {"accept"}) = {}
    BY <1>1, <1>2, TailAt
  <2> QED BY <1>2, <2>1, <2>2 DEF AcceptInv, EndInv
<1>4. Finished(c) = At(c.ready, MessageWrites) /\ Finished(d) = At(d.ready, MessageWrites)
  BY DEF Finished, At
<1>5. 1 \in Finished(c)
  BY <1>1, <1>4, TailAt
<1>6. Finished(d) = {}
  BY <1>1, <1>2, <1>4, TailUnique DEF EndInv, WriteInv, OneAtMost
<1>7. Outstanding(d) = {}
  BY <1>2, <1>5 DEF Outstanding, EndInv, WriteInv, OneAtMost
<1>8. c.out # <<>> /\ c.socket # "none"
  BY <1>5 DEF EndInv, WriteInv
<1>9. Silent(c) => Silent(d)
  BY <1>1, <1>2, TailAt DEF Silent
<1> QED BY <1>2, <1>3, <1>6, <1>7, <1>8, <1>9 DEF Free

LEMMA WriteFront ==
  ASSUME NEW c, IsEnd(c), AcceptInv(c), Free(c), c.socket # "none",
         NEW op \in MessageWrites, NEW unit, IsOfFront(c, [op |-> op, unit |-> unit])
  PROVE  /\ EndInv(StartWrite(c, op, unit))
         /\ Silent(c) => Silent(StartWrite(c, op, unit))
<1> DEFINE d == StartWrite(c, op, unit)
           w == [op |-> op, unit |-> unit]
<1>0. c.out # <<>> /\ w.op = op
  BY DEF IsOfFront
<1>1. CASE c.socket = "open"
  <2>1. d = [c EXCEPT !.writes = Append(c.writes, w)]
    BY <1>1 DEF StartWrite
  <2> HIDE DEF d, w
  <2>2. IsSeq(c.writes) /\ op \in Writes
    BY DEF IsEnd, MessageWrites, Writes
  <2>3. IsSeq(Append(c.writes, w)) /\ \A i \in DOMAIN Append(c.writes, w) : Append(c.writes, w)[i].op \in Writes
    BY <1>0, <2>2, AppendSeq DEF IsEnd
  <2>4. /\ IsEnd(d)
        /\ d.socket = c.socket /\ d.read = c.read /\ d.ready = c.ready /\ d.out = c.out
        /\ d.writes = Append(c.writes, w)
    <3>1. d = [socket |-> c.socket, running |-> c.running, ready |-> c.ready, read |-> c.read,
                writes |-> Append(c.writes, w), out |-> c.out, temp |-> c.temp]
      BY <2>1, <2>3 DEF IsEnd
    <3> QED BY <3>1, <2>1, <2>3 DEF IsEnd
  <2>5. Outstanding(d) = {Len(c.writes) + 1} /\ d.writes[Len(c.writes) + 1] = w
    <3>1. At(d.writes, MessageWrites) = At(c.writes, MessageWrites) \cup {Len(c.writes) + 1}
      BY <1>0, <2>2, <2>4, AppendAt
    <3>2. Outstanding(d) = At(d.writes, MessageWrites) /\ At(c.writes, MessageWrites) = {}
      BY DEF Outstanding, At, Free
    <3>3. d.writes[Len(c.writes) + 1] = w
      BY <2>2, <2>4, AppendSeq
    <3> QED BY <3>1, <3>2, <3>3
  <2>6. Finished(d) = {}
    BY <2>4 DEF Finished, Free
  <2>7. IsOfFront(d, w)
    BY <2>4 DEF IsOfFront, w
  <2>8. WriteInv(d) /\ PumpInv(d)
    BY <2>4, <2>5, <2>6, <2>7 DEF WriteInv, PumpInv, OneAtMost, Free
  <2>9. AcceptInv(d) /\ (Silent(c) => Silent(d))
    BY <2>4 DEF AcceptInv, Silent
  <2> QED BY <2>4, <2>8, <2>9 DEF EndInv, d
<1>2. CASE c.socket # "open"
  <2> DEFINE h == Completion(op, FALSE, NoUnit)
  <2>1. d = [c EXCEPT !.ready = Append(c.ready, h)] /\ h.op = op
    BY <1>2 DEF StartWrite, Post, Completion
  <2> HIDE DEF d, h
  <2>2. IsSeq(c.ready) /\ IsSeq(Append(c.ready, h))
    BY AppendSeq DEF IsEnd
  <2>3. /\ IsEnd(d)
        /\ d.socket = c.socket /\ d.read = c.read /\ d.writes = c.writes /\ d.out = c.out
        /\ d.ready = Append(c.ready, h)
    <3>1. d = [socket |-> c.socket, running |-> c.running, ready |-> Append(c.ready, h), read |-> c.read,
                writes |-> c.writes, out |-> c.out, temp |-> c.temp]
      BY <2>1, <2>2 DEF IsEnd
    <3> QED BY <3>1, <2>1, <2>2 DEF IsEnd
  <2>4. Finished(d) = {Len(c.ready) + 1}
    <3>1. At(d.ready, MessageWrites) = At(c.ready, MessageWrites) \cup {Len(c.ready) + 1}
      BY <2>1, <2>2, <2>3, AppendAt
    <3>2. Finished(d) = At(d.ready, MessageWrites) /\ At(c.ready, MessageWrites) = {}
      BY DEF Finished, At, Free
    <3> QED BY <3>1, <3>2
  <2>5. Outstanding(d) = {}
    BY <2>3 DEF Outstanding, Free
  <2>6. WriteInv(d) /\ PumpInv(d)
    BY <1>0, <1>2, <2>3, <2>4, <2>5 DEF WriteInv, PumpInv, OneAtMost, Free
  <2>7. \A ops : op \notin ops => At(d.ready, ops) = At(c.ready, ops)
    BY <2>1, <2>2, <2>3, AppendAt
  <2>8. op \notin {"accept"} /\ op \notin MessageReads
    BY DEF MessageWrites, MessageReads
  <2>9. At(d.ready, {"accept"}) = At(c.ready, {"accept"}) /\ At(d.ready, MessageReads) = At(c.ready, MessageReads)
    BY <2>7, <2>8
  <2>10. AcceptInv(d) /\ (Silent(c) => Silent(d))
    BY <2>3, <2>9 DEF AcceptInv, Silent
  <2> QED BY <2>3, <2>6, <2>10 DEF EndInv, d
<1> QED BY <1>1, <1>2

LEMMA WriteHeaderStarts ==
  ASSUME NEW c, IsEnd(c), AcceptInv(c), Free(c), c.socket # "none", c.out # <<>>
  PROVE  EndInv(WriteHeader(c)) /\ (Silent(c) => Silent(WriteHeader(c)))
<1> DEFINE unit == [kind |-> "header", id |-> Head(c.out).id, size |-> Len(Head(c.out).body)]
<1>1. WriteHeader(c) = StartWrite(c, "writeHeader", unit)
  BY DEF WriteHeader
<1>2. IsOfFront(c, [op |-> "writeHeader", unit |-> unit])
  BY DEF IsOfFront
<1> HIDE DEF unit
<1>3. "writeHeader" \in MessageWrites
  BY DEF MessageWrites
<1> QED BY <1>1, <1>2, <1>3, WriteFront

LEMMA WriteBodyStarts ==
  ASSUME NEW c, IsEnd(c), AcceptInv(c), Free(c), c.socket # "none", c.out # <<>>
  PROVE  EndInv(WriteBody(c)) /\ (Silent(c) => Silent(WriteBody(c)))
<1> DEFINE unit == [kind |-> "body", data |-> Head(c.out).body]
<1>1. WriteBody(c) = StartWrite(c, "writeBody", unit)
  BY DEF WriteBody
<1>2. IsOfFront(c, [op |-> "writeBody", unit |-> unit])
  BY DEF IsOfFront
<1> HIDE DEF unit
<1>3. "writeBody" \in MessageWrites
  BY DEF MessageWrites
<1> QED BY <1>1, <1>2, <1>3, WriteFront

LEMMA PopAndGoOnKeeps ==
  ASSUME NEW c, IsEnd(c), AcceptInv(c), Free(c), c.socket # "none", c.out # <<>>
  PROVE  EndInv(PopAndGoOn(c)) /\ (Silent(c) => Silent(PopAndGoOn(c)))
<1> DEFINE d == [c EXCEPT !.out = Tail(c.out)]
<1>1. PopAndGoOn(c) = IF d.out = <<>> THEN d ELSE WriteHeader(d)
  BY DEF PopAndGoOn
<1>2. d = [c EXCEPT !.out = Tail(c.out)]
  OBVIOUS
<1> HIDE DEF d
<1>3. IsSeq(Tail(c.out))
  BY TailSeq DEF IsEnd
<1>4. /\ IsEnd(d)
      /\ d.socket = c.socket /\ d.read = c.read /\ d.ready = c.ready /\ d.writes = c.writes
  <2>1. d = [socket |-> c.socket, running |-> c.running, ready |-> c.ready, read |-> c.read,
              writes |-> c.writes, out |-> Tail(c.out), temp |-> c.temp]
    BY <1>2, <1>3 DEF IsEnd
  <2> QED BY <2>1, <1>2, <1>3 DEF IsEnd
<1>5. AcceptInv(d) /\ Free(d) /\ (Silent(c) => Silent(d))
  BY <1>4 DEF AcceptInv, Free, Outstanding, Finished, Silent
<1>6. d.out = <<>> => EndInv(d)
  BY <1>4, <1>5 DEF EndInv, WriteInv, PumpInv, OneAtMost, Free
<1> QED BY <1>1, <1>4, <1>5, <1>6, WriteHeaderStarts

LEMMA CloseKeeps ==
  ASSUME NEW c, IsEnd(c), AcceptInv(c), WriteInv(c)
  PROVE  /\ EndInv(Close(c))
         /\ Close(c).socket # "open" /\ (Close(c).socket = "none" => c.socket = "none")
         /\ Close(c).writes = <<>> /\ Close(c).read = "none"
         /\ Silent(c) => Silent(Close(c))
<1> DEFINE aR == IF c.read = "none" THEN <<>> ELSE <<Completion(c.read, FALSE, NoUnit)>>
           aW == [i \in 1 .. Len(c.writes) |-> Completion(c.writes[i].op, FALSE, NoUnit)]
           r == c.ready \o aR
           d == Close(c)
<1>1. IsSeq(c.ready) /\ IsSeq(c.writes) /\ DOMAIN c.writes = 1 .. Len(c.writes) /\ Len(c.writes) \in Nat
  BY ConcatSeq DEF IsEnd
<1>2. IsSeq(aR) /\ \A ops : c.read \notin ops => At(aR, ops) = {}
  <2>1. CASE c.read = "none"
    <3>1. aR = <<>> /\ aR \in Seq({}) /\ DOMAIN aR = {}
      BY <2>1
    <3> QED BY <3>1 DEF IsSeq, At
  <2>2. CASE c.read # "none"
    <3> DEFINE h == Completion(c.read, FALSE, NoUnit)
    <3>1. aR = <<h>> /\ h.op = c.read
      BY <2>2 DEF Completion
    <3> HIDE DEF h, aR
    <3>2. <<h>> \in Seq({h}) /\ DOMAIN <<h>> = {1} /\ <<h>>[1] = h
      OBVIOUS
    <3> QED BY <3>1, <3>2 DEF IsSeq, At
  <2> QED BY <2>1, <2>2
<1>3. IsSeq(aW) /\ \A ops : At(aW, ops) = At(c.writes, ops)
  <2>1. aW \in Seq({aW[i] : i \in 1 .. Len(c.writes)})
    <3>1. aW \in [1 .. Len(c.writes) -> {aW[i] : i \in 1 .. Len(c.writes)}]
      OBVIOUS
    <3> HIDE DEF aW
    <3> QED BY <1>1, <3>1
  <2>2. \A i \in 1 .. Len(c.writes) : aW[i].op = c.writes[i].op
    BY DEF Completion
  <2>3. DOMAIN aW = 1 .. Len(c.writes)
    OBVIOUS
  <2> QED BY <1>1, <2>1, <2>2, <2>3 DEF IsSeq, At
<1> HIDE DEF aR, aW
<1>4. IsSeq(r) /\ IsSeq(r \o aW)
  BY <1>1, <1>2, <1>3, ConcatSeq
<1>5. /\ IsEnd(d)
      /\ d.socket = IF c.socket = "open" THEN "closed" ELSE c.socket
      /\ d.read = "none" /\ d.writes = <<>> /\ d.out = c.out /\ d.ready = r \o aW
  <2>1. Close(c) = [c EXCEPT !.socket = IF c.socket = "open" THEN "closed" ELSE c.socket,
                             !.ready = c.ready \o aR \o aW, !.read = "none", !.writes = <<>>]
    BY DEF Close, aR, aW
  <2>2. Close(c) = [socket |-> IF c.socket = "open" THEN "closed" ELSE c.socket, running |-> c.running,
                    ready |-> r \o aW, read |-> "none", writes |-> <<>>, out |-> c.out, temp |-> c.temp]
    BY <2>1 DEF IsEnd
  <2>3. <<>> \in Seq({}) /\ DOMAIN <<>> = {}
    OBVIOUS
  <2> HIDE DEF r
  <2>4. IsSeq(c.out) /\ IsSeq(<<>>) /\ IsSeq(r \o aW)
    BY <1>4, <2>3 DEF IsEnd, IsSeq
  <2> QED BY <2>2, <2>3, <2>4 DEF IsEnd
<1> HIDE DEF d
<1>6. c.read \notin MessageWrites /\ c.read \notin {"accept"} /\ c.read \notin {"send"}
  BY DEF IsEnd, Reads, MessageWrites
<1>7. At(r, MessageWrites) = At(c.ready, MessageWrites)
      /\ At(r, {"accept"}) = At(c.ready, {"accept"}) /\ At(r, {"send"}) = At(c.ready, {"send"})
  BY <1>1, <1>2, <1>6, ConcatAt
<1>8. /\ At(c.writes, {"accept"}) = {} /\ At(c.writes, {"send"}) = {}
      /\ At(c.writes, MessageReads) = {}
  BY DEF IsEnd, At, Writes, MessageReads
<1>9. At(d.ready, {"accept"}) = At(c.ready, {"accept"}) /\ At(d.ready, {"send"}) = At(c.ready, {"send"})
  <2> HIDE DEF r
  <2> QED BY <1>3, <1>4, <1>5, <1>7, <1>8, ConcatAt
<1>10. AcceptInv(d)
  BY <1>5, <1>9 DEF AcceptInv
<1>11. Outstanding(d) = {}
  BY <1>5 DEF Outstanding
<1>12. Outstanding(c) = At(c.writes, MessageWrites) /\ Finished(c) = At(c.ready, MessageWrites)
       /\ Finished(d) = At(d.ready, MessageWrites)
  BY DEF Outstanding, Finished, At
<1>13. \A i, j \in Finished(d) : i = j
  <2> HIDE DEF r
  <2>1. CASE Outstanding(c) = {}
    <3>1. At(aW, MessageWrites) = {}
      BY <1>3, <1>12, <2>1
    <3>2. At(r \o aW, MessageWrites) = At(r, MessageWrites)
      BY <1>3, <1>4, <3>1, ConcatAt
    <3> QED BY <1>5, <1>7, <1>12, <3>2 DEF WriteInv, OneAtMost
  <2>2. CASE Finished(c) = {}
    <3>1. At(r, MessageWrites) = {} /\ \A i, j \in At(aW, MessageWrites) : i = j
      BY <1>3, <1>7, <1>12, <2>2 DEF WriteInv, OneAtMost
    <3>2. \A i, j \in At(r \o aW, MessageWrites) : i = j
      BY <1>3, <1>4, <3>1, ConcatAt
    <3> QED BY <1>5, <1>12, <3>2
  <2> QED BY <2>1, <2>2 DEF WriteInv, OneAtMost
<1>14. Finished(d) # {} => d.out # <<>>
  <2> HIDE DEF r
  <2>1. ASSUME Finished(c) = {}, Outstanding(c) = {} PROVE Finished(d) = {}
    <3>1. At(aW, MessageWrites) = {} /\ At(r, MessageWrites) = {}
      BY <1>3, <1>7, <1>12, <2>1
    <3>2. At(r \o aW, MessageWrites) = {}
      BY <1>3, <1>4, <3>1, ConcatAt
    <3> QED BY <1>5, <1>12, <3>2
  <2>2. Finished(c) # {} \/ Outstanding(c) # {} => c.out # <<>>
    BY DEF WriteInv, IsOfFront
  <2> QED BY <1>5, <2>1, <2>2
<1>15. WriteInv(d)
  BY <1>5, <1>9, <1>11, <1>13, <1>14 DEF WriteInv, OneAtMost
<1>16. PumpInv(d)
  BY <1>5 DEF PumpInv
<1>17. ASSUME Silent(c) PROVE Silent(d)
  <2>1. At(r, MessageReads) = {}
    BY <1>1, <1>2, <1>17, ConcatAt DEF Silent
  <2> HIDE DEF r
  <2>2. At(d.ready, MessageReads) = {}
    BY <1>3, <1>4, <1>5, <1>8, <2>1, ConcatAt
  <2> QED BY <1>5, <2>2 DEF Silent, MessageReads
<1> QED BY <1>5, <1>10, <1>15, <1>16, <1>17 DEF EndInv, d

LEMMA StartReadKeeps ==
  ASSUME NEW c, EndInv(c), NEW op \in Reads
  PROVE  /\ EndInv(StartRead(c, op))
         /\ Silent(c) /\ op \notin MessageReads => Silent(StartRead(c, op))
<1> DEFINE d == [c EXCEPT !.read = op]
           h == Completion(op, FALSE, NoUnit)
<1>1. StartRead(c, op) = IF c.socket = "open" THEN d ELSE Post(c, h)
  BY DEF StartRead
<1>2. d = [c EXCEPT !.read = op] /\ h.op = op
  BY DEF Completion
<1> HIDE DEF d, h
<1>3. /\ IsEnd(d)
      /\ d.socket = c.socket /\ d.ready = c.ready /\ d.writes = c.writes /\ d.out = c.out
      /\ d.read = op
  <2>1. d = [socket |-> c.socket, running |-> c.running, ready |-> c.ready, read |-> op,
              writes |-> c.writes, out |-> c.out, temp |-> c.temp]
    BY <1>2 DEF EndInv, IsEnd
  <2> QED BY <2>1, <1>2 DEF EndInv, IsEnd
<1>4. AcceptInv(d) /\ WriteInv(d) /\ PumpInv(d)
  BY <1>3 DEF EndInv, AcceptInv, WriteInv, PumpInv, OneAtMost, IsOfFront, Free, Outstanding, Finished
<1>5. Silent(c) /\ op \notin MessageReads => Silent(d)
  BY <1>3 DEF Silent
<1>6. op \notin MessageWrites \cup {"accept"} /\ op # "send"
  BY DEF Reads, MessageWrites
<1>7. EndInv(Post(c, h)) /\ (Silent(c) /\ op \notin MessageReads => Silent(Post(c, h)))
  BY <1>2, <1>6, PostKeeps
<1> QED BY <1>1, <1>3, <1>4, <1>5, <1>7 DEF EndInv

LEMMA WriteValidationKeeps ==
  ASSUME NEW c, NEW value, EndInv(c)
  PROVE  EndInv(WriteValidation(c, value)) /\ (Silent(c) => Silent(WriteValidation(c, value)))
<1> DEFINE w == [op |-> "writeValidation", unit |-> [kind |-> "validation", value |-> value]]
           d == [c EXCEPT !.writes = Append(c.writes, w)]
           h == Completion("writeValidation", FALSE, NoUnit)
<1>1. WriteValidation(c, value) = IF c.socket = "open" THEN d ELSE Post(c, h)
  BY DEF WriteValidation, StartWrite
<1>2. w.op = "writeValidation" /\ h.op = "writeValidation" /\ d = [c EXCEPT !.writes = Append(c.writes, w)]
  BY DEF Completion
<1> HIDE DEF d, h, w
<1>3. IsEnd(c) /\ IsSeq(c.writes)
  BY DEF EndInv, IsEnd
<1>4. /\ IsSeq(Append(c.writes, w))
      /\ \A i \in DOMAIN Append(c.writes, w) : Append(c.writes, w)[i].op \in Writes
  BY <1>2, <1>3, AppendSeq DEF IsEnd, Writes
<1>5. /\ IsEnd(d)
      /\ d.socket = c.socket /\ d.ready = c.ready /\ d.read = c.read /\ d.out = c.out
      /\ d.writes = Append(c.writes, w)
  <2>1. d = [socket |-> c.socket, running |-> c.running, ready |-> c.ready, read |-> c.read,
              writes |-> Append(c.writes, w), out |-> c.out, temp |-> c.temp]
    BY <1>2, <1>3, <1>4 DEF IsEnd
  <2> QED BY <2>1, <1>2, <1>3, <1>4 DEF IsEnd
<1>6. Outstanding(d) = Outstanding(c) /\ Finished(d) = Finished(c)
  <2>1. "writeValidation" \notin MessageWrites
    BY DEF MessageWrites
  <2>2. At(d.writes, MessageWrites) = At(c.writes, MessageWrites)
    BY <1>2, <1>3, <1>5, <2>1, AppendAt
  <2> QED BY <1>5, <2>2 DEF Outstanding, Finished, At
<1>7. \A i \in Outstanding(d) : d.writes[i] = c.writes[i]
  BY <1>3, <1>5, <1>6, AppendSeq DEF Outstanding
<1>8. AcceptInv(d) /\ WriteInv(d) /\ PumpInv(d)
  BY <1>5, <1>6, <1>7 DEF EndInv, AcceptInv, WriteInv, PumpInv, OneAtMost, IsOfFront, Free
<1>9. Silent(c) => Silent(d)
  BY <1>5 DEF Silent
<1>10. EndInv(Post(c, h)) /\ (Silent(c) => Silent(Post(c, h)))
  BY <1>2, PostKeeps DEF MessageWrites, MessageReads
<1> QED BY <1>1, <1>5, <1>8, <1>9, <1>10 DEF EndInv

LEMMA RunningKeeps ==
  ASSUME NEW c, NEW v, EndInv(c)
  PROVE  EndInv([c EXCEPT !.running = v]) /\ (Silent(c) => Silent([c EXCEPT !.running = v]))
<1> DEFINE d == [c EXCEPT !.running = v]
<1>1. d = [c EXCEPT !.running = v]
  OBVIOUS
<1> HIDE DEF d
<1>2. /\ IsEnd(d)
      /\ d.socket = c.socket /\ d.ready = c.ready /\ d.read = c.read /\ d.writes = c.writes /\ d.out = c.out
  <2>1. d = [socket |-> c.socket, running |-> v, ready |-> c.ready, read |-> c.read,
              writes |-> c.writes, out |-> c.out, temp |-> c.temp]
    BY <1>1 DEF EndInv, IsEnd
  <2> QED BY <2>1, <1>1 DEF EndInv, IsEnd
<1>3. EndInv(d) /\ (Silent(c) => Silent(d))
  BY <1>2 DEF EndInv, AcceptInv, WriteInv, PumpInv, OneAtMost, IsOfFront, Free, Outstanding, Finished, Silent
<1> QED BY <1>3 DEF d

\* Nothing depends on m_tempMessageIn.
LEMMA TempKeeps ==
  ASSUME NEW c, NEW d, EndInv(c),
         d = [socket |-> c.socket, running |-> c.running, ready |-> c.ready, read |-> c.read,
              writes |-> c.writes, out |-> c.out, temp |-> d.temp]
  PROVE  EndInv(d)
<1>1. /\ d.socket = c.socket /\ d.running = c.running /\ d.ready = c.ready
      /\ d.read = c.read /\ d.writes = c.writes /\ d.out = c.out
  OBVIOUS
<1>2. IsEnd(d)
  BY <1>1 DEF IsEnd, EndInv
<1> QED
  BY <1>1, <1>2 DEF EndInv, AcceptInv, WriteInv, PumpInv, OneAtMost, IsOfFront, Free, Outstanding, Finished

\* A finished write leaves the one list and enters the other.
LEMMA FinishWriteKeeps ==
  ASSUME NEW c, NEW ok, EndInv(c), c.writes # <<>>,
         NEW b, b = [c EXCEPT !.writes = Tail(c.writes)],
         NEW h, h.op = Head(c.writes).op
  PROVE  EndInv(Post(b, h)) /\ (Silent(c) => Silent(Post(b, h)))
<1> DEFINE d == Post(b, h)
<1>1. IsEnd(c) /\ IsSeq(c.writes) /\ IsSeq(Tail(c.writes)) /\ IsSeq(c.ready)
  BY TailSeq DEF EndInv, IsEnd
<1>2. \A i \in DOMAIN Tail(c.writes) : Tail(c.writes)[i] = c.writes[i + 1] /\ i + 1 \in DOMAIN c.writes
  BY <1>1, TailSeq
<1>3. /\ IsEnd(b)
      /\ b.socket = c.socket /\ b.ready = c.ready /\ b.read = c.read /\ b.out = c.out
      /\ b.writes = Tail(c.writes)
  <2>1. b = [socket |-> c.socket, running |-> c.running, ready |-> c.ready, read |-> c.read,
             writes |-> Tail(c.writes), out |-> c.out, temp |-> c.temp]
    BY <1>1 DEF IsEnd
  <2>2. \A i \in DOMAIN Tail(c.writes) : Tail(c.writes)[i].op \in Writes
    BY <1>1, <1>2 DEF IsEnd
  <2>3. /\ b.socket = c.socket /\ b.ready = c.ready /\ b.read = c.read /\ b.out = c.out
        /\ b.writes = Tail(c.writes) /\ b.running = c.running /\ b.temp = c.temp
    BY <2>1
  <2> QED BY <1>1, <2>1, <2>2, <2>3 DEF IsEnd
<1>4. AcceptInv(b) /\ (Silent(c) => Silent(b))
  BY <1>3 DEF AcceptInv, Silent, EndInv
<1>5. /\ Outstanding(c) = At(c.writes, MessageWrites) /\ Outstanding(b) = At(b.writes, MessageWrites)
      /\ Finished(b) = Finished(c)
  BY <1>3 DEF Outstanding, Finished, At
<1>6. \A i, j \in At(c.writes, MessageWrites) : i = j
  BY <1>5 DEF EndInv, WriteInv, OneAtMost
<1>7. Head(c.writes).op \in Writes
  BY <1>1, TailSeq DEF IsEnd
<1>8. h.op \notin {"send", "accept"} /\ h.op \notin MessageReads
  BY <1>7 DEF Writes, MessageReads
<1>9. CASE h.op \in MessageWrites
  <2>1. 1 \in Outstanding(c) /\ Outstanding(b) = {}
    <3>1. At(Tail(c.writes), MessageWrites) = {}
      BY <1>1, <1>6, <1>9, TailUnique
    <3>2. 1 \in At(c.writes, MessageWrites)
      BY <1>1, <1>9, TailAt
    <3> QED BY <1>3, <1>5, <3>1, <3>2
  <2>2. Finished(c) = {} /\ c.out # <<>> /\ c.socket # "none"
    BY <2>1 DEF EndInv, WriteInv, OneAtMost, IsOfFront
  <2>3. d = [b EXCEPT !.ready = Append(b.ready, h)]
    BY DEF Post
  <2> HIDE DEF d
  <2>4. IsSeq(b.ready) /\ IsSeq(Append(b.ready, h))
    BY <1>1, <1>3, AppendSeq
  <2>5. /\ IsEnd(d)
        /\ d.socket = b.socket /\ d.read = b.read /\ d.writes = b.writes /\ d.out = b.out
        /\ d.ready = Append(b.ready, h)
    <3>1. d = [socket |-> b.socket, running |-> b.running, ready |-> Append(b.ready, h), read |-> b.read,
               writes |-> b.writes, out |-> b.out, temp |-> b.temp]
      BY <1>3, <2>3 DEF IsEnd
    <3> QED BY <1>3, <2>4, <3>1 DEF IsEnd
  <2>6. Finished(d) = {Len(b.ready) + 1}
    <3>1. At(d.ready, MessageWrites) = At(b.ready, MessageWrites) \cup {Len(b.ready) + 1}
      BY <1>9, <2>4, <2>5, AppendAt
    <3>2. Finished(d) = At(d.ready, MessageWrites) /\ Finished(b) = At(b.ready, MessageWrites)
      BY DEF Finished, At
    <3> QED BY <1>5, <2>2, <3>1, <3>2
  <2>7. Outstanding(d) = {}
    BY <2>1, <2>5 DEF Outstanding
  <2>8. WriteInv(d) /\ PumpInv(d)
    BY <1>3, <2>2, <2>5, <2>6, <2>7 DEF WriteInv, PumpInv, OneAtMost, Free
  <2>9. /\ At(d.ready, {"accept"}) = At(b.ready, {"accept"})
        /\ At(d.ready, MessageReads) = At(b.ready, MessageReads)
    BY <1>8, <2>4, <2>5, AppendAt
  <2>10. AcceptInv(d) /\ (Silent(c) => Silent(d))
    BY <1>4, <2>5, <2>9 DEF AcceptInv, Silent
  <2> QED BY <2>5, <2>8, <2>10 DEF EndInv, d
<1>10. CASE h.op \notin MessageWrites
  <2>1. /\ \A i, j \in At(Tail(c.writes), MessageWrites) : i = j
        /\ At(Tail(c.writes), MessageWrites) = {} <=> At(c.writes, MessageWrites) = {}
    BY <1>1, <1>6, <1>10, TailUnique
  <2>2. OneAtMost(b) /\ (Outstanding(b) = {} <=> Outstanding(c) = {})
    BY <1>3, <1>5, <2>1 DEF EndInv, WriteInv, OneAtMost
  <2>3. ASSUME NEW i \in Outstanding(b) PROVE IsOfFront(b, b.writes[i])
    <3>1. b.writes[i] = c.writes[i + 1] /\ i + 1 \in Outstanding(c)
      BY <1>2, <1>3, <2>3 DEF Outstanding
    <3> QED BY <1>3, <3>1 DEF EndInv, WriteInv, IsOfFront
  <2>4. WriteInv(b) /\ PumpInv(b)
    BY <1>3, <1>5, <2>2, <2>3 DEF EndInv, WriteInv, PumpInv, Free
  <2>5. EndInv(b)
    BY <1>3, <1>4, <2>4 DEF EndInv
  <2>6. h.op \notin MessageWrites \cup {"accept"} /\ h.op # "send"
    BY <1>8, <1>10
  <2> QED BY <1>4, <1>8, <2>5, <2>6, PostKeeps
<1> QED BY <1>9, <1>10

LEMMA FinishReadKeeps ==
  ASSUME NEW c, EndInv(c), c.read # "none",
         NEW b, b = [c EXCEPT !.read = "none"], NEW h, h.op = c.read
  PROVE  EndInv(Post(b, h)) /\ (Silent(c) => Silent(Post(b, h)))
<1>1. /\ IsEnd(b)
      /\ b.socket = c.socket /\ b.ready = c.ready /\ b.writes = c.writes /\ b.out = c.out
      /\ b.read = "none"
  <2>1. b = [socket |-> c.socket, running |-> c.running, ready |-> c.ready, read |-> "none",
             writes |-> c.writes, out |-> c.out, temp |-> c.temp]
    BY DEF EndInv, IsEnd
  <2> QED BY <2>1 DEF EndInv, IsEnd
<1>2. AcceptInv(b) /\ WriteInv(b) /\ PumpInv(b)
  BY <1>1 DEF EndInv, AcceptInv, WriteInv, PumpInv, OneAtMost, IsOfFront, Free, Outstanding, Finished
<1>3. Silent(c) => Silent(b)
  BY <1>1 DEF Silent, MessageReads
<1>4. h.op \notin MessageWrites \cup {"accept"} /\ h.op # "send"
  BY DEF EndInv, IsEnd, Reads, MessageWrites
<1>5. Silent(c) => h.op \notin MessageReads
  BY DEF Silent
<1> QED BY <1>1, <1>2, <1>3, <1>4, <1>5, PostKeeps DEF EndInv

------------------------------------------------------------------------------
(* The two ends together. *)

Untouched(c) == c.socket = "none" /\ c.ready = <<>> /\ c.read = "none" /\ c.writes = <<>>

LinkInv ==
  /\ link = "none" => Untouched(end["client"])
  /\ link \in {"none", "connecting"} => Untouched(end["server"])

SilentInv == ~ validated => received["server"] = <<>> /\ Silent(end["server"])

Inv ==
  /\ end = [e \in Ends |-> end[e]] /\ received = [e \in Ends |-> received[e]]
  /\ \A e \in Ends : EndInv(end[e])
  /\ LinkInv
  /\ SilentInv

\* A step that gives one end the record c and no early end a first operation.
LEMMA OneEnd ==
  ASSUME Inv, NEW e \in Ends, NEW c, EndInv(c), end' = [end EXCEPT ![e] = c], link' = link,
         ~ Untouched(end[e]), received' = received, validated' = validated,
         e = "server" /\ Silent(end["server"]) => Silent(c)
  PROVE  Inv'
<1>1. end' = [f \in Ends |-> end'[f]] /\ end'[e] = c /\ \A f \in Ends \ {e} : end'[f] = end[f]
  BY DEF Inv
<1>2. \A f \in Ends : EndInv(end'[f])
  BY <1>1 DEF Inv
<1>3. LinkInv'
  BY <1>1 DEF Inv, LinkInv, Ends
<1>4. SilentInv'
  BY <1>1 DEF Inv, SilentInv, Ends
<1> QED BY <1>1, <1>2, <1>3, <1>4 DEF Inv

\* The same for a handler, which may be the last one.
LEMMA Becoming ==
  ASSUME Inv, NEW e \in Ends, NEW c, EndInv(c), Becomes(e, c), end[e].ready # <<>>, link' = link,
         received' = received, validated' = validated,
         e = "server" /\ Silent(end["server"]) => Silent(c)
  PROVE  Inv'
<1> DEFINE v == c.running /\ ~ OutOfWork(e, c)
<1>1. end' = [end EXCEPT ![e] = [c EXCEPT !.running = v]]
  BY DEF Becomes
<1> HIDE DEF v
<1>2. EndInv([c EXCEPT !.running = v]) /\ (Silent(c) => Silent([c EXCEPT !.running = v]))
  BY RunningKeeps
<1>3. ~ Untouched(end[e])
  BY DEF Untouched
<1> QED BY <1>1, <1>2, <1>3, OneEnd

\* The same for a handler that has read of a message, or has read the answer.
LEMMA BecomingReader ==
  ASSUME Inv, NEW e \in Ends, NEW c, EndInv(c), Becomes(e, c), end[e].ready # <<>>, link' = link,
         received' = received \/ \E r : received' = [received EXCEPT ![e] = r],
         validated' = validated \/ validated', e = "server" => validated'
  PROVE  Inv'
<1> DEFINE v == c.running /\ ~ OutOfWork(e, c)
           d == [c EXCEPT !.running = v]
<1>1. end' = [end EXCEPT ![e] = d]
  BY DEF Becomes
<1> HIDE DEF v
<1>2. EndInv(d)
  BY RunningKeeps
<1> HIDE DEF d
<1>3. ~ Untouched(end[e])
  BY DEF Untouched
<1>4. end' = [f \in Ends |-> end'[f]] /\ end'[e] = d /\ \A f \in Ends \ {e} : end'[f] = end[f]
  BY <1>1 DEF Inv
<1>5. received' = [f \in Ends |-> received'[f]] /\ \A f \in Ends \ {e} : received'[f] = received[f]
  BY DEF Inv
<1>6. \A f \in Ends : EndInv(end'[f])
  BY <1>2, <1>4 DEF Inv
<1>7. LinkInv'
  BY <1>3, <1>4 DEF Inv, LinkInv, Ends
<1>8. SilentInv'
  <2> SUFFICES ASSUME ~ validated' PROVE received'["server"] = <<>> /\ Silent(end'["server"])
    BY DEF SilentInv, Silent, At
  <2>1. ~ validated /\ e # "server"
    OBVIOUS
  <2>2. end'["server"] = end["server"] /\ received'["server"] = received["server"]
    BY <1>4, <1>5, <2>1 DEF Ends
  <2> QED BY <2>1, <2>2 DEF Inv, SilentInv
<1> QED BY <1>4, <1>5, <1>6, <1>7, <1>8 DEF Inv

\* What a handler begins with.
LEMMA Running ==
  ASSUME Inv, NEW e \in Ends, NEW op, NEW ok, Runs(e, op, ok)
  PROVE  /\ end[e].ready # <<>>
         /\ op \notin MessageWrites =>
              EndInv(Handled(e))
         /\ op \in MessageWrites =>
              IsEnd(Handled(e)) /\ AcceptInv(Handled(e)) /\ Free(Handled(e))
              /\ Handled(e).out # <<>> /\ Handled(e).socket # "none"
         /\ Handled(e).socket = end[e].socket /\ Handled(e).out = end[e].out
         /\ Silent(end[e]) => Silent(Handled(e))
<1>1. end[e].ready # <<>> /\ Head(end[e].ready).op = op /\ EndInv(end[e])
  BY DEF Runs, Inv
<1>2. Handled(e) = [end[e] EXCEPT !.ready = Tail(end[e].ready)]
  BY DEF Handled
<1> QED BY <1>1, <1>2, HandledKeeps, HandledWrite

\* The same for a handler that is not that of a write of a message.
LEMMA RunningOther ==
  ASSUME Inv, NEW e \in Ends, NEW op, op \notin MessageWrites, NEW ok, Runs(e, op, ok)
  PROVE  /\ EndInv(Handled(e)) /\ end[e].ready # <<>>
         /\ Handled(e).out = end[e].out /\ Handled(e).socket = end[e].socket
         /\ Silent(end[e]) => Silent(Handled(e))
BY Running

LEMMA InitInv == Init => Inv
<1> SUFFICES ASSUME Init PROVE Inv
  OBVIOUS
<1> DEFINE c == [socket |-> "none", running |-> TRUE, ready |-> <<>>, read |-> "none",
                 writes |-> <<>>, out |-> <<>>, temp |-> [id |-> 0, size |-> 0, body |-> <<>>]]
<1>1. end = [e \in Ends |-> c]
  BY DEF Init
<1>2. <<>> \in Seq({}) /\ DOMAIN <<>> = {}
  OBVIOUS
<1>3. /\ c.socket = "none" /\ c.ready = <<>> /\ c.read = "none" /\ c.writes = <<>> /\ c.out = <<>>
      /\ c = [socket |-> c.socket, running |-> c.running, ready |-> c.ready, read |-> c.read,
              writes |-> c.writes, out |-> c.out, temp |-> c.temp]
  OBVIOUS
<1> HIDE DEF c
<1>4. IsEnd(c)
  BY <1>2, <1>3 DEF IsEnd, IsSeq
<1>5. EndInv(c) /\ Silent(c) /\ Untouched(c)
  BY <1>2, <1>3, <1>4
  DEF EndInv, AcceptInv, WriteInv, PumpInv, OneAtMost, Free, Outstanding, Finished, At, Silent,
      Untouched, MessageReads
<1>6. received = [e \in Ends |-> received[e]] /\ received["server"] = <<>>
  BY DEF Init, Ends
<1> QED BY <1>1, <1>5, <1>6 DEF Inv, LinkInv, SilentInv, Init, Ends

LEMMA ApplicationKeeps == Inv /\ Application => Inv'
<1> SUFFICES ASSUME Inv, Application PROVE Inv'
  OBVIOUS
<1>1. CASE Connect
  <2> DEFINE c == end["client"]
             d == [c EXCEPT !.socket = "open"]
  <2>1. link = "none" /\ link' = "connecting" /\ end' = [end EXCEPT !["client"] = d]
        /\ received' = received /\ validated' = validated
    BY <1>1 DEF Connect
  <2>2. EndInv(c) /\ Untouched(c) /\ Untouched(end["server"])
    BY <2>1 DEF Inv, LinkInv, Ends
  <2>3. d = [c EXCEPT !.socket = "open"]
    OBVIOUS
  <2> HIDE DEF c, d
  <2>4. d = [socket |-> "open", running |-> c.running, ready |-> c.ready, read |-> c.read,
             writes |-> c.writes, out |-> c.out, temp |-> c.temp]
    BY <2>2, <2>3 DEF EndInv, IsEnd
  <2>5. /\ IsEnd(d) /\ d.ready = <<>> /\ d.writes = <<>> /\ d.out = <<>>
    BY <2>2, <2>4 DEF EndInv, IsEnd, WriteInv, Untouched
  <2>6. DOMAIN <<>> = {}
    OBVIOUS
  <2>7. EndInv(d)
    BY <2>5, <2>6
    DEF EndInv, AcceptInv, WriteInv, PumpInv, OneAtMost, Free, Outstanding, Finished, At
  <2>8. end' = [e \in Ends |-> end'[e]] /\ end'["client"] = d /\ end'["server"] = end["server"]
    BY <2>1 DEF Inv, Ends
  <2>9. \A e \in Ends : EndInv(end'[e])
    BY <2>7, <2>8 DEF Inv, Ends
  <2>10. LinkInv' /\ SilentInv'
    BY <2>1, <2>2, <2>8 DEF Inv, LinkInv, SilentInv
  <2> QED BY <2>1, <2>8, <2>9, <2>10 DEF Inv
<1>2. ASSUME NEW e \in Ends, NEW m \in Messages, Send(e, m) PROVE Inv'
  <2> DEFINE h == [op |-> "send", message |-> m]
  <2>1. /\ end[e].socket = "open" /\ end' = [end EXCEPT ![e] = Post(end[e], h)]
        /\ link' = link /\ received' = received /\ validated' = validated
    BY <1>2 DEF Send, IsConnected
  <2>2. h.op = "send"
    OBVIOUS
  <2> HIDE DEF h
  <2>3. EndInv(Post(end[e], h)) /\ (Silent(end[e]) => Silent(Post(end[e], h)))
    BY <2>1, <2>2, PostKeeps DEF Inv, MessageWrites, MessageReads
  <2>4. ~ Untouched(end[e])
    BY <2>1 DEF Untouched
  <2> QED BY <2>1, <2>3, <2>4, OneEnd
<1>3. ASSUME NEW e \in Ends, Disconnect(e) PROVE Inv'
  <2> DEFINE h == [op |-> "close"]
  <2>1. /\ end[e].socket = "open" /\ end' = [end EXCEPT ![e] = Post(end[e], h)]
        /\ link' = link /\ received' = received /\ validated' = validated
    BY <1>3 DEF Disconnect, IsConnected
  <2>2. h.op = "close"
    OBVIOUS
  <2> HIDE DEF h
  <2>3. EndInv(Post(end[e], h)) /\ (Silent(end[e]) => Silent(Post(end[e], h)))
    BY <2>1, <2>2, PostKeeps DEF Inv, MessageWrites, MessageReads
  <2>4. ~ Untouched(end[e])
    BY <2>1 DEF Untouched
  <2> QED BY <2>1, <2>3, <2>4, OneEnd
<1>4. CASE StopClient
  <2> DEFINE c == Close(end["client"])
             d == [c EXCEPT !.running = FALSE, !.ready = <<>>]
  <2>1. /\ end["client"].socket # "none" /\ end' = [end EXCEPT !["client"] = d]
        /\ link' = link /\ received' = received /\ validated' = validated
    BY <1>4 DEF StopClient
  <2>2. EndInv(end["client"])
    BY DEF Inv, Ends
  <2>3. EndInv(c) /\ c.socket # "open" /\ c.socket # "none" /\ c.writes = <<>>
    BY <2>1, <2>2, CloseKeeps DEF EndInv
  <2>4. d = [c EXCEPT !.running = FALSE, !.ready = <<>>]
    OBVIOUS
  <2> HIDE DEF c, d
  <2>5. d = [socket |-> c.socket, running |-> FALSE, ready |-> <<>>, read |-> c.read,
             writes |-> c.writes, out |-> c.out, temp |-> c.temp]
    BY <2>3, <2>4 DEF EndInv, IsEnd
  <2>6. <<>> \in Seq({}) /\ DOMAIN <<>> = {}
    OBVIOUS
  <2>7. IsEnd(d) /\ d.ready = <<>> /\ d.writes = <<>> /\ d.socket = c.socket
    BY <2>3, <2>5, <2>6 DEF EndInv, IsEnd, IsSeq
  <2>8. EndInv(d)
    BY <2>3, <2>6, <2>7
    DEF EndInv, AcceptInv, WriteInv, PumpInv, OneAtMost, Free, Outstanding, Finished, At
  <2>9. ~ Untouched(end["client"])
    BY <2>1 DEF Untouched
  <2> QED BY <2>1, <2>8, <2>9, OneEnd DEF Ends
<1>5. CASE StopServer
  <2> DEFINE d == [end["server"] EXCEPT !.running = FALSE]
  <2>1. /\ end' = [end EXCEPT !["server"] = d]
        /\ link' = link /\ received' = received /\ validated' = validated
    BY <1>5 DEF StopServer
  <2>2. EndInv(end["server"])
    BY DEF Inv, Ends
  <2>3. EndInv(d) /\ (Silent(end["server"]) => Silent(d))
    BY <2>2, RunningKeeps
  <2> DEFINE s == end["server"]
  <2>4. /\ s = [socket |-> s.socket, running |-> s.running, ready |-> s.ready, read |-> s.read,
               writes |-> s.writes, out |-> s.out, temp |-> s.temp]
        /\ d = [s EXCEPT !.running = FALSE]
    BY <2>2 DEF EndInv, IsEnd
  <2>5. Untouched(end["server"]) => Untouched(d)
    <3> HIDE DEF s, d
    <3>1. d.socket = s.socket /\ d.ready = s.ready /\ d.read = s.read /\ d.writes = s.writes
      BY <2>4
    <3> QED BY <3>1 DEF Untouched, s
  <2> HIDE DEF d
  <2>6. end' = [e \in Ends |-> end'[e]] /\ end'["server"] = d /\ end'["client"] = end["client"]
    BY <2>1 DEF Inv, Ends
  <2>7. \A e \in Ends : EndInv(end'[e])
    BY <2>3, <2>6 DEF Inv, Ends
  <2>8. LinkInv' /\ SilentInv'
    BY <2>1, <2>3, <2>5, <2>6 DEF Inv, LinkInv, SilentInv
  <2> QED BY <2>1, <2>6, <2>7, <2>8 DEF Inv
<1> QED BY <1>1, <1>2, <1>3, <1>4, <1>5 DEF Application

LEMMA KernelKeeps ==
  Inv /\ (Establish \/ ConnectFails \/ Break \/ \E e \in Ends : Finish(e)) => Inv'
<1> SUFFICES ASSUME Inv, Establish \/ ConnectFails \/ Break \/ \E e \in Ends : Finish(e) PROVE Inv'
  OBVIOUS
<1>0. EndInv(end["client"]) /\ EndInv(end["server"])
  BY DEF Inv, Ends
<1>1. CASE Establish
  <2> DEFINE h == Completion("connected", TRUE, NoUnit)
             g == [op |-> "accept"]
             c == end["server"]
             d == Post(c, g)
  <2>1. /\ link = "connecting" /\ link' = "up"
        /\ end' = [end EXCEPT !["client"] = Post(end["client"], h), !["server"] = d]
        /\ received' = received /\ validated' = validated
    BY <1>1 DEF Establish
  <2>2. h.op = "connected" /\ g.op = "accept"
    BY DEF Completion
  <2>3. d = [c EXCEPT !.ready = Append(c.ready, g)]
    BY DEF Post
  <2> HIDE DEF h, g, d
  <2>4. EndInv(Post(end["client"], h))
    BY <1>0, <2>2, PostKeeps DEF MessageWrites
  <2>5. Untouched(c) /\ IsEnd(c)
    BY <1>0, <2>1 DEF Inv, LinkInv, EndInv
  <2>6. IsSeq(c.ready) /\ IsSeq(Append(c.ready, g))
    BY <2>5, AppendSeq DEF IsEnd
  <2>7. d = [socket |-> c.socket, running |-> c.running, ready |-> Append(c.ready, g), read |-> c.read,
             writes |-> c.writes, out |-> c.out, temp |-> c.temp]
    BY <2>3, <2>5 DEF IsEnd
  <2>8. /\ IsEnd(d) /\ d.socket = "none" /\ d.read = "none" /\ d.writes = <<>> /\ d.out = <<>>
        /\ d.ready = Append(c.ready, g)
    BY <1>0, <2>5, <2>6, <2>7 DEF IsEnd, Untouched, EndInv, WriteInv
  <2>9. DOMAIN <<>> = {}
    OBVIOUS
  <2>10. \A ops : At(c.ready, ops) = {}
    BY <2>5, <2>9 DEF Untouched, At
  <2>11. At(d.ready, {"accept"}) = {Len(c.ready) + 1}
    BY <2>2, <2>6, <2>8, <2>10, AppendAt
  <2>12. \A ops : "accept" \notin ops => At(d.ready, ops) = {}
    BY <2>2, <2>6, <2>8, <2>10, AppendAt
  <2>13. /\ At(d.ready, MessageWrites) = {} /\ At(d.ready, {"send"}) = {}
         /\ At(d.ready, MessageReads) = {}
    BY <2>12 DEF MessageWrites, MessageReads
  <2>14. Outstanding(d) = {} /\ Finished(d) = {}
    BY <2>8, <2>9, <2>13 DEF Outstanding, Finished, At
  <2>15. EndInv(d) /\ Silent(d)
    BY <2>8, <2>11, <2>13, <2>14
    DEF EndInv, AcceptInv, WriteInv, PumpInv, OneAtMost, Silent, MessageReads
  <2>16. end' = [e \in Ends |-> end'[e]] /\ end'["server"] = d /\ end'["client"] = Post(end["client"], h)
    BY <2>1 DEF Inv, Ends
  <2>17. \A e \in Ends : EndInv(end'[e])
    BY <2>4, <2>15, <2>16 DEF Ends
  <2>18. LinkInv' /\ SilentInv'
    BY <2>1, <2>15, <2>16 DEF Inv, LinkInv, SilentInv
  <2> QED BY <2>1, <2>16, <2>17, <2>18 DEF Inv
<1>2. CASE ConnectFails
  <2> DEFINE h == Completion("connected", FALSE, NoUnit)
  <2>1. /\ link = "connecting" /\ link' = "refused"
        /\ end' = [end EXCEPT !["client"] = Post(end["client"], h)]
        /\ received' = received /\ validated' = validated
    BY <1>2 DEF ConnectFails
  <2>2. h.op = "connected"
    BY DEF Completion
  <2> HIDE DEF h
  <2>3. EndInv(Post(end["client"], h))
    BY <1>0, <2>2, PostKeeps DEF MessageWrites
  <2>4. /\ end' = [e \in Ends |-> end'[e]]
        /\ end'["server"] = end["server"] /\ end'["client"] = Post(end["client"], h)
    BY <2>1 DEF Inv, Ends
  <2>5. \A e \in Ends : EndInv(end'[e])
    BY <1>0, <2>3, <2>4 DEF Ends
  <2>6. LinkInv' /\ SilentInv'
    BY <2>1, <2>4 DEF Inv, LinkInv, SilentInv
  <2> QED BY <2>1, <2>4, <2>5, <2>6 DEF Inv
<1>3. CASE Break
  BY <1>3 DEF Break, Inv, LinkInv, SilentInv
<1>4. ASSUME NEW e \in Ends, Transmit(e) \/ TransmitFails(e) PROVE Inv'
  <2> DEFINE w == Head(end[e].writes)
  <2>0. FinishWrite(e, TRUE) \/ FinishWrite(e, FALSE)
    BY <1>4 DEF Transmit, TransmitFails
  <2>1. PICK ok \in BOOLEAN : FinishWrite(e, ok)
    BY <2>0
  <2> DEFINE h == Completion(w.op, ok, w.unit)
             b == [end[e] EXCEPT !.writes = Tail(end[e].writes)]
  <2>2. /\ end' = [end EXCEPT ![e] = Post(b, h)] /\ end[e].writes # <<>>
        /\ link' = link /\ received' = received /\ validated' = validated
    <3>1. end' = [end EXCEPT ![e] = Post(b, h)]
      BY <2>1 DEF FinishWrite
    <3> HIDE DEF h, b, w
    <3> QED BY <1>4, <3>1 DEF Transmit, TransmitFails
  <2>3. h.op = Head(end[e].writes).op /\ b = [end[e] EXCEPT !.writes = Tail(end[e].writes)]
    BY DEF Completion
  <2> HIDE DEF h, b
  <2>4. EndInv(end[e]) /\ ~ Untouched(end[e])
    BY <2>2 DEF Inv, Untouched
  <2>5. EndInv(Post(b, h)) /\ (Silent(end[e]) => Silent(Post(b, h)))
    BY <2>2, <2>3, <2>4, FinishWriteKeeps
  <2> QED BY <2>2, <2>4, <2>5, OneEnd
<1>5. ASSUME NEW e \in Ends, Arrive(e) \/ ArriveFails(e) PROVE Inv'
  <2>1. PICK ok, unit : FinishRead(e, ok, unit)
    BY <1>5 DEF Arrive, ArriveFails
  <2> DEFINE h == Completion(end[e].read, ok, unit)
             b == [end[e] EXCEPT !.read = "none"]
  <2>2. /\ end' = [end EXCEPT ![e] = Post(b, h)] /\ end[e].read # "none"
        /\ link' = link /\ received' = received /\ validated' = validated
    BY <1>5, <2>1 DEF FinishRead, Arrive, ArriveFails
  <2>3. h.op = end[e].read /\ b = [end[e] EXCEPT !.read = "none"]
    BY DEF Completion
  <2> HIDE DEF h, b
  <2>4. EndInv(end[e]) /\ ~ Untouched(end[e])
    BY <2>2 DEF Inv, Untouched
  <2>5. EndInv(Post(b, h)) /\ (Silent(end[e]) => Silent(Post(b, h)))
    BY <2>2, <2>3, <2>4, FinishReadKeeps
  <2> QED BY <2>2, <2>4, <2>5, OneEnd
<1> QED BY <1>1, <1>2, <1>3, <1>4, <1>5 DEF Finish

------------------------------------------------------------------------------
(* The handlers. *)

\* What send() posts adds to the messages, and does not change the front one.
LEMMA QueueKeeps ==
  ASSUME NEW c, EndInv(c), c.socket # "none", NEW m,
         NEW d,
         d = [socket |-> c.socket, running |-> c.running, ready |-> c.ready, read |-> c.read,
              writes |-> c.writes, out |-> Append(c.out, m), temp |-> c.temp]
  PROVE  /\ c.out = <<>> => IsEnd(d) /\ AcceptInv(d) /\ Free(d) /\ d.socket # "none" /\ d.out # <<>>
         /\ c.out # <<>> => EndInv(d)
         /\ Silent(c) => Silent(d)
<1>1. IsEnd(c) /\ IsSeq(c.out)
  BY DEF EndInv, IsEnd
<1>2. /\ IsSeq(Append(c.out, m)) /\ Append(c.out, m) # <<>>
      /\ c.out # <<>> => Head(Append(c.out, m)) = Head(c.out)
  BY <1>1, AppendSeq
<1>3. /\ IsEnd(d)
      /\ d.socket = c.socket /\ d.read = c.read /\ d.ready = c.ready /\ d.writes = c.writes
      /\ d.out = Append(c.out, m)
  BY <1>1, <1>2 DEF IsEnd
<1>4. AcceptInv(d) /\ (Silent(c) => Silent(d))
  BY <1>3 DEF EndInv, AcceptInv, Silent
<1>5. Outstanding(d) = Outstanding(c) /\ Finished(d) = Finished(c)
  BY <1>3 DEF Outstanding, Finished
<1>6. c.out = <<>> => Free(d)
  BY <1>5 DEF Free, EndInv, WriteInv, IsOfFront
<1>7. ASSUME c.out # <<>> PROVE WriteInv(d) /\ PumpInv(d)
  BY <1>2, <1>3, <1>5, <1>7 DEF EndInv, WriteInv, PumpInv, OneAtMost, IsOfFront, Free
<1> QED BY <1>2, <1>3, <1>4, <1>6, <1>7 DEF EndInv

\* connectToClient gives an accepted Connection its socket.
LEMMA OpenKeeps ==
  ASSUME NEW c, EndInv(c), c.socket = "none", At(c.ready, {"accept"}) = {},
         NEW d, d = [c EXCEPT !.socket = "open"]
  PROVE  EndInv(d) /\ (Silent(c) => Silent(d))
<1>1. /\ IsEnd(d)
      /\ d.socket = "open" /\ d.read = c.read /\ d.ready = c.ready /\ d.writes = c.writes
      /\ d.out = c.out
  <2>1. d = [socket |-> "open", running |-> c.running, ready |-> c.ready, read |-> c.read,
             writes |-> c.writes, out |-> c.out, temp |-> c.temp]
    BY DEF EndInv, IsEnd
  <2> QED BY <2>1 DEF EndInv, IsEnd
<1>2. Outstanding(d) = Outstanding(c) /\ Finished(d) = Finished(c) /\ c.out = <<>>
  BY <1>1 DEF Outstanding, Finished, EndInv, WriteInv
<1>3. AcceptInv(d) /\ WriteInv(d) /\ PumpInv(d)
  BY <1>1, <1>2 DEF EndInv, AcceptInv, WriteInv, PumpInv, OneAtMost, IsOfFront
<1>4. Silent(c) => Silent(d)
  BY <1>1 DEF Silent
<1> QED BY <1>1, <1>3, <1>4 DEF EndInv

\* A handler that has filled a part of m_tempMessageIn reads on.
LEMMA ReadingOn ==
  ASSUME Inv, NEW e \in Ends, NEW op \in MessageReads, Runs(e, op, TRUE),
         NEW c,
         c = [socket |-> Handled(e).socket, running |-> Handled(e).running,
              ready |-> Handled(e).ready, read |-> Handled(e).read,
              writes |-> Handled(e).writes, out |-> Handled(e).out, temp |-> c.temp],
         Becomes(e, ReadBody(c)) \/ Becomes(e, ReadHeader(c)), link' = link,
         received' = received \/ \E r : received' = [received EXCEPT ![e] = r],
         validated' = validated
  PROVE  Inv'
<1>1. end[e].ready # <<>> /\ Head(end[e].ready).op = op
  BY DEF Runs
<1>2. op \notin MessageWrites
  BY DEF MessageReads, MessageWrites
<1>3. EndInv(Handled(e))
  BY <1>2, Running
<1>4. EndInv(c)
  BY <1>3, TempKeeps
<1>5. EndInv(ReadBody(c)) /\ EndInv(ReadHeader(c))
  BY <1>4, StartReadKeeps DEF ReadBody, ReadHeader, Reads
<1>6. IsSeq(end[e].ready)
  BY DEF Inv, EndInv, IsEnd
<1>7. 1 \in At(end[e].ready, MessageReads)
  BY <1>1, <1>6, TailAt
<1>8. e = "server" => validated
  BY <1>7 DEF Inv, SilentInv, Silent
<1> QED BY <1>1, <1>5, <1>8, BecomingReader

LEMMA WriterKeeps ==
  ASSUME Inv, NEW e \in Ends,
         RunSend(e) \/ RunClose(e) \/ (\E op \in Reads \cup Writes : RunFailure(e, op))
           \/ RunWriteHeader(e) \/ RunWriteBody(e)
  PROVE  Inv'
<1> DEFINE c == Handled(e)
<1>1. CASE RunSend(e)
  <2> DEFINE m == Head(end[e].ready).message
             d == [c EXCEPT !.out = Append(c.out, m)]
  <2>1. /\ Runs(e, "send", TRUE) /\ link' = link /\ received' = received /\ validated' = validated
        /\ Becomes(e, IF end[e].out = <<>> THEN WriteHeader(d) ELSE d)
    BY <1>1 DEF RunSend
  <2>2. /\ EndInv(c) /\ end[e].ready # <<>> /\ c.out = end[e].out /\ c.socket = end[e].socket
        /\ Silent(end[e]) => Silent(c)
    <3>1. "send" \notin MessageWrites
      BY DEF MessageWrites
    <3> QED BY <2>1, <3>1, RunningOther
  <2>3. c.socket # "none"
    <3>1. IsSeq(end[e].ready) /\ WriteInv(end[e])
      BY DEF Inv, EndInv, IsEnd
    <3>2. 1 \in At(end[e].ready, {"send"})
      BY <2>1, <2>2, <3>1, TailAt DEF Runs
    <3> QED BY <2>2, <3>1, <3>2 DEF WriteInv
  <2>4. d = [socket |-> c.socket, running |-> c.running, ready |-> c.ready, read |-> c.read,
             writes |-> c.writes, out |-> Append(c.out, m), temp |-> c.temp]
    <3> HIDE DEF c, m
    <3> QED BY <2>2 DEF EndInv, IsEnd
  <2> HIDE DEF c, d, m
  <2>5. /\ c.out = <<>> => IsEnd(d) /\ AcceptInv(d) /\ Free(d) /\ d.socket # "none" /\ d.out # <<>>
        /\ c.out # <<>> => EndInv(d)
        /\ Silent(c) => Silent(d)
    BY <2>2, <2>3, <2>4, QueueKeeps
  <2>6. CASE end[e].out = <<>>
    <3>1. Becomes(e, WriteHeader(d))
      BY <2>1, <2>6
    <3>2. EndInv(WriteHeader(d)) /\ (Silent(d) => Silent(WriteHeader(d)))
      BY <2>2, <2>5, <2>6, WriteHeaderStarts
    <3> QED BY <2>1, <2>2, <2>5, <3>1, <3>2, Becoming
  <2>7. CASE end[e].out # <<>>
    <3>1. Becomes(e, d)
      BY <2>1, <2>7
    <3> QED BY <2>1, <2>2, <2>5, <2>7, <3>1, Becoming
  <2> QED BY <2>6, <2>7
<1>2. CASE RunClose(e)
  <2>1. /\ Runs(e, "close", TRUE) /\ link' = link /\ received' = received /\ validated' = validated
        /\ Becomes(e, Close(c))
    BY <1>2 DEF RunClose
  <2>2. EndInv(c) /\ end[e].ready # <<>> /\ (Silent(end[e]) => Silent(c))
    <3>1. "close" \notin MessageWrites
      BY DEF MessageWrites
    <3> QED BY <2>1, <3>1, RunningOther
  <2> HIDE DEF c
  <2>3. EndInv(Close(c)) /\ (Silent(c) => Silent(Close(c)))
    BY <2>2, CloseKeeps DEF EndInv
  <2> QED BY <2>1, <2>2, <2>3, Becoming
<1>3. ASSUME NEW op \in Reads \cup Writes, RunFailure(e, op) PROVE Inv'
  <2>1. /\ Runs(e, op, FALSE) /\ link' = link /\ received' = received /\ validated' = validated
        /\ Becomes(e, Close(c))
    BY <1>3 DEF RunFailure
  <2>2. /\ end[e].ready # <<>> /\ (Silent(end[e]) => Silent(c))
        /\ op \notin MessageWrites => EndInv(c)
        /\ op \in MessageWrites => IsEnd(c) /\ AcceptInv(c) /\ Free(c) /\ c.socket # "none"
    BY <2>1, Running
  <2> HIDE DEF c
  <2>3. IsEnd(c) /\ AcceptInv(c) /\ WriteInv(c)
    BY <2>2 DEF EndInv, WriteInv, OneAtMost, Free
  <2>4. EndInv(Close(c)) /\ (Silent(c) => Silent(Close(c)))
    BY <2>3, CloseKeeps
  <2> QED BY <2>1, <2>2, <2>4, Becoming
<1>4. CASE RunWriteHeader(e) \/ RunWriteBody(e)
  <2>1. PICK op \in MessageWrites : Runs(e, op, TRUE)
    BY <1>4 DEF RunWriteHeader, RunWriteBody, MessageWrites
  <2>2. /\ link' = link /\ received' = received /\ validated' = validated
        /\ Becomes(e, WriteBody(c)) \/ Becomes(e, PopAndGoOn(c))
    BY <1>4 DEF RunWriteHeader, RunWriteBody
  <2>3. /\ end[e].ready # <<>> /\ (Silent(end[e]) => Silent(c))
        /\ IsEnd(c) /\ AcceptInv(c) /\ Free(c) /\ c.out # <<>> /\ c.socket # "none"
    BY <2>1, Running
  <2> HIDE DEF c
  <2>4. EndInv(WriteBody(c)) /\ (Silent(c) => Silent(WriteBody(c)))
    BY <2>3, WriteBodyStarts
  <2>5. EndInv(PopAndGoOn(c)) /\ (Silent(c) => Silent(PopAndGoOn(c)))
    BY <2>3, PopAndGoOnKeeps
  <2>6. CASE Becomes(e, WriteBody(c))
    BY <2>2, <2>3, <2>4, <2>6, Becoming
  <2>7. CASE Becomes(e, PopAndGoOn(c))
    BY <2>2, <2>3, <2>5, <2>7, Becoming
  <2> QED BY <2>2, <2>6, <2>7
<1> QED BY <1>1, <1>2, <1>3, <1>4

LEMMA ReaderKeeps ==
  ASSUME Inv, NEW e \in Ends, RunReadHeader(e) \/ RunReadBody(e)
  PROVE  Inv'
<1>0. /\ IsEnd(Handled(e))
      /\ end[e].ready # <<>>
  <2>1. PICK op \in MessageReads : Runs(e, op, TRUE)
    BY DEF RunReadHeader, RunReadBody, MessageReads
  <2>2. op \notin MessageWrites
    BY DEF MessageReads, MessageWrites
  <2> QED BY <2>1, <2>2, Running DEF EndInv
<1> DEFINE h == Handled(e)
<1>1. CASE RunReadHeader(e)
  <2> DEFINE unit == Head(end[e].ready).unit
             c == [h EXCEPT !.temp = [h.temp EXCEPT !.id = unit.id, !.size = unit.size]]
  <2>1. /\ Runs(e, "readHeader", TRUE) /\ link' = link /\ validated' = validated
        /\ IF unit.size > 0
           THEN Becomes(e, ReadBody(c)) /\ received' = received
           ELSE received' = [received EXCEPT ![e] = Append(received[e], c.temp)]
                /\ Becomes(e, ReadHeader(c))
    BY <1>1 DEF RunReadHeader, AddToIncomingMessageQueue
  <2>2. c = [socket |-> h.socket, running |-> h.running, ready |-> h.ready, read |-> h.read,
             writes |-> h.writes, out |-> h.out, temp |-> c.temp]
    <3> HIDE DEF h
    <3> QED BY <1>0 DEF IsEnd, h
  <2> HIDE DEF c, unit
  <2>3. "readHeader" \in MessageReads
    BY DEF MessageReads
  <2>4. /\ received' = received \/ \E r : received' = [received EXCEPT ![e] = r]
        /\ Becomes(e, ReadBody(c)) \/ Becomes(e, ReadHeader(c))
    BY <2>1
  <2> QED BY <2>1, <2>2, <2>3, <2>4, ReadingOn
<1>2. CASE RunReadBody(e)
  <2> DEFINE c == [h EXCEPT !.temp.body = Head(end[e].ready).unit.data]
  <2>1. /\ Runs(e, "readBody", TRUE) /\ link' = link /\ validated' = validated
        /\ received' = [received EXCEPT ![e] = Append(received[e], c.temp)]
        /\ Becomes(e, ReadHeader(c))
    BY <1>2 DEF RunReadBody, AddToIncomingMessageQueue
  <2>2. c = [socket |-> h.socket, running |-> h.running, ready |-> h.ready, read |-> h.read,
             writes |-> h.writes, out |-> h.out, temp |-> c.temp]
    <3> HIDE DEF h
    <3> QED BY <1>0 DEF IsEnd, h
  <2> HIDE DEF c
  <2>3. "readBody" \in MessageReads
    BY DEF MessageReads
  <2>4. \E r : received' = [received EXCEPT ![e] = r]
    BY <2>1
  <2> QED BY <2>1, <2>2, <2>3, <2>4, ReadingOn
<1> QED BY <1>1, <1>2

LEMMA HandshakeKeeps ==
  ASSUME Inv, RunConnect \/ \E e \in Ends : RunWriteValidation(e) \/ RunReadValidation(e)
  PROVE  Inv'
<1>1. CASE RunAccept
  <2> DEFINE c == Handled("server")
             d == [c EXCEPT !.socket = "open"]
             w == WriteValidation(d, "challenge")
  <2>1. /\ Runs("server", "accept", TRUE) /\ Becomes("server", ReadValidation(w))
        /\ link' = link /\ received' = received /\ validated' = validated
    BY <1>1 DEF RunAccept
  <2>2. /\ EndInv(c) /\ end["server"].ready # <<>> /\ c.socket = end["server"].socket
        /\ Silent(end["server"]) => Silent(c)
    <3>1. "accept" \notin MessageWrites
      BY DEF MessageWrites
    <3> QED BY <2>1, <3>1, RunningOther DEF Ends
  <2>3. IsSeq(end["server"].ready) /\ AcceptInv(end["server"]) /\ Head(end["server"].ready).op = "accept"
    BY <2>1 DEF Inv, EndInv, IsEnd, Runs, Ends
  <2>4. c.socket = "none"
    <3>1. 1 \in At(end["server"].ready, {"accept"})
      BY <2>2, <2>3, TailAt
    <3> QED BY <2>2, <2>3, <3>1 DEF AcceptInv
  <2>5. At(c.ready, {"accept"}) = {}
    <3>1. c.ready = Tail(end["server"].ready)
      BY DEF Handled, Inv, EndInv, IsEnd, Ends
    <3>2. \A i, j \in At(end["server"].ready, {"accept"}) : i = j
      BY <2>3 DEF AcceptInv
    <3> QED BY <2>2, <2>3, <3>1, <3>2, TailUnique
  <2>6. d = [c EXCEPT !.socket = "open"]
    OBVIOUS
  <2> HIDE DEF c, d, w
  <2>7. EndInv(d) /\ (Silent(c) => Silent(d))
    BY <2>2, <2>4, <2>5, <2>6, OpenKeeps
  <2>8. EndInv(w) /\ (Silent(d) => Silent(w))
    BY <2>7, WriteValidationKeeps DEF w
  <2>9. EndInv(ReadValidation(w)) /\ (Silent(w) => Silent(ReadValidation(w)))
    BY <2>8, StartReadKeeps DEF ReadValidation, Reads, MessageReads
  <2> QED BY <2>1, <2>2, <2>7, <2>8, <2>9, Becoming DEF Ends
<1>2. ASSUME NEW ok \in BOOLEAN, RunConnected(ok) PROVE Inv'
  <2> DEFINE c == Handled("client")
  <2>1. /\ Runs("client", "connected", ok)
        /\ Becomes("client", ReadValidation(c)) \/ Becomes("client", c)
        /\ link' = link /\ received' = received /\ validated' = validated
    BY <1>2 DEF RunConnected
  <2>2. EndInv(c) /\ end["client"].ready # <<>>
    <3>1. "connected" \notin MessageWrites
      BY DEF MessageWrites
    <3> QED BY <2>1, <3>1, RunningOther DEF Ends
  <2> HIDE DEF c
  <2>3. EndInv(ReadValidation(c))
    BY <2>2, StartReadKeeps DEF ReadValidation, Reads
  <2>4. CASE Becomes("client", ReadValidation(c))
    BY <2>1, <2>2, <2>3, <2>4, Becoming DEF Ends
  <2>5. CASE Becomes("client", c)
    BY <2>1, <2>2, <2>5, Becoming DEF Ends
  <2> QED BY <2>1, <2>4, <2>5
<1>3. ASSUME NEW e \in Ends, RunWriteValidation(e) PROVE Inv'
  <2> DEFINE c == Handled(e)
  <2>1. /\ Runs(e, "writeValidation", TRUE)
        /\ Becomes(e, IF e = "client" THEN ReadHeader(c) ELSE c)
        /\ link' = link /\ received' = received /\ validated' = validated
    BY <1>3 DEF RunWriteValidation
  <2>2. EndInv(c) /\ end[e].ready # <<>> /\ (Silent(end[e]) => Silent(c))
    <3>1. "writeValidation" \notin MessageWrites
      BY DEF MessageWrites
    <3> QED BY <2>1, <3>1, RunningOther
  <2> HIDE DEF c
  <2>3. EndInv(ReadHeader(c))
    BY <2>2, StartReadKeeps DEF ReadHeader, Reads
  <2>4. CASE e = "client"
    <3>1. Becomes(e, ReadHeader(c))
      BY <2>1, <2>4
    <3> QED BY <2>1, <2>2, <2>3, <2>4, <3>1, Becoming
  <2>5. CASE e # "client"
    <3>1. Becomes(e, c)
      BY <2>1, <2>5
    <3> QED BY <2>1, <2>2, <3>1, Becoming
  <2> QED BY <2>4, <2>5
<1>4. ASSUME NEW e \in Ends, RunReadValidation(e) PROVE Inv'
  <2> DEFINE c == Handled(e)
             value == HandshakeIn(Head(end[e].ready).unit)
  <2>1. /\ Runs(e, "readValidation", TRUE) /\ link' = link /\ received' = received
        /\ IF e = "server" THEN ReadValidationServer(value) ELSE ReadValidationClient(value)
    BY <1>4 DEF RunReadValidation
  <2>2. EndInv(c) /\ end[e].ready # <<>> /\ (Silent(end[e]) => Silent(c))
    <3>1. "readValidation" \notin MessageWrites
      BY DEF MessageWrites
    <3> QED BY <2>1, <3>1, RunningOther
  <2> HIDE DEF value
  <2>3. CASE e = "server" /\ value = "answer"
    <3>1. validated' = TRUE /\ Becomes(e, ReadHeader(c))
      BY <2>1, <2>3 DEF ReadValidationServer
    <3> HIDE DEF c
    <3>2. EndInv(ReadHeader(c))
      BY <2>2, StartReadKeeps DEF ReadHeader, Reads
    <3> QED BY <2>1, <2>2, <3>1, <3>2, BecomingReader
  <2>4. CASE e = "server" /\ value # "answer"
    <3>1. validated' = validated /\ Becomes(e, Close(c))
      BY <2>1, <2>4 DEF ReadValidationServer
    <3> HIDE DEF c
    <3>2. EndInv(Close(c)) /\ (Silent(c) => Silent(Close(c)))
      BY <2>2, CloseKeeps DEF EndInv
    <3> QED BY <2>1, <2>2, <3>1, <3>2, Becoming
  <2>5. CASE e # "server"
    <3>0. e = "client"
      BY <2>5 DEF Ends
    <3>1. validated' = validated /\ Becomes(e, WriteValidation(c, ScrambleData(value)))
      BY <2>1, <2>5, <3>0 DEF ReadValidationClient
    <3> HIDE DEF c
    <3>2. EndInv(WriteValidation(c, ScrambleData(value)))
      BY <2>2, WriteValidationKeeps
    <3> QED BY <2>1, <2>2, <2>5, <3>1, <3>2, Becoming
  <2> QED BY <2>3, <2>4, <2>5
<1> QED BY <1>1, <1>2, <1>3, <1>4 DEF RunConnect

LEMMA NextInv == Inv /\ [Next]_vars => Inv'
<1> SUFFICES ASSUME Inv, [Next]_vars PROVE Inv'
  OBVIOUS
<1>1. CASE Application
  BY <1>1, ApplicationKeeps
<1>2. CASE Establish \/ ConnectFails \/ Break \/ \E e \in Ends : Finish(e)
  BY <1>2, KernelKeeps
<1>3. CASE RunConnect
  BY <1>3, HandshakeKeeps
<1>4. ASSUME NEW e \in Ends, Run(e) PROVE Inv'
  <2>1. CASE RunWriteValidation(e) \/ RunReadValidation(e)
    BY <2>1, HandshakeKeeps
  <2>2. CASE RunReadHeader(e) \/ RunReadBody(e)
    BY <2>2, ReaderKeeps
  <2>3. CASE \/ RunSend(e) \/ RunClose(e) \/ (\E op \in Reads \cup Writes : RunFailure(e, op))
             \/ RunWriteHeader(e) \/ RunWriteBody(e)
    BY <2>3, WriterKeeps
  <2> QED BY <1>4, <2>1, <2>2, <2>3 DEF Run
<1>5. CASE UNCHANGED vars
  BY <1>5 DEF vars, Inv, LinkInv, SilentInv
<1> QED BY <1>1, <1>2, <1>3, <1>4, <1>5 DEF Next

\* Whatever is sent, closed, stopped, refused or broken: a message is written
\* from the front of m_messagesOut and from there only, and popped when it has
\* been written (connection.cpp:51-62,132-171).
THEOREM WriteTheFront == Spec => []WritesFromFront
<1>1. Inv => WritesFromFront
  BY DEF Inv, EndInv, WriteInv, WritesFromFront
<1> QED BY <1>1, InitInv, NextInv, PTL DEF Spec

\* An open Connection with a message to send is never left without the write
\* that will send it: no send() can find the pump stopped (connection.cpp:51-62,132-171).
THEOREM PumpNeverStalls == Spec => []PumpRuns
<1>1. Inv => PumpRuns
  BY DEF Inv, EndInv, PumpInv, PumpRuns, Free, IsConnected
<1> QED BY <1>1, InitInv, NextInv, PTL DEF Spec

\* Nothing a client says is read as a message before its answer was checked, for
\* any messages and any order of handlers (connection.cpp:103-130).
THEOREM ValidatedFirst == Spec => []NothingBeforeValidation
<1>1. Inv => NothingBeforeValidation
  BY DEF Inv, SilentInv, Silent, MessageReads, NothingBeforeValidation
<1> QED BY <1>1, InitInv, NextInv, PTL DEF Spec
------------------------------------------------------------------------------
(* What a direction carries: the units of the messages s, a message's header *)
(* and then its body, if it has one.                                         *)

Place(k, part) == [k |-> k, part |-> part]
Places(s) == [k : 1 .. Len(s) + 1, part : {"header", "body"}]

\* The unit is the one at place q.
IsUnit(unit, q, s) ==
  /\ q.k <= Len(s)
  /\ q.part = "header" => unit = [kind |-> "header", id |-> s[q.k].id, size |-> Len(s[q.k].body)]
  /\ q.part = "body" => s[q.k].body # <<>> /\ unit = [kind |-> "body", data |-> s[q.k].body]

\* The place after that of a unit.
After(q, s) ==
  IF q.part = "header" /\ s[q.k].body # <<>> THEN Place(q.k, "body") ELSE Place(q.k + 1, "header")

\* These are the units from place a up to place b, and no others.
Chain(units, a, b, s) ==
  \E p \in [1 .. Len(units) + 1 -> Places(s)] :
    /\ p[1] = a /\ p[Len(units) + 1] = b
    /\ \A i \in 1 .. Len(units) : IsUnit(units[i], p[i], s) /\ p[i + 1] = After(p[i], s)

------------------------------------------------------------------------------
(* The writer of a direction. *)

\* The names Append and Tail go by where only the result counts: the provers
\* would take an equation with Append or Tail apart.
Pushed(s, x) == Append(s, x)
Popped(s) == Tail(s)

\* What has one of these operations in s.
Held(s, ops) == {s[i] : i \in At(s, ops)}

\* The posted sends are those of s from the n-th on.
Pending(ready, n, s) ==
  \E g \in [At(ready, {"send"}) -> n .. Len(s)] :
    /\ \A i, j \in At(ready, {"send"}) : i < j => g[i] < g[j]
    /\ \A m \in n .. Len(s) : \E i \in At(ready, {"send"}) : g[i] = m
    /\ \A i \in At(ready, {"send"}) : ready[i].message = s[g[i]]

\* The front of the queue is the k-th message; what follows is queued or posted.
Front(c, s, k) ==
  /\ k \in 1 .. Len(s) + 1
  /\ \A i \in 1 .. Len(c.out) : k + i - 1 <= Len(s) /\ c.out[i] = s[k + i - 1]
  /\ Pending(c.ready, k + Len(c.out), s)

Part(op) == IF op = "writeHeader" THEN "header" ELSE "body"

\* The next unit c gives to the kernel is the one at place b.
WriterAt(c, s, b) ==
  \E k \in Nat :
    /\ Front(c, s, k)
    /\ \A w \in Held(c.writes, MessageWrites) : b = Place(k, Part(w.op)) /\ IsUnit(w.unit, b, s)
    /\ \A h \in Held(c.ready, MessageWrites) : b = After(Place(k, Part(h.op)), s)
    /\ Held(c.writes, MessageWrites) = {} /\ Held(c.ready, MessageWrites) = {} =>
         c.out = <<>> /\ b = Place(k, "header")

\* The writer has lost a write, or closed.
Broken(c) == c.socket = "closed" \/ \E h \in Held(c.ready, MessageWrites) : ~ h.ok

\* Where the writer was in the messages s, it is in the messages t.
GoesOn(c, d, s, t) ==
  ~ Broken(d) => ~ Broken(c) /\ \A b \in Places(s) : WriterAt(c, s, b) => WriterAt(d, t, b)

------------------------------------------------------------------------------
(* The reader of a direction. *)

\* The operations that end in the next read of end e.
Tokens(e) == Reads \cup (IF e = "client" THEN {"connected", "writeValidation"} ELSE {"accept"})

\* There is one of them at a time.
TokenInv(e, c) ==
  /\ \A i, j \in At(c.ready, Tokens(e)) : i = j
  /\ \A i, j \in At(c.writes, Tokens(e)) : i = j
  /\ Held(c.ready, Tokens(e)) # {} => Held(c.writes, Tokens(e)) = {} /\ c.read = "none"
  /\ Held(c.writes, Tokens(e)) # {} => c.read = "none"

\* There is none.
Vacant(e, c) ==
  c.read = "none" /\ Held(c.writes, Tokens(e)) = {} /\ Held(c.ready, Tokens(e)) = {}

Turn(at, unit) == [at |-> at, unit |-> unit]

\* What a handler that is ready will go on with.
Ready(h) ==
  IF h.op = "accept" \/ (h.op = "connected" /\ h.ok) THEN Turn("connected", NoUnit)
  ELSE IF ~ h.ok THEN Turn("failed", NoUnit)
  ELSE IF h.op = "readValidation" THEN Turn("gotValidation", h.unit)
  ELSE IF h.op = "writeValidation" THEN Turn("answered", NoUnit)
  ELSE IF h.op = "readHeader" THEN Turn("gotHeader", h.unit)
  ELSE Turn("gotBody", h.unit)

\* How far end e is with its reading.
Stage(e, c) ==
  IF c.read # "none" THEN Turn(c.read, NoUnit)
  ELSE IF Held(c.writes, Tokens(e)) # {} THEN Turn("answering", NoUnit)
  ELSE IF Held(c.ready, Tokens(e)) # {} THEN Ready(CHOOSE h \in Held(c.ready, Tokens(e)) : TRUE)
  ELSE Turn("idle", NoUnit)

\* The connection is not up, or the first unit is not read.
Opening(l, st) == l \in {"none", "connecting"} \/ st.at \in {"connected", "readValidation"}

Early(l, st) == Opening(l, st) \/ st.at = "gotValidation"

\* A read is under way or will follow.
Listening(l, st) == Opening(l, st) \/ st.at \notin {"idle", "failed"}

\* The first unit is not the handshake word it is taken for.
Spoiled(l, st, units) ==
  \/ Opening(l, st) /\ units # <<>> /\ Head(units).kind # "validation"
  \/ st.at = "gotValidation" /\ st.unit.kind # "validation"

\* The units of messages among those on the wire.
Rest(l, st, units) == IF Opening(l, st) /\ units # <<>> THEN Popped(units) ELSE units

\* The place of the first of them, when n messages are received.
Due(st, n, s) ==
  IF st.at = "readBody" THEN Place(n + 1, "body")
  ELSE IF st.at = "gotHeader" THEN After(Place(n + 1, "header"), s)
  ELSE IF st.at = "gotBody" THEN After(Place(n + 1, "body"), s)
  ELSE Place(n + 1, "header")

LastBody(got) == IF got = <<>> THEN <<>> ELSE got[Len(got)].body

\* What is read is the unit that was due, and m_tempMessageIn holds the parts
\* of the message before it.
TakenInv(l, st, temp, got, s) ==
  LET n == Len(got) + 1
  IN /\ temp = [id |-> temp.id, size |-> temp.size, body |-> temp.body]
     /\ st.at = "gotHeader" => IsUnit(st.unit, Place(n, "header"), s)
     /\ st.at = "gotBody" => IsUnit(st.unit, Place(n, "body"), s)
     /\ st.at \in {"readBody", "gotBody"} =>
          n <= Len(s) /\ s[n].body # <<>> /\ temp.id = s[n].id /\ temp.size = Len(s[n].body)
     /\ Early(l, st) \/ st.at \in {"answering", "answered", "readHeader", "gotHeader"} =>
          temp.body = LastBody(got)

\* From what the reader reads next to what the writer d writes next, the wire
\* holds the units of s, each once and in order.
FlowInv(l, st, socket, units, n, s, d) ==
  Listening(l, st) /\ socket # "closed" /\ ~ Spoiled(l, st, units) =>
    \E b \in Places(s) :
      /\ Chain(Rest(l, st, units), Due(st, n, s), b, s)
      /\ l \notin {"refused", "broken"} /\ ~ Broken(d) => WriterAt(d, s, b)

\* A socket is opened once and closed once.
SocketInv(c) ==
  /\ c.socket \in {"none", "open", "closed"}
  /\ c.socket # "open" => c.read = "none" /\ c.writes = <<>>
  /\ c.socket = "none" => \A i \in DOMAIN c.ready : c.ready[i].op = "accept"

\* The handshake word has a write of its own.
WordInv(c) ==
  \A i \in DOMAIN c.writes :
    c.writes[i].unit.kind = "validation" <=> c.writes[i].op = "writeValidation"

\* The client writes its answer once; before, the server has no handshake word.
AnswerInv(l, answerer, asker, units) ==
  Early(l, answerer) \/ answerer.at = "answering" =>
    /\ \A i \in 1 .. Len(units) : units[i].kind # "validation"
    /\ asker.at = "gotValidation" => asker.unit.kind # "validation"
    /\ asker.at \notin {"readHeader", "gotHeader", "readBody", "gotBody"}

\* The challenge is the first thing the server d writes.
ChallengeInv(l, answerer, socket, d, units) ==
  LET challenge == At(d.writes, {"writeValidation"})
  IN /\ \A i \in challenge : i = 1
     /\ challenge # {} \/ d.socket = "none" =>
          units = <<>> /\ (Listening(l, answerer) /\ socket # "closed" => Opening(l, answerer))
     /\ d.socket = "open" /\ socket # "closed" /\ l = "up" /\ Opening(l, answerer) /\ units = <<>> =>
          d.writes # <<>> /\ Head(d.writes).op = "writeValidation"
     /\ Listening(l, answerer) /\ socket # "closed" => ~ Spoiled(l, answerer, units)

\* Of the direction end e reads.
DirectionInv(e) ==
  LET st == Stage(e, end[e])
  IN /\ TakenInv(link, st, end[e].temp, received[e], sent[Peer(e)])
     /\ FlowInv(link, st, end[e].socket, wire[Peer(e)], Len(received[e]), sent[Peer(e)], end[Peer(e)])

StreamInv ==
  /\ link # "none" => end["client"].socket # "none"
  /\ \A e \in Ends :
       /\ TokenInv(e, end[e]) /\ SocketInv(end[e]) /\ WordInv(end[e])
       /\ link \in {"none", "connecting"} => Stage(e, end[e]).at = "idle"
       /\ DirectionInv(e)
  /\ AnswerInv(link, Stage("client", end["client"]), Stage("server", end["server"]), wire["client"])
  /\ ChallengeInv(link, Stage("client", end["client"]), end["client"].socket, end["server"], wire["server"])
------------------------------------------------------------------------------
(* Places and chains. *)

LEMMA NoneSeq == IsSeq(<<>>) /\ Len(<<>>) = 0 /\ DOMAIN <<>> = {}
<1>1. <<>> \in Seq({})
  OBVIOUS
<1> QED BY <1>1 DEF IsSeq

LEMMA PlaceIs ==
  ASSUME NEW s, NEW q \in Places(s)
  PROVE  q = Place(q.k, q.part) /\ q.k \in 1 .. Len(s) + 1 /\ q.part \in {"header", "body"}
BY DEF Places, Place

LEMMA PlaceIn ==
  ASSUME NEW s, NEW k \in 1 .. Len(s) + 1, NEW part \in {"header", "body"}
  PROVE  Place(k, part) \in Places(s) /\ Place(k, part).k = k /\ Place(k, part).part = part
BY DEF Places, Place

\* A unit is followed by a place of the same messages.
LEMMA AfterPlace ==
  ASSUME NEW s, IsSeq(s), NEW q \in Places(s), NEW unit, IsUnit(unit, q, s)
  PROVE  After(q, s) \in Places(s)
<1>1. Len(s) \in Nat /\ q.k \in 1 .. Len(s)
  BY AppendSeq, PlaceIs DEF IsUnit
<1>2. q.k \in 1 .. Len(s) + 1 /\ q.k + 1 \in 1 .. Len(s) + 1
  BY <1>1
<1> QED BY <1>2, PlaceIn DEF After

\* What is said of a message stays true when more are sent.
LEMMA UnitGrows ==
  ASSUME NEW s, IsSeq(s), NEW m, NEW q \in Places(s), NEW unit, IsUnit(unit, q, s)
  PROVE  IsUnit(unit, q, Append(s, m)) /\ After(q, Append(s, m)) = After(q, s)
<1>1. Len(s) \in Nat /\ q.k \in 1 .. Len(s)
  BY AppendSeq, PlaceIs DEF IsUnit
<1>2. Append(s, m)[q.k] = s[q.k] /\ Len(Append(s, m)) = Len(s) + 1
  BY <1>1, AppendSeq DEF IsSeq
<1> QED BY <1>1, <1>2 DEF IsUnit, After

LEMMA PlacesGrow ==
  ASSUME NEW s, IsSeq(s), NEW m
  PROVE  Places(s) \subseteq Places(Append(s, m))
<1>1. Len(s) \in Nat /\ Len(Append(s, m)) = Len(s) + 1
  BY AppendSeq DEF IsSeq
<1> QED BY <1>1 DEF Places

LEMMA ChainEmpty ==
  ASSUME NEW s, NEW a \in Places(s)
  PROVE  Chain(<<>>, a, a, s)
<1> DEFINE p == [i \in 1 .. Len(<<>>) + 1 |-> a]
<1>1. p \in [1 .. Len(<<>>) + 1 -> Places(s)] /\ p[1] = a /\ p[Len(<<>>) + 1] = a
  BY NoneSeq
<1>2. \A i \in 1 .. Len(<<>>) : IsUnit(<<>>[i], p[i], s) /\ p[i + 1] = After(p[i], s)
  BY NoneSeq
<1> QED BY <1>1, <1>2 DEF Chain

LEMMA ChainAppend ==
  ASSUME NEW s, IsSeq(s), NEW units, IsSeq(units), NEW a, NEW b, Chain(units, a, b, s),
         NEW unit, IsUnit(unit, b, s)
  PROVE  Chain(Append(units, unit), a, After(b, s), s) /\ After(b, s) \in Places(s)
<1> DEFINE n == Len(units)
           t == Append(units, unit)
<1>1. PICK p \in [1 .. n + 1 -> Places(s)] :
        /\ p[1] = a /\ p[n + 1] = b
        /\ \A i \in 1 .. n : IsUnit(units[i], p[i], s) /\ p[i + 1] = After(p[i], s)
  BY DEF Chain
<1>2. n \in Nat /\ Len(t) = n + 1 /\ t[n + 1] = unit /\ \A i \in 1 .. n : t[i] = units[i]
  BY AppendSeq DEF IsSeq
<1> HIDE DEF n, t
<1>3. b \in Places(s)
  BY <1>1, <1>2
<1>4. After(b, s) \in Places(s)
  BY <1>3, AfterPlace
<1> DEFINE r == [i \in 1 .. n + 2 |-> IF i <= n + 1 THEN p[i] ELSE After(b, s)]
<1>5. r \in [1 .. Len(t) + 1 -> Places(s)]
  <2>1. \A i \in 1 .. n + 2 : (IF i <= n + 1 THEN p[i] ELSE After(b, s)) \in Places(s)
    BY <1>1, <1>2, <1>4
  <2> QED BY <1>2, <2>1
<1>6. r[1] = a /\ r[Len(t) + 1] = After(b, s) /\ (\A i \in 1 .. n + 1 : r[i] = p[i]) /\ r[n + 2] = After(b, s)
  BY <1>1, <1>2
<1> HIDE DEF r
<1>7. ASSUME NEW i \in 1 .. Len(t) PROVE IsUnit(t[i], r[i], s) /\ r[i + 1] = After(r[i], s)
  <2>1. CASE i <= n
    <3>1. i \in 1 .. n /\ i \in 1 .. n + 1 /\ i + 1 \in 1 .. n + 1
      BY <1>2, <2>1
    <3> QED BY <1>1, <1>2, <1>6, <3>1
  <2>2. CASE i = n + 1
    <3>1. n + 1 \in 1 .. n + 1 /\ i + 1 = n + 2
      BY <1>2, <2>2
    <3> QED BY <1>1, <1>2, <1>6, <2>2, <3>1
  <2> QED BY <1>2, <2>1, <2>2
<1>8. Chain(t, a, After(b, s), s)
  BY <1>5, <1>6, <1>7 DEF Chain
<1> QED BY <1>4, <1>8 DEF t

\* The first unit is the one due, and the rest follows it.
LEMMA ChainTail ==
  ASSUME NEW s, NEW units, IsSeq(units), units # <<>>, NEW a, NEW b, Chain(units, a, b, s)
  PROVE  a \in Places(s) /\ IsUnit(Head(units), a, s) /\ Chain(Tail(units), After(a, s), b, s)
<1> DEFINE n == Len(units)
           t == Tail(units)
<1>1. PICK p \in [1 .. n + 1 -> Places(s)] :
        /\ p[1] = a /\ p[n + 1] = b
        /\ \A i \in 1 .. n : IsUnit(units[i], p[i], s) /\ p[i + 1] = After(p[i], s)
  BY DEF Chain
<1>2. n \in Nat \ {0} /\ Len(t) = n - 1 /\ Head(units) = units[1] /\ \A i \in 1 .. n - 1 : t[i] = units[i + 1]
  BY TailSeq DEF IsSeq
<1> HIDE DEF n, t
<1>3. 1 \in 1 .. n /\ 1 \in 1 .. n + 1
  BY <1>2
<1>4. a \in Places(s) /\ IsUnit(Head(units), a, s) /\ p[2] = After(a, s)
  BY <1>1, <1>2, <1>3
<1> DEFINE r == [i \in 1 .. n |-> p[i + 1]]
<1>5. r \in [1 .. Len(t) + 1 -> Places(s)] /\ r[1] = After(a, s) /\ r[Len(t) + 1] = b
  BY <1>1, <1>2, <1>3, <1>4
<1>6. ASSUME NEW i \in 1 .. Len(t) PROVE IsUnit(t[i], r[i], s) /\ r[i + 1] = After(r[i], s)
  <2>1. i \in 1 .. n - 1 /\ i \in 1 .. n /\ i + 1 \in 1 .. n
    BY <1>2
  <2>2. r[i] = p[i + 1] /\ r[i + 1] = p[(i + 1) + 1]
    BY <2>1
  <2> HIDE DEF r
  <2> QED BY <1>1, <1>2, <2>1, <2>2
<1>7. Chain(t, After(a, s), b, s)
  <2> HIDE DEF r
  <2> QED BY <1>5, <1>6 DEF Chain
<1> QED BY <1>4, <1>7 DEF t

LEMMA ChainGrows ==
  ASSUME NEW s, IsSeq(s), NEW m, NEW units, IsSeq(units), NEW a, NEW b, Chain(units, a, b, s)
  PROVE  Chain(units, a, b, Append(s, m))
<1>1. PICK p \in [1 .. Len(units) + 1 -> Places(s)] :
        /\ p[1] = a /\ p[Len(units) + 1] = b
        /\ \A i \in 1 .. Len(units) : IsUnit(units[i], p[i], s) /\ p[i + 1] = After(p[i], s)
  BY DEF Chain
<1> DEFINE t == Append(s, m)
<1>2. Places(s) \subseteq Places(t)
  BY PlacesGrow
<1>3. ASSUME NEW i \in 1 .. Len(units)
      PROVE  IsUnit(units[i], p[i], t) /\ p[i + 1] = After(p[i], t)
  <2>1. i \in 1 .. Len(units) + 1
    BY AppendSeq
  <2> QED BY <1>1, <2>1, UnitGrows
<1> HIDE DEF t
<1>4. p \in [1 .. Len(units) + 1 -> Places(t)]
  BY <1>2
<1> QED BY <1>1, <1>3, <1>4 DEF Chain, t

LEMMA ChainPushed ==
  ASSUME NEW s, IsSeq(s), NEW units, IsSeq(units), NEW a, NEW b, Chain(units, a, b, s),
         NEW unit, IsUnit(unit, b, s)
  PROVE  Chain(Pushed(units, unit), a, After(b, s), s) /\ After(b, s) \in Places(s)
BY ChainAppend DEF Pushed

LEMMA ChainPopped ==
  ASSUME NEW s, NEW units, IsSeq(units), units # <<>>, NEW a, NEW b, Chain(units, a, b, s)
  PROVE  a \in Places(s) /\ IsUnit(Head(units), a, s) /\ Chain(Popped(units), After(a, s), b, s)
BY ChainTail DEF Popped

LEMMA MoreMessages ==
  ASSUME NEW s, IsSeq(s), NEW m, NEW t, t = Pushed(s, m)
  PROVE  /\ Places(s) \subseteq Places(t)
         /\ \A units, a, b : IsSeq(units) /\ Chain(units, a, b, s) => Chain(units, a, b, t)
         /\ \A q \in Places(s) : \A unit : IsUnit(unit, q, s) => IsUnit(unit, q, t) /\ After(q, t) = After(q, s)
<1> DEFINE r == Append(s, m)
<1>1. t = r
  BY Zenon DEF Pushed
<1>2. Places(s) \subseteq Places(r)
  BY PlacesGrow
<1>3. \A units, a, b : IsSeq(units) /\ Chain(units, a, b, s) => Chain(units, a, b, r)
  BY ChainGrows
<1>4. ASSUME NEW q \in Places(s), NEW unit, IsUnit(unit, q, s)
      PROVE  IsUnit(unit, q, r) /\ After(q, r) = After(q, s)
  BY <1>4, UnitGrows
<1> HIDE DEF r
<1> QED BY <1>1, <1>2, <1>3, <1>4
------------------------------------------------------------------------------
(* What a sequence holds of some operations. *)

LEMMA HeldEmpty ==
  ASSUME NEW s, NEW ops
  PROVE  Held(s, ops) = {} <=> At(s, ops) = {}
BY DEF Held

LEMMA HeldOps ==
  ASSUME NEW s, NEW ops, NEW h \in Held(s, ops)
  PROVE  h.op \in ops
BY DEF Held, At

LEMMA HeldAppend ==
  ASSUME NEW s, IsSeq(s), NEW x, NEW ops
  PROVE  /\ x.op \notin ops => Held(Append(s, x), ops) = Held(s, ops)
         /\ x.op \in ops => Held(Append(s, x), ops) = Held(s, ops) \cup {x}
<1>1. \A i \in At(s, ops) : Append(s, x)[i] = s[i]
  BY AppendSeq DEF At
<1>2. Append(s, x)[Len(s) + 1] = x
  BY AppendSeq
<1>3. ASSUME x.op \notin ops PROVE Held(Append(s, x), ops) = Held(s, ops)
  BY <1>1, <1>3, AppendAt DEF Held
<1>4. ASSUME x.op \in ops PROVE Held(Append(s, x), ops) = Held(s, ops) \cup {x}
  <2>1. At(Append(s, x), ops) = At(s, ops) \cup {Len(s) + 1}
    BY <1>4, AppendAt
  <2> QED BY <1>1, <1>2, <2>1 DEF Held
<1> QED BY <1>3, <1>4

LEMMA HeldTail ==
  ASSUME NEW s, IsSeq(s), s # <<>>, NEW ops
  PROVE  /\ Head(s).op \notin ops => Held(Tail(s), ops) = Held(s, ops)
         /\ Head(s).op \in ops => Head(s) \in Held(s, ops)
         /\ Held(Tail(s), ops) \subseteq Held(s, ops)
<1>1. ASSUME NEW i \in At(Tail(s), ops) PROVE i + 1 \in At(s, ops) /\ Tail(s)[i] = s[i + 1]
  <2>1. i \in DOMAIN Tail(s)
    BY DEF At
  <2> QED BY <2>1, TailSeq, TailAt
<1>2. ASSUME NEW i \in At(s, ops), i # 1 PROVE i - 1 \in At(Tail(s), ops) /\ Tail(s)[i - 1] = s[i]
  <2>1. i \in 1 .. Len(s) /\ Len(s) \in Nat
    BY TailSeq DEF At
  <2>2. i - 1 \in 1 .. Len(s) - 1 /\ (i - 1) + 1 = i
    BY <1>2, <2>1
  <2> QED BY <1>2, <2>2, TailSeq, TailAt
<1>3. 1 \in At(s, ops) <=> Head(s).op \in ops
  BY TailAt
<1>4. Held(Tail(s), ops) \subseteq Held(s, ops)
  BY <1>1 DEF Held
<1>5. ASSUME Head(s).op \notin ops PROVE Held(s, ops) \subseteq Held(Tail(s), ops)
  <2> SUFFICES ASSUME NEW i \in At(s, ops) PROVE s[i] \in Held(Tail(s), ops)
    BY DEF Held
  <2>1. i # 1
    BY <1>3, <1>5
  <2> QED BY <1>2, <2>1 DEF Held
<1>6. Head(s).op \in ops => Head(s) \in Held(s, ops)
  BY <1>3, TailSeq DEF Held
<1> QED BY <1>4, <1>5, <1>6

\* What is held at most once is the head, or stays.
LEMMA HeldTailOnce ==
  ASSUME NEW s, IsSeq(s), s # <<>>, NEW ops, \A i, j \in At(s, ops) : i = j, Head(s).op \in ops
  PROVE  Held(s, ops) = {Head(s)} /\ Held(Tail(s), ops) = {}
<1>1. At(Tail(s), ops) = {} /\ 1 \in At(s, ops)
  BY TailUnique, TailAt
<1>2. At(s, ops) = {1}
  BY <1>1
<1> QED BY <1>1, <1>2, TailSeq DEF Held

LEMMA HeldConcat ==
  ASSUME NEW s, IsSeq(s), NEW t, IsSeq(t), NEW ops
  PROVE  Held(s \o t, ops) = Held(s, ops) \cup Held(t, ops)
<1>1. ASSUME NEW h \in Held(s, ops) \cup Held(t, ops) PROVE h \in Held(s \o t, ops)
  <2>1. CASE h \in Held(s, ops)
    <3>1. PICK i \in At(s, ops) : h = s[i]
      BY <2>1 DEF Held
    <3>2. i \in 1 .. Len(s)
      BY <3>1, ConcatSeq DEF At
    <3>3. i \in At(s \o t, ops) /\ (s \o t)[i] = h
      BY <3>1, <3>2, ConcatSeq DEF At
    <3> QED BY <3>3 DEF Held
  <2>2. CASE h \in Held(t, ops)
    <3>1. PICK i \in At(t, ops) : h = t[i]
      BY <2>2 DEF Held
    <3>2. i \in 1 .. Len(t) /\ h.op \in ops
      BY <3>1, ConcatSeq DEF At
    <3>3. Len(s) + i \in 1 .. Len(s) + Len(t) /\ (s \o t)[Len(s) + i] = h
      BY <3>1, <3>2, ConcatSeq
    <3>4. Len(s) + i \in At(s \o t, ops)
      BY <3>2, <3>3, ConcatSeq DEF At
    <3> QED BY <3>3, <3>4 DEF Held
  <2> QED BY <1>1, <2>1, <2>2
<1>2. ASSUME NEW i \in At(s \o t, ops) PROVE (s \o t)[i] \in Held(s, ops) \cup Held(t, ops)
  <2>1. i \in 1 .. Len(s) + Len(t) /\ (s \o t)[i].op \in ops
    BY <1>2, ConcatSeq DEF At
  <2>2. CASE i <= Len(s)
    <3>1. i \in 1 .. Len(s) /\ (s \o t)[i] = s[i]
      BY <2>1, <2>2, ConcatSeq
    <3>2. i \in At(s, ops)
      BY <2>1, <3>1, ConcatSeq DEF At
    <3> QED BY <3>1, <3>2 DEF Held
  <2>3. CASE i > Len(s)
    <3>1. i - Len(s) \in 1 .. Len(t) /\ i = Len(s) + (i - Len(s))
      BY <2>1, <2>3, ConcatSeq
    <3>2. (s \o t)[i] = t[i - Len(s)]
      BY <3>1, ConcatSeq
    <3>3. i - Len(s) \in At(t, ops)
      BY <2>1, <3>1, <3>2, ConcatSeq DEF At
    <3> QED BY <3>2, <3>3 DEF Held
  <2> QED BY <2>1, <2>2, <2>3, ConcatSeq
<1>3. Held(s \o t, ops) \subseteq Held(s, ops) \cup Held(t, ops)
  BY <1>2 DEF Held
<1> QED BY <1>1, <1>3

LEMMA PushedIs ==
  ASSUME NEW s, IsSeq(s), NEW x
  PROVE  /\ IsSeq(Pushed(s, x)) /\ Len(s) \in Nat /\ Len(Pushed(s, x)) = Len(s) + 1
         /\ \A i \in 1 .. Len(s) : Pushed(s, x)[i] = s[i]
         /\ Pushed(s, x)[Len(s) + 1] = x
         /\ Pushed(s, x) # <<>>
         /\ s # <<>> => Head(Pushed(s, x)) = Head(s)
         /\ s = <<>> => Head(Pushed(s, x)) = x
<1> DEFINE t == Append(s, x)
<1>1. /\ IsSeq(t) /\ Len(s) \in Nat /\ DOMAIN t = 1 .. Len(s) + 1
      /\ \A i \in 1 .. Len(s) : t[i] = s[i]
      /\ t[Len(s) + 1] = x
      /\ t # <<>>
      /\ s # <<>> => Head(t) = Head(s)
      /\ s = <<>> => Head(t) = x
  BY AppendSeq
<1>2. Pushed(s, x) = t
  BY Zenon DEF Pushed
<1> HIDE DEF t
<1>3. Len(t) = Len(s) + 1
  BY <1>1 DEF IsSeq
<1> QED BY <1>1, <1>2, <1>3

LEMMA PoppedIs ==
  ASSUME NEW s, IsSeq(s), s # <<>>
  PROVE  /\ IsSeq(Popped(s)) /\ Len(s) \in Nat \ {0} /\ Len(Popped(s)) = Len(s) - 1
         /\ \A i \in 1 .. Len(s) - 1 : Popped(s)[i] = s[i + 1]
         /\ Head(s) = s[1]
<1> DEFINE t == Tail(s)
<1>1. /\ IsSeq(t) /\ Len(s) \in Nat \ {0} /\ DOMAIN t = 1 .. Len(s) - 1
      /\ \A i \in 1 .. Len(s) - 1 : t[i] = s[i + 1]
      /\ Head(s) = s[1]
  BY TailSeq
<1>2. Popped(s) = t
  BY Zenon DEF Popped
<1> HIDE DEF t
<1>3. Len(t) = Len(s) - 1
  BY <1>1 DEF IsSeq
<1> QED BY <1>1, <1>2, <1>3

LEMMA AtPushed ==
  ASSUME NEW s, IsSeq(s), NEW x, NEW ops
  PROVE  /\ x.op \notin ops => At(Pushed(s, x), ops) = At(s, ops)
         /\ x.op \in ops => At(Pushed(s, x), ops) = At(s, ops) \cup {Len(s) + 1}
BY AppendAt DEF Pushed

LEMMA AtPopped ==
  ASSUME NEW s, IsSeq(s), s # <<>>, NEW ops, \A i, j \in At(s, ops) : i = j
  PROVE  \A i, j \in At(Popped(s), ops) : i = j
BY TailUnique DEF Popped

LEMMA HeldPushed ==
  ASSUME NEW s, IsSeq(s), NEW x, NEW ops
  PROVE  /\ x.op \notin ops => Held(Pushed(s, x), ops) = Held(s, ops)
         /\ x.op \in ops => Held(Pushed(s, x), ops) = Held(s, ops) \cup {x}
BY HeldAppend DEF Pushed

LEMMA HeldPopped ==
  ASSUME NEW s, IsSeq(s), s # <<>>, NEW ops
  PROVE  /\ Head(s).op \notin ops => Held(Popped(s), ops) = Held(s, ops)
         /\ Head(s).op \in ops => Head(s) \in Held(s, ops)
         /\ Held(Popped(s), ops) \subseteq Held(s, ops)
BY HeldTail DEF Popped

LEMMA HeldPoppedOnce ==
  ASSUME NEW s, IsSeq(s), s # <<>>, NEW ops, \A i, j \in At(s, ops) : i = j, Head(s).op \in ops
  PROVE  Held(s, ops) = {Head(s)} /\ Held(Popped(s), ops) = {}
BY HeldTailOnce DEF Popped
------------------------------------------------------------------------------
(* The sends that are posted. *)

LEMMA PendingPost ==
  ASSUME NEW ready, IsSeq(ready), NEW n, NEW s, Pending(ready, n, s), NEW h, h.op # "send"
  PROVE  Pending(Append(ready, h), n, s)
<1>1. At(Append(ready, h), {"send"}) = At(ready, {"send"})
  BY AppendAt
<1>2. \A i \in At(ready, {"send"}) : Append(ready, h)[i] = ready[i]
  BY AppendSeq DEF At
<1>3. PICK g \in [At(ready, {"send"}) -> n .. Len(s)] :
        /\ \A i, j \in At(ready, {"send"}) : i < j => g[i] < g[j]
        /\ \A k \in n .. Len(s) : \E i \in At(ready, {"send"}) : g[i] = k
        /\ \A i \in At(ready, {"send"}) : ready[i].message = s[g[i]]
  BY DEF Pending
<1>4. \A i \in At(ready, {"send"}) : Append(ready, h)[i].message = s[g[i]]
  BY <1>2, <1>3
<1> DEFINE r == Append(ready, h)
<1> HIDE DEF r
<1>5. g \in [At(r, {"send"}) -> n .. Len(s)]
  BY <1>1 DEF r
<1>6. /\ \A i, j \in At(r, {"send"}) : i < j => g[i] < g[j]
      /\ \A k \in n .. Len(s) : \E i \in At(r, {"send"}) : g[i] = k
      /\ \A i \in At(r, {"send"}) : r[i].message = s[g[i]]
  BY <1>1, <1>3, <1>4 DEF r
<1>7. Pending(r, n, s)
  BY <1>5, <1>6 DEF Pending
<1> QED BY <1>7 DEF r

LEMMA PendingSend ==
  ASSUME NEW ready, IsSeq(ready), NEW s, IsSeq(s), NEW n \in 1 .. Len(s) + 1, Pending(ready, n, s),
         NEW m, NEW h, h.op = "send", h.message = m
  PROVE  Pending(Append(ready, h), n, Append(s, m))
<1> DEFINE A == At(ready, {"send"})
           r == Append(ready, h)
           t == Append(s, m)
           L == Len(ready)
           N == Len(s)
<1>1. PICK g \in [A -> n .. N] :
        /\ \A i, j \in A : i < j => g[i] < g[j]
        /\ \A k \in n .. N : \E i \in A : g[i] = k
        /\ \A i \in A : ready[i].message = s[g[i]]
  BY DEF Pending
<1>2. /\ At(r, {"send"}) = A \cup {L + 1} /\ L \in Nat /\ N \in Nat
      /\ \A i \in A : i \in 1 .. L /\ r[i] = ready[i]
      /\ r[L + 1] = h
  BY AppendAt, AppendSeq DEF At
<1>3. Len(t) = N + 1 /\ t[N + 1] = m /\ \A i \in 1 .. N : t[i] = s[i]
  BY AppendSeq DEF IsSeq
<1> DEFINE f == [i \in A \cup {L + 1} |-> IF i = L + 1 THEN N + 1 ELSE g[i]]
<1> HIDE DEF A, L, N, r, t
<1>4. f[L + 1] = N + 1 /\ \A i \in A : f[i] = g[i] /\ g[i] \in n .. N /\ i \in 1 .. L
  BY <1>1, <1>2
<1>5. f \in [A \cup {L + 1} -> n .. N + 1]
  <2>1. n .. N \subseteq n .. N + 1 /\ N + 1 \in n .. N + 1
    BY <1>2 DEF N
  <2> QED BY <1>4, <2>1
<1> HIDE DEF f
<1>6. \A i, j \in A \cup {L + 1} : i < j => f[i] < f[j]
  <2> SUFFICES ASSUME NEW i \in A \cup {L + 1}, NEW j \in A \cup {L + 1}, i < j PROVE f[i] < f[j]
    OBVIOUS
  <2>1. CASE i \in A /\ j \in A
    BY <1>1, <1>4, <2>1
  <2>2. CASE i \in A /\ j = L + 1
    BY <1>2, <1>4, <2>2
  <2>3. CASE i = L + 1
    BY <1>2, <1>4, <2>3
  <2> QED BY <2>1, <2>2, <2>3
<1>7. \A k \in n .. N + 1 : \E i \in A \cup {L + 1} : f[i] = k
  <2> SUFFICES ASSUME NEW k \in n .. N + 1 PROVE \E i \in A \cup {L + 1} : f[i] = k
    OBVIOUS
  <2>1. CASE k = N + 1
    BY <1>4, <2>1
  <2>2. CASE k # N + 1
    <3>1. k \in n .. N
      BY <1>2, <2>2 DEF N
    <3> QED BY <1>1, <1>4, <3>1
  <2> QED BY <2>1, <2>2
<1>8. \A i \in A \cup {L + 1} : r[i].message = t[f[i]]
  <2>1. \A i \in A : f[i] \in 1 .. N
    BY <1>2, <1>4 DEF N
  <2> QED BY <1>1, <1>2, <1>3, <1>4, <2>1
<1>9. Pending(r, n, t)
  <2>1. f \in [At(r, {"send"}) -> n .. Len(t)]
    BY <1>2, <1>3, <1>5
  <2>2. /\ \A i, j \in At(r, {"send"}) : i < j => f[i] < f[j]
        /\ \A k \in n .. Len(t) : \E i \in At(r, {"send"}) : f[i] = k
        /\ \A i \in At(r, {"send"}) : r[i].message = t[f[i]]
    BY <1>2, <1>3, <1>6, <1>7, <1>8
  <2> QED BY <2>1, <2>2 DEF Pending
<1> QED BY <1>9 DEF r, t

LEMMA PendingTail ==
  ASSUME NEW ready, IsSeq(ready), ready # <<>>, NEW s, IsSeq(s), NEW n \in 1 .. Len(s) + 1,
         Pending(ready, n, s)
  PROVE  /\ Head(ready).op # "send" => Pending(Tail(ready), n, s)
         /\ Head(ready).op = "send" =>
              n <= Len(s) /\ Head(ready).message = s[n] /\ Pending(Tail(ready), n + 1, s)
<1> DEFINE A == At(ready, {"send"})
           B == At(Tail(ready), {"send"})
           r == Tail(ready)
           N == Len(s)
<1>1. PICK g \in [A -> n .. N] :
        /\ \A i, j \in A : i < j => g[i] < g[j]
        /\ \A k \in n .. N : \E i \in A : g[i] = k
        /\ \A i \in A : ready[i].message = s[g[i]]
  BY DEF Pending
<1>2. N \in Nat /\ n \in Nat
  BY AppendSeq
<1>3. \A i \in B : i + 1 \in A /\ i \in Nat \ {0} /\ r[i] = ready[i + 1]
  BY TailAt, TailSeq DEF At
<1>4. \A i \in A : i \in Nat \ {0} /\ (i # 1 => i - 1 \in B)
  BY TailAt
<1>5. 1 \in A <=> Head(ready).op = "send"
  BY TailAt
<1>6. Head(ready) = ready[1]
  BY TailSeq
<1> DEFINE f == [i \in B |-> g[i + 1]]
<1> HIDE DEF A, B, N, r
<1>7. \A i \in B : f[i] = g[i + 1] /\ g[i + 1] \in n .. N /\ r[i].message = s[f[i]]
  BY <1>1, <1>3
<1>8. \A i, j \in B : i < j => f[i] < f[j]
  <2> SUFFICES ASSUME NEW i \in B, NEW j \in B, i < j PROVE f[i] < f[j]
    OBVIOUS
  <2>1. i + 1 \in A /\ j + 1 \in A /\ i + 1 < j + 1
    BY <1>3
  <2> HIDE DEF f
  <2> QED BY <1>1, <1>7, <2>1
<1>9. ASSUME NEW k \in n .. N, NEW i \in A, i # 1, g[i] = k PROVE i - 1 \in B /\ f[i - 1] = k
  <2>1. i - 1 \in B /\ (i - 1) + 1 = i
    BY <1>4, <1>9
  <2> QED BY <1>9, <2>1
<1>10. f \in [B -> n .. N]
  BY <1>7
<1>11. f = [i \in B |-> f[i]]
  OBVIOUS
<1> HIDE DEF f
<1>12. ASSUME Head(ready).op # "send" PROVE Pending(r, n, s)
  <2>1. \A k \in n .. N : \E i \in B : f[i] = k
    BY <1>1, <1>5, <1>9, <1>12
  <2> QED BY <1>7, <1>8, <1>10, <2>1 DEF Pending, B, N, r
<1>13. ASSUME Head(ready).op = "send"
       PROVE  n <= N /\ Head(ready).message = s[n] /\ Pending(r, n + 1, s)
  <2>1. 1 \in A
    BY <1>5, <1>13
  <2>2. g[1] \in n .. N
    BY <1>1, <2>1
  <2>3. n \in n .. N
    BY <1>2, <2>2
  <2>4. PICK i \in A : g[i] = n
    BY <1>1, <2>3
  <2>5. g[1] = n
    <3>1. CASE i = 1
      BY <2>4, <3>1
    <3>2. CASE i # 1
      <4>1. 1 < i
        BY <1>4, <3>2
      <4>2. g[1] < n
        BY <1>1, <2>1, <2>4, <4>1
      <4> QED BY <1>2, <2>2, <4>2
    <3> QED BY <3>1, <3>2
  <2>6. Head(ready).message = s[n]
    BY <1>1, <1>6, <2>1, <2>5
  <2>7. \A j \in B : f[j] \in n + 1 .. N
    <3> SUFFICES ASSUME NEW j \in B PROVE f[j] \in n + 1 .. N
      OBVIOUS
    <3>1. j + 1 \in A /\ 1 < j + 1
      BY <1>3
    <3>2. g[1] < g[j + 1]
      BY <1>1, <2>1, <3>1
    <3> QED BY <1>2, <1>7, <2>5, <3>2
  <2>8. f \in [B -> n + 1 .. N]
    BY <1>11, <2>7
  <2>9. \A k \in n + 1 .. N : \E j \in B : f[j] = k
    <3> SUFFICES ASSUME NEW k \in n + 1 .. N PROVE \E j \in B : f[j] = k
      OBVIOUS
    <3>1. k \in n .. N /\ k # n
      BY <1>2
    <3>2. PICK j \in A : g[j] = k
      BY <1>1, <3>1
    <3>3. j # 1
      BY <2>5, <3>1, <3>2
    <3> QED BY <1>9, <3>1, <3>2, <3>3
  <2>10. Pending(r, n + 1, s)
    BY <1>7, <1>8, <2>8, <2>9 DEF Pending, B, N, r
  <2> QED BY <2>3, <2>6, <2>10
<1> QED BY <1>12, <1>13 DEF r, N

LEMMA PendingPushed ==
  ASSUME NEW ready, IsSeq(ready), NEW s, IsSeq(s), NEW n \in 1 .. Len(s) + 1, Pending(ready, n, s), NEW h
  PROVE  /\ h.op # "send" => Pending(Pushed(ready, h), n, s)
         /\ h.op = "send" => Pending(Pushed(ready, h), n, Pushed(s, h.message))
BY PendingPost, PendingSend DEF Pushed

LEMMA PendingPopped ==
  ASSUME NEW ready, IsSeq(ready), ready # <<>>, NEW s, IsSeq(s), NEW n \in 1 .. Len(s) + 1,
         Pending(ready, n, s)
  PROVE  /\ Head(ready).op # "send" => Pending(Popped(ready), n, s)
         /\ Head(ready).op = "send" =>
              n <= Len(s) /\ Head(ready).message = s[n] /\ Pending(Popped(ready), n + 1, s)
BY PendingTail DEF Popped
------------------------------------------------------------------------------
(* The fields that the operations leave. *)

LEMMA PostIs ==
  ASSUME NEW c, IsEnd(c), NEW h, NEW d, d = Post(c, h)
  PROVE  /\ d.socket = c.socket /\ d.read = c.read /\ d.writes = c.writes /\ d.out = c.out
         /\ d.temp = c.temp /\ d.ready = Pushed(c.ready, h) /\ IsEnd(d)
<1>1. d = [c EXCEPT !.ready = Append(c.ready, h)]
  BY DEF Post
<1>2. IsSeq(Append(c.ready, h))
  BY AppendSeq DEF IsEnd
<1>3. d = [socket |-> c.socket, running |-> c.running, ready |-> Append(c.ready, h), read |-> c.read,
           writes |-> c.writes, out |-> c.out, temp |-> c.temp]
  BY <1>1 DEF IsEnd
<1>4. /\ d.socket = c.socket /\ d.read = c.read /\ d.writes = c.writes /\ d.out = c.out
      /\ d.temp = c.temp /\ d.ready = Append(c.ready, h) /\ d.running = c.running
  BY <1>3
<1>5. IsEnd(d)
  BY <1>2, <1>3, <1>4 DEF IsEnd
<1> QED BY <1>4, <1>5 DEF Pushed

LEMMA HandledIs ==
  ASSUME NEW c, IsEnd(c), c.ready # <<>>, NEW d, d = [c EXCEPT !.ready = Tail(c.ready)]
  PROVE  /\ d.socket = c.socket /\ d.read = c.read /\ d.writes = c.writes /\ d.out = c.out
         /\ d.temp = c.temp /\ d.ready = Popped(c.ready) /\ IsEnd(d)
<1>1. IsSeq(Tail(c.ready))
  BY TailSeq DEF IsEnd
<1>2. d = [socket |-> c.socket, running |-> c.running, ready |-> Tail(c.ready), read |-> c.read,
           writes |-> c.writes, out |-> c.out, temp |-> c.temp]
  BY DEF IsEnd
<1>3. /\ d.socket = c.socket /\ d.read = c.read /\ d.writes = c.writes /\ d.out = c.out
      /\ d.temp = c.temp /\ d.ready = Tail(c.ready) /\ d.running = c.running
  BY <1>2
<1>4. IsEnd(d)
  BY <1>1, <1>2, <1>3 DEF IsEnd
<1> QED BY <1>3, <1>4 DEF Popped

LEMMA StartWriteOpen ==
  ASSUME NEW c, IsEnd(c), NEW op, op \in Writes, NEW unit, NEW d, d = StartWrite(c, op, unit),
         c.socket = "open"
  PROVE  /\ d.socket = c.socket /\ d.read = c.read /\ d.out = c.out /\ d.temp = c.temp /\ IsEnd(d)
         /\ d.ready = c.ready
         /\ \E w : w.op = op /\ w.unit = unit /\ d.writes = Pushed(c.writes, w)
<1> DEFINE w == [op |-> op, unit |-> unit]
<1>1. d = [c EXCEPT !.writes = Append(c.writes, w)] /\ w.op = op
  BY DEF StartWrite
<1> HIDE DEF w
<1>2. IsSeq(Append(c.writes, w)) /\ \A i \in DOMAIN Append(c.writes, w) : Append(c.writes, w)[i].op \in Writes
  BY <1>1, AppendSeq DEF IsEnd
<1>3. d = [socket |-> c.socket, running |-> c.running, ready |-> c.ready, read |-> c.read,
           writes |-> Append(c.writes, w), out |-> c.out, temp |-> c.temp]
  BY <1>1 DEF IsEnd
<1>4. /\ d.socket = c.socket /\ d.read = c.read /\ d.out = c.out /\ d.temp = c.temp
      /\ d.ready = c.ready /\ d.writes = Append(c.writes, w) /\ d.running = c.running
  BY <1>3
<1>5. IsEnd(d)
  BY <1>2, <1>3, <1>4 DEF IsEnd
<1>6. d.writes = Pushed(c.writes, w)
  BY <1>4 DEF Pushed
<1>7. w.op = op /\ w.unit = unit
  BY DEF w
<1> QED BY <1>4, <1>5, <1>6, <1>7

LEMMA StartWriteShut ==
  ASSUME NEW c, IsEnd(c), NEW op, op \in Writes, NEW unit, NEW d, d = StartWrite(c, op, unit),
         c.socket # "open"
  PROVE  /\ d.socket = c.socket /\ d.read = c.read /\ d.out = c.out /\ d.temp = c.temp /\ IsEnd(d)
         /\ d.writes = c.writes
         /\ \E h : h.op = op /\ ~ h.ok /\ d.ready = Pushed(c.ready, h)
<1> DEFINE h == [op |-> op, ok |-> FALSE, unit |-> NoUnit]
<1>1. d = Post(c, h) /\ h.op = op /\ ~ h.ok
  BY DEF StartWrite, Completion
<1> HIDE DEF h
<1>2. /\ d.socket = c.socket /\ d.read = c.read /\ d.writes = c.writes /\ d.out = c.out
      /\ d.temp = c.temp /\ d.ready = Pushed(c.ready, h) /\ IsEnd(d)
  BY <1>1, PostIs
<1> QED BY <1>1, <1>2

LEMMA StartWriteIs ==
  ASSUME NEW c, IsEnd(c), NEW op, op \in Writes, NEW unit, NEW d, d = StartWrite(c, op, unit)
  PROVE  d.socket = c.socket /\ d.read = c.read /\ d.out = c.out /\ d.temp = c.temp /\ IsEnd(d)
<1>1. CASE c.socket = "open"
  BY <1>1, StartWriteOpen
<1>2. CASE c.socket # "open"
  BY <1>2, StartWriteShut
<1> QED BY <1>1, <1>2

LEMMA StartReadOpen ==
  ASSUME NEW c, IsEnd(c), NEW op, op \in Reads, NEW d, d = StartRead(c, op),
         c.socket = "open"
  PROVE  /\ d.socket = c.socket /\ d.writes = c.writes /\ d.out = c.out /\ d.temp = c.temp /\ IsEnd(d)
         /\ d.ready = c.ready /\ d.read = op
<1>1. d = [c EXCEPT !.read = op]
  BY DEF StartRead
<1>2. d = [socket |-> c.socket, running |-> c.running, ready |-> c.ready, read |-> op,
           writes |-> c.writes, out |-> c.out, temp |-> c.temp]
  BY <1>1 DEF IsEnd
<1>3. /\ d.socket = c.socket /\ d.read = op /\ d.out = c.out /\ d.temp = c.temp
      /\ d.ready = c.ready /\ d.writes = c.writes /\ d.running = c.running
  BY <1>2
<1>4. IsEnd(d)
  BY <1>2, <1>3 DEF IsEnd
<1> QED BY <1>3, <1>4

LEMMA StartReadShut ==
  ASSUME NEW c, IsEnd(c), NEW op, op \in Reads, NEW d, d = StartRead(c, op),
         c.socket # "open"
  PROVE  /\ d.socket = c.socket /\ d.writes = c.writes /\ d.out = c.out /\ d.temp = c.temp /\ IsEnd(d)
         /\ d.read = c.read
         /\ \E h : h.op = op /\ ~ h.ok /\ d.ready = Pushed(c.ready, h)
<1> DEFINE h == [op |-> op, ok |-> FALSE, unit |-> NoUnit]
<1>1. d = Post(c, h) /\ h.op = op /\ ~ h.ok
  BY DEF StartRead, Completion
<1> HIDE DEF h
<1>2. /\ d.socket = c.socket /\ d.read = c.read /\ d.writes = c.writes /\ d.out = c.out
      /\ d.temp = c.temp /\ d.ready = Pushed(c.ready, h) /\ IsEnd(d)
  BY <1>1, PostIs
<1> QED BY <1>1, <1>2

LEMMA StartReadIs ==
  ASSUME NEW c, IsEnd(c), NEW op, op \in Reads, NEW d, d = StartRead(c, op)
  PROVE  d.socket = c.socket /\ d.writes = c.writes /\ d.out = c.out /\ d.temp = c.temp /\ IsEnd(d)
<1>1. CASE c.socket = "open"
  BY <1>1, StartReadOpen
<1>2. CASE c.socket # "open"
  BY <1>2, StartReadShut
<1> QED BY <1>1, <1>2

LEMMA ConcatThree ==
  ASSUME NEW r, IsSeq(r), NEW s, IsSeq(s), NEW t, IsSeq(t)
  PROVE  (r \o s) \o t = r \o (s \o t)
<1>1. PICK R : r \in Seq(R)
  BY DEF IsSeq
<1>2. PICK S : s \in Seq(S)
  BY DEF IsSeq
<1>3. PICK T : t \in Seq(T)
  BY DEF IsSeq
<1>4. r \in Seq(R \cup S \cup T) /\ s \in Seq(R \cup S \cup T) /\ t \in Seq(R \cup S \cup T)
  BY <1>1, <1>2, <1>3
<1> DEFINE U == R \cup S \cup T
<1> HIDE DEF U
<1>5. r \in Seq(U) /\ s \in Seq(U) /\ t \in Seq(U)
  BY <1>4 DEF U
<1> QED BY <1>5, ConcatAssociative

\* What a close leaves: every operation under way is a failed handler.
LEMMA CloseIs ==
  ASSUME NEW c, IsEnd(c), NEW d, d = Close(c)
  PROVE  /\ d.socket = (IF c.socket = "open" THEN "closed" ELSE c.socket)
         /\ d.read = "none" /\ d.writes = <<>> /\ d.out = c.out /\ d.temp = c.temp /\ IsEnd(d)
         /\ \E more : /\ IsSeq(more) /\ d.ready = c.ready \o more
                      /\ \A i \in DOMAIN more :
                           ~ more[i].ok /\ more[i].op \in {c.read} \cup {c.writes[j].op : j \in DOMAIN c.writes}
                      /\ c.read = "none" /\ c.writes = <<>> => more = <<>>
                      /\ \A those : (\A i, j \in At(c.writes, those) : i = j)
                                 /\ (At(c.writes, those) = {} \/ c.read \notin those)
                                 => \A i, j \in At(more, those) : i = j
<1> DEFINE failedRead == IF c.read = "none" THEN <<>> ELSE <<Completion(c.read, FALSE, NoUnit)>>
           failedWrites == [i \in 1 .. Len(c.writes) |-> Completion(c.writes[i].op, FALSE, NoUnit)]
           more == failedRead \o failedWrites
           socket == IF c.socket = "open" THEN "closed" ELSE c.socket
           ops == {c.read} \cup {c.writes[j].op : j \in DOMAIN c.writes}
<1>1. IsSeq(failedRead) /\ \A i \in DOMAIN failedRead : ~ failedRead[i].ok /\ failedRead[i].op \in ops
  <2>1. CASE c.read = "none"
    BY <2>1, NoneSeq
  <2>2. CASE c.read # "none"
    <3> DEFINE h == Completion(c.read, FALSE, NoUnit)
    <3>1. failedRead = <<h>> /\ ~ h.ok /\ h.op = c.read
      BY <2>2 DEF Completion
    <3> HIDE DEF h
    <3>2. <<h>> \in Seq({h}) /\ DOMAIN <<h>> = {1} /\ <<h>>[1] = h
      OBVIOUS
    <3> QED BY <3>1, <3>2 DEF IsSeq
  <2> QED BY <2>1, <2>2
<1>2. IsSeq(failedWrites) /\ \A i \in DOMAIN failedWrites : ~ failedWrites[i].ok /\ failedWrites[i].op \in ops
  <2>1. Len(c.writes) \in Nat /\ DOMAIN c.writes = 1 .. Len(c.writes)
    BY AppendSeq DEF IsEnd
  <2>2. \A i \in 1 .. Len(c.writes) : failedWrites[i] = Completion(c.writes[i].op, FALSE, NoUnit)
    OBVIOUS
  <2> HIDE DEF ops
  <2> DEFINE S == {failedWrites[i] : i \in 1 .. Len(c.writes)}
  <2>3. failedWrites \in Seq(S)
    <3>1. \A i \in 1 .. Len(c.writes) : failedWrites[i] \in S
      OBVIOUS
    <3>2. failedWrites \in [1 .. Len(c.writes) -> S]
      BY <3>1
    <3> HIDE DEF failedWrites, S
    <3> QED BY <2>1, <3>2
  <2> HIDE DEF S
  <2> HIDE DEF failedWrites
  <2>4. DOMAIN failedWrites = 1 .. Len(c.writes)
    BY DEF failedWrites
  <2>5. ASSUME NEW i \in 1 .. Len(c.writes) PROVE ~ failedWrites[i].ok /\ failedWrites[i].op \in ops
    <3>1. c.writes[i].op \in ops
      BY <2>1 DEF ops
    <3>2. failedWrites[i] = [op |-> c.writes[i].op, ok |-> FALSE, unit |-> NoUnit]
      BY <2>2 DEF Completion
    <3> QED BY <3>1, <3>2
  <2>6. IsSeq(failedWrites)
    BY <2>3 DEF IsSeq
  <2> QED BY <2>4, <2>5, <2>6
<1>3. c.read = "none" /\ c.writes = <<>> => failedRead = <<>> /\ failedWrites = <<>>
  BY NoneSeq
<1>3a. /\ \A those : \A i, j \in At(failedRead, those) : i = j
       /\ \A those : c.read \notin those => At(failedRead, those) = {}
  <2>1. CASE c.read = "none"
    BY <2>1, NoneSeq DEF At
  <2>2. CASE c.read # "none"
    <3> DEFINE h == Completion(c.read, FALSE, NoUnit)
    <3>1. failedRead = <<h>> /\ h.op = c.read
      BY <2>2 DEF Completion
    <3> HIDE DEF h
    <3>2. DOMAIN <<h>> = {1} /\ <<h>>[1] = h
      OBVIOUS
    <3> HIDE DEF failedRead
    <3> QED BY <3>1, <3>2 DEF At
  <2> QED BY <2>1, <2>2
<1>3b. \A those : At(failedWrites, those) = At(c.writes, those)
  <2>1. Len(c.writes) \in Nat /\ DOMAIN c.writes = 1 .. Len(c.writes)
    BY AppendSeq DEF IsEnd
  <2>2. \A i \in 1 .. Len(c.writes) : failedWrites[i].op = c.writes[i].op
    BY DEF Completion
  <2>3. DOMAIN failedWrites = 1 .. Len(c.writes)
    OBVIOUS
  <2> QED BY <2>1, <2>2, <2>3 DEF At
<1>4. d = [c EXCEPT !.socket = socket, !.ready = c.ready \o failedRead \o failedWrites,
                    !.read = "none", !.writes = <<>>]
  BY DEF Close
<1> HIDE DEF failedRead, failedWrites, ops, socket
<1>5. /\ IsSeq(more)
      /\ \A i \in DOMAIN more : ~ more[i].ok /\ more[i].op \in ops
      /\ (c.ready \o failedRead) \o failedWrites = c.ready \o more
  <2>1. IsSeq(more) /\ DOMAIN more = 1 .. Len(failedRead) + Len(failedWrites)
    BY <1>1, <1>2, ConcatSeq
  <2>2. ASSUME NEW i \in DOMAIN more PROVE ~ more[i].ok /\ more[i].op \in ops
    <3>1. Len(failedRead) \in Nat /\ Len(failedWrites) \in Nat /\ i \in 1 .. Len(failedRead) + Len(failedWrites)
          /\ DOMAIN failedRead = 1 .. Len(failedRead) /\ DOMAIN failedWrites = 1 .. Len(failedWrites)
      BY <1>1, <1>2, <2>1, ConcatSeq
    <3>2. CASE i <= Len(failedRead)
      <4>1. i \in 1 .. Len(failedRead)
        BY <3>1, <3>2
      <4>2. more[i] = failedRead[i]
        BY <1>1, <1>2, <4>1, ConcatSeq
      <4> QED BY <1>1, <3>1, <4>1, <4>2
    <3>3. CASE i > Len(failedRead)
      <4>1. i - Len(failedRead) \in 1 .. Len(failedWrites) /\ i = Len(failedRead) + (i - Len(failedRead))
        BY <3>1, <3>3
      <4>2. more[i] = failedWrites[i - Len(failedRead)]
        BY <1>1, <1>2, <4>1, ConcatSeq
      <4> QED BY <1>2, <3>1, <4>1, <4>2
    <3> QED BY <3>1, <3>2, <3>3
  <2>3. (c.ready \o failedRead) \o failedWrites = c.ready \o more
    <3> DEFINE q == c.ready
    <3>1. IsSeq(q)
      BY DEF IsEnd
    <3> HIDE DEF q
    <3>2. (q \o failedRead) \o failedWrites = q \o (failedRead \o failedWrites)
      BY <1>1, <1>2, <3>1, ConcatThree
    <3> QED BY <3>2 DEF q, more
  <2> QED BY <2>1, <2>2, <2>3
<1>6. c.read = "none" /\ c.writes = <<>> => more = <<>>
  BY <1>3
<1>6a. ASSUME NEW those, \A i, j \in At(c.writes, those) : i = j, At(c.writes, those) = {} \/ c.read \notin those
       PROVE  \A i, j \in At(more, those) : i = j
  <2>1. CASE At(c.writes, those) = {}
    <3>1. At(more, those) = At(failedRead, those)
      BY <1>1, <1>2, <1>3b, <2>1, ConcatAt
    <3> QED BY <1>3a, <3>1
  <2>2. CASE c.read \notin those
    <3>1. At(failedRead, those) = {} /\ \A i, j \in At(failedWrites, those) : i = j
      BY <1>3a, <1>3b, <1>6a, <2>2
    <3> QED BY <1>1, <1>2, <3>1, ConcatAt
  <2> QED BY <1>6a, <2>1, <2>2
<1> HIDE DEF more
<1>7. IsSeq(c.ready \o more)
  BY <1>5, ConcatSeq DEF IsEnd
<1>8. d = [socket |-> socket, running |-> c.running, ready |-> c.ready \o more, read |-> "none",
           writes |-> <<>>, out |-> c.out, temp |-> c.temp]
  BY <1>4, <1>5 DEF IsEnd
<1>9. /\ d.socket = socket /\ d.read = "none" /\ d.writes = <<>> /\ d.out = c.out /\ d.temp = c.temp
      /\ d.ready = c.ready \o more /\ d.running = c.running
  BY <1>8
<1>10. IsEnd(d)
  BY <1>7, <1>8, <1>9, NoneSeq DEF IsEnd
<1> QED BY <1>5, <1>6, <1>6a, <1>9, <1>10 DEF socket, ops
------------------------------------------------------------------------------
(* Steps of a writer. *)

LEMMA FrontIs ==
  ASSUME NEW c, IsSeq(c.out), NEW s, IsSeq(s), NEW k, Front(c, s, k)
  PROVE  /\ k \in 1 .. Len(s) + 1 /\ Len(s) \in Nat /\ Len(c.out) \in Nat
         /\ k + Len(c.out) \in 1 .. Len(s) + 1
         /\ c.out # <<>> => k \in 1 .. Len(s) /\ k + 1 \in 1 .. Len(s) + 1 /\ Head(c.out) = s[k]
<1>1. k \in 1 .. Len(s) + 1 /\ Len(s) \in Nat /\ Len(c.out) \in Nat
  BY AppendSeq DEF Front
<1>2. CASE c.out = <<>>
  BY <1>1, <1>2, NoneSeq
<1>3. CASE c.out # <<>>
  <2>1. Len(c.out) \in Nat \ {0} /\ Head(c.out) = c.out[1]
    BY <1>3, TailSeq
  <2>2. 1 \in 1 .. Len(c.out) /\ Len(c.out) \in 1 .. Len(c.out)
    BY <2>1
  <2>3. /\ k + 1 - 1 <= Len(s) /\ c.out[1] = s[k + 1 - 1]
        /\ k + Len(c.out) - 1 <= Len(s)
    BY <2>2 DEF Front
  <2>4. k + 1 - 1 = k
    BY <1>1
  <2> QED BY <1>1, <2>1, <2>3, <2>4
<1> QED BY <1>1, <1>2, <1>3

\* An operation that is none of send() and its writes.
LEMMA WriterSame ==
  ASSUME NEW c, IsSeq(c.out), NEW d, NEW s, IsSeq(s), d.out = c.out,
         d.socket = "closed" <=> c.socket = "closed",
         Held(d.writes, MessageWrites) = Held(c.writes, MessageWrites),
         Held(d.ready, MessageWrites) = Held(c.ready, MessageWrites),
         \A n \in 1 .. Len(s) + 1 : Pending(c.ready, n, s) => Pending(d.ready, n, s)
  PROVE  GoesOn(c, d, s, s)
<1>1. Broken(d) = Broken(c)
  BY DEF Broken
<1>2. ASSUME NEW k, Front(c, s, k) PROVE Front(d, s, k)
  <2>1. k + Len(c.out) \in 1 .. Len(s) + 1
    BY <1>2, FrontIs
  <2> QED BY <1>2, <2>1 DEF Front
<1>3. ASSUME NEW b, WriterAt(c, s, b) PROVE WriterAt(d, s, b)
  BY <1>2, <1>3 DEF WriterAt
<1> QED BY <1>1, <1>3 DEF GoesOn

LEMMA WriterPosts ==
  ASSUME NEW c, IsEnd(c), NEW d, NEW h, h.op \notin MessageWrites, h.op # "send",
         d.out = c.out, d.socket = c.socket, d.ready = Pushed(c.ready, h),
         Held(d.writes, MessageWrites) = Held(c.writes, MessageWrites),
         NEW s, IsSeq(s)
  PROVE  GoesOn(c, d, s, s)
<1>1. IsSeq(c.ready) /\ IsSeq(c.out)
  BY DEF IsEnd
<1>2. Held(d.ready, MessageWrites) = Held(c.ready, MessageWrites)
  BY <1>1, HeldPushed
<1>3. \A n \in 1 .. Len(s) + 1 : Pending(c.ready, n, s) => Pending(d.ready, n, s)
  BY <1>1, PendingPushed
<1> QED BY <1>1, <1>2, <1>3, WriterSame

LEMMA WriterHandles ==
  ASSUME NEW c, IsEnd(c), c.ready # <<>>, Head(c.ready).op \notin MessageWrites, Head(c.ready).op # "send",
         NEW d, d.out = c.out, d.socket = c.socket, d.ready = Popped(c.ready),
         Held(d.writes, MessageWrites) = Held(c.writes, MessageWrites),
         NEW s, IsSeq(s)
  PROVE  GoesOn(c, d, s, s)
<1>1. IsSeq(c.ready) /\ IsSeq(c.out)
  BY DEF IsEnd
<1>2. Held(d.ready, MessageWrites) = Held(c.ready, MessageWrites)
  BY <1>1, HeldPopped
<1>3. \A n \in 1 .. Len(s) + 1 : Pending(c.ready, n, s) => Pending(d.ready, n, s)
  BY <1>1, PendingPopped
<1> QED BY <1>1, <1>2, <1>3, WriterSame

LEMMA GoesOnTwice ==
  ASSUME NEW c, NEW d, NEW f, NEW s, GoesOn(c, d, s, s), GoesOn(d, f, s, s)
  PROVE  GoesOn(c, f, s, s)
BY DEF GoesOn

\* send() of one more message.
LEMMA WriterSends ==
  ASSUME NEW c, EndInv(c), NEW m, NEW h, h.op = "send", h.message = m,
         NEW s, IsSeq(s), NEW t, t = Pushed(s, m), NEW d, d = Post(c, h)
  PROVE  GoesOn(c, d, s, t)
<1>1. IsEnd(c) /\ IsSeq(c.ready) /\ IsSeq(c.out)
  BY DEF EndInv, IsEnd
<1>2. d.socket = c.socket /\ d.writes = c.writes /\ d.out = c.out /\ d.ready = Pushed(c.ready, h)
  BY <1>1, PostIs
<1>3. Held(d.ready, MessageWrites) = Held(c.ready, MessageWrites)
  <2>1. "send" \notin MessageWrites
    BY DEF MessageWrites
  <2> QED BY <1>1, <1>2, <2>1, HeldPushed
<1>4. Len(s) \in Nat /\ Len(t) = Len(s) + 1 /\ \A i \in 1 .. Len(s) : t[i] = s[i]
  BY PushedIs
<1>5. \A n \in 1 .. Len(s) + 1 : Pending(c.ready, n, s) => Pending(d.ready, n, t)
  BY <1>1, <1>2, PendingPushed
<1>7. ASSUME NEW q \in Places(s), NEW unit, IsUnit(unit, q, s)
      PROVE  IsUnit(unit, q, t)
  BY <1>7, MoreMessages
<1>8. ASSUME NEW k, NEW part, k \in 1 .. Len(s)
      PROVE  After(Place(k, part), t) = After(Place(k, part), s)
  BY <1>4, <1>8 DEF After, Place
<1>9. ASSUME NEW b \in Places(s), WriterAt(c, s, b) PROVE WriterAt(d, t, b)
  <2>1. PICK k \in Nat :
          /\ Front(c, s, k)
          /\ \A w \in Held(c.writes, MessageWrites) : b = Place(k, Part(w.op)) /\ IsUnit(w.unit, b, s)
          /\ \A g \in Held(c.ready, MessageWrites) : b = After(Place(k, Part(g.op)), s)
          /\ Held(c.writes, MessageWrites) = {} /\ Held(c.ready, MessageWrites) = {} =>
               c.out = <<>> /\ b = Place(k, "header")
    BY <1>9 DEF WriterAt
  <2>2. /\ k \in 1 .. Len(s) + 1 /\ k + Len(c.out) \in 1 .. Len(s) + 1 /\ Len(c.out) \in Nat
        /\ c.out # <<>> => k \in 1 .. Len(s)
    BY <1>1, <2>1, FrontIs
  <2>3. Front(d, t, k)
    <3>1. ASSUME NEW i \in 1 .. Len(c.out) PROVE k + i - 1 <= Len(t) /\ c.out[i] = t[k + i - 1]
      <4>1. k + i - 1 <= Len(s) /\ c.out[i] = s[k + i - 1]
        BY <2>1 DEF Front
      <4>2. k + i - 1 \in 1 .. Len(s)
        BY <1>4, <2>2, <4>1
      <4> QED BY <1>4, <4>1, <4>2
    <3>2. Pending(d.ready, k + Len(c.out), t)
      BY <1>5, <2>1, <2>2 DEF Front
    <3> QED BY <1>2, <1>4, <2>2, <3>1, <3>2 DEF Front
  <2>4. ASSUME NEW g \in Held(c.ready, MessageWrites) PROVE b = After(Place(k, Part(g.op)), t)
    <3>1. Finished(c) # {}
      BY <2>4 DEF Held, Finished, At
    <3>2. c.out # <<>>
      BY <3>1 DEF EndInv, WriteInv
    <3> QED BY <1>8, <2>1, <2>2, <3>2
  <2>5. \A w \in Held(c.writes, MessageWrites) : b = Place(k, Part(w.op)) /\ IsUnit(w.unit, b, t)
    BY <1>7, <2>1
  <2> QED BY <1>2, <1>3, <2>1, <2>3, <2>4, <2>5 DEF WriterAt
<1>10. Broken(d) = Broken(c)
  BY <1>2, <1>3 DEF Broken
<1> QED BY <1>9, <1>10 DEF GoesOn

\* A write of a part of the k-th message, which is the front one.
LEMMA WriterStarts ==
  ASSUME NEW c, IsEnd(c), Free(c), NEW s, IsSeq(s), NEW k, Front(c, s, k),
         NEW op, op \in MessageWrites, NEW unit, IsUnit(unit, Place(k, Part(op)), s),
         NEW d, d = StartWrite(c, op, unit), ~ Broken(d)
  PROVE  WriterAt(d, s, Place(k, Part(op)))
<1> DEFINE b == Place(k, Part(op))
<1>1. op \in Writes
  BY DEF MessageWrites, Writes
<1>2. Held(c.writes, MessageWrites) = {} /\ Held(c.ready, MessageWrites) = {}
  BY DEF Free, Outstanding, Finished, Held, At
<1>3. IsSeq(c.ready) /\ IsSeq(c.writes)
  BY DEF IsEnd
<1>4. c.socket = "open"
  <2> SUFFICES ASSUME c.socket # "open" PROVE FALSE
    OBVIOUS
  <2>1. PICK h : h.op = op /\ ~ h.ok /\ d.ready = Pushed(c.ready, h)
    BY <1>1, StartWriteShut
  <2>2. h \in Held(d.ready, MessageWrites)
    BY <1>3, <2>1, HeldPushed
  <2> QED BY <2>1, <2>2 DEF Broken
<1>5. /\ d.socket = c.socket /\ d.out = c.out /\ d.ready = c.ready
      /\ \E w : w.op = op /\ w.unit = unit /\ d.writes = Pushed(c.writes, w)
  BY <1>1, <1>4, StartWriteOpen
<1>6. PICK w : w.op = op /\ w.unit = unit /\ d.writes = Pushed(c.writes, w)
  BY <1>5
<1>7. Held(d.writes, MessageWrites) = {w} /\ Held(d.ready, MessageWrites) = {}
  <2>1. Held(d.writes, MessageWrites) = {} \cup {w}
    BY <1>2, <1>3, <1>6, HeldPushed
  <2> QED BY <1>2, <1>5, <2>1
<1>8. Front(d, s, k)
  BY <1>5 DEF Front
<1>9. k \in Nat
  BY AppendSeq DEF Front
<1>10. \A x \in Held(d.writes, MessageWrites) : b = Place(k, Part(x.op)) /\ IsUnit(x.unit, b, s)
  BY <1>6, <1>7
<1> HIDE DEF b
<1>11. WriterAt(d, s, b)
  BY <1>7, <1>8, <1>9, <1>10 DEF WriterAt
<1> QED BY <1>11 DEF b

LEMMA WriterStartsHeader ==
  ASSUME NEW c, IsEnd(c), Free(c), c.out # <<>>, NEW s, IsSeq(s), NEW k, Front(c, s, k),
         ~ Broken(WriteHeader(c))
  PROVE  WriterAt(WriteHeader(c), s, Place(k, "header"))
<1> DEFINE unit == [kind |-> "header", id |-> Head(c.out).id, size |-> Len(Head(c.out).body)]
<1>1. WriteHeader(c) = StartWrite(c, "writeHeader", unit)
  BY DEF WriteHeader
<1>2. k \in 1 .. Len(s) /\ Head(c.out) = s[k] /\ Len(s) \in Nat
  BY FrontIs DEF IsEnd
<1>3. IsUnit(unit, Place(k, "header"), s)
  BY <1>2 DEF IsUnit, Place
<1>4. "writeHeader" \in MessageWrites /\ Part("writeHeader") = "header"
  BY DEF MessageWrites, Part
<1> HIDE DEF unit
<1> QED BY <1>1, <1>3, <1>4, WriterStarts

LEMMA WriterStartsBody ==
  ASSUME NEW c, IsEnd(c), Free(c), c.out # <<>>, Head(c.out).body # <<>>, NEW s, IsSeq(s),
         NEW k, Front(c, s, k), ~ Broken(WriteBody(c))
  PROVE  WriterAt(WriteBody(c), s, Place(k, "body"))
<1> DEFINE unit == [kind |-> "body", data |-> Head(c.out).body]
<1>1. WriteBody(c) = StartWrite(c, "writeBody", unit)
  BY DEF WriteBody
<1>2. k \in 1 .. Len(s) /\ Head(c.out) = s[k] /\ Len(s) \in Nat
  BY FrontIs DEF IsEnd
<1>3. IsUnit(unit, Place(k, "body"), s)
  BY <1>2 DEF IsUnit, Place
<1>4. "writeBody" \in MessageWrites /\ Part("writeBody") = "body"
  BY DEF MessageWrites, Part
<1> HIDE DEF unit
<1> QED BY <1>1, <1>3, <1>4, WriterStarts
\* The front one is written, and the next, if there is one, follows.
LEMMA WriterPops ==
  ASSUME NEW c, IsEnd(c), Free(c), c.out # <<>>, NEW s, IsSeq(s), NEW k, Front(c, s, k),
         NEW d, d = PopAndGoOn(c), ~ Broken(d)
  PROVE  WriterAt(d, s, Place(k + 1, "header"))
<1> DEFINE p == [c EXCEPT !.out = Tail(c.out)]
<1>1. d = IF p.out = <<>> THEN p ELSE WriteHeader(p)
  BY DEF PopAndGoOn
<1>2. p = [c EXCEPT !.out = Tail(c.out)]
  OBVIOUS
<1> HIDE DEF p
<1>3. /\ IsSeq(c.out) /\ IsSeq(Tail(c.out)) /\ Len(Tail(c.out)) = Len(c.out) - 1
      /\ \A i \in 1 .. Len(c.out) - 1 : Tail(c.out)[i] = c.out[i + 1]
  BY TailSeq DEF IsEnd, IsSeq
<1>4. /\ IsEnd(p)
      /\ p.socket = c.socket /\ p.ready = c.ready /\ p.writes = c.writes /\ p.out = Tail(c.out)
  <2>1. p = [socket |-> c.socket, running |-> c.running, ready |-> c.ready, read |-> c.read,
              writes |-> c.writes, out |-> Tail(c.out), temp |-> c.temp]
    BY <1>2 DEF IsEnd
  <2> QED BY <2>1, <1>2, <1>3 DEF IsEnd
<1>5. Free(p)
  BY <1>4 DEF Free, Outstanding, Finished
<1>6. k \in 1 .. Len(s) /\ k + 1 \in 1 .. Len(s) + 1 /\ Len(c.out) \in Nat \ {0} /\ Len(s) \in Nat
  BY <1>3, FrontIs, TailSeq
<1>7. Front(p, s, k + 1)
  <2>1. ASSUME NEW i \in 1 .. Len(c.out) - 1
        PROVE  (k + 1) + i - 1 <= Len(s) /\ Tail(c.out)[i] = s[(k + 1) + i - 1]
    <3>1. i + 1 \in 1 .. Len(c.out) /\ k + (i + 1) - 1 = (k + 1) + i - 1
      BY <1>6
    <3>2. k + (i + 1) - 1 <= Len(s) /\ c.out[i + 1] = s[k + (i + 1) - 1]
      BY <3>1 DEF Front
    <3> QED BY <1>3, <3>1, <3>2
  <2>2. Pending(c.ready, k + Len(c.out), s)
    BY DEF Front
  <2>3. k + Len(c.out) = (k + 1) + (Len(c.out) - 1)
    BY <1>6
  <2>4. Pending(p.ready, (k + 1) + Len(p.out), s)
    BY <1>3, <1>4, <2>2, <2>3
  <2> QED BY <1>3, <1>4, <1>6, <2>1, <2>4 DEF Front
<1>8. CASE p.out = <<>>
  <2>1. d = p
    BY <1>1, <1>8
  <2>2. Held(d.writes, MessageWrites) = {} /\ Held(d.ready, MessageWrites) = {}
    BY <1>5, <2>1 DEF Free, Outstanding, Finished, Held, At
  <2>3. k + 1 \in Nat
    BY <1>6
  <2> QED BY <1>7, <1>8, <2>1, <2>2, <2>3 DEF WriterAt
<1>9. CASE p.out # <<>>
  <2>1. d = WriteHeader(p)
    BY <1>1, <1>9
  <2> QED BY <1>4, <1>5, <1>7, <1>9, <2>1, WriterStartsHeader
<1> QED BY <1>8, <1>9

\* The handler of a message's write goes on with its body or with the next one.
LEMMA WriterWrites ==
  ASSUME NEW c, EndInv(c), c.ready # <<>>, NEW op, op = Head(c.ready).op, op \in MessageWrites,
         Head(c.ready).ok,
         NEW p, p = [c EXCEPT !.ready = Tail(c.ready)],
         NEW d, d = (IF op = "writeHeader" /\ Head(p.out).body # <<>> THEN WriteBody(p) ELSE PopAndGoOn(p)),
         d.socket = c.socket, NEW s, IsSeq(s)
  PROVE  GoesOn(c, d, s, s)
<1>1. IsEnd(c) /\ IsSeq(c.ready) /\ IsSeq(c.out) /\ \A i, j \in At(c.ready, MessageWrites) : i = j
  BY DEF EndInv, IsEnd, WriteInv, OneAtMost, Finished, At
<1>2. IsEnd(p) /\ Free(p) /\ p.out = c.out /\ p.out # <<>> /\ p.socket = c.socket
  BY HandledWrite
<1>3. p.ready = Popped(c.ready)
  BY <1>1, HandledIs
<1>4. Held(c.ready, MessageWrites) = {Head(c.ready)} /\ Head(c.ready).op # "send"
  <2>1. "send" \notin MessageWrites
    BY DEF MessageWrites
  <2> QED BY <1>1, <2>1, HeldPoppedOnce
<1>5. ASSUME ~ Broken(d) PROVE ~ Broken(c)
  BY <1>4, <1>5 DEF Broken
<1>6. ASSUME ~ Broken(d), NEW b, WriterAt(c, s, b) PROVE WriterAt(d, s, b)
  <2>1. PICK k \in Nat : Front(c, s, k) /\ \A h \in Held(c.ready, MessageWrites) : b = After(Place(k, Part(h.op)), s)
    BY <1>6 DEF WriterAt
  <2>2. b = After(Place(k, Part(op)), s)
    BY <1>4, <2>1
  <2>3. k \in 1 .. Len(s) /\ Head(c.out) = s[k] /\ k + Len(c.out) \in 1 .. Len(s) + 1
    BY <1>1, <1>2, <2>1, FrontIs
  <2>4. Front(p, s, k)
    <3>1. Pending(c.ready, k + Len(c.out), s)
      BY <2>1 DEF Front
    <3> DEFINE r == c.ready
               n == k + Len(c.out)
    <3>2. IsSeq(r) /\ r # <<>> /\ Head(r).op # "send" /\ Pending(r, n, s) /\ n \in 1 .. Len(s) + 1
      BY <1>1, <1>4, <2>3, <3>1
    <3> HIDE DEF r, n
    <3>3. Pending(Popped(r), n, s)
      BY <3>2, PendingPopped
    <3>4. Pending(p.ready, k + Len(p.out), s)
      BY <1>2, <1>3, <3>3 DEF r, n
    <3> QED BY <1>2, <2>1, <3>4 DEF Front
  <2>5. CASE op = "writeHeader" /\ Head(p.out).body # <<>>
    <3>1. d = WriteBody(p)
      BY <2>5
    <3>2. b = Place(k, "body")
      BY <1>2, <2>2, <2>3, <2>5 DEF After, Part, Place
    <3> QED BY <1>2, <1>6, <2>4, <2>5, <3>1, <3>2, WriterStartsBody
  <2>6. CASE ~ (op = "writeHeader" /\ Head(p.out).body # <<>>)
    <3>1. d = PopAndGoOn(p)
      BY <2>6
    <3>2. b = Place(k + 1, "header")
      BY <1>2, <2>2, <2>3, <2>6 DEF After, Part, Place, MessageWrites
    <3> QED BY <1>2, <1>6, <2>4, <3>1, <3>2, WriterPops
  <2> QED BY <2>5, <2>6
<1> QED BY <1>5, <1>6 DEF GoesOn

\* What send() posted joins the queue.
LEMMA WriterQueues ==
  ASSUME NEW c, EndInv(c), c.ready # <<>>, Head(c.ready).op = "send",
         NEW q, IsEnd(q), q.ready = Popped(c.ready), q.writes = c.writes, q.socket = c.socket,
         q.out = Pushed(c.out, Head(c.ready).message),
         NEW d, d = (IF c.out = <<>> THEN WriteHeader(q) ELSE q),
         d.socket = c.socket, NEW s, IsSeq(s)
  PROVE  GoesOn(c, d, s, s)
<1>0. "send" \notin MessageWrites
  BY DEF MessageWrites
<1>1. IsEnd(c) /\ IsSeq(c.ready) /\ IsSeq(c.out)
  BY DEF EndInv, IsEnd
<1> DEFINE m == Head(c.ready).message
<1>2. q.ready = Popped(c.ready) /\ q.writes = c.writes /\ q.socket = c.socket /\ q.out = Pushed(c.out, m)
  OBVIOUS
<1> HIDE DEF m
<1>5. /\ Len(c.out) \in Nat /\ Len(q.out) = Len(c.out) + 1 /\ q.out # <<>>
      /\ q.out[Len(c.out) + 1] = m /\ \A i \in 1 .. Len(c.out) : q.out[i] = c.out[i]
  <2> QED BY <1>1, <1>2, PushedIs
<1>6. Held(q.ready, MessageWrites) = Held(c.ready, MessageWrites)
  BY <1>0, <1>1, <1>2, HeldPopped
<1>7. ASSUME NEW k, Front(c, s, k) PROVE Front(q, s, k)
  <2>1. /\ k \in 1 .. Len(s) + 1 /\ k + Len(c.out) \in 1 .. Len(s) + 1 /\ Len(s) \in Nat
        /\ Pending(c.ready, k + Len(c.out), s)
    BY <1>1, <1>7, FrontIs DEF Front
  <2> DEFINE r == c.ready
             n == k + Len(c.out)
  <2>2. IsSeq(r) /\ r # <<>> /\ Head(r).op = "send" /\ Pending(r, n, s) /\ n \in 1 .. Len(s) + 1
    BY <1>1, <2>1
  <2> HIDE DEF r, n
  <2>3. n <= Len(s) /\ Head(r).message = s[n] /\ Pending(Popped(r), n + 1, s)
    BY <2>2, PendingPopped
  <2>4. n <= Len(s) /\ m = s[n] /\ Pending(q.ready, k + Len(q.out), s)
    <3>1. k + Len(q.out) = n + 1
      <4> DEFINE L == Len(c.out)
                 M == Len(q.out)
      <4>1. L \in Nat /\ M = L + 1 /\ k \in Nat /\ n = k + L
        BY <1>5, <2>1 DEF n
      <4> HIDE DEF L, M
      <4>2. k + M = n + 1
        BY <4>1
      <4> QED BY <4>2 DEF M
    <3> QED BY <1>2, <2>3, <3>1 DEF r, m
  <2>5. ASSUME NEW i \in 1 .. Len(q.out) PROVE k + i - 1 <= Len(s) /\ q.out[i] = s[k + i - 1]
    <3>1. CASE i <= Len(c.out)
      <4>1. i \in 1 .. Len(c.out)
        BY <1>5, <3>1
      <4> QED BY <1>5, <1>7, <4>1 DEF Front
    <3>2. CASE i > Len(c.out)
      <4> DEFINE L == Len(c.out)
      <4>0. L \in Nat /\ i \in 1 .. L + 1 /\ i > L /\ k \in Nat /\ n = k + L
        BY <1>5, <2>1, <3>2 DEF n
      <4> HIDE DEF L
      <4>1. i = L + 1 /\ k + i - 1 = n
        BY <4>0
      <4> USE DEF L
      <4> QED BY <1>5, <2>4, <4>1
    <3> QED BY <1>5, <3>1, <3>2
  <2> QED BY <2>1, <2>4, <2>5 DEF Front
<1>8. CASE c.out = <<>>
  <2>1. Free(c)
    BY <1>8 DEF EndInv, WriteInv, IsOfFront, Free
  <2>2. Held(c.writes, MessageWrites) = {} /\ Held(c.ready, MessageWrites) = {}
    BY <2>1 DEF Free, Outstanding, Finished, Held, At
  <2>3. Free(q)
    <3>1. At(q.ready, MessageWrites) = {} /\ At(q.writes, MessageWrites) = {}
      BY <1>2, <1>6, <2>2, HeldEmpty
    <3> QED BY <3>1 DEF Free, Outstanding, Finished, At
  <2>4. d = WriteHeader(q)
    BY <1>8
  <2>5. ASSUME ~ Broken(d) PROVE ~ Broken(c)
    BY <2>2, <2>5 DEF Broken
  <2>6. ASSUME ~ Broken(d), NEW b, WriterAt(c, s, b) PROVE WriterAt(d, s, b)
    <3>1. PICK k \in Nat : Front(c, s, k) /\ b = Place(k, "header")
      BY <2>2, <2>6 DEF WriterAt
    <3>2. Front(q, s, k)
      BY <1>7, <3>1
    <3>3. IsEnd(q) /\ q.out # <<>> /\ ~ Broken(WriteHeader(q))
      BY <1>2, <1>5, <2>4, <2>6
    <3>4. WriterAt(WriteHeader(q), s, Place(k, "header"))
      BY <2>3, <3>2, <3>3, WriterStartsHeader
    <3> QED BY <2>4, <3>1, <3>4
  <2> QED BY <2>5, <2>6 DEF GoesOn
<1>9. CASE c.out # <<>>
  <2>1. d = q
    BY <1>9
  <2>2. Broken(d) = Broken(c)
    BY <1>2, <1>6, <2>1 DEF Broken
  <2>4. ASSUME ~ Broken(c), NEW b, WriterAt(c, s, b) PROVE WriterAt(d, s, b)
    <3>1. ~ (Held(c.writes, MessageWrites) = {} /\ Held(c.ready, MessageWrites) = {})
      BY <1>9, <2>4 DEF WriterAt
    <3>2. q.writes = c.writes
      BY <1>2
    <3> QED BY <1>6, <1>7, <2>1, <2>4, <3>1, <3>2 DEF WriterAt
  <2> QED BY <2>2, <2>4 DEF GoesOn
<1> QED BY <1>8, <1>9
------------------------------------------------------------------------------
(* What the kernel finishes. *)

LEMMA FinishedWriteIs ==
  ASSUME NEW c, IsEnd(c), c.writes # <<>>, NEW h, NEW d, d = Post([c EXCEPT !.writes = Tail(c.writes)], h)
  PROVE  /\ d.socket = c.socket /\ d.read = c.read /\ d.out = c.out /\ d.temp = c.temp
         /\ d.ready = Pushed(c.ready, h) /\ d.writes = Popped(c.writes) /\ IsEnd(d)
<1> DEFINE p == [c EXCEPT !.writes = Tail(c.writes)]
<1>1. /\ IsSeq(Tail(c.writes))
      /\ \A i \in DOMAIN Tail(c.writes) : Tail(c.writes)[i].op \in Writes
  <2>1. IsSeq(c.writes) /\ \A i \in 1 .. Len(c.writes) : c.writes[i].op \in Writes
    BY AppendSeq DEF IsEnd
  <2> QED BY <2>1, TailSeq
<1>2. p = [socket |-> c.socket, running |-> c.running, ready |-> c.ready, read |-> c.read,
           writes |-> Tail(c.writes), out |-> c.out, temp |-> c.temp]
  BY DEF IsEnd
<1> HIDE DEF p
<1>3. /\ p.socket = c.socket /\ p.read = c.read /\ p.out = c.out /\ p.temp = c.temp
      /\ p.ready = c.ready /\ p.writes = Tail(c.writes) /\ p.running = c.running
  BY <1>2
<1>4. IsEnd(p)
  BY <1>1, <1>2, <1>3 DEF IsEnd
<1>5. d = Post(p, h)
  BY DEF p
<1>6. /\ d.socket = p.socket /\ d.read = p.read /\ d.out = p.out /\ d.temp = p.temp /\ d.writes = p.writes
      /\ d.ready = Pushed(p.ready, h) /\ IsEnd(d)
  BY <1>4, <1>5, PostIs
<1>7. d.writes = Popped(c.writes)
  BY <1>3, <1>6, Zenon DEF Popped
<1> QED BY <1>3, <1>6, <1>7

LEMMA FinishedReadIs ==
  ASSUME NEW c, IsEnd(c), NEW h, NEW d, d = Post([c EXCEPT !.read = "none"], h)
  PROVE  /\ d.socket = c.socket /\ d.read = "none" /\ d.out = c.out /\ d.temp = c.temp
         /\ d.ready = Pushed(c.ready, h) /\ d.writes = c.writes /\ IsEnd(d)
<1> DEFINE p == [c EXCEPT !.read = "none"]
<1>2. p = [socket |-> c.socket, running |-> c.running, ready |-> c.ready, read |-> "none",
           writes |-> c.writes, out |-> c.out, temp |-> c.temp]
  BY DEF IsEnd
<1> HIDE DEF p
<1>3. /\ p.socket = c.socket /\ p.read = "none" /\ p.out = c.out /\ p.temp = c.temp
      /\ p.ready = c.ready /\ p.writes = c.writes /\ p.running = c.running
  BY <1>2
<1>4. IsEnd(p)
  BY <1>2, <1>3 DEF IsEnd
<1>5. d = Post(p, h)
  BY DEF p
<1>6. /\ d.socket = p.socket /\ d.read = p.read /\ d.out = p.out /\ d.temp = p.temp /\ d.writes = p.writes
      /\ d.ready = Pushed(p.ready, h) /\ IsEnd(d)
  BY <1>4, <1>5, PostIs
<1> QED BY <1>3, <1>6

LEMMA CloseClosed ==
  ASSUME NEW c, IsEnd(c), c.socket \in {"open", "closed"}, NEW d, d = Close(c)
  PROVE  d.socket = "closed" /\ Broken(d)
BY CloseIs DEF Broken

\* A unit of the k-th message goes out.
LEMMA WriterTransmits ==
  ASSUME NEW c, EndInv(c), c.writes # <<>>, Head(c.writes).op \in MessageWrites,
         NEW h, h.op = Head(c.writes).op,
         NEW d, d = Post([c EXCEPT !.writes = Tail(c.writes)], h),
         NEW s, IsSeq(s), NEW b, WriterAt(c, s, b)
  PROVE  IsUnit(Head(c.writes).unit, b, s) /\ WriterAt(d, s, After(b, s))
<1>1. IsEnd(c) /\ IsSeq(c.ready) /\ IsSeq(c.writes)
  BY DEF EndInv, IsEnd
<1>2. d.out = c.out /\ d.ready = Pushed(c.ready, h) /\ d.writes = Popped(c.writes)
  BY <1>1, FinishedWriteIs
<1>3. /\ \A i, j \in At(c.writes, MessageWrites) : i = j
      /\ At(c.writes, MessageWrites) = {} \/ At(c.ready, MessageWrites) = {}
  BY DEF EndInv, WriteInv, OneAtMost, Outstanding, Finished, At
<1>4. Held(c.writes, MessageWrites) = {Head(c.writes)} /\ Held(d.writes, MessageWrites) = {}
  BY <1>1, <1>2, <1>3, HeldPoppedOnce
<1>5. Held(c.ready, MessageWrites) = {}
  BY <1>3, <1>4, HeldEmpty
<1>6. Held(d.ready, MessageWrites) = {h}
  <2>1. Held(d.ready, MessageWrites) = Held(c.ready, MessageWrites) \cup {h}
    BY <1>1, <1>2, HeldPushed
  <2> QED BY <1>5, <2>1
<1>7. PICK k \in Nat :
        /\ Front(c, s, k)
        /\ \A w \in Held(c.writes, MessageWrites) : b = Place(k, Part(w.op)) /\ IsUnit(w.unit, b, s)
  BY DEF WriterAt
<1>8. IsUnit(Head(c.writes).unit, b, s) /\ b = Place(k, Part(h.op))
  BY <1>4, <1>7
<1>9. Front(d, s, k)
  <2>1. k + Len(c.out) \in 1 .. Len(s) + 1 /\ Pending(c.ready, k + Len(c.out), s)
    BY <1>1, <1>7, FrontIs DEF Front, IsEnd
  <2> DEFINE r == c.ready
             n == k + Len(c.out)
  <2>2. IsSeq(r) /\ Pending(r, n, s) /\ n \in 1 .. Len(s) + 1 /\ h.op # "send"
    BY <1>1, <2>1 DEF MessageWrites
  <2> HIDE DEF r, n
  <2>3. Pending(Pushed(r, h), n, s)
    BY <2>2, PendingPushed
  <2>4. Pending(d.ready, k + Len(d.out), s)
    BY <1>2, <2>3 DEF r, n
  <2> QED BY <1>2, <1>7, <2>4 DEF Front
<1>10. \A x \in Held(d.ready, MessageWrites) : After(b, s) = After(Place(k, Part(x.op)), s)
  BY <1>6, <1>8
<1> QED BY <1>4, <1>6, <1>8, <1>9, <1>10 DEF WriterAt

\* A write is finished; the writer goes on unless it was one of a message that failed.
LEMMA WriterFinishes ==
  ASSUME NEW c, EndInv(c), c.writes # <<>>, NEW h, h.op = Head(c.writes).op, h.op # "send",
         NEW d, d = Post([c EXCEPT !.writes = Tail(c.writes)], h)
  PROVE  /\ Broken(d) <=> Broken(c) \/ (h.op \in MessageWrites /\ ~ h.ok)
         /\ h.op \notin MessageWrites => \A s : IsSeq(s) => GoesOn(c, d, s, s)
<1>1. IsEnd(c) /\ IsSeq(c.ready) /\ IsSeq(c.writes)
  BY DEF EndInv, IsEnd
<1>2. d.socket = c.socket /\ d.out = c.out /\ d.ready = Pushed(c.ready, h) /\ d.writes = Popped(c.writes)
  BY <1>1, FinishedWriteIs
<1>3. /\ h.op \notin MessageWrites => Held(d.ready, MessageWrites) = Held(c.ready, MessageWrites)
                                      /\ Held(d.writes, MessageWrites) = Held(c.writes, MessageWrites)
      /\ h.op \in MessageWrites => Held(d.ready, MessageWrites) = Held(c.ready, MessageWrites) \cup {h}
  BY <1>1, <1>2, HeldPushed, HeldPopped
<1>4. Broken(d) <=> Broken(c) \/ (h.op \in MessageWrites /\ ~ h.ok)
  BY <1>2, <1>3 DEF Broken
<1>5. ASSUME h.op \notin MessageWrites, NEW s, IsSeq(s) PROVE GoesOn(c, d, s, s)
  BY <1>1, <1>2, <1>3, <1>5, WriterPosts
<1> QED BY <1>4, <1>5

LEMMA WriterReads ==
  ASSUME NEW c, IsEnd(c), NEW op, op \in Reads, NEW d, d = StartRead(c, op), NEW s, IsSeq(s)
  PROVE  GoesOn(c, d, s, s)
<1>1. d.socket = c.socket /\ d.writes = c.writes /\ d.out = c.out
  BY StartReadIs
<1>2. IsSeq(c.out)
  BY DEF IsEnd
<1>3. CASE c.socket = "open"
  <2>1. d.ready = c.ready
    BY <1>3, StartReadOpen
  <2> QED BY <1>1, <1>2, <2>1, WriterSame
<1>4. CASE c.socket # "open"
  <2>1. PICK h : h.op = op /\ ~ h.ok /\ d.ready = Pushed(c.ready, h)
    BY <1>4, StartReadShut
  <2>2. h.op \notin MessageWrites /\ h.op # "send"
    BY <2>1 DEF Reads, MessageWrites
  <2> QED BY <1>1, <2>1, <2>2, WriterPosts
<1> QED BY <1>3, <1>4

LEMMA WriterSaysWord ==
  ASSUME NEW c, IsEnd(c), NEW unit, NEW d, d = StartWrite(c, "writeValidation", unit), NEW s, IsSeq(s)
  PROVE  GoesOn(c, d, s, s)
<1>0. "writeValidation" \in Writes /\ "writeValidation" \notin MessageWrites
  BY DEF Writes, MessageWrites
<1>1. d.socket = c.socket /\ d.out = c.out
  BY <1>0, StartWriteIs
<1>2. IsSeq(c.out) /\ IsSeq(c.writes)
  BY DEF IsEnd
<1>3. CASE c.socket = "open"
  <2>1. d.ready = c.ready /\ \E w : w.op = "writeValidation" /\ w.unit = unit /\ d.writes = Pushed(c.writes, w)
    BY <1>0, <1>3, StartWriteOpen
  <2>2. PICK w : w.op = "writeValidation" /\ d.writes = Pushed(c.writes, w)
    BY <2>1
  <2>3. Held(d.writes, MessageWrites) = Held(c.writes, MessageWrites)
    BY <1>0, <1>2, <2>2, HeldPushed
  <2> QED BY <1>1, <1>2, <2>1, <2>3, WriterSame
<1>4. CASE c.socket # "open"
  <2>1. d.writes = c.writes /\ \E h : h.op = "writeValidation" /\ ~ h.ok /\ d.ready = Pushed(c.ready, h)
    BY <1>0, <1>4, StartWriteShut
  <2>2. PICK h : h.op = "writeValidation" /\ d.ready = Pushed(c.ready, h)
    BY <2>1
  <2> QED BY <1>0, <1>1, <2>1, <2>2, WriterPosts
<1> QED BY <1>3, <1>4
------------------------------------------------------------------------------
(* How far a reader is. *)

LEMMA TokensAre ==
  ASSUME NEW e, e \in Ends
  PROVE  /\ Reads \subseteq Tokens(e)
         /\ "send" \notin Tokens(e) /\ "close" \notin Tokens(e)
         /\ MessageWrites \cap Tokens(e) = {} /\ "none" \notin Tokens(e)
         /\ "writeValidation" \in Tokens(e) <=> e = "client"
         /\ "connected" \in Tokens(e) <=> e = "client"
         /\ "accept" \in Tokens(e) <=> e = "server"
BY DEF Tokens, Ends, Reads, MessageWrites

LEMMA VacantIs ==
  ASSUME NEW e, NEW c, Vacant(e, c)
  PROVE  TokenInv(e, c) /\ Stage(e, c) = Turn("idle", NoUnit)
<1>1. At(c.ready, Tokens(e)) = {} /\ At(c.writes, Tokens(e)) = {}
  BY HeldEmpty DEF Vacant
<1>2. TokenInv(e, c)
  BY <1>1 DEF TokenInv, Vacant
<1>3. Stage(e, c) = Turn("idle", NoUnit)
  BY DEF Stage, Vacant
<1> QED BY <1>2, <1>3

LEMMA StageIs ==
  ASSUME NEW e, NEW c, TokenInv(e, c)
  PROVE  /\ c.read # "none" => Stage(e, c) = Turn(c.read, NoUnit)
         /\ Held(c.writes, Tokens(e)) # {} => Stage(e, c) = Turn("answering", NoUnit)
         /\ \A h \in Held(c.ready, Tokens(e)) : Stage(e, c) = Ready(h)
<1>1. c.read # "none" => Stage(e, c) = Turn(c.read, NoUnit)
  BY DEF Stage
<1>2. Held(c.writes, Tokens(e)) # {} => Stage(e, c) = Turn("answering", NoUnit)
  BY DEF Stage, TokenInv
<1>3. ASSUME NEW h \in Held(c.ready, Tokens(e)) PROVE Stage(e, c) = Ready(h)
  <2>1. Held(c.ready, Tokens(e)) = {h}
    BY <1>3 DEF Held, TokenInv
  <2>2. (CHOOSE g \in {h} : TRUE) = h
    OBVIOUS
  <2>3. c.read = "none" /\ Held(c.writes, Tokens(e)) = {}
    BY <1>3 DEF TokenInv
  <2>4. Stage(e, c) = Ready(CHOOSE g \in Held(c.ready, Tokens(e)) : TRUE)
    BY <1>3, <2>3 DEF Stage
  <2> HIDE <1>3
  <2> QED BY <2>1, <2>2, <2>4
<1> QED BY <1>1, <1>2, <1>3

LEMMA StageSame ==
  ASSUME NEW e, NEW c, TokenInv(e, c),
         NEW d, d.read = c.read, d.writes = c.writes, d.ready = c.ready
  PROVE  TokenInv(e, d) /\ Stage(e, d) = Stage(e, c) /\ (Vacant(e, c) => Vacant(e, d))
BY DEF TokenInv, Stage, Vacant

LEMMA StagePosts ==
  ASSUME NEW e, NEW c, IsSeq(c.ready), TokenInv(e, c), NEW h, h.op \notin Tokens(e),
         NEW d, d.read = c.read, d.writes = c.writes, d.ready = Pushed(c.ready, h)
  PROVE  TokenInv(e, d) /\ Stage(e, d) = Stage(e, c) /\ (Vacant(e, c) => Vacant(e, d))
<1>1. /\ At(d.ready, Tokens(e)) = At(c.ready, Tokens(e))
      /\ Held(d.ready, Tokens(e)) = Held(c.ready, Tokens(e))
  BY AtPushed, HeldPushed
<1> QED BY <1>1 DEF TokenInv, Stage, Vacant

LEMMA TokenPosts ==
  ASSUME NEW e, NEW c, IsSeq(c.ready), Vacant(e, c), NEW h, h.op \in Tokens(e),
         NEW d, d.read = c.read, d.writes = c.writes, d.ready = Pushed(c.ready, h)
  PROVE  TokenInv(e, d) /\ Stage(e, d) = Ready(h)
<1>1. /\ At(d.ready, Tokens(e)) = At(c.ready, Tokens(e)) \cup {Len(c.ready) + 1}
      /\ Held(d.ready, Tokens(e)) = Held(c.ready, Tokens(e)) \cup {h}
  BY AtPushed, HeldPushed
<1>2. At(c.ready, Tokens(e)) = {} /\ At(c.writes, Tokens(e)) = {} /\ Held(c.ready, Tokens(e)) = {}
  BY HeldEmpty DEF Vacant
<1>3. TokenInv(e, d)
  BY <1>1, <1>2 DEF TokenInv, Vacant
<1>4. h \in Held(d.ready, Tokens(e))
  BY <1>1
<1> QED BY <1>3, <1>4, StageIs

LEMMA StageHandles ==
  ASSUME NEW e, NEW c, IsSeq(c.ready), c.ready # <<>>, TokenInv(e, c),
         NEW d, d.read = c.read, d.writes = c.writes, d.ready = Popped(c.ready)
  PROVE  /\ TokenInv(e, d)
         /\ Head(c.ready).op \notin Tokens(e) =>
              Stage(e, d) = Stage(e, c) /\ (Vacant(e, c) => Vacant(e, d))
         /\ Head(c.ready).op \in Tokens(e) => Stage(e, c) = Ready(Head(c.ready)) /\ Vacant(e, d)
<1>1. \A i, j \in At(c.ready, Tokens(e)) : i = j
  BY DEF TokenInv
<1>2. \A i, j \in At(d.ready, Tokens(e)) : i = j
  BY <1>1, AtPopped
<1>3. Held(d.ready, Tokens(e)) \subseteq Held(c.ready, Tokens(e))
  BY HeldPopped
<1>4. TokenInv(e, d)
  BY <1>2, <1>3 DEF TokenInv
<1>5. ASSUME Head(c.ready).op \notin Tokens(e)
      PROVE  Stage(e, d) = Stage(e, c) /\ (Vacant(e, c) => Vacant(e, d))
  <2>1. Held(d.ready, Tokens(e)) = Held(c.ready, Tokens(e))
    BY <1>5, HeldPopped
  <2> QED BY <2>1 DEF Stage, Vacant
<1>6. ASSUME Head(c.ready).op \in Tokens(e)
      PROVE  Stage(e, c) = Ready(Head(c.ready)) /\ Vacant(e, d)
  <2>1. Held(c.ready, Tokens(e)) = {Head(c.ready)} /\ Held(d.ready, Tokens(e)) = {}
    BY <1>1, <1>6, HeldPoppedOnce
  <2>2. c.read = "none" /\ Held(c.writes, Tokens(e)) = {}
    BY <2>1 DEF TokenInv
  <2>3. Stage(e, c) = Ready(Head(c.ready))
    BY <2>1, StageIs
  <2> QED BY <2>1, <2>2, <2>3 DEF Vacant
<1> QED BY <1>4, <1>5, <1>6

LEMMA StageWrites ==
  ASSUME NEW e, NEW c, IsSeq(c.writes), TokenInv(e, c), NEW w, w.op \notin Tokens(e),
         NEW d, d.read = c.read, d.ready = c.ready, d.writes = Pushed(c.writes, w)
  PROVE  TokenInv(e, d) /\ Stage(e, d) = Stage(e, c) /\ (Vacant(e, c) => Vacant(e, d))
<1>1. /\ At(d.writes, Tokens(e)) = At(c.writes, Tokens(e))
      /\ Held(d.writes, Tokens(e)) = Held(c.writes, Tokens(e))
  BY AtPushed, HeldPushed
<1> QED BY <1>1 DEF TokenInv, Stage, Vacant

LEMMA TokenWrites ==
  ASSUME NEW e, NEW c, IsSeq(c.writes), Vacant(e, c), NEW w, w.op \in Tokens(e),
         NEW d, d.read = c.read, d.ready = c.ready, d.writes = Pushed(c.writes, w)
  PROVE  TokenInv(e, d) /\ Stage(e, d) = Turn("answering", NoUnit)
<1>1. /\ At(d.writes, Tokens(e)) = At(c.writes, Tokens(e)) \cup {Len(c.writes) + 1}
      /\ Held(d.writes, Tokens(e)) = Held(c.writes, Tokens(e)) \cup {w}
  BY AtPushed, HeldPushed
<1>2. At(c.ready, Tokens(e)) = {} /\ At(c.writes, Tokens(e)) = {}
  BY HeldEmpty DEF Vacant
<1>3. TokenInv(e, d)
  BY <1>1, <1>2 DEF TokenInv, Vacant
<1>4. Held(d.writes, Tokens(e)) # {}
  BY <1>1
<1> QED BY <1>3, <1>4, StageIs

LEMMA TokenReads ==
  ASSUME NEW e, NEW c, Vacant(e, c), NEW op, op # "none",
         NEW d, d.read = op, d.ready = c.ready, d.writes = c.writes
  PROVE  TokenInv(e, d) /\ Stage(e, d) = Turn(op, NoUnit)
<1>1. TokenInv(e, d)
  BY HeldEmpty DEF TokenInv, Vacant
<1> QED BY <1>1, StageIs

\* A read that follows a token's handler.
LEMMA StageStartsRead ==
  ASSUME NEW e, e \in Ends, NEW c, IsEnd(c), Vacant(e, c), NEW op, op \in Reads,
         NEW d, d = StartRead(c, op)
  PROVE  /\ TokenInv(e, d)
         /\ c.socket = "open" => Stage(e, d) = Turn(op, NoUnit)
         /\ c.socket # "open" => Stage(e, d) = Turn("failed", NoUnit)
<1>1. IsSeq(c.ready) /\ op \in Tokens(e) /\ op # "none"
  BY TokensAre DEF IsEnd, Reads
<1>2. ASSUME c.socket = "open" PROVE TokenInv(e, d) /\ Stage(e, d) = Turn(op, NoUnit)
  <2>1. d.writes = c.writes /\ d.ready = c.ready /\ d.read = op
    BY <1>2, StartReadOpen
  <2> QED BY <1>1, <2>1, TokenReads
<1>3. ASSUME c.socket # "open" PROVE TokenInv(e, d) /\ Stage(e, d) = Turn("failed", NoUnit)
  <2>1. d.writes = c.writes /\ d.read = c.read /\ \E h : h.op = op /\ ~ h.ok /\ d.ready = Pushed(c.ready, h)
    BY <1>3, StartReadShut
  <2>2. PICK h : h.op = op /\ ~ h.ok /\ d.ready = Pushed(c.ready, h)
    BY <2>1
  <2>3. TokenInv(e, d) /\ Stage(e, d) = Ready(h)
    BY <1>1, <2>1, <2>2, TokenPosts
  <2>4. Ready(h) = Turn("failed", NoUnit)
    BY <2>2 DEF Ready, Reads
  <2> QED BY <2>3, <2>4
<1> QED BY <1>2, <1>3
LEMMA IdleIs ==
  ASSUME NEW e, NEW c, IsEnd(c), TokenInv(e, c), Stage(e, c).at = "idle"
  PROVE  Vacant(e, c)
<1>1. c.read = "none"
  BY DEF Stage, Turn, IsEnd, Reads
<1>2. Held(c.writes, Tokens(e)) = {}
  BY <1>1 DEF Stage, Turn
<1>3. ASSUME NEW h \in Held(c.ready, Tokens(e)) PROVE FALSE
  <2>1. Stage(e, c) = Ready(h)
    BY <1>3, StageIs
  <2> QED BY <2>1 DEF Ready, Turn
<1> QED BY <1>1, <1>2, <1>3 DEF Vacant

\* Closing ends what is under way, and nothing else.
LEMMA StageCloses ==
  ASSUME NEW e, e \in Ends, NEW c, IsEnd(c), TokenInv(e, c), NEW d, d = Close(c)
  PROVE  /\ TokenInv(e, d)
         /\ Vacant(e, c) => Vacant(e, d)
         /\ Stage(e, d) = Stage(e, c) \/ (~ Vacant(e, c) /\ Stage(e, d).at \in {"idle", "failed"})
<1> DEFINE T == Tokens(e)
<1>1. d.read = "none" /\ d.writes = <<>>
  BY CloseIs
<1>2. PICK more :
        /\ IsSeq(more) /\ d.ready = c.ready \o more
        /\ \A i \in DOMAIN more : ~ more[i].ok /\ more[i].op \in {c.read} \cup {c.writes[j].op : j \in DOMAIN c.writes}
        /\ \A those : (\A i, j \in At(c.writes, those) : i = j)
                    /\ (At(c.writes, those) = {} \/ c.read \notin those)
                    => \A i, j \in At(more, those) : i = j
  BY CloseIs
<1>3. "none" \notin T
  BY TokensAre
<1>4. IsSeq(c.ready) /\ IsSeq(more) /\ d.ready = c.ready \o more
  BY <1>2 DEF IsEnd
<1>5. Held(d.ready, T) = Held(c.ready, T) \cup Held(more, T)
  BY <1>4, HeldConcat
<1>6. Held(d.writes, T) = {} /\ At(d.writes, T) = {}
  BY <1>1, NoneSeq DEF Held, At
<1>7. \A i, j \in At(more, T) : i = j
  <2>1. \A i, j \in At(c.writes, T) : i = j
    BY DEF TokenInv
  <2>2. At(c.writes, T) = {} \/ c.read \notin T
    <3>1. CASE At(c.writes, T) = {}
      BY <3>1
    <3>2. CASE At(c.writes, T) # {}
      <4>1. c.read = "none"
        BY <3>2, HeldEmpty DEF TokenInv
      <4> QED BY <1>3, <4>1
    <3> QED BY <3>1, <3>2
  <2> HIDE DEF T
  <2> QED BY <1>2, <2>1, <2>2
<1>8. CASE c.read = "none" /\ Held(c.writes, T) = {}
  <2>1. At(more, T) = {}
    <3> SUFFICES ASSUME NEW i \in At(more, T) PROVE FALSE
      OBVIOUS
    <3>1. i \in DOMAIN more /\ more[i].op \in T
      BY DEF At
    <3>2. more[i].op # c.read
      BY <1>3, <1>8, <3>1
    <3>3. PICK j \in DOMAIN c.writes : more[i].op = c.writes[j].op
      BY <1>2, <3>1, <3>2
    <3>4. j \in At(c.writes, T)
      BY <3>1, <3>3 DEF At
    <3> QED BY <1>8, <3>4, HeldEmpty
  <2>2. Held(more, T) = {}
    BY <2>1, HeldEmpty
  <2>3. At(d.ready, T) = At(c.ready, T)
    BY <1>4, <2>1, ConcatAt
  <2>4. Held(d.ready, T) = Held(c.ready, T)
    BY <1>5, <2>2
  <2> QED BY <1>1, <1>6, <1>8, <2>3, <2>4 DEF TokenInv, Stage, Vacant
<1>9. CASE ~ (c.read = "none" /\ Held(c.writes, T) = {})
  <2>1. Held(c.ready, T) = {}
    BY <1>9 DEF TokenInv
  <2>2. At(c.ready, T) = {}
    BY <2>1, HeldEmpty
  <2>3. \A i, j \in At(d.ready, T) : i = j
    BY <1>4, <1>7, <2>2, ConcatAt
  <2>4. TokenInv(e, d)
    BY <1>1, <1>6, <2>3 DEF TokenInv
  <2>5. ~ Vacant(e, c)
    BY <1>9 DEF Vacant
  <2>6. CASE Held(d.ready, T) = {}
    <3>1. Vacant(e, d)
      BY <1>1, <1>6, <2>6 DEF Vacant
    <3>2. Stage(e, d).at = "idle"
      BY <3>1, VacantIs DEF Turn
    <3> QED BY <2>4, <2>5, <3>2
  <2>7. CASE Held(d.ready, T) # {}
    <3>1. PICK h : h \in Held(d.ready, T)
      BY <2>7
    <3>2. h \in Held(more, T)
      BY <1>5, <2>1, <3>1
    <3>3. PICK i \in At(more, T) : h = more[i]
      BY <3>2 DEF Held
    <3>4. i \in DOMAIN more
      BY DEF At
    <3>5. ~ h.ok /\ h.op \in {c.read} \cup {c.writes[j].op : j \in DOMAIN c.writes}
      BY <1>2, <3>3, <3>4
    <3>6. h.op # "accept"
      BY <3>5 DEF IsEnd, Reads, Writes
    <3>7. Stage(e, d) = Ready(h)
      BY <2>4, <3>1, StageIs
    <3>8. Stage(e, d).at = "failed"
      BY <3>5, <3>6, <3>7 DEF Ready, Turn
    <3> QED BY <2>4, <2>5, <3>8
  <2> QED BY <2>6, <2>7
<1> QED BY <1>8, <1>9

LEMMA StageHeld ==
  ASSUME NEW e, NEW c, NEW d, d.read = c.read,
         Held(d.writes, Tokens(e)) = Held(c.writes, Tokens(e)),
         Held(d.ready, Tokens(e)) = Held(c.ready, Tokens(e))
  PROVE  Stage(e, d) = Stage(e, c)
BY DEF Stage

LEMMA StageFinishesWrite ==
  ASSUME NEW e, NEW c, IsEnd(c), c.writes # <<>>, TokenInv(e, c), NEW h, h.op = Head(c.writes).op,
         NEW d, d = Post([c EXCEPT !.writes = Tail(c.writes)], h)
  PROVE  /\ TokenInv(e, d)
         /\ h.op \notin Tokens(e) => Stage(e, d) = Stage(e, c)
         /\ h.op \in Tokens(e) => Stage(e, c) = Turn("answering", NoUnit) /\ Stage(e, d) = Ready(h)
<1> DEFINE T == Tokens(e)
<1>1. IsSeq(c.ready) /\ IsSeq(c.writes)
  BY DEF IsEnd
<1>2. d.read = c.read /\ d.ready = Pushed(c.ready, h) /\ d.writes = Popped(c.writes)
  BY FinishedWriteIs
<1>3. \A i, j \in At(c.writes, T) : i = j
  BY DEF TokenInv
<1>4. \A i, j \in At(d.writes, T) : i = j
  BY <1>1, <1>2, <1>3, AtPopped
<1>5. CASE h.op \notin T
  <2>1. Held(d.writes, T) = Held(c.writes, T)
    BY <1>1, <1>2, <1>5, HeldPopped
  <2>2. Held(d.ready, T) = Held(c.ready, T) /\ At(d.ready, T) = At(c.ready, T)
    BY <1>1, <1>2, <1>5, HeldPushed, AtPushed
  <2>3. TokenInv(e, d)
    BY <1>2, <1>4, <2>1, <2>2 DEF TokenInv
  <2>4. d.read = c.read
    BY <1>2
  <2>5. Stage(e, d) = Stage(e, c)
    BY <2>1, <2>2, <2>4, StageHeld
  <2> QED BY <1>5, <2>3, <2>5
<1>6. CASE h.op \in T
  <2>1. Held(c.writes, T) = {Head(c.writes)} /\ Held(d.writes, T) = {}
    BY <1>1, <1>2, <1>3, <1>6, HeldPoppedOnce
  <2>2. c.read = "none" /\ Held(c.ready, T) = {}
    BY <2>1 DEF TokenInv
  <2>3. Stage(e, c) = Turn("answering", NoUnit)
    BY <2>1, StageIs
  <2>4. At(c.ready, T) = {}
    BY <2>2, HeldEmpty
  <2>5. /\ At(d.ready, T) = At(c.ready, T) \cup {Len(c.ready) + 1}
        /\ Held(d.ready, T) = Held(c.ready, T) \cup {h}
    BY <1>1, <1>2, <1>6, AtPushed, HeldPushed
  <2>6. TokenInv(e, d)
    BY <1>2, <1>4, <2>1, <2>2, <2>4, <2>5 DEF TokenInv
  <2>7. h \in Held(d.ready, T)
    BY <2>5
  <2>8. Stage(e, d) = Ready(h)
    BY <2>6, <2>7, StageIs
  <2> QED BY <1>6, <2>3, <2>6, <2>8
<1> QED BY <1>5, <1>6

LEMMA StageFinishesRead ==
  ASSUME NEW e, e \in Ends, NEW c, IsEnd(c), c.read # "none", TokenInv(e, c), NEW h, h.op = c.read,
         NEW d, d = Post([c EXCEPT !.read = "none"], h)
  PROVE  TokenInv(e, d) /\ Stage(e, c) = Turn(c.read, NoUnit) /\ Stage(e, d) = Ready(h)
<1> DEFINE T == Tokens(e)
<1>1. IsSeq(c.ready) /\ IsSeq(c.writes) /\ h.op \in T
  BY TokensAre DEF IsEnd
<1>2. d.read = "none" /\ d.ready = Pushed(c.ready, h) /\ d.writes = c.writes
  BY FinishedReadIs
<1>3. Held(c.writes, T) = {} /\ Held(c.ready, T) = {}
  BY DEF TokenInv
<1>4. At(c.writes, T) = {} /\ At(c.ready, T) = {}
  BY <1>3, HeldEmpty
<1>5. /\ At(d.ready, T) = At(c.ready, T) \cup {Len(c.ready) + 1}
      /\ Held(d.ready, T) = Held(c.ready, T) \cup {h}
  BY <1>1, <1>2, AtPushed, HeldPushed
<1>6. TokenInv(e, d)
  BY <1>2, <1>3, <1>4, <1>5 DEF TokenInv
<1>7. h \in Held(d.ready, T)
  BY <1>5
<1>8. Stage(e, d) = Ready(h)
  BY <1>6, <1>7, StageIs
<1> QED BY <1>6, <1>8, StageIs
------------------------------------------------------------------------------
(* What lies between a writer and its reader. *)

LEMMA PoppedPushed ==
  ASSUME NEW s, IsSeq(s), s # <<>>, NEW x
  PROVE  Popped(Pushed(s, x)) = Pushed(Popped(s), x)
<1>1. PICK S : s \in Seq(S)
  BY DEF IsSeq
<1> DEFINE T == S \cup {x}
<1>2. s \in Seq(T) /\ x \in T
  BY <1>1
<1> HIDE DEF T
<1>3. Append(s, x) \in Seq(T) /\ Tail(s) \in Seq(T) /\ Append(s, x) # <<>>
  BY <1>2
<1>4. Tail(Append(s, x)) \in Seq(T) /\ Append(Tail(s), x) \in Seq(T)
  BY <1>2, <1>3
<1>5. /\ Len(s) \in Nat \ {0} /\ Len(Tail(Append(s, x))) = Len(s) /\ Len(Append(Tail(s), x)) = Len(s)
      /\ \A i \in 1 .. Len(s) : Tail(Append(s, x))[i] = Append(Tail(s), x)[i]
  BY <1>2, <1>3
<1>6. Tail(Append(s, x)) = Append(Tail(s), x)
  BY <1>4, <1>5, SeqEqual
<1> QED BY <1>6, Zenon DEF Popped, Pushed

LEMMA PoppedOnly ==
  ASSUME NEW x
  PROVE  Popped(Pushed(<<>>, x)) = <<>>
<1>1. Tail(Append(<<>>, x)) = <<>>
  OBVIOUS
<1> QED BY <1>1, Zenon DEF Popped, Pushed

LEMMA RestIs ==
  ASSUME NEW l, NEW st, NEW units, IsSeq(units)
  PROVE  IsSeq(Rest(l, st, units))
BY PoppedIs DEF Rest

\* A place of a reader is one of the messages.
LEMMA DueIs ==
  ASSUME NEW l, NEW st, NEW temp, NEW got, NEW s, IsSeq(s), NEW m, NEW t, t = Pushed(s, m),
         TakenInv(l, st, temp, got, s), Len(got) \in Nat
  PROVE  Due(st, Len(got), t) = Due(st, Len(got), s) /\ TakenInv(l, st, temp, got, t)
<1> DEFINE n == Len(got) + 1
<1>1. n \in Nat \ {0} /\ Len(s) \in Nat /\ Len(t) = Len(s) + 1 /\ \A i \in 1 .. Len(s) : t[i] = s[i]
  BY PushedIs
<1>2. ASSUME n <= Len(s)
      PROVE  /\ t[n] = s[n] /\ n <= Len(t)
             /\ \A part : After(Place(n, part), t) = After(Place(n, part), s)
             /\ \A part, unit : IsUnit(unit, Place(n, part), s) <=> IsUnit(unit, Place(n, part), t)
  <2> HIDE DEF n
  <2>1. t[n] = s[n] /\ n <= Len(t)
    BY <1>1, <1>2
  <2> QED BY <1>1, <1>2, <2>1 DEF After, Place, IsUnit
<1>3. \A part, unit : IsUnit(unit, Place(n, part), s) => n <= Len(s)
  BY DEF IsUnit, Place
<1> HIDE DEF n
<1>4. Due(st, Len(got), t) = Due(st, Len(got), s)
  BY <1>2, <1>3 DEF Due, TakenInv, n
<1>5. TakenInv(l, st, temp, got, t)
  BY <1>2, <1>3 DEF TakenInv, n
<1> QED BY <1>4, <1>5

\* The writer goes on, with one message more or with the same.
LEMMA FlowGoesOn ==
  ASSUME NEW l, NEW st, NEW socket, NEW units, IsSeq(units), NEW n, NEW s, IsSeq(s), NEW c,
         FlowInv(l, st, socket, units, n, s, c),
         NEW d, GoesOn(c, d, s, s)
  PROVE  FlowInv(l, st, socket, units, n, s, d)
BY DEF FlowInv, GoesOn

LEMMA FlowSends ==
  ASSUME NEW l, NEW st, NEW socket, NEW units, IsSeq(units), NEW n, NEW s, IsSeq(s), NEW c,
         FlowInv(l, st, socket, units, n, s, c),
         NEW m, NEW t, t = Pushed(s, m), Due(st, n, t) = Due(st, n, s),
         NEW d, GoesOn(c, d, s, t)
  PROVE  FlowInv(l, st, socket, units, n, t, d)
<1> SUFFICES ASSUME Listening(l, st), socket # "closed", ~ Spoiled(l, st, units)
             PROVE  \E b \in Places(t) :
                      /\ Chain(Rest(l, st, units), Due(st, n, t), b, t)
                      /\ l \notin {"refused", "broken"} /\ ~ Broken(d) => WriterAt(d, t, b)
  BY DEF FlowInv
<1>1. PICK b \in Places(s) :
        /\ Chain(Rest(l, st, units), Due(st, n, s), b, s)
        /\ l \notin {"refused", "broken"} /\ ~ Broken(c) => WriterAt(c, s, b)
  BY DEF FlowInv
<1>2. IsSeq(Rest(l, st, units))
  BY RestIs
<1>3. b \in Places(t) /\ Chain(Rest(l, st, units), Due(st, n, t), b, t)
  BY <1>1, <1>2, MoreMessages
<1>4. l \notin {"refused", "broken"} /\ ~ Broken(d) => WriterAt(d, t, b)
  BY <1>1 DEF GoesOn
<1> QED BY <1>3, <1>4

\* A unit of a message goes out.
LEMMA FlowWrites ==
  ASSUME NEW st, NEW socket, NEW units, IsSeq(units), NEW n, NEW s, IsSeq(s), NEW c,
         FlowInv("up", st, socket, units, n, s, c), ~ Broken(c),
         NEW unit, unit.kind # "validation", NEW d,
         \A b : WriterAt(c, s, b) => IsUnit(unit, b, s) /\ WriterAt(d, s, After(b, s))
  PROVE  FlowInv("up", st, socket, Pushed(units, unit), n, s, d)
<1> DEFINE l == "up"
           more == Pushed(units, unit)
<1> SUFFICES ASSUME Listening(l, st), socket # "closed", ~ Spoiled(l, st, more)
             PROVE  \E b \in Places(s) : Chain(Rest(l, st, more), Due(st, n, s), b, s) /\ WriterAt(d, s, b)
  BY DEF FlowInv
<1>1. more # <<>> /\ (units # <<>> => Head(more) = Head(units)) /\ (units = <<>> => Head(more) = unit)
  BY PushedIs
<1>2. Opening(l, st) => units # <<>>
  BY <1>1 DEF Spoiled
<1>3. ~ Spoiled(l, st, units)
  BY <1>1 DEF Spoiled
<1>4. Rest(l, st, more) = Pushed(Rest(l, st, units), unit)
  BY <1>1, <1>2, PoppedPushed DEF Rest
<1> HIDE DEF l, more
<1>5. PICK b \in Places(s) : Chain(Rest(l, st, units), Due(st, n, s), b, s) /\ WriterAt(c, s, b)
  BY <1>3 DEF FlowInv, l
<1>6. IsSeq(Rest(l, st, units))
  BY RestIs
<1>7. IsUnit(unit, b, s) /\ WriterAt(d, s, After(b, s))
  BY <1>5
<1>8. Chain(Rest(l, st, more), Due(st, n, s), After(b, s), s) /\ After(b, s) \in Places(s)
  BY <1>4, <1>5, <1>6, <1>7, ChainPushed
<1> QED BY <1>7, <1>8

\* A handshake word goes out, which is the first unit or meets a reader that fails.
LEMMA FlowSaysWord ==
  ASSUME NEW l, NEW st, NEW socket, NEW units, IsSeq(units), NEW n, NEW s, IsSeq(s), NEW c,
         FlowInv(l, st, socket, units, n, s, c),
         NEW d, GoesOn(c, d, s, s), NEW unit,
         Listening(l, st) /\ socket # "closed" =>
           (Opening(l, st) /\ units = <<>> /\ st.at # "gotValidation")
             \/ Spoiled(l, st, Pushed(units, unit))
  PROVE  FlowInv(l, st, socket, Pushed(units, unit), n, s, d)
<1> DEFINE more == Pushed(units, unit)
<1> SUFFICES ASSUME Listening(l, st), socket # "closed", ~ Spoiled(l, st, more)
             PROVE  \E b \in Places(s) :
                      /\ Chain(Rest(l, st, more), Due(st, n, s), b, s)
                      /\ l \notin {"refused", "broken"} /\ ~ Broken(d) => WriterAt(d, s, b)
  BY DEF FlowInv
<1>1. Opening(l, st) /\ units = <<>> /\ st.at # "gotValidation"
  OBVIOUS
<1>2. more # <<>> /\ Popped(more) = <<>>
  BY <1>1, PushedIs, PoppedOnly
<1>3. Rest(l, st, more) = Rest(l, st, units)
  BY <1>1, <1>2 DEF Rest
<1>4. ~ Spoiled(l, st, units)
  BY <1>1 DEF Spoiled
<1> HIDE DEF more
<1>5. FlowInv(l, st, socket, units, n, s, d)
  BY FlowGoesOn
<1> QED BY <1>3, <1>4, <1>5 DEF FlowInv

\* The reader goes on and takes nothing from the wire.
LEMMA FlowTurns ==
  ASSUME NEW l, NEW st, NEW socket, NEW units, NEW n, NEW s, NEW d,
         FlowInv(l, st, socket, units, n, s, d),
         NEW l2, NEW st2, NEW socket2, NEW n2,
         Listening(l2, st2) /\ socket2 # "closed" =>
           /\ Listening(l, st) /\ socket # "closed"
           /\ Spoiled(l, st, units) => Spoiled(l2, st2, units)
           /\ Rest(l2, st2, units) = Rest(l, st, units)
           /\ Due(st2, n2, s) = Due(st, n, s)
           /\ l2 \notin {"refused", "broken"} => l \notin {"refused", "broken"}
  PROVE  FlowInv(l2, st2, socket2, units, n2, s, d)
BY DEF FlowInv

\* The reader takes the next unit.
LEMMA FlowArrives ==
  ASSUME NEW l, l \notin {"none", "connecting"}, NEW st, NEW units, IsSeq(units), units # <<>>,
         NEW n, NEW s, IsSeq(s), NEW d, FlowInv(l, st, "open", units, n, s, d),
         st.at \in Reads,
         NEW st2, st2.unit = Head(units),
         st2.at = (IF st.at = "readValidation" THEN "gotValidation"
                   ELSE IF st.at = "readHeader" THEN "gotHeader" ELSE "gotBody")
  PROVE  /\ FlowInv(l, st2, "open", Popped(units), n, s, d)
         /\ st.at = "readHeader" => IsUnit(Head(units), Place(n + 1, "header"), s)
         /\ st.at = "readBody" => IsUnit(Head(units), Place(n + 1, "body"), s)
<1>1. CASE st.at = "readValidation"
  <2>1. Opening(l, st) /\ ~ Opening(l, st2) /\ Listening(l, st) /\ Listening(l, st2)
    BY <1>1 DEF Opening, Listening
  <2>2. Rest(l, st2, Popped(units)) = Rest(l, st, units)
    BY <2>1 DEF Rest
  <2>3. Due(st2, n, s) = Due(st, n, s)
    BY <1>1 DEF Due
  <2>4. Spoiled(l, st, units) => Spoiled(l, st2, Popped(units))
    BY <1>1, <2>1 DEF Spoiled
  <2> QED BY <1>1, <2>1, <2>2, <2>3, <2>4 DEF FlowInv
<1>2. CASE st.at \in {"readHeader", "readBody"}
  <2> DEFINE a == Due(st, n, s)
  <2>1. /\ ~ Opening(l, st) /\ ~ Opening(l, st2) /\ Listening(l, st) /\ Listening(l, st2)
        /\ ~ Spoiled(l, st, units)
    BY <1>2 DEF Opening, Listening, Spoiled
  <2>2. Rest(l, st, units) = units /\ Rest(l, st2, Popped(units)) = Popped(units)
    BY <2>1 DEF Rest
  <2>3. Due(st2, n, s) = After(a, s) /\ a = Place(n + 1, IF st.at = "readBody" THEN "body" ELSE "header")
    BY <1>2 DEF Due
  <2> HIDE DEF a
  <2>4. PICK b \in Places(s) :
          /\ Chain(units, a, b, s)
          /\ l \notin {"refused", "broken"} /\ ~ Broken(d) => WriterAt(d, s, b)
    BY <2>1, <2>2 DEF FlowInv, a
  <2>5. IsUnit(Head(units), a, s) /\ Chain(Popped(units), After(a, s), b, s)
    BY <2>4, ChainPopped
  <2>6. FlowInv(l, st2, "open", Popped(units), n, s, d)
    BY <2>2, <2>3, <2>4, <2>5 DEF FlowInv
  <2> QED BY <1>2, <2>3, <2>5, <2>6
<1> QED BY <1>1, <1>2 DEF Reads
------------------------------------------------------------------------------
(* The handshake. *)

LEMMA AnswerTurns ==
  ASSUME NEW l, NEW st, NEW asker, NEW units, AnswerInv(l, st, asker, units), NEW l2, NEW st2,
         Early(l2, st2) \/ st2.at = "answering" => Early(l, st) \/ st.at = "answering"
  PROVE  AnswerInv(l2, st2, asker, units)
BY DEF AnswerInv

LEMMA AskerTurns ==
  ASSUME NEW l, NEW st, NEW asker, NEW units, AnswerInv(l, st, asker, units), NEW asker2,
         asker2.at = "gotValidation" => asker2 = asker,
         asker2.at \in {"readHeader", "gotHeader", "readBody", "gotBody"} =>
           \/ asker.at \in {"readHeader", "gotHeader", "readBody", "gotBody"}
           \/ asker.at = "gotValidation" /\ asker.unit.kind = "validation"
  PROVE  AnswerInv(l, st, asker2, units)
BY DEF AnswerInv

LEMMA AnswerWrites ==
  ASSUME NEW l, NEW st, NEW asker, NEW units, IsSeq(units), AnswerInv(l, st, asker, units),
         NEW unit, NEW st2, NEW l2,
         Early(l2, st2) \/ st2.at = "answering" =>
           unit.kind # "validation" /\ (Early(l, st) \/ st.at = "answering")
  PROVE  AnswerInv(l2, st2, asker, Pushed(units, unit))
<1> SUFFICES ASSUME Early(l2, st2) \/ st2.at = "answering"
             PROVE  /\ \A i \in 1 .. Len(Pushed(units, unit)) : Pushed(units, unit)[i].kind # "validation"
                    /\ asker.at = "gotValidation" => asker.unit.kind # "validation"
                    /\ asker.at \notin {"readHeader", "gotHeader", "readBody", "gotBody"}
  BY DEF AnswerInv
<1>1. /\ \A i \in 1 .. Len(units) : units[i].kind # "validation"
      /\ asker.at = "gotValidation" => asker.unit.kind # "validation"
      /\ asker.at \notin {"readHeader", "gotHeader", "readBody", "gotBody"}
  BY DEF AnswerInv
<1>2. /\ Len(units) \in Nat /\ Len(Pushed(units, unit)) = Len(units) + 1
      /\ \A i \in 1 .. Len(units) : Pushed(units, unit)[i] = units[i]
      /\ Pushed(units, unit)[Len(units) + 1] = unit
  BY PushedIs
<1>3. ASSUME NEW i \in 1 .. Len(Pushed(units, unit)) PROVE Pushed(units, unit)[i].kind # "validation"
  <2>1. i \in 1 .. Len(units) \/ i = Len(units) + 1
    BY <1>2
  <2> QED BY <1>1, <1>2, <2>1
<1> QED BY <1>1, <1>3

LEMMA AskerArrives ==
  ASSUME NEW l, NEW st, NEW asker, NEW units, IsSeq(units), units # <<>>, AnswerInv(l, st, asker, units),
         asker.at \in Reads, NEW asker2, asker2.unit = Head(units),
         asker2.at = (IF asker.at = "readValidation" THEN "gotValidation"
                      ELSE IF asker.at = "readHeader" THEN "gotHeader" ELSE "gotBody")
  PROVE  AnswerInv(l, st, asker2, Popped(units))
<1> SUFFICES ASSUME Early(l, st) \/ st.at = "answering"
             PROVE  /\ \A i \in 1 .. Len(Popped(units)) : Popped(units)[i].kind # "validation"
                    /\ asker2.at = "gotValidation" => asker2.unit.kind # "validation"
                    /\ asker2.at \notin {"readHeader", "gotHeader", "readBody", "gotBody"}
  BY DEF AnswerInv
<1>1. /\ \A i \in 1 .. Len(units) : units[i].kind # "validation"
      /\ asker.at \notin {"readHeader", "gotHeader", "readBody", "gotBody"}
  BY DEF AnswerInv
<1>2. /\ Len(units) \in Nat \ {0} /\ Len(Popped(units)) = Len(units) - 1
      /\ \A i \in 1 .. Len(units) - 1 : Popped(units)[i] = units[i + 1]
      /\ Head(units) = units[1]
  BY PoppedIs
<1>3. ASSUME NEW i \in 1 .. Len(Popped(units)) PROVE Popped(units)[i].kind # "validation"
  <2>1. i \in 1 .. Len(units) - 1 /\ i + 1 \in 1 .. Len(units)
    BY <1>2
  <2> QED BY <1>1, <1>2, <2>1
<1>4. Head(units).kind # "validation"
  <2>1. 1 \in 1 .. Len(units)
    BY <1>2
  <2> QED BY <1>1, <1>2, <2>1
<1>5. asker2.at = "gotValidation"
  BY <1>1 DEF Reads
<1> QED BY <1>3, <1>4, <1>5

\* The client goes on and takes nothing, or the server does something else than write.
LEMMA ChallengeTurns ==
  ASSUME NEW l, NEW st, NEW socket, NEW c, NEW units, ChallengeInv(l, st, socket, c, units),
         NEW l2, NEW st2, NEW socket2, NEW d, d.writes = c.writes, d.socket = c.socket,
         Listening(l2, st2) /\ socket2 # "closed" =>
           /\ Listening(l, st) /\ socket # "closed"
           /\ (Opening(l, st) => Opening(l2, st2)) /\ (Spoiled(l2, st2, units) => Spoiled(l, st, units)),
         l2 = "up" /\ Opening(l2, st2) /\ socket2 # "closed" /\ c.socket = "open" =>
           l = "up" /\ Opening(l, st) /\ socket # "closed"
  PROVE  ChallengeInv(l2, st2, socket2, d, units)
BY DEF ChallengeInv

LEMMA ChallengeBeforeOthers ==
  ASSUME NEW l, NEW st, NEW socket, NEW c, NEW units, ChallengeInv(l, st, socket, c, units),
         IsSeq(c.writes), NEW w, w.op # "writeValidation",
         NEW d, d.writes = Pushed(c.writes, w), d.socket = c.socket
  PROVE  ChallengeInv(l, st, socket, d, units)
<1>1. At(d.writes, {"writeValidation"}) = At(c.writes, {"writeValidation"})
  BY AtPushed
<1>2. d.writes # <<>> /\ (c.writes # <<>> => Head(d.writes) = Head(c.writes))
  BY PushedIs
<1> QED BY <1>1, <1>2 DEF ChallengeInv

LEMMA ChallengeCloses ==
  ASSUME NEW l, NEW st, NEW socket, NEW c, NEW units, ChallengeInv(l, st, socket, c, units),
         NEW d, d.writes = <<>>, d.socket = "closed"
  PROVE  ChallengeInv(l, st, socket, d, units)
<1>1. At(d.writes, {"writeValidation"}) = {}
  BY NoneSeq DEF At
<1> QED BY <1>1 DEF ChallengeInv

LEMMA ChallengeStarts ==
  ASSUME NEW l, NEW st, NEW socket, NEW c, NEW units, ChallengeInv(l, st, socket, c, units),
         c.writes = <<>>, c.socket = "none", NEW w, w.op = "writeValidation",
         NEW d, d.writes = Pushed(c.writes, w)
  PROVE  ChallengeInv(l, st, socket, d, units)
<1>1. IsSeq(c.writes) /\ Len(c.writes) = 0
  BY NoneSeq
<1>2. At(c.writes, {"writeValidation"}) = {}
  BY NoneSeq DEF At
<1>3. At(d.writes, {"writeValidation"}) = At(c.writes, {"writeValidation"}) \cup {Len(c.writes) + 1}
  BY <1>1, AtPushed
<1>4. At(d.writes, {"writeValidation"}) = {1}
  BY <1>1, <1>2, <1>3
<1>5. d.writes # <<>> /\ Head(d.writes) = w
  BY <1>1, PushedIs
<1> QED BY <1>4, <1>5 DEF ChallengeInv

\* A write of the server is finished: the challenge is gone, or was before.
LEMMA ChallengePops ==
  ASSUME NEW l, NEW st, NEW socket, NEW c, NEW units, ChallengeInv(l, st, socket, c, units),
         IsSeq(c.writes), c.writes # <<>>
  PROVE  /\ At(Popped(c.writes), {"writeValidation"}) = {}
         /\ Head(c.writes).op = "writeValidation" => At(c.writes, {"writeValidation"}) # {}
<1> DEFINE s == c.writes
           ops == {"writeValidation"}
<1>1. \A i \in At(s, ops) : i = 1
  BY DEF ChallengeInv
<1>2. IsSeq(s) /\ s # <<>>
  OBVIOUS
<1>3. Popped(s) = Tail(s)
  BY Zenon DEF Popped
<1> HIDE DEF s, ops
<1>4. \A i \in At(Tail(s), ops) : i + 1 \in At(s, ops) /\ i \in Nat \ {0}
  BY <1>2, TailAt
<1>5. At(Tail(s), ops) = {}
  BY <1>1, <1>4
<1>6. 1 \in At(s, ops) <=> Head(s).op \in ops
  BY <1>2, TailAt
<1> QED BY <1>3, <1>5, <1>6 DEF s, ops

LEMMA ChallengeGoesOut ==
  ASSUME NEW st, NEW socket, NEW c, NEW units, IsSeq(units), ChallengeInv("up", st, socket, c, units),
         IsSeq(c.writes), c.writes # <<>>, c.socket = "open",
         NEW d, d.writes = Popped(c.writes), d.socket = c.socket,
         NEW unit, unit.kind = "validation" <=> Head(c.writes).op = "writeValidation"
  PROVE  /\ ChallengeInv("up", st, socket, d, Pushed(units, unit))
         /\ Head(c.writes).op = "writeValidation" =>
              units = <<>> /\ (Listening("up", st) /\ socket # "closed" => Opening("up", st))
<1> DEFINE challenge == At(c.writes, {"writeValidation"})
           more == Pushed(units, unit)
           l == "up"
<1>1. At(d.writes, {"writeValidation"}) = {} /\ (Head(c.writes).op = "writeValidation" => challenge # {})
  BY ChallengePops
<1>2. more # <<>> /\ (units # <<>> => Head(more) = Head(units)) /\ (units = <<>> => Head(more) = unit)
  BY PushedIs
<1>3. Head(c.writes).op = "writeValidation" =>
        units = <<>> /\ (Listening(l, st) /\ socket # "closed" => Opening(l, st))
  BY <1>1 DEF ChallengeInv
<1>4. socket # "closed" /\ Opening(l, st) /\ units = <<>> => unit.kind = "validation"
  BY DEF ChallengeInv
<1>5. Listening(l, st) /\ socket # "closed" => ~ Spoiled(l, st, units)
  BY DEF ChallengeInv
<1> HIDE DEF more
<1>6. Listening(l, st) /\ socket # "closed" => ~ Spoiled(l, st, more)
  BY <1>2, <1>4, <1>5 DEF Spoiled
<1>7. ChallengeInv(l, st, socket, d, more)
  BY <1>1, <1>2, <1>6 DEF ChallengeInv
<1> QED BY <1>3, <1>7 DEF more

LEMMA ChallengeFails ==
  ASSUME NEW l, NEW st, NEW socket, NEW c, NEW units, ChallengeInv(l, st, socket, c, units),
         IsSeq(c.writes), c.writes # <<>>, c.socket = "open", l # "up" \/ socket = "closed",
         NEW d, d.writes = Popped(c.writes), d.socket = c.socket
  PROVE  ChallengeInv(l, st, socket, d, units)
<1>1. At(d.writes, {"writeValidation"}) = {}
  BY ChallengePops
<1> QED BY <1>1 DEF ChallengeInv

\* The client takes the challenge, or a unit that follows it.
LEMMA ChallengeArrives ==
  ASSUME NEW l, l \notin {"none", "connecting"}, NEW st, NEW c, NEW units, IsSeq(units), units # <<>>,
         ChallengeInv(l, st, "open", c, units), st.at \in Reads,
         NEW st2, st2.unit = Head(units),
         st2.at = (IF st.at = "readValidation" THEN "gotValidation"
                   ELSE IF st.at = "readHeader" THEN "gotHeader" ELSE "gotBody")
  PROVE  ChallengeInv(l, st2, "open", c, Popped(units))
<1>1. Listening(l, st) /\ ~ Opening(l, st2)
  BY DEF Listening, Opening, Reads
<1>2. ~ Spoiled(l, st, units) /\ At(c.writes, {"writeValidation"}) = {} /\ c.socket # "none"
  BY <1>1 DEF ChallengeInv
<1>3. ~ Spoiled(l, st2, Popped(units))
  BY <1>1, <1>2 DEF Spoiled, Opening, Reads
<1> QED BY <1>1, <1>2, <1>3 DEF ChallengeInv
------------------------------------------------------------------------------
(* What the reader has taken. *)

LEMMA BodyIs ==
  ASSUME NEW m \in Messages
  PROVE  Len(m.body) \in Nat /\ (m.body = <<>> <=> Len(m.body) = 0)
<1> DEFINE b == m.body
           S == {b[i] : i \in 1 .. Len(b)}
<1>1. Len(b) \in Nat /\ b = [i \in 1 .. Len(b) |-> b[i]]
  BY ConnectionAssumption
<1>2. \A i \in 1 .. Len(b) : b[i] \in S
  OBVIOUS
<1> HIDE DEF b, S
<1>3. b \in [1 .. Len(b) -> S]
  BY <1>1, <1>2
<1>4. b \in Seq(S)
  BY <1>1, <1>3
<1>5. b = <<>> <=> Len(b) = 0
  BY <1>4, EmptySeq
<1> QED BY <1>1, <1>5 DEF b

LEMMA TakenTurns ==
  ASSUME NEW l, NEW st, NEW temp, NEW got, NEW s, TakenInv(l, st, temp, got, s), NEW l2, NEW st2,
         st2.at \notin {"gotHeader", "gotBody", "readBody"},
         Early(l2, st2) \/ st2.at \in {"answering", "answered", "readHeader"} =>
           Early(l, st) \/ st.at \in {"answering", "answered", "readHeader"}
  PROVE  TakenInv(l2, st2, temp, got, s)
BY DEF TakenInv

LEMMA TakenArrives ==
  ASSUME NEW l, l \notin {"none", "connecting"}, NEW st, NEW temp, NEW got, NEW s, TakenInv(l, st, temp, got, s),
         st.at \in Reads, NEW unit, NEW st2, st2.unit = unit,
         st2.at = (IF st.at = "readValidation" THEN "gotValidation"
                   ELSE IF st.at = "readHeader" THEN "gotHeader" ELSE "gotBody"),
         st.at = "readHeader" => IsUnit(unit, Place(Len(got) + 1, "header"), s),
         st.at = "readBody" => IsUnit(unit, Place(Len(got) + 1, "body"), s)
  PROVE  TakenInv(l, st2, temp, got, s)
<1>1. st2.at = "gotHeader" => st.at = "readHeader"
  BY DEF Reads
<1>2. st2.at = "gotBody" => st.at = "readBody"
  BY DEF Reads
<1>3. st2.at # "readBody" /\ (Early(l, st2) => Early(l, st))
  BY DEF Reads, Early, Opening
<1> QED BY <1>1, <1>2, <1>3 DEF TakenInv

\* What the pipe delivers next is what the last of got2 is.
Delivers(got, got2, s) ==
  LET m == s[Len(got) + 1]
  IN /\ Len(got) < Len(s)
     /\ got2 = Pushed(got, [id |-> m.id, size |-> Len(m.body),
                            body |-> IF m.body = <<>> THEN LastBody(got) ELSE m.body])

LEMMA LastPushed ==
  ASSUME NEW got, IsSeq(got), NEW x, NEW got2, got2 = Pushed(got, x)
  PROVE  LastBody(got2) = x.body /\ Len(got2) = Len(got) + 1 /\ Len(got) \in Nat
<1>1. Pushed(got, x) # <<>> /\ Len(Pushed(got, x)) = Len(got) + 1 /\ Pushed(got, x)[Len(got) + 1] = x
      /\ Len(got) \in Nat
  BY PushedIs
<1> QED BY <1>1 DEF LastBody

LEMMA FilledIn ==
  ASSUME NEW temp, temp = [id |-> temp.id, size |-> temp.size, body |-> temp.body], NEW i, NEW z,
         NEW temp2, temp2 = [temp EXCEPT !.id = i, !.size = z]
  PROVE  /\ temp2 = [id |-> temp2.id, size |-> temp2.size, body |-> temp2.body]
         /\ temp2.id = i /\ temp2.size = z /\ temp2.body = temp.body
<1>1. temp2 = [id |-> i, size |-> z, body |-> temp.body]
  OBVIOUS
<1> QED BY <1>1

LEMMA BodyFilledIn ==
  ASSUME NEW temp, temp = [id |-> temp.id, size |-> temp.size, body |-> temp.body], NEW b,
         NEW temp2, temp2 = [temp EXCEPT !.body = b]
  PROVE  /\ temp2 = [id |-> temp2.id, size |-> temp2.size, body |-> temp2.body]
         /\ temp2.id = temp.id /\ temp2.size = temp.size /\ temp2.body = b
<1>1. temp2 = [id |-> temp.id, size |-> temp.size, body |-> b]
  OBVIOUS
<1> QED BY <1>1

\* A header is filled in; its body is to be read.
LEMMA TakesHeader ==
  ASSUME NEW l, NEW st, st.at = "gotHeader", NEW temp, NEW got, IsSeq(got), NEW s, s \in Seq(Messages),
         TakenInv(l, st, temp, got, s), st.unit.size > 0,
         NEW temp2, temp2 = [id |-> temp2.id, size |-> temp2.size, body |-> temp2.body],
         temp2.id = st.unit.id, temp2.size = st.unit.size, temp2.body = temp.body,
         NEW st2, st2.at \in {"readBody", "failed"}, l \notin {"none", "connecting"}
  PROVE  /\ TakenInv(l, st2, temp2, got, s)
         /\ st2.at = "readBody" => Due(st2, Len(got), s) = Due(st, Len(got), s)
<1> DEFINE n == Len(got) + 1
<1>1. /\ temp = [id |-> temp.id, size |-> temp.size, body |-> temp.body]
      /\ IsUnit(st.unit, Place(n, "header"), s)
  BY DEF TakenInv
<1>2. n <= Len(s) /\ st.unit = [kind |-> "header", id |-> s[n].id, size |-> Len(s[n].body)]
  BY <1>1 DEF IsUnit, Place
<1>3. n \in 1 .. Len(s)
  BY <1>2, AppendSeq
<1>4. s[n] \in Messages
  BY <1>3
<1>5. s[n].body # <<>>
  BY <1>2, <1>4, BodyIs
<1>6. st.unit.id = s[n].id /\ st.unit.size = Len(s[n].body)
  BY <1>2
<1> HIDE DEF n
<1>7. temp2 = [id |-> temp2.id, size |-> temp2.size, body |-> temp2.body]
      /\ temp2.id = s[n].id /\ temp2.size = Len(s[n].body)
  BY <1>6
<1>8. ~ Early(l, st2)
  BY DEF Early, Opening
<1>9. TakenInv(l, st2, temp2, got, s)
  BY <1>2, <1>5, <1>7, <1>8 DEF TakenInv, n
<1>10. st2.at = "readBody" => Due(st2, Len(got), s) = Due(st, Len(got), s)
  BY <1>5 DEF Due, After, Place, n
<1> QED BY <1>9, <1>10

\* A message without a body is delivered.
LEMMA TakesEmpty ==
  ASSUME NEW l, NEW st, st.at = "gotHeader", NEW temp, NEW got, IsSeq(got), NEW s, s \in Seq(Messages),
         TakenInv(l, st, temp, got, s), ~ (st.unit.size > 0),
         NEW temp2, temp2 = [id |-> temp2.id, size |-> temp2.size, body |-> temp2.body],
         temp2.id = st.unit.id, temp2.size = st.unit.size, temp2.body = temp.body,
         NEW got2, got2 = Pushed(got, temp2),
         NEW st2, st2.at \in {"readHeader", "failed"}, l \notin {"none", "connecting"}
  PROVE  /\ TakenInv(l, st2, temp2, got2, s)
         /\ Delivers(got, got2, s)
         /\ st2.at = "readHeader" => Due(st2, Len(got2), s) = Due(st, Len(got), s)
<1> DEFINE n == Len(got) + 1
<1>1. /\ temp = [id |-> temp.id, size |-> temp.size, body |-> temp.body]
      /\ IsUnit(st.unit, Place(n, "header"), s)
      /\ temp.body = LastBody(got)
  BY DEF TakenInv
<1>2. n <= Len(s) /\ st.unit = [kind |-> "header", id |-> s[n].id, size |-> Len(s[n].body)]
  BY <1>1 DEF IsUnit, Place
<1>3. n \in 1 .. Len(s) /\ Len(got) \in Nat /\ Len(s) \in Nat
  BY <1>2, AppendSeq
<1>4. s[n] \in Messages
  BY <1>3
<1>5. s[n].body = <<>>
  BY <1>2, <1>4, BodyIs
<1>6. temp2 = [id |-> s[n].id, size |-> Len(s[n].body), body |-> LastBody(got)]
  <2>1. st.unit.id = s[n].id /\ st.unit.size = Len(s[n].body)
    BY <1>2
  <2> HIDE DEF n
  <2>2. temp2.id = s[n].id /\ temp2.size = Len(s[n].body) /\ temp2.body = LastBody(got)
    BY <1>1, <2>1
  <2> QED BY <2>2
<1>7. temp2 = [id |-> temp2.id, size |-> temp2.size, body |-> temp2.body]
  OBVIOUS
<1>8. ~ Early(l, st2)
  BY DEF Early, Opening
<1>9. got2 = Pushed(got, temp2)
  OBVIOUS
<1>10. LastBody(got2) = temp2.body /\ Len(got2) = n
  BY <1>9, LastPushed
<1>11. TakenInv(l, st2, temp2, got2, s)
  BY <1>7, <1>8, <1>10 DEF TakenInv
<1>12. Delivers(got, got2, s)
  <2>1. Len(got) < Len(s)
    BY <1>2, <1>3
  <2> QED BY <1>5, <1>6, <2>1 DEF Delivers
<1>13. st2.at = "readHeader" => Due(st2, Len(got2), s) = Due(st, Len(got), s)
  BY <1>5, <1>10 DEF Due, After, Place
<1> QED BY <1>11, <1>12, <1>13

\* A message with its body is delivered.
LEMMA TakesBody ==
  ASSUME NEW l, NEW st, st.at = "gotBody", NEW temp, NEW got, IsSeq(got), NEW s, s \in Seq(Messages),
         TakenInv(l, st, temp, got, s),
         NEW temp2, temp2 = [id |-> temp2.id, size |-> temp2.size, body |-> temp2.body],
         temp2.id = temp.id, temp2.size = temp.size, temp2.body = st.unit.data,
         NEW got2, got2 = Pushed(got, temp2),
         NEW st2, st2.at \in {"readHeader", "failed"}, l \notin {"none", "connecting"}
  PROVE  /\ TakenInv(l, st2, temp2, got2, s)
         /\ Delivers(got, got2, s)
         /\ st2.at = "readHeader" => Due(st2, Len(got2), s) = Due(st, Len(got), s)
<1> DEFINE n == Len(got) + 1
<1>1. /\ temp = [id |-> temp.id, size |-> temp.size, body |-> temp.body]
      /\ IsUnit(st.unit, Place(n, "body"), s)
      /\ n <= Len(s) /\ s[n].body # <<>> /\ temp.id = s[n].id /\ temp.size = Len(s[n].body)
  BY DEF TakenInv
<1>2. st.unit = [kind |-> "body", data |-> s[n].body]
  BY <1>1 DEF IsUnit, Place
<1>3. n \in 1 .. Len(s) /\ Len(got) \in Nat /\ Len(s) \in Nat
  BY <1>1, AppendSeq
<1>4. temp2 = [id |-> s[n].id, size |-> Len(s[n].body), body |-> s[n].body]
  <2>1. st.unit.data = s[n].body
    BY <1>2
  <2> HIDE DEF n
  <2>2. temp2.id = s[n].id /\ temp2.size = Len(s[n].body) /\ temp2.body = s[n].body
    BY <1>1, <2>1
  <2> QED BY <2>2
<1>5. temp2 = [id |-> temp2.id, size |-> temp2.size, body |-> temp2.body]
  OBVIOUS
<1>6. ~ Early(l, st2)
  BY DEF Early, Opening
<1>7. got2 = Pushed(got, temp2)
  OBVIOUS
<1>8. LastBody(got2) = temp2.body /\ Len(got2) = n
  BY <1>7, LastPushed
<1>9. TakenInv(l, st2, temp2, got2, s)
  BY <1>5, <1>6, <1>8 DEF TakenInv
<1>10. Delivers(got, got2, s)
  <2>1. Len(got) < Len(s)
    BY <1>1, <1>3
  <2> QED BY <1>1, <1>4, <2>1 DEF Delivers
<1>11. st2.at = "readHeader" => Due(st2, Len(got2), s) = Due(st, Len(got), s)
  BY <1>8 DEF Due, After, Place
<1> QED BY <1>9, <1>10, <1>11
------------------------------------------------------------------------------
(* Steps of one end. *)

LEMMA PeerIs ==
  /\ Ends = {"client", "server"}
  /\ Peer("client") = "server" /\ Peer("server") = "client"
  /\ \A e \in Ends : Peer(e) \in Ends /\ Peer(e) # e /\ Peer(Peer(e)) = e
BY DEF Ends, Peer

\* The same but for running.
Same(f, d) ==
  /\ f.socket = d.socket /\ f.read = d.read /\ f.writes = d.writes
  /\ f.ready = d.ready /\ f.out = d.out /\ f.temp = d.temp

LEMMA SameIs ==
  ASSUME NEW e, NEW d, TokenInv(e, d), NEW f, Same(f, d)
  PROVE  /\ TokenInv(e, f) /\ Stage(e, f) = Stage(e, d)
         /\ SocketInv(d) => SocketInv(f)
         /\ WordInv(d) => WordInv(f)
         /\ Broken(f) <=> Broken(d)
         /\ \A s, b : WriterAt(f, s, b) <=> WriterAt(d, s, b)
<1> USE DEF Same
<1>1. TokenInv(e, f) /\ Stage(e, f) = Stage(e, d)
  BY StageSame
<1>2. (SocketInv(d) => SocketInv(f)) /\ (WordInv(d) => WordInv(f)) /\ (Broken(f) <=> Broken(d))
  BY DEF SocketInv, WordInv, Broken
<1>3. \A s, b : WriterAt(f, s, b) <=> WriterAt(d, s, b)
  BY DEF WriterAt, Front
<1> QED BY <1>1, <1>2, <1>3

\* What the variables hold beside the ends.
ShapeInv ==
  /\ sent = [e \in Ends |-> sent[e]] /\ \A e \in Ends : sent[e] \in Seq(Messages)
  /\ wire = [e \in Ends |-> wire[e]] /\ \A e \in Ends : IsSeq(wire[e])
  /\ \A e \in Ends : IsSeq(received[e])

\* An end e whose reader was at st is at st2, and took nothing from the wire.
Turns(e, l, st, socket, units, st2, socket2) ==
  /\ l \in {"none", "connecting"} => st2.at = "idle"
  /\ Listening(l, st2) /\ socket2 # "closed" =>
       /\ Listening(l, st) /\ socket # "closed"
       /\ Opening(l, st2) <=> Opening(l, st)
       /\ Spoiled(l, st2, units) <=> Spoiled(l, st, units)
  /\ Early(l, st2) \/ st2.at = "answering" => Early(l, st) \/ st.at = "answering"
  /\ e = "server" =>
       /\ st2.at = "gotValidation" => st2 = st
       /\ st2.at \in {"readHeader", "gotHeader", "readBody", "gotBody"} =>
            \/ st.at \in {"readHeader", "gotHeader", "readBody", "gotBody"}
            \/ st.at = "gotValidation" /\ st.unit.kind = "validation"

LEMMA TurnsSame ==
  ASSUME NEW e, NEW l, NEW st, NEW socket, NEW units, NEW socket2,
         l \in {"none", "connecting"} => st.at = "idle", socket2 \in {socket, "closed"}
  PROVE  Turns(e, l, st, socket, units, st, socket2)
BY DEF Turns

LEMMA TurnsOff ==
  ASSUME NEW e, NEW l, NEW st, NEW socket, NEW units, NEW st2, NEW socket2,
         l \notin {"none", "connecting"}, st2.at \in {"idle", "failed"}
  PROVE  Turns(e, l, st, socket, units, st2, socket2)
BY DEF Turns, Listening, Opening, Early

LEMMA TakenOff ==
  ASSUME NEW l, NEW st, NEW temp, NEW got, NEW s, TakenInv(l, st, temp, got, s), NEW st2,
         l \notin {"none", "connecting"}, st2.at \in {"idle", "failed"}
  PROVE  TakenInv(l, st2, temp, got, s)
BY DEF TakenInv, Early, Opening

LEMMA FlowTurnsOn ==
  ASSUME NEW e, NEW l, NEW st, NEW socket, NEW units, NEW n, NEW s, NEW d,
         FlowInv(l, st, socket, units, n, s, d),
         NEW st2, NEW socket2, NEW n2, Turns(e, l, st, socket, units, st2, socket2),
         Listening(l, st2) /\ socket2 # "closed" => Due(st2, n2, s) = Due(st, n, s)
  PROVE  FlowInv(l, st2, socket2, units, n2, s, d)
<1>1. Listening(l, st2) /\ socket2 # "closed" => Rest(l, st2, units) = Rest(l, st, units)
  BY DEF Turns, Rest
<1>2. Listening(l, st2) /\ socket2 # "closed" =>
        Listening(l, st) /\ socket # "closed" /\ (Spoiled(l, st, units) => Spoiled(l, st2, units))
  BY DEF Turns
<1> QED BY <1>1, <1>2, FlowTurns
LEMMA LocalStep ==
  ASSUME ShapeInv, StreamInv, NEW e, e \in Ends, NEW d, Same(end'[e], d),
         end'[Peer(e)] = end[Peer(e)], link' = link, wire' = wire, sent' = sent,
         received'[Peer(e)] = received[Peer(e)],
         TokenInv(e, d), SocketInv(d), WordInv(d), d.socket # "none" \/ d.socket = end[e].socket,
         NEW st, st = Stage(e, end[e]), NEW st2, st2 = Stage(e, d),
         Turns(e, link, st, end[e].socket, wire[Peer(e)], st2, d.socket),
         TakenInv(link, st2, d.temp, received'[e], sent[Peer(e)]),
         Listening(link, st2) /\ d.socket # "closed" =>
           Due(st2, Len(received'[e]), sent[Peer(e)]) = Due(st, Len(received[e]), sent[Peer(e)]),
         GoesOn(end[e], d, sent[e], sent[e]),
         e = "server" =>
           ChallengeInv(link, Stage("client", end["client"]), end["client"].socket, d, wire["server"])
  PROVE  StreamInv'
<1> DEFINE f == end'[e]
           p == Peer(e)
           c == end[e]
<1>p. p \in Ends /\ p # e /\ Peer(p) = e /\ \A x \in Ends : x = e \/ x = p
  BY PeerIs
<1>1. TokenInv(e, f) /\ SocketInv(f) /\ WordInv(f) /\ Stage(e, f) = st2
  BY SameIs
<1>2. f.socket = d.socket /\ f.temp = d.temp /\ f.writes = d.writes
  BY DEF Same
<1>3. GoesOn(c, f, sent[e], sent[e])
  <2>1. (Broken(f) <=> Broken(d)) /\ \A s, b : WriterAt(f, s, b) <=> WriterAt(d, s, b)
    BY SameIs
  <2> QED BY <2>1 DEF GoesOn
<1>4. FlowInv(link, st2, d.socket, wire[p], Len(received'[e]), sent[p], end[p])
  <2>1. FlowInv(link, st, c.socket, wire[p], Len(received[e]), sent[p], end[p])
    BY DEF StreamInv, DirectionInv
  <2> QED BY <2>1, FlowTurnsOn
<1>5. /\ TakenInv(link, Stage(p, end[p]), end[p].temp, received[p], sent[e])
      /\ FlowInv(link, Stage(p, end[p]), end[p].socket, wire[e], Len(received[p]), sent[e], f)
  <2>1. /\ TakenInv(link, Stage(p, end[p]), end[p].temp, received[p], sent[e])
        /\ FlowInv(link, Stage(p, end[p]), end[p].socket, wire[e], Len(received[p]), sent[e], c)
    BY <1>p DEF StreamInv, DirectionInv
  <2>2. IsSeq(wire[e]) /\ IsSeq(sent[e])
    BY DEF ShapeInv, IsSeq
  <2> QED BY <2>1, <2>2, <1>3, FlowGoesOn
<1>6. AnswerInv(link, Stage("client", end["client"]), Stage("server", end["server"]), wire["client"])
      /\ ChallengeInv(link, Stage("client", end["client"]), end["client"].socket, end["server"], wire["server"])
  BY DEF StreamInv
<1>7. AnswerInv(link, Stage("client", end'["client"]), Stage("server", end'["server"]), wire["client"])
  <2>1. CASE e = "client"
    <3>1. Early(link, st2) \/ st2.at = "answering" => Early(link, st) \/ st.at = "answering"
      BY DEF Turns
    <3> QED BY <1>1, <1>6, <2>1, <3>1, PeerIs, AnswerTurns
  <2>2. CASE e = "server"
    <3>1. /\ st2.at = "gotValidation" => st2 = st
          /\ st2.at \in {"readHeader", "gotHeader", "readBody", "gotBody"} =>
               \/ st.at \in {"readHeader", "gotHeader", "readBody", "gotBody"}
               \/ st.at = "gotValidation" /\ st.unit.kind = "validation"
      BY <2>2 DEF Turns
    <3> QED BY <1>1, <1>6, <2>2, <3>1, PeerIs, AskerTurns
  <2> QED BY <2>1, <2>2 DEF Ends
<1>8. ChallengeInv(link, Stage("client", end'["client"]), end'["client"].socket, end'["server"], wire["server"])
  <2>1. CASE e = "client"
    <3>1. Listening(link, st2) /\ d.socket # "closed" =>
            /\ Listening(link, st) /\ c.socket # "closed"
            /\ (Opening(link, st) => Opening(link, st2))
            /\ (Spoiled(link, st2, wire["server"]) => Spoiled(link, st, wire["server"]))
      BY <2>1, PeerIs DEF Turns
    <3>2. link = "up" /\ Opening(link, st2) /\ d.socket # "closed" =>
            Opening(link, st) /\ c.socket # "closed"
      <4>1. Opening(link, st2) => Listening(link, st2)
        BY DEF Listening
      <4> QED BY <4>1 DEF Turns
    <3>3. end'["server"] = end["server"] /\ c = end["client"] /\ f = end'["client"]
      BY <2>1, PeerIs
    <3> HIDE DEF c, f
    <3> QED BY <1>1, <1>2, <1>6, <2>1, <3>1, <3>2, <3>3, ChallengeTurns
  <2>2. CASE e = "server"
    <3>1. ChallengeInv(link, Stage("client", end["client"]), end["client"].socket, d, wire["server"])
      BY <2>2
    <3>2. ChallengeInv(link, Stage("client", end["client"]), end["client"].socket, f, wire["server"])
      BY <1>2, <3>1 DEF ChallengeInv
    <3>3. end'["client"] = end["client"] /\ f = end'["server"]
      BY <2>2, PeerIs
    <3> QED BY <3>2, <3>3
  <2> QED BY <2>1, <2>2 DEF Ends
<1>9. link # "none" => end'["client"].socket # "none"
  <2>1. link # "none" => end["client"].socket # "none"
    BY DEF StreamInv
  <2>2. CASE e = "client"
    BY <2>1, <2>2, <1>2
  <2>3. CASE e = "server"
    BY <2>1, <2>3, PeerIs
  <2> QED BY <2>2, <2>3 DEF Ends
<1>10. \A x \in Ends :
         /\ TokenInv(x, end'[x]) /\ SocketInv(end'[x]) /\ WordInv(end'[x])
         /\ link \in {"none", "connecting"} => Stage(x, end'[x]).at = "idle"
         /\ TakenInv(link, Stage(x, end'[x]), end'[x].temp, received'[x], sent[Peer(x)])
         /\ FlowInv(link, Stage(x, end'[x]), end'[x].socket, wire[Peer(x)], Len(received'[x]), sent[Peer(x)], end'[Peer(x)])
  <2> TAKE x \in Ends
  <2>1. CASE x = e
    <3>1. link \in {"none", "connecting"} => st2.at = "idle"
      BY DEF Turns
    <3> QED BY <1>1, <1>2, <1>4, <2>1, <3>1
  <2>2. CASE x = p
    <3>1. /\ TokenInv(p, end[p]) /\ SocketInv(end[p]) /\ WordInv(end[p])
          /\ link \in {"none", "connecting"} => Stage(p, end[p]).at = "idle"
      BY <1>p DEF StreamInv
    <3> QED BY <1>5, <1>p, <2>2, <3>1
  <2> QED BY <1>p, <2>1, <2>2
<1> QED BY <1>7, <1>8, <1>9, <1>10 DEF StreamInv, DirectionInv
------------------------------------------------------------------------------
(* The sockets and the handshake's writes. *)

LEMMA SocketStays ==
  ASSUME NEW c, SocketInv(c), c.socket # "none", NEW d, d.socket = c.socket,
         c.socket # "open" => d.read = c.read /\ d.writes = c.writes
  PROVE  SocketInv(d)
BY DEF SocketInv

LEMMA SocketCloses ==
  ASSUME NEW d, d.socket = "closed", d.read = "none", d.writes = <<>>
  PROVE  SocketInv(d) /\ WordInv(d)
<1>1. DOMAIN d.writes = {}
  BY NoneSeq
<1> QED BY <1>1 DEF SocketInv, WordInv

\* What runs has a socket, unless it is the accept's handler.
LEMMA SocketOfHead ==
  ASSUME NEW c, IsSeq(c.ready), c.ready # <<>>, SocketInv(c), Head(c.ready).op # "accept"
  PROVE  c.socket \in {"open", "closed"}
<1>1. 1 \in DOMAIN c.ready /\ Head(c.ready) = c.ready[1]
  BY TailSeq
<1> QED BY <1>1 DEF SocketInv

LEMMA SocketOfWrites ==
  ASSUME NEW c, SocketInv(c), c.writes # <<>> \/ c.read # "none"
  PROVE  c.socket = "open"
BY DEF SocketInv

LEMMA WordStays ==
  ASSUME NEW c, WordInv(c), NEW d, d.writes = c.writes
  PROVE  WordInv(d)
BY DEF WordInv

LEMMA WordPushed ==
  ASSUME NEW c, WordInv(c), IsSeq(c.writes), NEW w, w.unit.kind = "validation" <=> w.op = "writeValidation",
         NEW d, d.writes = Pushed(c.writes, w)
  PROVE  WordInv(d)
<1> DEFINE q == c.writes
           n == Len(q)
           r == Pushed(q, w)
<1>1. n \in Nat /\ IsSeq(r) /\ Len(r) = n + 1 /\ (\A i \in 1 .. n : r[i] = q[i]) /\ r[n + 1] = w
  BY PushedIs
<1>2. DOMAIN q = 1 .. n /\ DOMAIN r = 1 .. Len(r)
  BY <1>1, AppendSeq
<1>3. d.writes = r
  OBVIOUS
<1>4. \A i \in DOMAIN q : q[i].unit.kind = "validation" <=> q[i].op = "writeValidation"
  BY DEF WordInv
<1> HIDE DEF n, q, r
<1>5. \A i \in DOMAIN r : r[i].unit.kind = "validation" <=> r[i].op = "writeValidation"
  <2> TAKE i \in DOMAIN r
  <2>1. i \in 1 .. n \/ i = n + 1
    BY <1>1, <1>2
  <2>2. CASE i \in 1 .. n
    BY <1>1, <1>2, <1>4, <2>2
  <2>3. CASE i = n + 1
    BY <1>1, <2>3
  <2> QED BY <2>1, <2>2, <2>3
<1> QED BY <1>3, <1>5 DEF WordInv

LEMMA WordPopped ==
  ASSUME NEW c, WordInv(c), IsSeq(c.writes), c.writes # <<>>, NEW d, d.writes = Popped(c.writes)
  PROVE  /\ WordInv(d)
         /\ Head(c.writes).unit.kind = "validation" <=> Head(c.writes).op = "writeValidation"
<1> DEFINE q == c.writes
           n == Len(q)
           r == Popped(q)
<1>1. /\ n \in Nat \ {0} /\ IsSeq(r) /\ Len(r) = n - 1 /\ (\A i \in 1 .. n - 1 : r[i] = q[i + 1])
      /\ Head(q) = q[1]
  BY PoppedIs
<1>2. DOMAIN q = 1 .. n /\ DOMAIN r = 1 .. Len(r)
  BY <1>1, AppendSeq
<1>3. d.writes = r
  OBVIOUS
<1>4. \A i \in DOMAIN q : q[i].unit.kind = "validation" <=> q[i].op = "writeValidation"
  BY DEF WordInv
<1> HIDE DEF n, q, r
<1>5. \A i \in DOMAIN r : i \in 1 .. n - 1 /\ i + 1 \in DOMAIN q
  BY <1>1, <1>2
<1>6. \A i \in DOMAIN r : r[i].unit.kind = "validation" <=> r[i].op = "writeValidation"
  BY <1>1, <1>4, <1>5
<1>7. 1 \in DOMAIN q
  BY <1>1, <1>2
<1>8. Head(q).unit.kind = "validation" <=> Head(q).op = "writeValidation"
  BY <1>1, <1>4, <1>7
<1> QED BY <1>3, <1>6, <1>8 DEF WordInv, q

------------------------------------------------------------------------------
(* A step that leaves the reader where it is. *)

Kept(e, c, d) ==
  /\ TokenInv(e, d) /\ SocketInv(d) /\ WordInv(d)
  /\ Stage(e, d) = Stage(e, c)
  /\ d.temp = c.temp /\ d.socket = c.socket
  /\ d.writes = c.writes \/ \E w : w.op # "writeValidation" /\ d.writes = Pushed(c.writes, w)

LEMMA KeptStep ==
  ASSUME ShapeInv, StreamInv, NEW e, e \in Ends, NEW d, Same(end'[e], d),
         end'[Peer(e)] = end[Peer(e)], link' = link, wire' = wire, sent' = sent, received' = received,
         IsSeq(end[e].writes), Kept(e, end[e], d), GoesOn(end[e], d, sent[e], sent[e])
  PROVE  StreamInv'
<1> DEFINE c == end[e]
           st == Stage(e, c)
<1>1. /\ TokenInv(e, d) /\ SocketInv(d) /\ WordInv(d) /\ Stage(e, d) = st
      /\ d.temp = c.temp /\ d.socket = c.socket
      /\ d.writes = c.writes \/ \E w : w.op # "writeValidation" /\ d.writes = Pushed(c.writes, w)
  BY DEF Kept
<1>2. /\ link \in {"none", "connecting"} => st.at = "idle"
      /\ TakenInv(link, st, c.temp, received[e], sent[Peer(e)])
      /\ ChallengeInv(link, Stage("client", end["client"]), end["client"].socket, end["server"], wire["server"])
  BY DEF StreamInv, DirectionInv
<1>3. Turns(e, link, st, c.socket, wire[Peer(e)], Stage(e, d), d.socket)
  BY <1>1, <1>2, TurnsSame
<1>4. ASSUME e = "server"
      PROVE  ChallengeInv(link, Stage("client", end["client"]), end["client"].socket, d, wire["server"])
  <2>1. CASE d.writes = c.writes
    BY <1>1, <1>2, <1>4, <2>1 DEF ChallengeInv
  <2>2. ASSUME NEW w, w.op # "writeValidation", d.writes = Pushed(c.writes, w)
        PROVE  ChallengeInv(link, Stage("client", end["client"]), end["client"].socket, d, wire["server"])
    BY <1>1, <1>2, <1>4, <2>2, ChallengeBeforeOthers
  <2> QED BY <1>1, <2>1, <2>2
<1> HIDE DEF c, st
<1>5. st = Stage(e, end[e]) /\ c = end[e]
  BY DEF c, st
<1> QED BY <1>1, <1>2, <1>3, <1>4, <1>5, LocalStep
LEMMA KeptPosts ==
  ASSUME NEW e, e \in Ends, NEW c, IsEnd(c), TokenInv(e, c), SocketInv(c), WordInv(c), c.socket # "none",
         NEW h, h.op \notin Tokens(e), NEW d, d = Post(c, h)
  PROVE  Kept(e, c, d)
<1>1. /\ d.socket = c.socket /\ d.read = c.read /\ d.writes = c.writes /\ d.temp = c.temp
      /\ d.ready = Pushed(c.ready, h)
  BY PostIs
<1>2. TokenInv(e, d) /\ Stage(e, d) = Stage(e, c)
  BY <1>1, StagePosts DEF IsEnd
<1>3. SocketInv(d) /\ WordInv(d)
  BY <1>1, SocketStays, WordStays
<1> QED BY <1>1, <1>2, <1>3 DEF Kept

\* A handler that is not one of the reader's may start a write of a message.
LEMMA KeptHandles ==
  ASSUME NEW e, e \in Ends, NEW c, IsEnd(c), TokenInv(e, c), SocketInv(c), WordInv(c),
         c.ready # <<>>, Head(c.ready).op \notin Tokens(e), Head(c.ready).op # "accept",
         NEW q, IsEnd(q), q.socket = c.socket, q.read = c.read, q.writes = c.writes, q.temp = c.temp,
         q.ready = Popped(c.ready),
         NEW d, d = q \/ \E op \in MessageWrites : \E unit :
                           unit.kind # "validation" /\ d = StartWrite(q, op, unit)
  PROVE  Kept(e, c, d)
<1>1. TokenInv(e, q) /\ Stage(e, q) = Stage(e, c)
  BY StageHandles DEF IsEnd
<1>2. c.socket # "none"
  BY SocketOfHead DEF IsEnd
<1>3. SocketInv(q) /\ WordInv(q)
  BY <1>2, SocketStays, WordStays
<1>4. CASE d = q
  BY <1>1, <1>3, <1>4 DEF Kept
<1>5. ASSUME NEW op, op \in MessageWrites, NEW unit, unit.kind # "validation", d = StartWrite(q, op, unit)
      PROVE  Kept(e, c, d)
  <2>1. op \in Writes /\ op \notin Tokens(e) /\ op # "writeValidation"
    BY <1>5, TokensAre DEF MessageWrites, Writes
  <2>2. CASE q.socket = "open"
    <3>1. /\ d.socket = q.socket /\ d.read = q.read /\ d.temp = q.temp /\ d.ready = q.ready
          /\ \E w : w.op = op /\ w.unit = unit /\ d.writes = Pushed(q.writes, w)
      BY <1>5, <2>1, <2>2, StartWriteOpen
    <3>2. PICK w : w.op = op /\ w.unit = unit /\ d.writes = Pushed(q.writes, w)
      BY <3>1
    <3>3. w.op \notin Tokens(e) /\ w.op # "writeValidation" /\ w.unit.kind # "validation"
      BY <1>5, <2>1, <3>2
    <3>4. TokenInv(e, d) /\ Stage(e, d) = Stage(e, q)
      BY <1>1, <3>1, <3>2, <3>3, StageWrites DEF IsEnd
    <3>5. SocketInv(d)
      BY <1>2, <1>3, <2>2, <3>1, SocketStays
    <3>6. WordInv(d)
      BY <1>3, <3>2, <3>3, WordPushed DEF IsEnd
    <3> QED BY <1>1, <3>1, <3>2, <3>3, <3>4, <3>5, <3>6 DEF Kept
  <2>3. CASE q.socket # "open"
    <3>1. /\ d.socket = q.socket /\ d.read = q.read /\ d.temp = q.temp /\ d.writes = q.writes
          /\ \E h : h.op = op /\ ~ h.ok /\ d.ready = Pushed(q.ready, h)
      BY <1>5, <2>1, <2>3, StartWriteShut
    <3>2. PICK h : h.op = op /\ ~ h.ok /\ d.ready = Pushed(q.ready, h)
      BY <3>1
    <3>3. TokenInv(e, d) /\ Stage(e, d) = Stage(e, q)
      <4>1. h.op \notin Tokens(e)
        BY <2>1, <3>2
      <4>2. d.ready = Pushed(q.ready, h)
        BY <3>2
      <4> QED BY <1>1, <3>1, <4>1, <4>2, StagePosts DEF IsEnd
    <3>4. SocketInv(d) /\ WordInv(d)
      BY <1>2, <1>3, <3>1, SocketStays, WordStays
    <3> QED BY <1>1, <3>1, <3>3, <3>4 DEF Kept
  <2> QED BY <2>2, <2>3
<1> QED BY <1>4, <1>5

------------------------------------------------------------------------------
(* A step that closes the socket. *)

LEMMA ClosedStep ==
  ASSUME ShapeInv, StreamInv, NEW e, e \in Ends, NEW d, Same(end'[e], d),
         end'[Peer(e)] = end[Peer(e)], link' = link, wire' = wire, sent' = sent, received' = received,
         d.socket = "closed", d.read = "none", d.writes = <<>>, d.temp = end[e].temp, TokenInv(e, d),
         \/ Stage(e, d) = Stage(e, end[e])
         \/ Stage(e, d).at \in {"idle", "failed"} /\ link \notin {"none", "connecting"}
  PROVE  StreamInv'
<1> DEFINE c == end[e]
           st == Stage(e, c)
           st2 == Stage(e, d)
<1>1. /\ link \in {"none", "connecting"} => st.at = "idle"
      /\ TakenInv(link, st, c.temp, received[e], sent[Peer(e)])
      /\ ChallengeInv(link, Stage("client", end["client"]), end["client"].socket, end["server"], wire["server"])
  BY DEF StreamInv, DirectionInv
<1>2. Turns(e, link, st, c.socket, wire[Peer(e)], st2, d.socket)
  <2>1. CASE st2 = st
    BY <1>1, <2>1, TurnsSame
  <2>2. CASE st2.at \in {"idle", "failed"} /\ link \notin {"none", "connecting"}
    BY <2>2, TurnsOff
  <2> QED BY <2>1, <2>2
<1>3. TakenInv(link, st2, d.temp, received[e], sent[Peer(e)])
  <2>1. CASE st2 = st
    BY <1>1, <2>1
  <2>2. CASE st2.at \in {"idle", "failed"} /\ link \notin {"none", "connecting"}
    BY <1>1, <2>2, TakenOff
  <2> QED BY <2>1, <2>2
<1>4. GoesOn(c, d, sent[e], sent[e])
  BY DEF GoesOn, Broken
<1>5. SocketInv(d) /\ WordInv(d)
  BY SocketCloses
<1>6. e = "server" =>
        ChallengeInv(link, Stage("client", end["client"]), end["client"].socket, d, wire["server"])
  BY <1>1, ChallengeCloses
<1> HIDE DEF c, st, st2
<1>7. st = Stage(e, end[e]) /\ c = end[e] /\ st2 = Stage(e, d)
  BY DEF c, st, st2
<1> QED BY <1>2, <1>3, <1>4, <1>5, <1>6, <1>7, LocalStep
------------------------------------------------------------------------------
(* The handlers. *)

LEMMA EndIs ==
  ASSUME Inv, StreamInv, NEW e, e \in Ends
  PROVE  /\ EndInv(end[e]) /\ IsEnd(end[e]) /\ IsSeq(end[e].ready) /\ IsSeq(end[e].writes)
         /\ TokenInv(e, end[e]) /\ SocketInv(end[e]) /\ WordInv(end[e])
         /\ link \in {"none", "connecting"} => Stage(e, end[e]).at = "idle"
BY DEF Inv, StreamInv, EndInv, IsEnd

LEMMA BecomesIs ==
  ASSUME Inv, NEW e, e \in Ends, NEW d, IsEnd(d), Becomes(e, d)
  PROVE  Same(end'[e], d) /\ end'[Peer(e)] = end[Peer(e)]
<1>1. end = [x \in Ends |-> end[x]] /\ Peer(e) \in Ends /\ Peer(e) # e
  BY PeerIs DEF Inv
<1>2. PICK v : end' = [end EXCEPT ![e] = [d EXCEPT !.running = v]]
  BY DEF Becomes
<1>3. end'[e] = [d EXCEPT !.running = v] /\ end'[Peer(e)] = end[Peer(e)]
  BY <1>1, <1>2
<1>4. d = [socket |-> d.socket, running |-> d.running, ready |-> d.ready, read |-> d.read,
           writes |-> d.writes, out |-> d.out, temp |-> d.temp]
  BY DEF IsEnd
<1>5. [d EXCEPT !.running = v] =
        [socket |-> d.socket, running |-> v, ready |-> d.ready, read |-> d.read,
         writes |-> d.writes, out |-> d.out, temp |-> d.temp]
  BY <1>4
<1> QED BY <1>3, <1>5 DEF Same

LEMMA HandlerIs ==
  ASSUME Inv, StreamInv, NEW e, e \in Ends, NEW op, NEW ok, Runs(e, op, ok)
  PROVE  /\ end[e].ready # <<>> /\ Head(end[e].ready).op = op
         /\ op \notin {"send", "close", "accept"} => Head(end[e].ready).ok = ok
         /\ Handled(e) = [end[e] EXCEPT !.ready = Tail(end[e].ready)]
         /\ Handled(e).socket = end[e].socket /\ Handled(e).read = end[e].read
         /\ Handled(e).writes = end[e].writes /\ Handled(e).out = end[e].out
         /\ Handled(e).temp = end[e].temp /\ Handled(e).ready = Popped(end[e].ready)
         /\ IsEnd(Handled(e))
         /\ TokenInv(e, Handled(e))
<1>1. end[e].ready # <<>> /\ Head(end[e].ready).op = op
      /\ (op \notin {"send", "close", "accept"} => Head(end[e].ready).ok = ok)
  BY DEF Runs
<1>2. Handled(e) = [end[e] EXCEPT !.ready = Tail(end[e].ready)]
  BY DEF Handled
<1>3. /\ Handled(e).socket = end[e].socket /\ Handled(e).read = end[e].read
      /\ Handled(e).writes = end[e].writes /\ Handled(e).out = end[e].out
      /\ Handled(e).temp = end[e].temp /\ Handled(e).ready = Popped(end[e].ready)
      /\ IsEnd(Handled(e))
  BY <1>1, <1>2, EndIs, HandledIs
<1>4. TokenInv(e, Handled(e))
  BY <1>1, <1>3, EndIs, StageHandles
<1> QED BY <1>1, <1>2, <1>3, <1>4

LEMMA ReadyIs ==
  ASSUME NEW h
  PROVE  Ready(h).at # "idle" /\ Ready(h).at # "answering" /\ Ready(h).at \notin Reads
BY DEF Ready, Turn, Reads

\* The reader's handler runs when there is a connection.
LEMMA TokenUp ==
  ASSUME Inv, StreamInv, NEW e, e \in Ends, end[e].ready # <<>>, Head(end[e].ready).op \in Tokens(e)
  PROVE  /\ link \notin {"none", "connecting"}
         /\ Stage(e, end[e]) = Ready(Head(end[e].ready))
<1>1. Stage(e, end[e]) = Ready(Head(end[e].ready))
  <2> DEFINE p == Handled(e)
  <2>1. p.read = end[e].read /\ p.writes = end[e].writes /\ p.ready = Popped(end[e].ready)
    BY EndIs, HandledIs DEF Handled
  <2> QED BY <2>1, EndIs, StageHandles
<1>2. Ready(Head(end[e].ready)).at # "idle"
  BY ReadyIs
<1> QED BY <1>1, <1>2, EndIs

LEMMA RunCloses ==
  ASSUME Inv, ShapeInv, StreamInv, NEW e, e \in Ends, NEW op, NEW ok, Runs(e, op, ok), op # "accept",
         Becomes(e, Close(Handled(e))), link' = link, wire' = wire, sent' = sent, received' = received
  PROVE  StreamInv'
<1> DEFINE c == end[e]
           p == Handled(e)
           d == Close(p)
<1>1. /\ IsEnd(c) /\ TokenInv(e, c) /\ SocketInv(c) /\ IsSeq(c.ready)
      /\ link \in {"none", "connecting"} => Stage(e, c).at = "idle"
  BY EndIs
<1>2. /\ c.ready # <<>> /\ Head(c.ready).op = op
      /\ p.socket = c.socket /\ p.read = c.read /\ p.writes = c.writes /\ p.temp = c.temp
      /\ p.ready = Popped(c.ready) /\ IsEnd(p)
  BY HandlerIs
<1>3. p.socket \in {"open", "closed"}
  BY <1>1, <1>2, SocketOfHead
<1>4. d.socket = "closed" /\ d.read = "none" /\ d.writes = <<>> /\ d.temp = c.temp /\ IsEnd(d)
  BY <1>2, <1>3, CloseClosed, CloseIs
<1>5. /\ TokenInv(e, p)
      /\ op \notin Tokens(e) => Stage(e, p) = Stage(e, c) /\ (Vacant(e, c) => Vacant(e, p))
      /\ op \in Tokens(e) => Vacant(e, p)
  BY <1>1, <1>2, StageHandles
<1>6. /\ TokenInv(e, d) /\ (Vacant(e, p) => Vacant(e, d))
      /\ Stage(e, d) = Stage(e, p) \/ (~ Vacant(e, p) /\ Stage(e, d).at \in {"idle", "failed"})
  BY <1>2, <1>5, StageCloses
<1>7. \/ Stage(e, d) = Stage(e, c)
      \/ Stage(e, d).at \in {"idle", "failed"} /\ link \notin {"none", "connecting"}
  <2>1. CASE op \in Tokens(e)
    <3>1. Stage(e, d) = Turn("idle", NoUnit)
      BY <1>5, <1>6, <2>1, VacantIs
    <3>2. link \notin {"none", "connecting"}
      BY <1>2, <2>1, TokenUp
    <3> QED BY <3>1, <3>2 DEF Turn
  <2>2. CASE op \notin Tokens(e)
    <3>1. link \in {"none", "connecting"} => Vacant(e, p)
      BY <1>1, <1>5, <2>2, IdleIs
    <3> QED BY <1>5, <1>6, <2>2, <3>1
  <2> QED BY <2>1, <2>2
<1>8. Same(end'[e], d) /\ end'[Peer(e)] = end[Peer(e)]
  BY <1>4, BecomesIs
<1> HIDE DEF d
<1> QED BY <1>4, <1>6, <1>7, <1>8, ClosedStep
LEMMA OutIs ==
  ASSUME NEW c, IsEnd(c), NEW x, IsSeq(x), NEW d,
         d = [socket |-> c.socket, running |-> c.running, ready |-> c.ready, read |-> c.read,
              writes |-> c.writes, out |-> x, temp |-> c.temp]
  PROVE  /\ d.socket = c.socket /\ d.read = c.read /\ d.writes = c.writes /\ d.ready = c.ready
         /\ d.temp = c.temp /\ d.out = x /\ IsEnd(d)
<1>2. /\ d.socket = c.socket /\ d.read = c.read /\ d.writes = c.writes /\ d.ready = c.ready
      /\ d.temp = c.temp /\ d.out = x /\ d.running = c.running
  OBVIOUS
<1> QED BY <1>2 DEF IsEnd

\* A write of a message that a handler starts.
LEMMA WritingIs ==
  ASSUME NEW c
  PROVE  /\ \E unit : unit.kind # "validation" /\ WriteHeader(c) = StartWrite(c, "writeHeader", unit)
         /\ \E unit : unit.kind # "validation" /\ WriteBody(c) = StartWrite(c, "writeBody", unit)
<1>1. \E unit : unit.kind # "validation" /\ WriteHeader(c) = StartWrite(c, "writeHeader", unit)
  <2> DEFINE u == [kind |-> "header", id |-> Head(c.out).id, size |-> Len(Head(c.out).body)]
  <2>1. WriteHeader(c) = StartWrite(c, "writeHeader", u)
    BY Zenon DEF WriteHeader
  <2>2. u.kind = "header"
    OBVIOUS
  <2>3. u.kind # "validation"
    BY <2>2
  <2> HIDE DEF u
  <2> QED BY <2>1, <2>3, Zenon
<1>2. \E unit : unit.kind # "validation" /\ WriteBody(c) = StartWrite(c, "writeBody", unit)
  <2> DEFINE u == [kind |-> "body", data |-> Head(c.out).body]
  <2>1. WriteBody(c) = StartWrite(c, "writeBody", u)
    BY Zenon DEF WriteBody
  <2>2. u.kind # "validation"
    OBVIOUS
  <2> HIDE DEF u
  <2> QED BY <2>1, <2>2, Zenon
<1> QED BY <1>1, <1>2

\* The handler leaves q of the end, and may start a write of a message.
LEMMA RunKeeps ==
  ASSUME Inv, ShapeInv, StreamInv, NEW e, e \in Ends, NEW op, NEW ok, Runs(e, op, ok),
         op \notin Tokens(e), op # "accept",
         NEW q, IsEnd(q), q.socket = end[e].socket, q.read = end[e].read, q.writes = end[e].writes,
         q.temp = end[e].temp, q.ready = Popped(end[e].ready),
         NEW d, d = q \/ d = WriteHeader(q) \/ d = WriteBody(q),
         d.socket = end[e].socket => GoesOn(end[e], d, sent[e], sent[e]),
         Becomes(e, d), link' = link, wire' = wire, sent' = sent, received' = received
  PROVE  StreamInv'
<1>1. /\ EndInv(end[e]) /\ IsEnd(end[e]) /\ TokenInv(e, end[e]) /\ SocketInv(end[e]) /\ WordInv(end[e])
      /\ IsSeq(end[e].writes)
  BY EndIs
<1>2. end[e].ready # <<>> /\ Head(end[e].ready).op = op
  BY HandlerIs
<1>3. d = q \/ \E w \in MessageWrites : \E unit : unit.kind # "validation" /\ d = StartWrite(q, w, unit)
  <2>1. CASE d = q
    BY <2>1
  <2>2. CASE d = WriteHeader(q)
    <3>1. PICK unit : unit.kind # "validation" /\ WriteHeader(q) = StartWrite(q, "writeHeader", unit)
      BY WritingIs
    <3> QED BY <2>2, <3>1 DEF MessageWrites
  <2>3. CASE d = WriteBody(q)
    <3>1. PICK unit : unit.kind # "validation" /\ WriteBody(q) = StartWrite(q, "writeBody", unit)
      BY WritingIs
    <3> QED BY <2>3, <3>1 DEF MessageWrites
  <2> QED BY <2>1, <2>2, <2>3
<1>4. Kept(e, end[e], d)
  BY <1>1, <1>2, <1>3, KeptHandles
<1>5. IsEnd(d) /\ d.socket = end[e].socket
  <2>1. CASE d = q
    BY <2>1
  <2>2. ASSUME NEW w, w \in MessageWrites, NEW unit, d = StartWrite(q, w, unit)
        PROVE  IsEnd(d) /\ d.socket = end[e].socket
    <3>1. w \in Writes
      BY <2>2 DEF MessageWrites, Writes
    <3> QED BY <2>2, <3>1, StartWriteIs
  <2> QED BY <1>3, <2>1, <2>2
<1>6. Same(end'[e], d) /\ end'[Peer(e)] = end[Peer(e)]
  BY <1>5, BecomesIs
<1> QED BY <1>1, <1>4, <1>5, <1>6, KeptStep

LEMMA RunSendStream ==
  ASSUME Inv, ShapeInv, StreamInv, NEW e, e \in Ends, RunSend(e)
  PROVE  StreamInv'
<1> DEFINE c == end[e]
           p == Handled(e)
           x == Append(p.out, Head(c.ready).message)
           q == [p EXCEPT !.out = x]
           d == IF c.out = <<>> THEN WriteHeader(q) ELSE q
<1>1. Runs(e, "send", TRUE) /\ Becomes(e, d)
      /\ link' = link /\ wire' = wire /\ sent' = sent /\ received' = received
  BY DEF RunSend
<1>2. /\ c.ready # <<>> /\ Head(c.ready).op = "send" /\ p = [c EXCEPT !.ready = Tail(c.ready)]
      /\ p.socket = c.socket /\ p.read = c.read /\ p.writes = c.writes /\ p.temp = c.temp
      /\ p.out = c.out /\ p.ready = Popped(c.ready) /\ IsEnd(p)
  BY <1>1, HandlerIs
<1>3. IsSeq(x) /\ x = Pushed(c.out, Head(c.ready).message)
  <2>1. IsSeq(x)
    BY <1>2, AppendSeq DEF IsEnd
  <2>2. x = Pushed(p.out, Head(c.ready).message)
    BY Zenon DEF Pushed
  <2> HIDE DEF x, p
  <2> QED BY <1>2, <2>1, <2>2
<1> HIDE DEF p, x
<1>4. /\ q.socket = c.socket /\ q.read = c.read /\ q.writes = c.writes /\ q.temp = c.temp
      /\ q.ready = Popped(c.ready) /\ IsEnd(q) /\ q.out = x
  <2>0. IsEnd(p)
    BY <1>2
  <2>1. q = [socket |-> p.socket, running |-> p.running, ready |-> p.ready, read |-> p.read,
              writes |-> p.writes, out |-> x, temp |-> p.temp]
    BY <2>0 DEF IsEnd
  <2> HIDE DEF q
  <2>2. IsEnd(p) /\ IsSeq(x)
    BY <1>2, <1>3
  <2>3. /\ q.socket = p.socket /\ q.read = p.read /\ q.writes = p.writes /\ q.ready = p.ready
        /\ q.temp = p.temp /\ q.out = x /\ IsEnd(q)
    BY <2>1, <2>2, OutIs
  <2> QED BY <1>2, <2>3
<1>5. EndInv(c) /\ IsSeq(sent[e])
  BY EndIs DEF ShapeInv, IsSeq
<1> HIDE DEF q, d
<1>7. d = (IF c.out = <<>> THEN WriteHeader(q) ELSE q)
  BY DEF d
<1>8. d.socket = c.socket => GoesOn(c, d, sent[e], sent[e])
  <2>1. q.out = Pushed(c.out, Head(c.ready).message)
    BY <1>3, <1>4
  <2> QED BY <1>2, <1>4, <1>5, <1>7, <2>1, WriterQueues
<1>9. "send" \notin Tokens(e)
  BY TokensAre
<1> QED BY <1>1, <1>4, <1>7, <1>8, <1>9, RunKeeps

LEMMA RunWriteStream ==
  ASSUME Inv, ShapeInv, StreamInv, NEW e, e \in Ends, RunWriteHeader(e) \/ RunWriteBody(e)
  PROVE  StreamInv'
<1> DEFINE c == end[e]
           p == Handled(e)
           x == Tail(p.out)
           popped == [p EXCEPT !.out = x]
<1>1. PICK op \in MessageWrites :
        Runs(e, op, TRUE) /\ (op = "writeHeader" => RunWriteHeader(e)) /\ (op = "writeBody" => RunWriteBody(e))
  BY DEF RunWriteHeader, RunWriteBody, MessageWrites
<1> DEFINE d == IF op = "writeHeader" /\ Head(p.out).body # <<>> THEN WriteBody(p) ELSE PopAndGoOn(p)
<1>2. /\ c.ready # <<>> /\ Head(c.ready).op = op /\ p = [c EXCEPT !.ready = Tail(c.ready)]
      /\ p.socket = c.socket /\ p.read = c.read /\ p.writes = c.writes /\ p.temp = c.temp
      /\ p.out = c.out /\ p.ready = Popped(c.ready) /\ IsEnd(p)
  BY <1>1, HandlerIs
<1>3. Becomes(e, d) /\ link' = link /\ wire' = wire /\ sent' = sent /\ received' = received
  BY <1>1, <1>2 DEF RunWriteHeader, RunWriteBody, MessageWrites
<1>4. EndInv(c) /\ IsSeq(sent[e])
  BY EndIs DEF ShapeInv, IsSeq
<1>5. Head(c.ready).ok
  <2>1. op \notin {"send", "close", "accept"}
    BY <1>1 DEF MessageWrites
  <2> QED BY <1>1, <2>1 DEF Runs
<1>6. p.out # <<>>
  BY <1>1, Running
<1>7. IsSeq(x)
  BY <1>2, <1>6, TailSeq DEF IsEnd
<1>8. d = WriteBody(p) \/ d = popped \/ d = WriteHeader(popped)
  BY Zenon DEF PopAndGoOn
<1> HIDE DEF x, p
<1>14. /\ popped.socket = c.socket /\ popped.read = c.read /\ popped.writes = c.writes
      /\ popped.temp = c.temp /\ popped.ready = Popped(c.ready) /\ IsEnd(popped)
  <2>0. IsEnd(p)
    BY <1>2
  <2>1. popped = [socket |-> p.socket, running |-> p.running, ready |-> p.ready, read |-> p.read,
              writes |-> p.writes, out |-> x, temp |-> p.temp]
    BY <2>0 DEF IsEnd
  <2> HIDE DEF popped
  <2>2. IsEnd(p) /\ IsSeq(x)
    BY <1>2, <1>7
  <2>3. /\ popped.socket = p.socket /\ popped.read = p.read /\ popped.writes = p.writes
        /\ popped.ready = p.ready /\ popped.temp = p.temp /\ IsEnd(popped)
    BY <2>1, <2>2, OutIs
  <2> QED BY <1>2, <2>3
<1> HIDE DEF popped
<1>9. d = (IF op = "writeHeader" /\ Head(p.out).body # <<>> THEN WriteBody(p) ELSE PopAndGoOn(p))
  OBVIOUS
<1> HIDE DEF d
<1>10. d.socket = c.socket => GoesOn(c, d, sent[e], sent[e])
  BY <1>1, <1>2, <1>4, <1>5, <1>9, WriterWrites
<1>11. op \notin Tokens(e) /\ op # "accept"
  BY <1>1, TokensAre DEF MessageWrites
<1>12. CASE d = WriteBody(p)
  BY <1>1, <1>2, <1>3, <1>10, <1>11, <1>12, RunKeeps
<1>13. CASE d = popped \/ d = WriteHeader(popped)
  BY <1>1, <1>3, <1>14, <1>10, <1>11, <1>13, RunKeeps
<1> QED BY <1>8, <1>12, <1>13
------------------------------------------------------------------------------
(* The handlers of the reader. *)

\* A handler of the reader leaves f of the end and starts the next read.
LEMMA ReadOn ==
  ASSUME Inv, ShapeInv, StreamInv, NEW e, e \in Ends, NEW head, head = Head(end[e].ready),
         end[e].ready # <<>>, head.op \in Tokens(e), head.op # "accept",
         NEW f, IsEnd(f), f.socket = end[e].socket, f.read = end[e].read, f.writes = end[e].writes,
         f.out = end[e].out, f.ready = Popped(end[e].ready),
         NEW op, op \in Reads, NEW d, d = StartRead(f, op), Becomes(e, d),
         link' = link, wire' = wire, sent' = sent, received'[Peer(e)] = received[Peer(e)],
         end[e].socket = "open" /\ link \notin {"none", "connecting"} =>
           Turns(e, link, Ready(head), "open", wire[Peer(e)], Turn(op, NoUnit), "open"),
         link \notin {"none", "connecting"} =>
           \A st2 : st2.at \in {op, "failed"} => TakenInv(link, st2, f.temp, received'[e], sent[Peer(e)]),
         \A st2 : st2.at = op =>
           Due(st2, Len(received'[e]), sent[Peer(e)]) = Due(Ready(head), Len(received[e]), sent[Peer(e)])
  PROVE  StreamInv'
<1> DEFINE c == end[e]
           st == Stage(e, c)
           st2 == Stage(e, d)
<1>1. /\ IsEnd(c) /\ TokenInv(e, c) /\ SocketInv(c) /\ WordInv(c) /\ IsSeq(c.ready)
  BY EndIs
<1>2. link \notin {"none", "connecting"} /\ st = Ready(head)
  BY TokenUp
<1>3. Vacant(e, f)
  BY <1>1, StageHandles
<1>4. /\ TokenInv(e, d)
      /\ f.socket = "open" => st2 = Turn(op, NoUnit)
      /\ f.socket # "open" => st2 = Turn("failed", NoUnit)
  BY <1>3, StageStartsRead
<1>5. d.socket = c.socket /\ d.writes = c.writes /\ d.out = c.out /\ d.temp = f.temp /\ IsEnd(d)
  BY StartReadIs
<1>6. c.socket \in {"open", "closed"}
  BY <1>1, SocketOfHead
<1>7. c.socket # "open" => d.read = c.read
  BY StartReadShut
<1>8. SocketInv(d) /\ WordInv(d)
  BY <1>1, <1>5, <1>6, <1>7, SocketStays, WordStays
<1>9. GoesOn(c, d, sent[e], sent[e])
  <2>1. IsSeq(sent[e])
    BY DEF ShapeInv, IsSeq
  <2>2. head.op \notin MessageWrites /\ head.op # "send"
    BY TokensAre
  <2>3. GoesOn(c, f, sent[e], sent[e])
    BY <1>1, <2>1, <2>2, WriterHandles
  <2>4. GoesOn(f, d, sent[e], sent[e])
    BY <2>1, WriterReads
  <2> QED BY <2>3, <2>4, GoesOnTwice
<1>10. ASSUME e = "server"
       PROVE  ChallengeInv(link, Stage("client", end["client"]), end["client"].socket, d, wire["server"])
  <2>1. ChallengeInv(link, Stage("client", end["client"]), end["client"].socket, c, wire["server"])
    BY <1>10 DEF StreamInv
  <2> QED BY <1>5, <2>1 DEF ChallengeInv
<1>11. Turns(e, link, st, c.socket, wire[Peer(e)], st2, d.socket)
  <2>1. CASE c.socket = "open"
    BY <1>2, <1>4, <1>5, <2>1
  <2>2. CASE c.socket # "open"
    <3>1. st2.at = "failed"
      BY <1>4, <2>2 DEF Turn
    <3> QED BY <1>2, <3>1, TurnsOff
  <2> QED BY <2>1, <2>2
<1>12. st2.at \in {op, "failed"} /\ (d.socket # "closed" => st2.at = op)
  BY <1>4, <1>5, <1>6 DEF Turn
<1>13. TakenInv(link, st2, d.temp, received'[e], sent[Peer(e)])
  BY <1>2, <1>5, <1>12
<1>14. Listening(link, st2) /\ d.socket # "closed" =>
         Due(st2, Len(received'[e]), sent[Peer(e)]) = Due(st, Len(received[e]), sent[Peer(e)])
  BY <1>2, <1>12
<1>15. Same(end'[e], d) /\ end'[Peer(e)] = end[Peer(e)]
  BY <1>5, BecomesIs
<1>16. d.socket # "none"
  BY <1>5, <1>6
<1> HIDE DEF c, st, st2
<1>17. st = Stage(e, end[e]) /\ c = end[e] /\ st2 = Stage(e, d)
  BY DEF c, st, st2
<1> QED BY <1>4, <1>8, <1>9, <1>10, <1>11, <1>13, <1>14, <1>15, <1>16, <1>17, LocalStep

\* A handler that does nothing more.
LEMMA ReadNoMore ==
  ASSUME Inv, ShapeInv, StreamInv, NEW e, e \in Ends, end[e].ready # <<>>,
         Head(end[e].ready).op \in Tokens(e), Head(end[e].ready).op # "accept",
         Becomes(e, Handled(e)), link' = link, wire' = wire, sent' = sent, received' = received
  PROVE  StreamInv'
<1> DEFINE c == end[e]
           d == Handled(e)
           st == Stage(e, c)
           st2 == Stage(e, d)
<1>1. /\ IsEnd(c) /\ TokenInv(e, c) /\ SocketInv(c) /\ WordInv(c) /\ IsSeq(c.ready)
  BY EndIs
<1>2. link \notin {"none", "connecting"}
  BY TokenUp
<1>3. /\ d.socket = c.socket /\ d.read = c.read /\ d.writes = c.writes /\ d.out = c.out
      /\ d.temp = c.temp /\ d.ready = Popped(c.ready) /\ IsEnd(d)
  BY <1>1, HandledIs DEF Handled
<1>4. Vacant(e, d)
  BY <1>1, <1>3, StageHandles
<1>5. TokenInv(e, d) /\ st2.at = "idle"
  BY <1>4, VacantIs DEF Turn
<1>6. c.socket \in {"open", "closed"}
  BY <1>1, SocketOfHead
<1>7. SocketInv(d) /\ WordInv(d)
  BY <1>1, <1>3, <1>6, SocketStays, WordStays
<1>8. GoesOn(c, d, sent[e], sent[e])
  <2>1. IsSeq(sent[e])
    BY DEF ShapeInv, IsSeq
  <2>2. Head(c.ready).op \notin MessageWrites /\ Head(c.ready).op # "send"
    BY TokensAre
  <2> QED BY <1>1, <1>3, <2>1, <2>2, WriterHandles
<1>9. ASSUME e = "server"
      PROVE  ChallengeInv(link, Stage("client", end["client"]), end["client"].socket, d, wire["server"])
  <2>1. ChallengeInv(link, Stage("client", end["client"]), end["client"].socket, c, wire["server"])
    BY <1>9 DEF StreamInv
  <2> QED BY <1>3, <2>1 DEF ChallengeInv
<1>10. Turns(e, link, st, c.socket, wire[Peer(e)], st2, d.socket)
  BY <1>2, <1>5, TurnsOff
<1>11. TakenInv(link, st2, d.temp, received[e], sent[Peer(e)])
  <2>1. TakenInv(link, st, c.temp, received[e], sent[Peer(e)])
    BY DEF StreamInv, DirectionInv
  <2> QED BY <1>2, <1>3, <1>5, <2>1, TakenOff
<1>12. ~ Listening(link, st2)
  BY <1>2, <1>5 DEF Listening, Opening
<1>13. Same(end'[e], d) /\ end'[Peer(e)] = end[Peer(e)]
  BY <1>3, BecomesIs
<1> HIDE DEF c, d, st, st2
<1>14. st = Stage(e, end[e]) /\ c = end[e] /\ st2 = Stage(e, d)
  BY DEF c, st, st2
<1> QED BY <1>3, <1>5, <1>7, <1>8, <1>9, <1>10, <1>11, <1>12, <1>13, <1>14, LocalStep
LEMMA DirectionIs ==
  ASSUME StreamInv, NEW e, e \in Ends
  PROVE  /\ TakenInv(link, Stage(e, end[e]), end[e].temp, received[e], sent[Peer(e)])
         /\ FlowInv(link, Stage(e, end[e]), end[e].socket, wire[Peer(e)], Len(received[e]), sent[Peer(e)], end[Peer(e)])
BY DEF StreamInv, DirectionInv

LEMMA RunConnectedStream ==
  ASSUME Inv, ShapeInv, StreamInv, NEW ok, RunConnected(ok)
  PROVE  StreamInv'
<1> DEFINE e == "client"
           c == end[e]
           f == Handled(e)
           head == Head(c.ready)
<1>0. e \in Ends /\ "connected" \in Tokens(e)
  BY TokensAre DEF Ends
<1>1. Runs(e, "connected", ok) /\ link' = link /\ wire' = wire /\ sent' = sent /\ received' = received
      /\ Becomes(e, IF ok /\ f.socket = "open" THEN ReadValidation(f) ELSE f)
  BY DEF RunConnected
<1>2. /\ c.ready # <<>> /\ head.op = "connected" /\ head.ok = ok
      /\ f.socket = c.socket /\ f.read = c.read /\ f.writes = c.writes /\ f.out = c.out
      /\ f.temp = c.temp /\ f.ready = Popped(c.ready) /\ IsEnd(f)
  BY <1>0, <1>1, HandlerIs
<1>3. CASE ok /\ f.socket = "open"
  <2>1. Ready(head) = Turn("connected", NoUnit)
    BY <1>2, <1>3 DEF Ready
  <2>2. Becomes(e, StartRead(f, "readValidation"))
    BY <1>1, <1>3 DEF ReadValidation
  <2> DEFINE st == Ready(head)
             op == "readValidation"
  <2>3. Turns(e, link, st, "open", wire[Peer(e)], Turn(op, NoUnit), "open")
        \/ link \in {"none", "connecting"}
    BY <2>1 DEF Turns, Turn, Listening, Opening, Spoiled, Early
  <2>4. link \notin {"none", "connecting"} =>
          \A st2 : st2.at \in {op, "failed"} => TakenInv(link, st2, f.temp, received[e], sent[Peer(e)])
    <3> SUFFICES ASSUME link \notin {"none", "connecting"}, NEW st2, st2.at \in {op, "failed"}
                 PROVE  TakenInv(link, st2, f.temp, received[e], sent[Peer(e)])
      OBVIOUS
    <3>1. TakenInv(link, Stage(e, c), c.temp, received[e], sent[Peer(e)])
      BY <1>0, DirectionIs
    <3>2. Stage(e, c) = st
      BY <1>0, <1>2, TokenUp
    <3>3. Early(link, st)
      BY <2>1 DEF Early, Opening, Turn
    <3> QED BY <1>2, <3>1, <3>2, <3>3, TakenTurns
  <2>5. \A st2 : st2.at = op =>
          Due(st2, Len(received[e]), sent[Peer(e)]) = Due(st, Len(received[e]), sent[Peer(e)])
    BY <2>1 DEF Due, Turn
  <2>6. op \in Reads
    BY DEF Reads
  <2> HIDE DEF c, f, head, op, e
  <2>7. c = end[e] /\ head = Head(end[e].ready) /\ head.op \in Tokens(e) /\ head.op # "accept"
    BY <1>0, <1>2 DEF c, head
  <2>8. Becomes(e, StartRead(f, op))
    BY <2>2 DEF op
  <2> QED BY <1>0, <1>1, <1>2, <2>3, <2>4, <2>5, <2>6, <2>7, <2>8, ReadOn
<1>4. CASE ~ (ok /\ f.socket = "open")
  <2>1. Becomes(e, f)
    BY <1>1, <1>4
  <2> QED BY <1>0, <1>1, <1>2, <2>1, ReadNoMore
<1> QED BY <1>3, <1>4

LEMMA RunWriteValidationStream ==
  ASSUME Inv, ShapeInv, StreamInv, NEW e, e \in Ends, RunWriteValidation(e)
  PROVE  StreamInv'
<1> DEFINE c == end[e]
           f == Handled(e)
           head == Head(c.ready)
<1>1. Runs(e, "writeValidation", TRUE)
      /\ link' = link /\ wire' = wire /\ sent' = sent /\ received' = received
      /\ Becomes(e, IF e = "client" THEN ReadHeader(f) ELSE f)
  BY DEF RunWriteValidation
<1>2. /\ c.ready # <<>> /\ head.op = "writeValidation"
      /\ f.socket = c.socket /\ f.read = c.read /\ f.writes = c.writes /\ f.out = c.out
      /\ f.temp = c.temp /\ f.ready = Popped(c.ready) /\ IsEnd(f)
  BY <1>1, HandlerIs
<1>3. head.ok
  BY <1>1 DEF Runs
<1>4. CASE e = "client"
  <2>1. Ready(head) = Turn("answered", NoUnit)
    BY <1>2, <1>3 DEF Ready
  <2>2. Becomes(e, StartRead(f, "readHeader"))
    BY <1>1, <1>4 DEF ReadHeader
  <2> DEFINE st == Ready(head)
             op == "readHeader"
  <2>3. Turns(e, link, st, "open", wire[Peer(e)], Turn(op, NoUnit), "open")
        \/ link \in {"none", "connecting"}
    BY <1>4, <2>1 DEF Turns, Turn, Listening, Opening, Spoiled, Early
  <2>4. link \notin {"none", "connecting"} =>
          \A st2 : st2.at \in {op, "failed"} => TakenInv(link, st2, f.temp, received[e], sent[Peer(e)])
    <3> SUFFICES ASSUME link \notin {"none", "connecting"}, NEW st2, st2.at \in {op, "failed"}
                 PROVE  TakenInv(link, st2, f.temp, received[e], sent[Peer(e)])
      OBVIOUS
    <3>1. TakenInv(link, Stage(e, c), c.temp, received[e], sent[Peer(e)])
      BY DirectionIs
    <3>2. Stage(e, c) = st
      BY <1>2, <1>4, TokenUp, TokensAre
    <3>3. st.at = "answered"
      BY <2>1 DEF Turn
    <3> QED BY <1>2, <3>1, <3>2, <3>3, TakenTurns
  <2>5. \A st2 : st2.at = op =>
          Due(st2, Len(received[e]), sent[Peer(e)]) = Due(st, Len(received[e]), sent[Peer(e)])
    BY <2>1 DEF Due, Turn
  <2>6. op \in Reads
    BY DEF Reads
  <2>7. head.op \in Tokens(e) /\ head.op # "accept"
    BY <1>2, <1>4, TokensAre
  <2> HIDE DEF c, f, head, op
  <2>8. c = end[e] /\ head = Head(end[e].ready)
    BY DEF c, head
  <2>9. Becomes(e, StartRead(f, op))
    BY <2>2 DEF op
  <2> QED BY <1>1, <1>2, <2>3, <2>4, <2>5, <2>6, <2>7, <2>8, <2>9, ReadOn
<1>5. CASE e = "server"
  <2>1. Becomes(e, f)
    BY <1>1, <1>5
  <2>2. "writeValidation" \notin Tokens(e) /\ "writeValidation" \notin MessageWrites
    BY <1>5, TokensAre DEF MessageWrites
  <2>3. GoesOn(c, f, sent[e], sent[e])
    BY <1>2, <2>2, EndIs, WriterHandles DEF ShapeInv, IsSeq
  <2> HIDE DEF f
  <2> QED BY <1>1, <1>2, <2>1, <2>2, <2>3, RunKeeps
<1> QED BY <1>4, <1>5 DEF Ends

LEMMA RunReadValidationServer ==
  ASSUME Inv, ShapeInv, StreamInv, RunReadValidation("server")
  PROVE  StreamInv'
<1> DEFINE e == "server"
           c == end[e]
           f == Handled(e)
           head == Head(c.ready)
           value == HandshakeIn(head.unit)
<1>0. e \in Ends /\ "readValidation" \in Tokens(e)
  BY TokensAre DEF Ends, Reads
<1>1. Runs(e, "readValidation", TRUE)
      /\ link' = link /\ wire' = wire /\ sent' = sent /\ received' = received
      /\ ReadValidationServer(value)
  BY DEF RunReadValidation
<1>2. /\ c.ready # <<>> /\ head.op = "readValidation"
      /\ f.socket = c.socket /\ f.read = c.read /\ f.writes = c.writes /\ f.out = c.out
      /\ f.temp = c.temp /\ f.ready = Popped(c.ready) /\ IsEnd(f)
  BY <1>0, <1>1, HandlerIs
<1>3. head.ok
  BY <1>1 DEF Runs
<1>4. CASE value = "answer"
  <2>1. Ready(head) = Turn("gotValidation", head.unit)
    BY <1>2, <1>3 DEF Ready
  <2>2. head.unit.kind = "validation"
    BY <1>4 DEF HandshakeIn
  <2>3. Becomes(e, StartRead(f, "readHeader"))
    BY <1>1, <1>4 DEF ReadHeader, ReadValidationServer
  <2> DEFINE st == Ready(head)
             op == "readHeader"
  <2>4. st.at = "gotValidation" /\ st.unit = head.unit /\ Turn(op, NoUnit).at = op
    BY <2>1 DEF Turn
  <2>5. Turns(e, link, st, "open", wire[Peer(e)], Turn(op, NoUnit), "open")
        \/ link \in {"none", "connecting"}
    BY <2>2, <2>4 DEF Turns, Listening, Opening, Spoiled, Early
  <2>6. link \notin {"none", "connecting"} =>
          \A st2 : st2.at \in {op, "failed"} => TakenInv(link, st2, f.temp, received[e], sent[Peer(e)])
    <3> SUFFICES ASSUME link \notin {"none", "connecting"}, NEW st2, st2.at \in {op, "failed"}
                 PROVE  TakenInv(link, st2, f.temp, received[e], sent[Peer(e)])
      OBVIOUS
    <3>1. TakenInv(link, Stage(e, c), c.temp, received[e], sent[Peer(e)])
      BY <1>0, DirectionIs
    <3>2. Stage(e, c) = st
      BY <1>0, <1>2, TokenUp
    <3>3. Early(link, st)
      BY <2>4 DEF Early
    <3> QED BY <1>2, <3>1, <3>2, <3>3, TakenTurns
  <2>7. \A st2 : st2.at = op =>
          Due(st2, Len(received[e]), sent[Peer(e)]) = Due(st, Len(received[e]), sent[Peer(e)])
    BY <2>4 DEF Due
  <2>8. op \in Reads
    BY DEF Reads
  <2> HIDE DEF c, f, head, op, e
  <2>9. c = end[e] /\ head = Head(end[e].ready) /\ head.op \in Tokens(e) /\ head.op # "accept"
    BY <1>0, <1>2 DEF c, head
  <2>10. Becomes(e, StartRead(f, op))
    BY <2>3 DEF op
  <2> QED BY <1>0, <1>1, <1>2, <2>5, <2>6, <2>7, <2>8, <2>9, <2>10, ReadOn
<1>5. CASE value # "answer"
  <2>1. Becomes(e, Close(f))
    BY <1>1, <1>5 DEF ReadValidationServer
  <2> HIDE DEF c, head, value
  <2> QED BY <1>0, <1>1, <2>1, RunCloses
<1> QED BY <1>4, <1>5
\* The client answers the challenge.
LEMMA RunReadValidationClient ==
  ASSUME Inv, ShapeInv, StreamInv, RunReadValidation("client")
  PROVE  StreamInv'
<1> DEFINE e == "client"
           c == end[e]
           f == Handled(e)
           head == Head(c.ready)
           unit == [kind |-> "validation", value |-> ScrambleData(HandshakeIn(head.unit))]
           d == StartWrite(f, "writeValidation", unit)
           st == Stage(e, c)
           st2 == Stage(e, d)
<1>0. e \in Ends /\ {"readValidation", "writeValidation"} \subseteq Tokens(e)
      /\ "writeValidation" \in Writes
  BY TokensAre DEF Ends, Reads, Writes
<1>1. Runs(e, "readValidation", TRUE)
      /\ link' = link /\ wire' = wire /\ sent' = sent /\ received' = received
      /\ Becomes(e, d)
  BY DEF RunReadValidation, ReadValidationClient, WriteValidation
<1>2. /\ c.ready # <<>> /\ head.op = "readValidation"
      /\ f.socket = c.socket /\ f.read = c.read /\ f.writes = c.writes /\ f.out = c.out
      /\ f.temp = c.temp /\ f.ready = Popped(c.ready) /\ IsEnd(f)
  BY <1>0, <1>1, HandlerIs
<1>3. head.ok
  BY <1>1 DEF Runs
<1>4. IsEnd(c) /\ TokenInv(e, c) /\ SocketInv(c) /\ WordInv(c) /\ IsSeq(c.ready) /\ IsSeq(c.writes)
  BY <1>0, EndIs
<1>5. link \notin {"none", "connecting"} /\ st = Ready(head)
  BY <1>0, <1>2, TokenUp
<1>6. st.at = "gotValidation" /\ st.unit = head.unit
  BY <1>2, <1>3, <1>5 DEF Ready, Turn
<1>7. c.socket \in {"open", "closed"}
  BY <1>2, <1>4, SocketOfHead
<1>u. unit.kind = "validation"
  OBVIOUS
<1> HIDE DEF unit
<1>8. Vacant(e, f)
  BY <1>0, <1>2, <1>4, StageHandles
<1>9. d.socket = c.socket /\ d.read = f.read /\ d.out = c.out /\ d.temp = c.temp /\ IsEnd(d)
  BY <1>0, <1>2, StartWriteIs
<1>10. /\ TokenInv(e, d) /\ SocketInv(d) /\ WordInv(d)
       /\ st2.at = (IF c.socket = "open" THEN "answering" ELSE "failed")
  <2>1. CASE c.socket = "open"
    <3>1. d.ready = f.ready /\ \E w : w.op = "writeValidation" /\ w.unit = unit /\ d.writes = Pushed(f.writes, w)
      BY <1>0, <1>2, <2>1, StartWriteOpen
    <3>2. PICK w : w.op = "writeValidation" /\ w.unit = unit /\ d.writes = Pushed(f.writes, w)
      BY <3>1
    <3> HIDE DEF d, f
    <3>3. TokenInv(e, d) /\ Stage(e, d) = Turn("answering", NoUnit)
      BY <1>0, <1>2, <1>4, <1>8, <1>9, <3>1, <3>2, TokenWrites
    <3>4. SocketInv(d)
      BY <1>4, <1>9, <2>1, SocketStays
    <3>5. WordInv(d)
      <4>1. d.writes = Pushed(c.writes, w) /\ (w.unit.kind = "validation" <=> w.op = "writeValidation")
        BY <1>2, <1>u, <3>2
      <4> QED BY <1>4, <4>1, WordPushed
    <3> QED BY <2>1, <3>3, <3>4, <3>5 DEF Turn
  <2>2. CASE c.socket # "open"
    <3>1. d.writes = f.writes /\ \E h : h.op = "writeValidation" /\ ~ h.ok /\ d.ready = Pushed(f.ready, h)
      BY <1>0, <1>2, <2>2, StartWriteShut
    <3>2. PICK h : h.op = "writeValidation" /\ ~ h.ok /\ d.ready = Pushed(f.ready, h)
      BY <3>1
    <3> HIDE DEF d, f
    <3>3. TokenInv(e, d) /\ Stage(e, d) = Ready(h)
      <4>1. h.op \in Tokens(e) /\ d.ready = Pushed(f.ready, h)
        BY <1>0, <3>2
      <4>2. IsSeq(f.ready)
        BY <1>2 DEF IsEnd
      <4> QED BY <1>8, <1>9, <3>1, <4>1, <4>2, TokenPosts
    <3>4. Ready(h).at = "failed"
      BY <3>2 DEF Ready, Turn
    <3>5. SocketInv(d) /\ WordInv(d)
      BY <1>2, <1>4, <1>7, <1>9, <3>1, SocketStays, WordStays
    <3> QED BY <2>2, <3>3, <3>4, <3>5
  <2> QED BY <2>1, <2>2
<1>11. GoesOn(c, d, sent[e], sent[e])
  <2>1. IsSeq(sent[e])
    BY <1>0 DEF ShapeInv, IsSeq
  <2>2. "readValidation" \notin MessageWrites
    BY DEF MessageWrites
  <2>3. GoesOn(c, f, sent[e], sent[e])
    BY <1>2, <1>4, <2>1, <2>2, WriterHandles
  <2>4. GoesOn(f, d, sent[e], sent[e])
    BY <1>2, <2>1, WriterSaysWord
  <2> QED BY <2>3, <2>4, GoesOnTwice
<1>12. ~ Spoiled(link, st, wire["server"]) \/ c.socket = "closed"
  <2>1. ChallengeInv(link, st, c.socket, end["server"], wire["server"])
    BY DEF StreamInv
  <2>2. Listening(link, st)
    BY <1>6 DEF Listening
  <2> QED BY <2>1, <2>2 DEF ChallengeInv
<1> HIDE DEF st, st2, d, c, f, head
<1>13. Turns(e, link, st, c.socket, wire[Peer(e)], st2, d.socket)
  <2>1. CASE c.socket = "open"
    <3>1. Peer(e) = "server"
      BY PeerIs
    <3> QED BY <1>5, <1>6, <1>10, <1>12, <2>1, <3>1 DEF Turns, Listening, Opening, Spoiled, Early
  <2>2. CASE c.socket # "open"
    BY <1>5, <1>10, <2>2, TurnsOff
  <2> QED BY <2>1, <2>2
<1>14. TakenInv(link, st2, d.temp, received[e], sent[Peer(e)])
  <2>1. TakenInv(link, st, c.temp, received[e], sent[Peer(e)])
    BY <1>0, DirectionIs DEF st, c
  <2>2. Early(link, st) /\ st2.at \in {"answering", "failed"}
    BY <1>6, <1>10 DEF Early
  <2> QED BY <1>9, <2>1, <2>2, TakenTurns
<1>15. Listening(link, st2) /\ d.socket # "closed" =>
         Due(st2, Len(received[e]), sent[Peer(e)]) = Due(st, Len(received[e]), sent[Peer(e)])
  BY <1>6, <1>10 DEF Due
<1>16. Same(end'[e], d) /\ end'[Peer(e)] = end[Peer(e)]
  BY <1>0, <1>1, <1>9, BecomesIs
<1>17. st = Stage(e, end[e]) /\ c = end[e] /\ st2 = Stage(e, d) /\ d.socket # "none"
  BY <1>7, <1>9 DEF c, st, st2
<1> QED BY <1>0, <1>1, <1>10, <1>11, <1>13, <1>14, <1>15, <1>16, <1>17, LocalStep
\* connectToClient opens the accepted socket, writes the challenge and reads.
LEMMA RunAcceptStream ==
  ASSUME Inv, ShapeInv, StreamInv, RunAccept
  PROVE  StreamInv'
<1> DEFINE e == "server"
           c == end[e]
           p == Handled(e)
           f == [p EXCEPT !.socket = "open"]
           head == Head(c.ready)
           unit == [kind |-> "validation", value |-> "challenge"]
           g == StartWrite(f, "writeValidation", unit)
           d == StartRead(g, "readValidation")
           st == Stage(e, c)
           st2 == Stage(e, d)
<1>0. /\ e \in Ends /\ "accept" \in Tokens(e) /\ "writeValidation" \notin Tokens(e)
      /\ "writeValidation" \in Writes /\ "readValidation" \in Reads
      /\ "accept" \notin MessageWrites
  BY TokensAre DEF Ends, Reads, Writes, MessageWrites
<1>1. Runs(e, "accept", TRUE)
      /\ link' = link /\ wire' = wire /\ sent' = sent /\ received' = received
      /\ Becomes(e, d)
  BY DEF RunAccept, ReadValidation, WriteValidation
<1>2. /\ c.ready # <<>> /\ head.op = "accept"
      /\ p.socket = c.socket /\ p.read = c.read /\ p.writes = c.writes /\ p.out = c.out
      /\ p.temp = c.temp /\ p.ready = Popped(c.ready) /\ IsEnd(p)
  BY <1>0, <1>1, HandlerIs
<1>3. IsEnd(c) /\ TokenInv(e, c) /\ SocketInv(c) /\ WordInv(c) /\ IsSeq(c.ready) /\ IsSeq(c.writes) /\ EndInv(c)
  BY <1>0, EndIs
<1>4. link \notin {"none", "connecting"} /\ st = Ready(head)
  BY <1>0, <1>2, TokenUp
<1>5. st.at = "connected"
  BY <1>2, <1>4 DEF Ready, Turn
<1>6. c.socket = "none" /\ c.read = "none" /\ c.writes = <<>>
  <2>1. 1 \in At(c.ready, {"accept"})
    BY <1>2, <1>3, TailAt
  <2>2. c.socket = "none"
    BY <1>3, <2>1 DEF EndInv, AcceptInv
  <2> QED BY <1>3, <2>2 DEF SocketInv
<1>u. unit.kind = "validation"
  OBVIOUS
<1> HIDE DEF unit, p
<1>7. /\ f.socket = "open" /\ f.read = c.read /\ f.writes = c.writes /\ f.out = c.out
      /\ f.temp = c.temp /\ f.ready = p.ready /\ IsEnd(f)
  <2>1. IsEnd(p)
    BY <1>2
  <2>2. f = [socket |-> "open", running |-> p.running, ready |-> p.ready, read |-> p.read,
             writes |-> p.writes, out |-> p.out, temp |-> p.temp]
    BY <2>1 DEF IsEnd
  <2> HIDE DEF f
  <2>3. /\ f.socket = "open" /\ f.read = p.read /\ f.writes = p.writes /\ f.out = p.out
        /\ f.temp = p.temp /\ f.ready = p.ready /\ f.running = p.running
    BY <2>2
  <2>4. IsEnd(f)
    BY <2>1, <2>2, <2>3 DEF IsEnd
  <2> QED BY <1>2, <2>3, <2>4
<1> HIDE DEF f
<1>8. Vacant(e, f) /\ TokenInv(e, f)
  <2>1. f.read = c.read /\ f.writes = c.writes /\ f.ready = Popped(c.ready)
    BY <1>2, <1>7
  <2> QED BY <1>0, <1>2, <1>3, <2>1, StageHandles
<1>9. /\ g.socket = "open" /\ g.read = f.read /\ g.out = f.out /\ g.temp = f.temp /\ IsEnd(g)
      /\ g.ready = f.ready
      /\ \E w : w.op = "writeValidation" /\ w.unit = unit /\ g.writes = Pushed(f.writes, w)
  BY <1>0, <1>7, StartWriteOpen
<1>10. PICK w : w.op = "writeValidation" /\ w.unit = unit /\ g.writes = Pushed(f.writes, w)
  BY <1>9
<1> HIDE DEF g
<1>11. Vacant(e, g)
  BY <1>0, <1>7, <1>3, <1>8, <1>9, <1>10, StageWrites
<1>12. TokenInv(e, d) /\ st2 = Turn("readValidation", NoUnit)
  BY <1>0, <1>9, <1>11, StageStartsRead
<1>13. d.socket = "open" /\ d.writes = g.writes /\ d.temp = c.temp /\ IsEnd(d)
  BY <1>0, <1>7, <1>9, StartReadIs
<1>14. GoesOn(c, d, sent[e], sent[e])
  <2>1. IsSeq(sent[e])
    BY <1>0 DEF ShapeInv, IsSeq
  <2>2. head.op \notin MessageWrites /\ head.op # "send"
    BY <1>0, <1>2
  <2>3. GoesOn(c, p, sent[e], sent[e])
    BY <1>2, <1>3, <2>1, <2>2, WriterHandles
  <2>4. GoesOn(p, f, sent[e], sent[e])
    <3>1. f.out = p.out /\ f.writes = p.writes /\ f.ready = p.ready
          /\ p.socket = "none" /\ f.socket = "open" /\ IsSeq(p.out)
      BY <1>2, <1>6, <1>7 DEF IsEnd
    <3> QED BY <2>1, <3>1, WriterSame
  <2>5. GoesOn(f, g, sent[e], sent[e])
    BY <1>7, <2>1, WriterSaysWord DEF g
  <2>6. GoesOn(g, d, sent[e], sent[e])
    BY <1>0, <1>9, <2>1, WriterReads
  <2> QED BY <2>3, <2>4, <2>5, <2>6, GoesOnTwice
<1>15. SocketInv(d)
  BY <1>13 DEF SocketInv
<1> HIDE DEF d, st, st2, head
<1>16. WordInv(d)
  <2>1. d.writes = Pushed(c.writes, w) /\ (w.unit.kind = "validation" <=> w.op = "writeValidation")
    BY <1>7, <1>10, <1>13, <1>u
  <2> HIDE DEF c
  <2> QED BY <1>3, <2>1, WordPushed
<1>17. st2.at = "readValidation"
  BY <1>12 DEF Turn
<1>18. Turns(e, link, st, c.socket, wire[Peer(e)], st2, d.socket)
  BY <1>4, <1>5, <1>6, <1>17 DEF Turns, Listening, Opening, Spoiled, Early
<1>19. TakenInv(link, st2, d.temp, received[e], sent[Peer(e)])
  <2>1. TakenInv(link, st, c.temp, received[e], sent[Peer(e)])
    BY <1>0, DirectionIs DEF st
  <2>2. Early(link, st)
    BY <1>5 DEF Early, Opening
  <2> QED BY <1>13, <1>17, <2>1, <2>2, TakenTurns
<1>20. Listening(link, st2) /\ d.socket # "closed" =>
         Due(st2, Len(received[e]), sent[Peer(e)]) = Due(st, Len(received[e]), sent[Peer(e)])
  BY <1>5, <1>17 DEF Due
<1>21. ChallengeInv(link, Stage("client", end["client"]), end["client"].socket, d, wire["server"])
  <2>1. ChallengeInv(link, Stage("client", end["client"]), end["client"].socket, c, wire["server"])
    BY DEF StreamInv
  <2>2. d.writes = Pushed(c.writes, w)
    BY <1>7, <1>10, <1>13
  <2> QED BY <1>6, <1>10, <2>1, <2>2, ChallengeStarts
<1>22. Same(end'[e], d) /\ end'[Peer(e)] = end[Peer(e)]
  BY <1>0, <1>1, <1>13, BecomesIs
<1>23. st = Stage(e, end[e]) /\ c = end[e] /\ st2 = Stage(e, d) /\ d.socket # "none"
  BY <1>13 DEF st, st2
<1> QED BY <1>0, <1>1, <1>12, <1>14, <1>15, <1>16, <1>18, <1>19, <1>20, <1>21, <1>22, <1>23, LocalStep

LEMMA TempIs ==
  ASSUME NEW p, IsEnd(p), NEW x, NEW f,
         f = [socket |-> p.socket, running |-> p.running, ready |-> p.ready, read |-> p.read,
              writes |-> p.writes, out |-> p.out, temp |-> x]
  PROVE  /\ f.socket = p.socket /\ f.read = p.read /\ f.writes = p.writes /\ f.out = p.out
         /\ f.ready = p.ready /\ f.temp = x /\ IsEnd(f)
<1>1. /\ f.socket = p.socket /\ f.read = p.read /\ f.writes = p.writes /\ f.out = p.out
      /\ f.ready = p.ready /\ f.temp = x /\ f.running = p.running
  OBVIOUS
<1> QED BY <1>1 DEF IsEnd
\* What end e is given now is what the pipe to it delivers next.
Given(e) ==
  /\ received'[Peer(e)] = received[Peer(e)]
  /\ Delivers(received[e], received'[e], sent[Peer(e)])

LEMMA RunReadHeaderStream ==
  ASSUME Inv, ShapeInv, StreamInv, NEW e, e \in Ends, RunReadHeader(e)
  PROVE  StreamInv' /\ (received' = received \/ Given(e))
<1> DEFINE c == end[e]
           p == Handled(e)
           head == Head(c.ready)
           temp2 == [p.temp EXCEPT !.id = head.unit.id, !.size = head.unit.size]
           f == [p EXCEPT !.temp = temp2]
           st == Ready(head)
           s == sent[Peer(e)]
           got == received[e]
           got2 == received'[e]
<1>1. /\ Runs(e, "readHeader", TRUE)
      /\ link' = link /\ wire' = wire /\ sent' = sent
      /\ IF head.unit.size > 0
         THEN Becomes(e, StartRead(f, "readBody")) /\ received' = received
         ELSE Becomes(e, StartRead(f, "readHeader")) /\ received' = [received EXCEPT ![e] = Append(got, f.temp)]
  BY DEF RunReadHeader, ReadBody, ReadHeader, AddToIncomingMessageQueue
<1>2. /\ c.ready # <<>> /\ head.op = "readHeader"
      /\ p.socket = c.socket /\ p.read = c.read /\ p.writes = c.writes /\ p.out = c.out
      /\ p.temp = c.temp /\ p.ready = Popped(c.ready) /\ IsEnd(p)
  BY <1>1, HandlerIs
<1>3. head.ok
  BY <1>1 DEF Runs
<1>4. head.op \in Tokens(e) /\ head.op # "accept" /\ {"readHeader", "readBody"} \subseteq Reads
  BY <1>2, TokensAre DEF Reads
<1>5. link \notin {"none", "connecting"} /\ Stage(e, c) = st
  BY <1>2, <1>4, TokenUp
<1>6. st.at = "gotHeader" /\ st.unit = head.unit
  BY <1>2, <1>3 DEF Ready, Turn
<1>7. TakenInv(link, st, p.temp, got, s) /\ IsSeq(got) /\ s \in Seq(Messages)
  <2>1. TakenInv(link, Stage(e, c), c.temp, got, s)
    BY DirectionIs
  <2> QED BY <1>2, <1>5, <2>1, PeerIs DEF ShapeInv
<1>8. /\ temp2 = [id |-> temp2.id, size |-> temp2.size, body |-> temp2.body]
      /\ temp2.id = st.unit.id /\ temp2.size = st.unit.size /\ temp2.body = p.temp.body
  <2> DEFINE x == p.temp
             i == head.unit.id
             z == head.unit.size
  <2>1. x = [id |-> x.id, size |-> x.size, body |-> x.body]
    BY <1>7 DEF TakenInv
  <2>2. temp2 = [x EXCEPT !.id = i, !.size = z]
    OBVIOUS
  <2>3. st.unit.id = i /\ st.unit.size = z
    BY <1>6
  <2> HIDE DEF x, i, z, temp2, st
  <2>4. /\ temp2 = [id |-> temp2.id, size |-> temp2.size, body |-> temp2.body]
        /\ temp2.id = i /\ temp2.size = z /\ temp2.body = x.body
    BY <2>1, <2>2, FilledIn
  <2> QED BY <2>3, <2>4 DEF x
<1> HIDE DEF p, temp2
<1>9. /\ f.socket = c.socket /\ f.read = c.read /\ f.writes = c.writes /\ f.out = c.out
      /\ f.ready = Popped(c.ready) /\ f.temp = temp2 /\ IsEnd(f)
  <2>1. IsEnd(p)
    BY <1>2
  <2>2. f = [socket |-> p.socket, running |-> p.running, ready |-> p.ready, read |-> p.read,
             writes |-> p.writes, out |-> p.out, temp |-> temp2]
    BY <2>1 DEF IsEnd
  <2> HIDE DEF f
  <2>3. /\ f.socket = p.socket /\ f.read = p.read /\ f.writes = p.writes /\ f.out = p.out
        /\ f.ready = p.ready /\ f.temp = temp2 /\ IsEnd(f)
    BY <2>1, <2>2, TempIs
  <2> QED BY <1>2, <2>3
<1>10. \A op \in {"readHeader", "readBody"} : Turns(e, link, st, "open", wire[Peer(e)], Turn(op, NoUnit), "open")
  BY <1>5, <1>6 DEF Turns, Turn, Listening, Opening, Spoiled, Early
<1>11. CASE head.unit.size > 0
  <2>1. Becomes(e, StartRead(f, "readBody")) /\ received' = received
    BY <1>1, <1>11
  <2> HIDE DEF st, f, c, s, got, head
  <2>2. \A st2 : st2.at \in {"readBody", "failed"} =>
         /\ TakenInv(link, st2, f.temp, got, s)
         /\ st2.at = "readBody" => Due(st2, Len(got), s) = Due(st, Len(got), s)
    <3> SUFFICES ASSUME NEW st2, st2.at \in {"readBody", "failed"}
                 PROVE  /\ TakenInv(link, st2, f.temp, got, s)
                        /\ st2.at = "readBody" => Due(st2, Len(got), s) = Due(st, Len(got), s)
      OBVIOUS
    <3>1. st.unit.size > 0
      BY <1>6, <1>11
    <3>2. /\ TakenInv(link, st2, temp2, got, s)
          /\ st2.at = "readBody" => Due(st2, Len(got), s) = Due(st, Len(got), s)
      <4> DEFINE x == p.temp
      <4>1. TakenInv(link, st, x, got, s) /\ temp2.body = x.body
        BY <1>7, <1>8
      <4> HIDE DEF x
      <4> QED BY <1>5, <1>6, <1>7, <1>8, <3>1, <4>1, TakesHeader
    <3> QED BY <1>9, <3>2
  <2>4. /\ head = Head(end[e].ready) /\ c = end[e] /\ got = received[e] /\ s = sent[Peer(e)]
        /\ st = Ready(head)
    BY DEF head, c, got, s, st
  <2>5. StreamInv'
    BY <1>1, <1>2, <1>4, <1>9, <1>10, <2>1, <2>2, <2>4, ReadOn
  <2> QED BY <2>1, <2>5
<1>12. CASE ~ (head.unit.size > 0)
  <2>1. Becomes(e, StartRead(f, "readHeader")) /\ received' = [received EXCEPT ![e] = Append(got, f.temp)]
    BY <1>1, <1>12
  <2>2. got2 = Pushed(got, temp2)
    <3>1. received = [x \in Ends |-> received[x]] /\ Peer(e) \in Ends /\ Peer(e) # e
      BY PeerIs DEF Inv
    <3> DEFINE y == Append(got, f.temp)
    <3>2. y = Pushed(got, temp2)
      <4>1. f.temp = temp2
        BY <1>9
      <4> HIDE DEF f
      <4> QED BY Zenon, <4>1 DEF Pushed
    <3> HIDE DEF y
    <3>3. received' = [received EXCEPT ![e] = y]
      BY <2>1 DEF y
    <3> QED BY <3>1, <3>2, <3>3
  <2>6. received'[Peer(e)] = received[Peer(e)]
    <3>1. received = [x \in Ends |-> received[x]] /\ Peer(e) \in Ends /\ Peer(e) # e
      BY PeerIs DEF Inv
    <3> QED BY <2>1, <3>1
  <2> HIDE DEF st, f, c, s, got, got2, head
  <2>3. \A st2 : st2.at \in {"readHeader", "failed"} =>
         /\ TakenInv(link, st2, f.temp, got2, s)
         /\ Delivers(got, got2, s)
         /\ st2.at = "readHeader" => Due(st2, Len(got2), s) = Due(st, Len(got), s)
    <3> SUFFICES ASSUME NEW st2, st2.at \in {"readHeader", "failed"}
                 PROVE  /\ TakenInv(link, st2, f.temp, got2, s)
                        /\ Delivers(got, got2, s)
                        /\ st2.at = "readHeader" => Due(st2, Len(got2), s) = Due(st, Len(got), s)
      OBVIOUS
    <3>1. ~ (st.unit.size > 0)
      BY <1>6, <1>12
    <3>2. /\ TakenInv(link, st2, temp2, got2, s)
          /\ Delivers(got, got2, s)
          /\ st2.at = "readHeader" => Due(st2, Len(got2), s) = Due(st, Len(got), s)
      <4> DEFINE x == p.temp
      <4>1. TakenInv(link, st, x, got, s) /\ temp2.body = x.body
        BY <1>7, <1>8
      <4>2. /\ temp2 = [id |-> temp2.id, size |-> temp2.size, body |-> temp2.body]
            /\ temp2.id = st.unit.id /\ temp2.size = st.unit.size
        BY <1>8
      <4>3. IsSeq(got) /\ s \in Seq(Messages)
        BY <1>7
      <4> HIDE DEF x
      <4>4. TakenInv(link, st2, temp2, got2, s)
        BY <1>5, <1>6, <2>2, <3>1, <4>1, <4>2, <4>3, TakesEmpty
      <4>5. Delivers(got, got2, s)
        BY <4>4, <1>5, <1>6, <2>2, <3>1, <4>1, <4>2, <4>3, TakesEmpty
      <4>6. st2.at = "readHeader" => Due(st2, Len(got2), s) = Due(st, Len(got), s)
        BY <4>4, <1>5, <1>6, <2>2, <3>1, <4>1, <4>2, <4>3, TakesEmpty
      <4> QED BY <4>4, <4>5, <4>6
    <3> QED BY <1>9, <3>2
  <2>5. /\ head = Head(end[e].ready) /\ c = end[e] /\ got = received[e] /\ s = sent[Peer(e)]
        /\ st = Ready(head) /\ got2 = received'[e]
    BY DEF head, c, got, s, st, got2
  <2>7. StreamInv'
    BY <1>1, <1>2, <1>4, <1>9, <1>10, <2>1, <2>3, <2>5, <2>6, ReadOn
  <2>8. Delivers(got, got2, s)
    <3>1. Turn("failed", NoUnit).at = "failed"
      BY DEF Turn
    <3> QED BY <2>3, <3>1
  <2> QED BY <2>5, <2>6, <2>7, <2>8 DEF Given
<1> QED BY <1>11, <1>12

LEMMA RunReadBodyStream ==
  ASSUME Inv, ShapeInv, StreamInv, NEW e, e \in Ends, RunReadBody(e)
  PROVE  StreamInv' /\ (received' = received \/ Given(e))
<1> DEFINE c == end[e]
           p == Handled(e)
           head == Head(c.ready)
           temp2 == [p.temp EXCEPT !.body = head.unit.data]
           f == [p EXCEPT !.temp.body = head.unit.data]
           st == Ready(head)
           s == sent[Peer(e)]
           got == received[e]
           got2 == received'[e]
<1>1. /\ Runs(e, "readBody", TRUE)
      /\ link' = link /\ wire' = wire /\ sent' = sent
      /\ Becomes(e, StartRead(f, "readHeader")) /\ received' = [received EXCEPT ![e] = Append(got, f.temp)]
  BY DEF RunReadBody, ReadHeader, AddToIncomingMessageQueue
<1>2. /\ c.ready # <<>> /\ head.op = "readBody"
      /\ p.socket = c.socket /\ p.read = c.read /\ p.writes = c.writes /\ p.out = c.out
      /\ p.temp = c.temp /\ p.ready = Popped(c.ready) /\ IsEnd(p)
  BY <1>1, HandlerIs
<1>3. head.ok
  BY <1>1 DEF Runs
<1>4. head.op \in Tokens(e) /\ head.op # "accept" /\ {"readHeader", "readBody"} \subseteq Reads
  BY <1>2, TokensAre DEF Reads
<1>5. link \notin {"none", "connecting"} /\ Stage(e, c) = st
  BY <1>2, <1>4, TokenUp
<1>6. st.at = "gotBody" /\ st.unit = head.unit
  BY <1>2, <1>3 DEF Ready, Turn
<1>7. TakenInv(link, st, p.temp, got, s) /\ IsSeq(got) /\ s \in Seq(Messages)
  <2>1. TakenInv(link, Stage(e, c), c.temp, got, s)
    BY DirectionIs
  <2> QED BY <1>2, <1>5, <2>1, PeerIs DEF ShapeInv
<1>8. /\ temp2 = [id |-> temp2.id, size |-> temp2.size, body |-> temp2.body]
      /\ temp2.id = p.temp.id /\ temp2.size = p.temp.size /\ temp2.body = st.unit.data
  <2> DEFINE x == p.temp
             b == head.unit.data
  <2>1. x = [id |-> x.id, size |-> x.size, body |-> x.body]
    BY <1>7 DEF TakenInv
  <2>2. temp2 = [x EXCEPT !.body = b]
    OBVIOUS
  <2>3. st.unit.data = b
    BY <1>6
  <2> HIDE DEF x, b, temp2, st
  <2>4. /\ temp2 = [id |-> temp2.id, size |-> temp2.size, body |-> temp2.body]
        /\ temp2.id = x.id /\ temp2.size = x.size /\ temp2.body = b
    BY <2>1, <2>2, BodyFilledIn
  <2> QED BY <2>3, <2>4 DEF x
<1> HIDE DEF p, head
<1>9. /\ f.socket = c.socket /\ f.read = c.read /\ f.writes = c.writes /\ f.out = c.out
      /\ f.ready = Popped(c.ready) /\ f.temp = temp2 /\ IsEnd(f)
  <2>1. IsEnd(p)
    BY <1>2
  <2>2. f = [socket |-> p.socket, running |-> p.running, ready |-> p.ready, read |-> p.read,
             writes |-> p.writes, out |-> p.out, temp |-> temp2]
    BY <2>1 DEF IsEnd
  <2> HIDE DEF f, temp2
  <2>3. /\ f.socket = p.socket /\ f.read = p.read /\ f.writes = p.writes /\ f.out = p.out
        /\ f.ready = p.ready /\ f.temp = temp2 /\ IsEnd(f)
    BY <2>1, <2>2, TempIs
  <2> QED BY <1>2, <2>3
<1> HIDE DEF temp2
<1>10. Turns(e, link, st, "open", wire[Peer(e)], Turn("readHeader", NoUnit), "open")
  BY <1>5, <1>6 DEF Turns, Turn, Listening, Opening, Spoiled, Early
<1>15. received'[Peer(e)] = received[Peer(e)]
  <2>1. received = [x \in Ends |-> received[x]] /\ Peer(e) \in Ends /\ Peer(e) # e
    BY PeerIs DEF Inv
  <2> QED BY <1>1, <2>1
<1>11. got2 = Pushed(got, temp2)
  <2>1. received = [x \in Ends |-> received[x]] /\ Peer(e) \in Ends /\ Peer(e) # e
    BY PeerIs DEF Inv
  <2> DEFINE y == Append(got, f.temp)
  <2>2. y = Pushed(got, temp2)
    <3>1. f.temp = temp2
      BY <1>9
    <3> HIDE DEF f
    <3> QED BY Zenon, <3>1 DEF Pushed
  <2> HIDE DEF y
  <2>3. received' = [received EXCEPT ![e] = y]
    BY <1>1 DEF y
  <2> QED BY <2>1, <2>2, <2>3
<1> HIDE DEF st, f, c, s, got, got2
<1>12. \A st2 : st2.at \in {"readHeader", "failed"} =>
       /\ TakenInv(link, st2, f.temp, got2, s)
       /\ Delivers(got, got2, s)
       /\ st2.at = "readHeader" => Due(st2, Len(got2), s) = Due(st, Len(got), s)
  BY <1>5, <1>6, <1>7, <1>8, <1>9, <1>11, TakesBody
<1>14. /\ head = Head(end[e].ready) /\ c = end[e] /\ got = received[e] /\ s = sent[Peer(e)]
       /\ st = Ready(head) /\ got2 = received'[e]
  BY DEF head, c, got, s, st, got2
<1>16. StreamInv'
  BY <1>1, <1>2, <1>4, <1>9, <1>10, <1>12, <1>14, <1>15, ReadOn
<1>17. Delivers(got, got2, s)
  <2>1. Turn("failed", NoUnit).at = "failed"
    BY DEF Turn
  <2> QED BY <1>12, <2>1
<1> QED BY <1>14, <1>15, <1>16, <1>17 DEF Given
LEMMA RunStream ==
  ASSUME Inv, ShapeInv, StreamInv, NEW e, e \in Ends, Run(e)
  PROVE  StreamInv'
<1>1. CASE RunClose(e)
  <2>1. Runs(e, "close", TRUE) /\ Becomes(e, Close(Handled(e)))
        /\ link' = link /\ wire' = wire /\ sent' = sent /\ received' = received
    BY <1>1 DEF RunClose
  <2> QED BY <2>1, RunCloses
<1>2. ASSUME NEW op, op \in Reads \cup Writes, RunFailure(e, op) PROVE StreamInv'
  <2>1. Runs(e, op, FALSE) /\ Becomes(e, Close(Handled(e)))
        /\ link' = link /\ wire' = wire /\ sent' = sent /\ received' = received
    BY <1>2 DEF RunFailure
  <2>2. op # "accept"
    BY <1>2 DEF Reads, Writes
  <2> QED BY <2>1, <2>2, RunCloses
<1>3. CASE RunReadValidation(e)
  BY <1>3, RunReadValidationServer, RunReadValidationClient DEF Ends
<1> QED BY <1>1, <1>2, <1>3, RunSendStream, RunWriteStream, RunWriteValidationStream,
           RunReadHeaderStream, RunReadBodyStream DEF Run

LEMMA RunConnectStream ==
  ASSUME Inv, ShapeInv, StreamInv, RunConnect
  PROVE  StreamInv'
BY RunAcceptStream, RunConnectedStream DEF RunConnect

------------------------------------------------------------------------------
(* The applications. *)

LEMMA DisconnectStream ==
  ASSUME Inv, ShapeInv, StreamInv, NEW e, e \in Ends, Disconnect(e)
  PROVE  StreamInv'
<1> DEFINE c == end[e]
           h == [op |-> "close"]
           d == Post(c, h)
<1>1. /\ IsEnd(c) /\ TokenInv(e, c) /\ SocketInv(c) /\ WordInv(c) /\ IsSeq(c.writes)
  BY EndIs
<1>2. /\ c.socket = "open" /\ end' = [end EXCEPT ![e] = d]
      /\ link' = link /\ wire' = wire /\ sent' = sent /\ received' = received
  BY DEF Disconnect, IsConnected
<1>3. end'[e] = d /\ end'[Peer(e)] = end[Peer(e)]
  <2>1. end = [x \in Ends |-> end[x]] /\ Peer(e) \in Ends /\ Peer(e) # e
    BY PeerIs DEF Inv
  <2> HIDE DEF d
  <2> QED BY <1>2, <2>1
<1>4. h.op = "close"
  OBVIOUS
<1>5. h.op \notin Tokens(e) /\ h.op \notin MessageWrites /\ h.op # "send"
  BY <1>4, TokensAre DEF MessageWrites
<1> HIDE DEF c, h
<1>6. Kept(e, c, d)
  BY <1>1, <1>2, <1>5, KeptPosts
<1>7. GoesOn(c, d, sent[e], sent[e])
  <2>1. IsSeq(sent[e])
    BY DEF ShapeInv, IsSeq
  <2>2. d.out = c.out /\ d.socket = c.socket /\ d.writes = c.writes /\ d.ready = Pushed(c.ready, h)
    BY <1>1, PostIs
  <2> HIDE DEF d
  <2> QED BY <1>1, <1>5, <2>1, <2>2, WriterPosts
<1> HIDE DEF d
<1>8. Same(end'[e], d)
  BY <1>3 DEF Same
<1> QED BY <1>1, <1>2, <1>3, <1>6, <1>7, <1>8, KeptStep DEF c

LEMMA StopServerStream ==
  ASSUME Inv, ShapeInv, StreamInv, StopServer
  PROVE  StreamInv'
<1> DEFINE e == "server"
           c == end[e]
<1>0. e \in Ends
  BY DEF Ends
<1>1. /\ IsEnd(c) /\ TokenInv(e, c) /\ SocketInv(c) /\ WordInv(c) /\ IsSeq(c.writes)
  BY <1>0, EndIs
<1>2. /\ end' = [end EXCEPT ![e] = [c EXCEPT !.running = FALSE]]
      /\ link' = link /\ wire' = wire /\ sent' = sent /\ received' = received
  BY DEF StopServer
<1>3. end'[e] = [c EXCEPT !.running = FALSE] /\ end'[Peer(e)] = end[Peer(e)]
  BY <1>0, <1>2, PeerIs DEF Inv
<1>4. Same(end'[e], c)
  BY <1>1, <1>3 DEF Same, IsEnd
<1>5. Kept(e, c, c) /\ GoesOn(c, c, sent[e], sent[e])
  BY <1>1 DEF Kept, GoesOn
<1> QED BY <1>0, <1>1, <1>2, <1>3, <1>4, <1>5, KeptStep

LEMMA StopClientStream ==
  ASSUME Inv, ShapeInv, StreamInv, StopClient
  PROVE  StreamInv'
<1> DEFINE e == "client"
           c == end[e]
           x == Close(c)
           f == end'[e]
<1>0. e \in Ends
  BY DEF Ends
<1>1. /\ IsEnd(c) /\ TokenInv(e, c) /\ SocketInv(c)
      /\ link \in {"none", "connecting"} => Stage(e, c).at = "idle"
  BY <1>0, EndIs
<1>2. /\ c.socket # "none" /\ end' = [end EXCEPT ![e] = [x EXCEPT !.running = FALSE, !.ready = <<>>]]
      /\ link' = link /\ wire' = wire /\ sent' = sent /\ received' = received
  BY DEF StopClient
<1>3. c.socket \in {"open", "closed"}
  BY <1>1, <1>2 DEF SocketInv
<1>4. x.socket = "closed" /\ x.read = "none" /\ x.writes = <<>> /\ x.temp = c.temp /\ IsEnd(x)
  BY <1>1, <1>3, CloseClosed, CloseIs
<1> HIDE DEF x
<1>5. f = [x EXCEPT !.running = FALSE, !.ready = <<>>] /\ end'[Peer(e)] = end[Peer(e)]
  BY <1>0, <1>2, PeerIs DEF Inv
<1> HIDE DEF f
<1>6. /\ f.socket = "closed" /\ f.read = "none" /\ f.writes = <<>> /\ f.temp = c.temp /\ f.ready = <<>>
  BY <1>4, <1>5 DEF IsEnd
<1>7. Vacant(e, f)
  BY <1>6, NoneSeq DEF Vacant, Held, At
<1>8. TokenInv(e, f) /\ Stage(e, f) = Turn("idle", NoUnit)
  BY <1>7, VacantIs
<1>9. \/ Stage(e, f) = Stage(e, c)
      \/ Stage(e, f).at \in {"idle", "failed"} /\ link \notin {"none", "connecting"}
  <2>1. CASE link \in {"none", "connecting"}
    <3>1. Vacant(e, c)
      BY <1>1, <2>1, IdleIs
    <3> QED BY <1>8, <3>1, VacantIs
  <2>2. CASE link \notin {"none", "connecting"}
    BY <1>8, <2>2 DEF Turn
  <2> QED BY <2>1, <2>2
<1>10. Same(end'[e], f)
  BY DEF Same, f
<1> QED BY <1>0, <1>2, <1>5, <1>6, <1>8, <1>9, <1>10, ClosedStep
------------------------------------------------------------------------------
(* The connection. *)

\* An end whose reader was at st, over the link l, is at st2 over the link l2.
Opens(l, st, socket, l2, st2, socket2, units) ==
  /\ st2 = st \/ (st.at = "idle" /\ st2.at \in {"connected", "failed"})
  /\ Listening(l2, st2) /\ socket2 # "closed" =>
       /\ Listening(l, st) /\ socket # "closed"
       /\ Opening(l2, st2) <=> Opening(l, st)
       /\ Spoiled(l2, st2, units) <=> Spoiled(l, st, units)
       /\ l2 \notin {"refused", "broken"} => l \notin {"refused", "broken"}
  /\ Early(l2, st2) \/ st2.at = "answering" => Early(l, st) \/ st.at = "answering"

LEMMA LinkStep ==
  ASSUME ShapeInv, StreamInv, wire' = wire, sent' = sent, received' = received,
         \A e \in Ends :
           /\ TokenInv(e, end'[e]) /\ SocketInv(end'[e]) /\ WordInv(end'[e])
           /\ end'[e].temp = end[e].temp /\ GoesOn(end[e], end'[e], sent[e], sent[e])
           /\ link' \in {"none", "connecting"} => Stage(e, end'[e]).at = "idle"
           /\ Opens(link, Stage(e, end[e]), end[e].socket, link', Stage(e, end'[e]), end'[e].socket, wire[Peer(e)]),
         link' # "none" => end'["client"].socket # "none",
         end'["server"].writes = end["server"].writes, end'["server"].socket = end["server"].socket,
         link' = "up" => end["server"].socket = "none"
  PROVE  StreamInv'
<1>1. ASSUME NEW e, e \in Ends
      PROVE  /\ TakenInv(link', Stage(e, end'[e]), end'[e].temp, received[e], sent[Peer(e)])
             /\ FlowInv(link', Stage(e, end'[e]), end'[e].socket, wire[Peer(e)], Len(received[e]), sent[Peer(e)], end'[Peer(e)])
  <2> DEFINE st == Stage(e, end[e])
             st2 == Stage(e, end'[e])
             p == Peer(e)
             s == sent[Peer(e)]
             units == wire[Peer(e)]
             n == Len(received[e])
  <2>0. p \in Ends
    BY <1>1, PeerIs
  <2>1. Opens(link, st, end[e].socket, link', st2, end'[e].socket, units)
        /\ end'[e].temp = end[e].temp /\ GoesOn(end[p], end'[p], s, s)
    BY <1>1, <2>0
  <2>2. /\ TakenInv(link, st, end[e].temp, received[e], s)
        /\ FlowInv(link, st, end[e].socket, units, n, s, end[p])
    BY <1>1, DirectionIs
  <2>3. IsSeq(units) /\ IsSeq(s)
    BY <2>0 DEF ShapeInv, IsSeq
  <2> HIDE DEF st, st2, p, s, units, n
  <2>4. TakenInv(link', st2, end'[e].temp, received[e], s)
    BY <2>1, <2>2 DEF Opens, TakenInv
  <2>5. FlowInv(link, st, end[e].socket, units, n, s, end'[p])
    BY <2>1, <2>2, <2>3, FlowGoesOn
  <2>6. Listening(link', st2) /\ end'[e].socket # "closed" =>
           /\ Listening(link, st) /\ end[e].socket # "closed"
           /\ Spoiled(link, st, units) => Spoiled(link', st2, units)
           /\ Rest(link', st2, units) = Rest(link, st, units)
           /\ Due(st2, n, s) = Due(st, n, s)
           /\ link' \notin {"refused", "broken"} => link \notin {"refused", "broken"}
    <3>1. Due(st2, n, s) = Due(st, n, s) \/ st2.at = "failed"
      BY <2>1 DEF Opens, Due
    <3>2. Listening(link', st2) /\ end'[e].socket # "closed" => Rest(link', st2, units) = Rest(link, st, units)
      BY <2>1 DEF Opens, Rest
    <3>3. st.at = "idle" /\ st2.at = "failed" => Due(st2, n, s) = Due(st, n, s)
      BY DEF Due
    <3>4. st2 = st \/ st.at = "idle"
      BY <2>1 DEF Opens
    <3>5. Due(st2, n, s) = Due(st, n, s)
      BY <3>1, <3>3, <3>4
    <3> QED BY <2>1, <3>2, <3>5 DEF Opens
  <2>7. FlowInv(link', st2, end'[e].socket, units, n, s, end'[p])
    BY <2>5, <2>6, FlowTurns
  <2> QED BY <2>4, <2>7 DEF st, st2, p, s, units, n
<1> DEFINE sc == Stage("client", end["client"])
           ss == Stage("server", end["server"])
           sc2 == Stage("client", end'["client"])
           ss2 == Stage("server", end'["server"])
           socket == end["client"].socket
           socket2 == end'["client"].socket
<1>2. /\ Opens(link, sc, socket, link', sc2, socket2, wire["server"])
      /\ Opens(link, ss, end["server"].socket, link', ss2, end'["server"].socket, wire["client"])
  BY PeerIs
<1>3. /\ AnswerInv(link, sc, ss, wire["client"])
      /\ ChallengeInv(link, sc, socket, end["server"], wire["server"])
  BY DEF StreamInv
<1> HIDE DEF sc, ss, sc2, ss2, socket, socket2
<1>4. AnswerInv(link', sc2, ss2, wire["client"])
  <2>1. AnswerInv(link', sc2, ss, wire["client"])
    BY <1>2, <1>3, AnswerTurns DEF Opens
  <2>2. ss2 = ss \/ ss2.at \in {"connected", "failed"}
    BY <1>2 DEF Opens
  <2> QED BY <2>1, <2>2, AskerTurns
<1>5. ChallengeInv(link', sc2, socket2, end'["server"], wire["server"])
  BY <1>2, <1>3, ChallengeTurns DEF Opens, ChallengeInv
<1> QED BY <1>1, <1>4, <1>5 DEF StreamInv, DirectionInv, sc2, ss2, socket2
\* The kernel reports to an end that was idle.
LEMMA TokenPosted ==
  ASSUME NEW e, e \in Ends, NEW c, IsEnd(c), TokenInv(e, c), Stage(e, c).at = "idle", SocketInv(c), WordInv(c),
         NEW h, h.op \in Tokens(e), c.socket # "none" \/ h.op = "accept",
         NEW d, d = Post(c, h), NEW s, IsSeq(s)
  PROVE  /\ TokenInv(e, d) /\ Stage(e, d) = Ready(h) /\ SocketInv(d) /\ WordInv(d)
         /\ d.temp = c.temp /\ d.socket = c.socket /\ d.writes = c.writes
         /\ GoesOn(c, d, s, s)
<1>1. /\ d.socket = c.socket /\ d.read = c.read /\ d.writes = c.writes /\ d.out = c.out
      /\ d.temp = c.temp /\ d.ready = Pushed(c.ready, h)
  BY PostIs
<1> HIDE DEF Post
<1>2. TokenInv(e, d) /\ Stage(e, d) = Ready(h)
  <2>1. Vacant(e, c) /\ IsSeq(c.ready)
    BY IdleIs DEF IsEnd
  <2> QED BY <1>1, <2>1, TokenPosts
<1>3. SocketInv(d)
  <2>1. CASE c.socket # "none"
    BY <1>1, <2>1, SocketStays
  <2>2. CASE c.socket = "none"
    <3> DEFINE q == c.ready
               r == Pushed(q, h)
               n == Len(q)
    <3>1. IsSeq(q) /\ (\A i \in DOMAIN q : q[i].op = "accept") /\ h.op = "accept"
      BY <2>2 DEF SocketInv, IsEnd
    <3>2. IsSeq(r) /\ n \in Nat /\ Len(r) = n + 1 /\ (\A i \in 1 .. n : r[i] = q[i]) /\ r[n + 1] = h
      BY <3>1, PushedIs
    <3>3. DOMAIN q = 1 .. n /\ DOMAIN r = 1 .. Len(r)
      BY <3>1, <3>2, AppendSeq
    <3>4. d.ready = r
      BY <1>1
    <3> HIDE DEF q, r, n
    <3>5. \A i \in DOMAIN r : r[i].op = "accept"
      <4> TAKE i \in DOMAIN r
      <4>1. i \in 1 .. n \/ i = n + 1
        BY <3>2, <3>3
      <4> QED BY <3>1, <3>2, <3>3, <4>1
    <3>6. d.read = "none" /\ d.writes = <<>> /\ d.socket = "none"
      BY <1>1, <2>2 DEF SocketInv
    <3> QED BY <3>4, <3>5, <3>6 DEF SocketInv
  <2> QED BY <2>1, <2>2
<1>4. WordInv(d)
  BY <1>1, WordStays
<1>5. GoesOn(c, d, s, s)
  <2>1. h.op \notin MessageWrites /\ h.op # "send"
    BY TokensAre
  <2> QED BY <1>1, <2>1, WriterPosts
<1> QED BY <1>1, <1>2, <1>3, <1>4, <1>5

LEMMA ConnectStream ==
  ASSUME Inv, ShapeInv, StreamInv, Connect
  PROVE  StreamInv'
<1> DEFINE c == end["client"]
           d == end["server"]
           f == end'["client"]
           st == Stage("client", c)
           ss == Stage("server", d)
<1>0. "client" \in Ends /\ "server" \in Ends /\ Peer("client") = "server" /\ Peer("server") = "client"
  BY PeerIs DEF Ends
<1>1. /\ IsEnd(c) /\ TokenInv("client", c) /\ WordInv(c) /\ SocketInv(c)
      /\ TokenInv("server", d) /\ WordInv(d) /\ SocketInv(d)
      /\ link = "none" => st.at = "idle" /\ ss.at = "idle"
  BY <1>0, EndIs
<1>2. /\ link = "none" /\ link' = "connecting" /\ end' = [end EXCEPT !["client"].socket = "open"]
      /\ wire' = wire /\ sent' = sent /\ received' = received
  BY DEF Connect
<1>3. c.socket = "none" /\ d.socket = "none"
  BY <1>2 DEF Inv, LinkInv, Untouched
<1>4. f = [c EXCEPT !.socket = "open"] /\ end'["server"] = d
  BY <1>0, <1>2 DEF Inv
<1>5. /\ f.socket = "open" /\ f.read = c.read /\ f.writes = c.writes /\ f.ready = c.ready
      /\ f.out = c.out /\ f.temp = c.temp
  BY <1>1, <1>4 DEF IsEnd
<1>s. IsSeq(sent["client"]) /\ IsSeq(sent["server"])
  BY <1>0 DEF ShapeInv, IsSeq
<1> HIDE DEF c, d, f
<1>6. TokenInv("client", f) /\ Stage("client", f) = st
  BY <1>1, <1>5, StageSame
<1>7. SocketInv(f) /\ WordInv(f)
  BY <1>1, <1>5, WordStays DEF SocketInv
<1>8. GoesOn(c, f, sent["client"], sent["client"])
  BY <1>1, <1>3, <1>5, <1>s, WriterSame DEF IsEnd
<1>9. GoesOn(d, d, sent["server"], sent["server"])
  BY DEF GoesOn
<1>10. Opens(link, st, c.socket, link', st, f.socket, wire["server"])
  BY <1>2, <1>3, <1>5 DEF Opens, Listening, Opening, Early, Spoiled
<1>11. Opens(link, ss, d.socket, link', ss, d.socket, wire["client"])
  BY <1>2, <1>3 DEF Opens, Listening, Opening, Early, Spoiled
<1>12. \A e \in Ends :
         /\ TokenInv(e, end'[e]) /\ SocketInv(end'[e]) /\ WordInv(end'[e])
         /\ end'[e].temp = end[e].temp /\ GoesOn(end[e], end'[e], sent[e], sent[e])
         /\ link' \in {"none", "connecting"} => Stage(e, end'[e]).at = "idle"
         /\ Opens(link, Stage(e, end[e]), end[e].socket, link', Stage(e, end'[e]), end'[e].socket, wire[Peer(e)])
  <2> TAKE e \in Ends
  <2>1. CASE e = "client"
    BY <1>0, <1>1, <1>2, <1>5, <1>6, <1>7, <1>8, <1>10, <2>1 DEF c, f
  <2>2. CASE e = "server"
    BY <1>0, <1>1, <1>2, <1>4, <1>9, <1>11, <2>2 DEF d
  <2> QED BY <2>1, <2>2 DEF Ends
<1>13. /\ end'["client"].socket # "none" /\ link' # "up"
       /\ end'["server"].writes = end["server"].writes /\ end'["server"].socket = end["server"].socket
  BY <1>2, <1>4, <1>5 DEF f, d
<1> QED BY <1>2, <1>12, <1>13, LinkStep

LEMMA EstablishStream ==
  ASSUME Inv, ShapeInv, StreamInv, Establish
  PROVE  StreamInv'
<1> DEFINE c == end["client"]
           d == end["server"]
           hc == Completion("connected", TRUE, NoUnit)
           hs == [op |-> "accept"]
           f == Post(c, hc)
           g == Post(d, hs)
           st == Stage("client", c)
           ss == Stage("server", d)
<1>0. "client" \in Ends /\ "server" \in Ends /\ Peer("client") = "server" /\ Peer("server") = "client"
  BY PeerIs DEF Ends
<1>1. /\ IsEnd(c) /\ TokenInv("client", c) /\ WordInv(c) /\ SocketInv(c)
      /\ IsEnd(d) /\ TokenInv("server", d) /\ WordInv(d) /\ SocketInv(d)
      /\ link = "connecting" => st.at = "idle" /\ ss.at = "idle"
  BY <1>0, EndIs
<1>2. /\ link = "connecting" /\ link' = "up" /\ c.socket = "open"
      /\ end' = [end EXCEPT !["client"] = f, !["server"] = g]
      /\ wire' = wire /\ sent' = sent /\ received' = received
  BY DEF Establish, IsConnected
<1>3. d.socket = "none"
  BY <1>2 DEF Inv, LinkInv, Untouched
<1>4. hc.op = "connected" /\ hc.ok /\ hs.op = "accept"
  BY DEF Completion
<1>s. IsSeq(sent["client"]) /\ IsSeq(sent["server"])
  BY <1>0 DEF ShapeInv, IsSeq
<1> HIDE DEF hc, hs
<1>5. Ready(hc).at = "connected" /\ Ready(hs).at = "connected"
  BY <1>4 DEF Ready, Turn
<1>6. hc.op \in Tokens("client") /\ hs.op \in Tokens("server")
  BY <1>0, <1>4, TokensAre
<1>7. end'["client"] = f /\ end'["server"] = g
  <2> HIDE DEF f, g
  <2> QED BY <1>0, <1>2 DEF Inv
<1> HIDE DEF c, d
<1>8. /\ TokenInv("client", f) /\ Stage("client", f) = Ready(hc) /\ SocketInv(f) /\ WordInv(f)
      /\ f.temp = c.temp /\ f.socket = c.socket /\ f.writes = c.writes
      /\ GoesOn(c, f, sent["client"], sent["client"])
  BY <1>0, <1>1, <1>2, <1>6, <1>s, TokenPosted
<1>9. /\ TokenInv("server", g) /\ Stage("server", g) = Ready(hs) /\ SocketInv(g) /\ WordInv(g)
      /\ g.temp = d.temp /\ g.socket = d.socket /\ g.writes = d.writes
      /\ GoesOn(d, g, sent["server"], sent["server"])
  BY <1>0, <1>1, <1>2, <1>4, <1>6, <1>s, TokenPosted
<1> HIDE DEF f, g, st, ss
<1>10. Opens(link, st, c.socket, link', Ready(hc), f.socket, wire["server"])
  BY <1>1, <1>2, <1>5, <1>8 DEF Opens, Listening, Opening, Early, Spoiled
<1>11. Opens(link, ss, d.socket, link', Ready(hs), g.socket, wire["client"])
  BY <1>1, <1>2, <1>3, <1>5, <1>9 DEF Opens, Listening, Opening, Early, Spoiled
<1>12. \A e \in Ends :
         /\ TokenInv(e, end'[e]) /\ SocketInv(end'[e]) /\ WordInv(end'[e])
         /\ end'[e].temp = end[e].temp /\ GoesOn(end[e], end'[e], sent[e], sent[e])
         /\ link' \in {"none", "connecting"} => Stage(e, end'[e]).at = "idle"
         /\ Opens(link, Stage(e, end[e]), end[e].socket, link', Stage(e, end'[e]), end'[e].socket, wire[Peer(e)])
  <2> TAKE e \in Ends
  <2>1. CASE e = "client"
    BY <1>0, <1>2, <1>7, <1>8, <1>10, <2>1 DEF c, st
  <2>2. CASE e = "server"
    BY <1>0, <1>2, <1>7, <1>9, <1>11, <2>2 DEF d, ss
  <2> QED BY <2>1, <2>2 DEF Ends
<1>13. /\ end'["client"].socket # "none" /\ end["server"].socket = "none"
       /\ end'["server"].writes = end["server"].writes /\ end'["server"].socket = end["server"].socket
  BY <1>2, <1>3, <1>7, <1>8, <1>9 DEF c, d
<1> QED BY <1>2, <1>12, <1>13, LinkStep
LEMMA ConnectFailsStream ==
  ASSUME Inv, ShapeInv, StreamInv, ConnectFails
  PROVE  StreamInv'
<1> DEFINE c == end["client"]
           d == end["server"]
           hc == Completion("connected", FALSE, NoUnit)
           f == Post(c, hc)
           st == Stage("client", c)
           ss == Stage("server", d)
<1>0. "client" \in Ends /\ "server" \in Ends /\ Peer("client") = "server" /\ Peer("server") = "client"
  BY PeerIs DEF Ends
<1>1. /\ IsEnd(c) /\ TokenInv("client", c) /\ WordInv(c) /\ SocketInv(c)
      /\ IsEnd(d) /\ TokenInv("server", d) /\ WordInv(d) /\ SocketInv(d)
      /\ link = "connecting" => st.at = "idle" /\ ss.at = "idle"
  BY <1>0, EndIs
<1>2. /\ link = "connecting" /\ link' = "refused"
      /\ end' = [end EXCEPT !["client"] = f]
      /\ wire' = wire /\ sent' = sent /\ received' = received
  BY DEF ConnectFails
<1>3. c.socket # "none"
  BY <1>2 DEF StreamInv
<1>4. hc.op = "connected" /\ ~ hc.ok
  BY DEF Completion
<1>s. IsSeq(sent["client"]) /\ IsSeq(sent["server"])
  BY <1>0 DEF ShapeInv, IsSeq
<1> HIDE DEF hc
<1>5. Ready(hc).at = "failed"
  BY <1>4 DEF Ready, Turn
<1>6. hc.op \in Tokens("client")
  BY <1>0, <1>4, TokensAre
<1>7. end'["client"] = f /\ end'["server"] = d
  <2> HIDE DEF f
  <2> QED BY <1>0, <1>2 DEF Inv
<1> HIDE DEF c, d
<1>8. /\ TokenInv("client", f) /\ Stage("client", f) = Ready(hc) /\ SocketInv(f) /\ WordInv(f)
      /\ f.temp = c.temp /\ f.socket = c.socket /\ f.writes = c.writes
      /\ GoesOn(c, f, sent["client"], sent["client"])
  BY <1>0, <1>1, <1>2, <1>3, <1>6, <1>s, TokenPosted
<1>9. GoesOn(d, d, sent["server"], sent["server"])
  BY DEF GoesOn
<1> HIDE DEF f, st, ss
<1>10. Opens(link, st, c.socket, link', Ready(hc), f.socket, wire["server"])
  BY <1>1, <1>2, <1>5, <1>8 DEF Opens, Listening, Opening, Early
<1>11. Opens(link, ss, d.socket, link', ss, d.socket, wire["client"])
  BY <1>1, <1>2 DEF Opens, Listening, Opening, Early
<1>12. \A e \in Ends :
         /\ TokenInv(e, end'[e]) /\ SocketInv(end'[e]) /\ WordInv(end'[e])
         /\ end'[e].temp = end[e].temp /\ GoesOn(end[e], end'[e], sent[e], sent[e])
         /\ link' \in {"none", "connecting"} => Stage(e, end'[e]).at = "idle"
         /\ Opens(link, Stage(e, end[e]), end[e].socket, link', Stage(e, end'[e]), end'[e].socket, wire[Peer(e)])
  <2> TAKE e \in Ends
  <2>1. CASE e = "client"
    BY <1>0, <1>2, <1>7, <1>8, <1>10, <2>1 DEF c, st
  <2>2. CASE e = "server"
    BY <1>0, <1>1, <1>2, <1>7, <1>9, <1>11, <2>2 DEF d, ss
  <2> QED BY <2>1, <2>2 DEF Ends
<1>13. /\ end'["client"].socket # "none" /\ link' # "up"
       /\ end'["server"].writes = end["server"].writes /\ end'["server"].socket = end["server"].socket
  BY <1>2, <1>3, <1>7, <1>8 DEF c, d
<1> QED BY <1>2, <1>12, <1>13, LinkStep

LEMMA BreakStream ==
  ASSUME Inv, ShapeInv, StreamInv, Break
  PROVE  StreamInv'
<1>1. /\ link = "up" /\ link' = "broken" /\ end' = end
      /\ wire' = wire /\ sent' = sent /\ received' = received
  BY DEF Break
<1>2. \A e \in Ends :
         /\ TokenInv(e, end[e]) /\ SocketInv(end[e]) /\ WordInv(end[e])
         /\ GoesOn(end[e], end[e], sent[e], sent[e])
         /\ Opens(link, Stage(e, end[e]), end[e].socket, link', Stage(e, end[e]), end[e].socket, wire[Peer(e)])
  BY <1>1, EndIs DEF GoesOn, Opens, Listening, Opening, Early, Spoiled
<1>3. end["client"].socket # "none"
  BY <1>1 DEF StreamInv
<1> QED BY <1>1, <1>2, <1>3, LinkStep

------------------------------------------------------------------------------
(* The kernel. *)

LEMMA TransmitFailsStream ==
  ASSUME Inv, ShapeInv, StreamInv, NEW e, e \in Ends, TransmitFails(e)
  PROVE  StreamInv'
<1> DEFINE c == end[e]
           w == Head(c.writes)
           b == [c EXCEPT !.writes = Tail(c.writes)]
           h == Completion(w.op, FALSE, w.unit)
           d == Post(b, h)
           st == Stage(e, c)
           st2 == Stage(e, d)
<1>1. /\ IsEnd(c) /\ EndInv(c) /\ TokenInv(e, c) /\ SocketInv(c) /\ WordInv(c) /\ IsSeq(c.writes)
      /\ link \in {"none", "connecting"} => st.at = "idle"
  BY EndIs
<1>2. /\ c.writes # <<>>
      /\ end' = [end EXCEPT ![e] = d]
      /\ link' = link /\ wire' = wire /\ sent' = sent /\ received' = received
  BY DEF TransmitFails, FinishWrite
<1>n. c.writes # <<>> /\ (link # "up" \/ end[Peer(e)].socket = "closed")
  BY DEF TransmitFails, PeerLost
<1>3. end'[e] = d /\ end'[Peer(e)] = end[Peer(e)]
  <2>1. end = [x \in Ends |-> end[x]] /\ Peer(e) \in Ends /\ Peer(e) # e
    BY PeerIs DEF Inv
  <2> HIDE DEF d
  <2> QED BY <1>2, <2>1
<1>4. h.op = w.op /\ ~ h.ok
  BY DEF Completion
<1> HIDE DEF h, c
<1>5. /\ d.socket = c.socket /\ d.read = c.read /\ d.out = c.out /\ d.temp = c.temp
      /\ d.ready = Pushed(c.ready, h) /\ d.writes = Popped(c.writes) /\ IsEnd(d)
  BY <1>1, <1>n, FinishedWriteIs
<1>6. /\ TokenInv(e, d)
      /\ h.op \notin Tokens(e) => st2 = st
      /\ h.op \in Tokens(e) => st = Turn("answering", NoUnit) /\ st2 = Ready(h)
  BY <1>1, <1>n, <1>4, StageFinishesWrite
<1>7. h.op \in Writes
  <2>1. 1 \in DOMAIN c.writes /\ w = c.writes[1]
    BY <1>1, <1>n, TailSeq
  <2> QED BY <1>1, <1>4, <2>1 DEF IsEnd
<1>8. GoesOn(c, d, sent[e], sent[e])
  <2>1. /\ Broken(d) <=> Broken(c) \/ (h.op \in MessageWrites /\ ~ h.ok)
        /\ h.op \notin MessageWrites => \A s : IsSeq(s) => GoesOn(c, d, s, s)
    <3>1. h.op # "send"
      BY <1>7 DEF Writes
    <3> QED BY <1>1, <1>n, <1>4, <3>1, WriterFinishes
  <2>2. IsSeq(sent[e])
    BY DEF ShapeInv, IsSeq
  <2>3. h.op \in MessageWrites => Broken(d)
    BY <1>4, <2>1
  <2> HIDE DEF d
  <2> QED BY <2>1, <2>2, <2>3 DEF GoesOn
<1>9. c.socket = "open"
  BY <1>1, <1>n, SocketOfWrites
<1> HIDE DEF d, b
<1>10. SocketInv(d) /\ WordInv(d)
  <2>1. SocketInv(d)
    BY <1>1, <1>5, <1>9, SocketStays
  <2>2. WordInv(d)
    BY <1>1, <1>5, <1>n, WordPopped
  <2> QED BY <2>1, <2>2
<1>11. st2 = st \/ (st2.at = "failed" /\ link \notin {"none", "connecting"})
  <2>1. h.op \in Tokens(e) => Ready(h).at = "failed"
    <3>1. h.op # "accept" /\ h.op # "connected"
      BY <1>7 DEF Writes
    <3> QED BY <1>4, <3>1 DEF Ready, Turn
  <2>2. h.op \in Tokens(e) => link \notin {"none", "connecting"}
    <3>1. h.op \in Tokens(e) => st.at = "answering"
      BY <1>6 DEF Turn
    <3> QED BY <1>1, <3>1
  <2> QED BY <1>6, <2>1, <2>2
<1> HIDE DEF st, st2
<1>12. Turns(e, link, st, c.socket, wire[Peer(e)], st2, d.socket)
  BY <1>1, <1>5, <1>11, TurnsSame, TurnsOff
<1>13. TakenInv(link, st2, d.temp, received[e], sent[Peer(e)])
  <2>1. TakenInv(link, st, c.temp, received[e], sent[Peer(e)])
    BY DirectionIs DEF st, c
  <2> QED BY <1>5, <1>11, <2>1, TakenOff
<1>14. Listening(link, st2) /\ d.socket # "closed" =>
         Due(st2, Len(received[e]), sent[Peer(e)]) = Due(st, Len(received[e]), sent[Peer(e)])
  BY <1>11 DEF Listening, Opening
<1>15. ASSUME e = "server"
       PROVE  ChallengeInv(link, Stage("client", end["client"]), end["client"].socket, d, wire["server"])
  <2>1. ChallengeInv(link, Stage("client", end["client"]), end["client"].socket, c, wire["server"])
    BY <1>15 DEF StreamInv, c
  <2>2. link # "up" \/ end["client"].socket = "closed"
    BY <1>15, <1>n, PeerIs
  <2> QED BY <1>1, <1>5, <1>9, <1>n, <2>1, <2>2, ChallengeFails
<1>16. Same(end'[e], d)
  BY <1>3 DEF Same
<1>17. st = Stage(e, end[e]) /\ c = end[e] /\ st2 = Stage(e, d) /\ d.socket # "none"
  BY <1>5, <1>9 DEF c, st, st2
<1> QED BY <1>2, <1>3, <1>6, <1>8, <1>10, <1>12, <1>13, <1>14, <1>15, <1>16, <1>17, LocalStep

LEMMA ArriveFailsStream ==
  ASSUME Inv, ShapeInv, StreamInv, NEW e, e \in Ends, ArriveFails(e)
  PROVE  StreamInv'
<1> DEFINE c == end[e]
           b == [c EXCEPT !.read = "none"]
           h == Completion(c.read, FALSE, NoUnit)
           d == Post(b, h)
           st == Stage(e, c)
           st2 == Stage(e, d)
<1>1. /\ IsEnd(c) /\ TokenInv(e, c) /\ SocketInv(c) /\ WordInv(c) /\ IsSeq(c.writes)
      /\ link \in {"none", "connecting"} => st.at = "idle"
  BY EndIs
<1>2. /\ c.read # "none" /\ end' = [end EXCEPT ![e] = d]
      /\ link' = link /\ wire' = wire /\ sent' = sent /\ received' = received
  BY DEF ArriveFails, FinishRead
<1>3. end'[e] = d /\ end'[Peer(e)] = end[Peer(e)]
  <2>1. end = [x \in Ends |-> end[x]] /\ Peer(e) \in Ends /\ Peer(e) # e
    BY PeerIs DEF Inv
  <2> HIDE DEF d
  <2> QED BY <1>2, <2>1
<1>4. h.op = c.read /\ ~ h.ok
  BY DEF Completion
<1> HIDE DEF h, c
<1>5. /\ d.socket = c.socket /\ d.read = "none" /\ d.out = c.out /\ d.temp = c.temp
      /\ d.ready = Pushed(c.ready, h) /\ d.writes = c.writes /\ IsEnd(d)
  BY <1>1, FinishedReadIs
<1>6. TokenInv(e, d) /\ st = Turn(c.read, NoUnit) /\ st2 = Ready(h)
  BY <1>1, <1>2, <1>4, StageFinishesRead
<1>7. h.op \in Reads
  BY <1>1, <1>2, <1>4 DEF IsEnd
<1>8. GoesOn(c, d, sent[e], sent[e])
  <2>1. h.op # "send" /\ h.op \notin MessageWrites
    BY <1>7 DEF Reads, MessageWrites
  <2>2. IsSeq(sent[e])
    BY DEF ShapeInv, IsSeq
  <2> HIDE DEF d
  <2> QED BY <1>1, <1>5, <2>1, <2>2, WriterPosts
<1>9. c.socket = "open"
  BY <1>1, <1>2, SocketOfWrites
<1> HIDE DEF d, b
<1>10. SocketInv(d) /\ WordInv(d)
  BY <1>1, <1>5, <1>9, SocketStays, WordStays
<1>11. st2.at = "failed" /\ link \notin {"none", "connecting"}
  <2>1. Ready(h).at = "failed"
    <3>1. h.op # "accept" /\ h.op # "connected"
      BY <1>7 DEF Reads
    <3> QED BY <1>4, <3>1 DEF Ready, Turn
  <2>2. st.at # "idle"
    BY <1>4, <1>6, <1>7 DEF Turn, Reads
  <2> QED BY <1>1, <1>6, <2>1, <2>2
<1> HIDE DEF st, st2
<1>12. Turns(e, link, st, c.socket, wire[Peer(e)], st2, d.socket)
  BY <1>11, TurnsOff
<1>13. TakenInv(link, st2, d.temp, received[e], sent[Peer(e)])
  <2>1. TakenInv(link, st, c.temp, received[e], sent[Peer(e)])
    BY DirectionIs DEF st, c
  <2> QED BY <1>5, <1>11, <2>1, TakenOff
<1>14. ~ Listening(link, st2)
  BY <1>11 DEF Listening, Opening
<1>15. ASSUME e = "server"
       PROVE  ChallengeInv(link, Stage("client", end["client"]), end["client"].socket, d, wire["server"])
  <2>1. ChallengeInv(link, Stage("client", end["client"]), end["client"].socket, c, wire["server"])
    BY <1>15 DEF StreamInv, c
  <2> QED BY <1>5, <2>1 DEF ChallengeInv
<1>16. Same(end'[e], d)
  BY <1>3 DEF Same
<1>17. st = Stage(e, end[e]) /\ c = end[e] /\ st2 = Stage(e, d) /\ d.socket # "none"
  BY <1>5, <1>9 DEF c, st, st2
<1> QED BY <1>2, <1>3, <1>6, <1>8, <1>10, <1>12, <1>13, <1>14, <1>15, <1>16, <1>17, LocalStep
------------------------------------------------------------------------------
(* Steps that change what is sent or what lies between the ends. *)

LEMMA Assembled ==
  ASSUME StreamInv, link' = link, received' = received, NEW e, e \in Ends, NEW p, p = Peer(e),
         NEW d, end'[e] = d, end'[p] = end[p],
         TokenInv(e, d), SocketInv(d), WordInv(d), d.socket # "none",
         link \in {"none", "connecting"} => Stage(e, d).at = "idle",
         TakenInv(link, Stage(e, d), d.temp, received[e], sent'[p]),
         FlowInv(link, Stage(e, d), d.socket, wire'[p], Len(received[e]), sent'[p], end[p]),
         TakenInv(link, Stage(p, end[p]), end[p].temp, received[p], sent'[e]),
         FlowInv(link, Stage(p, end[p]), end[p].socket, wire'[e], Len(received[p]), sent'[e], d),
         AnswerInv(link, Stage("client", end'["client"]), Stage("server", end'["server"]), wire'["client"]),
         ChallengeInv(link, Stage("client", end'["client"]), end'["client"].socket, end'["server"], wire'["server"])
  PROVE  StreamInv'
<1>1. p \in Ends /\ p # e /\ Peer(p) = e /\ \A x \in Ends : x = e \/ x = p
  BY PeerIs
<1>2. link # "none" => end'["client"].socket # "none"
  BY <1>1 DEF StreamInv, Ends
<1>3. \A x \in Ends :
        /\ TokenInv(x, end'[x]) /\ SocketInv(end'[x]) /\ WordInv(end'[x])
        /\ link \in {"none", "connecting"} => Stage(x, end'[x]).at = "idle"
        /\ TakenInv(link, Stage(x, end'[x]), end'[x].temp, received[x], sent'[Peer(x)])
        /\ FlowInv(link, Stage(x, end'[x]), end'[x].socket, wire'[Peer(x)], Len(received[x]), sent'[Peer(x)], end'[Peer(x)])
  <2> TAKE x \in Ends
  <2>1. CASE x = e
    BY <2>1
  <2>2. CASE x = p
    <3>1. /\ TokenInv(p, end[p]) /\ SocketInv(end[p]) /\ WordInv(end[p])
          /\ link \in {"none", "connecting"} => Stage(p, end[p]).at = "idle"
      BY <1>1 DEF StreamInv
    <3> QED BY <1>1, <2>2, <3>1
  <2> QED BY <1>1, <2>1, <2>2
<1> QED BY <1>2, <1>3 DEF StreamInv, DirectionInv

LEMMA SendStream ==
  ASSUME Inv, ShapeInv, StreamInv, NEW e, e \in Ends, NEW m, m \in Messages, Send(e, m)
  PROVE  StreamInv'
<1> DEFINE c == end[e]
           p == Peer(e)
           h == [op |-> "send", message |-> m]
           d == Post(c, h)
           s == sent[e]
           t == sent'[e]
           st == Stage(e, c)
           stp == Stage(p, end[p])
<1>1. /\ IsEnd(c) /\ EndInv(c) /\ TokenInv(e, c) /\ SocketInv(c) /\ WordInv(c) /\ IsSeq(c.writes)
      /\ link \in {"none", "connecting"} => st.at = "idle"
  BY EndIs
<1>2. /\ c.socket = "open" /\ end' = [end EXCEPT ![e] = d]
      /\ sent' = [sent EXCEPT ![e] = Append(s, m)]
      /\ link' = link /\ wire' = wire /\ received' = received
  BY DEF Send, IsConnected
<1>p. p \in Ends /\ p # e /\ Peer(p) = e
  BY PeerIs
<1>3. end'[e] = d /\ end'[p] = end[p]
  <2>1. end = [x \in Ends |-> end[x]]
    BY DEF Inv
  <2> HIDE DEF d, p
  <2> QED BY <1>2, <1>p, <2>1
<1>4. t = Pushed(s, m) /\ sent'[p] = sent[p]
  <2> DEFINE y == Append(s, m)
  <2>1. y = Pushed(s, m)
    BY Zenon DEF Pushed
  <2>2. sent = [x \in Ends |-> sent[x]] /\ sent' = [sent EXCEPT ![e] = y]
    BY <1>2 DEF ShapeInv
  <2> HIDE DEF y, p
  <2> QED BY <1>p, <2>1, <2>2
<1>5. h.op = "send" /\ h.message = m
  OBVIOUS
<1>s. IsSeq(s) /\ IsSeq(wire[e]) /\ IsSeq(received[p])
  BY <1>p DEF ShapeInv, IsSeq
<1> HIDE DEF h, c, s, t, p
<1>6. h.op \notin Tokens(e)
  BY <1>5, TokensAre
<1>7. Kept(e, c, d)
  BY <1>1, <1>2, <1>6, KeptPosts
<1>8. /\ TokenInv(e, d) /\ SocketInv(d) /\ WordInv(d) /\ Stage(e, d) = st
      /\ d.temp = c.temp /\ d.socket = c.socket
  BY <1>7 DEF Kept
<1>9. d.writes = c.writes
  BY <1>1, PostIs
<1>10. GoesOn(c, d, s, t)
  BY <1>1, <1>4, <1>5, <1>s, WriterSends
<1> HIDE DEF d, st, stp
<1>11. /\ TakenInv(link, st, c.temp, received[e], sent[p])
       /\ FlowInv(link, st, c.socket, wire[p], Len(received[e]), sent[p], end[p])
  BY DirectionIs DEF c, p, st
<1>12. /\ TakenInv(link, stp, end[p].temp, received[p], s)
       /\ FlowInv(link, stp, end[p].socket, wire[e], Len(received[p]), s, c)
  BY <1>p, DirectionIs DEF stp, c, s
<1>13. Due(stp, Len(received[p]), t) = Due(stp, Len(received[p]), s)
       /\ TakenInv(link, stp, end[p].temp, received[p], t)
  <2>1. Len(received[p]) \in Nat
    BY <1>s, AppendSeq
  <2> QED BY <1>4, <1>12, <1>s, <2>1, DueIs
<1>14. FlowInv(link, stp, end[p].socket, wire[e], Len(received[p]), t, d)
  BY <1>4, <1>10, <1>12, <1>13, <1>s, FlowSends
<1>15. /\ AnswerInv(link, Stage("client", end["client"]), Stage("server", end["server"]), wire["client"])
       /\ ChallengeInv(link, Stage("client", end["client"]), end["client"].socket, end["server"], wire["server"])
  BY DEF StreamInv
<1>16. \A x \in Ends : /\ Stage(x, end'[x]) = Stage(x, end[x]) /\ end'[x].socket = end[x].socket
                       /\ end'[x].writes = end[x].writes
  <2> TAKE x \in Ends
  <2>1. CASE x = e
    BY <1>3, <1>8, <1>9, <2>1 DEF c, st
  <2>2. CASE x = p
    BY <1>3, <2>2
  <2> QED BY <2>1, <2>2, PeerIs DEF p
<1>17. AnswerInv(link, Stage("client", end'["client"]), Stage("server", end'["server"]), wire["client"])
  BY <1>15, <1>16 DEF Ends
<1>18. ChallengeInv(link, Stage("client", end'["client"]), end'["client"].socket, end'["server"], wire["server"])
  BY <1>15, <1>16 DEF Ends, ChallengeInv
<1>19. Stage(e, d) = st /\ stp = Stage(p, end[p]) /\ t = sent'[e] /\ p = Peer(e) /\ d.socket # "none"
  BY <1>2, <1>8 DEF stp, t, p
<1> QED BY <1>1, <1>2, <1>3, <1>4, <1>8, <1>11, <1>13, <1>14, <1>17, <1>18, <1>19, Assembled
LEMMA AskerIs ==
  ASSUME NEW c, IsEnd(c), TokenInv("server", c)
  PROVE  Stage("server", c).at \in Reads \cup {"idle", "failed", "connected", "gotValidation", "gotHeader", "gotBody"}
<1> DEFINE st == Stage("server", c)
<1>1. Held(c.writes, Tokens("server")) = {}
  BY DEF Held, At, IsEnd, Tokens, Reads, Writes
<1>2. CASE c.read # "none"
  <2>1. st = Turn(c.read, NoUnit) /\ c.read \in Reads
    BY <1>2, StageIs DEF IsEnd
  <2> QED BY <2>1 DEF Turn
<1>3. CASE c.read = "none" /\ Held(c.ready, Tokens("server")) = {}
  BY <1>1, <1>3, VacantIs DEF Vacant, Turn
<1>4. CASE Held(c.ready, Tokens("server")) # {}
  <2>1. PICK h \in Held(c.ready, Tokens("server")) : TRUE
    BY <1>4
  <2>2. st = Ready(h) /\ h.op \in Tokens("server")
    BY <2>1, StageIs, HeldOps
  <2>3. h.op # "writeValidation"
    BY <2>2 DEF Tokens, Reads
  <2>4. Ready(h).at \in {"connected", "failed", "gotValidation", "gotHeader", "gotBody"}
    BY <2>3 DEF Ready, Turn
  <2> QED BY <2>2, <2>4
<1> QED BY <1>2, <1>3, <1>4

LEMMA TransmitStream ==
  ASSUME Inv, ShapeInv, StreamInv, NEW e, e \in Ends, Transmit(e)
  PROVE  StreamInv'
<1> DEFINE c == end[e]
           q == Peer(e)
           w == Head(c.writes)
           unit == w.unit
           b == [c EXCEPT !.writes = Tail(c.writes)]
           h == Completion(w.op, TRUE, w.unit)
           d == Post(b, h)
           s == sent[e]
           units == wire[e]
           st == Stage(e, c)
           st2 == Stage(e, d)
           stq == Stage(q, end[q])
<1>1. /\ IsEnd(c) /\ EndInv(c) /\ TokenInv(e, c) /\ SocketInv(c) /\ WordInv(c) /\ IsSeq(c.writes)
  BY EndIs
<1>2. /\ c.writes # <<>> /\ link = "up" /\ link' = link
      /\ end' = [end EXCEPT ![e] = d]
      /\ wire' = [wire EXCEPT ![e] = Append(units, unit)]
      /\ sent' = sent /\ received' = received
  BY DEF Transmit, FinishWrite
<1>n. c.writes # <<>> /\ link = "up" /\ link' = link /\ sent' = sent /\ received' = received
  BY <1>2
<1>p. q \in Ends /\ q # e /\ Peer(q) = e
  BY PeerIs
<1>3. end'[e] = d /\ end'[q] = end[q]
  <2>1. end = [x \in Ends |-> end[x]]
    BY DEF Inv
  <2> HIDE DEF d, q
  <2> QED BY <1>2, <1>p, <2>1
<1>4. wire'[e] = Pushed(units, unit) /\ wire'[q] = wire[q]
  <2> DEFINE y == Append(units, unit)
  <2>1. y = Pushed(units, unit)
    BY Zenon DEF Pushed
  <2>2. wire = [x \in Ends |-> wire[x]] /\ wire' = [wire EXCEPT ![e] = y]
    BY <1>2 DEF ShapeInv
  <2> HIDE DEF y, q
  <2> QED BY <1>p, <2>1, <2>2
<1>5. h.op = w.op /\ h.ok
  BY DEF Completion
<1>s. IsSeq(s) /\ IsSeq(units) /\ IsSeq(wire[q])
  BY <1>p DEF ShapeInv, IsSeq
<1> HIDE DEF h, c, s, q, units
<1>6. /\ d.socket = c.socket /\ d.read = c.read /\ d.out = c.out /\ d.temp = c.temp
      /\ d.ready = Pushed(c.ready, h) /\ d.writes = Popped(c.writes) /\ IsEnd(d)
  BY <1>1, <1>n, FinishedWriteIs
<1>7. h.op \in Writes
  <2>1. 1 \in DOMAIN c.writes /\ w = c.writes[1]
    BY <1>1, <1>n, TailSeq
  <2> QED BY <1>1, <1>5, <2>1 DEF IsEnd
<1>8. /\ TokenInv(e, d)
      /\ h.op \notin Tokens(e) => st2 = st
      /\ h.op \in Tokens(e) => st = Turn("answering", NoUnit) /\ st2 = Ready(h)
  BY <1>1, <1>n, <1>5, StageFinishesWrite
<1>9. h.op \in Tokens(e) <=> e = "client" /\ h.op = "writeValidation"
  BY <1>7, TokensAre DEF Writes, MessageWrites
<1>10. h.op = "writeValidation" => Ready(h).at = "answered"
  BY <1>5 DEF Ready, Turn
<1>11. \/ st2 = st /\ ~ (e = "client" /\ h.op = "writeValidation")
       \/ e = "client" /\ h.op = "writeValidation" /\ st.at = "answering" /\ st2.at = "answered"
  BY <1>8, <1>9, <1>10 DEF Turn
<1>12. c.socket = "open"
  BY <1>1, <1>n, SocketOfWrites
<1>13. unit.kind = "validation" <=> h.op = "writeValidation"
  BY <1>1, <1>5, <1>6, <1>n, WordPopped
<1>14. \A i : WriterAt(c, s, i) /\ h.op \in MessageWrites => IsUnit(unit, i, s) /\ WriterAt(d, s, After(i, s))
  BY <1>1, <1>5, <1>n, <1>s, WriterTransmits
<1>15. h.op \notin MessageWrites => GoesOn(c, d, s, s)
  <2>1. h.op # "send"
    BY <1>7 DEF Writes
  <2> QED BY <1>1, <1>5, <1>n, <1>s, <2>1, WriterFinishes
<1>16. h.op \in MessageWrites => ~ Broken(c)
  <2>1. 1 \in DOMAIN c.writes /\ w = c.writes[1]
    BY <1>1, <1>n, TailSeq
  <2>2. h.op \in MessageWrites => Outstanding(c) # {}
    BY <1>5, <2>1 DEF Outstanding
  <2>3. h.op \in MessageWrites => Finished(c) = {}
    BY <1>1, <2>2 DEF EndInv, WriteInv, OneAtMost
  <2>4. h.op \in MessageWrites => Held(c.ready, MessageWrites) = {}
    BY <2>3 DEF Held, At, Finished
  <2> QED BY <1>12, <2>4 DEF Broken
<1> HIDE DEF d, b, unit, w
<1>17. SocketInv(d) /\ WordInv(d)
  <2>1. SocketInv(d)
    BY <1>1, <1>6, <1>12, SocketStays
  <2>2. WordInv(d)
    BY <1>1, <1>6, <1>n, WordPopped
  <2> QED BY <2>1, <2>2
<1> HIDE DEF st, st2, stq
<1>18. /\ TakenInv(link, st, c.temp, received[e], sent[q])
       /\ FlowInv(link, st, c.socket, wire[q], Len(received[e]), sent[q], end[q])
  BY DirectionIs DEF c, q, st
<1>19. FlowInv(link, stq, end[q].socket, units, Len(received[q]), s, c)
       /\ TakenInv(link, stq, end[q].temp, received[q], s)
  BY <1>p, DirectionIs DEF stq, c, s, units
<1>20. Turns(e, link, st, c.socket, wire[q], st2, c.socket)
  <2>1. CASE st2 = st
    BY <1>n, <2>1, TurnsSame
  <2>2. CASE e = "client" /\ st.at = "answering" /\ st2.at = "answered"
    BY <1>n, <1>12, <2>2 DEF Turns, Listening, Opening, Spoiled, Early
  <2> QED BY <1>11, <2>1, <2>2
<1>21. FlowInv(link, st2, d.socket, wire[q], Len(received[e]), sent[q], end[q])
  <2>1. Due(st2, Len(received[e]), sent[q]) = Due(st, Len(received[e]), sent[q])
    BY <1>11 DEF Due
  <2> QED BY <1>6, <1>18, <1>20, <2>1, FlowTurnsOn
<1>22. TakenInv(link, st2, d.temp, received[e], sent[q])
  <2>1. CASE st2 = st
    BY <1>6, <1>18, <2>1
  <2>2. CASE st.at = "answering" /\ st2.at = "answered"
    BY <1>6, <1>18, <2>2, TakenTurns
  <2> QED BY <1>11, <2>1, <2>2
<1>23. /\ AnswerInv(link, Stage("client", end["client"]), Stage("server", end["server"]), wire["client"])
       /\ ChallengeInv(link, Stage("client", end["client"]), end["client"].socket, end["server"], wire["server"])
  BY DEF StreamInv
<1>24. ASSUME e = "client"
       PROVE  /\ h.op = "writeValidation" => FlowInv(link, stq, end[q].socket, Pushed(units, unit), Len(received[q]), s, d)
              /\ AnswerInv(link, Stage("client", end'["client"]), Stage("server", end'["server"]), wire'["client"])
              /\ ChallengeInv(link, Stage("client", end'["client"]), end'["client"].socket, end'["server"], wire'["server"])
  <2>0. q = "server" /\ e = "client"
    BY <1>24, PeerIs DEF q
  <2>1. /\ AnswerInv(link, st, stq, units)
        /\ ChallengeInv(link, st, c.socket, end[q], wire[q])
    BY <1>23, <2>0 DEF st, stq, c, units
  <2>2. AnswerInv(link, st2, stq, Pushed(units, unit))
    <3>1. Early(link, st2) \/ st2.at = "answering" =>
            unit.kind # "validation" /\ (Early(link, st) \/ st.at = "answering")
      BY <1>11, <1>13, <1>n, <2>0 DEF Early, Opening
    <3> QED BY <1>s, <2>1, <3>1, AnswerWrites
  <2>3. ChallengeInv(link, st2, d.socket, end[q], wire[q])
    <3>1. Listening(link, st2) /\ d.socket # "closed" =>
            /\ Listening(link, st) /\ c.socket # "closed"
            /\ Opening(link, st) => Opening(link, st2)
            /\ Spoiled(link, st2, wire[q]) => Spoiled(link, st, wire[q])
      BY <1>6, <1>20 DEF Turns
    <3>2. link = "up" /\ Opening(link, st2) /\ d.socket # "closed" /\ end[q].socket = "open" =>
            link = "up" /\ Opening(link, st) /\ c.socket # "closed"
      BY <1>6, <3>1, <1>20 DEF Turns, Listening
    <3> QED BY <2>1, <3>1, <3>2, ChallengeTurns
  <2>4. h.op = "writeValidation" => FlowInv(link, stq, end[q].socket, Pushed(units, unit), Len(received[q]), s, d)
    <3> SUFFICES ASSUME h.op = "writeValidation"
                 PROVE  FlowInv(link, stq, end[q].socket, Pushed(units, unit), Len(received[q]), s, d)
      OBVIOUS
    <3>1. st.at = "answering" /\ GoesOn(c, d, s, s)
      BY <1>11, <1>15, <2>0 DEF MessageWrites
    <3>2. /\ \A i \in 1 .. Len(units) : units[i].kind # "validation"
          /\ stq.at = "gotValidation" => stq.unit.kind # "validation"
          /\ stq.at \notin {"readHeader", "gotHeader", "readBody", "gotBody"}
      BY <2>1, <3>1 DEF AnswerInv
    <3>3. stq.at \in Reads \cup {"idle", "failed", "connected", "gotValidation", "gotHeader", "gotBody"}
      <4>1. IsEnd(end["server"]) /\ TokenInv("server", end["server"])
        BY <2>0, <1>p, EndIs
      <4> QED BY <2>0, <4>1, AskerIs DEF stq
    <3>4. units # <<>> => Head(Pushed(units, unit)).kind # "validation" /\ Pushed(units, unit) # <<>>
      <4> SUFFICES ASSUME units # <<>>
                   PROVE  Head(Pushed(units, unit)).kind # "validation" /\ Pushed(units, unit) # <<>>
        OBVIOUS
      <4>1. Head(Pushed(units, unit)) = Head(units) /\ Pushed(units, unit) # <<>>
        BY <1>s, PushedIs
      <4>2. Head(units) = units[1] /\ 1 \in 1 .. Len(units)
        BY <1>s, PoppedIs
      <4> QED BY <3>2, <4>1, <4>2
    <3>5. Listening(link, stq) /\ end[q].socket # "closed" =>
            \/ Opening(link, stq) /\ units = <<>> /\ stq.at # "gotValidation"
            \/ Spoiled(link, stq, Pushed(units, unit))
      BY <1>n, <3>2, <3>3, <3>4 DEF Listening, Opening, Spoiled, Reads
    <3> QED BY <1>19, <1>s, <3>1, <3>5, FlowSaysWord
  <2>5. AnswerInv(link, Stage("client", end'["client"]), Stage("server", end'["server"]), wire'["client"])
    BY <1>3, <1>4, <2>0, <2>2 DEF st2, stq
  <2>6. ChallengeInv(link, Stage("client", end'["client"]), end'["client"].socket, end'["server"], wire'["server"])
    BY <1>3, <1>4, <2>0, <2>3 DEF st2
  <2> QED BY <2>4, <2>5, <2>6
<1>25. ASSUME e = "server"
       PROVE  /\ h.op = "writeValidation" => FlowInv(link, stq, end[q].socket, Pushed(units, unit), Len(received[q]), s, d)
              /\ AnswerInv(link, Stage("client", end'["client"]), Stage("server", end'["server"]), wire'["client"])
              /\ ChallengeInv(link, Stage("client", end'["client"]), end'["client"].socket, end'["server"], wire'["server"])
  <2>0. q = "client" /\ e = "server"
    BY <1>25, PeerIs DEF q
  <2>1. /\ AnswerInv(link, stq, st, wire[q])
        /\ ChallengeInv(link, stq, end[q].socket, c, units)
    BY <1>23, <2>0 DEF st, stq, c, units
  <2>2. AnswerInv(link, stq, st2, wire[q])
    BY <1>11, <2>0, <2>1
  <2>3. /\ ChallengeInv(link, stq, end[q].socket, d, Pushed(units, unit))
        /\ h.op = "writeValidation" =>
             units = <<>> /\ (Listening(link, stq) /\ end[q].socket # "closed" => Opening(link, stq))
    <3>1. ChallengeInv("up", stq, end[q].socket, c, units)
      BY <1>n, <2>1
    <3>2. unit.kind = "validation" <=> Head(c.writes).op = "writeValidation"
      BY <1>5, <1>13 DEF w
    <3>3. /\ ChallengeInv("up", stq, end[q].socket, d, Pushed(units, unit))
          /\ Head(c.writes).op = "writeValidation" =>
               units = <<>> /\ (Listening("up", stq) /\ end[q].socket # "closed" => Opening("up", stq))
      BY <1>1, <1>6, <1>12, <1>n, <1>s, <3>1, <3>2, ChallengeGoesOut
    <3> QED BY <1>5, <1>n, <3>3 DEF w
  <2>4. h.op = "writeValidation" => FlowInv(link, stq, end[q].socket, Pushed(units, unit), Len(received[q]), s, d)
    <3> SUFFICES ASSUME h.op = "writeValidation"
                 PROVE  FlowInv(link, stq, end[q].socket, Pushed(units, unit), Len(received[q]), s, d)
      OBVIOUS
    <3>1. GoesOn(c, d, s, s)
      BY <1>15 DEF MessageWrites
    <3>2. Listening(link, stq) /\ end[q].socket # "closed" =>
            Opening(link, stq) /\ units = <<>> /\ stq.at # "gotValidation"
      BY <1>n, <2>3 DEF Opening
    <3> QED BY <1>19, <1>s, <3>1, <3>2, FlowSaysWord
  <2>5. AnswerInv(link, Stage("client", end'["client"]), Stage("server", end'["server"]), wire'["client"])
    BY <1>3, <1>4, <2>0, <2>2 DEF st2, stq
  <2>6. ChallengeInv(link, Stage("client", end'["client"]), end'["client"].socket, end'["server"], wire'["server"])
    BY <1>3, <1>4, <2>0, <2>3 DEF stq
  <2> QED BY <2>4, <2>5, <2>6
<1>26. FlowInv(link, stq, end[q].socket, Pushed(units, unit), Len(received[q]), s, d)
  <2>1. CASE h.op \in MessageWrites
    <3>1. FlowInv("up", stq, end[q].socket, units, Len(received[q]), s, c)
      BY <1>19, <1>n
    <3>2. \A i : WriterAt(c, s, i) => IsUnit(unit, i, s) /\ WriterAt(d, s, After(i, s))
      BY <1>14, <2>1
    <3>3. ~ Broken(c) /\ unit.kind # "validation"
      BY <1>13, <1>16, <2>1 DEF MessageWrites
    <3>4. FlowInv("up", stq, end[q].socket, Pushed(units, unit), Len(received[q]), s, d)
      BY <1>s, <3>1, <3>2, <3>3, FlowWrites
    <3> QED BY <1>n, <3>4
  <2>2. CASE h.op = "writeValidation"
    BY <1>24, <1>25, <2>2 DEF Ends
  <2> QED BY <1>7, <2>1, <2>2 DEF Writes, MessageWrites
<1>27. AnswerInv(link, Stage("client", end'["client"]), Stage("server", end'["server"]), wire'["client"])
  BY <1>24, <1>25 DEF Ends
<1>28. ChallengeInv(link, Stage("client", end'["client"]), end'["client"].socket, end'["server"], wire'["server"])
  BY <1>24, <1>25 DEF Ends
<1>29. /\ stq = Stage(q, end[q]) /\ s = sent'[e] /\ sent'[q] = sent[q] /\ st2 = Stage(e, d)
       /\ q = Peer(e) /\ d.socket # "none" /\ link \notin {"none", "connecting"}
  BY <1>6, <1>12, <1>n DEF stq, s, q, st2
<1> QED BY <1>3, <1>4, <1>8, <1>17, <1>19, <1>21, <1>22, <1>26, <1>27, <1>28, <1>29, <1>n, Assembled
LEMMA ArriveStream ==
  ASSUME Inv, ShapeInv, StreamInv, NEW e, e \in Ends, Arrive(e)
  PROVE  StreamInv'
<1> DEFINE c == end[e]
           q == Peer(e)
           units == wire[q]
           unit == Head(units)
           b == [c EXCEPT !.read = "none"]
           h == Completion(c.read, TRUE, unit)
           d == Post(b, h)
           s == sent[e]
           sq == sent[q]
           st == Stage(e, c)
           st2 == Stage(e, d)
           stq == Stage(q, end[q])
<1>1. /\ IsEnd(c) /\ TokenInv(e, c) /\ SocketInv(c) /\ WordInv(c) /\ IsSeq(c.writes)
      /\ link \in {"none", "connecting"} => st.at = "idle"
  BY EndIs
<1>2. /\ c.read # "none" /\ units # <<>> /\ link' = link
      /\ end' = [end EXCEPT ![e] = d]
      /\ wire' = [wire EXCEPT ![q] = Tail(units)]
      /\ sent' = sent /\ received' = received
  BY DEF Arrive, FinishRead
<1>n. c.read # "none" /\ units # <<>> /\ link' = link /\ sent' = sent /\ received' = received
  BY <1>2
<1>p. q \in Ends /\ q # e /\ Peer(q) = e
  BY PeerIs
<1>3. end'[e] = d /\ end'[q] = end[q]
  <2>1. end = [x \in Ends |-> end[x]]
    BY DEF Inv
  <2> HIDE DEF d, q
  <2> QED BY <1>2, <1>p, <2>1
<1>4. wire'[q] = Popped(units) /\ wire'[e] = wire[e]
  <2> DEFINE y == Tail(units)
  <2>1. y = Popped(units)
    BY Zenon DEF Popped
  <2>2. wire = [x \in Ends |-> wire[x]] /\ wire' = [wire EXCEPT ![q] = y]
    BY <1>2 DEF ShapeInv
  <2> HIDE DEF y, q
  <2> QED BY <1>p, <2>1, <2>2
<1>5. h.op = c.read /\ h.ok /\ h.unit = unit
  BY DEF Completion
<1>s. IsSeq(s) /\ IsSeq(sq) /\ IsSeq(units) /\ IsSeq(wire[e])
  BY <1>p DEF ShapeInv, IsSeq
<1> HIDE DEF h, c, s, sq, q, units
<1>6. /\ d.socket = c.socket /\ d.read = "none" /\ d.out = c.out /\ d.temp = c.temp
      /\ d.ready = Pushed(c.ready, h) /\ d.writes = c.writes /\ IsEnd(d)
  BY <1>1, FinishedReadIs
<1>7. h.op \in Reads
  BY <1>1, <1>5, <1>n DEF IsEnd
<1>8. TokenInv(e, d) /\ st = Turn(c.read, NoUnit) /\ st2 = Ready(h)
  BY <1>1, <1>5, <1>n, StageFinishesRead
<1>9. /\ st.at = h.op /\ st2.unit = unit
      /\ st2.at = (IF st.at = "readValidation" THEN "gotValidation"
                   ELSE IF st.at = "readHeader" THEN "gotHeader" ELSE "gotBody")
  <2>1. Ready(h) = Turn((IF h.op = "readValidation" THEN "gotValidation"
                         ELSE IF h.op = "readHeader" THEN "gotHeader" ELSE "gotBody"), unit)
    BY <1>5, <1>7 DEF Ready, Reads
  <2> QED BY <1>5, <1>8, <2>1 DEF Turn
<1>10. st.at \in Reads /\ link \notin {"none", "connecting"}
  BY <1>1, <1>7, <1>9 DEF Reads
<1>11. c.socket = "open"
  BY <1>1, <1>n, SocketOfWrites
<1>12. GoesOn(c, d, s, s)
  <2>1. h.op # "send" /\ h.op \notin MessageWrites
    BY <1>7 DEF Reads, MessageWrites
  <2> HIDE DEF d
  <2> QED BY <1>1, <1>6, <1>s, <2>1, WriterPosts
<1> HIDE DEF d, b, unit
<1>13. SocketInv(d) /\ WordInv(d)
  BY <1>1, <1>6, <1>11, SocketStays, WordStays
<1> HIDE DEF st, st2, stq
<1>14. /\ TakenInv(link, st, c.temp, received[e], sq)
       /\ FlowInv(link, st, "open", units, Len(received[e]), sq, end[q])
  BY <1>11, DirectionIs DEF c, q, st, units, sq
<1>15. /\ FlowInv(link, stq, end[q].socket, wire[e], Len(received[q]), s, c)
       /\ TakenInv(link, stq, end[q].temp, received[q], s)
  BY <1>p, DirectionIs DEF stq, c, s
<1>16. st2.unit = Head(units)
  BY <1>9 DEF unit
<1>17. /\ FlowInv(link, st2, "open", Popped(units), Len(received[e]), sq, end[q])
       /\ st.at = "readHeader" => IsUnit(Head(units), Place(Len(received[e]) + 1, "header"), sq)
       /\ st.at = "readBody" => IsUnit(Head(units), Place(Len(received[e]) + 1, "body"), sq)
  BY <1>9, <1>10, <1>14, <1>16, <1>n, <1>s, FlowArrives
<1>18. TakenInv(link, st2, c.temp, received[e], sq)
  BY <1>9, <1>10, <1>14, <1>16, <1>17, TakenArrives
<1>19. FlowInv(link, stq, end[q].socket, wire[e], Len(received[q]), s, d)
  BY <1>12, <1>15, <1>s, FlowGoesOn
<1>20. /\ AnswerInv(link, Stage("client", end["client"]), Stage("server", end["server"]), wire["client"])
       /\ ChallengeInv(link, Stage("client", end["client"]), end["client"].socket, end["server"], wire["server"])
  BY DEF StreamInv
<1>21. /\ AnswerInv(link, Stage("client", end'["client"]), Stage("server", end'["server"]), wire'["client"])
       /\ ChallengeInv(link, Stage("client", end'["client"]), end'["client"].socket, end'["server"], wire'["server"])
  <2>1. CASE e = "client"
    <3>0. q = "server" /\ e = "client"
      BY <2>1, PeerIs DEF q
    <3>1. /\ AnswerInv(link, st, stq, wire[e])
          /\ ChallengeInv(link, st, "open", end[q], units)
      BY <1>11, <1>20, <3>0 DEF st, stq, c, units
    <3>2. AnswerInv(link, st2, stq, wire[e])
      <4>1. Early(link, st2) \/ st2.at = "answering" => Early(link, st) \/ st.at = "answering"
        BY <1>9, <1>10 DEF Early, Opening
      <4> QED BY <3>1, <4>1, AnswerTurns
    <3>3. ChallengeInv(link, st2, "open", end[q], Popped(units))
      BY <1>9, <1>10, <1>16, <1>n, <1>s, <3>1, ChallengeArrives
    <3>4. ChallengeInv(link, st2, d.socket, end[q], Popped(units))
      BY <1>6, <1>11, <3>3
    <3> QED BY <1>3, <1>4, <3>0, <3>2, <3>4 DEF st2, stq
  <2>2. CASE e = "server"
    <3>0. q = "client" /\ e = "server"
      BY <2>2, PeerIs DEF q
    <3>1. /\ AnswerInv(link, stq, st, units)
          /\ ChallengeInv(link, stq, end[q].socket, c, wire[e])
      BY <1>20, <3>0 DEF st, stq, c, units
    <3>2. AnswerInv(link, stq, st2, Popped(units))
      BY <1>9, <1>10, <1>16, <1>n, <1>s, <3>1, AskerArrives
    <3>3. ChallengeInv(link, stq, end[q].socket, d, wire[e])
      BY <1>6, <3>1 DEF ChallengeInv
    <3> QED BY <1>3, <1>4, <3>0, <3>2, <3>3 DEF st2, stq
  <2> QED BY <2>1, <2>2 DEF Ends
<1>22. /\ TakenInv(link, st2, d.temp, received[e], sent'[q])
       /\ FlowInv(link, st2, d.socket, wire'[q], Len(received[e]), sent'[q], end[q])
       /\ TakenInv(link, stq, end[q].temp, received[q], sent'[e])
       /\ FlowInv(link, stq, end[q].socket, wire'[e], Len(received[q]), sent'[e], d)
  BY <1>4, <1>6, <1>11, <1>15, <1>17, <1>18, <1>19, <1>n DEF s, sq
<1>23. /\ stq = Stage(q, end[q]) /\ st2 = Stage(e, d) /\ q = Peer(e) /\ d.socket # "none"
  BY <1>6, <1>11 DEF stq, q, st2
<1> QED BY <1>3, <1>8, <1>10, <1>13, <1>21, <1>22, <1>23, <1>n, Assembled
------------------------------------------------------------------------------
(* All steps. *)

LEMMA InitStream == Init => ShapeInv /\ StreamInv
<1> SUFFICES ASSUME Init PROVE ShapeInv /\ StreamInv
  OBVIOUS
<1> DEFINE c == [socket |-> "none", running |-> TRUE, ready |-> <<>>, read |-> "none",
                 writes |-> <<>>, out |-> <<>>, temp |-> [id |-> 0, size |-> 0, body |-> <<>>]]
           at == Turn("idle", NoUnit)
           first == Place(1, "header")
<1>1. /\ \A e \in Ends : end[e] = c /\ sent[e] = <<>> /\ wire[e] = <<>> /\ received[e] = <<>>
      /\ link = "none"
      /\ sent = [e \in Ends |-> sent[e]] /\ wire = [e \in Ends |-> wire[e]]
  BY DEF Init
<1>2. /\ c.socket = "none" /\ c.ready = <<>> /\ c.read = "none" /\ c.writes = <<>> /\ c.out = <<>>
      /\ c.temp = [id |-> c.temp.id, size |-> c.temp.size, body |-> c.temp.body]
      /\ c.temp.body = <<>>
  OBVIOUS
<1>3. ShapeInv
  <2>1. <<>> \in Seq(Messages)
    OBVIOUS
  <2> HIDE DEF c, at, first
  <2> QED BY <1>1, <2>1, NoneSeq DEF ShapeInv
<1> HIDE DEF c
<1>4. \A ops : At(c.ready, ops) = {} /\ At(c.writes, ops) = {} /\ Held(c.ready, ops) = {} /\ Held(c.writes, ops) = {}
  BY <1>2, NoneSeq DEF At, Held
<1>5. \A e \in Ends : TokenInv(e, c) /\ Stage(e, c) = at
  BY <1>2, <1>4, VacantIs DEF Vacant
<1>6. SocketInv(c) /\ WordInv(c)
  BY <1>2, NoneSeq DEF SocketInv, WordInv
<1>7. at.at = "idle"
  BY DEF Turn
<1>8. Len(<<>>) = 0 /\ first \in Places(<<>>)
  <2>1. Len(<<>>) = 0 /\ 1 \in 1 .. Len(<<>>) + 1
    BY NoneSeq
  <2> QED BY <2>1, PlaceIn
<1>9. TakenInv("none", at, c.temp, <<>>, <<>>)
  BY <1>2, <1>7 DEF TakenInv, LastBody
<1>10. WriterAt(c, <<>>, first)
  <2>1. Pending(<<>>, 1, <<>>)
    <3> DEFINE g == [i \in {} |-> 1]
    <3>1. At(<<>>, {"send"}) = {}
      BY NoneSeq DEF At
    <3>2. g \in [{} -> 1 .. 0]
      OBVIOUS
    <3>3. 1 .. 0 = {}
      OBVIOUS
    <3> QED BY <1>8, <3>1, <3>2, <3>3 DEF Pending
  <2>2. Front(c, <<>>, 1)
    BY <1>2, <1>8, <2>1 DEF Front
  <2> QED BY <1>2, <1>4, <2>2 DEF WriterAt
<1>11. FlowInv("none", at, "none", <<>>, 0, <<>>, c)
  <2>1. Chain(<<>>, first, first, <<>>)
    BY <1>8, ChainEmpty
  <2>2. Rest("none", at, <<>>) = <<>> /\ Due(at, 0, <<>>) = first
    BY <1>7 DEF Rest, Due
  <2> HIDE DEF at, first
  <2> QED BY <1>8, <1>10, <2>1, <2>2 DEF FlowInv
<1>12. AnswerInv("none", at, at, <<>>)
  BY <1>7, <1>8 DEF AnswerInv
<1>13. ChallengeInv("none", at, "none", c, <<>>)
  BY <1>2, <1>4, <1>7 DEF ChallengeInv, Opening, Spoiled
<1> HIDE DEF at
<1>14. \A e \in Ends : DirectionInv(e)
  <2> TAKE e \in Ends
  <2>1. /\ end[e] = c /\ received[e] = <<>> /\ wire[Peer(e)] = <<>> /\ sent[Peer(e)] = <<>>
        /\ end[Peer(e)] = c /\ Stage(e, c) = at /\ c.socket = "none"
    BY <1>1, <1>2, <1>5, PeerIs
  <2> QED BY <1>1, <1>8, <1>9, <1>11, <2>1 DEF DirectionInv
<1>15. StreamInv
  BY <1>1, <1>2, <1>5, <1>6, <1>7, <1>12, <1>13, <1>14 DEF StreamInv, Ends
<1> QED BY <1>3, <1>15

LEMMA WireIs ==
  ASSUME [Next]_vars
  PROVE  wire' = wire \/ \E e \in Ends : Transmit(e) \/ Arrive(e)
<1>1. CASE Application
  BY <1>1 DEF Application, Connect, Send, Disconnect, StopClient, StopServer
<1>2. CASE Establish \/ ConnectFails \/ Break \/ RunConnect
  BY <1>2 DEF Establish, ConnectFails, Break, RunConnect, RunAccept, RunConnected
<1>3. ASSUME NEW e \in Ends, Finish(e)
      PROVE  wire' = wire \/ Transmit(e) \/ Arrive(e)
  BY <1>3 DEF Finish, TransmitFails, ArriveFails
<1>4. ASSUME NEW e \in Ends, Run(e) PROVE wire' = wire
  BY <1>4 DEF Run, RunSend, RunClose, RunFailure, RunWriteValidation, RunReadValidation, RunWriteHeader,
       RunWriteBody, RunReadHeader, RunReadBody
<1>5. CASE UNCHANGED vars
  BY <1>5 DEF vars
<1> QED BY <1>1, <1>2, <1>3, <1>4, <1>5 DEF Next

\* What a step does to what was sent and received.
LEMMA PipeIs ==
  ASSUME Inv, ShapeInv, StreamInv, [Next]_vars
  PROVE  \/ sent' = sent /\ received' = received
         \/ sent' = sent /\ \E e \in Ends : Given(e)
         \/ \E e \in Ends, m \in Messages : sent' = [sent EXCEPT ![e] = Append(sent[e], m)] /\ received' = received
<1>1. CASE Application
  BY <1>1 DEF Application, Connect, Send, Disconnect, StopClient, StopServer
<1>2. CASE Establish \/ ConnectFails \/ Break \/ RunConnect
  BY <1>2 DEF Establish, ConnectFails, Break, RunConnect, RunAccept, RunConnected
<1>3. ASSUME NEW e \in Ends, Finish(e) PROVE sent' = sent /\ received' = received
  BY <1>3 DEF Finish, Transmit, Arrive, TransmitFails, ArriveFails
<1>4. ASSUME NEW e \in Ends, Run(e) PROVE sent' = sent /\ (received' = received \/ Given(e))
  <2>1. CASE RunReadHeader(e) \/ RunReadBody(e)
    <3>1. sent' = sent
      BY <2>1 DEF RunReadHeader, RunReadBody
    <3> QED BY <2>1, <3>1, RunReadHeaderStream, RunReadBodyStream
  <2> QED BY <1>4, <2>1 DEF Run, RunSend, RunClose, RunFailure, RunWriteValidation, RunReadValidation,
             RunWriteHeader, RunWriteBody
<1>5. CASE UNCHANGED vars
  BY <1>5 DEF vars
<1> QED BY <1>1, <1>2, <1>3, <1>4, <1>5 DEF Next

LEMMA NextShape ==
  ASSUME Inv, ShapeInv, StreamInv, [Next]_vars
  PROVE  ShapeInv'
<1>1. sent' = [e \in Ends |-> sent'[e]] /\ \A e \in Ends : sent'[e] \in Seq(Messages)
  <2>1. CASE sent' = sent
    BY <2>1 DEF ShapeInv
  <2>2. ASSUME NEW e \in Ends, NEW m \in Messages, sent' = [sent EXCEPT ![e] = Append(sent[e], m)]
        PROVE  sent' = [x \in Ends |-> sent'[x]] /\ \A x \in Ends : sent'[x] \in Seq(Messages)
    <3> DEFINE y == Append(sent[e], m)
    <3>1. y \in Seq(Messages) /\ sent' = [sent EXCEPT ![e] = y]
      BY <2>2 DEF ShapeInv
    <3> HIDE DEF y
    <3> QED BY <3>1 DEF ShapeInv
  <2> QED BY <2>1, <2>2, PipeIs
<1>2. wire' = [e \in Ends |-> wire'[e]] /\ \A e \in Ends : IsSeq(wire'[e])
  <2>1. CASE wire' = wire
    BY <2>1 DEF ShapeInv
  <2>2. ASSUME NEW e \in Ends, NEW y, IsSeq(y), wire' = [wire EXCEPT ![e] = y]
        PROVE  wire' = [x \in Ends |-> wire'[x]] /\ \A x \in Ends : IsSeq(wire'[x])
    BY <2>2 DEF ShapeInv
  <2>3. ASSUME NEW e \in Ends, Transmit(e)
        PROVE  \E y : IsSeq(y) /\ wire' = [wire EXCEPT ![e] = y]
    <3> DEFINE y == Append(wire[e], Head(end[e].writes).unit)
    <3>1. IsSeq(y)
      BY AppendSeq DEF ShapeInv
    <3>2. wire' = [wire EXCEPT ![e] = y]
      BY <2>3 DEF Transmit
    <3> QED BY <3>1, <3>2
  <2>4. ASSUME NEW e \in Ends, Arrive(e)
        PROVE  \E y : IsSeq(y) /\ wire' = [wire EXCEPT ![Peer(e)] = y]
    <3> DEFINE y == Tail(wire[Peer(e)])
    <3>1. wire[Peer(e)] # <<>> /\ wire' = [wire EXCEPT ![Peer(e)] = y]
      BY <2>4 DEF Arrive
    <3>2. IsSeq(y)
      BY <3>1, PeerIs, TailSeq DEF ShapeInv
    <3> QED BY <3>1, <3>2
  <2> QED BY <2>1, <2>2, <2>3, <2>4, WireIs, PeerIs
<1>3. \A e \in Ends : IsSeq(received'[e])
  <2>1. CASE received' = received
    BY <2>1 DEF ShapeInv
  <2>2. ASSUME NEW e \in Ends, Given(e) PROVE \A x \in Ends : IsSeq(received'[x])
    <3>1. IsSeq(received[e]) /\ IsSeq(received[Peer(e)])
      BY PeerIs DEF ShapeInv
    <3>2. IsSeq(received'[Peer(e)])
      BY <2>2, <3>1 DEF Given
    <3>3. IsSeq(received'[e])
      <4>1. \E x : received'[e] = Pushed(received[e], x)
        BY <2>2 DEF Given, Delivers
      <4> QED BY <3>1, <4>1, PushedIs
    <3>4. \A x \in Ends : x = e \/ x = Peer(e)
      BY PeerIs DEF Ends
    <3> QED BY <3>2, <3>3, <3>4
  <2> QED BY <2>1, <2>2, PipeIs
<1> QED BY <1>1, <1>2, <1>3 DEF ShapeInv

LEMMA NextStream ==
  ASSUME Inv, ShapeInv, StreamInv, [Next]_vars
  PROVE  StreamInv'
<1>1. CASE Application
  BY <1>1, ConnectStream, SendStream, DisconnectStream, StopClientStream, StopServerStream DEF Application
<1>2. CASE Establish \/ ConnectFails \/ Break \/ RunConnect
  BY <1>2, EstablishStream, ConnectFailsStream, BreakStream, RunConnectStream
<1>3. ASSUME NEW e \in Ends, Finish(e) \/ Run(e) PROVE StreamInv'
  BY <1>3, TransmitStream, TransmitFailsStream, ArriveStream, ArriveFailsStream, RunStream DEF Finish
<1>4. CASE UNCHANGED vars
  BY <1>4 DEF vars, StreamInv, DirectionInv
<1> QED BY <1>1, <1>2, <1>3, <1>4 DEF Next
\* What meets a read is the unit that was due.
LEMMA FramedIs ==
  ASSUME Inv, ShapeInv, StreamInv
  PROVE  WellFramed
<1> SUFFICES ASSUME NEW e, e \in Ends, wire[Peer(e)] # <<>>,
                    end[e].read \in {"readHeader", "readBody"}
             PROVE  LET unit == Head(wire[Peer(e)])
                    IN /\ end[e].read = "readHeader" => unit.kind = "header"
                       /\ end[e].read = "readBody" => unit.kind = "body" /\ Len(unit.data) = end[e].temp.size
  BY DEF WellFramed
<1> DEFINE c == end[e]
           units == wire[Peer(e)]
           s == sent[Peer(e)]
           got == received[e]
           n == Len(got)
           st == Stage(e, c)
<1>1. /\ TokenInv(e, c) /\ SocketInv(c)
      /\ link \in {"none", "connecting"} => st.at = "idle"
  BY EndIs
<1>2. c.socket = "open"
  BY <1>1, SocketOfWrites
<1>3. st.at = c.read
  <2>1. st = Turn(c.read, NoUnit)
    BY <1>1, StageIs
  <2> QED BY <2>1 DEF Turn
<1>4. link \notin {"none", "connecting"}
  BY <1>1, <1>3
<1>5. Listening(link, st) /\ ~ Spoiled(link, st, units) /\ Rest(link, st, units) = units
  BY <1>3, <1>4 DEF Listening, Spoiled, Opening, Rest
<1>6. /\ TakenInv(link, st, c.temp, got, s)
      /\ FlowInv(link, st, c.socket, units, n, s, end[Peer(e)])
  BY DirectionIs
<1>7. IsSeq(units)
  BY PeerIs DEF ShapeInv
<1> HIDE DEF st, c, units, s, got
<1>8. IsUnit(Head(units), Due(st, n, s), s)
  <2>1. PICK b \in Places(s) : Chain(Rest(link, st, units), Due(st, n, s), b, s)
    BY <1>2, <1>5, <1>6 DEF FlowInv
  <2>2. Chain(units, Due(st, n, s), b, s)
    BY <1>5, <2>1
  <2>3. units # <<>>
    BY DEF units
  <2> QED BY <1>7, <2>2, <2>3, ChainPopped
<1>9. CASE st.at = "readHeader"
  <2>1. IsUnit(Head(units), Place(n + 1, "header"), s)
    BY <1>8, <1>9 DEF Due
  <2>2. Head(units).kind = "header"
    BY <2>1 DEF IsUnit, Place
  <2> QED BY <1>3, <1>9, <2>2 DEF c, units
<1>10. CASE st.at = "readBody"
  <2>1. IsUnit(Head(units), Place(n + 1, "body"), s)
    BY <1>8, <1>10 DEF Due
  <2>2. Head(units).kind = "body" /\ Head(units).data = s[n + 1].body
    BY <2>1 DEF IsUnit, Place
  <2>3. c.temp.size = Len(s[n + 1].body)
    BY <1>6, <1>10 DEF TakenInv
  <2> QED BY <1>3, <1>10, <2>2, <2>3 DEF c, units
<1> QED BY <1>3, <1>9, <1>10 DEF c

\* What a message is delivered as, after those of got.
DeliveredAs(m, got) ==
  [id |-> m.id, size |-> Len(m.body),
   body |-> IF m.body = <<>> /\ got # <<>> THEN got[Len(got)].body ELSE m.body]

LEMMA DeliveredIs ==
  ASSUME NEW got, NEW got2, NEW s, Delivers(got, got2, s)
  PROVE  Len(got) < Len(s) /\ got2 = Append(got, DeliveredAs(s[Len(got) + 1], got))
<1> DEFINE m == s[Len(got) + 1]
           b == IF m.body = <<>> /\ got # <<>> THEN got[Len(got)].body ELSE m.body
           x == [id |-> m.id, size |-> Len(m.body), body |-> b]
<1>1. b = (IF m.body = <<>> THEN LastBody(got) ELSE m.body)
  BY DEF LastBody
<1>2. Len(got) < Len(s) /\ got2 = Pushed(got, x)
  <2> HIDE DEF b
  <2> QED BY <1>1 DEF Delivers
<1>3. Pushed(got, x) = Append(got, x)
  BY Zenon DEF Pushed
<1> HIDE DEF x
<1>4. got2 = Append(got, x)
  BY Zenon, <1>2, <1>3
<1>5. x = DeliveredAs(m, got)
  BY Zenon DEF x, DeliveredAs
<1>6. got2 = Append(got, DeliveredAs(m, got))
  BY Zenon, <1>4, <1>5
<1> QED BY Zenon, <1>2, <1>6

\* A step of the system is a step of the pipe to end e, or leaves it alone.
LEMMA PipeStep ==
  ASSUME Inv, ShapeInv, StreamInv, [Next]_vars, NEW e, e \in Ends
  PROVE  \/ sent'[Peer(e)] = sent[Peer(e)] /\ received'[e] = received[e]
         \/ (\E m \in Messages : sent'[Peer(e)] = Append(sent[Peer(e)], m)) /\ received'[e] = received[e]
         \/ sent'[Peer(e)] = sent[Peer(e)] /\ Delivers(received[e], received'[e], sent[Peer(e)])
<1> DEFINE p == Peer(e)
<1>1. p \in Ends /\ p # e /\ Peer(p) = e /\ \A x \in Ends : x = e \/ x = p
  BY PeerIs DEF Ends
<1>2. CASE sent' = sent /\ received' = received
  BY <1>2
<1>3. ASSUME NEW x \in Ends, Given(x), sent' = sent
      PROVE  \/ sent'[p] = sent[p] /\ received'[e] = received[e]
             \/ sent'[p] = sent[p] /\ Delivers(received[e], received'[e], sent[p])
  BY <1>1, <1>3 DEF Given
<1>4. ASSUME NEW x \in Ends, NEW m \in Messages, sent' = [sent EXCEPT ![x] = Append(sent[x], m)], received' = received
      PROVE  \/ sent'[p] = sent[p] /\ received'[e] = received[e]
             \/ (\E k \in Messages : sent'[p] = Append(sent[p], k)) /\ received'[e] = received[e]
  <2>1. CASE x = p
    <3> DEFINE y == Append(sent[p], m)
    <3>1. sent' = [sent EXCEPT ![p] = y] /\ sent = [z \in Ends |-> sent[z]]
      BY <1>4, <2>1 DEF ShapeInv
    <3> HIDE DEF y
    <3>2. sent'[p] = y
      BY <1>1, <3>1
    <3>3. \E k \in Messages : sent'[p] = Append(sent[p], k)
      BY Zenon, <3>2 DEF y
    <3> QED BY <1>4, <3>3
  <2>2. CASE x = e
    <3> DEFINE y == Append(sent[x], m)
    <3>1. sent' = [sent EXCEPT ![x] = y] /\ sent = [z \in Ends |-> sent[z]]
      BY <1>4 DEF ShapeInv
    <3> HIDE DEF y
    <3> QED BY <1>1, <1>4, <2>2, <3>1
  <2> QED BY <1>1, <2>1, <2>2
<1> QED BY <1>2, <1>3, <1>4, PipeIs

LEMMA PipesStep ==
  ASSUME Inv, ShapeInv, StreamInv, [Next]_vars
  PROVE  [FromClient!Next]_(FromClient!vars) /\ [FromServer!Next]_(FromServer!vars)
<1>1. /\ "client" \in Ends /\ "server" \in Ends
      /\ Peer("client") = "server" /\ Peer("server") = "client"
  BY PeerIs DEF Ends
<1>2. [FromClient!Next]_(FromClient!vars)
  <2>1. CASE sent'["client"] = sent["client"] /\ received'["server"] = received["server"]
    BY <2>1 DEF FromClient!vars
  <2>2. CASE (\E m \in Messages : sent'["client"] = Append(sent["client"], m)) /\ received'["server"] = received["server"]
    BY Zenon, <2>2 DEF FromClient!Next, FromClient!Send
  <2>3. CASE sent'["client"] = sent["client"] /\ Delivers(received["server"], received'["server"], sent["client"])
    <3>1. FromClient!Deliver
      <4> DEFINE got == received["server"]
                 got2 == received'["server"]
                 s == sent["client"]
                 m == s[Len(got) + 1]
      <4>1. Delivers(got, got2, s)
        BY <2>3
      <4> HIDE DEF got, got2, s
      <4>2. Len(got) < Len(s) /\ got2 = Append(got, DeliveredAs(m, got))
        BY Zenon, <4>1, DeliveredIs
      <4>3. got2 = Append(got, FromClient!Delivery(m, got))
        <5>1. DeliveredAs(m, got) = FromClient!Delivery(m, got)
          BY Zenon DEF DeliveredAs, FromClient!Delivery
        <5> QED BY Zenon, <4>2, <5>1
      <4>4. /\ Len(received["server"]) < Len(sent["client"])
            /\ received'["server"] = Append(received["server"], FromClient!Delivery(sent["client"][Len(received["server"]) + 1], received["server"]))
        BY Zenon, <4>2, <4>3 DEF got, got2, s
      <4> QED BY Zenon, <2>3, <4>4 DEF FromClient!Deliver
    <3> QED BY <3>1 DEF FromClient!Next
  <2> QED BY <1>1, <2>1, <2>2, <2>3, PipeStep
<1>3. [FromServer!Next]_(FromServer!vars)
  <2>1. CASE sent'["server"] = sent["server"] /\ received'["client"] = received["client"]
    BY <2>1 DEF FromServer!vars
  <2>2. CASE (\E m \in Messages : sent'["server"] = Append(sent["server"], m)) /\ received'["client"] = received["client"]
    BY Zenon, <2>2 DEF FromServer!Next, FromServer!Send
  <2>3. CASE sent'["server"] = sent["server"] /\ Delivers(received["client"], received'["client"], sent["server"])
    <3>1. FromServer!Deliver
      <4> DEFINE got == received["client"]
                 got2 == received'["client"]
                 s == sent["server"]
                 m == s[Len(got) + 1]
      <4>1. Delivers(got, got2, s)
        BY <2>3
      <4> HIDE DEF got, got2, s
      <4>2. Len(got) < Len(s) /\ got2 = Append(got, DeliveredAs(m, got))
        BY Zenon, <4>1, DeliveredIs
      <4>3. got2 = Append(got, FromServer!Delivery(m, got))
        <5>1. DeliveredAs(m, got) = FromServer!Delivery(m, got)
          BY Zenon DEF DeliveredAs, FromServer!Delivery
        <5> QED BY Zenon, <4>2, <5>1
      <4>4. /\ Len(received["client"]) < Len(sent["server"])
            /\ received'["client"] = Append(received["client"], FromServer!Delivery(sent["server"][Len(received["client"]) + 1], received["client"]))
        BY Zenon, <4>2, <4>3 DEF got, got2, s
      <4> QED BY Zenon, <2>3, <4>4 DEF FromServer!Deliver
    <3> QED BY <3>1 DEF FromServer!Next
  <2> QED BY <1>1, <2>1, <2>2, <2>3, PipeStep
<1> QED BY <1>2, <1>3

LEMMA AllInvs == Spec => [](Inv /\ ShapeInv /\ StreamInv)
<1>1. Init => Inv /\ ShapeInv /\ StreamInv
  BY InitInv, InitStream
<1>2. Inv /\ ShapeInv /\ StreamInv /\ [Next]_vars => (Inv /\ ShapeInv /\ StreamInv)'
  BY NextInv, NextShape, NextStream
<1> QED BY <1>1, <1>2, PTL DEF Spec

\* Whatever is sent, by an eager client during the handshake too, and whatever
\* closes, stops or breaks: a read of a header meets a header, and a read of a
\* body the body of the size that header announced (connection.cpp:173-205).
THEOREM Framed == Spec => []WellFramed
<1> QED BY AllInvs, FramedIs, PTL

\* Each direction of a Connection implements a pipe: addToIncomingMessageQueue
\* gets the messages given to send(), each once and in their order, and only a
\* tail of them is lost (connection.cpp:51-62,132-171,173-216).
THEOREM DeliversInOrder == Spec => ImplementsPipes
<1>1. Init => FromClient!Init /\ FromServer!Init
  BY DEF Init, FromClient!Init, FromServer!Init, Ends
<1> QED BY <1>1, AllInvs, PipesStep, PTL DEF Spec, ImplementsPipes, FromClient!Spec, FromServer!Spec
==============================================================================
