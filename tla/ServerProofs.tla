----------------------------- MODULE ServerProofs -----------------------------
(***************************************************************************)
(* What holds of Server for any number of clients, whatever goes wrong     *)
(* with accepts and however the two threads interleave, up to the first    *)
(* data race that is not benign.                                           *)
(***************************************************************************)
EXTENDS Server, FiniteSetTheorems, SequenceTheorems, TLAPS

Positions == 1 .. Len(connections)

Pushing(c) == accepting.stage = "pushing" /\ accepting.client = c

\* Outside messageAllClients nothing is left of the last one; inside, the loop
\* is within the list.
CallInv ==
  /\ ~ broadcast.active => broadcast = Quiet
  /\ broadcast.at <= broadcast.last + 1

\* The handler runs for an open connection, at the back of the list once it is
\* pushed.
HandlerInv ==
  /\ io = "off" => accepts = (IF starting THEN 1 ELSE 0) /\ accepting = Idle /\ ~ joinable
  /\ io = "running" =>
       /\ accepts = (IF accepting = Idle THEN 1 ELSE 0) + (IF starting THEN 1 ELSE 0)
       /\ joinable
  /\ accepting.stage = "idle" => accepting = Idle
  /\ accepting.stage # "idle" =>
       /\ io \in {"running", "terminated"}
       /\ accepting.client \in Clients
       /\ socket[accepting.client] = "open"
  /\ accepting.stage = "pushed" =>
       connections # <<>> /\ connections[Len(connections)] = accepting.client

\* Ids are handed out in ascending order, none before the handler is done.
IdInv ==
  /\ idCounter >= FirstId
  /\ \A c \in Clients : socket[c] = "away" \/ c = accepting.client => ids[c] = 0
  /\ \A c \in Clients :
       socket[c] # "away" /\ c # accepting.client =>
         /\ ids[c] \in FirstId .. idCounter - 1
         /\ \A d \in Clients \ {c} : ids[d] # ids[c]

\* The list by its positions.
ListInv ==
  /\ \A i, j \in Positions :
       connections[i] = connections[j] /\ connections[i] # Null => i = j
  /\ \A i \in Positions : connections[i] # Null =>
       socket[connections[i]] # "away" /\ ~ Pushing(connections[i])
  /\ \A c \in Clients : socket[c] = "open" /\ ~ Pushing(c) =>
       \E i \in Positions : connections[i] = c
  /\ \A i \in Positions : connections[i] = Null => broadcast.active /\ broadcast.invalid

\* A closed client has one notice more than messageClient gave it once it is
\* not in the list any more.
ReportInv ==
  \A c \in Clients :
    notices[c] = direct[c] +
      (IF socket[c] = "closed" /\ \A i \in Positions : connections[i] # c THEN 1 ELSE 0)

\* What the loop has passed was told, is the ignored one, or is dropped.
LoopInv ==
  \A i \in 1 .. broadcast.at - 1 :
    connections[i] \in broadcast.told \cup {Null, broadcast.ignored}

Inv == TypeOK /\ CallInv /\ HandlerInv /\ IdInv /\ ListInv /\ ReportInv /\ LoopInv

------------------------------------------------------------------------------
\* The erase keeps everything but the null pointers, in its order.
LEMMA NoNullsProperties ==
  ASSUME NEW s \in Seq(Clients \cup {Null}), NEW t \in NoNulls(s)
  PROVE  /\ t \in Seq(Clients \cup {Null})
         /\ \A i \in 1 .. Len(t) : t[i] # Null
         /\ \A p \in 1 .. Len(s) : s[p] # Null => \E i \in 1 .. Len(t) : t[i] = s[p]
         /\ \A i \in 1 .. Len(t) : \E p \in 1 .. Len(s) : t[i] = s[p]
         /\ (\A p, q \in 1 .. Len(s) : s[p] = s[q] /\ s[p] # Null => p = q)
              => \A i, j \in 1 .. Len(t) : t[i] = t[j] => i = j
         /\ s # <<>> /\ s[Len(s)] # Null => t # <<>> /\ t[Len(t)] = s[Len(s)]
  <1> DEFINE n == Cardinality(NonNull(s))
  <1>1. NonNull(s) \subseteq 1 .. Len(s) /\ Len(s) \in Nat
    BY DEF NonNull
  <1>2. n \in Nat
    <2>1. IsFiniteSet(1 .. Len(s))
      BY <1>1, FS_Interval
    <2>2. IsFiniteSet(NonNull(s))
      BY <1>1, <2>1, FS_Subset
    <2> QED
      BY <2>2, FS_CardinalityType
  <1>3. PICK f \in [1 .. n -> NonNull(s)] :
          /\ t = [i \in DOMAIN f |-> s[f[i]]]
          /\ \A i, j \in DOMAIN f : i < j => f[i] < f[j]
          /\ \A p \in NonNull(s) : \E i \in DOMAIN f : f[i] = p
    BY DEF NoNulls
  <1> HIDE DEF n
  <1>4. /\ DOMAIN f = 1 .. n
        /\ \A i \in 1 .. n : f[i] \in 1 .. Len(s) /\ s[f[i]] # Null /\ t[i] = s[f[i]]
    BY <1>1, <1>3 DEF NonNull
  <1>5. t \in Seq(Clients \cup {Null}) /\ Len(t) = n
    <2>1. t \in [1 .. n -> Clients \cup {Null}]
      BY <1>3, <1>4
    <2> QED
      BY <1>2, <2>1
  <1>6. ASSUME NEW p \in 1 .. Len(s), s[p] # Null
        PROVE  \E i \in 1 .. n : f[i] = p /\ t[i] = s[p]
    BY <1>3, <1>4, <1>6 DEF NonNull
  <1>7. ASSUME \A p, q \in 1 .. Len(s) : s[p] = s[q] /\ s[p] # Null => p = q,
               NEW i \in 1 .. n, NEW j \in 1 .. n, t[i] = t[j]
        PROVE  i = j
    <2>1. f[i] = f[j] /\ f[i] \in Nat
      BY <1>4, <1>7
    <2>2. ~ (i < j) /\ ~ (j < i)
      BY <1>3, <1>4, <2>1
    <2> QED
      BY <1>2, <2>2
  <1>8. ASSUME s # <<>>, s[Len(s)] # Null
        PROVE  t # <<>> /\ t[Len(t)] = s[Len(s)]
    <2>1. Len(s) \in 1 .. Len(s)
      BY <1>8, EmptySeq
    <2>2. PICK i \in 1 .. n : f[i] = Len(s) /\ t[i] = s[Len(s)]
      BY <1>6, <1>8, <2>1
    <2>3. i = n
      <3>1. SUFFICES ASSUME i < n PROVE FALSE
        BY <1>2
      <3>2. f[i] < f[n] /\ f[n] \in 1 .. Len(s)
        BY <1>2, <1>3, <1>4, <3>1
      <3> QED
        BY <1>1, <2>2, <3>2
    <2> QED
      BY <1>2, <1>5, <2>2, <2>3
  <1>9. /\ \A i \in 1 .. n : t[i] # Null
        /\ \A p \in 1 .. Len(s) : s[p] # Null => \E i \in 1 .. n : t[i] = s[p]
        /\ \A i \in 1 .. n : \E p \in 1 .. Len(s) : t[i] = s[p]
    BY <1>4, <1>6
  <1>10. (\A p, q \in 1 .. Len(s) : s[p] = s[q] /\ s[p] # Null => p = q)
           => \A i, j \in 1 .. n : t[i] = t[j] => i = j
    BY <1>7
  <1> QED
    BY <1>5, <1>8, <1>9, <1>10

LEMMA InitInv == Init => Inv
  <1> SUFFICES ASSUME Init PROVE Inv
    OBVIOUS
  <1> USE DEF Init
  <1>1. TypeOK
    <2>1. accepting \in [client : Clients \cup {Null}, stage : {"idle", "pushing", "pushed"}]
      BY DEF Idle
    <2>2. broadcast \in Broadcasts /\ broadcast.last = 0
      BY DEF Quiet, Broadcasts
    <2>3. connections \in Seq(Clients \cup {Null}) /\ Len(connections) = 0
      OBVIOUS
    <2>4. /\ socket \in [Clients -> {"away", "open", "closed"}]
          /\ ids \in [Clients -> Nat] /\ notices \in [Clients -> Nat] /\ direct \in [Clients -> Nat]
      OBVIOUS
    <2>5. io \in {"off", "running", "stopped", "threw", "terminated"} /\ accepts \in Nat
      OBVIOUS
    <2>6. idCounter \in Nat
      BY DEF FirstId
    <2>7. corrupt \in BOOLEAN /\ starting \in BOOLEAN /\ joinable \in BOOLEAN
      BY Zenon
    <2> QED
      BY <2>1, <2>2, <2>3, <2>4, <2>5, <2>6, <2>7 DEF TypeOK
  <1>2. CallInv /\ HandlerInv /\ LoopInv
    BY DEF CallInv, HandlerInv, LoopInv, Idle, Quiet
  <1>3. IdInv
    BY DEF IdInv, FirstId
  <1>4. ListInv /\ ReportInv
    BY DEF ListInv, ReportInv, Positions
  <1> QED
    BY <1>1, <1>2, <1>3, <1>4 DEF Inv

------------------------------------------------------------------------------
\* The application starts and stops the server; the handler that throws.

LEMMA LifeCycleInv ==
  ASSUME Inv, StartAccept \/ StartThread \/ Stop \/ AcceptThrows
  PROVE  Inv'
  <1>1. UNCHANGED <<accepting, socket, ids, idCounter, connections, broadcast, reportVars, corrupt>>
    BY DEF StartAccept, StartThread, Stop, AcceptThrows
  <1>2. /\ accepts' \in Nat /\ io' \in {"off", "running", "stopped", "threw", "terminated"}
        /\ starting' \in BOOLEAN /\ joinable' \in BOOLEAN
    <2>1. CASE StartAccept
      BY <2>1 DEF Inv, TypeOK, StartAccept
    <2>2. CASE StartThread
      BY <2>2 DEF Inv, TypeOK, StartThread
    <2>3. CASE Stop
      BY <2>3 DEF Inv, TypeOK, Stop
    <2>4. CASE AcceptThrows
      BY <2>4 DEF Inv, TypeOK, AcceptThrows
    <2> QED
      BY <2>1, <2>2, <2>3, <2>4
  <1>3. TypeOK'
    BY <1>1, <1>2 DEF Inv, TypeOK, reportVars
  <1>4. HandlerInv'
    <2>1. CASE StartAccept
      BY <1>1, <2>1 DEF Inv, TypeOK, HandlerInv, StartAccept, AppIdle, Alive
    <2>4. CASE StartThread
      BY <1>1, <2>4 DEF Inv, TypeOK, HandlerInv, StartThread, Alive
    <2>2. CASE Stop
      BY <1>1, <2>2 DEF Inv, TypeOK, HandlerInv, Stop, Idle
    <2>3. CASE AcceptThrows
      BY <1>1, <2>3 DEF Inv, TypeOK, HandlerInv, AcceptThrows, Idle
    <2> QED
      BY <2>1, <2>2, <2>3, <2>4
  <1>5. CallInv' /\ IdInv' /\ LoopInv'
    BY <1>1 DEF Inv, CallInv, IdInv, LoopInv
  <1>6. ListInv' /\ ReportInv'
    BY <1>1 DEF Inv, ListInv, ReportInv, Positions, Pushing, reportVars
  <1> QED
    BY <1>3, <1>4, <1>5, <1>6 DEF Inv

------------------------------------------------------------------------------
\* The io_context's thread.

LEMMA AcceptInv ==
  ASSUME Inv, NEW c \in Clients, Accept(c)
  PROVE  Inv'
  <1>1. /\ io = "running" /\ accepting = Idle /\ socket[c] = "away"
        /\ accepts = 1 + (IF starting THEN 1 ELSE 0)
        /\ accepts' = (IF starting THEN 1 ELSE 0) /\ accepting' = [client |-> c, stage |-> "pushing"]
        /\ socket' = [socket EXCEPT ![c] = "open"]
        /\ UNCHANGED <<io, starting, joinable, ids, idCounter, connections, broadcast, notices, direct,
                       corrupt>>
    BY DEF Inv, TypeOK, HandlerInv, Accept, IoRuns, reportVars, threadVars
  <1>2. TypeOK'
    BY <1>1 DEF Inv, TypeOK
  <1>3. HandlerInv'
    BY <1>1 DEF Inv, TypeOK, HandlerInv, Idle
  <1>4. CallInv' /\ LoopInv'
    BY <1>1 DEF Inv, CallInv, LoopInv
  <1>5. IdInv'
    BY <1>1, ServerAssumption DEF Inv, TypeOK, IdInv, Idle
  <1>6. \A i \in Positions : connections[i] # c
    BY <1>1, ServerAssumption DEF Inv, ListInv
  <1>7. ListInv'
    <2>1. \A d \in Clients : ~ Pushing(d)
      BY <1>1 DEF Pushing, Idle
    <2> QED
      BY <1>1, <1>6, <2>1, ServerAssumption DEF Inv, TypeOK, ListInv, Positions, Pushing
  <1>8. ReportInv'
    BY <1>1 DEF Inv, TypeOK, ReportInv, Positions
  <1> QED
    BY <1>2, <1>3, <1>4, <1>5, <1>7, <1>8 DEF Inv

LEMMA PushInv ==
  ASSUME Inv, Push
  PROVE  Inv'
  <1> DEFINE c == accepting.client
             n == Len(connections)
  <1>1. /\ accepting.stage = "pushing" /\ c \in Clients /\ socket[c] = "open"
        /\ accepting' = [client |-> c, stage |-> "pushed"]
        /\ connections' = Append(connections, c)
        /\ corrupt' \in BOOLEAN
        /\ UNCHANGED <<io, starting, joinable, accepts, socket, ids, idCounter, broadcast, notices, direct>>
    BY DEF Inv, TypeOK, HandlerInv, Push, Touch, reportVars, threadVars
  <1>2. /\ connections' \in Seq(Clients \cup {Null}) /\ n \in Nat
        /\ Len(connections') = n + 1 /\ connections'[n + 1] = c
        /\ \A i \in 1 .. n : connections'[i] = connections[i]
    BY <1>1, AppendProperties DEF Inv, TypeOK
  <1>3. TypeOK'
    <2>1. broadcast.last <= n + 1
      BY <1>2 DEF Inv, TypeOK, Broadcasts
    <2> QED
      BY <1>1, <1>2, <2>1 DEF Inv, TypeOK
  <1>4. HandlerInv'
    BY <1>1, <1>2, EmptySeq DEF Inv, TypeOK, HandlerInv, Idle
  <1>5. CallInv' /\ IdInv'
    BY <1>1 DEF Inv, CallInv, IdInv
  <1>6. LoopInv'
    <2>1. \A i \in 1 .. broadcast.at - 1 : i \in 1 .. n
      BY <1>2 DEF Inv, TypeOK, CallInv, Broadcasts
    <2> QED
      BY <1>1, <1>2, <2>1 DEF Inv, LoopInv
  <1>7. \A i \in 1 .. n : connections[i] # c
    BY <1>1, ServerAssumption DEF Inv, ListInv, Positions, Pushing
  <1>8. ListInv'
    BY <1>1, <1>2, <1>7, ServerAssumption DEF Inv, ListInv, Positions, Pushing
  <1>9. ReportInv'
    BY <1>1, <1>2 DEF Inv, ReportInv, Positions
  <1> QED
    BY <1>3, <1>4, <1>5, <1>6, <1>8, <1>9 DEF Inv

LEMMA FinishAcceptInv ==
  ASSUME Inv, FinishAccept
  PROVE  Inv'
  <1> DEFINE c == accepting.client
  <1>1. /\ io = "running" /\ accepting.stage = "pushed"
        /\ c \in Clients /\ socket[c] = "open" /\ connections[Len(connections)] = c
        /\ ids' = [ids EXCEPT ![c] = idCounter]
        /\ idCounter' = idCounter + 1
        /\ accepts = (IF starting THEN 1 ELSE 0) /\ accepts' = accepts + 1
        /\ accepting' = Idle
        /\ corrupt' \in BOOLEAN
        /\ UNCHANGED <<io, starting, joinable, socket, connections, broadcast, notices, direct>>
    <2>1. io = "running" /\ accepting.stage = "pushed" /\ accepting # Idle
      BY DEF FinishAccept, IoRuns, Idle
    <2>2. /\ c \in Clients /\ socket[c] = "open" /\ connections[Len(connections)] = c
          /\ accepts = (IF starting THEN 1 ELSE 0)
      BY <2>1 DEF Inv, TypeOK, HandlerInv
    <2>3. corrupt' \in BOOLEAN
      BY DEF Inv, TypeOK, FinishAccept, Touch
    <2> QED
      BY <2>1, <2>2, <2>3 DEF FinishAccept, reportVars, threadVars
  <1>2. TypeOK'
    BY <1>1 DEF Inv, TypeOK, Idle
  <1>3. HandlerInv'
    BY <1>1 DEF Inv, HandlerInv, Idle
  <1>4. CallInv' /\ LoopInv'
    BY <1>1 DEF Inv, CallInv, LoopInv
  <1>5. IdInv'
    <2>1. idCounter \in Nat /\ FirstId \in Nat /\ idCounter >= FirstId /\ FirstId > 0
      BY DEF Inv, TypeOK, IdInv, FirstId
    <2>2. c # Null
      BY <1>1, ServerAssumption
    <2>3. \A d \in Clients \ {c} :
            \/ ids[d] = 0
            \/ ids[d] \in FirstId .. idCounter - 1
      BY DEF Inv, IdInv
    <2>4. \A d \in Clients : socket[d] = "away" => ids'[d] = 0
      BY <1>1 DEF Inv, TypeOK, IdInv
    <2>5. \A x \in Clients : socket[x] # "away" =>
            /\ ids'[x] \in FirstId .. idCounter
            /\ \A d \in Clients \ {x} : ids'[d] # ids'[x]
      BY <1>1, <2>1, <2>3 DEF Inv, TypeOK, IdInv
    <2> QED
      BY <1>1, <2>1, <2>2, <2>4, <2>5, ServerAssumption DEF IdInv, Idle
  <1>6. ListInv'
    <2>1. \A d \in Clients \cup {Null} : ~ Pushing(d) /\ ~ Pushing(d)'
      BY <1>1 DEF Pushing, Idle
    <2> QED
      BY <1>1, <2>1 DEF Inv, TypeOK, ListInv, Positions, Pushing, Idle
  <1>7. ReportInv'
    BY <1>1 DEF Inv, ReportInv, Positions
  <1> QED
    BY <1>2, <1>3, <1>4, <1>5, <1>6, <1>7 DEF Inv

LEMMA CloseSocketInv ==
  ASSUME Inv, NEW c \in Clients, CloseSocket(c)
  PROVE  Inv'
  <1>1. /\ accepting = Idle /\ socket[c] = "open"
        /\ socket' = [socket EXCEPT ![c] = "closed"]
        /\ UNCHANGED <<io, starting, joinable, accepts, accepting, ids, idCounter, connections,
                       broadcast, notices, direct, corrupt>>
    BY DEF CloseSocket, reportVars, threadVars
  <1>2. TypeOK'
    BY <1>1 DEF Inv, TypeOK
  <1>3. HandlerInv' /\ CallInv' /\ LoopInv'
    BY <1>1 DEF Inv, HandlerInv, CallInv, LoopInv, Idle
  <1>4. IdInv'
    BY <1>1 DEF Inv, TypeOK, IdInv
  <1>5. ListInv'
    BY <1>1 DEF Inv, TypeOK, ListInv, Positions, Pushing
  <1>6. \E i \in Positions : connections[i] = c
    BY <1>1 DEF Inv, ListInv, Pushing, Idle
  <1>7. ReportInv'
    BY <1>1, <1>6 DEF Inv, TypeOK, ReportInv, Positions
  <1> QED
    BY <1>2, <1>3, <1>4, <1>5, <1>7 DEF Inv

------------------------------------------------------------------------------
\* The application's thread.

\* The erase at the end of both calls: the loop is over, the list is compact.
LEMMA EraseInv ==
  ASSUME Inv, broadcast' = Quiet, UNCHANGED acceptVars, corrupt' \in BOOLEAN,
         \/ connections' \in NoNulls(connections)
         \/ connections' = connections /\ \A i \in Positions : connections[i] # Null
  PROVE  /\ connections' \in Seq(Clients \cup {Null})
         /\ CallInv' /\ HandlerInv' /\ IdInv' /\ ListInv' /\ LoopInv'
         /\ \A c \in Clients : (\E i \in Positions : connections[i] = c)
                                 <=> (\E i \in Positions' : connections'[i] = c)
  <1>1. connections \in Seq(Clients \cup {Null})
    BY DEF Inv, TypeOK
  <1> DEFINE m == Len(connections')
  <1>2. \A p, q \in 1 .. Len(connections) :
           connections[p] = connections[q] /\ connections[p] # Null => p = q
    BY DEF Inv, ListInv, Positions
  <1>3. /\ connections' \in Seq(Clients \cup {Null})
        /\ \A i \in 1 .. m : connections'[i] # Null
        /\ \A p \in Positions : connections[p] # Null => \E i \in 1 .. m : connections'[i] = connections[p]
        /\ \A i \in 1 .. m : \E p \in Positions : connections'[i] = connections[p]
        /\ \A i, j \in 1 .. m : connections'[i] = connections'[j] => i = j
        /\ connections # <<>> /\ connections[Len(connections)] # Null
             => connections' # <<>> /\ connections'[m] = connections[Len(connections)]
    <2>1. CASE connections' \in NoNulls(connections)
      BY <1>1, <1>2, <2>1, NoNullsProperties DEF Positions
    <2>2. CASE connections' = connections /\ \A i \in Positions : connections[i] # Null
      BY <1>1, <1>2, <2>2 DEF Positions
    <2> QED
      BY <2>1, <2>2
  <1>4. UNCHANGED <<io, starting, joinable, accepts, accepting, socket, ids, idCounter>>
    BY DEF acceptVars, threadVars
  <1>5. CallInv' /\ LoopInv'
    BY DEF CallInv, LoopInv, Quiet
  <1>6. HandlerInv'
    BY <1>3, <1>4, ServerAssumption DEF Inv, HandlerInv
  <1>7. IdInv'
    BY <1>4 DEF Inv, IdInv
  <1>8. \A c \in Clients : (\E i \in Positions : connections[i] = c)
                             <=> (\E i \in 1 .. m : connections'[i] = c)
    BY <1>3, ServerAssumption
  <1>9. ListInv'
    <2>1. \A i \in 1 .. m : socket[connections'[i]] # "away" /\ ~ Pushing(connections'[i])
      BY <1>3 DEF Inv, ListInv
    <2>2. \A c \in Clients : socket[c] = "open" /\ ~ Pushing(c) => \E i \in 1 .. m : connections'[i] = c
      BY <1>8 DEF Inv, ListInv
    <2> QED
      BY <1>3, <1>4, <2>1, <2>2 DEF ListInv, Positions, Pushing
  <1> QED
    BY <1>3, <1>5, <1>6, <1>7, <1>8, <1>9 DEF Positions

LEMMA MessageClientInv ==
  ASSUME Inv, NEW c \in Clients, MessageClient(c)
  PROVE  Inv'
  <1>1. /\ broadcast = Quiet /\ broadcast' = Quiet
        /\ direct' = [direct EXCEPT ![c] = @ + 1]
        /\ notices' = [notices EXCEPT ![c] = @ + 1]
        /\ connections' \in NoNulls(connections)
        /\ UNCHANGED acceptVars
        /\ corrupt' \in BOOLEAN
    BY DEF Inv, TypeOK, CallInv, MessageClient, AppIdle, Touch
  <1>2. /\ connections' \in Seq(Clients \cup {Null})
        /\ CallInv' /\ HandlerInv' /\ IdInv' /\ ListInv' /\ LoopInv'
        /\ \A d \in Clients : (\E i \in Positions : connections[i] = d)
                                <=> (\E i \in Positions' : connections'[i] = d)
    BY <1>1, EraseInv
  <1>3. UNCHANGED <<io, starting, joinable, accepts, accepting, socket, ids, idCounter>>
    BY <1>1 DEF acceptVars, threadVars
  <1>4. TypeOK'
    BY <1>1, <1>2, <1>3 DEF Inv, TypeOK, Quiet
  <1>5. ReportInv'
    <2> SUFFICES ASSUME NEW d \in Clients
                 PROVE  notices'[d] = direct'[d] +
                   (IF socket'[d] = "closed" /\ \A i \in Positions' : connections'[i] # d THEN 1 ELSE 0)
      BY DEF ReportInv
    <2>1. notices[d] = direct[d] +
            (IF socket[d] = "closed" /\ \A i \in Positions : connections[i] # d THEN 1 ELSE 0)
      BY DEF Inv, ReportInv
    <2>2. (\A i \in Positions : connections[i] # d) <=> (\A i \in Positions' : connections'[i] # d)
      BY <1>2
    <2>3. notices[d] \in Nat /\ direct[d] \in Nat
      BY DEF Inv, TypeOK
    <2>4. \/ notices'[d] = notices[d] /\ direct'[d] = direct[d]
          \/ notices'[d] = notices[d] + 1 /\ direct'[d] = direct[d] + 1
      BY <1>1 DEF Inv, TypeOK
    <2> QED
      BY <1>3, <2>1, <2>2, <2>3, <2>4
  <1> QED
    BY <1>2, <1>4, <1>5 DEF Inv

LEMMA BroadcastBeginInv ==
  ASSUME Inv, NEW ignored \in Clients \cup {Null}, BroadcastBegin(ignored)
  PROVE  Inv'
  <1>1. /\ ~ broadcast.active /\ broadcast = Quiet
        /\ broadcast' = [active |-> TRUE, at |-> 1, last |-> Len(connections), ignored |-> ignored,
                         invalid |-> FALSE, told |-> {}]
        /\ corrupt' \in BOOLEAN
        /\ UNCHANGED <<acceptVars, connections, reportVars>>
    BY DEF Inv, TypeOK, CallInv, BroadcastBegin, AppIdle, Touch, Quiet
  <1>2. UNCHANGED <<io, starting, joinable, accepts, accepting, socket, ids, idCounter, notices, direct>>
    BY <1>1 DEF acceptVars, threadVars, reportVars
  <1>3. Len(connections) \in Nat
    BY DEF Inv, TypeOK
  <1>4. TypeOK'
    <2>1. broadcast' \in Broadcasts
      BY <1>1, <1>3 DEF Broadcasts
    <2>2. broadcast'.last = Len(connections)
      BY <1>1
    <2> QED
      BY <1>1, <1>2, <1>3, <2>1, <2>2 DEF Inv, TypeOK
  <1>5. HandlerInv' /\ IdInv'
    BY <1>1, <1>2 DEF Inv, HandlerInv, IdInv
  <1>6. CallInv' /\ LoopInv'
    BY <1>1, <1>3 DEF CallInv, LoopInv
  <1>7. ListInv' /\ ReportInv'
    BY <1>1, <1>2 DEF Inv, ListInv, ReportInv, Positions, Pushing
  <1> QED
    BY <1>4, <1>5, <1>6, <1>7 DEF Inv

\* How the loop goes on, one lemma for each of its branches.
LEMMA SendType ==
  ASSUME NEW r \in Broadcasts, NEW n \in Nat \ {0}, NEW S \in SUBSET Clients
  PROVE  [r EXCEPT !.at = n, !.told = S] \in Broadcasts
  BY DEF Broadcasts

LEMMA DropType ==
  ASSUME NEW r \in Broadcasts, NEW n \in Nat \ {0}
  PROVE  LET q == [r EXCEPT !.at = n, !.invalid = TRUE]
         IN /\ q \in Broadcasts
            /\ q.at = n /\ q.invalid
            /\ q.active = r.active /\ q.last = r.last /\ q.ignored = r.ignored /\ q.told = r.told
  BY DEF Broadcasts

LEMMA BroadcastSendInv ==
  ASSUME Inv, BroadcastSend
  PROVE  Inv'
  <1> DEFINE k == broadcast.at
             c == connections[k]
             told == broadcast.told \cup ({c} \ {broadcast.ignored})
  <1>1. /\ broadcast \in Broadcasts /\ broadcast.active
        /\ k \in Nat \ {0} /\ broadcast.last \in Nat /\ k <= broadcast.last
        /\ broadcast.last <= Len(connections) /\ connections \in Seq(Clients \cup {Null})
        /\ broadcast.told \subseteq Clients
    BY DEF Inv, TypeOK, Broadcasts, BroadcastSend, AppLoops
  <1>2. /\ broadcast' = [broadcast EXCEPT !.at = k + 1, !.told = told]
        /\ corrupt' \in BOOLEAN
        /\ UNCHANGED <<acceptVars, connections, reportVars>>
    BY DEF Inv, TypeOK, BroadcastSend, Touch
  <1>3. UNCHANGED <<io, starting, joinable, accepts, accepting, socket, ids, idCounter, notices, direct>>
    BY <1>2 DEF acceptVars, threadVars, reportVars
  <1>4. k + 1 \in Nat \ {0} /\ told \in SUBSET Clients
    <2>1. c \in Clients
      BY <1>1 DEF BroadcastSend
    <2> QED
      BY <1>1, <2>1
  <1> HIDE DEF told
  <1>5. /\ broadcast' \in Broadcasts
        /\ broadcast'.at = k + 1 /\ broadcast'.told = told
        /\ broadcast'.active = broadcast.active /\ broadcast'.last = broadcast.last
        /\ broadcast'.ignored = broadcast.ignored /\ broadcast'.invalid = broadcast.invalid
    <2>1. PICK m \in Nat \ {0} : m = k + 1
      BY <1>4
    <2>2. PICK S \in SUBSET Clients : S = told
      BY <1>4
    <2>3. broadcast' = [broadcast EXCEPT !.at = m, !.told = S]
      BY <1>2, <2>1, <2>2
    <2>4. broadcast' \in Broadcasts
      BY <1>1, <2>3, SendType
    <2>5. broadcast'.at = m /\ broadcast'.told = S
      BY <1>1, <2>3 DEF Broadcasts
    <2>6. /\ broadcast'.active = broadcast.active /\ broadcast'.last = broadcast.last
          /\ broadcast'.ignored = broadcast.ignored /\ broadcast'.invalid = broadcast.invalid
      BY <1>1, <2>3 DEF Broadcasts
    <2> QED
      BY <2>1, <2>2, <2>4, <2>5, <2>6
  <1>6. TypeOK'
    BY <1>2, <1>3, <1>5 DEF Inv, TypeOK
  <1>7. HandlerInv' /\ IdInv'
    BY <1>2, <1>3 DEF Inv, HandlerInv, IdInv
  <1>8. CallInv'
    BY <1>1, <1>5 DEF CallInv
  <1>9. LoopInv'
    <2>1. \A i \in 1 .. k - 1 : connections[i] \in broadcast.told \cup {Null, broadcast.ignored}
      BY DEF Inv, LoopInv
    <2>2. \A i \in 1 .. k : connections[i] \in told \cup {Null, broadcast.ignored}
      BY <1>1, <2>1 DEF told
    <2> QED
      BY <1>1, <1>2, <1>5, <2>2 DEF LoopInv
  <1>10. ListInv' /\ ReportInv'
    BY <1>2, <1>3, <1>5 DEF Inv, ListInv, ReportInv, Positions, Pushing
  <1> QED
    BY <1>6, <1>7, <1>8, <1>9, <1>10 DEF Inv

LEMMA BroadcastReportInv ==
  ASSUME Inv, BroadcastReport
  PROVE  Inv'
  <1> DEFINE k == broadcast.at
             c == connections[k]
             n == Len(connections)
  <1>1. /\ broadcast \in Broadcasts /\ broadcast.active
        /\ k \in Nat \ {0} /\ broadcast.last \in Nat /\ k <= broadcast.last
        /\ broadcast.last <= n /\ connections \in Seq(Clients \cup {Null}) /\ n \in Nat
    BY DEF Inv, TypeOK, Broadcasts, BroadcastReport, AppLoops
  <1>2. /\ broadcast' = [broadcast EXCEPT !.at = k + 1, !.invalid = TRUE]
        /\ connections' = [connections EXCEPT ![k] = Null]
        /\ c = Null \/ socket[c] # "open"
        /\ notices' = [d \in Clients |-> IF d = c THEN notices[d] + 1 ELSE notices[d]]
        /\ corrupt' \in BOOLEAN
        /\ UNCHANGED <<acceptVars, direct>>
    BY DEF Inv, TypeOK, BroadcastReport, BroadcastDrop, Touch
  <1>3. UNCHANGED <<io, starting, joinable, accepts, accepting, socket, ids, idCounter>>
    BY <1>2 DEF acceptVars, threadVars
  <1>4. /\ broadcast' \in Broadcasts
        /\ broadcast'.at = k + 1 /\ broadcast'.invalid /\ broadcast'.told = broadcast.told
        /\ broadcast'.active = broadcast.active /\ broadcast'.last = broadcast.last
        /\ broadcast'.ignored = broadcast.ignored
    <2>1. k + 1 \in Nat \ {0}
      BY <1>1
    <2> QED
      BY <1>1, <1>2, <2>1, DropType
  <1>5. k \in 1 .. n /\ c \in Clients \cup {Null}
    BY <1>1
  <1>6. /\ connections' \in Seq(Clients \cup {Null}) /\ Len(connections') = n
        /\ connections'[k] = Null
        /\ \A i \in 1 .. n : i # k => connections'[i] = connections[i]
    BY <1>1, <1>2, <1>5, ExceptSeq
  <1>7. TypeOK'
    <2>1. notices' \in [Clients -> Nat]
      BY <1>2 DEF Inv, TypeOK
    <2> QED
      BY <1>1, <1>2, <1>3, <1>4, <1>6, <2>1 DEF Inv, TypeOK
  <1>8. HandlerInv'
    <2>1. accepting.stage = "pushed" => n \in 1 .. n /\ n # k
      BY <1>1, <1>2, ServerAssumption DEF Inv, HandlerInv
    <2> QED
      BY <1>3, <1>6, <2>1, EmptySeq DEF Inv, HandlerInv
  <1>9. IdInv'
    BY <1>3 DEF Inv, IdInv
  <1>10. CallInv'
    BY <1>1, <1>4 DEF CallInv
  <1>11. LoopInv'
    <2>1. \A i \in 1 .. k - 1 : connections[i] \in broadcast.told \cup {Null, broadcast.ignored}
      BY DEF Inv, LoopInv
    <2>2. \A i \in 1 .. k : connections'[i] \in broadcast.told \cup {Null, broadcast.ignored}
      BY <1>1, <1>6, <2>1
    <2> QED
      BY <1>1, <1>4, <2>2 DEF LoopInv
  <1>12. \A d \in Clients, i \in 1 .. n : connections'[i] = d <=> (connections[i] = d /\ i # k)
    BY <1>6, ServerAssumption
  <1>13. ListInv'
    <2>1. \A i, j \in 1 .. n : connections'[i] = connections'[j] /\ connections'[i] # Null => i = j
      BY <1>6 DEF Inv, ListInv, Positions
    <2>2. \A i \in 1 .. n : connections'[i] # Null =>
            socket[connections'[i]] # "away" /\ ~ Pushing(connections'[i])
      BY <1>6 DEF Inv, ListInv, Positions
    <2>3. \A d \in Clients : socket[d] = "open" /\ ~ Pushing(d) =>
            \E i \in 1 .. n : connections'[i] = d
      <3> SUFFICES ASSUME NEW d \in Clients, socket[d] = "open", ~ Pushing(d)
                   PROVE  \E i \in 1 .. n : connections'[i] = d
        OBVIOUS
      <3>1. PICK i \in 1 .. n : connections[i] = d
        BY DEF Inv, ListInv, Positions
      <3>2. i # k
        BY <1>2, <3>1, ServerAssumption
      <3> QED
        BY <1>12, <3>1, <3>2
    <2> QED
      BY <1>1, <1>3, <1>4, <1>6, <2>1, <2>2, <2>3 DEF ListInv, Positions, Pushing
  <1>14. ReportInv'
    <2> SUFFICES ASSUME NEW d \in Clients
                 PROVE  notices'[d] = direct[d] +
                   (IF socket[d] = "closed" /\ \A i \in 1 .. n : connections'[i] # d THEN 1 ELSE 0)
      BY <1>2, <1>3, <1>6 DEF ReportInv, Positions
    <2>1. /\ notices[d] = direct[d] +
               (IF socket[d] = "closed" /\ \A i \in 1 .. n : connections[i] # d THEN 1 ELSE 0)
          /\ notices[d] \in Nat /\ direct[d] \in Nat
      BY DEF Inv, TypeOK, ReportInv, Positions
    <2>2. CASE d = c
      <3>1. socket[d] = "closed"
        BY <1>2, <1>5, <2>2, ServerAssumption DEF Inv, TypeOK, ListInv, Positions
      <3>2. \A i \in 1 .. n : connections'[i] # d
        BY <1>5, <1>12, <2>2, ServerAssumption DEF Inv, ListInv, Positions
      <3>3. notices'[d] = notices[d] + 1 /\ notices[d] = direct[d]
        BY <1>2, <1>5, <2>1, <2>2
      <3> QED
        BY <2>1, <3>1, <3>2, <3>3
    <2>3. CASE d # c
      <3>1. notices'[d] = notices[d]
        BY <1>2, <2>3
      <3>2. (\A i \in 1 .. n : connections'[i] # d) <=> (\A i \in 1 .. n : connections[i] # d)
        BY <1>12, <2>3
      <3> QED
        BY <2>1, <3>1, <3>2
    <2> QED
      BY <2>2, <2>3
  <1> QED
    BY <1>7, <1>8, <1>9, <1>10, <1>11, <1>13, <1>14 DEF Inv

LEMMA BroadcastEndInv ==
  ASSUME Inv, BroadcastEnd
  PROVE  Inv'
  <1>1. /\ broadcast' = Quiet
        /\ \/ connections' \in NoNulls(connections)
           \/ connections' = connections /\ ~ broadcast.invalid
        /\ UNCHANGED <<acceptVars, reportVars>>
        /\ corrupt' \in BOOLEAN
    BY DEF Inv, TypeOK, BroadcastEnd, Touch
  <1>2. ~ broadcast.invalid => \A i \in Positions : connections[i] # Null
    BY DEF Inv, ListInv
  <1>3. /\ connections' \in Seq(Clients \cup {Null})
        /\ CallInv' /\ HandlerInv' /\ IdInv' /\ ListInv' /\ LoopInv'
        /\ \A d \in Clients : (\E i \in Positions : connections[i] = d)
                                <=> (\E i \in Positions' : connections'[i] = d)
    BY <1>1, <1>2, EraseInv
  <1>4. UNCHANGED <<io, starting, joinable, accepts, accepting, socket, ids, idCounter, notices, direct>>
    BY <1>1 DEF acceptVars, threadVars, reportVars
  <1>5. broadcast' \in Broadcasts /\ broadcast'.last = 0
    BY <1>1 DEF Quiet, Broadcasts
  <1>6. TypeOK'
    BY <1>1, <1>3, <1>4, <1>5 DEF Inv, TypeOK
  <1>7. ReportInv'
    <2> SUFFICES ASSUME NEW d \in Clients
                 PROVE  notices[d] = direct[d] +
                   (IF socket[d] = "closed" /\ \A i \in Positions' : connections'[i] # d THEN 1 ELSE 0)
      BY <1>4 DEF ReportInv
    <2>1. (\A i \in Positions : connections[i] # d) <=> (\A i \in Positions' : connections'[i] # d)
      BY <1>3
    <2> QED
      BY <2>1 DEF Inv, ReportInv
  <1> QED
    BY <1>3, <1>6, <1>7 DEF Inv

------------------------------------------------------------------------------
LEMMA NextInv == Inv /\ [Next]_vars => Inv'
  <1> SUFFICES ASSUME Inv, [Next]_vars PROVE Inv'
    OBVIOUS
  <1>1. CASE StartAccept \/ StartThread \/ Stop \/ AcceptThrows
    BY <1>1, LifeCycleInv
  <1>2. ASSUME NEW c \in Clients, Accept(c) \/ CloseSocket(c) \/ MessageClient(c) PROVE Inv'
    BY <1>2, AcceptInv, CloseSocketInv, MessageClientInv
  <1>3. CASE Push \/ FinishAccept
    BY <1>3, PushInv, FinishAcceptInv
  <1>4. ASSUME NEW ignored \in Clients \cup {Null}, BroadcastBegin(ignored) PROVE Inv'
    BY <1>4, BroadcastBeginInv
  <1>5. CASE BroadcastSend \/ BroadcastReport \/ BroadcastEnd
    BY <1>5, BroadcastSendInv, BroadcastReportInv, BroadcastEndInv
  <1>6. CASE UNCHANGED vars
    BY <1>6 DEF vars, acceptVars, threadVars, reportVars, Inv, TypeOK, CallInv, HandlerInv, IdInv,
                ListInv, ReportInv, LoopInv, Positions, Pushing
  <1> QED
    BY <1>1, <1>2, <1>3, <1>4, <1>5, <1>6 DEF Next

THEOREM Invariance == Spec => []Inv
  BY InitInv, NextInv, PTL DEF Spec

------------------------------------------------------------------------------
\* Listed as the runs use it, by the positions of the proofs.
LEMMA ListedPositions ==
  ASSUME Inv, NEW c
  PROVE  Listed(c) = {i \in Positions : connections[i] = c}
  <1>1. DOMAIN connections = Positions
    BY DEF Inv, TypeOK, Positions
  <1> QED
    BY <1>1 DEF Listed

LEMMA ListSoundFollows == Inv => ListSound
  <1> SUFFICES ASSUME Inv PROVE ListSound
    OBVIOUS
  <1>1. ASSUME NEW c \in Clients PROVE Cardinality(Listed(c)) <= 1
    <2>1. CASE Listed(c) = {}
      BY <2>1, FS_EmptySet
    <2>2. CASE Listed(c) # {}
      <3>1. PICK i \in Listed(c) : TRUE
        BY <2>2
      <3>2. Listed(c) = {i}
        BY <3>1, ListedPositions, ServerAssumption DEF Inv, ListInv
      <3>3. Cardinality({i}) = 1
        BY FS_Singleton
      <3> QED
        BY <3>2, <3>3
    <2> QED
      BY <2>1, <2>2
  <1>2. ASSUME NEW c \in Clients, socket[c] = "open", accepting # [client |-> c, stage |-> "pushing"]
        PROVE  Listed(c) # {}
    <2>1. ~ Pushing(c)
      BY <1>2 DEF Inv, TypeOK, Pushing
    <2> QED
      BY <1>2, <2>1, ListedPositions DEF Inv, ListInv
  <1>3. Listed(Null) # {} => broadcast.active
    BY ListedPositions DEF Inv, ListInv
  <1> QED
    BY <1>1, <1>2, <1>3 DEF ListSound

LEMMA ReportsFollow == Inv => LeavesReported
  <1> SUFFICES ASSUME Inv, NEW c \in Clients
               PROVE  notices[c] = direct[c] + (IF socket[c] = "closed" /\ Listed(c) = {} THEN 1 ELSE 0)
    BY DEF LeavesReported
  <1>1. Listed(c) = {} <=> \A i \in Positions : connections[i] # c
    BY ListedPositions
  <1> QED
    BY <1>1 DEF Inv, ReportInv

LEMMA BroadcastFollows == Inv => EveryoneIsTold
  <1> SUFFICES ASSUME Inv, broadcast.active, broadcast.at > broadcast.last,
                      NEW c \in Clients, socket[c] = "open",
                      accepting # [client |-> c, stage |-> "pushing"]
               PROVE  \/ c \in broadcast.told \cup {broadcast.ignored}
                      \/ \E i \in Listed(c) : i > broadcast.last
    BY DEF EveryoneIsTold
  <1>1. ~ Pushing(c)
    BY DEF Inv, TypeOK, Pushing
  <1>2. PICK i \in Positions : connections[i] = c
    BY <1>1 DEF Inv, ListInv
  <1>3. broadcast.last \in Nat /\ broadcast.at \in Nat /\ i \in Nat /\ i >= 1
    BY DEF Inv, TypeOK, Broadcasts, Positions
  <1>4. CASE i > broadcast.last
    BY <1>2, <1>4, ListedPositions
  <1>5. CASE i <= broadcast.last
    <2>1. i \in 1 .. broadcast.at - 1
      BY <1>3, <1>5
    <2> QED
      BY <1>2, <2>1, ServerAssumption DEF Inv, LoopInv
  <1> QED
    BY <1>3, <1>4, <1>5

\* The variables of Server keep their types, for any clients and bounds.
THEOREM TypeCorrect == Spec => []TypeOK
  BY Invariance, PTL DEF Inv

\* A running server has one accept armed, unless its handler runs; a start() on it
\* arms one more and does not return (server.cpp:16-29,39-66).
THEOREM AlwaysArmed == Spec => []AcceptorArmed
  <1>1. Inv => AcceptorArmed
    BY DEF Inv, HandlerInv, AcceptorArmed
  <1> QED
    BY <1>1, Invariance, PTL

\* The back of the list that the handler asks for an id is always the client it has
\* pushed, so that no two get the same one, unless a data race tore the list
\* (server.cpp:49-53).
THEOREM IdsNeverShared == Spec => []IdsUnique
  <1>1. Inv => IdsUnique
    BY DEF Inv, IdInv, IdsUnique
  <1> QED
    BY <1>1, Invariance, PTL

\* The list never loses an open client nor holds one twice (server.cpp:68-100).
THEOREM ListStaysSound == Spec => []ListSound
  BY ListSoundFollows, Invariance, PTL

\* Who leaves the list is reported once for it (server.cpp:68-100).
THEOREM LeavingIsReported == Spec => []LeavesReported
  BY ReportsFollow, Invariance, PTL

\* A broadcast reaches whoever is open and was there when it began
\* (server.cpp:81-100).
THEOREM BroadcastReachesAll == Spec => []EveryoneIsTold
  BY BroadcastFollows, Invariance, PTL
==============================================================================
