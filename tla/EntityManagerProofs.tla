------------------------- MODULE EntityManagerProofs -------------------------
(***************************************************************************)
(* What holds of EntityManager for any component types, systems and        *)
(* bounds. The storage theorems assume nothing of the calls the game       *)
(* makes; the theorems about ids hold when it uses no stale handle.        *)
(***************************************************************************)
EXTENDS EntityManager, FiniteSetTheorems, SequenceTheorems, TLAPS

\* An id that was never handed out has left no trace.
Unused == \A e \in Ids : e > numEntities => owners[e] = 0 /\ signatures[e] = {}

TypeInv == TypeOK /\ Unused

------------------------------------------------------------------------------
\* An iteration over a set of ids is a sequence of its elements, each once.
LEMMA AscendingProperties ==
  ASSUME NEW S, S \subseteq 1 .. numEntities, numEntities \in Nat, NEW f \in Ascending(S)
  PROVE  /\ f \in Seq(1 .. numEntities)
         /\ Len(f) = Cardinality(S) /\ Cardinality(S) \in Nat
         /\ \A i, j \in 1 .. Len(f) : f[i] = f[j] => i = j
         /\ \A e \in S : \E i \in 1 .. Len(f) : f[i] = e
  <1>1. Cardinality(S) \in Nat
    <2>1. IsFiniteSet(1 .. numEntities)
      BY FS_Interval
    <2>2. IsFiniteSet(S)
      BY <2>1, FS_Subset
    <2> QED
      BY <2>2, FS_CardinalityType
  <1>2. f \in [1 .. Cardinality(S) -> S]
    BY DEF Ascending
  <1>3. f \in Seq(1 .. numEntities) /\ Len(f) = Cardinality(S)
    <2>1. f \in [1 .. Cardinality(S) -> 1 .. numEntities]
      BY <1>2
    <2> QED
      BY <1>1, <2>1
  <1>4. \A i, j \in 1 .. Cardinality(S) : f[i] = f[j] => i = j
    <2> SUFFICES ASSUME NEW i \in 1 .. Cardinality(S), NEW j \in 1 .. Cardinality(S), f[i] = f[j]
                 PROVE  i = j
      OBVIOUS
    <2>1. f[i] \in S /\ f[j] \in S
      BY <1>2
    <2>2. \A x \in S : x \in Int
      OBVIOUS
    <2>3. f[i] \in Int
      BY <2>1, <2>2
    <2>4. ~ (f[i] < f[j]) /\ ~ (f[j] < f[i])
      BY <2>3
    <2>5. ~ (i < j) /\ ~ (j < i)
      BY <2>4 DEF Ascending
    <2> QED
      BY <1>1, <2>5
  <1> QED
    BY <1>1, <1>3, <1>4 DEF Ascending

\* The game can only name ids that were handed out.
LEMMA UsedIds ==
  ASSUME TypeInv, NEW e \in Ids, MayUse(e)
  PROVE  e \in 1 .. numEntities
  BY DEF TypeInv, TypeOK, Unused, MayUse, Ids

\* The resize of addComponent makes room for the entity and loses no slot.
LEMMA GrownHasRoom ==
  ASSUME TypeInv, NEW e \in 1 .. numEntities, NEW c \in Components
  PROVE  /\ Grown(c, e) \in Nat
         /\ e < Grown(c, e)
         /\ poolSizes[c] <= Grown(c, e)
  <1>1. poolSizes[c] \in Nat /\ numEntities \in Nat /\ PoolSize \in Nat
    BY EntityAssumption DEF TypeInv, TypeOK
  <1> QED
    BY <1>1 DEF Grown

LEMMA InitTypeInv == Init => TypeInv
  BY EntityAssumption DEF Init, TypeInv, TypeOK, Unused, NoMember, Signable, Ids

------------------------------------------------------------------------------
LEMMA NextTypeInv == TypeInv /\ [Next]_vars => TypeInv'
  <1> SUFFICES ASSUME TypeInv, [Next]_vars PROVE TypeInv'
    OBVIOUS
  <1> USE EntityAssumption DEF TypeInv, TypeOK, Unused, Ids
  <1>1. CASE CreateNew
    <2>1. numEntities' = numEntities + 1 /\ numEntities' \in 1 .. MaxEntities /\ freeIds' = <<>>
      BY <1>1 DEF CreateNew
    <2>2. entitiesToAdd' \subseteq 1 .. numEntities' /\ entitiesToDestroy' \subseteq 1 .. numEntities'
      BY <1>1, <2>1 DEF CreateNew, HandOut
    <2>3. owners' = [owners EXCEPT ![numEntities'] = @ + 1] /\ signatures' = signatures
      BY <1>1 DEF CreateNew, HandOut
    <2>4. signatureCount' \in Nat
      BY <1>1, <2>1 DEF CreateNew
    <2>5. UNCHANGED <<poolSizes, outside, systemVars>>
      BY <1>1 DEF CreateNew, HandOut
    <2>6. freeIds' \in Seq(1 .. numEntities')
      BY <2>1
    <2> QED
      BY <2>1, <2>2, <2>3, <2>4, <2>5, <2>6 DEF systemVars
  <1>2. CASE CreateRecycled
    <2>1. Head(freeIds) \in 1 .. numEntities /\ Tail(freeIds) \in Seq(1 .. numEntities)
      BY <1>2, HeadTailProperties DEF CreateRecycled
    <2>2. numEntities' = numEntities /\ freeIds' \in Seq(1 .. numEntities')
      BY <1>2, <2>1 DEF CreateRecycled
    <2>3. owners' = [owners EXCEPT ![Head(freeIds)] = @ + 1]
      BY <1>2 DEF CreateRecycled, HandOut
    <2>4. entitiesToAdd' \subseteq 1 .. numEntities
      BY <1>2, <2>1 DEF CreateRecycled, HandOut
    <2>5. UNCHANGED <<entitiesToDestroy, signatureCount, signatures, poolSizes, outside, systems,
                     members>>
      BY <1>2 DEF CreateRecycled, HandOut, systemVars
    <2>6. owners' \in [Ids -> Nat] /\ \A e \in Ids : e > numEntities => owners'[e] = owners[e]
      BY <2>1, <2>3
    <2> QED
      BY <2>2, <2>4, <2>5, <2>6
  <1>3. ASSUME NEW e \in Ids, DestroyEntity(e) PROVE TypeInv'
    <2>1. e \in 1 .. numEntities
      BY <1>3, UsedIds DEF DestroyEntity
    <2> QED
      BY <1>3, <2>1 DEF DestroyEntity, componentVars, systemVars
  <1>4. CASE Update
    <2>1. PICK freed \in Ascending(entitiesToDestroy) : freeIds' = freeIds \o freed
      BY <1>4 DEF Update
    <2>2. freed \in Seq(1 .. numEntities)
      <3>1. entitiesToDestroy \subseteq 1 .. numEntities /\ numEntities \in Nat
        OBVIOUS
      <3> QED
        BY <3>1, AscendingProperties
    <2>3. freeIds' \in Seq(1 .. numEntities)
      BY <2>1, <2>2, ConcatProperties
    <2>4. signatures' \in [Ids -> SUBSET Signable] /\ \A e \in Ids : signatures'[e] \subseteq signatures[e]
      BY <1>4 DEF Update, SignaturesAfterUpdate
    <2>5. members' \in [Systems -> [Ids -> Nat]]
      <3>1. members' = MembersAfterUpdate /\ members \in [Systems -> [Ids -> Nat]]
        BY <1>4 DEF Update
      <3> HIDE DEF TypeInv, TypeOK, Unused, Ids
      <3> QED
        BY <3>1 DEF MembersAfterUpdate
    <2> QED
      BY <1>4, <2>3, <2>4, <2>5 DEF Update
  <1>5. ASSUME NEW e \in Ids, NEW c \in Components, AddComponent(e, c) PROVE TypeInv'
    <2>1. e \in 1 .. numEntities
      BY <1>5, UsedIds DEF AddComponent
    <2>2. poolSizes' \in [Components -> Nat]
      BY <1>5, <2>1, GrownHasRoom DEF AddComponent
    <2>3. outside' \subseteq Accesses
      BY <1>5 DEF AddComponent, Access, Accesses
    <2>4. UNCHANGED <<numEntities, freeIds, entitiesToAdd, entitiesToDestroy, owners, signatureCount,
                      systems, members>>
      BY <1>5 DEF AddComponent, entityVars, systemVars
    <2>5. /\ signatures' \in [Ids -> SUBSET Signable]
          /\ \A n \in Ids : n > numEntities => signatures'[n] = signatures[n]
      BY <1>5, <2>1 DEF AddComponent
    <2> QED
      BY <2>2, <2>3, <2>4, <2>5
  <1>6. ASSUME NEW e \in Ids, NEW c \in Components, RemoveComponent(e, c) PROVE TypeInv'
    <2>1. outside' \subseteq Accesses
      BY <1>6 DEF RemoveComponent, Access, Accesses
    <2> QED
      BY <1>6, <2>1 DEF RemoveComponent, entityVars, systemVars
  <1>7. ASSUME NEW s \in Systems, AddSystem(s) \/ RemoveSystem(s) PROVE TypeInv'
    <2>1. UNCHANGED <<entityVars, componentVars>>
      BY <1>7 DEF AddSystem, RemoveSystem
    <2>2. systems' \subseteq Systems
      BY <1>7 DEF AddSystem, RemoveSystem
    <2>3. members' \in [Systems -> [Ids -> Nat]]
      <3>1. NoMember \in [Ids -> Nat]
        BY DEF NoMember
      <3>2. members' = members \/ members' = [members EXCEPT ![s] = NoMember]
        BY <1>7 DEF AddSystem, RemoveSystem
      <3>3. members \in [Systems -> [Ids -> Nat]]
        OBVIOUS
      <3> HIDE DEF TypeInv, TypeOK, Unused, Ids
      <3> QED
        BY <3>1, <3>2, <3>3
    <2> QED
      BY <2>1, <2>2, <2>3 DEF entityVars, componentVars
  <1>8. CASE UNCHANGED vars
    BY <1>8 DEF vars, entityVars, componentVars, systemVars
  <1>9. ASSUME NEW e \in Ids, NEW c \in Components, HasComponent(e, c) \/ GetComponent(e, c)
        PROVE  TypeInv'
    <2>1. outside' \subseteq Accesses
      BY <1>9 DEF HasComponent, GetComponent, Access, Accesses
    <2>2. UNCHANGED <<numEntities, freeIds, entitiesToAdd, entitiesToDestroy, owners>>
      BY <1>9 DEF HasComponent, GetComponent, entityVars
    <2>3. UNCHANGED <<signatureCount, signatures, poolSizes, systems, members>>
      BY <1>9 DEF HasComponent, GetComponent, systemVars
    <2> QED
      BY <2>1, <2>2, <2>3
  <1> QED
    BY <1>1, <1>2, <1>3, <1>4, <1>5, <1>6, <1>7, <1>8, <1>9 DEF Next

\* The types of EntityManager's variables, for every sequence of calls: in
\* particular every id in m_freeIds and in the pending sets was handed out.
THEOREM TypeCorrect == Spec => []TypeOK
  <1>1. TypeInv => TypeOK
    BY DEF TypeInv
  <1> QED
    BY InitTypeInv, NextTypeInv, <1>1, PTL DEF Spec

------------------------------------------------------------------------------
\* Slots: there is a signature for each id and a slot in the pool for each
\* component a signature shows; and what was registered once keeps its slots for
\* good, because a pool never shrinks.
StorageCovers ==
  \A e \in 1 .. numEntities :
    /\ e < signatureCount
    /\ \A c \in signatures[e] : e < poolSizes[c]

MembersKeepSlots ==
  \A s \in Systems, e \in Ids :
    members[s][e] > 0 => \A c \in Requires[s] : e < poolSizes[c]

StorageInv == StorageCovers /\ MembersKeepSlots /\ (numEntities > 0 => numEntities < signatureCount)

LEMMA InitStorageInv == Init => StorageInv
  BY DEF Init, StorageInv, StorageCovers, MembersKeepSlots, NoMember, Ids

LEMMA NextStorageInv == TypeInv /\ StorageInv /\ [Next]_vars => StorageInv'
  <1> SUFFICES ASSUME TypeInv, StorageInv, [Next]_vars PROVE StorageInv'
    OBVIOUS
  <1> USE EntityAssumption DEF TypeInv, TypeOK, StorageInv, StorageCovers, MembersKeepSlots, Ids
  <1>1. CASE CreateNew
    <2>1. numEntities' = numEntities + 1 /\ numEntities' < signatureCount'
      BY <1>1 DEF CreateNew
    <2>2. UNCHANGED <<signatures, poolSizes, members>>
      BY <1>1 DEF CreateNew, HandOut, systemVars
    <2>3. signatures[numEntities'] = {}
      BY <1>1, <2>1 DEF CreateNew, Unused
    <2>4. \A e \in 1 .. numEntities' : e = numEntities' \/ e \in 1 .. numEntities
      BY <2>1
    <2>5. \A e \in 1 .. numEntities' : e < signatureCount'
      <3>1. signatureCount' \in Nat /\ numEntities' \in Nat
        BY <1>1 DEF CreateNew
      <3> QED
        BY <2>1, <3>1
    <2> QED
      BY <2>1, <2>2, <2>3, <2>4, <2>5
  <1>2. CASE CreateRecycled
    BY <1>2 DEF CreateRecycled, HandOut, systemVars
  <1>3. ASSUME NEW e \in Ids, DestroyEntity(e) PROVE StorageInv'
    BY <1>3 DEF DestroyEntity, componentVars, systemVars
  <1>4. CASE Update
    <2>1. UNCHANGED <<numEntities, signatureCount, poolSizes>>
      BY <1>4 DEF Update
    <2>2. \A e \in Ids : signatures'[e] \subseteq signatures[e]
      BY <1>4 DEF Update, SignaturesAfterUpdate
    <2>3. \A s \in Systems, e \in Ids :
            members'[s][e] > 0 =>
              members[s][e] > 0 \/ (e \in entitiesToAdd /\ Requires[s] \subseteq signatures[e])
      BY <1>4 DEF Update, MembersAfterUpdate, Matches
    <2>4. MembersKeepSlots'
      <3> SUFFICES ASSUME NEW s \in Systems, NEW e \in Ids, members'[s][e] > 0, NEW c \in Requires[s]
                   PROVE  e < poolSizes[c]
        BY <2>1
      <3>1. CASE members[s][e] > 0
        BY <3>1
      <3>2. CASE e \in entitiesToAdd /\ Requires[s] \subseteq signatures[e]
        BY <3>2
      <3> QED
        BY <2>3, <3>1, <3>2
    <2>5. StorageCovers'
      BY <2>1, <2>2
    <2> QED
      BY <2>1, <2>4, <2>5
  <1>5. ASSUME NEW e \in Ids, NEW c \in Components, AddComponent(e, c) PROVE StorageInv'
    <2>1. e \in 1 .. numEntities
      BY <1>5, UsedIds DEF AddComponent
    <2>2. /\ poolSizes' = [poolSizes EXCEPT ![c] = Grown(c, e)]
          /\ signatures' = [signatures EXCEPT ![e] = @ \cup ({c} \cap Signable)]
          /\ UNCHANGED <<numEntities, signatureCount, members>>
      BY <1>5 DEF AddComponent, entityVars, systemVars
    <2>3. e < poolSizes'[c] /\ \A d \in Components : poolSizes'[d] \in Nat /\ poolSizes[d] <= poolSizes'[d]
      <3>1. Grown(c, e) \in Nat /\ e < Grown(c, e) /\ poolSizes[c] <= Grown(c, e)
        BY <2>1, GrownHasRoom
      <3>2. poolSizes \in [Components -> Nat]
        OBVIOUS
      <3>3. poolSizes'[c] = Grown(c, e) /\ \A d \in Components \ {c} : poolSizes'[d] = poolSizes[d]
        BY <2>2, <3>2
      <3> QED
        BY <3>1, <3>2, <3>3
    <2>4. \A n \in Ids, d \in Components : n < poolSizes[d] => n < poolSizes'[d]
      BY <2>3
    <2>5. \A s \in Systems : Requires[s] \subseteq Components
      BY DEF Signable
    <2>6. MembersKeepSlots'
      BY <2>2, <2>4, <2>5
    <2>7. \A n \in 1 .. numEntities : \A d \in signatures'[n] : n < poolSizes'[d]
      <3> SUFFICES ASSUME NEW n \in 1 .. numEntities, NEW d \in signatures'[n]
                   PROVE  n < poolSizes'[d]
        OBVIOUS
      <3>1. d \in signatures[n] \/ (n = e /\ d = c)
        BY <2>1, <2>2
      <3>2. d \in signatures[n] => d \in Components /\ n < poolSizes[d]
        BY DEF Signable
      <3>3. n = e /\ d = c => n < poolSizes'[d]
        BY <2>3
      <3>4. n \in Ids
        OBVIOUS
      <3>5. d \in signatures[n] => n < poolSizes'[d]
        BY <2>4, <3>2, <3>4
      <3> QED
        BY <3>1, <3>3, <3>5
    <2> QED
      BY <2>2, <2>6, <2>7
  <1>6. ASSUME NEW e \in Ids, NEW c \in Components, RemoveComponent(e, c) PROVE StorageInv'
    <2>1. \A n \in Ids : signatures'[n] \subseteq signatures[n]
      BY <1>6 DEF RemoveComponent
    <2> QED
      BY <1>6, <2>1 DEF RemoveComponent, entityVars, systemVars
  <1>7. ASSUME NEW s \in Systems, AddSystem(s) \/ RemoveSystem(s) PROVE StorageInv'
    <2>1. \A t \in Systems, e \in Ids : members'[t][e] > 0 => members[t][e] > 0
      <3>1. CASE AddSystem(s)
        BY <3>1 DEF AddSystem
      <3>2. CASE RemoveSystem(s)
        <4>1. members' = [members EXCEPT ![s] = NoMember] /\ \A e \in Ids : NoMember[e] = 0
          BY <3>2 DEF RemoveSystem, NoMember
        <4>2. \A t \in Systems : t # s => members'[t] = members[t]
          BY <4>1
        <4>3. \A e \in Ids : members'[s][e] = 0
          BY <4>1
        <4>4. \A e \in Ids : ~ (members'[s][e] > 0)
          BY <4>3
        <4> QED
          BY <4>2, <4>4
      <3> QED
        BY <1>7, <3>1, <3>2
    <2> QED
      BY <1>7, <2>1 DEF AddSystem, RemoveSystem, entityVars, componentVars
  <1>8. CASE UNCHANGED vars
    BY <1>8 DEF vars, entityVars, componentVars, systemVars
  <1>9. ASSUME NEW e \in Ids, NEW c \in Components, HasComponent(e, c) \/ GetComponent(e, c)
        PROVE  StorageInv'
    BY <1>9 DEF HasComponent, GetComponent, entityVars, systemVars
  <1> QED
    BY <1>1, <1>2, <1>3, <1>4, <1>5, <1>6, <1>7, <1>8, <1>9 DEF Next

\* Which calls can reach past the end of a vector, given the slots.
LEMMA NextStorageBounds == TypeInv /\ StorageInv /\ StorageBounds /\ [Next]_vars => StorageBounds'
  <1> SUFFICES ASSUME TypeInv, StorageInv, StorageBounds, [Next]_vars PROVE StorageBounds'
    OBVIOUS
  <1>1. ASSUME NEW e \in Ids, MayUse(e) PROVE e < signatureCount
    BY <1>1, UsedIds DEF StorageInv, StorageCovers
  <1>2. CASE UNCHANGED vars
    BY <1>2 DEF vars, componentVars, StorageBounds
  <1>3. ASSUME Next PROVE outside' = {} \/ \E e \in Ids, c \in Components : GetComponent(e, c)
    <2>0. outside = {}
      BY <1>3 DEF Next
    <2>1. CASE CreateNew \/ CreateRecycled \/ Update
      BY <2>0, <2>1 DEF CreateNew, CreateRecycled, HandOut, Update
    <2>2. ASSUME NEW e \in Ids, DestroyEntity(e) PROVE outside' = {}
      BY <2>0, <2>2 DEF DestroyEntity, componentVars
    <2>3. ASSUME NEW e \in Ids, NEW c \in Components, AddComponent(e, c) PROVE outside' = {}
      <3>1. e \in 1 .. numEntities /\ e < signatureCount
        BY <1>1, <2>3, UsedIds DEF AddComponent
      <3>2. poolSizes'[c] = Grown(c, e)
        BY <2>3 DEF AddComponent, TypeInv, TypeOK
      <3>3. e < Grown(c, e)
        BY <3>1, GrownHasRoom
      <3> QED
        BY <2>0, <2>3, <3>1, <3>2, <3>3 DEF AddComponent, Access
    <2>4. ASSUME NEW e \in Ids, NEW c \in Components, RemoveComponent(e, c) \/ HasComponent(e, c)
          PROVE  outside' = {}
      <3>1. e < signatureCount
        BY <1>1, <2>4 DEF RemoveComponent, HasComponent
      <3> QED
        BY <2>0, <2>4, <3>1 DEF RemoveComponent, HasComponent, Access
    <2>5. ASSUME NEW s \in Systems, AddSystem(s) \/ RemoveSystem(s) PROVE outside' = {}
      BY <2>0, <2>5 DEF AddSystem, RemoveSystem, componentVars
    <2> QED
      BY <1>3, <2>1, <2>2, <2>3, <2>4, <2>5 DEF Next
  <1>4. ASSUME Next, NEW e \in Ids, NEW c \in Components, GetComponent(e, c) PROVE StorageBounds'
    <2>1. outside = {} /\ signatures' = signatures
      BY <1>4 DEF Next, GetComponent
    <2>2. c \in signatures[e] => e < poolSizes[c]
      BY <1>4, UsedIds DEF GetComponent, StorageInv, StorageCovers
    <2>3. outside' = {} \/ (c \notin signatures[e] /\
                           outside' = {[call |-> "getComponent", entity |-> e, component |-> c]})
      BY <1>4, <2>1, <2>2 DEF GetComponent, Access
    <2> QED
      BY <2>1, <2>3 DEF StorageBounds
  <1> QED
    BY <1>2, <1>3, <1>4 DEF StorageBounds

\* The only unchecked vector access of addComponent, removeComponent,
\* hasComponent and getComponent that can be past the end is getComponent's for a
\* component the entity lacks, whatever calls came before with whatever handles.
THEOREM StorageIsBigEnough == Spec => []StorageBounds
  <1>1. Init => StorageBounds
    BY DEF Init, StorageBounds
  <1> QED
    BY InitTypeInv, NextTypeInv, InitStorageInv, NextStorageInv, <1>1, NextStorageBounds, PTL DEF Spec

\* A game that asks with getComponent for no component an entity lacks never
\* reaches past the end of a vector, stale handles or not.
COROLLARY CarefulReadsAreInside ==
  ASSUME ~ BlindReads
  PROVE  Spec => [](outside = {})
  <1>1. StorageBounds /\ TypeInv /\ StorageInv /\ outside = {} /\ [Next]_vars => (outside = {})'
    <2> SUFFICES ASSUME TypeInv, StorageInv, StorageBounds, outside = {}, [Next]_vars,
                        StorageBounds', outside' # {}
                 PROVE  FALSE
      BY NextStorageBounds
    <2>1. PICK access \in outside' : access.call = "getComponent"
                                    /\ access.component \notin signatures'[access.entity]
      BY DEF StorageBounds
    <2>2. PICK e \in Ids, c \in Components :
            \/ AddComponent(e, c) \/ RemoveComponent(e, c)
            \/ HasComponent(e, c) \/ GetComponent(e, c)
      BY DEF Next, vars, componentVars, CreateNew, CreateRecycled, HandOut, Update, DestroyEntity,
             AddSystem, RemoveSystem
    <2>3. access.call = "getComponent" /\ outside' # outside
      BY <2>1
    <2>4. GetComponent(e, c) /\ access = [call |-> "getComponent", entity |-> e, component |-> c]
      BY <2>1, <2>2, <2>3 DEF AddComponent, RemoveComponent, HasComponent, GetComponent, Access
    <2> QED
      BY <2>1, <2>4 DEF GetComponent
  <1>2. Init => outside = {} /\ StorageBounds
    BY DEF Init, StorageBounds
  <1> QED
    BY InitTypeInv, NextTypeInv, InitStorageInv, NextStorageInv, <1>1, <1>2, NextStorageBounds,
       PTL DEF Spec

\* A system can read every component it requires of each entity it lists, also
\* of one that was destroyed long ago and left behind.
THEOREM SystemsReadStorage == Spec => []MembersHaveStorage
  <1>1. TypeInv /\ StorageInv => MembersHaveStorage
    BY DEF TypeInv, TypeOK, StorageInv, MembersKeepSlots, MembersHaveStorage
  <1> QED
    BY InitTypeInv, NextTypeInv, InitStorageInv, NextStorageInv, <1>1, PTL DEF Spec

\* A pool that exists moves only when an id does not fit, and then to at least
\* twice its size: references to components live as long as that (PoolsDouble).
THEOREM PoolsRarelyMove == Spec => PoolsDouble
  <1> DEFINE Doubles(c) ==
        poolSizes[c] # 0 /\ poolSizes'[c] # poolSizes[c] =>
          /\ numEntities >= poolSizes[c]
          /\ poolSizes'[c] >= 2 * poolSizes[c]
  <1>1. TypeInv /\ [Next]_vars => [\A c \in Components : Doubles(c)]_vars
    <2> SUFFICES ASSUME TypeInv, [Next]_vars, NEW d \in Components PROVE Doubles(d)
      OBVIOUS
    <2> USE EntityAssumption DEF TypeInv, TypeOK
    <2>1. ASSUME NEW e \in Ids, NEW c \in Components, AddComponent(e, c) PROVE Doubles(d)
      <3>1. e \in 1 .. numEntities
        BY <2>1, UsedIds DEF AddComponent
      <3>2. numEntities \in Nat /\ poolSizes[d] \in Nat
        BY DEF Ids
      <3>3. poolSizes'[d] = IF d = c THEN Grown(c, e) ELSE poolSizes[d]
        BY <2>1 DEF AddComponent
      <3>4. poolSizes[d] # 0 /\ poolSizes'[d] # poolSizes[d] =>
              e >= poolSizes[d] /\ poolSizes'[d] = numEntities * 2
        BY <3>3 DEF Grown
      <3> QED
        BY <3>1, <3>2, <3>4
    <2>2. (~ \E e \in Ids, c \in Components : AddComponent(e, c)) => poolSizes' = poolSizes
      BY DEF Next, CreateNew, CreateRecycled, HandOut, Update, DestroyEntity, RemoveComponent,
             HasComponent, GetComponent, AddSystem, RemoveSystem, componentVars, systemVars, vars
    <2> QED
      BY <2>1, <2>2
  <1> QED
    BY InitTypeInv, NextTypeInv, <1>1, PTL DEF Spec, PoolsDouble

------------------------------------------------------------------------------
\* The list of free ids: each once, and what cutting and extending it does.
Distinct(s) == \A i, j \in DOMAIN s : s[i] = s[j] => i = j
Holds(s, e) == \E i \in DOMAIN s : s[i] = e

LEMMA TailDistinct ==
  ASSUME NEW S, NEW s \in Seq(S), s # <<>>, Distinct(s), NEW e
  PROVE  /\ Distinct(Tail(s))
         /\ Holds(Tail(s), e) <=> Holds(s, e) /\ e # Head(s)
  <1>1. /\ Len(s) \in Nat /\ Len(s) > 0
        /\ DOMAIN s = 1 .. Len(s)
        /\ DOMAIN Tail(s) = 1 .. Len(s) - 1
        /\ \A i \in 1 .. Len(s) - 1 : Tail(s)[i] = s[i + 1]
        /\ Head(s) = s[1]
    BY HeadTailProperties, EmptySeq, LenProperties
  <1>2. Distinct(Tail(s))
    BY <1>1 DEF Distinct
  <1>3. Holds(Tail(s), e) => Holds(s, e) /\ e # Head(s)
    BY <1>1 DEF Distinct, Holds
  <1>4. ASSUME Holds(s, e), e # Head(s) PROVE Holds(Tail(s), e)
    <2>1. PICK i \in 1 .. Len(s) : s[i] = e
      BY <1>1, <1>4 DEF Holds
    <2>2. i - 1 \in 1 .. Len(s) - 1 /\ (i - 1) + 1 = i
      BY <1>1, <1>4, <2>1
    <2>3. Tail(s)[i - 1] = e
      BY <1>1, <2>1, <2>2
    <2> QED
      BY <1>1, <2>2, <2>3 DEF Holds
  <1> QED
    BY <1>2, <1>3, <1>4

LEMMA ConcatHolds ==
  ASSUME NEW S, NEW s \in Seq(S), NEW t \in Seq(S)
  PROVE  \A e : Holds(s \o t, e) <=> Holds(s, e) \/ Holds(t, e)
  <1>1. /\ Len(s) \in Nat /\ Len(t) \in Nat
        /\ DOMAIN s = 1 .. Len(s) /\ DOMAIN t = 1 .. Len(t)
        /\ DOMAIN (s \o t) = 1 .. Len(s) + Len(t)
        /\ \A i \in 1 .. Len(s) + Len(t) : (s \o t)[i] = IF i <= Len(s) THEN s[i] ELSE t[i - Len(s)]
    BY ConcatProperties, LenProperties
  <1> SUFFICES ASSUME NEW e PROVE Holds(s \o t, e) <=> Holds(s, e) \/ Holds(t, e)
    OBVIOUS
  <1>2. ASSUME Holds(s \o t, e) PROVE Holds(s, e) \/ Holds(t, e)
    BY <1>1, <1>2 DEF Holds
  <1>3. ASSUME Holds(s, e) PROVE Holds(s \o t, e)
    BY <1>1, <1>3 DEF Holds
  <1>4. ASSUME Holds(t, e) PROVE Holds(s \o t, e)
    <2>1. PICK i \in 1 .. Len(t) : t[i] = e
      BY <1>1, <1>4 DEF Holds
    <2>2. i + Len(s) \in 1 .. Len(s) + Len(t) /\ ~ (i + Len(s) <= Len(s)) /\ (i + Len(s)) - Len(s) = i
      BY <1>1, <2>1
    <2> QED
      BY <1>1, <2>1, <2>2 DEF Holds
  <1> QED
    BY <1>2, <1>3, <1>4

LEMMA ConcatDistinct ==
  ASSUME NEW S, NEW s \in Seq(S), NEW t \in Seq(S), Distinct(s), Distinct(t),
         \A e : ~ (Holds(s, e) /\ Holds(t, e))
  PROVE  Distinct(s \o t)
  <1>1. /\ Len(s) \in Nat /\ Len(t) \in Nat
        /\ DOMAIN s = 1 .. Len(s) /\ DOMAIN t = 1 .. Len(t)
        /\ DOMAIN (s \o t) = 1 .. Len(s) + Len(t)
        /\ \A i \in 1 .. Len(s) + Len(t) : (s \o t)[i] = IF i <= Len(s) THEN s[i] ELSE t[i - Len(s)]
    BY ConcatProperties, LenProperties
  <1> SUFFICES ASSUME NEW i \in 1 .. Len(s) + Len(t), NEW j \in 1 .. Len(s) + Len(t),
                      (s \o t)[i] = (s \o t)[j]
               PROVE  i = j
    BY <1>1 DEF Distinct
  <1>2. CASE i <= Len(s) /\ j <= Len(s)
    BY <1>1, <1>2 DEF Distinct
  <1>3. CASE i > Len(s) /\ j > Len(s)
    <2>1. i - Len(s) \in 1 .. Len(t) /\ j - Len(s) \in 1 .. Len(t)
      BY <1>1, <1>3
    <2>2. t[i - Len(s)] = t[j - Len(s)]
      BY <1>1, <1>3
    <2>3. i - Len(s) = j - Len(s)
      BY <1>1, <2>1, <2>2 DEF Distinct
    <2> QED
      BY <1>1, <2>3
  <1>4. CASE i <= Len(s) /\ j > Len(s)
    <2>1. Holds(s, (s \o t)[i]) /\ Holds(t, (s \o t)[j])
      BY <1>1, <1>4 DEF Holds
    <2> QED
      BY <2>1
  <1>5. CASE i > Len(s) /\ j <= Len(s)
    <2>1. Holds(t, (s \o t)[i]) /\ Holds(s, (s \o t)[j])
      BY <1>1, <1>5 DEF Holds
    <2> QED
      BY <2>1
  <1> QED
    BY <1>1, <1>2, <1>3, <1>4, <1>5

------------------------------------------------------------------------------
\* Ids, when no handle is used after its entity was destroyed. An entity that
\* waits to be registered is not free.
IdInv ==
  /\ Distinct(freeIds)
  /\ \A e \in Ids :
       /\ owners[e] <= 1
       /\ e <= numEntities => owners[e] = 1 \/ e \in entitiesToDestroy \/ Holds(freeIds, e)
       /\ owners[e] = 1 => e \notin entitiesToDestroy /\ ~ Holds(freeIds, e)
       /\ e \in entitiesToDestroy => ~ Holds(freeIds, e)
       /\ e \in entitiesToAdd => ~ Holds(freeIds, e)
       /\ Holds(freeIds, e) => signatures[e] = {}

\* update(): the ids that were to be destroyed are free, and no others.
LEMMA FreeAfterUpdate ==
  ASSUME TypeInv, Update
  PROVE  \A e \in Ids : Holds(freeIds', e) <=> Holds(freeIds, e) \/ e \in entitiesToDestroy
  <1>1. PICK freed \in Ascending(entitiesToDestroy) : freeIds' = freeIds \o freed
    BY DEF Update
  <1>2. entitiesToDestroy \subseteq 1 .. numEntities /\ numEntities \in Nat
    BY EntityAssumption DEF TypeInv, TypeOK
  <1>3. /\ freed \in Seq(1 .. numEntities)
        /\ Len(freed) = Cardinality(entitiesToDestroy)
        /\ \A e \in entitiesToDestroy : \E i \in 1 .. Len(freed) : freed[i] = e
    BY <1>2, AscendingProperties
  <1>4. freeIds \in Seq(1 .. numEntities)
    BY DEF TypeInv, TypeOK
  <1>5. \A e : Holds(freed, e) <=> e \in entitiesToDestroy
    <2>1. \A i \in 1 .. Len(freed) : freed[i] \in entitiesToDestroy
      BY <1>3 DEF Ascending
    <2> QED
      BY <1>3, <2>1, LenProperties DEF Holds
  <1>6. \A e : Holds(freeIds \o freed, e) <=> Holds(freeIds, e) \/ Holds(freed, e)
    BY <1>3, <1>4, ConcatHolds
  <1> QED
    BY <1>1, <1>5, <1>6

LEMMA InitIdInv == Init => IdInv
  BY DEF Init, IdInv, Distinct, Holds, Ids

LEMMA NextIdInv ==
  ASSUME ~ StaleHandles
  PROVE  TypeInv /\ IdInv /\ [Next]_vars => IdInv'
  <1> SUFFICES ASSUME TypeInv, IdInv, [Next]_vars PROVE IdInv'
    OBVIOUS
  <1>0. /\ numEntities \in Nat /\ freeIds \in Seq(1 .. numEntities)
        /\ entitiesToAdd \subseteq 1 .. numEntities /\ entitiesToDestroy \subseteq 1 .. numEntities
        /\ owners \in [Ids -> Nat] /\ signatures \in [Ids -> SUBSET Signable]
        /\ \A e \in Ids : e \in Nat /\ (e > numEntities => owners[e] = 0)
        /\ 1 .. numEntities \subseteq Ids
    BY EntityAssumption DEF TypeInv, TypeOK, Unused, Ids
  <1>1. CASE CreateNew
    <2>1. freeIds = <<>> /\ freeIds' = <<>> /\ numEntities' = numEntities + 1
      BY <1>1 DEF CreateNew
    <2>2. /\ owners' = [owners EXCEPT ![numEntities'] = @ + 1]
          /\ UNCHANGED <<entitiesToDestroy, signatures>>
      BY <1>1 DEF CreateNew, HandOut
    <2>3. \A e : ~ Holds(freeIds', e)
      BY <2>1 DEF Holds
    <2>4. Distinct(freeIds')
      BY <2>1 DEF Distinct
    <2>5. \A e \in Ids : owners'[e] = IF e = numEntities' THEN 1 ELSE owners[e]
      BY <1>0, <2>1, <2>2
    <2>6. \A e \in Ids : e = numEntities' => e \notin entitiesToDestroy
      BY <1>0, <2>1
    <2>7. \A e \in Ids : e <= numEntities' => e = numEntities' \/ e <= numEntities
      BY <1>0, <2>1
    <2>8. \A e : ~ Holds(freeIds, e)
      BY <2>1 DEF Holds
    <2> QED
      BY <1>0, <2>2, <2>3, <2>4, <2>5, <2>6, <2>7, <2>8 DEF IdInv
  <1>2. CASE CreateRecycled
    <2> DEFINE h == Head(freeIds)
    <2>1. freeIds # <<>> /\ freeIds' = Tail(freeIds)
      BY <1>2 DEF CreateRecycled
    <2>2. h \in Ids /\ Holds(freeIds, h)
      <3>1. freeIds \in Seq(1 .. numEntities) /\ freeIds # <<>>
        BY <1>0, <2>1
      <3>2. h \in 1 .. numEntities
        BY <3>1, HeadTailProperties
      <3>3. h = freeIds[1] /\ 1 \in DOMAIN freeIds
        BY <3>1
      <3> QED
        BY <1>0, <3>2, <3>3 DEF Holds
    <2>3. /\ owners' = [owners EXCEPT ![h] = @ + 1]
          /\ entitiesToAdd' = entitiesToAdd \cup {h}
          /\ UNCHANGED <<numEntities, entitiesToDestroy, signatures>>
      BY <1>2 DEF CreateRecycled, HandOut
    <2>4. Distinct(freeIds')
      BY <1>0, <2>1, TailDistinct DEF IdInv
    <2>5. \A e : Holds(freeIds', e) <=> Holds(freeIds, e) /\ e # h
      BY <1>0, <2>1, TailDistinct DEF IdInv
    <2>6. owners[h] = 0 /\ h \notin entitiesToDestroy
      BY <1>0, <2>2 DEF IdInv
    <2>7. \A e \in Ids : owners'[e] = IF e = h THEN 1 ELSE owners[e]
      BY <1>0, <2>2, <2>3, <2>6
    <2> QED
      BY <1>0, <2>3, <2>4, <2>5, <2>6, <2>7 DEF IdInv
  <1>3. ASSUME NEW e \in Ids, DestroyEntity(e) PROVE IdInv'
    <2>1. owners[e] = 1
      BY <1>0, <1>3 DEF DestroyEntity, MayUse, IdInv
    <2>2. /\ entitiesToDestroy' = entitiesToDestroy \cup {e}
          /\ UNCHANGED <<numEntities, freeIds, entitiesToAdd, signatures>>
      BY <1>3 DEF DestroyEntity, componentVars
    <2>3. \A n \in Ids : owners'[n] = IF n = e THEN 0 ELSE owners[n]
      BY <1>0, <1>3, <2>1 DEF DestroyEntity
    <2> QED
      BY <1>0, <2>1, <2>2, <2>3 DEF IdInv
  <1>4. CASE Update
    <2>1. PICK freed \in Ascending(entitiesToDestroy) : freeIds' = freeIds \o freed
      BY <1>4 DEF Update
    <2>2. /\ entitiesToAdd' = {} /\ entitiesToDestroy' = {}
          /\ UNCHANGED <<numEntities, owners>>
          /\ \A e \in Ids : signatures'[e] = IF e \in entitiesToDestroy THEN {} ELSE signatures[e]
      BY <1>4 DEF Update, SignaturesAfterUpdate
    <2>3. \A e \in Ids : Holds(freeIds', e) <=> Holds(freeIds, e) \/ e \in entitiesToDestroy
      BY <1>4, FreeAfterUpdate
    <2>4. Distinct(freeIds')
      <3>1. entitiesToDestroy \subseteq 1 .. numEntities /\ numEntities \in Nat
        BY <1>0
      <3>2. /\ freed \in Seq(1 .. numEntities)
            /\ \A i, j \in 1 .. Len(freed) : freed[i] = freed[j] => i = j
        BY <3>1, AscendingProperties
      <3>3. DOMAIN freed = 1 .. Len(freed)
        BY <3>2, LenProperties
      <3>4. Distinct(freed)
        BY <3>2, <3>3 DEF Distinct
      <3>5. \A e : Holds(freed, e) => e \in entitiesToDestroy
        BY DEF Holds, Ascending
      <3>6. \A e : ~ (Holds(freeIds, e) /\ Holds(freed, e))
        BY <1>0, <3>5 DEF IdInv
      <3> QED
        BY <1>0, <2>1, <3>2, <3>4, <3>6, ConcatDistinct DEF IdInv
    <2> QED
      BY <1>0, <2>2, <2>3, <2>4 DEF IdInv
  <1>5. ASSUME NEW e \in Ids, NEW c \in Components, AddComponent(e, c) \/ RemoveComponent(e, c)
        PROVE  IdInv'
    <2>1. owners[e] = 1
      BY <1>0, <1>5 DEF AddComponent, RemoveComponent, MayUse, IdInv
    <2>2. UNCHANGED entityVars /\ \A n \in Ids : n # e => signatures'[n] = signatures[n]
      BY <1>0, <1>5 DEF AddComponent, RemoveComponent
    <2> QED
      BY <1>0, <2>1, <2>2 DEF IdInv, entityVars
  <1>6. ASSUME NEW s \in Systems, AddSystem(s) \/ RemoveSystem(s) PROVE IdInv'
    BY <1>6 DEF AddSystem, RemoveSystem, entityVars, componentVars, IdInv
  <1>7. CASE UNCHANGED vars
    BY <1>7 DEF vars, entityVars, componentVars, IdInv
  <1>8. ASSUME NEW e \in Ids, NEW c \in Components, HasComponent(e, c) \/ GetComponent(e, c)
        PROVE  IdInv'
    BY <1>8 DEF HasComponent, GetComponent, entityVars, IdInv
  <1> QED
    BY <1>1, <1>2, <1>3, <1>4, <1>5, <1>6, <1>7, <1>8 DEF Next

\* A game that uses no stale handle never sees two entities share an id, and
\* no id is lost.
THEOREM IdsNeverShared == Spec => []IdsAccounted
  <1>1. ASSUME ~ StaleHandles PROVE Spec => []IdsAccounted
    <2>1. IdInv => IdsAccounted
      BY DEF IdInv, IdsAccounted, IsFree, Holds, Distinct
    <2> QED
      BY <1>1, InitTypeInv, NextTypeInv, InitIdInv, NextIdInv, <2>1, PTL DEF Spec
  <1>2. ASSUME StaleHandles PROVE IdsAccounted
    BY <1>2 DEF IdsAccounted
  <1>3. CASE StaleHandles
    BY <1>2, <1>3, PTL
  <1> QED
    BY <1>1, <1>3

\* A recycled id comes without the components of its last owner.
THEOREM RecycledAreBare ==
  ASSUME ~ StaleHandles
  PROVE  Spec => []FreeIdsAreBare
  <1>1. TypeInv /\ IdInv => FreeIdsAreBare
    BY DEF TypeInv, Unused, IdInv, FreeIdsAreBare, IsFree, Holds
  <1> QED
    BY InitTypeInv, NextTypeInv, InitIdInv, NextIdInv, <1>1, PTL DEF Spec

------------------------------------------------------------------------------
\* What the lists of the systems hold. Listed is the half that late additions
\* leave intact, Complete the half that they break.
ListedAt(s, e) ==
  /\ members[s][e] <= 1
  /\ members[s][e] = 1 => Registered(e) /\ ~ Holds(freeIds, e) /\ Matches(s, e)

CompleteAt(s, e) ==
  Registered(e) /\ ~ Holds(freeIds, e) /\ Matches(s, e) => members[s][e] = 1

Listed   == \A s \in Systems, e \in Ids : ListedAt(s, e)
Complete == \A s \in Systems, e \in Ids : CompleteAt(s, e)

\* createEntity, either way: the id it gives was neither registered nor,
\* from now on, is free.
LEMMA CreateStep ==
  ASSUME TypeInv, IdInv, CreateNew \/ CreateRecycled
  PROVE  /\ UNCHANGED <<signatures, systems, members>>
         /\ \E n : /\ entitiesToAdd' = entitiesToAdd \cup {n}
                   /\ n \in Ids => n > numEntities \/ Holds(freeIds, n)
                   /\ \A e \in Ids : e # n =>
                        /\ e <= numEntities' <=> e <= numEntities
                        /\ Holds(freeIds', e) <=> Holds(freeIds, e)
  <1>0. numEntities \in Nat /\ freeIds \in Seq(1 .. numEntities) /\ \A e \in Ids : e \in Nat
    BY EntityAssumption DEF TypeInv, TypeOK, Ids
  <1>1. UNCHANGED <<signatures, systems, members>>
    BY DEF CreateNew, CreateRecycled, HandOut, systemVars
  <1>2. CASE CreateNew
    <2>1. freeIds' = freeIds /\ numEntities' = numEntities + 1
      BY <1>2 DEF CreateNew
    <2>2. entitiesToAdd' = entitiesToAdd \cup {numEntities + 1}
      BY <1>2, <2>1 DEF CreateNew, HandOut
    <2>3. \A e \in Ids : e # numEntities + 1 => (e <= numEntities' <=> e <= numEntities)
      BY <1>0, <2>1
    <2>4. numEntities + 1 > numEntities
      BY <1>0
    <2> QED
      BY <1>1, <2>1, <2>2, <2>3, <2>4
  <1>3. CASE CreateRecycled
    <2>1. freeIds # <<>> /\ freeIds' = Tail(freeIds) /\ numEntities' = numEntities
      BY <1>3 DEF CreateRecycled
    <2>2. entitiesToAdd' = entitiesToAdd \cup {Head(freeIds)}
      BY <1>3 DEF CreateRecycled, HandOut
    <2>3. \A e : Holds(freeIds', e) <=> Holds(freeIds, e) /\ e # Head(freeIds)
      BY <1>0, <2>1, TailDistinct DEF IdInv
    <2>4. Holds(freeIds, Head(freeIds))
      <3>1. Head(freeIds) = freeIds[1] /\ 1 \in DOMAIN freeIds
        BY <1>0, <2>1
      <3> QED
        BY <3>1 DEF Holds
    <2> QED
      BY <1>1, <2>1, <2>2, <2>3, <2>4
  <1> QED
    BY <1>2, <1>3

LEMMA InitListed == Init => Listed /\ Complete
  BY EntityAssumption
     DEF Init, Listed, Complete, ListedAt, CompleteAt, NoMember, Registered, Matches, Ids

LEMMA NextListed ==
  ASSUME ~ StaleHandles, ~ LateRemovals
  PROVE  TypeInv /\ IdInv /\ Listed /\ [Next]_vars => Listed'
  <1> SUFFICES ASSUME TypeInv, IdInv, Listed, [Next]_vars, NEW s \in Systems, NEW e \in Ids
               PROVE  ListedAt(s, e)'
    BY DEF Listed
  <1>0. /\ members \in [Systems -> [Ids -> Nat]] /\ members[s][e] \in Nat
        /\ signatures \in [Ids -> SUBSET Signable]
        /\ entitiesToAdd \subseteq 1 .. numEntities /\ numEntities \in Nat /\ e \in Nat
        /\ ListedAt(s, e)
    BY EntityAssumption DEF TypeInv, TypeOK, Ids, Listed
  <1> USE DEF ListedAt, Registered, Matches
  <1>1. CASE CreateNew \/ CreateRecycled
    BY <1>0, <1>1, CreateStep
  <1>2. ASSUME NEW n \in Ids, DestroyEntity(n) PROVE ListedAt(s, e)'
    BY <1>0, <1>2 DEF DestroyEntity, componentVars, systemVars
  <1>3. CASE Update
    <2>1. Holds(freeIds', e) <=> Holds(freeIds, e) \/ e \in entitiesToDestroy
      BY <1>3, FreeAfterUpdate
    <2>2. /\ entitiesToAdd' = {} /\ UNCHANGED <<numEntities, systems>>
          /\ signatures'[e] = IF e \in entitiesToDestroy THEN {} ELSE signatures[e]
          /\ members'[s][e] = IF e \in entitiesToDestroy /\ Matches(s, e) THEN 0
                              ELSE IF e \in entitiesToAdd /\ Matches(s, e) THEN members[s][e] + 1
                              ELSE members[s][e]
      BY <1>3 DEF Update, SignaturesAfterUpdate, MembersAfterUpdate
    <2>3. e \in entitiesToAdd => e <= numEntities /\ ~ Holds(freeIds, e) /\ members[s][e] = 0
      BY <1>0 DEF IdInv
    <2> QED
      BY <1>0, <2>1, <2>2, <2>3
  <1>4. ASSUME NEW n \in Ids, NEW c \in Components, AddComponent(n, c) PROVE ListedAt(s, e)'
    <2>1. signatures[e] \subseteq signatures'[e]
      BY <1>0, <1>4 DEF AddComponent
    <2> QED
      BY <1>0, <1>4, <2>1 DEF AddComponent, entityVars, systemVars
  <1>5. ASSUME NEW n \in Ids, NEW c \in Components, RemoveComponent(n, c) PROVE ListedAt(s, e)'
    <2>1. e # n => signatures'[e] = signatures[e]
      BY <1>0, <1>5 DEF RemoveComponent
    <2>2. n \in entitiesToAdd /\ UNCHANGED <<numEntities, freeIds, entitiesToAdd, systems, members>>
      BY <1>5 DEF RemoveComponent, entityVars, systemVars
    <2> QED
      BY <1>0, <2>1, <2>2
  <1>6. ASSUME NEW t \in Systems, AddSystem(t) PROVE ListedAt(s, e)'
    BY <1>0, <1>6 DEF AddSystem, entityVars, componentVars
  <1>7. ASSUME NEW t \in Systems, RemoveSystem(t) PROVE ListedAt(s, e)'
    <2>1. members'[s][e] = IF s = t THEN 0 ELSE members[s][e]
      BY <1>0, <1>7 DEF RemoveSystem, NoMember
    <2>2. s # t => (s \in systems' <=> s \in systems)
      BY <1>7 DEF RemoveSystem
    <2>3. UNCHANGED <<numEntities, freeIds, entitiesToAdd, signatures>>
      BY <1>7 DEF RemoveSystem, entityVars, componentVars
    <2> QED
      BY <1>0, <2>1, <2>2, <2>3
  <1>8. CASE UNCHANGED vars
    BY <1>0, <1>8 DEF vars, entityVars, componentVars, systemVars
  <1>9. ASSUME NEW n \in Ids, NEW c \in Components, HasComponent(n, c) \/ GetComponent(n, c)
        PROVE  ListedAt(s, e)'
    BY <1>0, <1>9 DEF HasComponent, GetComponent, entityVars, systemVars
  <1> QED
    BY <1>1, <1>2, <1>3, <1>4, <1>5, <1>6, <1>7, <1>8, <1>9 DEF Next

LEMMA NextComplete ==
  ASSUME ~ StaleHandles, ~ LateAdds, ~ LateRemovals, ~ LateSystems
  PROVE  TypeInv /\ IdInv /\ Listed /\ Complete /\ [Next]_vars => Complete'
  <1> SUFFICES ASSUME TypeInv, IdInv, Listed, Complete, [Next]_vars, NEW s \in Systems, NEW e \in Ids
               PROVE  CompleteAt(s, e)'
    BY DEF Complete
  <1>0. /\ members \in [Systems -> [Ids -> Nat]] /\ members[s][e] \in Nat
        /\ signatures \in [Ids -> SUBSET Signable]
        /\ entitiesToAdd \subseteq 1 .. numEntities /\ numEntities \in Nat /\ e \in Nat \ {0}
        /\ ListedAt(s, e) /\ CompleteAt(s, e)
    BY EntityAssumption DEF TypeInv, TypeOK, Ids, Listed, Complete
  <1> USE DEF CompleteAt, Registered, Matches
  <1>1. CASE CreateNew \/ CreateRecycled
    BY <1>0, <1>1, CreateStep
  <1>2. ASSUME NEW n \in Ids, DestroyEntity(n) PROVE CompleteAt(s, e)'
    BY <1>0, <1>2 DEF DestroyEntity, componentVars, systemVars
  <1>3. CASE Update
    <2>1. Holds(freeIds', e) <=> Holds(freeIds, e) \/ e \in entitiesToDestroy
      BY <1>3, FreeAfterUpdate
    <2>2. /\ entitiesToAdd' = {} /\ UNCHANGED <<numEntities, systems>>
          /\ signatures'[e] = IF e \in entitiesToDestroy THEN {} ELSE signatures[e]
          /\ members'[s][e] = IF e \in entitiesToDestroy /\ Matches(s, e) THEN 0
                              ELSE IF e \in entitiesToAdd /\ Matches(s, e) THEN members[s][e] + 1
                              ELSE members[s][e]
      BY <1>3 DEF Update, SignaturesAfterUpdate, MembersAfterUpdate
    <2>3. e \in entitiesToAdd => members[s][e] = 0
      BY <1>0 DEF ListedAt
    <2> QED
      BY <1>0, <2>1, <2>2, <2>3
  <1>4. ASSUME NEW n \in Ids, NEW c \in Components, AddComponent(n, c) \/ RemoveComponent(n, c)
        PROVE  CompleteAt(s, e)'
    <2>1. e # n => signatures'[e] = signatures[e]
      BY <1>0, <1>4 DEF AddComponent, RemoveComponent
    <2>2. n \in entitiesToAdd /\ UNCHANGED <<numEntities, freeIds, entitiesToAdd, systems, members>>
      BY <1>4 DEF AddComponent, RemoveComponent, entityVars, systemVars
    <2> QED
      BY <1>0, <2>1, <2>2
  <1>5. ASSUME NEW t \in Systems, AddSystem(t) PROVE CompleteAt(s, e)'
    <2>1. numEntities = 0 /\ numEntities' = numEntities
      BY <1>5 DEF AddSystem, entityVars
    <2> QED
      BY <1>0, <2>1
  <1>6. ASSUME NEW t \in Systems, RemoveSystem(t) PROVE CompleteAt(s, e)'
    <2>1. s # t => members'[s][e] = members[s][e]
      BY <1>0, <1>6 DEF RemoveSystem
    <2>2. s \in systems' <=> s \in systems /\ s # t
      BY <1>6 DEF RemoveSystem
    <2>3. UNCHANGED <<numEntities, freeIds, entitiesToAdd, signatures>>
      BY <1>6 DEF RemoveSystem, entityVars, componentVars
    <2> QED
      BY <1>0, <2>1, <2>2, <2>3
  <1>7. CASE UNCHANGED vars
    BY <1>0, <1>7 DEF vars, entityVars, componentVars, systemVars
  <1>8. ASSUME NEW n \in Ids, NEW c \in Components, HasComponent(n, c) \/ GetComponent(n, c)
        PROVE  CompleteAt(s, e)'
    BY <1>0, <1>8 DEF HasComponent, GetComponent, entityVars, systemVars
  <1> QED
    BY <1>1, <1>2, <1>3, <1>4, <1>5, <1>6, <1>7, <1>8 DEF Next

\* Without stale handles and late removals no system lists an entity that is
\* gone, that lacks what it requires, or twice.
THEOREM NoneLeftBehind ==
  ASSUME ~ StaleHandles, ~ LateRemovals
  PROVE  Spec => []NoStaleMembers
  <1>1. Listed => NoStaleMembers
    BY DEF Listed, ListedAt, NoStaleMembers, IsFree, Holds
  <1> QED
    BY InitTypeInv, NextTypeInv, InitIdInv, NextIdInv, InitListed, NextListed, <1>1, PTL DEF Spec

\* With no late call at all every system lists exactly the registered entities
\* that match it.
THEOREM ListsAreExact ==
  ASSUME ~ StaleHandles, ~ LateAdds, ~ LateRemovals, ~ LateSystems
  PROVE  Spec => []MembersExact
  <1>1. TypeInv /\ Listed /\ Complete => MembersExact
    <2> SUFFICES ASSUME TypeInv, Listed, Complete, NEW s \in systems, NEW e \in Ids
                 PROVE  members[s][e] =
                          IF Registered(e) /\ ~ IsFree(e) /\ Requires[s] \subseteq signatures[e]
                          THEN 1 ELSE 0
      BY DEF MembersExact
    <2>1. s \in Systems /\ members[s][e] \in Nat
      BY DEF TypeInv, TypeOK
    <2>2. ListedAt(s, e) /\ CompleteAt(s, e)
      BY <2>1 DEF Listed, Complete
    <2>3. members[s][e] = 0 \/ members[s][e] = 1
      BY <2>1, <2>2 DEF ListedAt
    <2> QED
      BY <2>2, <2>3 DEF ListedAt, CompleteAt, Matches, IsFree, Holds
  <1> QED
    BY InitTypeInv, NextTypeInv, InitIdInv, NextIdInv, InitListed, NextListed, NextComplete,
       <1>1, PTL DEF Spec
==============================================================================
