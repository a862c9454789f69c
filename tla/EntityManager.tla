---------------------------- MODULE EntityManager ----------------------------
(***************************************************************************)
(* ecs::entity::Entity_Manager and the ecs::system::System_Manager it      *)
(* feeds, as one game thread calls them between two frames.                *)
(*                                                                         *)
(* An entity is only a number. It is handed out at once by createEntity,   *)
(* but systems learn of it, and its number is free again after             *)
(* destroyEntity, only in the next update(). Component types are their     *)
(* ids; a component's value does not matter here, only whether its slot in *)
(* the pool exists. A system's list m_entities is kept as how often each   *)
(* entity is in it; the order it is drawn in is left out.                  *)
(*                                                                         *)
(* Nothing checks the calls the game makes. The constants StaleHandles,    *)
(* LateAdds, LateRemovals, LateSystems and BlindReads say which it allows  *)
(* itself. A call that indexes past the end of a vector is undefined       *)
(* behaviour: outside notes it, and the game goes no further.              *)
(***************************************************************************)
EXTENDS Integers, Sequences, FiniteSets

CONSTANTS
  Components,     \* ids of the component types
  MaxComponents,  \* MAX_COMPONENTS, the width of a signature
  PoolSize,       \* initial size of a Pool
  Systems,        \* the system types
  Requires,       \* the signature of each
  MaxEntities,    \* bound of the model: ids that exist
  MaxFree,        \* bound of the model: no update makes m_freeIds longer
  MaxCopies,      \* bound of the model: an entity's copies in a system
  StaleHandles,   \* a handle may be used after destroyEntity
  LateAdds,       \* addComponent may come after the entity was registered
  LateRemovals,   \* and so may removeComponent
  LateSystems,    \* addSystem may come after entities were created
  BlindReads      \* getComponent may ask for a component the entity lacks

Ids == 1 .. MaxEntities

\* The component types that fit into a signature.
Signable == {c \in Components : c < MaxComponents}

ASSUME EntityAssumption ==
  /\ Components \subseteq Nat
  /\ MaxComponents \in Nat
  /\ PoolSize \in Nat \ {0}
  /\ Requires \in [Systems -> SUBSET Signable]
  /\ MaxEntities \in Nat
  /\ MaxFree \in Nat
  /\ MaxCopies \in Nat
  /\ StaleHandles \in BOOLEAN /\ LateAdds \in BOOLEAN
  /\ LateRemovals \in BOOLEAN /\ LateSystems \in BOOLEAN
  /\ BlindReads \in BOOLEAN

VARIABLES
  numEntities,        \* m_numEntities
  freeIds,            \* m_freeIds
  entitiesToAdd,      \* m_entitiesToAdd
  entitiesToDestroy,  \* m_entitiesToDestroy
  signatureCount,     \* m_entitySignatures.size()
  signatures,         \* m_entitySignatures, {} beyond its size
  poolSizes,          \* size of each pool of m_componentPools, 0 if there is none
  outside,            \* the call that indexed past the end of a vector
  systems,            \* the types in m_systems
  members,            \* how often an entity is in a system's m_entities
  owners              \* how many entities created with an id were not destroyed

entityVars == <<numEntities, freeIds, entitiesToAdd, entitiesToDestroy, owners>>
componentVars == <<signatureCount, signatures, poolSizes, outside>>
systemVars == <<systems, members>>
vars == <<entityVars, componentVars, systemVars>>

Accesses == [call : {"addComponent", "removeComponent", "hasComponent", "getComponent"},
             entity : Ids, component : Components]

TypeOK ==
  /\ numEntities \in 0 .. MaxEntities
  /\ freeIds \in Seq(1 .. numEntities)
  /\ entitiesToAdd \subseteq 1 .. numEntities
  /\ entitiesToDestroy \subseteq 1 .. numEntities
  /\ signatureCount \in Nat
  /\ signatures \in [Ids -> SUBSET Signable]
  /\ poolSizes \in [Components -> Nat]
  /\ outside \subseteq Accesses
  /\ systems \subseteq Systems
  /\ members \in [Systems -> [Ids -> Nat]]
  /\ owners \in [Ids -> Nat]

NoMember == [e \in Ids |-> 0]

Init ==
  /\ numEntities = 0
  /\ freeIds = <<>>
  /\ entitiesToAdd = {}
  /\ entitiesToDestroy = {}
  /\ signatureCount = 0
  /\ signatures = [e \in Ids |-> {}]
  /\ poolSizes = [c \in Components |-> 0]
  /\ outside = {}
  /\ systems = {}
  /\ members = [s \in Systems |-> NoMember]
  /\ owners = [e \in Ids |-> 0]

------------------------------------------------------------------------------
\* The calls the game allows itself

MayUse(e) == IF StaleHandles THEN e <= numEntities ELSE owners[e] > 0

Registered(e) == e <= numEntities /\ e \notin entitiesToAdd

------------------------------------------------------------------------------
\* Entities

HandOut(e) ==
  /\ entitiesToAdd' = entitiesToAdd \cup {e}
  /\ owners' = [owners EXCEPT ![e] = @ + 1]
  /\ UNCHANGED <<entitiesToDestroy, signatures, poolSizes, outside, systemVars>>

\* createEntity when no id is free: the signatures grow with the ids.
CreateNew ==
  /\ freeIds = <<>>
  /\ numEntities < MaxEntities
  /\ numEntities' = numEntities + 1
  /\ signatureCount' = IF numEntities' >= signatureCount THEN 1 + numEntities' ELSE signatureCount
  /\ HandOut(numEntities')
  /\ UNCHANGED freeIds

\* A mutant of CreateRecycled: the id stays in m_freeIds.
CreateKeepsFree ==
  /\ freeIds # <<>>
  /\ HandOut(Head(freeIds))
  /\ UNCHANGED <<freeIds, numEntities, signatureCount>>

\* createEntity from m_freeIds, oldest first.
CreateRecycled ==
  /\ freeIds # <<>>
  /\ freeIds' = Tail(freeIds)
  /\ HandOut(Head(freeIds))
  /\ UNCHANGED <<numEntities, signatureCount>>

\* destroyEntity only takes note. An entity that was never handed out again
\* has no owner to lose.
DestroyEntity(e) ==
  /\ MayUse(e)
  /\ entitiesToDestroy' = entitiesToDestroy \cup {e}
  /\ owners' = [owners EXCEPT ![e] = IF @ > 0 THEN @ - 1 ELSE 0]
  /\ UNCHANGED <<numEntities, freeIds, entitiesToAdd, componentVars, systemVars>>

\* The ids of a std::set in the order an iteration meets them.
Ascending(S) ==
  {f \in [1 .. Cardinality(S) -> S] :
     /\ \A i, j \in 1 .. Cardinality(S) : i < j => f[i] < f[j]
     /\ \A e \in S : \E i \in 1 .. Cardinality(S) : f[i] = e}

\* System_Manager: (signature & systemSignature) == systemSignature.
Matches(s, e) == s \in systems /\ Requires[s] \subseteq signatures[e]

\* A mutant of MembersAfterUpdate: the destroyed ones go before the new come.
MembersDestroyedFirst ==
  [s \in Systems |-> [e \in Ids |->
    IF e \in entitiesToAdd /\ Matches(s, e) THEN members[s][e] + 1
    ELSE IF e \in entitiesToDestroy /\ Matches(s, e) THEN 0
    ELSE members[s][e]]]

\* First every new entity enters the systems it matches, then every destroyed
\* one leaves those it matches, with all its copies.
MembersAfterUpdate ==
  [s \in Systems |-> [e \in Ids |->
    IF e \in entitiesToDestroy /\ Matches(s, e) THEN 0
    ELSE IF e \in entitiesToAdd /\ Matches(s, e) THEN members[s][e] + 1
    ELSE members[s][e]]]

\* A mutant of SignaturesAfterUpdate: the reset is forgotten.
SignaturesKept == signatures

SignaturesAfterUpdate ==
  [e \in Ids |-> IF e \in entitiesToDestroy THEN {} ELSE signatures[e]]

Update ==
  /\ Len(freeIds) + Cardinality(entitiesToDestroy) <= MaxFree
  /\ \A s \in Systems, e \in Ids : members[s][e] <= MaxCopies
  /\ members' = MembersAfterUpdate
  /\ signatures' = SignaturesAfterUpdate
  /\ \E freed \in Ascending(entitiesToDestroy) : freeIds' = freeIds \o freed
  /\ entitiesToAdd' = {}
  /\ entitiesToDestroy' = {}
  /\ UNCHANGED <<numEntities, signatureCount, poolSizes, outside, systems, owners>>

------------------------------------------------------------------------------
\* Components

\* A mutant of Grown: the test lets an entity through that is just outside.
GrownTooLate(c, e) ==
  LET size == IF poolSizes[c] = 0 THEN PoolSize ELSE poolSizes[c]
  IN IF e > size THEN numEntities * 2 ELSE size

\* A mutant of Grown: no room is made for the ids to come.
GrownToFit(c, e) ==
  LET size == IF poolSizes[c] = 0 THEN PoolSize ELSE poolSizes[c]
  IN IF e >= size THEN e + 1 ELSE size

\* A mutant of Grown: resized to what e needs, whatever is there.
GrownExactly(c, e) == e + 1

\* The pool of c, made if there is none and resized if e has no slot in it.
Grown(c, e) ==
  LET size == IF poolSizes[c] = 0 THEN PoolSize ELSE poolSizes[c]
  IN IF e >= size THEN numEntities * 2 ELSE size

\* A call's vector accesses are within bounds, or it is the last one.
Access(call, e, c, inBounds) ==
  outside' = IF inBounds THEN outside
             ELSE {[call |-> call, entity |-> e, component |-> c]}

\* A component type that does not fit into a signature makes bitset::set throw
\* when the pool has already been changed.
AddComponent(e, c) ==
  /\ MayUse(e)
  /\ LateAdds \/ e \in entitiesToAdd
  /\ poolSizes' = [poolSizes EXCEPT ![c] = Grown(c, e)]
  /\ signatures' = [signatures EXCEPT ![e] = @ \cup ({c} \cap Signable)]
  /\ Access("addComponent", e, c, e < poolSizes'[c] /\ e < signatureCount)
  /\ UNCHANGED <<entityVars, signatureCount, systemVars>>

\* The component stays in its pool.
RemoveComponent(e, c) ==
  /\ MayUse(e)
  /\ LateRemovals \/ e \in entitiesToAdd
  /\ signatures' = [signatures EXCEPT ![e] = @ \ {c}]
  /\ Access("removeComponent", e, c, e < signatureCount)
  /\ UNCHANGED <<entityVars, signatureCount, poolSizes, systemVars>>

\* hasComponent looks at the signature only ...
HasComponent(e, c) ==
  /\ MayUse(e)
  /\ Access("hasComponent", e, c, e < signatureCount)
  /\ UNCHANGED <<entityVars, signatureCount, signatures, poolSizes, systemVars>>

\* ... and getComponent at the pool only: of an entity that lacks the component
\* it returns an old or an unset one, or reads past the end of a pool that is
\* too short or not there.
GetComponent(e, c) ==
  /\ MayUse(e)
  /\ BlindReads \/ c \in signatures[e]
  /\ Access("getComponent", e, c, e < poolSizes[c])
  /\ UNCHANGED <<entityVars, signatureCount, signatures, poolSizes, systemVars>>

------------------------------------------------------------------------------
\* Systems

\* addSystem: a system of a type that is already there is thrown away.
AddSystem(s) ==
  /\ LateSystems \/ numEntities = 0
  /\ systems' = systems \cup {s}
  /\ UNCHANGED <<entityVars, componentVars, members>>

\* removeSystem, of a system that is there.
RemoveSystem(s) ==
  /\ s \in systems
  /\ systems' = systems \ {s}
  /\ members' = [members EXCEPT ![s] = NoMember]
  /\ UNCHANGED <<entityVars, componentVars>>

------------------------------------------------------------------------------
Next ==
  /\ outside = {}
  /\ \/ CreateNew \/ CreateRecycled \/ Update
     \/ \E e \in Ids : DestroyEntity(e)
     \/ \E e \in Ids, c \in Components :
          \/ AddComponent(e, c) \/ RemoveComponent(e, c)
          \/ HasComponent(e, c) \/ GetComponent(e, c)
     \/ \E s \in Systems : AddSystem(s) \/ RemoveSystem(s)

Spec == Init /\ [][Next]_vars

------------------------------------------------------------------------------
\* Properties

IsFree(e) == \E i \in DOMAIN freeIds : freeIds[i] = e

\* No id is ever shared, lost or freed twice (entity_manager.cpp:15-60): each
\* id in use is in exactly one of three places - owned by one entity, waiting
\* to be destroyed, or in m_freeIds, once - as long as no handle is used after
\* its entity was destroyed.
IdsAccounted ==
  ~ StaleHandles =>
    /\ \A e \in Ids :
         /\ owners[e] <= 1
         /\ e <= numEntities => owners[e] = 1 \/ e \in entitiesToDestroy \/ IsFree(e)
         /\ ~ (owners[e] = 1 /\ (e \in entitiesToDestroy \/ IsFree(e)))
         /\ ~ (e \in entitiesToDestroy /\ IsFree(e))
    /\ \A i, j \in DOMAIN freeIds : freeIds[i] = freeIds[j] => i = j

\* A recycled entity begins with no component of the entity that had the id
\* before (entity_manager.cpp:25-28,56).
FreeIdsAreBare ==
  ~ StaleHandles => \A e \in Ids : IsFree(e) \/ e > numEntities => signatures[e] = {}

\* What a system works on (system_manager.cpp:5-25): when signatures change only
\* before registration and systems come first, exactly the registered
\* entities that have what it requires, each once.
MembersExact ==
  ~ (StaleHandles \/ LateAdds \/ LateRemovals \/ LateSystems) =>
    \A s \in systems, e \in Ids :
      members[s][e] =
        IF Registered(e) /\ ~ IsFree(e) /\ Requires[s] \subseteq signatures[e] THEN 1 ELSE 0

\* Components or systems that come late make a system miss entities, but never
\* keep one that is gone, nor hold it twice: only removeComponent after
\* registration (entity_manager.h:88-92) can leave one behind.
NoStaleMembers ==
  ~ (StaleHandles \/ LateRemovals) =>
    \A s \in Systems, e \in Ids :
      /\ members[s][e] <= 1
      /\ members[s][e] = 1 => Registered(e) /\ ~ IsFree(e) /\ Matches(s, e)

\* Of all the unchecked accesses of entity_manager.h:61-107 and pool.h:25-35, by
\* an entity that was handed out at any time, destroyed or not, the one that can
\* be past the end of its vector is getComponent's, for a component the entity
\* does not have: addComponent, removeComponent, hasComponent and the getComponent
\* of a component that hasComponent shows are always within bounds.
StorageBounds ==
  \A access \in outside :
    /\ access.call = "getComponent"
    /\ access.component \notin signatures[access.entity]

\* Even an entity a system should have lost has a slot in the pool of every
\* component that system reads (render_system.cpp:20-22,44-53).
MembersHaveStorage ==
  \A s \in systems, e \in Ids :
    members[s][e] > 0 => \A c \in Requires[s] : e < poolSizes[c]

\* A reference from getComponent dangles when its pool moves (entity_manager.h:
\* 76-78,105-106). A pool moves only for an id past its end and at least doubles
\* then: it never moves while it has room for all entities, nor more often than
\* the logarithm of their number.
PoolsDouble ==
  [][\A c \in Components :
       poolSizes[c] # 0 /\ poolSizes'[c] # poolSizes[c] =>
         /\ numEntities >= poolSizes[c]
         /\ poolSizes'[c] >= 2 * poolSizes[c]]_vars
==============================================================================
