--------------------------------- MODULE Frame ---------------------------------
(***************************************************************************)
(* System_Manager: the systems a game adds and removes, which of them it   *)
(* updates and renders in a frame, in the order of an unordered_map, and   *)
(* what the movement and the collision system do in an update. Signatures  *)
(* and ids are module EntityManager's: here an entity is registered at     *)
(* most once, with components that suit the types in Suits.                *)
(***************************************************************************)
EXTENDS Collision, SequencesExt

CONSTANTS
  Types,         \* the classes of systems
  Updateable,    \* those with this flag
  Renderable,    \* those with this flag; Collision_System has it in debug builds
  Movement,      \* Movement_System
  Collider,      \* Collision_System
  Entities,
  Suits,         \* the types whose required components each entity has
  Body,          \* each entity's Box_Collider and scale
  Places,        \* the positions the game puts entities at
  Velocity,      \* Rigid_Body::velocity.x of each entity, which no system changes
  Horizon,       \* bound of the model: how far entities move
  MaxSystems     \* bound of the model: how many systems are made

ASSUME FrameAssumption ==
  /\ Updateable \subseteq Types /\ Renderable \subseteq Types
  /\ {Movement, Collider} \subseteq Updateable
  /\ Suits \in [Entities -> SUBSET Types]
  /\ Body \in [Entities -> [offset : Int, scale : Int, width : Int, height : Int]]
  /\ Places \subseteq Int /\ Velocity \in [Entities -> Int]
  /\ MaxSystems \in Nat

VARIABLES
  program,      \* "runs" or "crashed"
  systems,      \* m_systems: each type's system, by the order they were made in
  updates,      \* m_updateSystems
  renders,      \* m_renderSystems
  made,         \* how many systems were made
  list,         \* m_entities of each system
  registered,   \* the entities the manager has added and not removed
  position,     \* Transform::position.x; y is 0
  reported      \* the pairs the last update logged

managerVars == <<systems, updates, renders, made>>
bodyVars == <<position, reported>>
vars == <<program, managerVars, list, registered, bodyVars>>

None == 0

ManagerTypeOK ==
  /\ made \in 0 .. MaxSystems
  /\ {systems, updates, renders} \subseteq [Types -> 0 .. made]

Init ==
  /\ program = "runs"
  /\ systems = [t \in Types |-> None]
  /\ updates = [t \in Types |-> None]
  /\ renders = [t \in Types |-> None]
  /\ made = 0
  /\ list = [s \in 1 .. MaxSystems |-> <<>>]
  /\ registered = {}
  /\ position \in [Entities -> Places]
  /\ reported = {}

------------------------------------------------------------------------------
\* unordered_map::insert
Insert(map, type, system) == [map EXCEPT ![type] = IF @ = None THEN system ELSE @]

\* A second system of a type is made, and dropped by each of the maps.
AddSystem(type) ==
  /\ program = "runs"
  /\ made < MaxSystems
  /\ made' = made + 1
  /\ systems' = Insert(systems, type, made')
  /\ updates' = IF type \in Updateable THEN Insert(updates, type, made') ELSE updates
  /\ renders' = IF type \in Renderable THEN Insert(renders, type, made') ELSE renders
  /\ UNCHANGED <<program, list, registered, bodyVars>>

Erase(map, type) == [map EXCEPT ![type] = None]

\* A mutant of RemoveSystem: the map of what is updated is forgotten.
RemoveOnlySystem(type) ==
  /\ program = "runs"
  /\ systems[type] # None
  /\ systems' = Erase(systems, type)
  /\ renders' = IF type \in Renderable THEN Erase(renders, type) ELSE renders
  /\ UNCHANGED <<program, updates, made, list, registered, bodyVars>>

\* A type without a system makes find return end(), which is used all the same.
RemoveSystem(type) ==
  /\ program = "runs"
  /\ IF systems[type] = None
     THEN program' = "crashed" /\ UNCHANGED <<managerVars, list>>
     ELSE /\ systems' = Erase(systems, type)
          /\ updates' = IF type \in Updateable THEN Erase(updates, type) ELSE updates
          /\ renders' = IF type \in Renderable THEN Erase(renders, type) ELSE renders
          /\ list' = [list EXCEPT ![systems[type]] = <<>>]
          /\ UNCHANGED <<program, made>>
  /\ UNCHANGED <<registered, bodyVars>>

\* The systems, of those the manager has now, that an entity suits.
SuitedBy(e) == {systems[t] : t \in Suits[e]} \ {None}

\* erase(remove_if(...)): what is kept moves up to the place that counts it.
Without(entities, e) ==
  LET kept == {i \in DOMAIN entities : entities[i] # e}
      Rank(i) == Cardinality(kept \cap 1 .. i)
  IN [n \in 1 .. Cardinality(kept) |-> entities[CHOOSE i \in kept : Rank(i) = n]]

AddEntityToSystems(e) ==
  /\ program = "runs"
  /\ e \notin registered
  /\ registered' = registered \cup {e}
  /\ list' = [s \in DOMAIN list |-> IF s \in SuitedBy(e) THEN Append(list[s], e) ELSE list[s]]
  /\ UNCHANGED <<program, managerVars, bodyVars>>

RemoveEntityFromSystems(e) ==
  /\ program = "runs"
  /\ e \in registered
  /\ registered' = registered \ {e}
  /\ list' = [s \in DOMAIN list |-> IF s \in SuitedBy(e) THEN Without(list[s], e) ELSE list[s]]
  /\ UNCHANGED <<program, managerVars, bodyVars>>

------------------------------------------------------------------------------
\* The game writes to an entity's Transform.
Place(e, x) ==
  /\ program = "runs"
  /\ position' = [position EXCEPT ![e] = x]
  /\ UNCHANGED <<program, managerVars, list, registered, reported>>

\* Movement_System::update adds the velocity, whatever dt is.
Moved(s, where) ==
  [e \in Entities |-> IF \E i \in DOMAIN list[s] : list[s][i] = e THEN where[e] + Velocity[e] ELSE where[e]]

At(e, where) ==
  [x |-> where[e], y |-> 0, offset |-> Body[e].offset, scale |-> Body[e].scale,
   width |-> Body[e].width, height |-> Body[e].height]

\* Collision_System::update
PairsIn(s, where) ==
  {{list[s][p[1]], list[s][p[2]]} : p \in Collided([i \in DOMAIN list[s] |-> At(list[s][i], where)])}

\* The loop over m_updateSystems, in the order of an unordered_map: of the systems
\* only these two change anything here, so the collision system sees the places
\* from before the movement or those after it.
Update ==
  /\ program = "runs"
  /\ position' = IF updates[Movement] = None THEN position ELSE Moved(updates[Movement], position)
  /\ \A e \in Entities : position'[e] \in -Horizon .. Horizon
  /\ \E seen \in {position, position'} :
       reported' = IF updates[Collider] = None THEN {} ELSE PairsIn(updates[Collider], seen)
  /\ UNCHANGED <<program, managerVars, list, registered>>

Next ==
  \/ \E t \in Types : AddSystem(t) \/ RemoveSystem(t)
  \/ \E e \in Entities :
       \/ AddEntityToSystems(e) \/ RemoveEntityFromSystems(e)
       \/ \E x \in Places : Place(e, x)
  \/ Update

Spec == Init /\ [][Next]_vars

------------------------------------------------------------------------------
\* What is updated and rendered is the very system that entities are added to,
\* for each type by its flags, through every sequence of additions, second
\* additions and removals (system_manager.h:39-68, system_manager.cpp:5-44).
RunsWhatItFeeds ==
  \A t \in Types :
    /\ updates[t] = IF t \in Updateable THEN systems[t] ELSE None
    /\ renders[t] = IF t \in Renderable THEN systems[t] ELSE None

Touching(a, b, where) == checkAABBCollision(Rectangle(At(a, where)), Rectangle(At(b, where)))

\* Two entities that the collision system was given and that overlap both before
\* and after an update are reported by it, whichever of the movement and the
\* collision system the unordered_map puts first; no pair is reported that
\* overlaps neither before nor after (system_manager.cpp:27-31,
\* movement_system.cpp:14-22, collision_system.cpp:35-62).
ContactsReported ==
  [][Update =>
       LET s == systems[Collider]
           given == IF s = None THEN {} ELSE ToSet(list[s])
       IN /\ \A a, b \in given :
               a # b /\ Touching(a, b, position) /\ Touching(a, b, position') => {a, b} \in reported'
          /\ \A pair \in reported' : \E a, b \in given :
               /\ a # b /\ pair = {a, b}
               /\ Touching(a, b, position) \/ Touching(a, b, position')]_vars
==============================================================================
