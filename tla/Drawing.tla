-------------------------------- MODULE Drawing --------------------------------
(***************************************************************************)
(* What a frame of the game does with sprites: Render_System keeps its     *)
(* entities in the order of their layers and draws their textures, which   *)
(* the Asset_Manager owns (module Assets). Which entities a system lists   *)
(* is module EntityManager's; here each is listed at most once, as         *)
(* NoStaleMembers says.                                                    *)
(***************************************************************************)
EXTENDS Assets, Sequences, SequencesExt

CONSTANTS
  Entities,
  AssetOf,      \* Sprite::assetId of each entity
  Layers        \* the layers the game uses

ASSUME DrawingAssumption ==
  /\ AssetOf \in [Entities -> AssetIds]
  /\ Layers \subseteq Int

VARIABLES
  entities,    \* m_entities of the Render_System
  layer,       \* Sprite::layer
  relayered    \* a listed entity's layer was changed since the last sort

listVars == <<entities, layer, relayered>>
vars == <<program, handleVars, listVars>>

Init ==
  /\ AssetsInit
  /\ entities = <<>>
  /\ layer \in [Entities -> Layers]
  /\ relayered = FALSE

Listed == {entities[i] : i \in DOMAIN entities}

InLayerOrder(s) == \A i, j \in DOMAIN s : i < j => layer[s[i]] <= layer[s[j]]

\* A mutant of PostAddEntity: the list is not sorted.
LeaveUnsorted(s) == {s}

\* std::sort by layer leaves open in which order equal layers come.
PostAddEntity(s) ==
  {t \in [DOMAIN s -> {s[i] : i \in DOMAIN s}] :
     InLayerOrder(t) /\ \A i, j \in DOMAIN s : i # j => t[i] # t[j]}

AddEntity(e) ==
  /\ program = "runs"
  /\ e \notin Listed
  /\ entities' \in PostAddEntity(Append(entities, e))
  /\ relayered' = FALSE
  /\ UNCHANGED <<program, handleVars, layer>>

\* System::removeEntity, of an entity that is listed once; the others keep their order.
RemoveEntity(e) ==
  /\ program = "runs"
  /\ \E i \in DOMAIN entities : entities[i] = e /\ entities' = RemoveAt(entities, i)
  /\ UNCHANGED <<program, handleVars, layer, relayered>>

\* The game writes to a sprite; nothing sorts.
SetLayer(e, l) ==
  /\ program = "runs"
  /\ layer' = [layer EXCEPT ![e] = l]
  /\ relayered' = (relayered \/ (e \in Listed /\ l # layer[e]))
  /\ UNCHANGED <<program, handleVars, entities>>

\* Asset_Manager::getTexture: at() throws for an id that is no key.
TextureMissing(e) == textures[AssetOf[e]] = Absent

\* Render_System::render needs a texture for each entity.
\* When all are, it changes none of this.
Render ==
  /\ program = "runs"
  /\ \E e \in Listed : TextureMissing(e)
  /\ program' = "crashed"
  /\ UNCHANGED <<handleVars, listVars>>

Next ==
  \/ AssetsNext /\ UNCHANGED listVars
  \/ \E e \in Entities :
       AddEntity(e) \/ RemoveEntity(e) \/ (\E l \in Layers : SetLayer(e, l))
  \/ Render

Spec == Init /\ [][Next]_vars

------------------------------------------------------------------------------
\* What render draws is in the order of the layers, unless a layer was changed
\* since an entity came last; removing entities does not disturb it
\* (render_system.cpp:44-53, system.cpp:10-21).
DrawnInLayerOrder == relayered \/ InLayerOrder(entities)
==============================================================================
