-------------------------------- MODULE Assets --------------------------------
(***************************************************************************)
(* The two owners of SDL handles: assets::Asset_Manager with its textures  *)
(* and a graphics::Font. A handle is a number, each made once; nothing but *)
(* the owner's code destroys it.                                           *)
(***************************************************************************)
EXTENDS Integers, FiniteSets

CONSTANTS
  AssetIds,    \* the asset ids the game uses
  MaxHandles   \* bound of the model: textures and fonts that are made

ASSUME AssetsAssumption == MaxHandles \in Nat \ {0}

VARIABLES
  program,    \* "runs", "crashed" or, after the destructors, "done"
  textures,   \* m_textures, Absent for an id that is not a key
  font,       \* m_internal of the font
  made,       \* how many handles were made
  alive,      \* those that are not destroyed
  reloads     \* handles whose load found the place taken

handleVars == <<textures, font, made, alive, reloads>>

Absent == -1
Null == 0

Handles == 1 .. MaxHandles

AssetsTypeOK ==
  /\ program \in {"runs", "crashed", "done"}
  /\ textures \in [AssetIds -> Handles \cup {Null, Absent}]
  /\ font \in Handles \cup {Null}
  /\ made \in 0 .. MaxHandles
  /\ alive \subseteq 1 .. made
  /\ reloads \in 0 .. made

AssetsInit ==
  /\ program = "runs"
  /\ textures = [a \in AssetIds |-> Absent]
  /\ font = Null
  /\ made = 0
  /\ alive = {}
  /\ reloads = 0

\* The next handle, if the model has one left.
Fresh == IF made < MaxHandles THEN {made + 1} ELSE {}

\* unordered_map::emplace: an id that is a key keeps its texture, a null one too.
Emplace(a, h) == textures' = [textures EXCEPT ![a] = IF @ = Absent THEN h ELSE @]

\* loadTexture. SDL_CreateTextureFromSurface may return null, which is stored.
LoadTexture(a) ==
  /\ program = "runs"
  /\ \E h \in Fresh \cup {Null} :
       /\ Emplace(a, h)
       /\ made' = IF h = Null THEN made ELSE h
       /\ alive' = IF h = Null THEN alive ELSE alive \cup {h}
       /\ reloads' = IF h # Null /\ textures[a] # Absent THEN reloads + 1 ELSE reloads
  /\ UNCHANGED <<program, font>>

\* loadTexture of a file that is not there: the surface is null and the log
\* reads its size.
LoadMissingFile ==
  /\ program = "runs"
  /\ program' = "crashed"
  /\ UNCHANGED handleVars

\* A mutant of UnloadTexture: the entry is not erased.
UnloadKeepsEntry(a) ==
  /\ program = "runs"
  /\ alive' = alive \ {textures[a]}
  /\ UNCHANGED <<program, textures, font, made, reloads>>

\* unloadTexture. For an id that is no key, [] puts a null one in, which SDL
\* does not mind, and erase takes it out.
UnloadTexture(a) ==
  /\ program = "runs"
  /\ alive' = alive \ {textures[a]}
  /\ textures' = [textures EXCEPT ![a] = Absent]
  /\ UNCHANGED <<program, font, made, reloads>>

AllTextures == {textures[a] : a \in AssetIds}

Clear ==
  /\ program = "runs"
  /\ alive' = alive \ AllTextures
  /\ textures' = [a \in AssetIds |-> Absent]
  /\ UNCHANGED <<program, font, made, reloads>>

\* Font::load does not free the font that is there.
LoadFont ==
  /\ program = "runs"
  /\ \E h \in Fresh :
       /\ font' = h
       /\ made' = h
       /\ alive' = alive \cup {h}
  /\ reloads' = IF font # Null THEN reloads + 1 ELSE reloads
  /\ UNCHANGED <<program, textures>>

\* A mutant of SetSize: the old font is not freed.
SetSizeKeepsFont ==
  /\ program = "runs"
  /\ \E h \in Fresh :
       /\ font' = h
       /\ made' = h
       /\ alive' = alive \cup {h}
  /\ UNCHANGED <<program, textures, reloads>>

\* Font::setSize makes the font anew; before any load there is none to free.
SetSize ==
  /\ program = "runs"
  /\ \E h \in Fresh :
       /\ font' = h
       /\ made' = h
       /\ alive' = (alive \ {font}) \cup {h}
  /\ UNCHANGED <<program, textures, reloads>>

\* The two destructors.
Quit ==
  /\ program = "runs"
  /\ program' = "done"
  /\ alive' = alive \ (AllTextures \cup {font})
  /\ textures' = [a \in AssetIds |-> Absent]
  /\ font' = Null
  /\ UNCHANGED <<made, reloads>>

AssetsNext ==
  \/ \E a \in AssetIds : LoadTexture(a) \/ UnloadTexture(a)
  \/ LoadMissingFile \/ Clear \/ LoadFont \/ SetSize \/ Quit

------------------------------------------------------------------------------
Owned == (AllTextures \cup {font}) \ {Null, Absent}

\* Whatever is loaded, loaded again, unloaded and resized, nobody holds a
\* handle that is destroyed, and none has two owners who would both destroy it
\* (asset_manager.cpp:14-44, font.cpp:16-42).
HandlesOwnedOnce ==
  /\ Owned \subseteq alive
  /\ \A a \in AssetIds : textures[a] \in Handles =>
       /\ textures[a] # font
       /\ \A b \in AssetIds \ {a} : textures[b] # textures[a]

\* A handle without an owner, which is never destroyed, comes from a load that
\* found its place taken, and from nothing else; so it is after the destructors
\* too (asset_manager.cpp:22, font.cpp:27).
OnlyReloadsLeak == Cardinality(alive \ Owned) = reloads
==============================================================================
