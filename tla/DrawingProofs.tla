----------------------------- MODULE DrawingProofs -----------------------------
(***************************************************************************)
(* What holds of the handles in Assets and the list in Drawing, for any    *)
(* ids, entities, layers and number of handles.                            *)
(***************************************************************************)
EXTENDS Drawing, FiniteSetTheorems, SequenceTheorems, TLAPS

\* The handles nobody will destroy.
Leaked == alive \ Owned

AssetsInv == AssetsTypeOK /\ HandlesOwnedOnce /\ OnlyReloadsLeak

\* Handles are never made twice: what is made next is not alive, nor owned.
LEMMA FreshIsNew ==
  ASSUME AssetsInv, NEW h \in Fresh
  PROVE  h = made + 1 /\ h \in Handles /\ h \notin alive /\ h \notin Owned
<1>1. made \in Nat /\ made < MaxHandles /\ h = made + 1
  BY AssetsAssumption DEF AssetsInv, AssetsTypeOK, Fresh
<1>2. h \in Handles
  BY <1>1, AssetsAssumption DEF Handles
<1>3. h \notin alive
  BY <1>1 DEF AssetsInv, AssetsTypeOK
<1> QED BY <1>1, <1>2, <1>3 DEF AssetsInv, HandlesOwnedOnce

\* What is owned, before a step and after it, is a texture of some id, or the font.
LEMMA OwnedIs ==
  ASSUME AssetsTypeOK
  PROVE  \A h : h \in Owned <=> h \in Handles /\ (h = font \/ \E a \in AssetIds : textures[a] = h)
  BY AssetsAssumption DEF AssetsTypeOK, Owned, AllTextures, Handles, Null, Absent

LEMMA OwnedWillBe ==
  ASSUME AssetsTypeOK'
  PROVE  \A h : h \in Owned' <=> h \in Handles /\ (h = font' \/ \E a \in AssetIds : textures'[a] = h)
  BY AssetsAssumption DEF AssetsTypeOK, Owned, AllTextures, Handles, Null, Absent

LEMMA LeakedFinite ==
  ASSUME AssetsTypeOK
  PROVE  IsFiniteSet(Leaked) /\ Cardinality(Leaked) \in Nat
<1>1. IsFiniteSet(1 .. made)
  BY AssetsAssumption, FS_Interval DEF AssetsTypeOK
<1>2. Leaked \in SUBSET (1 .. made)
  BY DEF AssetsTypeOK, Leaked
<1> QED BY <1>1, <1>2, FS_Subset, FS_CardinalityType

\* The two things a step can do to what is leaked.
LEMMA LeaksStay ==
  ASSUME AssetsInv, Leaked' = Leaked, reloads' = reloads
  PROVE  OnlyReloadsLeak'
  BY DEF AssetsInv, OnlyReloadsLeak, Leaked

LEMMA OneMoreLeaks ==
  ASSUME AssetsInv, NEW h, h \notin Leaked, Leaked' = Leaked \cup {h}, reloads' = reloads + 1
  PROVE  OnlyReloadsLeak'
<1>1. IsFiniteSet(Leaked) /\ Cardinality(Leaked) = reloads
  BY LeakedFinite DEF AssetsInv, OnlyReloadsLeak, Leaked
<1>2. Cardinality(Leaked \cup {h}) = reloads + 1
  BY <1>1, FS_AddElement
<1> QED BY <1>2 DEF OnlyReloadsLeak, Leaked

------------------------------------------------------------------------------
LEMMA InitAssets == AssetsInit => AssetsInv
<1> SUFFICES ASSUME AssetsInit PROVE AssetsInv
  OBVIOUS
<1>1. AssetsTypeOK
  BY AssetsAssumption DEF AssetsInit, AssetsTypeOK, Handles, Null, Absent
<1>2. Owned = {} /\ Cardinality({}) = 0
  BY FS_EmptySet DEF AssetsInit, Owned, AllTextures
<1> QED BY <1>1, <1>2 DEF AssetsInit, AssetsInv, HandlesOwnedOnce, OnlyReloadsLeak, Absent, Handles

\* A load into a free place: the new handle is owned and alive.
LEMMA LoadTextureAssets ==
  ASSUME AssetsInv, NEW a \in AssetIds, LoadTexture(a)
  PROVE  AssetsInv'
<1>1. PICK h \in Fresh \cup {Null} :
        /\ Emplace(a, h)
        /\ made' = IF h = Null THEN made ELSE h
        /\ alive' = IF h = Null THEN alive ELSE alive \cup {h}
        /\ reloads' = IF h # Null /\ textures[a] # Absent THEN reloads + 1 ELSE reloads
  BY DEF LoadTexture
<1>2. program' = program /\ font' = font
  BY DEF LoadTexture
<1>3. /\ AssetsTypeOK /\ HandlesOwnedOnce /\ made \in Nat /\ reloads \in Nat
      /\ Null \notin Handles /\ Absent \notin Handles /\ Null # Absent
      /\ textures \in [AssetIds -> Handles \cup {Null, Absent}]
  BY AssetsAssumption DEF AssetsInv, AssetsTypeOK, Null, Absent, Handles
<1>4. h \in Handles \cup {Null}
  BY <1>1, FreshIsNew
<1>5. textures' = [textures EXCEPT ![a] = IF textures[a] = Absent THEN h ELSE textures[a]]
  BY <1>1 DEF Emplace
<1>6. textures' \in [AssetIds -> Handles \cup {Null, Absent}]
  BY <1>3, <1>4, <1>5
<1>7. AssetsTypeOK'
  <2>1. CASE h = Null
    BY <1>1, <1>2, <1>3, <1>6, <2>1 DEF AssetsTypeOK
  <2>2. CASE h # Null
    <3>1. h = made + 1 /\ h <= MaxHandles
      BY <1>1, <2>2, FreshIsNew, AssetsAssumption DEF Handles
    <3> QED BY <1>1, <1>2, <1>3, <1>6, <2>2, <3>1 DEF AssetsTypeOK
  <2> QED BY <2>1, <2>2
<1>8. CASE h = Null \/ textures[a] # Absent
  <2>1. \A b \in AssetIds, k \in Handles : textures'[b] = k <=> textures[b] = k
    BY <1>3, <1>5, <1>8
  <2>2. Owned' = Owned
    BY <1>2, <1>3, <1>7, <2>1, OwnedIs, OwnedWillBe
  <2>3. HandlesOwnedOnce'
    BY <1>1, <1>2, <1>3, <1>6, <2>1, <2>2 DEF HandlesOwnedOnce
  <2>4. CASE h = Null
    BY <1>1, <2>2, <2>4, LeaksStay, <1>7, <2>3 DEF Leaked, AssetsInv
  <2>5. CASE h # Null
    <3>1. h \notin alive /\ h \notin Owned
      BY <1>1, <2>5, FreshIsNew
    <3>2. Leaked' = Leaked \cup {h} /\ reloads' = reloads + 1 /\ h \notin Leaked
      BY <1>1, <1>8, <2>2, <2>5, <3>1 DEF Leaked
    <3> QED BY <1>7, <2>3, <3>2, OneMoreLeaks DEF AssetsInv
  <2> QED BY <2>4, <2>5
<1>9. CASE h # Null /\ textures[a] = Absent
  <2>1. h \in Handles /\ h \notin alive /\ h \notin Owned
    BY <1>1, <1>9, FreshIsNew
  <2>2. \A b \in AssetIds, k \in Handles \ {h} : textures'[b] = k <=> textures[b] = k
    BY <1>3, <1>5, <1>9
  <2>3. \A b \in AssetIds : textures'[b] = h <=> b = a
    BY <1>3, <1>5, <1>9, <2>1, OwnedIs
  <2>4. Owned' = Owned \cup {h}
    BY <1>2, <1>3, <1>7, <2>1, <2>2, <2>3, OwnedIs, OwnedWillBe
  <2>5. HandlesOwnedOnce'
    <3>1. Owned' \subseteq alive'
      BY <1>1, <1>3, <1>9, <2>4 DEF HandlesOwnedOnce
    <3>2. font # h
      BY <1>3, <2>1, OwnedIs
    <3> QED BY <1>2, <1>3, <1>6, <2>2, <2>3, <3>1, <3>2 DEF HandlesOwnedOnce
  <2>6. Leaked' = Leaked /\ reloads' = reloads
    BY <1>1, <1>9, <2>1, <2>4 DEF Leaked
  <2> QED BY <1>7, <2>5, <2>6, LeaksStay DEF AssetsInv
<1> QED BY <1>8, <1>9

\* Handles that are destroyed lose their owners with it.
LEMMA FewerOwned ==
  ASSUME AssetsInv, AssetsTypeOK', NEW gone,
         alive' = alive \ gone, Owned' = Owned \ gone, reloads' = reloads,
         gone \cap Handles \subseteq Owned,
         \A a \in AssetIds : textures'[a] \in Handles => textures'[a] = textures[a] /\ textures'[a] \notin gone,
         font' \in {font, Null}
  PROVE  AssetsInv'
<1>1. AssetsTypeOK /\ HandlesOwnedOnce /\ Null \notin Handles
  BY AssetsAssumption DEF AssetsInv, Null, Handles
<1>2. HandlesOwnedOnce'
  BY <1>1 DEF HandlesOwnedOnce
<1>3. alive \subseteq Handles
  BY <1>1, AssetsAssumption DEF AssetsTypeOK, Handles
<1>4. Leaked' = Leaked
  BY <1>3 DEF Leaked
<1> QED BY <1>2, <1>4, LeaksStay DEF AssetsInv

LEMMA UnloadTextureAssets ==
  ASSUME AssetsInv, NEW a \in AssetIds, UnloadTexture(a)
  PROVE  AssetsInv'
<1> DEFINE gone == {textures[a]}
<1>1. /\ alive' = alive \ gone /\ textures' = [textures EXCEPT ![a] = Absent]
      /\ font' = font /\ reloads' = reloads /\ made' = made /\ program' = program
  BY DEF UnloadTexture
<1>2. /\ AssetsTypeOK /\ HandlesOwnedOnce /\ Absent \notin Handles /\ Null \notin Handles
      /\ textures \in [AssetIds -> Handles \cup {Null, Absent}]
  BY AssetsAssumption DEF AssetsInv, AssetsTypeOK, Null, Absent, Handles
<1>3. AssetsTypeOK'
  BY <1>1, <1>2 DEF AssetsTypeOK
<1>4. Owned' = Owned \ gone
  <2>1. ASSUME textures[a] \in Handles, NEW k \in Handles
        PROVE  (k = font \/ \E b \in AssetIds : textures'[b] = k)
                 <=> k # textures[a] /\ (k = font \/ \E b \in AssetIds : textures[b] = k)
    BY <1>1, <1>2, <2>1 DEF HandlesOwnedOnce
  <2>2. ASSUME textures[a] \notin Handles, NEW k \in Handles
        PROVE  (\E b \in AssetIds : textures'[b] = k) <=> \E b \in AssetIds : textures[b] = k
    BY <1>1, <1>2, <2>2
  <2> QED BY <1>1, <1>2, <1>3, <2>1, <2>2, OwnedIs, OwnedWillBe
<1>5. \A b \in AssetIds : textures'[b] \in Handles => textures'[b] = textures[b] /\ textures'[b] \notin gone
  BY <1>1, <1>2 DEF HandlesOwnedOnce
<1>6. gone \cap Handles \subseteq Owned
  BY <1>2, OwnedIs
<1> HIDE DEF gone
<1> QED BY <1>1, <1>3, <1>4, <1>5, <1>6, FewerOwned

LEMMA ClearAssets ==
  ASSUME AssetsInv, Clear
  PROVE  AssetsInv'
<1>1. /\ alive' = alive \ AllTextures /\ textures' = [a \in AssetIds |-> Absent]
      /\ font' = font /\ reloads' = reloads /\ made' = made /\ program' = program
  BY DEF Clear
<1>2. /\ AssetsTypeOK /\ HandlesOwnedOnce /\ Absent \notin Handles /\ Null \notin Handles
  BY AssetsAssumption DEF AssetsInv, AssetsTypeOK, Null, Absent, Handles
<1>3. AssetsTypeOK'
  BY <1>1, <1>2 DEF AssetsTypeOK
<1>4. Owned' = Owned \ AllTextures
  <2>1. font \in Handles => font \notin AllTextures
    BY <1>2 DEF HandlesOwnedOnce, AllTextures
  <2>2. \A k \in Handles : k \in AllTextures <=> \E a \in AssetIds : textures[a] = k
    BY DEF AllTextures
  <2>3. \A k \in Handles : ~ \E a \in AssetIds : textures'[a] = k
    BY <1>1, <1>2
  <2> QED BY <1>1, <1>2, <1>3, <2>1, <2>2, <2>3, OwnedIs, OwnedWillBe
<1>5. \A b \in AssetIds : textures'[b] \notin Handles
  BY <1>1, <1>2
<1>6. AllTextures \cap Handles \subseteq Owned
  BY <1>2, OwnedIs DEF AllTextures
<1> QED BY <1>1, <1>3, <1>4, <1>5, <1>6, FewerOwned

LEMMA QuitAssets ==
  ASSUME AssetsInv, Quit
  PROVE  AssetsInv'
<1> DEFINE gone == AllTextures \cup {font}
<1>1. /\ alive' = alive \ gone /\ textures' = [a \in AssetIds |-> Absent]
      /\ font' = Null /\ reloads' = reloads /\ made' = made /\ program' = "done"
  BY DEF Quit
<1>2. /\ AssetsTypeOK /\ HandlesOwnedOnce /\ Absent \notin Handles /\ Null \notin Handles
  BY AssetsAssumption DEF AssetsInv, AssetsTypeOK, Null, Absent, Handles
<1>3. AssetsTypeOK'
  BY <1>1, <1>2 DEF AssetsTypeOK
<1>4. Owned' = Owned \ gone
  <2>1. \A k \in Handles : k \in gone <=> k = font \/ \E a \in AssetIds : textures[a] = k
    BY DEF AllTextures
  <2>2. \A k \in Handles : k # font' /\ ~ \E a \in AssetIds : textures'[a] = k
    BY <1>1, <1>2
  <2> QED BY <1>2, <1>3, <2>1, <2>2, OwnedIs, OwnedWillBe
<1>5. \A b \in AssetIds : textures'[b] \notin Handles
  BY <1>1, <1>2
<1>6. gone \cap Handles \subseteq Owned
  BY <1>2, OwnedIs DEF AllTextures
<1> HIDE DEF gone
<1> QED BY <1>1, <1>3, <1>4, <1>5, <1>6, FewerOwned

\* The font is made anew, and what is not destroyed of the old one is leaked.
LEMMA LoadFontAssets ==
  ASSUME AssetsInv, LoadFont
  PROVE  AssetsInv'
<1>1. PICK h \in Fresh : font' = h /\ made' = h /\ alive' = alive \cup {h}
  BY DEF LoadFont
<1>2. /\ textures' = textures /\ program' = program
      /\ reloads' = IF font # Null THEN reloads + 1 ELSE reloads
  BY DEF LoadFont
<1>3. /\ AssetsTypeOK /\ HandlesOwnedOnce /\ made \in Nat /\ reloads \in Nat
      /\ Null \notin Handles /\ font \in Handles \cup {Null}
  BY AssetsAssumption DEF AssetsInv, AssetsTypeOK, Null, Handles
<1>4. h = made + 1 /\ h \in Handles /\ h \notin alive /\ h \notin Owned /\ h <= MaxHandles
  BY <1>1, FreshIsNew, AssetsAssumption DEF Handles
<1>5. AssetsTypeOK'
  BY <1>1, <1>2, <1>3, <1>4 DEF AssetsTypeOK
<1>6. Owned' = (Owned \ {font}) \cup {h}
  BY <1>1, <1>2, <1>3, <1>4, <1>5, OwnedIs, OwnedWillBe DEF HandlesOwnedOnce
<1>7. \A a \in AssetIds : textures[a] # h
  BY <1>3, <1>4, OwnedIs
<1>8. HandlesOwnedOnce'
  BY <1>1, <1>2, <1>3, <1>6, <1>7 DEF HandlesOwnedOnce
<1>9. CASE font = Null
  <2>1. font \notin Owned
    BY <1>3, <1>9, OwnedIs
  <2>2. Leaked' = Leaked /\ reloads' = reloads
    BY <1>1, <1>2, <1>4, <1>6, <1>9, <2>1 DEF Leaked
  <2> QED BY <1>5, <1>8, <2>2, LeaksStay DEF AssetsInv
<1>10. CASE font # Null
  <2>1. font \in Owned /\ font \in alive
    BY <1>3, <1>10, OwnedIs DEF HandlesOwnedOnce
  <2>2. Leaked' = Leaked \cup {font} /\ font \notin Leaked /\ reloads' = reloads + 1
    BY <1>1, <1>2, <1>4, <1>6, <1>10, <2>1 DEF Leaked
  <2> QED BY <1>5, <1>8, <2>2, OneMoreLeaks DEF AssetsInv
<1> QED BY <1>9, <1>10

LEMMA SetSizeAssets ==
  ASSUME AssetsInv, SetSize
  PROVE  AssetsInv'
<1>1. PICK h \in Fresh : font' = h /\ made' = h /\ alive' = (alive \ {font}) \cup {h}
  BY DEF SetSize
<1>2. textures' = textures /\ program' = program /\ reloads' = reloads
  BY DEF SetSize
<1>3. /\ AssetsTypeOK /\ HandlesOwnedOnce /\ made \in Nat /\ reloads \in Nat
      /\ Null \notin Handles /\ font \in Handles \cup {Null}
  BY AssetsAssumption DEF AssetsInv, AssetsTypeOK, Null, Handles
<1>4. h = made + 1 /\ h \in Handles /\ h \notin alive /\ h \notin Owned /\ h <= MaxHandles
  BY <1>1, FreshIsNew, AssetsAssumption DEF Handles
<1>5. AssetsTypeOK'
  BY <1>1, <1>2, <1>3, <1>4 DEF AssetsTypeOK
<1>6. Owned' = (Owned \ {font}) \cup {h}
  BY <1>1, <1>2, <1>3, <1>4, <1>5, OwnedIs, OwnedWillBe DEF HandlesOwnedOnce
<1>7. \A a \in AssetIds : textures[a] # h
  BY <1>3, <1>4, OwnedIs
<1>8. HandlesOwnedOnce'
  BY <1>1, <1>2, <1>3, <1>6, <1>7 DEF HandlesOwnedOnce
<1>9. font \in alive => font \in Owned
  <2>1. font \in alive => font \in Handles
    BY <1>3, AssetsAssumption DEF AssetsTypeOK, Null
  <2> QED BY <1>3, <2>1, OwnedIs
<1>10. Leaked' = Leaked
  BY <1>1, <1>4, <1>6, <1>9 DEF Leaked
<1> QED BY <1>2, <1>5, <1>8, <1>10, LeaksStay DEF AssetsInv

------------------------------------------------------------------------------
(* The composition. *)

ListInv ==
  /\ entities \in Seq(Entities)
  /\ layer \in [Entities -> Layers]
  /\ relayered \in BOOLEAN

Inv == AssetsInv /\ ListInv /\ DrawnInLayerOrder

LEMMA AssetsUnchanged ==
  ASSUME AssetsInv, UNCHANGED handleVars, program' \in {"runs", "crashed", "done"}
  PROVE  AssetsInv'
  BY DEF AssetsInv, AssetsTypeOK, HandlesOwnedOnce, OnlyReloadsLeak, Owned, AllTextures, handleVars

LEMMA InitInv == Init => Inv
<1> SUFFICES ASSUME Init PROVE Inv
  OBVIOUS
<1>1. AssetsInv
  BY InitAssets DEF Init
<1>2. ListInv
  <2>1. entities = <<>> /\ <<>> \in Seq(Entities)
    BY DEF Init
  <2> QED BY <2>1 DEF Init, ListInv
<1> QED BY <1>1, <1>2 DEF Init, Inv, DrawnInLayerOrder, InLayerOrder

LEMMA NextAssets == AssetsInv /\ AssetsNext => AssetsInv'
<1> SUFFICES ASSUME AssetsInv, AssetsNext PROVE AssetsInv'
  OBVIOUS
<1>1. ASSUME NEW a \in AssetIds, LoadTexture(a) PROVE AssetsInv'
  BY <1>1, LoadTextureAssets
<1>2. ASSUME NEW a \in AssetIds, UnloadTexture(a) PROVE AssetsInv'
  BY <1>2, UnloadTextureAssets
<1>3. CASE LoadMissingFile
  BY <1>3, AssetsUnchanged DEF LoadMissingFile
<1> QED BY <1>1, <1>2, <1>3, ClearAssets, LoadFontAssets, SetSizeAssets, QuitAssets DEF AssetsNext

\* The sort that follows each addition.
LEMMA AddEntityList ==
  ASSUME ListInv, NEW e \in Entities, AddEntity(e)
  PROVE  ListInv' /\ DrawnInLayerOrder'
<1> DEFINE s == Append(entities, e)
<1>1. s \in Seq(Entities) /\ DOMAIN s = 1 .. Len(s) /\ Len(s) \in Nat
  BY DEF ListInv
<1>2. {s[i] : i \in DOMAIN s} \subseteq Entities
  BY <1>1
<1>3. entities' \in [DOMAIN s -> {s[i] : i \in DOMAIN s}] /\ InLayerOrder(entities') /\ layer' = layer
  BY DEF AddEntity, PostAddEntity
<1>4. entities' \in [1 .. Len(s) -> Entities]
  BY <1>1, <1>2, <1>3
<1>5. entities' \in Seq(Entities)
  BY <1>1, <1>4
<1>6. DrawnInLayerOrder'
  BY <1>3 DEF DrawnInLayerOrder, InLayerOrder
<1> QED BY <1>3, <1>5, <1>6 DEF ListInv, AddEntity

LEMMA RemoveEntityList ==
  ASSUME ListInv, DrawnInLayerOrder, NEW e \in Entities, RemoveEntity(e)
  PROVE  ListInv' /\ DrawnInLayerOrder'
<1>1. PICK i \in DOMAIN entities : entities' = RemoveAt(entities, i)
  BY DEF RemoveEntity
<1>2. layer' = layer /\ relayered' = relayered /\ entities \in Seq(Entities)
  BY DEF RemoveEntity, ListInv
<1>3. entities' = SubSeq(entities, 1, i - 1) \o SubSeq(entities, i + 1, Len(entities))
  BY <1>1 DEF RemoveAt
<1>4. i \in 1 .. Len(entities) /\ Len(entities) \in Nat
  BY <1>2
<1> DEFINE before == SubSeq(entities, 1, i - 1)
           after  == SubSeq(entities, i + 1, Len(entities))
<1>5. /\ before \in Seq(Entities) /\ Len(before) = i - 1
      /\ \A j \in 1 .. i - 1 : before[j] = entities[j]
  BY <1>2, <1>4, SubSeqProperties
<1>6. /\ after \in Seq(Entities) /\ Len(after) = Len(entities) - i
       /\ \A j \in 1 .. Len(entities) - i : after[j] = entities[j + i]
  <2>1. i + 1 \in 1 .. Len(entities) + 1 /\ Len(entities) \in i .. Len(entities)
    BY <1>4
  <2>2. \A j \in i + 1 .. Len(entities) : entities[j] \in Entities
    BY <1>2, <1>4
  <2> QED BY <1>2, <1>4, <2>1, <2>2
<1> HIDE DEF before, after
<1>7. entities' \in Seq(Entities) /\ Len(entities') = Len(entities) - 1
  <2>1. entities' = before \o after
    BY <1>3 DEF before, after
  <2>2. before \o after \in Seq(Entities) /\ Len(before \o after) = Len(before) + Len(after)
    BY <1>5, <1>6, ConcatProperties
  <2> QED BY <1>4, <1>5, <1>6, <2>1, <2>2
<1>8. ASSUME NEW j \in 1 .. Len(entities')
      PROVE  entities'[j] = entities[IF j < i THEN j ELSE j + 1]
  <2>1. entities' = before \o after
    BY <1>3 DEF before, after
  <2>2. CASE j < i
    BY <1>4, <1>5, <1>6, <2>1, <2>2, ConcatProperties
  <2>3. CASE j >= i
    <3>1. entities'[j] = after[j - (i - 1)]
      BY <1>4, <1>7, <1>5, <1>6, <2>1, <2>3, ConcatProperties
    <3>2. j - (i - 1) \in 1 .. Len(entities) - i /\ j - (i - 1) + i = j + 1
      BY <1>4, <1>7, <2>3
    <3> QED BY <1>4, <1>6, <2>3, <3>1, <3>2
  <2> QED BY <1>4, <2>2, <2>3
<1>9. ASSUME InLayerOrder(entities), NEW j \in DOMAIN entities', NEW k \in DOMAIN entities', j < k
      PROVE  layer[entities'[j]] <= layer[entities'[k]]
  <2>1. j \in 1 .. Len(entities') /\ k \in 1 .. Len(entities')
    BY <1>7
  <2> DEFINE from(n) == IF n < i THEN n ELSE n + 1
  <2>2. from(j) \in DOMAIN entities /\ from(k) \in DOMAIN entities /\ from(j) < from(k)
    BY <1>2, <1>4, <1>7, <1>9, <2>1
  <2>3. entities'[j] = entities[from(j)] /\ entities'[k] = entities[from(k)]
    BY <1>8, <2>1
  <2> HIDE DEF from
  <2> QED BY <1>9, <2>2, <2>3 DEF InLayerOrder
<1>10. DrawnInLayerOrder'
  BY <1>2, <1>9 DEF DrawnInLayerOrder, InLayerOrder
<1> QED BY <1>2, <1>7, <1>10 DEF ListInv

LEMMA SetLayerList ==
  ASSUME ListInv, DrawnInLayerOrder, NEW e \in Entities, NEW l \in Layers, SetLayer(e, l)
  PROVE  ListInv' /\ DrawnInLayerOrder'
<1>1. ListInv'
  BY DEF SetLayer, ListInv
<1>2. ASSUME ~ relayered', NEW i \in DOMAIN entities
      PROVE  layer'[entities[i]] = layer[entities[i]]
  <2>1. entities[i] \in Entities /\ entities[i] \in Listed
    BY DEF ListInv, Listed
  <2>2. layer' = [layer EXCEPT ![e] = l] /\ ~ (e \in Listed /\ l # layer[e])
    BY <1>2 DEF SetLayer
  <2> QED BY <2>1, <2>2 DEF ListInv
<1>3. DrawnInLayerOrder'
  BY <1>1, <1>2 DEF SetLayer, DrawnInLayerOrder, InLayerOrder, ListInv
<1> QED BY <1>1, <1>3

LEMMA NextInv == Inv /\ [Next]_vars => Inv'
<1> SUFFICES ASSUME Inv, [Next]_vars PROVE Inv'
  OBVIOUS
<1>1. AssetsInv /\ ListInv /\ DrawnInLayerOrder /\ program \in {"runs", "crashed", "done"}
  BY DEF Inv, AssetsInv, AssetsTypeOK
<1>2. ASSUME UNCHANGED listVars PROVE ListInv' /\ DrawnInLayerOrder'
  BY <1>1, <1>2 DEF listVars, ListInv, DrawnInLayerOrder, InLayerOrder
<1>3. CASE AssetsNext /\ UNCHANGED listVars
  BY <1>1, <1>2, <1>3, NextAssets DEF Inv
<1>4. ASSUME NEW e \in Entities, AddEntity(e) PROVE Inv'
  <2>1. UNCHANGED handleVars /\ program' = program
    BY <1>4 DEF AddEntity
  <2> QED BY <1>1, <1>4, <2>1, AddEntityList, AssetsUnchanged DEF Inv
<1>5. ASSUME NEW e \in Entities, RemoveEntity(e) PROVE Inv'
  <2>1. UNCHANGED handleVars /\ program' = program
    BY <1>5 DEF RemoveEntity
  <2> QED BY <1>1, <1>5, <2>1, RemoveEntityList, AssetsUnchanged DEF Inv
<1>6. ASSUME NEW e \in Entities, NEW l \in Layers, SetLayer(e, l) PROVE Inv'
  <2>1. UNCHANGED handleVars /\ program' = program
    BY <1>6 DEF SetLayer
  <2> QED BY <1>1, <1>6, <2>1, SetLayerList, AssetsUnchanged DEF Inv
<1>7. CASE Render
  <2>1. UNCHANGED handleVars /\ program' = "crashed" /\ UNCHANGED listVars
    BY <1>7 DEF Render
  <2> QED BY <1>1, <1>2, <2>1, AssetsUnchanged DEF Inv
<1>8. CASE UNCHANGED vars
  <2>1. UNCHANGED handleVars /\ program' = program /\ UNCHANGED listVars
    BY <1>8 DEF vars
  <2> QED BY <1>1, <1>2, <2>1, AssetsUnchanged DEF Inv
<1> QED BY <1>3, <1>4, <1>5, <1>6, <1>7, <1>8 DEF Next

\* What the asset manager and the font hold are handles that were made
\* (asset_manager.cpp:14-44, font.cpp:16-42).
THEOREM TypeCorrect == Spec => []AssetsTypeOK
<1>1. Inv => AssetsTypeOK
  BY DEF Inv, AssetsInv
<1> QED BY InitInv, NextInv, <1>1, PTL DEF Spec

\* Nobody holds a destroyed handle and none has two owners, for any number of
\* textures and fonts (asset_manager.cpp:14-44, font.cpp:16-42).
THEOREM OwnersNeverShare == Spec => []HandlesOwnedOnce
<1>1. Inv => HandlesOwnedOnce
  BY DEF Inv, AssetsInv
<1> QED BY InitInv, NextInv, <1>1, PTL DEF Spec

\* Exactly the loads that found their place taken leak a handle each
\* (asset_manager.cpp:22, font.cpp:27).
THEOREM LeaksAreReloads == Spec => []OnlyReloadsLeak
<1>1. Inv => OnlyReloadsLeak
  BY DEF Inv, AssetsInv
<1> QED BY InitInv, NextInv, <1>1, PTL DEF Spec

\* The list is in the order of the layers unless one was changed, however many
\* entities come and go (render_system.cpp:44-53, system.cpp:10-21).
THEOREM ListStaysSorted == Spec => []DrawnInLayerOrder
<1>1. Inv => DrawnInLayerOrder
  BY DEF Inv
<1> QED BY InitInv, NextInv, <1>1, PTL DEF Spec
==============================================================================
