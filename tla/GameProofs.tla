------------------------------ MODULE GameProofs ------------------------------
(***************************************************************************)
(* Proofs about Frame, for any types of systems and any entities. What the *)
(* manager updates is what it feeds (ManagerInv); what it feeds a system   *)
(* are registered entities that suit it, each once (ListInv); so a pass    *)
(* over all pairs of them finds each contact, and no entity with itself.   *)
(* After it, proofs about Algorithms, for any inputs: CallInv says with    *)
(* what each algorithm was called, and an invariant for each loop what it  *)
(* has done so far (MessageInv, CleanInv, ArgumentsInv, FileInv).          *)
(***************************************************************************)
EXTENDS Frame, Algorithms, FiniteSetTheorems, SequenceTheorems, TLAPS

\* What a map holds is bounded by the number of systems made, so that the one
\* made next is in none of the maps.
LEMMA InsertTyped ==
  ASSUME NEW n \in Nat, NEW map \in [Types -> 0 .. n], NEW type \in Types
  PROVE  /\ Insert(map, type, n + 1) \in [Types -> 0 .. n + 1]
         /\ map \in [Types -> 0 .. n + 1]
         /\ Erase(map, type) \in [Types -> 0 .. n]
<1>1. 0 .. n \subseteq 0 .. n + 1 /\ n + 1 \in 0 .. n + 1 /\ 0 \in 0 .. n
  OBVIOUS
<1>2. (IF map[type] = None THEN n + 1 ELSE map[type]) \in 0 .. n + 1
  BY <1>1
<1> QED BY <1>1, <1>2 DEF Insert, Erase, None

\* What updates and renders hold is what systems holds, by the flags: the
\* invariant is inductive with the types of the maps.
ManagerInv == ManagerTypeOK /\ RunsWhatItFeeds

\* A manager without systems.
LEMMA InitManager == Init => ManagerInv
  BY FrameAssumption DEF Init, ManagerInv, ManagerTypeOK, RunsWhatItFeeds, None

\* The number a new system gets is in none of the maps, so the three agree on it.
LEMMA AddSystemManager ==
  ASSUME ManagerInv, NEW type \in Types, AddSystem(type)
  PROVE  ManagerInv'
<1> USE DEF ManagerInv, ManagerTypeOK
<1>1. made \in Nat /\ made' = made + 1 /\ made' \in 0 .. MaxSystems
  BY FrameAssumption DEF AddSystem
<1>2. systems \in [Types -> 0 .. made] /\ updates \in [Types -> 0 .. made]
        /\ renders \in [Types -> 0 .. made]
  OBVIOUS
<1>3. ASSUME NEW map \in [Types -> 0 .. made]
      PROVE  Insert(map, type, made + 1) \in [Types -> 0 .. made + 1] /\ map \in [Types -> 0 .. made + 1]
  BY <1>1, InsertTyped
<1>4. systems' \in [Types -> 0 .. made'] /\ updates' \in [Types -> 0 .. made']
        /\ renders' \in [Types -> 0 .. made']
  <2>1. systems' = Insert(systems, type, made + 1)
    BY DEF AddSystem
  <2>2. updates' = Insert(updates, type, made + 1) \/ updates' = updates
    BY DEF AddSystem
  <2>3. renders' = Insert(renders, type, made + 1) \/ renders' = renders
    BY DEF AddSystem
  <2> QED BY <1>1, <1>2, <1>3, <2>1, <2>2, <2>3
<1>5. RunsWhatItFeeds'
  BY <1>2, <1>4 DEF AddSystem, RunsWhatItFeeds, Insert, None
<1> QED BY <1>1, <1>4, <1>5

\* A system leaves all the maps it is in.
LEMMA RemoveSystemManager ==
  ASSUME ManagerInv, NEW type \in Types, RemoveSystem(type)
  PROVE  ManagerInv'
<1> USE DEF ManagerInv, ManagerTypeOK
<1>1. made \in Nat
  BY FrameAssumption
<1>2. systems \in [Types -> 0 .. made] /\ updates \in [Types -> 0 .. made]
        /\ renders \in [Types -> 0 .. made]
  OBVIOUS
<1>3. CASE systems[type] = None
  BY <1>3 DEF RemoveSystem, managerVars, RunsWhatItFeeds
<1>4. CASE systems[type] # None
  <2>1. made' = made
    BY <1>4 DEF RemoveSystem
  <2>2. ASSUME NEW map \in [Types -> 0 .. made] PROVE Erase(map, type) \in [Types -> 0 .. made]
    BY <1>1, InsertTyped
  <2>3. systems' \in [Types -> 0 .. made'] /\ updates' \in [Types -> 0 .. made']
          /\ renders' \in [Types -> 0 .. made']
    BY <1>2, <1>4, <2>1, <2>2 DEF RemoveSystem
  <2>4. RunsWhatItFeeds'
    BY <1>2, <1>4 DEF RemoveSystem, RunsWhatItFeeds, Erase, None
  <2> QED BY <2>1, <2>3, <2>4
<1> QED BY <1>3, <1>4

\* ManagerInv is inductive.
LEMMA NextManager == ManagerInv /\ [Next]_vars => ManagerInv'
<1> SUFFICES ASSUME ManagerInv, [Next]_vars PROVE ManagerInv'
  OBVIOUS
<1>1. ASSUME NEW t \in Types, AddSystem(t) PROVE ManagerInv'
  BY <1>1, AddSystemManager
<1>2. ASSUME NEW t \in Types, RemoveSystem(t) PROVE ManagerInv'
  BY <1>2, RemoveSystemManager
<1>3. ASSUME UNCHANGED managerVars PROVE ManagerInv'
  BY <1>3 DEF ManagerInv, ManagerTypeOK, RunsWhatItFeeds, managerVars
<1>4. ASSUME NEW e \in Entities,
             AddEntityToSystems(e) \/ RemoveEntityFromSystems(e) \/ \E x \in Places : Place(e, x)
      PROVE  UNCHANGED managerVars
  BY <1>4 DEF AddEntityToSystems, RemoveEntityFromSystems, Place
<1>5. CASE Update
  BY <1>3, <1>5 DEF Update
<1>6. CASE UNCHANGED vars
  BY <1>3, <1>6 DEF vars
<1> QED BY <1>1, <1>2, <1>3, <1>4, <1>5, <1>6 DEF Next

\* The systems that are updated and rendered are those that entities are added
\* to, for every game and any number of types (system_manager.h:39-68).
THEOREM UpdatedAreFed == Spec => []RunsWhatItFeeds
<1>1. ManagerInv => RunsWhatItFeeds
  BY DEF ManagerInv
<1> QED BY InitManager, NextManager, <1>1, PTL DEF Spec

------------------------------------------------------------------------------
NoDuplicates(s) == \A i, j \in DOMAIN s : i # j => s[i] # s[j]

\* The place that counts the kept elements up to it is each element's own, and
\* every place up to their number has one.
LEMMA RankIsOnto ==
  ASSUME NEW n \in Nat, NEW kept \in SUBSET (1 .. n)
  PROVE  /\ Cardinality(kept) \in Nat
         /\ \A i \in kept : Cardinality(kept \cap 1 .. i) \in 1 .. Cardinality(kept)
         /\ \A i, j \in kept : i # j => Cardinality(kept \cap 1 .. i) # Cardinality(kept \cap 1 .. j)
         /\ \A m \in 1 .. Cardinality(kept) : \E i \in kept : Cardinality(kept \cap 1 .. i) = m
<1> DEFINE Rank(i) == Cardinality(kept \cap 1 .. i)
           rank == [i \in kept |-> Rank(i)]
<1>1. IsFiniteSet(kept) /\ Cardinality(kept) \in Nat
  <2>1. IsFiniteSet(1 .. n)
    BY FS_Interval
  <2>2. IsFiniteSet(kept)
    BY <2>1, FS_Subset
  <2> QED BY <2>2, FS_CardinalityType
<1>2. ASSUME NEW i \in kept PROVE IsFiniteSet(kept \cap 1 .. i) /\ Rank(i) \in Nat
  BY <1>1, FS_Subset, FS_CardinalityType
<1>3. ASSUME NEW i \in kept PROVE Rank(i) \in 1 .. Cardinality(kept)
  <2>1. Rank(i) <= Cardinality(kept)
    BY <1>1, FS_Subset
  <2>2. i \in kept \cap 1 .. i
    OBVIOUS
  <2>3. Rank(i) # 0
    BY <1>2, <2>2, FS_EmptySet
  <2> QED BY <1>1, <1>2, <2>1, <2>3
<1>4. ASSUME NEW i \in kept, NEW j \in kept, i < j PROVE Rank(i) # Rank(j)
  <2>1. kept \cap 1 .. i \in SUBSET (kept \cap 1 .. j)
    BY <1>4
  <2>2. j \in kept \cap 1 .. j /\ j \notin kept \cap 1 .. i
    BY <1>4
  <2> QED BY <1>2, <2>1, <2>2, FS_Subset
<1>5. ASSUME NEW i \in kept, NEW j \in kept, i # j PROVE Rank(i) # Rank(j)
  <2>1. i < j \/ j < i
    BY <1>5
  <2> QED BY <1>4, <2>1
<1> HIDE DEF Rank
<1>6. rank \in Injection(kept, 1 .. Cardinality(kept))
  BY <1>3, <1>5 DEF Injection, IsInjective
<1>7. IsFiniteSet(1 .. Cardinality(kept)) /\ Cardinality(1 .. Cardinality(kept)) = Cardinality(kept)
  BY <1>1, FS_Interval
<1>8. rank \in Surjection(kept, 1 .. Cardinality(kept))
  BY <1>1, <1>6, <1>7, FS_Injection
<1>9. \A m \in 1 .. Cardinality(kept) : \E i \in kept : Rank(i) = m
  BY <1>8 DEF Surjection
<1> QED BY <1>1, <1>3, <1>5, <1>9 DEF Rank

\* What removeEntity leaves is all the others, each as often as before.
LEMMA WithoutIs ==
  ASSUME NEW S, NEW s \in Seq(S), NEW e
  PROVE  /\ Without(s, e) \in Seq(S)
         /\ ToSet(Without(s, e)) = ToSet(s) \ {e}
         /\ NoDuplicates(s) => NoDuplicates(Without(s, e))
<1> DEFINE kept == {i \in DOMAIN s : s[i] # e}
           Rank(i) == Cardinality(kept \cap 1 .. i)
           at(n) == CHOOSE i \in kept : Rank(i) = n
           n0 == Cardinality(kept)
<1>1. DOMAIN s = 1 .. Len(s) /\ Len(s) \in Nat /\ \A i \in DOMAIN s : s[i] \in S
  OBVIOUS
<1>2. /\ n0 \in Nat
      /\ \A i \in kept : Rank(i) \in 1 .. n0
      /\ \A i, j \in kept : i # j => Rank(i) # Rank(j)
      /\ \A m \in 1 .. n0 : \E i \in kept : Rank(i) = m
  <2>1. kept \in SUBSET (1 .. Len(s))
    BY <1>1
  <2> HIDE DEF kept
  <2> QED BY <1>1, <2>1, RankIsOnto
<1>3. Without(s, e) = [n \in 1 .. n0 |-> s[at(n)]]
  BY DEF Without
<1>4. \A i \in kept : i \in DOMAIN s /\ s[i] # e
  OBVIOUS
<1>5. \A i \in DOMAIN s : s[i] # e => i \in kept
  OBVIOUS
<1> HIDE DEF n0, kept, Rank
<1>6. ASSUME NEW m \in 1 .. n0 PROVE at(m) \in kept /\ Rank(at(m)) = m
  BY <1>2
<1> HIDE DEF at
<1>7. Without(s, e) \in Seq(S)
  BY <1>1, <1>2, <1>3, <1>4, <1>6
<1>8. DOMAIN Without(s, e) = 1 .. n0 /\ \A m \in 1 .. n0 : Without(s, e)[m] = s[at(m)]
  BY <1>3
<1>9. ASSUME NEW i \in kept PROVE Rank(i) \in 1 .. n0 /\ at(Rank(i)) = i
  BY <1>2, <1>6
<1>10. ToSet(Without(s, e)) = ToSet(s) \ {e}
  <2>1. ASSUME NEW m \in 1 .. n0 PROVE s[at(m)] \in ToSet(s) \ {e}
    BY <1>4, <1>6 DEF ToSet
  <2>2. ASSUME NEW i \in DOMAIN s, s[i] # e PROVE \E m \in 1 .. n0 : s[at(m)] = s[i]
    BY <1>5, <1>9, <2>2
  <2>3. ToSet(Without(s, e)) = {s[at(m)] : m \in 1 .. n0}
    BY <1>3 DEF ToSet
  <2>4. ASSUME NEW x \in ToSet(s) \ {e} PROVE x \in ToSet(Without(s, e))
    <3>1. PICK i \in DOMAIN s : x = s[i]
      BY <2>4 DEF ToSet
    <3> QED BY <2>2, <2>3, <2>4, <3>1
  <2>5. ASSUME NEW x \in ToSet(Without(s, e)) PROVE x \in ToSet(s) \ {e}
    BY <2>1, <2>3, <2>5
  <2> QED BY <2>4, <2>5
<1>11. ASSUME NoDuplicates(s), NEW l \in 1 .. n0, NEW m \in 1 .. n0, l # m
       PROVE  s[at(l)] # s[at(m)]
  <2>1. at(l) # at(m)
    BY <1>6, <1>11
  <2> QED BY <1>4, <1>6, <1>11, <2>1 DEF NoDuplicates
<1> QED BY <1>7, <1>8, <1>10, <1>11 DEF NoDuplicates

------------------------------------------------------------------------------
\* The lists hold each entity once at most, while it is registered, and only
\* those of systems that it suits: so it leaves each list before it can come
\* again, whichever systems were added and removed meanwhile.
ListInv ==
  /\ list \in [1 .. MaxSystems -> Seq(Entities)]
  /\ registered \subseteq Entities
  /\ position \in [Entities -> Int]
  /\ \A s \in 1 .. MaxSystems :
       /\ NoDuplicates(list[s])
       /\ \A e \in ToSet(list[s]) : e \in registered /\ s \in SuitedBy(e)

\* What push_back does to the elements of a list.
LEMMA AppendIs ==
  ASSUME NEW S, NEW s \in Seq(S), NEW e \in S
  PROVE  /\ Append(s, e) \in Seq(S)
         /\ ToSet(Append(s, e)) = ToSet(s) \cup {e}
         /\ NoDuplicates(s) /\ e \notin ToSet(s) => NoDuplicates(Append(s, e))
<1>1. DOMAIN s = 1 .. Len(s) /\ Len(s) \in Nat
  OBVIOUS
<1>2. /\ Append(s, e) \in Seq(S)
      /\ DOMAIN Append(s, e) = 1 .. Len(s) + 1
      /\ \A i \in 1 .. Len(s) : Append(s, e)[i] = s[i]
      /\ Append(s, e)[Len(s) + 1] = e
  OBVIOUS
<1> DEFINE r == Append(s, e)
<1> HIDE DEF r
<1>3. ToSet(r) = ToSet(s) \cup {e}
  <2>1. ASSUME NEW x \in ToSet(r) PROVE x \in ToSet(s) \cup {e}
    BY <1>1, <1>2, <2>1 DEF ToSet, r
  <2>2. ASSUME NEW x \in ToSet(s) PROVE x \in ToSet(r)
    <3>1. PICK i \in 1 .. Len(s) : x = s[i]
      BY <1>1 DEF ToSet
    <3>2. i \in DOMAIN r /\ r[i] = x
      BY <1>1, <1>2, <3>1 DEF r
    <3> QED BY <3>2 DEF ToSet
  <2>3. e \in ToSet(r)
    <3>1. Len(s) + 1 \in DOMAIN r /\ r[Len(s) + 1] = e
      BY <1>1, <1>2 DEF r
    <3> QED BY <3>1 DEF ToSet
  <2> QED BY <2>1, <2>2, <2>3
<1>4. ASSUME NoDuplicates(s), e \notin ToSet(s) PROVE NoDuplicates(r)
  <2>1. \A i \in 1 .. Len(s) : s[i] # e
    BY <1>1, <1>4 DEF ToSet
  <2> QED BY <1>1, <1>2, <1>4, <2>1 DEF NoDuplicates, r
<1> QED BY <1>2, <1>3, <1>4 DEF r

\* No system lists anyone at first.
LEMMA InitList == Init => ListInv
<1> SUFFICES ASSUME Init PROVE ListInv
  OBVIOUS
<1>1. list = [s \in 1 .. MaxSystems |-> <<>>]
  BY DEF Init
<1>2. <<>> \in Seq(Entities) /\ DOMAIN <<>> = {}
  OBVIOUS
<1>3. position \in [Entities -> Int]
  BY FrameAssumption DEF Init
<1> QED BY <1>1, <1>2, <1>3 DEF Init, ListInv, NoDuplicates, ToSet

\* Whom a system was fed stays suited when the maps change, as long as the
\* list of one that is removed is emptied.
LEMMA SystemsChangeList ==
  ASSUME ListInv, ManagerInv, NEW t \in Types, AddSystem(t) \/ RemoveSystem(t)
  PROVE  ListInv'
<1>1. systems \in [Types -> 0 .. made] /\ UNCHANGED <<registered, position>>
  BY DEF ManagerInv, ManagerTypeOK, AddSystem, RemoveSystem, bodyVars
<1>2. CASE UNCHANGED <<systems, list>>
  BY <1>1, <1>2 DEF ListInv, SuitedBy
<1>3. CASE AddSystem(t)
  <2>1. UNCHANGED list /\ systems' = [systems EXCEPT ![t] = IF @ = None THEN made' ELSE @]
    BY <1>3 DEF AddSystem, Insert
  <2>2. ASSUME NEW e \in Entities PROVE SuitedBy(e) \subseteq SuitedBy(e)'
    BY <1>1, <2>1, FrameAssumption DEF SuitedBy
  <2>3. ASSUME NEW s \in 1 .. MaxSystems, NEW e \in ToSet(list[s]) PROVE e \in Entities
    BY <2>3 DEF ListInv, ToSet
  <2> QED BY <1>1, <2>1, <2>2, <2>3 DEF ListInv
<1>4. CASE RemoveSystem(t) /\ systems[t] # None
  <2>1. systems' = [systems EXCEPT ![t] = None] /\ list' = [list EXCEPT ![systems[t]] = <<>>]
    BY <1>4 DEF RemoveSystem, Erase
  <2>2. ASSUME NEW e \in Entities PROVE SuitedBy(e) \ {systems[t]} \subseteq SuitedBy(e)'
    BY <1>1, <2>1, FrameAssumption DEF SuitedBy
  <2>3. ASSUME NEW s \in 1 .. MaxSystems, NEW e \in ToSet(list[s]) PROVE e \in Entities
    BY <2>3 DEF ListInv, ToSet
  <2>4. <<>> \in Seq(Entities) /\ NoDuplicates(<<>>) /\ ToSet(<<>>) = {}
    BY DEF NoDuplicates, ToSet
  <2>5. list' \in [1 .. MaxSystems -> Seq(Entities)]
    BY <2>1, <2>4 DEF ListInv
  <2>6. ASSUME NEW s \in 1 .. MaxSystems
        PROVE  /\ NoDuplicates(list'[s])
               /\ \A e \in ToSet(list'[s]) : e \in registered' /\ s \in SuitedBy(e)'
    <3>1. CASE s = systems[t]
      <4>1. list'[s] = <<>>
        BY <2>1, <3>1 DEF ListInv
      <4> QED BY <2>4, <4>1
    <3>2. CASE s # systems[t]
      <4>1. list'[s] = list[s]
        BY <2>1, <3>2 DEF ListInv
      <4> QED BY <1>1, <2>2, <2>3, <3>2, <4>1 DEF ListInv
    <3> QED BY <3>1, <3>2
  <2> QED BY <1>1, <2>5, <2>6 DEF ListInv
<1>5. RemoveSystem(t) /\ systems[t] = None => UNCHANGED <<systems, list>>
  BY DEF RemoveSystem, managerVars
<1> QED BY <1>2, <1>3, <1>4, <1>5

\* Who is registered was in no list, and enters those of the systems it suits.
LEMMA AddEntityList ==
  ASSUME ListInv, NEW e \in Entities, AddEntityToSystems(e)
  PROVE  ListInv'
<1>1. /\ e \notin registered /\ registered' = registered \cup {e}
      /\ UNCHANGED <<systems, position>>
  BY DEF AddEntityToSystems, managerVars, bodyVars
<1>2. DOMAIN list = 1 .. MaxSystems /\ \A s \in 1 .. MaxSystems : list[s] \in Seq(Entities)
  BY DEF ListInv
<1>3. list' = [s \in 1 .. MaxSystems |-> IF s \in SuitedBy(e) THEN Append(list[s], e) ELSE list[s]]
  BY <1>2 DEF AddEntityToSystems
<1>4. ASSUME NEW s \in 1 .. MaxSystems, NEW x PROVE SuitedBy(x)' = SuitedBy(x)
  BY <1>1 DEF SuitedBy
<1>5. ASSUME NEW s \in 1 .. MaxSystems
      PROVE  /\ list'[s] \in Seq(Entities)
             /\ NoDuplicates(list'[s])
             /\ \A x \in ToSet(list'[s]) : x \in registered' /\ s \in SuitedBy(x)
  <2>1. CASE s \in SuitedBy(e)
    <3>1. list'[s] = Append(list[s], e)
      BY <1>3, <2>1
    <3>2. e \notin ToSet(list[s])
      BY <1>1 DEF ListInv
    <3> DEFINE new == Append(list[s], e)
    <3>3. new \in Seq(Entities) /\ NoDuplicates(new) /\ ToSet(new) = ToSet(list[s]) \cup {e}
      BY <1>2, <3>2, AppendIs DEF ListInv
    <3> HIDE DEF new
    <3>4. list'[s] = new
      BY <3>1 DEF new
    <3> QED BY <1>1, <2>1, <3>3, <3>4 DEF ListInv
  <2>2. CASE s \notin SuitedBy(e)
    BY <1>1, <1>2, <1>3, <2>2 DEF ListInv
  <2> QED BY <2>1, <2>2
<1>6. list' \in [1 .. MaxSystems -> Seq(Entities)]
  <2>1. DOMAIN list' = 1 .. MaxSystems
    BY <1>3
  <2>2. list' = [s \in 1 .. MaxSystems |-> list'[s]]
    BY <1>3, <2>1
  <2> QED BY <1>5, <2>2
<1> QED BY <1>1, <1>4, <1>5, <1>6 DEF ListInv

\* Who is destroyed is in no list any more.
LEMMA RemoveEntityList ==
  ASSUME ListInv, NEW e \in Entities, RemoveEntityFromSystems(e)
  PROVE  ListInv'
<1>1. registered' = registered \ {e} /\ UNCHANGED <<systems, position>>
  BY DEF RemoveEntityFromSystems, managerVars, bodyVars
<1>2. DOMAIN list = 1 .. MaxSystems /\ \A s \in 1 .. MaxSystems : list[s] \in Seq(Entities)
  BY DEF ListInv
<1>3. list' = [s \in 1 .. MaxSystems |-> IF s \in SuitedBy(e) THEN Without(list[s], e) ELSE list[s]]
  BY <1>2 DEF RemoveEntityFromSystems
<1>4. ASSUME NEW x PROVE SuitedBy(x)' = SuitedBy(x)
  BY <1>1 DEF SuitedBy
<1>5. ASSUME NEW s \in 1 .. MaxSystems
      PROVE  /\ list'[s] \in Seq(Entities)
             /\ NoDuplicates(list'[s])
             /\ \A x \in ToSet(list'[s]) : x \in registered' /\ s \in SuitedBy(x)
  <2>1. CASE s \in SuitedBy(e)
    <3>1. list'[s] = Without(list[s], e)
      BY <1>3, <2>1
    <3>2. /\ list'[s] \in Seq(Entities) /\ NoDuplicates(list'[s])
          /\ ToSet(list'[s]) = ToSet(list[s]) \ {e}
      BY <1>2, <3>1, WithoutIs DEF ListInv
    <3> QED BY <1>1, <3>2 DEF ListInv
  <2>2. CASE s \notin SuitedBy(e)
    BY <1>1, <1>2, <1>3, <2>2 DEF ListInv
  <2> QED BY <2>1, <2>2
<1>6. list' \in [1 .. MaxSystems -> Seq(Entities)]
  <2>1. DOMAIN list' = 1 .. MaxSystems
    BY <1>3
  <2>2. list' = [s \in 1 .. MaxSystems |-> list'[s]]
    BY <1>3, <2>1
  <2> QED BY <1>5, <2>2
<1> QED BY <1>1, <1>4, <1>5, <1>6 DEF ListInv

\* Positions stay whole pixels.
LEMMA MovedTyped ==
  ASSUME NEW where \in [Entities -> Int], NEW s
  PROVE  Moved(s, where) \in [Entities -> Int]
  BY FrameAssumption DEF Moved

\* ListInv is inductive.
LEMMA NextList == ListInv /\ ManagerInv /\ [Next]_vars => ListInv'
<1> SUFFICES ASSUME ListInv, ManagerInv, [Next]_vars PROVE ListInv'
  OBVIOUS
<1>1. ASSUME NEW t \in Types, AddSystem(t) \/ RemoveSystem(t) PROVE ListInv'
  BY <1>1, SystemsChangeList
<1>2. ASSUME NEW e \in Entities, AddEntityToSystems(e) PROVE ListInv'
  BY <1>2, AddEntityList
<1>3. ASSUME NEW e \in Entities, RemoveEntityFromSystems(e) PROVE ListInv'
  BY <1>3, RemoveEntityList
<1>4. ASSUME UNCHANGED <<systems, list, registered>>, position' \in [Entities -> Int]
      PROVE  ListInv'
  BY <1>4 DEF ListInv, SuitedBy
<1>5. ASSUME NEW e \in Entities, NEW x \in Places, Place(e, x) PROVE ListInv'
  <2>1. position' = [position EXCEPT ![e] = x] /\ x \in Int
    BY <1>5, FrameAssumption DEF Place
  <2>2. position' \in [Entities -> Int]
    BY <2>1 DEF ListInv
  <2> QED BY <1>4, <1>5, <2>2 DEF Place, managerVars
<1>6. CASE Update
  <2>1. position' = position \/ position' = Moved(updates[Movement], position)
    BY <1>6 DEF Update
  <2>2. position' \in [Entities -> Int]
    BY <2>1, MovedTyped DEF ListInv
  <2> QED BY <1>4, <1>6, <2>2 DEF Update, managerVars
<1>7. CASE UNCHANGED vars
  BY <1>4, <1>7 DEF vars, managerVars, bodyVars, ListInv
<1> QED BY <1>1, <1>2, <1>3, <1>5, <1>6, <1>7 DEF Next

------------------------------------------------------------------------------
\* To collide is symmetric.
LEMMA TouchingBothWays ==
  ASSUME NEW where \in [Entities -> Int], NEW a \in Entities, NEW b \in Entities
  PROVE  Touching(a, b, where) <=> Touching(b, a, where)
<1>1. ASSUME NEW e \in Entities
      PROVE  /\ Rectangle(At(e, where)).x \in Int /\ Rectangle(At(e, where)).y \in Int
             /\ Rectangle(At(e, where)).w \in Int /\ Rectangle(At(e, where)).h \in Int
  <2>1. where[e] \in Int /\ Body[e] \in [offset : Int, scale : Int, width : Int, height : Int]
    BY FrameAssumption
  <2>2. Body[e].offset \in Int /\ Body[e].scale \in Int /\ Body[e].width \in Int /\ Body[e].height \in Int
    BY <2>1
  <2> QED BY <2>1, <2>2 DEF Rectangle, At
<1> DEFINE r == Rectangle(At(a, where))
           q == Rectangle(At(b, where))
<1>2. r.x \in Int /\ r.y \in Int /\ r.w \in Int /\ r.h \in Int
      /\ q.x \in Int /\ q.y \in Int /\ q.w \in Int /\ q.h \in Int
  BY <1>1
<1> HIDE DEF r, q
<1>3. checkAABBCollision(r, q) <=> checkAABBCollision(q, r)
  BY <1>2 DEF checkAABBCollision
<1> QED BY <1>3 DEF Touching, r, q

\* What one pass of the collision system reports of the entities as they stand.
LEMMA PairsAre ==
  ASSUME NEW s, NEW where \in [Entities -> Int], list[s] \in Seq(Entities), NoDuplicates(list[s])
  PROVE  /\ \A a, b \in ToSet(list[s]) :
              a # b /\ Touching(a, b, where) => {a, b} \in PairsIn(s, where)
         /\ \A pair \in PairsIn(s, where) : \E a, b \in ToSet(list[s]) :
              a # b /\ pair = {a, b} /\ Touching(a, b, where)
<1> DEFINE l == list[s]
           n == Len(l)
<1>1. DOMAIN l = 1 .. n /\ n \in Nat /\ \A i \in 1 .. n : l[i] \in Entities
  OBVIOUS
<1> DEFINE scene == [i \in DOMAIN l |-> At(l[i], where)]
<1>2. Collided(scene) = {p \in (1 .. n) \X (1 .. n) : p[1] < p[2] /\ Touching(l[p[1]], l[p[2]], where)}
  <2>1. DOMAIN scene = 1 .. n /\ \A i \in 1 .. n : scene[i] = At(l[i], where)
    BY <1>1
  <2> HIDE DEF scene
  <2> QED BY <2>1 DEF Collided, Touching
<1>3. PairsIn(s, where) = {{l[p[1]], l[p[2]]} : p \in Collided(scene)}
  BY DEF PairsIn
<1>4. ToSet(l) = {l[i] : i \in 1 .. n}
  BY <1>1 DEF ToSet
<1>5. \A i, j \in 1 .. n : i # j => l[i] # l[j]
  BY <1>1 DEF NoDuplicates
<1> HIDE DEF l, n, scene
<1>6. ASSUME NEW i \in 1 .. n, NEW j \in 1 .. n, i < j, Touching(l[i], l[j], where)
      PROVE  {l[i], l[j]} \in PairsIn(s, where)
  <2>1. <<i, j>> \in Collided(scene)
    BY <1>2, <1>6
  <2> QED BY <1>3, <2>1
<1>7. ASSUME NEW a \in ToSet(l), NEW b \in ToSet(l), a # b, Touching(a, b, where)
      PROVE  {a, b} \in PairsIn(s, where)
  <2>1. PICK i \in 1 .. n, j \in 1 .. n : a = l[i] /\ b = l[j]
    BY <1>4
  <2>2. CASE i < j
    BY <1>6, <1>7, <2>1, <2>2
  <2>3. CASE j < i
    <3>1. Touching(l[j], l[i], where)
      BY <1>1, <1>7, <2>1, TouchingBothWays
    <3>2. {l[j], l[i]} \in PairsIn(s, where)
      BY <1>6, <2>3, <3>1
    <3> QED BY <2>1, <3>2
  <2> QED BY <1>1, <1>7, <2>1, <2>2, <2>3
<1>8. ASSUME NEW pair \in PairsIn(s, where)
      PROVE  \E a, b \in ToSet(l) : a # b /\ pair = {a, b} /\ Touching(a, b, where)
  <2>1. PICK p \in Collided(scene) : pair = {l[p[1]], l[p[2]]}
    BY <1>3
  <2>2. /\ p[1] \in 1 .. n /\ p[2] \in 1 .. n /\ p[1] < p[2]
        /\ Touching(l[p[1]], l[p[2]], where)
    BY <1>2, <2>1
  <2>3. p[1] # p[2]
    BY <1>1, <2>2
  <2>4. l[p[1]] \in ToSet(l) /\ l[p[2]] \in ToSet(l) /\ l[p[1]] # l[p[2]]
    BY <1>4, <1>5, <2>2, <2>3
  <2> QED BY <2>1, <2>2, <2>4
<1> QED BY <1>7, <1>8 DEF l

\* A system never lists an entity twice, nor one that is destroyed or does not
\* suit it, whatever systems and entities come and go (system_manager.cpp:5-25,
\* system.cpp:10-21).
THEOREM ListsHoldWhoSuits == Spec => []ListInv
<1> QED BY InitManager, NextManager, InitList, NextList, PTL DEF Spec

\* Whichever of the two systems is updated first, an update reports the contacts
\* that last and no others, for any entities, bodies and velocities
\* (system_manager.cpp:27-31, collision_system.cpp:35-62).
THEOREM ContactsAreReported == Spec => ContactsReported
<1> DEFINE Reports ==
             Update =>
               LET s == systems[Collider]
                   given == IF s = None THEN {} ELSE ToSet(list[s])
               IN /\ \A a, b \in given :
                       a # b /\ Touching(a, b, position) /\ Touching(a, b, position') => {a, b} \in reported'
                  /\ \A pair \in reported' : \E a, b \in given :
                       /\ a # b /\ pair = {a, b}
                       /\ Touching(a, b, position) \/ Touching(a, b, position')
<1>1. ASSUME ListInv, ManagerInv, ListInv', Update PROVE Reports
  <2> DEFINE s == systems[Collider]
             given == IF s = None THEN {} ELSE ToSet(list[s])
  <2>1. s = updates[Collider] /\ s \in 0 .. MaxSystems
    BY <1>1, FrameAssumption DEF ManagerInv, ManagerTypeOK, RunsWhatItFeeds
  <2>2. PICK seen \in {position, position'} : reported' = IF s = None THEN {} ELSE PairsIn(s, seen)
    BY <1>1, <2>1 DEF Update
  <2>3. CASE s = None
    BY <2>2, <2>3
  <2>4. CASE s # None
    <3>1. list[s] \in Seq(Entities) /\ NoDuplicates(list[s]) /\ seen \in [Entities -> Int]
      BY <1>1, <2>1, <2>4 DEF ListInv, None
    <3>2. /\ \A a, b \in given : a # b /\ Touching(a, b, seen) => {a, b} \in reported'
          /\ \A pair \in reported' : \E a, b \in given :
               a # b /\ pair = {a, b} /\ Touching(a, b, seen)
      BY <2>2, <2>4, <3>1, PairsAre
    <3> HIDE DEF given, s
    <3>3. CASE seen = position
      <4>1. \A a, b \in given : Touching(a, b, seen) <=> Touching(a, b, position)
        BY <3>3
      <4>2. /\ \A a, b \in given :
                 a # b /\ Touching(a, b, position) /\ Touching(a, b, position') => {a, b} \in reported'
            /\ \A pair \in reported' : \E a, b \in given :
                 /\ a # b /\ pair = {a, b}
                 /\ Touching(a, b, position) \/ Touching(a, b, position')
        BY <3>2, <4>1
      <4> QED BY <4>2 DEF given, s
    <3>4. CASE seen = position'
      <4>1. \A a, b \in given : Touching(a, b, seen) <=> Touching(a, b, position')
        BY <3>4 DEF Touching, At
      <4>2. /\ \A a, b \in given :
                 a # b /\ Touching(a, b, position) /\ Touching(a, b, position') => {a, b} \in reported'
            /\ \A pair \in reported' : \E a, b \in given :
                 /\ a # b /\ pair = {a, b}
                 /\ Touching(a, b, position) \/ Touching(a, b, position')
        BY <3>2, <4>1
      <4> QED BY <4>2 DEF given, s
    <3> QED BY <3>3, <3>4
  <2> QED BY <2>3, <2>4
<1>2. ListInv /\ ManagerInv /\ ListInv' /\ [Next]_vars => [Reports]_vars
  BY <1>1
<1>3. Spec => [][Reports]_vars
  BY InitList, NextList, InitManager, NextManager, <1>2, PTL DEF Spec
<1> QED BY <1>3 DEF ContactsReported

------------------------------------------------------------------------------
Rectangles == [x : Int, y : Int, w : Nat \ {0}, h : Nat \ {0}]

\* The place (x, y) is in the rectangle.
Covers(r, x, y) == x \in r.x .. r.x + r.w - 1 /\ y \in r.y .. r.y + r.h - 1

\* The collision test is true of two rectangles that cover pixels, wherever they
\* are and however big, exactly if some pixel is in both; to touch is not to
\* collide (collision_system.cpp:24-33).
THEOREM CollideIffPixelShared ==
  ASSUME NEW a \in Rectangles, NEW b \in Rectangles
  PROVE  checkAABBCollision(a, b) <=> \E x, y \in Int : Covers(a, x, y) /\ Covers(b, x, y)
<1> USE DEF Rectangles
<1>1. ASSUME checkAABBCollision(a, b)
      PROVE  \E x, y \in Int : Covers(a, x, y) /\ Covers(b, x, y)
  <2> DEFINE x == IF a.x < b.x THEN b.x ELSE a.x
             y == IF a.y < b.y THEN b.y ELSE a.y
  <2>1. x \in Int /\ x \in a.x .. a.x + a.w - 1 /\ x \in b.x .. b.x + b.w - 1
    BY <1>1 DEF checkAABBCollision
  <2>2. y \in Int /\ y \in a.y .. a.y + a.h - 1 /\ y \in b.y .. b.y + b.h - 1
    BY <1>1 DEF checkAABBCollision
  <2> QED BY <2>1, <2>2 DEF Covers
<1>2. ASSUME NEW x \in Int, NEW y \in Int, Covers(a, x, y), Covers(b, x, y)
      PROVE  checkAABBCollision(a, b)
  BY <1>2 DEF Covers, checkAABBCollision
<1> QED BY <1>1, <1>2

------------------------------------------------------------------------------
\* What was called with what, and that only a call with a loop changes it.
CallInv ==
  /\ call.kind = "none" => loop = <<>>
  /\ call.kind = "file" => call.data \in Files
  /\ call.kind = "challenges" => call.data \in Challenges \X Challenges
  /\ call.kind = "scene" => call.data \in Scenes
  /\ call.kind = "moment" => call.data \in Moments
  /\ call.kind = "arguments" => call.data \in CommandLines
  /\ call.kind = "signature" => call.data \in Signatures

\* At first nothing is called.
LEMMA InitCall == NoCall => CallInv
  BY DEF NoCall, CallInv

\* A turn of a loop leaves the call alone.
LEMMA NextCall == CallInv /\ [NextStep]_callVars => CallInv'
<1> SUFFICES ASSUME CallInv, [NextStep]_callVars PROVE CallInv'
  OBVIOUS
<1>1. CASE Call
  BY <1>1 DEF Call, Begin, CallInv
<1>2. ASSUME UNCHANGED call, call.kind # "none" PROVE CallInv'
  BY <1>2 DEF CallInv
<1>3. CASE UNCHANGED callVars
  BY <1>3 DEF callVars, CallInv
<1>4. CASE NextLine \/ PullValue \/ NextArgument \/ NextChar \/ \E data \in DataValues : PushValue(data)
  <2>1. UNCHANGED call /\ call.kind # "none"
    BY <1>4 DEF NextLine, PullValue, NextArgument, NextChar, PushValue
  <2> QED BY <1>2, <2>1
<1> QED BY <1>1, <1>3, <1>4 DEF NextStep

\* A sequence, of whatever.
IsSeq(s) == \E S : s \in Seq(S)

IsAppended(t, s, x) == t = Append(s, x)

\* What Append returns, of its IsAppended.
LEMMA AppendKeeps ==
  ASSUME NEW s, IsSeq(s), NEW x, NEW t, IsAppended(t, s, x)
  PROVE  /\ IsSeq(t)
         /\ Len(t) = Len(s) + 1 /\ t[Len(s) + 1] = x
         /\ \A i \in 1 .. Len(s) : t[i] = s[i]
<1>1. PICK S : s \in Seq(S)
  BY DEF IsSeq
<1> DEFINE T == S \cup {x}
<1>2. s \in Seq(T) /\ x \in T
  BY <1>1, SeqMonotonic
<1> HIDE DEF T
<1> DEFINE longer == Append(s, x)
<1>3. /\ longer \in Seq(T)
      /\ Len(longer) = Len(s) + 1 /\ longer[Len(s) + 1] = x
      /\ \A i \in 1 .. Len(s) : longer[i] = s[i]
  BY <1>2, AppendProperties
<1>4. t = longer
  BY DEF IsAppended
<1> HIDE DEF longer
<1> QED BY <1>3, <1>4 DEF IsSeq

\* The length of what IsSeq describes.
LEMMA IsSeqLen ==
  ASSUME NEW s, IsSeq(s) PROVE Len(s) \in Nat /\ DOMAIN s = 1 .. Len(s)
  BY DEF IsSeq

------------------------------------------------------------------------------
(* scrambleData *)

\* A digit is the sum of its bits.
LEMMA DigitBits ==
  ASSUME NEW a \in Digit
  PROVE  /\ a \div 1 \in Nat /\ a \div 2 \in Nat /\ a \div 4 \in Nat /\ a \div 8 \in Nat
         /\ a = ((a \div 1) % 2) + 2 * ((a \div 2) % 2) + 4 * ((a \div 4) % 2) + 8 * ((a \div 8) % 2)
  BY DEF Digit

\* Bits that give the same with a third are the same.
LEMMA SumOfParities ==
  ASSUME NEW m \in Nat, NEW n \in Nat, NEW k \in Nat
  PROVE  /\ (m + k) % 2 \in 0 .. 1
         /\ (m + k) % 2 = (n + k) % 2 => m % 2 = n % 2
  OBVIOUS

\* A digit has one sum of bits.
LEMMA BitsOfSum ==
  ASSUME NEW p \in 0 .. 1, NEW q \in 0 .. 1, NEW r \in 0 .. 1, NEW s \in 0 .. 1,
         NEW t \in 0 .. 1, NEW u \in 0 .. 1, NEW v \in 0 .. 1, NEW w \in 0 .. 1,
         1 * p + 2 * q + 4 * r + 8 * s = 1 * t + 2 * u + 4 * v + 8 * w
  PROVE  p = t /\ q = u /\ r = v /\ s = w
  OBVIOUS

\* Exclusive or with the same digit keeps digits apart.
LEMMA XorTellsApart ==
  ASSUME NEW a \in Digit, NEW b \in Digit, NEW c \in Digit
  PROVE  /\ XorDigit(a, c) \in Digit
         /\ XorDigit(a, c) = XorDigit(b, c) => a = b
<1> DEFINE bit(x, w) == (x \div w + c \div w) % 2
<1>1. /\ XorDigit(a, c) = 1 * bit(a, 1) + 2 * bit(a, 2) + 4 * bit(a, 4) + 8 * bit(a, 8)
      /\ XorDigit(b, c) = 1 * bit(b, 1) + 2 * bit(b, 2) + 4 * bit(b, 4) + 8 * bit(b, 8)
  BY Zenon DEF XorDigit, XorBit
<1>2. /\ bit(a, 1) \in 0 .. 1 /\ bit(a, 2) \in 0 .. 1 /\ bit(a, 4) \in 0 .. 1 /\ bit(a, 8) \in 0 .. 1
      /\ bit(b, 1) \in 0 .. 1 /\ bit(b, 2) \in 0 .. 1 /\ bit(b, 4) \in 0 .. 1 /\ bit(b, 8) \in 0 .. 1
  BY DigitBits, SumOfParities
<1>3. /\ bit(a, 1) = bit(b, 1) => (a \div 1) % 2 = (b \div 1) % 2
      /\ bit(a, 2) = bit(b, 2) => (a \div 2) % 2 = (b \div 2) % 2
      /\ bit(a, 4) = bit(b, 4) => (a \div 4) % 2 = (b \div 4) % 2
      /\ bit(a, 8) = bit(b, 8) => (a \div 8) % 2 = (b \div 8) % 2
  BY DigitBits, SumOfParities
<1> HIDE DEF bit
<1>4. XorDigit(a, c) \in Digit
  BY <1>1, <1>2 DEF Digit
<1>5. ASSUME XorDigit(a, c) = XorDigit(b, c) PROVE a = b
  <2>1. bit(a, 1) = bit(b, 1) /\ bit(a, 2) = bit(b, 2) /\ bit(a, 4) = bit(b, 4) /\ bit(a, 8) = bit(b, 8)
    BY <1>1, <1>2, <1>5, BitsOfSum
  <2>2. /\ a = ((a \div 1) % 2) + 2 * ((a \div 2) % 2) + 4 * ((a \div 4) % 2) + 8 * ((a \div 8) % 2)
        /\ b = ((b \div 1) % 2) + 2 * ((b \div 2) % 2) + 4 * ((b \div 4) % 2) + 8 * ((b \div 8) % 2)
    BY DigitBits
  <2>3. /\ (a \div 1) % 2 = (b \div 1) % 2 /\ (a \div 2) % 2 = (b \div 2) % 2
        /\ (a \div 4) % 2 = (b \div 4) % 2 /\ (a \div 8) % 2 = (b \div 8) % 2
    BY <1>3, <2>1
  <2> QED BY Zenon, <2>2, <2>3
<1> QED BY <1>4, <1>5

\* The digits of seven bytes change places in pairs.
LEMMA NeighbourOnto ==
  /\ \A i \in 1 .. 14 : Neighbour(i) \in 1 .. 14 /\ Neighbour(Neighbour(i)) = i
  BY DEF Neighbour

\* The two constants of scrambleData are digits.
LEMMA DigitsAre ==
  /\ \A i \in Word : Digits1[i] \in Digit
  /\ \A i \in Word : Digits2[i] \in Digit
  BY DEF Word, Digits1, Digits2, Digit

\* Of the three steps of scrambleData only Swap forgets anything: the highest byte.
LEMMA ScrambledApart ==
  ASSUME NEW a \in [Word -> Digit], NEW b \in [Word -> Digit]
  PROVE  scrambleData(a) = scrambleData(b) <=> \A i \in 1 .. 14 : a[i] = b[i]
<1> DEFINE x(c) == [i \in Word |-> XorDigit(c[i], Digits1[i])]
<1>1. ASSUME NEW c \in [Word -> Digit]
      PROVE  scrambleData(c) =
               [i \in Word |-> XorDigit(IF i > 14 THEN 0 ELSE x(c)[Neighbour(i)], Digits2[i])]
  BY DEF scrambleData, Swap
<1>2. ASSUME NEW c \in [Word -> Digit], NEW i \in Word
      PROVE  x(c)[i] = XorDigit(c[i], Digits1[i]) /\ x(c)[i] \in Digit
  BY DigitsAre, XorTellsApart
<1> HIDE DEF x
<1>3. 1 .. 14 \subseteq Word /\ 0 \in Digit
  BY DEF Word, Digit
<1>4. ASSUME NEW i \in 1 .. 14
      PROVE  scrambleData(a)[i] = scrambleData(b)[i] <=> a[Neighbour(i)] = b[Neighbour(i)]
  <2>1. Neighbour(i) \in Word /\ i \in Word /\ ~ i > 14
    BY <1>3, NeighbourOnto
  <2>2. /\ scrambleData(a)[i] = XorDigit(x(a)[Neighbour(i)], Digits2[i])
        /\ scrambleData(b)[i] = XorDigit(x(b)[Neighbour(i)], Digits2[i])
    BY <1>1, <2>1
  <2>3. scrambleData(a)[i] = scrambleData(b)[i] <=> x(a)[Neighbour(i)] = x(b)[Neighbour(i)]
    <3>1. x(a)[Neighbour(i)] \in Digit /\ x(b)[Neighbour(i)] \in Digit /\ Digits2[i] \in Digit
      BY <1>2, <2>1, DigitsAre
    <3> QED BY Zenon, <2>2, <3>1, XorTellsApart
  <2>4. x(a)[Neighbour(i)] = x(b)[Neighbour(i)] <=> a[Neighbour(i)] = b[Neighbour(i)]
    <3>1. /\ x(a)[Neighbour(i)] = XorDigit(a[Neighbour(i)], Digits1[Neighbour(i)])
          /\ x(b)[Neighbour(i)] = XorDigit(b[Neighbour(i)], Digits1[Neighbour(i)])
      BY <1>2, <2>1
    <3>2. a[Neighbour(i)] \in Digit /\ b[Neighbour(i)] \in Digit /\ Digits1[Neighbour(i)] \in Digit
      BY <2>1, DigitsAre
    <3> QED BY Zenon, <3>1, <3>2, XorTellsApart
  <2> QED BY <2>3, <2>4
<1>5. ASSUME NEW i \in Word, i > 14 PROVE scrambleData(a)[i] = scrambleData(b)[i]
  BY <1>1, <1>5
<1>6. scrambleData(a) = scrambleData(b) <=> \A i \in Word : scrambleData(a)[i] = scrambleData(b)[i]
  BY <1>1
<1>7. \A i \in Word : i > 14 \/ i \in 1 .. 14
  BY DEF Word
<1>8. (\A i \in 1 .. 14 : a[Neighbour(i)] = b[Neighbour(i)]) <=> \A i \in 1 .. 14 : a[i] = b[i]
  BY NeighbourOnto
<1> QED BY <1>3, <1>4, <1>5, <1>6, <1>7, <1>8

\* The answers to two challenges are the same only if they differ in nothing but
\* the highest byte, for any two challenges (connection.cpp:218-222).
THEOREM ChallengesToldApart == Calls => []AnswersTellApart
<1>1. CallInv => AnswersTellApart
  <2> SUFFICES ASSUME CallInv, call.kind = "challenges" PROVE AnswersTellApart
    BY DEF AnswersTellApart
  <2>1. call.data[1] \in [Word -> Digit] /\ call.data[2] \in [Word -> Digit]
    BY AlgorithmsAssumption DEF CallInv
  <2> QED BY <2>1, ScrambledApart DEF AnswersTellApart
<1> QED BY InitCall, NextCall, <1>1, PTL DEF Calls

------------------------------------------------------------------------------
(* Collision_System::update *)

\* Along one axis the test is true exactly if the boxes meet.
LEMMA MeetIsTest ==
  ASSUME NEW a \in Int, NEW length \in Nat, NEW b \in Int, NEW other \in Nat
  PROVE  Meet(a, length, b, other) <=> a < b + other /\ a + length > b
<1>1. CASE length > 0 /\ other > 0
  <2>1. ASSUME a < b + other, a + length > b
        PROVE  (a .. a + length - 1) \cap (b .. b + other - 1) # {}
    <3> DEFINE x == IF a < b THEN b ELSE a
    <3>1. x \in a .. a + length - 1 /\ x \in b .. b + other - 1
      BY <1>1, <2>1
    <3> QED BY <3>1
  <2>2. ASSUME NEW x \in (a .. a + length - 1) \cap (b .. b + other - 1)
        PROVE  a < b + other /\ a + length > b
    OBVIOUS
  <2> QED BY <1>1, <2>1, <2>2 DEF Meet
<1>2. CASE length = 0 \/ other = 0
  <2>1. (a .. a + length - 1) \cap (b .. b + other - 1) = {}
    BY <1>2
  <2> QED BY <1>2, <2>1 DEF Meet
<1> QED BY <1>1, <1>2

\* Of any scene, boxes without extent included, the collision system reports the
\* pairs that share a pixel or lie strictly inside one another without covering
\* one, each once, and no others (collision_system.cpp:24-62).
THEOREM ScenesReported == Calls => []CollidedOverlap
<1>1. ASSUME NEW scene \in Scenes, NEW i \in DOMAIN scene
      PROVE  LET r == Rectangle(scene[i]) IN r.x \in Int /\ r.y \in Int /\ r.w \in Nat /\ r.h \in Nat
  <2> DEFINE Boxes == [x : Int, y : Int, offset : Int, scale : Nat, width : Nat, height : Nat]
             e == scene[i]
  <2>1. scene \in Seq(Boxes)
    BY AlgorithmsAssumption
  <2> HIDE DEF Boxes
  <2>2. e \in Boxes
    BY <2>1
  <2> HIDE DEF e
  <2>3. /\ e.x \in Int /\ e.y \in Int /\ e.offset \in Int /\ e.scale \in Nat
        /\ e.width \in Nat /\ e.height \in Nat
    BY <2>2 DEF Boxes
  <2>4. /\ \A m, n \in Nat : m * n \in Nat
        /\ \A m \in Int, n \in Nat : m * n \in Int
    OBVIOUS
  <2>5. /\ e.x + e.offset * e.scale \in Int /\ e.y + e.offset * e.scale \in Int
        /\ e.width * e.scale \in Nat /\ e.height * e.scale \in Nat
    BY <2>3, <2>4
  <2> QED BY <2>5 DEF Rectangle, e
<1>2. ASSUME CallInv, call.kind = "scene" PROVE CollidedOverlap
  <2>1. call.data \in Scenes
    BY <1>2 DEF CallInv
  <2>2. ASSUME NEW i \in DOMAIN call.data, NEW j \in DOMAIN call.data, i < j
        PROVE  Overlap(Rectangle(call.data[i]), Rectangle(call.data[j]))
                 <=> <<i, j>> \in Collided(call.data)
    <3> DEFINE r == Rectangle(call.data[i])
               q == Rectangle(call.data[j])
    <3>1. /\ r.x \in Int /\ r.y \in Int /\ r.w \in Nat /\ r.h \in Nat
          /\ q.x \in Int /\ q.y \in Int /\ q.w \in Nat /\ q.h \in Nat
      BY <1>1, <2>1
    <3> HIDE DEF r, q
    <3>2. checkAABBCollision(r, q) <=> Overlap(r, q)
      BY <3>1, MeetIsTest DEF checkAABBCollision, Overlap
    <3>3. <<i, j>> \in Collided(call.data) <=> checkAABBCollision(r, q)
      BY <2>2 DEF Collided, r, q
    <3> QED BY <3>2, <3>3 DEF r, q
  <2>3. \A p \in Collided(call.data) : p[1] < p[2]
    BY DEF Collided
  <2> QED BY <2>2, <2>3 DEF CollidedOverlap
<1>3. CallInv => CollidedOverlap
  BY <1>2 DEF CollidedOverlap
<1> QED BY InitCall, NextCall, <1>3, PTL DEF Calls

------------------------------------------------------------------------------
(* Animation_System::update *)

\* A multiple is as big as its divisor at least.
LEMMA MultipleIsBig ==
  ASSUME NEW w \in Nat \ {0}, NEW k \in Nat \ {0}
  PROVE  w * k \in Nat /\ w * k >= w
<1>1. k - 1 \in Nat /\ w \in Nat
  OBVIOUS
<1>2. \A a, b \in Nat : a * b \in Nat
  OBVIOUS
<1>3. w * (k - 1) \in Nat
  BY <1>1, <1>2
<1>4. w * k = w + w * (k - 1)
  OBVIOUS
<1> QED BY <1>1, <1>3, <1>4

\* What division and remainder are.
LEMMA DivisionIs ==
  ASSUME NEW x \in Int, NEW w \in Nat \ {0}
  PROVE  x \div w \in Int /\ x % w \in 0 .. w - 1 /\ x = w * (x \div w) + (x % w)
  OBVIOUS

\* Remainders are unique.
LEMMA RemainderIs ==
  ASSUME NEW x \in Int, NEW w \in Nat \ {0}, NEW q \in Int, NEW r \in 0 .. w - 1, x = w * q + r
  PROVE  x % w = r
<1> DEFINE p == x \div w
           s == x % w
<1>1. p \in Int /\ s \in 0 .. w - 1 /\ x = w * p + s
  BY DivisionIs
<1> HIDE DEF p, s
<1>2. ASSUME p < q PROVE FALSE
  <2>1. q - p \in Nat \ {0}
    BY <1>1, <1>2
  <2>2. w * (q - p) >= w /\ w * (q - p) \in Nat
    BY <2>1, MultipleIsBig
  <2>3. w * (q - p) = w * q - w * p
    BY <1>1
  <2> QED BY <1>1, <2>2, <2>3
<1>3. ASSUME q < p PROVE FALSE
  <2>1. p - q \in Nat \ {0}
    BY <1>1, <1>3
  <2>2. w * (p - q) >= w /\ w * (p - q) \in Nat
    BY <2>1, MultipleIsBig
  <2>3. w * (p - q) = w * p - w * q
    BY <1>1
  <2> QED BY <1>1, <2>2, <2>3
<1>4. p = q
  BY <1>1, <1>2, <1>3
<1>5. s = r
  BY <1>1, <1>4
<1> QED BY <1>5 DEF s

\* The difference of two times, both taken of a clock that wraps around, is
\* the time between them if that is less than the wrap.
LEMMA ElapsedIs ==
  ASSUME NEW w \in Nat \ {0}, NEW a \in Nat, NEW b \in Nat, a <= b, b - a < w
  PROVE  ((b % w) - (a % w)) % w = b - a
<1> DEFINE p == a \div w
           q == b \div w
           r == a % w
           t == b % w
<1>1. p \in Int /\ r \in 0 .. w - 1 /\ a = w * p + r
  BY DivisionIs
<1>2. q \in Int /\ t \in 0 .. w - 1 /\ b = w * q + t
  BY DivisionIs
<1> HIDE DEF p, q, r, t
<1>4. t - r \in Int /\ p - q \in Int /\ b - a \in 0 .. w - 1
  BY <1>1, <1>2
<1>5. t - r = w * (p - q) + (b - a)
  <2>1. w * (p - q) = w * p - w * q
    BY <1>1, <1>2
  <2>2. b - a = w * q + t - (w * p + r)
    BY <1>1, <1>2
  <2> DEFINE m == w * p
             n == w * q
  <2>3. m \in Int /\ n \in Int
    BY <1>1, <1>2
  <2>4. w * (p - q) = m - n /\ b - a = n + t - (m + r)
    BY <2>1, <2>2
  <2> HIDE DEF m, n
  <2> QED BY <1>1, <1>2, <2>3, <2>4
<1>6. (t - r) % w = b - a
  BY <1>4, <1>5, RemainderIs
<1> QED BY <1>6 DEF t, r

\* Below the modulus a number is its own remainder.
LEMMA SmallIsItself ==
  ASSUME NEW w \in Nat \ {0}, NEW x \in 0 .. w - 1
  PROVE  x % w = x
  BY RemainderIs

\* The clock's difference is the time that passed, and no product or place of a
\* frame wraps around.
LEMMA FrameIs ==
  ASSUME NEW began \in Nat, NEW now \in Nat, NEW count \in Nat \ {0}, NEW speed \in Nat,
         NEW width \in Nat, began <= now, count * width <= Wrap, (now - began) * speed < Wrap
  PROVE  SrcX(NewAnimation(began, count, speed), width, now)
           = width * ((((now - began) * speed) \div Second) % count)
<1> DEFINE e == ((now % Wrap) - (began % Wrap)) % Wrap
           d == now - began
           f == ((d * speed) \div Second) % count
<1>1. Wrap \in Nat \ {0} /\ Second \in Nat \ {0}
  BY AnimationAssumption
<1>2. d \in Nat /\ d * speed \in 0 .. Wrap - 1
  <2>1. d \in Nat
    OBVIOUS
  <2>2. d * speed \in Nat
    BY <2>1
  <2> QED BY <1>1, <2>1, <2>2
<1>3. e * speed = d * speed
  <2>1. CASE speed = 0
    <3>1. e \in Int
      BY <1>1, DivisionIs
    <3> HIDE DEF e, d
    <3> QED BY <2>1, <1>2, <3>1
  <2>2. CASE speed # 0
    <3>1. d <= d * speed
      <4>1. CASE d = 0
        BY <4>1
      <4>2. CASE d # 0
        <5> HIDE DEF d
        <5> QED BY <1>2, <2>2, <4>2, MultipleIsBig
      <4> QED BY <4>1, <4>2
    <3>2. d < Wrap
      <4> HIDE DEF d
      <4> QED BY <1>1, <1>2, <3>1
    <3> QED BY <1>1, <3>2, ElapsedIs
  <2> QED BY <2>1, <2>2
<1>4. (e * speed) % Wrap = d * speed
  <2> HIDE DEF e, d
  <2> QED BY <1>1, <1>2, <1>3, SmallIsItself
<1>5. CurrentFrame(NewAnimation(began, count, speed), now) = f
  <2>1. CurrentFrame(NewAnimation(began, count, speed), now)
          = (((e * speed) % Wrap) \div Second) % count
    BY DEF CurrentFrame, NewAnimation, Ticks
  <2> HIDE DEF e
  <2> QED BY <1>4, <2>1
<1>6. f \in 0 .. count - 1
  <2>1. (d * speed) \div Second \in Int
    <3> HIDE DEF d
    <3> QED BY <1>1, <1>2, DivisionIs
  <2> HIDE DEF d
  <2> QED BY <2>1, DivisionIs
<1> HIDE DEF f, d, e
<1>7. f * width \in 0 .. Wrap - 1 /\ f * width = width * f
  <2>1. f \in Nat /\ count - f \in Nat \ {0}
    BY <1>6
  <2>2. f * width \in Nat /\ f * width = width * f
    BY <2>1
  <2>3. CASE width = 0
    BY <1>1, <2>1, <2>2, <2>3
  <2>4. CASE width # 0
    <3>1. width * (count - f) >= width /\ width * (count - f) \in Nat
      BY <2>1, <2>4, MultipleIsBig
    <3>2. count * width = f * width + width * (count - f)
      BY <2>1
    <3> QED BY <1>1, <2>2, <2>4, <3>1, <3>2
  <2> QED BY <2>3, <2>4
<1>8. (f * width) % Wrap = f * width
  BY <1>1, <1>7, SmallIsItself
<1>9. SrcX(NewAnimation(began, count, speed), width, now) = width * f
  BY <1>5, <1>7, <1>8, Zenon DEF SrcX
<1> QED BY <1>9 DEF f, d

\* Whenever an animation began, and whenever it is shown, the frame is the one the
\* time between asks for, as long as that times the speed fits a u32
\* (animation_system.cpp:19-20).
THEOREM AnimationsRunOnTime == Calls => []AnimatedOnTime
<1>1. CallInv => AnimatedOnTime
  <2> SUFFICES ASSUME CallInv, call.kind = "moment",
                      (call.data.now - call.data.began) * call.data.frameSpeed < Wrap
               PROVE  LET m == call.data
                      IN SrcX(NewAnimation(m.began, m.frameCount, m.frameSpeed), m.width, m.now)
                           = m.width * ((((m.now - m.began) * m.frameSpeed) \div Second) % m.frameCount)
    BY Zenon DEF AnimatedOnTime
  <2>1. /\ call.data.began \in Nat /\ call.data.now \in Nat /\ call.data.frameCount \in Nat \ {0}
        /\ call.data.frameSpeed \in Nat /\ call.data.width \in Nat
        /\ call.data.began <= call.data.now /\ call.data.frameCount * call.data.width <= Wrap
    BY AlgorithmsAssumption DEF CallInv
  <2> DEFINE began == call.data.began
             now == call.data.now
             count == call.data.frameCount
             speed == call.data.frameSpeed
             width == call.data.width
  <2> HIDE DEF began, now, count, speed, width
  <2>2. /\ began \in Nat /\ now \in Nat /\ count \in Nat \ {0} /\ speed \in Nat /\ width \in Nat
        /\ began <= now /\ count * width <= Wrap /\ (now - began) * speed < Wrap
    BY <2>1 DEF began, now, count, speed, width
  <2>3. SrcX(NewAnimation(began, count, speed), width, now)
          = width * ((((now - began) * speed) \div Second) % count)
    BY <2>2, FrameIs
  <2> QED BY <2>3, Zenon DEF began, now, count, speed, width
<1> QED BY InitCall, NextCall, <1>1, PTL DEF Calls

------------------------------------------------------------------------------
(* Message *)

\* The values pushed lie end to end in the body: the k-th begins after at[k] bytes.
LieAt(body, pushed, at) ==
  /\ at \in [1 .. Len(pushed) + 1 -> Nat]
  /\ at[1] = 0 /\ at[Len(pushed) + 1] = Len(body)
  /\ \A j, k \in 1 .. Len(pushed) + 1 : j <= k => at[j] <= at[k]
  /\ \A k \in 1 .. Len(pushed) : at[k + 1] = at[k] + Len(pushed[k])
  /\ \A k \in 1 .. Len(pushed) : \A i \in 1 .. Len(pushed[k]) : body[at[k] + i] = pushed[k][i]

MessageInv ==
  call.kind = "message" =>
    /\ loop.pushed \in Seq(Seq(Nat))
    /\ loop.message.body \in Seq(Nat)
    /\ loop.message = [body |-> loop.message.body, size |-> Len(loop.message.body)]
    /\ \E at : LieAt(loop.message.body, loop.pushed, at)

\* A pushed value lies behind the ones before it.
LEMMA PushedLieAt ==
  ASSUME NEW body \in Seq(Nat), NEW pushed \in Seq(Seq(Nat)), NEW data \in Seq(Nat),
         NEW at, LieAt(body, pushed, at)
  PROVE  LieAt(body \o data, Append(pushed, data),
               [k \in 1 .. Len(pushed) + 2 |->
                  IF k = Len(pushed) + 2 THEN Len(body) + Len(data) ELSE at[k]])
<1> DEFINE n == Len(pushed)
           more == Append(pushed, data)
           longer == body \o data
           new == [k \in 1 .. n + 2 |-> IF k = n + 2 THEN Len(body) + Len(data) ELSE at[k]]
<1>1. /\ at \in [1 .. n + 1 -> Nat] /\ at[1] = 0 /\ at[n + 1] = Len(body)
      /\ \A j, k \in 1 .. n + 1 : j <= k => at[j] <= at[k]
      /\ \A k \in 1 .. n : at[k + 1] = at[k] + Len(pushed[k])
      /\ \A k \in 1 .. n : \A i \in 1 .. Len(pushed[k]) : body[at[k] + i] = pushed[k][i]
  BY DEF LieAt
<1>2. n \in Nat /\ Len(more) = n + 1 /\ Len(longer) = Len(body) + Len(data)
  OBVIOUS
<1>3. /\ \A k \in 1 .. n : more[k] = pushed[k] /\ pushed[k] \in Seq(Nat) /\ Len(pushed[k]) \in Nat
      /\ more[n + 1] = data
  OBVIOUS
<1>4. /\ \A i \in 1 .. Len(body) : longer[i] = body[i]
      /\ \A i \in 1 .. Len(data) : longer[Len(body) + i] = data[i]
  OBVIOUS
<1>5. Len(body) \in Nat /\ Len(data) \in Nat
  OBVIOUS
<1> HIDE DEF n, more, longer
<1>6. new \in [1 .. n + 2 -> Nat] /\ new[1] = 0 /\ new[n + 2] = Len(longer)
  BY <1>1, <1>2, <1>5
<1>7. ASSUME NEW j \in 1 .. n + 2, NEW k \in 1 .. n + 2, j <= k PROVE new[j] <= new[k]
  <2>1. CASE k = n + 2 /\ j = n + 2
    <3>1. new[n + 2] \in Nat
      BY <1>2, <1>5
    <3> HIDE DEF new
    <3> QED BY <2>1, <3>1
  <2>2. CASE k = n + 2 /\ j \in 1 .. n + 1
    <3>1. new[k] = Len(body) + Len(data) /\ new[j] = at[j] /\ n + 1 \in 1 .. n + 1
      BY <1>2, <2>2
    <3>2. at[j] <= at[n + 1]
      BY <1>1, <2>2, <3>1
    <3>3. at[j] \in Nat
      BY <1>1, <2>2
    <3> HIDE DEF new
    <3> QED BY <1>1, <1>5, <3>1, <3>2, <3>3
  <2>3. CASE k \in 1 .. n + 1
    <3>1. j \in 1 .. n + 1 /\ new[j] = at[j] /\ new[k] = at[k]
      BY <1>2, <1>7, <2>3
    <3> HIDE DEF new
    <3> QED BY <1>1, <1>7, <2>3, <3>1
  <2>4. \/ k = n + 2 /\ j = n + 2
        \/ k = n + 2 /\ j \in 1 .. n + 1
        \/ k \in 1 .. n + 1
    BY <1>2
  <2> HIDE DEF new
  <2> QED BY <2>1, <2>2, <2>3, <2>4
<1>8. ASSUME NEW k \in 1 .. n + 1
      PROVE  /\ new[k + 1] = new[k] + Len(more[k])
             /\ \A i \in 1 .. Len(more[k]) : longer[new[k] + i] = more[k][i]
  <2>1. ASSUME k = n + 1
        PROVE  /\ new[k + 1] = new[k] + Len(more[k])
               /\ \A i \in 1 .. Len(more[k]) : longer[new[k] + i] = more[k][i]
    <3>1. new[k] = Len(body) /\ new[k + 1] = Len(body) + Len(data) /\ more[k] = data
      BY <1>1, <1>2, <1>3, <2>1
    <3> HIDE DEF new
    <3> QED BY <1>4, <3>1
  <2>2. ASSUME k \in 1 .. n
        PROVE  /\ new[k + 1] = new[k] + Len(more[k])
               /\ \A i \in 1 .. Len(more[k]) : longer[new[k] + i] = more[k][i]
    <3>1. new[k] = at[k] /\ new[k + 1] = at[k + 1] /\ more[k] = pushed[k]
      BY <1>2, <1>3, <2>2
    <3>2. n + 1 \in 1 .. n + 1 /\ k + 1 \in 1 .. n + 1 /\ k \in 1 .. n + 1 /\ k + 1 <= n + 1
      BY <1>2, <2>2
    <3>3. at[k + 1] <= at[n + 1]
      BY <1>1, <3>2
    <3>4. at[k] \in Nat /\ at[k + 1] \in Nat /\ at[k + 1] = at[k] + Len(pushed[k]) /\ Len(pushed[k]) \in Nat
      BY <1>1, <1>3, <2>2, <3>2
    <3> HIDE DEF new
    <3>5. ASSUME NEW i \in 1 .. Len(pushed[k]) PROVE longer[at[k] + i] = pushed[k][i]
      <4> DEFINE a == at[k]
                 l == Len(pushed[k])
      <4>1. a \in Nat /\ l \in Nat /\ a + l <= Len(body) /\ i \in 1 .. l
        BY <1>1, <3>3, <3>4
      <4> HIDE DEF a, l
      <4>2. a + i \in 1 .. Len(body)
        BY <1>5, <4>1
      <4> QED BY <1>1, <1>4, <2>2, <4>2 DEF a
    <3> QED BY <3>1, <3>4, <3>5
  <2>3. k = n + 1 \/ k \in 1 .. n
    BY <1>2
  <2> HIDE DEF new
  <2> QED BY <2>1, <2>2, <2>3
<1> HIDE DEF new
<1>9. LieAt(longer, more, new)
  <2>1. new \in [1 .. Len(more) + 1 -> Nat]
    BY <1>2, <1>6
  <2>2. n + 1 + 1 = n + 2
    BY <1>2
  <2> QED BY <1>2, <1>6, <1>7, <1>8, <2>1, <2>2 DEF LieAt
<1> QED BY <1>9, Zenon DEF new, n, more, longer

\* The last value is what the body ends with.
LEMMA LastLiesAtEnd ==
  ASSUME NEW body \in Seq(Nat), NEW pushed \in Seq(Seq(Nat)), pushed # <<>>,
         NEW at, LieAt(body, pushed, at)
  PROVE  LET n == Len(pushed)
             last == pushed[n]
         IN /\ Len(last) \in Nat /\ Len(last) <= Len(body)
            /\ at[n] = Len(body) - Len(last)
            /\ SubSeq(body, at[n] + 1, at[n] + Len(last)) = last
            /\ LieAt(SubSeq(body, 1, at[n]), SubSeq(pushed, 1, n - 1), [k \in 1 .. n |-> at[k]])
<1> DEFINE n == Len(pushed)
           last == pushed[n]
           less == SubSeq(pushed, 1, n - 1)
           shorter == SubSeq(body, 1, at[n])
           new == [k \in 1 .. n |-> at[k]]
<1>1. /\ at \in [1 .. n + 1 -> Nat] /\ at[1] = 0 /\ at[n + 1] = Len(body)
      /\ \A j, k \in 1 .. n + 1 : j <= k => at[j] <= at[k]
      /\ \A k \in 1 .. n : at[k + 1] = at[k] + Len(pushed[k])
      /\ \A k \in 1 .. n : \A i \in 1 .. Len(pushed[k]) : body[at[k] + i] = pushed[k][i]
  BY DEF LieAt
<1>2. n \in Nat \ {0} /\ Len(body) \in Nat
  OBVIOUS
<1>3. last \in Seq(Nat) /\ \A k \in 1 .. n : pushed[k] \in Seq(Nat) /\ Len(pushed[k]) \in Nat
  OBVIOUS
<1>4. at[n] \in Nat /\ Len(last) \in Nat /\ at[n] = Len(body) - Len(last)
  BY <1>1, <1>2, <1>3
<1>n. n = Len(pushed)
  OBVIOUS
<1> HIDE DEF n
<1>5. Len(less) = n - 1 /\ \A k \in 1 .. n - 1 : less[k] = pushed[k]
  BY <1>2, <1>n
<1> HIDE DEF less
<1>6. Len(shorter) = at[n] /\ \A i \in 1 .. at[n] : shorter[i] = body[i]
  <2> DEFINE a == at[n]
  <2>1. a \in Nat /\ a <= Len(body)
    BY <1>2, <1>4
  <2> HIDE DEF a
  <2>2. Len(SubSeq(body, 1, a)) = a /\ \A i \in 1 .. a : SubSeq(body, 1, a)[i] = body[i]
    BY <1>2, <2>1
  <2> QED BY <2>2 DEF a
<1>7. SubSeq(body, at[n] + 1, at[n] + Len(last)) = last
  <2> DEFINE a == at[n]
             end == SubSeq(body, a + 1, a + Len(last))
  <2>1. a \in Nat /\ a + Len(last) = Len(body)
    BY <1>2, <1>4
  <2>2. \A i \in 1 .. Len(last) : body[a + i] = last[i]
    <3>1. n \in 1 .. n
      BY <1>2
    <3> QED BY <1>1, <3>1
  <2> HIDE DEF a, last
  <2>3. end \in Seq(Nat) /\ Len(end) = Len(last)
    BY <1>2, <1>3, <1>4, <2>1
  <2>4. \A i \in 1 .. Len(last) : end[i] = body[a + i]
    BY <1>2, <1>3, <1>4, <2>1
  <2> HIDE DEF end
  <2>5. end = last
    BY <1>3, <2>2, <2>3, <2>4, SeqEqual
  <2> QED BY <2>5 DEF end, a
<1>8. LieAt(shorter, less, new)
  <2>1. new \in [1 .. n -> Nat] /\ \A k \in 1 .. n : new[k] = at[k]
    BY <1>1, <1>2
  <2>2. new[1] = 0 /\ new[n] = Len(shorter)
    BY <1>1, <1>2, <1>6, <2>1
  <2>3. \A j, k \in 1 .. n : j <= k => new[j] <= new[k]
    BY <1>1, <1>2, <2>1
  <2>4. ASSUME NEW k \in 1 .. n - 1
        PROVE  /\ new[k + 1] = new[k] + Len(less[k])
               /\ \A i \in 1 .. Len(less[k]) : shorter[new[k] + i] = less[k][i]
    <3>1. k \in 1 .. n /\ k + 1 \in 1 .. n /\ k + 1 \in 1 .. n + 1 /\ n \in 1 .. n + 1 /\ k \in 1 .. n + 1
      BY <1>2
    <3>2. new[k] = at[k] /\ new[k + 1] = at[k + 1] /\ less[k] = pushed[k] /\ Len(pushed[k]) \in Nat
      BY <1>3, <1>5, <2>1, <3>1
    <3>3. at[k + 1] <= at[n]
      BY <1>1, <1>2, <3>1
    <3>4. at[k + 1] = at[k] + Len(pushed[k]) /\ at[k] \in Nat /\ at[k + 1] \in Nat
      BY <1>1, <3>1
    <3> HIDE DEF new, shorter
    <3>5. ASSUME NEW i \in 1 .. Len(pushed[k]) PROVE shorter[at[k] + i] = pushed[k][i]
      <4> DEFINE a == at[k]
                 l == Len(pushed[k])
                 b == at[n]
      <4>1. a \in Nat /\ l \in Nat /\ b \in Nat /\ a + l <= b /\ i \in 1 .. l
        BY <1>4, <3>2, <3>3, <3>4
      <4> HIDE DEF a, l, b
      <4>2. a + i \in 1 .. b
        BY <4>1
      <4> QED BY <1>1, <1>6, <3>1, <4>2 DEF a, b
    <3> QED BY <3>2, <3>4, <3>5
  <2> HIDE DEF new, shorter
  <2>5. n - 1 + 1 = n
    BY <1>2
  <2> QED BY <1>5, <2>1, <2>2, <2>3, <2>4, <2>5 DEF LieAt
<1>9. Len(last) <= Len(body)
  <2> HIDE DEF last
  <2> QED BY <1>2, <1>4
<1> QED BY <1>4, <1>7, <1>8, <1>9, Zenon DEF n, less

\* A push keeps the values end to end.
LEMMA PushedMessage ==
  ASSUME NEW data \in DataValues, MessageInv, PushValue(data)
  PROVE  MessageInv'
<1> DEFINE body == loop.message.body
           pushed == loop.pushed
<1>1. /\ call.kind = "message" /\ call' = call
      /\ loop' = [message |-> Push(loop.message, data), pushed |-> Append(pushed, data)]
  BY DEF PushValue
<1>2. /\ pushed \in Seq(Seq(Nat)) /\ body \in Seq(Nat) /\ data \in Seq(Nat)
      /\ \E at : LieAt(body, pushed, at)
  BY <1>1, AlgorithmsAssumption DEF MessageInv
<1>3. /\ loop'.pushed = Append(pushed, data) /\ loop'.message.body = body \o data
      /\ loop'.message = [body |-> body \o data, size |-> Len(body \o data)]
  BY <1>1 DEF Push
<1> HIDE DEF body, pushed
<1>4. Append(pushed, data) \in Seq(Seq(Nat)) /\ body \o data \in Seq(Nat)
  BY <1>2
<1>5. \E at : LieAt(body \o data, Append(pushed, data), at)
  BY <1>2, PushedLieAt
<1> QED BY <1>3, <1>4, <1>5, Zenon DEF MessageInv

\* A pull takes the last value off, whose place is known.
LEMMA PulledMessage ==
  ASSUME MessageInv, PullValue
  PROVE  MessageInv'
<1> DEFINE body == loop.message.body
           pushed == loop.pushed
           n == Len(pushed)
           rest == SubSeq(body, 1, Len(body) - Len(pushed[n]))
           less == SubSeq(pushed, 1, n - 1)
<1>1. /\ call.kind = "message" /\ call' = call /\ pushed # <<>>
      /\ loop' = [message |-> Pull(loop.message, Len(pushed[n])).message, pushed |-> less]
  BY DEF PullValue, LastPushed
<1>2. /\ pushed \in Seq(Seq(Nat)) /\ body \in Seq(Nat)
      /\ \E at : LieAt(body, pushed, at)
  BY <1>1 DEF MessageInv
<1>3. /\ loop'.pushed = less /\ loop'.message.body = rest
      /\ loop'.message = [body |-> rest, size |-> Len(rest)]
  BY <1>1 DEF Pull, Position
<1> HIDE DEF body, pushed
<1>4. PICK at : LieAt(body, pushed, at)
  BY <1>2
<1>5. /\ Len(pushed[n]) \in Nat /\ at[n] = Len(body) - Len(pushed[n])
      /\ LieAt(SubSeq(body, 1, at[n]), less, [k \in 1 .. n |-> at[k]])
  BY <1>1, <1>2, <1>4, LastLiesAtEnd, Zenon
<1>6. \E a : LieAt(rest, less, a)
  BY <1>5, Zenon
<1>7. rest \in Seq(Nat) /\ less \in Seq(Seq(Nat))
  <2>1. n \in Nat /\ Len(body) \in Nat /\ at[n] \in Int /\ at[n] <= Len(body)
    BY <1>2, <1>5
  <2>2. n - 1 \in Int /\ \A i \in 1 .. n - 1 : pushed[i] \in Seq(Nat)
    BY <1>2, <2>1
  <2>3. \A i \in 1 .. at[n] : body[i] \in Nat
    BY <1>2, <2>1
  <2> QED BY <1>5, <2>1, <2>2, <2>3, SubSeqProperties
<1> HIDE DEF rest, less
<1> QED BY <1>3, <1>6, <1>7, Zenon DEF MessageInv

\* MessageInv is inductive.
LEMMA NextMessage == MessageInv /\ [NextStep]_callVars => MessageInv'
<1> SUFFICES ASSUME MessageInv, [NextStep]_callVars PROVE MessageInv'
  OBVIOUS
<1>1. ASSUME Call, call'.kind = "message" PROVE MessageInv'
  <2>1. loop' = [message |-> NewMessage, pushed |-> <<>>]
    BY <1>1 DEF Call, Begin
  <2>2. /\ loop'.pushed = <<>> /\ loop'.message.body = <<>>
        /\ loop'.message = [body |-> <<>>, size |-> 0]
    BY <2>1 DEF NewMessage
  <2>3. LieAt(<<>>, <<>>, [k \in 1 .. 1 |-> 0])
    BY DEF LieAt
  <2>4. <<>> \in Seq(Nat) /\ <<>> \in Seq(Seq(Nat)) /\ Len(<<>>) = 0
    OBVIOUS
  <2> QED BY <2>2, <2>3, <2>4, Zenon DEF MessageInv
<1>2. CASE \E data \in DataValues : PushValue(data)
  BY <1>2, PushedMessage
<1>3. CASE PullValue
  BY <1>3, PulledMessage
<1>4. CASE NextLine \/ NextArgument \/ NextChar
  BY <1>4 DEF NextLine, NextArgument, NextChar, MessageInv
<1>5. CASE UNCHANGED callVars
  BY <1>5 DEF callVars, MessageInv
<1> QED BY <1>1, <1>2, <1>3, <1>4, <1>5 DEF NextStep, MessageInv

\* Of any values, pushed and pulled in any order, the reader gets the last one
\* whole, and an emptied message is as a new one (message.h:26-53).
THEOREM MessagesAreStacks == Calls => []PulledAsPushed
<1>1. NoCall => MessageInv
  BY DEF NoCall, MessageInv
<1>2. MessageInv => PulledAsPushed
  <2> SUFFICES ASSUME MessageInv, call.kind = "message" PROVE PulledAsPushed
    BY DEF PulledAsPushed
  <2> DEFINE body == loop.message.body
             pushed == loop.pushed
             n == Len(pushed)
  <2>1. /\ pushed \in Seq(Seq(Nat)) /\ body \in Seq(Nat)
        /\ loop.message = [body |-> body, size |-> Len(body)]
        /\ \E at : LieAt(body, pushed, at)
    BY DEF MessageInv
  <2>2. PICK at : LieAt(body, pushed, at)
    BY <2>1
  <2>3. loop.message.size = Len(loop.message.body)
    BY <2>1
  <2> HIDE DEF body, pushed
  <2>4. ASSUME pushed = <<>> PROVE loop.message = NewMessage
    <3>1. body = <<>> /\ Len(body) = 0
      BY <2>1, <2>2, <2>4 DEF LieAt
    <3> QED BY <2>1, <3>1 DEF NewMessage
  <2>5. ASSUME pushed # <<>>
        PROVE  Fits(loop.message, Len(pushed[n])) /\ Pull(loop.message, Len(pushed[n])).data = pushed[n]
    <3>1. /\ Len(pushed[n]) <= Len(body) /\ at[n] = Len(body) - Len(pushed[n])
          /\ SubSeq(body, at[n] + 1, at[n] + Len(pushed[n])) = pushed[n]
      BY <2>1, <2>2, <2>5, LastLiesAtEnd, Zenon
    <3> QED BY <3>1 DEF Fits, Pull, Position, body
  <2> QED BY <2>3, <2>4, <2>5 DEF PulledAsPushed, LastPushed, pushed
<1> QED BY NextMessage, <1>1, <1>2, PTL DEF Calls

------------------------------------------------------------------------------
(* cleanupOutputString *)

\* How many of a set are up to a number.
LEMMA CountUpTo ==
  ASSUME NEW S \in SUBSET Nat, NEW m \in Nat
  PROVE  /\ Cardinality(S \cap 1 .. m) \in Nat
         /\ \A i \in 1 .. m : i \in S => /\ Cardinality(S \cap 1 .. i) \in Nat \ {0}
                                         /\ Cardinality(S \cap 1 .. i) <= Cardinality(S \cap 1 .. m)
         /\ m # 0 /\ m \in S => Cardinality(S \cap 1 .. m) = Cardinality(S \cap 1 .. m - 1) + 1
<1>1. ASSUME NEW i \in Nat PROVE IsFiniteSet(S \cap 1 .. i) /\ Cardinality(S \cap 1 .. i) \in Nat
  <2>1. IsFiniteSet(1 .. i)
    <3>1. 1 \in Int /\ i \in Int
      OBVIOUS
    <3> QED BY <3>1, FS_Interval
  <2>2. S \cap 1 .. i \subseteq 1 .. i
    OBVIOUS
  <2>3. IsFiniteSet(S \cap 1 .. i)
    BY <2>1, <2>2, FS_Subset
  <2> QED BY <2>3, FS_CardinalityType
<1>2. ASSUME NEW i \in 1 .. m, i \in S
      PROVE  /\ Cardinality(S \cap 1 .. i) \in Nat \ {0}
             /\ Cardinality(S \cap 1 .. i) <= Cardinality(S \cap 1 .. m)
  <2>1. S \cap 1 .. i \subseteq S \cap 1 .. m /\ i \in S \cap 1 .. i /\ i \in Nat
    BY <1>2
  <2>2. Cardinality(S \cap 1 .. i) <= Cardinality(S \cap 1 .. m)
    BY <1>1, <2>1, FS_Subset
  <2>3. Cardinality(S \cap 1 .. i) # 0
    BY <1>1, <2>1, FS_EmptySet
  <2> QED BY <1>1, <2>1, <2>2, <2>3
<1>3. ASSUME m # 0, m \in S PROVE Cardinality(S \cap 1 .. m) = Cardinality(S \cap 1 .. m - 1) + 1
  <2>1. /\ S \cap 1 .. m = (S \cap 1 .. m - 1) \cup {m}
        /\ m \notin S \cap 1 .. m - 1
        /\ m - 1 \in Nat
    BY <1>3
  <2>2. IsFiniteSet(S \cap 1 .. m - 1)
    BY <1>1, <2>1
  <2> QED BY <2>1, <2>2, FS_AddElement
<1> QED BY <1>1, <1>2, <1>3

\* The chars of a signature that no calling convention takes.
Matches(expr) == {i \in DOMAIN expr : OccursAt(Convention, expr, i)}

Kept(expr) ==
  {i \in DOMAIN expr : \A k \in Matches(expr) : i \notin k .. k + Len(Convention) - 1}

Separated(expr) == \A i, k \in Matches(expr) : i < k => i + Len(Convention) < k

\* What is copied is what is kept before src, and src is past the char after each
\* match before it.
CleanedTo(expr, src, Data) ==
  /\ Len(Data) = Cardinality(Kept(expr) \cap 1 .. src - 1)
  /\ \A i \in Kept(expr) : i < src => Data[Cardinality(Kept(expr) \cap 1 .. i)] = Clean(expr[i])
  /\ \A k \in Matches(expr) : k < src => k + Len(Convention) < src

CleanInv ==
  call.kind = "signature" =>
    LET expr == call.data
    IN /\ loop.src \in Nat \ {0}
       /\ loop.Data \in Seq(Nat)
       /\ Separated(expr) => CleanedTo(expr, loop.src, loop.Data)

\* A calling convention has a char at least.
LEMMA ConventionLength == Len(Convention) \in Nat \ {0}
  BY AlgorithmsAssumption

\* What a char is replaced by is a char.
LEMMA CleanChar == \A c \in Nat : Clean(c) \in Nat
  BY DEF Clean, Apostrophe

\* One turn of the loop from p, with q where the char is that is copied.
CopyFrom(expr, p) == IF OccursAt(Convention, expr, p) THEN p + Len(Convention) ELSE p

Copied(expr, q, Data) == IF q > Len(expr) THEN Data ELSE Append(Data, Clean(expr[q]))

\* A turn copies one kept char, at its rank: the match it may pass over is followed
\* by no other at once.
LEMMA CleanTurn ==
  ASSUME NEW expr \in Seq(Nat), NEW p \in 1 .. Len(expr), NEW Data \in Seq(Nat),
         Separated(expr), CleanedTo(expr, p, Data)
  PROVE  CleanedTo(expr, CopyFrom(expr, p) + 1, Copied(expr, CopyFrom(expr, p), Data))
<1> DEFINE q == CopyFrom(expr, p)
           Data2 == Copied(expr, q, Data)
           n == Len(Convention)
           N == Len(expr)
           K == Kept(expr)
           M == Matches(expr)
           rank(i) == Cardinality(K \cap 1 .. i)
<1>1. n \in Nat \ {0} /\ N \in Nat /\ p \in 1 .. N /\ q \in Nat \ {0} /\ q >= p
  BY ConventionLength DEF CopyFrom
<1>2. /\ M \subseteq 1 .. N /\ K \subseteq 1 .. N
      /\ \A i \in 1 .. N : i \in K <=> \A k \in M : i \notin k .. k + n - 1
  BY DEF Kept, Matches
<1>c. /\ Len(Data) = rank(p - 1)
      /\ \A i \in K : i < p => Data[rank(i)] = Clean(expr[i])
      /\ \A k \in M : k < p => k + n < p
  BY DEF CleanedTo
<1>3. \/ p \in M /\ q = p + n
      \/ p \notin M /\ q = p
  BY DEF Matches, CopyFrom
<1> HIDE DEF q
<1>4. ASSUME NEW k \in M
      PROVE  \/ k < p /\ k + n < p
             \/ k = p /\ q = p + n
             \/ k > q
  <2>1. k \in Nat
    BY <1>1, <1>2
  <2>2. CASE k < p
    BY <1>c, <2>2
  <2>3. CASE k = p
    BY <1>3, <2>3
  <2>4. CASE k > p
    <3>1. p \in M => p + n < k
      BY <2>4 DEF Separated
    <3> HIDE DEF n, M
    <3> QED BY <1>3, <2>4, <3>1
  <2> QED BY <1>1, <2>1, <2>2, <2>3, <2>4
<1> HIDE DEF n, N, K, M
<1>5. K \cap 1 .. q - 1 = K \cap 1 .. p - 1
  <2>1. ASSUME NEW i \in K, i \in 1 .. q - 1 PROVE i \in 1 .. p - 1
    <3>1. CASE p \in M
      <4>1. i \notin p .. p + n - 1
        BY <1>2, <3>1
      <4> QED BY <1>1, <1>3, <2>1, <4>1
    <3>2. CASE p \notin M
      BY <1>3, <2>1, <3>2
    <3> QED BY <3>1, <3>2
  <2> QED BY <1>1, <2>1
<1>6. q <= N => q \in K
  <2>1. ASSUME NEW k \in M, q <= N PROVE q \notin k .. k + n - 1
    <3>1. k \in Nat
      BY <1>1, <1>2
    <3> QED BY <1>1, <1>4, <3>1
  <2>2. q \in 1 .. N \/ q > N
    BY <1>1
  <2> QED BY <1>1, <1>2, <2>1, <2>2
<1>7. ASSUME NEW k \in M, k < q + 1 PROVE k + n < q + 1
  <2>1. k \in Nat
    BY <1>1, <1>2
  <2> QED BY <1>1, <1>4, <1>7, <2>1
<1>8. K \in SUBSET Nat
  BY <1>1, <1>2
<1>9. rank(q - 1) = Len(Data) /\ rank(q - 1) \in Nat
  <2>1. rank(q - 1) = rank(p - 1)
    BY <1>5
  <2> QED BY <1>8, <1>c, <2>1, CountUpTo, <1>1
<1>10. \A i \in K : i < q => Data[rank(i)] = Clean(expr[i]) /\ rank(i) \in 1 .. Len(Data)
  <2> SUFFICES ASSUME NEW i \in K, i < q
               PROVE  Data[rank(i)] = Clean(expr[i]) /\ rank(i) \in 1 .. Len(Data)
    OBVIOUS
  <2>1. i \in 1 .. q - 1 /\ q - 1 \in Nat
    BY <1>1, <1>2
  <2>2. i < p
    BY <1>1, <1>5, <2>1
  <2>3. Data[rank(i)] = Clean(expr[i])
    BY <1>c, <2>2
  <2>4. rank(i) \in Nat \ {0} /\ rank(i) <= rank(q - 1)
    BY <1>8, <2>1, CountUpTo
  <2> HIDE DEF rank
  <2> QED BY <1>9, <2>3, <2>4
<1>13. (q + 1) - 1 = q
  BY <1>1
<1>11. CASE q > N
  <2>1. K \cap 1 .. q = K \cap 1 .. q - 1
    BY <1>1, <1>2, <1>11
  <2>2. Data2 = Data
    BY <1>11 DEF N, Copied
  <2> HIDE DEF Data2
  <2>3. \A i \in K : i < q + 1 => i < q
    BY <1>1, <1>2, <1>11
  <2>4. rank(q) = Len(Data2)
    BY <1>9, <2>1, <2>2
  <2>5. \A i \in K : i < q + 1 => Data2[rank(i)] = Clean(expr[i])
    BY <1>10, <2>2, <2>3
  <2>6. CleanedTo(expr, q + 1, Data2)
    BY <1>7, <1>13, <2>4, <2>5, Zenon DEF CleanedTo, K, M, n
  <2> QED BY <2>6 DEF q, Data2
<1>12. CASE ~ q > N
  <2>1. q \in K /\ q \in Nat /\ q # 0 /\ q \in 1 .. N
    BY <1>1, <1>6, <1>12
  <2>2. rank(q) = rank(q - 1) + 1
    BY <1>8, <2>1, CountUpTo
  <2> DEFINE c == Clean(expr[q])
  <2>3. Data2 = Append(Data, c) /\ c \in Nat
    <3>1. q \in 1 .. Len(expr)
      BY <2>1 DEF N
    <3>2. expr[q] \in Nat
      BY <3>1
    <3> QED BY <3>1, <3>2, CleanChar, <1>12 DEF N, Copied
  <2> HIDE DEF Data2
  <2> HIDE DEF c
  <2>4. /\ Len(Data2) = Len(Data) + 1 /\ Data2[Len(Data) + 1] = c
        /\ \A i \in 1 .. Len(Data) : Data2[i] = Data[i]
    <3>1. IsAppended(Data2, Data, c) /\ IsSeq(Data)
      BY <2>3, Zenon DEF IsAppended, IsSeq
    <3> QED BY <3>1, AppendKeeps
  <2>5. rank(q) = Len(Data2)
    BY <1>9, <2>2, <2>4
  <2>6. ASSUME NEW i \in K, i < q + 1 PROVE Data2[rank(i)] = Clean(expr[i])
    <3>1. CASE i = q
      <4>1. Data2[rank(q)] = c
        BY <1>9, <2>2, <2>4
      <4> QED BY <3>1, <4>1 DEF c
    <3>2. CASE i < q
      <4>1. Data[rank(i)] = Clean(expr[i]) /\ rank(i) \in 1 .. Len(Data)
        BY <1>10, <3>2
      <4> HIDE DEF rank
      <4>2. Data2[rank(i)] = Data[rank(i)]
        BY <2>4, <4>1
      <4> QED BY <4>1, <4>2, Zenon
    <3>3. i \in Nat
      BY <1>8
    <3>4. i = q \/ i < q
      BY <1>1, <2>6, <3>3
    <3> QED BY <3>1, <3>2, <3>4
  <2>7. CleanedTo(expr, q + 1, Data2)
    BY <1>7, <1>13, <2>5, <2>6, Zenon DEF CleanedTo, K, M, n
  <2> QED BY <2>7 DEF q, Data2
<1> QED BY <1>11, <1>12 DEF q

\* CleanInv is inductive.
LEMMA NextClean == CleanInv /\ CallInv /\ [NextStep]_callVars => CleanInv'
<1> SUFFICES ASSUME CleanInv, CallInv, [NextStep]_callVars PROVE CleanInv'
  OBVIOUS
<1>1. ASSUME Call, call'.kind = "signature" PROVE CleanInv'
  <2>1. loop' = NewClean /\ call'.data \in Signatures
    BY <1>1 DEF Call, Begin
  <2>2. loop'.src = 1 /\ loop'.Data = <<>>
    BY <2>1 DEF NewClean
  <2> DEFINE expr == call'.data
  <2>3. DOMAIN expr = 1 .. Len(expr) /\ Len(expr) \in Nat
    BY <2>1, AlgorithmsAssumption
  <2> HIDE DEF expr
  <2>4. Matches(expr) \subseteq 1 .. Len(expr) /\ Kept(expr) \subseteq 1 .. Len(expr)
    BY <2>3 DEF Matches, Kept
  <2>5. Cardinality(Kept(expr) \cap 1 .. 1 - 1) = 0
    <3>1. Kept(expr) \cap 1 .. 1 - 1 = {}
      OBVIOUS
    <3> QED BY <3>1, FS_EmptySet
  <2>6. ~ (\E i \in Kept(expr) : i < 1) /\ ~ (\E k \in Matches(expr) : k < 1)
    BY <2>3, <2>4
  <2>7. <<>> \in Seq(Nat) /\ Len(<<>>) = 0
    OBVIOUS
  <2> QED BY <2>2, <2>5, <2>6, <2>7 DEF CleanInv, CleanedTo, expr
<1>2. ASSUME NextChar PROVE CleanInv'
  <2> DEFINE expr == call.data
             p == loop.src
             Data == loop.Data
             q == CopyFrom(expr, p)
             Data2 == Copied(expr, q, Data)
  <2>1. call.kind = "signature" /\ call' = call /\ p <= Len(expr)
    BY <1>2 DEF NextChar, CharsLeft
  <2>2. loop'.src = q + 1 /\ loop'.Data = Data2
    BY <1>2 DEF NextChar, CleanAt, CopyFrom, Copied
  <2>3. expr \in Seq(Nat)
    BY <2>1, AlgorithmsAssumption DEF CallInv
  <2>4. /\ p \in Nat \ {0} /\ Data \in Seq(Nat)
        /\ Separated(expr) => CleanedTo(expr, p, Data)
    BY <2>1 DEF CleanInv
  <2> HIDE DEF expr, p, Data
  <2>5. q + 1 \in Nat \ {0} /\ q \in Nat \ {0} /\ (q + 1) - 1 = q
    BY <2>4, ConventionLength DEF CopyFrom
  <2>6. Data2 \in Seq(Nat)
    <3>1. CASE q > Len(expr)
      BY <2>4, <3>1 DEF Copied
    <3>2. CASE ~ q > Len(expr)
      <4>1. q \in 1 .. Len(expr)
        BY <2>3, <2>5, <3>2
      <4> HIDE DEF q
      <4>2. Clean(expr[q]) \in Nat
        BY <2>3, <4>1, CleanChar
      <4>3. Append(Data, Clean(expr[q])) \in Seq(Nat)
        BY <2>4, <4>2, AppendProperties
      <4> QED BY <3>2, <4>3 DEF Copied
    <3> QED BY <3>1, <3>2
  <2>7. Separated(expr) => CleanedTo(expr, q + 1, Data2)
    <3>1. p \in 1 .. Len(expr)
      BY <2>1, <2>3, <2>4 DEF p, expr
    <3> QED BY <2>3, <2>4, <3>1, CleanTurn, Zenon
  <2> HIDE DEF q, Data2
  <2> QED BY <2>1, <2>2, <2>5, <2>6, <2>7 DEF CleanInv, expr
<1>3. CASE NextLine \/ NextArgument \/ PullValue \/ \E data \in DataValues : PushValue(data)
  BY <1>3 DEF NextLine, NextArgument, PullValue, PushValue, CleanInv
<1>4. CASE UNCHANGED callVars
  BY <1>4 DEF callVars, CleanInv
<1> QED BY <1>1, <1>2, <1>3, <1>4 DEF NextStep, CleanInv

\* Of any signature and any calling convention, what is left is the signature
\* without the convention, each quote replaced, if its matches have chars between
\* them (instrumentor.h:151-167).
THEOREM NamesComeOutClean == Calls => []SignaturesCleaned
<1>1. NoCall => CleanInv
  BY DEF NoCall, CleanInv
<1>2. CleanInv => SignaturesCleaned
  BY DEF CleanInv, SignaturesCleaned, CleanedTo, Separated, Kept, Matches
<1> QED BY InitCall, NextCall, NextClean, <1>1, <1>2, PTL DEF Calls

------------------------------------------------------------------------------
(* cli.py *)

Succeeds(exit, name) == name \in DOMAIN exit /\ exit[name] = 0

\* The arguments up to the i-th that follow the s-th are options, and the next is not.
OptionsUpTo(argv, s, i) == \A k \in s + 1 .. i : IsOption(argv[k])

Ended(argv, i) == i + 1 <= Len(argv) => ~ IsOption(argv[i + 1])

\* The options a command at s has with this key.
Own(argv, s, key) ==
  {j \in s + 1 .. Len(argv) : argv[j].key = key /\ \A k \in s + 1 .. j : IsOption(argv[k])}

\* What the script of the command at s is given.
Given(argv, s, dict) ==
  \A key : /\ key \in DOMAIN dict <=> Own(argv, s, key) # {}
           /\ key \in DOMAIN dict =>
                \E j \in Own(argv, s, key) :
                  argv[j].value = dict[key] /\ \A k \in Own(argv, s, key) : k <= j

\* dict has the last value of each key in the first options.
DictOf(options, used, dict) ==
  \A key : /\ key \in DOMAIN dict <=> \E j \in 1 .. used : options[j].key = key
           /\ key \in DOMAIN dict =>
                \E j \in 1 .. used :
                  /\ options[j].key = key /\ options[j].value = dict[key]
                  /\ \A k \in 1 .. used : options[k].key = key => k <= j

StartedIn(run) == {run[c].at : c \in DOMAIN run}

\* The commands that were run are those typed before the n-th argument.
RunUpTo(argv, run, n) == StartedIn(run) = {j \in Typed(argv) : j < n}

\* The commands that were run, in order, each with its options; all but the last
\* succeeded.
RunInv(argv, exit, run) ==
  /\ IsSeq(run)
  /\ \A c \in 1 .. Len(run) :
       /\ run[c].at \in Typed(argv)
       /\ run[c].name = argv[run[c].at].text
       /\ run[c].name \in DOMAIN exit => Given(argv, run[c].at, run[c].dict)
  /\ \A c \in 1 .. Len(run) - 1 : run[c].at < run[c + 1].at /\ Succeeds(exit, run[c].name)

AllSucceeded(exit, run) == \A c \in 1 .. Len(run) : Succeeds(exit, run[c].name)

Taken(argv, at, i, options) ==
  /\ IsSeq(options) /\ Len(options) = i - at
  /\ \A k \in 1 .. Len(options) : options[k] = argv[at + k]

\* What holds at each place of the loop.
PlaceInv(argv, exit, phase, i, at, options, used, dict, run) ==
  /\ phase \in {"next", "collect", "script", "failed", "raised"}
  /\ i \in 1 .. Len(argv) + 1
  /\ RunInv(argv, exit, run)
  /\ phase = "next" =>
       /\ i \in Typed(argv) \/ i = Len(argv) + 1
       /\ AllSucceeded(exit, run)
       /\ RunUpTo(argv, run, i)
  /\ phase \in {"collect", "script", "raised"} =>
       /\ at \in Typed(argv) /\ at <= i /\ i <= Len(argv)
       /\ OptionsUpTo(argv, at, i) /\ Taken(argv, at, i, options)
       /\ AllSucceeded(exit, run)
       /\ RunUpTo(argv, run, at)
  /\ phase = "collect" => used = 0 /\ dict = <<>>
  /\ phase = "script" =>
       /\ used \in 0 .. Len(options) /\ DictOf(options, used, dict)
       /\ Ended(argv, i)
  /\ phase = "failed" =>
       /\ run # <<>> /\ ~ Succeeds(exit, run[Len(run)].name)
       /\ RunUpTo(argv, run, i)
  /\ phase = "raised" => i + 1 <= Len(argv) /\ argv[i + 1].begins = "none"

IsLoop(l) ==
  l = [phase |-> l.phase, i |-> l.i, at |-> l.at, options |-> l.options, used |-> l.used,
       dict |-> l.dict, run |-> l.run]

TurnInv(argv, exit, l) ==
  /\ IsLoop(l)
  /\ PlaceInv(argv, exit, l.phase, l.i, l.at, l.options, l.used, l.dict, l.run)

\* The set of the commands typed before an argument, with the command at s and
\* its options.
LEMMA TypedBefore ==
  ASSUME NEW argv \in Seq(Arguments), NEW s \in Typed(argv), NEW i \in s .. Len(argv),
         OptionsUpTo(argv, s, i)
  PROVE  {j \in Typed(argv) : j < i + 1} = {j \in Typed(argv) : j < s} \cup {s}
<1>1. Typed(argv) \subseteq 1 .. Len(argv) /\ Len(argv) \in Nat /\ s \in Nat \ {0} /\ i \in Nat
  BY DEF Typed
<1>2. ASSUME NEW j \in Typed(argv), j < i + 1, ~ j < s PROVE j = s
  <2>1. j \in Nat
    BY <1>1
  <2>2. j # s => j \in s + 1 .. i /\ j # 1
    BY <1>1, <1>2, <2>1
  <2> QED BY <2>2 DEF Typed, OptionsUpTo
<1>3. \A j \in Typed(argv) : j < s => j < i + 1
  BY <1>1
<1>4. s < i + 1
  BY <1>1
<1> QED BY <1>2, <1>3, <1>4

\* With all its options in dict, a script is given what is its own.
LEMMA DictIsGiven ==
  ASSUME NEW argv \in Seq(Arguments), NEW s \in Typed(argv), NEW i \in s .. Len(argv),
         NEW options, NEW dict,
         OptionsUpTo(argv, s, i), Ended(argv, i), Taken(argv, s, i, options),
         DictOf(options, Len(options), dict)
  PROVE  Given(argv, s, dict)
<1>1. Len(argv) \in Nat /\ s \in Nat \ {0} /\ i \in Nat /\ s <= i /\ i <= Len(argv)
  BY DEF Typed
<1>2. Len(options) = i - s /\ \A k \in 1 .. i - s : options[k] = argv[s + k]
  BY DEF Taken
<1>3. ASSUME NEW key, NEW j PROVE j \in Own(argv, s, key) <=> j \in s + 1 .. i /\ argv[j].key = key
  <2>1. ASSUME j \in Own(argv, s, key) PROVE j \in s + 1 .. i
    <3>1. j \in s + 1 .. Len(argv) /\ \A k \in s + 1 .. j : IsOption(argv[k])
      BY <2>1 DEF Own
    <3>2. i + 1 \in s + 1 .. j => i + 1 <= Len(argv) /\ IsOption(argv[i + 1])
      BY <1>1, <3>1
    <3>3. i + 1 \notin s + 1 .. j
      BY <3>2 DEF Ended
    <3> QED BY <1>1, <3>1, <3>3
  <2>2. j \in s + 1 .. i => j \in s + 1 .. Len(argv) /\ \A k \in s + 1 .. j : k \in s + 1 .. i
    BY <1>1
  <2> QED BY <2>1, <2>2 DEF Own, OptionsUpTo
<1>4. ASSUME NEW j \in s + 1 .. i PROVE j - s \in 1 .. i - s /\ options[j - s] = argv[j]
  <2>1. j - s \in 1 .. i - s /\ s + (j - s) = j
    BY <1>1
  <2> QED BY <1>2, <2>1
<1>5. ASSUME NEW k \in 1 .. i - s PROVE s + k \in s + 1 .. i /\ options[k] = argv[s + k] /\ k \in Nat
  BY <1>1, <1>2
<1> SUFFICES ASSUME NEW key
             PROVE  /\ key \in DOMAIN dict <=> Own(argv, s, key) # {}
                    /\ key \in DOMAIN dict =>
                         \E j \in Own(argv, s, key) :
                           argv[j].value = dict[key] /\ \A k \in Own(argv, s, key) : k <= j
  BY DEF Given
<1>6. key \in DOMAIN dict <=> \E j \in 1 .. i - s : options[j].key = key
  BY <1>2 DEF DictOf
<1>7. key \in DOMAIN dict <=> Own(argv, s, key) # {}
  <2>1. ASSUME NEW k \in 1 .. i - s, options[k].key = key PROVE Own(argv, s, key) # {}
    BY <1>3, <1>5, <2>1
  <2>2. ASSUME NEW j \in Own(argv, s, key) PROVE \E k \in 1 .. i - s : options[k].key = key
    BY <1>3, <1>4
  <2> QED BY <1>6, <2>1, <2>2
<1>8. ASSUME key \in DOMAIN dict
      PROVE  \E j \in Own(argv, s, key) :
               argv[j].value = dict[key] /\ \A k \in Own(argv, s, key) : k <= j
  <2>1. PICK k \in 1 .. i - s :
          /\ options[k].key = key /\ options[k].value = dict[key]
          /\ \A m \in 1 .. i - s : options[m].key = key => m <= k
    BY <1>2, <1>8 DEF DictOf
  <2> DEFINE j == s + k
  <2>2. j \in Own(argv, s, key) /\ argv[j].value = dict[key]
    BY <1>3, <1>5, <2>1
  <2>3. ASSUME NEW m \in Own(argv, s, key) PROVE m <= j
    <3>1. m \in s + 1 .. i /\ argv[m].key = key
      BY <1>3
    <3>2. m - s <= k
      BY <1>4, <2>1, <3>1
    <3> QED BY <1>1, <3>1, <3>2
  <2> QED BY <2>2, <2>3
<1> QED BY <1>7, <1>8

\* One more option put into dict.
LEMMA DictOfOneMore ==
  ASSUME NEW options, NEW used \in Nat, NEW dict, DictOf(options, used, dict)
  PROVE  DictOf(options, used + 1,
                Put(dict, options[used + 1].key, options[used + 1].value))
<1> DEFINE more == Put(dict, options[used + 1].key, options[used + 1].value)
<1>1. /\ DOMAIN more = DOMAIN dict \cup {options[used + 1].key}
      /\ more[options[used + 1].key] = options[used + 1].value
      /\ \A key \in DOMAIN dict : key # options[used + 1].key => more[key] = dict[key]
  BY DEF Put
<1>2. used + 1 \in 1 .. used + 1 /\ \A j \in 1 .. used + 1 : j = used + 1 \/ j \in 1 .. used
  OBVIOUS
<1>3. \A j \in 1 .. used : j \in 1 .. used + 1 /\ j # used + 1
  OBVIOUS
<1> HIDE DEF more
<1> SUFFICES ASSUME NEW key
             PROVE  /\ key \in DOMAIN more <=> \E j \in 1 .. used + 1 : options[j].key = key
                    /\ key \in DOMAIN more =>
                         \E j \in 1 .. used + 1 :
                           /\ options[j].key = key /\ options[j].value = more[key]
                           /\ \A k \in 1 .. used + 1 : options[k].key = key => k <= j
  BY DEF DictOf, more
<1>4. key \in DOMAIN dict <=> \E j \in 1 .. used : options[j].key = key
  BY DEF DictOf
<1>5. key \in DOMAIN more <=> \E j \in 1 .. used + 1 : options[j].key = key
  BY <1>1, <1>2, <1>3, <1>4
<1>6. CASE key = options[used + 1].key
  <2>1. \A k \in 1 .. used + 1 : k <= used + 1
    OBVIOUS
  <2> QED BY <1>1, <1>2, <1>5, <1>6, <2>1
<1>7. CASE key # options[used + 1].key
  <2>1. ASSUME key \in DOMAIN more
        PROVE  \E j \in 1 .. used + 1 :
                 /\ options[j].key = key /\ options[j].value = more[key]
                 /\ \A k \in 1 .. used + 1 : options[k].key = key => k <= j
    <3>1. key \in DOMAIN dict /\ more[key] = dict[key]
      BY <1>1, <1>7, <2>1
    <3>2. PICK j \in 1 .. used :
            /\ options[j].key = key /\ options[j].value = dict[key]
            /\ \A k \in 1 .. used : options[k].key = key => k <= j
      BY <3>1 DEF DictOf
    <3>3. \A k \in 1 .. used + 1 : options[k].key = key => k <= j
      BY <1>2, <1>7, <3>2
    <3> QED BY <1>3, <3>1, <3>2, <3>3
  <2> QED BY <1>5, <2>1
<1> QED BY <1>6, <1>7

\* The command at `at` is run, with dict: it is the next of those that were typed.
LEMMA RunOneMore ==
  ASSUME NEW argv \in Seq(Arguments), NEW exit, NEW run, NEW at \in Typed(argv),
         NEW i \in at .. Len(argv), NEW dict,
         RunInv(argv, exit, run), AllSucceeded(exit, run), RunUpTo(argv, run, at),
         OptionsUpTo(argv, at, i),
         argv[at].text \in DOMAIN exit => Given(argv, at, dict)
  PROVE  LET more == Append(run, [name |-> argv[at].text, at |-> at, dict |-> dict])
         IN /\ RunInv(argv, exit, more)
            /\ RunUpTo(argv, more, i + 1)
            /\ more # <<>> /\ more[Len(more)].name = argv[at].text
            /\ Succeeds(exit, argv[at].text) => AllSucceeded(exit, more)
<1> DEFINE x == [name |-> argv[at].text, at |-> at, dict |-> dict]
           n == Len(run)
           more == Append(run, x)
<1>1. x.name = argv[at].text /\ x.at = at /\ x.dict = dict
  OBVIOUS
<1> HIDE DEF x
<1>2. IsAppended(more, run, x) /\ IsSeq(run)
  BY DEF IsAppended, RunInv
<1> HIDE DEF more
<1>3. /\ IsSeq(more) /\ Len(more) = n + 1 /\ more[n + 1] = x
      /\ \A c \in 1 .. n : more[c] = run[c]
  BY <1>2, AppendKeeps
<1>4. n \in Nat /\ DOMAIN run = 1 .. n /\ DOMAIN more = 1 .. n + 1
  BY <1>3, IsSeqLen DEF RunInv
<1> HIDE DEF n
<1>5. ASSUME NEW c \in 1 .. n + 1 PROVE c = n + 1 \/ c \in 1 .. n
  BY <1>4
<1>6. ASSUME NEW c \in 1 .. n + 1
      PROVE  /\ more[c].at \in Typed(argv)
             /\ more[c].name = argv[more[c].at].text
             /\ more[c].name \in DOMAIN exit => Given(argv, more[c].at, more[c].dict)
  <2>1. CASE c = n + 1
    BY <1>1, <1>3, <2>1
  <2>2. CASE c \in 1 .. n
    BY <1>3, <2>2 DEF RunInv, n
  <2> QED BY <1>5, <2>1, <2>2
<1>7. ASSUME NEW c \in 1 .. n PROVE more[c].at < more[c + 1].at /\ Succeeds(exit, more[c].name)
  <2>1. Succeeds(exit, more[c].name)
    BY <1>3 DEF AllSucceeded, n
  <2>2. CASE c = n
    <3>1. run[c].at \in StartedIn(run)
      BY <1>4 DEF StartedIn
    <3>2. run[c].at < at
      BY <3>1 DEF RunUpTo
    <3> QED BY <1>1, <1>3, <2>1, <2>2, <3>2
  <2>3. CASE c \in 1 .. n - 1
    <3>1. c + 1 \in 1 .. n
      BY <1>4, <2>3
    <3>2. run[c].at < run[c + 1].at
      BY <2>3 DEF RunInv, n
    <3> QED BY <1>3, <2>1, <3>1, <3>2
  <2> QED BY <1>4, <2>2, <2>3
<1>8. RunInv(argv, exit, more)
  <2>1. Len(more) - 1 = n
    BY <1>3, <1>4
  <2> QED BY <1>3, <1>6, <1>7, <2>1 DEF RunInv
<1>9. RunUpTo(argv, more, i + 1)
  <2>1. StartedIn(more) = StartedIn(run) \cup {at}
    <3>1. ASSUME NEW c \in 1 .. n + 1 PROVE more[c].at \in StartedIn(run) \cup {at}
      <4>1. CASE c = n + 1
        BY <1>1, <1>3, <4>1
      <4>2. CASE c \in 1 .. n
        BY <1>3, <1>4, <4>2 DEF StartedIn
      <4> QED BY <1>5, <4>1, <4>2
    <3>2. ASSUME NEW c \in 1 .. n PROVE run[c].at \in StartedIn(more)
      <4>1. c \in 1 .. n + 1 /\ more[c] = run[c]
        BY <1>3, <1>4
      <4> QED BY <1>4, <4>1 DEF StartedIn
    <3>3. at \in StartedIn(more)
      <4>1. n + 1 \in 1 .. n + 1 /\ more[n + 1].at = at
        BY <1>1, <1>3, <1>4
      <4> QED BY <1>4, <4>1 DEF StartedIn
    <3> QED BY <1>4, <3>1, <3>2, <3>3 DEF StartedIn
  <2> QED BY <2>1, TypedBefore DEF RunUpTo
<1>10. more # <<>> /\ more[Len(more)].name = argv[at].text
  <2>1. Len(more) # 0
    BY <1>3, <1>4
  <2>2. Len(<<>>) = 0
    OBVIOUS
  <2> QED BY <1>1, <1>3, <2>1, <2>2, Zenon
<1>11. ASSUME Succeeds(exit, argv[at].text), NEW c \in 1 .. n + 1 PROVE Succeeds(exit, more[c].name)
  <2>1. CASE c = n + 1
    BY <1>1, <1>3, <1>11, <2>1
  <2>2. CASE c \in 1 .. n
    BY <1>3, <2>2 DEF AllSucceeded, n
  <2> QED BY <1>5, <2>1, <2>2
<1>12. Succeeds(exit, argv[at].text) => AllSucceeded(exit, more)
  BY <1>3, <1>11 DEF AllSucceeded
<1> QED BY <1>8, <1>9, <1>10, <1>12, Zenon DEF more, x

\* The first argument is a command, whatever it is.
LEMMA TypedArguments ==
  ASSUME NEW argv \in Seq(Arguments) \ {<<>>}
  PROVE  /\ Len(argv) \in Nat \ {0} /\ DOMAIN argv = 1 .. Len(argv)
         /\ 1 \in Typed(argv) /\ Typed(argv) \subseteq 1 .. Len(argv)
         /\ \A k \in 1 .. Len(argv) : argv[k] \in Arguments
<1>1. /\ Len(argv) \in Nat \ {0} /\ DOMAIN argv = 1 .. Len(argv)
      /\ \A k \in 1 .. Len(argv) : argv[k] \in Arguments
  OBVIOUS
<1> QED BY <1>1 DEF Typed

IsFinished(m, l, phase, i, run) == m = [l EXCEPT !.phase = phase, !.i = i, !.run = run]

\* The fields of a loop whose command returned.
LEMMA FinishFields ==
  ASSUME NEW l, IsLoop(l), NEW phase, NEW i, NEW run,
         NEW m, IsFinished(m, l, phase, i, run)
  PROVE  /\ m.phase = phase /\ m.i = i /\ m.run = run
         /\ m.at = l.at /\ m.options = l.options /\ m.used = l.used /\ m.dict = l.dict
         /\ IsLoop(m)
  BY DEF IsLoop, IsFinished

\* A command that returns ran with what was typed for it, after all before it.
LEMMA FinishKeeps ==
  ASSUME NEW argv \in Seq(Arguments) \ {<<>>}, NEW exit, NEW l,
         TurnInv(argv, exit, l), l.phase \in {"collect", "script"}, Ended(argv, l.i),
         argv[l.at].text \in DOMAIN exit => Given(argv, l.at, l.dict)
  PROVE  TurnInv(argv, exit, Finish(argv, exit, l))
<1> DEFINE i == l.i
           at == l.at
           name == argv[at].text
           m == Finish(argv, exit, l)
           more == Append(l.run, [name |-> name, at |-> at, dict |-> l.dict])
<1>1. IsLoop(l)
  BY DEF TurnInv
<1>2. /\ m.phase = (IF RunCommand(exit, name) = 0 THEN "next" ELSE "failed")
      /\ m.i = i + 1 /\ m.run = more
      /\ IsLoop(m)
  <2> DEFINE phase == IF RunCommand(exit, name) = 0 THEN "next" ELSE "failed"
             j == i + 1
  <2>1. IsFinished(m, l, phase, j, more)
    BY Zenon DEF Finish, IsFinished
  <2> HIDE DEF phase, j, more, m, at
  <2>2. m.phase = phase /\ m.i = j /\ m.run = more /\ IsLoop(m)
    BY <1>1, <2>1, FinishFields
  <2> QED BY <2>2 DEF phase, j
<1>3. /\ at \in Typed(argv) /\ at <= i /\ i <= Len(argv) /\ i \in 1 .. Len(argv) + 1
      /\ OptionsUpTo(argv, at, i) /\ AllSucceeded(exit, l.run) /\ RunUpTo(argv, l.run, at)
      /\ RunInv(argv, exit, l.run)
  BY DEF TurnInv, PlaceInv
<1>4. i \in at .. Len(argv) /\ i + 1 \in 1 .. Len(argv) + 1
  BY <1>3, TypedArguments
<1> HIDE DEF i, at, m, name
<1>5. /\ RunInv(argv, exit, more)
      /\ RunUpTo(argv, more, i + 1)
      /\ more # <<>> /\ more[Len(more)].name = name
      /\ Succeeds(exit, name) => AllSucceeded(exit, more)
  BY <1>3, <1>4, RunOneMore DEF name, at, i
<1> HIDE DEF more
<1>6. i + 1 \in Typed(argv) \/ i + 1 = Len(argv) + 1
  <2>1. CASE i = Len(argv)
    BY <2>1
  <2>2. CASE i # Len(argv)
    <3>1. i + 1 \in 1 .. Len(argv) /\ i + 1 <= Len(argv)
      BY <1>4, <2>2, TypedArguments
    <3>2. ~ IsOption(argv[i + 1])
      BY <3>1 DEF Ended, i
    <3> QED BY <3>1, <3>2, TypedArguments DEF Typed
  <2> QED BY <2>1, <2>2
<1>7. RunCommand(exit, name) = 0 <=> Succeeds(exit, name)
  BY DEF RunCommand, Succeeds
<1>8. PlaceInv(argv, exit, m.phase, m.i, m.at, m.options, m.used, m.dict, m.run)
  <2>1. CASE Succeeds(exit, name)
    <3>1. m.phase = "next"
      BY <1>2, <1>7, <2>1
    <3> QED BY <1>2, <1>4, <1>5, <1>6, <2>1, <3>1 DEF PlaceInv
  <2>2. CASE ~ Succeeds(exit, name)
    <3>1. m.phase = "failed"
      BY <1>2, <1>7, <2>2
    <3> QED BY <1>2, <1>4, <1>5, <2>2, <3>1 DEF PlaceInv
  <2> QED BY <2>1, <2>2
<1> QED BY <1>2, <1>8, Zenon DEF TurnInv, m

\* What a turn changes in the record of the loop.
HasBegun(m, l, at, options, used, dict) ==
  m = [l EXCEPT !.phase = "collect", !.at = at, !.options = options, !.used = used, !.dict = dict]

HasPhase(m, l, phase) == m = [l EXCEPT !.phase = phase]

HasTaken(m, l, i, options) == m = [l EXCEPT !.i = i, !.options = options]

HasUsed(m, l, used, dict) == m = [l EXCEPT !.used = used, !.dict = dict]

\* The fields of a loop that begins a command.
LEMMA BegunFields ==
  ASSUME NEW l, IsLoop(l), NEW at, NEW options, NEW used, NEW dict,
         NEW m, HasBegun(m, l, at, options, used, dict)
  PROVE  /\ m.phase = "collect" /\ m.i = l.i /\ m.at = at /\ m.options = options
         /\ m.used = used /\ m.dict = dict /\ m.run = l.run /\ IsLoop(m)
  BY DEF IsLoop, HasBegun

\* The fields of a loop that changes its phase alone.
LEMMA PhaseFields ==
  ASSUME NEW l, IsLoop(l), NEW phase, NEW m, HasPhase(m, l, phase)
  PROVE  /\ m.phase = phase /\ m.i = l.i /\ m.at = l.at /\ m.options = l.options
         /\ m.used = l.used /\ m.dict = l.dict /\ m.run = l.run /\ IsLoop(m)
  BY DEF IsLoop, HasPhase

\* The fields of a loop that took an option.
LEMMA TakenFields ==
  ASSUME NEW l, IsLoop(l), NEW i, NEW options, NEW m, HasTaken(m, l, i, options)
  PROVE  /\ m.phase = l.phase /\ m.i = i /\ m.at = l.at /\ m.options = options
         /\ m.used = l.used /\ m.dict = l.dict /\ m.run = l.run /\ IsLoop(m)
  BY DEF IsLoop, HasTaken

\* The fields of a loop whose script used an option.
LEMMA UsedFields ==
  ASSUME NEW l, IsLoop(l), NEW used, NEW dict, NEW m, HasUsed(m, l, used, dict)
  PROVE  /\ m.phase = l.phase /\ m.i = l.i /\ m.at = l.at /\ m.options = l.options
         /\ m.used = used /\ m.dict = dict /\ m.run = l.run /\ IsLoop(m)
  BY DEF IsLoop, HasUsed

\* A command that begins has taken no options yet.
LEMMA BeginKeeps ==
  ASSUME NEW argv \in Seq(Arguments) \ {<<>>}, NEW exit, NEW l,
         TurnInv(argv, exit, l), l.phase = "next", l.i <= Len(argv)
  PROVE  TurnInv(argv, exit, Turn(argv, exit, l))
<1> DEFINE m == Turn(argv, exit, l)
<1>1. HasBegun(m, l, l.i, <<>>, 0, <<>>) /\ IsLoop(l)
  BY Zenon DEF Turn, HasBegun, TurnInv
<1> HIDE DEF m
<1>2. /\ m.phase = "collect" /\ m.i = l.i /\ m.at = l.i /\ m.options = <<>>
      /\ m.used = 0 /\ m.dict = <<>> /\ m.run = l.run /\ IsLoop(m)
  BY <1>1, BegunFields
<1>3. /\ l.i \in 1 .. Len(argv) + 1 /\ RunInv(argv, exit, l.run)
      /\ l.i \in Typed(argv) \/ l.i = Len(argv) + 1
      /\ AllSucceeded(exit, l.run) /\ RunUpTo(argv, l.run, l.i)
  BY DEF TurnInv, PlaceInv
<1>4. l.i \in Typed(argv) /\ l.i \in Nat
  BY <1>3, TypedArguments
<1>5. OptionsUpTo(argv, l.i, l.i) /\ Taken(argv, l.i, l.i, <<>>)
  <2>1. <<>> \in Seq({}) /\ Len(<<>>) = 0
    OBVIOUS
  <2> QED BY <1>4, <2>1 DEF OptionsUpTo, Taken, IsSeq
<1>6. PlaceInv(argv, exit, "collect", l.i, l.i, <<>>, 0, <<>>, l.run)
  BY <1>3, <1>4, <1>5 DEF PlaceInv
<1> QED BY <1>2, <1>6, Zenon DEF TurnInv, m

\* The inner loop takes the next option, raises, or ends before the next command.
LEMMA CollectKeeps ==
  ASSUME NEW argv \in Seq(Arguments) \ {<<>>}, NEW exit, NEW l,
         TurnInv(argv, exit, l), l.phase = "collect"
  PROVE  TurnInv(argv, exit, Collect(argv, exit, l))
<1> DEFINE m == Collect(argv, exit, l)
           i == l.i
           at == l.at
           options == l.options
<1>1. /\ i \in 1 .. Len(argv) + 1 /\ RunInv(argv, exit, l.run)
      /\ at \in Typed(argv) /\ at <= i /\ i <= Len(argv)
      /\ OptionsUpTo(argv, at, i) /\ Taken(argv, at, i, options)
      /\ AllSucceeded(exit, l.run) /\ RunUpTo(argv, l.run, at)
      /\ l.used = 0 /\ l.dict = <<>>
  BY DEF TurnInv, PlaceInv
<1>2. IsLoop(l)
  BY DEF TurnInv
<1>3. /\ i \in Nat /\ at \in Nat \ {0} /\ Len(argv) \in Nat /\ Len(options) \in Nat
      /\ Len(options) = i - at
  BY <1>1, TypedArguments, IsSeqLen DEF Taken
<1>4. CASE i + 1 <= Len(argv) /\ argv[i + 1].begins = "none"
  <2>1. HasPhase(m, l, "raised")
    BY <1>4, Zenon DEF Collect, HasPhase
  <2> HIDE DEF m, i, at, options
  <2>2. /\ m.phase = "raised" /\ m.i = i /\ m.at = at /\ m.options = options
        /\ m.run = l.run /\ IsLoop(m)
    BY <1>2, <2>1, PhaseFields DEF i, at, options
  <2>3. PlaceInv(argv, exit, "raised", i, at, options, m.used, m.dict, l.run)
    BY <1>1, <1>4 DEF PlaceInv
  <2> QED BY <2>2, <2>3, Zenon DEF TurnInv, m
<1>5. CASE i + 1 <= Len(argv) /\ argv[i + 1].begins # "none" /\ IsOption(argv[i + 1])
  <2> DEFINE more == Append(options, argv[i + 1])
             next == i + 1
  <2>1. HasTaken(m, l, next, more)
    BY <1>5, Zenon DEF Collect, HasTaken
  <2> HIDE DEF m, more
  <2>2. /\ m.phase = "collect" /\ m.i = next /\ m.at = at /\ m.options = more
        /\ m.used = l.used /\ m.dict = l.dict /\ m.run = l.run /\ IsLoop(m)
    BY <1>2, <2>1, TakenFields
  <2> HIDE DEF i, at, options
  <2>3. IsAppended(more, options, argv[i + 1]) /\ IsSeq(options)
    BY <1>1 DEF IsAppended, Taken, more
  <2>4. /\ IsSeq(more) /\ Len(more) = Len(options) + 1
        /\ more[Len(options) + 1] = argv[i + 1]
        /\ \A k \in 1 .. Len(options) : more[k] = options[k]
    BY <2>3, AppendKeeps
  <2>5. Taken(argv, at, i + 1, more)
    <3>1. ASSUME NEW k \in 1 .. Len(options) + 1 PROVE more[k] = argv[at + k]
      <4>1. CASE k = Len(options) + 1
        <5>1. at + k = i + 1
          BY <1>3, <4>1
        <5> QED BY <2>4, <4>1, <5>1
      <4>2. CASE k \in 1 .. Len(options)
        BY <1>1, <2>4, <4>2 DEF Taken
      <4> QED BY <1>3, <4>1, <4>2
    <3>2. Len(more) = (i + 1) - at
      BY <1>3, <2>4
    <3> QED BY <2>4, <3>1, <3>2 DEF Taken
  <2>6. OptionsUpTo(argv, at, i + 1)
    <3>1. ASSUME NEW k \in at + 1 .. i + 1 PROVE k = i + 1 \/ k \in at + 1 .. i
      BY <1>3
    <3> QED BY <1>1, <1>5, <3>1 DEF OptionsUpTo
  <2>7. i + 1 \in 1 .. Len(argv) + 1 /\ at <= i + 1 /\ i + 1 <= Len(argv)
    BY <1>1, <1>3, <1>5
  <2>8. PlaceInv(argv, exit, "collect", i + 1, at, more, 0, <<>>, l.run)
    BY <1>1, <2>5, <2>6, <2>7 DEF PlaceInv
  <2> QED BY <1>1, <2>2, <2>8, Zenon DEF TurnInv, m
<1>6. CASE Ended(argv, i) /\ ~ (i + 1 <= Len(argv) /\ argv[i + 1].begins = "none")
  <2>1. m = IF argv[at].text \in DOMAIN exit THEN [l EXCEPT !.phase = "script"]
            ELSE Finish(argv, exit, l)
    BY <1>6, Zenon DEF Collect, Ended
  <2>2. CASE argv[at].text \in DOMAIN exit
    <3>1. HasPhase(m, l, "script")
      BY <2>1, <2>2, Zenon DEF HasPhase
    <3> HIDE DEF m, i, at, options
    <3>2. /\ m.phase = "script" /\ m.i = i /\ m.at = at /\ m.options = options
          /\ m.used = l.used /\ m.dict = l.dict /\ m.run = l.run /\ IsLoop(m)
      BY <1>2, <3>1, PhaseFields DEF i, at, options
    <3>3. 0 \in 0 .. Len(options) /\ DictOf(options, 0, <<>>)
      BY <1>3 DEF DictOf
    <3>4. PlaceInv(argv, exit, "script", i, at, options, 0, <<>>, l.run)
      BY <1>1, <1>6, <3>3 DEF PlaceInv
    <3> QED BY <1>1, <3>2, <3>4, Zenon DEF TurnInv, m
  <2>3. CASE argv[at].text \notin DOMAIN exit
    BY <1>6, <2>1, <2>3, FinishKeeps
  <2> QED BY <2>2, <2>3
<1> QED BY <1>4, <1>5, <1>6 DEF Ended

\* process_args gives each key the last value among the options used so far.
LEMMA ScriptKeeps ==
  ASSUME NEW argv \in Seq(Arguments) \ {<<>>}, NEW exit, NEW l,
         TurnInv(argv, exit, l), l.phase = "script"
  PROVE  TurnInv(argv, exit, RunScript(argv, exit, l))
<1> DEFINE m == RunScript(argv, exit, l)
           options == l.options
           arg == options[l.used + 1]
           used == l.used + 1
           dict == Put(l.dict, arg.key, arg.value)
<1>1. /\ l.i \in 1 .. Len(argv) + 1 /\ RunInv(argv, exit, l.run)
      /\ l.at \in Typed(argv) /\ l.at <= l.i /\ l.i <= Len(argv)
      /\ OptionsUpTo(argv, l.at, l.i) /\ Taken(argv, l.at, l.i, options)
      /\ AllSucceeded(exit, l.run) /\ RunUpTo(argv, l.run, l.at)
      /\ l.used \in 0 .. Len(options) /\ DictOf(options, l.used, l.dict)
      /\ Ended(argv, l.i)
  BY DEF TurnInv, PlaceInv
<1>2. IsLoop(l)
  BY DEF TurnInv
<1>3. Len(options) \in Nat /\ l.used \in Nat
  BY <1>1, IsSeqLen DEF Taken
<1>4. CASE l.used < Len(options)
  <2>1. HasUsed(m, l, used, dict)
    BY <1>4, Zenon DEF RunScript, HasUsed
  <2> HIDE DEF m, dict
  <2>2. /\ m.phase = "script" /\ m.i = l.i /\ m.at = l.at /\ m.options = options
        /\ m.used = used /\ m.dict = dict /\ m.run = l.run /\ IsLoop(m)
    BY <1>2, <2>1, UsedFields
  <2>3. DictOf(options, used, dict)
    BY <1>1, <1>3, DictOfOneMore DEF dict
  <2>4. used \in 0 .. Len(options)
    BY <1>3, <1>4
  <2> HIDE DEF options, used
  <2>5. PlaceInv(argv, exit, "script", l.i, l.at, options, used, dict, l.run)
    BY <1>1, <2>3, <2>4 DEF PlaceInv
  <2> QED BY <2>2, <2>5, Zenon DEF TurnInv, m
<1>5. CASE ~ l.used < Len(options)
  <2>1. m = Finish(argv, exit, l)
    BY <1>5, Zenon DEF RunScript
  <2>2. l.used = Len(options)
    BY <1>1, <1>3, <1>5
  <2>3. l.i \in l.at .. Len(argv)
    BY <1>1, TypedArguments
  <2>4. Given(argv, l.at, l.dict)
    BY <1>1, <2>2, <2>3, DictIsGiven
  <2> QED BY <1>1, <2>1, <2>4, FinishKeeps
<1> QED BY <1>4, <1>5

\* Each turn of the loop keeps TurnInv.
LEMMA TurnKeeps ==
  ASSUME NEW argv \in Seq(Arguments) \ {<<>>}, NEW exit, NEW l,
         TurnInv(argv, exit, l), ArgumentsLeft(argv, l)
  PROVE  TurnInv(argv, exit, Turn(argv, exit, l))
<1>1. CASE l.phase = "next"
  <2>1. l.i <= Len(argv)
    BY <1>1 DEF ArgumentsLeft
  <2> QED BY <1>1, <2>1, BeginKeeps
<1>2. CASE l.phase = "collect"
  <2>1. Turn(argv, exit, l) = Collect(argv, exit, l)
    BY <1>2 DEF Turn
  <2> QED BY <1>2, <2>1, CollectKeeps
<1>3. CASE l.phase = "script"
  <2>1. Turn(argv, exit, l) = RunScript(argv, exit, l)
    BY <1>3 DEF Turn
  <2> QED BY <1>3, <2>1, ScriptKeeps
<1> QED BY <1>1, <1>2, <1>3 DEF ArgumentsLeft

ArgumentsInv == call.kind = "arguments" => TurnInv(call.data.argv, call.data.exit, loop)

\* ArgumentsInv is inductive.
LEMMA NextArguments == ArgumentsInv /\ CallInv /\ [NextStep]_callVars => ArgumentsInv'
<1> SUFFICES ASSUME ArgumentsInv, CallInv, [NextStep]_callVars PROVE ArgumentsInv'
  OBVIOUS
<1>1. ASSUME Call, call'.kind = "arguments" PROVE ArgumentsInv'
  <2>1. loop' = NewLoop /\ call'.data \in CommandLines
    BY <1>1 DEF Call, Begin
  <2> DEFINE argv == call'.data.argv
             exit == call'.data.exit
  <2>2. argv \in Seq(Arguments) \ {<<>>}
    BY <2>1, AlgorithmsAssumption
  <2> HIDE DEF argv, exit
  <2>3. /\ 1 \in Typed(argv) /\ Typed(argv) \subseteq 1 .. Len(argv) /\ Len(argv) \in Nat \ {0}
    BY <2>2, TypedArguments
  <2>4. <<>> \in Seq({}) /\ Len(<<>>) = 0 /\ DOMAIN <<>> = {}
    OBVIOUS
  <2>5. RunInv(argv, exit, <<>>) /\ AllSucceeded(exit, <<>>)
    BY <2>4 DEF RunInv, AllSucceeded, IsSeq
  <2>6. RunUpTo(argv, <<>>, 1)
    <3>1. \A j \in Typed(argv) : ~ j < 1
      BY <2>3
    <3>2. StartedIn(<<>>) = {}
      BY <2>4 DEF StartedIn
    <3> QED BY <3>1, <3>2 DEF RunUpTo
  <2>7. PlaceInv(argv, exit, "next", 1, 1, <<>>, 0, <<>>, <<>>)
    BY <2>3, <2>5, <2>6 DEF PlaceInv
  <2>8. IsLoop(NewLoop)
    BY DEF IsLoop, NewLoop
  <2>9. TurnInv(argv, exit, NewLoop)
    <3>1. /\ NewLoop.phase = "next" /\ NewLoop.i = 1 /\ NewLoop.at = 1 /\ NewLoop.options = <<>>
          /\ NewLoop.used = 0 /\ NewLoop.dict = <<>> /\ NewLoop.run = <<>>
      BY DEF NewLoop
    <3> QED BY <2>7, <2>8, <3>1, Zenon DEF TurnInv
  <2> QED BY <2>1, <2>9, Zenon DEF ArgumentsInv, argv, exit
<1>2. ASSUME NextArgument PROVE ArgumentsInv'
  <2> DEFINE argv == call.data.argv
             exit == call.data.exit
  <2>1. /\ call.kind = "arguments" /\ ArgumentsLeft(argv, loop) /\ call' = call
        /\ loop' = Turn(argv, exit, loop)
    BY <1>2 DEF NextArgument
  <2>2. argv \in Seq(Arguments) \ {<<>>} /\ TurnInv(argv, exit, loop)
    BY <2>1, AlgorithmsAssumption DEF CallInv, ArgumentsInv
  <2> HIDE DEF argv, exit
  <2>3. TurnInv(argv, exit, Turn(argv, exit, loop))
    BY <2>1, <2>2, TurnKeeps
  <2> QED BY <2>1, <2>3, Zenon DEF ArgumentsInv, argv, exit
<1>3. CASE NextLine \/ NextChar \/ PullValue \/ \E data \in DataValues : PushValue(data)
  BY <1>3 DEF NextLine, NextChar, PullValue, PushValue, ArgumentsInv
<1>4. CASE UNCHANGED callVars
  BY <1>4 DEF callVars, ArgumentsInv
<1> QED BY <1>1, <1>2, <1>3, <1>4 DEF NextStep, ArgumentsInv

\* Before the call there is no loop.
LEMMA InitArguments == NoCall => ArgumentsInv
  BY DEF NoCall, ArgumentsInv

\* For any arguments and any exit codes, the commands run in the order they are
\* typed, and the chain ends with the first that fails (cli.py:42-60).
THEOREM ChainsStop == Calls => []ChainStopsAtFailure
<1>1. ArgumentsInv /\ CallInv => ChainStopsAtFailure
  <2> SUFFICES ASSUME ArgumentsInv, CallInv, call.kind = "arguments" PROVE ChainStopsAtFailure
    BY DEF ChainStopsAtFailure
  <2> DEFINE argv == call.data.argv
             exit == call.data.exit
             run == loop.run
             n == Len(run)
             succeeds(c) == run[c].name \in DOMAIN exit /\ exit[run[c].name] = 0
  <2>1. argv \in Seq(Arguments) \ {<<>>}
    BY AlgorithmsAssumption DEF CallInv
  <2>2. PlaceInv(argv, exit, loop.phase, loop.i, loop.at, loop.options, loop.used, loop.dict, run)
    BY DEF ArgumentsInv, TurnInv
  <2>3. Started = StartedIn(run)
    BY DEF Started, StartedIn
  <2> HIDE DEF argv, exit, run
  <2>4. RunInv(argv, exit, run)
    BY <2>2 DEF PlaceInv
  <2>5. n \in Nat /\ DOMAIN run = 1 .. n
    BY <2>4, IsSeqLen DEF RunInv
  <2>6. PICK m \in Nat : RunUpTo(argv, run, m)
    <3>1. loop.i \in Nat /\ (loop.at \in Typed(argv) => loop.at \in Nat)
      BY <2>1, <2>2, TypedArguments DEF PlaceInv
    <3> QED BY <2>2, <3>1 DEF PlaceInv
  <2>7. Started \subseteq Typed(argv)
    BY <2>3, <2>6 DEF RunUpTo
  <2>8. \A c \in DOMAIN run : run[c].name = argv[run[c].at].text
    BY <2>4, <2>5 DEF RunInv
  <2>9. \A s \in Started : \A i \in Typed(argv) : i < s => i \in Started
    <3>1. ASSUME NEW s \in Typed(argv), s < m, NEW i \in Typed(argv), i < s PROVE i < m
      BY <2>1, <3>1, TypedArguments
    <3> QED BY <2>3, <2>6, <3>1 DEF RunUpTo
  <2>10. \A c \in 1 .. n - 1 : run[c].at < run[c + 1].at /\ succeeds(c)
    BY <2>4 DEF RunInv, Succeeds
  <2>11. ASSUME ~ ArgumentsLeft(argv, loop)
         PROVE  \/ Started = Typed(argv)
                \/ run # <<>> /\ ~ succeeds(n)
                \/ \E i \in Typed(argv) \ Started :
                     /\ \A j \in Typed(argv) : j < i => j \in Started
                     /\ \E k \in i + 1 .. Len(argv) :
                          argv[k].begins = "none" /\ \A j \in i + 1 .. k - 1 : IsOption(argv[j])
    <3>1. CASE loop.phase = "next"
      <4>1. loop.i = Len(argv) + 1 /\ RunUpTo(argv, run, loop.i)
        BY <2>1, <2>2, <2>11, <3>1, TypedArguments DEF PlaceInv, ArgumentsLeft
      <4>2. \A j \in Typed(argv) : j < loop.i
        BY <2>1, <4>1, TypedArguments
      <4> QED BY <2>3, <4>1, <4>2 DEF RunUpTo
    <3>2. CASE loop.phase = "failed"
      BY <2>2, <3>2 DEF PlaceInv, Succeeds
    <3>3. CASE loop.phase = "raised"
      <4> DEFINE i == loop.at
                 k == loop.i + 1
      <4>1. /\ i \in Typed(argv) /\ i <= loop.i /\ loop.i <= Len(argv)
            /\ OptionsUpTo(argv, i, loop.i) /\ RunUpTo(argv, run, i)
            /\ k <= Len(argv) /\ argv[k].begins = "none" /\ loop.i \in 1 .. Len(argv) + 1
        BY <2>2, <3>3 DEF PlaceInv
      <4>2. k \in i + 1 .. Len(argv) /\ k - 1 = loop.i /\ i \in Nat
        BY <2>1, <4>1, TypedArguments
      <4>3. i \notin Started
        BY <2>3, <4>1, <4>2 DEF RunUpTo
      <4>4. \A j \in i + 1 .. k - 1 : IsOption(argv[j])
        BY <4>1, <4>2 DEF OptionsUpTo
      <4>5. \A j \in Typed(argv) : j < i => j \in Started
        BY <2>3, <4>1 DEF RunUpTo
      <4> HIDE DEF i, k
      <4> QED BY <4>1, <4>2, <4>3, <4>4, <4>5
    <3> QED BY <2>2, <2>11, <3>1, <3>2, <3>3 DEF PlaceInv, ArgumentsLeft
  <2> QED BY <2>7, <2>8, <2>9, <2>10, <2>11 DEF ChainStopsAtFailure, argv, exit, run
<1> QED BY InitCall, NextCall, InitArguments, NextArguments, <1>1, PTL DEF Calls

\* The value under the first of the two names.
LEMMA FirstOfNames ==
  ASSUME NEW dict
  PROVE  get_arg_value(dict, Names, -1) =
           IF Names[1] \in DOMAIN dict THEN dict[Names[1]]
           ELSE IF Names[2] \in DOMAIN dict THEN dict[Names[2]] ELSE -1
<1> DEFINE found == {i \in DOMAIN Names : Names[i] \in DOMAIN dict}
           first == CHOOSE i \in found : \A j \in found : i <= j
<1>1. DOMAIN Names = {1, 2}
  <2>1. DOMAIN Names = 1 .. 2
    BY AlgorithmsAssumption
  <2> QED BY <2>1
<1>2. get_arg_value(dict, Names, -1) = IF found = {} THEN -1 ELSE dict[Names[first]]
  BY Zenon DEF get_arg_value
<1>3. CASE Names[1] \in DOMAIN dict
  <2>1. 1 \in found /\ \A j \in found : 1 <= j
    BY <1>1, <1>3
  <2>2. first \in found /\ \A j \in found : first <= j
    BY <2>1
  <2>3. first = 1
    BY <1>1, <2>1, <2>2
  <2> HIDE DEF found, first
  <2> QED BY <1>2, <1>3, <2>1, <2>3
<1>4. CASE Names[1] \notin DOMAIN dict /\ Names[2] \in DOMAIN dict
  <2>1. found = {2}
    BY <1>1, <1>4
  <2> HIDE DEF found
  <2>2. first = 2
    BY <2>1
  <2> QED BY <1>2, <1>4, <2>1, <2>2
<1>5. CASE Names[1] \notin DOMAIN dict /\ Names[2] \notin DOMAIN dict
  <2>1. found = {}
    BY <1>1, <1>5
  <2> QED BY <1>2, <1>5, <2>1
<1> QED BY <1>3, <1>4, <1>5

\* For any arguments, a script reads under a name what was typed for it, the last
\* of it, and nothing of other commands (cli.py:49-56, _helpers.py:6-25).
THEOREM OptionsArrive == Calls => []OptionsReachTheirCommand
<1>1. ArgumentsInv /\ CallInv => OptionsReachTheirCommand
  <2> SUFFICES ASSUME ArgumentsInv, CallInv, call.kind = "arguments" PROVE OptionsReachTheirCommand
    BY DEF OptionsReachTheirCommand
  <2> DEFINE argv == call.data.argv
             exit == call.data.exit
             run == loop.run
             IsLast(s, key, value) ==
               \E j \in Own(argv, s, key) :
                 argv[j].value = value /\ \A k \in Own(argv, s, key) : k <= j
  <2>1. RunInv(argv, exit, run)
    BY DEF ArgumentsInv, TurnInv, PlaceInv
  <2>2. ASSUME NEW c \in DOMAIN run, run[c].name \in DOMAIN exit
        PROVE  LET s == run[c].at
                   got == get_arg_value(run[c].dict, Names, -1)
               IN IF Own(argv, s, Names[1]) # {} THEN IsLast(s, Names[1], got)
                  ELSE IF Own(argv, s, Names[2]) # {} THEN IsLast(s, Names[2], got)
                  ELSE got = -1
    <3> DEFINE s == run[c].at
               dict == run[c].dict
    <3>1. Given(argv, s, dict)
      BY <2>1, <2>2, IsSeqLen DEF RunInv
    <3> HIDE DEF s, dict, argv, exit, run
    <3>2. ASSUME NEW key
          PROVE  /\ key \in DOMAIN dict <=> Own(argv, s, key) # {}
                 /\ key \in DOMAIN dict => IsLast(s, key, dict[key])
      BY <3>1 DEF Given
    <3> HIDE DEF IsLast
    <3> QED BY <3>2, FirstOfNames DEF s, dict
  <2> QED BY <2>2 DEF OptionsReachTheirCommand, Own
<1> QED BY InitCall, NextCall, InitArguments, NextArguments, <1>1, PTL DEF Calls

------------------------------------------------------------------------------
(* lang.h *)

\* An ASCII char has no sign.
LEMMA CharIs ==
  /\ \A c \in Ascii : c \in Nat /\ c < 128
  /\ Chars \subseteq Nat
  BY DEF Chars, Ascii

\* On ASCII the two hashes are defined by the same equation, so they are the same.
LEMMA HashesAgree ==
  ASSUME NEW str \in Seq(Ascii)
  PROVE  hash_32_fnv1a_const(str) = hash_32_fnv1a(str)
<1> DEFINE f == CHOOSE hash : hash = [n \in 0 .. Len(str) |->
                  IF n = 0 THEN val_32_const ELSE Step(hash[n - 1], str[n])]
           g == CHOOSE hash : hash = [n \in 0 .. Len(str) |->
                  IF n = 0 THEN val_32_const ELSE StepConst(hash[n - 1], str[n])]
<1>1. ASSUME NEW hash, NEW n \in 0 .. Len(str), n # 0
      PROVE  StepConst(hash[n - 1], str[n]) = Step(hash[n - 1], str[n])
  <2>1. str[n] \in Ascii
    BY <1>1
  <2>2. str[n] < 128
    BY <2>1, CharIs, Zenon
  <2> QED BY <2>2 DEF StepConst, Step
<1>2. ASSUME NEW hash
      PROVE  [n \in 0 .. Len(str) |-> IF n = 0 THEN val_32_const ELSE StepConst(hash[n - 1], str[n])]
             = [n \in 0 .. Len(str) |-> IF n = 0 THEN val_32_const ELSE Step(hash[n - 1], str[n])]
  BY <1>1
<1>3. f = g
  BY <1>2, Zenon
<1>4. hash_32_fnv1a(str) = f[Len(str)]
  BY DEF hash_32_fnv1a
<1>5. hash_32_fnv1a_const(str) = g[Len(str)]
  BY DEF hash_32_fnv1a_const
<1> QED BY <1>3, <1>4, <1>5

\* The first space of a line is the one behind its key, which has none.
LEMMA LineParts ==
  ASSUME NEW key \in Seq(Chars \ {Space}), NEW text \in Seq(Nat)
  PROVE  LET line == key \o <<Space>> \o text
         IN /\ FirstSpace(line) = Len(key) + 1
            /\ SubSeq(line, 1, Len(key)) = key
            /\ SubSeq(line, Len(key) + 2, Len(line)) = text
<1> DEFINE line == key \o <<Space>> \o text
           n == Len(key)
           m == Len(text)
<1>1. n \in Nat /\ m \in Nat /\ Space \in Nat
  BY DEF Space
<1>2. key \in Seq(Nat)
  <2>1. Chars \ {Space} \subseteq Nat
    BY CharIs
  <2> QED BY <2>1, SeqMonotonic
<1>3. /\ line \in Seq(Nat) /\ Len(line) = n + 1 + m
      /\ \A i \in 1 .. n : line[i] = key[i]
      /\ line[n + 1] = Space
      /\ \A i \in 1 .. m : line[n + 1 + i] = text[i]
  <2> DEFINE front == key \o <<Space>>
  <2>1. <<Space>> \in Seq(Nat) /\ Len(<<Space>>) = 1 /\ <<Space>>[1] = Space
    BY <1>1
  <2>2. /\ front \in Seq(Nat) /\ Len(front) = n + 1
        /\ \A i \in 1 .. n : front[i] = key[i]
        /\ front[n + 1] = Space
    BY <1>1, <1>2, <2>1
  <2>3. line = front \o text
    OBVIOUS
  <2> HIDE DEF front, n, m
  <2> DEFINE whole == front \o text
  <2>4. /\ whole \in Seq(Nat) /\ Len(whole) = n + 1 + m
        /\ \A i \in 1 .. n + 1 : whole[i] = front[i]
        /\ \A i \in 1 .. m : whole[n + 1 + i] = text[i]
    <3>1. /\ whole \in Seq(Nat) /\ Len(whole) = Len(front) + m
          /\ \A i \in 1 .. Len(front) + m :
               whole[i] = IF i <= Len(front) THEN front[i] ELSE text[i - Len(front)]
      BY <2>2, ConcatProperties DEF m
    <3>2. /\ Len(whole) = n + 1 + m
          /\ \A i \in 1 .. n + 1 + m :
               whole[i] = IF i <= n + 1 THEN front[i] ELSE text[i - (n + 1)]
      BY <2>2, <3>1, Zenon
    <3> HIDE DEF whole
    <3>3. \A i \in 1 .. n + 1 : i \in 1 .. n + 1 + m /\ i <= n + 1
      BY <1>1
    <3>5. \A i \in 1 .. n + 1 : whole[i] = front[i]
      BY <3>2, <3>3
    <3>6. ASSUME NEW i \in 1 .. m PROVE whole[n + 1 + i] = text[i]
      <4>1. n + 1 + i \in 1 .. n + 1 + m /\ ~ n + 1 + i <= n + 1 /\ (n + 1 + i) - (n + 1) = i
        BY <1>1
      <4> QED BY <3>2, <4>1
    <3> QED BY <3>1, <3>2, <3>5, <3>6
  <2>5. whole = line
    BY <2>3
  <2> HIDE DEF whole, line
  <2>6. \A i \in 1 .. n : i \in 1 .. n + 1
    BY <1>1
  <2>7. n + 1 \in 1 .. n + 1
    BY <1>1
  <2> QED BY <2>2, <2>4, <2>5, <2>6, <2>7
<1>4. \A i \in 1 .. n : key[i] # Space
  OBVIOUS
<1> HIDE DEF line, n, m
<1>5. FirstSpace(line) = n + 1
  <2> DEFINE spaces == {i \in DOMAIN line : line[i] = Space}
             first == CHOOSE i \in spaces : \A j \in spaces : i <= j
  <2>1. DOMAIN line = 1 .. n + 1 + m
    BY <1>3
  <2>2. n + 1 \in spaces
    BY <1>1, <1>3, <2>1
  <2>3. \A j \in spaces : j \in Nat /\ n + 1 <= j
    BY <1>1, <1>3, <1>4, <2>1
  <2> HIDE DEF spaces
  <2>4. first \in spaces /\ \A j \in spaces : first <= j
    BY <2>2, <2>3
  <2>5. first = n + 1
    BY <1>1, <2>2, <2>3, <2>4
  <2> QED BY <2>2, <2>5 DEF FirstSpace, spaces
<1>6. SubSeq(line, 1, n) = key
  <2> DEFINE front == SubSeq(line, 1, n)
  <2>1. front \in Seq(Nat) /\ Len(front) = n /\ \A i \in 1 .. n : front[i] = line[i]
    BY <1>1, <1>3
  <2> HIDE DEF front
  <2>2. front = key
    BY <1>2, <1>3, <2>1, SeqEqual DEF n
  <2> QED BY <2>2 DEF front
<1>7. SubSeq(line, n + 2, Len(line)) = text
  <2> DEFINE end == SubSeq(line, n + 2, n + 1 + m)
  <2>1. end \in Seq(Nat) /\ Len(end) = m /\ \A i \in 1 .. m : end[i] = line[n + 1 + i]
    BY <1>1, <1>3
  <2> HIDE DEF end
  <2>2. end = text
    BY <1>3, <2>1, SeqEqual DEF m
  <2> QED BY <1>3, <2>2 DEF end
<1> QED BY <1>5, <1>6, <1>7, Zenon DEF line, n

\* The table has the last of the lines read for each hash.
TableOf(file, read, table) ==
  \A i \in 1 .. read :
    LET id == hash_32_fnv1a(file[i][1])
    IN /\ id \in DOMAIN table
       /\ (\A j \in i + 1 .. read : hash_32_fnv1a(file[j][1]) # id) => table[id] = file[i][2]

FileInv ==
  call.kind = "file" =>
    loop.read \in 0 .. Len(call.data) /\ TableOf(call.data, loop.read, loop.table)

\* A line that is read puts its value under the hash of its key.
LEMMA LineRead ==
  ASSUME NEW file \in Files, NEW i \in 1 .. Len(file), NEW table
  PROVE  /\ Len(Lines(file)) = Len(file) /\ Len(file) \in Nat
         /\ AddLine(table, Lines(file)[i]) = Put(table, hash_32_fnv1a(file[i][1]), file[i][2])
<1> DEFINE key == file[i][1]
           text == file[i][2]
           line == key \o <<Space>> \o text
<1>1. /\ file \in Seq(Seq(Chars \ {Space}) \X Seq(Nat))
      /\ Len(file) \in Nat /\ DOMAIN file = 1 .. Len(file)
  BY AlgorithmsAssumption
<1>2. key \in Seq(Chars \ {Space}) /\ text \in Seq(Nat)
  <2>1. file[i] \in Seq(Chars \ {Space}) \X Seq(Nat)
    BY <1>1
  <2> QED BY <2>1
<1>3. Lines(file)[i] = line /\ Len(Lines(file)) = Len(file)
  <2> DEFINE n == Len(file)
             l == [k \in 1 .. n |-> file[k][1] \o <<Space>> \o file[k][2]]
  <2>1. Lines(file) = l
    BY <1>1, Zenon DEF Lines
  <2>2. n \in Nat
    BY <1>1
  <2> HIDE DEF n
  <2>3. Len(l) = n
    BY <2>2
  <2>4. l[i] = line
    BY DEF n
  <2> HIDE DEF l
  <2> QED BY <2>1, <2>3, <2>4 DEF n
<1> HIDE DEF key, text, line
<1>4. /\ FirstSpace(line) = Len(key) + 1
      /\ SubSeq(line, 1, Len(key)) = key
      /\ SubSeq(line, Len(key) + 2, Len(line)) = text
  BY <1>2, LineParts, Zenon DEF line
<1>5. Len(key) \in Nat
  BY <1>2
<1>6. AddLine(table, line) = Put(table, hash_32_fnv1a(key), text)
  <2> DEFINE pos == FirstSpace(line)
  <2>1. pos # 0 /\ pos - 1 = Len(key) /\ pos + 1 = Len(key) + 2
    BY <1>4, <1>5
  <2>2. (IF pos = 0 THEN line ELSE SubSeq(line, 1, pos - 1)) = key
    BY <1>4, <2>1, Zenon
  <2>3. SubSeq(line, pos + 1, Len(line)) = text
    BY <1>4, <2>1, Zenon
  <2> QED BY <2>2, <2>3, Zenon DEF AddLine
<1> QED BY <1>1, <1>3, <1>6 DEF key, text

\* With one more line the table has the value of the last line of each key.
LEMMA TableOneMore ==
  ASSUME NEW file, NEW read \in Nat, NEW table, TableOf(file, read, table)
  PROVE  TableOf(file, read + 1,
                 Put(table, hash_32_fnv1a(file[read + 1][1]), file[read + 1][2]))
<1> DEFINE new == hash_32_fnv1a(file[read + 1][1])
           id(i) == hash_32_fnv1a(file[i][1])
           more == Put(table, new, file[read + 1][2])
<1>1. /\ DOMAIN more = DOMAIN table \cup {new}
      /\ more[new] = file[read + 1][2]
      /\ \A k \in DOMAIN table : k # new => more[k] = table[k]
  BY DEF Put
<1> HIDE DEF more
<1>2. ASSUME NEW i \in 1 .. read + 1
      PROVE  /\ id(i) \in DOMAIN more
             /\ (\A j \in i + 1 .. read + 1 : id(j) # id(i)) => more[id(i)] = file[i][2]
  <2>1. CASE i = read + 1
    BY <1>1, <2>1
  <2>2. CASE i \in 1 .. read
    <3>1. /\ id(i) \in DOMAIN table
          /\ (\A j \in i + 1 .. read : id(j) # id(i)) => table[id(i)] = file[i][2]
      BY <2>2 DEF TableOf
    <3>2. read + 1 \in i + 1 .. read + 1 /\ \A j \in i + 1 .. read : j \in i + 1 .. read + 1
      BY <2>2
    <3>3. ASSUME \A j \in i + 1 .. read + 1 : id(j) # id(i) PROVE more[id(i)] = file[i][2]
      BY <1>1, <3>1, <3>2, <3>3
    <3> QED BY <1>1, <3>1, <3>3
  <2> QED BY <2>1, <2>2
<1> QED BY <1>2, Zenon DEF TableOf, more

\* FileInv is inductive.
LEMMA NextFile == FileInv /\ CallInv /\ [NextStep]_callVars => FileInv'
<1> SUFFICES ASSUME FileInv, CallInv, [NextStep]_callVars PROVE FileInv'
  OBVIOUS
<1>1. ASSUME Call, call'.kind = "file" PROVE FileInv'
  <2>1. loop' = NewTable /\ call'.data \in Files
    BY <1>1 DEF Call, Begin
  <2>2. loop'.read = 0
    BY <2>1 DEF NewTable
  <2>3. Len(call'.data) \in Nat
    BY <2>1, AlgorithmsAssumption
  <2>4. TableOf(call'.data, 0, loop'.table)
    BY DEF TableOf
  <2> QED BY <2>2, <2>3, <2>4 DEF FileInv
<1>2. ASSUME NextLine PROVE FileInv'
  <2> DEFINE file == call.data
             read == loop.read
  <2>1. /\ call.kind = "file" /\ call' = call /\ LinesLeft(Lines(file), loop)
        /\ loop' = ReadLine(Lines(file), loop)
    BY <1>2 DEF NextLine
  <2>2. file \in Files /\ read \in 0 .. Len(file) /\ TableOf(file, read, loop.table)
    BY <2>1 DEF CallInv, FileInv
  <2>3. Len(file) \in Nat /\ Len(Lines(file)) = Len(file)
    BY <2>2, AlgorithmsAssumption DEF Lines
  <2>4. read + 1 \in 1 .. Len(file) /\ read \in Nat
    BY <2>1, <2>2, <2>3 DEF LinesLeft
  <2>5. loop'.read = read + 1 /\ loop'.table = AddLine(loop.table, Lines(file)[read + 1])
    BY <2>1 DEF ReadLine
  <2> HIDE DEF file, read
  <2>6. TableOf(file, read + 1, loop'.table)
    BY <2>2, <2>4, <2>5, LineRead, TableOneMore
  <2>7. read + 1 \in 0 .. Len(file)
    BY <2>3, <2>4
  <2> QED BY <2>1, <2>5, <2>6, <2>7 DEF FileInv, file
<1>3. CASE NextArgument \/ NextChar \/ PullValue \/ \E data \in DataValues : PushValue(data)
  BY <1>3 DEF NextArgument, NextChar, PullValue, PushValue, FileInv
<1>4. CASE UNCHANGED callVars
  BY <1>4 DEF callVars, FileInv
<1> QED BY <1>1, <1>2, <1>3, <1>4 DEF NextStep, FileInv

\* In any language file whose keys have hashes of their own, the id that is
\* computed at compile time of an ASCII key finds the last line with that key
\* (lang.h:17-38,52-72).
THEOREM TextsAreFound == Calls => []LookupFindsLastLine
<1>1. NoCall => FileInv
  BY DEF NoCall, FileInv
<1>2. FileInv /\ CallInv => LookupFindsLastLine
  <2> SUFFICES ASSUME FileInv, CallInv, call.kind = "file",
                      NEW i \in 1 .. loop.read,
                      call.data[i][1] \in Seq(Ascii),
                      \A j \in i + 1 .. loop.read : call.data[j][1] # call.data[i][1]
               PROVE  LET id == getLocalStringID(call.data[i][1])
                      IN id \in DOMAIN loop.table /\ loop.table[id] = call.data[i][2]
    BY DEF LookupFindsLastLine
  <2> DEFINE file == call.data
             read == loop.read
  <2>1. file \in Files /\ read \in 0 .. Len(file) /\ TableOf(file, read, loop.table)
    BY DEF CallInv, FileInv
  <2>2. /\ file \in Seq(Seq(Chars \ {Space}) \X Seq(Nat))
        /\ Len(file) \in Nat /\ DOMAIN file = 1 .. Len(file)
        /\ \A m, j \in DOMAIN file :
             hash_32_fnv1a(file[m][1]) = hash_32_fnv1a(file[j][1]) => file[m][1] = file[j][1]
    <3>1. file \in Seq(Seq(Chars \ {Space}) \X Seq(Nat))
      BY <2>1, AlgorithmsAssumption
    <3>2. \A m, j \in DOMAIN file :
             hash_32_fnv1a(file[m][1]) = hash_32_fnv1a(file[j][1]) => file[m][1] = file[j][1]
      BY <2>1, AlgorithmsAssumption
    <3> QED BY <3>1, <3>2
  <2> HIDE DEF file, read
  <2>3. i \in 1 .. read /\ \A j \in i + 1 .. read : file[j][1] # file[i][1]
    BY DEF file, read
  <2>4. i \in 1 .. Len(file) /\ \A j \in i + 1 .. read : j \in 1 .. Len(file)
    <3>1. read \in 0 .. Len(file) /\ Len(file) \in Nat /\ i \in 1 .. read
      BY <2>1, <2>2, <2>3
    <3>2. \A n \in Nat : \A r \in 0 .. n : \A k \in 1 .. r :
            k \in 1 .. n /\ \A j \in k + 1 .. r : j \in 1 .. n
      OBVIOUS
    <3> QED BY <3>1, <3>2, Zenon
  <2>5. \A j \in i + 1 .. read : hash_32_fnv1a(file[j][1]) # hash_32_fnv1a(file[i][1])
    BY <2>2, <2>3, <2>4
  <2>6. file[i][1] \in Seq(Ascii)
    BY DEF file
  <2>7. getLocalStringID(file[i][1]) = hash_32_fnv1a(file[i][1])
    BY <2>6, HashesAgree, Zenon DEF getLocalStringID
  <2>8. /\ hash_32_fnv1a(file[i][1]) \in DOMAIN loop.table
        /\ loop.table[hash_32_fnv1a(file[i][1])] = file[i][2]
    BY <2>1, <2>3, <2>5 DEF TableOf
  <2> QED BY <2>7, <2>8 DEF file
<1> QED BY InitCall, NextCall, NextFile, <1>1, <1>2, PTL DEF Calls
==============================================================================
