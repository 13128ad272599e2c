------------------------- MODULE VlcHandles_proofs -------------------------
(***************************************************************************)
(* Handles that are released by the program and by the finalizer, for      *)
(* every finite number of descriptors, players and VLMs.                   *)
(***************************************************************************)
EXTENDS VlcHandles, TLAPS, FiniteSetTheorems

(* The objects that hold a reference to a media.                           *)
Handles(m) == {d \in (Descriptors \cap created) \ released : instance[d] = m}
Plays(m)   == {p \in (Players \cap created) \ released : instance[mediaDescriptor[p]] = m}
Listed(m)  == {m} \cap inList

Count(m) == Cardinality(Handles(m)) + Cardinality(Plays(m)) + Cardinality(Listed(m))

LEMMA Exact ==
    RefsExact <=> \A m \in Descriptors : refs[m] = Count(m)
BY DEF RefsExact, Count, Handles, Plays, Listed

LEMMA ExactNext ==
    RefsExact' <=> \A m \in Descriptors : refs'[m] = Count(m)'
BY DEF RefsExact, Count, Handles, Plays, Listed

LEMMA Counted ==
    ASSUME NEW S, S \subseteq Objects
    PROVE  IsFiniteSet(S) /\ Cardinality(S) \in Nat
<1>1. IsFiniteSet(S)
    BY ObjectsAssumption, FS_Subset
<1> QED BY <1>1, FS_CardinalityType

LEMMA Finite ==
    ASSUME NEW m \in Descriptors
    PROVE  /\ IsFiniteSet(Handles(m)) /\ Cardinality(Handles(m)) \in Nat
           /\ IsFiniteSet(Plays(m)) /\ Cardinality(Plays(m)) \in Nat
<1>1. Handles(m) \subseteq Objects /\ Plays(m) \subseteq Objects
    BY DEF Handles, Plays, Objects
<1> QED BY <1>1, Counted

LEMMA ListedOnce ==
    ASSUME NEW m
    PROVE  /\ m \in inList => Cardinality(Listed(m)) = 1
           /\ m \notin inList => Cardinality(Listed(m)) = 0
<1>1. CASE m \in inList
    BY <1>1, FS_Singleton DEF Listed
<1>2. CASE m \notin inList
  <2>1. Listed(m) = {}
      BY <1>2 DEF Listed
  <2> QED BY <1>2, <2>1, FS_EmptySet
<1> QED BY <1>1, <1>2

LEMMA ListedOnceNext ==
    ASSUME NEW CONSTANT m
    PROVE  /\ m \in inList' => Cardinality(Listed(m)') = 1
           /\ m \notin inList' => Cardinality(Listed(m)') = 0
<1>1. CASE m \in inList'
    BY <1>1, FS_Singleton DEF Listed
<1>2. CASE m \notin inList'
  <2>1. Listed(m)' = {}
      BY <1>2 DEF Listed
  <2> QED BY <1>2, <2>1, FS_EmptySet
<1> QED BY <1>1, <1>2

(* Who holds a reference keeps the media.                                  *)
LEMMA Positive ==
    ASSUME RefsExact, NEW m \in Descriptors,
           Handles(m) # {} \/ Plays(m) # {} \/ m \in inList
    PROVE  refs[m] \in Nat /\ refs[m] > 0
<1>1. refs[m] = Cardinality(Handles(m)) + Cardinality(Plays(m)) + Cardinality(Listed(m))
    BY Exact DEF Count
<1>2. Handles(m) # {} => Cardinality(Handles(m)) # 0
    BY Finite, FS_EmptySet
<1>3. Plays(m) # {} => Cardinality(Plays(m)) # 0
    BY Finite, FS_EmptySet
<1>4. Cardinality(Listed(m)) \in {0, 1} /\ (m \in inList => Cardinality(Listed(m)) = 1)
    BY ListedOnce
<1> QED BY <1>1, <1>2, <1>3, <1>4, Finite

---------------------------------------------------------------------------
(* The release methods: each gives back what its object held.              *)

SameMedia ==
    /\ Descriptors \cap created' = Descriptors \cap created
    /\ Players \cap created' = Players \cap created
    /\ UNCHANGED <<mediaDescriptor, instance>>

LEMMA SameHolders ==
    ASSUME SameMedia, released' \cap (Descriptors \cup Players) = released \cap (Descriptors \cup Players),
           NEW m \in Descriptors
    PROVE  Handles(m)' = Handles(m) /\ Plays(m)' = Plays(m)
BY DEF SameMedia, Handles, Plays

LEMMA ForgetCounts ==
    ASSUME IInv, SameMedia, NEW d \in (Descriptors \cap created) \ released,
           released' = released \cup {d}, Forget(instance[d])
    PROVE  RefsExact' /\ NothingDangles' /\ refs' \in [Descriptors -> Nat]
<1> DEFINE n == instance[d]
<1>1. n \in Descriptors /\ d \in Handles(n) /\ refs \in [Descriptors -> Nat]
    BY DEF IInv, Links, Handles, TypeOK
<1>2. refs[n] > 0 /\ refs[n] \in Nat
    BY <1>1, Positive DEF IInv
<1> HIDE DEF n
<1>3. refs' = [refs EXCEPT ![n] = refs[n] - 1] /\ ~dangling' /\ inList' = inList
  <2>1. /\ refs' = [refs EXCEPT ![n] = IF refs[n] = 0 THEN 0 ELSE refs[n] - 1]
        /\ dangling' = (dangling \/ refs[n] = 0) /\ inList' = inList
      BY DEF Forget, n
  <2>2. refs[n] # 0
      BY <1>2
  <2>3. [refs EXCEPT ![n] = IF refs[n] = 0 THEN 0 ELSE refs[n] - 1]
          = [refs EXCEPT ![n] = refs[n] - 1]
      BY <2>2
  <2> QED BY <1>2, <2>1, <2>2, <2>3, Zenon DEF IInv, NothingDangles
<1>4. ASSUME NEW m \in Descriptors
      PROVE  refs'[m] = Count(m)'
  <2>1. Handles(m)' = Handles(m) \ {d} /\ (d \in Handles(m) <=> m = n)
      BY DEF SameMedia, Handles, n
  <2>2. Plays(m)' = Plays(m)
      BY ObjectsAssumption DEF SameMedia, Plays
  <2>3. Listed(m)' = Listed(m)
      BY <1>3 DEF Listed
  <2>4. Cardinality(Handles(m) \ {d})
          = IF m = n THEN Cardinality(Handles(m)) - 1 ELSE Cardinality(Handles(m))
      BY <2>1, Finite, FS_RemoveElement
  <2>5. refs'[m] = IF m = n THEN refs[m] - 1 ELSE refs[m]
      BY <1>1, <1>3
  <2>6. refs[m] = Cardinality(Handles(m)) + Cardinality(Plays(m)) + Cardinality(Listed(m))
      BY Exact DEF IInv, Count
  <2>7. Count(m)' = Cardinality(Handles(m) \ {d}) + Cardinality(Plays(m)) + Cardinality(Listed(m))
      BY <2>1, <2>2, <2>3 DEF Count
  <2>8. Cardinality(Listed(m)) \in {0, 1}
      BY ListedOnce
  <2> QED BY <2>4, <2>5, <2>6, <2>7, <2>8, Finite
<1> QED BY <1>1, <1>2, <1>3, <1>4, ExactNext DEF NothingDangles

LEMMA FreePlayerCounts ==
    ASSUME IInv, SameMedia, NEW q \in (Players \cap created) \ released,
           released' = released \cup {q}, FreePlayer(q)
    PROVE  RefsExact' /\ NothingDangles' /\ refs' \in [Descriptors -> Nat]
<1> DEFINE n == instance[mediaDescriptor[q]]
<1>1. n \in Descriptors /\ q \in Plays(n) /\ refs \in [Descriptors -> Nat]
    BY DEF IInv, Links, Plays, TypeOK
<1>2. refs[n] > 0 /\ refs[n] \in Nat /\ q \notin gone
    BY <1>1, Positive DEF IInv, GoneMatch
<1> HIDE DEF n
<1>3. refs' = [refs EXCEPT ![n] = refs[n] - 1] /\ ~dangling' /\ inList' = inList
  <2>1. /\ refs' = [refs EXCEPT ![n] = IF refs[n] = 0 THEN 0 ELSE refs[n] - 1]
        /\ dangling' = (dangling \/ q \in gone \/ refs[n] = 0) /\ inList' = inList
      BY DEF FreePlayer, n
  <2>2. refs[n] # 0
      BY <1>2
  <2>3. [refs EXCEPT ![n] = IF refs[n] = 0 THEN 0 ELSE refs[n] - 1]
          = [refs EXCEPT ![n] = refs[n] - 1]
      BY <2>2
  <2> QED BY <1>2, <2>1, <2>2, <2>3, Zenon DEF IInv, NothingDangles
<1>4. ASSUME NEW m \in Descriptors
      PROVE  refs'[m] = Count(m)'
  <2>1. Plays(m)' = Plays(m) \ {q} /\ (q \in Plays(m) <=> m = n)
      BY DEF SameMedia, Plays, n
  <2>2. Handles(m)' = Handles(m)
      BY ObjectsAssumption DEF SameMedia, Handles
  <2>3. Listed(m)' = Listed(m)
      BY <1>3 DEF Listed
  <2>4. Cardinality(Plays(m) \ {q})
          = IF m = n THEN Cardinality(Plays(m)) - 1 ELSE Cardinality(Plays(m))
      BY <2>1, Finite, FS_RemoveElement
  <2>5. refs'[m] = IF m = n THEN refs[m] - 1 ELSE refs[m]
      BY <1>1, <1>3
  <2>6. refs[m] = Cardinality(Handles(m)) + Cardinality(Plays(m)) + Cardinality(Listed(m))
      BY Exact DEF IInv, Count
  <2>7. Count(m)' = Cardinality(Handles(m)) + Cardinality(Plays(m) \ {q}) + Cardinality(Listed(m))
      BY <2>1, <2>2, <2>3 DEF Count
  <2>8. Cardinality(Listed(m)) \in {0, 1}
      BY ListedOnce
  <2> QED BY <2>4, <2>5, <2>6, <2>7, <2>8, Finite
<1> QED BY <1>1, <1>2, <1>3, <1>4, ExactNext DEF NothingDangles

(* The list or the list player; with the second of them go the items.      *)
LEMMA FreeOwnedCounts ==
    ASSUME IInv, SameMedia, NEW o \in Owned, o \notin released, "jvlc" \notin gone,
           released' = released \cup {o}, FreeOwned(o)
    PROVE  RefsExact' /\ NothingDangles' /\ refs' \in [Descriptors -> Nat] /\ inList' \subseteq inList
<1> DEFINE items == IF Owned \subseteq gone \cup {o} THEN inList ELSE {}
<1>1. items \subseteq inList /\ inList \subseteq Descriptors /\ refs \in [Descriptors -> Nat]
    BY DEF IInv, TypeOK
<1>2. \A m \in items : refs[m] > 0
    BY <1>1, Positive DEF IInv
<1>3. o \notin gone
    BY DEF IInv, GoneMatch
<1>4. /\ inList' = inList \ items
      /\ refs' = [m \in Descriptors |-> IF m \in items /\ refs[m] > 0 THEN refs[m] - 1 ELSE refs[m]]
      /\ dangling' = (dangling \/ {"jvlc", o} \cap gone # {} \/ \E m \in items : refs[m] = 0)
    BY DEF FreeOwned
<1> HIDE DEF items
<1>5. ~dangling'
  <2>1. ~ \E m \in items : refs[m] = 0
      BY <1>1, <1>2
  <2> QED BY <1>3, <1>4, <2>1 DEF IInv, NothingDangles
<1>6. ASSUME NEW m \in Descriptors
      PROVE  refs'[m] = Count(m)'
  <2>1. Handles(m)' = Handles(m) /\ Plays(m)' = Plays(m)
      BY SameHolders, ObjectsAssumption DEF Cluster
  <2>2. refs[m] = Cardinality(Handles(m)) + Cardinality(Plays(m)) + Cardinality(Listed(m))
      BY Exact DEF IInv, Count
  <2>3. Count(m)' = Cardinality(Handles(m)) + Cardinality(Plays(m)) + Cardinality(Listed(m)')
      BY <2>1 DEF Count
  <2>4. CASE m \in items
    <3>1. refs'[m] = refs[m] - 1
        BY <1>2, <1>4, <2>4
    <3>2. Cardinality(Listed(m)) = 1 /\ Cardinality(Listed(m)') = 0
        BY <1>1, <1>4, <2>4, ListedOnce, ListedOnceNext
    <3> QED BY <2>2, <2>3, <3>1, <3>2, Finite
  <2>5. CASE m \notin items
    <3>1. refs'[m] = refs[m]
        BY <1>4, <2>5
    <3>2. Listed(m)' = Listed(m)
        BY <1>4, <2>5 DEF Listed
    <3> QED BY <2>2, <2>3, <3>1, <3>2
  <2> QED BY <2>4, <2>5
<1>7. refs' \in [Descriptors -> Nat]
    BY <1>1, <1>4
<1> QED BY <1>4, <1>5, <1>6, <1>7, ExactNext DEF NothingDangles

(* The handle of the instance is alive while a part of the cluster is not  *)
(* released.                                                               *)
LEMMA InstanceAlive ==
    ASSUME IInv, NEW o \in Cluster \cap created, o \notin released
    PROVE  "jvlc" \notin gone
<1> SUFFICES ASSUME "jvlc" \in gone PROVE FALSE
    OBVIOUS
<1>1. closing # Open /\ closing.at = "done"
    BY DEF IInv, Closes, Past
<1>2. {"jvlc", "list", "listPlayer"} \subseteq released
    BY <1>1 DEF IInv, Closes, Past
<1>3. o \in Vlms
    BY <1>2 DEF Cluster, Owned
<1> QED BY <1>1, <1>3 DEF IInv, Closes, Past, Steps

LEMMA ReleasesCounts ==
    ASSUME IInv, SameMedia, NEW o \in created, o # "jvlc", Releases(o)
    PROVE  /\ RefsExact' /\ NothingDangles'
           /\ refs' \in [Descriptors -> Nat] /\ inList' \subseteq inList
           /\ released' = released \cup {o}
           /\ gone' = gone \cup ({o} \cap (Owned \cup Players))
<1>1. CASE o \in released
  <2>1. released' = released /\ UNCHANGED <<inList, refs, gone, dangling>>
      BY <1>1 DEF Releases, native
  <2>2. RefsExact'
    <3> SUFFICES ASSUME NEW m \in Descriptors PROVE refs'[m] = Count(m)'
        BY ExactNext
    <3>1. Handles(m)' = Handles(m) /\ Plays(m)' = Plays(m) /\ Listed(m)' = Listed(m)
        BY <2>1, SameHolders DEF Listed
    <3> QED BY <2>1, <3>1, Exact DEF IInv, Count
  <2>3. gone = gone \cup ({o} \cap (Owned \cup Players))
      BY <1>1 DEF IInv, GoneMatch
  <2> QED BY <1>1, <2>1, <2>2, <2>3 DEF IInv, TypeOK, NothingDangles
<1>2. CASE o \notin released
  <2>1. released' = released \cup {o} /\ Free(o)
      BY <1>2 DEF Releases
  <2>2. CASE o \in Descriptors /\ Forget(instance[o])
    <3>1. {o} \cap (Owned \cup Players) = {} /\ gone' = gone /\ inList' = inList
        BY <2>2, ObjectsAssumption DEF Forget, Cluster
    <3> QED BY <1>2, <2>1, <2>2, <3>1, ForgetCounts
  <2>3. CASE o \in Players /\ FreePlayer(o)
    <3>1. gone' = gone \cup {o} /\ inList' = inList
        BY <2>3 DEF FreePlayer
    <3> QED BY <1>2, <2>1, <2>3, <3>1, FreePlayerCounts
  <2>4. CASE o \in Owned /\ FreeOwned(o)
    <3>1. gone' = gone \cup {o}
        BY <2>4 DEF FreeOwned
    <3>2. "jvlc" \notin gone
        BY <1>2, <2>4, InstanceAlive DEF Cluster
    <3> QED BY <1>2, <2>1, <2>4, <3>1, <3>2, FreeOwnedCounts
  <2>5. CASE o \in Vlms /\ FreeVlm
    <3>1. "jvlc" \notin gone
        BY <1>2, <2>5, InstanceAlive DEF Cluster
    <3>2. UNCHANGED <<inList, refs, gone>> /\ ~dangling'
        BY <2>5, <3>1 DEF FreeVlm, IInv, NothingDangles
    <3>3. o \notin Descriptors \cup Players \cup Owned
        BY <2>5, ObjectsAssumption DEF Cluster
    <3>4. RefsExact'
      <4> SUFFICES ASSUME NEW m \in Descriptors PROVE refs'[m] = Count(m)'
          BY ExactNext
      <4>1. Handles(m)' = Handles(m) /\ Plays(m)' = Plays(m) /\ Listed(m)' = Listed(m)
          BY <2>1, <3>2, <3>3, SameHolders DEF Listed
      <4> QED BY <3>2, <4>1, Exact DEF IInv, Count
    <3> QED BY <2>1, <3>2, <3>3, <3>4 DEF IInv, TypeOK, NothingDangles
  <2> QED BY <2>1, <2>2, <2>3, <2>4, <2>5 DEF Free
<1> QED BY <1>1, <1>2

---------------------------------------------------------------------------
(* What the program makes.                                                 *)

(* Nothing refers to a descriptor before it is made.                       *)
LEMMA Unreferenced ==
    ASSUME IInv, NEW d \in Descriptors, d \notin created
    PROVE  Handles(d) = {} /\ Plays(d) = {} /\ d \notin inList
BY DEF IInv, Links, Handles, Plays

(* A new descriptor d of the media n.                                      *)
LEMMA OneDescriptor ==
    ASSUME IInv, NEW d \in Descriptors, d \notin created, NEW n \in Descriptors,
           instance' = [instance EXCEPT ![d] = n], mediaDescriptor' = mediaDescriptor,
           created' = created \cup {d}, released' = released,
           NEW m \in Descriptors
    PROVE  /\ Handles(m)' = IF m = n THEN Handles(m) \cup {d} ELSE Handles(m)
           /\ d \notin Handles(m)
           /\ Plays(m)' = Plays(m)
<1>1. instance' = [e \in Descriptors |-> IF e = d THEN n ELSE instance[e]]
    BY DEF IInv, TypeOK
<1>2. d \notin released /\ d \notin Players
    BY ObjectsAssumption DEF IInv, TypeOK
<1>3. Handles(m)' = IF m = n THEN Handles(m) \cup {d} ELSE Handles(m)
    BY <1>1, <1>2 DEF Handles
<1>4. \A p \in Players \cap created : mediaDescriptor[p] \in Descriptors \ {d}
    BY DEF IInv, Links
<1>5. Plays(m)' = Plays(m)
    BY <1>1, <1>2, <1>4 DEF Plays
<1> QED BY <1>3, <1>5 DEF Handles

LEMMA LinksGrow ==
    ASSUME IInv, NEW d \in Descriptors, d \notin created, NEW n \in Descriptors,
           n \in created \/ n = d,
           instance' = [instance EXCEPT ![d] = n], created' = created \cup {d},
           UNCHANGED <<vlm, mediaDescriptor, mediaPlayer>>, inList' \subseteq created'
    PROVE  Links'
<1>1. \A e \in Descriptors : instance'[e] = IF e = d THEN n ELSE instance[e]
    BY DEF IInv, TypeOK
<1>2. \A e \in Descriptors \cap created' : instance'[e] \in Descriptors \cap created'
    BY <1>1 DEF IInv, Links
<1>3. \A p \in Players \cap created' : mediaDescriptor'[p] \in Descriptors \cap created'
    BY ObjectsAssumption DEF IInv, Links
<1>4. \A e \in Descriptors : mediaPlayer'[e] \in created' \cup {None}
    BY DEF IInv, Links
<1> QED BY <1>2, <1>3, <1>4 DEF IInv, Links

LEMMA OneMore ==
    ASSUME NEW S, NEW x, IsFiniteSet(S), x \notin S
    PROVE  Cardinality(S \cup {x}) = Cardinality(S) + 1
BY FS_AddElement

(* What does not touch the counts.                                         *)
LEMMA CountsStay ==
    ASSUME IInv, UNCHANGED <<created, released, mediaDescriptor, instance, inList, refs, dangling>>
    PROVE  RefsExact' /\ NothingDangles'
BY DEF IInv, RefsExact, NothingDangles

(* What does not touch the JVLC, its parts and the handles.                *)
LEMMA ClosesStay ==
    ASSUME IInv, UNCHANGED <<closing, vlm, gone>>, released \subseteq released',
           Vlms \cap created' = Vlms \cap created, "jvlc" \in released' <=> "jvlc" \in released
    PROVE  Closes'
BY DEF IInv, Closes, Past

LEMMA NewDescriptorKeeps ==
    ASSUME IInv, NEW d \in Descriptors, NewDescriptor(d)
    PROVE  IInv'
<1>1. /\ d \notin created /\ created' = created \cup {d} /\ held' = held \cup {d}
      /\ instance' = [instance EXCEPT ![d] = d] /\ refs' = [refs EXCEPT ![d] = 1]
      /\ UNCHANGED <<released, vlm, mediaDescriptor, mediaPlayer, inList, gone, dangling, closing>>
    BY DEF NewDescriptor, Hold
<1>2. d \in Objects /\ d \notin Cluster /\ d \notin released /\ d # "jvlc"
    BY <1>1, ObjectsAssumption DEF Objects, Cluster, IInv, TypeOK
<1> HIDE DEF NewDescriptor
<1>3. TypeOK'
    BY <1>1, <1>2 DEF IInv, TypeOK
<1>4. Links'
    BY <1>1, LinksGrow DEF IInv, Links, TypeOK
<1>5. Closes'
    BY <1>1, <1>2, ClosesStay DEF Cluster
<1>6. GoneMatch'
    BY <1>1 DEF IInv, GoneMatch
<1>7. RefsExact'
  <2> SUFFICES ASSUME NEW m \in Descriptors PROVE refs'[m] = Count(m)'
      BY ExactNext
  <2>1. Plays(m)' = Plays(m) /\ Listed(m)' = Listed(m)
      BY <1>1, OneDescriptor DEF Listed
  <2>2. Handles(m)' = IF m = d THEN Handles(m) \cup {d} ELSE Handles(m)
      BY <1>1, OneDescriptor
  <2>3. CASE m = d
    <3>1. Handles(m)' = {d} /\ Plays(m)' = {} /\ Listed(m)' = {}
        BY <1>1, <2>1, <2>2, <2>3, Unreferenced DEF Listed
    <3>2. Count(m)' = 1
        BY <3>1, FS_Singleton, FS_EmptySet DEF Count
    <3> QED BY <1>1, <2>3, <3>2 DEF IInv, TypeOK
  <2>4. CASE m # d
      BY <1>1, <2>1, <2>2, <2>4, Exact DEF IInv, Count, TypeOK
  <2> QED BY <2>3, <2>4
<1> QED BY <1>1, <1>3, <1>4, <1>5, <1>6, <1>7 DEF IInv, NothingDangles

(* The list and the descriptor both hold a new media.                      *)
LEMMA AddMrlKeeps ==
    ASSUME IInv, NEW d \in Descriptors, AddMrl(d)
    PROVE  IInv'
<1>1. /\ d \notin created /\ created' = created \cup {d} /\ inList' = inList \cup {d}
      /\ instance' = [instance EXCEPT ![d] = d] /\ refs' = [refs EXCEPT ![d] = 2]
      /\ UNCHANGED <<released, held, vlm, mediaDescriptor, mediaPlayer, gone, dangling, closing>>
    BY DEF AddMrl
<1>2. d \in Objects /\ d \notin Cluster /\ d \notin released /\ d # "jvlc"
    BY <1>1, ObjectsAssumption DEF Objects, Cluster, IInv, TypeOK
<1>3. TypeOK'
    BY <1>1, <1>2 DEF IInv, TypeOK
<1>4. Links'
    BY <1>1, LinksGrow DEF IInv, Links, TypeOK
<1>5. Closes'
    BY <1>1, <1>2, ClosesStay DEF Cluster
<1>6. GoneMatch'
    BY <1>1 DEF IInv, GoneMatch
<1>7. RefsExact'
  <2> SUFFICES ASSUME NEW m \in Descriptors PROVE refs'[m] = Count(m)'
      BY ExactNext
  <2>1. Plays(m)' = Plays(m)
      BY <1>1, OneDescriptor
  <2>2. Handles(m)' = IF m = d THEN Handles(m) \cup {d} ELSE Handles(m)
      BY <1>1, OneDescriptor
  <2>3. CASE m = d
    <3>1. Handles(m)' = {d} /\ Plays(m)' = {} /\ Listed(m)' = {d}
        BY <1>1, <2>1, <2>2, <2>3, Unreferenced DEF Listed
    <3>2. Cardinality({d}) = 1 /\ Cardinality({}) = 0
        BY FS_Singleton, FS_EmptySet
    <3>3. Count(m)' = 2
        BY <3>1, <3>2 DEF Count
    <3> QED BY <1>1, <2>3, <3>3 DEF IInv, TypeOK
  <2>4. CASE m # d
    <3>1. Listed(m)' = Listed(m)
        BY <1>1, <2>4 DEF Listed
    <3> QED BY <1>1, <2>1, <2>2, <2>4, <3>1, Exact DEF IInv, Count, TypeOK
  <2> QED BY <2>3, <2>4
<1> QED BY <1>1, <1>3, <1>4, <1>5, <1>6, <1>7 DEF IInv, NothingDangles

LEMMA GetMediaDescriptorAtIndexKeeps ==
    ASSUME IInv, NEW n \in Descriptors, NEW d \in Descriptors, GetMediaDescriptorAtIndex(n, d)
    PROVE  IInv'
<1>1. /\ d \notin created /\ created' = created \cup {d} /\ held' = held \cup {d} /\ n \in inList
      /\ instance' = [instance EXCEPT ![d] = n] /\ refs' = [refs EXCEPT ![n] = refs[n] + 1]
      /\ UNCHANGED <<released, vlm, mediaDescriptor, mediaPlayer, inList, gone, dangling, closing>>
    BY DEF GetMediaDescriptorAtIndex, Hold
<1>2. d \in Objects /\ d \notin Cluster /\ d \notin released /\ d # "jvlc"
    BY <1>1, ObjectsAssumption DEF Objects, Cluster, IInv, TypeOK
<1>3. TypeOK'
  <2>1. refs' \in [Descriptors -> Nat] /\ instance' \in [Descriptors -> Descriptors \cup {None}]
      BY <1>1 DEF IInv, TypeOK
  <2> QED BY <1>1, <1>2, <2>1 DEF IInv, TypeOK
<1>4. Links'
    BY <1>1, LinksGrow DEF IInv, Links, TypeOK
<1>5. Closes'
    BY <1>1, <1>2, ClosesStay DEF Cluster
<1>6. GoneMatch'
    BY <1>1 DEF IInv, GoneMatch
<1>7. RefsExact'
  <2> SUFFICES ASSUME NEW m \in Descriptors PROVE refs'[m] = Count(m)'
      BY ExactNext
  <2>1. Plays(m)' = Plays(m) /\ Listed(m)' = Listed(m)
      BY <1>1, OneDescriptor DEF Listed
  <2>2. Handles(m)' = (IF m = n THEN Handles(m) \cup {d} ELSE Handles(m)) /\ d \notin Handles(m)
      BY <1>1, OneDescriptor
  <2>3. refs[m] = Count(m) /\ refs[m] \in Nat
      BY Exact DEF IInv, TypeOK
  <2>4. CASE m = n
    <3>1. Cardinality(Handles(m)') = Cardinality(Handles(m)) + 1
        BY <2>2, <2>4, OneMore, Finite
    <3>2. refs'[m] = refs[m] + 1
        BY <1>1, <2>4 DEF IInv, TypeOK
    <3>3. Cardinality(Listed(m)) \in {0, 1}
        BY ListedOnce
    <3> QED BY <2>1, <2>3, <3>1, <3>2, <3>3, Finite DEF Count
  <2>5. CASE m # n
      BY <1>1, <2>1, <2>2, <2>3, <2>5 DEF IInv, Count, TypeOK
  <2> QED BY <2>4, <2>5
<1> QED BY <1>1, <1>3, <1>4, <1>5, <1>6, <1>7 DEF IInv, NothingDangles

LEMMA AddMediaKeeps ==
    ASSUME IInv, NEW d \in Descriptors, AddMedia(d)
    PROVE  IInv'
<1> DEFINE n == instance[d]
<1>1. /\ d \in created /\ n \notin inList /\ inList' = inList \cup {n}
      /\ refs' = [refs EXCEPT ![n] = refs[n] + 1]
      /\ UNCHANGED <<created, released, held, vlm, mediaDescriptor, mediaPlayer, instance,
                     gone, dangling, closing>>
    BY DEF AddMedia, Usable, java, fields
<1>2. n \in Descriptors /\ n \in created
    BY <1>1 DEF IInv, Links
<1> HIDE DEF n
<1>3. TypeOK'
  <2>1. refs' \in [Descriptors -> Nat]
    <3>1. refs \in [Descriptors -> Nat] /\ refs[n] + 1 \in Nat
        BY <1>2 DEF IInv, TypeOK
    <3> QED BY <1>1, <3>1
  <2> QED BY <1>1, <1>2, <2>1 DEF IInv, TypeOK
<1>4. Links' /\ Closes' /\ GoneMatch'
    BY <1>1, <1>2 DEF IInv, Links, Closes, Past, GoneMatch
<1>5. RefsExact'
  <2> SUFFICES ASSUME NEW m \in Descriptors PROVE refs'[m] = Count(m)'
      BY ExactNext
  <2>1. Handles(m)' = Handles(m) /\ Plays(m)' = Plays(m)
      BY <1>1 DEF Handles, Plays
  <2>2. refs[m] = Count(m) /\ refs[m] \in Nat
      BY Exact DEF IInv, TypeOK
  <2>3. CASE m = n
    <3>1. refs'[m] = refs[m] + 1
        BY <1>1, <2>3 DEF IInv, TypeOK
    <3>2. Cardinality(Listed(m)) = 0 /\ Cardinality(Listed(m)') = 1
        BY <1>1, <2>3, ListedOnce, ListedOnceNext
    <3> QED BY <2>1, <2>2, <3>1, <3>2, Finite DEF Count
  <2>4. CASE m # n
    <3>1. Listed(m)' = Listed(m) /\ refs'[m] = refs[m]
        BY <1>1, <2>4 DEF Listed, IInv, TypeOK
    <3> QED BY <2>1, <2>2, <3>1 DEF Count
  <2> QED BY <2>3, <2>4
<1> QED BY <1>1, <1>3, <1>4, <1>5 DEF IInv, NothingDangles

LEMMA RemoveMediaKeeps ==
    ASSUME IInv, NEW n \in Descriptors, RemoveMedia(n)
    PROVE  IInv'
<1>1. /\ n \in inList /\ inList' = inList \ {n} /\ refs' = [refs EXCEPT ![n] = refs[n] - 1]
      /\ UNCHANGED <<created, released, held, vlm, mediaDescriptor, mediaPlayer, instance,
                     gone, dangling, closing>>
    BY DEF RemoveMedia, java, fields
<1>2. refs[n] \in Nat /\ refs[n] > 0
    BY <1>1, Positive DEF IInv
<1>3. TypeOK'
  <2>1. refs[n] - 1 \in Nat
      BY <1>2
  <2>2. refs' \in [Descriptors -> Nat]
      BY <1>1, <2>1 DEF IInv, TypeOK
  <2> QED BY <1>1, <2>2 DEF IInv, TypeOK
<1>4. Links' /\ Closes' /\ GoneMatch'
    BY <1>1 DEF IInv, Links, Closes, Past, GoneMatch
<1>5. RefsExact'
  <2> SUFFICES ASSUME NEW m \in Descriptors PROVE refs'[m] = Count(m)'
      BY ExactNext
  <2>1. Handles(m)' = Handles(m) /\ Plays(m)' = Plays(m)
      BY <1>1 DEF Handles, Plays
  <2>2. refs[m] = Count(m) /\ refs[m] \in Nat
      BY Exact DEF IInv, TypeOK
  <2>3. CASE m = n
    <3>1. refs'[m] = refs[m] - 1
        BY <1>1, <2>3 DEF IInv, TypeOK
    <3>2. Cardinality(Listed(m)) = 1 /\ Cardinality(Listed(m)') = 0
        BY <1>1, <2>3, ListedOnce, ListedOnceNext
    <3> QED BY <2>1, <2>2, <3>1, <3>2, Finite DEF Count
  <2>4. CASE m # n
    <3>1. Listed(m)' = Listed(m) /\ refs'[m] = refs[m]
        BY <1>1, <2>4 DEF Listed, IInv, TypeOK
    <3> QED BY <2>1, <2>2, <3>1 DEF Count
  <2> QED BY <2>3, <2>4
<1> QED BY <1>1, <1>3, <1>4, <1>5 DEF IInv, NothingDangles

(* A descriptor's first player is new and holds the descriptor's media.    *)
LEMMA NewPlayerKeeps ==
    ASSUME IInv, NEW d \in Descriptors, NEW q \in Players, d \in created,
           q \notin created, created' = created \cup {q},
           mediaPlayer' = [mediaPlayer EXCEPT ![d] = q],
           mediaDescriptor' = [mediaDescriptor EXCEPT ![q] = d],
           refs' = [refs EXCEPT ![instance[d]] = @ + 1], held' = held \cup {q},
           UNCHANGED <<released, vlm, instance, inList, gone, dangling, closing>>
    PROVE  IInv'
<1> DEFINE n == instance[d]
<1>1. n \in Descriptors /\ n \in created /\ refs' = [refs EXCEPT ![n] = refs[n] + 1]
    BY DEF IInv, Links
<1> HIDE DEF n
<1>2. /\ q \in Objects /\ q \notin Cluster /\ q \notin Descriptors /\ q \notin released
      /\ q # "jvlc" /\ q \notin Vlms
    BY ObjectsAssumption DEF Objects, Cluster, IInv, TypeOK
<1>3. \A e \in Players : mediaDescriptor'[e] = IF e = q THEN d ELSE mediaDescriptor[e]
    BY DEF IInv, TypeOK
<1>4. \A e \in Descriptors : mediaPlayer'[e] = IF e = d THEN q ELSE mediaPlayer[e]
    BY DEF IInv, TypeOK
<1>5. TypeOK'
  <2>1. refs' \in [Descriptors -> Nat]
      BY <1>1 DEF IInv, TypeOK
  <2>2. /\ mediaDescriptor' \in [Players -> Descriptors \cup {None}]
        /\ mediaPlayer' \in [Descriptors -> Players \cup {None}]
      BY DEF IInv, TypeOK
  <2>3. /\ created' \subseteq Objects /\ released' \subseteq created'
        /\ held' \subseteq {"jvlc"} \cup (created' \ Cluster)
      BY <1>2 DEF IInv, TypeOK
  <2> QED BY <2>1, <2>2, <2>3 DEF IInv, TypeOK
<1>6. Links'
  <2>1. \A e \in Descriptors : mediaPlayer'[e] \in created' \cup {None}
      BY <1>4 DEF IInv, Links
  <2>2. \A e \in Players \cap created' : mediaDescriptor'[e] \in Descriptors \cap created'
      BY <1>3 DEF IInv, Links
  <2> QED BY <1>2, <2>1, <2>2 DEF IInv, Links
<1>7. Closes' /\ GoneMatch'
    BY <1>2, ClosesStay DEF IInv, GoneMatch
<1>8. RefsExact'
  <2> SUFFICES ASSUME NEW m \in Descriptors PROVE refs'[m] = Count(m)'
      BY ExactNext
  <2>1. Handles(m)' = Handles(m) /\ Listed(m)' = Listed(m)
      BY <1>2 DEF Handles, Listed
  <2>2. Plays(m)' = (IF m = n THEN Plays(m) \cup {q} ELSE Plays(m)) /\ q \notin Plays(m)
      BY <1>2, <1>3 DEF Plays, n
  <2>3. refs[m] = Count(m) /\ refs[m] \in Nat
      BY Exact DEF IInv, TypeOK
  <2>4. CASE m = n
    <3>1. Cardinality(Plays(m)') = Cardinality(Plays(m)) + 1
        BY <2>2, <2>4, OneMore, Finite
    <3>2. refs'[m] = refs[m] + 1
        BY <1>1, <2>4 DEF IInv, TypeOK
    <3>3. Cardinality(Listed(m)) \in {0, 1}
        BY ListedOnce
    <3> QED BY <2>1, <2>3, <3>1, <3>2, <3>3, Finite DEF Count
  <2>5. CASE m # n
      BY <1>1, <2>1, <2>2, <2>3, <2>5 DEF IInv, Count, TypeOK
  <2> QED BY <2>4, <2>5
<1> QED BY <1>5, <1>6, <1>7, <1>8 DEF IInv, NothingDangles

LEMMA GetMediaPlayerKeeps ==
    ASSUME IInv, NEW d \in Descriptors, NEW q \in Players, GetMediaPlayer(d, q)
    PROVE  IInv'
<1>1. CASE mediaPlayer[d] = None
    BY <1>1, NewPlayerKeeps DEF GetMediaPlayer, Usable, Hold
<1>2. CASE mediaPlayer[d] # None
  <2>1. /\ q = mediaPlayer[d] /\ held' = held \cup {q}
        /\ UNCHANGED <<created, released, fields, native, closing>>
      BY <1>2 DEF GetMediaPlayer, Hold, fields, native
  <2>2. q \in created \ Cluster
      BY <1>2, <2>1, ObjectsAssumption DEF IInv, Links
  <2>3. TypeOK'
      BY <2>1, <2>2 DEF IInv, TypeOK, fields, native
  <2>4. Links' /\ Closes' /\ GoneMatch'
      BY <2>1 DEF IInv, Links, Closes, Past, GoneMatch, fields, native
  <2> QED BY <2>1, <2>3, <2>4, CountsStay DEF IInv, fields, native
<1> QED BY <1>1, <1>2

(* The descriptor is released at once, its media is the player's.          *)
LEMMA PlayMediaKeeps ==
    ASSUME IInv, NEW d \in Descriptors, NEW q \in Players, PlayMedia(d, q)
    PROVE  IInv'
<1>1. /\ d \notin created /\ q \notin created /\ created' = created \cup {d, q}
      /\ held' = held \cup {q} /\ released' = released \cup {d}
      /\ instance' = [instance EXCEPT ![d] = d]
      /\ mediaDescriptor' = [mediaDescriptor EXCEPT ![q] = d] /\ refs' = [refs EXCEPT ![d] = 1]
      /\ UNCHANGED <<vlm, mediaPlayer, inList, gone, dangling, closing>>
    BY DEF PlayMedia, Hold
<1>2. /\ d \in Objects /\ q \in Objects /\ d \notin Cluster /\ q \notin Cluster
      /\ d \notin Players /\ q \notin Descriptors
      /\ d \notin released /\ q \notin released /\ d # "jvlc" /\ d \notin Vlms /\ q \notin Vlms
      /\ d \notin Owned
    BY <1>1, ObjectsAssumption DEF Objects, Cluster, IInv, TypeOK
<1> HIDE DEF PlayMedia
<1>3. /\ \A e \in Players : mediaDescriptor'[e] = IF e = q THEN d ELSE mediaDescriptor[e]
      /\ \A e \in Descriptors : instance'[e] = IF e = d THEN d ELSE instance[e]
    BY <1>1 DEF IInv, TypeOK
<1>4. TypeOK'
    BY <1>1, <1>2 DEF IInv, TypeOK
<1>5. Links'
  <2>1. \A e \in Players \cap created' : mediaDescriptor'[e] \in Descriptors \cap created'
      BY <1>1, <1>2, <1>3 DEF IInv, Links
  <2>2. \A e \in Descriptors \cap created' : instance'[e] \in Descriptors \cap created'
      BY <1>1, <1>2, <1>3 DEF IInv, Links
  <2> QED BY <1>1, <2>1, <2>2 DEF IInv, Links
<1>6. Closes'
    BY <1>1, <1>2, ClosesStay
<1>7. GoneMatch'
    BY <1>1, <1>2 DEF IInv, GoneMatch
<1>8. RefsExact'
  <2> SUFFICES ASSUME NEW m \in Descriptors PROVE refs'[m] = Count(m)'
      BY ExactNext
  <2>1. Handles(m)' = Handles(m) /\ Listed(m)' = Listed(m)
      BY <1>1, <1>2, <1>3 DEF Handles, Listed
  <2>2. \A e \in Players \cap created : mediaDescriptor[e] \in Descriptors \ {d}
      BY <1>1 DEF IInv, Links
  <2>3. Plays(m)' = IF m = d THEN Plays(m) \cup {q} ELSE Plays(m)
      BY <1>1, <1>2, <1>3, <2>2 DEF Plays
  <2>4. CASE m = d
    <3>1. Handles(m)' = {} /\ Plays(m)' = {q} /\ Listed(m)' = {}
        BY <1>1, <2>1, <2>3, <2>4, Unreferenced DEF Listed
    <3>2. Cardinality({q}) = 1 /\ Cardinality({}) = 0
        BY FS_Singleton, FS_EmptySet
    <3>3. Count(m)' = 1
        BY <3>1, <3>2 DEF Count
    <3> QED BY <1>1, <2>4, <3>3 DEF IInv, TypeOK
  <2>5. CASE m # d
      BY <1>1, <2>1, <2>3, <2>5, Exact DEF IInv, Count, TypeOK
  <2> QED BY <2>4, <2>5
<1> QED BY <1>1, <1>4, <1>5, <1>6, <1>7, <1>8 DEF IInv, NothingDangles

(* What the program refers to is its own affair.                           *)
LEMMA HoldingKeeps ==
    ASSUME IInv, held' \subseteq {"jvlc"} \cup (created \ Cluster),
           UNCHANGED <<created, released, fields, native, closing>>
    PROVE  IInv'
<1>1. TypeOK'
    BY DEF IInv, TypeOK, fields, native
<1>2. Links' /\ Closes' /\ GoneMatch'
    BY DEF IInv, Links, Closes, Past, GoneMatch, fields, native
<1> QED BY <1>1, <1>2, CountsStay DEF IInv, fields, native

LEMMA GetMediaDescriptorKeeps ==
    ASSUME IInv, NEW q \in Players, GetMediaDescriptor(q)
    PROVE  IInv'
<1>1. mediaDescriptor[q] \in created \ Cluster
    BY ObjectsAssumption DEF GetMediaDescriptor, Usable, IInv, Links
<1>2. held' \subseteq {"jvlc"} \cup (created \ Cluster)
    BY <1>1 DEF GetMediaDescriptor, Hold, IInv, TypeOK
<1> QED BY <1>2, HoldingKeeps DEF GetMediaDescriptor

---------------------------------------------------------------------------
(* Releasing anything but the JVLC, also in the middle of JVLC.release.    *)
LEMMA ReleasePart ==
    ASSUME IInv, NEW o \in created, o # "jvlc", Releases(o), SameMedia
    PROVE  /\ RefsExact' /\ NothingDangles' /\ GoneMatch'
           /\ refs' \in [Descriptors -> Nat] /\ inList' \subseteq inList
           /\ gone' \subseteq {"jvlc"} \cup Owned \cup Players /\ dangling' \in BOOLEAN
           /\ released' = released \cup {o}
           /\ "jvlc" \in gone' <=> "jvlc" \in gone
<1>1. /\ RefsExact' /\ NothingDangles' /\ refs' \in [Descriptors -> Nat] /\ inList' \subseteq inList
      /\ released' = released \cup {o} /\ gone' = gone \cup ({o} \cap (Owned \cup Players))
    BY ReleasesCounts
<1>2. dangling' \in BOOLEAN
    BY DEF Releases, Free, Forget, FreePlayer, FreeOwned, FreeVlm, native, IInv, TypeOK
<1>3. GoneMatch'
    BY <1>1 DEF IInv, GoneMatch
<1>4. gone' \subseteq {"jvlc"} \cup Owned \cup Players
    BY <1>1 DEF IInv, TypeOK
<1> QED BY <1>1, <1>2, <1>3, <1>4

LEMMA ReleaseKeeps ==
    ASSUME IInv, NEW o \in created, o # "jvlc", Releases(o),
           held' \subseteq held, UNCHANGED <<created, fields, closing>>
    PROVE  IInv'
<1>1. SameMedia
    BY DEF SameMedia, fields
<1>2. TypeOK'
    BY <1>1, ReleasePart DEF IInv, TypeOK, fields
<1>3. Links'
    BY <1>1, ReleasePart DEF IInv, Links, fields
<1>4. Closes'
    BY <1>1, ReleasePart DEF IInv, Closes, Past, fields
<1> QED BY <1>1, <1>2, <1>3, <1>4, ReleasePart DEF IInv

---------------------------------------------------------------------------
(* The VLM, and JVLC.release.                                              *)

(* The VLM there was is released, the new one is the JVLC's.               *)
LEMMA GetVLMKeeps ==
    ASSUME IInv, NEW v \in Vlms, GetVLM(v)
    PROVE  IInv'
<1>1. /\ v \notin created /\ created' = created \cup {v} /\ vlm' = v /\ "jvlc" \notin released
      /\ UNCHANGED <<held, mediaDescriptor, mediaPlayer, instance, closing>>
    BY DEF GetVLM, Usable
<1>2. /\ v \in Objects /\ v \in Cluster /\ v \notin Descriptors /\ v \notin Players
      /\ v \notin Owned /\ v # "jvlc"
    BY ObjectsAssumption DEF Objects, Cluster
<1>3. SameMedia /\ closing = Open
    BY <1>1, <1>2 DEF SameMedia, IInv, Closes
<1>4. /\ RefsExact' /\ NothingDangles' /\ GoneMatch'
      /\ refs' \in [Descriptors -> Nat] /\ inList' \subseteq inList
      /\ gone' \subseteq {"jvlc"} \cup Owned \cup Players /\ dangling' \in BOOLEAN
      /\ released' = released \cup ({vlm} \ {None})
      /\ "jvlc" \in gone' <=> "jvlc" \in gone
  <2>1. CASE vlm = None
    <3>1. UNCHANGED <<released, inList, refs, gone, dangling>>
        BY <2>1 DEF GetVLM, native
    <3>2. RefsExact'
      <4> SUFFICES ASSUME NEW m \in Descriptors PROVE refs'[m] = Count(m)'
          BY ExactNext
      <4>1. Handles(m)' = Handles(m) /\ Plays(m)' = Plays(m) /\ Listed(m)' = Listed(m)
          BY <1>3, <3>1, SameHolders DEF Listed
      <4> QED BY <3>1, <4>1, Exact DEF IInv, Count
    <3> QED BY <2>1, <3>1, <3>2 DEF IInv, TypeOK, GoneMatch, NothingDangles
  <2>2. CASE vlm # None
    <3>1. vlm \in created /\ Releases(vlm)
        BY <2>2 DEF GetVLM, IInv, Links
    <3>2. vlm # "jvlc"
        BY <2>2, ObjectsAssumption DEF IInv, TypeOK
    <3> QED BY <1>3, <2>2, <3>1, <3>2, ReleasePart
  <2> QED BY <2>1, <2>2
<1>5. TypeOK'
  <2>1. created' \subseteq Objects /\ released' \subseteq created' /\ vlm' \in Vlms \cup {None}
      BY <1>1, <1>2, <1>4 DEF IInv, TypeOK, Links
  <2>2. held' \subseteq {"jvlc"} \cup (created' \ Cluster)
      BY <1>1 DEF IInv, TypeOK
  <2>3. inList' \subseteq Descriptors
      BY <1>4 DEF IInv, TypeOK
  <2> QED BY <1>1, <1>4, <2>1, <2>2, <2>3 DEF IInv, TypeOK
<1>6. Links'
    BY <1>1, <1>3, <1>4 DEF IInv, Links, SameMedia
<1>7. Closes'
  <2>1. "jvlc" \notin released'
      BY <1>1, <1>4, ObjectsAssumption DEF IInv, TypeOK
  <2>2. ASSUME NEW w \in Vlms, w \in created'
        PROVE  w \in released' \/ w = vlm'
    <3>1. CASE w = v
        BY <1>1, <3>1
    <3>2. CASE w # v
      <4>1. w \in created
          BY <1>1, <2>2, <3>2
      <4>2. w \in released \/ w = vlm
          BY <4>1 DEF IInv, Closes
      <4>3. w # None
          BY ObjectsAssumption DEF Objects, Cluster
      <4> QED BY <1>4, <4>2, <4>3
    <3> QED BY <3>1, <3>2
  <2> QED BY <1>1, <1>3, <1>4, <2>1, <2>2 DEF IInv, Closes, Past
<1> QED BY <1>4, <1>5, <1>6, <1>7 DEF IInv

LEMMA BeginReleaseKeeps ==
    ASSUME IInv, NEW thread \in {"program", "finalizer"}, BeginRelease(thread),
           held' \subseteq held
    PROVE  IInv'
<1>1. /\ "jvlc" \notin released /\ released' = released \cup {"jvlc"}
      /\ closing' = [at |-> "vlm", by |-> thread]
      /\ UNCHANGED <<created, vlm, mediaDescriptor, mediaPlayer, instance, inList, refs, gone,
                     dangling>>
    BY DEF BeginRelease, fields, native
<1>2. closing = Open /\ closing' # Open /\ closing'.at = "vlm"
  <2>1. [at |-> "vlm", by |-> thread].at # Open.at
      BY DEF Open
  <2> QED BY <1>1, <2>1 DEF IInv, Closes
<1>3. TypeOK'
  <2>1. closing' \in [at : Steps, by : {"program", "finalizer"}]
      BY <1>1 DEF Steps
  <2> QED BY <1>1, <2>1 DEF IInv, TypeOK, Links
<1>4. Links' /\ NothingDangles'
    BY <1>1 DEF IInv, Links, NothingDangles
<1>5. "jvlc" \notin Descriptors \cup Players \cup Owned
    BY ObjectsAssumption DEF Cluster, Owned
<1>6. GoneMatch'
    BY <1>1, <1>5 DEF IInv, GoneMatch
<1>7. Closes'
  <2>1. "jvlc" \notin gone
      BY <1>2 DEF IInv, Closes, Past
  <2> QED BY <1>1, <1>2, <2>1 DEF IInv, Closes, Past, Steps
<1>8. RefsExact'
  <2> SUFFICES ASSUME NEW m \in Descriptors PROVE refs'[m] = Count(m)'
      BY ExactNext
  <2>1. Handles(m)' = Handles(m) /\ Plays(m)' = Plays(m) /\ Listed(m)' = Listed(m)
      BY <1>1, <1>5 DEF Handles, Plays, Listed
  <2> QED BY <1>1, <2>1, Exact DEF IInv, Count
<1> QED BY <1>3, <1>4, <1>6, <1>7, <1>8 DEF IInv

(* The record says where JVLC.release is and keeps the thread.             *)
LEMMA AtGoesOn ==
    ASSUME IInv, NEW step \in Steps, NEW next \in Steps, At(step, next)
    PROVE  /\ closing # Open /\ closing.at = step
           /\ closing' # Open /\ closing'.at = next
           /\ closing' \in [at : Steps, by : {"program", "finalizer"}]
<1>1. closing \in [at : Steps, by : {"program", "finalizer"}] /\ closing.at = step
    BY DEF At, IInv, TypeOK
<1>2. closing' = [closing EXCEPT !.at = next]
    BY DEF At
<1>3. closing' \in [at : Steps, by : {"program", "finalizer"}] /\ closing'.at = next
    BY <1>1, <1>2
<1>4. next # Open.at
    BY DEF Open, Steps
<1> QED BY <1>1, <1>3, <1>4 DEF At

LEMMA ReleaseVlmKeeps ==
    ASSUME IInv, ReleaseVlm
    PROVE  IInv'
<1>1. /\ closing # Open /\ closing.at = "vlm" /\ closing' # Open /\ closing'.at = "list"
      /\ closing' \in [at : Steps, by : {"program", "finalizer"}]
    BY AtGoesOn DEF ReleaseVlm, Steps
<1>2. vlm' = None /\ UNCHANGED <<created, held, mediaDescriptor, mediaPlayer, instance>> /\ SameMedia
    BY DEF ReleaseVlm, SameMedia
<1>3. /\ RefsExact' /\ NothingDangles' /\ GoneMatch'
      /\ refs' \in [Descriptors -> Nat] /\ inList' \subseteq inList
      /\ gone' \subseteq {"jvlc"} \cup Owned \cup Players /\ dangling' \in BOOLEAN
      /\ released' = released \cup ({vlm} \ {None})
      /\ "jvlc" \in gone' <=> "jvlc" \in gone
  <2>1. CASE vlm = None
    <3>1. UNCHANGED <<released, inList, refs, gone, dangling>>
        BY <2>1 DEF ReleaseVlm, native
    <3>2. RefsExact' /\ NothingDangles'
        BY <1>2, <3>1, CountsStay
    <3> QED BY <2>1, <3>1, <3>2 DEF IInv, TypeOK, GoneMatch
  <2>2. CASE vlm # None
    <3>1. vlm \in created /\ Releases(vlm)
        BY <2>2 DEF ReleaseVlm, IInv, Links
    <3>2. vlm # "jvlc"
        BY <2>2, ObjectsAssumption DEF IInv, TypeOK
    <3> QED BY <1>2, <2>2, <3>1, <3>2, ReleasePart
  <2> QED BY <2>1, <2>2
<1>4. TypeOK'
  <2>1. released' \subseteq created' /\ inList' \subseteq Descriptors
      BY <1>2, <1>3 DEF IInv, TypeOK, Links
  <2> QED BY <1>1, <1>2, <1>3, <2>1 DEF IInv, TypeOK
<1>5. Links'
    BY <1>2, <1>3 DEF IInv, Links
<1>6. Closes'
  <2>1. "jvlc" \notin gone' /\ "jvlc" \in released'
      BY <1>1, <1>3 DEF IInv, Closes, Past
  <2>2. \A v \in Vlms \cap created' : v \in released'
      BY <1>2, <1>3, ObjectsAssumption DEF IInv, Closes, Objects, Cluster
  <2> QED BY <1>1, <2>1, <2>2 DEF Closes, Past
<1> QED BY <1>3, <1>4, <1>5, <1>6 DEF IInv

(* The list, then the list player.                                         *)
LEMMA ReleaseOwnedKeeps ==
    ASSUME IInv, ReleaseList \/ ReleaseListPlayer
    PROVE  IInv'
<1>1. PICK o \in Owned :
          /\ Releases(o) /\ UNCHANGED <<created, held, fields>>
          /\ closing # Open /\ closing' # Open
          /\ closing' \in [at : Steps, by : {"program", "finalizer"}]
          /\ \/ o = "list" /\ closing.at = "list" /\ closing'.at = "listPlayer"
             \/ o = "listPlayer" /\ closing.at = "listPlayer" /\ closing'.at = "instance"
    BY AtGoesOn DEF ReleaseList, ReleaseListPlayer, Owned, Steps
<1>2. o \in created /\ o # "jvlc" /\ SameMedia
    BY <1>1 DEF IInv, Links, Owned, SameMedia, fields
<1>3. /\ RefsExact' /\ NothingDangles' /\ GoneMatch'
      /\ refs' \in [Descriptors -> Nat] /\ inList' \subseteq inList
      /\ gone' \subseteq {"jvlc"} \cup Owned \cup Players /\ dangling' \in BOOLEAN
      /\ released' = released \cup {o} /\ ("jvlc" \in gone' <=> "jvlc" \in gone)
    BY <1>1, <1>2, ReleasePart
<1>4. TypeOK'
    BY <1>1, <1>2, <1>3 DEF IInv, TypeOK, fields
<1>5. Links'
    BY <1>1, <1>3 DEF IInv, Links, fields
<1>6. Closes'
    BY <1>1, <1>3 DEF IInv, Closes, Past, Steps, fields
<1> QED BY <1>3, <1>4, <1>5, <1>6 DEF IInv

LEMMA ReleaseInstanceKeeps ==
    ASSUME IInv, ReleaseInstance
    PROVE  IInv'
<1>1. /\ closing # Open /\ closing.at = "instance" /\ closing' # Open /\ closing'.at = "done"
      /\ closing' \in [at : Steps, by : {"program", "finalizer"}]
    BY AtGoesOn DEF ReleaseInstance, Steps
<1>2. /\ gone' = gone \cup {"jvlc"} /\ dangling' = (dangling \/ "jvlc" \in gone)
      /\ UNCHANGED <<created, released, held, vlm, mediaDescriptor, mediaPlayer, instance,
                     inList, refs>>
    BY DEF ReleaseInstance, java, fields
<1>3. "jvlc" \notin gone
    BY <1>1 DEF IInv, Closes, Past
<1>4. ~dangling' /\ dangling' \in BOOLEAN
    BY <1>2, <1>3 DEF IInv, NothingDangles, TypeOK
<1>5. TypeOK'
    BY <1>1, <1>2, <1>4 DEF IInv, TypeOK
<1>6. Links' /\ RefsExact'
    BY <1>2 DEF IInv, Links, RefsExact
<1>7. GoneMatch'
    BY <1>2, ObjectsAssumption DEF IInv, GoneMatch, Cluster, Owned
<1>8. Closes'
    BY <1>1, <1>2 DEF IInv, Closes, Past, Steps
<1> QED BY <1>4, <1>5, <1>6, <1>7, <1>8 DEF IInv, NothingDangles

---------------------------------------------------------------------------
LEMMA InitHolds == Init => IInv
<1> SUFFICES ASSUME Init PROVE IInv
    OBVIOUS
<1>1. TypeOK /\ Links /\ Closes /\ GoneMatch /\ NothingDangles
    BY ObjectsAssumption DEF Init, TypeOK, Links, Closes, Past, GoneMatch, NothingDangles,
       Objects, Cluster, Owned
<1>2. RefsExact
  <2> SUFFICES ASSUME NEW m \in Descriptors PROVE refs[m] = Count(m)
      BY Exact
  <2>1. Handles(m) = {} /\ Plays(m) = {} /\ Listed(m) = {}
      BY ObjectsAssumption DEF Init, Handles, Plays, Listed, Cluster
  <2> QED BY <2>1, FS_EmptySet DEF Count, Init
<1> QED BY <1>1, <1>2 DEF IInv

LEMMA NextKeeps ==
    ASSUME IInv, [Next]_vars
    PROVE  IInv'
<1>1. CASE UNCHANGED vars
    BY <1>1, HoldingKeeps DEF vars, java, native, IInv, TypeOK
<1>2. CASE MediaStep
    BY <1>2, NewDescriptorKeeps, AddMediaKeeps, AddMrlKeeps, RemoveMediaKeeps,
       GetMediaPlayerKeeps, PlayMediaKeeps, GetMediaDescriptorAtIndexKeeps DEF MediaStep
<1>3. ASSUME NEW v \in Vlms, GetVLM(v) PROVE IInv'
    BY <1>3, GetVLMKeeps
<1>4. ASSUME NEW q \in Players, GetMediaDescriptor(q) PROVE IInv'
    BY <1>4, GetMediaDescriptorKeeps
<1>5. ASSUME NEW o \in Objects, Release(o) PROVE IInv'
  <2>1. o \in created /\ held' \subseteq held
      BY <1>5 DEF Release, Usable
  <2>2. CASE o = "jvlc" /\ BeginRelease("program")
      BY <2>1, <2>2, BeginReleaseKeeps
  <2>3. CASE o # "jvlc" /\ Releases(o) /\ UNCHANGED <<created, fields, closing>>
      BY <2>1, <2>3, ReleaseKeeps
  <2> QED BY <1>5, <2>2, <2>3 DEF Release
<1>6. ASSUME NEW o \in Objects, Drop(o) PROVE IInv'
    BY <1>6, HoldingKeeps DEF Drop, IInv, TypeOK
<1>7. ASSUME NEW o \in Objects, Finalize(o) PROVE IInv'
  <2>1. o \in created /\ held' \subseteq held
      BY <1>7 DEF Finalize
  <2>2. CASE o = "jvlc" /\ BeginRelease("finalizer")
      BY <2>1, <2>2, BeginReleaseKeeps
  <2>3. CASE o # "jvlc" /\ Releases(o) /\ UNCHANGED <<created, fields, closing>>
      BY <2>1, <2>3, ReleaseKeeps
  <2> QED BY <1>7, <2>2, <2>3 DEF Finalize
<1>8. CASE ReleaseJvlc
    BY <1>8, ReleaseVlmKeeps, ReleaseOwnedKeeps, ReleaseInstanceKeeps DEF ReleaseJvlc
<1> QED BY <1>1, <1>2, <1>3, <1>4, <1>5, <1>6, <1>7, <1>8 DEF Next, ProgramStep, FinalizerStep

(* The inductive invariant holds in every reachable state.                 *)
THEOREM Invariance == Spec => []IInv
BY InitHolds, NextKeeps, PTL DEF Spec

(* Every variable keeps its type.                                          *)
THEOREM TypeCorrect == Spec => []TypeOK
BY Invariance, PTL DEF IInv

(* libvlc's counts are those of the Java objects that hold a reference.    *)
THEOREM CountsExact == Spec => []RefsExact
BY Invariance, PTL DEF IInv

(* Nothing is released twice or used after it is gone.                     *)
THEOREM NoDangling == Spec => []NothingDangles
BY Invariance, PTL DEF IInv

(* What is not released is alive; what is released has given its handle    *)
(* back.                                                                   *)
THEOREM Matched == Spec => []HandlesMatch
<1>1. IInv => HandlesMatch
  <2> SUFFICES ASSUME IInv, NEW o \in created
               PROVE  IF o \in released THEN o \in Owned \cup Players => o \in gone ELSE Alive(o)
      BY DEF HandlesMatch
  <2>1. CASE o \in released
      BY <2>1 DEF IInv, GoneMatch
  <2>2. CASE o \notin released
    <3>1. o \in Descriptors => refs[instance[o]] > 0
      <4> SUFFICES ASSUME o \in Descriptors PROVE refs[instance[o]] > 0
          OBVIOUS
      <4>1. instance[o] \in Descriptors /\ o \in Handles(instance[o])
          BY <2>2 DEF IInv, Links, Handles
      <4> QED BY <4>1, Positive DEF IInv
    <3>2. o \in Players => refs[instance[mediaDescriptor[o]]] > 0
      <4> SUFFICES ASSUME o \in Players PROVE refs[instance[mediaDescriptor[o]]] > 0
          OBVIOUS
      <4>1. /\ instance[mediaDescriptor[o]] \in Descriptors
            /\ o \in Plays(instance[mediaDescriptor[o]])
          BY <2>2 DEF IInv, Links, Plays
      <4> QED BY <4>1, Positive DEF IInv
    <3>3. o \in Owned \cup Players => o \notin gone
        BY <2>2 DEF IInv, GoneMatch
    <3>4. o \in Cluster => "jvlc" \notin gone
        BY <2>2, InstanceAlive
    <3> QED BY <2>2, <3>1, <3>2, <3>3, <3>4 DEF Alive
  <2> QED BY <2>1, <2>2
<1> QED BY <1>1, Invariance, PTL
===========================================================================
