-------------------------- MODULE VlcObject_proofs --------------------------
(***************************************************************************)
(* Threads that share an object, for every number of producers, consumers, *)
(* items and rounds, on each of the three platforms.                       *)
(***************************************************************************)
EXTENDS VlcObject, TLAPS, FiniteSetTheorems

(* A step of t in which no other thread moves.                             *)
OnlyMoves(t) ==
    /\ platform' = platform
    /\ \A u \in Threads \ {t} :
          at'[u] = at[u] /\ pc'[u] = pc[u] /\ i_val'[u] = i_val[u] /\ rounds'[u] = rounds[u]

(* The mutex is taken, given up, or left as it is.                         *)
Enters(t) == owner = NoThread /\ owner' = t /\ Inside(t)'
Leaves(t) == owner = t /\ owner' = NoThread /\ ~Inside(t)'
Stays(t)  == owner' = owner /\ (Inside(t)' <=> Inside(t))

LEMMA ExclusionKept ==
    ASSUME IInv, NEW t \in Threads, OnlyMoves(t),
           Enters(t) \/ Leaves(t) \/ Stays(t)
    PROVE  MutualExclusion'
<1>1. \A u \in Threads \ {t} : Inside(u)' <=> Inside(u)
    BY DEF OnlyMoves, Inside
<1>2. CASE Enters(t)
    BY <1>1, <1>2, ThreadsAssumption DEF Enters, IInv, MutualExclusion
<1>3. CASE Leaves(t)
    BY <1>1, <1>3, ThreadsAssumption DEF Leaves, IInv, MutualExclusion
<1>4. CASE Stays(t)
    BY <1>1, <1>4 DEF Stays, IInv, MutualExclusion
<1> QED BY <1>2, <1>3, <1>4

LEMMA Numbers ==
    ASSUME IInv
    PROVE  i_int \in Nat /\ made \in Nat /\ taken \in Nat /\ i_int = made - taken
BY ObjectAssumption DEF IInv, TypeOK, NoCountLost

(* What is said of the others stays true: the variable and the slot change *)
(* only when none of them counts or has the slot.                          *)
LEMMA PlacesKept ==
    ASSUME IInv, NEW t \in Threads, OnlyMoves(t),
           UNCHANGED <<i_int, made>> \/ owner = t,
           thread' = thread \/ \A u \in Threads \ {t} : at[u] \notin InSlot,
           Place(t)', Counts(t)', HasSlot(t)'
    PROVE  Places'
<1> SUFFICES ASSUME NEW u \in Threads \ {t}
             PROVE  Place(u)' /\ Counts(u)' /\ HasSlot(u)'
    BY DEF Places
<1>1. Place(u) /\ Counts(u) /\ HasSlot(u)
    BY DEF IInv, Places
<1>2. Place(u)'
    BY <1>1 DEF Place, OnlyMoves
<1>3. HasSlot(u)'
    BY <1>1 DEF HasSlot, OnlyMoves
<1>4. Counts(u)'
  <2>1. CASE UNCHANGED <<i_int, made>>
      BY <1>1, <2>1 DEF Counts, OnlyMoves
  <2>2. CASE owner = t
    <3>1. ~Inside(u)
        BY <2>2 DEF IInv, MutualExclusion
    <3>2. pc[u] \notin {"count", "store"}
        BY <1>1, <3>1 DEF Place, Inside, Held
    <3> QED BY <3>2 DEF Counts, OnlyMoves
  <2> QED BY <2>1, <2>2
<1> QED BY <1>2, <1>3, <1>4

LEMMA ProduceStep ==
    ASSUME IInv, NEW t \in Threads, Produce(t)
    PROVE  IInv'
<1> USE DEF Produce, Goes, Runs, vlc_mutex_lock, condVars, timedVars
<1>1. Place(t) /\ Counts(t) /\ HasSlot(t) /\ (owner = t <=> Inside(t))
    BY DEF IInv, Places, MutualExclusion
<1>2. OnlyMoves(t)
    BY DEF OnlyMoves, IInv, TypeOK
<1>3. TypeOK'
    BY <1>1, ThreadsAssumption, ObjectAssumption DEF IInv, TypeOK, Counts, AtLabels, PcLabels, Waits, Held, Wakes, Producers
<1>4. Enters(t)
    BY <1>1 DEF Enters, IInv, TypeOK, Place, Inside, Held, Wakes
<1>5. Place(t)' /\ HasSlot(t)'
    BY <1>1, ObjectAssumption DEF IInv, TypeOK, Place, HasSlot, InSlot, Wakes, Producers
<1>6. Counts(t)'
    BY <1>1 DEF IInv, TypeOK, Counts, Producers
<1>7. UNCHANGED <<i_int, made>> \/ owner = t
    BY <1>1 DEF Inside, Held
<1>8. thread' = thread \/ \A u \in Threads \ {t} : at[u] \notin InSlot
    BY <1>1, ObjectAssumption DEF IInv, Places, Place, HasSlot, InSlot
<1>9. NoCountLost'
    BY <1>1, ObjectAssumption DEF IInv, NoCountLost, Counts, TypeOK
<1> QED BY <1>2, <1>3, <1>4, <1>5, <1>6, <1>7, <1>8, <1>9, ExclusionKept, PlacesKept DEF IInv

LEMMA IncReadStep ==
    ASSUME IInv, NEW t \in Threads, IncRead(t)
    PROVE  IInv'
<1> USE DEF IncRead, Goes, Runs, Read, threadVars, condVars, timedVars
<1>1. Place(t) /\ Counts(t) /\ HasSlot(t) /\ (owner = t <=> Inside(t))
    BY DEF IInv, Places, MutualExclusion
<1>2. OnlyMoves(t)
    BY DEF OnlyMoves, IInv, TypeOK
<1>3. TypeOK'
    BY <1>1, ThreadsAssumption, ObjectAssumption DEF IInv, TypeOK, Counts, AtLabels, PcLabels, Waits, Held, Wakes, Producers
<1>4. Stays(t)
    BY <1>1 DEF Stays, IInv, TypeOK, Place, Inside, Held, Wakes
<1>5. Place(t)' /\ HasSlot(t)'
    BY <1>1, ObjectAssumption DEF IInv, TypeOK, Place, HasSlot, InSlot, Wakes, Producers
<1>6. Counts(t)'
    BY <1>1 DEF IInv, TypeOK, Counts, Producers
<1>7. UNCHANGED <<i_int, made>> \/ owner = t
    BY <1>1 DEF Inside, Held
<1>8. thread' = thread \/ \A u \in Threads \ {t} : at[u] \notin InSlot
    BY <1>1, ObjectAssumption DEF IInv, Places, Place, HasSlot, InSlot
<1>9. NoCountLost'
    BY <1>1, ObjectAssumption DEF IInv, NoCountLost, Counts, TypeOK
<1> QED BY <1>2, <1>3, <1>4, <1>5, <1>6, <1>7, <1>8, <1>9, ExclusionKept, PlacesKept DEF IInv

LEMMA IncWriteStep ==
    ASSUME IInv, NEW t \in Threads, IncWrite(t)
    PROVE  IInv'
<1> USE DEF IncWrite, Goes, Runs, threadVars, condVars, timedVars
<1>1. Place(t) /\ Counts(t) /\ HasSlot(t) /\ (owner = t <=> Inside(t))
    BY DEF IInv, Places, MutualExclusion
<1>2. OnlyMoves(t)
    BY DEF OnlyMoves, IInv, TypeOK
<1>3. TypeOK'
  <2>1. pc[t] = "store" /\ t \in Producers /\ i_int' = i_val[t] + 1 /\ made' = made + 1
      OBVIOUS
  <2>2. made < MaxItems /\ i_val[t] = i_int
      BY <1>1, <2>1 DEF Counts
  <2>3. i_int' \in Nat /\ made' \in 0..MaxItems
    <3> HIDE DEF IncWrite
    <3>1. i_int \in Nat /\ made \in Nat /\ MaxItems \in Nat
        BY Numbers, ObjectAssumption
    <3> QED BY <2>1, <2>2, <3>1
  <2>4. pc' \in [Threads -> PcLabels]
      BY DEF IInv, TypeOK, PcLabels, Held
  <2> QED BY <2>3, <2>4 DEF IInv, TypeOK
<1>4. Stays(t)
    BY <1>1 DEF Stays, IInv, TypeOK, Place, Inside, Held, Wakes
<1>5. Place(t)' /\ HasSlot(t)'
    BY <1>1, ObjectAssumption DEF IInv, TypeOK, Place, HasSlot, InSlot, Wakes, Producers
<1>6. Counts(t)'
    BY <1>1 DEF IInv, TypeOK, Counts, Producers
<1>7. UNCHANGED <<i_int, made>> \/ owner = t
    BY <1>1 DEF Inside, Held
<1>8. thread' = thread \/ \A u \in Threads \ {t} : at[u] \notin InSlot
    BY <1>1, ObjectAssumption DEF IInv, Places, Place, HasSlot, InSlot
<1>9. NoCountLost'
  <2>1. i_int' = i_int + 1 /\ made' = made + 1 /\ taken' = taken
      BY <1>1 DEF Counts
  <2> HIDE DEF IncWrite
  <2>2. i_int \in Nat /\ made \in Nat /\ taken \in Nat /\ i_int = made - taken
      BY Numbers
  <2> QED BY <2>1, <2>2 DEF NoCountLost
<1> QED BY <1>2, <1>3, <1>4, <1>5, <1>6, <1>7, <1>8, <1>9, ExclusionKept, PlacesKept DEF IInv

LEMMA UnlockFirstStep ==
    ASSUME IInv, NEW t \in Threads, UnlockFirst(t)
    PROVE  IInv'
<1> USE DEF UnlockFirst, Goes, Runs, vlc_mutex_unlock, condVars, timedVars
<1>1. Place(t) /\ Counts(t) /\ HasSlot(t) /\ (owner = t <=> Inside(t))
    BY DEF IInv, Places, MutualExclusion
<1>2. OnlyMoves(t)
    BY DEF OnlyMoves, IInv, TypeOK
<1>3. TypeOK'
    BY <1>1, ThreadsAssumption, ObjectAssumption DEF IInv, TypeOK, Counts, AtLabels, PcLabels, Waits, Held, Wakes, Producers
<1>4. Leaves(t)
    BY <1>1 DEF Leaves, IInv, TypeOK, Place, Inside, Held, Wakes
<1>5. Place(t)' /\ HasSlot(t)'
    BY <1>1, ObjectAssumption DEF IInv, TypeOK, Place, HasSlot, InSlot, Wakes, Producers
<1>6. Counts(t)'
    BY <1>1 DEF IInv, TypeOK, Counts, Producers
<1>7. UNCHANGED <<i_int, made>> \/ owner = t
    BY <1>1 DEF Inside, Held
<1>8. thread' = thread \/ \A u \in Threads \ {t} : at[u] \notin InSlot
    BY <1>1, ObjectAssumption DEF IInv, Places, Place, HasSlot, InSlot
<1>9. NoCountLost'
    BY <1>1, ObjectAssumption DEF IInv, NoCountLost, Counts, TypeOK
<1> QED BY <1>2, <1>3, <1>4, <1>5, <1>6, <1>7, <1>8, <1>9, ExclusionKept, PlacesKept DEF IInv

LEMMA LockAgainStep ==
    ASSUME IInv, NEW t \in Threads, LockAgain(t)
    PROVE  IInv'
<1> USE DEF LockAgain, Goes, Runs, vlc_mutex_lock, condVars, timedVars
<1>1. Place(t) /\ Counts(t) /\ HasSlot(t) /\ (owner = t <=> Inside(t))
    BY DEF IInv, Places, MutualExclusion
<1>2. OnlyMoves(t)
    BY DEF OnlyMoves, IInv, TypeOK
<1>3. TypeOK'
    BY <1>1, ThreadsAssumption, ObjectAssumption DEF IInv, TypeOK, Counts, AtLabels, PcLabels, Waits, Held, Wakes, Producers
<1>4. Enters(t)
    BY <1>1 DEF Enters, IInv, TypeOK, Place, Inside, Held, Wakes
<1>5. Place(t)' /\ HasSlot(t)'
    BY <1>1, ObjectAssumption DEF IInv, TypeOK, Place, HasSlot, InSlot, Wakes, Producers
<1>6. Counts(t)'
    BY <1>1 DEF IInv, TypeOK, Counts, Producers
<1>7. UNCHANGED <<i_int, made>> \/ owner = t
    BY <1>1 DEF Inside, Held
<1>8. thread' = thread \/ \A u \in Threads \ {t} : at[u] \notin InSlot
    BY <1>1, ObjectAssumption DEF IInv, Places, Place, HasSlot, InSlot
<1>9. NoCountLost'
    BY <1>1, ObjectAssumption DEF IInv, NoCountLost, Counts, TypeOK
<1> QED BY <1>2, <1>3, <1>4, <1>5, <1>6, <1>7, <1>8, <1>9, ExclusionKept, PlacesKept DEF IInv

LEMMA SignalStep ==
    ASSUME IInv, NEW t \in Threads, Signal(t)
    PROVE  IInv'
<1> USE DEF Signal, Goes, Runs, vlc_cond_signal, timedVars
<1>1. Place(t) /\ Counts(t) /\ HasSlot(t) /\ (owner = t <=> Inside(t))
    BY DEF IInv, Places, MutualExclusion
<1>2. OnlyMoves(t)
    BY DEF OnlyMoves, IInv, TypeOK
<1>3. TypeOK'
    BY <1>1, ThreadsAssumption, ObjectAssumption DEF IInv, TypeOK, Counts, AtLabels, PcLabels, Waits, Held, Wakes, Producers
<1>4. Stays(t)
    BY <1>1 DEF Stays, IInv, TypeOK, Place, Inside, Held, Wakes
<1>5. Place(t)' /\ HasSlot(t)'
    BY <1>1, ObjectAssumption DEF IInv, TypeOK, Place, HasSlot, InSlot, Wakes, Producers
<1>6. Counts(t)'
    BY <1>1 DEF IInv, TypeOK, Counts, Producers
<1>7. UNCHANGED <<i_int, made>> \/ owner = t
    BY <1>1 DEF Inside, Held
<1>8. thread' = thread \/ \A u \in Threads \ {t} : at[u] \notin InSlot
    BY <1>1, ObjectAssumption DEF IInv, Places, Place, HasSlot, InSlot
<1>9. NoCountLost'
    BY <1>1, ObjectAssumption DEF IInv, NoCountLost, Counts, TypeOK
<1> QED BY <1>2, <1>3, <1>4, <1>5, <1>6, <1>7, <1>8, <1>9, ExclusionKept, PlacesKept DEF IInv

LEMMA ConsumeStep ==
    ASSUME IInv, NEW t \in Threads, Consume(t)
    PROVE  IInv'
<1> USE DEF Consume, Goes, Runs, ThisConsumer, vlc_mutex_lock, condVars, timedVars
<1>1. Place(t) /\ Counts(t) /\ HasSlot(t) /\ (owner = t <=> Inside(t))
    BY DEF IInv, Places, MutualExclusion
<1>2. OnlyMoves(t)
    BY DEF OnlyMoves, IInv, TypeOK
<1>3. TypeOK'
    BY <1>1, ThreadsAssumption, ObjectAssumption DEF IInv, TypeOK, Counts, AtLabels, PcLabels, Waits, Held, Wakes, Producers
<1>4. Enters(t)
    BY <1>1 DEF Enters, IInv, TypeOK, Place, Inside, Held, Wakes
<1>5. Place(t)' /\ HasSlot(t)'
    BY <1>1, ObjectAssumption DEF IInv, TypeOK, Place, HasSlot, InSlot, Wakes, Producers
<1>6. Counts(t)'
    BY <1>1 DEF IInv, TypeOK, Counts, Producers
<1>7. UNCHANGED <<i_int, made>> \/ owner = t
    BY <1>1 DEF Inside, Held
<1>8. thread' = thread \/ \A u \in Threads \ {t} : at[u] \notin InSlot
    BY <1>1, ObjectAssumption DEF IInv, Places, Place, HasSlot, InSlot
<1>9. NoCountLost'
    BY <1>1, ObjectAssumption DEF IInv, NoCountLost, Counts, TypeOK
<1> QED BY <1>2, <1>3, <1>4, <1>5, <1>6, <1>7, <1>8, <1>9, ExclusionKept, PlacesKept DEF IInv

LEMMA WaitStep ==
    ASSUME IInv, NEW t \in Threads, Wait(t)
    PROVE  IInv'
<1> USE DEF Wait, vlc_cond_wait, BeginWait, TakeSlot, timedVars, clientVars
<1>1. Place(t) /\ Counts(t) /\ HasSlot(t) /\ (owner = t <=> Inside(t))
    BY DEF IInv, Places, MutualExclusion
<1>2. OnlyMoves(t)
    BY DEF OnlyMoves, IInv, TypeOK
<1>3. TypeOK'
    BY <1>1, ThreadsAssumption, ObjectAssumption DEF IInv, TypeOK, Counts, AtLabels, PcLabels, Waits, Held, Wakes, Producers
<1>4. Leaves(t) \/ Stays(t)
    BY <1>1 DEF Leaves, Stays, IInv, TypeOK, Place, Inside, Held, Wakes
<1>5. Place(t)' /\ HasSlot(t)'
    BY <1>1, ObjectAssumption DEF IInv, TypeOK, Place, HasSlot, InSlot, Wakes, Producers
<1>6. Counts(t)'
    BY <1>1 DEF IInv, TypeOK, Counts, Producers
<1>7. UNCHANGED <<i_int, made>> \/ owner = t
    BY <1>1 DEF Inside, Held
<1>8. thread' = thread \/ \A u \in Threads \ {t} : at[u] \notin InSlot
    BY <1>1, ObjectAssumption DEF IInv, Places, Place, HasSlot, InSlot
<1>9. NoCountLost'
    BY <1>1, ObjectAssumption DEF IInv, NoCountLost, Counts, TypeOK
<1> QED BY <1>2, <1>3, <1>4, <1>5, <1>6, <1>7, <1>8, <1>9, ExclusionKept, PlacesKept DEF IInv

LEMMA TimedWaitStep ==
    ASSUME IInv, NEW t \in Threads, TimedWait(t)
    PROVE  IInv'
<1> USE DEF TimedWait, Goes, Runs, vlc_cond_timedwait, Cut
<1>1. Place(t) /\ Counts(t) /\ HasSlot(t) /\ (owner = t <=> Inside(t))
    BY DEF IInv, Places, MutualExclusion
<1>2. OnlyMoves(t)
    BY DEF OnlyMoves, IInv, TypeOK
<1>3. TypeOK'
  <2>1. PICK n \in 1..MaxRounds : vlc_cond_timedwait(t, n)
      OBVIOUS
  <2>2. rounds' \in [Threads -> 0..MaxRounds]
      BY <2>1, ThreadsAssumption DEF IInv, TypeOK
  <2>3. pc' \in [Threads -> PcLabels] /\ at' \in [Threads -> AtLabels]
      BY <2>1 DEF IInv, TypeOK, PcLabels, Held, AtLabels, Waits
  <2>4. heard' \in [Threads -> BOOLEAN]
      BY <2>1 DEF IInv, TypeOK
  <2> QED BY <2>1, <2>2, <2>3, <2>4 DEF IInv, TypeOK
<1>4. Leaves(t)
    BY <1>1 DEF Leaves, IInv, TypeOK, Place, Inside, Held, Wakes
<1>5. Place(t)' /\ HasSlot(t)'
    BY <1>1, ObjectAssumption DEF IInv, TypeOK, Place, HasSlot, InSlot, Wakes, Producers
<1>6. Counts(t)'
    BY <1>1 DEF IInv, TypeOK, Counts, Producers
<1>7. UNCHANGED <<i_int, made>> \/ owner = t
    BY <1>1 DEF Inside, Held
<1>8. thread' = thread \/ \A u \in Threads \ {t} : at[u] \notin InSlot
    BY <1>1, ObjectAssumption DEF IInv, Places, Place, HasSlot, InSlot
<1>9. NoCountLost'
    BY <1>1, ObjectAssumption DEF IInv, NoCountLost, Counts, TypeOK
<1> QED BY <1>2, <1>3, <1>4, <1>5, <1>6, <1>7, <1>8, <1>9, ExclusionKept, PlacesKept DEF IInv

LEMMA WaitedStep ==
    ASSUME IInv, NEW t \in Threads, Waited(t)
    PROVE  IInv'
<1> USE DEF Waited, Goes, Runs, threadVars, condVars, timedVars
<1>1. Place(t) /\ Counts(t) /\ HasSlot(t) /\ (owner = t <=> Inside(t))
    BY DEF IInv, Places, MutualExclusion
<1>2. OnlyMoves(t)
    BY DEF OnlyMoves, IInv, TypeOK
<1>3. TypeOK'
    BY <1>1, ThreadsAssumption, ObjectAssumption DEF IInv, TypeOK, Counts, AtLabels, PcLabels, Waits, Held, Wakes, Producers
<1>4. Stays(t)
    BY <1>1 DEF Stays, IInv, TypeOK, Place, Inside, Held, Wakes
<1>5. Place(t)' /\ HasSlot(t)'
    BY <1>1, ObjectAssumption DEF IInv, TypeOK, Place, HasSlot, InSlot, Wakes, Producers
<1>6. Counts(t)'
    BY <1>1 DEF IInv, TypeOK, Counts, Producers
<1>7. UNCHANGED <<i_int, made>> \/ owner = t
    BY <1>1 DEF Inside, Held
<1>8. thread' = thread \/ \A u \in Threads \ {t} : at[u] \notin InSlot
    BY <1>1, ObjectAssumption DEF IInv, Places, Place, HasSlot, InSlot
<1>9. NoCountLost'
    BY <1>1, ObjectAssumption DEF IInv, NoCountLost, Counts, TypeOK
<1> QED BY <1>2, <1>3, <1>4, <1>5, <1>6, <1>7, <1>8, <1>9, ExclusionKept, PlacesKept DEF IInv

LEMMA DecReadStep ==
    ASSUME IInv, NEW t \in Threads, DecRead(t)
    PROVE  IInv'
<1> USE DEF DecRead, Goes, Runs, Read, threadVars, condVars, timedVars
<1>1. Place(t) /\ Counts(t) /\ HasSlot(t) /\ (owner = t <=> Inside(t))
    BY DEF IInv, Places, MutualExclusion
<1>2. OnlyMoves(t)
    BY DEF OnlyMoves, IInv, TypeOK
<1>3. TypeOK'
    BY <1>1, ThreadsAssumption, ObjectAssumption DEF IInv, TypeOK, Counts, AtLabels, PcLabels, Waits, Held, Wakes, Producers
<1>4. Stays(t)
    BY <1>1 DEF Stays, IInv, TypeOK, Place, Inside, Held, Wakes
<1>5. Place(t)' /\ HasSlot(t)'
    BY <1>1, ObjectAssumption DEF IInv, TypeOK, Place, HasSlot, InSlot, Wakes, Producers
<1>6. Counts(t)'
    BY <1>1 DEF IInv, TypeOK, Counts, Producers
<1>7. UNCHANGED <<i_int, made>> \/ owner = t
    BY <1>1 DEF Inside, Held
<1>8. thread' = thread \/ \A u \in Threads \ {t} : at[u] \notin InSlot
    BY <1>1, ObjectAssumption DEF IInv, Places, Place, HasSlot, InSlot
<1>9. NoCountLost'
    BY <1>1, ObjectAssumption DEF IInv, NoCountLost, Counts, TypeOK
<1> QED BY <1>2, <1>3, <1>4, <1>5, <1>6, <1>7, <1>8, <1>9, ExclusionKept, PlacesKept DEF IInv

LEMMA DecWriteStep ==
    ASSUME IInv, NEW t \in Threads, DecWrite(t)
    PROVE  IInv'
<1> USE DEF DecWrite, Goes, Runs, threadVars, condVars, timedVars
<1>1. Place(t) /\ Counts(t) /\ HasSlot(t) /\ (owner = t <=> Inside(t))
    BY DEF IInv, Places, MutualExclusion
<1>2. OnlyMoves(t)
    BY DEF OnlyMoves, IInv, TypeOK
<1>3. TypeOK'
  <2>1. i_int' \in Nat /\ taken' \in Nat
      BY <1>1 DEF IInv, TypeOK, Counts
  <2>2. pc' \in [Threads -> PcLabels]
      BY DEF IInv, TypeOK, PcLabels, Held
  <2> QED BY <2>1, <2>2 DEF IInv, TypeOK
<1>4. Stays(t)
    BY <1>1 DEF Stays, IInv, TypeOK, Place, Inside, Held, Wakes
<1>5. Place(t)' /\ HasSlot(t)'
    BY <1>1, ObjectAssumption DEF IInv, TypeOK, Place, HasSlot, InSlot, Wakes, Producers
<1>6. Counts(t)'
    BY <1>1 DEF IInv, TypeOK, Counts, Producers
<1>7. UNCHANGED <<i_int, made>> \/ owner = t
    BY <1>1 DEF Inside, Held
<1>8. thread' = thread \/ \A u \in Threads \ {t} : at[u] \notin InSlot
    BY <1>1, ObjectAssumption DEF IInv, Places, Place, HasSlot, InSlot
<1>9. NoCountLost'
    BY <1>1, ObjectAssumption DEF IInv, NoCountLost, Counts, TypeOK
<1> QED BY <1>2, <1>3, <1>4, <1>5, <1>6, <1>7, <1>8, <1>9, ExclusionKept, PlacesKept DEF IInv

LEMMA UnlockStep ==
    ASSUME IInv, NEW t \in Threads, Unlock(t)
    PROVE  IInv'
<1> USE DEF Unlock, Goes, Runs, vlc_mutex_unlock, condVars, timedVars
<1>1. Place(t) /\ Counts(t) /\ HasSlot(t) /\ (owner = t <=> Inside(t))
    BY DEF IInv, Places, MutualExclusion
<1>2. OnlyMoves(t)
    BY DEF OnlyMoves, IInv, TypeOK
<1>3. TypeOK'
    BY <1>1, ThreadsAssumption, ObjectAssumption DEF IInv, TypeOK, Counts, AtLabels, PcLabels, Waits, Held, Wakes, Producers
<1>4. Leaves(t)
    BY <1>1 DEF Leaves, IInv, TypeOK, Place, Inside, Held, Wakes
<1>5. Place(t)' /\ HasSlot(t)'
    BY <1>1, ObjectAssumption DEF IInv, TypeOK, Place, HasSlot, InSlot, Wakes, Producers
<1>6. Counts(t)'
    BY <1>1 DEF IInv, TypeOK, Counts, Producers
<1>7. UNCHANGED <<i_int, made>> \/ owner = t
    BY <1>1 DEF Inside, Held
<1>8. thread' = thread \/ \A u \in Threads \ {t} : at[u] \notin InSlot
    BY <1>1, ObjectAssumption DEF IInv, Places, Place, HasSlot, InSlot
<1>9. NoCountLost'
    BY <1>1, ObjectAssumption DEF IInv, NoCountLost, Counts, TypeOK
<1> QED BY <1>2, <1>3, <1>4, <1>5, <1>6, <1>7, <1>8, <1>9, ExclusionKept, PlacesKept DEF IInv

LEMMA LeaveMutexStep ==
    ASSUME IInv, NEW t \in Threads, LeaveMutex(t), UNCHANGED clientVars
    PROVE  IInv'
<1> USE DEF LeaveMutex, timedVars, clientVars
<1>1. Place(t) /\ Counts(t) /\ HasSlot(t) /\ (owner = t <=> Inside(t))
    BY DEF IInv, Places, MutualExclusion
<1>2. OnlyMoves(t)
    BY DEF OnlyMoves, IInv, TypeOK
<1>3. TypeOK'
    BY <1>1, ThreadsAssumption, ObjectAssumption DEF IInv, TypeOK, Counts, AtLabels, PcLabels, Waits, Held, Wakes, Producers
<1>4. Leaves(t)
    BY <1>1 DEF Leaves, IInv, TypeOK, Place, Inside, Held, Wakes
<1>5. Place(t)' /\ HasSlot(t)'
    BY <1>1, ObjectAssumption DEF IInv, TypeOK, Place, HasSlot, InSlot, Wakes, Producers
<1>6. Counts(t)'
    BY <1>1 DEF IInv, TypeOK, Counts, Producers
<1>7. UNCHANGED <<i_int, made>> \/ owner = t
    BY <1>1 DEF Inside, Held
<1>8. thread' = thread \/ \A u \in Threads \ {t} : at[u] \notin InSlot
    BY <1>1, ObjectAssumption DEF IInv, Places, Place, HasSlot, InSlot
<1>9. NoCountLost'
    BY <1>1, ObjectAssumption DEF IInv, NoCountLost, Counts, TypeOK
<1> QED BY <1>2, <1>3, <1>4, <1>5, <1>6, <1>7, <1>8, <1>9, ExclusionKept, PlacesKept DEF IInv

LEMMA SuspendStep ==
    ASSUME IInv, NEW t \in Threads, Suspend(t), UNCHANGED clientVars
    PROVE  IInv'
<1> USE DEF Suspend, timedVars, clientVars
<1>1. Place(t) /\ Counts(t) /\ HasSlot(t) /\ (owner = t <=> Inside(t))
    BY DEF IInv, Places, MutualExclusion
<1>2. OnlyMoves(t)
    BY DEF OnlyMoves, IInv, TypeOK
<1>3. TypeOK'
    BY <1>1, ThreadsAssumption, ObjectAssumption DEF IInv, TypeOK, Counts, AtLabels, PcLabels, Waits, Held, Wakes, Producers
<1>4. Stays(t)
    BY <1>1 DEF Stays, IInv, TypeOK, Place, Inside, Held, Wakes
<1>5. Place(t)' /\ HasSlot(t)'
    BY <1>1, ObjectAssumption DEF IInv, TypeOK, Place, HasSlot, InSlot, Wakes, Producers
<1>6. Counts(t)'
    BY <1>1 DEF IInv, TypeOK, Counts, Producers
<1>7. UNCHANGED <<i_int, made>> \/ owner = t
    BY <1>1 DEF Inside, Held
<1>8. thread' = thread \/ \A u \in Threads \ {t} : at[u] \notin InSlot
    BY <1>1, ObjectAssumption DEF IInv, Places, Place, HasSlot, InSlot
<1>9. NoCountLost'
    BY <1>1, ObjectAssumption DEF IInv, NoCountLost, Counts, TypeOK
<1> QED BY <1>2, <1>3, <1>4, <1>5, <1>6, <1>7, <1>8, <1>9, ExclusionKept, PlacesKept DEF IInv

LEMMA FreeSlotStep ==
    ASSUME IInv, NEW t \in Threads, FreeSlot(t), UNCHANGED clientVars
    PROVE  IInv'
<1> USE DEF FreeSlot, timedVars, clientVars
<1>1. Place(t) /\ Counts(t) /\ HasSlot(t) /\ (owner = t <=> Inside(t))
    BY DEF IInv, Places, MutualExclusion
<1>2. OnlyMoves(t)
    BY DEF OnlyMoves, IInv, TypeOK
<1>3. TypeOK'
    BY <1>1, ThreadsAssumption, ObjectAssumption DEF IInv, TypeOK, Counts, AtLabels, PcLabels, Waits, Held, Wakes, Producers
<1>4. Stays(t)
    BY <1>1 DEF Stays, IInv, TypeOK, Place, Inside, Held, Wakes
<1>5. Place(t)' /\ HasSlot(t)'
    BY <1>1, ObjectAssumption DEF IInv, TypeOK, Place, HasSlot, InSlot, Wakes, Producers
<1>6. Counts(t)'
    BY <1>1 DEF IInv, TypeOK, Counts, Producers
<1>7. UNCHANGED <<i_int, made>> \/ owner = t
    BY <1>1 DEF Inside, Held
<1>8. thread' = thread \/ \A u \in Threads \ {t} : at[u] \notin InSlot
    BY <1>1, ObjectAssumption DEF IInv, Places, Place, HasSlot, InSlot
<1>9. NoCountLost'
    BY <1>1, ObjectAssumption DEF IInv, NoCountLost, Counts, TypeOK
<1> QED BY <1>2, <1>3, <1>4, <1>5, <1>6, <1>7, <1>8, <1>9, ExclusionKept, PlacesKept DEF IInv

LEMMA ReacquireStep ==
    ASSUME IInv, NEW t \in Threads, Reacquire(t), UNCHANGED clientVars
    PROVE  IInv'
<1> USE DEF Reacquire, clientVars
<1>1. Place(t) /\ Counts(t) /\ HasSlot(t) /\ (owner = t <=> Inside(t))
    BY DEF IInv, Places, MutualExclusion
<1>2. OnlyMoves(t)
    BY DEF OnlyMoves, IInv, TypeOK
<1>3. TypeOK'
  <2>1. rounds' \in [Threads -> 0..MaxRounds]
      BY ThreadsAssumption DEF IInv, TypeOK
  <2>2. result' \in [Threads -> {"none", "ok", "ETIMEDOUT"}]
      BY DEF IInv, TypeOK
  <2>3. at' \in [Threads -> AtLabels]
      BY DEF IInv, TypeOK, AtLabels
  <2> QED BY <2>1, <2>2, <2>3 DEF IInv, TypeOK
<1>4. Enters(t)
    BY <1>1 DEF Enters, IInv, TypeOK, Place, Inside, Held, Wakes
<1>5. Place(t)' /\ HasSlot(t)'
    BY <1>1, ObjectAssumption DEF IInv, TypeOK, Place, HasSlot, InSlot, Wakes, Producers
<1>6. Counts(t)'
    BY <1>1 DEF IInv, TypeOK, Counts, Producers
<1>7. UNCHANGED <<i_int, made>> \/ owner = t
    BY <1>1 DEF Inside, Held
<1>8. thread' = thread \/ \A u \in Threads \ {t} : at[u] \notin InSlot
    BY <1>1, ObjectAssumption DEF IInv, Places, Place, HasSlot, InSlot
<1>9. NoCountLost'
    BY <1>1, ObjectAssumption DEF IInv, NoCountLost, Counts, TypeOK
<1> QED BY <1>2, <1>3, <1>4, <1>5, <1>6, <1>7, <1>8, <1>9, ExclusionKept, PlacesKept DEF IInv

LEMMA ReacquireForRoundStep ==
    ASSUME IInv, NEW t \in Threads, ReacquireForRound(t), UNCHANGED clientVars
    PROVE  IInv'
<1> USE DEF ReacquireForRound, clientVars
<1>1. Place(t) /\ Counts(t) /\ HasSlot(t) /\ (owner = t <=> Inside(t))
    BY DEF IInv, Places, MutualExclusion
<1>2. OnlyMoves(t)
    BY DEF OnlyMoves, IInv, TypeOK
<1>3. TypeOK'
  <2>1. rounds' \in [Threads -> 0..MaxRounds]
      BY ThreadsAssumption DEF IInv, TypeOK
  <2>2. result' \in [Threads -> {"none", "ok", "ETIMEDOUT"}]
      BY DEF IInv, TypeOK
  <2>3. at' \in [Threads -> AtLabels]
      BY DEF IInv, TypeOK, AtLabels
  <2> QED BY <2>1, <2>2, <2>3 DEF IInv, TypeOK
<1>4. Enters(t)
    BY <1>1 DEF Enters, IInv, TypeOK, Place, Inside, Held, Wakes
<1>5. Place(t)' /\ HasSlot(t)'
    BY <1>1, ObjectAssumption DEF IInv, TypeOK, Place, HasSlot, InSlot, Wakes, Producers
<1>6. Counts(t)'
    BY <1>1 DEF IInv, TypeOK, Counts, Producers
<1>7. UNCHANGED <<i_int, made>> \/ owner = t
    BY <1>1 DEF Inside, Held
<1>8. thread' = thread \/ \A u \in Threads \ {t} : at[u] \notin InSlot
    BY <1>1, ObjectAssumption DEF IInv, Places, Place, HasSlot, InSlot
<1>9. NoCountLost'
    BY <1>1, ObjectAssumption DEF IInv, NoCountLost, Counts, TypeOK
<1> QED BY <1>2, <1>3, <1>4, <1>5, <1>6, <1>7, <1>8, <1>9, ExclusionKept, PlacesKept DEF IInv

LEMMA NextRoundStep ==
    ASSUME IInv, NEW t \in Threads, NextRound(t), UNCHANGED clientVars
    PROVE  IInv'
<1> USE DEF NextRound, timedVars, clientVars
<1>1. Place(t) /\ Counts(t) /\ HasSlot(t) /\ (owner = t <=> Inside(t))
    BY DEF IInv, Places, MutualExclusion
<1>2. OnlyMoves(t)
    BY DEF OnlyMoves, IInv, TypeOK
<1>3. TypeOK'
    BY <1>1, ThreadsAssumption, ObjectAssumption DEF IInv, TypeOK, Counts, AtLabels, PcLabels, Waits, Held, Wakes, Producers
<1>4. Leaves(t)
    BY <1>1 DEF Leaves, IInv, TypeOK, Place, Inside, Held, Wakes
<1>5. Place(t)' /\ HasSlot(t)'
    BY <1>1, ObjectAssumption DEF IInv, TypeOK, Place, HasSlot, InSlot, Wakes, Producers
<1>6. Counts(t)'
    BY <1>1 DEF IInv, TypeOK, Counts, Producers
<1>7. UNCHANGED <<i_int, made>> \/ owner = t
    BY <1>1 DEF Inside, Held
<1>8. thread' = thread \/ \A u \in Threads \ {t} : at[u] \notin InSlot
    BY <1>1, ObjectAssumption DEF IInv, Places, Place, HasSlot, InSlot
<1>9. NoCountLost'
    BY <1>1, ObjectAssumption DEF IInv, NoCountLost, Counts, TypeOK
<1> QED BY <1>2, <1>3, <1>4, <1>5, <1>6, <1>7, <1>8, <1>9, ExclusionKept, PlacesKept DEF IInv

LEMMA EndSignalStep ==
    ASSUME IInv, NEW t \in Threads, EndSignal(t), UNCHANGED clientVars
    PROVE  IInv'
<1> USE DEF EndSignal, timedVars, clientVars
<1>1. Place(t) /\ Counts(t) /\ HasSlot(t) /\ (owner = t <=> Inside(t))
    BY DEF IInv, Places, MutualExclusion
<1>2. OnlyMoves(t)
    BY DEF OnlyMoves, IInv, TypeOK
<1>3. TypeOK'
    BY <1>1, ThreadsAssumption, ObjectAssumption DEF IInv, TypeOK, Counts, AtLabels, PcLabels, Waits, Held, Wakes, Producers
<1>4. Stays(t)
    BY <1>1 DEF Stays, IInv, TypeOK, Place, Inside, Held, Wakes
<1>5. Place(t)' /\ HasSlot(t)'
    BY <1>1, ObjectAssumption DEF IInv, TypeOK, Place, HasSlot, InSlot, Wakes, Producers
<1>6. Counts(t)'
    BY <1>1 DEF IInv, TypeOK, Counts, Producers
<1>7. UNCHANGED <<i_int, made>> \/ owner = t
    BY <1>1 DEF Inside, Held
<1>8. thread' = thread \/ \A u \in Threads \ {t} : at[u] \notin InSlot
    BY <1>1, ObjectAssumption DEF IInv, Places, Place, HasSlot, InSlot
<1>9. NoCountLost'
    BY <1>1, ObjectAssumption DEF IInv, NoCountLost, Counts, TypeOK
<1> QED BY <1>2, <1>3, <1>4, <1>5, <1>6, <1>7, <1>8, <1>9, ExclusionKept, PlacesKept DEF IInv

LEMMA ExpireStep ==
    ASSUME IInv, NEW t \in Threads, Expire(t), UNCHANGED clientVars
    PROVE  IInv'
<1> USE DEF Expire, timedVars, clientVars
<1>1. Place(t) /\ Counts(t) /\ HasSlot(t) /\ (owner = t <=> Inside(t))
    BY DEF IInv, Places, MutualExclusion
<1>2. OnlyMoves(t)
    BY DEF OnlyMoves, IInv, TypeOK
<1>3. TypeOK'
    BY <1>1, ThreadsAssumption, ObjectAssumption DEF IInv, TypeOK, Counts, AtLabels, PcLabels, Waits, Held, Wakes, Producers
<1>4. Stays(t)
    BY <1>1 DEF Stays, IInv, TypeOK, Place, Inside, Held, Wakes
<1>5. Place(t)' /\ HasSlot(t)'
    BY <1>1, ObjectAssumption DEF IInv, TypeOK, Place, HasSlot, InSlot, Wakes, Producers
<1>6. Counts(t)'
    BY <1>1 DEF IInv, TypeOK, Counts, Producers
<1>7. UNCHANGED <<i_int, made>> \/ owner = t
    BY <1>1 DEF Inside, Held
<1>8. thread' = thread \/ \A u \in Threads \ {t} : at[u] \notin InSlot
    BY <1>1, ObjectAssumption DEF IInv, Places, Place, HasSlot, InSlot
<1>9. NoCountLost'
    BY <1>1, ObjectAssumption DEF IInv, NoCountLost, Counts, TypeOK
<1> QED BY <1>2, <1>3, <1>4, <1>5, <1>6, <1>7, <1>8, <1>9, ExclusionKept, PlacesKept DEF IInv

LEMMA SpuriousWakeupStep ==
    ASSUME IInv, NEW t \in Threads, SpuriousWakeup(t), UNCHANGED clientVars
    PROVE  IInv'
<1> USE DEF SpuriousWakeup, timedVars, clientVars
<1>1. Place(t) /\ Counts(t) /\ HasSlot(t) /\ (owner = t <=> Inside(t))
    BY DEF IInv, Places, MutualExclusion
<1>2. OnlyMoves(t)
    BY DEF OnlyMoves, IInv, TypeOK
<1>3. TypeOK'
    BY <1>1, ThreadsAssumption, ObjectAssumption DEF IInv, TypeOK, Counts, AtLabels, PcLabels, Waits, Held, Wakes, Producers
<1>4. Stays(t)
    BY <1>1 DEF Stays, IInv, TypeOK, Place, Inside, Held, Wakes
<1>5. Place(t)' /\ HasSlot(t)'
    BY <1>1, ObjectAssumption DEF IInv, TypeOK, Place, HasSlot, InSlot, Wakes, Producers
<1>6. Counts(t)'
    BY <1>1 DEF IInv, TypeOK, Counts, Producers
<1>7. UNCHANGED <<i_int, made>> \/ owner = t
    BY <1>1 DEF Inside, Held
<1>8. thread' = thread \/ \A u \in Threads \ {t} : at[u] \notin InSlot
    BY <1>1, ObjectAssumption DEF IInv, Places, Place, HasSlot, InSlot
<1>9. NoCountLost'
    BY <1>1, ObjectAssumption DEF IInv, NoCountLost, Counts, TypeOK
<1> QED BY <1>2, <1>3, <1>4, <1>5, <1>6, <1>7, <1>8, <1>9, ExclusionKept, PlacesKept DEF IInv

(* The two steps that move another thread too.                             *)
LEMMA WakeOneStep ==
    ASSUME IInv, NEW t \in Threads, WakeOne(t), UNCHANGED clientVars
    PROVE  IInv'
<1> USE DEF WakeOne, clientVars
<1>1. Place(t) /\ (owner = t <=> Inside(t))
    BY DEF IInv, Places, MutualExclusion
<1>2. CASE Waiting = {}
  <2> USE <1>2
  <2>1. OnlyMoves(t)
      BY DEF OnlyMoves, IInv, TypeOK, Waiting
  <2>2. TypeOK'
      BY DEF IInv, TypeOK, AtLabels, Waiting
  <2>3. Stays(t)
      BY <1>1 DEF Stays, IInv, TypeOK, Place, Inside, Held, Waiting
  <2>4. Place(t)' /\ HasSlot(t)' /\ Counts(t)'
      BY <1>1 DEF IInv, TypeOK, Place, Places, HasSlot, Counts, InSlot, Waiting
  <2>5. NoCountLost'
      BY DEF IInv, NoCountLost
  <2> QED BY <2>1, <2>2, <2>3, <2>4, <2>5, ExclusionKept, PlacesKept DEF IInv
<1>3. ASSUME NEW u \in Waiting,
             at' = [at EXCEPT ![t] = "running", ![u] = "woken"],
             heard' = [heard EXCEPT ![u] = TRUE]
      PROVE  IInv'
  <2>0. u \in Threads /\ at[u] = "waiting" /\ u # t
      BY DEF Waiting
  <2>1. at \in [Threads -> AtLabels]
      BY DEF IInv, TypeOK
  <2>2. /\ at'[t] = "running" /\ at'[u] = "woken" /\ at[t] = "signal"
        /\ \A w \in Threads \ {t, u} : at'[w] = at[w]
        /\ UNCHANGED <<platform, owner, thread, rounds, result, cut, pc, i_int, i_val, made, taken>>
      BY <1>3, <2>0, <2>1
  <2> HIDE DEF WakeOne
  <2>3. TypeOK'
    <3>1. at' \in [Threads -> AtLabels]
        BY <1>3, <2>1 DEF AtLabels, Wakes
    <3>2. heard' \in [Threads -> BOOLEAN]
        BY <1>3 DEF IInv, TypeOK
    <3> QED BY <2>2, <3>1, <3>2 DEF IInv, TypeOK
  <2>4. MutualExclusion'
    <3>1. \A w \in Threads : Inside(w)' <=> Inside(w)
        BY <1>1, <2>0, <2>2 DEF Inside, Place, Held
    <3> QED BY <2>2, <3>1 DEF IInv, MutualExclusion
  <2>5. Places'
    <3> SUFFICES ASSUME NEW w \in Threads
                 PROVE  Place(w)' /\ Counts(w)' /\ HasSlot(w)'
        BY DEF Places
    <3>1. Place(w) /\ Counts(w) /\ HasSlot(w)
        BY DEF IInv, Places
    <3> QED BY <2>0, <2>2, <3>1 DEF Place, Counts, HasSlot, InSlot
  <2> QED BY <2>2, <2>3, <2>4, <2>5 DEF IInv, NoCountLost
<1> QED BY <1>2, <1>3

LEMMA ResumeStep ==
    ASSUME IInv, NEW t \in Threads, Resume(t), UNCHANGED clientVars
    PROVE  IInv'
<1> DEFINE u == thread
<1>0. /\ u \in Threads /\ at[u] = "suspended" /\ at[t] = "signal" /\ u # t
      /\ at' = [at EXCEPT ![t] = "snooze", ![u] = "resumed"]
      /\ platform = "beos"
    BY DEF Resume
<1>1. at \in [Threads -> AtLabels]
    BY DEF IInv, TypeOK
<1>2. /\ at'[t] = "snooze" /\ at'[u] = "resumed"
      /\ \A w \in Threads \ {t, u} : at'[w] = at[w]
      /\ UNCHANGED <<platform, owner, thread, rounds, result, heard, cut, pc, i_int, i_val,
                     made, taken>>
    BY <1>0, <1>1 DEF Resume, timedVars, clientVars
<1>3. TypeOK'
  <2>1. at' \in [Threads -> AtLabels]
      BY <1>0, <1>1 DEF AtLabels
  <2> QED BY <1>2, <2>1 DEF IInv, TypeOK
<1>4. MutualExclusion'
  <2>1. \A w \in Threads : Inside(w)' <=> Inside(w)
      BY <1>0, <1>2 DEF Inside
  <2> QED BY <1>2, <2>1 DEF IInv, MutualExclusion
<1>5. Places'
  <2> SUFFICES ASSUME NEW w \in Threads
               PROVE  Place(w)' /\ Counts(w)' /\ HasSlot(w)'
      BY DEF Places
  <2>1. Place(w) /\ Counts(w) /\ HasSlot(w)
      BY DEF IInv, Places
  <2> QED BY <1>0, <1>2, <2>1 DEF Place, Counts, HasSlot, InSlot
<1> QED BY <1>2, <1>3, <1>4, <1>5 DEF IInv, NoCountLost

---------------------------------------------------------------------------
(* The inductive invariant holds in every reachable state.                 *)
THEOREM Invariance == Spec => []IInv
<1>1. Init => IInv
  <2> SUFFICES ASSUME Init PROVE IInv
      OBVIOUS
  <2>1. /\ \A t \in Threads : at[t] = "running" /\ pc[t] = "out" /\ rounds[t] = 0
        /\ owner = NoThread /\ i_int = 0 /\ made = 0 /\ taken = 0
      BY DEF Init, ThreadsInit
  <2>2. TypeOK
    <3>1. 0 \in 0..MaxRounds /\ 0 \in 0..MaxItems
        BY ThreadsAssumption, ObjectAssumption
    <3>2. at \in [Threads -> AtLabels] /\ pc \in [Threads -> PcLabels]
        BY DEF Init, ThreadsInit, AtLabels, PcLabels
    <3> QED BY <3>1, <3>2 DEF Init, ThreadsInit, TypeOK
  <2>3. MutualExclusion
      BY <2>1, ThreadsAssumption DEF MutualExclusion, Inside, Held
  <2>4. Places
    <3> SUFFICES ASSUME NEW t \in Threads PROVE Place(t) /\ Counts(t) /\ HasSlot(t)
        BY DEF Places
    <3>1. at[t] = "running" /\ pc[t] = "out" /\ rounds[t] = 0
        BY <2>1
    <3>2. Place(t)
        BY <3>1 DEF Place, InSlot
    <3> QED BY <3>1, <3>2 DEF Counts, HasSlot, InSlot
  <2>5. NoCountLost
      BY <2>1 DEF NoCountLost
  <2> QED BY <2>2, <2>3, <2>4, <2>5 DEF IInv
<1>2. IInv /\ [Next]_vars => IInv'
  <2> SUFFICES ASSUME IInv, [Next]_vars PROVE IInv'
      OBVIOUS
  <2>1. CASE UNCHANGED vars
      BY <2>1 DEF vars, threadVars, condVars, timedVars, clientVars, IInv, TypeOK,
                  MutualExclusion, Places, Place, Counts, HasSlot, Inside, NoCountLost
  <2>2. ASSUME NEW t \in Threads, Step(t) PROVE IInv'
    <3>1. CASE ProducerStep(t)
        BY <3>1, ProduceStep, IncReadStep, IncWriteStep, UnlockFirstStep, LockAgainStep,
           SignalStep DEF ProducerStep
    <3>2. CASE ConsumerStep(t)
        BY <3>2, ConsumeStep, WaitStep, TimedWaitStep, WaitedStep, DecReadStep, DecWriteStep
           DEF ConsumerStep
    <3>3. CASE Continue(t) /\ UNCHANGED clientVars
        BY <3>3, LeaveMutexStep, SuspendStep, FreeSlotStep, ReacquireStep,
           ReacquireForRoundStep, NextRoundStep, WakeOneStep, ResumeStep, EndSignalStep
           DEF Continue
    <3> QED BY <2>2, <3>1, <3>2, <3>3, UnlockStep DEF Step
  <2>3. ASSUME NEW t \in Threads, Interrupt(t), UNCHANGED clientVars PROVE IInv'
      BY <2>3, ExpireStep, SpuriousWakeupStep DEF Interrupt
  <2> QED BY <2>1, <2>2, <2>3 DEF Next
<1> QED BY <1>1, <1>2, PTL DEF Spec

(* Every variable keeps its type, and the object's variable is never       *)
(* negative.                                                               *)
THEOREM TypeCorrect == Spec => []TypeOK
BY Invariance, PTL DEF IInv

(* No count is lost, whoever counts.                                       *)
THEOREM CountsAddUp == Spec => []NoCountLost
BY Invariance, PTL DEF IInv

(* A thread holds the mutex exactly while it is inside: at most one is.    *)
THEOREM OneInside == Spec => []MutualExclusion
BY Invariance, PTL DEF IInv

---------------------------------------------------------------------------
(* Who sleeps and who signals, after a step that takes one thread to x.    *)
MovesTo(t, x) == at' = [at EXCEPT ![t] = x]

LEMMA OneMoves ==
    ASSUME IInv, NEW t \in Threads, NEW x, MovesTo(t, x)
    PROVE  /\ x \in Waits => Asleep' = Asleep \cup {t}
           /\ x \notin Waits => Asleep' = Asleep \ {t}
           /\ (x \in Waits <=> at[t] \in Waits) => Asleep' = Asleep
           /\ x = "signal" => Signaling' = Signaling \cup {t}
           /\ x # "signal" => Signaling' = Signaling \ {t}
           /\ x # "signal" /\ at[t] # "signal" => Signaling' = Signaling
<1>1. at' = [u \in Threads |-> IF u = t THEN x ELSE at[u]]
    BY DEF MovesTo, IInv, TypeOK
<1>2. Asleep' = {u \in Threads : (IF u = t THEN x ELSE at[u]) \in Waits}
    BY <1>1 DEF Asleep
<1>3. Signaling' = {u \in Threads : (IF u = t THEN x ELSE at[u]) = "signal"}
    BY <1>1 DEF Signaling
<1> QED BY <1>2, <1>3 DEF Asleep, Signaling

LEMMA NobodyMoves ==
    ASSUME at' = at
    PROVE  Asleep' = Asleep /\ Signaling' = Signaling
BY DEF Asleep, Signaling

(* Every step of a thread is a step of the condition CondVar describes, or *)
(* changes nothing it sees.                                                *)
LEMMA LockPromised ==
    ASSUME NEW t \in Threads, vlc_mutex_lock(t)
    PROVE  Monitor!Lock(t)
<1>1. owner = NoThread /\ owner' = t /\ at[t] = "running" /\ at' = at
    BY DEF vlc_mutex_lock, condVars
<1> QED BY <1>1, NobodyMoves DEF Monitor!Lock, Asleep, Waits

LEMMA UnlockPromised ==
    ASSUME NEW t \in Threads, vlc_mutex_unlock(t)
    PROVE  Monitor!Unlock(t)
<1>1. owner = t /\ owner' = NoThread /\ at[t] = "running" /\ at' = at
    BY DEF vlc_mutex_unlock, condVars
<1> QED BY <1>1, NobodyMoves DEF Monitor!Unlock, Signaling

LEMMA WaitPromised ==
    ASSUME IInv, NEW t \in Threads,
           \/ BeginWait(t) \/ (\E n \in 1..MaxRounds : vlc_cond_timedwait(t, n))
           \/ LeaveMutex(t) \/ NextRound(t)
    PROVE  Monitor!Wait(t)
<1>1. PICK x \in Waits : MovesTo(t, x)
    BY DEF MovesTo, BeginWait, vlc_cond_timedwait, LeaveMutex, NextRound, Waits
<1>2. owner' = NoThread /\ at[t] \in {"running", "slot", "round"}
    BY DEF BeginWait, vlc_cond_timedwait, LeaveMutex, NextRound
<1>3. owner = t
  <2>1. CASE LeaveMutex(t) \/ NextRound(t)
      BY <2>1 DEF LeaveMutex, NextRound, IInv, MutualExclusion, Inside
  <2> QED BY <2>1 DEF BeginWait, vlc_cond_timedwait
<1>4. t \notin Signaling /\ x # "signal" /\ at[t] # "signal"
    BY <1>2 DEF Signaling, Waits
<1>5. Asleep' = Asleep \cup {t} /\ Signaling' = Signaling
    BY <1>1, <1>4, OneMoves
<1> QED BY <1>2, <1>3, <1>4, <1>5 DEF Monitor!Wait

LEMMA GiveUpPromised ==
    ASSUME IInv, NEW t \in Threads, Interrupt(t)
    PROVE  Monitor!GiveUp(t)
<1>1. PICK x \in {"woken", "expired"} : MovesTo(t, x)
    BY DEF MovesTo, Interrupt, Expire, SpuriousWakeup
<1>2. at[t] = "waiting" /\ owner' = owner
    BY DEF Interrupt, Expire, SpuriousWakeup
<1>3. x \notin Waits /\ x # "signal" /\ t \in Asleep /\ at[t] # "signal"
    BY <1>2 DEF Waits, Asleep, Signaling
<1>4. Asleep' = Asleep \ {t} /\ Signaling' = Signaling
    BY <1>1, <1>3, OneMoves
<1> QED BY <1>2, <1>3, <1>4 DEF Monitor!GiveUp

LEMMA SignalPromised ==
    ASSUME IInv, NEW t \in Threads, vlc_cond_signal(t)
    PROVE  Monitor!Signal(t)
<1>1. owner = t /\ owner' = owner /\ MovesTo(t, "signal")
      /\ ("signal" \in Waits <=> at[t] \in Waits)
    BY DEF MovesTo, vlc_cond_signal, Waits
<1>3. Asleep' = Asleep /\ Signaling' = Signaling \cup {t}
    BY <1>1, OneMoves
<1> QED BY <1>1, <1>3 DEF Monitor!Signal

LEMMA ReacquirePromised ==
    ASSUME IInv, NEW t \in Threads, Reacquire(t) \/ ReacquireForRound(t)
    PROVE  Monitor!Lock(t)
<1>1. PICK x \in {"running", "round"} : MovesTo(t, x)
    BY DEF MovesTo, Reacquire, ReacquireForRound
<1>2. at[t] \in Wakes /\ owner = NoThread /\ owner' = t
    BY DEF Reacquire, ReacquireForRound
<1>3. /\ x \notin Waits /\ at[t] \notin Waits /\ x # "signal" /\ at[t] # "signal"
      /\ t \notin Asleep
    BY <1>2 DEF Waits, Wakes, Asleep
<1>4. Asleep' = Asleep /\ Signaling' = Signaling
    BY <1>1, <1>3, OneMoves
<1> QED BY <1>2, <1>3, <1>4 DEF Monitor!Lock

(* A signal of POSIX threads or Win32: all who sleep are waiting.          *)
LEMMA WakePromised ==
    ASSUME IInv, NEW t \in Threads, WakeOne(t)
    PROVE  Monitor!WakeNobody(t) \/ \E u \in Threads : Monitor!Wake(t, u)
<1>1. platform # "beos" /\ at[t] = "signal" /\ owner' = owner
    BY DEF WakeOne
<1>2. Asleep = Waiting
  <2>1. \A u \in Threads : at[u] \notin {"suspending", "suspended"}
      BY <1>1 DEF IInv, Places, Place, InSlot
  <2> QED BY <2>1 DEF Asleep, Waiting, Waits
<1>3. t \in Signaling /\ t \notin Asleep /\ ("running" \in Waits <=> at[t] \in Waits)
    BY <1>1 DEF Signaling, Asleep, Waits
<1>4. CASE Waiting = {} /\ MovesTo(t, "running")
  <2>1. Asleep' = Asleep /\ Signaling' = Signaling \ {t}
      BY <1>3, <1>4, OneMoves
  <2> QED BY <1>1, <1>2, <1>3, <1>4, <2>1 DEF Monitor!WakeNobody
<1>5. ASSUME NEW u \in Waiting, at' = [at EXCEPT ![t] = "running", ![u] = "woken"]
      PROVE  Monitor!Wake(t, u)
  <2>1. u \in Threads /\ u # t /\ at[u] = "waiting"
      BY <1>1 DEF Waiting
  <2>2. at' = [v \in Threads |-> IF v = u THEN "woken"
                                  ELSE IF v = t THEN "running" ELSE at[v]]
      BY <1>5, <2>1 DEF IInv, TypeOK
  <2>3. ASSUME NEW v \in Threads
        PROVE  /\ (at'[v] \in Waits) <=> (v # u /\ at[v] \in Waits)
               /\ (at'[v] = "signal") <=> (v # t /\ at[v] = "signal")
      BY <1>1, <2>1, <2>2 DEF Waits
  <2>4. Asleep' = Asleep \ {u} /\ Signaling' = Signaling \ {t}
      BY <2>3 DEF Asleep, Signaling
  <2> QED BY <1>1, <1>2, <1>3, <2>4 DEF Monitor!Wake
<1> QED BY <1>4, <1>5 DEF WakeOne, Waiting, MovesTo

LEMMA ResumePromised ==
    ASSUME IInv, NEW t \in Threads, Resume(t)
    PROVE  \E u \in Threads : Monitor!Wake(t, u)
<1>1. /\ at[t] = "signal" /\ owner' = owner
      /\ thread \in Threads /\ at[thread] = "suspended"
      /\ at' = [at EXCEPT ![t] = "snooze", ![thread] = "resumed"]
    BY DEF Resume
<1>2. at' = [v \in Threads |-> IF v = thread THEN "resumed"
                                ELSE IF v = t THEN "snooze" ELSE at[v]]
    BY <1>1 DEF IInv, TypeOK
<1>3. ASSUME NEW v \in Threads
      PROVE  /\ (at'[v] \in Waits) <=> (v # thread /\ at[v] \in Waits)
             /\ (at'[v] = "signal") <=> (v # t /\ at[v] = "signal")
    BY <1>1, <1>2 DEF Waits
<1>4. Asleep' = Asleep \ {thread} /\ Signaling' = Signaling \ {t}
    BY <1>3 DEF Asleep, Signaling
<1>5. t \in Signaling /\ thread \in Asleep
    BY <1>1 DEF Signaling, Asleep, Waits
<1> QED BY <1>1, <1>4, <1>5 DEF Monitor!Wake

(* The slot is empty: nobody sleeps on BeOS.                               *)
LEMMA EndSignalPromised ==
    ASSUME IInv, NEW t \in Threads, EndSignal(t)
    PROVE  Monitor!WakeNobody(t) \/ UNCHANGED Monitor!vars
<1>1. /\ platform = "beos" /\ at[t] \in {"signal", "snooze"} /\ thread = NoThread
      /\ owner' = owner /\ MovesTo(t, "running")
      /\ ("running" \in Waits <=> at[t] \in Waits)
    BY DEF MovesTo, EndSignal, Waits
<1>2. Asleep = {}
  <2>1. \A u \in Threads : at[u] \notin Waits
      BY <1>1, ThreadsAssumption DEF IInv, Places, Place, HasSlot, InSlot, Waits
  <2> QED BY <2>1 DEF Asleep
<1>3. Asleep' = Asleep /\ Signaling' = Signaling \ {t}
    BY <1>1, OneMoves
<1>4. CASE t \in Signaling
    BY <1>1, <1>2, <1>3, <1>4 DEF Monitor!WakeNobody
<1>5. CASE t \notin Signaling
    BY <1>1, <1>3, <1>5 DEF Monitor!vars
<1> QED BY <1>4, <1>5

(* The slot is taken or freed, or the thread is suspended at last.         *)
LEMMA SlotPromised ==
    ASSUME IInv, NEW t \in Threads, TakeSlot(t) \/ Suspend(t) \/ FreeSlot(t)
    PROVE  UNCHANGED Monitor!vars
<1>1. PICK x \in {"slot", "suspended", "woken"} :
          /\ MovesTo(t, x) /\ owner' = owner
          /\ (x \in Waits <=> at[t] \in Waits)
          /\ at[t] # "signal"
    BY DEF MovesTo, TakeSlot, Suspend, FreeSlot, Waits
<1>2. x # "signal"
    BY <1>1
<1>3. Asleep' = Asleep /\ Signaling' = Signaling
    BY <1>1, <1>2, OneMoves
<1> QED BY <1>1, <1>3 DEF Monitor!vars

(* On each platform the object's threads get what CondVar promises.        *)
THEOREM PromiseKept == Spec => KeepsPromise
<1>1. Init => Monitor!Init
    BY DEF Init, ThreadsInit, Monitor!Init, Asleep, Signaling, Waits
<1>2. IInv /\ [Next]_vars => [Monitor!Next]_(Monitor!vars)
  <2> SUFFICES ASSUME IInv, [Next]_vars PROVE [Monitor!Next]_(Monitor!vars)
      OBVIOUS
  <2>1. CASE UNCHANGED <<owner, at>>
      BY <2>1, NobodyMoves DEF Monitor!vars
  <2>2. ASSUME NEW t \in Threads, ProducerStep(t) PROVE [Monitor!Next]_(Monitor!vars)
    <3>1. \/ vlc_mutex_lock(t) \/ vlc_mutex_unlock(t) \/ vlc_cond_signal(t)
          \/ UNCHANGED <<owner, at>>
        BY <2>2 DEF ProducerStep, Produce, IncRead, IncWrite, UnlockFirst, LockAgain, Signal,
                    threadVars, condVars
    <3> QED BY <2>1, <3>1, LockPromised, UnlockPromised, SignalPromised DEF Monitor!Next
  <2>3. ASSUME NEW t \in Threads, ConsumerStep(t) PROVE [Monitor!Next]_(Monitor!vars)
    <3>1. \/ vlc_mutex_lock(t) \/ BeginWait(t) \/ TakeSlot(t)
          \/ (\E n \in 1..MaxRounds : vlc_cond_timedwait(t, n))
          \/ UNCHANGED <<owner, at>>
        BY <2>3 DEF ConsumerStep, Consume, Wait, TimedWait, Waited, DecRead, DecWrite,
                    vlc_cond_wait, threadVars, condVars
    <3> QED BY <2>1, <3>1, LockPromised, WaitPromised, SlotPromised DEF Monitor!Next
  <2>4. ASSUME NEW t \in Threads, Unlock(t) PROVE [Monitor!Next]_(Monitor!vars)
      BY <2>4, UnlockPromised DEF Unlock, Monitor!Next
  <2>5. ASSUME NEW t \in Threads, Continue(t) PROVE [Monitor!Next]_(Monitor!vars)
      BY <2>5, WaitPromised, SlotPromised, ReacquirePromised, WakePromised, ResumePromised,
         EndSignalPromised DEF Continue, Monitor!Next
  <2>6. ASSUME NEW t \in Threads, Interrupt(t) PROVE [Monitor!Next]_(Monitor!vars)
      BY <2>6, GiveUpPromised DEF Monitor!Next
  <2> QED BY <2>1, <2>2, <2>3, <2>4, <2>5, <2>6
         DEF Next, Step, vars, threadVars, condVars
<1> QED BY <1>1, <1>2, Invariance, PTL DEF Spec, KeepsPromise, Monitor!Spec

---------------------------------------------------------------------------
(* Consumers that do not sleep, and producers that have to signal, are so   *)
(* many.                                                                   *)
Awake == ThisConsumer \ Asleep

LEMMA Counted ==
    ASSUME NEW S, S \subseteq Threads
    PROVE  IsFiniteSet(S) /\ Cardinality(S) \in Nat
<1>1. IsFiniteSet(S)
    BY ObjectAssumption, FS_Subset
<1> QED BY <1>1, FS_CardinalityType

LEMMA Fewer ==
    ASSUME NEW S, NEW T, S \subseteq T, T \subseteq Threads
    PROVE  Cardinality(S) <= Cardinality(T)
<1>1. IsFiniteSet(T)
    BY Counted
<1> QED BY <1>1, FS_Subset

LEMMA OfThreads ==
    /\ Awake \subseteq Threads /\ ToSignal \subseteq Threads
    /\ Cardinality(Awake) \in Nat /\ Cardinality(ToSignal) \in Nat
<1>1. Awake \subseteq Threads /\ ToSignal \subseteq Threads
    BY ObjectAssumption DEF Awake, ThisConsumer, ToSignal, Producers
<1> QED BY <1>1, Counted

LEMMA OfThreadsNext ==
    /\ Awake' \subseteq Threads /\ ToSignal' \subseteq Threads
    /\ Cardinality(Awake') \in Nat /\ Cardinality(ToSignal') \in Nat
<1>1. Awake' \subseteq Threads /\ ToSignal' \subseteq Threads
    BY ObjectAssumption DEF Awake, ThisConsumer, ToSignal, Producers
<1> QED BY <1>1, Counted

(* What a step may do: wake somebody up or nobody, with as many signals to *)
(* come, or more.                                                          *)
LEMMA NobodyFellAsleep ==
    ASSUME NoSignalLost, IInv, IInv', Awake \subseteq Awake', ToSignal \subseteq ToSignal',
           Asleep' \subseteq Asleep, cut' = cut, i_int' <= i_int
    PROVE  NoSignalLost'
<1>1. Cardinality(Awake) <= Cardinality(Awake') /\ Cardinality(ToSignal) <= Cardinality(ToSignal')
    BY OfThreadsNext, Fewer
<1>2. i_int \in Nat /\ i_int' \in Nat
    BY DEF IInv, TypeOK
<1>3. CASE cut \/ Asleep = {}
    BY <1>3 DEF NoSignalLost
<1>4. CASE i_int <= Cardinality(Awake) + Cardinality(ToSignal)
  <2>1. i_int' <= Cardinality(Awake') + Cardinality(ToSignal')
      BY <1>1, <1>2, <1>4, OfThreads, OfThreadsNext
  <2> QED BY <2>1 DEF NoSignalLost, Awake
<1> QED BY <1>3, <1>4 DEF NoSignalLost, Awake

LEMMA NothingToTake ==
    ASSUME i_int' = 0
    PROVE  NoSignalLost'
<1>1. 0 <= Cardinality(Awake') + Cardinality(ToSignal')
    BY OfThreadsNext
<1> QED BY <1>1 DEF NoSignalLost, Awake

(* A new item, with a new signal to come.                                  *)
LEMMA OneMore ==
    ASSUME NoSignalLost, IInv, NEW t \in Threads, t \notin ToSignal, ToSignal' = ToSignal \cup {t},
           Awake' = Awake, Asleep' = Asleep, cut' = cut, i_int' = i_int + 1
    PROVE  NoSignalLost'
<1>1. Cardinality(ToSignal') = Cardinality(ToSignal) + 1
  <2>1. IsFiniteSet(ToSignal)
      BY OfThreads, Counted
  <2> QED BY <2>1, FS_AddElement
<1>2. i_int \in Nat
    BY DEF IInv, TypeOK
<1>3. CASE cut \/ Asleep = {}
    BY <1>3 DEF NoSignalLost
<1>4. CASE i_int <= Cardinality(Awake) + Cardinality(ToSignal)
  <2>1. i_int' <= Cardinality(Awake') + Cardinality(ToSignal')
      BY <1>1, <1>2, <1>4, OfThreads
  <2> QED BY <2>1 DEF NoSignalLost, Awake
<1> QED BY <1>3, <1>4 DEF NoSignalLost, Awake

(* A signal that wakes a consumer.                                         *)
LEMMA OneWoken ==
    ASSUME NoSignalLost, IInv, NEW t \in Threads, ToSignal \ {t} \subseteq ToSignal',
           NEW u \in ThisConsumer, u \in Asleep, Asleep' = Asleep \ {u},
           ThisConsumer' = ThisConsumer, UNCHANGED <<cut, i_int>>
    PROVE  NoSignalLost'
<1>1. Cardinality(Awake') = Cardinality(Awake) + 1
  <2>1. Awake' = Awake \cup {u} /\ u \notin Awake
      BY DEF Awake
  <2>2. IsFiniteSet(Awake)
      BY OfThreads, Counted
  <2> QED BY <2>1, <2>2, FS_AddElement
<1>2. Cardinality(ToSignal) <= Cardinality(ToSignal') + 1
  <2>1. IsFiniteSet(ToSignal)
      BY OfThreads, Counted
  <2>2. \/ Cardinality(ToSignal \ {t}) = Cardinality(ToSignal) - 1
        \/ Cardinality(ToSignal \ {t}) = Cardinality(ToSignal)
      BY <2>1, FS_RemoveElement
  <2>3. Cardinality(ToSignal \ {t}) <= Cardinality(ToSignal') /\ Cardinality(ToSignal \ {t}) \in Nat
      BY OfThreads, OfThreadsNext, Fewer, Counted
  <2> QED BY <2>2, <2>3, OfThreads, OfThreadsNext
<1>3. i_int \in Nat
    BY DEF IInv, TypeOK
<1>4. CASE cut
    BY <1>4 DEF NoSignalLost
<1>5. CASE i_int <= Cardinality(Awake) + Cardinality(ToSignal)
  <2>1. i_int' <= Cardinality(Awake') + Cardinality(ToSignal')
      BY <1>1, <1>2, <1>3, <1>5, OfThreads, OfThreadsNext
  <2> QED BY <2>1 DEF NoSignalLost, Awake
<1> QED BY <1>4, <1>5 DEF NoSignalLost, Awake

(* What is to be shown of a step in which only t moves.                    *)
HasToSignal(t) ==
    t \in Producers /\ (pc[t] \in {"signal", "unlock first", "lock again"} \/ at[t] = "signal")

Quiet(t) ==
    /\ OnlyMoves(t) /\ cut' = cut
    /\ UNCHANGED i_int \/ (owner = t /\ i_int' <= i_int)
    /\ at'[t] \in Waits => at[t] \in Waits
    /\ HasToSignal(t) => HasToSignal(t)'

LEMMA SleepersKept ==
    ASSUME IInv, Sleepers, NEW t \in Threads, OnlyMoves(t), cut => cut',
           UNCHANGED i_int \/ owner = t, Sleeper(t)'
    PROVE  Sleepers'
<1> SUFFICES ASSUME NEW u \in Threads \ {t} PROVE Sleeper(u)'
    BY DEF Sleepers
<1>1. at'[u] = at[u] /\ ThisConsumer' = ThisConsumer
    BY DEF OnlyMoves, ThisConsumer
<1>2. at[u] = "slot" => owner = u
    BY DEF IInv, MutualExclusion, Inside
<1>3. Sleeper(u)
    BY DEF Sleepers
<1> QED BY <1>1, <1>2, <1>3 DEF Sleeper

LEMMA QuietKeeps ==
    ASSUME IInv, IInv', SignalInv, NEW t \in Threads, Quiet(t), Sleeper(t)'
    PROVE  SignalInv'
<1>1. Sleepers'
    BY SleepersKept DEF SignalInv, Quiet
<1>2. Asleep' \subseteq Asleep /\ ThisConsumer' = ThisConsumer
    BY DEF Quiet, OnlyMoves, Asleep, ThisConsumer
<1>3. Awake \subseteq Awake'
    BY <1>2 DEF Awake
<1>4. ToSignal \subseteq ToSignal'
    BY DEF Quiet, OnlyMoves, ToSignal, HasToSignal, Producers
<1>5. i_int' <= i_int /\ cut' = cut
    BY DEF Quiet, IInv, TypeOK
<1>6. NoSignalLost'
    BY <1>2, <1>3, <1>4, <1>5, NobodyFellAsleep DEF SignalInv
<1> QED BY <1>1, <1>6 DEF SignalInv

LEMMA ProducersQuiet ==
    ASSUME IInv, SignalInv, NEW t \in Threads,
           Produce(t) \/ IncRead(t) \/ UnlockFirst(t) \/ LockAgain(t)
    PROVE  Quiet(t) /\ Sleeper(t)'
<1>1. OnlyMoves(t) /\ UNCHANGED <<cut, i_int>> /\ at' = at
    BY DEF OnlyMoves, IInv, TypeOK, Produce, IncRead, UnlockFirst, LockAgain, Goes, Read,
           vlc_mutex_lock, vlc_mutex_unlock, threadVars, condVars, timedVars
<1>2. HasToSignal(t) => HasToSignal(t)'
    BY DEF HasToSignal, IInv, TypeOK, Produce, IncRead, UnlockFirst, LockAgain, Goes, Runs
<1>3. at[t] = "running"
    BY DEF Produce, IncRead, UnlockFirst, LockAgain, Goes, Runs
<1> QED BY <1>1, <1>2, <1>3 DEF Quiet, Sleeper

LEMMA SignalQuiet ==
    ASSUME IInv, SignalInv, NEW t \in Threads, Signal(t), t \in Producers
    PROVE  Quiet(t) /\ Sleeper(t)'
<1>1. OnlyMoves(t) /\ UNCHANGED <<cut, i_int>> /\ at'[t] = "signal"
    BY DEF OnlyMoves, IInv, TypeOK, Signal, Goes, vlc_cond_signal, timedVars
<1>2. HasToSignal(t)'
    BY <1>1 DEF HasToSignal, Producers
<1> QED BY <1>1, <1>2 DEF Quiet, Sleeper, Waits

LEMMA ConsumersQuiet ==
    ASSUME IInv, SignalInv, NEW t \in Threads,
           Consume(t) \/ Waited(t) \/ DecRead(t) \/ DecWrite(t) \/ Unlock(t)
    PROVE  Quiet(t) /\ Sleeper(t)'
<1>1. OnlyMoves(t) /\ cut' = cut /\ at' = at /\ at[t] = "running"
    BY DEF OnlyMoves, IInv, TypeOK, Consume, Waited, DecRead, DecWrite, Unlock, Goes, Runs,
           Read, vlc_mutex_lock, vlc_mutex_unlock, threadVars, condVars, timedVars
<1>2. UNCHANGED i_int \/ (owner = t /\ i_int' <= i_int)
  <2>1. CASE DecWrite(t)
    <3>1. pc[t] = "store" /\ i_int' = i_val[t] - 1
        BY <2>1 DEF DecWrite, Goes
    <3>2. i_val[t] = i_int /\ i_int \in Nat
        BY <3>1 DEF IInv, Places, Counts, TypeOK
    <3>3. owner = t
        BY <1>1, <3>1 DEF IInv, MutualExclusion, Inside, Held
    <3> QED BY <3>1, <3>2, <3>3
  <2> QED BY <2>1 DEF Consume, Waited, DecRead, Unlock
<1>3. ~HasToSignal(t)
    BY <1>1, ObjectAssumption DEF HasToSignal, Producers, Consume, Waited, DecRead, DecWrite,
       Unlock, Goes, ThisConsumer
<1> QED BY <1>1, <1>2, <1>3 DEF Quiet, Sleeper

LEMMA WaitersQuiet ==
    ASSUME IInv, SignalInv, NEW t \in Threads, UNCHANGED clientVars,
           Suspend(t) \/ FreeSlot(t) \/ Reacquire(t) \/ Expire(t) \/ SpuriousWakeup(t)
    PROVE  Quiet(t) /\ Sleeper(t)'
<1>1. OnlyMoves(t) /\ UNCHANGED <<cut, i_int, pc>>
    BY DEF OnlyMoves, IInv, TypeOK, Suspend, FreeSlot, Reacquire, Expire, SpuriousWakeup,
           clientVars, timedVars
<1>2. /\ at'[t] \in {"suspended", "woken", "running", "expired"}
      /\ at'[t] = "suspended" => at[t] = "suspending"
      /\ at[t] \notin {"running", "signal", "snooze"}
    BY DEF IInv, TypeOK, Suspend, FreeSlot, Reacquire, Expire, SpuriousWakeup, Wakes
<1>3. t \in ThisConsumer /\ ThisConsumer' = ThisConsumer
    BY <1>1, <1>2 DEF SignalInv, Sleepers, Sleeper, OnlyMoves, ThisConsumer
<1>4. ~HasToSignal(t)
    BY <1>3, ObjectAssumption DEF HasToSignal, Producers, ThisConsumer
<1> QED BY <1>1, <1>2, <1>3, <1>4 DEF Quiet, Sleeper, Waits

LEMMA IncWriteKeeps ==
    ASSUME IInv, SignalInv, NEW t \in Threads, IncWrite(t)
    PROVE  SignalInv'
<1>1. /\ at' = at /\ at[t] = "running" /\ pc[t] = "store" /\ t \in Producers
      /\ UNCHANGED <<platform, cut>> /\ pc'[t] \in {"signal", "unlock first"}
      /\ i_int' = i_val[t] + 1 /\ OnlyMoves(t)
    BY DEF IncWrite, Goes, Runs, OnlyMoves, IInv, TypeOK, threadVars, condVars, timedVars
<1>2. i_int' = i_int + 1 /\ owner = t
    BY <1>1 DEF IInv, Places, Counts, MutualExclusion, Inside, Held
<1>3. t \notin ToSignal /\ ToSignal' = ToSignal \cup {t}
    BY <1>1 DEF ToSignal, OnlyMoves, Producers
<1>4. Asleep' = Asleep /\ Awake' = Awake
    BY <1>1 DEF Asleep, Awake, ThisConsumer
<1>5. NoSignalLost'
    BY <1>1, <1>2, <1>3, <1>4, OneMore DEF SignalInv
<1>6. Sleepers'
    BY <1>1, <1>2, SleepersKept DEF SignalInv, Sleeper
<1> QED BY <1>5, <1>6 DEF SignalInv

(* A consumer that waits has just seen that there is nothing to take.      *)
LEMMA WaitKeeps ==
    ASSUME IInv, SignalInv, NEW t \in Threads, Wait(t) \/ TimedWait(t)
    PROVE  SignalInv'
<1>1. /\ OnlyMoves(t) /\ cut' = cut /\ i_int = 0 /\ i_int' = 0
      /\ t \in Consumers /\ pc[t] = "test" /\ at'[t] \in {"waiting", "slot"}
    BY DEF Wait, TimedWait, Goes, vlc_cond_wait, BeginWait, TakeSlot, vlc_cond_timedwait,
           OnlyMoves, IInv, TypeOK, clientVars, timedVars
<1>2. t \in ThisConsumer /\ ThisConsumer' = ThisConsumer
    BY <1>1 DEF IInv, Places, Place, ThisConsumer, OnlyMoves
<1>3. Sleepers'
    BY <1>1, <1>2, SleepersKept DEF SignalInv, Sleeper
<1> QED BY <1>1, <1>3, NothingToTake DEF SignalInv

LEMMA LeaveMutexKeeps ==
    ASSUME IInv, SignalInv, NEW t \in Threads, LeaveMutex(t), UNCHANGED clientVars
    PROVE  SignalInv'
<1>1. /\ OnlyMoves(t) /\ UNCHANGED <<cut, i_int>> /\ at[t] = "slot" /\ at'[t] = "suspending"
    BY DEF LeaveMutex, OnlyMoves, IInv, TypeOK, clientVars, timedVars
<1>2. i_int = 0 /\ t \in ThisConsumer /\ ThisConsumer' = ThisConsumer
    BY <1>1 DEF SignalInv, Sleepers, Sleeper, OnlyMoves, ThisConsumer
<1>3. Sleepers'
    BY <1>1, <1>2, SleepersKept DEF SignalInv, Sleeper
<1> QED BY <1>1, <1>2, <1>3, NothingToTake DEF SignalInv

(* From the second round on nothing is claimed.                            *)
LEMMA RoundKeeps ==
    ASSUME IInv, SignalInv, NEW t \in Threads, ReacquireForRound(t) \/ NextRound(t),
           UNCHANGED clientVars
    PROVE  SignalInv'
<1>1. /\ OnlyMoves(t) /\ i_int' = i_int /\ at'[t] \in {"round", "waiting"}
      /\ at[t] \notin {"running", "signal", "snooze"} /\ (at[t] # "round" => cut')
      /\ cut => cut'
    BY DEF ReacquireForRound, NextRound, OnlyMoves, IInv, TypeOK, clientVars, timedVars, Wakes
<1>2. cut'
    BY <1>1 DEF SignalInv, Sleepers, Sleeper
<1>3. t \in ThisConsumer /\ ThisConsumer' = ThisConsumer
    BY <1>1 DEF SignalInv, Sleepers, Sleeper, OnlyMoves, ThisConsumer
<1>4. Sleepers'
    BY <1>1, <1>2, <1>3, SleepersKept DEF SignalInv, Sleeper
<1> QED BY <1>2, <1>4 DEF SignalInv, NoSignalLost

(* A signal that ends wakes somebody, or nobody sleeps.                    *)
LEMMA WakeOneKeeps ==
    ASSUME IInv, SignalInv, NEW t \in Threads, WakeOne(t), UNCHANGED clientVars
    PROVE  SignalInv'
<1>1. platform # "beos" /\ at[t] = "signal" /\ UNCHANGED <<platform, cut, i_int, pc>>
    BY DEF WakeOne, clientVars
<1>2. ThisConsumer' = ThisConsumer /\ at \in [Threads -> AtLabels]
    BY <1>1 DEF ThisConsumer, IInv, TypeOK
<1>3. CASE Waiting = {} /\ at' = [at EXCEPT ![t] = "running"]
  <2>1. OnlyMoves(t) /\ at'[t] = "running"
      BY <1>1, <1>2, <1>3 DEF OnlyMoves, WakeOne, Waiting, clientVars
  <2>2. Sleepers'
      BY <1>1, <2>1, SleepersKept DEF SignalInv, Sleeper
  <2>3. \A u \in Threads : at[u] \notin Waits
      BY <1>1, <1>3 DEF IInv, Places, Place, InSlot, Waiting, Waits
  <2>4. Asleep' = {}
      BY <2>1, <2>3 DEF Asleep, OnlyMoves, Waits
  <2> QED BY <2>2, <2>4 DEF SignalInv, NoSignalLost
<1>4. ASSUME NEW u \in Waiting, at' = [at EXCEPT ![t] = "running", ![u] = "woken"]
      PROVE  SignalInv'
  <2>1. u \in Threads /\ u # t /\ at[u] = "waiting"
      BY <1>1 DEF Waiting
  <2>2. u \in ThisConsumer /\ u \in Asleep
      BY <2>1 DEF SignalInv, Sleepers, Sleeper, Asleep, Waits
  <2>3. \A v \in Threads : at'[v] = IF v = u THEN "woken" ELSE IF v = t THEN "running" ELSE at[v]
      BY <1>2, <1>4, <2>1
  <2>4. Asleep' = Asleep \ {u}
    <3>1. ASSUME NEW v \in Threads
          PROVE  at'[v] \in Waits <=> v # u /\ at[v] \in Waits
      <4>1. at'[v] = IF v = u THEN "woken" ELSE IF v = t THEN "running" ELSE at[v]
          BY <2>3
      <4> QED BY <1>1, <4>1 DEF Waits
    <3> QED BY <3>1 DEF Asleep
  <2>5. ToSignal \ {t} \subseteq ToSignal'
      BY <1>1, <2>1, <2>3 DEF ToSignal, Producers
  <2>6. NoSignalLost'
      BY <1>1, <1>2, <2>2, <2>4, <2>5, OneWoken DEF SignalInv
  <2>7. Sleepers'
      BY <1>1, <1>2, <2>2, <2>3 DEF SignalInv, Sleepers, Sleeper
  <2> QED BY <2>6, <2>7 DEF SignalInv
<1> QED BY <1>3, <1>4 DEF WakeOne

LEMMA ResumeKeeps ==
    ASSUME IInv, SignalInv, NEW t \in Threads, Resume(t), UNCHANGED clientVars
    PROVE  SignalInv'
<1> DEFINE u == thread
<1>1. /\ at[t] = "signal" /\ UNCHANGED <<platform, cut, i_int, pc>>
      /\ u \in Threads /\ at[u] = "suspended" /\ u # t
      /\ at' = [at EXCEPT ![t] = "snooze", ![u] = "resumed"]
    BY DEF Resume, clientVars, timedVars
<1>2. ThisConsumer' = ThisConsumer /\ at \in [Threads -> AtLabels]
    BY <1>1 DEF ThisConsumer, IInv, TypeOK
<1> HIDE DEF u
<1>3. u \in ThisConsumer /\ u \in Asleep
    BY <1>1 DEF SignalInv, Sleepers, Sleeper, Asleep, Waits
<1>4. \A v \in Threads : at'[v] = IF v = u THEN "resumed" ELSE IF v = t THEN "snooze" ELSE at[v]
    BY <1>1, <1>2
<1>5. Asleep' = Asleep \ {u}
  <2>1. ASSUME NEW v \in Threads
        PROVE  at'[v] \in Waits <=> v # u /\ at[v] \in Waits
    <3>1. at'[v] = IF v = u THEN "resumed" ELSE IF v = t THEN "snooze" ELSE at[v]
        BY <1>4
    <3>2. CASE v = u \/ v = t
        BY <1>1, <3>1, <3>2 DEF Waits
    <3>3. CASE v # u /\ v # t
        BY <3>1, <3>3
    <3> QED BY <3>2, <3>3
  <2> QED BY <2>1 DEF Asleep
<1>6. ToSignal \ {t} \subseteq ToSignal'
    BY <1>1, <1>4 DEF ToSignal, Producers
<1>7. NoSignalLost'
    BY <1>1, <1>2, <1>3, <1>5, <1>6, OneWoken DEF SignalInv
<1>8. Sleepers'
    BY <1>1, <1>2, <1>3, <1>4 DEF SignalInv, Sleepers, Sleeper
<1> QED BY <1>7, <1>8 DEF SignalInv

LEMMA EndSignalKeeps ==
    ASSUME IInv, SignalInv, NEW t \in Threads, EndSignal(t), UNCHANGED clientVars
    PROVE  SignalInv'
<1>1. /\ OnlyMoves(t) /\ UNCHANGED <<cut, i_int>> /\ at'[t] = "running"
      /\ platform = "beos" /\ thread = NoThread
    BY DEF EndSignal, OnlyMoves, IInv, TypeOK, clientVars, timedVars
<1>2. Sleepers'
    BY <1>1, SleepersKept DEF SignalInv, Sleeper
<1>3. \A u \in Threads : at[u] \notin Waits
    BY <1>1, ThreadsAssumption DEF IInv, Places, Place, HasSlot, InSlot, Waits
<1>4. Asleep' = {}
    BY <1>1, <1>3 DEF Asleep, OnlyMoves, Waits
<1> QED BY <1>2, <1>4 DEF SignalInv, NoSignalLost

(* While a consumer sleeps there are no more items than consumers awake    *)
(* and signals to come.                                                    *)
THEOREM SignalsArrive == Spec => []NoSignalLost
<1>1. Init => SignalInv
  <2> SUFFICES ASSUME Init PROVE SignalInv
      OBVIOUS
  <2>1. \A t \in Threads : at[t] = "running"
      BY DEF Init, ThreadsInit
  <2>2. Asleep = {}
      BY <2>1 DEF Asleep, Waits
  <2> QED BY <2>1, <2>2 DEF SignalInv, NoSignalLost, Sleepers, Sleeper
<1>2. IInv /\ IInv' /\ SignalInv /\ [Next]_vars => SignalInv'
  <2> SUFFICES ASSUME IInv, IInv', SignalInv, [Next]_vars PROVE SignalInv'
      OBVIOUS
  <2>1. CASE UNCHANGED vars
      BY <2>1 DEF vars, threadVars, condVars, timedVars, clientVars, SignalInv, NoSignalLost,
                  Sleepers, Sleeper, Asleep, ToSignal, ThisConsumer, Producers
  <2>2. ASSUME NEW t \in Threads, Step(t) PROVE SignalInv'
    <3>1. CASE t \in Producers /\ ProducerStep(t)
        BY <3>1, ProducersQuiet, SignalQuiet, QuietKeeps, IncWriteKeeps DEF ProducerStep
    <3>2. CASE ConsumerStep(t)
        BY <3>2, ConsumersQuiet, QuietKeeps, WaitKeeps DEF ConsumerStep
    <3>3. CASE Unlock(t)
        BY <3>3, ConsumersQuiet, QuietKeeps
    <3>4. CASE Continue(t) /\ UNCHANGED clientVars
        BY <3>4, LeaveMutexKeeps, WaitersQuiet, QuietKeeps, RoundKeeps, WakeOneKeeps,
           ResumeKeeps, EndSignalKeeps DEF Continue
    <3> QED BY <2>2, <3>1, <3>2, <3>3, <3>4 DEF Step
  <2>3. ASSUME NEW t \in Threads, Interrupt(t), UNCHANGED clientVars PROVE SignalInv'
      BY <2>3, WaitersQuiet, QuietKeeps DEF Interrupt
  <2> QED BY <2>1, <2>2, <2>3 DEF Next
<1>3. SignalInv => NoSignalLost
    BY DEF SignalInv
<1> QED BY <1>1, <1>2, <1>3, Invariance, PTL DEF Spec
===========================================================================
