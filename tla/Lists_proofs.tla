----------------------------- MODULE Lists_proofs -----------------------------
(***************************************************************************)
(* What is kept as sequences of pieces: the two lists of a media list, for *)
(* every set of media and every length, the byte streams, for every set of *)
(* bytes and of start codes and every size, and the bit streams, for bytes *)
(* of every width and every number of them.                                *)
(***************************************************************************)
EXTENDS MediaList, VlcStreams, VlcBits, Powers,
        SequenceTheorems, WellFoundedInduction, TLAPS

---------------------------------------------------------------------------
(* The media list.                                                         *)

LEMMA Removed ==
    ASSUME NEW s \in Seq(Mrls), NEW i \in Indices(s)
    PROVE  /\ Without(s, i) \in Seq(Mrls)
           /\ Len(Without(s, i)) = Len(s) - 1
           /\ \A j \in 1..Len(s) - 1 :
                 Without(s, i)[j] = IF j <= i THEN s[j] ELSE s[j + 1]
<1> DEFINE a == SubSeq(s, 1, i)  b == SubSeq(s, i + 2, Len(s))  t == a \o b
<1>1. Len(s) \in Nat /\ i \in 0..Len(s) - 1
    BY DEF Indices
<1>2. a \in Seq(Mrls) /\ Len(a) = i /\ \A j \in 1..i : a[j] = s[j]
    BY <1>1, SubSeqProperties
<1>3. /\ b \in Seq(Mrls) /\ Len(b) = Len(s) - i - 1
      /\ \A j \in 1..Len(s) - i - 1 : b[j] = s[i + j + 1]
    BY <1>1, SubSeqProperties
<1>4. Without(s, i) = t
  <2>1. (i + 1) - 1 = i /\ (i + 1) + 1 = i + 2
      BY <1>1
  <2> QED BY <2>1, Zenon DEF Without, RemoveAt
<1> HIDE DEF a, b
<1>5. /\ t \in Seq(Mrls) /\ Len(t) = Len(a) + Len(b)
      /\ \A j \in 1..Len(a) + Len(b) : t[j] = IF j <= Len(a) THEN a[j] ELSE b[j - Len(a)]
    BY <1>2, <1>3, ConcatProperties
<1> HIDE DEF t
<1>6. Len(t) = Len(s) - 1
    BY <1>1, <1>2, <1>3, <1>5
<1>7. ASSUME NEW j \in 1..Len(s) - 1
      PROVE  t[j] = IF j <= i THEN s[j] ELSE s[j + 1]
  <2>1. CASE j <= i
      BY <1>1, <1>2, <1>3, <1>5, <2>1
  <2>2. CASE ~(j <= i)
    <3>1. j - i \in 1..Len(s) - i - 1 /\ i + (j - i) + 1 = j + 1
        BY <1>1, <2>2
    <3>2. b[j - i] = s[j + 1]
        BY <1>3, <3>1
    <3>3. t[j] = b[j - i]
        BY <1>1, <1>2, <1>3, <1>5, <2>2
    <3> QED BY <2>2, <3>2, <3>3
  <2> QED BY <2>1, <2>2
<1> QED BY <1>4, <1>5, <1>6, <1>7

LEMMA Inserted ==
    ASSUME NEW s \in Seq(Mrls), NEW i \in 0..Len(s), NEW m \in Mrls
    PROVE  /\ InsertAt(s, i + 1, m) \in Seq(Mrls)
           /\ Len(InsertAt(s, i + 1, m)) = Len(s) + 1
<1> DEFINE a == SubSeq(s, 1, i)  b == SubSeq(s, i + 1, Len(s))  c == <<m>>
<1>1. Len(s) \in Nat
    OBVIOUS
<1>2. a \in Seq(Mrls) /\ Len(a) = i
    BY <1>1, SubSeqProperties
<1>3. b \in Seq(Mrls) /\ Len(b) = Len(s) - i
    BY <1>1, SubSeqProperties
<1>4. c \in Seq(Mrls) /\ Len(c) = 1
    OBVIOUS
<1>5. InsertAt(s, i + 1, m) = (a \o c) \o b
  <2>1. (i + 1) - 1 = i
      BY <1>1
  <2> QED BY <2>1, Zenon DEF InsertAt
<1> HIDE DEF a, b, c
<1>6. a \o c \in Seq(Mrls) /\ Len(a \o c) = i + 1
  <2>1. a \in Seq(Mrls) /\ c \in Seq(Mrls)
      BY <1>2, <1>4, Zenon
  <2>2. a \o c \in Seq(Mrls) /\ Len(a \o c) = Len(a) + Len(c)
      BY <2>1, ConcatProperties, Zenon
  <2> QED BY <1>2, <1>4, <2>2, Zenon
<1>7. (a \o c) \o b \in Seq(Mrls) /\ Len((a \o c) \o b) = Len(a \o c) + Len(b)
    BY <1>3, <1>6, ConcatProperties, Zenon
<1> DEFINE t == (a \o c) \o b
<1> HIDE DEF t
<1>8. t \in Seq(Mrls) /\ Len(t) = (i + 1) + (Len(s) - i)
    BY <1>3, <1>6, <1>7, Zenon DEF t
<1>9. Len(t) = Len(s) + 1
    BY <1>1, <1>8
<1>10. InsertAt(s, i + 1, m) = t
    BY <1>5, Zenon DEF t
<1> QED BY <1>8, <1>9, <1>10, Zenon

(* No mrl is in the list twice.                                            *)
NoTwice(s) == \A i, j \in 1..Len(s) : s[i] = s[j] => i = j

LEMMA NoTwiceLeft ==
    ASSUME NEW s \in Seq(Mrls), NoTwice(s), NEW i \in Indices(s)
    PROVE  NoTwice(Without(s, i))
<1> DEFINE t == Without(s, i)
<1>1. Len(s) \in Nat /\ i \in 0..Len(s) - 1 /\ Len(t) = Len(s) - 1
    BY Removed DEF Indices
<1> SUFFICES ASSUME NEW j \in 1..Len(t), NEW k \in 1..Len(t), t[j] = t[k]
             PROVE  j = k
    BY DEF NoTwice
<1> DEFINE P(n) == IF n <= i THEN n ELSE n + 1
<1>2. P(j) \in 1..Len(s) /\ P(k) \in 1..Len(s)
    BY <1>1
<1>3. t[j] = s[P(j)] /\ t[k] = s[P(k)]
    BY <1>1, Removed
<1>4. P(j) = P(k)
    BY <1>2, <1>3 DEF NoTwice
<1> QED BY <1>1, <1>4

LEMMA Positions ==
    ASSUME TypeOK
    PROVE  ItemsWithinNative <=> Len(items) <= Len(native) /\ NoTwice(items)
<1>1. Len(items) \in Nat
    BY DEF TypeOK
<1>2. ASSUME \A i, j \in Indices(items) : Item(items, i) = Item(items, j) => i = j,
             NEW i \in 1..Len(items), NEW j \in 1..Len(items), items[i] = items[j]
      PROVE  i = j
  <2>1. i - 1 \in Indices(items) /\ j - 1 \in Indices(items)
      BY <1>1 DEF Indices
  <2>2. (i - 1) + 1 = i /\ (j - 1) + 1 = j
      OBVIOUS
  <2>3. Item(items, i - 1) = Item(items, j - 1)
      BY <1>2, <2>2 DEF Item
  <2>4. i - 1 = j - 1
      BY <1>2, <2>1, <2>3
  <2> QED BY <2>2, <2>4
<1>3. ASSUME NoTwice(items),
             NEW i \in Indices(items), NEW j \in Indices(items),
             Item(items, i) = Item(items, j)
      PROVE  i = j
    BY <1>1, <1>3 DEF NoTwice, Indices, Item
<1> QED BY <1>2, <1>3 DEF ItemsWithinNative, NoTwice

---------------------------------------------------------------------------
(* Every way to remove an item takes one that libvlc has.                  *)
Removes == \E i \in Indices(native) : RemoveItem(i)

LEMMA Steps ==
    ASSUME [Next]_vars
    PROVE  \/ UNCHANGED <<items, native>>
           \/ \E m \in Mrls : AddMedia(m)
           \/ \E m \in Mrls, i \in 0..Len(native) : InsertMediaDescriptor(m, i)
           \/ Removes
BY DEF Next, vars, RemoveMedia, RemoveIndex, Clear, ClearItem, ClearDone, Removes

LEMMA TypeKept == ASSUME TypeOK, [Next]_vars PROVE TypeOK'
<1>1. clearing' \in Nat \cup {-1}
    BY DEF TypeOK, Next, vars, AddMedia, InsertMediaDescriptor, RemoveMedia,
           RemoveIndex, Clear, ClearItem, ClearDone
<1>2. CASE UNCHANGED <<items, native>>
    BY <1>1, <1>2 DEF TypeOK
<1>3. CASE \E m \in Mrls : AddMedia(m)
    BY <1>1, <1>3 DEF TypeOK, AddMedia
<1>4. CASE \E m \in Mrls, i \in 0..Len(native) : InsertMediaDescriptor(m, i)
    BY <1>1, <1>4, Inserted DEF TypeOK, InsertMediaDescriptor
<1>5. CASE Removes
    BY <1>1, <1>5, Removed DEF TypeOK, Removes, RemoveItem
<1> QED BY <1>2, <1>3, <1>4, <1>5, Steps

LEMMA WithinKept == ASSUME TypeOK, ItemsWithinNative, [Next]_vars PROVE ItemsWithinNative'
<1>1. Len(items) \in Nat /\ Len(native) \in Nat /\ Len(items) <= Len(native)
      /\ NoTwice(items) /\ items \in Seq(Mrls) /\ native \in Seq(Mrls)
    BY Positions DEF TypeOK
<1> SUFFICES Len(items') <= Len(native') /\ NoTwice(items')
    BY TypeKept, Positions DEF ItemsWithinNative, NoTwice, Indices, Item
<1>2. CASE UNCHANGED <<items, native>>
    BY <1>1, <1>2
<1>3. ASSUME NEW m \in Mrls, AddMedia(m)
      PROVE  Len(items') <= Len(native') /\ NoTwice(items')
  <2>1. items' = Append(items, m) /\ native' = Append(native, m)
      BY <1>3 DEF AddMedia
  <2>2. Len(items') = Len(items) + 1 /\ Len(native') = Len(native) + 1
      BY <1>1, <2>1
  <2>3. ASSUME NEW i \in 1..Len(items)
        PROVE  items[i] # m
    <3>1. i - 1 \in Indices(items) /\ (i - 1) + 1 = i
        BY <1>1 DEF Indices
    <3> QED BY <1>3, <3>1 DEF AddMedia, Item
  <2>4. \A i \in 1..Len(items') : items'[i] = IF i <= Len(items) THEN items[i] ELSE m
      BY <1>1, <2>1, <2>2
  <2> QED BY <1>1, <2>2, <2>3, <2>4 DEF NoTwice
<1>4. CASE \E m \in Mrls, i \in 0..Len(native) : InsertMediaDescriptor(m, i)
    BY <1>1, <1>4, Inserted DEF InsertMediaDescriptor
<1>5. ASSUME NEW i \in Indices(native), RemoveItem(i)
      PROVE  Len(items') <= Len(native') /\ NoTwice(items')
  <2>1. Len(native') = Len(native) - 1
      BY <1>1, <1>5, Removed DEF RemoveItem
  <2>2. CASE i \in Indices(items)
    <3>1. items' = Without(items, i)
        BY <1>5, <2>2 DEF RemoveItem
    <3> QED BY <1>1, <2>1, <2>2, <3>1, Removed, NoTwiceLeft
  <2>3. CASE i \notin Indices(items)
      BY <1>1, <1>5, <2>1, <2>3 DEF RemoveItem, Indices
  <2> QED BY <2>2, <2>3
<1> QED BY <1>2, <1>3, <1>4, <1>5, Steps DEF Removes

(* A position in the Java list is one libvlc accepts, and the Java list    *)
(* names no media twice, after every sequence of calls: what               *)
(* removeMedia (MediaList.java:146) relies on.                             *)
THEOREM WithinNative == Spec => []ItemsWithinNative
<1>1. Init => TypeOK /\ ItemsWithinNative
    BY DEF Init, TypeOK, ItemsWithinNative, Indices
<1>2. TypeOK /\ ItemsWithinNative /\ [Next]_vars => TypeOK' /\ ItemsWithinNative'
    BY TypeKept, WithinKept
<1> QED BY <1>1, <1>2, PTL DEF Spec

(* Every operation but an insertion leaves equal lists equal.              *)
THEOREM MirrorIsKept == Spec => MirrorKept
<1>1. [Next]_vars =>
        [items = native =>
            \/ items' = native'
            \/ \E m \in Mrls, i \in 0..Len(native) : InsertMediaDescriptor(m, i)]_vars
  <2> SUFFICES ASSUME [Next]_vars, items = native,
                      ~\E m \in Mrls, i \in 0..Len(native) : InsertMediaDescriptor(m, i)
               PROVE  items' = native'
      OBVIOUS
  <2>1. CASE \E m \in Mrls : AddMedia(m)
      BY <2>1 DEF AddMedia
  <2>2. CASE Removes
      BY <2>2 DEF Removes, RemoveItem
  <2> QED BY <2>1, <2>2, Steps
<1> QED BY <1>1, PTL DEF Spec, MirrorKept

---------------------------------------------------------------------------
(* Counting.                                                               *)

(* A set of numbers that is not empty has a least one: what the theorems on*)
(* well-founded relations say without an operator as a parameter.          *)
LEMMA Least ==
    ASSUME NEW S \in SUBSET Nat, S # {}
    PROVE  \E m \in S : \A k \in S : m <= k
<1>1. \E m \in S : \A k \in S : <<k, m>> \notin OpToRel(<, Nat)
    BY NatLessThanWellFounded, WFMin
<1>2. \A m, k \in S : <<k, m>> \notin OpToRel(<, Nat) => m <= k
    BY DEF OpToRel
<1> QED BY <1>1, <1>2

LEMMA Tuple ==
    ASSUME NEW S, NEW n \in Nat, NEW f \in [1..n -> S]
    PROVE  f \in Seq(S) /\ Len(f) = n
OBVIOUS

(* Counting up, and what is defined by counting up, without an operator as *)
(* a parameter: the set stands for the induction's formula, the function   *)
(* for the step.                                                           *)
LEMMA CountingUp ==
    ASSUME NEW lo \in Int, NEW hi \in Int, NEW S,
           lo <= hi => lo \in S,
           \A n \in lo + 1..hi : n - 1 \in S => n \in S
    PROVE  \A n \in lo..hi : n \in S
<1> DEFINE Out == {k \in Nat : lo + k \in lo..hi /\ lo + k \notin S}
<1>1. SUFFICES ASSUME Out # {} PROVE FALSE
  <2>1. ASSUME NEW n \in lo..hi, n \notin S PROVE n - lo \in Out
    <3>1. n - lo \in Nat /\ lo + (n - lo) = n
        OBVIOUS
    <3> QED BY <2>1, <3>1
  <2> QED BY <2>1
<1>2. PICK k \in Out : \A j \in Out : k <= j
  <2>1. Out \in SUBSET Nat
      OBVIOUS
  <2> HIDE DEF Out
  <2> QED BY <1>1, <2>1, Least
<1>3. k \in Nat /\ lo + k \in lo..hi /\ lo + k \notin S
    OBVIOUS
<1>4. k # 0
    BY <1>3
<1>5. k - 1 \in Nat /\ k - 1 \notin Out
    BY <1>2, <1>3, <1>4
<1>6. lo + (k - 1) \in lo..hi /\ lo + (k - 1) = (lo + k) - 1 /\ lo + k \in lo + 1..hi
    BY <1>3, <1>4
<1>7. (lo + k) - 1 \in S
    BY <1>5, <1>6
<1> QED BY <1>3, <1>6, <1>7

Recurses(f, X, lo, hi, base, step) ==
    /\ f \in [lo..hi -> X]
    /\ \A n \in lo..hi : f[n] = IF n = lo THEN base ELSE step[<<n, f[n - 1]>>]

LEMMA Recursion ==
    ASSUME NEW X, NEW lo \in Int, NEW hi \in Int, NEW base \in X,
           NEW D, NEW step \in [D -> X],
           \A n \in lo + 1..hi : \A x \in X : <<n, x>> \in D
    PROVE  \E f : Recurses(f, X, lo, hi, base, step)
<1> DEFINE Upto(f, k) == Recurses(f, X, lo, k, base, step)
           S == {k \in Int : \E f : Upto(f, k)}
<1>1. CASE lo <= hi
  <2>1. lo \in S
    <3> DEFINE f == [n \in lo..lo |-> base]
    <3>1. \A n \in lo..lo : n = lo
        OBVIOUS
    <3>2. Upto(f, lo)
        BY <3>1 DEF Recurses
    <3> QED BY <3>2
  <2>2. ASSUME NEW k \in lo + 1..hi, k - 1 \in S PROVE k \in S
    <3>1. PICK g : Upto(g, k - 1)
        BY <2>2
    <3> DEFINE f == [n \in lo..k |-> IF n = k THEN step[<<k, g[k - 1]>>] ELSE g[n]]
    <3>2. k \in Int /\ k - 1 \in lo..k - 1 /\ g[k - 1] \in X
        BY <3>1 DEF Recurses
    <3>3. step[<<k, g[k - 1]>>] \in X
        BY <3>2
    <3>4. \A n \in lo..k : n = k \/ n \in lo..k - 1
        BY <3>2
    <3>5. f \in [lo..k -> X]
        BY <3>1, <3>3, <3>4 DEF Recurses
    <3>6. ASSUME NEW n \in lo..k
          PROVE  f[n] = IF n = lo THEN base ELSE step[<<n, f[n - 1]>>]
      <4>1. CASE n = k
        <5>1. n # lo /\ n - 1 \in lo..k /\ n - 1 # k
            BY <3>2, <4>1
        <5>2. f[n - 1] = g[n - 1]
            BY <5>1
        <5> QED BY <4>1, <5>1, <5>2
      <4>2. CASE n # k
        <5>1. n \in lo..k - 1 /\ f[n] = g[n]
            BY <3>4, <4>2
        <5>2. n # lo => n - 1 \in lo..k /\ n - 1 # k /\ f[n - 1] = g[n - 1]
            BY <3>2, <4>2
        <5> HIDE DEF f
        <5> QED BY <3>1, <5>1, <5>2 DEF Recurses
      <4> QED BY <4>1, <4>2
    <3> HIDE DEF f
    <3>7. Upto(f, k)
        BY <3>5, <3>6 DEF Recurses
    <3> QED BY <3>2, <3>7
  <2> HIDE DEF S
  <2>3. \A n \in lo + 1..hi : n - 1 \in S => n \in S
      BY <2>2
  <2>4. \A n \in lo..hi : n \in S
      BY <2>1, <2>3, CountingUp, Zenon
  <2>5. hi \in S
      BY <1>1, <2>4
  <2> USE DEF S
  <2> QED BY <2>5
<1>2. CASE lo > hi
  <2> DEFINE f == [n \in lo..hi |-> base]
  <2>1. lo..hi = {}
      BY <1>2
  <2>2. Upto(f, hi)
      BY <2>1 DEF Recurses
  <2> QED BY <2>2
<1> QED BY <1>1, <1>2

(* What FlattenSeq defines by recursion, and that it exists.               *)
Flat(f, seqs) ==
    f = [i \in 1..Len(seqs) |-> IF i = 1 THEN seqs[i] ELSE f[i - 1] \o seqs[i]]

LEMMA FlatteningIs ==
    ASSUME NEW S, NEW seqs \in Seq(Seq(S)), Len(seqs) # 0
    PROVE  \E f : Flat(f, seqs) /\ Stream!FlattenSeq(seqs) = f[Len(seqs)]
<1> DEFINE X == Seq(S)
           D == (2..Len(seqs)) \X X
           step == [p \in D |-> p[2] \o seqs[p[1]]]
<1>1. 1 \in Int /\ Len(seqs) \in Int /\ seqs[1] \in X
    OBVIOUS
<1>2. step \in [D -> X]
  <2>1. ASSUME NEW i \in 2..Len(seqs), NEW s \in X PROVE s \o seqs[i] \in X
    <3>1. seqs[i] \in X
        BY <1>1
    <3> QED BY <3>1, ConcatProperties
  <2> QED BY <2>1
<1>3. \A n \in 1 + 1..Len(seqs) : \A s \in X : <<n, s>> \in D /\ step[<<n, s>>] = s \o seqs[n]
  <2>1. \A n \in 1 + 1..Len(seqs) : n \in 2..Len(seqs)
      BY <1>1
  <2> QED BY <2>1
<1> HIDE DEF X, D, step
<1>4. PICK f : Recurses(f, X, 1, Len(seqs), seqs[1], step)
    BY <1>1, <1>2, <1>3, Recursion
<1>5. \A n \in 1..Len(seqs) : f[n] = IF n = 1 THEN seqs[n] ELSE f[n - 1] \o seqs[n]
  <2>1. ASSUME NEW n \in 1..Len(seqs), n # 1 PROVE step[<<n, f[n - 1]>>] = f[n - 1] \o seqs[n]
    <3>1. n \in 1 + 1..Len(seqs) /\ n - 1 \in 1..Len(seqs)
        BY <1>1, <2>1
    <3>2. f[n - 1] \in X
        BY <1>4, <3>1 DEF Recurses
    <3> QED BY <1>3, <3>1, <3>2
  <2> QED BY <1>4, <2>1 DEF Recurses
<1>6. Flat(f, seqs)
    BY <1>4, <1>5 DEF Flat, Recurses
<1> DEFINE h == CHOOSE g : Flat(g, seqs)
<1>7. Flat(h, seqs)
    BY <1>6
<1>8. Stream!FlattenSeq(seqs) = h[Len(seqs)]
    BY DEF Stream!FlattenSeq, Flat
<1> HIDE DEF h
<1> QED BY <1>7, <1>8

---------------------------------------------------------------------------
(* The byte streams.                                                       *)

(* Intervals, and the end of a sequence.                                   *)
LEMMA Inside ==
    ASSUME NEW b \in Int, NEW x \in Int, NEW n \in Int, b <= x
    PROVE  /\ \A y \in x..n : /\ y \in Int /\ y \in b..n /\ y \in b..n + 1 /\ y \in x..n + 1
                              /\ y + 1 \in x..n + 1 /\ y + 1 \in b..n + 1
                              /\ n + 1 \in y + 1..n + 1
           /\ \A y \in x..n + 1 : y \in Int /\ y \in b..n + 1
           /\ x <= n + 1 => n + 1 \in x..n + 1
OBVIOUS

LEMMA EndOf ==
    ASSUME NEW S, NEW R \in Seq(S), NEW n \in 0..Len(R)
    PROVE  /\ SubSeq(R, n + 1, Len(R)) \in Seq(S)
           /\ Len(SubSeq(R, n + 1, Len(R))) = Len(R) - n
           /\ \A i \in 1..Len(R) - n : SubSeq(R, n + 1, Len(R))[i] = R[n + i]
<1> DEFINE N == Len(R)
           Q == SubSeq(R, n + 1, N)
<1>1. N \in Nat /\ n \in Nat /\ n <= N
    OBVIOUS
<1>2. \A i \in n + 1..N : R[i] \in S
  <2>1. \A i \in n + 1..N : i \in 1..N
      BY <1>1
  <2> QED BY <2>1, ElementOfSeq
<1> HIDE DEF N, Q
<1>3. n + 1 \in Int /\ N \in Int
    BY <1>1
<1>4. Q \in Seq(S) /\ Len(Q) = IF n + 1 <= N THEN N - (n + 1) + 1 ELSE 0
    BY <1>2, <1>3, SubSeqProperties DEF Q
<1>5. \A i \in 1..N - (n + 1) + 1 : Q[i] = R[n + 1 + i - 1]
    BY <1>2, <1>3, SubSeqProperties DEF Q
<1>6. \A i \in 1..N - n : i \in 1..N - (n + 1) + 1 /\ n + 1 + i - 1 = n + i
    BY ONLY <1>1
<1>7. Len(Q) = N - n
    BY ONLY <1>1, <1>4
<1>8. \A i \in 1..N - n : Q[i] = R[n + i]
    BY ONLY <1>5, <1>6
<1> QED BY <1>4, <1>7, <1>8 DEF N, Q

(* The bytes R from offset o of block b on, and where each block begins    *)
(* among them, before the first for a block that is read in part.          *)
Placed(c, b, o, R, st) ==
    /\ c \in Seq(Seq(Octets)) /\ b \in 1..Len(c) /\ o \in 0..Len(c[b])
    /\ st \in [b..Len(c) + 1 -> Int] /\ st[b] + o = 0
    /\ \A x \in b..Len(c) : st[x + 1] = st[x] + Len(c[x])
    /\ R \in Seq(Octets) /\ Len(R) = st[Len(c) + 1]
    /\ \A x \in b..Len(c) : \A j \in 1..Len(c[x]) :
          st[x] + j >= 1 => R[st[x] + j] = c[x][j]

LEMMA PlacedTypes ==
    ASSUME NEW c, NEW b, NEW o, NEW R, NEW st, Placed(c, b, o, R, st)
    PROVE  /\ c \in Seq(Seq(Octets)) /\ R \in Seq(Octets)
           /\ Len(c) \in Nat /\ b \in Nat /\ o \in Nat /\ Len(R) \in Nat
           /\ b \in 1..Len(c) /\ st[b] + o = 0 /\ Len(R) = st[Len(c) + 1]
           /\ \A x \in b..Len(c) : /\ x \in 1..Len(c) /\ c[x] \in Seq(Octets)
                                   /\ Len(c[x]) \in Nat
                                   /\ st[x + 1] = st[x] + Len(c[x])
           /\ \A x \in b..Len(c) + 1 : st[x] \in Int
<1>1. Len(c) \in Nat /\ b \in Nat /\ o \in Nat /\ Len(R) \in Nat
    BY DEF Placed
<1>2. \A x \in b..Len(c) : x \in 1..Len(c)
    BY <1>1 DEF Placed
<1>3. \A x \in 1..Len(c) : c[x] \in Seq(Octets)
    BY ElementOfSeq DEF Placed
<1>4. \A x \in b..Len(c) + 1 : st[x] \in Int
    BY DEF Placed
<1>5. \A x \in b..Len(c) : st[x + 1] = st[x] + Len(c[x])
    BY DEF Placed
<1>6. \A x \in b..Len(c) : c[x] \in Seq(Octets) /\ Len(c[x]) \in Nat
    BY <1>2, <1>3
<1>7. /\ c \in Seq(Seq(Octets)) /\ R \in Seq(Octets)
      /\ b \in 1..Len(c) /\ st[b] + o = 0 /\ Len(R) = st[Len(c) + 1]
    BY DEF Placed
<1> QED BY <1>1, <1>2, <1>4, <1>5, <1>6, <1>7

(* The block x, and where it begins and ends.                              *)
LEMMA BlockAt ==
    ASSUME NEW c, NEW b, NEW o, NEW R, NEW st, Placed(c, b, o, R, st), NEW x \in b..Len(c)
    PROVE  /\ st[x] \in Int /\ st[x + 1] \in Int
           /\ c[x] \in Seq(Octets) /\ Len(c[x]) \in Nat /\ st[x + 1] = st[x] + Len(c[x])
           /\ x \in Nat /\ x \in 1..Len(c) /\ x \in b..Len(c) + 1 /\ x + 1 \in b..Len(c) + 1
           /\ Len(c) + 1 \in x + 1..Len(c) + 1
<1>1. Len(c) \in Nat /\ b \in Nat
    BY PlacedTypes
<1>2. x \in b..Len(c) + 1 /\ x + 1 \in b..Len(c) + 1 /\ Len(c) + 1 \in x + 1..Len(c) + 1
      /\ x \in Nat
  <2> DEFINE n == Len(c)
  <2>1. n \in Int /\ b \in Nat /\ x \in b..n
      BY <1>1
  <2> HIDE DEF n
  <2>2. x \in b..n + 1 /\ x + 1 \in b..n + 1 /\ n + 1 \in x + 1..n + 1 /\ x \in Nat
      BY ONLY <2>1
  <2> QED BY <2>2 DEF n
<1>3. st[x] \in Int /\ st[x + 1] \in Int
    BY <1>2, PlacedTypes
<1>4. c[x] \in Seq(Octets) /\ Len(c[x]) \in Nat /\ st[x + 1] = st[x] + Len(c[x]) /\ x \in 1..Len(c)
    BY PlacedTypes
<1> QED BY <1>2, <1>3, <1>4

(* Later blocks begin later.                                               *)
LEMMA LaterBegin ==
    ASSUME NEW c, NEW b, NEW o, NEW R, NEW st, Placed(c, b, o, R, st),
           NEW x \in b..Len(c) + 1, NEW y \in x..Len(c) + 1
    PROVE  st[x] <= st[y]
<1> DEFINE S == {k \in x..Len(c) + 1 : st[x] <= st[k]}
<1>1. /\ Len(c) \in Nat /\ b \in Nat /\ x \in Int /\ Len(c) + 1 \in Int
      /\ \A k \in b..Len(c) : Len(c[k]) \in Nat
      /\ \A k \in b..Len(c) + 1 : st[k] \in Int
      /\ \A k \in b..Len(c) : st[k + 1] = st[k] + Len(c[k])
  <2>1. \A k \in b..Len(c) : st[k + 1] = st[k] + Len(c[k])
      BY DEF Placed
  <2> QED BY <2>1, PlacedTypes
<1>2. x \in S
    BY <1>1
<1>3. ASSUME NEW n \in x + 1..Len(c) + 1, n - 1 \in S PROVE n \in S
  <2>1. n - 1 \in b..Len(c) /\ n \in b..Len(c) + 1 /\ n - 1 + 1 = n /\ n \in x..Len(c) + 1
      BY <1>1
  <2>2. st[n] = st[n - 1] + Len(c[n - 1])
      BY <1>1, <2>1
  <2>3. /\ st[n] \in Int /\ st[n - 1] \in Int /\ Len(c[n - 1]) \in Nat /\ st[x] \in Int
        /\ st[x] <= st[n - 1]
      BY <1>1, <1>3, <2>1
  <2>4. st[x] <= st[n]
      BY <2>2, <2>3
  <2> QED BY <2>1, <2>4
<1> HIDE DEF S
<1>4. \A n \in x..Len(c) + 1 : n \in S
    BY <1>1, <1>2, <1>3, CountingUp
<1> USE DEF S
<1> QED BY <1>4

(* Every byte is in a block.                                               *)
LEMMA Located ==
    ASSUME NEW c, NEW b, NEW o, NEW R, NEW st, Placed(c, b, o, R, st), NEW i \in 1..Len(R)
    PROVE  \E x \in b..Len(c) : st[x] < i /\ i <= st[x + 1]
<1> DEFINE S == {x \in b..Len(c) : i <= st[x + 1]}
<1>1. /\ Len(c) \in Nat /\ b \in Nat /\ Len(R) \in Nat /\ o \in Nat
      /\ b \in 1..Len(c) /\ st[b] + o = 0 /\ Len(R) = st[Len(c) + 1]
      /\ \A k \in b..Len(c) + 1 : st[k] \in Int
  <2>1. b \in 1..Len(c) /\ st[b] + o = 0 /\ Len(R) = st[Len(c) + 1]
      BY DEF Placed
  <2> QED BY <2>1, PlacedTypes
<1>2. Len(c) \in S
    BY <1>1
<1>3. S \in SUBSET Nat
    BY <1>1
<1> HIDE DEF S
<1>4. PICK m \in S : \A k \in S : m <= k
    BY <1>2, <1>3, Least
<1> USE DEF S
<1>5. m \in b..Len(c) /\ i <= st[m + 1]
    BY <1>4
<1>6. st[m] < i
  <2>1. CASE m = b
      BY <1>1, <2>1
  <2>2. CASE m # b
    <3>1. m - 1 \in b..Len(c) /\ m - 1 + 1 = m /\ ~(m <= m - 1)
        BY <1>1, <1>5, <2>2
    <3>2. m - 1 \notin S
        BY <1>4, <3>1
    <3>3. ~(i <= st[m]) /\ st[m] \in Int
        BY <1>1, <3>1, <3>2, <1>5
    <3> QED BY <3>3
  <2> QED BY <2>1, <2>2
<1> QED BY <1>5, <1>6

(* The blocks say which bytes.                                             *)
LEMMA ByteOf ==
    ASSUME NEW c, NEW b, NEW o, NEW R, NEW st, Placed(c, b, o, R, st),
           NEW x \in b..Len(c), NEW i \in 1..Len(R), st[x] < i, i <= st[x + 1]
    PROVE  /\ i - st[x] \in 1..Len(c[x])
           /\ R[i] = c[x][i - st[x]]
<1>1. st[x] \in Int /\ Len(c[x]) \in Nat /\ st[x + 1] = st[x] + Len(c[x]) /\ i \in Int /\ i >= 1
  <2>1. Len(R) \in Nat
      BY PlacedTypes
  <2>2. i \in Int /\ i >= 1
      BY <2>1
  <2> QED BY <2>2, BlockAt
<1>2. i - st[x] \in 1..Len(c[x]) /\ st[x] + (i - st[x]) = i
  <2> DEFINE s == st[x]
             n == Len(c[x])
             e == st[x + 1]
  <2>1. s \in Int /\ n \in Nat /\ e = s + n /\ i \in Int /\ i <= e /\ s < i
      BY <1>1
  <2> HIDE DEF s, n, e
  <2>2. i - s \in 1..n /\ s + (i - s) = i
      BY ONLY <2>1
  <2> QED BY <2>2 DEF s, n
<1>3. R[st[x] + (i - st[x])] = c[x][i - st[x]]
    BY <1>1, <1>2 DEF Placed
<1> QED BY <1>2, <1>3

LEMMA SameBytes ==
    ASSUME NEW c, NEW b, NEW o, NEW R, NEW st, Placed(c, b, o, R, st),
           NEW Q, NEW ss, Placed(c, b, o, Q, ss)
    PROVE  R = Q
<1> DEFINE S == {k \in b..Len(c) + 1 : st[k] = ss[k]}
<1>1. /\ Len(c) \in Nat /\ b \in Nat /\ o \in Nat /\ Len(c) + 1 \in Int /\ b \in Int
      /\ b \in 1..Len(c)
      /\ R \in Seq(Octets) /\ Q \in Seq(Octets)
  <2>1. b \in 1..Len(c) /\ R \in Seq(Octets) /\ Q \in Seq(Octets)
      BY DEF Placed
  <2> QED BY <2>1, PlacedTypes
<1>2. b \in S
  <2>1. st[b] + o = 0 /\ st[b] \in Int /\ ss[b] + o = 0 /\ ss[b] \in Int /\ b \in b..Len(c) + 1
    <3>1. b \in b..Len(c) + 1
        BY <1>1
    <3> QED BY <3>1, PlacedTypes
  <2>2. st[b] = ss[b]
      BY ONLY <1>1, <2>1
  <2> QED BY <2>1, <2>2
<1>3. ASSUME NEW n \in b + 1..Len(c) + 1, n - 1 \in S PROVE n \in S
  <2>1. n - 1 \in b..Len(c) /\ n \in b..Len(c) + 1 /\ n - 1 + 1 = n
      BY <1>1
  <2>2. st[n] = st[n - 1] + Len(c[n - 1]) /\ ss[n] = ss[n - 1] + Len(c[n - 1])
      BY <2>1 DEF Placed
  <2> QED BY <1>3, <2>1, <2>2
<1> HIDE DEF S
<1>4. \A n \in b..Len(c) + 1 : n \in S
    BY <1>1, <1>2, <1>3, CountingUp
<1> USE DEF S
<1>5. \A n \in b..Len(c) + 1 : st[n] = ss[n]
    BY <1>4
<1> HIDE DEF S
<1>6. Len(R) = Len(Q)
    BY <1>1, <1>5 DEF Placed
<1>7. ASSUME NEW i \in 1..Len(R) PROVE R[i] = Q[i]
  <2>1. PICK x \in b..Len(c) : st[x] < i /\ i <= st[x + 1]
      BY Located
  <2>2. x \in b..Len(c) + 1 /\ x + 1 \in b..Len(c) + 1
      BY <1>1
  <2>3. ss[x] = st[x] /\ ss[x + 1] = st[x + 1]
      BY <1>5, <2>2
  <2>4. R[i] = c[x][i - st[x]]
      BY <2>1, ByteOf
  <2>5. i \in 1..Len(Q) /\ ss[x] < i /\ i <= ss[x + 1]
      BY <1>6, <2>1, <2>3
  <2>6. Q[i] = c[x][i - ss[x]]
      BY <2>5, ByteOf
  <2> QED BY <2>3, <2>4, <2>6
<1> QED BY <1>1, <1>6, <1>7, SeqEqual

(* Reading goes on from a later place.                                     *)
LEMMA ReadOn ==
    ASSUME NEW c, NEW b, NEW o, NEW R, NEW st, Placed(c, b, o, R, st),
           NEW x \in b..Len(c), NEW p \in 0..Len(c[x]), st[x] + p >= 0
    PROVE  /\ st[x] + p \in 0..Len(R)
           /\ \E ss : Placed(c, x, p, SubSeq(R, st[x] + p + 1, Len(R)), ss)
<1> DEFINE n == st[x] + p
           Q == SubSeq(R, n + 1, Len(R))
           ss == [y \in x..Len(c) + 1 |-> st[y] - n]
<1>1. /\ c \in Seq(Seq(Octets)) /\ R \in Seq(Octets)
      /\ Len(c) \in Nat /\ b \in Nat /\ o \in Nat /\ Len(R) \in Nat
      /\ Len(R) = st[Len(c) + 1]
      /\ \A y \in b..Len(c) : /\ y \in 1..Len(c) /\ c[y] \in Seq(Octets)
                              /\ Len(c[y]) \in Nat
                              /\ st[y + 1] = st[y] + Len(c[y])
      /\ \A y \in b..Len(c) + 1 : st[y] \in Int
    BY PlacedTypes
<1>2. x \in b..Len(c) + 1 /\ x \in Int /\ st[x] \in Int /\ p \in Int /\ n \in Int /\ p <= Len(c[x])
  <2>1. st[x] \in Int /\ Len(c[x]) \in Nat /\ x \in b..Len(c) + 1 /\ x \in Nat
      BY BlockAt
  <2>2. p \in Int /\ p <= Len(c[x])
      BY <2>1
  <2> QED BY <2>1, <2>2
<1>3. st[x + 1] <= Len(R) /\ n <= st[x + 1]
  <2>1. x + 1 \in b..Len(c) + 1 /\ Len(c) + 1 \in x + 1..Len(c) + 1
      BY BlockAt
  <2>2. st[x + 1] <= st[Len(c) + 1]
      BY <2>1, LaterBegin
  <2>3. st[x + 1] <= Len(R)
      BY <1>1, <2>2
  <2>4. n <= st[x + 1]
    <3> DEFINE s == st[x]
               m == Len(c[x])
               e == st[x + 1]
    <3>1. s \in Int /\ m \in Nat /\ e = s + m /\ p \in Int /\ p <= m
        BY <1>2, BlockAt
    <3> HIDE DEF s, m, e
    <3>2. s + p <= e
        BY ONLY <3>1
    <3> QED BY <3>2 DEF s, e
  <2> QED BY <2>3, <2>4
<1>4. n \in 0..Len(R)
  <2>2. st[x + 1] \in Int /\ Len(R) \in Nat /\ n \in Int /\ n >= 0
      BY <1>1, <1>2, BlockAt
  <2> HIDE DEF n
  <2> QED BY ONLY <1>3, <2>2
<1> HIDE DEF n
<1>5. /\ Q \in Seq(Octets) /\ Len(Q) = Len(R) - n
      /\ \A i \in 1..Len(R) - n : Q[i] = R[n + i]
    BY <1>1, <1>4, EndOf
<1>6. b \in Int /\ x \in Int /\ Len(c) \in Int /\ b <= x
    BY <1>1
<1>7. \A y \in x..Len(c) + 1 : ss[y] = st[y] - n /\ ss[y] \in Int
  <2>1. \A y \in x..Len(c) + 1 : y \in b..Len(c) + 1
      BY <1>6, Inside
  <2>2. ASSUME NEW y \in x..Len(c) + 1 PROVE ss[y] = st[y] - n /\ ss[y] \in Int
    <3>1. st[y] \in Int /\ n \in Int
        BY <1>1, <1>2, <2>1
    <3> QED BY <3>1
  <2> QED BY <2>2
<1>8. ss \in [x..Len(c) + 1 -> Int]
    BY <1>7
<1> HIDE DEF ss, Q
<1>9. ss[x] + p = 0
  <2>1. ss[x] = st[x] - n /\ n = st[x] + p
      BY <1>1, <1>2, <1>7 DEF n
  <2> QED BY <1>2, <2>1
<1>10. ASSUME NEW y \in x..Len(c) PROVE ss[y + 1] = ss[y] + Len(c[y])
  <2>1. y \in b..Len(c) /\ y \in b..Len(c) + 1 /\ y \in x..Len(c) + 1 /\ y + 1 \in x..Len(c) + 1
      BY <1>6, Inside
  <2>2. /\ st[y + 1] = st[y] + Len(c[y]) /\ Len(c[y]) \in Nat /\ st[y] \in Int
        /\ ss[y + 1] = st[y + 1] - n /\ ss[y] = st[y] - n
      BY <1>1, <1>7, <2>1
  <2> QED BY ONLY <1>4, <2>2
<1>11. Len(Q) = ss[Len(c) + 1]
  <2>1. Len(c) + 1 \in x..Len(c) + 1
    <3>1. x <= Len(c) + 1
        BY <1>6
    <3> QED BY <1>6, <3>1, Inside
  <2> QED BY <1>1, <1>5, <1>7, <2>1
<1>12. ASSUME NEW y \in x..Len(c), NEW j \in 1..Len(c[y]), ss[y] + j >= 1
       PROVE  Q[ss[y] + j] = c[y][j]
  <2>1. /\ y \in b..Len(c) /\ y + 1 \in b..Len(c) + 1 /\ st[y] \in Int /\ ss[y] = st[y] - n
        /\ Len(c[y]) \in Nat /\ j \in Int /\ st[y + 1] = st[y] + Len(c[y]) /\ j <= Len(c[y])
    <3>1. y \in b..Len(c) /\ y + 1 \in b..Len(c) + 1 /\ y \in x..Len(c) + 1
        BY <1>6, Inside
    <3>2. st[y] \in Int /\ Len(c[y]) \in Nat /\ st[y + 1] = st[y] + Len(c[y])
        BY <3>1, BlockAt
    <3>3. ss[y] = st[y] - n
        BY <1>7, <3>1
    <3> QED BY <3>1, <3>2, <3>3
  <2>2. st[y] + j >= 1 /\ n + (ss[y] + j) = st[y] + j /\ ss[y] + j \in Int
    <3> DEFINE s == st[y]
               q == ss[y]
    <3>1. s \in Int /\ n \in Int /\ n >= 0 /\ q = s - n /\ j \in Int /\ q + j >= 1
        BY <1>2, <1>4, <1>12, <2>1
    <3> HIDE DEF s, q
    <3>2. s + j >= 1 /\ n + (q + j) = s + j /\ q + j \in Int
        BY ONLY <3>1
    <3> QED BY <3>2 DEF s, q
  <2>3. R[st[y] + j] = c[y][j]
      BY <2>1, <2>2 DEF Placed
  <2>4. st[y] + j <= Len(R)
    <3>1. Len(c) + 1 \in y + 1..Len(c) + 1
        BY <1>6, Inside
    <3>2. st[y + 1] <= Len(R)
      <4>1. st[y + 1] <= st[Len(c) + 1]
          BY <2>1, <3>1, LaterBegin
      <4> QED BY <1>1, <4>1
    <3>3. Len(R) \in Nat
        BY <1>1
    <3> QED BY ONLY <2>1, <3>2, <3>3
  <2>5. ss[y] + j \in 1..Len(R) - n
    <3>1. Len(R) \in Nat /\ n \in Int
        BY <1>1, <1>4
    <3> QED BY ONLY <1>12, <3>1, <2>1, <2>2, <2>4
  <2> QED BY <1>5, <2>2, <2>3, <2>5
<1>13. x \in 1..Len(c)
    BY <1>1
<1>14. Placed(c, x, p, Q, ss)
    BY <1>1, <1>5, <1>8, <1>9, <1>10, <1>11, <1>12, <1>13 DEF Placed
<1> QED BY <1>4, <1>14 DEF n, Q

(* The blocks in front of the one reading goes on in do not matter.        *)
Rest(c, b) == SubSeq(c, b, Len(c))

LEMMA RestIs ==
    ASSUME NEW c \in Seq(Seq(Octets)), NEW b \in 1..Len(c)
    PROVE  /\ Rest(c, b) \in Seq(Seq(Octets)) /\ Len(Rest(c, b)) = Len(c) - b + 1
           /\ \A x \in 1..Len(c) - b + 1 : Rest(c, b)[x] = c[b + x - 1]
<1>1. Len(c) \in Nat /\ b \in Int /\ Len(c) \in Int /\ b <= Len(c)
    OBVIOUS
<1>2. \A x \in b..Len(c) : c[x] \in Seq(Octets)
  <2>1. \A x \in b..Len(c) : x \in 1..Len(c)
      BY <1>1
  <2> QED BY <2>1, ElementOfSeq
<1> QED BY <1>1, <1>2, SubSeqProperties DEF Rest

LEMMA Dropped ==
    ASSUME NEW c, NEW b, NEW o, NEW R, NEW st, Placed(c, b, o, R, st)
    PROVE  \E ss : Placed(Rest(c, b), 1, o, R, ss)
<1> DEFINE d == Rest(c, b)
           ss == [y \in 1..Len(c) - b + 2 |-> st[b + y - 1]]
<1>1. /\ c \in Seq(Seq(Octets)) /\ R \in Seq(Octets)
      /\ Len(c) \in Nat /\ b \in Nat /\ o \in Nat /\ Len(R) \in Nat
      /\ b \in 1..Len(c) /\ st[b] + o = 0 /\ Len(R) = st[Len(c) + 1]
      /\ \A y \in b..Len(c) : /\ y \in 1..Len(c) /\ c[y] \in Seq(Octets)
                              /\ Len(c[y]) \in Nat
                              /\ st[y + 1] = st[y] + Len(c[y])
      /\ \A y \in b..Len(c) + 1 : st[y] \in Int
    BY PlacedTypes
<1>2. /\ d \in Seq(Seq(Octets)) /\ Len(d) = Len(c) - b + 1
      /\ \A x \in 1..Len(c) - b + 1 : d[x] = c[b + x - 1]
    BY <1>1, RestIs
<1> HIDE DEF d
<1>3. \A y \in 1..Len(d) : /\ b + y - 1 \in b..Len(c) /\ b + y - 1 + 1 = b + (y + 1) - 1
                           /\ y \in 1..Len(c) - b + 2 /\ y + 1 \in 1..Len(c) - b + 2
                           /\ y \in 1..Len(c) - b + 1
  <2>1. Len(c) \in Nat /\ b \in Nat /\ Len(d) = Len(c) - b + 1
    <3>1. Len(c) \in Nat /\ b \in Nat
        BY <1>1
    <3> QED BY <1>2, <3>1
  <2> QED BY ONLY <2>1
<1>4. \A y \in 1..Len(c) - b + 2 : ss[y] = st[b + y - 1] /\ ss[y] \in Int
  <2>1. \A y \in 1..Len(c) - b + 2 : b + y - 1 \in b..Len(c) + 1
      BY <1>1
  <2> QED BY <1>1, <2>1
<1>5. ss \in [1..Len(d) + 1 -> Int]
  <2>1. Len(d) + 1 = Len(c) - b + 2
      BY <1>1, <1>2
  <2> QED BY <1>4, <2>1
<1> HIDE DEF ss
<1>6. 1 \in 1..Len(d) /\ ss[1] + o = 0 /\ d[1] = c[b]
  <2>1. 1 \in 1..Len(c) - b + 2 /\ 1 \in 1..Len(c) - b + 1 /\ b + 1 - 1 = b /\ 1 \in 1..Len(d)
      BY <1>1, <1>2
  <2> QED BY <1>1, <1>2, <1>4, <2>1
<1>7. Len(R) = ss[Len(d) + 1]
  <2>1. Len(d) + 1 \in 1..Len(c) - b + 2 /\ b + (Len(d) + 1) - 1 = Len(c) + 1
      BY <1>1, <1>2
  <2> QED BY <1>1, <1>4, <2>1
<1>8. ASSUME NEW y \in 1..Len(d) PROVE ss[y + 1] = ss[y] + Len(d[y])
  <2>1. st[b + y - 1 + 1] = st[b + y - 1] + Len(c[b + y - 1])
      BY <1>1, <1>3
  <2>2. ss[y] = st[b + y - 1] /\ ss[y + 1] = st[b + (y + 1) - 1] /\ d[y] = c[b + y - 1]
      BY <1>2, <1>3, <1>4
  <2> QED BY <1>3, <2>1, <2>2
<1>9. ASSUME NEW y \in 1..Len(d), NEW j \in 1..Len(d[y]), ss[y] + j >= 1
      PROVE  R[ss[y] + j] = d[y][j]
  <2>1. d[y] = c[b + y - 1] /\ ss[y] = st[b + y - 1] /\ b + y - 1 \in b..Len(c)
      BY <1>2, <1>3, <1>4
  <2> QED BY <1>9, <2>1 DEF Placed
<1>10. o \in 0..Len(c[b])
    BY DEF Placed
<1>11. Placed(d, 1, o, R, ss)
    BY <1>1, <1>2, <1>5, <1>6, <1>7, <1>8, <1>9, <1>10 DEF Placed
<1> QED BY <1>11 DEF d

LEMMA BackIn ==
    ASSUME NEW c \in Seq(Seq(Octets)), NEW b \in 1..Len(c), NEW F, NEW sf,
           Placed(Rest(c, b), 1, 0, F, sf)
    PROVE  \E st : Placed(c, b, 0, F, st)
<1> DEFINE d == Rest(c, b)
           st == [y \in b..Len(c) + 1 |-> sf[y - b + 1]]
<1>1. /\ Len(c) \in Nat /\ b \in Nat /\ b \in 1..Len(c)
      /\ d \in Seq(Seq(Octets)) /\ Len(d) = Len(c) - b + 1
      /\ \A x \in 1..Len(c) - b + 1 : d[x] = c[b + x - 1]
  <2>1. Len(c) \in Nat /\ b \in Nat /\ b \in 1..Len(c)
      OBVIOUS
  <2> HIDE DEF d
  <2>2. /\ d \in Seq(Seq(Octets)) /\ Len(d) = Len(c) - b + 1
        /\ \A x \in 1..Len(c) - b + 1 : d[x] = c[b + x - 1]
      BY RestIs, Zenon DEF d
  <2> QED BY <2>1, <2>2
<1>2. /\ F \in Seq(Octets) /\ Len(F) = sf[Len(d) + 1] /\ sf[1] = 0
      /\ \A y \in 1..Len(d) : sf[y + 1] = sf[y] + Len(d[y])
      /\ \A y \in 1..Len(d) + 1 : sf[y] \in Int
  <2> HIDE DEF d
  <2>1. 1 \in 1..Len(d) + 1 /\ sf[1] + 0 = 0
      BY <1>1, PlacedTypes DEF d
  <2>2. sf[1] \in Int
      BY <2>1, PlacedTypes DEF d
  <2>3. sf[1] = 0
      BY ONLY <2>1, <2>2
  <2>4. /\ F \in Seq(Octets) /\ Len(F) = sf[Len(d) + 1]
        /\ \A y \in 1..Len(d) : sf[y + 1] = sf[y] + Len(d[y])
        /\ \A y \in 1..Len(d) + 1 : sf[y] \in Int
    <3>1. F \in Seq(Octets) /\ Len(F) = sf[Len(d) + 1]
        BY PlacedTypes DEF d
    <3>2. \A y \in 1..Len(d) : sf[y + 1] = sf[y] + Len(d[y])
        BY PlacedTypes DEF d
    <3>3. \A y \in 1..Len(d) + 1 : sf[y] \in Int
        BY PlacedTypes DEF d
    <3> QED BY <3>1, <3>2, <3>3
  <2> QED BY <2>3, <2>4
<1> HIDE DEF d
<1>3. \A y \in b..Len(c) + 1 : st[y] = sf[y - b + 1] /\ st[y] \in Int
  <2>1. \A y \in b..Len(c) + 1 : y - b + 1 \in 1..Len(d) + 1
      BY <1>1
  <2> QED BY <1>2, <2>1
<1>4. st \in [b..Len(c) + 1 -> Int]
    BY <1>3
<1> HIDE DEF st
<1>5. \A y \in b..Len(c) : /\ y - b + 1 \in 1..Len(d) /\ y + 1 - b + 1 = y - b + 1 + 1
                           /\ y \in b..Len(c) + 1 /\ y + 1 \in b..Len(c) + 1
                           /\ d[y - b + 1] = c[y]
  <2>1. ASSUME NEW y \in b..Len(c)
        PROVE  /\ y - b + 1 \in 1..Len(c) - b + 1 /\ y + 1 - b + 1 = y - b + 1 + 1
               /\ y \in b..Len(c) + 1 /\ y + 1 \in b..Len(c) + 1
               /\ b + (y - b + 1) - 1 = y
      BY <1>1
  <2>2. \A y \in b..Len(c) : y - b + 1 \in 1..Len(d) /\ d[y - b + 1] = c[y]
      BY <1>1, <2>1
  <2> QED BY ONLY <2>1, <2>2
<1>6. st[b] = 0 /\ Len(F) = st[Len(c) + 1]
  <2>1. /\ b - b + 1 = 1 /\ Len(c) + 1 - b + 1 = Len(d) + 1
        /\ b \in b..Len(c) + 1 /\ Len(c) + 1 \in b..Len(c) + 1
      BY <1>1
  <2> QED BY <1>2, <1>3, <2>1
<1>7. ASSUME NEW y \in b..Len(c) PROVE st[y + 1] = st[y] + Len(c[y])
  <2>1. sf[y - b + 1 + 1] = sf[y - b + 1] + Len(d[y - b + 1])
      BY <1>2, <1>5
  <2>2. st[y + 1] = sf[y + 1 - b + 1] /\ st[y] = sf[y - b + 1]
    <3>1. y \in b..Len(c) + 1 /\ y + 1 \in b..Len(c) + 1
        BY <1>5
    <3> QED BY ONLY <1>3, <3>1
  <2>3. y + 1 - b + 1 = y - b + 1 + 1 /\ d[y - b + 1] = c[y]
      BY <1>5
  <2> QED BY ONLY <2>1, <2>2, <2>3, Zenon
<1>8. ASSUME NEW y \in b..Len(c), NEW j \in 1..Len(c[y]), st[y] + j >= 1
      PROVE  F[st[y] + j] = c[y][j]
  <2>1. d[y - b + 1] = c[y] /\ st[y] = sf[y - b + 1] /\ y - b + 1 \in 1..Len(d)
      BY <1>3, <1>5
  <2> QED BY <1>8, <2>1 DEF Placed, d
<1>9. 0 \in 0..Len(c[b])
  <2>1. c[b] \in Seq(Octets)
      BY ElementOfSeq
  <2> QED BY <2>1
<1>10. Placed(c, b, 0, F, st)
    BY <1>1, <1>2, <1>4, <1>6, <1>7, <1>8, <1>9 DEF Placed
<1> QED BY <1>10

(* More blocks behind the last one.                                        *)
LEMMA Extended ==
    ASSUME NEW c, NEW b, NEW o, NEW R, NEW st, Placed(c, b, o, R, st),
           NEW d, NEW G, NEW sd, Placed(d, 1, 0, G, sd)
    PROVE  \E ss : Placed(c \o d, b, o, R \o G, ss)
<1> DEFINE e == c \o d
           Q == R \o G
           ss == [y \in b..Len(c) + Len(d) + 1 |->
                    IF y <= Len(c) THEN st[y] ELSE Len(R) + sd[y - Len(c)]]
<1>1. /\ c \in Seq(Seq(Octets)) /\ R \in Seq(Octets)
      /\ Len(c) \in Nat /\ b \in Nat /\ o \in Nat /\ Len(R) \in Nat
      /\ b \in 1..Len(c) /\ st[b] + o = 0 /\ Len(R) = st[Len(c) + 1]
      /\ \A y \in b..Len(c) : /\ y \in 1..Len(c) /\ c[y] \in Seq(Octets)
                              /\ Len(c[y]) \in Nat
                              /\ st[y + 1] = st[y] + Len(c[y])
      /\ \A y \in b..Len(c) + 1 : st[y] \in Int
    BY PlacedTypes
<1>2. /\ d \in Seq(Seq(Octets)) /\ G \in Seq(Octets)
      /\ Len(d) \in Nat /\ Len(G) \in Nat
      /\ 1 \in 1..Len(d) /\ sd[1] = 0 /\ Len(G) = sd[Len(d) + 1]
      /\ \A y \in 1..Len(d) : Len(d[y]) \in Nat /\ sd[y + 1] = sd[y] + Len(d[y])
      /\ \A y \in 1..Len(d) + 1 : sd[y] \in Int
  <2>1. sd[1] + 0 = 0 /\ 1 \in 1..Len(d) + 1
      BY PlacedTypes
  <2>2. sd[1] \in Int
      BY <2>1, PlacedTypes
  <2>3. sd[1] = 0
      BY ONLY <2>1, <2>2
  <2>4. /\ d \in Seq(Seq(Octets)) /\ G \in Seq(Octets)
        /\ Len(d) \in Nat /\ Len(G) \in Nat
        /\ 1 \in 1..Len(d) /\ Len(G) = sd[Len(d) + 1]
        /\ \A y \in 1..Len(d) : Len(d[y]) \in Nat /\ sd[y + 1] = sd[y] + Len(d[y])
        /\ \A y \in 1..Len(d) + 1 : sd[y] \in Int
    <3>1. /\ d \in Seq(Seq(Octets)) /\ G \in Seq(Octets)
          /\ Len(d) \in Nat /\ Len(G) \in Nat /\ 1 \in 1..Len(d) /\ Len(G) = sd[Len(d) + 1]
        BY PlacedTypes
    <3>2. \A y \in 1..Len(d) : Len(d[y]) \in Nat /\ sd[y + 1] = sd[y] + Len(d[y])
        BY PlacedTypes
    <3>3. \A y \in 1..Len(d) + 1 : sd[y] \in Int
        BY PlacedTypes
    <3> QED BY <3>1, <3>2, <3>3
  <2> QED BY <2>3, <2>4
<1>3. /\ e \in Seq(Seq(Octets)) /\ Len(e) = Len(c) + Len(d)
      /\ \A i \in 1..Len(c) + Len(d) : e[i] = IF i <= Len(c) THEN c[i] ELSE d[i - Len(c)]
  <2>1. c \in Seq(Seq(Octets)) /\ d \in Seq(Seq(Octets))
      BY <1>1, <1>2
  <2> QED BY ONLY <2>1, ConcatProperties
<1>4. /\ Q \in Seq(Octets) /\ Len(Q) = Len(R) + Len(G)
      /\ \A i \in 1..Len(R) + Len(G) : Q[i] = IF i <= Len(R) THEN R[i] ELSE G[i - Len(R)]
  <2>1. R \in Seq(Octets) /\ G \in Seq(Octets)
      BY <1>1, <1>2
  <2> QED BY ONLY <2>1, ConcatProperties
<1> HIDE DEF e, Q
<1>5. ASSUME NEW y \in b..Len(c) + 1 PROVE ss[y] = st[y]
  <2>1. y \in b..Len(c) + Len(d) + 1
      BY <1>1, <1>2
  <2>2. CASE y <= Len(c)
      BY <2>1, <2>2
  <2>3. CASE y = Len(c) + 1
    <3>1. ~(y <= Len(c)) /\ y - Len(c) = 1
        BY <1>1, <2>3
    <3>2. ss[y] = Len(R) + sd[1]
        BY <2>1, <3>1
    <3> HIDE DEF ss
    <3>3. Len(R) \in Nat /\ sd[1] = 0 /\ Len(R) = st[Len(c) + 1]
        BY <1>1, <1>2
    <3>4. ss[y] = Len(R)
        BY ONLY <3>2, <3>3
    <3> QED BY <2>3, <3>3, <3>4, Zenon
  <2>4. y <= Len(c) \/ y = Len(c) + 1
    <3>1. Len(c) \in Nat /\ b \in Nat /\ y \in b..Len(c) + 1
        BY <1>1
    <3> QED BY ONLY <3>1
  <2> QED BY <2>2, <2>3, <2>4
<1>6. ASSUME NEW y \in 1..Len(d) + 1 PROVE ss[Len(c) + y] = Len(R) + sd[y]
  <2>1. Len(c) + y \in b..Len(c) + Len(d) + 1 /\ ~(Len(c) + y <= Len(c)) /\ Len(c) + y - Len(c) = y
    <3> DEFINE n == Len(c)
               m == Len(d)
    <3>1. n \in Nat /\ m \in Nat /\ b \in 1..n /\ y \in 1..m + 1
        BY <1>1, <1>2
    <3> HIDE DEF n, m
    <3>2. n + y \in b..n + m + 1 /\ ~(n + y <= n) /\ n + y - n = y
        BY ONLY <3>1
    <3> QED BY <3>2 DEF n, m
  <2> QED BY <2>1
<1>7. \A y \in b..Len(c) + Len(d) + 1 :
         \/ y \in b..Len(c) /\ y + 1 \in b..Len(c) + 1 /\ y \in b..Len(c) + 1
         \/ /\ y - Len(c) \in 1..Len(d) + 1 /\ y = Len(c) + (y - Len(c))
            /\ y <= Len(c) + Len(d) => /\ y - Len(c) \in 1..Len(d) /\ y - Len(c) + 1 \in 1..Len(d) + 1
                                       /\ y + 1 = Len(c) + (y - Len(c) + 1)
                                       /\ ~(y <= Len(c))
  <2>1. Len(c) \in Nat /\ b \in Nat /\ Len(d) \in Nat
      BY <1>1, <1>2
  <2> QED BY ONLY <2>1
<1> DEFINE Old(y) == y \in b..Len(c) /\ y + 1 \in b..Len(c) + 1 /\ y \in b..Len(c) + 1
           New(y) == /\ y - Len(c) \in 1..Len(d) + 1 /\ y = Len(c) + (y - Len(c))
                     /\ y <= Len(c) + Len(d) =>
                          /\ y - Len(c) \in 1..Len(d) /\ y - Len(c) + 1 \in 1..Len(d) + 1
                          /\ y + 1 = Len(c) + (y - Len(c) + 1)
                          /\ ~(y <= Len(c))
<1>8. ss \in [b..Len(e) + 1 -> Int]
  <2>1. ASSUME NEW y \in b..Len(c) + Len(d) + 1 PROVE ss[y] \in Int
    <3>1. CASE Old(y)
        BY <1>1, <1>5, <3>1, Zenon
    <3>2. CASE New(y)
      <4>1. ss[y] = Len(R) + sd[y - Len(c)] /\ sd[y - Len(c)] \in Int
          BY <1>2, <1>6, <3>2, Zenon
      <4> HIDE DEF ss, New, Old
      <4>2. Len(R) \in Nat
          BY <1>1
      <4> QED BY ONLY <4>1, <4>2
    <3> QED BY <1>7, <3>1, <3>2
  <2>2. Len(e) + 1 = Len(c) + Len(d) + 1
      BY <1>3
  <2>3. ss \in [b..Len(c) + Len(d) + 1 -> Int]
      BY <2>1
  <2> HIDE DEF ss, New, Old
  <2> QED BY <2>2, <2>3
<1> HIDE DEF ss
<1>9. b \in 1..Len(e) /\ ss[b] + o = 0 /\ e[b] = c[b] /\ Len(Q) = ss[Len(e) + 1]
  <2>1. /\ b \in 1..Len(c) + Len(d) /\ b <= Len(c) /\ b \in b..Len(c) + 1
        /\ Len(d) + 1 \in 1..Len(d) + 1 /\ Len(c) + Len(d) + 1 = Len(c) + (Len(d) + 1)
    <3> DEFINE n == Len(c)
               m == Len(d)
    <3>1. n \in Nat /\ m \in Nat /\ b \in 1..n
        BY <1>1, <1>2
    <3> HIDE DEF n, m
    <3>2. /\ b \in 1..n + m /\ b <= n /\ b \in b..n + 1
          /\ m + 1 \in 1..m + 1 /\ n + m + 1 = n + (m + 1)
        BY ONLY <3>1
    <3> QED BY <3>2 DEF n, m
  <2>2. ss[Len(c) + (Len(d) + 1)] = Len(R) + sd[Len(d) + 1] /\ ss[b] = st[b]
      BY <1>5, <1>6, <2>1
  <2> QED BY <1>1, <1>2, <1>3, <1>4, <2>1, <2>2
<1>10. ASSUME NEW y \in b..Len(e)
       PROVE  \/ Old(y) /\ e[y] = c[y] /\ ss[y] = st[y] /\ ss[y + 1] = st[y + 1]
              \/ /\ New(y) /\ y - Len(c) \in 1..Len(d) /\ e[y] = d[y - Len(c)]
                 /\ ss[y] = Len(R) + sd[y - Len(c)] /\ ss[y + 1] = Len(R) + sd[y - Len(c) + 1]
  <2>1. y \in b..Len(c) + Len(d) + 1 /\ y \in 1..Len(c) + Len(d) /\ y <= Len(c) + Len(d)
      BY <1>1, <1>2, <1>3
  <2>2. CASE Old(y)
    <3>1. y <= Len(c)
        BY <1>1, <2>2
    <3> QED BY <1>3, <1>5, <2>1, <2>2, <3>1
  <2>3. CASE New(y)
    <3>1. /\ y - Len(c) \in 1..Len(d) /\ y - Len(c) + 1 \in 1..Len(d) + 1
          /\ y - Len(c) \in 1..Len(d) + 1
          /\ y + 1 = Len(c) + (y - Len(c) + 1) /\ y = Len(c) + (y - Len(c))
          /\ ~(y <= Len(c))
        BY <2>1, <2>3
    <3>2. e[y] = d[y - Len(c)]
        BY <1>3, <2>1, <3>1
    <3>3. ss[y] = Len(R) + sd[y - Len(c)] /\ ss[y + 1] = Len(R) + sd[y - Len(c) + 1]
        BY <1>6, <3>1, Zenon
    <3> QED BY <2>3, <3>1, <3>2, <3>3
  <2> QED BY <1>7, <2>1, <2>2, <2>3
<1>11. ASSUME NEW y \in b..Len(e) PROVE ss[y + 1] = ss[y] + Len(e[y])
  <2>1. CASE Old(y) /\ e[y] = c[y] /\ ss[y] = st[y] /\ ss[y + 1] = st[y + 1]
      BY <1>1, <2>1
  <2>2. CASE /\ New(y) /\ y - Len(c) \in 1..Len(d) /\ e[y] = d[y - Len(c)]
             /\ ss[y] = Len(R) + sd[y - Len(c)] /\ ss[y + 1] = Len(R) + sd[y - Len(c) + 1]
    <3> DEFINE z == y - Len(c)
    <3>1. /\ z \in 1..Len(d) /\ Len(e[y]) = Len(d[z])
          /\ ss[y] = Len(R) + sd[z] /\ ss[y + 1] = Len(R) + sd[z + 1]
        BY <2>2
    <3> HIDE DEF z, New, Old
    <3>2. z \in 1..Len(d) + 1
        BY <1>2, <3>1
    <3>3. sd[z + 1] = sd[z] + Len(d[z]) /\ sd[z] \in Int /\ Len(d[z]) \in Nat /\ Len(R) \in Nat
        BY <1>1, <1>2, <3>1, <3>2
    <3> QED BY ONLY <3>1, <3>3
  <2> QED BY <1>10, <2>1, <2>2
<1>12. ASSUME NEW y \in b..Len(e), NEW j \in 1..Len(e[y]), ss[y] + j >= 1
       PROVE  Q[ss[y] + j] = e[y][j]
  <2>1. CASE Old(y) /\ e[y] = c[y] /\ ss[y] = st[y] /\ ss[y + 1] = st[y + 1]
    <3>1. y \in b..Len(c) /\ y + 1 \in b..Len(c) + 1 /\ Len(c) + 1 \in y + 1..Len(c) + 1
        BY <1>1, <2>1
    <3>2. st[y + 1] <= st[Len(c) + 1]
        BY <3>1, LaterBegin
    <3>3. /\ Len(c[y]) \in Nat /\ j \in 1..Len(c[y]) /\ st[y] \in Int /\ st[y] + j >= 1
          /\ st[y + 1] = st[y] + Len(c[y]) /\ st[y + 1] <= Len(R) /\ Len(R) \in Nat /\ Len(G) \in Nat
        BY <1>1, <1>2, <1>12, <2>1, <3>1, <3>2
    <3>4. st[y] + j \in 1..Len(R) + Len(G) /\ st[y] + j <= Len(R)
      <4> DEFINE l == Len(c[y])
                 k == st[y]
                 n == Len(R)
                 m == Len(G)
      <4>1. l \in Nat /\ j \in 1..l /\ k \in Int /\ k + j >= 1 /\ k + l <= n /\ n \in Nat /\ m \in Nat
          BY <3>3, Zenon
      <4> HIDE DEF l, k, n, m
      <4>2. k + j \in 1..n + m /\ k + j <= n
          BY ONLY <4>1
      <4> QED BY <4>2 DEF k, n, m
    <3>5. R[st[y] + j] = c[y][j]
        BY <3>1, <3>3 DEF Placed
    <3> QED BY <1>4, <2>1, <3>4, <3>5
  <2>2. CASE /\ New(y) /\ y - Len(c) \in 1..Len(d) /\ e[y] = d[y - Len(c)]
             /\ ss[y] = Len(R) + sd[y - Len(c)] /\ ss[y + 1] = Len(R) + sd[y - Len(c) + 1]
    <3> DEFINE z == y - Len(c)
    <3>1. /\ z \in 1..Len(d) /\ e[y] = d[z]
          /\ ss[y] = Len(R) + sd[z] /\ ss[y + 1] = Len(R) + sd[z + 1]
        BY <2>2
    <3> HIDE DEF z, New, Old
    <3>2. /\ z \in 1..Len(d) + 1 /\ z + 1 \in 1..Len(d) + 1 /\ 1 \in 1..Len(d) + 1
          /\ z \in 1..Len(d) + 1 /\ Len(d) + 1 \in z + 1..Len(d) + 1
      <4>1. Len(d) \in Nat
          BY <1>2
      <4> QED BY ONLY <3>1, <4>1
    <3>3. sd[1] <= sd[z] /\ sd[z + 1] <= sd[Len(d) + 1]
        BY <3>2, LaterBegin
    <3>4. /\ sd[z + 1] = sd[z] + Len(d[z]) /\ sd[z] \in Int /\ Len(d[z]) \in Nat /\ Len(R) \in Nat
          /\ 0 <= sd[z] /\ sd[z + 1] <= Len(G) /\ Len(G) \in Nat /\ j \in 1..Len(d[z])
        BY <1>1, <1>2, <3>1, <3>2, <3>3
    <3>5. /\ Len(R) + sd[z] + j \in 1..Len(R) + Len(G) /\ ~(Len(R) + sd[z] + j <= Len(R))
          /\ (Len(R) + sd[z] + j) - Len(R) = sd[z] + j /\ sd[z] + j >= 1
      <4> DEFINE l == Len(d[z])
                 k == sd[z]
                 n == Len(R)
                 m == Len(G)
      <4>1. l \in Nat /\ j \in 1..l /\ k \in Int /\ 0 <= k /\ k + l <= m /\ n \in Nat /\ m \in Nat
          BY <3>4, Zenon
      <4> HIDE DEF l, k, n, m
      <4>2. n + k + j \in 1..n + m /\ ~(n + k + j <= n) /\ (n + k + j) - n = k + j /\ k + j >= 1
          BY ONLY <4>1
      <4> QED BY <4>2 DEF k, n, m
    <3>6. G[sd[z] + j] = d[z][j]
        BY <3>1, <3>4, <3>5 DEF Placed
    <3>7. Q[Len(R) + sd[z] + j] = G[(Len(R) + sd[z] + j) - Len(R)]
      <4> DEFINE k == Len(R) + sd[z] + j
      <4>1. k \in 1..Len(R) + Len(G) /\ ~(k <= Len(R))
          BY <3>5
      <4> HIDE DEF k
      <4>2. Q[k] = G[k - Len(R)]
          BY <1>4, <4>1
      <4> QED BY <4>2 DEF k
    <3> QED BY <3>1, <3>5, <3>6, <3>7
  <2> QED BY <1>10, <2>1, <2>2
<1>13. o \in 0..Len(c[b])
    BY DEF Placed
<1>14. Placed(e, b, o, Q, ss)
    BY <1>3, <1>4, <1>8, <1>9, <1>11, <1>12, <1>13 DEF Placed
<1> QED BY <1>14 DEF e, Q

(* The last block taken off, when it is not the one reading goes on in.    *)
LEMMA TakenOff ==
    ASSUME NEW c, NEW o, NEW R, NEW st, Placed(c, 1, o, R, st), Len(c) > 1
    PROVE  \E n \in 0..Len(R) :
              /\ Stream!Last(c) = SubSeq(R, n + 1, Len(R))
              /\ \E ss : Placed(Stream!Front(c), 1, o, SubSeq(R, 1, n), ss)
<1> DEFINE d == SubSeq(c, 1, Len(c) - 1)
           n == st[Len(c)]
           Q == SubSeq(R, 1, n)
           ss == [y \in 1..Len(c) |-> st[y]]
<1>1. /\ c \in Seq(Seq(Octets)) /\ R \in Seq(Octets)
      /\ Len(c) \in Nat /\ o \in Nat /\ Len(R) \in Nat
      /\ 1 \in 1..Len(c) /\ st[1] + o = 0 /\ Len(R) = st[Len(c) + 1]
      /\ \A y \in 1..Len(c) : /\ c[y] \in Seq(Octets) /\ Len(c[y]) \in Nat
                              /\ st[y + 1] = st[y] + Len(c[y])
      /\ \A y \in 1..Len(c) + 1 : st[y] \in Int
      /\ o \in 0..Len(c[1])
  <2>1. o \in 0..Len(c[1])
      BY DEF Placed
  <2> QED BY <2>1, PlacedTypes
<1>2. /\ d \in Seq(Seq(Octets)) /\ Len(d) = Len(c) - 1
      /\ \A i \in 1..Len(c) - 1 : d[i] = c[i]
  <2>1. \A i \in 1..Len(c) - 1 : c[i] \in Seq(Octets) /\ 1 + i - 1 = i
      BY <1>1
  <2>2. 1 \in Int /\ Len(c) - 1 \in Int
      BY <1>1
  <2>3. /\ d \in Seq(Seq(Octets)) /\ Len(d) = IF 1 <= Len(c) - 1 THEN Len(c) - 1 - 1 + 1 ELSE 0
        /\ \A i \in 1..Len(c) - 1 - 1 + 1 : d[i] = c[1 + i - 1]
      BY <2>1, <2>2, SubSeqProperties
  <2>4. Len(c) - 1 - 1 + 1 = Len(c) - 1 /\ 1 <= Len(c) - 1
      BY <1>1
  <2> HIDE DEF d
  <2> QED BY <2>1, <2>3, <2>4
<1>3. n \in 0..Len(R) /\ n + Len(c[Len(c)]) = Len(R)
  <2>1. /\ Len(c) \in 1..Len(c) /\ 2 \in 1..Len(c) + 1 /\ Len(c) \in 2..Len(c) + 1
        /\ Len(c) \in 1..Len(c) + 1 /\ 1 + 1 = 2
      BY <1>1
  <2>2. st[2] <= st[Len(c)]
      BY <2>1, LaterBegin
  <2>3. st[2] \in Int /\ st[2] >= 0
    <3>1. /\ st[1 + 1] = st[1] + Len(c[1]) /\ Len(c[1]) \in Nat /\ o <= Len(c[1])
          /\ o \in Nat /\ st[1] + o = 0
        BY <1>1
    <3>2. st[1] \in Int /\ st[2] = st[1] + Len(c[1])
        BY <1>1, <2>1, <3>1
    <3> QED BY ONLY <3>1, <3>2
  <2>4. Len(R) = n + Len(c[Len(c)]) /\ n \in Int /\ Len(c[Len(c)]) \in Nat
    <3>1. st[Len(c) + 1] = st[Len(c)] + Len(c[Len(c)]) /\ Len(c[Len(c)]) \in Nat
        BY <1>1, <2>1
    <3>2. st[Len(c)] \in Int
        BY <1>1, <2>1
    <3> QED BY <1>1, <3>1, <3>2
  <2> HIDE DEF n
  <2>5. st[2] <= n
      BY <2>2 DEF n
  <2>6. n >= 0 /\ n + Len(c[Len(c)]) = Len(R) /\ Len(R) \in Nat
    <3>1. Len(R) \in Nat
        BY <1>1
    <3> QED BY ONLY <2>3, <2>4, <2>5, <3>1
  <2> QED BY ONLY <2>4, <2>6
<1>4. /\ Q \in Seq(Octets) /\ Len(Q) = n
      /\ \A i \in 1..n : Q[i] = R[i]
  <2> HIDE DEF n
  <2>1. \A i \in 1..n : i \in 1..Len(R) /\ 1 + i - 1 = i
      BY <1>1, <1>3
  <2>2. \A i \in 1..n : R[i] \in Octets
      BY <1>1, <2>1, ElementOfSeq
  <2>3. 1 \in Int /\ n \in Int /\ n \in Nat /\ n - 1 + 1 = n
      BY <1>1, <1>3
  <2>4. /\ Q \in Seq(Octets) /\ Len(Q) = IF 1 <= n THEN n - 1 + 1 ELSE 0
        /\ \A i \in 1..n - 1 + 1 : Q[i] = R[1 + i - 1]
      BY <2>2, <2>3, SubSeqProperties
  <2> HIDE DEF Q
  <2> QED BY <2>1, <2>3, <2>4
<1>5. Stream!Last(c) = SubSeq(R, n + 1, Len(R))
  <2> DEFINE last == c[Len(c)]
             T == SubSeq(R, n + 1, Len(R))
  <2>1. last \in Seq(Octets) /\ Len(last) \in Nat /\ n + Len(last) = Len(R) /\ n \in Nat
      BY <1>1, <1>3
  <2> HIDE DEF n, last
  <2>2. \A i \in n + 1..Len(R) : R[i] \in Octets
    <3>1. \A i \in n + 1..Len(R) : i \in 1..Len(R)
        BY <1>1, <2>1
    <3> QED BY <1>1, <3>1, ElementOfSeq
  <2>3. n + 1 \in Int /\ Len(R) \in Int
      BY <1>1, <2>1
  <2>4. /\ T \in Seq(Octets) /\ Len(T) = IF n + 1 <= Len(R) THEN Len(R) - (n + 1) + 1 ELSE 0
        /\ \A i \in 1..Len(R) - (n + 1) + 1 : T[i] = R[n + 1 + i - 1]
      BY <2>2, <2>3, SubSeqProperties
  <2>5. Len(T) = Len(last) /\ Len(R) - (n + 1) + 1 = Len(last)
    <3>1. Len(R) \in Nat
        BY <1>1
    <3> QED BY ONLY <2>1, <2>4, <3>1
  <2>6. ASSUME NEW i \in 1..Len(last) PROVE T[i] = last[i]
    <3>1. T[i] = R[n + 1 + i - 1]
        BY <2>4, <2>5
    <3>2. n + 1 + i - 1 = n + i /\ n + i >= 1 /\ Len(c) \in 1..Len(c) /\ n = st[Len(c)]
      <4>1. Len(c) \in Nat /\ Len(c) > 1 /\ n \in Nat /\ i \in 1..Len(last) /\ Len(last) \in Nat
          BY <1>1, <2>1
      <4>2. n + 1 + i - 1 = n + i /\ n + i >= 1 /\ Len(c) \in 1..Len(c)
          BY ONLY <4>1
      <4> QED BY <4>2 DEF n
    <3>3. R[n + i] = last[i]
      <4>1. i \in 1..Len(c[Len(c)]) /\ st[Len(c)] + i >= 1
          BY <3>2 DEF last
      <4>2. R[st[Len(c)] + i] = c[Len(c)][i]
          BY <3>2, <4>1 DEF Placed
      <4> QED BY <3>2, <4>2 DEF last
    <3> QED BY <3>1, <3>2, <3>3
  <2> HIDE DEF T
  <2>7. T = last
      BY <2>1, <2>4, <2>5, <2>6, SeqEqual
  <2> QED BY <2>7 DEF Stream!Last, T, last
<1> HIDE DEF d, Q
<1>6. Placed(d, 1, o, Q, ss)
  <2>1. ss \in [1..Len(d) + 1 -> Int] /\ ss[1] + o = 0 /\ Len(Q) = ss[Len(d) + 1] /\ 1 \in 1..Len(d)
        /\ d[1] = c[1]
    <3>1. Len(d) + 1 = Len(c) /\ 1 \in 1..Len(c) /\ Len(c) \in 1..Len(c) /\ 1 \in 1..Len(c) - 1
        BY <1>1, <1>2
    <3>2. \A y \in 1..Len(c) : y \in 1..Len(c) + 1
        BY <1>1
    <3> QED BY <1>1, <1>2, <1>4, <3>1, <3>2
  <2>2. \A y \in 1..Len(d) : /\ y \in 1..Len(c) - 1 /\ y \in 1..Len(c) /\ y + 1 \in 1..Len(c)
                             /\ y + 1 \in 1..Len(c) + 1 /\ y \in 1..Len(c) + 1
    <3>1. Len(c) \in Nat /\ Len(d) = Len(c) - 1
        BY <1>1, <1>2
    <3> QED BY ONLY <3>1
  <2>3. \A y \in 1..Len(d) : ss[y] = st[y] /\ ss[y + 1] = st[y + 1] /\ d[y] = c[y]
      BY <1>2, <2>2
  <2> HIDE DEF ss
  <2>4. \A y \in 1..Len(d) : ss[y + 1] = ss[y] + Len(d[y])
      BY <1>1, <2>2, <2>3
  <2>5. ASSUME NEW y \in 1..Len(d), NEW j \in 1..Len(d[y]), ss[y] + j >= 1
        PROVE  Q[ss[y] + j] = d[y][j]
    <3>1. st[y] + j >= 1 /\ j \in 1..Len(c[y]) /\ y \in 1..Len(c)
        BY <2>2, <2>3, <2>5
    <3>2. R[st[y] + j] = c[y][j]
        BY <3>1 DEF Placed
    <3>3. st[y + 1] <= n
      <4>1. y + 1 \in 1..Len(c) + 1 /\ Len(c) \in y + 1..Len(c) + 1
          BY <1>1, <2>2
      <4> QED BY <4>1, LaterBegin
    <3> HIDE DEF n
    <3>4. st[y + 1] = st[y] + Len(c[y]) /\ st[y] \in Int /\ Len(c[y]) \in Nat /\ n \in Int
      <4>1. y \in 1..Len(c) /\ y \in 1..Len(c) + 1
          BY <2>2
      <4>2. st[y + 1] = st[y] + Len(c[y]) /\ Len(c[y]) \in Nat
          BY <1>1, <4>1
      <4>3. st[y] \in Int
          BY <1>1, <4>1
      <4> QED BY <1>3, <4>2, <4>3
    <3>5. st[y] + j \in 1..n
      <4> DEFINE k == st[y]
                 l == Len(c[y])
      <4>1. k + j >= 1 /\ j \in 1..l /\ k + l <= n /\ k \in Int /\ l \in Nat /\ n \in Int
          BY ONLY <3>1, <3>3, <3>4
      <4> HIDE DEF k, l
      <4>2. k + j \in 1..n
          BY ONLY <4>1
      <4> QED BY <4>2 DEF k
    <3> QED BY <1>4, <2>3, <3>2, <3>5
  <2>6. o \in 0..Len(d[1])
      BY <1>1, <2>1
  <2> QED BY <1>2, <1>4, <2>1, <2>4, <2>5, <2>6 DEF Placed
<1> QED BY <1>3, <1>5, <1>6 DEF Stream!Front, d, Q

LEMMA OneBlock ==
    ASSUME NEW s \in Seq(Octets)
    PROVE  \E st : Placed(<<s>>, 1, 0, s, st)
<1> DEFINE c == <<s>>
           st == [y \in 1..2 |-> IF y = 1 THEN 0 ELSE Len(s)]
<1>1. c \in Seq(Seq(Octets)) /\ Len(c) = 1 /\ c[1] = s /\ Len(s) \in Nat
    OBVIOUS
<1>2. st[1] = 0 /\ st[2] = Len(s) /\ st \in [1..2 -> Int] /\ 1 + 1 = 2
    BY <1>1
<1>3. \A y \in 1..1 : y = 1
    OBVIOUS
<1> HIDE DEF c, st
<1>4. \A x \in 1..Len(c) : st[x + 1] = st[x] + Len(c[x])
    BY <1>1, <1>2, <1>3
<1>5. ASSUME NEW x \in 1..Len(c), NEW j \in 1..Len(c[x]) PROVE s[st[x] + j] = c[x][j]
  <2>1. x = 1 /\ st[x] + j = j
      BY <1>1, <1>2, <1>3
  <2> QED BY <1>1, <2>1
<1>6. Placed(c, 1, 0, s, st)
    BY <1>1, <1>2, <1>4, <1>5 DEF Placed
<1> QED BY <1>6 DEF c

(* A chain's bytes, from its first block's first byte on.                  *)
LEMMA WholeChain ==
    ASSUME NEW c \in Seq(Seq(Octets)), Len(c) # 0
    PROVE  \E st : Placed(c, 1, 0, Stream!FlattenSeq(c), st)
<1>1. PICK f : Flat(f, c) /\ Stream!FlattenSeq(c) = f[Len(c)]
    BY FlatteningIs
<1>2. \A n \in 1..Len(c) : f[n] = IF n = 1 THEN c[n] ELSE f[n - 1] \o c[n]
    BY <1>1 DEF Flat
<1>3. Len(c) \in Nat /\ Len(c) \in Int /\ 1 \in Int /\ 1 \in 1..Len(c) /\ Len(c) \in 1..Len(c)
    OBVIOUS
<1> DEFINE S == {n \in 1..Len(c) : \E st : Placed(SubSeq(c, 1, n), 1, 0, f[n], st)}
<1>4. 1 \in S
  <2>1. SubSeq(c, 1, 1) = <<c[1]>>
    <3>1. SubSeq(c, 1, 1) = SubSeq(c, 1, 1 - 1) \o <<c[1]>>
        BY <1>3, SubSeqRecursiveSecond
    <3>2. SubSeq(c, 1, 1 - 1) = <<>>
        BY SubSeqEmpty
    <3>3. <<c[1]>> \in Seq(Seq(Octets))
        BY <1>3, ElementOfSeq
    <3> QED BY <3>1, <3>2, <3>3, ConcatEmptySeq
  <2>2. c[1] \in Seq(Octets)
      BY <1>3, ElementOfSeq
  <2>3. \E st : Placed(<<c[1]>>, 1, 0, c[1], st)
      BY <2>2, OneBlock
  <2>4. f[1] = c[1]
      BY <1>2, <1>3
  <2> QED BY <1>3, <2>1, <2>3, <2>4
<1>5. ASSUME NEW n \in 1 + 1..Len(c), n - 1 \in S PROVE n \in S
  <2>1. n \in 1..Len(c) /\ n # 1 /\ n - 1 \in 1..Len(c)
      BY <1>3
  <2>2. PICK st : Placed(SubSeq(c, 1, n - 1), 1, 0, f[n - 1], st)
      BY <1>5
  <2>3. c[n] \in Seq(Octets)
      BY <2>1, ElementOfSeq
  <2>4. PICK sd : Placed(<<c[n]>>, 1, 0, c[n], sd)
      BY <2>3, OneBlock
  <2>5. \E ss : Placed(SubSeq(c, 1, n - 1) \o <<c[n]>>, 1, 0, f[n - 1] \o c[n], ss)
      BY <2>2, <2>4, Extended
  <2>6. SubSeq(c, 1, n) = SubSeq(c, 1, n - 1) \o <<c[n]>>
    <3>1. 1 \in 1..Len(c) /\ n \in 1..Len(c)
        BY <1>3, <2>1
    <3> QED BY <3>1, SubSeqRecursiveSecond
  <2>7. f[n] = f[n - 1] \o c[n]
      BY <1>2, <2>1
  <2> QED BY <2>1, <2>5, <2>6, <2>7
<1>6. \A n \in 1 + 1..Len(c) : n - 1 \in S => n \in S
    BY <1>5
<1> HIDE DEF S
<1>7. \A n \in 1..Len(c) : n \in S
    BY <1>3, <1>4, <1>6, CountingUp
<1>8. Len(c) \in S
    BY <1>3, <1>7
<1>9. \E st : Placed(SubSeq(c, 1, Len(c)), 1, 0, f[Len(c)], st)
    BY <1>8 DEF S
<1>10. SubSeq(c, 1, Len(c)) = c
    BY SubSeqFull
<1> QED BY <1>1, <1>9, <1>10

LEMMA Joined ==
    ASSUME NEW c \in Seq(Seq(Octets)), NEW d \in Seq(Seq(Octets)), Len(d) # 0
    PROVE  /\ Stream!FlattenSeq(d) \in Seq(Octets) /\ Stream!FlattenSeq(c) \in Seq(Octets)
           /\ Stream!FlattenSeq(c \o d) = Stream!FlattenSeq(c) \o Stream!FlattenSeq(d)
<1> DEFINE F(s) == Stream!FlattenSeq(s)
<1>1. PICK sd : Placed(d, 1, 0, F(d), sd)
    BY WholeChain
<1>2. F(d) \in Seq(Octets)
    BY <1>1, PlacedTypes
<1>3. CASE Len(c) = 0
  <2>1. c = <<>> /\ c \o d = d
      BY <1>3, ConcatEmptySeq
  <2>2. F(c) = <<>>
      BY <1>3, <2>1 DEF Stream!FlattenSeq
  <2> HIDE DEF F
  <2>3. F(c) \o F(d) = F(d) /\ F(c) \in Seq(Octets)
      BY <1>2, <2>2, ConcatEmptySeq
  <2>4. F(c \o d) = F(c) \o F(d)
      BY <2>1, <2>3
  <2> QED BY <1>2, <2>3, <2>4 DEF F
<1>4. CASE Len(c) # 0
  <2>1. PICK sc : Placed(c, 1, 0, F(c), sc)
      BY <1>4, WholeChain
  <2>2. F(c) \in Seq(Octets)
      BY <2>1, PlacedTypes
  <2> HIDE DEF F
  <2>3. PICK ss : Placed(c \o d, 1, 0, F(c) \o F(d), ss)
      BY <1>1, <2>1, Extended
  <2>4. c \o d \in Seq(Seq(Octets)) /\ Len(c \o d) # 0
    <3>1. c \o d \in Seq(Seq(Octets)) /\ Len(c \o d) = Len(c) + Len(d)
        BY ConcatProperties
    <3> QED BY <1>4, <3>1
  <2>5. PICK se : Placed(c \o d, 1, 0, F(c \o d), se)
      BY <2>4, WholeChain DEF F
  <2>6. F(c \o d) = F(c) \o F(d)
      BY <2>3, <2>5, SameBytes
  <2> QED BY <1>2, <2>2, <2>6 DEF F
<1> QED BY <1>3, <1>4

(* What is left to read, of any reading position.                          *)
LeftAt(c, b, o) ==
    SubSeq(Stream!FlattenSeq(Rest(c, b)), o + 1, Len(Stream!FlattenSeq(Rest(c, b))))

LEMMA LeftPlaced ==
    ASSUME NEW c \in Seq(Seq(Octets)), NEW b \in 1..Len(c), NEW o \in 0..Len(c[b])
    PROVE  \E st : Placed(c, b, o, LeftAt(c, b, o), st)
<1> DEFINE F == Stream!FlattenSeq(Rest(c, b))
<1>1. Rest(c, b) \in Seq(Seq(Octets)) /\ Len(Rest(c, b)) # 0
  <2>1. Rest(c, b) \in Seq(Seq(Octets)) /\ Len(Rest(c, b)) = Len(c) - b + 1
      BY RestIs
  <2> QED BY <2>1
<1>2. PICK sf : Placed(Rest(c, b), 1, 0, F, sf)
    BY <1>1, WholeChain
<1> HIDE DEF F
<1>3. PICK st : Placed(c, b, 0, F, st)
    BY <1>2, BackIn
<1>4. st[b] + 0 = 0 /\ b \in b..Len(c) /\ st[b] \in Int
  <2>1. b \in b..Len(c) /\ b \in b..Len(c) + 1
      OBVIOUS
  <2> QED BY <1>3, <2>1, PlacedTypes
<1>5. c[b] \in Seq(Octets) /\ o \in Nat
    BY ElementOfSeq
<1>6. st[b] + o = o /\ st[b] + o >= 0
    BY ONLY <1>4, <1>5
<1>7. \E ss : Placed(c, b, o, SubSeq(F, st[b] + o + 1, Len(F)), ss)
    BY <1>3, <1>4, <1>6, ReadOn
<1> QED BY <1>6, <1>7 DEF LeftAt, F

LEMMA LeftIs ==
    ASSUME NEW c, NEW b, NEW o, NEW R, NEW st, Placed(c, b, o, R, st)
    PROVE  LeftAt(c, b, o) = R
<1>1. c \in Seq(Seq(Octets)) /\ b \in 1..Len(c) /\ o \in 0..Len(c[b])
    BY DEF Placed
<1>2. PICK ss : Placed(c, b, o, LeftAt(c, b, o), ss)
    BY <1>1, LeftPlaced
<1> QED BY <1>2, SameBytes

(* A function that goes on from next[s] to tell what it is at s, unless s  *)
(* is done: there is one, whether or not it comes to an end.               *)
Path(s, t, Done, S, next, p) ==
    /\ p \in Seq(S) /\ Len(p) # 0 /\ p[1] = s /\ p[Len(p)] = t /\ t \in Done
    /\ \A i \in 1..Len(p) - 1 : p[i] \notin Done /\ p[i + 1] = next[p[i]]

GoesOn(f, S, Done, next, res) ==
    f = [s \in S |-> IF s \in Done THEN res[s] ELSE f[next[s]]]

LEMMA GoingOn ==
    ASSUME NEW S, NEW Done \in SUBSET S, NEW next \in [S -> S], NEW res
    PROVE  \E f : GoesOn(f, S, Done, next, res)
<1> DEFINE Ends(s) == {t \in S : \E p : Path(s, t, Done, S, next, p)}
           f == [s \in S |-> IF Ends(s) # {} THEN res[CHOOSE t \in Ends(s) : TRUE] ELSE res]
<1>1. ASSUME NEW s \in Done, NEW t \in S, NEW p, Path(s, t, Done, S, next, p)
      PROVE  t = s
  <2>1. p \in Seq(S) /\ Len(p) # 0 /\ p[1] = s /\ p[Len(p)] = t /\ Len(p) \in Nat
        /\ \A i \in 1..Len(p) - 1 : p[i] \notin Done
      BY <1>1 DEF Path
  <2>2. Len(p) = 1
    <3>1. SUFFICES ASSUME Len(p) # 1 PROVE FALSE
        OBVIOUS
    <3>2. 1 \in 1..Len(p) - 1
      <4> DEFINE n == Len(p)
      <4>1. n \in Nat /\ n # 0 /\ n # 1
          BY <2>1, <3>1
      <4> HIDE DEF n
      <4>2. 1 \in 1..n - 1
          BY ONLY <4>1
      <4> QED BY <4>2 DEF n
    <3> QED BY <2>1, <3>2
  <2> QED BY <2>1, <2>2
<1>2. ASSUME NEW s \in Done PROVE Ends(s) = {s}
  <2>1. s \in S
      OBVIOUS
  <2>2. Path(s, s, Done, S, next, <<s>>)
    <3>1. <<s>> \in Seq(S) /\ Len(<<s>>) = 1 /\ <<s>>[1] = s
        BY <2>1
    <3>2. 1..Len(<<s>>) - 1 = {}
        BY <3>1
    <3> QED BY <3>1, <3>2 DEF Path
  <2>3. s \in Ends(s)
      BY <2>1, <2>2
  <2>4. \A t \in Ends(s) : t = s
      BY <1>1
  <2> HIDE DEF Ends
  <2> QED BY <2>3, <2>4
<1>3. ASSUME NEW s \in S, s \notin Done, NEW t \in Ends(next[s]) PROVE t \in Ends(s)
  <2>1. PICK p : Path(next[s], t, Done, S, next, p)
      OBVIOUS
  <2> DEFINE q == <<s>> \o p
  <2>2. /\ p \in Seq(S) /\ Len(p) # 0 /\ p[1] = next[s] /\ p[Len(p)] = t /\ t \in Done
        /\ \A i \in 1..Len(p) - 1 : p[i] \notin Done /\ p[i + 1] = next[p[i]]
        /\ Len(p) \in Nat
      BY <2>1 DEF Path
  <2>3. /\ q \in Seq(S) /\ Len(q) = 1 + Len(p)
        /\ \A i \in 1..1 + Len(p) : q[i] = IF i <= 1 THEN <<s>>[i] ELSE p[i - 1]
    <3>1. <<s>> \in Seq(S) /\ Len(<<s>>) = 1 /\ p \in Seq(S)
        BY <2>2
    <3> QED BY <3>1, ConcatProperties
  <2> HIDE DEF q
  <2>4. q[1] = s
    <3>1. 1 \in 1..1 + Len(p)
        BY <2>2
    <3> QED BY <2>3, <3>1
  <2>5. ASSUME NEW i \in 1..Len(p) PROVE q[i + 1] = p[i]
    <3>1. i + 1 \in 1..1 + Len(p) /\ ~(i + 1 <= 1) /\ i + 1 - 1 = i
        BY <2>2
    <3> QED BY <2>3, <3>1
  <2>6. q[Len(q)] = t /\ Len(q) # 0
    <3>1. Len(p) \in 1..Len(p) /\ Len(q) = Len(p) + 1
        BY <2>2, <2>3
    <3> QED BY <2>2, <2>5, <3>1
  <2>7. ASSUME NEW i \in 1..Len(q) - 1 PROVE q[i] \notin Done /\ q[i + 1] = next[q[i]]
    <3>1. CASE i = 1
      <4>1. 1 \in 1..Len(p)
          BY <2>2
      <4> QED BY <1>3, <2>2, <2>4, <2>5, <3>1, <4>1
    <3>2. CASE i # 1
      <4>1. i - 1 \in 1..Len(p) - 1 /\ i - 1 \in 1..Len(p) /\ i \in 1..Len(p) /\ i - 1 + 1 = i
          BY <2>2, <2>3, <3>2
      <4>2. q[i] = p[i - 1] /\ q[i + 1] = p[i]
          BY <2>5, <4>1
      <4> QED BY <2>2, <4>1, <4>2
    <3> QED BY <3>1, <3>2
  <2>8. Path(s, t, Done, S, next, q)
      BY <2>2, <2>3, <2>4, <2>6, <2>7 DEF Path
  <2> QED BY <2>8
<1>4. ASSUME NEW s \in S, s \notin Done, NEW t \in Ends(s) PROVE t \in Ends(next[s])
  <2>1. PICK p : Path(s, t, Done, S, next, p)
      OBVIOUS
  <2> DEFINE q == Tail(p)
  <2>2. /\ p \in Seq(S) /\ Len(p) # 0 /\ p[1] = s /\ p[Len(p)] = t /\ t \in Done
        /\ \A i \in 1..Len(p) - 1 : p[i] \notin Done /\ p[i + 1] = next[p[i]]
        /\ Len(p) \in Nat
      BY <2>1 DEF Path
  <2>3. Len(p) # 1
      BY <1>4, <2>2
  <2>4. /\ q \in Seq(S) /\ Len(q) = Len(p) - 1
        /\ \A i \in 1..Len(q) : q[i] = p[i + 1]
    <3>1. p # <<>>
        BY <2>2
    <3> QED BY <2>2, <3>1, HeadTailProperties
  <2> HIDE DEF q
  <2>5. q[1] = next[s] /\ q[Len(q)] = t /\ Len(q) # 0
    <3>1. 1 \in 1..Len(q) /\ 1 \in 1..Len(p) - 1 /\ Len(q) \in 1..Len(q) /\ Len(q) + 1 = Len(p)
        BY <2>2, <2>3, <2>4
    <3> QED BY <2>2, <2>4, <3>1
  <2>6. ASSUME NEW i \in 1..Len(q) - 1 PROVE q[i] \notin Done /\ q[i + 1] = next[q[i]]
    <3>1. i \in 1..Len(q) /\ i + 1 \in 1..Len(q) /\ i + 1 \in 1..Len(p) - 1
        BY <2>2, <2>4
    <3>2. q[i] = p[i + 1] /\ q[i + 1] = p[i + 1 + 1]
        BY <2>4, <3>1
    <3> QED BY <2>2, <3>1, <3>2
  <2>7. Path(next[s], t, Done, S, next, q)
      BY <2>2, <2>4, <2>5, <2>6 DEF Path
  <2> QED BY <2>7
<1>5. ASSUME NEW s \in S, s \notin Done PROVE Ends(s) = Ends(next[s])
    BY <1>3, <1>4, <1>5
<1> HIDE DEF Ends
<1>6. ASSUME NEW s \in S PROVE f[s] = IF s \in Done THEN res[s] ELSE f[next[s]]
  <2>1. next[s] \in S
      OBVIOUS
  <2>2. CASE s \in Done
    <3>1. Ends(s) = {s}
        BY <1>2, <2>2
    <3>2. (CHOOSE t \in Ends(s) : TRUE) = s /\ Ends(s) # {}
        BY <3>1
    <3> QED BY <2>2, <3>2
  <2>3. CASE s \notin Done
    <3>1. Ends(s) = Ends(next[s])
        BY <1>5, <2>3
    <3> QED BY <2>1, <2>3, <3>1
  <2> QED BY <2>2, <2>3
<1>7. f = [s \in S |-> f[s]]
    OBVIOUS
<1> HIDE DEF f
<1>8. f = [s \in S |-> IF s \in Done THEN res[s] ELSE f[next[s]]]
    BY <1>6, <1>7
<1> QED BY <1>8 DEF GoesOn

(* The loop that takes pieces of blocks, and that it is defined.           *)
Piece(s) == Stream!Least({s.left, Stream!Size(s.block) - s.offset})

Copied(s) ==
    [s EXCEPT !.left = @ - Piece(s),
              !.bytes = @ \o SubSeq(p_chain[s.block], s.offset + 1, s.offset + Piece(s))]

WalkStep(f, s) ==
    IF s.block \notin 1..Len(p_chain) THEN [s EXCEPT !.block = 0]
    ELSE IF Copied(s).left = 0 THEN [Copied(s) EXCEPT !.offset = @ + Piece(s)]
    ELSE f[Stream!NextBlock(Copied(s))]

IsWalk(f) == f = [s \in Stream!Walks |-> WalkStep(f, s)]

LEMMA PieceIs ==
    ASSUME p_chain \in Seq(Seq(Octets)), NEW s \in Stream!Walks, s.block \in 1..Len(p_chain)
    PROVE  /\ Len(p_chain[s.block]) \in Nat
           /\ Piece(s) = IF s.left <= Len(p_chain[s.block]) - s.offset THEN s.left
                         ELSE Len(p_chain[s.block]) - s.offset
           /\ Copied(s) \in Stream!Walks
<1> DEFINE x == s.left
           y == Len(p_chain[s.block]) - s.offset
<1>1. p_chain[s.block] \in Seq(Octets)
    BY ElementOfSeq
<1>2. /\ s.block \in Nat /\ s.offset \in Nat /\ s.left \in Nat /\ s.bytes \in Seq(Octets)
      /\ s = [block |-> s.block, offset |-> s.offset, left |-> s.left, bytes |-> s.bytes]
    BY DEF Stream!Walks
<1>3. x \in Int /\ y \in Int /\ Len(p_chain[s.block]) \in Nat
    BY <1>1, <1>2
<1>4. Piece(s) = IF x <= y THEN x ELSE y
  <2>1. Piece(s) = CHOOSE m \in {x, y} : \A n \in {x, y} : m <= n
      BY DEF Piece, Stream!Least, Stream!Size
  <2> HIDE DEF x, y
  <2>2. \E m \in {x, y} : \A n \in {x, y} : m <= n
      BY <1>3
  <2> QED BY <1>3, <2>1, <2>2
<1>5. Piece(s) \in Int /\ s.left - Piece(s) \in Nat
  <2> HIDE DEF x, y
  <2>1. x - Piece(s) \in Nat /\ Piece(s) \in Int
    <3>1. x \in Nat
        BY <1>2 DEF x
    <3> QED BY <1>3, <1>4, <3>1
  <2> QED BY <2>1 DEF x
<1>6. SubSeq(p_chain[s.block], s.offset + 1, s.offset + Piece(s)) \in Seq(Octets)
  <2> DEFINE k == s.offset + Piece(s)
  <2>1. k \in Int /\ k <= Len(p_chain[s.block]) /\ s.offset + 1 \in Int
    <3>1. Piece(s) <= y /\ s.offset \in Nat
      <4> HIDE DEF x, y
      <4> QED BY <1>2, <1>3, <1>4
    <3> DEFINE l == Len(p_chain[s.block])
               i == s.offset
               m == Piece(s)
    <3>2. l \in Nat /\ i \in Nat /\ m \in Int /\ m <= l - i
        BY <1>3, <1>5, <3>1
    <3> HIDE DEF k, l, i, m
    <3>3. i + m \in Int /\ i + m <= l /\ i + 1 \in Int
        BY ONLY <3>2
    <3> QED BY <3>3 DEF k, l, i, m
  <2> HIDE DEF k
  <2>2. \A i \in s.offset + 1..k : i \in 1..Len(p_chain[s.block])
    <3> DEFINE l == Len(p_chain[s.block])
               j == s.offset
    <3>1. j \in Nat /\ l \in Nat /\ k \in Int /\ k <= l
        BY <1>2, <1>3, <2>1
    <3> HIDE DEF l, j
    <3>2. \A i \in j + 1..k : i \in 1..l
        BY ONLY <3>1
    <3> QED BY <3>2 DEF l, j
  <2>3. \A i \in s.offset + 1..k : p_chain[s.block][i] \in Octets
      BY <1>1, <2>2, ElementOfSeq
  <2> QED BY <2>1, <2>3, SubSeqProperties DEF k
<1>7. s.bytes \o SubSeq(p_chain[s.block], s.offset + 1, s.offset + Piece(s)) \in Seq(Octets)
    BY <1>2, <1>6, ConcatProperties
<1>8. Copied(s) \in Stream!Walks
    BY <1>2, <1>5, <1>7 DEF Copied, Stream!Walks
<1> QED BY <1>3, <1>4, <1>8

LEMMA WalkIs ==
    ASSUME p_chain \in Seq(Seq(Octets))
    PROVE  \A s \in Stream!Walks : Stream!Walk[s] = WalkStep(Stream!Walk, s)
<1> DEFINE W == Stream!Walks
           Done == {s \in W : s.block \notin 1..Len(p_chain) \/ Copied(s).left = 0}
           next == [s \in W |-> IF s \in Done THEN s ELSE Stream!NextBlock(Copied(s))]
           res == [s \in W |-> IF s.block \notin 1..Len(p_chain) THEN [s EXCEPT !.block = 0]
                               ELSE [Copied(s) EXCEPT !.offset = @ + Piece(s)]]
<1>1. next \in [W -> W]
  <2>1. ASSUME NEW s \in W, s \notin Done PROVE Stream!NextBlock(Copied(s)) \in W
    <3>1. Copied(s) \in W
        BY <2>1, PieceIs
    <3>2. \A t \in W : Stream!NextBlock(t) \in W
      <4>1. ASSUME NEW t \in Stream!Walks PROVE [t EXCEPT !.block = t.block + 1, !.offset = 0] \in Stream!Walks
        <5>1. t.block + 1 \in Nat /\ 0 \in Nat
            BY DEF Stream!Walks
        <5> QED BY <5>1 DEF Stream!Walks
      <4> QED BY <4>1, Zenon DEF Stream!NextBlock
    <3> HIDE DEF W
    <3> QED BY <3>1, <3>2
  <2> HIDE DEF Done, W
  <2> QED BY <2>1
<1>2. Done \in SUBSET W
    OBVIOUS
<1>3. ASSUME NEW f, NEW s \in W
      PROVE  WalkStep(f, s) = IF s \in Done THEN res[s] ELSE f[next[s]]
    BY DEF WalkStep
<1> HIDE DEF Done, next, res, W
<1>4. PICK f : GoesOn(f, W, Done, next, res)
    BY <1>1, <1>2, GoingOn
<1>5. IsWalk(f)
  <2>1. f = [s \in W |-> WalkStep(f, s)]
      BY <1>3, <1>4, Zenon DEF GoesOn
  <2> QED BY <2>1 DEF IsWalk, W
<1> DEFINE h == CHOOSE g : IsWalk(g)
<1>6. IsWalk(h)
    BY <1>5
<1>7. Stream!Walk = h
    BY DEF Stream!Walk, IsWalk, WalkStep, Copied, Piece
<1> HIDE DEF h
<1> QED BY <1>6, <1>7 DEF IsWalk

At(x, off, l, bytes) == [block |-> x, offset |-> off, left |-> l, bytes |-> bytes]

IsAt(s, x, off, l, bytes) ==
    /\ s.block = x /\ s.offset = off /\ s.left = l /\ s.bytes = bytes
    /\ \A m : [s EXCEPT !.offset = m] = At(x, m, l, bytes)
    /\ \A m, b : [s EXCEPT !.left = m, !.bytes = b] = At(x, off, m, b)
    /\ Stream!NextBlock(s) = At(x + 1, 0, l, bytes)

LEMMA AtExcept ==
    ASSUME NEW x, NEW off, NEW l, NEW bytes, NEW s, s = At(x, off, l, bytes)
    PROVE  IsAt(s, x, off, l, bytes)
<1>1. s.block = x /\ s.offset = off /\ s.left = l /\ s.bytes = bytes
    BY DEF At
<1>2. ASSUME NEW m PROVE [s EXCEPT !.offset = m] = At(x, m, l, bytes)
    BY DEF At
<1>3. ASSUME NEW m PROVE [s EXCEPT !.block = m, !.offset = 0] = At(m, 0, l, bytes)
  <2>1. [s EXCEPT !.block = m] = At(m, off, l, bytes)
      BY DEF At
  <2>2. [At(m, off, l, bytes) EXCEPT !.offset = 0] = At(m, 0, l, bytes)
      BY DEF At
  <2>3. [s EXCEPT !.block = m, !.offset = 0] = [[s EXCEPT !.block = m] EXCEPT !.offset = 0]
      OBVIOUS
  <2> QED BY <2>1, <2>2, <2>3
<1>4. ASSUME NEW m, NEW b PROVE [s EXCEPT !.left = m, !.bytes = b] = At(x, off, m, b)
  <2>1. [s EXCEPT !.left = m] = At(x, off, m, bytes)
      BY DEF At
  <2>2. [At(x, off, m, bytes) EXCEPT !.bytes = b] = At(x, off, m, b)
      BY DEF At
  <2>3. [s EXCEPT !.left = m, !.bytes = b] = [[s EXCEPT !.left = m] EXCEPT !.bytes = b]
      OBVIOUS
  <2> QED BY <2>1, <2>2, <2>3
<1>6. Stream!NextBlock(s) = At(x + 1, 0, l, bytes)
    BY <1>1, <1>3, Zenon DEF Stream!NextBlock
<1> QED BY <1>1, <1>2, <1>4, <1>6 DEF IsAt

LEMMA WalkOnce ==
    ASSUME p_chain \in Seq(Seq(Octets)), NEW x \in 1..Len(p_chain),
           NEW off \in 0..Len(p_chain[x]), NEW l \in Nat, NEW bytes \in Seq(Octets)
    PROVE  LET size == Len(p_chain[x])
               new == bytes \o SubSeq(p_chain[x], off + 1, IF l <= size - off THEN off + l ELSE size)
           IN  Stream!Walk[At(x, off, l, bytes)] =
                 IF l <= size - off THEN At(x, off + l, 0, new)
                 ELSE Stream!Walk[At(x + 1, 0, l - (size - off), new)]
<1> DEFINE size == Len(p_chain[x])
           new == bytes \o SubSeq(p_chain[x], off + 1, IF l <= size - off THEN off + l ELSE size)
           s == At(x, off, l, bytes)
<1>1. s \in Stream!Walks /\ s.block = x /\ s.offset = off /\ s.left = l /\ s.bytes = bytes
    BY DEF At, Stream!Walks
<1>2. size \in Nat /\ off \in Nat /\ off <= size
  <2>1. p_chain[x] \in Seq(Octets)
      BY ElementOfSeq
  <2> QED BY <2>1
<1>3. Piece(s) = IF l <= size - off THEN l ELSE size - off
  <2>1. s.block \in 1..Len(p_chain)
      BY <1>1
  <2> HIDE DEF s
  <2>2. Piece(s) = IF s.left <= Len(p_chain[s.block]) - s.offset THEN s.left
                   ELSE Len(p_chain[s.block]) - s.offset
      BY <1>1, <2>1, PieceIs
  <2> QED BY <1>1, <2>2
<1>4. Stream!Walk[s] = IF Copied(s).left = 0 THEN [Copied(s) EXCEPT !.offset = @ + Piece(s)]
                       ELSE Stream!Walk[Stream!NextBlock(Copied(s))]
  <2> HIDE DEF s
  <2> QED BY <1>1, WalkIs DEF WalkStep
<1>5. Copied(s) = At(x, off, l - Piece(s), bytes \o SubSeq(p_chain[x], off + 1, off + Piece(s)))
  <2>1. s = At(x, off, l, bytes)
      OBVIOUS
  <2> HIDE DEF s
  <2>2. IsAt(s, x, off, l, bytes)
      BY <2>1, AtExcept
  <2>3. \A m, b : [s EXCEPT !.left = m, !.bytes = b] = At(x, off, m, b)
      BY <2>2, Zenon DEF IsAt
  <2>4. Copied(s) = At(x, off, s.left - Piece(s),
                       s.bytes \o SubSeq(p_chain[s.block], s.offset + 1, s.offset + Piece(s)))
      BY <2>3, Zenon DEF Copied
  <2> QED BY <1>1, <2>4
<1> HIDE DEF s, size, new
<1>6. CASE l <= size - off
  <2>1. Piece(s) = l /\ l - Piece(s) = 0
      BY <1>3, <1>6
  <2>2. bytes \o SubSeq(p_chain[x], off + 1, off + Piece(s)) = new
      BY <1>6, <2>1 DEF new, size
  <2>3. Copied(s) = At(x, off, 0, new)
      BY <1>5, <2>1, <2>2
  <2>4. /\ Copied(s).left = 0 /\ Copied(s).offset = off
        /\ \A m : [Copied(s) EXCEPT !.offset = m] = At(x, m, 0, new)
    <3>1. IsAt(Copied(s), x, off, 0, new)
        BY <2>3, AtExcept
    <3> QED BY <3>1, Zenon DEF IsAt
  <2>5. [Copied(s) EXCEPT !.offset = @ + Piece(s)] = At(x, off + l, 0, new)
      BY <2>1, <2>4, Zenon
  <2> QED BY <1>4, <1>6, <2>4, <2>5 DEF s, size, new
<1>7. CASE ~(l <= size - off)
  <2>1. Piece(s) = size - off /\ l - Piece(s) # 0 /\ off + Piece(s) = size
      BY <1>2, <1>3, <1>7
  <2>2. bytes \o SubSeq(p_chain[x], off + 1, off + Piece(s)) = new
      BY <1>7, <2>1 DEF new, size
  <2>3. Copied(s) = At(x, off, l - (size - off), new)
      BY <1>5, <2>1, <2>2
  <2>4. Copied(s).left # 0 /\ Stream!NextBlock(Copied(s)) = At(x + 1, 0, l - (size - off), new)
    <3>1. l - (size - off) # 0
        BY <2>1
    <3>2. IsAt(Copied(s), x, off, l - (size - off), new)
        BY <2>3, AtExcept
    <3> QED BY <3>1, <3>2, Zenon DEF IsAt
  <2> QED BY <1>4, <1>7, <2>4 DEF s, size, new
<1> QED BY <1>6, <1>7

LEMMA WalkOver ==
    ASSUME p_chain \in Seq(Seq(Octets)), NEW l \in Nat, NEW bytes \in Seq(Octets)
    PROVE  Stream!Walk[At(Len(p_chain) + 1, 0, l, bytes)] = At(0, 0, l, bytes)
<1> DEFINE s == At(Len(p_chain) + 1, 0, l, bytes)
<1>1. Len(p_chain) + 1 \in Nat /\ Len(p_chain) + 1 \notin 1..Len(p_chain)
    OBVIOUS
<1>2. s \in Stream!Walks /\ s.block = Len(p_chain) + 1 /\ [s EXCEPT !.block = 0] = At(0, 0, l, bytes)
    BY <1>1 DEF At, Stream!Walks
<1> HIDE DEF s
<1>3. Stream!Walk[s] = [s EXCEPT !.block = 0]
    BY <1>1, <1>2, WalkIs DEF WalkStep
<1> QED BY <1>2, <1>3 DEF s

(* A piece of a block goes on where the bytes before it end.               *)
Takes(c, R, st, x, off, k) ==
    /\ st[x] + off + k \in 0..Len(R)
    /\ SubSeq(R, 1, st[x] + off) \o SubSeq(c[x], off + 1, off + k)
         = SubSeq(R, 1, st[x] + off + k)
    /\ SubSeq(R, 1, st[x] + off + k) \in Seq(Octets)

LEMMA Taken ==
    ASSUME NEW c, NEW b, NEW o, NEW R, NEW st, Placed(c, b, o, R, st),
           NEW x \in b..Len(c), NEW off \in Nat, NEW k \in Nat, off + k <= Len(c[x]),
           st[x] + off >= 0
    PROVE  Takes(c, R, st, x, off, k)
<1> DEFINE q == st[x] + off
           T == SubSeq(c[x], off + 1, off + k)
           U == SubSeq(R, q + 1, q + k)
<1>1. /\ c[x] \in Seq(Octets) /\ Len(c[x]) \in Nat /\ st[x] \in Int
      /\ R \in Seq(Octets) /\ Len(R) \in Nat
  <2>1. x \in b..Len(c) + 1
      BY PlacedTypes
  <2> QED BY <2>1, PlacedTypes
<1>2. q \in Nat /\ q + k \in 0..Len(R)
  <2>1. off + k \in 0..Len(c[x]) /\ st[x] + (off + k) >= 0
      BY <1>1
  <2>2. st[x] + (off + k) \in 0..Len(R)
      BY <2>1, ReadOn
  <2> QED BY <1>1, <2>2
<1> HIDE DEF q
<1>3. T \in Seq(Octets) /\ Len(T) = k /\ \A i \in 1..k : T[i] = c[x][off + i]
  <2>1. \A i \in off + 1..off + k : i \in 1..Len(c[x])
      BY <1>1
  <2>2. \A i \in off + 1..off + k : c[x][i] \in Octets
      BY <1>1, <2>1, ElementOfSeq
  <2>3. off + 1 \in Int /\ off + k \in Int
      OBVIOUS
  <2>4. /\ T \in Seq(Octets)
        /\ Len(T) = IF off + 1 <= off + k THEN off + k - (off + 1) + 1 ELSE 0
        /\ \A i \in 1..off + k - (off + 1) + 1 : T[i] = c[x][off + 1 + i - 1]
      BY <2>2, <2>3, SubSeqProperties
  <2> HIDE DEF T
  <2>5. Len(T) = k /\ off + k - (off + 1) + 1 = k
      BY <2>4
  <2>6. \A i \in 1..k : off + 1 + i - 1 = off + i
      OBVIOUS
  <2> QED BY <2>4, <2>5, <2>6
<1>4. U \in Seq(Octets) /\ Len(U) = k /\ \A i \in 1..k : U[i] = R[q + i]
  <2>1. \A i \in q + 1..q + k : i \in 1..Len(R)
      BY <1>1, <1>2
  <2>2. \A i \in q + 1..q + k : R[i] \in Octets
      BY <1>1, <2>1, ElementOfSeq
  <2> DEFINE lo == q + 1  hi == q + k
  <2>3. lo \in Int /\ hi \in Int
      BY <1>2
  <2> HIDE DEF lo, hi
  <2>4. /\ SubSeq(R, lo, hi) \in Seq(Octets)
        /\ Len(SubSeq(R, lo, hi)) = IF lo <= hi THEN hi - lo + 1 ELSE 0
        /\ \A i \in 1..hi - lo + 1 : SubSeq(R, lo, hi)[i] = R[lo + i - 1]
    <3>1. \A i \in lo..hi : R[i] \in Octets
        BY <2>2 DEF lo, hi
    <3> QED BY <2>3, <3>1, SubSeqProperties
  <2>5. Len(U) = k /\ hi - lo + 1 = k /\ U = SubSeq(R, lo, hi)
    <3>1. hi - lo + 1 = k /\ (lo <= hi <=> 1 <= k)
        BY <1>2 DEF lo, hi
    <3> QED BY <2>4, <3>1 DEF lo, hi
  <2> HIDE DEF U
  <2>6. \A i \in 1..k : lo + i - 1 = q + i
      BY <1>2 DEF lo
  <2> QED BY <2>4, <2>5, <2>6
<1> HIDE DEF T, U
<1>5. ASSUME NEW i \in 1..k PROVE T[i] = U[i]
  <2>1. off + i \in 1..Len(c[x]) /\ st[x] + (off + i) >= 1 /\ st[x] + (off + i) = q + i
    <3>1. q = st[x] + off /\ off \in Nat /\ k \in Nat /\ off + k <= Len(c[x]) /\ i \in 1..k
        BY DEF q
    <3> DEFINE s == st[x]
               z == Len(c[x])
    <3>2. s \in Int /\ z \in Int /\ q \in Int /\ q >= 0
        BY <1>1, <1>2
    <3> HIDE DEF s, z
    <3>3. q = s + off /\ off \in Nat /\ k \in Nat /\ off + k <= z /\ i \in 1..k
        BY <3>1 DEF s, z
    <3>4. off + i \in 1..z /\ s + (off + i) >= 1 /\ s + (off + i) = q + i
        BY ONLY <3>2, <3>3
    <3> QED BY <3>4 DEF s, z
  <2>2. R[st[x] + (off + i)] = c[x][off + i]
      BY <2>1 DEF Placed
  <2> QED BY <1>3, <1>4, <2>1, <2>2
<1>6. T = U
    BY <1>3, <1>4, <1>5, SeqEqual
<1>7. SubSeq(R, 1, q) \o U = SubSeq(R, 1, q + k)
  <2>1. 1 \in 1..Len(R) + 1 /\ q \in 1 - 1..Len(R) /\ q + k \in q..Len(R)
      BY <1>1, <1>2
  <2> QED BY <1>1, <2>1, ConcatAdjacentSubSeq DEF U
<1>8. SubSeq(R, 1, q + k) \in Seq(Octets)
  <2>1. \A i \in 1..q + k : i \in 1..Len(R)
      BY <1>1, <1>2
  <2>2. \A i \in 1..q + k : R[i] \in Octets
      BY <1>1, <2>1, ElementOfSeq
  <2>3. 1 \in Int /\ q + k \in Int
      BY <1>2
  <2> QED BY <2>2, <2>3, SubSeqProperties
<1>9. st[x] + off = q /\ st[x] + off + k = q + k
    BY DEF q
<1> QED BY <1>2, <1>6, <1>7, <1>8, <1>9 DEF T, Takes

(* The loop at the beginning of a block, or where reading begins.          *)
Pos(b, st, x) == IF x = b THEN 0 ELSE st[x]

Arrived(b, o, R, st, n, x) ==
    At(x, IF x = b THEN o ELSE 0, n - Pos(b, st, x), SubSeq(R, 1, Pos(b, st, x)))

LEMMA WalkGoesOn ==
    ASSUME NEW b, NEW o, NEW R, NEW st, Placed(p_chain, b, o, R, st), NEW n \in Nat,
           NEW x \in b..Len(p_chain), Pos(b, st, x) <= n
    PROVE  Stream!Walk[Arrived(b, o, R, st, n, x)] =
             IF n <= st[x + 1] THEN At(x, n - st[x], 0, SubSeq(R, 1, n))
             ELSE Stream!Walk[Arrived(b, o, R, st, n, x + 1)]
<1> DEFINE off == IF x = b THEN o ELSE 0
           pos == Pos(b, st, x)
           size == Len(p_chain[x])
           bytes == SubSeq(R, 1, pos)
           k == IF n - pos <= size - off THEN n - pos ELSE size - off
           new == bytes \o SubSeq(p_chain[x], off + 1, IF n - pos <= size - off THEN off + (n - pos)
                                                       ELSE size)
<1>1. /\ p_chain \in Seq(Seq(Octets)) /\ x \in 1..Len(p_chain) /\ size \in Nat
      /\ st[x] \in Int /\ st[x + 1] = st[x] + size /\ b \in Nat /\ Len(p_chain) \in Nat
      /\ st[b] + o = 0 /\ st[b] \in Int /\ o \in Nat
  <2>1. /\ p_chain \in Seq(Seq(Octets)) /\ b \in Nat /\ Len(p_chain) \in Nat
        /\ st[b] + o = 0 /\ o \in Nat /\ b \in b..Len(p_chain)
      BY PlacedTypes
  <2>2. st[b] \in Int
      BY <2>1, BlockAt
  <2> QED BY <2>1, <2>2, BlockAt
<1>2. off \in 0..size /\ st[x] + off = pos /\ pos \in Nat
  <2>1. CASE x = b
    <3>1. o \in 0..Len(p_chain[b])
        BY DEF Placed
    <3> QED BY <1>1, <2>1, <3>1 DEF Pos
  <2>2. CASE x # b
    <3>1. b + 1 \in b..Len(p_chain) + 1 /\ x \in b + 1..Len(p_chain) + 1 /\ b \in b..Len(p_chain)
      <4> DEFINE n1 == Len(p_chain)
      <4>1. n1 \in Nat /\ b \in Nat /\ x \in b..n1 /\ x # b
          BY <1>1, <2>2
      <4> HIDE DEF n1
      <4>2. b + 1 \in b..n1 + 1 /\ x \in b + 1..n1 + 1 /\ b \in b..n1
          BY ONLY <4>1
      <4> QED BY <4>2 DEF n1
    <3>2. st[b + 1] <= st[x]
        BY <3>1, LaterBegin
    <3>3. st[b + 1] = st[b] + Len(p_chain[b]) /\ Len(p_chain[b]) \in Nat /\ o <= Len(p_chain[b])
      <4>1. o \in 0..Len(p_chain[b])
          BY DEF Placed
      <4>2. st[b + 1] = st[b] + Len(p_chain[b]) /\ Len(p_chain[b]) \in Nat
          BY <3>1, BlockAt
      <4> QED BY <4>1, <4>2
    <3>4. st[x] >= 0
      <4>1. st[x] \in Int /\ st[b] + o = 0 /\ st[b] \in Int /\ o \in Nat
          BY <1>1
      <4> QED BY ONLY <3>2, <3>3, <4>1
    <3>5. off = 0 /\ pos = st[x]
        BY <2>2 DEF Pos
    <3>6. off \in 0..size
        BY <1>1, <3>5
    <3>7. st[x] + off = pos /\ pos \in Nat
      <4>1. st[x] \in Int
          BY <1>1
      <4> QED BY ONLY <3>4, <3>5, <4>1
    <3> QED BY <3>6, <3>7
  <2> QED BY <2>1, <2>2
<1> HIDE DEF off, pos, size
<1>3. bytes \in Seq(Octets)
  <2>1. off \in Nat /\ 0 \in Nat /\ off + 0 <= Len(p_chain[x]) /\ st[x] + off >= 0
      BY <1>1, <1>2 DEF size
  <2>2. SubSeq(R, 1, st[x] + off + 0) \in Seq(Octets)
      BY <2>1, Taken DEF Takes
  <2>3. st[x] + off + 0 = pos
      BY <1>1, <1>2
  <2> QED BY <2>2, <2>3
<1>4. n - pos \in Nat
  <2>1. pos <= n
      BY DEF pos
  <2> QED BY <1>2, <2>1
<1>5. Stream!Walk[At(x, off, n - pos, bytes)] =
        IF n - pos <= size - off THEN At(x, off + (n - pos), 0, new)
        ELSE Stream!Walk[At(x + 1, 0, (n - pos) - (size - off), new)]
  <2> DEFINE m == n - pos
  <2>1. /\ p_chain \in Seq(Seq(Octets)) /\ x \in 1..Len(p_chain) /\ off \in 0..Len(p_chain[x])
        /\ m \in Nat
      BY <1>1, <1>2, <1>4 DEF size
  <2> HIDE DEF m, bytes
  <2>2. Stream!Walk[At(x, off, m, bytes)] =
          IF m <= Len(p_chain[x]) - off
          THEN At(x, off + m, 0,
                  bytes \o SubSeq(p_chain[x], off + 1,
                                  IF m <= Len(p_chain[x]) - off THEN off + m ELSE Len(p_chain[x])))
          ELSE Stream!Walk[At(x + 1, 0, m - (Len(p_chain[x]) - off),
                  bytes \o SubSeq(p_chain[x], off + 1,
                                  IF m <= Len(p_chain[x]) - off THEN off + m ELSE Len(p_chain[x])))]
      BY <1>3, <2>1, WalkOnce, Zenon
  <2> QED BY <2>2, Zenon DEF m, size
<1>6. k \in Nat /\ off + k <= size /\ (n - pos <= size - off <=> n <= st[x + 1])
      /\ off + k = IF n - pos <= size - off THEN off + (n - pos) ELSE size
  <2>1. size \in Nat /\ off \in 0..size /\ n - pos \in Nat /\ pos \in Nat /\ n \in Nat
        /\ st[x + 1] = st[x] + size /\ st[x] + off = pos /\ st[x] \in Int
      BY <1>1, <1>2, <1>4
  <2> QED BY ONLY <2>1
<1>7. new = SubSeq(R, 1, pos + k)
  <2>1. off \in Nat /\ off + k <= Len(p_chain[x]) /\ st[x] + off >= 0
      BY <1>1, <1>2, <1>6 DEF size
  <2> HIDE DEF k
  <2>2. SubSeq(R, 1, st[x] + off) \o SubSeq(p_chain[x], off + 1, off + k) = SubSeq(R, 1, st[x] + off + k)
    <3>1. k \in Nat
        BY <1>6
    <3>2. Takes(p_chain, R, st, x, off, k)
        BY <2>1, <3>1, Taken
    <3> QED BY <3>2, Zenon DEF Takes
  <2> QED BY <1>2, <1>6, <2>2
<1>8. CASE n <= st[x + 1]
  <2>1. n - pos <= size - off /\ pos + k = n /\ off + (n - pos) = n - st[x]
    <3>1. n - pos <= size - off
        BY <1>6, <1>8
    <3>2. k = n - pos
        BY <3>1
    <3>3. st[x] \in Int /\ off \in 0..size /\ size \in Nat /\ st[x] + off = pos /\ n \in Nat /\ pos \in Nat
        BY <1>1, <1>2
    <3> HIDE DEF k
    <3> QED BY ONLY <3>1, <3>2, <3>3
  <2> QED BY <1>5, <1>7, <1>8, <2>1 DEF Arrived, off, pos
<1>9. CASE ~(n <= st[x + 1])
  <2>1. ~(n - pos <= size - off) /\ k = size - off
      BY <1>6, <1>9
  <2>2. pos + k = st[x + 1] /\ (n - pos) - (size - off) = n - st[x + 1]
    <3>1. /\ st[x] \in Int /\ off \in 0..size /\ size \in Nat /\ st[x] + off = pos /\ n \in Nat
          /\ pos \in Nat /\ st[x + 1] = st[x] + size /\ k = size - off
        BY <1>1, <1>2, <2>1
    <3>2. \A s, z \in Int : s + off = pos /\ z = s + size => pos + k = z /\ (n - pos) - (size - off) = n - z
        BY <3>1
    <3>3. st[x + 1] \in Int
        BY <3>1
    <3> QED BY <3>1, <3>2, <3>3
  <2>3. x + 1 # b /\ Pos(b, st, x + 1) = st[x + 1]
      BY <1>1 DEF Pos
  <2>4. Arrived(b, o, R, st, n, x + 1) = At(x + 1, 0, n - st[x + 1], SubSeq(R, 1, st[x + 1]))
      BY <2>3 DEF Arrived
  <2> HIDE DEF k, new
  <2>5. Stream!Walk[At(x, off, n - pos, bytes)] = Stream!Walk[Arrived(b, o, R, st, n, x + 1)]
      BY <1>5, <1>7, <2>1, <2>2, <2>4
  <2> QED BY <1>9, <2>5 DEF Arrived, off, pos
<1> QED BY <1>8, <1>9

(* The loop over what is left: it ends behind the n-th byte, in a block    *)
(* that holds it, or runs out of blocks.                                   *)
Reaches(b, o, R, st, n) ==
    IF n <= Len(R)
    THEN \E x \in b..Len(p_chain) :
            /\ n - st[x] \in 0..Len(p_chain[x])
            /\ Stream!WalkFrom(b, o, n) = At(x, n - st[x], 0, SubSeq(R, 1, n))
    ELSE Stream!WalkFrom(b, o, n) = At(0, 0, n - Len(R), R)

LEMMA WalkReaches ==
    ASSUME NEW b, NEW o, NEW R, NEW st, Placed(p_chain, b, o, R, st), NEW n \in Nat
    PROVE  Reaches(b, o, R, st, n)
<1> DEFINE V(x) == Stream!Walk[Arrived(b, o, R, st, n, x)]
           S == {x \in b..Len(p_chain) + 1 : x = b \/ st[x] < n => V(b) = V(x)}
           last == Len(p_chain) + 1
<1>1. /\ p_chain \in Seq(Seq(Octets)) /\ R \in Seq(Octets)
      /\ Len(p_chain) \in Nat /\ b \in Nat /\ o \in Nat /\ Len(R) \in Nat
      /\ b \in 1..Len(p_chain) /\ st[b] + o = 0 /\ Len(R) = st[Len(p_chain) + 1]
      /\ \A x \in b..Len(p_chain) : Len(p_chain[x]) \in Nat /\ st[x + 1] = st[x] + Len(p_chain[x])
      /\ \A x \in b..Len(p_chain) + 1 : st[x] \in Int
    BY PlacedTypes
<1>2. Stream!WalkFrom(b, o, n) = V(b)
  <2>1. Pos(b, st, b) = 0 /\ n - 0 = n
      BY DEF Pos
  <2>2. SubSeq(R, 1, 0) = <<>>
      BY SubSeqEmpty
  <2> QED BY <2>1, <2>2 DEF Arrived, At, Stream!WalkFrom
<1>3. ASSUME NEW x \in b..Len(p_chain), x = b \/ st[x] < n
      PROVE  V(x) = IF n <= st[x + 1] THEN At(x, n - st[x], 0, SubSeq(R, 1, n)) ELSE V(x + 1)
  <2>1. x \in b..Len(p_chain) + 1
      BY <1>1
  <2>2. st[x] \in Int
      BY <1>1, <2>1
  <2>3. Pos(b, st, x) <= n
      BY <1>3, <2>2 DEF Pos
  <2> QED BY <2>3, WalkGoesOn
<1> HIDE DEF V
<1>4. b \in S
    BY <1>1
<1>5. ASSUME NEW x \in b + 1..last, x - 1 \in S PROVE x \in S
  <2>1. x - 1 \in b..Len(p_chain) /\ x - 1 + 1 = x /\ x # b /\ x \in b..Len(p_chain) + 1
        /\ x - 1 \in b..Len(p_chain) + 1
      BY <1>1
  <2>2. SUFFICES ASSUME st[x] < n PROVE V(b) = V(x)
      BY <2>1
  <2>3. st[x] \in Int /\ ~(n <= st[x])
      BY <1>1, <2>1, <2>2
  <2>4. st[x] = st[x - 1] + Len(p_chain[x - 1]) /\ Len(p_chain[x - 1]) \in Nat /\ st[x - 1] \in Int
      BY <1>1, <2>1
  <2>5. st[x - 1] < n
      BY ONLY <2>2, <2>3, <2>4, n \in Nat
  <2>6. V(b) = V(x - 1)
      BY <1>5, <2>5
  <2>7. V(x - 1) = V(x)
      BY <1>3, <2>1, <2>3, <2>5
  <2> QED BY <2>6, <2>7
<1>6. \A x \in b + 1..last : x - 1 \in S => x \in S
    BY <1>5
<1>7. b \in Int /\ last \in Int
    BY <1>1
<1> HIDE DEF S
<1>8. \A x \in b..last : x \in S
    BY <1>4, <1>6, <1>7, CountingUp
<1>9. ASSUME NEW x \in b..Len(p_chain), x = b \/ st[x] < n PROVE V(b) = V(x)
  <2>1. x \in b..last
      BY <1>1
  <2>2. x \in S
      BY <1>8, <2>1
  <2> QED BY <1>9, <2>2 DEF S
<1>10. CASE n <= Len(R)
  <2> DEFINE T == {x \in b..Len(p_chain) : n <= st[x + 1]}
  <2>1. Len(p_chain) \in T /\ T \in SUBSET Nat
      BY <1>1, <1>10
  <2> HIDE DEF T
  <2>2. PICK x \in T : \A y \in T : x <= y
      BY <2>1, Least
  <2>3. x \in b..Len(p_chain) /\ n <= st[x + 1] /\ x \in Nat
      BY <1>1, <2>2 DEF T
  <2>4. x = b \/ st[x] < n
    <3>1. SUFFICES ASSUME x # b PROVE st[x] < n
        OBVIOUS
    <3>2. x - 1 \in b..Len(p_chain) /\ x - 1 + 1 = x /\ ~(x <= x - 1) /\ x \in b..Len(p_chain) + 1
        BY <1>1, <2>3, <3>1
    <3>3. x - 1 \notin T
        BY <2>2, <3>2
    <3>4. ~(n <= st[x]) /\ st[x] \in Int
        BY <1>1, <3>2, <3>3 DEF T
    <3> QED BY <3>4
  <2>5. V(b) = At(x, n - st[x], 0, SubSeq(R, 1, n))
      BY <1>3, <1>9, <2>3, <2>4
  <2>6. n - st[x] \in 0..Len(p_chain[x])
    <3>1. /\ st[x] \in Int /\ Len(p_chain[x]) \in Nat /\ st[x + 1] = st[x] + Len(p_chain[x])
          /\ o \in Nat
      <4>1. x \in b..Len(p_chain) + 1
          BY <1>1, <2>3
      <4> QED BY <1>1, <2>3, <4>1
    <3>2. CASE x = b
      <4>1. st[x] + o = 0
          BY <1>1, <3>2
      <4> QED BY ONLY <2>3, <3>1, <4>1, n \in Nat
    <3>3. CASE st[x] < n
        BY ONLY <2>3, <3>1, <3>3, n \in Nat
    <3> QED BY <2>4, <3>2, <3>3
  <2> QED BY <1>2, <1>10, <2>3, <2>5, <2>6 DEF Reaches
<1>11. CASE ~(n <= Len(R))
  <2>1. last # b /\ st[last] < n /\ last \in b..last
    <3> DEFINE n1 == Len(p_chain)
    <3>1. n1 \in Nat /\ b \in 1..n1
        BY <1>1
    <3> HIDE DEF n1
    <3>2. n1 + 1 # b /\ n1 + 1 \in b..n1 + 1
        BY ONLY <3>1
    <3>3. st[last] = Len(R) /\ Len(R) < n
        BY <1>1, <1>11
    <3> QED BY <3>2, <3>3 DEF n1
  <2>2. last \in S
      BY <1>8, <2>1
  <2>3. V(b) = V(last)
      BY <2>1, <2>2 DEF S
  <2>4. Pos(b, st, last) = Len(R)
      BY <1>1, <2>1 DEF Pos
  <2>5. SubSeq(R, 1, Len(R)) = R
      BY <1>1, SubSeqFull
  <2>6. n - Len(R) \in Nat
      BY <1>1, <1>11
  <2>7. V(last) = Stream!Walk[At(last, 0, n - Len(R), R)]
      BY <2>1, <2>4, <2>5 DEF V, Arrived
  <2>8. V(last) = At(0, 0, n - Len(R), R)
      BY <1>1, <2>6, <2>7, WalkOver
  <2> QED BY <1>2, <1>11, <2>3, <2>8 DEF Reaches
<1> QED BY <1>10, <1>11

LEMMA LeastIs ==
    ASSUME NEW S \in SUBSET Nat, NEW m \in S, \A k \in S : m <= k
    PROVE  Stream!Least(S) = m
<1> DEFINE h == CHOOSE x \in S : \A n \in S : x <= n
<1>1. h \in S /\ \A n \in S : h <= n
    OBVIOUS
<1>2. Stream!Least(S) = h
    BY DEF Stream!Least
<1> HIDE DEF h
<1>3. h <= m /\ m <= h /\ h \in Int /\ m \in Int
    BY <1>1
<1> QED BY <1>2, <1>3

(* Where reading begins in a block, and the blocks with something to read. *)
BeginAt(b, o, x) == IF x = b THEN o ELSE 0

Kept(c, b, o) == {x \in b..Len(c) : BeginAt(b, o, x) < Len(c[x])}

(* No block begins before the reading position, where it is still to read. *)
LEMMA BeginAhead ==
    ASSUME NEW c, NEW b, NEW o, NEW R, NEW st, Placed(c, b, o, R, st), NEW x \in b..Len(c)
    PROVE  /\ st[x] + BeginAt(b, o, x) >= 0 /\ BeginAt(b, o, x) \in 0..Len(c[x])
           /\ x # b => st[x] >= 0
<1>1. /\ Len(c) \in Nat /\ b \in Nat /\ o \in Nat /\ b \in 1..Len(c)
      /\ st[b] + o = 0 /\ st[b] \in Int /\ st[x] \in Int /\ Len(c[b]) \in Nat /\ Len(c[x]) \in Nat
      /\ st[b + 1] = st[b] + Len(c[b]) /\ b \in b..Len(c)
  <2>1. /\ Len(c) \in Nat /\ b \in Nat /\ o \in Nat /\ b \in 1..Len(c)
        /\ st[b] + o = 0 /\ b \in b..Len(c)
      BY PlacedTypes
  <2>2. st[b] \in Int /\ Len(c[b]) \in Nat /\ st[b + 1] = st[b] + Len(c[b])
      BY <2>1, BlockAt
  <2>3. st[x] \in Int /\ Len(c[x]) \in Nat
      BY BlockAt
  <2> QED BY <2>1, <2>2, <2>3
<1>2. o \in 0..Len(c[b])
    BY DEF Placed
<1>3. CASE x = b
    BY <1>1, <1>2, <1>3 DEF BeginAt
<1>4. CASE x # b
  <2>1. b + 1 \in b..Len(c) + 1 /\ x \in b + 1..Len(c) + 1
      BY <1>1, <1>4
  <2>2. st[b + 1] <= st[x]
      BY <2>1, LaterBegin
  <2>3. st[x] >= 0
      BY ONLY <1>1, <1>2, <2>2
  <2> QED BY <1>1, <1>4, <2>3 DEF BeginAt
<1> QED BY <1>3, <1>4

(* The first block with something to read holds the first byte.            *)
LEMMA FirstBlock ==
    ASSUME NEW c, NEW b, NEW o, NEW R, NEW st, Placed(c, b, o, R, st)
    PROVE  /\ R = <<>> => Kept(c, b, o) = {}
           /\ R # <<>> => \E x \in Kept(c, b, o) :
                             /\ \A y \in Kept(c, b, o) : x <= y
                             /\ st[x] + BeginAt(b, o, x) = 0
                             /\ R[1] = c[x][BeginAt(b, o, x) + 1]
<1>1. /\ Len(c) \in Nat /\ b \in Nat /\ R \in Seq(Octets) /\ Len(R) \in Nat
      /\ \A x \in b..Len(c) : /\ Len(c[x]) \in Nat
                              /\ st[x + 1] = st[x] + Len(c[x])
      /\ \A x \in b..Len(c) + 1 : st[x] \in Int
      /\ Len(R) = st[Len(c) + 1]
    BY PlacedTypes
<1>2. ASSUME NEW y \in Kept(c, b, o) PROVE y \in b..Len(c) /\ 0 < st[y + 1]
  <2>1. y \in b..Len(c) /\ BeginAt(b, o, y) < Len(c[y])
      BY DEF Kept
  <2>2. st[y] + BeginAt(b, o, y) >= 0 /\ BeginAt(b, o, y) \in Int
      BY <1>1, <2>1, BeginAhead
  <2>3. st[y] \in Int /\ Len(c[y]) \in Nat /\ st[y + 1] = st[y] + Len(c[y])
      BY <1>1, <2>1
  <2> QED BY <2>1, <2>2, <2>3
<1>3. ASSUME R = <<>>, NEW y \in Kept(c, b, o) PROVE FALSE
  <2>1. y \in b..Len(c) /\ 0 < st[y + 1]
      BY <1>2
  <2>2. y + 1 \in b..Len(c) + 1 /\ Len(c) + 1 \in y + 1..Len(c) + 1
      BY <1>1, <2>1
  <2>3. st[y + 1] <= st[Len(c) + 1]
      BY <2>2, LaterBegin
  <2>4. st[y + 1] \in Int /\ st[Len(c) + 1] = 0
      BY <1>1, <1>3, <2>2
  <2> QED BY ONLY <2>1, <2>3, <2>4
<1>4. ASSUME R # <<>>
      PROVE  \E x \in Kept(c, b, o) : /\ \A y \in Kept(c, b, o) : x <= y
                                      /\ st[x] + BeginAt(b, o, x) = 0
                                      /\ R[1] = c[x][BeginAt(b, o, x) + 1]
  <2>1. 1 \in 1..Len(R)
      BY <1>1, <1>4
  <2>2. PICK x \in b..Len(c) : st[x] < 1 /\ 1 <= st[x + 1]
      BY <2>1, Located
  <2>3. R[1] = c[x][1 - st[x]]
      BY <2>1, <2>2, ByteOf
  <2>4. /\ st[x] + BeginAt(b, o, x) >= 0 /\ BeginAt(b, o, x) \in Int
        /\ st[x] \in Int /\ Len(c[x]) \in Nat /\ st[x + 1] = st[x] + Len(c[x])
        /\ x # b => st[x] >= 0
      BY <1>1, BeginAhead
  <2>5. st[x] + BeginAt(b, o, x) = 0
    <3>1. CASE x = b
      <4>1. st[b] + o = 0
          BY PlacedTypes
      <4> QED BY <3>1, <4>1 DEF BeginAt
    <3>2. CASE x # b
        BY <2>2, <2>4, <3>2 DEF BeginAt
    <3> QED BY <3>1, <3>2
  <2>6. x \in Kept(c, b, o)
    <3>1. BeginAt(b, o, x) < Len(c[x])
        BY ONLY <2>2, <2>4, <2>5
    <3> QED BY <3>1 DEF Kept
  <2>7. ASSUME NEW y \in Kept(c, b, o) PROVE x <= y
    <3>1. y \in b..Len(c) /\ 0 < st[y + 1]
        BY <1>2
    <3>2. SUFFICES ASSUME ~(x <= y) PROVE FALSE
        OBVIOUS
    <3>3. y + 1 \in b..Len(c) + 1 /\ x \in y + 1..Len(c) + 1 /\ x # b
        BY <1>1, <3>1, <3>2
    <3>4. st[y + 1] <= st[x]
        BY <3>3, LaterBegin
    <3>5. st[y + 1] \in Int
        BY <1>1, <3>3
    <3> QED BY ONLY <2>2, <2>4, <3>1, <3>4, <3>5
  <2>8. 1 - st[x] = BeginAt(b, o, x) + 1
      BY <2>4, <2>5
  <2> QED BY <2>3, <2>5, <2>6, <2>7, <2>8
<1> QED BY <1>3, <1>4

(* A reading position is in a block, or there is none.                     *)
InStream(c, b, o) ==
    /\ c \in Seq(Seq(Octets))
    /\ IF b = 0 THEN c = <<>> /\ o = 0 ELSE b \in 1..Len(c) /\ o \in 0..Len(c[b])

Left(c, b, o) == IF b = 0 THEN <<>> ELSE LeftAt(c, b, o)

LEMMA RemainingIs ==
    /\ Stream!Remaining = Left(p_chain, p_block, i_offset)
    /\ Stream!Remaining' = Left(p_chain', p_block', i_offset')
BY DEF Stream!Remaining, Left, LeftAt, Rest

LEMMA LeftIsPlaced ==
    ASSUME NEW c, NEW b, NEW o, InStream(c, b, o), b # 0
    PROVE  \E st : Placed(c, b, o, Left(c, b, o), st)
BY LeftPlaced DEF InStream, Left

LEMMA PlacedIsLeft ==
    ASSUME NEW c, NEW b, NEW o, NEW R, NEW st, Placed(c, b, o, R, st)
    PROVE  InStream(c, b, o) /\ Left(c, b, o) = R /\ b # 0
<1>1. b # 0
    BY DEF Placed
<1>2. LeftAt(c, b, o) = R
    BY LeftIs
<1> QED BY <1>1, <1>2 DEF InStream, Left, Placed

LEMMA LeftType ==
    ASSUME NEW c, NEW b, NEW o, InStream(c, b, o)
    PROVE  Left(c, b, o) \in Seq(Octets)
<1>1. CASE b = 0
    BY <1>1 DEF Left
<1>2. CASE b # 0
  <2>1. PICK st : Placed(c, b, o, Left(c, b, o), st)
      BY <1>2, LeftIsPlaced
  <2> QED BY <2>1, PlacedTypes
<1> QED BY <1>1, <1>2

(* Where the loop stops, reading goes on with the bytes it has not taken.  *)
Walked(s, n, R) ==
    /\ s.left = 0 <=> n <= Len(R)
    /\ n <= Len(R) => /\ s.bytes = SubSeq(R, 1, n)
                      /\ InStream(p_chain, s.block, s.offset)
                      /\ Left(p_chain, s.block, s.offset) = SubSeq(R, n + 1, Len(R))

LEMMA WalkedIs ==
    ASSUME NEW b, NEW o, InStream(p_chain, b, o), NEW n \in Nat
    PROVE  Walked(Stream!WalkFrom(b, o, n), n, Left(p_chain, b, o))
<1> DEFINE R == Left(p_chain, b, o)
           s == Stream!WalkFrom(b, o, n)
<1>1. CASE b = 0
  <2>1. p_chain = <<>> /\ o = 0 /\ R = <<>> /\ p_chain \in Seq(Seq(Octets))
      BY <1>1 DEF InStream, Left
  <2>2. At(0, 0, n, <<>>) \in Stream!Walks /\ At(0, 0, n, <<>>).block = 0
        /\ [At(0, 0, n, <<>>) EXCEPT !.block = 0] = At(0, 0, n, <<>>)
      BY DEF At, Stream!Walks
  <2>3. 0 \notin 1..Len(p_chain)
      BY <2>1
  <2>4. s = Stream!Walk[At(0, 0, n, <<>>)]
      BY <1>1, <2>1 DEF Stream!WalkFrom, At
  <2>5. s = At(0, 0, n, <<>>)
      BY <2>1, <2>2, <2>3, <2>4, WalkIs DEF WalkStep
  <2>6. s.left = n /\ s.block = 0 /\ s.offset = 0 /\ s.bytes = <<>>
      BY <2>5 DEF At
  <2>7. Left(p_chain, 0, 0) = <<>> /\ InStream(p_chain, 0, 0)
      BY <2>1 DEF Left, InStream
  <2> HIDE DEF s, R
  <2>8. SubSeq(<<>>, 1, 0) = <<>> /\ SubSeq(<<>>, 0 + 1, 0) = <<>> /\ Len(<<>>) = 0
      BY SubSeqEmpty
  <2>9. (n <= 0 <=> n = 0)
      OBVIOUS
  <2> QED BY <2>1, <2>6, <2>7, <2>8, <2>9 DEF Walked, s, R
<1>2. CASE b # 0
  <2>1. PICK st : Placed(p_chain, b, o, R, st)
      BY <1>2, LeftIsPlaced
  <2> HIDE DEF R
  <2>2. Reaches(b, o, R, st, n)
      BY <2>1, WalkReaches
  <2>3. Len(R) \in Nat /\ R \in Seq(Octets)
      BY <2>1, PlacedTypes
  <2>4. CASE n <= Len(R)
    <3>1. PICK x \in b..Len(p_chain) : /\ n - st[x] \in 0..Len(p_chain[x])
                                       /\ s = At(x, n - st[x], 0, SubSeq(R, 1, n))
        BY <2>2, <2>4 DEF Reaches
    <3>2. x \in b..Len(p_chain) + 1
        BY <2>1, PlacedTypes
    <3>3. st[x] \in Int
        BY <2>1, <3>2, PlacedTypes
    <3> DEFINE p == n - st[x]
    <3>4. st[x] + p = n /\ p \in 0..Len(p_chain[x])
        BY <3>1, <3>3
    <3>5. s.block = x /\ s.offset = p /\ s.left = 0 /\ s.bytes = SubSeq(R, 1, n)
        BY <3>1 DEF At
    <3> HIDE DEF p, s
    <3>6. PICK ss : Placed(p_chain, x, p, SubSeq(R, n + 1, Len(R)), ss)
        BY <2>1, <3>4, ReadOn
    <3>7. InStream(p_chain, x, p) /\ Left(p_chain, x, p) = SubSeq(R, n + 1, Len(R))
        BY <3>6, PlacedIsLeft
    <3> QED BY <2>4, <3>5, <3>7 DEF Walked, s, R
  <2>5. CASE ~(n <= Len(R))
    <3>1. s = At(0, 0, n - Len(R), R)
        BY <2>2, <2>5 DEF Reaches
    <3>2. s.left = n - Len(R)
        BY <3>1 DEF At
    <3> HIDE DEF s
    <3>3. s.left # 0
        BY <2>3, <2>5, <3>2
    <3> QED BY <2>5, <3>3 DEF Walked, s, R
  <2> QED BY <2>4, <2>5
<1> QED BY <1>1, <1>2

(* One byte: the first block with something to read is this one or a later *)
(* one.                                                                    *)
SteppedOn(R, x, p) ==
    /\ Stream!block_PeekByte = R[1]
    /\ InStream(p_chain, x, p) /\ Left(p_chain, x, p) = SubSeq(R, 2, Len(R))
    /\ Stream!StepOne => p_block' = x /\ i_offset' = p /\ p_chain' = p_chain

LEMMA OneByte ==
    ASSUME NEW R, NEW st, Placed(p_chain, p_block, i_offset, R, st)
    PROVE  /\ Stream!OneMore <=> R # <<>>
           /\ R # <<>> => \E x, p : SteppedOn(R, x, p)
<1> DEFINE K == Kept(p_chain, p_block, i_offset)
<1>1. /\ p_block \in Nat /\ p_block \in p_block..Len(p_chain) /\ p_block # 0
      /\ p_chain \in Seq(Seq(Octets)) /\ Len(p_chain) \in Nat /\ i_offset \in Nat
      /\ \A x \in p_block..Len(p_chain) : p_chain[x] \in Seq(Octets) /\ Len(p_chain[x]) \in Nat
  <2>1. p_block \in p_block..Len(p_chain) /\ p_block # 0
      BY PlacedTypes
  <2> QED BY <2>1, PlacedTypes
<1>2. Stream!Here <=> p_block \in K
    BY <1>1 DEF Stream!Here, Stream!Size, Kept, BeginAt
<1>3. \A x : x \in Stream!Later <=> x \in K /\ x # p_block
  <2>1. \A x \in p_block..Len(p_chain) : p_chain[x] # <<>> <=> 0 < Len(p_chain[x])
      BY <1>1, EmptySeq
  <2>2. \A x : x \in p_block + 1..Len(p_chain) <=> x \in p_block..Len(p_chain) /\ x # p_block
      BY <1>1
  <2> QED BY <2>1, <2>2 DEF Stream!Later, Kept, BeginAt
<1>4. K \in SUBSET Nat
    BY <1>1 DEF Kept
<1> HIDE DEF K
<1>5. CASE R = <<>>
  <2>1. K = {}
      BY <1>5, FirstBlock DEF K
  <2> QED BY <1>2, <1>3, <1>5, <2>1 DEF Stream!OneMore
<1>6. CASE R # <<>>
  <2>1. PICK x \in K : /\ \A y \in K : x <= y
                       /\ st[x] + BeginAt(p_block, i_offset, x) = 0
                       /\ R[1] = p_chain[x][BeginAt(p_block, i_offset, x) + 1]
      BY <1>6, FirstBlock DEF K
  <2>2. x \in p_block..Len(p_chain) /\ BeginAt(p_block, i_offset, x) < Len(p_chain[x])
      BY <2>1 DEF K, Kept
  <2> DEFINE p == BeginAt(p_block, i_offset, x) + 1
  <2>3. p \in 0..Len(p_chain[x]) /\ st[x] + p = 1 /\ x \in p_block..Len(p_chain) + 1 /\ st[x] \in Int
    <3>1. x \in p_block..Len(p_chain) + 1
        BY <1>1, <2>2
    <3>2. st[x] \in Int /\ Len(p_chain[x]) \in Nat
        BY <1>1, <2>2, <3>1, PlacedTypes
    <3>3. BeginAt(p_block, i_offset, x) \in 0..Len(p_chain[x])
        BY <2>2, BeginAhead
    <3>4. st[x] + BeginAt(p_block, i_offset, x) = 0 /\ BeginAt(p_block, i_offset, x) < Len(p_chain[x])
        BY <2>1, <2>2
    <3> DEFINE y == BeginAt(p_block, i_offset, x)
               z == st[x]
               l == Len(p_chain[x])
    <3>5. z \in Int /\ l \in Nat /\ y \in 0..l /\ z + y = 0 /\ y < l
        BY <3>2, <3>3, <3>4
    <3> HIDE DEF y, z, l
    <3>6. y + 1 \in 0..l /\ z + (y + 1) = 1
        BY ONLY <3>5
    <3> QED BY <3>1, <3>2, <3>6 DEF y, z, l
  <2>4. InStream(p_chain, x, p) /\ Left(p_chain, x, p) = SubSeq(R, 2, Len(R))
    <3> HIDE DEF p
    <3>1. PICK ss : Placed(p_chain, x, p, SubSeq(R, 1 + 1, Len(R)), ss)
        BY <2>2, <2>3, ReadOn
    <3>2. SubSeq(R, 1 + 1, Len(R)) = SubSeq(R, 2, Len(R))
        OBVIOUS
    <3>3. InStream(p_chain, x, p) /\ Left(p_chain, x, p) = SubSeq(R, 1 + 1, Len(R))
        BY <3>1, PlacedIsLeft
    <3> QED BY <3>2, <3>3
  <2>5. CASE Stream!Here
    <3>1. x = p_block
      <4>1. p_block \in K /\ x \in Nat
          BY <1>2, <1>4, <2>1, <2>5
      <4>2. x <= p_block /\ p_block <= x
          BY <1>1, <2>1, <2>2, <4>1
      <4> QED BY <1>1, <4>1, <4>2
    <3>2. p = i_offset + 1
        BY <3>1 DEF BeginAt
    <3>3. Stream!block_PeekByte = R[1]
        BY <2>1, <2>5, <3>1 DEF BeginAt, Stream!block_PeekByte
    <3>4. Stream!StepOne => p_block' = x /\ i_offset' = p /\ p_chain' = p_chain
        BY <2>5, <3>1, <3>2 DEF Stream!StepOne
    <3> QED BY <1>6, <2>4, <2>5, <3>3, <3>4 DEF SteppedOn, Stream!OneMore
  <2>6. CASE ~Stream!Here
    <3>1. x # p_block
        BY <1>2, <2>1, <2>6
    <3>2. x \in Stream!Later /\ Stream!Later \in SUBSET Nat
        BY <1>3, <1>4, <2>1, <3>1
    <3>3. \A y \in Stream!Later : x <= y
        BY <1>3, <2>1
    <3>4. Stream!Least(Stream!Later) = x
        BY <3>2, <3>3, LeastIs
    <3>5. p = 1 /\ BeginAt(p_block, i_offset, x) + 1 = 1
        BY <3>1 DEF BeginAt
    <3>6. Stream!block_PeekByte = R[1]
        BY <2>1, <2>6, <3>4, <3>5 DEF Stream!block_PeekByte
    <3>7. Stream!StepOne => p_block' = x /\ i_offset' = p /\ p_chain' = p_chain
        BY <2>6, <3>4, <3>5 DEF Stream!StepOne
    <3> QED BY <1>6, <2>4, <3>2, <3>6, <3>7 DEF SteppedOn, Stream!OneMore
  <2> QED BY <2>5, <2>6
<1> QED BY <1>5, <1>6

(* Waiting and peeking tell the truth.                                     *)
LEMMA PeekingIsTrue ==
    ASSUME InStream(p_chain, p_block, i_offset), StreamBytes \in Nat
    PROVE  Stream!PeeksTrue
<1> DEFINE R == Left(p_chain, p_block, i_offset)
<1>1. Stream!Remaining = R /\ R \in Seq(Octets) /\ Len(R) \in Nat
    BY RemainingIs, LeftType
<1>2. ASSUME NEW n \in Nat PROVE Walked(Stream!Ahead(n), n, R)
    BY WalkedIs DEF Stream!Ahead
<1> HIDE DEF R
<1>3. ASSUME NEW n \in 0..StreamBytes + 1 PROVE Stream!block_WaitBytes(n) <=> n <= Len(R)
  <2>1. n \in Nat
      OBVIOUS
  <2> QED BY <1>2, <2>1 DEF Walked, Stream!block_WaitBytes
<1>4. ASSUME NEW n \in 0..Len(R) PROVE Stream!block_PeekBytes(n) = SubSeq(R, 1, n)
  <2>1. n \in Nat /\ n <= Len(R)
      BY <1>1
  <2> QED BY <1>2, <2>1 DEF Walked, Stream!block_PeekBytes
<1>5. ASSUME NEW k \in 0..Len(R), NEW n \in 0..Len(R) - k
      PROVE  Stream!block_PeekOffsetBytes(k, n) = SubSeq(R, k + 1, k + n)
  <2> DEFINE place == Stream!Ahead(k)
             Q == SubSeq(R, k + 1, Len(R))
  <2>1. k \in Nat /\ n \in Nat /\ k <= Len(R) /\ k + n <= Len(R)
      BY <1>1
  <2>2. InStream(p_chain, place.block, place.offset) /\ Left(p_chain, place.block, place.offset) = Q
      BY <1>2, <2>1 DEF Walked
  <2>3. Q \in Seq(Octets) /\ Len(Q) = Len(R) - k /\ \A i \in 1..Len(R) - k : Q[i] = R[k + i]
    <3>1. \A i \in k + 1..Len(R) : R[i] \in Octets
        BY <1>1, <2>1, ElementOfSeq
    <3>2. k + 1 \in Int /\ Len(R) \in Int
        BY <1>1, <2>1
    <3>3. /\ Q \in Seq(Octets)
          /\ Len(Q) = IF k + 1 <= Len(R) THEN Len(R) - (k + 1) + 1 ELSE 0
          /\ \A i \in 1..Len(R) - (k + 1) + 1 : Q[i] = R[k + 1 + i - 1]
        BY <3>1, <3>2, SubSeqProperties
    <3> QED BY <1>1, <2>1, <3>3
  <2> HIDE DEF place, Q
  <2>4. Walked(Stream!WalkFrom(place.block, place.offset, n), n, Q)
      BY <2>1, <2>2, WalkedIs
  <2>5. n <= Len(Q)
      BY <1>1, <2>1, <2>3
  <2>6. Stream!block_PeekOffsetBytes(k, n) = SubSeq(Q, 1, n)
      BY <2>4, <2>5 DEF Walked, Stream!block_PeekOffsetBytes, place
  <2>7. SubSeq(Q, 1, n) = SubSeq(R, k + 1, k + n)
      BY <1>1, <2>1, <2>3
  <2> QED BY <2>6, <2>7
<1>6. ASSUME p_block # 0
      PROVE  /\ Stream!OneMore <=> R # <<>>
             /\ Stream!OneMore => Stream!block_PeekByte = R[1]
  <2>1. PICK st : Placed(p_chain, p_block, i_offset, R, st)
      BY <1>6, LeftIsPlaced DEF R
  <2>2. /\ Stream!OneMore <=> R # <<>>
        /\ R # <<>> => \E x, p : SteppedOn(R, x, p)
      BY <2>1, OneByte
  <2> QED BY <2>2 DEF SteppedOn
<1> QED BY <1>1, <1>3, <1>4, <1>5, <1>6 DEF Stream!PeeksTrue

---------------------------------------------------------------------------
(* Every step but a search is one of the queue, and leaves what a search   *)
(* has found alone or lets it start anew.                                  *)

Grown == \E X \in Seq(Octets) : Stream!Remaining' = Stream!Remaining \o X

SearchKept == Stream!NewSearch \/ (UNCHANGED Stream!search /\ Grown)

QueueStep ==
    InStream(p_chain', p_block', i_offset') /\ [Stream!Fifo!Next]_(Stream!Fifo!vars)

LEMMA ShortSeq ==
    ASSUME NEW S, NEW n \in Nat, NEW s \in Seq(S), Len(s) <= n
    PROVE  s \in Stream!Fifo!BoundedSeq(S, n)
<1>1. Len(s) \in 0..n /\ s \in [1..Len(s) -> S]
    BY LenProperties
<1> QED BY <1>1 DEF Stream!Fifo!BoundedSeq, Stream!Fifo!SeqOf

LEMMA QueuePushes ==
    ASSUME StreamBytes \in Nat, InStream(p_chain, p_block, i_offset),
           InStream(p_chain', p_block', i_offset'),
           NEW F \in Seq(Octets), Len(F) <= StreamBytes,
           Left(p_chain', p_block', i_offset') = Left(p_chain, p_block, i_offset) \o F,
           outcome' = Stream!Nothing
    PROVE  QueueStep /\ Grown
<1>1. Stream!Remaining' = Stream!Remaining \o F
    BY RemainingIs
<1>2. F \in Stream!Fifo!BoundedSeq(Octets, StreamBytes)
    BY ShortSeq
<1>3. Stream!Fifo!Push
    BY <1>1, <1>2 DEF Stream!Fifo!Push, Stream!Fifo!Nothing, Stream!Nothing
<1>4. QueueStep
    BY <1>3 DEF QueueStep, Stream!Fifo!Next
<1> QED BY <1>1, <1>4 DEF Grown

LEMMA QueueStays ==
    ASSUME StreamBytes \in Nat, InStream(p_chain, p_block, i_offset),
           InStream(p_chain', p_block', i_offset'),
           Left(p_chain', p_block', i_offset') = Left(p_chain, p_block, i_offset),
           outcome' = Stream!Nothing
    PROVE  QueueStep /\ Grown
<1>1. <<>> \in Seq(Octets) /\ Len(<<>>) <= StreamBytes
    OBVIOUS
<1>2. Left(p_chain, p_block, i_offset) \in Seq(Octets)
    BY LeftType
<1>3. Left(p_chain, p_block, i_offset) \o <<>> = Left(p_chain, p_block, i_offset)
    BY <1>2, ConcatEmptySeq
<1> QED BY <1>1, <1>3, QueuePushes

LEMMA PushQueues ==
    ASSUME StreamBytes \in Nat, InStream(p_chain, p_block, i_offset),
           NEW c \in Seq(Seq(Octets)), Len(c) # 0, Stream!Push(c)
    PROVE  QueueStep /\ SearchKept
<1> DEFINE F == Stream!FlattenSeq(c)
<1>1. /\ p_chain' = p_chain \o c /\ outcome' = Stream!Nothing /\ i_offset' = i_offset
      /\ p_block' = IF p_block = 0 THEN Len(p_chain) + 1 ELSE p_block
      /\ Len(Stream!FlattenSeq(p_chain \o c)) <= StreamBytes
      /\ UNCHANGED Stream!search
    BY DEF Stream!Push, Stream!ChainAppend
<1>2. F \in Seq(Octets) /\ Len(F) \in Nat
    BY Joined, p_chain \in Seq(Seq(Octets)) DEF InStream
<1>3. PICK sd : Placed(c, 1, 0, F, sd)
    BY WholeChain
<1> HIDE DEF F
<1>4. /\ InStream(p_chain', p_block', i_offset') /\ Len(F) <= StreamBytes
      /\ Left(p_chain', p_block', i_offset') = Left(p_chain, p_block, i_offset) \o F
  <2>1. CASE p_block = 0
    <3>1. p_chain = <<>> /\ i_offset = 0 /\ Left(p_chain, p_block, i_offset) = <<>>
        BY <2>1 DEF InStream, Left
    <3>2. p_chain \o c = c /\ p_block' = 1 /\ <<>> \o F = F
        BY <1>1, <1>2, <2>1, <3>1, ConcatEmptySeq
    <3>3. InStream(c, 1, 0) /\ Left(c, 1, 0) = F
        BY <1>3, PlacedIsLeft
    <3> QED BY <1>1, <3>1, <3>2, <3>3 DEF F
  <2>2. CASE p_block # 0
    <3> DEFINE R == Left(p_chain, p_block, i_offset)
    <3>1. PICK st : Placed(p_chain, p_block, i_offset, R, st)
        BY <2>2, LeftIsPlaced
    <3> HIDE DEF R
    <3>2. PICK ss : Placed(p_chain \o c, p_block, i_offset, R \o F, ss)
        BY <1>3, <3>1, Extended
    <3>3. InStream(p_chain \o c, p_block, i_offset) /\ Left(p_chain \o c, p_block, i_offset) = R \o F
        BY <3>2, PlacedIsLeft
    <3>4. Len(F) <= StreamBytes
      <4>1. /\ Stream!FlattenSeq(p_chain) \in Seq(Octets)
            /\ Stream!FlattenSeq(p_chain \o c) = Stream!FlattenSeq(p_chain) \o F
          BY Joined, p_chain \in Seq(Seq(Octets)) DEF InStream, F
      <4>2. Len(Stream!FlattenSeq(p_chain) \o F) = Len(Stream!FlattenSeq(p_chain)) + Len(F)
            /\ Len(Stream!FlattenSeq(p_chain)) \in Nat
          BY <1>2, <4>1
      <4> QED BY <1>1, <1>2, <4>1, <4>2
    <3> QED BY <1>1, <2>2, <3>3, <3>4 DEF R
  <2> QED BY <2>1, <2>2
<1>5. QueueStep /\ Grown
    BY <1>1, <1>2, <1>4, QueuePushes
<1> QED BY <1>1, <1>5 DEF SearchKept

LEMMA BlocksAre ==
    ASSUME NEW c \in Stream!NewBlocks
    PROVE  c \in Seq(Seq(Octets)) /\ Len(c) # 0
<1>1. Stream!BoundedSeq(Octets, BlockSize) \subseteq Seq(Octets)
  <2>1. ASSUME NEW s \in Stream!BoundedSeq(Octets, BlockSize) PROVE s \in Seq(Octets)
    <3>1. PICK m \in 0..BlockSize : s \in [1..m -> Octets]
        BY DEF Stream!BoundedSeq, Stream!SeqOf
    <3>2. m \in Nat
        OBVIOUS
    <3> QED BY <3>1, <3>2, Tuple
  <2> QED BY <2>1
<1>2. PICK n \in 1..2 : c \in [1..n -> Stream!BoundedSeq(Octets, BlockSize)]
    BY DEF Stream!NewBlocks
<1>3. c \in [1..n -> Seq(Octets)] /\ n \in Nat
    BY <1>1, <1>2
<1>4. c \in Seq(Seq(Octets)) /\ Len(c) = n
    BY <1>3, Tuple
<1> QED BY <1>4

LEMMA GatheredIs ==
    ASSUME NEW c \in Seq(Seq(Octets)), Len(c) # 0
    PROVE  Stream!ChainGather(c) \in Seq(Seq(Octets)) /\ Len(Stream!ChainGather(c)) # 0
<1> DEFINE F == Stream!FlattenSeq(c)
<1>1. F \in Seq(Octets) /\ Len(F) \in Nat
    BY Joined
<1> HIDE DEF F
<1>2. Stream!Least({Len(F), Len(F)}) = Len(F)
  <2> DEFINE k == Len(F)
  <2>1. {k, k} \in SUBSET Nat /\ k \in {k, k} /\ \A n \in {k, k} : k <= n
      BY <1>1
  <2> HIDE DEF k
  <2>2. Stream!Least({k, k}) = k
      BY <2>1, LeastIs
  <2> QED BY <2>2 DEF k
<1>3. SubSeq(F, 1, Len(F)) \in Seq(Octets)
    BY <1>1
<1>4. Stream!ChainGather(c) = <<SubSeq(F, 1, Len(F))>>
    BY <1>2 DEF Stream!ChainGather, Stream!ChainExtract, F
<1> QED BY <1>3, <1>4

(* A flush drops blocks with nothing to read, and nothing that is still to *)
(* be read.                                                                *)
LEMMA FlushedIs ==
    ASSUME InStream(p_chain, p_block, i_offset)
    PROVE  /\ InStream(Stream!Flushed.chain, Stream!Flushed.block, Stream!Flushed.offset)
           /\ Left(Stream!Flushed.chain, Stream!Flushed.block, Stream!Flushed.offset)
                = Left(p_chain, p_block, i_offset)
           /\ Stream!Flushed.block = IF Stream!Flushed.chain = <<>> THEN 0 ELSE 1
<1> DEFINE R == Left(p_chain, p_block, i_offset)
           K == {b \in p_block..Len(p_chain) : b # 0 /\ Stream!Begin(b) < Stream!Size(b)}
<1>1. <<>> \in Seq(Seq(Octets)) /\ InStream(<<>>, 0, 0) /\ Left(<<>>, 0, 0) = <<>>
    BY DEF InStream, Left
<1>2. CASE p_block = 0
  <2>1. Stream!Flushed = [chain |-> <<>>, block |-> 0, offset |-> i_offset]
      BY <1>2 DEF Stream!Flushed
  <2>2. i_offset = 0 /\ R = <<>>
      BY <1>2 DEF InStream, Left
  <2> QED BY <1>1, <2>1, <2>2
<1>3. CASE p_block # 0
  <2>1. PICK st : Placed(p_chain, p_block, i_offset, R, st)
      BY <1>3, LeftIsPlaced
  <2> HIDE DEF R
  <2>2. /\ p_block \in Nat /\ Len(p_chain) \in Nat /\ p_chain \in Seq(Seq(Octets))
        /\ R \in Seq(Octets) /\ p_block \in 1..Len(p_chain)
      BY <2>1, PlacedTypes
  <2>3. K = Kept(p_chain, p_block, i_offset)
      BY <2>2 DEF Kept, BeginAt, Stream!Begin, Stream!Size
  <2>4. Stream!Flushed =
          IF K = {} THEN [chain |-> <<>>, block |-> 0, offset |-> 0]
          ELSE [chain |-> Rest(p_chain, Stream!Least(K)), block |-> 1,
                offset |-> BeginAt(p_block, i_offset, Stream!Least(K))]
      BY <1>3 DEF Stream!Flushed, Rest, BeginAt, Stream!Begin
  <2>5. K \in SUBSET Nat
      BY <2>2
  <2> HIDE DEF K
  <2>6. CASE R = <<>>
    <3>1. K = {}
        BY <2>1, <2>3, <2>6, FirstBlock
    <3>2. Stream!Flushed = [chain |-> <<>>, block |-> 0, offset |-> 0]
        BY <2>4, <3>1
    <3> QED BY <1>1, <2>6, <3>2 DEF R
  <2>7. CASE R # <<>>
    <3>1. PICK x \in K : /\ \A y \in K : x <= y
                         /\ st[x] + BeginAt(p_block, i_offset, x) = 0
        BY <2>1, <2>3, <2>7, FirstBlock
    <3>2. Stream!Least(K) = x
        BY <2>5, <3>1, LeastIs
    <3> DEFINE p == BeginAt(p_block, i_offset, x)
    <3>3. Stream!Flushed = [chain |-> Rest(p_chain, x), block |-> 1, offset |-> p]
        BY <2>4, <3>2
    <3>4. x \in p_block..Len(p_chain) /\ p \in 0..Len(p_chain[x]) /\ st[x] + p >= 0
      <4>1. x \in p_block..Len(p_chain)
          BY <2>3 DEF Kept
      <4> QED BY <2>1, <4>1, BeginAhead
    <3>5. st[x] + p = 0
        BY <3>1
    <3> HIDE DEF p
    <3>6. PICK ss : Placed(p_chain, x, p, SubSeq(R, 0 + 1, Len(R)), ss)
        BY <2>1, <3>4, <3>5, ReadOn
    <3>7. SubSeq(R, 0 + 1, Len(R)) = R
        BY <2>2, SubSeqFull
    <3>8. Placed(p_chain, x, p, R, ss)
        BY <3>6, <3>7
    <3>9. PICK sr : Placed(Rest(p_chain, x), 1, p, R, sr)
        BY <3>8, Dropped
    <3>10. InStream(Rest(p_chain, x), 1, p) /\ Left(Rest(p_chain, x), 1, p) = R
        BY <3>9, PlacedIsLeft
    <3>11. Rest(p_chain, x) # <<>>
      <4>1. 1 \in 1..Len(Rest(p_chain, x))
          BY <3>9, PlacedTypes
      <4> QED BY <4>1
    <3> QED BY <3>3, <3>10, <3>11 DEF R
  <2> QED BY <2>6, <2>7
<1> QED BY <1>2, <1>3

LEMMA PopQueues ==
    ASSUME StreamBytes \in Nat, InStream(p_chain, p_block, i_offset),
           Stream!block_BytestreamPop
    PROVE  QueueStep
<1> DEFINE f == Stream!Flushed
           R == Left(p_chain, p_block, i_offset)
<1>1. /\ InStream(f.chain, f.block, f.offset) /\ Left(f.chain, f.block, f.offset) = R
      /\ f.block = IF f.chain = <<>> THEN 0 ELSE 1
    BY FlushedIs
<1>2. R \in Seq(Octets) /\ Len(R) \in Nat /\ Stream!Remaining = R
    BY LeftType, RemainingIs
<1>3. f.chain \in Seq(Seq(Octets)) /\ Len(f.chain) \in Nat
    BY <1>1 DEF InStream
<1>4. \/ /\ Len(f.chain) = 0
         /\ p_chain' = <<>> /\ p_block' = 0 /\ i_offset' = f.offset
         /\ outcome' = Stream!Nothing
      \/ /\ Len(f.chain) = 1
         /\ p_chain' = <<>> /\ p_block' = 0 /\ i_offset' = 0
         /\ outcome' = Stream!Handed(SubSeq(f.chain[1], f.offset + 1, Len(f.chain[1])))
      \/ /\ Len(f.chain) > 1
         /\ p_chain' = Stream!Front(f.chain) /\ p_block' = 1 /\ i_offset' = f.offset
         /\ outcome' = Stream!Handed(Stream!Last(f.chain))
    BY DEF Stream!block_BytestreamPop
<1>5. InStream(<<>>, 0, 0) /\ Left(<<>>, 0, 0) = <<>>
    BY DEF InStream, Left
<1> HIDE DEF f, R
<1>6. CASE /\ Len(f.chain) = 0
           /\ p_chain' = <<>> /\ p_block' = 0 /\ i_offset' = f.offset
           /\ outcome' = Stream!Nothing
  <2>1. f.chain = <<>> /\ f.block = 0
      BY <1>1, <1>3, <1>6, EmptySeq
  <2>2. f.offset = 0 /\ R = <<>>
      BY <1>1, <2>1 DEF InStream, Left
  <2>3. QueueStep /\ Grown
      BY <1>5, <1>6, <2>2, QueueStays DEF R
  <2> QED BY <2>3
<1>7. CASE /\ Len(f.chain) = 1
           /\ p_chain' = <<>> /\ p_block' = 0 /\ i_offset' = 0
           /\ outcome' = Stream!Handed(SubSeq(f.chain[1], f.offset + 1, Len(f.chain[1])))
  <2> DEFINE s == f.chain[1]
             off == f.offset
  <2>1. s \in Seq(Octets) /\ f.chain = <<s>> /\ f.chain # <<>>
      BY <1>3, <1>7, ElementOfSeq
  <2>2. f.block = 1
      BY <1>1, <2>1
  <2>3. off \in 0..Len(s)
      BY <1>1, <2>2 DEF InStream
  <2>4. PICK st : Placed(f.chain, 1, off, R, st)
      BY <1>1, <2>2, LeftIsPlaced
  <2>5. outcome' = Stream!Handed(SubSeq(s, off + 1, Len(s)))
      BY <1>7
  <2>6. Placed(<<s>>, 1, off, R, st)
      BY <2>1, <2>4
  <2> HIDE DEF s, off
  <2>7. PICK sa : Placed(<<s>>, 1, 0, s, sa)
      BY <2>1, OneBlock
  <2>8. 1 \in 1..Len(<<s>>) /\ <<s>>[1] = s /\ sa[1] + 0 = 0 /\ sa[1] \in Int
    <3>1. 1 \in 1..Len(<<s>>) + 1 /\ 1 \in 1..Len(<<s>>) /\ <<s>>[1] = s
        OBVIOUS
    <3>2. sa[1] + 0 = 0 /\ sa[1] \in Int
        BY <2>7, <3>1, PlacedTypes
    <3> QED BY <3>1, <3>2
  <2>9. sa[1] + off = off /\ off \in 0..Len(<<s>>[1]) /\ off >= 0
      BY <2>3, <2>8
  <2>10. PICK sb : Placed(<<s>>, 1, off, SubSeq(s, off + 1, Len(s)), sb)
    <3>1. \E sb : Placed(<<s>>, 1, off, SubSeq(s, sa[1] + off + 1, Len(s)), sb)
        BY <2>7, <2>8, <2>9, ReadOn
    <3> QED BY <2>9, <3>1
  <2>11. SubSeq(s, off + 1, Len(s)) = R
      BY <2>6, <2>10, SameBytes
  <2>12. SubSeq(R, 0 + 1, Len(R)) = R /\ SubSeq(R, 1, 0) = <<>>
      BY <1>2, SubSeqFull, SubSeqEmpty
  <2>13. Stream!Remaining' = <<>> /\ InStream(p_chain', p_block', i_offset')
      BY <1>5, <1>7, RemainingIs
  <2>14. Stream!Fifo!Pop(0)
      BY <1>2, <2>5, <2>11, <2>12, <2>13 DEF Stream!Fifo!Pop, Stream!Handed
  <2>15. 0 \in 0..Len(Stream!Remaining)
      BY <1>2
  <2>16. Stream!Fifo!Next
      BY <2>14, <2>15, Zenon DEF Stream!Fifo!Next
  <2> QED BY <2>13, <2>16 DEF QueueStep
<1>8. CASE /\ Len(f.chain) > 1
           /\ p_chain' = Stream!Front(f.chain) /\ p_block' = 1 /\ i_offset' = f.offset
           /\ outcome' = Stream!Handed(Stream!Last(f.chain))
  <2>1. f.chain # <<>> /\ f.block = 1
      BY <1>1, <1>3, <1>8
  <2>2. PICK st : Placed(f.chain, 1, f.offset, R, st)
      BY <1>1, <2>1, LeftIsPlaced
  <2>3. PICK n \in 0..Len(R) :
           /\ Stream!Last(f.chain) = SubSeq(R, n + 1, Len(R))
           /\ \E ss : Placed(Stream!Front(f.chain), 1, f.offset, SubSeq(R, 1, n), ss)
      BY <1>8, <2>2, TakenOff
  <2>4. /\ InStream(Stream!Front(f.chain), 1, f.offset)
        /\ Left(Stream!Front(f.chain), 1, f.offset) = SubSeq(R, 1, n)
      BY <2>3, PlacedIsLeft
  <2>5. InStream(p_chain', p_block', i_offset') /\ Stream!Remaining' = SubSeq(R, 1, n)
      BY <1>8, <2>4, RemainingIs
  <2>6. Stream!Fifo!Pop(n)
      BY <1>2, <1>8, <2>3, <2>5 DEF Stream!Fifo!Pop, Stream!Handed
  <2>7. n \in 0..Len(Stream!Remaining)
      BY <1>2
  <2>8. Stream!Fifo!Next
      BY <2>6, <2>7, Zenon DEF Stream!Fifo!Next
  <2> QED BY <2>5, <2>8 DEF QueueStep
<1> QED BY <1>4, <1>6, <1>7, <1>8

LEMMA StepQueues ==
    ASSUME StreamBytes \in Nat, InStream(p_chain, p_block, i_offset), p_block # 0,
           Stream!block_SkipByte \/ Stream!block_GetByte \/ Stream!NoByte
    PROVE  QueueStep
<1> DEFINE R == Left(p_chain, p_block, i_offset)
<1>1. PICK st : Placed(p_chain, p_block, i_offset, R, st)
    BY LeftIsPlaced
<1>2. R \in Seq(Octets) /\ Len(R) \in Nat /\ Stream!Remaining = R
    BY LeftType, RemainingIs
<1> HIDE DEF R
<1>3. /\ Stream!OneMore <=> R # <<>>
      /\ R # <<>> => \E x, p : SteppedOn(R, x, p)
    BY <1>1, OneByte
<1>4. ASSUME R # <<>>
      PROVE  1 \in 0..Len(R) /\ 1 <= Len(R) /\ SubSeq(R, 1, 1) = <<R[1]>>
  <2>1. Len(R) # 0
      BY <1>2, <1>4, EmptySeq
  <2>2. 1 \in 1..Len(R)
      BY <1>2, <2>1
  <2>3. R[1] \in Octets
      BY <1>2, <2>2, ElementOfSeq
  <2>4. SubSeq(R, 1, 1) = <<R[1]>>
    <3> DEFINE q == SubSeq(R, 1, 1)
    <3>1. q \in Seq(Octets) /\ Len(q) = 1 /\ q[1] = R[1]
        BY <1>2, <2>2, <2>3
    <3> HIDE DEF q
    <3>2. <<R[1]>> \in Seq(Octets) /\ Len(<<R[1]>>) = 1 /\ <<R[1]>>[1] = R[1]
        BY <2>3
    <3>3. \A i \in 1..Len(q) : q[i] = <<R[1]>>[i]
        BY <3>1, <3>2
    <3>4. q = <<R[1]>>
        BY <3>1, <3>2, <3>3, SeqEqual
    <3> QED BY <3>4 DEF q
  <2> QED BY <2>2, <2>4
<1>5. CASE R # <<>>
  <2>1. PICK x, p : SteppedOn(R, x, p)
      BY <1>3, <1>5
  <2>2. Stream!StepOne
      BY <1>3, <1>5 DEF Stream!block_SkipByte, Stream!block_GetByte, Stream!NoByte
  <2>3. InStream(p_chain', p_block', i_offset') /\ Stream!Remaining' = SubSeq(R, 2, Len(R))
      BY <2>1, <2>2, RemainingIs DEF SteppedOn
  <2>4. Stream!Fifo!Drop(1)
    <3>1. SubSeq(R, 1 + 1, Len(R)) = SubSeq(R, 2, Len(R))
        OBVIOUS
    <3> QED BY <1>2, <2>3, <3>1 DEF Stream!Fifo!Drop
  <2>5. Stream!block_PeekByte = R[1]
      BY <2>1 DEF SteppedOn
  <2>6. Stream!Fifo!Skip(1) \/ Stream!Fifo!Get(1)
    <3>1. CASE Stream!block_SkipByte
        BY <1>2, <1>4, <1>5, <2>4, <3>1 DEF Stream!block_SkipByte, Stream!Fifo!Skip
    <3>2. CASE Stream!block_GetByte
        BY <1>2, <1>4, <1>5, <2>4, <2>5, <3>2 DEF Stream!block_GetByte, Stream!Fifo!Get
    <3>3. CASE Stream!NoByte
        BY <1>3, <1>5, <3>3 DEF Stream!NoByte
    <3> QED BY <3>1, <3>2, <3>3
  <2>7. 1 \in 0..Len(Stream!Remaining)
      BY <1>2, <1>4, <1>5
  <2>8. Stream!Fifo!Next
      BY <2>6, <2>7, Zenon DEF Stream!Fifo!Next
  <2> QED BY <2>3, <2>8 DEF QueueStep
<1>6. CASE R = <<>>
  <2>1. Stream!NoByte
      BY <1>3, <1>6 DEF Stream!block_SkipByte, Stream!block_GetByte
  <2>2. p_chain' = p_chain /\ p_block' = p_block /\ i_offset' = i_offset
        /\ outcome' = [asked |-> 1, bytes |-> <<>>]
      BY <2>1 DEF Stream!NoByte, Stream!stream
  <2>3. Stream!Remaining' = Stream!Remaining /\ InStream(p_chain', p_block', i_offset')
      BY <2>2, RemainingIs
  <2>4. 1 > Len(Stream!Remaining)
      BY <1>2, <1>6
  <2>5. Stream!Fifo!Fail(1)
      BY <2>2, <2>3, <2>4 DEF Stream!Fifo!Fail
  <2>6. 1 \in 0..StreamBytes + 1
      OBVIOUS
  <2>7. Stream!Fifo!Next
      BY <2>5, <2>6, Zenon DEF Stream!Fifo!Next
  <2> QED BY <2>3, <2>7 DEF QueueStep
<1> QED BY <1>5, <1>6

LEMMA BytesQueue ==
    ASSUME StreamBytes \in Nat, InStream(p_chain, p_block, i_offset),
           NEW n \in 0..StreamBytes + 1,
           Stream!block_SkipBytes(n) \/ Stream!block_GetBytes(n) \/ Stream!NoBytes(n)
    PROVE  QueueStep
<1> DEFINE R == Left(p_chain, p_block, i_offset)
           s == Stream!Ahead(n)
<1>1. R \in Seq(Octets) /\ Len(R) \in Nat /\ Stream!Remaining = R /\ n \in Nat
    BY LeftType, RemainingIs
<1>2. Walked(s, n, R)
    BY <1>1, WalkedIs DEF Stream!Ahead
<1> HIDE DEF R
<1>3. Stream!block_WaitBytes(n) <=> n <= Len(R)
    BY <1>2 DEF Walked, Stream!block_WaitBytes
<1>4. CASE n <= Len(R)
  <2>1. Stream!Advance(n)
      BY <1>3, <1>4 DEF Stream!block_SkipBytes, Stream!block_GetBytes, Stream!NoBytes
  <2>2. p_block' = s.block /\ i_offset' = s.offset /\ p_chain' = p_chain
      BY <2>1 DEF Stream!Advance
  <2> HIDE DEF s
  <2>3. s.bytes = SubSeq(R, 1, n) /\ InStream(p_chain, s.block, s.offset)
        /\ Left(p_chain, s.block, s.offset) = SubSeq(R, n + 1, Len(R))
      BY <1>2, <1>4 DEF Walked
  <2>4. InStream(p_chain', p_block', i_offset') /\ Stream!Remaining' = SubSeq(R, n + 1, Len(R))
      BY <2>2, <2>3, RemainingIs
  <2>5. Stream!Fifo!Drop(n)
      BY <1>1, <2>4 DEF Stream!Fifo!Drop
  <2>6. Stream!Fifo!Skip(n) \/ Stream!Fifo!Get(n)
    <3>1. CASE Stream!block_SkipBytes(n)
        BY <1>1, <1>4, <2>5, <3>1 DEF Stream!block_SkipBytes, Stream!Fifo!Skip
    <3>2. CASE Stream!block_GetBytes(n)
        BY <1>1, <1>4, <2>3, <2>5, <3>2 DEF Stream!block_GetBytes, Stream!Fifo!Get, s
    <3>3. CASE Stream!NoBytes(n)
        BY <1>3, <1>4, <3>3 DEF Stream!NoBytes
    <3> QED BY <3>1, <3>2, <3>3
  <2>7. n \in 0..Len(Stream!Remaining)
      BY <1>1, <1>4
  <2>8. Stream!Fifo!Next
      BY <2>6, <2>7, Zenon DEF Stream!Fifo!Next
  <2> QED BY <2>4, <2>8 DEF QueueStep
<1>5. CASE ~(n <= Len(R))
  <2>1. Stream!NoBytes(n)
      BY <1>3, <1>5 DEF Stream!block_SkipBytes, Stream!block_GetBytes
  <2>2. p_chain' = p_chain /\ p_block' = p_block /\ i_offset' = i_offset
        /\ outcome' = [asked |-> n, bytes |-> <<>>]
      BY <2>1 DEF Stream!NoBytes, Stream!stream
  <2>3. Stream!Remaining' = Stream!Remaining /\ InStream(p_chain', p_block', i_offset')
      BY <2>2, RemainingIs
  <2>4. n > Len(Stream!Remaining)
      BY <1>1, <1>5
  <2>5. Stream!Fifo!Fail(n)
      BY <2>2, <2>3, <2>4 DEF Stream!Fifo!Fail
  <2>6. Stream!Fifo!Next
      BY <2>5, Zenon DEF Stream!Fifo!Next
  <2> QED BY <2>3, <2>6 DEF QueueStep
<1> QED BY <1>4, <1>5

LEMMA SameGrows ==
    ASSUME InStream(p_chain, p_block, i_offset),
           Stream!NewSearch \/ UNCHANGED <<Stream!stream, Stream!search>>
    PROVE  SearchKept
<1>1. CASE Stream!NewSearch
    BY <1>1 DEF SearchKept
<1>2. CASE UNCHANGED <<Stream!stream, Stream!search>>
  <2>1. p_chain' = p_chain /\ p_block' = p_block /\ i_offset' = i_offset
      BY <1>2 DEF Stream!stream
  <2>2. Stream!Remaining' = Stream!Remaining
      BY <2>1, RemainingIs
  <2>3. Stream!Remaining \in Seq(Octets)
      BY LeftType, RemainingIs
  <2>4. Stream!Remaining \o <<>> = Stream!Remaining /\ <<>> \in Seq(Octets)
      BY <2>3, ConcatEmptySeq
  <2> QED BY <1>2, <2>2, <2>4 DEF SearchKept, Grown
<1> QED BY <1>1, <1>2

LEMMA NextQueues ==
    ASSUME StreamBytes \in Nat, InStream(p_chain, p_block, i_offset),
           [Stream!Next]_(Stream!vars)
    PROVE  QueueStep /\ (SearchKept \/ Stream!block_FindStartcodeFromOffset)
<1> DEFINE Goal == QueueStep /\ (SearchKept \/ Stream!block_FindStartcodeFromOffset)
<1>1. ASSUME NEW c \in Stream!NewBlocks, Stream!Push(c) \/ Stream!Push(Stream!ChainGather(c))
      PROVE  Goal
  <2>1. c \in Seq(Seq(Octets)) /\ Len(c) # 0
      BY BlocksAre
  <2>2. Stream!ChainGather(c) \in Seq(Seq(Octets)) /\ Len(Stream!ChainGather(c)) # 0
      BY <2>1, GatheredIs
  <2>3. QueueStep /\ SearchKept
      BY <1>1, <2>1, <2>2, PushQueues
  <2> QED BY <2>3
<1>2. ASSUME Stream!block_BytestreamRelease PROVE Goal
  <2>1. p_chain' = <<>> /\ p_block' = 0 /\ i_offset' = 0 /\ outcome' = Stream!Nothing
        /\ Stream!NewSearch
      BY <1>2 DEF Stream!block_BytestreamRelease
  <2>2. InStream(<<>>, 0, 0) /\ Left(<<>>, 0, 0) = <<>>
      BY DEF InStream, Left
  <2>3. InStream(p_chain', p_block', i_offset') /\ Stream!Remaining' = <<>>
      BY <2>1, <2>2, RemainingIs
  <2>4. Stream!Fifo!Release
      BY <2>1, <2>3 DEF Stream!Fifo!Release, Stream!Fifo!Nothing, Stream!Nothing
  <2>5. QueueStep
      BY <2>3, <2>4 DEF QueueStep, Stream!Fifo!Next
  <2> QED BY <2>1, <2>5 DEF SearchKept
<1>3. ASSUME Stream!block_BytestreamFlush PROVE Goal
  <2>1. /\ p_chain' = Stream!Flushed.chain /\ p_block' = Stream!Flushed.block
        /\ i_offset' = Stream!Flushed.offset /\ outcome' = Stream!Nothing
        /\ UNCHANGED Stream!search
      BY <1>3 DEF Stream!block_BytestreamFlush
  <2>2. /\ InStream(p_chain', p_block', i_offset')
        /\ Left(p_chain', p_block', i_offset') = Left(p_chain, p_block, i_offset)
      BY <2>1, FlushedIs
  <2>3. QueueStep /\ Grown
      BY <2>1, <2>2, QueueStays
  <2> QED BY <2>1, <2>3 DEF SearchKept
<1>4. ASSUME Stream!Pop PROVE Goal
  <2>1. Stream!block_BytestreamPop /\ Stream!NewSearch
      BY <1>4 DEF Stream!Pop
  <2>2. QueueStep
      BY <2>1, PopQueues
  <2> QED BY <2>1, <2>2 DEF SearchKept
<1>5. ASSUME Stream!block_SkipByte \/ Stream!block_GetByte \/ Stream!NoByte PROVE Goal
  <2>1. p_block # 0
      BY <1>5 DEF Stream!block_SkipByte, Stream!block_GetByte, Stream!NoByte
  <2>2. QueueStep
      BY <1>5, <2>1, StepQueues
  <2>3. Stream!NewSearch \/ UNCHANGED <<Stream!stream, Stream!search>>
      BY <1>5 DEF Stream!block_SkipByte, Stream!block_GetByte, Stream!NoByte
  <2>4. SearchKept
      BY <2>3, SameGrows
  <2> QED BY <2>2, <2>4
<1>6. ASSUME NEW n \in 0..StreamBytes + 1,
             Stream!block_SkipBytes(n) \/ Stream!block_GetBytes(n) \/ Stream!NoBytes(n)
      PROVE  Goal
  <2>1. QueueStep
      BY <1>6, BytesQueue
  <2>2. Stream!NewSearch \/ UNCHANGED <<Stream!stream, Stream!search>>
      BY <1>6 DEF Stream!block_SkipBytes, Stream!block_GetBytes, Stream!NoBytes
  <2>3. SearchKept
      BY <2>2, SameGrows
  <2> QED BY <2>1, <2>3
<1>7. ASSUME Stream!block_FindStartcodeFromOffset PROVE Goal
  <2>1. p_chain' = p_chain /\ p_block' = p_block /\ i_offset' = i_offset /\ outcome' = Stream!Nothing
      BY <1>7 DEF Stream!block_FindStartcodeFromOffset, Stream!stream
  <2>2. QueueStep
      BY <2>1, QueueStays
  <2> QED BY <1>7, <2>2
<1>8. ASSUME UNCHANGED Stream!vars PROVE Goal
  <2>1. UNCHANGED <<Stream!stream, Stream!search>> /\ p_chain' = p_chain /\ p_block' = p_block
        /\ i_offset' = i_offset /\ outcome' = outcome
      BY <1>8 DEF Stream!vars, Stream!stream
  <2>2. InStream(p_chain', p_block', i_offset') /\ Stream!Remaining' = Stream!Remaining
      BY <2>1, RemainingIs
  <2>3. UNCHANGED Stream!Fifo!vars
      BY <2>1, <2>2 DEF Stream!Fifo!vars
  <2>4. SearchKept
      BY <2>1, SameGrows
  <2> QED BY <2>2, <2>3, <2>4 DEF QueueStep
<1> HIDE DEF Goal
<1>9. Goal
    BY <1>1, <1>2, <1>3, <1>4, <1>5, <1>6, <1>7, <1>8 DEF Stream!Next
<1> QED BY <1>9 DEF Goal

(* The byte streams of vlc_block_helper.h implement a queue of bytes:      *)
(* whatever blocks bytes come in and however reading, flushing and popping *)
(* cut them up, what is to be read is what was pushed and has not left at  *)
(* the front, or with a block popped at the end; waiting and peeking tell  *)
(* the truth of it.                                                        *)
THEOREM StreamIsFifo == Stream!Spec => IsFifo
<1>1. StreamBytes \in Nat
    BY StreamAssumption
<1> DEFINE I == InStream(p_chain, p_block, i_offset)
<1>2. Stream!Init => I /\ Stream!Fifo!Init
  <2>1. SUFFICES ASSUME Stream!Init PROVE I /\ Stream!Fifo!Init
      OBVIOUS
  <2>2. p_chain = <<>> /\ p_block = 0 /\ i_offset = 0 /\ outcome = Stream!Nothing
      BY <2>1 DEF Stream!Init
  <2>3. InStream(<<>>, 0, 0) /\ Left(<<>>, 0, 0) = <<>>
      BY DEF InStream, Left
  <2>4. Stream!Remaining = <<>>
      BY <2>2, <2>3, RemainingIs
  <2> QED BY <2>2, <2>3, <2>4 DEF Stream!Fifo!Init, Stream!Fifo!Nothing, Stream!Nothing
<1>3. I /\ [Stream!Next]_(Stream!vars) => I' /\ [Stream!Fifo!Next]_(Stream!Fifo!vars)
    BY <1>1, NextQueues DEF QueueStep
<1>4. I => Stream!PeeksTrue
    BY <1>1, PeekingIsTrue
<1> HIDE DEF I
<1> QED BY <1>2, <1>3, <1>4, PTL DEF Stream!Spec, IsFifo, Stream!IsFifo, Stream!Fifo!Spec

---------------------------------------------------------------------------
(* The search for a start code.                                            *)

LEMMA LeastBy ==
    ASSUME NEW S, S # {}, NEW m \in [S -> Nat]
    PROVE  \E s \in S : \A t \in S : m[s] <= m[t]
<1> DEFINE M == {m[s] : s \in S}
<1>1. M \in SUBSET Nat /\ M # {}
    OBVIOUS
<1>2. \A s \in S : m[s] \in M
    OBVIOUS
<1>3. \A k \in M : \E s \in S : k = m[s]
    OBVIOUS
<1> HIDE DEF M
<1>4. PICK k \in M : \A j \in M : k <= j
    BY <1>1, Least
<1>5. PICK s \in S : k = m[s]
    BY <1>3
<1> QED BY <1>2, <1>4, <1>5

Hit(s) == p_chain[s.block][s.at + 1] = startcode[s.match + 1]

Onward(s) == [s EXCEPT !.block = s.block + 1, !.at = 0, !.base = s.base + s.at]

BeganAt(s) ==
    IF s.match = 0 THEN [block |-> s.block, at |-> s.at, base |-> s.base] ELSE s.backup

Agreed(s) == [s EXCEPT !.at = s.at + 1, !.match = s.match + 1, !.backup = BeganAt(s)]

Passed(s) == [s EXCEPT !.at = s.at + 1]

ScanOver(s) ==
    \/ s.block > Len(p_chain)
    \/ ~(s.at >= Stream!Size(s.block)) /\ Hit(s) /\ s.match + 1 = Len(startcode)

ScanResult(s) ==
    IF s.block > Len(p_chain) THEN Stream!GivenUp(s)
    ELSE [ok |-> TRUE, offset |-> s.base + s.at - s.match]

ScanNext(s) ==
    IF s.at >= Stream!Size(s.block) THEN Onward(s)
    ELSE IF Hit(s) THEN Agreed(s)
    ELSE IF s.match > 0 THEN Stream!Back(s)
    ELSE Passed(s)

ScanStep(f, s) ==
    IF s.block > Len(p_chain) THEN Stream!GivenUp(s)
    ELSE IF s.at >= Stream!Size(s.block) THEN f[Onward(s)]
    ELSE IF Hit(s) /\ s.match + 1 = Len(startcode)
    THEN [ok |-> TRUE, offset |-> s.base + s.at - s.match]
    ELSE IF Hit(s) THEN f[Agreed(s)]
    ELSE IF s.match > 0 THEN f[Stream!Back(s)]
    ELSE f[Passed(s)]

IsScan(f) == f = [s \in Stream!Searches |-> ScanStep(f, s)]

(* The fields of a search.                                                 *)
Fields(s, x, at, base, match, backup) ==
    /\ s \in Stream!Searches
    /\ s.block = x /\ s.at = at /\ s.base = base /\ s.match = match /\ s.backup = backup

LEMMA FieldsExcept ==
    ASSUME NEW s, NEW x, NEW a, NEW z, NEW m, NEW k, Fields(s, x, a, z, m, k)
    PROVE  /\ \A y \in Nat : Fields([s EXCEPT !.block = y], y, a, z, m, k)
           /\ \A y \in Nat : Fields([s EXCEPT !.at = y], x, y, z, m, k)
           /\ \A y \in Int : Fields([s EXCEPT !.base = y], x, a, y, m, k)
           /\ \A y \in Nat : Fields([s EXCEPT !.match = y], x, a, z, y, k)
           /\ \A y \in Stream!Places : Fields([s EXCEPT !.backup = y], x, a, z, m, y)
<1>1. ASSUME NEW y \in Nat PROVE Fields([s EXCEPT !.block = y], y, a, z, m, k)
    BY DEF Fields, Stream!Searches
<1>2. ASSUME NEW y \in Nat PROVE Fields([s EXCEPT !.at = y], x, y, z, m, k)
    BY DEF Fields, Stream!Searches
<1>3. ASSUME NEW y \in Int PROVE Fields([s EXCEPT !.base = y], x, a, y, m, k)
    BY DEF Fields, Stream!Searches
<1>4. ASSUME NEW y \in Nat PROVE Fields([s EXCEPT !.match = y], x, a, z, y, k)
    BY DEF Fields, Stream!Searches
<1>5. ASSUME NEW y \in Stream!Places PROVE Fields([s EXCEPT !.backup = y], x, a, z, m, y)
    BY DEF Fields, Stream!Searches
<1> QED BY <1>1, <1>2, <1>3, <1>4, <1>5

LEMMA ScanFields ==
    ASSUME NEW s \in Stream!Searches
    PROVE  /\ s.block \in Nat /\ s.at \in Nat /\ s.base \in Int /\ s.match \in Nat
           /\ s.backup.block \in Nat /\ s.backup.at \in Nat /\ s.backup.base \in Int
           /\ Fields(s, s.block, s.at, s.base, s.match, s.backup)
           /\ Fields(Onward(s), s.block + 1, 0, s.base + s.at, s.match, s.backup)
           /\ Fields(Agreed(s), s.block, s.at + 1, s.base, s.match + 1, BeganAt(s))
           /\ Fields(Stream!Back(s), s.backup.block, s.backup.at + 1, s.backup.base, 0, s.backup)
           /\ Fields(Passed(s), s.block, s.at + 1, s.base, s.match, s.backup)
<1>1. /\ s.block \in Nat /\ s.at \in Nat /\ s.base \in Int /\ s.match \in Nat
      /\ s.backup \in Stream!Places
    BY DEF Stream!Searches
<1>2. s.backup.block \in Nat /\ s.backup.at \in Nat /\ s.backup.base \in Int
    BY <1>1 DEF Stream!Places
<1>3. Fields(s, s.block, s.at, s.base, s.match, s.backup)
    BY DEF Fields
<1>4. ASSUME NEW x \in Nat, NEW a \in Nat, NEW z \in Int
      PROVE  Fields([s EXCEPT !.block = x, !.at = a, !.base = z], x, a, z, s.match, s.backup)
  <2> DEFINE s1 == [s EXCEPT !.block = x]
             s2 == [s1 EXCEPT !.at = a]
  <2>1. [s EXCEPT !.block = x, !.at = a, !.base = z] = [s2 EXCEPT !.base = z]
      OBVIOUS
  <2>2. Fields(s1, x, s.at, s.base, s.match, s.backup)
      BY <1>3, FieldsExcept
  <2> HIDE DEF s1
  <2>3. Fields(s2, x, a, s.base, s.match, s.backup)
      BY <2>2, FieldsExcept
  <2> HIDE DEF s2
  <2>4. Fields([s2 EXCEPT !.base = z], x, a, z, s.match, s.backup)
      BY <2>3, FieldsExcept
  <2> QED BY <2>1, <2>4
<1>5. ASSUME NEW a \in Nat, NEW m \in Nat, NEW k \in Stream!Places
      PROVE  Fields([s EXCEPT !.at = a, !.match = m, !.backup = k], s.block, a, s.base, m, k)
  <2> DEFINE s1 == [s EXCEPT !.at = a]
             s2 == [s1 EXCEPT !.match = m]
  <2>1. [s EXCEPT !.at = a, !.match = m, !.backup = k] = [s2 EXCEPT !.backup = k]
      OBVIOUS
  <2>2. Fields(s1, s.block, a, s.base, s.match, s.backup)
      BY <1>3, FieldsExcept
  <2> HIDE DEF s1
  <2>3. Fields(s2, s.block, a, s.base, m, s.backup)
      BY <2>2, FieldsExcept
  <2> HIDE DEF s2
  <2>4. Fields([s2 EXCEPT !.backup = k], s.block, a, s.base, m, k)
      BY <2>3, FieldsExcept
  <2> QED BY <2>1, <2>4
<1>6. ASSUME NEW x \in Nat, NEW a \in Nat, NEW z \in Int
      PROVE  Fields([s EXCEPT !.block = x, !.at = a, !.base = z, !.match = 0], x, a, z, 0, s.backup)
  <2> DEFINE s1 == [s EXCEPT !.block = x, !.at = a, !.base = z]
  <2>1. [s EXCEPT !.block = x, !.at = a, !.base = z, !.match = 0] = [s1 EXCEPT !.match = 0]
      OBVIOUS
  <2>2. Fields(s1, x, a, z, s.match, s.backup)
      BY <1>4
  <2> HIDE DEF s1
  <2>3. 0 \in Nat
      OBVIOUS
  <2> QED BY <2>1, <2>2, <2>3, FieldsExcept
<1>7. Fields(Onward(s), s.block + 1, 0, s.base + s.at, s.match, s.backup)
  <2>1. s.block + 1 \in Nat /\ 0 \in Nat /\ s.base + s.at \in Int
      BY <1>1
  <2> QED BY <1>4, <2>1, Zenon DEF Onward
<1>8. Fields(Agreed(s), s.block, s.at + 1, s.base, s.match + 1, BeganAt(s))
  <2>1. s.at + 1 \in Nat /\ s.match + 1 \in Nat /\ BeganAt(s) \in Stream!Places
      BY <1>1 DEF BeganAt, Stream!Places
  <2> QED BY <1>5, <2>1, Zenon DEF Agreed
<1>9. Fields(Stream!Back(s), s.backup.block, s.backup.at + 1, s.backup.base, 0, s.backup)
  <2>1. s.backup.at + 1 \in Nat
      BY <1>2
  <2>2. Fields([s EXCEPT !.block = s.backup.block, !.at = s.backup.at + 1,
                         !.base = s.backup.base, !.match = 0],
               s.backup.block, s.backup.at + 1, s.backup.base, 0, s.backup)
      BY <1>2, <1>6, <2>1, Zenon
  <2> QED BY <2>2, Zenon DEF Stream!Back
<1>10. Fields(Passed(s), s.block, s.at + 1, s.base, s.match, s.backup)
  <2>1. s.at + 1 \in Nat
      BY <1>1
  <2> QED BY <1>3, <2>1, FieldsExcept, Zenon DEF Passed
<1> QED BY <1>1, <1>2, <1>3, <1>7, <1>8, <1>9, <1>10

LEMMA ScanIs ==
    \A s \in Stream!Searches :
       Stream!Scan[s] = IF ScanOver(s) THEN ScanResult(s) ELSE Stream!Scan[ScanNext(s)]
<1> DEFINE W == Stream!Searches
           Done == {s \in W : ScanOver(s)}
           next == [s \in W |-> IF s \in Done THEN s ELSE ScanNext(s)]
           res == [s \in W |-> ScanResult(s)]
<1>1. next \in [W -> W]
  <2>1. ASSUME NEW s \in W PROVE ScanNext(s) \in W
    <3>1. Onward(s) \in W /\ Agreed(s) \in W /\ Stream!Back(s) \in W /\ Passed(s) \in W
        BY ScanFields DEF Fields
    <3> QED BY <3>1, Zenon DEF ScanNext
  <2> HIDE DEF Done, W
  <2> QED BY <2>1
<1>2. Done \in SUBSET W
    OBVIOUS
<1>3. ASSUME NEW f, NEW s
      PROVE  ScanStep(f, s) = IF ScanOver(s) THEN ScanResult(s) ELSE f[ScanNext(s)]
  <2>1. CASE s.block > Len(p_chain)
      BY <2>1, Zenon DEF ScanStep, ScanOver, ScanResult
  <2>2. CASE ~(s.block > Len(p_chain)) /\ s.at >= Stream!Size(s.block)
      BY <2>2, Zenon DEF ScanStep, ScanOver, ScanNext
  <2>3. CASE ~(s.block > Len(p_chain)) /\ ~(s.at >= Stream!Size(s.block))
      BY <2>3, Zenon DEF ScanStep, ScanOver, ScanNext, ScanResult
  <2> QED BY <2>1, <2>2, <2>3
<1>4. ASSUME NEW f, NEW s \in W
      PROVE  ScanStep(f, s) = IF s \in Done THEN res[s] ELSE f[next[s]]
    BY <1>3
<1> HIDE DEF Done, next, res, W
<1>5. PICK f : GoesOn(f, W, Done, next, res)
    BY <1>1, <1>2, GoingOn
<1>6. IsScan(f)
  <2>1. f = [s \in W |-> ScanStep(f, s)]
      BY <1>4, <1>5, Zenon DEF GoesOn
  <2> QED BY <2>1 DEF IsScan, W
<1> DEFINE h == CHOOSE g : IsScan(g)
<1>7. IsScan(h)
    BY <1>6
<1>8. Stream!Scan = h
    BY DEF Stream!Scan, IsScan, ScanStep, Hit, Onward, Agreed, Passed, BeganAt
<1> HIDE DEF h
<1>9. ASSUME NEW s \in Stream!Searches
      PROVE  Stream!Scan[s] = ScanStep(Stream!Scan, s)
    BY <1>7, <1>8 DEF IsScan
<1> QED BY <1>3, <1>9

(* The search's loop invariant: the place it examines, the bytes that      *)
(* agree from there, no place passed where the start code may begin, and   *)
(* the way back to the place examined.                                     *)
MayBeginIn(R, i) ==
    \A j \in 1..Len(startcode) : i + j <= Len(R) => R[i + j] = startcode[j]

NonePassed(R, q) == \A i \in Nat : i < q => ~MayBeginIn(R, i)

Examined(s) == (s.base + s.at) - s.match

InScan(s, b, R, st) ==
    /\ s \in Stream!Searches /\ s.block \in b..Len(p_chain) + 1
    /\ s.at <= IF s.block = Len(p_chain) + 1 THEN 0 ELSE Len(p_chain[s.block])
    /\ s.base = st[s.block] /\ s.match < Len(startcode) /\ Examined(s) >= 0
    /\ \A j \in 1..s.match : R[Examined(s) + j] = startcode[j]
    /\ NonePassed(R, Examined(s))
    /\ s.match > 0 => /\ s.backup.block \in b..Len(p_chain)
                      /\ s.backup.at < Len(p_chain[s.backup.block])
                      /\ s.backup.base = st[s.backup.block]
                      /\ s.backup.base + s.backup.at = Examined(s)

WellFound(r, R) ==
    /\ r.ok \in BOOLEAN /\ r.offset \in Nat /\ NonePassed(R, r.offset)
    /\ r.ok => MayBeginIn(R, r.offset) /\ r.offset + Len(startcode) <= Len(R)

(* The byte the search looks at.                                           *)
LEMMA ScanLooks ==
    ASSUME NEW b, NEW o, NEW R, NEW st, Placed(p_chain, b, o, R, st),
           NEW s, InScan(s, b, R, st)
    PROVE  /\ Examined(s) \in 0..Len(R) /\ Examined(s) + s.match = s.base + s.at
           /\ Len(p_chain) \in Nat /\ Len(R) \in Nat /\ b \in Nat
           /\ s.block \in Nat /\ s.at \in Nat /\ s.base \in Int /\ s.match \in Nat
           /\ s.block > Len(p_chain) \/ s.block \in b..Len(p_chain)
           /\ s.block \in b..Len(p_chain) =>
                 /\ Len(p_chain[s.block]) \in Nat
                 /\ s.at \in 0..Len(p_chain[s.block])
                 /\ st[s.block + 1] = s.base + Len(p_chain[s.block])
                 /\ s.at < Len(p_chain[s.block]) =>
                       /\ Examined(s) + s.match + 1 \in 1..Len(R)
                       /\ R[Examined(s) + s.match + 1] = p_chain[s.block][s.at + 1]
<1>1. /\ s.block \in Nat /\ s.at \in Nat /\ s.base \in Int /\ s.match \in Nat
    BY ScanFields DEF InScan
<1>2. /\ Len(p_chain) \in Nat /\ Len(R) \in Nat /\ b \in Nat
      /\ Len(R) = st[Len(p_chain) + 1]
    BY PlacedTypes
<1>3. Examined(s) \in Nat /\ Examined(s) + s.match = s.base + s.at /\ s.base = st[s.block]
    BY <1>1 DEF InScan, Examined
<1>4. CASE s.block \in b..Len(p_chain)
  <2> DEFINE x == s.block
             size == Len(p_chain[x])
  <2>1. size \in Nat /\ st[x + 1] = st[x] + size
    <3>1. \A y \in b..Len(p_chain) : Len(p_chain[y]) \in Nat /\ st[y + 1] = st[y] + Len(p_chain[y])
        BY PlacedTypes
    <3> QED BY <1>4, <3>1
  <2>2. x # Len(p_chain) + 1
      BY <1>1, <1>2, <1>4
  <2>3. s.at \in 0..size
      BY <1>1, <2>1, <2>2 DEF InScan
  <2>4. st[x] + s.at \in 0..Len(R)
    <3>1. st[x] + s.at >= 0
        BY <1>1, <1>3
    <3> QED BY <1>4, <2>3, <3>1, ReadOn
  <2>5. ASSUME s.at < size
        PROVE  /\ Examined(s) + s.match + 1 \in 1..Len(R)
               /\ R[Examined(s) + s.match + 1] = p_chain[x][s.at + 1]
    <3> DEFINE p == s.at + 1
    <3>1. p \in 0..size /\ st[x] + p >= 0 /\ st[x] + p = Examined(s) + s.match + 1 /\ st[x] + p >= 1
      <4> DEFINE at == s.at
                 m == s.match
                 z == st[x]
                 q == Examined(s)
      <4>1. at \in Nat /\ m \in Nat /\ z \in Int /\ q \in Nat /\ q + m = z + at
            /\ size \in Nat /\ at < size
          BY <1>1, <1>3, <2>1, <2>5
      <4> HIDE DEF at, m, z, q, size
      <4>2. at + 1 \in 0..size /\ z + (at + 1) >= 0 /\ z + (at + 1) = q + m + 1 /\ z + (at + 1) >= 1
          BY ONLY <4>1
      <4> QED BY <4>2 DEF at, m, z, q
    <3>2. st[x] + p \in 0..Len(R)
      <4> HIDE DEF p
      <4> QED BY <1>4, <3>1, ReadOn
    <3>3. st[x] + p \in 1..Len(R) /\ st[x] < st[x] + p /\ st[x] + p <= st[x + 1]
          /\ (st[x] + p) - st[x] = p
      <4> DEFINE z == st[x]
                 z1 == st[x + 1]
      <4>1. z \in Int /\ z1 = z + size /\ size \in Nat /\ p \in Nat /\ s.at \in Nat /\ p >= 1
            /\ p <= size /\ Len(R) \in Nat
          BY <1>1, <1>2, <1>3, <2>1, <2>5, <3>1
      <4> HIDE DEF z, z1, p, size
      <4>2. z + p \in 0..Len(R) /\ z + p >= 1
          BY <3>1, <3>2 DEF z
      <4>3. z + p \in 1..Len(R) /\ z < z + p /\ z + p <= z1 /\ (z + p) - z = p
          BY ONLY <4>1, <4>2
      <4> QED BY <4>3 DEF z, z1
    <3>4. R[st[x] + p] = p_chain[x][(st[x] + p) - st[x]]
        BY <1>4, <3>3, ByteOf
    <3> QED BY <3>1, <3>3, <3>4
  <2>6. Examined(s) <= Len(R)
      BY <1>1, <1>2, <1>3, <2>4
  <2> QED BY <1>1, <1>2, <1>3, <1>4, <2>1, <2>3, <2>5, <2>6
<1>5. CASE ~(s.block \in b..Len(p_chain))
  <2>1. s.block = Len(p_chain) + 1 /\ s.block > Len(p_chain)
      BY <1>1, <1>2, <1>5 DEF InScan
  <2>2. s.at = 0
      BY <1>1, <2>1 DEF InScan
  <2>3. Examined(s) <= Len(R)
      BY <1>1, <1>2, <1>3, <2>1, <2>2
  <2> QED BY <1>1, <1>2, <1>3, <1>5, <2>1, <2>3
<1> QED BY <1>4, <1>5

(* A place where a byte disagrees is none where the start code may begin.  *)
LEMMA PassedOne ==
    ASSUME NEW R, NEW q \in Nat, NEW m \in Nat, NonePassed(R, q), Len(startcode) \in Nat,
           m < Len(startcode), q + m + 1 <= Len(R), R[q + m + 1] # startcode[m + 1]
    PROVE  NonePassed(R, q + 1)
<1>1. ~MayBeginIn(R, q)
  <2>1. m + 1 \in 1..Len(startcode) /\ q + (m + 1) = q + m + 1
      OBVIOUS
  <2> QED BY <2>1 DEF MayBeginIn
<1>2. \A i \in Nat : i < q + 1 => i < q \/ i = q
    OBVIOUS
<1> QED BY <1>1, <1>2 DEF NonePassed

(* Every step of the search but the last examines a later place, or the    *)
(* same one with one more byte that agrees, or is in a later block.        *)
Advances(s, n) ==
    \/ Examined(s) < Examined(n)
    \/ Examined(s) = Examined(n) /\ s.match < n.match
    \/ Examined(s) = Examined(n) /\ s.match = n.match /\ s.block < n.block

LEMMA ScanAdvances ==
    ASSUME NEW b, NEW o, NEW R, NEW st, Placed(p_chain, b, o, R, st),
           Len(startcode) \in Nat, NEW s, InScan(s, b, R, st)
    PROVE  IF ScanOver(s) THEN WellFound(ScanResult(s), R)
           ELSE InScan(ScanNext(s), b, R, st) /\ Advances(s, ScanNext(s))
<1> DEFINE x == s.block
           a == s.at
           z == s.base
           m == s.match
           k == s.backup
           q == Examined(s)
           L == Len(startcode)
           size == Len(p_chain[x])
           Goal == IF ScanOver(s) THEN WellFound(ScanResult(s), R)
                   ELSE InScan(ScanNext(s), b, R, st) /\ Advances(s, ScanNext(s))
<1>1. /\ q \in 0..Len(R) /\ q + m = z + a
      /\ Len(p_chain) \in Nat /\ Len(R) \in Nat /\ b \in Nat
      /\ x \in Nat /\ a \in Nat /\ z \in Int /\ m \in Nat
      /\ x > Len(p_chain) \/ x \in b..Len(p_chain)
      /\ x \in b..Len(p_chain) =>
            /\ size \in Nat /\ a \in 0..size /\ st[x + 1] = z + size
            /\ a < size => q + m + 1 \in 1..Len(R) /\ R[q + m + 1] = p_chain[x][a + 1]
    BY ScanLooks
<1>2. /\ s \in Stream!Searches /\ x \in b..Len(p_chain) + 1 /\ z = st[x] /\ m < L
      /\ \A j \in 1..m : R[q + j] = startcode[j]
      /\ NonePassed(R, q)
      /\ m > 0 => /\ k.block \in b..Len(p_chain) /\ k.at < Len(p_chain[k.block])
                  /\ k.base = st[k.block] /\ k.base + k.at = q
      /\ x = Len(p_chain) + 1 => a <= 0
    BY DEF InScan
<1>3. /\ k.block \in Nat /\ k.at \in Nat /\ k.base \in Int
      /\ Fields(Onward(s), x + 1, 0, z + a, m, k)
      /\ Fields(Agreed(s), x, a + 1, z, m + 1, BeganAt(s))
      /\ Fields(Stream!Back(s), k.block, k.at + 1, k.base, 0, k)
      /\ Fields(Passed(s), x, a + 1, z, m, k)
    BY <1>2, ScanFields
<1>4. L \in Nat
    OBVIOUS
<1>5. a >= Stream!Size(x) <=> a >= size
    BY DEF Stream!Size
<1>6. Hit(s) <=> p_chain[x][a + 1] = startcode[m + 1]
    BY DEF Hit
<1>7. /\ ScanOver(s) <=> x > Len(p_chain) \/ (~(a >= size) /\ Hit(s) /\ m + 1 = L)
      /\ x > Len(p_chain) => ScanResult(s) = [ok |-> FALSE, offset |-> z - m]
      /\ ~(x > Len(p_chain)) => ScanResult(s) = [ok |-> TRUE, offset |-> z + a - m]
    BY <1>5 DEF ScanOver, ScanResult, Stream!GivenUp
<1>8. /\ a >= size => ScanNext(s) = Onward(s)
      /\ ~(a >= size) /\ Hit(s) => ScanNext(s) = Agreed(s)
      /\ ~(a >= size) /\ ~Hit(s) /\ m > 0 => ScanNext(s) = Stream!Back(s)
      /\ ~(a >= size) /\ ~Hit(s) /\ ~(m > 0) => ScanNext(s) = Passed(s)
    BY <1>5 DEF ScanNext
<1>9. BeganAt(s) = IF m = 0 THEN [block |-> x, at |-> a, base |-> z] ELSE k
    BY DEF BeganAt
<1>10. \A n : n.block = n.block => (Advances(s, n) <=>
              \/ q < Examined(n)
              \/ q = Examined(n) /\ m < n.match
              \/ q = Examined(n) /\ m = n.match /\ x < n.block)
    BY DEF Advances
<1> HIDE DEF x, a, z, m, k, q, L, size
<1>11. CASE x > Len(p_chain)
  <2>1. a = 0 /\ z - m = q
      BY <1>1, <1>2, <1>11
  <2>2. ScanResult(s) = [ok |-> FALSE, offset |-> q] /\ ScanOver(s)
      BY <1>7, <1>11, <2>1
  <2> QED BY <1>1, <1>2, <2>2 DEF WellFound
<1>12. CASE x \in b..Len(p_chain) /\ a >= size
  <2> DEFINE n == Onward(s)
  <2>1. n \in Stream!Searches /\ n.block = x + 1 /\ n.at = 0 /\ n.base = z + a /\ n.match = m
        /\ n.backup = k
      BY <1>3 DEF Fields
  <2> HIDE DEF n
  <2>2. a = size /\ ~(x > Len(p_chain)) /\ x + 1 \in b..Len(p_chain) + 1 /\ z + a = st[x + 1]
      BY <1>1, <1>12
  <2>3. Examined(n) = q
      BY <1>1, <2>1 DEF Examined
  <2>4. n.at <= IF n.block = Len(p_chain) + 1 THEN 0 ELSE Len(p_chain[n.block])
    <3>1. x + 1 # Len(p_chain) + 1 => Len(p_chain[x + 1]) \in Nat
      <4>1. SUFFICES ASSUME x + 1 # Len(p_chain) + 1 PROVE Len(p_chain[x + 1]) \in Nat
          OBVIOUS
      <4>2. x + 1 \in b..Len(p_chain)
          BY <1>1, <2>2, <4>1
      <4> QED BY <4>2, PlacedTypes
    <3> QED BY <2>1, <3>1
  <2>5. InScan(n, b, R, st)
    <3>1. q >= 0
        BY <1>1
    <3> QED BY <1>2, <2>1, <2>2, <2>3, <2>4, <3>1 DEF InScan, L
  <2>6. Advances(s, n)
    <3>1. x < x + 1
        BY <1>1
    <3> QED BY <1>10, <2>1, <2>3, <3>1
  <2> QED BY <1>7, <1>8, <1>12, <2>2, <2>5, <2>6 DEF n
<1>13. CASE x \in b..Len(p_chain) /\ ~(a >= size)
  <2>1. /\ ~(x > Len(p_chain)) /\ size \in Nat /\ a < size
        /\ q + m + 1 \in 1..Len(R) /\ R[q + m + 1] = p_chain[x][a + 1]
        /\ x # Len(p_chain) + 1 /\ q + m + 1 <= Len(R)
      BY <1>1, <1>13
  <2>2. ScanOver(s) <=> Hit(s) /\ m + 1 = L
      BY <1>7, <1>13, <2>1
  <2>3. ASSUME Hit(s) PROVE \A j \in 1..m + 1 : R[q + j] = startcode[j]
    <3>1. R[q + (m + 1)] = startcode[m + 1]
      <4>1. q + (m + 1) = q + m + 1
          BY <1>1
      <4> QED BY <1>6, <2>1, <2>3, <4>1
    <3>2. \A j \in 1..m + 1 : j \in 1..m \/ j = m + 1
        BY <1>1
    <3> QED BY <1>2, <3>1, <3>2
  <2>4. CASE Hit(s) /\ m + 1 = L
    <3>1. z + a - m = q
        BY <1>1
    <3>2. ScanResult(s) = [ok |-> TRUE, offset |-> q]
        BY <1>7, <2>1, <3>1
    <3>3. MayBeginIn(R, q)
        BY <2>3, <2>4 DEF MayBeginIn, L
    <3>4. q + L <= Len(R)
        BY <1>1, <2>1, <2>4
    <3>5. WellFound(ScanResult(s), R)
        BY <1>1, <1>2, <3>2, <3>3, <3>4 DEF WellFound, L
    <3> QED BY <2>2, <2>4, <3>5
  <2>5. CASE Hit(s) /\ m + 1 # L
    <3> DEFINE n == Agreed(s)
    <3>1. n \in Stream!Searches /\ n.block = x /\ n.at = a + 1 /\ n.base = z /\ n.match = m + 1
          /\ n.backup = BeganAt(s)
        BY <1>3 DEF Fields
    <3> HIDE DEF n
    <3>2. Examined(n) = q
      <4>1. (z + (a + 1)) - (m + 1) = q
        <5>1. q \in Int /\ z \in Int /\ a \in Int /\ m \in Int /\ q + m = z + a
            BY <1>1
        <5> QED BY ONLY <5>1
      <4> QED BY <3>1, <4>1 DEF Examined
    <3>3. a + 1 <= size /\ m + 1 < L /\ q >= 0 /\ m < m + 1 /\ ~(a >= size)
        BY <1>1, <1>2, <1>4, <1>13, <2>1, <2>5
    <3>4. n.at <= IF n.block = Len(p_chain) + 1 THEN 0 ELSE Len(p_chain[n.block])
        BY <2>1, <3>1, <3>3 DEF size
    <3>5. /\ n.backup.block \in b..Len(p_chain) /\ n.backup.at < Len(p_chain[n.backup.block])
          /\ n.backup.base = st[n.backup.block] /\ n.backup.base + n.backup.at = q
      <4>1. CASE m = 0
        <5>1. n.backup = [block |-> x, at |-> a, base |-> z]
            BY <1>9, <3>1, <4>1
        <5>2. z + a = q
            BY <1>1, <4>1
        <5> QED BY <1>2, <1>13, <2>1, <5>1, <5>2 DEF size
      <4>2. CASE m # 0
        <5>1. m > 0 /\ n.backup = k
            BY <1>1, <1>9, <3>1, <4>2
        <5> QED BY <1>2, <5>1
      <4> QED BY <4>1, <4>2
    <3>6. InScan(n, b, R, st)
        BY <1>2, <2>3, <2>5, <3>1, <3>2, <3>3, <3>4, <3>5 DEF InScan, L
    <3>7. Advances(s, n)
        BY <1>10, <3>1, <3>2, <3>3
    <3> QED BY <1>8, <2>2, <2>5, <3>3, <3>6, <3>7 DEF n
  <2>6. CASE ~Hit(s)
    <3>1. NonePassed(R, q + 1)
      <4>1. R[q + m + 1] # startcode[m + 1]
          BY <1>6, <2>1, <2>6
      <4> QED BY <1>1, <1>2, <1>4, <2>1, <4>1, PassedOne DEF L
    <3>2. q + 1 >= 0 /\ q < q + 1 /\ 0 < L /\ ~(0 > 0)
      <4>1. q \in Nat /\ m \in Nat /\ L \in Nat /\ m < L
          BY <1>1, <1>2, <1>4
      <4> QED BY ONLY <4>1
    <3>3. \A j \in 1..0 : R[q + 1 + j] = startcode[j]
        OBVIOUS
    <3>4. CASE m > 0
      <4> DEFINE n == Stream!Back(s)
      <4>1. n \in Stream!Searches /\ n.block = k.block /\ n.at = k.at + 1 /\ n.base = k.base
            /\ n.match = 0 /\ n.backup = k
          BY <1>3 DEF Fields
      <4> HIDE DEF n
      <4>2. k.block \in b..Len(p_chain) /\ k.at < Len(p_chain[k.block]) /\ k.base = st[k.block]
            /\ k.base + k.at = q
          BY <1>2, <3>4
      <4>3. Len(p_chain[k.block]) \in Nat /\ k.block # Len(p_chain) + 1
            /\ k.block \in b..Len(p_chain) + 1
        <5>1. Len(p_chain[k.block]) \in Nat
            BY <4>2, PlacedTypes
        <5> DEFINE y == k.block
        <5>2. y \in Nat /\ y \in b..Len(p_chain) /\ b \in Nat /\ Len(p_chain) \in Nat
            BY <1>1, <1>3, <4>2
        <5> HIDE DEF y
        <5>3. y # Len(p_chain) + 1 /\ y \in b..Len(p_chain) + 1
            BY ONLY <5>2
        <5> QED BY <5>1, <5>3 DEF y
      <4>4. Examined(n) = q + 1
        <5>1. (k.base + (k.at + 1)) - 0 = q + 1
          <6> DEFINE y == k.base
                     w == k.at
          <6>1. q \in Int /\ y \in Int /\ w \in Int /\ y + w = q
            <7>1. k.block \in b..Len(p_chain) /\ k.base + k.at = q
                BY <4>2
            <7>2. q \in Int /\ k.base \in Int /\ k.at \in Int
                BY <1>1, <1>3
            <7> QED BY <7>1, <7>2
          <6> HIDE DEF y, w
          <6>2. (y + (w + 1)) - 0 = q + 1
              BY ONLY <6>1
          <6> QED BY <6>2 DEF y, w
        <5> QED BY <4>1, <5>1 DEF Examined
      <4>5. n.at <= IF n.block = Len(p_chain) + 1 THEN 0 ELSE Len(p_chain[n.block])
          BY <1>3, <4>1, <4>2, <4>3
      <4>6. InScan(n, b, R, st)
          BY <3>1, <3>2, <3>3, <4>1, <4>2, <4>3, <4>4, <4>5 DEF InScan, L
      <4>7. Advances(s, n)
          BY <1>10, <3>2, <4>4
      <4> QED BY <1>8, <1>13, <2>2, <2>6, <3>4, <4>6, <4>7 DEF n
    <3>5. CASE ~(m > 0)
      <4> DEFINE n == Passed(s)
      <4>1. m = 0
          BY <1>1, <3>5
      <4>2. n \in Stream!Searches /\ n.block = x /\ n.at = a + 1 /\ n.base = z
            /\ n.match = 0 /\ n.backup = k
          BY <1>3, <4>1 DEF Fields
      <4> HIDE DEF n
      <4>3. Examined(n) = q + 1
          BY <1>1, <4>1, <4>2 DEF Examined
      <4>4. n.at <= IF n.block = Len(p_chain) + 1 THEN 0 ELSE Len(p_chain[n.block])
        <5>1. a + 1 <= size
            BY <1>1, <2>1
        <5> QED BY <2>1, <4>2, <5>1 DEF size
      <4>5. InScan(n, b, R, st)
          BY <1>2, <3>1, <3>2, <3>3, <4>2, <4>3, <4>4 DEF InScan, L
      <4>6. Advances(s, n)
          BY <1>10, <3>2, <4>3
      <4> QED BY <1>8, <1>13, <2>2, <2>6, <3>5, <4>5, <4>6 DEF n
    <3> QED BY <3>4, <3>5
  <2> QED BY <2>4, <2>5, <2>6
<1>14. Goal
    BY <1>1, <1>11, <1>12, <1>13
<1> QED BY <1>14

(* So the search comes to an end, and what it finds is true.               *)
LEMMA ScanFinds ==
    ASSUME NEW b, NEW o, NEW R, NEW st, Placed(p_chain, b, o, R, st),
           Len(startcode) \in Nat, NEW s, InScan(s, b, R, st)
    PROVE  WellFound(Stream!Scan[s], R)
<1> DEFINE Bad == {t \in Stream!Searches : InScan(t, b, R, st) /\ ~WellFound(Stream!Scan[t], R)}
           L == Len(startcode)
           B == Len(p_chain) + 1
<1>1. ASSUME NEW t, InScan(t, b, R, st)
      PROVE  /\ Len(R) - Examined(t) \in Nat /\ Examined(t) \in Nat
             /\ L - t.match \in Nat /\ t.match \in Nat
             /\ B - t.block \in Nat /\ t.block \in Nat
  <2>1. /\ Examined(t) \in 0..Len(R) /\ Len(p_chain) \in Nat /\ Len(R) \in Nat /\ b \in Nat
        /\ t.block \in Nat /\ t.match \in Nat
      BY <1>1, ScanLooks
  <2>2. t.block \in b..B /\ t.match < L
      BY <1>1 DEF InScan
  <2> HIDE DEF L
  <2>3. L \in Nat
      BY DEF L
  <2>4. Len(R) - Examined(t) \in Nat /\ L - t.match \in Nat
      BY <2>1, <2>2, <2>3
  <2>5. B - t.block \in Nat
      BY <2>1, <2>2
  <2> QED BY <2>1, <2>4, <2>5
<1>2. SUFFICES ASSUME Bad # {} PROVE FALSE
  <2>1. s \in Stream!Searches
      BY DEF InScan
  <2> QED BY <2>1
<1>3. \A t \in Bad : InScan(t, b, R, st) /\ ~WellFound(Stream!Scan[t], R)
    OBVIOUS
<1>4. \A t : InScan(t, b, R, st) /\ ~WellFound(Stream!Scan[t], R) => t \in Bad
    BY DEF InScan
<1> HIDE DEF Bad, L, B
<1> DEFINE m1 == [t \in Bad |-> Len(R) - Examined(t)]
<1>5. PICK s1 \in Bad : \A t \in Bad : m1[s1] <= m1[t]
  <2>1. m1 \in [Bad -> Nat]
      BY <1>1, <1>3
  <2> HIDE DEF m1
  <2> QED BY <1>2, <2>1, LeastBy
<1> DEFINE Bad2 == {t \in Bad : Examined(t) = Examined(s1)}
           m2 == [t \in Bad2 |-> L - t.match]
<1>6. PICK s2 \in Bad2 : \A t \in Bad2 : m2[s2] <= m2[t]
  <2>1. m2 \in [Bad2 -> Nat] /\ Bad2 # {}
      BY <1>1, <1>3
  <2> HIDE DEF m2, Bad2
  <2> QED BY <2>1, LeastBy
<1> DEFINE Bad3 == {t \in Bad2 : t.match = s2.match}
           m3 == [t \in Bad3 |-> B - t.block]
<1>7. PICK s3 \in Bad3 : \A t \in Bad3 : m3[s3] <= m3[t]
  <2>1. m3 \in [Bad3 -> Nat] /\ Bad3 # {}
      BY <1>1, <1>3
  <2> HIDE DEF m3, Bad3
  <2> QED BY <2>1, LeastBy
<1> DEFINE n == ScanNext(s3)
<1>8. InScan(s3, b, R, st) /\ ~WellFound(Stream!Scan[s3], R) /\ s3 \in Bad
      /\ Examined(s3) = Examined(s1) /\ s3.match = s2.match
    BY <1>3, <1>7
<1>9. s3 \in Stream!Searches
    BY <1>8 DEF InScan
<1>10. IF ScanOver(s3) THEN WellFound(ScanResult(s3), R)
       ELSE InScan(n, b, R, st) /\ Advances(s3, n)
    BY <1>8, ScanAdvances
<1>11. Stream!Scan[s3] = IF ScanOver(s3) THEN ScanResult(s3) ELSE Stream!Scan[n]
    BY <1>9, ScanIs
<1> HIDE DEF n
<1>12. n \in Bad /\ Advances(s3, n) /\ InScan(n, b, R, st)
    BY <1>4, <1>8, <1>10, <1>11
<1>13. /\ Len(R) - Examined(n) \in Nat /\ Examined(n) \in Nat /\ Examined(s3) \in Nat
       /\ L - n.match \in Nat /\ n.match \in Nat /\ s3.match \in Nat
       /\ B - n.block \in Nat /\ n.block \in Nat /\ s3.block \in Nat
       /\ Len(R) \in Nat /\ L \in Nat /\ Len(p_chain) \in Nat
  <2>1. Len(R) \in Nat /\ Len(p_chain) \in Nat
      BY PlacedTypes
  <2> QED BY <1>1, <1>8, <1>12, <2>1 DEF L
<1>14. Len(R) - Examined(s3) <= Len(R) - Examined(n)
    BY <1>5, <1>8, <1>12
<1>15. ~(Examined(s3) < Examined(n))
    BY <1>13, <1>14
<1>16. ASSUME Examined(s3) = Examined(n) PROVE ~(s3.match < n.match)
  <2>1. n \in Bad2
      BY <1>8, <1>12, <1>16
  <2>2. L - s3.match <= L - n.match
      BY <1>6, <1>8, <2>1
  <2>3. L \in Nat /\ s3.match \in Nat /\ n.match \in Nat
      BY <1>13
  <2> QED BY ONLY <2>2, <2>3
<1>17. ASSUME Examined(s3) = Examined(n), s3.match = n.match PROVE ~(s3.block < n.block)
  <2>1. n \in Bad3
      BY <1>8, <1>12, <1>17
  <2>2. B - s3.block <= B - n.block
      BY <1>7, <2>1
  <2>3. B \in Nat /\ s3.block \in Nat /\ n.block \in Nat
      BY <1>13 DEF B
  <2> QED BY ONLY <2>2, <2>3
<1> QED BY <1>12, <1>15, <1>16, <1>17 DEF Advances

(* The bytes up to the end of each block from p_block on.                  *)
IsUpTo(f) ==
    f = [b \in p_block - 1..Len(p_chain) |->
           IF b = p_block - 1 THEN 0 ELSE f[b - 1] + Stream!Size(b)]

Wanted(f) == {b \in p_block..Len(p_chain) : b # 0 /\ f[b] > pi_offset + i_offset}

SearchFrom(w, at) ==
    [block |-> w, at |-> at, base |-> pi_offset - at, match |-> 0,
     backup |-> [block |-> w, at |-> at, base |-> pi_offset - at]]

LEMMA UpToIs ==
    ASSUME NEW R, NEW st, Placed(p_chain, p_block, i_offset, R, st),
           NEW f, f = CHOOSE g : IsUpTo(g)
    PROVE  \A b \in p_block - 1..Len(p_chain) : f[b] = st[b + 1] + i_offset
<1> DEFINE h == [b \in p_block - 1..Len(p_chain) |-> st[b + 1] + i_offset]
           S == {b \in p_block - 1..Len(p_chain) : f[b] = st[b + 1] + i_offset}
<1>1. /\ Len(p_chain) \in Nat /\ p_block \in Nat /\ i_offset \in Nat
      /\ p_block \in 1..Len(p_chain) /\ st[p_block] + i_offset = 0
      /\ \A x \in p_block..Len(p_chain) : /\ Len(p_chain[x]) \in Nat
                                          /\ st[x + 1] = st[x] + Len(p_chain[x])
      /\ \A x \in p_block..Len(p_chain) + 1 : st[x] \in Int
    BY PlacedTypes
<1>2. st[p_block - 1 + 1] + i_offset = 0 /\ p_block - 1 \in p_block - 1..Len(p_chain)
    BY <1>1
<1>3. ASSUME NEW b \in p_block..Len(p_chain)
      PROVE  /\ b # p_block - 1 /\ b - 1 \in p_block - 1..Len(p_chain)
             /\ b \in p_block - 1..Len(p_chain)
             /\ st[b - 1 + 1] + i_offset + Len(p_chain[b]) = st[b + 1] + i_offset
  <2>1. b \in Int /\ b - 1 + 1 = b /\ b \in p_block..Len(p_chain) + 1
      BY <1>1
  <2>2. st[b] \in Int /\ Len(p_chain[b]) \in Nat /\ st[b + 1] = st[b] + Len(p_chain[b])
      BY <1>1, <2>1
  <2>3. b # p_block - 1 /\ b - 1 \in p_block - 1..Len(p_chain) /\ b \in p_block - 1..Len(p_chain)
      BY <1>1
  <2>4. st[b - 1 + 1] + i_offset + Len(p_chain[b]) = st[b + 1] + i_offset
      BY <1>1, <2>1, <2>2
  <2> QED BY <2>3, <2>4
<1>4. IsUpTo(h)
  <2>1. ASSUME NEW b \in p_block - 1..Len(p_chain)
        PROVE  h[b] = IF b = p_block - 1 THEN 0 ELSE h[b - 1] + Stream!Size(b)
    <3>1. CASE b = p_block - 1
        BY <1>2, <3>1
    <3>2. CASE b # p_block - 1
      <4>1. b \in p_block..Len(p_chain)
          BY <1>1, <3>2
      <4> QED BY <1>3, <3>2, <4>1 DEF Stream!Size
    <3> QED BY <3>1, <3>2
  <2> QED BY <2>1 DEF IsUpTo
<1> HIDE DEF h
<1>5. IsUpTo(f)
    BY <1>4
<1>6. \A b \in p_block - 1..Len(p_chain) :
         f[b] = IF b = p_block - 1 THEN 0 ELSE f[b - 1] + Stream!Size(b)
    BY <1>5 DEF IsUpTo
<1>7. p_block - 1 \in S
    BY <1>2, <1>6
<1>8. ASSUME NEW b \in p_block - 1 + 1..Len(p_chain), b - 1 \in S PROVE b \in S
  <2>1. b \in p_block..Len(p_chain)
      BY <1>1
  <2>2. f[b - 1] = st[b - 1 + 1] + i_offset
      BY <1>8
  <2>3. f[b] = f[b - 1] + Len(p_chain[b])
      BY <1>3, <1>6, <2>1 DEF Stream!Size
  <2> QED BY <1>3, <2>1, <2>2, <2>3
<1>9. p_block - 1 \in Int /\ Len(p_chain) \in Int
    BY <1>1
<1>10. \A b \in p_block - 1 + 1..Len(p_chain) : b - 1 \in S => b \in S
    BY <1>8
<1> HIDE DEF S
<1>11. \A b \in p_block - 1..Len(p_chain) : b \in S
    BY <1>7, <1>9, <1>10, CountingUp
<1> QED BY <1>11 DEF S

(* A search that goes on from where nothing has been passed finds what is  *)
(* there, or passes nothing that may begin there.                          *)
LEMMA FindsTrue ==
    ASSUME InStream(p_chain, p_block, i_offset), startcode \in Seq(Octets), startcode # <<>>,
           pi_offset \in Nat, NEW R, R = Left(p_chain, p_block, i_offset),
           NonePassed(R, pi_offset)
    PROVE  WellFound(Stream!FindStartcode, R)
<1> DEFINE u == CHOOSE g : IsUpTo(g)
           W == Wanted(u)
           w == Stream!Least(W)
           at == pi_offset + i_offset - u[w - 1]
<1>1. Stream!FindStartcode =
        IF W = {} THEN [ok |-> FALSE, offset |-> pi_offset]
        ELSE Stream!Scan[SearchFrom(w, at)]
    BY DEF Stream!FindStartcode, Wanted, SearchFrom, IsUpTo
<1>2. Len(startcode) \in Nat /\ 0 < Len(startcode)
    BY EmptySeq
<1>3. CASE W = {}
  <2>1. Stream!FindStartcode = [ok |-> FALSE, offset |-> pi_offset]
      BY <1>1, <1>3
  <2> QED BY <2>1 DEF WellFound
<1>4. CASE W # {}
  <2>1. p_block # 0
    <3>1. SUFFICES ASSUME p_block = 0 PROVE W = {}
        BY <1>4
    <3>2. \A b \in p_block..Len(p_chain) : b = 0
        BY <3>1 DEF InStream
    <3> QED BY <3>2 DEF Wanted
  <2>2. PICK st : Placed(p_chain, p_block, i_offset, R, st)
      BY <2>1, LeftIsPlaced
  <2>3. \A b \in p_block - 1..Len(p_chain) : u[b] = st[b + 1] + i_offset
      BY <2>2, UpToIs
  <2>4. /\ Len(p_chain) \in Nat /\ p_block \in Nat /\ i_offset \in Nat
        /\ p_block \in 1..Len(p_chain) /\ st[p_block] + i_offset = 0
        /\ \A x \in p_block..Len(p_chain) : /\ Len(p_chain[x]) \in Nat
                                            /\ st[x + 1] = st[x] + Len(p_chain[x])
        /\ \A x \in p_block..Len(p_chain) + 1 : st[x] \in Int
      BY <2>2, PlacedTypes
  <2>5. W \in SUBSET Nat
      BY <2>4 DEF Wanted
  <2> HIDE DEF u, W
  <2>6. PICK v \in W : \A y \in W : v <= y
      BY <1>4, <2>5, Least
  <2>7. w = v
      BY <2>5, <2>6, LeastIs
  <2>8. v \in p_block..Len(p_chain) /\ v \in Nat /\ u[v] > pi_offset + i_offset
      BY <2>4, <2>6 DEF Wanted, W
  <2>9. /\ v \in p_block - 1..Len(p_chain) /\ v - 1 \in p_block - 1..Len(p_chain)
        /\ v - 1 + 1 = v /\ v \in p_block..Len(p_chain) + 1
      BY <2>4, <2>8
  <2>10. u[v] = st[v + 1] + i_offset /\ u[v - 1] = st[v] + i_offset
      BY <2>3, <2>9
  <2>11. st[v] \in Int /\ Len(p_chain[v]) \in Nat /\ st[v + 1] = st[v] + Len(p_chain[v])
      BY <2>4, <2>8, <2>9
  <2>12. st[v] <= pi_offset
    <3>1. CASE v = p_block
      <4>1. st[v] + i_offset = 0
          BY <2>4, <3>1
      <4> QED BY <2>4, <2>11, <4>1
    <3>2. CASE v # p_block
      <4>1. v - 1 \in p_block..Len(p_chain) /\ v - 1 # 0 /\ ~(v <= v - 1)
          BY <2>4, <2>8, <3>2
      <4>2. v - 1 \notin W
          BY <2>6, <4>1
      <4>3. ~(u[v - 1] > pi_offset + i_offset)
          BY <4>1, <4>2 DEF W, Wanted
      <4> QED BY <2>4, <2>10, <2>11, <4>3
    <3> QED BY <3>1, <3>2
  <2> DEFINE a == pi_offset - st[v]
  <2>13. at = a /\ pi_offset - at = st[v] /\ a \in Nat /\ a < Len(p_chain[v])
    <3>1. at = pi_offset + i_offset - (st[v] + i_offset)
        BY <2>7, <2>10
    <3> DEFINE z == st[v]
               z1 == st[v + 1]
               size == Len(p_chain[v])
    <3>2. z \in Int /\ z1 = z + size /\ size \in Nat /\ z <= pi_offset /\ i_offset \in Nat
          /\ z1 + i_offset > pi_offset + i_offset /\ pi_offset \in Nat
        BY <2>4, <2>8, <2>10, <2>11, <2>12
    <3> HIDE DEF z, z1, size
    <3>3. pi_offset + i_offset - (z + i_offset) = pi_offset - z /\ pi_offset - (pi_offset - z) = z
          /\ pi_offset - z \in Nat /\ pi_offset - z < size
        BY ONLY <3>2
    <3> QED BY <3>1, <3>3 DEF z, size
  <2> HIDE DEF a, at, w
  <2> DEFINE s == SearchFrom(v, a)
             k == [block |-> v, at |-> a, base |-> st[v]]
  <2>14. pi_offset - a = st[v]
      BY <2>13
  <2>15. s = [block |-> v, at |-> a, base |-> st[v], match |-> 0, backup |-> k]
      BY <2>14 DEF SearchFrom
  <2>16. s \in Stream!Searches /\ s.block = v /\ s.at = a /\ s.base = st[v] /\ s.match = 0
      BY <2>8, <2>11, <2>13, <2>15 DEF Stream!Searches, Stream!Places
  <2> HIDE DEF s, k
  <2>17. Examined(s) = pi_offset
    <3>1. (st[v] + a) - 0 = pi_offset
        BY <2>11, <2>13, <2>14
    <3> QED BY <2>16, <3>1 DEF Examined
  <2>18. InScan(s, p_block, R, st)
    <3>1. v \in p_block..Len(p_chain) + 1 /\ v # Len(p_chain) + 1 /\ a <= Len(p_chain[v])
          /\ pi_offset >= 0 /\ ~(0 > 0)
      <4>1. v \in p_block..Len(p_chain) + 1 /\ v # Len(p_chain) + 1
          BY <2>4, <2>8
      <4>2. a <= Len(p_chain[v])
          BY <2>11, <2>13
      <4> QED BY <4>1, <4>2
    <3> QED BY <1>2, <2>16, <2>17, <3>1 DEF InScan
  <2>19. WellFound(Stream!Scan[s], R)
      BY <1>2, <2>2, <2>18, ScanFinds
  <2>20. Stream!FindStartcode = Stream!Scan[s]
      BY <1>1, <1>4, <2>7, <2>13 DEF s
  <2> QED BY <2>19, <2>20
<1> QED BY <1>3, <1>4

LEMMA MissedIs ==
    ASSUME NEW R, R = Stream!Remaining, pi_offset \in Nat
    PROVE  /\ \A i : Stream!MayBegin(i) <=> MayBeginIn(R, i)
           /\ Stream!NothingMissed <=>
                /\ NonePassed(R, pi_offset)
                /\ found => MayBeginIn(R, pi_offset) /\ pi_offset + Len(startcode) <= Len(R)
<1>1. \A i : Stream!MayBegin(i) <=> MayBeginIn(R, i)
    BY DEF Stream!MayBegin, MayBeginIn
<1>2. (\A i \in 0..pi_offset - 1 : ~Stream!MayBegin(i)) <=> NonePassed(R, pi_offset)
  <2>1. \A i : i \in 0..pi_offset - 1 <=> i \in Nat /\ i < pi_offset
      OBVIOUS
  <2> QED BY <1>1, <2>1 DEF NonePassed
<1> QED BY <1>1, <1>2 DEF Stream!NothingMissed

(* More data change nothing of what has been looked at.                    *)
LEMMA MoreData ==
    ASSUME NEW R \in Seq(Octets), NEW X \in Seq(Octets), Len(startcode) \in Nat,
           NEW q \in Nat, NonePassed(R, q)
    PROVE  /\ NonePassed(R \o X, q)
           /\ MayBeginIn(R, q) /\ q + Len(startcode) <= Len(R) =>
                MayBeginIn(R \o X, q) /\ q + Len(startcode) <= Len(R \o X)
<1>1. /\ Len(R \o X) = Len(R) + Len(X) /\ Len(R) \in Nat /\ Len(X) \in Nat
      /\ \A i \in 1..Len(R) : (R \o X)[i] = R[i]
    BY ConcatProperties
<1>2. ASSUME NEW i \in Nat, NEW j \in 1..Len(startcode), i + j <= Len(R)
      PROVE  i + j <= Len(R \o X) /\ (R \o X)[i + j] = R[i + j]
  <2>1. i + j \in 1..Len(R)
      BY <1>1, <1>2
  <2> QED BY <1>1, <2>1
<1>3. ASSUME NEW i \in Nat, i < q PROVE ~MayBeginIn(R \o X, i)
  <2>1. ~MayBeginIn(R, i)
      BY <1>3 DEF NonePassed
  <2>2. PICK j \in 1..Len(startcode) : i + j <= Len(R) /\ R[i + j] # startcode[j]
      BY <2>1 DEF MayBeginIn
  <2> QED BY <1>2, <2>2 DEF MayBeginIn
<1>4. ASSUME MayBeginIn(R, q), q + Len(startcode) <= Len(R)
      PROVE  MayBeginIn(R \o X, q) /\ q + Len(startcode) <= Len(R \o X)
  <2>1. \A j \in 1..Len(startcode) : q + j <= Len(R)
      BY <1>1, <1>4
  <2> QED BY <1>1, <1>2, <1>4, <2>1 DEF MayBeginIn
<1> QED BY <1>3, <1>4 DEF NonePassed

LEMMA IInvIs ==
    Stream!IInv <=> /\ InStream(p_chain, p_block, i_offset)
                    /\ startcode \in Startcodes /\ pi_offset \in Nat /\ found \in BOOLEAN
                    /\ Stream!NothingMissed
BY DEF Stream!IInv, InStream, Stream!Size

LEMMA NextMissesNone ==
    ASSUME Stream!IInv, [Stream!Next]_(Stream!vars)
    PROVE  Stream!IInv'
<1> DEFINE R == Stream!Remaining
<1>1. StreamBytes \in Nat /\ \A code \in Startcodes : code \in Seq(Octets) /\ code # <<>>
    BY StreamAssumption
<1>2. /\ InStream(p_chain, p_block, i_offset)
      /\ startcode \in Startcodes /\ pi_offset \in Nat /\ found \in BOOLEAN
      /\ Stream!NothingMissed
    BY IInvIs
<1>3. startcode \in Seq(Octets) /\ startcode # <<>> /\ Len(startcode) \in Nat
    BY <1>1, <1>2
<1>4. R = Left(p_chain, p_block, i_offset) /\ R \in Seq(Octets)
    BY <1>2, RemainingIs, LeftType
<1>5. QueueStep /\ (SearchKept \/ Stream!block_FindStartcodeFromOffset)
    BY <1>1, <1>2, NextQueues
<1>6. InStream(p_chain', p_block', i_offset')
    BY <1>5 DEF QueueStep
<1> HIDE DEF R
<1>7. /\ NonePassed(R, pi_offset)
      /\ found => MayBeginIn(R, pi_offset) /\ pi_offset + Len(startcode) <= Len(R)
    BY <1>2, MissedIs DEF R
<1>8. ASSUME NEW Q, Q = Stream!Remaining', startcode' = startcode, pi_offset' \in Nat,
             found' \in BOOLEAN, NonePassed(Q, pi_offset'),
             found' => MayBeginIn(Q, pi_offset') /\ pi_offset' + Len(startcode) <= Len(Q)
      PROVE  Stream!IInv'
  <2>1. \A i : (Stream!MayBegin(i))' <=> MayBeginIn(Q, i)
      BY <1>8 DEF Stream!MayBegin, MayBeginIn
  <2>2. \A i \in 0..pi_offset' - 1 : ~(Stream!MayBegin(i))'
    <3>1. \A p \in Nat : \A i \in 0..p - 1 : i \in Nat /\ i < p
      <4>1. SUFFICES ASSUME NEW p \in Nat, NEW i \in 0..p - 1 PROVE i \in Nat /\ i < p
          OBVIOUS
      <4> QED BY ONLY p \in Nat, i \in 0..p - 1
    <3>2. \A i \in 0..pi_offset' - 1 : i \in Nat /\ i < pi_offset'
        BY <1>8, <3>1
    <3> QED BY <1>8, <2>1, <3>2 DEF NonePassed
  <2>3. Stream!NothingMissed'
      BY <1>8, <2>1, <2>2 DEF Stream!NothingMissed
  <2> QED BY <1>2, <1>6, <1>8, <2>3 DEF Stream!IInv, InStream, Stream!Size
<1>9. CASE Stream!NewSearch
  <2>1. startcode' = startcode /\ pi_offset' = 0 /\ found' = FALSE
      BY <1>9 DEF Stream!NewSearch
  <2>2. NonePassed(Stream!Remaining', 0)
      BY DEF NonePassed
  <2> QED BY <1>8, <2>1, <2>2
<1>10. CASE UNCHANGED Stream!search /\ Grown
  <2>1. startcode' = startcode /\ pi_offset' = pi_offset /\ found' = found
      BY <1>10 DEF Stream!search
  <2>2. PICK X \in Seq(Octets) : Stream!Remaining' = R \o X
      BY <1>10 DEF Grown, R
  <2>3. /\ NonePassed(R \o X, pi_offset)
        /\ MayBeginIn(R, pi_offset) /\ pi_offset + Len(startcode) <= Len(R) =>
             MayBeginIn(R \o X, pi_offset) /\ pi_offset + Len(startcode) <= Len(R \o X)
      BY <1>2, <1>3, <1>4, <1>7, MoreData
  <2> QED BY <1>2, <1>7, <1>8, <2>1, <2>2, <2>3
<1>11. CASE Stream!block_FindStartcodeFromOffset
  <2>1. /\ found' = Stream!FindStartcode.ok /\ pi_offset' = Stream!FindStartcode.offset
        /\ p_chain' = p_chain /\ p_block' = p_block /\ i_offset' = i_offset
        /\ startcode' = startcode
      BY <1>11 DEF Stream!block_FindStartcodeFromOffset, Stream!stream
  <2>2. Stream!Remaining' = R
      BY <2>1, RemainingIs DEF R
  <2>3. WellFound(Stream!FindStartcode, R)
      BY <1>2, <1>3, <1>4, <1>7, FindsTrue
  <2> QED BY <1>8, <2>1, <2>2, <2>3 DEF WellFound
<1> QED BY <1>5, <1>9, <1>10, <1>11 DEF SearchKept

(* A search for a start code passes no place where it begins, nor one      *)
(* where it may yet begin, split between two blocks, however the search    *)
(* is broken off and taken up again as data come in; and what it has found *)
(* is there.                                                               *)
THEOREM NoStartcodeMissed == Stream!Spec => []NothingMissed
<1>1. Stream!Init => Stream!IInv
  <2>1. SUFFICES ASSUME Stream!Init PROVE Stream!IInv
      OBVIOUS
  <2>2. /\ p_chain = <<>> /\ p_block = 0 /\ i_offset = 0
        /\ startcode \in Startcodes /\ pi_offset = 0 /\ found = FALSE
      BY <2>1 DEF Stream!Init
  <2>3. InStream(p_chain, p_block, i_offset)
      BY <2>2 DEF InStream
  <2>4. Stream!NothingMissed
      BY <2>2 DEF Stream!NothingMissed
  <2> QED BY <2>2, <2>3, <2>4, IInvIs
<1>2. Stream!IInv /\ [Stream!Next]_(Stream!vars) => Stream!IInv'
    BY NextMissesNone
<1>3. Stream!IInv => NothingMissed
    BY DEF Stream!IInv, NothingMissed
<1> QED BY <1>1, <1>2, <1>3, PTL DEF Stream!Spec

---------------------------------------------------------------------------
(* Powers of two and division.                                             *)

(* Counting up without an end.                                             *)
LEMMA CountingOn ==
    ASSUME NEW S, 0 \in S, \A n \in Nat : n \in S => n + 1 \in S
    PROVE  \A n \in Nat : n \in S
<1> SUFFICES ASSUME NEW m \in Nat PROVE m \in S
    OBVIOUS
<1>1. \A n \in 0 + 1..m : n - 1 \in S => n \in S
  <2>1. ASSUME NEW n \in 0 + 1..m, n - 1 \in S PROVE n \in S
    <3>1. n - 1 \in Nat /\ (n - 1) + 1 = n
        OBVIOUS
    <3> QED BY <2>1, <3>1
  <2> QED BY <2>1
<1>2. \A n \in 0..m : n \in S
    BY <1>1, CountingUp
<1>3. m \in 0..m
    OBVIOUS
<1> QED BY <1>2, <1>3

(* What doubles, and that it exists.                                       *)
Doubles(f) == f = [n \in Nat |-> IF n = 0 THEN 1 ELSE 2 * f[n - 1]]

LEMMA SomethingDoubles == \E f : Doubles(f)
<1> DEFINE step == [q \in Nat \X Nat |-> 2 * q[2]]
           Upto(f, n) == Recurses(f, Nat, 0, n, 1, step)
           g == [n \in Nat |-> CHOOSE f : Upto(f, n)]
           h == [n \in Nat |-> g[n][n]]
<1>1. /\ step \in [Nat \X Nat -> Nat]
      /\ \A n \in Nat, x \in Nat : step[<<n, x>>] = 2 * x
    OBVIOUS
<1> HIDE DEF step
<1>2. ASSUME NEW n \in Nat PROVE Upto(g[n], n)
  <2>1. \A k \in 0 + 1..n : \A x \in Nat : <<k, x>> \in Nat \X Nat
      OBVIOUS
  <2>2. 0 \in Int /\ n \in Int /\ 1 \in Nat
      OBVIOUS
  <2>3. \E f : Recurses(f, Nat, 0, n, 1, step)
      BY <1>1, <2>1, <2>2, Recursion
  <2>4. \E f : Upto(f, n)
      BY <2>3
  <2> HIDE DEF Upto
  <2> QED BY <2>4
<1> HIDE DEF g
<1>3. ASSUME NEW n \in Nat
      PROVE  /\ \A k \in 0..n : g[n][k] \in Nat
             /\ g[n][0] = 1
             /\ \A k \in 1..n : g[n][k] = 2 * g[n][k - 1]
  <2>1. Upto(g[n], n)
      BY <1>2
  <2>2. \A k \in 1..n : k \in 0..n /\ k # 0 /\ k - 1 \in 0..n /\ k \in Nat
      OBVIOUS
  <2>3. 0 \in 0..n
      OBVIOUS
  <2>4. \A k \in 0..n : g[n][k] \in Nat
      BY <2>1 DEF Recurses
  <2>5. ASSUME NEW k \in 1..n PROVE g[n][k] = 2 * g[n][k - 1]
    <3>1. g[n][k] = step[<<k, g[n][k - 1]>>]
        BY <2>1, <2>2 DEF Recurses
    <3> QED BY <1>1, <2>2, <2>4, <3>1
  <2> QED BY <2>1, <2>3, <2>4, <2>5 DEF Recurses
<1>4. ASSUME NEW n \in Nat PROVE g[n + 1][n] = g[n][n]
  <2> DEFINE S == {k \in 0..n : g[n + 1][k] = g[n][k]}
  <2>1. n + 1 \in Nat /\ (\A k \in 1..n : k \in 1..n + 1) /\ 0 \in 0..n
      OBVIOUS
  <2>2. 0 \in S
      BY <1>3, <2>1
  <2>3. ASSUME NEW k \in 0 + 1..n, k - 1 \in S PROVE k \in S
    <3>1. k \in 1..n /\ k \in 0..n
        OBVIOUS
    <3> QED BY <1>3, <2>1, <2>3, <3>1
  <2> HIDE DEF S
  <2>4. \A k \in 0..n : k \in S
      BY <2>2, <2>3, CountingUp
  <2>5. n \in 0..n
      OBVIOUS
  <2> QED BY <2>4, <2>5 DEF S
<1>5. ASSUME NEW n \in Nat PROVE h[n] = IF n = 0 THEN 1 ELSE 2 * h[n - 1]
  <2>1. CASE n = 0
      BY <1>3, <2>1
  <2>2. CASE n # 0
    <3>1. n - 1 \in Nat /\ (n - 1) + 1 = n /\ n \in 1..n
        BY <2>2
    <3>2. g[n][n - 1] = g[n - 1][n - 1]
        BY <1>4, <3>1
    <3>3. g[n][n] = 2 * g[n][n - 1]
        BY <1>3, <3>1
    <3> QED BY <2>2, <3>1, <3>2, <3>3
  <2> QED BY <2>1, <2>2
<1>6. h = [n \in Nat |-> h[n]]
    OBVIOUS
<1> HIDE DEF h
<1>7. Doubles(h)
    BY <1>5, <1>6 DEF Doubles
<1> QED BY <1>7

LEMMA PowersOfTwo ==
    /\ Pow2[0] = 1
    /\ \A n \in Nat : Pow2[n] \in Nat \ {0} /\ Pow2[n + 1] = 2 * Pow2[n]
<1> DEFINE h == CHOOSE f : Doubles(f)
<1>1. Doubles(h)
    BY SomethingDoubles
<1>2. Pow2 = h
    BY Zenon DEF Pow2, Doubles
<1> HIDE DEF h
<1>3. \A n \in Nat : Pow2[n] = IF n = 0 THEN 1 ELSE 2 * Pow2[n - 1]
    BY <1>1, <1>2 DEF Doubles
<1>4. Pow2[0] = 1
    BY <1>3
<1>5. ASSUME NEW n \in Nat PROVE Pow2[n + 1] = 2 * Pow2[n]
  <2>1. n + 1 \in Nat /\ n + 1 # 0 /\ (n + 1) - 1 = n
      OBVIOUS
  <2> QED BY <1>3, <2>1
<1> DEFINE S == {n \in Nat : Pow2[n] \in Nat \ {0}}
<1>6. 0 \in S
    BY <1>4
<1>7. \A n \in Nat : n \in S => n + 1 \in S
    BY <1>5
<1> HIDE DEF S
<1>8. \A n \in Nat : n \in S
    BY <1>6, <1>7, CountingOn
<1> QED BY <1>4, <1>5, <1>8 DEF S

LEMMA SamePowers == Bitio!Pow2 = Pow2 /\ Bitio!Tape!Pow2 = Pow2
<1>1. Bitio!Pow2 = Pow2
    BY Zenon DEF Pow2, Bitio!Pow2
<1>2. Bitio!Tape!Pow2 = Pow2
    BY Zenon DEF Pow2, Bitio!Tape!Pow2
<1> QED BY <1>1, <1>2

LEMMA PowersMultiply ==
    ASSUME NEW a \in Nat, NEW b \in Nat
    PROVE  Pow2[a + b] = Pow2[a] * Pow2[b]
<1> DEFINE S == {n \in Nat : Pow2[a + n] = Pow2[a] * Pow2[n]}
<1>1. 0 \in S
  <2>1. Pow2[a] \in Nat /\ a + 0 = a
      BY PowersOfTwo
  <2> QED BY <2>1, PowersOfTwo
<1>2. ASSUME NEW n \in Nat, n \in S PROVE n + 1 \in S
  <2> DEFINE x == Pow2[a]  y == Pow2[n]
  <2>1. Pow2[a + n] = x * y
      BY <1>2
  <2>2. a + (n + 1) = (a + n) + 1 /\ a + n \in Nat
      OBVIOUS
  <2>3. Pow2[a + (n + 1)] = 2 * (x * y)
      BY <2>1, <2>2, PowersOfTwo
  <2>4. Pow2[n + 1] = 2 * y /\ x \in Nat /\ y \in Nat
      BY PowersOfTwo
  <2> HIDE DEF x, y
  <2>5. 2 * (x * y) = x * (2 * y)
      BY ONLY <2>4
  <2> QED BY <2>3, <2>4, <2>5 DEF x
<1> HIDE DEF S
<1>3. \A n \in Nat : n \in S
    BY <1>1, <1>2, CountingOn
<1> QED BY <1>3 DEF S

LEMMA Division ==
    ASSUME NEW a \in Int, NEW b \in Nat \ {0}
    PROVE  /\ a \div b \in Int /\ a % b \in 0..b - 1
           /\ a = (b * (a \div b)) + (a % b)
           /\ a \in Nat => a \div b \in Nat
OBVIOUS

LEMMA Quotient ==
    ASSUME NEW a \in Int, NEW b \in Nat \ {0}, NEW q \in Int, NEW r \in 0..b - 1,
           a = (b * q) + r
    PROVE  a \div b = q /\ a % b = r
<1> DEFINE u == a \div b  v == a % b
<1>1. u \in Int /\ v \in 0..b - 1 /\ a = (b * u) + v
    BY Division
<1> HIDE DEF u, v
<1>2. b * (u - q) = r - v
    BY <1>1
<1>3. ASSUME NEW x \in Int, x >= 1 PROVE b * x >= b
    BY <1>3
<1>4. ~(u - q >= 1)
  <2>1. u - q >= 1 => b * (u - q) >= b
      BY <1>1, <1>3
  <2> QED BY <1>1, <1>2, <2>1
<1>5. ~(q - u >= 1)
  <2>1. q - u >= 1 => b * (q - u) >= b
      BY <1>1, <1>3
  <2>2. b * (q - u) = v - r
      BY <1>1
  <2> QED BY <1>1, <2>1, <2>2
<1>6. u = q
    BY <1>1, <1>4, <1>5
<1>7. v = r
    BY <1>1, <1>2, <1>6
<1> QED BY <1>6, <1>7 DEF u, v

(* Shifting twice.                                                         *)
DividesTwice(a, b, c) == a \div (b * c) = (a \div b) \div c

LEMMA DivDiv ==
    ASSUME NEW a \in Int, NEW b \in Nat \ {0}, NEW c \in Nat \ {0}
    PROVE  DividesTwice(a, b, c)
<1> DEFINE u == a \div b  v == a % b  x == u \div c  y == u % c
<1>1. u \in Int /\ v \in 0..b - 1 /\ a = (b * u) + v
    BY Division
<1>2. x \in Int /\ y \in 0..c - 1 /\ u = (c * x) + y
    BY <1>1, Division
<1> HIDE DEF u, v, x, y
<1>3. b * c \in Nat \ {0}
    OBVIOUS
<1>4. a = ((b * c) * x) + ((b * y) + v)
  <2>1. b * u = (b * (c * x)) + (b * y)
      BY <1>2
  <2>2. b * (c * x) = (b * c) * x /\ (b * c) * x \in Int /\ b * y \in Int
      BY <1>2
  <2> DEFINE s == (b * c) * x  t == b * y  z == b * u
  <2>3. z = s + t /\ s \in Int /\ t \in Int /\ a = z + v /\ v \in Int
      BY <1>1, <2>1, <2>2
  <2> HIDE DEF s, t, z
  <2>4. a = s + (t + v)
      BY ONLY <2>3
  <2> QED BY <2>4 DEF s, t
<1>5. (b * y) + v \in 0..(b * c) - 1
  <2>1. c - 1 - y \in Nat
      BY <1>2
  <2>2. b * ((c - 1) - y) >= 0 /\ b * y >= 0 /\ b * y \in Int
      BY <1>2
  <2>3. b * ((c - 1) - y) = ((b * c) - b) - (b * y)
      BY <1>2
  <2> DEFINE s == b * c  t == b * y
  <2>4. s \in Int /\ t \in Int /\ t >= 0 /\ (s - b) - t >= 0
      BY <1>3, <2>2, <2>3
  <2> HIDE DEF s, t
  <2>5. t + v \in 0..s - 1
      BY <1>1, <2>4
  <2> QED BY <2>5 DEF s, t
<1> DEFINE d == b * c  r == (b * y) + v
<1>6. d \in Nat \ {0} /\ r \in 0..d - 1 /\ a = (d * x) + r
    BY <1>3, <1>4, <1>5
<1> HIDE DEF d, r
<1>7. a \div d = x
    BY <1>2, <1>6, Quotient
<1> QED BY <1>7 DEF DividesTwice, d, u, x

LEMMA Shifted ==
    ASSUME NEW x \in Int, NEW n \in Nat
    PROVE  /\ x \div Pow2[n] \in Int
           /\ x \in Nat => x \div Pow2[n] \in Nat
<1> DEFINE c == Pow2[n]
<1>1. c \in Nat \ {0}
    BY PowersOfTwo
<1> HIDE DEF c
<1>2. x \div c \in Int /\ (x \in Nat => x \div c \in Nat)
    BY <1>1, Division
<1> QED BY <1>2 DEF c

(* The low bits of a number, and one bit more.                             *)
LEMMA OneBitMore ==
    ASSUME NEW y \in Int, NEW m \in Nat \ {0}
    PROVE  y % (2 * m) = 2 * ((y \div 2) % m) + (y % 2)
<1> DEFINE z == y \div 2  e == y % 2  q == z \div m  f == z % m
<1>1. z \in Int /\ e \in 0..1 /\ y = (2 * z) + e
    BY Division
<1>2. q \in Int /\ f \in 0..m - 1 /\ z = (m * q) + f
    BY <1>1, Division
<1> HIDE DEF z, e, q, f
<1>3. y = ((2 * m) * q) + ((2 * f) + e)
  <2> DEFINE t == m * q
  <2>1. t \in Int /\ (2 * m) * q = 2 * t /\ z = t + f
      BY <1>2
  <2> HIDE DEF t
  <2> QED BY <1>1, <1>2, <2>1
<1>4. (2 * f) + e \in 0..(2 * m) - 1 /\ 2 * m \in Nat \ {0}
    BY <1>1, <1>2
<1> DEFINE d == 2 * m  r == (2 * f) + e
<1>5. d \in Nat \ {0} /\ r \in 0..d - 1 /\ y = (d * q) + r
    BY <1>3, <1>4
<1> HIDE DEF d, r
<1>6. y % d = r
    BY <1>2, <1>5, Quotient
<1> QED BY <1>6 DEF d, r, z, e, f

LEMMA HighBits ==
    ASSUME NEW x \in Nat, NEW l \in Nat, NEW j \in 1..l
    PROVE  (x \div Pow2[l - j]) % Pow2[j] =
             2 * ((x \div Pow2[l - (j - 1)]) % Pow2[j - 1]) + ((x \div Pow2[l - j]) % 2)
<1>1. l - j \in Nat /\ j - 1 \in Nat /\ l - (j - 1) = (l - j) + 1 /\ (j - 1) + 1 = j
    OBVIOUS
<1> DEFINE c == Pow2[l - j]  m == Pow2[j - 1]  y == x \div c
<1>2. c \in Nat \ {0} /\ m \in Nat \ {0} /\ Pow2[l - (j - 1)] = 2 * c /\ Pow2[j] = 2 * m
  <2>1. Pow2[(l - j) + 1] = 2 * Pow2[l - j] /\ Pow2[(j - 1) + 1] = 2 * Pow2[j - 1]
      BY <1>1, PowersOfTwo
  <2> QED BY <1>1, <2>1, PowersOfTwo
<1>3. y \in Int
    BY <1>1, Shifted
<1>4. x \div (2 * c) = y \div 2
  <2> HIDE DEF c
  <2>1. 2 * c = c * 2
      BY <1>2
  <2>2. 2 \in Nat \ {0}
      OBVIOUS
  <2>3. x \in Int
      OBVIOUS
  <2>4. DividesTwice(x, c, 2)
      BY <1>2, <2>2, <2>3, DivDiv
  <2> QED BY <2>1, <2>4 DEF DividesTwice
<1> HIDE DEF c, m, y
<1>5. y % (2 * m) = 2 * ((y \div 2) % m) + (y % 2)
    BY <1>2, <1>3, OneBitMore
<1> QED BY <1>2, <1>4, <1>5 DEF c, m, y

(* A number that goes on with the top j of the low l bits of x.            *)
GoesOnWith(f, k, n, x, l) ==
    \A i \in 1..n : f[k + i] = (2 * f[k + (i - 1)]) + ((x \div Pow2[l - i]) % 2)

LEMMA BitsInARow ==
    ASSUME NEW f, NEW k \in Nat, f[k] \in Nat, NEW x \in Nat, NEW l \in Nat, NEW n \in 0..l,
           GoesOnWith(f, k, n, x, l)
    PROVE  f[k + n] = (f[k] * Pow2[n]) + ((x \div Pow2[l - n]) % Pow2[n])
<1> DEFINE R(j) == (x \div Pow2[l - j]) % Pow2[j]
           S == {j \in 0..n : f[k + j] = (f[k] * Pow2[j]) + R(j)}
<1>1. ASSUME NEW j \in 0..n PROVE R(j) \in Int
  <2>1. l - j \in Nat /\ j \in Nat
      OBVIOUS
  <2> DEFINE a == Pow2[l - j]  b == Pow2[j]
  <2>2. a \in Nat \ {0} /\ b \in Nat \ {0}
      BY <2>1, PowersOfTwo
  <2> HIDE DEF a, b
  <2>3. x \div a \in Int
      BY <2>2, Division
  <2> DEFINE y == x \div a
  <2> HIDE DEF y
  <2>4. y % b \in Int
      BY <2>2, <2>3, Division DEF y
  <2> QED BY <2>4 DEF a, b, y
<1>2. 0 \in S
  <2>1. k + 0 = k /\ 0 \in 0..n /\ l - 0 = l
      OBVIOUS
  <2> DEFINE y == x \div Pow2[l]
  <2>2. y \in Int
      BY Shifted
  <2> HIDE DEF y
  <2>3. y % 1 = 0 /\ f[k] * 1 = f[k] /\ f[k] + 0 = f[k]
      BY <2>2
  <2>4. R(0) = 0
      BY <2>1, <2>3, PowersOfTwo DEF y
  <2> HIDE DEF R
  <2> QED BY <2>1, <2>3, <2>4, PowersOfTwo
<1>3. ASSUME NEW j \in 0 + 1..n, j - 1 \in S PROVE j \in S
  <2>1. j \in 1..n /\ j \in 1..l /\ j \in 0..n /\ j - 1 \in 0..n /\ j - 1 \in Nat /\ (j - 1) + 1 = j
      OBVIOUS
  <2>2. f[k + (j - 1)] = (f[k] * Pow2[j - 1]) + R(j - 1)
      BY <1>3
  <2> DEFINE e == (x \div Pow2[l - j]) % 2
  <2>3. f[k + j] = (2 * f[k + (j - 1)]) + e
      BY <2>1 DEF GoesOnWith
  <2>4. R(j) = (2 * R(j - 1)) + e
    <3>1. \A g \in 1..l : R(g) = (2 * R(g - 1)) + ((x \div Pow2[l - g]) % 2)
        BY HighBits
    <3> HIDE DEF R
    <3> QED BY <2>1, <3>1
  <2>5. e \in Int
    <3>1. l - j \in Nat
        OBVIOUS
    <3> DEFINE y == x \div Pow2[l - j]
    <3>2. y \in Int
        BY <3>1, Shifted
    <3> HIDE DEF y
    <3>3. y % 2 \in Int
        BY <3>2
    <3> QED BY <3>3 DEF y
  <2>6. R(j - 1) \in Int
      BY <1>1, <2>1
  <2>7. Pow2[j] = 2 * Pow2[j - 1] /\ Pow2[j - 1] \in Nat
      BY <2>1, PowersOfTwo
  <2> DEFINE m == Pow2[j - 1]  g == f[k]  r == R(j - 1)
  <2>8. f[k + j] = (2 * ((g * m) + r)) + e
      BY <2>2, <2>3
  <2>9. g \in Nat /\ m \in Nat /\ r \in Int /\ e \in Int
      BY <2>5, <2>6, <2>7
  <2> HIDE DEF m, g, r, e, R
  <2>10. (2 * ((g * m) + r)) + e = (g * (2 * m)) + ((2 * r) + e)
      BY ONLY <2>9
  <2>11. f[k + j] = (f[k] * Pow2[j]) + R(j)
      BY <2>4, <2>7, <2>8, <2>10, Zenon DEF m, g, r
  <2> QED BY <2>1, <2>11
<1> HIDE DEF S
<1>4. \A j \in 0..n : j \in S
    BY <1>2, <1>3, CountingUp
<1>5. n \in 0..n
    OBVIOUS
<1> QED BY <1>4, <1>5 DEF S

(* A number that goes on with zeros.                                       *)
LEMMA ZerosInARow ==
    ASSUME NEW f, NEW k \in Nat, f[k] \in Nat, NEW n \in Nat,
           \A i \in 1..n : f[k + i] = (2 * f[k + (i - 1)]) + 0
    PROVE  f[k + n] = f[k] * Pow2[n]
<1>1. GoesOnWith(f, k, n, 0, n)
  <2>1. ASSUME NEW i \in 1..n PROVE (0 \div Pow2[n - i]) % 2 = 0
    <3>1. n - i \in Nat
        OBVIOUS
    <3> DEFINE c == Pow2[n - i]
    <3>2. c \in Nat \ {0}
        BY <3>1, PowersOfTwo
    <3> HIDE DEF c
    <3>3. 0 \div c = 0
        BY <3>2, Quotient
    <3> QED BY <3>3 DEF c
  <2> QED BY <2>1 DEF GoesOnWith
<1>2. n \in 0..n /\ 0 \in Nat
    OBVIOUS
<1>3. f[k + n] = (f[k] * Pow2[n]) + ((0 \div Pow2[n - n]) % Pow2[n])
    BY <1>1, <1>2, BitsInARow
<1>4. (0 \div Pow2[n - n]) % Pow2[n] = 0
  <2>1. n - n = 0 /\ 0 \div 1 = 0
      OBVIOUS
  <2> DEFINE c == Pow2[n]
  <2>2. c \in Nat \ {0}
      BY PowersOfTwo
  <2> HIDE DEF c
  <2>3. 0 % c = 0
      BY <2>2, Quotient
  <2> QED BY <2>1, <2>3, PowersOfTwo DEF c
<1> DEFINE g == f[k]  m == Pow2[n]
<1>5. g \in Nat /\ m \in Nat
    BY PowersOfTwo
<1> HIDE DEF g, m
<1>6. (g * m) + 0 = g * m
    BY <1>5
<1> QED BY <1>3, <1>4, <1>6 DEF g, m

BitOf(x, n) == (x \div Pow2[n]) % 2

LEMMA BitIs ==
    ASSUME NEW x \in Int, NEW n \in Nat
    PROVE  BitOf(x, n) \in 0..1
<1> DEFINE y == x \div Pow2[n]
<1>1. y \in Int
    BY Shifted
<1> HIDE DEF y
<1>2. y % 2 \in 0..1
    BY <1>1
<1> QED BY <1>2 DEF BitOf, y

(* Two numbers with the same bits from i on have the same bit n.           *)
LEMMA HigherBits ==
    ASSUME NEW x \in Int, NEW y \in Int, NEW i \in Nat, NEW n \in Nat, n >= i,
           x \div Pow2[i] = y \div Pow2[i]
    PROVE  x \div Pow2[n] = y \div Pow2[n]
<1> DEFINE c == Pow2[i]  d == Pow2[n - i]
<1>1. n - i \in Nat /\ n = i + (n - i)
    OBVIOUS
<1>2. c \in Nat \ {0} /\ d \in Nat \ {0}
    BY <1>1, PowersOfTwo
<1>3. Pow2[n] = c * d
    BY <1>1, PowersMultiply
<1> HIDE DEF c, d
<1>4. \A a \in Int : DividesTwice(a, c, d)
    BY <1>2, DivDiv
<1> QED BY <1>3, <1>4 DEF c, DividesTwice

LEMMA SmallByte ==
    ASSUME NEW x \in Nat, NEW n \in Nat
    PROVE  x \in 0..Pow2[n] - 1 <=> x \div Pow2[n] = 0
<1> DEFINE c == Pow2[n]  q == x \div c  r == x % c
<1>1. c \in Nat \ {0}
    BY PowersOfTwo
<1> HIDE DEF c
<1>2. q \in Int /\ r \in 0..c - 1 /\ x = (c * q) + r
    BY <1>1, Division
<1>3. ASSUME x \in 0..c - 1 PROVE q = 0
  <2>1. x = (c * 0) + x
      BY <1>1
  <2> QED BY <1>1, <1>3, <2>1, Quotient
<1>4. ASSUME q = 0 PROVE x \in 0..c - 1
  <2> HIDE DEF q, r
  <2>1. c * q = 0
      BY <1>1, <1>4
  <2>2. x = r
      BY <1>2, <2>1
  <2> QED BY <1>2, <2>2
<1> QED BY <1>3, <1>4 DEF c, q

LEMMA OneBitPut ==
    ASSUME NEW b \in Nat, NEW i \in Nat, NEW bit \in 0..1
    PROVE  /\ Bitio!WithBit(b, i, bit) \in Nat
           /\ \A n \in Nat : BitOf(Bitio!WithBit(b, i, bit), n) = IF n = i THEN bit ELSE BitOf(b, n)
           /\ \A n \in Nat : n > i /\ b \in 0..Pow2[n] - 1
                               => Bitio!WithBit(b, i, bit) \in 0..Pow2[n] - 1
<1> DEFINE c == Pow2[i]  q == b \div c  r == b % c  h == q \div 2  old == q % 2
           x == Bitio!WithBit(b, i, bit)
<1>1. c \in Nat \ {0}
    BY PowersOfTwo
<1>2. x = b + ((bit - old) * c)
    BY SamePowers DEF Bitio!WithBit
<1> HIDE DEF c, x
<1>3. q \in Nat /\ r \in 0..c - 1 /\ b = (c * q) + r
  <2>1. b \in Int
      OBVIOUS
  <2> QED BY <1>1, <2>1, Division
<1> HIDE DEF q, r
<1>4. h \in Nat /\ old \in 0..1 /\ q = (2 * h) + old
    BY <1>3
<1> HIDE DEF h, old
<1>5. x = (c * ((2 * h) + bit)) + r
  <2>1. (bit - old) * c = (c * bit) - (c * old)
      BY <1>1, <1>4
  <2>2. c * q = (c * (2 * h)) + (c * old) /\ c * ((2 * h) + bit) = (c * (2 * h)) + (c * bit)
      BY <1>1, <1>4
  <2> DEFINE s == c * (2 * h)  t == c * old  z == c * bit  w == c * q  o == c * ((2 * h) + bit)
             v == (bit - old) * c
  <2>3. s \in Int /\ t \in Int /\ z \in Int /\ w = s + t /\ o = s + z /\ v = z - t
        /\ b = w + r /\ x = b + v /\ r \in Int
      BY <1>1, <1>2, <1>3, <1>4, <2>1, <2>2
  <2> HIDE DEF s, t, z, w, o, v
  <2>4. x = o + r
      BY ONLY <2>3
  <2> QED BY <2>4 DEF o
<1> DEFINE p == (2 * h) + bit
<1>6. p \in Nat /\ x = (c * p) + r
    BY <1>4, <1>5
<1>7. p \div 2 = h /\ p % 2 = bit
    BY <1>4
<1> HIDE DEF p
<1>8. x \in Nat
    BY <1>1, <1>3, <1>6
<1>9. x \div c = p
    BY <1>1, <1>3, <1>6, <1>8, Quotient
<1>10. BitOf(x, i) = bit
    BY <1>7, <1>9 DEF BitOf, c
<1>11. x \div Pow2[i + 1] = b \div Pow2[i + 1]
  <2>1. Pow2[i + 1] = c * 2
    <3>1. Pow2[i + 1] = 2 * c
        BY PowersOfTwo DEF c
    <3> QED BY <1>1, <3>1
  <2>2. 2 \in Nat \ {0}
      OBVIOUS
  <2>3. \A a \in Int : DividesTwice(a, c, 2)
      BY <1>1, <2>2, DivDiv
  <2>4. b \div c = q /\ q \div 2 = h
      BY DEF q, h
  <2>5. x \in Int /\ b \in Int
      BY <1>8
  <2> QED BY <1>7, <1>9, <2>1, <2>3, <2>4, <2>5 DEF DividesTwice
<1>12. ASSUME NEW n \in Nat, n > i PROVE x \div Pow2[n] = b \div Pow2[n]
  <2>1. i + 1 \in Nat /\ n >= i + 1
      BY <1>12
  <2> QED BY <1>8, <1>11, <2>1, HigherBits
<1>13. ASSUME NEW n \in Nat, n < i PROVE BitOf(x, n) = BitOf(b, n)
  <2> DEFINE d == Pow2[n]  e == Pow2[i - (n + 1)]  m == b \div d  l == b % d
  <2>1. i - (n + 1) \in Nat /\ i = (n + 1) + (i - (n + 1)) /\ n + 1 \in Nat
      BY <1>13
  <2>2. d \in Nat \ {0} /\ e \in Nat
      BY <2>1, PowersOfTwo
  <2>3. c = (2 * d) * e
    <3>1. Pow2[n + 1] = 2 * d
        BY PowersOfTwo
    <3>2. Pow2[(n + 1) + (i - (n + 1))] = Pow2[n + 1] * e
        BY <2>1, PowersMultiply
    <3> QED BY <2>1, <3>1, <3>2 DEF c
  <2> HIDE DEF d, e
  <2>4. m \in Int /\ l \in 0..d - 1 /\ b = (d * m) + l
      BY <2>2, Division
  <2> HIDE DEF m, l
  <2> DEFINE k == bit - old  g == m + (2 * (e * k))
  <2>5. k \in Int
      BY <1>4
  <2> HIDE DEF k
  <2>6. e * k \in Int
      BY <2>2, <2>5
  <2>7. k * c = d * (2 * (e * k))
      BY <2>2, <2>3, <2>5
  <2>8. d * g = (d * m) + (d * (2 * (e * k))) /\ g \in Int
    <3> DEFINE w == 2 * (e * k)
    <3>1. w \in Int
        BY <2>6
    <3> HIDE DEF w
    <3>2. d * (m + w) = (d * m) + (d * w) /\ m + w \in Int
        BY <2>2, <2>4, <3>1
    <3> QED BY <3>2 DEF w
  <2>9. x = (d * g) + l
    <3> DEFINE s == d * m  t == k * c  w == d * g
    <3>1. s \in Int /\ t \in Int /\ w = s + t /\ b = s + l /\ l \in Int /\ x = b + t
        BY <1>1, <1>2, <2>2, <2>4, <2>5, <2>7, <2>8 DEF k
    <3> HIDE DEF s, t, w, g
    <3>2. x = w + l
        BY ONLY <3>1
    <3> QED BY <3>2 DEF w
  <2>10. g % 2 = m % 2
    <3> DEFINE w == e * k
    <3> HIDE DEF w
    <3>1. w \in Int /\ g = m + (2 * w)
        BY <2>6 DEF w
    <3> HIDE DEF g
    <3> QED BY <2>4, <3>1
  <2> HIDE DEF g
  <2>11. x \div d = g
      BY <1>8, <2>2, <2>4, <2>8, <2>9, Quotient
  <2> QED BY <2>10, <2>11 DEF BitOf, d, m
<1>14. ASSUME NEW n \in Nat PROVE BitOf(x, n) = IF n = i THEN bit ELSE BitOf(b, n)
  <2>1. CASE n = i
      BY <1>10, <2>1
  <2>2. CASE n > i
      BY <1>12, <2>2 DEF BitOf
  <2>3. CASE n < i
      BY <1>13, <2>3
  <2> QED BY <2>1, <2>2, <2>3
<1>15. ASSUME NEW n \in Nat, n > i, b \in 0..Pow2[n] - 1 PROVE x \in 0..Pow2[n] - 1
    BY <1>8, <1>12, <1>15, SmallByte
<1> QED BY <1>8, <1>14, <1>15 DEF x

---------------------------------------------------------------------------
(* Bytes as bits.                                                          *)
Width == ByteWidth
Datas == [0..DataSize - 1 -> Bitio!Byte]
BitPos(b, l) == (Width * b) + (Width - l)

BitsOf(d) ==
    [i \in 1..Width * DataSize |-> BitOf(d[(i - 1) \div Width], Width - 1 - ((i - 1) % Width))]

LEMMA WidthIs ==
    /\ Width \in Nat \ {0} /\ DataSize \in Nat /\ Width * DataSize \in Nat
    /\ Pow2[Width] \in Nat \ {0}
    /\ Bitio!Byte = 0..Pow2[Width] - 1 /\ Bitio!Byte \subseteq Nat
<1>1. Width \in Nat \ {0} /\ DataSize \in Nat
    BY BitAssumption DEF Width
<1>2. Pow2[Width] \in Nat \ {0}
    BY <1>1, PowersOfTwo
<1>3. Bitio!Byte = 0..Pow2[Width] - 1
    BY SamePowers DEF Bitio!Byte, Width
<1>4. \A x \in 0..Pow2[Width] - 1 : x \in Nat
    OBVIOUS
<1> QED BY <1>1, <1>2, <1>3, <1>4

LEMMA WhereBitIs ==
    ASSUME NEW b \in Nat, NEW l \in 1..Width
    PROVE  /\ BitPos(b, l) \in Nat
           /\ BitPos(b, l) \div Width = b /\ BitPos(b, l) % Width = Width - l
           /\ b >= DataSize <=> BitPos(b, l) >= Width * DataSize
<1> DEFINE q == BitPos(b, l)
<1>1. q = (Width * b) + (Width - l) /\ Width - l \in 0..Width - 1 /\ Width * b \in Nat /\ q \in Nat
  <2>1. Width * b \in Nat /\ Width - l \in 0..Width - 1
      BY WidthIs
  <2> QED BY <2>1 DEF BitPos
<1> HIDE DEF q
<1>2. q \div Width = b /\ q % Width = Width - l
  <2> DEFINE r == Width - l
  <2>1. r \in 0..Width - 1 /\ q = (Width * b) + r /\ q \in Int /\ b \in Int /\ Width \in Nat \ {0}
      BY <1>1, WidthIs
  <2> HIDE DEF r
  <2>2. q \div Width = b /\ q % Width = r
      BY <2>1, Quotient
  <2> QED BY <2>2 DEF r
<1>3. ASSUME b >= DataSize PROVE q >= Width * DataSize
  <2>1. Width * (b - DataSize) >= 0 /\ Width * (b - DataSize) = (Width * b) - (Width * DataSize)
      BY <1>3, WidthIs
  <2> QED BY <1>1, <2>1, WidthIs
<1>4. ASSUME ~(b >= DataSize) PROVE ~(q >= Width * DataSize)
  <2>1. Width * ((DataSize - b) - 1) >= 0 /\ Width * ((DataSize - b) - 1) = ((Width * DataSize) - (Width * b)) - Width
      BY <1>4, WidthIs
  <2> QED BY <1>1, <2>1, WidthIs
<1> QED BY <1>1, <1>2, <1>3, <1>4 DEF q

(* On by j bits, at most to the end of the byte.                           *)
LEMMA OnInByte ==
    ASSUME NEW b \in Nat, NEW l \in 1..Width, NEW j \in 0..l
    PROVE  /\ Bitio!Place(b, l - j).p \in Nat /\ Bitio!Place(b, l - j).left \in 1..Width
           /\ BitPos(Bitio!Place(b, l - j).p, Bitio!Place(b, l - j).left) = BitPos(b, l) + j
           /\ j = l => Bitio!Place(b, l - j) = [p |-> b + 1, left |-> Width]
           /\ b < DataSize => BitPos(b, l) + j <= Width * DataSize
<1>1. l \in Nat /\ j \in Nat /\ Width \in Nat \ {0} /\ DataSize \in Nat
    BY WidthIs
<1>2. Width * b \in Int /\ Width * (b + 1) = (Width * b) + Width
    BY <1>1
<1> DEFINE s == Width * b
<1>3. CASE j = l
  <2>1. Bitio!Place(b, l - j) = [p |-> b + 1, left |-> Width]
    <3>1. l - j = 0
        BY <1>1, <1>3
    <3> QED BY <3>1 DEF Bitio!Place, Width
  <2>2. BitPos(b + 1, Width) = BitPos(b, l) + j
    <3>1. s \in Int /\ BitPos(b, l) = s + (Width - l) /\ BitPos(b + 1, Width) = (s + Width) + (Width - Width)
        BY <1>2 DEF BitPos
    <3> HIDE DEF s
    <3> QED BY <1>1, <1>3, <3>1
  <2>3. b < DataSize => Width * (b + 1) <= Width * DataSize
    <3>1. Width * (DataSize - (b + 1)) = (Width * DataSize) - (Width * (b + 1))
        BY <1>1
    <3>2. b < DataSize => Width * (DataSize - (b + 1)) >= 0
        BY <1>1
    <3>3. Width * (b + 1) \in Int /\ Width * DataSize \in Int
        BY <1>1
    <3> QED BY <3>1, <3>2, <3>3
  <2>4. BitPos(b + 1, Width) = Width * (b + 1)
    <3>1. Width * (b + 1) \in Int
        BY <1>1
    <3> QED BY <1>1, <3>1 DEF BitPos
  <2> QED BY <1>1, <2>1, <2>2, <2>3, <2>4
<1>4. CASE j # l
  <2>1. Bitio!Place(b, l - j) = [p |-> b, left |-> l - j] /\ l - j \in 1..Width
    <3>1. l - j # 0 /\ l - j \in 1..Width
        BY <1>1, <1>4
    <3> QED BY <3>1 DEF Bitio!Place
  <2>2. BitPos(b, l - j) = BitPos(b, l) + j
    <3>1. s \in Int /\ BitPos(b, l) = s + (Width - l) /\ BitPos(b, l - j) = s + (Width - (l - j))
        BY <1>2 DEF BitPos
    <3> HIDE DEF s
    <3> QED BY <1>1, <3>1
  <2>3. b < DataSize => BitPos(b, l) + j <= Width * DataSize
    <3>1. b < DataSize => ~(BitPos(b, l - j) >= Width * DataSize)
        BY <1>1, <2>1, WhereBitIs
    <3>2. BitPos(b, l - j) \in Nat /\ Width * DataSize \in Nat
        BY <2>1, WhereBitIs, WidthIs
    <3> QED BY <2>2, <3>1, <3>2
  <2> QED BY <1>1, <1>4, <2>1, <2>2, <2>3
<1> QED BY <1>3, <1>4

LEMMA BitsAre ==
    ASSUME NEW d \in Datas
    PROVE  /\ BitsOf(d) \in [1..Width * DataSize -> 0..1]
           /\ BitsOf(d) \in Seq(0..1) /\ Len(BitsOf(d)) = Width * DataSize
           /\ \A b \in 0..DataSize - 1, l \in 1..Width :
                 /\ BitPos(b, l) + 1 \in 1..Width * DataSize
                 /\ BitsOf(d)[BitPos(b, l) + 1] = BitOf(d[b], l - 1)
<1>1. ASSUME NEW i \in 1..Width * DataSize
      PROVE  BitOf(d[(i - 1) \div Width], Width - 1 - ((i - 1) % Width)) \in 0..1
  <2> DEFINE b == (i - 1) \div Width  m == (i - 1) % Width  k == i - 1
  <2>1. b \in Nat /\ m \in 0..Width - 1 /\ k = (Width * b) + m /\ k \in Nat
    <3>1. k \in Nat /\ k \in Int /\ Width \in Nat \ {0}
        BY WidthIs
    <3> HIDE DEF k
    <3>2. k \div Width \in Nat /\ k % Width \in 0..Width - 1 /\ k = (Width * (k \div Width)) + (k % Width)
        BY <3>1, Division
    <3> QED BY <3>1, <3>2 DEF k
  <2> HIDE DEF b, m
  <2>2. b < DataSize
    <3>1. BitPos(b, Width - m) = k /\ Width - m \in 1..Width
      <4> DEFINE s == Width * b
      <4>1. s \in Int
          BY <2>1, WidthIs
      <4> HIDE DEF s
      <4> QED BY <2>1, <4>1, WidthIs DEF BitPos, s
    <3>2. ~(k >= Width * DataSize)
        BY WidthIs
    <3> QED BY <2>1, <3>1, <3>2, WhereBitIs, WidthIs
  <2>3. d[b] \in Nat
    <3>1. b \in 0..DataSize - 1
        BY <2>1, <2>2, WidthIs
    <3> QED BY <3>1, WidthIs DEF Datas
  <2>4. Width - 1 - m \in Nat
      BY <2>1, WidthIs
  <2> QED BY <2>3, <2>4, BitIs DEF b, m
<1>2. BitsOf(d) \in [1..Width * DataSize -> 0..1]
    BY <1>1 DEF BitsOf
<1>3. BitsOf(d) \in Seq(0..1) /\ Len(BitsOf(d)) = Width * DataSize
    BY <1>2, WidthIs, Tuple
<1>4. ASSUME NEW b \in 0..DataSize - 1, NEW l \in 1..Width
      PROVE  /\ BitPos(b, l) + 1 \in 1..Width * DataSize
             /\ BitsOf(d)[BitPos(b, l) + 1] = BitOf(d[b], l - 1)
  <2> DEFINE q == BitPos(b, l)
  <2>1. b \in Nat /\ b < DataSize
      BY WidthIs
  <2>2. q \in Nat /\ q \div Width = b /\ q % Width = Width - l /\ ~(q >= Width * DataSize)
    <3>1. q \in Nat /\ q \div Width = b /\ q % Width = Width - l /\ (b >= DataSize <=> q >= Width * DataSize)
        BY <2>1, WhereBitIs
    <3>2. ~(b >= DataSize)
        BY <2>1, WidthIs
    <3> QED BY <3>1, <3>2
  <2> HIDE DEF q
  <2>3. q + 1 \in 1..Width * DataSize /\ (q + 1) - 1 = q
      BY <2>2, WidthIs
  <2>4. Width - 1 - (Width - l) = l - 1
      BY WidthIs
  <2>5. BitsOf(d)[q + 1] = BitOf(d[q \div Width], Width - 1 - (q % Width))
      BY <2>3, Zenon DEF BitsOf
  <2> QED BY <2>2, <2>3, <2>4, <2>5 DEF q
<1> QED BY <1>2, <1>3, <1>4

LEMMA EveryBit ==
    ASSUME NEW i \in 1..Width * DataSize
    PROVE  \E b \in 0..DataSize - 1, l \in 1..Width : i = BitPos(b, l) + 1
<1> DEFINE k == i - 1  b == k \div Width  m == k % Width
<1>1. k \in Nat /\ k + 1 = i /\ ~(k >= Width * DataSize)
    BY WidthIs
<1> HIDE DEF k
<1>2. b \in Nat /\ m \in 0..Width - 1 /\ k = (Width * b) + m
  <2>1. k \in Int /\ Width \in Nat \ {0}
      BY <1>1, WidthIs
  <2> QED BY <1>1, <2>1, Division
<1> HIDE DEF b, m
<1>3. Width - m \in 1..Width /\ k = BitPos(b, Width - m)
  <2>1. Width * b \in Int
      BY <1>2, WidthIs
  <2> QED BY <1>2, <2>1, WidthIs DEF BitPos
<1>4. b \in 0..DataSize - 1
    BY <1>1, <1>2, <1>3, WhereBitIs, WidthIs
<1> QED BY <1>1, <1>3, <1>4

Typed == Bitio!TypeOK

LEMMA TapeIs ==
    /\ Bitio!Bits = BitsOf(bs_data) /\ Bitio!bs_pos = BitPos(bs_p, bs_left)
    /\ Bitio!Bits' = BitsOf(bs_data') /\ Bitio!bs_pos' = BitPos(bs_p', bs_left')
<1>1. Bitio!bs_pos = BitPos(bs_p, bs_left) /\ Bitio!bs_pos' = BitPos(bs_p', bs_left')
    BY DEF Bitio!bs_pos, BitPos, Width
<1>2. Bitio!Bits = BitsOf(bs_data) /\ Bitio!Bits' = BitsOf(bs_data')
    BY SamePowers DEF Bitio!Bits, BitsOf, BitOf, Width
<1> QED BY <1>1, <1>2

LEMMA PlaceIs ==
    ASSUME Typed
    PROVE  /\ bs_data \in Datas /\ bs_p \in Nat /\ bs_left \in 1..Width /\ bs_result \in Nat
           /\ Bitio!bs_pos \in Nat
<1>1. bs_data \in Datas /\ bs_p \in Nat /\ bs_left \in 1..Width /\ bs_result \in Nat
    BY DEF Typed, Bitio!TypeOK, Datas, Width
<1> QED BY <1>1, TapeIs, WhereBitIs

(* The bits of the tape are those of the bytes, the highest first.         *)
LEMMA TapeBits ==
    ASSUME Typed
    PROVE  /\ \A i \in Nat \ {0} : Bitio!Tape!Bit(i) \in 0..1
           /\ \A i \in Nat \ {0} : i > Width * DataSize => Bitio!Tape!Bit(i) = 0
           /\ \A b \in 0..DataSize - 1, l \in 1..Width, i \in 1..Width :
                 i <= l => Bitio!Tape!Bit(BitPos(b, l) + i) = BitOf(bs_data[b], l - i)
<1> DEFINE t == BitsOf(bs_data)
<1>1. /\ t \in [1..Width * DataSize -> 0..1] /\ Len(t) = Width * DataSize
      /\ \A b \in 0..DataSize - 1, l \in 1..Width :
            BitPos(b, l) + 1 \in 1..Width * DataSize /\ t[BitPos(b, l) + 1] = BitOf(bs_data[b], l - 1)
    BY PlaceIs, BitsAre
<1>2. Bitio!Bits = t
    BY TapeIs
<1> HIDE DEF t
<1>3. ASSUME NEW i PROVE Bitio!Tape!Bit(i) = IF i <= Width * DataSize THEN t[i] ELSE 0
    BY <1>1, <1>2 DEF Bitio!Tape!Bit
<1>4. ASSUME NEW i \in Nat \ {0}
      PROVE  Bitio!Tape!Bit(i) \in 0..1 /\ (i > Width * DataSize => Bitio!Tape!Bit(i) = 0)
  <2>1. i <= Width * DataSize => i \in 1..Width * DataSize
      BY WidthIs
  <2> QED BY <1>1, <1>3, <2>1, WidthIs
<1>5. ASSUME NEW b \in 0..DataSize - 1, NEW l \in 1..Width, NEW i \in 1..Width, i <= l
      PROVE  Bitio!Tape!Bit(BitPos(b, l) + i) = BitOf(bs_data[b], l - i)
  <2> DEFINE m == l - (i - 1)
  <2>1. m \in 1..Width /\ m - 1 = l - i
      BY <1>5, WidthIs
  <2>2. BitPos(b, m) + 1 = BitPos(b, l) + i
    <3> DEFINE s == Width * b
    <3>1. s \in Int
        BY WidthIs
    <3> HIDE DEF s
    <3>2. s + (Width - m) + 1 = s + (Width - l) + i
        BY <3>1, WidthIs
    <3> QED BY <3>2 DEF s, BitPos
  <2> HIDE DEF m
  <2>3. BitPos(b, m) + 1 \in 1..Width * DataSize /\ t[BitPos(b, m) + 1] = BitOf(bs_data[b], m - 1)
      BY <1>1, <2>1
  <2>4. BitPos(b, m) + 1 <= Width * DataSize
      BY <2>3, WidthIs
  <2> QED BY <1>3, <2>1, <2>2, <2>3, <2>4
<1> QED BY <1>4, <1>5

(* The number the next n bits make, bit by bit.                            *)
Adds(f, n) ==
    /\ f \in [0..n -> Nat] /\ f[0] = 0
    /\ \A i \in 1..n : f[i] = (2 * f[i - 1]) + Bitio!Tape!Bit(Bitio!bs_pos + i)

LEMMA NumberIs ==
    ASSUME Typed, NEW n \in Nat
    PROVE  \E f : Adds(f, n) /\ Bitio!Tape!Number(n) = f[n]
<1> DEFINE B(i) == Bitio!Tape!Bit(Bitio!bs_pos + i)
           D == (1..n) \X Nat
           step == [q \in D |-> (2 * q[2]) + B(q[1])]
           Sum(f) == f = [i \in 0..n |-> IF i = 0 THEN 0 ELSE (2 * f[i - 1]) + B(i)]
<1>1. ASSUME NEW i \in 1..n PROVE B(i) \in 0..1
  <2>1. Bitio!bs_pos + i \in Nat \ {0}
      BY PlaceIs
  <2> QED BY <2>1, TapeBits
<1> HIDE DEF B
<1>2. step \in [D -> Nat] /\ \A i \in 1..n, x \in Nat : step[<<i, x>>] = (2 * x) + B(i)
    BY <1>1
<1>3. 0 \in Int /\ n \in Int /\ 0 \in Nat /\ \A i \in 0 + 1..n : \A x \in Nat : <<i, x>> \in D
    OBVIOUS
<1> HIDE DEF D, step
<1>4. PICK f : Recurses(f, Nat, 0, n, 0, step)
    BY <1>2, <1>3, Recursion
<1>5. \A i \in 1..n : i \in 0..n /\ i # 0 /\ i - 1 \in 0..n
    OBVIOUS
<1>6. ASSUME NEW i \in 1..n PROVE f[i] = (2 * f[i - 1]) + B(i)
  <2>1. f[i - 1] \in Nat /\ f[i] = step[<<i, f[i - 1]>>]
      BY <1>4, <1>5 DEF Recurses
  <2> QED BY <1>2, <2>1
<1>7. f \in [0..n -> Nat] /\ f[0] = 0
  <2>1. 0 \in 0..n
      OBVIOUS
  <2> QED BY <1>4, <2>1 DEF Recurses
<1>8. Sum(f)
  <2>1. \A i \in 0..n : i = 0 \/ i \in 1..n
      OBVIOUS
  <2> QED BY <1>6, <1>7, <2>1
<1> DEFINE g == CHOOSE h : Sum(h)
<1>9. Sum(g)
  <2> HIDE DEF Sum
  <2> QED BY <1>8
<1>10. Bitio!Tape!Number(n) = g[n]
    BY DEF Bitio!Tape!Number, B
<1> HIDE DEF g
<1>11. g[0] = 0 /\ \A i \in 1..n : g[i] = (2 * g[i - 1]) + B(i)
  <2>1. 0 \in 0..n
      OBVIOUS
  <2> QED BY <1>5, <1>9, <2>1
<1> DEFINE S == {i \in 0..n : g[i] = f[i]}
<1>12. 0 \in S
    BY <1>7, <1>11
<1>13. \A i \in 0 + 1..n : i - 1 \in S => i \in S
  <2>1. \A i \in 0 + 1..n : i \in 1..n /\ i \in 0..n
      OBVIOUS
  <2> QED BY <1>6, <1>11, <2>1
<1> HIDE DEF S
<1>14. \A i \in 0..n : i \in S
    BY <1>12, <1>13, CountingUp
<1>15. n \in 0..n
    OBVIOUS
<1>16. g[n] = f[n]
    BY <1>14, <1>15 DEF S
<1>17. Adds(f, n)
    BY <1>6, <1>7 DEF Adds, B
<1> QED BY <1>10, <1>16, <1>17

(* The loop that reads, and that it is defined.                            *)
Rd(b, l, c, s) == [p |-> b, left |-> l, count |-> c, result |-> s]

LEMMA RdIs ==
    ASSUME NEW b, NEW l, NEW c, NEW s
    PROVE  /\ Rd(b, l, c, s).p = b /\ Rd(b, l, c, s).left = l
           /\ Rd(b, l, c, s).count = c /\ Rd(b, l, c, s).result = s
           /\ b \in Nat /\ l \in 1..Width /\ c \in Int /\ s \in Nat => Rd(b, l, c, s) \in Bitio!Readings
BY DEF Rd, Bitio!Readings, Width

FromByte(b, l, c) == (bs_data[b] \div Pow2[l - c]) % Pow2[c]

ReadStep(f, r) ==
    IF r.count <= 0 \/ r.p >= DataSize THEN r
    ELSE IF r.left - r.count >= 0
    THEN Rd(Bitio!Place(r.p, r.left - r.count).p, Bitio!Place(r.p, r.left - r.count).left, 0,
            r.result + FromByte(r.p, r.left, r.count))
    ELSE f[Rd(r.p + 1, Width, r.count - r.left,
              r.result + ((bs_data[r.p] % Pow2[r.left]) * Pow2[r.count - r.left]))]

LEMMA ReadingIs ==
    ASSUME Typed
    PROVE  \A r \in Bitio!Readings : Bitio!Reading[r] = ReadStep(Bitio!Reading, r)
<1> DEFINE R == Bitio!Readings
           Done == {r \in R : r.count <= 0 \/ r.p >= DataSize \/ r.left - r.count >= 0}
           On(r) == Rd(r.p + 1, Width, r.count - r.left,
                       r.result + ((bs_data[r.p] % Pow2[r.left]) * Pow2[r.count - r.left]))
           next == [r \in R |-> IF r \in Done THEN r ELSE On(r)]
           res == [r \in R |->
                     IF r.count <= 0 \/ r.p >= DataSize THEN r
                     ELSE Rd(Bitio!Place(r.p, r.left - r.count).p,
                             Bitio!Place(r.p, r.left - r.count).left, 0,
                             r.result + FromByte(r.p, r.left, r.count))]
           Reads(f) == f = [r \in R |-> ReadStep(f, r)]
<1>1. ASSUME NEW r \in R, r \notin Done PROVE On(r) \in R
  <2>1. r.p \in Nat /\ r.left \in 1..Width /\ r.count \in Int /\ r.result \in Nat
      BY DEF Bitio!Readings, Width
  <2>2. r.p \in 0..DataSize - 1 /\ r.count - r.left \in Nat /\ r.left \in Nat
      BY <1>1, <2>1, WidthIs
  <2> DEFINE x == bs_data[r.p]  a == Pow2[r.left]  b == Pow2[r.count - r.left]  y == x % a
  <2>3. x \in Nat
      BY <2>2, PlaceIs, WidthIs DEF Datas
  <2>4. a \in Nat \ {0} /\ b \in Nat
      BY <2>2, PowersOfTwo
  <2> HIDE DEF x, a, b
  <2>5. y \in Nat
      BY <2>3, <2>4
  <2> HIDE DEF y
  <2>6. r.result + (y * b) \in Nat
      BY <2>1, <2>4, <2>5
  <2>7. r.p + 1 \in Nat /\ Width \in 1..Width /\ r.count - r.left \in Int
      BY <2>1, <2>2, WidthIs
  <2> DEFINE s == r.result + (y * b)
  <2>8. s \in Nat
      BY <2>6
  <2> HIDE DEF s
  <2>9. Rd(r.p + 1, Width, r.count - r.left, s) \in Bitio!Readings
      BY <2>7, <2>8, RdIs
  <2> QED BY <2>9 DEF s, x, a, b, y
<1>2. next \in [R -> R] /\ Done \in SUBSET R
  <2> HIDE DEF On
  <2>1. \A r \in R : r \notin Done => On(r) \in R
      BY <1>1
  <2>2. Done \in SUBSET R
      OBVIOUS
  <2> HIDE DEF Done
  <2> QED BY <2>1, <2>2
<1>3. ASSUME NEW f, NEW r \in R
      PROVE  ReadStep(f, r) = IF r \in Done THEN res[r] ELSE f[next[r]]
    BY DEF ReadStep
<1> HIDE DEF Done, next, res, R, On
<1>4. PICK f : GoesOn(f, R, Done, next, res)
    BY <1>2, GoingOn
<1>5. Reads(f)
  <2>1. f = [r \in R |-> ReadStep(f, r)]
      BY <1>3, <1>4, Zenon DEF GoesOn
  <2> QED BY <2>1
<1> DEFINE h == CHOOSE g : Reads(g)
<1>6. Reads(h)
  <2> HIDE DEF Reads
  <2> QED BY <1>5
<1>7. Bitio!Reading = h
    BY SamePowers, ZenonT(60)
       DEF Bitio!Reading, ReadStep, Rd, FromByte, Bitio!LowBits, R, Width
<1> HIDE DEF h
<1> QED BY <1>6, <1>7 DEF R

(* Where the loop is: c of n bits are still wanted, the others are in s.   *)
InRead(f, n, b, l, c, s) ==
    /\ b \in Nat /\ l \in 1..Width /\ c \in 0..n
    /\ s = f[n - c] * Pow2[c]
    /\ BitPos(b, l) = Bitio!bs_pos + (n - c)
    /\ c = n \/ BitPos(b, l) <= Width * DataSize

Moved(n) == Bitio!bs_pos + (IF n < Bitio!Tape!Ahead THEN n ELSE Bitio!Tape!Ahead)

HasRead(f, n, r) ==
    /\ r.p \in Nat /\ r.left \in 1..Width
    /\ r.result = f[n]
    /\ BitPos(r.p, r.left) = Moved(n)

LEMMA MovedIs ==
    ASSUME Typed, NEW n \in Nat
    PROVE  /\ Moved(n) = IF Bitio!bs_pos >= Width * DataSize THEN Bitio!bs_pos
                         ELSE IF Bitio!bs_pos + n <= Width * DataSize THEN Bitio!bs_pos + n
                         ELSE Width * DataSize
<1>1. Len(Bitio!Bits) = Width * DataSize
    BY PlaceIs, TapeIs, BitsAre
<1> DEFINE q == Bitio!bs_pos  z == Width * DataSize  a == Bitio!Tape!Ahead
<1>2. a = IF q < z THEN z - q ELSE 0
    BY <1>1 DEF Bitio!Tape!Ahead
<1>3. q \in Nat /\ z \in Nat
    BY PlaceIs, WidthIs
<1>4. Moved(n) = q + (IF n < a THEN n ELSE a)
    BY DEF Moved
<1> HIDE DEF q, z, a
<1>5. Moved(n) = IF q >= z THEN q ELSE IF q + n <= z THEN q + n ELSE z
    BY <1>2, <1>3, <1>4
<1> QED BY <1>5 DEF q, z

LEMMA ReadTypes ==
    ASSUME Typed, NEW n \in Nat, NEW f, Adds(f, n),
           NEW b, NEW l, NEW c, NEW s, InRead(f, n, b, l, c, s)
    PROVE  /\ b \in Nat /\ l \in 1..Width /\ l \in Nat /\ c \in Nat /\ c <= n /\ n - c \in Nat
           /\ f[n - c] \in Nat /\ s \in Nat
           /\ Rd(b, l, c, s) \in Bitio!Readings
<1>1. b \in Nat /\ l \in 1..Width /\ c \in 0..n /\ s = f[n - c] * Pow2[c]
    BY DEF InRead
<1>2. l \in Nat /\ c \in Nat /\ c <= n /\ n - c \in 0..n
    BY <1>1, WidthIs
<1>3. f[n - c] \in Nat
    BY <1>2 DEF Adds
<1>4. Pow2[c] \in Nat
    BY <1>2, PowersOfTwo
<1> DEFINE x == f[n - c]  y == Pow2[c]
<1>5. x \in Nat /\ y \in Nat /\ s = x * y
    BY <1>1, <1>3, <1>4
<1> HIDE DEF x, y
<1>6. s \in Nat
    BY <1>5
<1>7. Rd(b, l, c, s) \in Bitio!Readings
    BY <1>1, <1>2, <1>6, RdIs
<1> QED BY <1>1, <1>2, <1>3, <1>6, <1>7

(* No bit is wanted any more.                                              *)
LEMMA ReadAll ==
    ASSUME Typed, NEW n \in Nat, NEW f, Adds(f, n),
           NEW b, NEW l, NEW s, InRead(f, n, b, l, 0, s)
    PROVE  HasRead(f, n, Rd(b, l, 0, s))
<1>1. b \in Nat /\ l \in 1..Width /\ f[n - 0] \in Nat
    BY ReadTypes
<1>2. s = f[n - 0] * Pow2[0] /\ BitPos(b, l) = Bitio!bs_pos + (n - 0)
      /\ (0 = n \/ BitPos(b, l) <= Width * DataSize)
    BY DEF InRead
<1>3. n - 0 = n /\ f[n] * 1 = f[n]
    BY <1>1
<1>4. s = f[n]
    BY <1>2, <1>3, PowersOfTwo
<1>5. BitPos(b, l) = Moved(n)
  <2> DEFINE q == Bitio!bs_pos  z == Width * DataSize  o == BitPos(b, l)
  <2>1. q \in Nat /\ z \in Nat
      BY PlaceIs, WidthIs
  <2>2. Moved(n) = IF q >= z THEN q ELSE IF q + n <= z THEN q + n ELSE z
      BY MovedIs
  <2>3. o = q + n /\ (0 = n \/ o <= z)
      BY <1>2, <1>3
  <2> HIDE DEF q, z, o
  <2>4. o = Moved(n)
      BY <2>1, <2>2, <2>3
  <2> QED BY <2>4 DEF o
<1> QED BY <1>1, <1>4, <1>5, RdIs DEF HasRead

(* The data end before.                                                    *)
LEMMA ReadToEnd ==
    ASSUME Typed, NEW n \in Nat, NEW f, Adds(f, n),
           NEW b, NEW l, NEW c, NEW s, InRead(f, n, b, l, c, s), c # 0, b >= DataSize
    PROVE  s = f[n] /\ BitPos(b, l) = Moved(n)
<1> DEFINE q == Bitio!bs_pos  z == Width * DataSize  o == BitPos(b, l)  k == n - c
<1>1. /\ b \in Nat /\ l \in 1..Width /\ c \in Nat /\ c <= n /\ k \in Nat /\ f[k] \in Nat
      /\ q \in Nat /\ z \in Nat
    BY ReadTypes, PlaceIs, WidthIs
<1>2. s = f[k] * Pow2[c] /\ o = q + k /\ (c = n \/ o <= z)
    BY DEF InRead
<1>3. o >= z
    BY <1>1, WhereBitIs
<1>4. \A i \in 1..c : f[k + i] = (2 * f[k + (i - 1)]) + 0
  <2>1. ASSUME NEW i \in 1..c PROVE f[k + i] = (2 * f[k + (i - 1)]) + 0
    <3>1. k + i \in 1..n /\ (k + i) - 1 = k + (i - 1) /\ q + (k + i) \in Nat \ {0} /\ q + (k + i) > z
      <4> HIDE DEF q, z, o
      <4> QED BY <1>1, <1>2, <1>3
    <3>2. Bitio!Tape!Bit(q + (k + i)) = 0
        BY <3>1, TapeBits
    <3> QED BY <3>1, <3>2 DEF Adds
  <2> QED BY <2>1
<1>5. k + c = n
    BY <1>1
<1>6. f[n] = f[k] * Pow2[c]
  <2> HIDE DEF k
  <2>1. f[k + c] = f[k] * Pow2[c]
      BY <1>1, <1>4, ZerosInARow
  <2> QED BY <1>5, <2>1
<1>7. o = Moved(n)
  <2>1. Moved(n) = IF q >= z THEN q ELSE IF q + n <= z THEN q + n ELSE z
      BY MovedIs
  <2> HIDE DEF q, z, o
  <2> QED BY <1>1, <1>2, <1>3, <2>1
<1> QED BY <1>2, <1>6, <1>7

(* What a byte gives for the next c bits.                                  *)
LEMMA ReadFrom ==
    ASSUME Typed, NEW n \in Nat, NEW f, Adds(f, n),
           NEW b, NEW l, NEW c, NEW s, InRead(f, n, b, l, c, s), b < DataSize,
           NEW j \in Nat, j <= l, j <= c
    PROVE  /\ f[(n - c) + j] = (f[n - c] * Pow2[j]) + FromByte(b, l, j)
           /\ FromByte(b, l, j) \in Nat
<1> DEFINE k == n - c  x == bs_data[b]
<1>1. b \in Nat /\ l \in 1..Width /\ l \in Nat /\ c \in Nat /\ c <= n /\ k \in Nat /\ f[k] \in Nat
    BY ReadTypes
<1>2. BitPos(b, l) = Bitio!bs_pos + k /\ Bitio!bs_pos \in Nat
    BY PlaceIs DEF InRead
<1>3. b \in 0..DataSize - 1 /\ j \in 0..l
    BY <1>1, WidthIs
<1>4. x \in Nat
    BY <1>3, PlaceIs, WidthIs DEF Datas
<1>5. GoesOnWith(f, k, j, x, l)
  <2>1. ASSUME NEW i \in 1..j
        PROVE  f[k + i] = (2 * f[k + (i - 1)]) + ((x \div Pow2[l - i]) % 2)
    <3>1. k + i \in 1..n /\ (k + i) - 1 = k + (i - 1) /\ i \in 1..Width /\ i <= l
        BY <1>1, WidthIs
    <3>2. Bitio!bs_pos + (k + i) = BitPos(b, l) + i
      <4> DEFINE q == Bitio!bs_pos  o == BitPos(b, l)
      <4>1. o = q + k /\ q \in Nat
          BY <1>2
      <4> HIDE DEF q, o
      <4>2. q + (k + i) = o + i
          BY <1>1, <4>1
      <4> QED BY <4>2 DEF q, o
    <3>3. Bitio!Tape!Bit(BitPos(b, l) + i) = BitOf(bs_data[b], l - i)
        BY <1>1, <1>3, <3>1, TapeBits
    <3>4. f[k + i] = (2 * f[(k + i) - 1]) + Bitio!Tape!Bit(Bitio!bs_pos + (k + i))
        BY <3>1 DEF Adds
    <3> QED BY <3>1, <3>2, <3>3, <3>4 DEF BitOf
  <2> QED BY <2>1 DEF GoesOnWith
<1>6. f[k + j] = (f[k] * Pow2[j]) + ((x \div Pow2[l - j]) % Pow2[j])
  <2> HIDE DEF k, x
  <2> QED BY <1>1, <1>3, <1>4, <1>5, BitsInARow
<1>7. FromByte(b, l, j) \in Nat
  <2> DEFINE y == x \div Pow2[l - j]  m == Pow2[j]
  <2>1. y \in Nat
    <3>1. l - j \in Nat /\ x \in Int
        BY <1>1, <1>4
    <3> QED BY <1>4, <3>1, Shifted
  <2>2. m \in Nat \ {0}
      BY PowersOfTwo
  <2> HIDE DEF y, m
  <2>3. y % m \in Nat
      BY <2>1, <2>2
  <2> QED BY <2>3 DEF y, m, FromByte
<1> QED BY <1>6, <1>7 DEF FromByte

(* The byte has as many as are wanted.                                     *)
LEMMA ReadLast ==
    ASSUME Typed, NEW n \in Nat, NEW f, Adds(f, n),
           NEW b, NEW l, NEW c, NEW s, InRead(f, n, b, l, c, s), b < DataSize, c <= l
    PROVE  HasRead(f, n, Rd(Bitio!Place(b, l - c).p, Bitio!Place(b, l - c).left, 0,
                            s + FromByte(b, l, c)))
<1> DEFINE t == s + FromByte(b, l, c)  b2 == Bitio!Place(b, l - c).p  l2 == Bitio!Place(b, l - c).left
<1>1. b \in Nat /\ l \in 1..Width /\ l \in Nat /\ c \in Nat /\ c <= n
    BY ReadTypes
<1>2. s = f[n - c] * Pow2[c] /\ BitPos(b, l) = Bitio!bs_pos + (n - c) /\ Bitio!bs_pos \in Nat
    BY PlaceIs DEF InRead
<1>3. f[(n - c) + c] = (f[n - c] * Pow2[c]) + FromByte(b, l, c)
    BY <1>1, ReadFrom
<1>4. (n - c) + c = n
    BY <1>1
<1>5. t = f[n]
    BY <1>2, <1>3, <1>4
<1>6. b2 \in Nat /\ l2 \in 1..Width /\ BitPos(b2, l2) = BitPos(b, l) + c /\ BitPos(b, l) + c <= Width * DataSize
  <2>1. c \in 0..l
      BY <1>1
  <2> QED BY <1>1, <2>1, OnInByte
<1>7. BitPos(b2, l2) = Moved(n)
  <2> DEFINE q == Bitio!bs_pos  z == Width * DataSize  o == BitPos(b, l)
  <2>1. q \in Nat /\ z \in Nat
      BY PlaceIs, WidthIs
  <2>2. Moved(n) = IF q >= z THEN q ELSE IF q + n <= z THEN q + n ELSE z
      BY MovedIs
  <2>3. o = q + (n - c) /\ o + c <= z
      BY <1>2, <1>6
  <2> HIDE DEF q, z, o
  <2>4. o + c = Moved(n)
      BY <1>1, <2>1, <2>2, <2>3
  <2> QED BY <1>6, <2>4 DEF o
<1> HIDE DEF t, b2, l2
<1>8. HasRead(f, n, Rd(b2, l2, 0, t))
    BY <1>5, <1>6, <1>7, RdIs DEF HasRead
<1> QED BY <1>8 DEF t, b2, l2

(* It has not.                                                             *)
LEMMA ReadsOn ==
    ASSUME Typed, NEW n \in Nat, NEW f, Adds(f, n),
           NEW b, NEW l, NEW c, NEW s, InRead(f, n, b, l, c, s), b < DataSize, l < c
    PROVE  InRead(f, n, b + 1, Width, c - l, s + ((bs_data[b] % Pow2[l]) * Pow2[c - l]))
<1> DEFINE k == n - c  g == f[k]  m == Pow2[l]  e == Pow2[c - l]  y == bs_data[b] % m
           t == s + (y * e)
<1>1. /\ b \in Nat /\ l \in 1..Width /\ l \in Nat /\ c \in Nat /\ c <= n /\ k \in Nat /\ g \in Nat
      /\ c - l \in 0..n /\ c - l \in Nat /\ n - (c - l) = k + l /\ l + (c - l) = c
    <2>1. b \in Nat /\ l \in 1..Width /\ l \in Nat /\ c \in Nat /\ c <= n /\ k \in Nat /\ g \in Nat
        BY ReadTypes
    <2> QED BY <2>1
<1>2. s = g * Pow2[c] /\ BitPos(b, l) = Bitio!bs_pos + k /\ Bitio!bs_pos \in Nat
    BY PlaceIs DEF InRead
<1>3. Pow2[c] = m * e /\ m \in Nat /\ e \in Nat
  <2>1. Pow2[l + (c - l)] = m * e
      BY <1>1, PowersMultiply
  <2> QED BY <1>1, <2>1, PowersOfTwo
<1>4. f[k + l] = (g * m) + y /\ y \in Nat
  <2>1. f[k + l] = (g * m) + FromByte(b, l, l) /\ FromByte(b, l, l) \in Nat
      BY <1>1, ReadFrom
  <2>2. FromByte(b, l, l) = y
    <3>1. b \in 0..DataSize - 1
        BY <1>1, WidthIs
    <3>2. bs_data[b] \in Nat
        BY <3>1, PlaceIs, WidthIs DEF Datas
    <3>3. l - l = 0 /\ bs_data[b] \div 1 = bs_data[b]
        BY <1>1, <3>2
    <3> QED BY <3>3, PowersOfTwo DEF FromByte
  <2> QED BY <2>1, <2>2
<1>5. t = f[k + l] * e
  <2> DEFINE h == f[k + l]
  <2>1. h = (g * m) + y /\ s = g * (m * e) /\ g \in Nat /\ m \in Nat /\ e \in Nat /\ y \in Nat
      BY <1>1, <1>2, <1>3, <1>4
  <2> HIDE DEF h, g, m, e, y
  <2>2. s + (y * e) = h * e
    <3>1. g * (m * e) = (g * m) * e
        BY <2>1
    <3>2. ((g * m) + y) * e = ((g * m) * e) + (y * e)
      <4> DEFINE v == g * m
      <4>1. v \in Nat
          BY <2>1
      <4> HIDE DEF v
      <4>2. (v + y) * e = (v * e) + (y * e)
          BY <2>1, <4>1
      <4> QED BY <4>2 DEF v
    <3> QED BY <2>1, <3>1, <3>2
  <2> QED BY <2>2 DEF h
<1>6. BitPos(b + 1, Width) = BitPos(b, l) + l /\ BitPos(b, l) + l <= Width * DataSize
  <2>1. l \in 0..l
      BY <1>1
  <2>2. /\ Bitio!Place(b, l - l) = [p |-> b + 1, left |-> Width]
        /\ BitPos(Bitio!Place(b, l - l).p, Bitio!Place(b, l - l).left) = BitPos(b, l) + l
        /\ BitPos(b, l) + l <= Width * DataSize
      BY <1>1, <2>1, OnInByte
  <2> QED BY <2>2
<1>7. BitPos(b + 1, Width) = Bitio!bs_pos + (k + l)
  <2> DEFINE q == Bitio!bs_pos  o == BitPos(b, l)
  <2>1. q \in Nat /\ o = q + k
      BY <1>2
  <2> HIDE DEF q, o
  <2>2. o + l = q + (k + l)
      BY <1>1, <2>1
  <2> QED BY <1>6, <2>2 DEF q, o
<1>8. b + 1 \in Nat /\ Width \in 1..Width
    BY <1>1, WidthIs
<1> HIDE DEF t
<1>9. t = f[n - (c - l)] * Pow2[c - l]
    BY <1>1, <1>5
<1>10. BitPos(b + 1, Width) = Bitio!bs_pos + (n - (c - l)) /\ BitPos(b + 1, Width) <= Width * DataSize
    BY <1>1, <1>6, <1>7
<1>11. InRead(f, n, b + 1, Width, c - l, t)
    BY <1>1, <1>8, <1>9, <1>10 DEF InRead
<1> QED BY <1>11 DEF t

LEMMA ReadingFinds ==
    ASSUME Typed, NEW n \in Nat, NEW f, Adds(f, n)
    PROVE  HasRead(f, n, Bitio!Read(n))
<1> DEFINE Ends(b, l, c, s) ==
             InRead(f, n, b, l, c, s) => HasRead(f, n, Bitio!Reading[Rd(b, l, c, s)])
           S == {m \in Nat : \A b \in Nat, l \in 1..Width, c \in Nat, s \in Nat :
                               b + m >= DataSize => Ends(b, l, c, s)}
<1>1. ASSUME NEW b, NEW l, NEW c, NEW s, InRead(f, n, b, l, c, s),
             c = 0 \/ b >= DataSize \/ c <= l
      PROVE  HasRead(f, n, Bitio!Reading[Rd(b, l, c, s)])
  <2>1. b \in Nat /\ l \in 1..Width /\ l \in Nat /\ c \in Nat /\ s \in Nat
        /\ Rd(b, l, c, s) \in Bitio!Readings
      BY <1>1, ReadTypes
  <2>2. Bitio!Reading[Rd(b, l, c, s)] = ReadStep(Bitio!Reading, Rd(b, l, c, s))
      BY <2>1, ReadingIs
  <2>3. CASE c = 0
    <3>1. ReadStep(Bitio!Reading, Rd(b, l, c, s)) = Rd(b, l, c, s)
        BY <2>1, <2>3, RdIs DEF ReadStep
    <3> QED BY <1>1, <2>2, <2>3, <3>1, ReadAll
  <2>4. CASE c # 0 /\ b >= DataSize
    <3>1. ReadStep(Bitio!Reading, Rd(b, l, c, s)) = Rd(b, l, c, s)
        BY <2>1, <2>4, RdIs DEF ReadStep
    <3>2. s = f[n] /\ BitPos(b, l) = Moved(n)
        BY <1>1, <2>4, ReadToEnd
    <3> QED BY <2>1, <2>2, <3>1, <3>2, RdIs DEF HasRead
  <2>5. CASE c # 0 /\ ~(b >= DataSize)
    <3>1. b < DataSize /\ l - c >= 0 /\ ~(c <= 0) /\ c <= l
        BY <1>1, <2>1, <2>5, WidthIs
    <3>2. ReadStep(Bitio!Reading, Rd(b, l, c, s))
            = Rd(Bitio!Place(b, l - c).p, Bitio!Place(b, l - c).left, 0, s + FromByte(b, l, c))
        BY <2>5, <3>1, RdIs DEF ReadStep
    <3> QED BY <1>1, <2>2, <3>1, <3>2, ReadLast
  <2> QED BY <2>3, <2>4, <2>5
<1>2. 0 \in S
  <2>1. ASSUME NEW b \in Nat, NEW l \in 1..Width, NEW c \in Nat, NEW s \in Nat, b + 0 >= DataSize
        PROVE  Ends(b, l, c, s)
    <3>1. b >= DataSize
        BY <2>1, WidthIs
    <3> QED BY <1>1, <3>1
  <2> QED BY <2>1
<1>3. ASSUME NEW m \in Nat, m \in S PROVE m + 1 \in S
  <2>1. ASSUME NEW b \in Nat, NEW l \in 1..Width, NEW c \in Nat, NEW s \in Nat,
               b + (m + 1) >= DataSize, InRead(f, n, b, l, c, s)
        PROVE  HasRead(f, n, Bitio!Reading[Rd(b, l, c, s)])
    <3>1. CASE c = 0 \/ b >= DataSize \/ c <= l
        BY <1>1, <2>1, <3>1
    <3>2. CASE ~(c = 0 \/ b >= DataSize \/ c <= l)
      <4> DEFINE t == s + ((bs_data[b] % Pow2[l]) * Pow2[c - l])
      <4>1. b < DataSize /\ l < c /\ ~(l - c >= 0) /\ ~(c <= 0) /\ l \in Nat
          BY <3>2, WidthIs
      <4>2. InRead(f, n, b + 1, Width, c - l, t)
          BY <2>1, <4>1, ReadsOn
      <4> HIDE DEF t
      <4>3. b + 1 \in Nat /\ Width \in 1..Width /\ c - l \in Nat /\ t \in Nat
          BY <4>2, ReadTypes
      <4>4. (b + 1) + m >= DataSize
          BY <2>1, WidthIs
      <4>5. HasRead(f, n, Bitio!Reading[Rd(b + 1, Width, c - l, t)])
          BY <1>3, <4>2, <4>3, <4>4
      <4>6. Rd(b, l, c, s) \in Bitio!Readings
          BY <2>1, ReadTypes
      <4>7. Bitio!Reading[Rd(b, l, c, s)] = ReadStep(Bitio!Reading, Rd(b, l, c, s))
          BY <4>6, ReadingIs
      <4>8. ReadStep(Bitio!Reading, Rd(b, l, c, s)) = Bitio!Reading[Rd(b + 1, Width, c - l, t)]
          BY <3>2, <4>1, RdIs DEF ReadStep, t
      <4> QED BY <4>5, <4>7, <4>8
    <3> QED BY <3>1, <3>2
  <2>2. m + 1 \in Nat
      OBVIOUS
  <2> QED BY <2>1, <2>2
<1> HIDE DEF S
<1>4. \A m \in Nat : m \in S
    BY <1>2, <1>3, CountingOn
<1>5. InRead(f, n, bs_p, bs_left, n, 0)
  <2>1. bs_p \in Nat /\ bs_left \in 1..Width /\ n \in 0..n /\ n - n = 0 /\ f[0] = 0
        /\ Bitio!bs_pos \in Nat
      BY PlaceIs DEF Adds
  <2>2. 0 * Pow2[n] = 0
    <3>1. Pow2[n] \in Nat
        BY PowersOfTwo
    <3> QED BY <3>1
  <2>3. BitPos(bs_p, bs_left) = Bitio!bs_pos + 0
      BY <2>1, TapeIs
  <2> QED BY <2>1, <2>2, <2>3 DEF InRead
<1>6. DataSize \in S /\ bs_p \in Nat /\ bs_left \in 1..Width /\ bs_p + DataSize >= DataSize
    BY <1>4, PlaceIs, WidthIs
<1>7. Ends(bs_p, bs_left, n, 0)
    BY <1>6 DEF S
<1>8. Bitio!Read(n) = Bitio!Reading[Rd(bs_p, bs_left, n, 0)]
    BY DEF Bitio!Read, Rd
<1> QED BY <1>5, <1>7, <1>8

(* Reading, showing and skipping.                                          *)
LEMMA ReadsNumber ==
    ASSUME Typed, NEW n \in Nat, Bitio!bs_read(n)
    PROVE  Typed' /\ Bitio!Tape!Read(n)
<1>1. PICK f : Adds(f, n) /\ Bitio!Tape!Number(n) = f[n]
    BY NumberIs
<1>2. HasRead(f, n, Bitio!Read(n))
    BY <1>1, ReadingFinds
<1>3. /\ bs_p' \in Nat /\ bs_left' \in 1..Width /\ bs_result' = f[n]
      /\ BitPos(bs_p', bs_left') = Moved(n) /\ bs_data' = bs_data
    BY <1>2 DEF Bitio!bs_read, HasRead
<1>4. bs_result' \in Nat
    BY <1>1, <1>3 DEF Adds
<1>5. Typed'
    BY <1>3, <1>4, PlaceIs DEF Typed, Bitio!TypeOK, Datas, Width
<1>6. Bitio!bs_pos' = Moved(n) /\ Bitio!Bits' = Bitio!Bits
    BY <1>3, TapeIs
<1>7. Bitio!Tape!Read(n)
    BY <1>1, <1>3, <1>6 DEF Bitio!Tape!Read, Bitio!Tape!Move, Moved
<1> QED BY <1>5, <1>7

LEMMA ShowsNumber ==
    ASSUME Typed, NEW n \in Nat, Bitio!bs_show(n)
    PROVE  Typed' /\ Bitio!Tape!Show(n)
<1>1. PICK f : Adds(f, n) /\ Bitio!Tape!Number(n) = f[n]
    BY NumberIs
<1>2. HasRead(f, n, Bitio!Read(n))
    BY <1>1, ReadingFinds
<1>3. bs_result' = f[n] /\ bs_p' = bs_p /\ bs_left' = bs_left /\ bs_data' = bs_data
    BY <1>2 DEF Bitio!bs_show, HasRead
<1>4. bs_result' \in Nat
    BY <1>1, <1>3 DEF Adds
<1>5. Typed'
    BY <1>3, <1>4, PlaceIs DEF Typed, Bitio!TypeOK, Datas, Width
<1>6. Bitio!bs_pos' = Bitio!bs_pos /\ Bitio!Bits' = Bitio!Bits
    BY <1>3, TapeIs
<1>7. Bitio!Tape!Show(n)
    BY <1>1, <1>3, <1>6 DEF Bitio!Tape!Show
<1> QED BY <1>5, <1>7

LEMMA ReadsOneBit ==
    ASSUME Typed, Bitio!bs_read1
    PROVE  Typed' /\ Bitio!Tape!Read(1)
<1> DEFINE q == Bitio!bs_pos  z == Width * DataSize
<1>1. bs_data \in Datas /\ bs_p \in Nat /\ bs_left \in 1..Width /\ q \in Nat /\ z \in Nat
    BY PlaceIs, WidthIs
<1>2. q = BitPos(bs_p, bs_left) /\ (bs_p >= DataSize <=> q >= z)
    BY <1>1, TapeIs, WhereBitIs
<1>3. PICK f : Adds(f, 1) /\ Bitio!Tape!Number(1) = f[1]
    BY NumberIs
<1>4. f[1] = Bitio!Tape!Bit(q + 1)
  <2>1. 1 \in 1..1 /\ 1 - 1 = 0
      OBVIOUS
  <2>2. f[1] = (2 * f[1 - 1]) + Bitio!Tape!Bit(q + 1) /\ f[0] = 0
      BY <1>3, <2>1 DEF Adds
  <2>3. Bitio!Tape!Bit(q + 1) \in 0..1
    <3>1. q + 1 \in Nat \ {0}
        BY <1>1
    <3> QED BY <3>1, TapeBits
  <2> DEFINE v == Bitio!Tape!Bit(q + 1)
  <2> HIDE DEF v, q
  <2> QED BY <2>1, <2>2, <2>3 DEF v
<1>5. Moved(1) = IF q >= z THEN q ELSE q + 1
  <2>1. Moved(1) = IF q >= z THEN q ELSE IF q + 1 <= z THEN q + 1 ELSE z
      BY MovedIs
  <2> HIDE DEF q, z
  <2> QED BY <1>1, <2>1
<1>6. CASE bs_p >= DataSize
  <2>1. bs_result' = 0 /\ bs_p' = bs_p /\ bs_left' = bs_left /\ bs_data' = bs_data
      BY <1>6 DEF Bitio!bs_read1, Bitio!bs_eof
  <2>2. Bitio!Tape!Bit(q + 1) = 0
    <3>1. q + 1 \in Nat \ {0} /\ q + 1 > z
      <4>1. q >= z
          BY <1>2, <1>6
      <4> HIDE DEF q, z
      <4> QED BY <1>1, <4>1
    <3> QED BY <3>1, TapeBits
  <2>3. Typed'
      BY <1>1, <2>1 DEF Typed, Bitio!TypeOK, Datas, Width
  <2>4. Bitio!bs_pos' = Bitio!bs_pos /\ Bitio!Bits' = Bitio!Bits
      BY <2>1, TapeIs
  <2>5. Bitio!bs_pos' = Moved(1) /\ bs_result' = f[1]
      BY <1>2, <1>4, <1>5, <1>6, <2>1, <2>2, <2>4
  <2> QED BY <1>3, <2>3, <2>4, <2>5 DEF Bitio!Tape!Read, Bitio!Tape!Move, Moved
<1>7. CASE ~(bs_p >= DataSize)
  <2> DEFINE pl == Bitio!Place(bs_p, bs_left - 1)
  <2>1. /\ bs_result' = FromByte(bs_p, bs_left, 1)
        /\ bs_p' = pl.p /\ bs_left' = pl.left /\ bs_data' = bs_data
      BY <1>7, SamePowers DEF Bitio!bs_read1, Bitio!bs_eof, Bitio!At, Bitio!LowBits, FromByte
  <2>2. FromByte(bs_p, bs_left, 1) = Bitio!Tape!Bit(q + 1) /\ Bitio!Tape!Bit(q + 1) \in 0..1
    <3>1. bs_p \in 0..DataSize - 1 /\ 1 \in 1..Width /\ 1 <= bs_left
        BY <1>1, <1>7, WidthIs
    <3>2. Bitio!Tape!Bit(BitPos(bs_p, bs_left) + 1) = BitOf(bs_data[bs_p], bs_left - 1)
        BY <1>1, <3>1, TapeBits
    <3>3. Pow2[1] = 2
      <4>1. Pow2[0 + 1] = 2 * Pow2[0] /\ 0 + 1 = 1
          BY PowersOfTwo
      <4> QED BY <4>1, PowersOfTwo
    <3>4. q + 1 \in Nat \ {0}
        BY <1>1
    <3>5. Bitio!Tape!Bit(q + 1) \in 0..1
        BY <3>4, TapeBits
    <3> QED BY <1>2, <3>2, <3>3, <3>5 DEF FromByte, BitOf
  <2>3. /\ pl.p \in Nat /\ pl.left \in 1..Width
        /\ BitPos(pl.p, pl.left) = BitPos(bs_p, bs_left) + 1
    <3>1. 1 \in 0..bs_left
        BY <1>1, WidthIs
    <3> QED BY <1>1, <3>1, OnInByte
  <2> HIDE DEF pl
  <2>4. Typed'
      BY <1>1, <2>1, <2>2, <2>3 DEF Typed, Bitio!TypeOK, Datas, Width
  <2>5. Bitio!bs_pos' = Moved(1) /\ bs_result' = f[1] /\ Bitio!Bits' = Bitio!Bits
    <3>1. Bitio!bs_pos' = q + 1 /\ Bitio!Bits' = Bitio!Bits
        BY <1>2, <2>1, <2>3, TapeIs
    <3> QED BY <1>2, <1>4, <1>5, <1>7, <2>1, <2>2, <3>1
  <2> QED BY <1>3, <2>4, <2>5 DEF Bitio!Tape!Read, Bitio!Tape!Move, Moved
<1> QED BY <1>6, <1>7

Sk(b, l) == [p |-> b, left |-> l]

LEMMA SkIs ==
    ASSUME NEW b, NEW l
    PROVE  /\ Sk(b, l).p = b /\ Sk(b, l).left = l
           /\ b \in Nat /\ l \in Int => Sk(b, l) \in Bitio!Skips
BY DEF Sk, Bitio!Skips

LEMMA SkippingIs ==
    \A r \in Bitio!Skips :
       Bitio!Skipping[r] = IF r.left > 0 THEN r ELSE Bitio!Skipping[Sk(r.p + 1, r.left + Width)]
<1> DEFINE R == Bitio!Skips
           Done == {r \in R : r.left > 0}
           next == [r \in R |-> Sk(r.p + 1, r.left + Width)]
           Skips(f) == f = [r \in R |-> IF r.left > 0 THEN r ELSE f[Sk(r.p + 1, r.left + Width)]]
           res == [r \in R |-> r]
<1>1. next \in [R -> R] /\ Done \in SUBSET R
  <2>1. ASSUME NEW r \in R PROVE Sk(r.p + 1, r.left + Width) \in R
    <3>1. r.p + 1 \in Nat /\ r.left + Width \in Int
        BY WidthIs DEF Bitio!Skips
    <3> QED BY <3>1, SkIs
  <2> QED BY <2>1
<1>3. ASSUME NEW f, NEW r \in R
      PROVE  (IF r.left > 0 THEN r ELSE f[Sk(r.p + 1, r.left + Width)])
               = IF r \in Done THEN res[r] ELSE f[next[r]]
    OBVIOUS
<1> HIDE DEF Done, next, res, R
<1>4. PICK f : GoesOn(f, R, Done, next, res)
    BY <1>1, GoingOn
<1>5. Skips(f)
  <2>1. f = [r \in R |-> IF r.left > 0 THEN r ELSE f[Sk(r.p + 1, r.left + Width)]]
      BY <1>3, <1>4, Zenon DEF GoesOn
  <2> QED BY <2>1
<1> DEFINE h == CHOOSE g : Skips(g)
<1>6. Skips(h)
  <2> HIDE DEF Skips
  <2> QED BY <1>5
<1>7. Bitio!Skipping = h
    BY Zenon DEF Bitio!Skipping, Sk, R, Width
<1> HIDE DEF h
<1> QED BY <1>6, <1>7 DEF R

(* Skipping ends, at the same distance.                                    *)
HasSkipped(b, l, r) ==
    /\ r.p \in Nat /\ r.left \in 1..Width
    /\ BitPos(r.p, r.left) = BitPos(b, l)

LEMMA SkippingEnds ==
    ASSUME NEW b \in Nat, NEW l \in Int, l <= Width
    PROVE  HasSkipped(b, l, Bitio!Skipping[Sk(b, l)])
<1> DEFINE S == {m \in Nat : \A c \in Nat, k \in Int :
                               k <= Width /\ k + m > 0 => HasSkipped(c, k, Bitio!Skipping[Sk(c, k)])}
<1>1. ASSUME NEW c \in Nat, NEW k \in Int, k <= Width, k > 0
      PROVE  HasSkipped(c, k, Bitio!Skipping[Sk(c, k)])
  <2>1. Bitio!Skipping[Sk(c, k)] = Sk(c, k)
      BY <1>1, SkippingIs, SkIs
  <2>2. k \in 1..Width
      BY <1>1, WidthIs
  <2> QED BY <2>1, <2>2, SkIs DEF HasSkipped
<1>2. 0 \in S
    BY <1>1
<1>3. ASSUME NEW m \in Nat, m \in S PROVE m + 1 \in S
  <2>1. ASSUME NEW c \in Nat, NEW k \in Int, k <= Width, k + (m + 1) > 0
        PROVE  HasSkipped(c, k, Bitio!Skipping[Sk(c, k)])
    <3>1. CASE k > 0
        BY <1>1, <2>1, <3>1
    <3>2. CASE ~(k > 0)
      <4>1. c + 1 \in Nat /\ k + Width \in Int /\ k + Width <= Width /\ (k + Width) + m > 0
          BY <2>1, <3>2, WidthIs
      <4>2. Bitio!Skipping[Sk(c, k)] = Bitio!Skipping[Sk(c + 1, k + Width)]
          BY <3>2, SkippingIs, SkIs
      <4>3. HasSkipped(c + 1, k + Width, Bitio!Skipping[Sk(c + 1, k + Width)])
          BY <1>3, <4>1
      <4>4. BitPos(c + 1, k + Width) = BitPos(c, k)
        <5>1. Width * (c + 1) = (Width * c) + Width /\ Width * c \in Int
            BY WidthIs
        <5> DEFINE s == Width * c
        <5> HIDE DEF s
        <5>2. s \in Int /\ (s + Width) + (Width - (k + Width)) = s + (Width - k)
            BY <5>1, WidthIs DEF s
        <5> QED BY <5>1, <5>2 DEF s, BitPos
      <4> QED BY <4>2, <4>3, <4>4 DEF HasSkipped
    <3> QED BY <3>1, <3>2
  <2>2. m + 1 \in Nat
      OBVIOUS
  <2> QED BY <2>1, <2>2
<1> HIDE DEF S
<1>4. \A m \in Nat : m \in S
    BY <1>2, <1>3, CountingOn
<1>5. \E m \in Nat : l + m > 0
  <2>1. CASE l > 0
      BY <2>1
  <2>2. CASE ~(l > 0)
    <3>1. 1 - l \in Nat /\ l + (1 - l) > 0
        BY <2>2
    <3> QED BY <3>1
  <2> QED BY <2>1, <2>2
<1> QED BY <1>4, <1>5 DEF S

LEMMA SkipsBits ==
    ASSUME Typed, NEW n \in Nat, Bitio!bs_skip(n)
    PROVE  Typed' /\ Bitio!Tape!Skip(n)
<1> DEFINE r == Bitio!Skipping[Sk(bs_p, bs_left - n)]
<1>1. /\ bs_data \in Datas /\ bs_p \in Nat /\ bs_left \in 1..Width /\ bs_result \in Nat
      /\ bs_left - n \in Int /\ bs_left - n <= Width
    BY PlaceIs, WidthIs
<1>2. HasSkipped(bs_p, bs_left - n, r)
    BY <1>1, SkippingEnds
<1>3. bs_p' = r.p /\ bs_left' = r.left /\ bs_data' = bs_data /\ bs_result' = bs_result
    BY DEF Bitio!bs_skip, Bitio!At, Sk
<1> HIDE DEF r
<1>4. Typed'
    BY <1>1, <1>2, <1>3 DEF HasSkipped, Typed, Bitio!TypeOK, Datas, Width
<1>5. BitPos(bs_p, bs_left - n) = BitPos(bs_p, bs_left) + n
  <2>1. Width * bs_p \in Int
      BY <1>1, WidthIs
  <2> DEFINE s == Width * bs_p
  <2> HIDE DEF s
  <2>2. s \in Int /\ s + (Width - (bs_left - n)) = (s + (Width - bs_left)) + n
      BY <1>1, <2>1, WidthIs DEF s
  <2> QED BY <2>2 DEF s, BitPos
<1>6. Bitio!bs_pos' = Bitio!bs_pos + n /\ Bitio!Bits' = Bitio!Bits
    BY <1>2, <1>3, <1>5, TapeIs DEF HasSkipped
<1> QED BY <1>3, <1>4, <1>6 DEF Bitio!Tape!Skip

(* The loop that writes, and that it is defined.                           *)
Wr(b, l, c, d) == [p |-> b, left |-> l, count |-> c, data |-> d]

LEMMA WrIs ==
    ASSUME NEW b, NEW l, NEW c, NEW d
    PROVE  /\ Wr(b, l, c, d).p = b /\ Wr(b, l, c, d).left = l
           /\ Wr(b, l, c, d).count = c /\ Wr(b, l, c, d).data = d
           /\ b \in Nat /\ l \in 1..Width /\ c \in Nat /\ d \in Datas => Wr(b, l, c, d) \in Bitio!Writings
BY DEF Wr, Bitio!Writings, Width, Datas

WithBitAt(d, b, l, bit) == [d EXCEPT ![b] = Bitio!WithBit(@, l - 1, bit)]

LEMMA BitWritten ==
    ASSUME NEW d \in Datas, NEW b \in 0..DataSize - 1, NEW l \in 1..Width, NEW bit \in 0..1
    PROVE  /\ WithBitAt(d, b, l, bit) \in Datas
           /\ \A i \in 1..Width * DataSize :
                 BitsOf(WithBitAt(d, b, l, bit))[i] =
                   IF i = BitPos(b, l) + 1 THEN bit ELSE BitsOf(d)[i]
<1> DEFINE e == WithBitAt(d, b, l, bit)  x == d[b]  y == Bitio!WithBit(x, l - 1, bit)
<1>1. l - 1 \in Nat /\ Width \in Nat /\ Width > l - 1 /\ b \in Nat
    BY WidthIs
<1>2. x \in 0..Pow2[Width] - 1 /\ x \in Nat
  <2>1. x \in Bitio!Byte
      BY DEF Datas
  <2> QED BY <2>1, WidthIs
<1>3. /\ y \in 0..Pow2[Width] - 1 /\ y \in Nat
      /\ \A n \in Nat : BitOf(y, n) = IF n = l - 1 THEN bit ELSE BitOf(x, n)
  <2> DEFINE k == l - 1
  <2>1. k \in Nat /\ Width > k /\ x \in Nat /\ bit \in 0..1
      BY <1>1, <1>2
  <2> HIDE DEF x, k
  <2>2. /\ Bitio!WithBit(x, k, bit) \in Nat
        /\ \A n \in Nat : BitOf(Bitio!WithBit(x, k, bit), n) = IF n = k THEN bit ELSE BitOf(x, n)
        /\ \A n \in Nat : n > k /\ x \in 0..Pow2[n] - 1
                             => Bitio!WithBit(x, k, bit) \in 0..Pow2[n] - 1
      BY <2>1, OneBitPut
  <2>3. Bitio!WithBit(x, k, bit) \in 0..Pow2[Width] - 1
      BY <1>1, <1>2, <2>1, <2>2
  <2> QED BY <2>2, <2>3, Zenon DEF k
<1>4. e = [d EXCEPT ![b] = y]
    BY DEF WithBitAt
<1> HIDE DEF e, y
<1>5. e \in Datas
  <2>1. y \in Bitio!Byte
      BY <1>3, WidthIs
  <2> QED BY <1>4, <2>1 DEF Datas
<1>6. e[b] = y /\ \A c \in 0..DataSize - 1 : c # b => e[c] = d[c]
    BY <1>4 DEF Datas
<1>7. ASSUME NEW i \in 1..Width * DataSize
      PROVE  BitsOf(e)[i] = IF i = BitPos(b, l) + 1 THEN bit ELSE BitsOf(d)[i]
  <2>1. PICK c \in 0..DataSize - 1, m \in 1..Width : i = BitPos(c, m) + 1
      BY EveryBit
  <2>2. BitsOf(e)[i] = BitOf(e[c], m - 1) /\ BitsOf(d)[i] = BitOf(d[c], m - 1)
      BY <1>5, <2>1, BitsAre
  <2>3. c \in Nat /\ m - 1 \in Nat
      BY WidthIs
  <2>4. BitPos(c, m) \in Nat /\ BitPos(c, m) \div Width = c /\ BitPos(c, m) % Width = Width - m
      BY <2>3, WhereBitIs
  <2>5. BitPos(b, l) \in Nat /\ BitPos(b, l) \div Width = b /\ BitPos(b, l) % Width = Width - l
      BY <1>1, WhereBitIs
  <2>6. CASE i = BitPos(b, l) + 1
    <3>1. BitPos(c, m) = BitPos(b, l)
        BY <2>1, <2>4, <2>5, <2>6
    <3>2. c = b /\ Width - m = Width - l
        BY <2>4, <2>5, <3>1
    <3>3. m = l
        BY <3>2, WidthIs
    <3> QED BY <1>1, <1>3, <1>6, <2>2, <2>6, <3>2, <3>3
  <2>7. CASE i # BitPos(b, l) + 1
    <3>1. ~(c = b /\ m = l)
        BY <2>1, <2>7
    <3>2. CASE c # b
        BY <1>6, <2>2, <2>7, <3>2
    <3>3. CASE c = b /\ m # l
      <4>1. m - 1 # l - 1
          BY <3>3, WidthIs
      <4>2. BitOf(y, m - 1) = BitOf(x, m - 1)
          BY <1>3, <2>3, <4>1
      <4> QED BY <1>6, <2>2, <2>7, <3>3, <4>2
    <3> QED BY <3>1, <3>2, <3>3
  <2> QED BY <2>6, <2>7
<1> QED BY <1>5, <1>7 DEF e

WriteStep(f, number, w) ==
    IF w.count = 0 \/ w.p >= DataSize THEN w
    ELSE f[Wr(Bitio!Place(w.p, w.left - 1).p, Bitio!Place(w.p, w.left - 1).left, w.count - 1,
              WithBitAt(w.data, w.p, w.left, BitOf(number, w.count - 1)))]

LEMMA WritingIs ==
    ASSUME NEW number \in Nat
    PROVE  \A w \in Bitio!Writings :
              Bitio!Writing(number)[w] = WriteStep(Bitio!Writing(number), number, w)
<1> DEFINE R == Bitio!Writings
           Done == {w \in R : w.count = 0 \/ w.p >= DataSize}
           On(w) == Wr(Bitio!Place(w.p, w.left - 1).p, Bitio!Place(w.p, w.left - 1).left,
                       w.count - 1, WithBitAt(w.data, w.p, w.left, BitOf(number, w.count - 1)))
           next == [w \in R |-> IF w \in Done THEN w ELSE On(w)]
           res == [w \in R |-> w]
           Writes(f) == f = [w \in R |-> WriteStep(f, number, w)]
<1>1. ASSUME NEW w \in R, w \notin Done PROVE On(w) \in R
  <2> DEFINE d == WithBitAt(w.data, w.p, w.left, BitOf(number, w.count - 1))
             pl == Bitio!Place(w.p, w.left - 1)
  <2>1. w.p \in Nat /\ w.left \in 1..Width /\ w.count \in Nat /\ w.data \in Datas
      BY DEF Bitio!Writings, Width, Datas
  <2>2. w.p \in 0..DataSize - 1 /\ w.count - 1 \in Nat /\ 1 \in 0..w.left /\ number \in Int
      BY <1>1, <2>1, WidthIs
  <2>3. BitOf(number, w.count - 1) \in 0..1
      BY <2>2, BitIs
  <2>4. d \in Datas
      BY <2>1, <2>2, <2>3, BitWritten
  <2>5. pl.p \in Nat /\ pl.left \in 1..Width
      BY <2>1, <2>2, OnInByte
  <2> HIDE DEF d, pl
  <2>6. Wr(pl.p, pl.left, w.count - 1, d) \in Bitio!Writings
      BY <2>2, <2>4, <2>5, WrIs
  <2> QED BY <2>6 DEF d, pl
<1>2. next \in [R -> R] /\ Done \in SUBSET R
  <2> HIDE DEF On
  <2>1. Done \in SUBSET R
      OBVIOUS
  <2>2. \A w \in R : w \notin Done => On(w) \in R
      BY <1>1
  <2> HIDE DEF Done
  <2> QED BY <2>1, <2>2
<1>3. ASSUME NEW f, NEW w \in R
      PROVE  WriteStep(f, number, w) = IF w \in Done THEN res[w] ELSE f[next[w]]
    BY DEF WriteStep
<1> HIDE DEF Done, next, res, R, On
<1>4. PICK f : GoesOn(f, R, Done, next, res)
    BY <1>2, GoingOn
<1>5. Writes(f)
  <2>1. f = [w \in R |-> WriteStep(f, number, w)]
      BY <1>3, <1>4, Zenon DEF GoesOn
  <2> QED BY <2>1
<1> DEFINE h == CHOOSE g : Writes(g)
<1>6. Writes(h)
  <2> HIDE DEF Writes
  <2> QED BY <1>5
<1>7. Bitio!Writing(number) = h
    BY SamePowers, ZenonT(60)
       DEF Bitio!Writing, WriteStep, Wr, WithBitAt, BitOf, R, Width
<1> HIDE DEF h
<1> QED BY <1>6, <1>7 DEF R

(* Where the loop is: c of n bits are still to be written.                 *)
Holds(d, number, n, k) ==
    \A i \in 1..Width * DataSize :
       BitsOf(d)[i] = IF i \in Bitio!bs_pos + 1..Bitio!bs_pos + k
                      THEN BitOf(number, Bitio!bs_pos + n - i) ELSE BitsOf(bs_data)[i]

InWrite(number, n, b, l, c, d) ==
    /\ b \in Nat /\ l \in 1..Width /\ c \in 0..n /\ d \in Datas
    /\ BitPos(b, l) = Bitio!bs_pos + (n - c)
    /\ c = n \/ BitPos(b, l) <= Width * DataSize
    /\ Holds(d, number, n, n - c)

HasWritten(number, n, w) ==
    /\ w.p \in Nat /\ w.left \in 1..Width /\ w.data \in Datas
    /\ BitPos(w.p, w.left) = Moved(n)
    /\ Holds(w.data, number, n, n)

LEMMA WriteTypes ==
    ASSUME NEW n \in Nat, NEW number, NEW b, NEW l, NEW c, NEW d, InWrite(number, n, b, l, c, d)
    PROVE  /\ b \in Nat /\ l \in 1..Width /\ l \in Nat /\ c \in Nat /\ c <= n /\ n - c \in Nat
           /\ d \in Datas /\ Wr(b, l, c, d) \in Bitio!Writings
<1>1. b \in Nat /\ l \in 1..Width /\ c \in 0..n /\ d \in Datas
    BY DEF InWrite
<1>2. l \in Nat /\ c \in Nat /\ c <= n /\ n - c \in Nat
    BY <1>1, WidthIs
<1>3. Wr(b, l, c, d) \in Bitio!Writings
    BY <1>1, <1>2, WrIs
<1> QED BY <1>1, <1>2, <1>3

(* All bits are written, or the data end.                                  *)
LEMMA WriteEnds ==
    ASSUME Typed, NEW n \in Nat, NEW number, NEW b, NEW l, NEW c, NEW d,
           InWrite(number, n, b, l, c, d), c = 0 \/ b >= DataSize
    PROVE  HasWritten(number, n, Wr(b, l, c, d))
<1> DEFINE q == Bitio!bs_pos  z == Width * DataSize  o == BitPos(b, l)  k == n - c
<1>1. /\ b \in Nat /\ l \in 1..Width /\ c \in Nat /\ c <= n /\ k \in Nat /\ d \in Datas
      /\ q \in Nat /\ z \in Nat /\ n = k + c
    BY WriteTypes, PlaceIs, WidthIs
<1>2. o = q + k /\ (c = n \/ o <= z) /\ Holds(d, number, n, k)
    BY DEF InWrite
<1>3. b >= DataSize => o >= z
    BY <1>1, WhereBitIs
<1>4. Moved(n) = IF q >= z THEN q ELSE IF q + n <= z THEN q + n ELSE z
    BY MovedIs
<1>5. o = Moved(n)
  <2> HIDE DEF q, z, o, k
  <2> QED BY <1>1, <1>2, <1>3, <1>4
<1>6. \A i \in 1..z : i \in q + 1..q + n <=> i \in q + 1..q + k
  <2> HIDE DEF q, z, o, k
  <2>1. c = 0 \/ q + k >= z
      BY <1>2, <1>3
  <2> QED BY <1>1, <2>1
<1>7. Holds(d, number, n, n)
    BY <1>2, <1>6, Zenon DEF Holds
<1> QED BY <1>1, <1>5, <1>7, WrIs DEF HasWritten

LEMMA WritesOn ==
    ASSUME Typed, NEW n \in Nat, NEW number \in Nat, NEW b, NEW l, NEW c, NEW d,
           InWrite(number, n, b, l, c, d), c # 0, ~(b >= DataSize)
    PROVE  InWrite(number, n, Bitio!Place(b, l - 1).p, Bitio!Place(b, l - 1).left, c - 1,
                   WithBitAt(d, b, l, BitOf(number, c - 1)))
<1> DEFINE q == Bitio!bs_pos  z == Width * DataSize  o == BitPos(b, l)  k == n - c
           b2 == Bitio!Place(b, l - 1).p  l2 == Bitio!Place(b, l - 1).left
           bit == BitOf(number, c - 1)  e == WithBitAt(d, b, l, bit)
<1>1. /\ b \in Nat /\ l \in 1..Width /\ l \in Nat /\ c \in Nat /\ c <= n /\ k \in Nat /\ d \in Datas
      /\ q \in Nat /\ z \in Nat
    BY WriteTypes, PlaceIs, WidthIs
<1>2. o = q + k /\ (c = n \/ o <= z) /\ Holds(d, number, n, k)
    BY DEF InWrite
<1>3. /\ b \in 0..DataSize - 1 /\ c - 1 \in Nat /\ c - 1 \in 0..n /\ n - (c - 1) = k + 1
      /\ 1 \in 0..l /\ number \in Int /\ b < DataSize
    BY <1>1, WidthIs
<1>4. bit \in 0..1
    BY <1>3, BitIs
<1>5. e \in Datas /\ \A i \in 1..z : BitsOf(e)[i] = IF i = o + 1 THEN bit ELSE BitsOf(d)[i]
  <2> HIDE DEF bit
  <2> QED BY <1>1, <1>3, <1>4, BitWritten
<1>6. b2 \in Nat /\ l2 \in 1..Width /\ BitPos(b2, l2) = o + 1 /\ o + 1 <= z
    BY <1>1, <1>3, OnInByte
<1>7. Holds(e, number, n, k + 1)
  <2> SUFFICES ASSUME NEW i \in 1..z
               PROVE  BitsOf(e)[i] = IF i \in q + 1..q + (k + 1) THEN BitOf(number, q + n - i)
                                     ELSE BitsOf(bs_data)[i]
      BY DEF Holds
  <2>1. BitsOf(d)[i] = IF i \in q + 1..q + k THEN BitOf(number, q + n - i) ELSE BitsOf(bs_data)[i]
      BY <1>2 DEF Holds
  <2>2. BitsOf(e)[i] = IF i = o + 1 THEN bit ELSE BitsOf(d)[i]
      BY <1>5
  <2>3. i = o + 1 => i \in q + 1..q + (k + 1) /\ q + n - i = c - 1
    <3> DEFINE j == n - c
    <3> HIDE DEF q, z, o
    <3> QED BY <1>1, <1>2
  <2>4. i # o + 1 => (i \in q + 1..q + (k + 1) <=> i \in q + 1..q + k)
    <3> HIDE DEF q, o, k
    <3> QED BY <1>1, <1>2
  <2> HIDE DEF e, o, q, z, k
  <2> QED BY <2>1, <2>2, <2>3, <2>4
<1>8. BitPos(b2, l2) = q + (n - (c - 1)) /\ BitPos(b2, l2) <= z
  <2>1. o + 1 = q + (k + 1)
    <3> HIDE DEF q, o, k
    <3> QED BY <1>1, <1>2
  <2> QED BY <1>3, <1>6, <2>1
<1> HIDE DEF e, b2, l2
<1>9. Holds(e, number, n, n - (c - 1))
    BY <1>3, <1>7
<1>10. InWrite(number, n, b2, l2, c - 1, e)
    BY <1>3, <1>5, <1>6, <1>8, <1>9 DEF InWrite
<1> QED BY <1>10 DEF e, b2, l2

LEMMA WritingHolds ==
    ASSUME Typed, NEW n \in Nat, NEW number \in Nat
    PROVE  HasWritten(number, n, Bitio!Writing(number)[Wr(bs_p, bs_left, n, bs_data)])
<1> DEFINE F == Bitio!Writing(number)
           Ends(b, l, c, d) ==
             InWrite(number, n, b, l, c, d) => HasWritten(number, n, F[Wr(b, l, c, d)])
           S == {m \in Nat : \A b \in Nat, l \in 1..Width, c \in Nat, d \in Datas :
                               c <= m => Ends(b, l, c, d)}
<1> HIDE DEF F
<1>1. ASSUME NEW b, NEW l, NEW c, NEW d, InWrite(number, n, b, l, c, d)
      PROVE  F[Wr(b, l, c, d)] = WriteStep(F, number, Wr(b, l, c, d))
    BY <1>1, WriteTypes, WritingIs DEF F
<1>2. ASSUME NEW b, NEW l, NEW c, NEW d, InWrite(number, n, b, l, c, d), c = 0 \/ b >= DataSize
      PROVE  HasWritten(number, n, F[Wr(b, l, c, d)])
  <2>1. WriteStep(F, number, Wr(b, l, c, d)) = Wr(b, l, c, d)
      BY <1>2, WrIs DEF WriteStep
  <2> QED BY <1>1, <1>2, <2>1, WriteEnds
<1>3. 0 \in S
  <2>1. ASSUME NEW b \in Nat, NEW l \in 1..Width, NEW c \in Nat, NEW d \in Datas, c <= 0
        PROVE  Ends(b, l, c, d)
    <3>1. c = 0
        BY <2>1
    <3> QED BY <1>2, <3>1
  <2> QED BY <2>1
<1>4. ASSUME NEW m \in Nat, m \in S PROVE m + 1 \in S
  <2>1. ASSUME NEW b \in Nat, NEW l \in 1..Width, NEW c \in Nat, NEW d \in Datas,
               c <= m + 1, InWrite(number, n, b, l, c, d)
        PROVE  HasWritten(number, n, F[Wr(b, l, c, d)])
    <3>1. CASE c = 0 \/ b >= DataSize
        BY <1>2, <2>1, <3>1
    <3>2. CASE ~(c = 0 \/ b >= DataSize)
      <4> DEFINE b2 == Bitio!Place(b, l - 1).p  l2 == Bitio!Place(b, l - 1).left
                 e == WithBitAt(d, b, l, BitOf(number, c - 1))
      <4>1. WriteStep(F, number, Wr(b, l, c, d)) = F[Wr(b2, l2, c - 1, e)]
          BY <3>2, WrIs DEF WriteStep
      <4>2. InWrite(number, n, b2, l2, c - 1, e)
          BY <2>1, <3>2, WritesOn
      <4> HIDE DEF b2, l2, e
      <4>3. b2 \in Nat /\ l2 \in 1..Width /\ c - 1 \in Nat /\ e \in Datas /\ c - 1 <= m
        <5>1. b2 \in Nat /\ l2 \in 1..Width /\ c - 1 \in Nat /\ e \in Datas
            BY <4>2, WriteTypes
        <5> QED BY <2>1, <5>1
      <4>4. HasWritten(number, n, F[Wr(b2, l2, c - 1, e)])
          BY <1>4, <4>2, <4>3
      <4> QED BY <1>1, <2>1, <4>1, <4>4
    <3> QED BY <3>1, <3>2
  <2>2. m + 1 \in Nat
      OBVIOUS
  <2> QED BY <2>1, <2>2
<1> HIDE DEF S
<1>5. n \in S
    BY <1>3, <1>4, CountingOn
<1>6. InWrite(number, n, bs_p, bs_left, n, bs_data)
  <2>1. bs_p \in Nat /\ bs_left \in 1..Width /\ bs_data \in Datas /\ n \in 0..n /\ n - n = 0
        /\ Bitio!bs_pos \in Nat
      BY PlaceIs
  <2>2. Holds(bs_data, number, n, 0)
    <3>1. \A i : i \notin Bitio!bs_pos + 1..Bitio!bs_pos + 0
        BY <2>1
    <3> QED BY <3>1, Zenon DEF Holds
  <2>3. BitPos(bs_p, bs_left) = Bitio!bs_pos + 0
      BY <2>1, TapeIs
  <2> QED BY <2>1, <2>2, <2>3 DEF InWrite
<1>7. bs_p \in Nat /\ bs_left \in 1..Width /\ bs_data \in Datas /\ n <= n
    BY PlaceIs
<1>8. Ends(bs_p, bs_left, n, bs_data)
    BY <1>5, <1>7 DEF S
<1> QED BY <1>6, <1>8 DEF F

LEMMA WritesNumber ==
    ASSUME Typed, NEW n \in Nat, NEW number \in Nat, Bitio!bs_write(n, number)
    PROVE  Typed' /\ Bitio!Tape!Write(n, number)
<1> DEFINE w == Bitio!Writing(number)[Wr(bs_p, bs_left, n, bs_data)]
<1>1. HasWritten(number, n, w)
    BY WritingHolds
<1>2. bs_p' = w.p /\ bs_left' = w.left /\ bs_data' = w.data /\ bs_result' = bs_result
    BY DEF Bitio!bs_write, Bitio!At, Wr
<1> HIDE DEF w
<1>3. /\ bs_p' \in Nat /\ bs_left' \in 1..Width /\ bs_data' \in Datas
      /\ BitPos(bs_p', bs_left') = Moved(n) /\ Holds(bs_data', number, n, n)
    BY <1>1, <1>2 DEF HasWritten
<1>4. Typed'
    BY <1>2, <1>3, PlaceIs DEF Typed, Bitio!TypeOK, Datas, Width
<1>5. Bitio!bs_pos' = Moved(n)
    BY <1>3, TapeIs
<1> DEFINE t == BitsOf(bs_data')  u == BitsOf(bs_data)
<1>6. t \in [1..Width * DataSize -> 0..1] /\ u \in [1..Width * DataSize -> 0..1]
    BY <1>3, PlaceIs, BitsAre
<1>7. \A i \in 1..Width * DataSize :
         t[i] = IF i \in Bitio!bs_pos + 1..Bitio!bs_pos + n
                THEN BitOf(number, Bitio!bs_pos + n - i) ELSE u[i]
    BY <1>3 DEF Holds
<1> HIDE DEF t, u
<1>8. t = [i \in DOMAIN u |->
             IF i \in Bitio!bs_pos + 1..Bitio!bs_pos + n
             THEN BitOf(number, Bitio!bs_pos + n - i) ELSE u[i]]
    BY <1>6, <1>7
<1>9. Bitio!Bits' = t /\ Bitio!Bits = u
    BY TapeIs DEF t, u
<1>10. Bitio!Tape!Write(n, number)
    BY <1>2, <1>5, <1>8, <1>9, SamePowers
       DEF Bitio!Tape!Write, Bitio!Tape!Move, Moved, BitOf
<1> QED BY <1>4, <1>10

(* Aligning.                                                               *)
LEMMA RestOfByte ==
    ASSUME Typed, bs_left # Width
    PROVE  Bitio!Tape!Rest = bs_left /\ bs_left \in Nat /\ Pow2[bs_left] - 1 \in Nat
<1>1. bs_left \in 1..Width /\ bs_p \in Nat /\ Width \in Nat \ {0}
    BY PlaceIs, WidthIs
<1>2. Bitio!bs_pos % Width = Width - bs_left
    BY <1>1, TapeIs, WhereBitIs
<1>3. (Width - (Width - bs_left)) % Width = bs_left
  <2>1. Width - (Width - bs_left) = bs_left /\ bs_left \in 0..Width - 1 /\ bs_left = (Width * 0) + bs_left
      BY <1>1
  <2>2. bs_left \in Int /\ 0 \in Int
      BY <1>1
  <2>3. bs_left % Width = bs_left
      BY <1>1, <2>1, <2>2, Quotient
  <2> QED BY <2>1, <2>3
<1>4. Bitio!Tape!Rest = (Width - (Bitio!bs_pos % Width)) % Width
    BY DEF Bitio!Tape!Rest, Width
<1>5. bs_left \in Nat
    BY <1>1
<1>6. Pow2[bs_left] - 1 \in Nat
  <2>1. Pow2[bs_left] \in Nat \ {0}
      BY <1>5, PowersOfTwo
  <2> DEFINE x == Pow2[bs_left]
  <2> HIDE DEF x
  <2>2. x - 1 \in Nat
      BY <2>1 DEF x
  <2> QED BY <2>2 DEF x
<1> QED BY <1>2, <1>3, <1>4, <1>5, <1>6

LEMMA AlignSkips ==
    ASSUME Typed, Bitio!bs_align
    PROVE  Typed' /\ Bitio!Tape!Skip(Bitio!Tape!Rest)
<1>1. /\ bs_left # Width /\ bs_p' = bs_p + 1 /\ bs_left' = Width
      /\ bs_data' = bs_data /\ bs_result' = bs_result
    BY DEF Bitio!bs_align, Width
<1>2. /\ bs_data \in Datas /\ bs_p \in Nat /\ bs_left \in 1..Width /\ bs_result \in Nat
      /\ Width \in 1..Width /\ bs_p + 1 \in Nat /\ bs_left \in 0..bs_left
    BY PlaceIs, WidthIs
<1>3. Typed'
    BY <1>1, <1>2 DEF Typed, Bitio!TypeOK, Datas, Width
<1>4. BitPos(bs_p + 1, Width) = BitPos(bs_p, bs_left) + bs_left
  <2>1. /\ Bitio!Place(bs_p, bs_left - bs_left) = [p |-> bs_p + 1, left |-> Width]
        /\ BitPos(Bitio!Place(bs_p, bs_left - bs_left).p, Bitio!Place(bs_p, bs_left - bs_left).left)
             = BitPos(bs_p, bs_left) + bs_left
      BY <1>2, OnInByte
  <2> QED BY <2>1
<1>5. Bitio!bs_pos' = Bitio!bs_pos + Bitio!Tape!Rest /\ Bitio!Bits' = Bitio!Bits
    BY <1>1, <1>4, RestOfByte, TapeIs
<1> QED BY <1>1, <1>3, <1>5 DEF Bitio!Tape!Skip

LEMMA AlignWrites ==
    ASSUME Typed, Bitio!bs_align_0 \/ Bitio!bs_align_1
    PROVE  /\ Typed'
           /\ \/ Bitio!Tape!Write(Bitio!Tape!Rest, 0)
              \/ Bitio!Tape!Write(Bitio!Tape!Rest, Bitio!Tape!Pow2[Bitio!Tape!Rest] - 1)
<1>1. bs_left # Width
    BY DEF Bitio!bs_align_0, Bitio!bs_align_1, Width
<1>2. Bitio!Tape!Rest = bs_left /\ bs_left \in Nat /\ Pow2[bs_left] - 1 \in Nat /\ 0 \in Nat
    BY <1>1, RestOfByte
<1>3. CASE Bitio!bs_align_0
  <2>1. Bitio!bs_write(bs_left, 0)
      BY <1>3 DEF Bitio!bs_align_0
  <2>2. Typed' /\ Bitio!Tape!Write(bs_left, 0)
      BY <1>2, <2>1, WritesNumber
  <2> QED BY <1>2, <2>2
<1>4. CASE Bitio!bs_align_1
  <2>1. Bitio!bs_write(bs_left, Pow2[bs_left] - 1)
      BY <1>4, SamePowers DEF Bitio!bs_align_1
  <2>2. Typed' /\ Bitio!Tape!Write(bs_left, Pow2[bs_left] - 1)
      BY <1>2, <2>1, WritesNumber
  <2> QED BY <1>2, <2>2, SamePowers
<1> QED BY <1>3, <1>4

LEMMA InitRewinds ==
    ASSUME Typed, Bitio!bs_init
    PROVE  Typed' /\ Bitio!Tape!Rewind
<1>1. bs_p' = 0 /\ bs_left' = Width /\ bs_data' = bs_data /\ bs_result' = bs_result
    BY DEF Bitio!bs_init, Width
<1>2. Width \in 1..Width
    BY WidthIs
<1>3. Typed'
    BY <1>1, <1>2, PlaceIs DEF Typed, Bitio!TypeOK, Datas, Width
<1>4. BitPos(0, Width) = 0
    BY WidthIs DEF BitPos
<1>5. Bitio!bs_pos' = 0 /\ Bitio!Bits' = Bitio!Bits
    BY <1>1, <1>4, TapeIs
<1> QED BY <1>1, <1>3, <1>5 DEF Bitio!Tape!Rewind

LEMMA TapeStep ==
    ASSUME Typed, [Bitio!Next]_Bitio!vars
    PROVE  Typed' /\ [Bitio!Tape!Next]_Bitio!Tape!vars
<1>1. CASE UNCHANGED Bitio!vars
  <2>1. bs_data' = bs_data /\ bs_p' = bs_p /\ bs_left' = bs_left /\ bs_result' = bs_result
      BY <1>1 DEF Bitio!vars
  <2>2. Typed'
      BY <2>1, PlaceIs DEF Typed, Bitio!TypeOK, Datas, Width
  <2>3. UNCHANGED Bitio!Tape!vars
      BY <2>1, TapeIs DEF Bitio!Tape!vars
  <2> QED BY <2>2, <2>3
<1>2. ASSUME NEW n \in 0..MostBits, Bitio!bs_read(n) \/ Bitio!bs_show(n) \/ Bitio!bs_skip(n)
      PROVE  Typed' /\ (Bitio!Tape!Read(n) \/ Bitio!Tape!Show(n) \/ Bitio!Tape!Skip(n))
  <2>1. n \in Nat
      OBVIOUS
  <2> QED BY <1>2, <2>1, ReadsNumber, ShowsNumber, SkipsBits
<1>3. ASSUME NEW n \in 0..MostBits, NEW number \in Numbers, Bitio!bs_write(n, number)
      PROVE  Typed' /\ Bitio!Tape!Write(n, number)
  <2>1. n \in Nat /\ number \in Nat
      BY BitAssumption
  <2> QED BY <1>3, <2>1, WritesNumber
<1>4. ASSUME Bitio!bs_read1 PROVE Typed' /\ Bitio!Tape!Read(1)
    BY <1>4, ReadsOneBit
<1>5. ASSUME Bitio!Next PROVE Typed' /\ Bitio!Tape!Next
  <2>1. CASE \E n \in 0..MostBits : Bitio!bs_read(n) \/ Bitio!bs_show(n) \/ Bitio!bs_skip(n)
      BY <1>2, <2>1, Zenon DEF Bitio!Tape!Next
  <2>2. CASE \E n \in 0..MostBits, number \in Numbers : Bitio!bs_write(n, number)
      BY <1>3, <2>2, Zenon DEF Bitio!Tape!Next
  <2>3. CASE Bitio!bs_read1
      BY <1>4, <2>3 DEF Bitio!Tape!Next
  <2>4. CASE Bitio!bs_align
      BY <2>4, AlignSkips DEF Bitio!Tape!Next
  <2>5. CASE Bitio!bs_align_0 \/ Bitio!bs_align_1
      BY <2>5, AlignWrites DEF Bitio!Tape!Next
  <2>6. CASE Bitio!bs_init
      BY <2>6, InitRewinds DEF Bitio!Tape!Next
  <2> QED BY <1>5, <2>1, <2>2, <2>3, <2>4, <2>5, <2>6, Zenon DEF Bitio!Next
<1> QED BY <1>1, <1>5
LEMMA TapeBegins ==
    ASSUME Bitio!Init
    PROVE  Typed /\ Bitio!Tape!Init
<1>1. /\ bs_data = [i \in 0..DataSize - 1 |-> 0]
      /\ bs_p = 0 /\ bs_left = Width /\ bs_result = 0
    BY DEF Bitio!Init, Width
<1>2. 0 \in Bitio!Byte /\ Width \in 1..Width
  <2>1. 0 \in 0..Pow2[Width] - 1
    <3> DEFINE x == Pow2[Width]
    <3>1. x \in Nat \ {0}
        BY WidthIs
    <3> HIDE DEF x
    <3>2. 0 \in 0..x - 1
        BY <3>1
    <3> QED BY <3>2 DEF x
  <2> QED BY <2>1, WidthIs
<1>3. bs_data \in Datas
    BY <1>1, <1>2 DEF Datas
<1>4. Typed
    BY <1>1, <1>2, <1>3 DEF Typed, Bitio!TypeOK, Datas, Width
<1>5. Bitio!bs_pos = 0
  <2>1. BitPos(0, Width) = 0
      BY WidthIs DEF BitPos
  <2> QED BY <1>1, <2>1, TapeIs
<1>6. BitsOf(bs_data) \in Seq({0})
  <2> DEFINE t == BitsOf(bs_data)
  <2>1. t \in [1..Width * DataSize -> 0..1]
      BY <1>3, BitsAre
  <2>2. ASSUME NEW i \in 1..Width * DataSize PROVE t[i] = 0
    <3>1. PICK b \in 0..DataSize - 1, l \in 1..Width : i = BitPos(b, l) + 1
        BY EveryBit
    <3>2. t[i] = BitOf(bs_data[b], l - 1)
        BY <1>3, <3>1, BitsAre
    <3>3. bs_data[b] = 0 /\ l - 1 \in Nat
        BY <1>1, WidthIs
    <3> DEFINE c == Pow2[l - 1]
    <3>4. c \in Nat \ {0}
        BY <3>3, PowersOfTwo
    <3> HIDE DEF c
    <3>5. 0 = (c * 0) + 0 /\ 0 \in 0..c - 1 /\ 0 \in Int
        BY <3>4
    <3>6. 0 \div c = 0
        BY <3>4, <3>5, Quotient
    <3>7. BitOf(0, l - 1) = 0
        BY <3>6 DEF BitOf, c
    <3> QED BY <3>2, <3>3, <3>7
  <2> HIDE DEF t
  <2>3. t \in [1..Width * DataSize -> {0}]
      BY <2>1, <2>2
  <2>4. t \in Seq({0})
      BY <2>3, WidthIs, Tuple
  <2> QED BY <2>4 DEF t
<1>7. Bitio!Bits \in Seq({0})
    BY <1>6, TapeIs
<1> QED BY <1>1, <1>4, <1>5, <1>7 DEF Bitio!Tape!Init

(* The bytes stay bytes, as bs_write sets and clears a bit within one, and *)
(* the position is always a place within a byte.                           *)
THEOREM BytesStayBytes == Bitio!Spec => []Bitio!TypeOK
<1>1. Bitio!Init => Typed
    BY TapeBegins
<1>2. Typed /\ [Bitio!Next]_Bitio!vars => Typed'
    BY TapeStep
<1> QED BY <1>1, <1>2, PTL DEF Bitio!Spec, Typed

(* The bit streams of vlc_bits.h implement a tape of bits: what is written *)
(* is read back, at every position, over every boundary between bytes, and *)
(* to the end of the data and no further, for bytes of any width, any      *)
(* number of them, and any numbers.                                        *)
THEOREM TapeOfBits == Bitio!Spec => IsTape
<1>1. Bitio!Init => Typed /\ Bitio!Tape!Init
    BY TapeBegins
<1>2. Typed /\ [Bitio!Next]_Bitio!vars => Typed' /\ [Bitio!Tape!Next]_Bitio!Tape!vars
    BY TapeStep
<1> QED BY <1>1, <1>2, PTL DEF Bitio!Spec, IsTape, Bitio!IsTape, Bitio!Tape!Spec
=============================================================================
