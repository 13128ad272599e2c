----------------------------- MODULE Data_proofs -----------------------------
(***************************************************************************)
(* What is proved of the sequential parts MCData runs: the header codec,   *)
(* for every sequence number and payload type and videos of any length;    *)
(* the arrays, for every kind, size and content; the dictionaries, for all *)
(* keys and hashes; the media objects, for any number of them; and the URL *)
(* parser, for every vocabulary of names, hosts, paths and options.        *)
(***************************************************************************)
EXTENDS VlcData, VlcUrls, FiniteSetTheorems, SequenceTheorems, WellFoundedInduction, TLAPS

---------------------------------------------------------------------------
(* The header codec.                                                       *)

LEMMA ByteRange ==
    ASSUME NEW n \in Int
    PROVE  Byte(n) \in Bytes
BY DEF Byte, Bytes

(* High and low byte of a 16-bit number.                                   *)
LEMMA HighAndLow ==
    ASSUME NEW n \in Nat, n < 256 * 256
    PROVE  \E hi, lo \in 0..255 : hi = n \div 256 /\ lo = n % 256 /\ n = 256 * hi + lo
<1>1. n \div 256 \in 0..255
    OBVIOUS
<1>2. n % 256 \in 0..255 /\ n = 256 * (n \div 256) + (n % 256)
    OBVIOUS
<1> QED BY <1>1, <1>2

LEMMA SmallByte ==
    ASSUME NEW b \in 0..255
    PROVE  Byte(b) = b - (IF b < 128 THEN 0 ELSE 256)
<1>1. b % 256 = b
    OBVIOUS
<1> QED BY <1>1 DEF Byte

(* The two bytes of a sequence number.                                     *)
LEMMA DecodedNumber ==
    ASSUME NEW type, NEW time, NEW n \in Nat, n < 256 * 256
    PROVE  SequenceNumber(Encode(type, n, time)) =
               n - (IF n % 256 < 128 THEN 0 ELSE 256)
                 - (IF n < 128 * 256 THEN 0 ELSE 256 * 256)
<1>1. PICK hi \in 0..255, lo \in 0..255 : hi = n \div 256 /\ lo = n % 256 /\ n = 256 * hi + lo
    BY HighAndLow
<1>2. SequenceNumber(Encode(type, n, time)) = Byte(n) + 256 * Byte(n \div 256)
    BY DEF SequenceNumber, Encode, unsigned_int
<1>3. Byte(n) = lo - (IF lo < 128 THEN 0 ELSE 256)
    BY <1>1 DEF Byte
<1>4. Byte(n \div 256) = hi - (IF hi < 128 THEN 0 ELSE 256)
    BY <1>1, SmallByte
<1>5. hi < 128 <=> n < 128 * 256
  <2>1. ASSUME NEW h \in 0..255, NEW l \in 0..255
        PROVE  h < 128 <=> 256 * h + l < 128 * 256
      OBVIOUS
  <2> QED BY <1>1, <2>1
<1>6. SequenceNumber(Encode(type, n, time)) =
          lo - (IF lo < 128 THEN 0 ELSE 256) + 256 * (hi - (IF n < 128 * 256 THEN 0 ELSE 256))
    BY <1>2, <1>3, <1>4, <1>5
<1> QED BY <1>1, <1>6

(* The decoded numbers of two frames are different.                        *)
LEMMA DecodingInjective ==
    ASSUME NEW type, NEW x, NEW y, NEW n \in Nat, NEW k \in Nat,
           n < 256 * 256, k < 256 * 256, n # k
    PROVE  SequenceNumber(Encode(type, n, x)) # SequenceNumber(Encode(type, k, y))
<1> DEFINE Borrow(j) == IF j % 256 < 128 THEN 0 ELSE 1
           Wrap(j)   == IF j < 128 * 256 THEN 0 ELSE 1
<1>1. ASSUME NEW j \in Nat, j < 256 * 256, NEW time
      PROVE  SequenceNumber(Encode(type, j, time)) = j - 256 * Borrow(j) - 256 * 256 * Wrap(j)
    BY <1>1, DecodedNumber
<1>0. ASSUME NEW j
      PROVE  Borrow(j) \in 0..1 /\ Wrap(j) \in 0..1 /\ (j % 256 < 128 <=> Borrow(j) = 0)
    OBVIOUS
<1> HIDE DEF Borrow, Wrap
<1>2. PICK h \in 0..255, l \in 0..255 : h = n \div 256 /\ l = n % 256 /\ n = 256 * h + l
    BY HighAndLow
<1>3. PICK i \in 0..255, m \in 0..255 : i = k \div 256 /\ m = k % 256 /\ k = 256 * i + m
    BY HighAndLow
<1>4. ASSUME SequenceNumber(Encode(type, n, x)) = SequenceNumber(Encode(type, k, y))
      PROVE  n = k
  <2>1. n - 256 * Borrow(n) - 256 * 256 * Wrap(n) = k - 256 * Borrow(k) - 256 * 256 * Wrap(k)
      BY <1>1, <1>4
  <2>2. PICK a \in 0..1, b \in 0..1 :
            a = Borrow(n) /\ b = Wrap(n) /\ (l < 128 <=> a = 0)
    <3>1. l = n % 256
        BY <1>2
    <3> QED BY ONLY <1>0, <3>1
  <2>3. PICK c \in 0..1, d \in 0..1 :
            c = Borrow(k) /\ d = Wrap(k) /\ (m < 128 <=> c = 0)
    <3>1. m = k % 256
        BY <1>3
    <3> QED BY ONLY <1>0, <3>1
  <2>4. n - 256 * a - 256 * 256 * b = k - 256 * c - 256 * 256 * d
      BY <2>1, <2>2, <2>3
  <2>5. n = 256 * h + l /\ k = 256 * i + m
      BY <1>2, <1>3
  <2>6. 256 * h + l - 256 * a - 256 * 256 * b = 256 * i + m - 256 * c - 256 * 256 * d
      BY ONLY <2>4, <2>5
  <2>7. l = m
    <3> DEFINE q == i - h + a - c + 256 * b - 256 * d
    <3>1. q \in Int /\ l - m = 256 * q
        BY <2>6
    <3>2. l - m \in -255..255
        OBVIOUS
    <3> HIDE DEF q
    <3>3. q = 0
        BY ONLY <3>1, <3>2
    <3> QED BY <3>1, <3>3
  <2>8. a = c
      BY <2>2, <2>3, <2>7
  <2>9. h - 256 * b = i - 256 * d
      BY ONLY <2>6, <2>7, <2>8
  <2>10. h = i
      BY <2>9
  <2> QED BY <2>5, <2>7, <2>10
<1> QED BY <1>4

---------------------------------------------------------------------------
(* The header is the one of the current frame.                             *)
HeaderOfFrame ==
    /\ imagenb \in 0..VIDEO_LENGTH
    /\ header = Encode(MJPEG_TYPE, imagenb, imagenb * FRAME_PERIOD)

LEMMA HeaderInvariant == PacketSpec => []HeaderOfFrame
<1>1. PacketInit => HeaderOfFrame
    BY PacketAssumption DEF PacketInit, HeaderOfFrame
<1>2. HeaderOfFrame /\ [NextPacket]_<<imagenb, header>> => HeaderOfFrame'
    BY PacketAssumption DEF HeaderOfFrame, NextPacket
<1> QED BY <1>1, <1>2, PTL DEF PacketSpec

(* A video of up to 32767 frames, whatever its frame rate and type: a      *)
(* decoded number is right, or too low by 256.                             *)
THEOREM WrongBy256 ==
    ASSUME VIDEO_LENGTH < 128 * 256
    PROVE  PacketSpec => []OffBy256
<1>1. ASSUME HeaderOfFrame PROVE OffBy256
  <2>1. imagenb \in Nat /\ imagenb < 128 * 256 /\ imagenb < 256 * 256
      BY <1>1, PacketAssumption DEF HeaderOfFrame
  <2> QED BY <1>1, <2>1, DecodedNumber DEF HeaderOfFrame, OffBy256
<1> QED BY HeaderInvariant, <1>1, PTL

(* A video of up to 65535 frames: although numbers are decoded wrongly, no *)
(* two frames get the same one.                                            *)
THEOREM NumbersDiffer ==
    ASSUME VIDEO_LENGTH < 256 * 256
    PROVE  PacketSpec => []Distinguishable
<1>1. ASSUME HeaderOfFrame PROVE Distinguishable
  <2>1. imagenb \in Nat /\ imagenb < 256 * 256
      BY <1>1, PacketAssumption DEF HeaderOfFrame
  <2>2. SUFFICES ASSUME NEW n \in 0..imagenb - 1
                 PROVE  SequenceNumber(Encode(MJPEG_TYPE, n, n * FRAME_PERIOD))
                            # SequenceNumber(header)
      BY DEF Distinguishable
  <2>3. n \in Nat /\ n < 256 * 256 /\ n # imagenb
      BY <2>1
  <2> QED BY <1>1, <2>1, <2>3, DecodingInjective DEF HeaderOfFrame
<1> QED BY HeaderInvariant, <1>1, PTL

(* Whatever the payload type, the marker bit leaves it alone and can be    *)
(* taken back.                                                             *)
THEOREM MarkerTakenBack == PacketSpec => []MarkerReversible
<1>1. ASSUME HeaderOfFrame PROVE MarkerReversible
  <2>1. MJPEG_TYPE \in 0..127
      BY PacketAssumption
  <2>2. header.type = MJPEG_TYPE
      BY <1>1, <2>1 DEF HeaderOfFrame, Encode, Byte
  <2>3. Byte((MJPEG_TYPE % 128) + 128) = MJPEG_TYPE - 128
      BY <2>1 DEF Byte
  <2>4. (MJPEG_TYPE - 128) % 128 = MJPEG_TYPE /\ MJPEG_TYPE % 128 = MJPEG_TYPE
      BY <2>1
  <2> DEFINE once == [header EXCEPT !.type = MJPEG_TYPE - 128]
  <2>5. setMarker(header, TRUE) = once
      BY <2>2, <2>3 DEF setMarker
  <2>6. once.type = MJPEG_TYPE - 128
      BY <1>1 DEF HeaderOfFrame, Encode
  <2>7. setMarker(once, TRUE) = once
      BY <1>1, <2>3, <2>4, <2>6 DEF setMarker, HeaderOfFrame, Encode
  <2>8. setMarker(once, FALSE) = header
      BY <1>1, <2>2, <2>4, <2>6 DEF setMarker, HeaderOfFrame, Encode
  <2> HIDE DEF once
  <2>9. once # header /\ PayloadType(once) = MJPEG_TYPE
    <3>1. MJPEG_TYPE - 128 # MJPEG_TYPE
        BY <2>1
    <3> QED BY <2>2, <2>4, <2>6, <3>1 DEF PayloadType
  <2> QED BY <2>5, <2>7, <2>8, <2>9 DEF MarkerReversible
<1> QED BY HeaderInvariant, <1>1, PTL

---------------------------------------------------------------------------
(* The arrays.                                                             *)

(* A set of numbers that is not empty has a least one: what the theorems on*)
(* well-founded relations say without an operator as a parameter.          *)
LEMMA Least ==
    ASSUME NEW S \in SUBSET Nat, S # {}
    PROVE  \E m \in S : \A k \in S : m <= k
<1>1. \E m \in S : \A k \in S : <<k, m>> \notin OpToRel(<, Nat)
    BY NatLessThanWellFounded, WFMin
<1>2. \A m, k \in S : <<k, m>> \notin OpToRel(<, Nat) => m <= k
    BY DEF OpToRel
<1> QED BY <1>1, <1>2

LEMMA Tuple ==
    ASSUME NEW S, NEW n \in Nat, NEW f \in [1..n -> S]
    PROVE  f \in Seq(S) /\ Len(f) = n
OBVIOUS

LEMMA Realloced ==
    ASSUME NEW S, NEW mem \in Seq(S \cup {Junk}), NEW n \in Nat
    PROVE  /\ Array!realloc(mem, n) \in Seq(S \cup {Junk}) /\ Len(Array!realloc(mem, n)) = n
           /\ \A i \in 1..n : Array!realloc(mem, n)[i] = IF i <= Len(mem) THEN mem[i] ELSE Junk
<1>1. \A i \in 1..n : /\ Array!realloc(mem, n)[i] = IF i <= Len(mem) THEN mem[i] ELSE Junk
                      /\ Array!realloc(mem, n)[i] \in S \cup {Junk}
    BY DEF Array!realloc, Array!Cell
<1>2. Array!realloc(mem, n) \in [1..n -> S \cup {Junk}]
    BY <1>1 DEF Array!realloc
<1> QED BY <1>1, <1>2, Tuple

(* Cells that move up by one, and down.                                    *)
LEMMA MovedUp ==
    ASSUME NEW S, NEW mem \in Seq(S), NEW pos \in Nat, NEW n \in Nat, pos + n < Len(mem)
    PROVE  LET moved == Array!memmove(mem, pos + 1, pos, n)
           IN  /\ moved \in Seq(S) /\ Len(moved) = Len(mem)
               /\ \A i \in 1..Len(mem) :
                     moved[i] = IF i > pos + 1 /\ i <= pos + n + 1 THEN mem[i - 1] ELSE mem[i]
<1> DEFINE moved == Array!memmove(mem, pos + 1, pos, n)
<1>1. ASSUME NEW i \in 1..Len(mem)
      PROVE  /\ moved[i] = IF i > pos + 1 /\ i <= pos + n + 1 THEN mem[i - 1] ELSE mem[i]
             /\ moved[i] \in S
  <2>1. moved[i] = IF i - 1 \in pos + 1..pos + 1 + n - 1
                   THEN Array!Cell(mem, i - 1 - (pos + 1) + pos) ELSE mem[i]
      BY DEF Array!memmove
  <2>2. CASE i > pos + 1 /\ i <= pos + n + 1
    <3>1. /\ i - 1 \in pos + 1..pos + 1 + n - 1 /\ i - 1 - (pos + 1) + pos = i - 2
          /\ i - 2 \in 0..Len(mem) - 1 /\ i - 2 + 1 = i - 1
        BY <2>2
    <3>2. Array!Cell(mem, i - 2) = mem[i - 1]
        BY <3>1 DEF Array!Cell
    <3> QED BY <2>1, <2>2, <3>1, <3>2
  <2>3. CASE ~(i > pos + 1 /\ i <= pos + n + 1)
    <3>1. i - 1 \notin pos + 1..pos + 1 + n - 1
        BY <2>3
    <3> QED BY <2>1, <2>3, <3>1
  <2> QED BY <2>2, <2>3
<1>2. moved \in [1..Len(mem) -> S]
  <2>1. moved = [i \in 1..Len(mem) |-> moved[i]]
      BY DEF Array!memmove
  <2> HIDE DEF moved
  <2> QED BY <1>1, <2>1
<1> QED BY <1>1, <1>2, Tuple

LEMMA MovedDown ==
    ASSUME NEW S, NEW mem \in Seq(S), NEW pos \in Nat, NEW n \in Nat, pos + n < Len(mem)
    PROVE  LET moved == Array!memmove(mem, pos, pos + 1, n)
           IN  /\ moved \in Seq(S) /\ Len(moved) = Len(mem)
               /\ \A i \in 1..Len(mem) :
                     moved[i] = IF i > pos /\ i <= pos + n THEN mem[i + 1] ELSE mem[i]
<1> DEFINE moved == Array!memmove(mem, pos, pos + 1, n)
<1>1. ASSUME NEW i \in 1..Len(mem)
      PROVE  /\ moved[i] = IF i > pos /\ i <= pos + n THEN mem[i + 1] ELSE mem[i]
             /\ moved[i] \in S
  <2>1. moved[i] = IF i - 1 \in pos..pos + n - 1 THEN Array!Cell(mem, i - 1 - pos + (pos + 1))
                   ELSE mem[i]
      BY DEF Array!memmove
  <2>2. CASE i > pos /\ i <= pos + n
    <3>1. /\ i - 1 \in pos..pos + n - 1 /\ i - 1 - pos + (pos + 1) = i
          /\ i \in 0..Len(mem) - 1
        BY <2>2
    <3>2. Array!Cell(mem, i) = mem[i + 1]
        BY <3>1, Zenon DEF Array!Cell
    <3>3. moved[i] = Array!Cell(mem, i - 1 - pos + (pos + 1))
        BY ONLY <2>1, <3>1
    <3>4. moved[i] = mem[i + 1]
        BY ONLY <3>1, <3>2, <3>3, Zenon
    <3> HIDE DEF moved
    <3> QED BY <2>2, <3>4
  <2>3. CASE ~(i > pos /\ i <= pos + n)
    <3>1. i - 1 \notin pos..pos + n - 1
        BY <2>3
    <3> QED BY <2>1, <2>3, <3>1
  <2> QED BY <2>2, <2>3
<1>2. moved \in [1..Len(mem) -> S]
  <2>1. moved = [i \in 1..Len(mem) |-> moved[i]]
      BY DEF Array!memmove
  <2> HIDE DEF moved
  <2> QED BY <1>1, <2>1
<1> QED BY <1>1, <1>2, Tuple

(* The memory asked for holds one more element, and the memory left holds  *)
(* those that are left.                                                    *)
LEMMA GrowsEnough == ASSUME Array!IInv PROVE Array!Grown \in Nat /\ Array!Grown > i_size
<1>1. i_size \in Nat /\ Array!i_alloc \in Nat /\ i_size <= Array!i_alloc
    BY DEF Array!IInv, Array!TypeOK, Array!WithinMemory, Array!i_alloc
<1> QED BY <1>1 DEF Array!Grown

LEMMA ShrinksNotTooMuch ==
    ASSUME Array!IInv, NEW n \in Nat, n <= i_size
    PROVE  Array!Shrunk(n) \in Nat /\ Array!Shrunk(n) >= n
<1>1. i_size \in Nat /\ Array!i_alloc \in Nat /\ i_size <= Array!i_alloc
    BY DEF Array!IInv, Array!TypeOK, Array!WithinMemory, Array!i_alloc
<1> QED BY <1>1 DEF Array!Shrunk

(* The elements are a list of elements.                                    *)
LEMMA ItemsList ==
    ASSUME Array!IInv
    PROVE  /\ Array!Items \in Seq(Elements) /\ Len(Array!Items) = i_size
           /\ \A i \in 1..i_size : Array!Items[i] = p_elems[i]
<1>1. \A i \in 1..i_size : Array!Items[i] = p_elems[i] /\ Array!Items[i] \in Elements
    BY DEF Array!IInv, Array!TypeOK, Array!WithinMemory, Array!i_alloc, Array!Items, Array!Cell
<1>2. Array!Items \in [1..i_size -> Elements] /\ i_size \in Nat
    BY <1>1 DEF Array!Items, Array!IInv, Array!TypeOK
<1> QED BY <1>1, <1>2, Tuple

(* What Insert and Remove do to the cells of the elements.                 *)
LEMMA InsertCells ==
    ASSUME Array!IInv, NEW e \in Elements, NEW pos \in 0..i_size, Array!Insert(e, pos)
    PROVE  /\ p_elems' \in Seq(Elements \cup {Junk}) /\ Len(p_elems') > i_size
           /\ i_size' = i_size + 1 /\ kind' = kind
           /\ \A i \in 1..i_size + 1 :
                 p_elems'[i] = IF i <= pos THEN p_elems[i]
                               ELSE IF i = pos + 1 THEN e ELSE p_elems[i - 1]
<1> DEFINE mem == Array!realloc(p_elems, Array!Grown)
           moved == Array!memmove(mem, pos + 1, pos, i_size - pos)
<1>1. /\ p_elems \in Seq(Elements \cup {Junk}) /\ i_size \in Nat /\ i_size <= Len(p_elems)
    BY DEF Array!IInv, Array!TypeOK, Array!WithinMemory, Array!i_alloc
<1>2. Array!Grown \in Nat /\ Array!Grown > i_size
    BY GrowsEnough
<1>3. /\ mem \in Seq(Elements \cup {Junk}) /\ Len(mem) = Array!Grown
      /\ \A i \in 1..Array!Grown : mem[i] = IF i <= Len(p_elems) THEN p_elems[i] ELSE Junk
    BY <1>1, <1>2, Realloced
<1> HIDE DEF mem
<1>4. /\ moved \in Seq(Elements \cup {Junk}) /\ Len(moved) = Array!Grown
      /\ \A i \in 1..Array!Grown :
            moved[i] = IF i > pos + 1 /\ i <= i_size + 1 THEN mem[i - 1] ELSE mem[i]
  <2>1. /\ pos \in Nat /\ i_size - pos \in Nat /\ pos + (i_size - pos) < Len(mem)
        /\ pos + (i_size - pos) + 1 = i_size + 1
      BY <1>1, <1>2, <1>3
  <2> DEFINE n == i_size - pos
  <2>2. n \in Nat /\ pos + n < Len(mem) /\ pos + n + 1 = i_size + 1
      BY <2>1
  <2> HIDE DEF n
  <2>3. LET m == Array!memmove(mem, pos + 1, pos, n)
        IN  /\ m \in Seq(Elements \cup {Junk}) /\ Len(m) = Len(mem)
            /\ \A i \in 1..Len(mem) :
                  m[i] = IF i > pos + 1 /\ i <= pos + n + 1 THEN mem[i - 1] ELSE mem[i]
      BY <1>3, <2>1, <2>2, MovedUp
  <2> QED BY <1>3, <2>2, <2>3 DEF n
<1> HIDE DEF moved
<1>5. \A i \in 1..i_size + 1 : i # pos + 1 =>
          moved[i] = IF i <= pos THEN p_elems[i] ELSE p_elems[i - 1]
  <2> TAKE i \in 1..i_size + 1
  <2>1. i \in 1..Array!Grown /\ i - 1 \in 0..Array!Grown /\ i <= Array!Grown
      BY <1>1, <1>2
  <2>2. CASE i <= pos
      BY <1>1, <1>3, <1>4, <2>1, <2>2
  <2>3. CASE i > pos + 1
      BY <1>1, <1>3, <1>4, <2>1, <2>3
  <2> QED BY <2>1, <2>2, <2>3
<1>6. p_elems' = [moved EXCEPT ![pos + 1] = e] /\ i_size' = i_size + 1 /\ kind' = kind
    BY DEF Array!Insert, Array!Written, moved, mem
<1>7. pos + 1 \in 1..Len(moved)
  <2>1. pos + 1 \in 1..Array!Grown
      BY <1>1, <1>2
  <2> QED BY <1>4, <2>1
<1>8. /\ p_elems' \in Seq(Elements \cup {Junk}) /\ Len(p_elems') = Array!Grown
      /\ \A i \in 1..Array!Grown : p_elems'[i] = IF i = pos + 1 THEN e ELSE moved[i]
  <2>1. e \in Elements \cup {Junk}
      OBVIOUS
  <2> QED BY <1>4, <1>6, <1>7, <2>1, ExceptSeq
<1> QED BY <1>1, <1>2, <1>5, <1>6, <1>8

LEMMA RemoveCells ==
    ASSUME Array!IInv, NEW pos \in 0..i_size - 1, Array!Remove(pos)
    PROVE  /\ p_elems' \in Seq(Elements \cup {Junk}) /\ Len(p_elems') >= i_size - 1
           /\ i_size' = i_size - 1 /\ kind' = kind
           /\ \A i \in 1..i_size - 1 :
                 p_elems'[i] = IF i <= pos THEN p_elems[i] ELSE p_elems[i + 1]
<1> DEFINE n == i_size - pos - 1
           left == i_size - 1
           moved == Array!memmove(p_elems, pos, pos + 1, n)
           within == Array!Within(moved, left)
<1>1. /\ p_elems \in Seq(Elements \cup {Junk}) /\ i_size \in Nat /\ i_size <= Len(p_elems)
      /\ left \in Nat /\ left < i_size /\ left <= i_size /\ pos \in Nat /\ n \in Nat
      /\ pos + n = left /\ pos + n < Len(p_elems)
    BY DEF Array!IInv, Array!TypeOK, Array!WithinMemory, Array!i_alloc
<1>2. p_elems' = Array!realloc(within, Array!Shrunk(left)) /\ i_size' = left /\ kind' = kind
    BY DEF Array!Remove
<1> HIDE DEF n, left
<1>3. /\ moved \in Seq(Elements \cup {Junk}) /\ Len(moved) = Len(p_elems)
      /\ \A i \in 1..Len(p_elems) :
            moved[i] = IF i > pos /\ i <= pos + n THEN p_elems[i + 1] ELSE p_elems[i]
  <2> DEFINE S == Elements \cup {Junk}
  <2>1. p_elems \in Seq(S)
      BY <1>1
  <2> HIDE DEF S
  <2>2. /\ moved \in Seq(S) /\ Len(moved) = Len(p_elems)
        /\ \A i \in 1..Len(p_elems) :
              moved[i] = IF i > pos /\ i <= pos + n THEN p_elems[i + 1] ELSE p_elems[i]
      BY <1>1, <2>1, MovedDown
  <2> QED BY <2>2 DEF S
<1> HIDE DEF moved
<1>4. /\ within \in Seq(Elements \cup {Junk}) /\ Len(within) = Len(p_elems)
      /\ \A i \in 1..Len(p_elems) : within[i] = IF i <= left THEN moved[i] ELSE Junk
  <2>1. \A i \in 1..Len(p_elems) : /\ within[i] = IF i <= left THEN moved[i] ELSE Junk
                                   /\ within[i] \in Elements \cup {Junk}
      BY <1>3 DEF Array!Within
  <2>2. within \in [1..Len(p_elems) -> Elements \cup {Junk}]
      BY <1>3, <2>1 DEF Array!Within
  <2> QED BY <1>1, <2>1, <2>2, Tuple
<1> HIDE DEF within
<1>5. Array!Shrunk(left) \in Nat /\ Array!Shrunk(left) >= left
    BY <1>1, ShrinksNotTooMuch
<1>6. /\ p_elems' \in Seq(Elements \cup {Junk}) /\ Len(p_elems') = Array!Shrunk(left)
      /\ \A i \in 1..Array!Shrunk(left) : p_elems'[i] = IF i <= Len(within) THEN within[i] ELSE Junk
  <2> DEFINE size == Array!Shrunk(left)
  <2>1. size \in Nat /\ p_elems' = Array!realloc(within, size)
      BY <1>2, <1>5
  <2> HIDE DEF size
  <2>2. /\ p_elems' \in Seq(Elements \cup {Junk}) /\ Len(p_elems') = size
        /\ \A i \in 1..size : p_elems'[i] = IF i <= Len(within) THEN within[i] ELSE Junk
      BY <1>4, <2>1, Realloced
  <2> QED BY <2>2 DEF size
<1>7. ASSUME NEW i \in 1..left
      PROVE  p_elems'[i] = IF i <= pos THEN p_elems[i] ELSE p_elems[i + 1]
  <2>1. i \in 1..Array!Shrunk(left) /\ i \in 1..Len(p_elems) /\ i <= left /\ i <= Len(within)
      BY <1>1, <1>4, <1>5
  <2>2. p_elems'[i] = moved[i]
      BY <1>4, <1>6, <2>1
  <2> QED BY <1>1, <1>3, <2>1, <2>2
<1> QED BY <1>2, <1>5, <1>6, <1>7 DEF left

(* The first one of an element that is there.                              *)
LEMMA IndexInside ==
    ASSUME Array!IInv, NEW e, Array!IndexOf(e) >= 0
    PROVE  Array!IndexOf(e) \in 0..i_size - 1
<1> DEFINE at == {i \in 0..i_size - 1 : Array!Cell(p_elems, i) = e}
<1>1. CASE at = {}
  <2>1. Array!IndexOf(e) = -1
      BY <1>1 DEF Array!IndexOf
  <2> QED BY <2>1
<1>2. CASE at # {}
  <2>1. at \in SUBSET Nat
      BY DEF Array!IInv, Array!TypeOK
  <2> HIDE DEF at
  <2>2. \E i \in at : \A j \in at : i <= j
      BY <1>2, <2>1, Least
  <2>3. (CHOOSE i \in at : \A j \in at : i <= j) \in at
      BY <2>2
  <2>4. Array!IndexOf(e) \in at
      BY <1>2, <2>3 DEF Array!IndexOf, at
  <2> QED BY <2>4 DEF at
<1> QED BY <1>1, <1>2

---------------------------------------------------------------------------
(* The abstract list.                                                      *)

LEMMA Inserted ==
    ASSUME NEW S, NEW s \in Seq(S), NEW t \in Seq(S), NEW e \in S, NEW pos \in 0..Len(s),
           Len(t) = Len(s) + 1,
           \A i \in 1..Len(s) + 1 :
               t[i] = IF i <= pos THEN s[i] ELSE IF i = pos + 1 THEN e ELSE s[i - 1]
    PROVE  t = SubSeq(s, 1, pos) \o <<e>> \o SubSeq(s, pos + 1, Len(s))
<1> DEFINE n == Len(s)   a == SubSeq(s, 1, pos)   b == SubSeq(s, pos + 1, n)
           c == a \o <<e>>   r == c \o b
<1>1. n \in Nat /\ pos \in Nat /\ pos <= n /\ \A i \in 1..n : s[i] \in S
    OBVIOUS
<1> HIDE DEF n
<1>2. a \in Seq(S) /\ Len(a) = pos /\ \A i \in 1..pos : a[i] = s[i]
    BY <1>1, SubSeqProperties
<1>3. b \in Seq(S) /\ Len(b) = n - pos /\ \A i \in 1..n - pos : b[i] = s[pos + i]
    BY <1>1, SubSeqProperties
<1>4. <<e>> \in Seq(S) /\ Len(<<e>>) = 1 /\ <<e>>[1] = e
    OBVIOUS
<1> HIDE DEF a, b
<1>5. /\ c \in Seq(S) /\ Len(c) = pos + 1
      /\ \A i \in 1..pos + 1 : c[i] = IF i <= pos THEN a[i] ELSE <<e>>[i - pos]
  <2> DEFINE x == <<e>>
  <2>1. x \in Seq(S) /\ Len(x) = 1
      BY <1>4
  <2> HIDE DEF x
  <2>2. /\ a \o x \in Seq(S) /\ Len(a \o x) = Len(a) + Len(x)
        /\ \A i \in 1..Len(a) + Len(x) :
              (a \o x)[i] = IF i <= Len(a) THEN a[i] ELSE x[i - Len(a)]
      BY <1>2, <2>1, ConcatProperties
  <2> QED BY <1>2, <2>1, <2>2 DEF x
<1> HIDE DEF c
<1>6. /\ r \in Seq(S) /\ Len(r) = n + 1
      /\ \A i \in 1..n + 1 : r[i] = IF i <= pos + 1 THEN c[i] ELSE b[i - (pos + 1)]
  <2>1. /\ r \in Seq(S) /\ Len(r) = Len(c) + Len(b)
        /\ \A i \in 1..Len(c) + Len(b) :
              r[i] = IF i <= Len(c) THEN c[i] ELSE b[i - Len(c)]
      BY <1>3, <1>5, ConcatProperties
  <2>2. Len(c) + Len(b) = n + 1
      BY <1>1, <1>3, <1>5
  <2> QED BY <1>5, <2>1, <2>2
<1> HIDE DEF r
<1>7. ASSUME NEW i \in 1..n + 1
      PROVE  r[i] = t[i]
  <2>0. i \in Int /\ (i <= pos \/ i = pos + 1 \/ i > pos + 1)
      BY <1>1, <1>7
  <2>1. CASE i <= pos
      BY <1>1, <1>2, <1>5, <1>6, <2>1 DEF n
  <2>2. CASE i = pos + 1
    <3>1. c[i] = e
        BY <1>1, <1>4, <1>5, <2>2
    <3>2. r[i] = e
        BY <1>1, <1>6, <2>2, <3>1
    <3>3. t[i] = e
      <4>1. i \in 1..Len(s) + 1 /\ ~(i <= pos)
          BY <1>1, <2>2 DEF n
      <4> QED BY <2>2, <4>1
    <3> QED BY <3>2, <3>3
  <2>3. CASE i > pos + 1
    <3>1. i - (pos + 1) \in 1..n - pos /\ pos + (i - (pos + 1)) = i - 1
        BY <1>1, <2>3
    <3>2. b[i - (pos + 1)] = s[i - 1]
        BY <1>3, <3>1
    <3> QED BY <1>1, <1>6, <2>3, <3>2 DEF n
  <2> QED BY <2>0, <2>1, <2>2, <2>3
<1>8. r = t
    BY <1>1, <1>6, <1>7, SeqEqual DEF n
<1> QED BY <1>8 DEF r, c, a, b, n

LEMMA Removed ==
    ASSUME NEW S, NEW s \in Seq(S), NEW t \in Seq(S), NEW pos \in 0..Len(s) - 1,
           Len(t) = Len(s) - 1,
           \A i \in 1..Len(s) - 1 : t[i] = IF i <= pos THEN s[i] ELSE s[i + 1]
    PROVE  t = SubSeq(s, 1, pos) \o SubSeq(s, pos + 2, Len(s))
<1> DEFINE n == Len(s)   a == SubSeq(s, 1, pos)   b == SubSeq(s, pos + 2, n)   r == a \o b
<1>1. n \in Nat /\ pos \in Nat /\ pos < n /\ \A i \in 1..n : s[i] \in S
    OBVIOUS
<1> HIDE DEF n
<1>2. a \in Seq(S) /\ Len(a) = pos /\ \A i \in 1..pos : a[i] = s[i]
    BY <1>1, SubSeqProperties
<1>3. /\ b \in Seq(S) /\ Len(b) = n - pos - 1
      /\ \A i \in 1..n - pos - 1 : b[i] = s[pos + 1 + i]
    BY <1>1, SubSeqProperties
<1> HIDE DEF a, b
<1>4. /\ r \in Seq(S) /\ Len(r) = n - 1
      /\ \A i \in 1..n - 1 : r[i] = IF i <= pos THEN a[i] ELSE b[i - pos]
  <2>1. /\ r \in Seq(S) /\ Len(r) = Len(a) + Len(b)
        /\ \A i \in 1..Len(a) + Len(b) :
              r[i] = IF i <= Len(a) THEN a[i] ELSE b[i - Len(a)]
      BY <1>2, <1>3, ConcatProperties
  <2>2. Len(a) + Len(b) = n - 1
      BY <1>1, <1>2, <1>3
  <2> QED BY <1>2, <2>1, <2>2
<1> HIDE DEF r
<1>5. ASSUME NEW i \in 1..n - 1
      PROVE  r[i] = t[i]
  <2>1. CASE i <= pos
      BY <1>1, <1>2, <1>4, <2>1 DEF n
  <2>2. CASE i > pos
    <3>1. i - pos \in 1..n - pos - 1 /\ pos + 1 + (i - pos) = i + 1
        BY <1>1, <2>2
    <3>2. b[i - pos] = s[i + 1]
        BY <1>3, <3>1
    <3> QED BY <1>1, <1>4, <2>2, <3>2 DEF n
  <2> QED BY <1>1, <2>1, <2>2
<1>6. r = t
    BY <1>1, <1>4, <1>5, SeqEqual DEF n
<1> QED BY <1>6 DEF r, a, b, n

---------------------------------------------------------------------------
(* The binary search.                                                      *)

Ranges == (0..i_size) \X (-1..Array!Highest)

Size(range) == range[2] - range[1] + 1

Step(f, key, range) ==
    LET low  == range[1]
        high == range[2]
        mid  == (low + high) \div 2
    IN  IF low > high THEN -1
        ELSE IF p_elems[mid + 1] < key THEN f[<<mid + 1, high>>]
        ELSE IF p_elems[mid + 1] > key THEN f[<<low, mid - 1>>]
        ELSE mid

IsSearch(f, key) == f = [range \in Ranges |-> Step(f, key, range)]

(* A search that is right for ranges up to a size.                         *)
UpTo(f, key, k) ==
    /\ f = [range \in Ranges |-> f[range]]
    /\ \A range \in Ranges : Size(range) <= k => f[range] = Step(f, key, range)

LEMMA Halves ==
    ASSUME i_size \in Nat, NEW range \in Ranges, range[1] <= range[2]
    PROVE  LET mid == (range[1] + range[2]) \div 2
           IN  /\ mid \in range[1]..range[2] /\ mid + 1 \in 1..i_size
               /\ <<mid + 1, range[2]>> \in Ranges /\ <<range[1], mid - 1>> \in Ranges
               /\ Size(<<mid + 1, range[2]>>) = range[2] - mid
               /\ Size(<<range[1], mid - 1>>) = mid - range[1]
<1> DEFINE low == range[1]  high == range[2]  mid == (low + high) \div 2
<1>1. low \in 0..i_size /\ high \in -1..i_size - 1 /\ low <= high
    BY DEF Ranges, Array!Highest
<1> HIDE DEF low, high
<1>2. mid \in low..high
    BY <1>1
<1> HIDE DEF mid
<1>3. mid + 1 \in 1..i_size /\ mid + 1 \in 0..i_size /\ mid - 1 \in -1..i_size - 1
    BY <1>1, <1>2
<1>4. /\ <<mid + 1, high>> \in Ranges /\ <<low, mid - 1>> \in Ranges
      /\ Size(<<mid + 1, high>>) = high - mid /\ Size(<<low, mid - 1>>) = mid - low
    BY <1>1, <1>2, <1>3 DEF Ranges, Array!Highest, Size
<1> QED BY <1>2, <1>3, <1>4 DEF mid, low, high

(* A step looks at smaller ranges only.                                    *)
LEMMA SameStep ==
    ASSUME i_size \in Nat, NEW key, NEW f, NEW g, NEW range \in Ranges,
           \A r \in Ranges : Size(r) < Size(range) => f[r] = g[r]
    PROVE  Step(f, key, range) = Step(g, key, range)
<1> DEFINE low == range[1]  high == range[2]  mid == (low + high) \div 2
<1>1. low \in Int /\ high \in Int
    BY DEF Ranges, Array!Highest
<1>2. CASE low > high
    BY <1>2 DEF Step
<1>3. CASE low <= high
  <2> DEFINE up == <<mid + 1, high>>   down == <<low, mid - 1>>
  <2>1. /\ mid \in low..high /\ up \in Ranges /\ down \in Ranges
        /\ Size(up) = high - mid /\ Size(down) = mid - low
      BY <1>3, Halves
  <2>2. Size(up) < Size(range) /\ Size(down) < Size(range)
      BY <1>1, <2>1 DEF Size
  <2>3. f[up] = g[up] /\ f[down] = g[down]
      BY <2>1, <2>2
  <2> QED BY <2>3 DEF Step
<1> QED BY <1>1, <1>2, <1>3

(* There is a search that is right up to any size: a least size without one*)
(* would have a search, made from one for ranges smaller by one.           *)
LEMMA SearchUpTo ==
    ASSUME i_size \in Nat, NEW key
    PROVE  \A k \in Nat : \E f : UpTo(f, key, k)
<1> DEFINE S == {k \in Nat : ~ \E f : UpTo(f, key, k)}
<1>1. SUFFICES ASSUME S # {} PROVE FALSE
    OBVIOUS
<1>2. PICK k \in S : \A j \in S : k <= j
  <2>1. S \in SUBSET Nat
      OBVIOUS
  <2> HIDE DEF S
  <2> QED BY <1>1, <2>1, Least
<1>3. k \in Nat /\ ~ \E f : UpTo(f, key, k)
    OBVIOUS
<1>4. CASE k = 0
  <2> DEFINE f == [range \in Ranges |-> -1]
  <2>1. ASSUME NEW range \in Ranges, Size(range) <= 0 PROVE f[range] = Step(f, key, range)
    <3>1. range[1] \in Int /\ range[2] \in Int
        BY DEF Ranges, Array!Highest
    <3>2. range[1] > range[2]
        BY <2>1, <3>1 DEF Size
    <3> QED BY <3>2 DEF Step
  <2>2. f = [range \in Ranges |-> f[range]]
      OBVIOUS
  <2> HIDE DEF f
  <2>3. UpTo(f, key, 0)
      BY <2>1, <2>2 DEF UpTo
  <2> QED BY <1>3, <1>4, <2>3
<1>5. CASE k > 0
  <2>1. k - 1 \in Nat /\ k - 1 \notin S
      BY <1>2, <1>3, <1>5
  <2>2. PICK g : UpTo(g, key, k - 1)
      BY <2>1
  <2> DEFINE f == [range \in Ranges |-> Step(g, key, range)]
  <2>3. ASSUME NEW range \in Ranges, Size(range) <= k PROVE f[range] = Step(f, key, range)
    <3>1. \A r \in Ranges : Size(r) \in Int
        BY DEF Ranges, Size, Array!Highest
    <3>2. \A r \in Ranges : Size(r) < Size(range) => f[r] = g[r]
        BY <1>3, <2>2, <2>3, <3>1 DEF UpTo
    <3> HIDE DEF f
    <3>3. Step(f, key, range) = Step(g, key, range)
        BY <3>2, SameStep
    <3> QED BY <3>3 DEF f
  <2>4. f = [range \in Ranges |-> f[range]]
      OBVIOUS
  <2> HIDE DEF f
  <2>5. UpTo(f, key, k)
      BY <2>3, <2>4 DEF UpTo
  <2> QED BY <1>3, <2>5
<1> QED BY <1>3, <1>4, <1>5

(* So the search BSEARCH is defined by exists.                             *)
LEMMA SearchIs ==
    ASSUME i_size \in Nat, NEW key
    PROVE  \E f : IsSearch(f, key) /\ Array!BSEARCH(key) = f[<<0, Array!Highest>>]
<1>1. PICK g : UpTo(g, key, i_size)
    BY SearchUpTo
<1>2. \A range \in Ranges : Size(range) <= i_size
    BY DEF Ranges, Size, Array!Highest
<1>3. IsSearch(g, key)
    BY <1>1, <1>2 DEF UpTo, IsSearch
<1> DEFINE h == CHOOSE f : IsSearch(f, key)
<1>4. IsSearch(h, key)
    BY <1>3
<1>5. Array!BSEARCH(key) = h[<<0, Array!Highest>>]
    BY DEF Array!BSEARCH, IsSearch, Step, Ranges
<1> QED BY <1>4, <1>5

(* What a search in a sorted array finds.                                  *)
Finds(f, key, range) ==
    IF \E i \in range[1] + 1..range[2] + 1 : p_elems[i] = key
    THEN f[range] \in range[1]..range[2] /\ p_elems[f[range] + 1] = key
    ELSE f[range] = -1

(* A range of least size in which it finds the wrong thing would have a    *)
(* half in which it does too.                                              *)
LEMMA SearchFinds ==
    ASSUME i_size \in Nat, NEW key \in Int, NEW f, IsSearch(f, key),
           \A i \in 1..i_size : p_elems[i] \in Int,
           \A i, j \in 1..i_size : i <= j => p_elems[i] <= p_elems[j]
    PROVE  \A range \in Ranges : Finds(f, key, range)
<1> DEFINE S == {k \in Nat : \E range \in Ranges : Size(range) <= k /\ ~Finds(f, key, range)}
<1>1. SUFFICES ASSUME S # {} PROVE FALSE
  <2>1. \A range \in Ranges : Size(range) <= i_size
      BY DEF Ranges, Size, Array!Highest
  <2> QED BY <2>1
<1>2. PICK k \in S : \A j \in S : k <= j
  <2>1. S \in SUBSET Nat
      OBVIOUS
  <2> HIDE DEF S
  <2> QED BY <1>1, <2>1, Least
<1>3. PICK range \in Ranges : Size(range) <= k /\ ~Finds(f, key, range)
    OBVIOUS
<1>4. ASSUME NEW r \in Ranges, Size(r) < Size(range), Size(range) > 0
      PROVE  Finds(f, key, r)
  <2>1. k \in Nat /\ Size(range) \in Int /\ Size(r) \in Int
      BY DEF Ranges, Size, Array!Highest
  <2>2. k - 1 \in Nat /\ Size(r) <= k - 1 /\ ~(k <= k - 1)
      BY <1>3, <1>4, <2>1
  <2>3. k - 1 \notin S
      BY <1>2, <2>2
  <2> QED BY <2>2, <2>3
<1> DEFINE low == range[1]  high == range[2]  mid == (low + high) \div 2
<1>5. low \in 0..i_size /\ high \in -1..i_size - 1 /\ Size(range) = high - low + 1
    BY DEF Ranges, Array!Highest, Size
<1>6. f[range] = Step(f, key, range)
    BY DEF IsSearch
<1>7. CASE low > high
  <2>1. f[range] = -1
      BY <1>6, <1>7 DEF Step
  <2>2. ~ \E i \in low + 1..high + 1 : p_elems[i] = key
      BY <1>5, <1>7
  <2> QED BY <1>3, <2>1, <2>2 DEF Finds
<1>8. CASE low <= high
  <2> DEFINE up == <<mid + 1, high>>   down == <<low, mid - 1>>
  <2>1. /\ mid \in low..high /\ mid + 1 \in 1..i_size /\ up \in Ranges /\ down \in Ranges
        /\ Size(up) = high - mid /\ Size(down) = mid - low
      BY <1>8, Halves
  <2>2. Finds(f, key, up) /\ Finds(f, key, down)
    <3>1. Size(up) < Size(range) /\ Size(down) < Size(range) /\ Size(range) > 0
        BY <1>5, <1>8, <2>1
    <3> QED BY <1>4, <2>1, <3>1
  <2>3. up[1] = mid + 1 /\ up[2] = high /\ down[1] = low /\ down[2] = mid - 1
      OBVIOUS
  <2>4. f[range] = IF p_elems[mid + 1] < key THEN f[up]
                   ELSE IF p_elems[mid + 1] > key THEN f[down] ELSE mid
    <3>1. ~(low > high)
        BY <1>5, <1>8
    <3> QED BY <1>6, <3>1 DEF Step
  <2> HIDE DEF up, down, mid, low, high
  <2>5. low + 1..high + 1 \subseteq 1..i_size
      BY <1>5
  <2>6. p_elems[mid + 1] \in Int
      BY <2>1
  <2>7. CASE p_elems[mid + 1] < key
    <3>1. \A i \in low + 1..high + 1 : p_elems[i] = key => i \in mid + 2..high + 1
      <4> TAKE i \in low + 1..high + 1
      <4>1. i \in 1..i_size /\ i \in Int /\ mid \in Int
          BY <1>5, <2>1, <2>5
      <4>2. ASSUME i <= mid + 1 PROVE p_elems[i] # key
          BY <2>1, <2>6, <2>7, <4>1, <4>2
      <4> QED BY <1>5, <4>1, <4>2
    <3>2. f[range] = f[up] /\ mid + 2..high + 1 \subseteq low + 1..high + 1
        BY <1>5, <2>1, <2>4, <2>7
    <3>3. IF \E i \in mid + 2..high + 1 : p_elems[i] = key
          THEN f[range] \in mid + 1..high /\ p_elems[f[range] + 1] = key
          ELSE f[range] = -1
      <4>1. mid + 1 + 1 = mid + 2
          BY <2>1, <1>5
      <4> QED BY <2>2, <2>3, <3>2, <4>1 DEF Finds
    <3>4. mid + 1..high \subseteq low..high
        BY <1>5, <2>1
    <3>5. IF \E i \in low + 1..high + 1 : p_elems[i] = key
          THEN f[range] \in low..high /\ p_elems[f[range] + 1] = key
          ELSE f[range] = -1
        BY <3>1, <3>2, <3>3, <3>4
    <3> QED BY <1>3, <3>5 DEF Finds, low, high
  <2>8. CASE p_elems[mid + 1] > key
    <3>1. \A i \in low + 1..high + 1 : p_elems[i] = key => i \in low + 1..mid
      <4> TAKE i \in low + 1..high + 1
      <4>1. i \in 1..i_size /\ i \in Int /\ mid \in Int
          BY <1>5, <2>1, <2>5
      <4>2. ASSUME i >= mid + 1 PROVE p_elems[i] # key
          BY <2>1, <2>6, <2>8, <4>1, <4>2
      <4> QED BY <1>5, <4>1, <4>2
    <3>2. f[range] = f[down] /\ low + 1..mid \subseteq low + 1..high + 1
        BY <1>5, <2>1, <2>4, <2>6, <2>8
    <3>3. IF \E i \in low + 1..mid : p_elems[i] = key
          THEN f[range] \in low..mid - 1 /\ p_elems[f[range] + 1] = key
          ELSE f[range] = -1
      <4>1. mid - 1 + 1 = mid
          BY <2>1, <1>5
      <4> QED BY <2>2, <2>3, <3>2, <4>1 DEF Finds
    <3>4. low..mid - 1 \subseteq low..high
        BY <1>5, <2>1
    <3>5. IF \E i \in low + 1..high + 1 : p_elems[i] = key
          THEN f[range] \in low..high /\ p_elems[f[range] + 1] = key
          ELSE f[range] = -1
        BY <3>1, <3>2, <3>3, <3>4
    <3> QED BY <1>3, <3>5 DEF Finds, low, high
  <2>9. CASE p_elems[mid + 1] = key
    <3>1. f[range] = mid /\ mid + 1 \in low + 1..high + 1
        BY <1>5, <2>1, <2>4, <2>6, <2>9
    <3> QED BY <1>3, <2>1, <2>9, <3>1 DEF Finds, low, high
  <2> QED BY <2>6, <2>7, <2>8, <2>9
<1> QED BY <1>5, <1>7, <1>8

(* Of a sorted array the search tells the truth.                           *)
LEMMA SearchIsTrue ==
    ASSUME Array!IInv, Elements \subseteq Int
    PROVE  Array!SearchTrue
<1>1. i_size \in Nat /\ i_size <= Len(p_elems) /\ p_elems \in Seq(Elements \cup {Junk})
    BY DEF Array!IInv, Array!TypeOK, Array!WithinMemory, Array!i_alloc
<1>2. \A i \in 1..i_size : Array!Items[i] = p_elems[i] /\ p_elems[i] \in Int
    BY ItemsList DEF Array!IInv
<1>3. SUFFICES ASSUME \A i, j \in 1..i_size : i <= j => p_elems[i] <= p_elems[j],
                      NEW key \in Elements
               PROVE  IF \E i \in 1..i_size : p_elems[i] = key
                      THEN Array!Cell(p_elems, Array!BSEARCH(key)) = key
                      ELSE Array!BSEARCH(key) = -1
  <2>1. ASSUME NEW key
        PROVE  key \in {Array!Items[i] : i \in 1..i_size}
                   <=> \E i \in 1..i_size : p_elems[i] = key
      BY <1>2
  <2>2. (\A i, j \in 1..i_size : i <= j => Array!Items[i] <= Array!Items[j])
            => \A i, j \in 1..i_size : i <= j => p_elems[i] <= p_elems[j]
      BY <1>2
  <2> QED BY <2>1, <2>2 DEF Array!SearchTrue
<1>4. PICK f : IsSearch(f, key) /\ Array!BSEARCH(key) = f[<<0, Array!Highest>>]
    BY <1>1, SearchIs
<1> DEFINE range == <<0, Array!Highest>>
<1>5. range \in Ranges /\ range[1] + 1 = 1 /\ range[2] + 1 = i_size
    BY <1>1 DEF Ranges, Array!Highest
<1>6. Finds(f, key, range)
  <2> HIDE DEF range
  <2>1. key \in Int
      OBVIOUS
  <2> QED BY <1>1, <1>2, <1>3, <1>4, <1>5, <2>1, SearchFinds
<1>7. CASE \E i \in 1..i_size : p_elems[i] = key
  <2>1. f[range] \in 0..i_size - 1 /\ p_elems[f[range] + 1] = key
      BY <1>5, <1>6, <1>7 DEF Finds, Array!Highest
  <2>2. f[range] \in 0..Len(p_elems) - 1
      BY <1>1, <2>1
  <2> QED BY <1>4, <1>7, <2>1, <2>2 DEF Array!Cell
<1>8. CASE ~ \E i \in 1..i_size : p_elems[i] = key
    BY <1>4, <1>5, <1>6, <1>8 DEF Finds
<1> QED BY <1>7, <1>8

---------------------------------------------------------------------------
(* The array implements the list.                                          *)

(* The same as ItemsList, of the next state.                               *)
LEMMA ItemsOf ==
    ASSUME NEW mem \in Seq(Elements \cup {Junk}), NEW n \in Nat, n <= Len(mem),
           \A i \in 1..n : mem[i] \in Elements
    PROVE  LET s == [i \in 1..n |-> Array!Cell(mem, i - 1)]
           IN  s \in Seq(Elements) /\ Len(s) = n /\ \A i \in 1..n : s[i] = mem[i]
<1> DEFINE s == [i \in 1..n |-> Array!Cell(mem, i - 1)]
<1>1. \A i \in 1..n : s[i] = mem[i]
    BY DEF Array!Cell
<1>2. s \in [1..n -> Elements]
    BY <1>1
<1> HIDE DEF s
<1> QED BY <1>1, <1>2, Tuple DEF s

(* An insertion, and a removal, are those of the list.                     *)
LEMMA InsertLists ==
    ASSUME Array!IInv, NEW e \in Elements, NEW pos \in 0..i_size, Array!Insert(e, pos)
    PROVE  Array!IInv' /\ Array!List!Insert(e, pos) /\ pos \in 0..Len(Array!Items)
<1>1. /\ p_elems' \in Seq(Elements \cup {Junk}) /\ Len(p_elems') > i_size
      /\ i_size' = i_size + 1 /\ kind' = kind
      /\ \A i \in 1..i_size + 1 :
            p_elems'[i] = IF i <= pos THEN p_elems[i]
                          ELSE IF i = pos + 1 THEN e ELSE p_elems[i - 1]
    BY InsertCells
<1>2. /\ Array!Items \in Seq(Elements) /\ Len(Array!Items) = i_size
      /\ \A i \in 1..i_size : Array!Items[i] = p_elems[i] /\ p_elems[i] \in Elements
    BY ItemsList DEF Array!IInv
<1>3. i_size \in Nat /\ i_size' \in Nat /\ i_size' <= Len(p_elems') /\ pos \in Nat
    BY <1>1 DEF Array!IInv, Array!TypeOK
<1>4. \A i \in 1..i_size' : p_elems'[i] \in Elements
  <2> TAKE i \in 1..i_size'
  <2>1. CASE i <= pos
    <3>1. i \in 1..i_size
        BY <1>3, <2>1
    <3> QED BY <1>1, <1>2, <2>1, <3>1
  <2>2. CASE i = pos + 1
      BY <1>1, <1>3, <2>2
  <2>3. CASE i > pos + 1
    <3>1. i - 1 \in 1..i_size /\ i \in 1..i_size + 1 /\ ~(i <= pos) /\ i # pos + 1
        BY <1>1, <1>3, <2>3
    <3>2. p_elems'[i] = p_elems[i - 1]
        BY <1>1, <3>1
    <3> QED BY <1>2, <3>1, <3>2
  <2> QED BY <1>3, <2>1, <2>2, <2>3
<1>5. Array!IInv'
    BY <1>1, <1>3, <1>4 DEF Array!IInv, Array!TypeOK, Array!WithinMemory, Array!i_alloc
<1>6. /\ Array!Items' \in Seq(Elements) /\ Len(Array!Items') = i_size + 1
      /\ \A i \in 1..i_size + 1 : Array!Items'[i] = p_elems'[i]
    BY <1>1, <1>3, <1>4, ItemsOf DEF Array!Items
<1>7. \A i \in 1..i_size + 1 :
          Array!Items'[i] = IF i <= pos THEN Array!Items[i]
                            ELSE IF i = pos + 1 THEN e ELSE Array!Items[i - 1]
  <2> TAKE i \in 1..i_size + 1
  <2>1. CASE i <= pos
    <3>1. i \in 1..i_size
        BY <1>3, <2>1
    <3>2. Array!Items'[i] = p_elems'[i] /\ p_elems'[i] = p_elems[i]
        BY <1>1, <1>6, <2>1
    <3>3. Array!Items[i] = p_elems[i]
        BY <1>2, <3>1
    <3> QED BY <2>1, <3>2, <3>3
  <2>2. CASE i = pos + 1
    <3>1. ~(i <= pos)
        BY <1>3, <2>2
    <3> QED BY <1>1, <1>6, <2>2, <3>1
  <2>3. CASE i > pos + 1
    <3>1. i - 1 \in 1..i_size /\ ~(i <= pos) /\ i # pos + 1
        BY <1>3, <2>3
    <3>2. Array!Items'[i] = p_elems'[i] /\ p_elems'[i] = p_elems[i - 1]
        BY <1>1, <1>6, <3>1
    <3>3. Array!Items[i - 1] = p_elems[i - 1]
        BY <1>2, <3>1
    <3> QED BY <3>1, <3>2, <3>3
  <2> QED BY <1>3, <2>1, <2>2, <2>3
<1>8. Array!Items' =
          SubSeq(Array!Items, 1, pos) \o <<e>> \o SubSeq(Array!Items, pos + 1, Len(Array!Items))
    BY <1>2, <1>6, <1>7, Inserted
<1> QED BY <1>2, <1>5, <1>8 DEF Array!List!Insert

LEMMA RemoveLists ==
    ASSUME Array!IInv, NEW pos \in 0..i_size - 1, Array!Remove(pos)
    PROVE  Array!IInv' /\ Array!List!Remove(pos) /\ pos \in 0..Len(Array!Items) - 1
<1>1. /\ p_elems' \in Seq(Elements \cup {Junk}) /\ Len(p_elems') >= i_size - 1
      /\ i_size' = i_size - 1 /\ kind' = kind
      /\ \A i \in 1..i_size - 1 :
            p_elems'[i] = IF i <= pos THEN p_elems[i] ELSE p_elems[i + 1]
    BY RemoveCells
<1>2. /\ Array!Items \in Seq(Elements) /\ Len(Array!Items) = i_size
      /\ \A i \in 1..i_size : Array!Items[i] = p_elems[i] /\ p_elems[i] \in Elements
    BY ItemsList DEF Array!IInv
<1>3. i_size \in Nat /\ i_size' \in Nat /\ i_size' <= Len(p_elems') /\ pos \in Nat
    BY <1>1 DEF Array!IInv, Array!TypeOK
<1>4. \A i \in 1..i_size - 1 : i \in 1..i_size /\ i + 1 \in 1..i_size
    BY <1>3
<1>5. \A i \in 1..i_size' : p_elems'[i] \in Elements
    BY <1>1, <1>2, <1>4
<1>6. Array!IInv'
    BY <1>1, <1>3, <1>5 DEF Array!IInv, Array!TypeOK, Array!WithinMemory, Array!i_alloc
<1>7. /\ Array!Items' \in Seq(Elements) /\ Len(Array!Items') = i_size - 1
      /\ \A i \in 1..i_size - 1 : Array!Items'[i] = p_elems'[i]
    BY <1>1, <1>3, <1>5, ItemsOf DEF Array!Items
<1>8. \A i \in 1..i_size - 1 :
          Array!Items'[i] = IF i <= pos THEN Array!Items[i] ELSE Array!Items[i + 1]
    BY <1>1, <1>2, <1>4, <1>7
<1>9. Array!Items' =
          SubSeq(Array!Items, 1, pos) \o SubSeq(Array!Items, pos + 2, Len(Array!Items))
    BY <1>2, <1>7, <1>8, Removed
<1> QED BY <1>2, <1>6, <1>9 DEF Array!List!Remove

(* Every step keeps the memory right and is one of the list or none.       *)
LEMMA NextLists ==
    ASSUME Array!IInv, [Array!Next]_(Array!vars)
    PROVE  Array!IInv' /\ [Array!List!Next]_(Array!Items)
<1>1. ASSUME NEW e \in Elements, NEW pos \in 0..i_size, Array!Insert(e, pos)
      PROVE  Array!IInv' /\ [Array!List!Next]_(Array!Items)
    BY <1>1, InsertLists DEF Array!List!Next
<1>2. ASSUME NEW pos \in 0..i_size - 1, Array!Remove(pos)
      PROVE  Array!IInv' /\ [Array!List!Next]_(Array!Items)
    BY <1>2, RemoveLists DEF Array!List!Next
<1>3. ASSUME NEW e \in Elements, Array!TAB_REMOVE(e)
      PROVE  Array!IInv' /\ [Array!List!Next]_(Array!Items)
  <2>1. Array!IndexOf(e) \in 0..i_size - 1 /\ Array!Remove(Array!IndexOf(e))
      BY <1>3, IndexInside DEF Array!TAB_REMOVE
  <2> QED BY <1>2, <2>1
<1>4. ASSUME Array!Reset PROVE Array!IInv' /\ [Array!List!Next]_(Array!Items)
  <2>1. p_elems' = <<>> /\ i_size' = 0 /\ kind' = kind
      BY <1>4 DEF Array!Reset
  <2>2. Array!Items' = <<>>
      BY <2>1 DEF Array!Items
  <2>3. Array!IInv'
      BY <2>1 DEF Array!IInv, Array!TypeOK, Array!WithinMemory, Array!i_alloc
  <2> QED BY <2>2, <2>3 DEF Array!List!Next, Array!List!Clear
<1>5. ASSUME UNCHANGED Array!vars PROVE Array!IInv' /\ [Array!List!Next]_(Array!Items)
    BY <1>5 DEF Array!vars, Array!IInv, Array!TypeOK, Array!WithinMemory, Array!i_alloc,
                Array!Items
<1>6. i_size \in 0..i_size /\ \A pos \in 0..i_size - 1 : pos \in 0..i_size
    BY DEF Array!IInv, Array!TypeOK
<1> QED BY <1>1, <1>2, <1>3, <1>4, <1>5, <1>6 DEF Array!Next, Array!Append1

(* For arrays of every kind and every size: whatever memory is asked for,  *)
(* moved and given back, the elements are a list, and what is in a sorted  *)
(* one is found.                                                           *)
THEOREM ArrayIsList ==
    ASSUME Elements \subseteq Int
    PROVE  Array!Spec => IsList
<1>1. Array!Init => Array!IInv /\ Array!List!Init
    BY DEF Array!Init, Array!IInv, Array!TypeOK, Array!WithinMemory, Array!i_alloc,
           Array!List!Init, Array!Items
<1>2. Array!IInv /\ [Array!Next]_(Array!vars) => Array!IInv' /\ [Array!List!Next]_(Array!Items)
    BY NextLists
<1>3. Array!IInv => Array!SearchTrue
    BY SearchIsTrue
<1> QED BY <1>1, <1>2, <1>3, PTL DEF Array!Spec, IsList, Array!IsList, Array!List!Spec

---------------------------------------------------------------------------
(* The dictionaries.                                                       *)

(* Counting up, and what is defined by counting up, without an operator as *)
(* a parameter: the set stands for the induction's formula, the function   *)
(* for the step.                                                           *)
LEMMA CountingUp ==
    ASSUME NEW lo \in Int, NEW hi \in Int, NEW S,
           lo <= hi => lo \in S,
           \A n \in lo + 1..hi : n - 1 \in S => n \in S
    PROVE  \A n \in lo..hi : n \in S
<1> DEFINE Out == {k \in Nat : lo + k \in lo..hi /\ lo + k \notin S}
<1>1. SUFFICES ASSUME Out # {} PROVE FALSE
  <2>1. ASSUME NEW n \in lo..hi, n \notin S PROVE n - lo \in Out
    <3>1. n - lo \in Nat /\ lo + (n - lo) = n
        OBVIOUS
    <3> QED BY <2>1, <3>1
  <2> QED BY <2>1
<1>2. PICK k \in Out : \A j \in Out : k <= j
  <2>1. Out \in SUBSET Nat
      OBVIOUS
  <2> HIDE DEF Out
  <2> QED BY <1>1, <2>1, Least
<1>3. k \in Nat /\ lo + k \in lo..hi /\ lo + k \notin S
    OBVIOUS
<1>4. k # 0
    BY <1>3
<1>5. k - 1 \in Nat /\ k - 1 \notin Out
    BY <1>2, <1>3, <1>4
<1>6. lo + (k - 1) \in lo..hi /\ lo + (k - 1) = (lo + k) - 1 /\ lo + k \in lo + 1..hi
    BY <1>3, <1>4
<1>7. (lo + k) - 1 \in S
    BY <1>5, <1>6
<1> QED BY <1>3, <1>6, <1>7

Recurses(f, X, lo, hi, base, step) ==
    /\ f \in [lo..hi -> X]
    /\ \A n \in lo..hi : f[n] = IF n = lo THEN base ELSE step[<<n, f[n - 1]>>]

LEMMA Recursion ==
    ASSUME NEW X, NEW lo \in Int, NEW hi \in Int, NEW base \in X,
           NEW D, NEW step \in [D -> X],
           \A n \in lo + 1..hi : \A x \in X : <<n, x>> \in D
    PROVE  \E f : Recurses(f, X, lo, hi, base, step)
<1> DEFINE Upto(f, k) == Recurses(f, X, lo, k, base, step)
           S == {k \in Int : \E f : Upto(f, k)}
<1>1. CASE lo <= hi
  <2>1. lo \in S
    <3> DEFINE f == [n \in lo..lo |-> base]
    <3>1. \A n \in lo..lo : n = lo
        OBVIOUS
    <3>2. Upto(f, lo)
        BY <3>1 DEF Recurses
    <3> QED BY <3>2
  <2>2. ASSUME NEW k \in lo + 1..hi, k - 1 \in S PROVE k \in S
    <3>1. PICK g : Upto(g, k - 1)
        BY <2>2
    <3> DEFINE f == [n \in lo..k |-> IF n = k THEN step[<<k, g[k - 1]>>] ELSE g[n]]
    <3>2. k \in Int /\ k - 1 \in lo..k - 1 /\ g[k - 1] \in X
        BY <3>1 DEF Recurses
    <3>3. step[<<k, g[k - 1]>>] \in X
        BY <3>2
    <3>4. \A n \in lo..k : n = k \/ n \in lo..k - 1
        BY <3>2
    <3>5. f \in [lo..k -> X]
        BY <3>1, <3>3, <3>4 DEF Recurses
    <3>6. ASSUME NEW n \in lo..k
          PROVE  f[n] = IF n = lo THEN base ELSE step[<<n, f[n - 1]>>]
      <4>1. CASE n = k
        <5>1. n # lo /\ n - 1 \in lo..k /\ n - 1 # k
            BY <3>2, <4>1
        <5>2. f[n - 1] = g[n - 1]
            BY <5>1
        <5> QED BY <4>1, <5>1, <5>2
      <4>2. CASE n # k
        <5>1. n \in lo..k - 1 /\ f[n] = g[n]
            BY <3>4, <4>2
        <5>2. n # lo => n - 1 \in lo..k /\ n - 1 # k /\ f[n - 1] = g[n - 1]
            BY <3>2, <4>2
        <5> HIDE DEF f
        <5> QED BY <3>1, <5>1, <5>2 DEF Recurses
      <4> QED BY <4>1, <4>2
    <3> HIDE DEF f
    <3>7. Upto(f, k)
        BY <3>5, <3>6 DEF Recurses
    <3> QED BY <3>2, <3>7
  <2> HIDE DEF S
  <2>3. \A n \in lo + 1..hi : n - 1 \in S => n \in S
      BY <2>2
  <2>4. \A n \in lo..hi : n \in S
      BY <2>1, <2>3, CountingUp, Zenon
  <2>5. hi \in S
      BY <1>1, <2>4
  <2> USE DEF S
  <2> QED BY <2>5
<1>2. CASE lo > hi
  <2> DEFINE f == [n \in lo..hi |-> base]
  <2>1. lo..hi = {}
      BY <1>2
  <2>2. Upto(f, hi)
      BY <2>1 DEF Recurses
  <2> QED BY <2>2
<1> QED BY <1>1, <1>2

Entry == [key : Keys, val : Values]

(* Dict!IInv of any dictionary.                                            *)
Good(dict) ==
    /\ dict \in Seq(Seq(Entry))
    /\ \A i \in 1..Len(dict) : \A j, k \in 1..Len(dict[i]) :
          /\ Dict!DictHash(dict[i][j].key, Len(dict)) = i
          /\ dict[i][j].key = dict[i][k].key => j = k

Has(dict, e) == \E i \in 1..Len(dict) : \E j \in 1..Len(dict[i]) : dict[i][j] = e

HasKey(dict, key) == \E i \in 1..Len(dict) : \E j \in 1..Len(dict[i]) : dict[i][j].key = key

(* A list of the entries of the first n chains, each key once.             *)
Lists(old, dict, n) ==
    /\ old \in Seq(Entry)
    /\ \A m \in 1..Len(old) : \E i \in 1..n : \E j \in 1..Len(dict[i]) : old[m] = dict[i][j]
    /\ \A i \in 1..n : \A j \in 1..Len(dict[i]) : \E m \in 1..Len(old) : old[m] = dict[i][j]
    /\ \A l, m \in 1..Len(old) : old[l].key = old[m].key => l = m

LEMMA HashInside ==
    ASSUME NEW key \in Keys, NEW n \in Nat \ {0}
    PROVE  Dict!DictHash(key, n) \in 1..n
<1>1. Hash[key] \in Nat
    BY DictionaryAssumption
<1>2. Hash[key] % n \in 0..n - 1
    BY <1>1
<1> QED BY <1>2 DEF Dict!DictHash

(* No key is in two places.                                                *)
LEMMA OnePlace ==
    ASSUME NEW dict, Good(dict),
           NEW i \in 1..Len(dict), NEW j \in 1..Len(dict[i]),
           NEW k \in 1..Len(dict), NEW l \in 1..Len(dict[k]),
           dict[i][j].key = dict[k][l].key
    PROVE  i = k /\ j = l
<1>1. Dict!DictHash(dict[i][j].key, Len(dict)) = i /\ Dict!DictHash(dict[k][l].key, Len(dict)) = k
    BY DEF Good
<1>2. i = k
    BY <1>1
<1> QED BY <1>2 DEF Good

LEMMA ListsMore ==
    ASSUME NEW dict, Good(dict), NEW n \in 1..Len(dict), NEW old, Lists(old, dict, n - 1)
    PROVE  Lists(old \o dict[n], dict, n)
<1> DEFINE new == old \o dict[n]
<1>1. dict[n] \in Seq(Entry) /\ old \in Seq(Entry) /\ Len(old) \in Nat /\ Len(dict[n]) \in Nat
    BY DEF Good, Lists
<1>2. /\ new \in Seq(Entry) /\ Len(new) = Len(old) + Len(dict[n])
      /\ \A m \in 1..Len(old) + Len(dict[n]) :
            new[m] = IF m <= Len(old) THEN old[m] ELSE dict[n][m - Len(old)]
    BY <1>1, ConcatProperties
<1> HIDE DEF new
<1>3. \A i \in 1..n : i = n \/ i \in 1..n - 1
    OBVIOUS
<1>4. \A m \in 1..Len(new) : \/ m \in 1..Len(old) /\ new[m] = old[m]
                             \/ /\ m > Len(old) /\ m - Len(old) \in 1..Len(dict[n])
                                /\ new[m] = dict[n][m - Len(old)]
    BY <1>1, <1>2
<1>5. ASSUME NEW m \in 1..Len(new)
      PROVE  \E i \in 1..n : \E j \in 1..Len(dict[i]) : new[m] = dict[i][j]
  <2>1. CASE m \in 1..Len(old) /\ new[m] = old[m]
    <3>1. \E i \in 1..n - 1 : \E j \in 1..Len(dict[i]) : old[m] = dict[i][j]
        BY <2>1 DEF Lists
    <3>2. \A i \in 1..n - 1 : i \in 1..n
        OBVIOUS
    <3> QED BY <2>1, <3>1, <3>2
  <2>2. CASE m - Len(old) \in 1..Len(dict[n]) /\ new[m] = dict[n][m - Len(old)]
    <3>1. n \in 1..n
        OBVIOUS
    <3> QED BY <2>2, <3>1
  <2> QED BY <1>4, <2>1, <2>2
<1>6. ASSUME NEW i \in 1..n, NEW j \in 1..Len(dict[i])
      PROVE  \E m \in 1..Len(new) : new[m] = dict[i][j]
  <2>1. CASE i = n
    <3>1. Len(old) + j \in 1..Len(new) /\ new[Len(old) + j] = dict[n][j]
        BY <1>1, <1>2, <2>1
    <3> QED BY <2>1, <3>1
  <2>2. CASE i \in 1..n - 1
    <3>1. PICK m \in 1..Len(old) : old[m] = dict[i][j]
        BY <2>2 DEF Lists
    <3>2. m \in 1..Len(new) /\ new[m] = old[m]
        BY <1>1, <1>2
    <3> QED BY <3>1, <3>2
  <2> QED BY <1>3, <2>1, <2>2
<1>7. ASSUME NEW m \in 1..Len(old), NEW k \in 1..Len(dict[n]) PROVE old[m].key # dict[n][k].key
  <2>1. PICK i \in 1..n - 1 : \E j \in 1..Len(dict[i]) : old[m] = dict[i][j]
      BY DEF Lists
  <2>2. i \in 1..Len(dict) /\ i # n
      OBVIOUS
  <2> QED BY <2>1, <2>2, OnePlace
<1>8. ASSUME NEW l \in 1..Len(new), NEW m \in 1..Len(new), new[l].key = new[m].key PROVE l = m
  <2>1. CASE l \in 1..Len(old) /\ new[l] = old[l]
    <3>1. m \in 1..Len(old) /\ new[m] = old[m]
        BY <1>4, <1>7, <1>8, <2>1
    <3>2. old[l].key = old[m].key
        BY <1>8, <2>1, <3>1
    <3> QED BY <2>1, <3>1, <3>2 DEF Lists
  <2>2. CASE l > Len(old) /\ l - Len(old) \in 1..Len(dict[n]) /\ new[l] = dict[n][l - Len(old)]
    <3>1. m > Len(old) /\ m - Len(old) \in 1..Len(dict[n]) /\ new[m] = dict[n][m - Len(old)]
        BY <1>4, <1>7, <1>8, <2>2
    <3>2. dict[n][l - Len(old)].key = dict[n][m - Len(old)].key
        BY <1>8, <2>2, <3>1
    <3>3. l - Len(old) = m - Len(old)
        BY <2>2, <3>1, <3>2, OnePlace
    <3>4. l \in Int /\ m \in Int /\ Len(old) \in Int
        BY <1>1
    <3> QED BY <3>3, <3>4
  <2> QED BY <1>4, <2>1, <2>2
<1> QED BY <1>2, <1>5, <1>6, <1>8 DEF Lists, new

(* What FlattenSeq defines by recursion, and that it exists.               *)
Flat(f, seqs) ==
    f = [i \in 1..Len(seqs) |-> IF i = 1 THEN seqs[i] ELSE f[i - 1] \o seqs[i]]

LEMMA FlatteningIs ==
    ASSUME NEW S, NEW seqs \in Seq(Seq(S)), Len(seqs) # 0
    PROVE  \E f : Flat(f, seqs) /\ Dict!FlattenSeq(seqs) = f[Len(seqs)]
<1> DEFINE X == Seq(S)
           D == (2..Len(seqs)) \X X
           step == [p \in D |-> p[2] \o seqs[p[1]]]
<1>1. 1 \in Int /\ Len(seqs) \in Int /\ seqs[1] \in X
    OBVIOUS
<1>2. step \in [D -> X]
  <2>1. ASSUME NEW i \in 2..Len(seqs), NEW s \in X PROVE s \o seqs[i] \in X
    <3>1. seqs[i] \in X
        BY <1>1
    <3> QED BY <3>1, ConcatProperties
  <2> QED BY <2>1
<1>3. \A n \in 1 + 1..Len(seqs) : \A s \in X : <<n, s>> \in D /\ step[<<n, s>>] = s \o seqs[n]
  <2>1. \A n \in 1 + 1..Len(seqs) : n \in 2..Len(seqs)
      BY <1>1
  <2> QED BY <2>1
<1> HIDE DEF X, D, step
<1>4. PICK f : Recurses(f, X, 1, Len(seqs), seqs[1], step)
    BY <1>1, <1>2, <1>3, Recursion
<1>5. \A n \in 1..Len(seqs) : f[n] = IF n = 1 THEN seqs[n] ELSE f[n - 1] \o seqs[n]
  <2>1. ASSUME NEW n \in 1..Len(seqs), n # 1 PROVE step[<<n, f[n - 1]>>] = f[n - 1] \o seqs[n]
    <3>1. n \in 1 + 1..Len(seqs) /\ n - 1 \in 1..Len(seqs)
        BY <1>1, <2>1
    <3>2. f[n - 1] \in X
        BY <1>4, <3>1 DEF Recurses
    <3> QED BY <1>3, <3>1, <3>2
  <2> QED BY <1>4, <2>1 DEF Recurses
<1>6. Flat(f, seqs)
    BY <1>4, <1>5 DEF Flat, Recurses
<1> DEFINE h == CHOOSE g : Flat(g, seqs)
<1>7. Flat(h, seqs)
    BY <1>6
<1>8. Dict!FlattenSeq(seqs) = h[Len(seqs)]
    BY DEF Dict!FlattenSeq, Flat
<1> HIDE DEF h
<1> QED BY <1>7, <1>8

LEMMA EntriesList ==
    ASSUME NEW dict, Good(dict)
    PROVE  Lists(Dict!FlattenSeq(dict), dict, Len(dict))
<1>1. dict \in Seq(Seq(Entry)) /\ Len(dict) \in Nat
    BY DEF Good
<1>2. Lists(<<>>, dict, 0)
    BY DEF Lists
<1>3. CASE Len(dict) = 0
  <2>1. Dict!FlattenSeq(dict) = <<>>
      BY <1>1, <1>3 DEF Dict!FlattenSeq
  <2> QED BY <1>2, <1>3, <2>1
<1>4. CASE Len(dict) # 0
  <2>1. PICK f : Flat(f, dict) /\ Dict!FlattenSeq(dict) = f[Len(dict)]
      BY <1>1, <1>4, FlatteningIs
  <2>2. \A i \in 1..Len(dict) : f[i] = IF i = 1 THEN dict[i] ELSE f[i - 1] \o dict[i]
      BY <2>1 DEF Flat
  <2> DEFINE S == {n \in 1..Len(dict) : Lists(f[n], dict, n)}
  <2>3. 1 \in S
    <3>1. 1 \in 1..Len(dict) /\ dict[1] \in Seq(Entry)
        BY <1>1, <1>4
    <3>2. f[1] = <<>> \o dict[1]
        BY <2>2, <3>1, ConcatEmptySeq
    <3>3. 1 - 1 = 0
        OBVIOUS
    <3>4. Lists(<<>> \o dict[1], dict, 1)
        BY <1>2, <3>1, <3>3, ListsMore, Zenon
    <3> QED BY <3>1, <3>2, <3>4
  <2>4. ASSUME NEW n \in 1 + 1..Len(dict), n - 1 \in S PROVE n \in S
    <3>1. n \in 1..Len(dict) /\ n # 1
        BY <1>1
    <3>2. f[n] = f[n - 1] \o dict[n]
        BY <2>2, <3>1
    <3>3. Lists(f[n], dict, n)
        BY <2>4, <3>1, <3>2, ListsMore
    <3> QED BY <3>1, <3>3
  <2>5. \A n \in 1 + 1..Len(dict) : n - 1 \in S => n \in S
      BY <2>4
  <2> HIDE DEF S
  <2>6. \A n \in 1..Len(dict) : n \in S
    <3>1. 1 \in Int /\ Len(dict) \in Int
        BY <1>1
    <3> QED BY <2>3, <2>5, <3>1, CountingUp, Zenon
  <2>7. Len(dict) \in S
      BY <1>1, <1>4, <2>6
  <2> USE DEF S
  <2> QED BY <2>1, <2>7
<1> QED BY <1>3, <1>4

(* What an entry in front of its chain does.                               *)
LEMMA InFrontAdds ==
    ASSUME NEW dict, Good(dict), Len(dict) # 0, NEW e \in Entry, ~HasKey(dict, e.key)
    PROVE  LET new == Dict!InFront(dict, e)
           IN  /\ Good(new) /\ Len(new) = Len(dict)
               /\ \A x : Has(new, x) <=> Has(dict, x) \/ x = e
<1> DEFINE new == Dict!InFront(dict, e)
           n == Dict!DictHash(e.key, Len(dict))
           chain == <<e>> \o dict[n]
<1>1. dict \in Seq(Seq(Entry)) /\ Len(dict) \in Nat \ {0} /\ e.key \in Keys
    BY DEF Good, Entry
<1>2. n \in 1..Len(dict) /\ dict[n] \in Seq(Entry) /\ Len(dict[n]) \in Nat
  <2>1. n \in 1..Len(dict)
      BY <1>1, HashInside
  <2> HIDE DEF n
  <2> QED BY <1>1, <2>1
<1>3. /\ chain \in Seq(Entry) /\ Len(chain) = Len(dict[n]) + 1
      /\ \A j \in 1..Len(dict[n]) + 1 : chain[j] = IF j = 1 THEN e ELSE dict[n][j - 1]
  <2> HIDE DEF n
  <2>1. <<e>> \in Seq(Entry) /\ Len(<<e>>) = 1 /\ <<e>>[1] = e
      OBVIOUS
  <2>2. /\ chain \in Seq(Entry) /\ Len(chain) = 1 + Len(dict[n])
        /\ \A j \in 1..1 + Len(dict[n]) :
              chain[j] = IF j <= 1 THEN <<e>>[j] ELSE dict[n][j - 1]
      BY <1>2, <2>1, ConcatProperties
  <2> HIDE DEF chain
  <2> QED BY <1>2, <2>1, <2>2
<1>4. /\ new \in Seq(Seq(Entry)) /\ Len(new) = Len(dict)
      /\ \A i \in 1..Len(dict) : new[i] = IF i = n THEN chain ELSE dict[i]
  <2>1. new = [dict EXCEPT ![n] = chain]
      BY <1>1, <1>2 DEF Dict!InFront
  <2> HIDE DEF new, chain, n
  <2> QED BY <1>1, <1>2, <1>3, <2>1, ExceptSeq
<1>5. n = Dict!DictHash(e.key, Len(dict))
    OBVIOUS
<1> HIDE DEF new, chain, n
<1>6. ASSUME NEW i \in 1..Len(new), NEW j \in 1..Len(new[i]), NEW k \in 1..Len(new[i])
      PROVE  /\ Dict!DictHash(new[i][j].key, Len(new)) = i
             /\ new[i][j].key = new[i][k].key => j = k
  <2>1. CASE i = n
    <3>1. \A l \in 1..Len(new[i]) :
             \/ l = 1 /\ new[i][l] = e
             \/ l - 1 \in 1..Len(dict[n]) /\ new[i][l] = dict[n][l - 1]
      <4>1. new[i] = chain
          BY <1>4, <2>1
      <4>2. \A l \in 1..Len(chain) :
               \/ l = 1 /\ chain[l] = e
               \/ l - 1 \in 1..Len(dict[n]) /\ chain[l] = dict[n][l - 1]
          BY <1>2, <1>3
      <4> QED BY <4>1, <4>2
    <3>2. \A l \in 1..Len(dict[n]) : dict[n][l].key # e.key
        BY <1>2 DEF HasKey
    <3>3. \A l, m \in 1..Len(dict[n]) : /\ Dict!DictHash(dict[n][l].key, Len(dict)) = n
                                        /\ dict[n][l].key = dict[n][m].key => l = m
        BY <1>2 DEF Good
    <3>4. Dict!DictHash(new[i][j].key, Len(new)) = i
      <4>1. CASE new[i][j] = e
          BY <1>4, <1>5, <2>1, <4>1
      <4>2. CASE j - 1 \in 1..Len(dict[n]) /\ new[i][j] = dict[n][j - 1]
          BY <1>4, <2>1, <3>3, <4>2
      <4> QED BY <3>1, <4>1, <4>2
    <3>5. ASSUME new[i][j].key = new[i][k].key PROVE j = k
      <4>1. j \in Int /\ k \in Int
          BY <1>3, <1>4, <2>1
      <4>2. CASE j = 1 /\ new[i][j] = e
        <5>1. ~(k - 1 \in 1..Len(dict[n]) /\ new[i][k] = dict[n][k - 1])
            BY <3>2, <3>5, <4>2
        <5> QED BY <3>1, <4>2, <5>1
      <4>3. CASE j - 1 \in 1..Len(dict[n]) /\ new[i][j] = dict[n][j - 1]
        <5>1. ~(k = 1 /\ new[i][k] = e)
            BY <3>2, <3>5, <4>3
        <5>2. k - 1 \in 1..Len(dict[n]) /\ new[i][k] = dict[n][k - 1]
            BY <3>1, <5>1
        <5>3. j - 1 = k - 1
            BY <3>3, <3>5, <4>3, <5>2
        <5> QED BY <4>1, <5>3
      <4> QED BY <3>1, <4>2, <4>3
    <3> QED BY <3>4, <3>5
  <2>2. CASE i # n
    <3>1. new[i] = dict[i] /\ Len(new) = Len(dict) /\ i \in 1..Len(dict)
        BY <1>4, <2>2
    <3>2. \A l, m \in 1..Len(dict[i]) : /\ Dict!DictHash(dict[i][l].key, Len(dict)) = i
                                        /\ dict[i][l].key = dict[i][m].key => l = m
        BY <3>1 DEF Good
    <3> QED BY <3>1, <3>2
  <2> QED BY <2>1, <2>2
<1>7. Good(new)
    BY <1>4, <1>6 DEF Good
<1>8. Has(new, e)
  <2>1. 1 \in 1..Len(new[n]) /\ new[n][1] = e /\ n \in 1..Len(new)
      BY <1>2, <1>3, <1>4
  <2> QED BY <2>1 DEF Has
<1>9. ASSUME NEW x, Has(dict, x) PROVE Has(new, x)
  <2>1. PICK i \in 1..Len(dict) : \E j \in 1..Len(dict[i]) : dict[i][j] = x
      BY <1>9 DEF Has
  <2>2. PICK j \in 1..Len(dict[i]) : dict[i][j] = x
      BY <2>1
  <2>3. CASE i = n
    <3>1. j + 1 \in 1..Len(new[n]) /\ new[n][j + 1] = dict[n][j]
      <4>1. new[n] = chain /\ j \in 1..Len(dict[n])
          BY <1>2, <1>4, <2>3
      <4>2. j + 1 \in 1..Len(chain) /\ j + 1 # 1 /\ j + 1 - 1 = j
          BY <1>2, <1>3, <4>1
      <4> QED BY <1>2, <1>3, <4>1, <4>2
    <3> QED BY <1>4, <2>2, <2>3, <3>1 DEF Has
  <2>4. CASE i # n
      BY <1>4, <2>2, <2>4 DEF Has
  <2> QED BY <2>3, <2>4
<1>10. ASSUME NEW x, Has(new, x), x # e PROVE Has(dict, x)
  <2>1. PICK i \in 1..Len(new) : \E j \in 1..Len(new[i]) : new[i][j] = x
      BY <1>10 DEF Has
  <2>2. PICK j \in 1..Len(new[i]) : new[i][j] = x
      BY <2>1
  <2>3. CASE i = n
    <3>1. j - 1 \in 1..Len(dict[n]) /\ new[n][j] = dict[n][j - 1]
        BY <1>2, <1>3, <1>4, <1>10, <2>2, <2>3
    <3> QED BY <1>2, <2>2, <2>3, <3>1 DEF Has
  <2>4. CASE i # n
      BY <1>4, <2>2, <2>4 DEF Has
  <2> QED BY <2>3, <2>4
<1> QED BY <1>4, <1>7, <1>8, <1>9, <1>10 DEF new

LEMMA EmptyGood ==
    ASSUME NEW n \in Nat
    PROVE  /\ Good(Dict!Empty(n)) /\ Len(Dict!Empty(n)) = n
           /\ \A x : ~Has(Dict!Empty(n), x)
<1>1. Dict!Empty(n) \in [1..n -> Seq(Entry)] /\ \A i \in 1..n : Dict!Empty(n)[i] = <<>>
    BY DEF Dict!Empty
<1>2. Dict!Empty(n) \in Seq(Seq(Entry)) /\ Len(Dict!Empty(n)) = n
    BY <1>1, Tuple
<1>3. \A i \in 1..n : Len(Dict!Empty(n)[i]) = 0
    BY <1>1
<1> QED BY <1>2, <1>3 DEF Good, Has

(* Having a key is having an entry with it.                                *)
LEMMA KeyOfEntry ==
    ASSUME NEW dict, NEW key
    PROVE  HasKey(dict, key) <=> \E x : Has(dict, x) /\ x.key = key
BY DEF HasKey, Has

(* What Rebuilt defines by recursion, and that it exists.                  *)
Rebuilds(f, old, i_new) ==
    f = [n \in 0..Len(old) |-> IF n = 0 THEN Dict!Empty(i_new)
                               ELSE Dict!InFront(f[n - 1], old[n])]

Arrays(n) == {dict \in Seq(Seq(Entry)) : Len(dict) = n}

LEMMA InFrontArray ==
    ASSUME NEW n \in Nat \ {0}, NEW dict \in Arrays(n), NEW e \in Entry
    PROVE  Dict!InFront(dict, e) \in Arrays(n)
<1> DEFINE i == Dict!DictHash(e.key, Len(dict))
           chain == <<e>> \o dict[i]
<1>1. dict \in Seq(Seq(Entry)) /\ Len(dict) = n /\ e.key \in Keys
    BY DEF Arrays, Entry
<1>2. i \in 1..Len(dict)
    BY <1>1, HashInside
<1>3. Dict!InFront(dict, e) = [dict EXCEPT ![i] = chain]
    BY <1>1, <1>2 DEF Dict!InFront
<1> HIDE DEF i
<1>4. dict[i] \in Seq(Entry) /\ <<e>> \in Seq(Entry)
    BY <1>1, <1>2
<1>5. chain \in Seq(Entry)
    BY <1>4, ConcatProperties
<1> HIDE DEF chain
<1>6. [dict EXCEPT ![i] = chain] \in Seq(Seq(Entry)) /\ Len([dict EXCEPT ![i] = chain]) = n
    BY <1>1, <1>2, <1>5, ExceptSeq
<1> QED BY <1>3, <1>6 DEF Arrays

LEMMA RebuildingIs ==
    ASSUME NEW dict, Dict!Entries(dict) \in Seq(Entry), NEW i_new \in Nat \ {0}
    PROVE  \E f : /\ Rebuilds(f, Dict!Entries(dict), i_new)
                  /\ Dict!Rebuilt(dict, i_new) = f[Len(Dict!Entries(dict))]
<1> DEFINE old == Dict!Entries(dict)
           X == Arrays(i_new)
           D == (1..Len(old)) \X X
           step == [p \in D |-> Dict!InFront(p[2], old[p[1]])]
<1>0. old \in Seq(Entry)
    OBVIOUS
<1>1. Dict!Rebuilt(dict, i_new) = (CHOOSE g : Rebuilds(g, old, i_new))[Len(old)]
    BY DEF Dict!Rebuilt, Rebuilds
<1> HIDE DEF old
<1>2. 0 \in Int /\ Len(old) \in Int /\ Len(old) \in Nat /\ Dict!Empty(i_new) \in X
    BY <1>0, EmptyGood DEF Arrays, Good
<1>3. step \in [D -> X]
  <2>1. ASSUME NEW n \in 1..Len(old), NEW d \in X PROVE Dict!InFront(d, old[n]) \in X
      BY <1>0, InFrontArray
  <2> QED BY <2>1
<1>4. \A n \in 0 + 1..Len(old) : \A d \in X :
         <<n, d>> \in D /\ step[<<n, d>>] = Dict!InFront(d, old[n])
    BY <1>2
<1> HIDE DEF X, D, step
<1>5. PICK f : Recurses(f, X, 0, Len(old), Dict!Empty(i_new), step)
    BY <1>2, <1>3, <1>4, Recursion
<1>6. \A n \in 0..Len(old) : f[n] = IF n = 0 THEN Dict!Empty(i_new)
                                    ELSE Dict!InFront(f[n - 1], old[n])
  <2>1. ASSUME NEW n \in 0..Len(old), n # 0
        PROVE  step[<<n, f[n - 1]>>] = Dict!InFront(f[n - 1], old[n])
    <3>1. n \in 0 + 1..Len(old) /\ n - 1 \in 0..Len(old)
        BY <1>2, <2>1
    <3>2. f[n - 1] \in X
        BY <1>5, <3>1 DEF Recurses
    <3> QED BY <1>4, <3>1, <3>2
  <2> QED BY <1>5, <2>1 DEF Recurses
<1>7. Rebuilds(f, old, i_new)
    BY <1>5, <1>6 DEF Rebuilds, Recurses
<1> QED BY <1>1, <1>7 DEF old

(* Rebuilding loses nothing and adds nothing.                              *)
LEMMA RebuiltKeeps ==
    ASSUME NEW dict, Good(dict), NEW i_new \in Nat \ {0}
    PROVE  /\ Good(Dict!Rebuilt(dict, i_new))
           /\ \A x : Has(Dict!Rebuilt(dict, i_new), x) <=> Has(dict, x)
<1> DEFINE old == Dict!Entries(dict)
<1>1. Lists(old, dict, Len(dict))
    BY EntriesList DEF Dict!Entries
<1>2. old \in Seq(Entry) /\ Len(old) \in Nat
    BY <1>1 DEF Lists
<1>3. PICK f : Rebuilds(f, old, i_new) /\ Dict!Rebuilt(dict, i_new) = f[Len(old)]
    BY <1>2, RebuildingIs
<1> HIDE DEF old
<1>4. \A n \in 0..Len(old) : f[n] = IF n = 0 THEN Dict!Empty(i_new)
                                    ELSE Dict!InFront(f[n - 1], old[n])
    BY <1>3 DEF Rebuilds
<1> DEFINE Right(n) == /\ Good(f[n]) /\ Len(f[n]) = i_new
                       /\ \A x : Has(f[n], x) <=> \E m \in 1..n : old[m] = x
           S == {n \in 0..Len(old) : Right(n)}
<1>5. 0 \in S
  <2>1. 0 \in 0..Len(old) /\ 1..0 = {}
      BY <1>2
  <2>2. f[0] = Dict!Empty(i_new)
      BY <1>4, <2>1
  <2> QED BY <2>1, <2>2, EmptyGood
<1>6. ASSUME NEW n \in 0 + 1..Len(old), n - 1 \in S PROVE n \in S
  <2>1. n \in 1..Len(old) /\ n \in 0..Len(old) /\ n # 0 /\ n \in Nat
      BY <1>2
  <2>2. f[n] = Dict!InFront(f[n - 1], old[n]) /\ old[n] \in Entry
      BY <1>2, <1>4, <2>1
  <2>3. Right(n - 1)
      BY <1>6
  <2>4. ~HasKey(f[n - 1], old[n].key)
    <3>1. SUFFICES ASSUME NEW m \in 1..n - 1, old[m].key = old[n].key PROVE FALSE
        BY <2>3, KeyOfEntry
    <3>2. m \in 1..Len(old) /\ m # n
        BY <2>1
    <3> QED BY <1>1, <2>1, <3>1, <3>2 DEF Lists
  <2>5. /\ Good(f[n]) /\ Len(f[n]) = i_new
        /\ \A x : Has(f[n], x) <=> Has(f[n - 1], x) \/ x = old[n]
      BY <2>2, <2>3, <2>4, InFrontAdds
  <2>6. \A m \in 1..n : m = n \/ m \in 1..n - 1
      BY <2>1
  <2>7. \A m \in 1..n - 1 : m \in 1..n
      BY <2>1
  <2>8. n \in 1..n
      BY <2>1
  <2>9. \A x : Has(f[n], x) <=> \E m \in 1..n : old[m] = x
      BY <2>3, <2>5, <2>6, <2>7, <2>8
  <2> QED BY <2>1, <2>5, <2>9
<1>7. \A n \in 0 + 1..Len(old) : n - 1 \in S => n \in S
    BY <1>6
<1> HIDE DEF S
<1>8. \A n \in 0..Len(old) : n \in S
  <2>1. 0 \in Int /\ Len(old) \in Int
      BY <1>2
  <2> QED BY <1>5, <1>7, <2>1, CountingUp, Zenon
<1>9. Len(old) \in S
    BY <1>2, <1>8
<1> USE DEF S
<1>10. Right(Len(old))
    BY <1>9
<1>11. \A x : (\E m \in 1..Len(old) : old[m] = x) <=> Has(dict, x)
  <2>1. ASSUME NEW m \in 1..Len(old) PROVE Has(dict, old[m])
    <3>1. \E i \in 1..Len(dict) : \E j \in 1..Len(dict[i]) : old[m] = dict[i][j]
        BY <1>1 DEF Lists
    <3> QED BY <3>1 DEF Has
  <2>2. ASSUME NEW i \in 1..Len(dict), NEW j \in 1..Len(dict[i])
        PROVE  \E m \in 1..Len(old) : old[m] = dict[i][j]
      BY <1>1 DEF Lists
  <2>3. ASSUME NEW x, Has(dict, x) PROVE \E m \in 1..Len(old) : old[m] = x
      BY <2>2, <2>3 DEF Has
  <2> QED BY <2>1, <2>3
<1> QED BY <1>3, <1>10, <1>11

LEMMA InsertedAdds ==
    ASSUME NEW dict, Good(dict), NEW key \in Keys, NEW val \in Values, ~HasKey(dict, key)
    PROVE  LET new == Dict!Inserted(dict, key, val)
           IN  /\ Good(new)
               /\ \A x : Has(new, x) <=> Has(dict, x) \/ x = [key |-> key, val |-> val]
<1> DEFINE made == IF dict = <<>> THEN Dict!Empty(1) ELSE dict
           e == [key |-> key, val |-> val]
           grown == Dict!InFront(made, e)
<1>1. e \in Entry /\ e.key = key
    BY DEF Entry
<1>2. Good(made) /\ Len(made) \in Nat \ {0} /\ \A x : Has(made, x) <=> Has(dict, x)
  <2>1. CASE dict = <<>>
    <3>1. made = Dict!Empty(1) /\ \A x : ~Has(dict, x)
        BY <2>1 DEF Has
    <3> QED BY <3>1, EmptyGood
  <2>2. CASE dict # <<>>
    <3>1. made = dict /\ dict \in Seq(Seq(Entry))
        BY <2>2 DEF Good
    <3>2. Len(dict) \in Nat \ {0}
        BY <2>2, <3>1, EmptySeq
    <3> QED BY <3>1, <3>2
  <2> QED BY <2>1, <2>2
<1>3. /\ \/ Dict!Inserted(dict, key, val) = grown
         \/ Dict!Inserted(dict, key, val) = Dict!Rebuilt(grown, ((Len(made) + 2) * 3) \div 2)
    BY DEF Dict!Inserted
<1> HIDE DEF made, e
<1>4. ~HasKey(made, e.key)
    BY <1>1, <1>2, KeyOfEntry
<1>5. Good(grown) /\ \A x : Has(grown, x) <=> Has(made, x) \/ x = e
    BY <1>1, <1>2, <1>4, InFrontAdds
<1> HIDE DEF grown
<1>6. ((Len(made) + 2) * 3) \div 2 \in Nat \ {0}
    BY <1>2
<1>7. \A x : Has(Dict!Inserted(dict, key, val), x) <=> Has(grown, x)
    BY <1>3, <1>5, <1>6, RebuiltKeeps
<1>8. Good(Dict!Inserted(dict, key, val))
    BY <1>3, <1>5, <1>6, RebuiltKeeps
<1> QED BY <1>2, <1>5, <1>7, <1>8 DEF e

(* A chain without one of its entries.                                     *)
LEMMA RemovedAt ==
    ASSUME NEW S, NEW s \in Seq(S), NEW q \in 1..Len(s)
    PROVE  LET t == Dict!RemoveAt(s, q)
           IN  /\ t \in Seq(S) /\ Len(t) = Len(s) - 1
               /\ \A j \in 1..Len(s) - 1 : t[j] = IF j < q THEN s[j] ELSE s[j + 1]
<1> DEFINE a == SubSeq(s, 1, q - 1)  b == SubSeq(s, q + 1, Len(s))
<1>1. Len(s) \in Nat /\ q \in Nat
    OBVIOUS
<1>2. a \in Seq(S) /\ Len(a) = q - 1 /\ \A j \in 1..q - 1 : a[j] = s[j]
  <2>1. \A j \in 1..q - 1 : s[j] \in S
      BY <1>1
  <2> QED BY <1>1, <2>1, SubSeqProperties
<1>3. b \in Seq(S) /\ Len(b) = Len(s) - q /\ \A j \in 1..Len(s) - q : b[j] = s[q + j]
  <2>1. \A j \in q + 1..Len(s) : s[j] \in S
      BY <1>1
  <2> QED BY <1>1, <2>1, SubSeqProperties
<1>4. Dict!RemoveAt(s, q) = a \o b
    BY DEF Dict!RemoveAt
<1> HIDE DEF a, b
<1>5. /\ a \o b \in Seq(S) /\ Len(a \o b) = Len(s) - 1
      /\ \A j \in 1..Len(a) + Len(b) : (a \o b)[j] = IF j <= Len(a) THEN a[j] ELSE b[j - Len(a)]
  <2>1. a \in Seq(S) /\ b \in Seq(S)
      BY <1>2, <1>3
  <2>2. /\ a \o b \in Seq(S) /\ Len(a \o b) = Len(a) + Len(b)
        /\ \A j \in 1..Len(a) + Len(b) : (a \o b)[j] = IF j <= Len(a) THEN a[j] ELSE b[j - Len(a)]
      BY ONLY <2>1, ConcatProperties
  <2>3. Len(a) + Len(b) = Len(s) - 1
      BY <1>1, <1>2, <1>3
  <2> QED BY <2>2, <2>3
<1>6. \A j \in 1..Len(s) - 1 : (a \o b)[j] = IF j < q THEN s[j] ELSE s[j + 1]
  <2> SUFFICES ASSUME NEW j \in 1..Len(s) - 1
               PROVE  (a \o b)[j] = IF j < q THEN s[j] ELSE s[j + 1]
      OBVIOUS
  <2>1. CASE j < q
    <3>1. j \in 1..Len(a) + Len(b) /\ j <= Len(a) /\ j \in 1..q - 1
        BY <1>1, <1>2, <1>3, <2>1
    <3> QED BY <1>2, <1>5, <2>1, <3>1
  <2>2. CASE j >= q
    <3>1. j \in 1..Len(a) + Len(b) /\ ~(j <= Len(a)) /\ j - Len(a) \in 1..Len(s) - q
          /\ q + (j - Len(a)) = j + 1
        BY <1>1, <1>2, <1>3, <2>2
    <3>2. (a \o b)[j] = b[j - Len(a)]
        BY <1>5, <3>1
    <3>3. b[j - Len(a)] = s[j + 1]
        BY <1>3, <3>1
    <3>4. ~(j < q)
        BY <1>1, <2>2
    <3> QED BY <3>2, <3>3, <3>4
  <2>3. j < q \/ j >= q
      BY <1>1
  <2> QED BY <2>1, <2>2, <2>3
<1> QED BY <1>4, <1>5, <1>6

(* The entry of a key, when its chain has one.                             *)
LEMMA FirstMatches ==
    ASSUME NEW chain \in Seq(Entry), NEW key, Dict!Matches(chain, key) # {}
    PROVE  LET q == Dict!FirstOf(Dict!Matches(chain, key))
           IN  q \in 1..Len(chain) /\ chain[q].key = key
<1> DEFINE found == Dict!Matches(chain, key)
<1>1. found \subseteq 1..Len(chain) /\ \A j \in found : chain[j].key = key
    BY DEF Dict!Matches
<1>2. found # {}
    OBVIOUS
<1> HIDE DEF found
<1>3. found \in SUBSET Nat
    BY <1>1
<1>4. \E m \in found : \A k \in found : m <= k
    BY <1>2, <1>3, Least
<1>5. Dict!FirstOf(found) \in found
    BY <1>4 DEF Dict!FirstOf
<1> QED BY <1>1, <1>5 DEF found

LEMMA RemovedDrops ==
    ASSUME NEW dict, Good(dict), Len(dict) # 0, NEW key \in Keys,
           Dict!Matches(dict[Dict!DictHash(key, Len(dict))], key) # {}
    PROVE  LET n == Dict!DictHash(key, Len(dict))
               new == [dict EXCEPT ![n] = Dict!RemoveAt(@, Dict!FirstOf(Dict!Matches(dict[n], key)))]
           IN  Good(new) /\ \A x : Has(new, x) <=> Has(dict, x) /\ x.key # key
<1> DEFINE n == Dict!DictHash(key, Len(dict))
           q == Dict!FirstOf(Dict!Matches(dict[n], key))
           chain == Dict!RemoveAt(dict[n], q)
           new == [dict EXCEPT ![n] = chain]
<1>1. dict \in Seq(Seq(Entry)) /\ Len(dict) \in Nat \ {0}
    BY DEF Good
<1>2. n \in 1..Len(dict) /\ Dict!Matches(dict[n], key) # {}
    BY <1>1, HashInside
<1> HIDE DEF n
<1>3. dict[n] \in Seq(Entry) /\ Len(dict[n]) \in Nat
    BY <1>1, <1>2
<1>4. q \in 1..Len(dict[n]) /\ dict[n][q].key = key
    BY <1>2, <1>3, FirstMatches
<1> HIDE DEF q
<1>5. /\ chain \in Seq(Entry) /\ Len(chain) = Len(dict[n]) - 1
      /\ \A j \in 1..Len(dict[n]) - 1 : chain[j] = IF j < q THEN dict[n][j] ELSE dict[n][j + 1]
    BY <1>3, <1>4, RemovedAt
<1> HIDE DEF chain
<1>6. /\ new \in Seq(Seq(Entry)) /\ Len(new) = Len(dict)
      /\ \A i \in 1..Len(dict) : new[i] = IF i = n THEN chain ELSE dict[i]
    BY <1>1, <1>2, <1>5, ExceptSeq
<1> HIDE DEF new
(* Where the entries of the chain are in the old one.                      *)
<1> DEFINE old(j) == IF j < q THEN j ELSE j + 1
<1>7. \A j \in 1..Len(chain) : old(j) \in 1..Len(dict[n]) /\ old(j) # q /\ chain[j] = dict[n][old(j)]
    BY <1>3, <1>4, <1>5
<1>8. \A j, k \in 1..Len(chain) : old(j) = old(k) => j = k
    BY <1>3, <1>4, <1>5
<1>9. \A k \in 1..Len(dict[n]) : k # q => \E j \in 1..Len(chain) : old(j) = k
  <2> SUFFICES ASSUME NEW k \in 1..Len(dict[n]), k # q
               PROVE  \E j \in 1..Len(chain) : old(j) = k
      OBVIOUS
  <2>1. CASE k < q
    <3>1. k \in 1..Len(chain) /\ old(k) = k
        BY <1>3, <1>4, <1>5, <2>1
    <3> QED BY <3>1
  <2>2. CASE k > q
    <3>1. k - 1 \in 1..Len(chain) /\ old(k - 1) = k
        BY <1>3, <1>4, <1>5, <2>2
    <3> QED BY <3>1
  <2> QED BY <1>4, <2>1, <2>2
<1> HIDE DEF old
<1>10. \A j, k \in 1..Len(dict[n]) : /\ Dict!DictHash(dict[n][j].key, Len(dict)) = n
                                     /\ dict[n][j].key = dict[n][k].key => j = k
    BY <1>2 DEF Good
<1>11. ASSUME NEW i \in 1..Len(new), NEW j \in 1..Len(new[i]), NEW k \in 1..Len(new[i])
       PROVE  /\ Dict!DictHash(new[i][j].key, Len(new)) = i
              /\ new[i][j].key = new[i][k].key => j = k
  <2>1. CASE i = n
    <3>1. new[i] = chain /\ j \in 1..Len(chain) /\ k \in 1..Len(chain)
        BY <1>2, <1>6, <2>1
    <3>2. chain[j] = dict[n][old(j)] /\ chain[k] = dict[n][old(k)]
          /\ old(j) \in 1..Len(dict[n]) /\ old(k) \in 1..Len(dict[n])
        BY <1>7, <3>1
    <3>3. Dict!DictHash(new[i][j].key, Len(new)) = i
        BY <1>6, <1>10, <2>1, <3>1, <3>2
    <3>4. new[i][j].key = new[i][k].key => old(j) = old(k)
        BY <1>10, <3>1, <3>2
    <3> QED BY <1>8, <3>1, <3>3, <3>4
  <2>2. CASE i # n
    <3>1. new[i] = dict[i] /\ Len(new) = Len(dict) /\ i \in 1..Len(dict)
        BY <1>6, <2>2
    <3>2. \A l, m \in 1..Len(dict[i]) : /\ Dict!DictHash(dict[i][l].key, Len(dict)) = i
                                        /\ dict[i][l].key = dict[i][m].key => l = m
        BY <3>1 DEF Good
    <3> QED BY <3>1, <3>2
  <2> QED BY <2>1, <2>2
<1>12. Good(new)
    BY <1>6, <1>11 DEF Good
<1>13. ASSUME NEW i \in 1..Len(new), NEW j \in 1..Len(new[i])
       PROVE  Has(dict, new[i][j]) /\ new[i][j].key # key
  <2>1. CASE i = n
    <3>1. new[i] = chain /\ j \in 1..Len(chain)
        BY <1>2, <1>6, <2>1
    <3>2. new[i][j] = dict[n][old(j)] /\ old(j) \in 1..Len(dict[n]) /\ old(j) # q
        BY <1>7, <3>1
    <3>3. dict[n][old(j)].key # key
        BY <1>4, <1>10, <3>2
    <3> QED BY <1>2, <3>2, <3>3 DEF Has
  <2>2. CASE i # n
    <3>1. new[i] = dict[i] /\ i \in 1..Len(dict)
        BY <1>6, <2>2
    <3>2. dict[i][j].key # key
        BY <1>2, <1>4, <2>2, <3>1, OnePlace
    <3> QED BY <3>1, <3>2 DEF Has
  <2> QED BY <2>1, <2>2
<1>14. ASSUME NEW i \in 1..Len(dict), NEW j \in 1..Len(dict[i]), dict[i][j].key # key
       PROVE  Has(new, dict[i][j])
  <2>1. CASE i = n
    <3>1. j \in 1..Len(dict[n]) /\ j # q
        BY <1>4, <1>14, <2>1
    <3>2. PICK k \in 1..Len(chain) : old(k) = j
        BY <1>9, <3>1
    <3>3. new[n] = chain /\ chain[k] = dict[n][j]
        BY <1>2, <1>6, <1>7, <3>2
    <3> QED BY <1>2, <1>6, <2>1, <3>2, <3>3 DEF Has
  <2>2. CASE i # n
      BY <1>6, <2>2 DEF Has
  <2> QED BY <2>1, <2>2
<1>15. \A x : Has(new, x) => Has(dict, x) /\ x.key # key
  <2> SUFFICES ASSUME NEW x, Has(new, x) PROVE Has(dict, x) /\ x.key # key
      OBVIOUS
  <2>1. \E i \in 1..Len(new) : \E j \in 1..Len(new[i]) : new[i][j] = x
      BY DEF Has
  <2> QED BY <1>13, <2>1
<1>16. \A x : Has(dict, x) /\ x.key # key => Has(new, x)
  <2> SUFFICES ASSUME NEW x, Has(dict, x), x.key # key PROVE Has(new, x)
      OBVIOUS
  <2>1. \E i \in 1..Len(dict) : \E j \in 1..Len(dict[i]) : dict[i][j] = x
      BY DEF Has
  <2> QED BY <1>14, <2>1
<1> QED BY <1>12, <1>15, <1>16 DEF new, chain, q, n

(* vlc_dictionary_value_for_key in any dictionary.                         *)
LookUp(dict, key) ==
    LET chain == dict[Dict!DictHash(key, Len(dict))]
    IN  IF dict = <<>> THEN NotFound
        ELSE IF Dict!Matches(chain, key) = {} THEN NotFound
        ELSE chain[Dict!FirstOf(Dict!Matches(chain, key))].val

LEMMA LookUpFinds ==
    ASSUME NEW dict, Good(dict), NEW key \in Keys
    PROVE  /\ ~HasKey(dict, key) => LookUp(dict, key) = NotFound
           /\ \A x : Has(dict, x) /\ x.key = key => LookUp(dict, key) = x.val /\ x.val \in Values
<1> DEFINE n == Dict!DictHash(key, Len(dict))
           found == Dict!Matches(dict[n], key)
<1>1. dict \in Seq(Seq(Entry)) /\ Len(dict) \in Nat
    BY DEF Good
<1>2. ASSUME dict # <<>>
      PROVE  n \in 1..Len(dict) /\ dict[n] \in Seq(Entry)
  <2>1. Len(dict) \in Nat \ {0}
      BY <1>1, <1>2, EmptySeq
  <2>2. n \in 1..Len(dict)
      BY <2>1, HashInside
  <2> QED BY <1>1, <2>2
<1>3. ASSUME dict # <<>>, found # {}
      PROVE  \E q \in 1..Len(dict[n]) : dict[n][q].key = key /\ LookUp(dict, key) = dict[n][q].val
  <2> HIDE DEF n
  <2>1. /\ Dict!FirstOf(found) \in 1..Len(dict[n])
        /\ dict[n][Dict!FirstOf(found)].key = key
      BY <1>2, <1>3, FirstMatches
  <2>2. LookUp(dict, key) = dict[n][Dict!FirstOf(found)].val
      BY <1>3 DEF LookUp, n
  <2> HIDE DEF found
  <2> QED BY <2>1, <2>2
<1>4. ASSUME ~HasKey(dict, key) PROVE LookUp(dict, key) = NotFound
  <2>1. CASE dict = <<>>
      BY <2>1 DEF LookUp
  <2>2. CASE dict # <<>> /\ found = {}
      BY <2>2 DEF LookUp
  <2>3. CASE dict # <<>> /\ found # {}
    <3> HIDE DEF n, found
    <3> QED BY <1>2, <1>3, <1>4, <2>3 DEF HasKey
  <2> QED BY <2>1, <2>2, <2>3
<1>5. ASSUME NEW i \in 1..Len(dict), NEW j \in 1..Len(dict[i]), dict[i][j].key = key
      PROVE  LookUp(dict, key) = dict[i][j].val /\ dict[i][j].val \in Values
  <2>1. dict # <<>> /\ dict[i] \in Seq(Entry)
      BY <1>1
  <2>2. i = n
      BY <1>5 DEF Good
  <2>3. j \in found
      BY <1>5, <2>2 DEF Dict!Matches
  <2> HIDE DEF n, found
  <2>4. PICK q \in 1..Len(dict[n]) : dict[n][q].key = key /\ LookUp(dict, key) = dict[n][q].val
      BY <1>3, <2>1, <2>3
  <2>5. q = j
      BY <1>5, <2>2, <2>4, OnePlace
  <2>6. dict[i][j] \in Entry
      BY <2>1
  <2> QED BY <2>2, <2>4, <2>5, <2>6 DEF Entry
<1>6. \A x : Has(dict, x) /\ x.key = key => LookUp(dict, key) = x.val /\ x.val \in Values
    BY <1>5 DEF Has
<1> QED BY <1>4, <1>6

LEMMA LookUpIsValue ==
    /\ \A key : Dict!vlc_dictionary_value_for_key(key) = LookUp(p_entries, key)
    /\ \A key : Dict!vlc_dictionary_value_for_key(key)' = LookUp(p_entries', key)
BY DEF Dict!vlc_dictionary_value_for_key, LookUp

(* The keys listed.                                                        *)
LEMMA KeysAreListed ==
    ASSUME Good(p_entries)
    PROVE  Dict!KeysListed
<1> DEFINE flat == Dict!FlattenSeq(p_entries)
           keys == Dict!vlc_dictionary_all_keys
<1>1. Lists(flat, p_entries, Len(p_entries))
    BY EntriesList
<1>2. keys = [i \in 1..Len(flat) |-> flat[i].key]
    BY DEF Dict!vlc_dictionary_all_keys, Dict!vlc_dictionary_keys_count
<1> HIDE DEF flat, keys
<1>3. flat \in Seq(Entry) /\ DOMAIN keys = 1..Len(flat) /\ \A i \in 1..Len(flat) : keys[i] = flat[i].key
    BY <1>1, <1>2 DEF Lists
<1>4. Dict!IsInjective(keys)
    BY <1>1, <1>3 DEF Dict!IsInjective, Lists
<1>5. ASSUME NEW key \in Keys, HasKey(p_entries, key)
      PROVE  key \in Dict!ToSet(keys) /\ LookUp(p_entries, key) # NotFound
  <2>1. PICK x : Has(p_entries, x) /\ x.key = key
      BY <1>5, KeyOfEntry
  <2>2. LookUp(p_entries, key) # NotFound
      BY <2>1, LookUpFinds, DictionaryAssumption
  <2>3. \E m \in 1..Len(flat) : flat[m] = x
    <3>1. PICK i \in 1..Len(p_entries) : \E j \in 1..Len(p_entries[i]) : p_entries[i][j] = x
        BY <2>1 DEF Has
    <3>2. PICK j \in 1..Len(p_entries[i]) : p_entries[i][j] = x
        BY <3>1
    <3>3. \E m \in 1..Len(flat) : flat[m] = p_entries[i][j]
        BY <1>1 DEF Lists
    <3> QED BY <3>2, <3>3
  <2> QED BY <1>3, <2>1, <2>2, <2>3 DEF Dict!ToSet
<1>6. ASSUME NEW key \in Dict!ToSet(keys)
      PROVE  key \in Keys /\ HasKey(p_entries, key)
  <2>1. PICK m \in 1..Len(flat) : flat[m].key = key
      BY <1>3 DEF Dict!ToSet
  <2>2. flat[m] \in Entry
      BY <1>3
  <2>3. \E i \in 1..Len(p_entries) : \E j \in 1..Len(p_entries[i]) : flat[m] = p_entries[i][j]
      BY <1>1 DEF Lists
  <2> QED BY <2>1, <2>2, <2>3 DEF Entry, HasKey
<1>7. \A key \in Keys : ~HasKey(p_entries, key) => LookUp(p_entries, key) = NotFound
    BY LookUpFinds
<1>8. Dict!ToSet(keys) = {key \in Keys : Dict!vlc_dictionary_value_for_key(key) # NotFound}
    BY <1>5, <1>6, <1>7, LookUpIsValue
<1> QED BY <1>4, <1>8 DEF Dict!KeysListed, keys

(* What the map is after a step.                                           *)
LEMMA AfterInsert ==
    ASSUME NEW dict, Good(dict), NEW key \in Keys, NEW val \in Values, ~HasKey(dict, key),
           NEW new, Good(new),
           \A x : Has(new, x) <=> Has(dict, x) \/ x = [key |-> key, val |-> val]
    PROVE  \A k \in Keys : LookUp(new, k) = IF k = key THEN val ELSE LookUp(dict, k)
<1> SUFFICES ASSUME NEW k \in Keys
             PROVE  LookUp(new, k) = IF k = key THEN val ELSE LookUp(dict, k)
    OBVIOUS
<1> DEFINE e == [key |-> key, val |-> val]
<1>1. e.key = key /\ e.val = val /\ Has(new, e) /\ \A x : Has(new, x) <=> Has(dict, x) \/ x = e
    OBVIOUS
<1> HIDE DEF e
<1>2. CASE k = key
    BY <1>1, <1>2, LookUpFinds
<1>3. CASE k # key /\ HasKey(dict, k)
  <2>1. PICK x : Has(dict, x) /\ x.key = k
      BY <1>3, KeyOfEntry
  <2>2. Has(new, x)
      BY <1>1, <2>1
  <2>3. LookUp(new, k) = x.val /\ LookUp(dict, k) = x.val
      BY <2>1, <2>2, LookUpFinds
  <2> QED BY <1>3, <2>3
<1>4. CASE k # key /\ ~HasKey(dict, k)
  <2>1. ~HasKey(new, k)
      BY <1>1, <1>4, KeyOfEntry
  <2>2. LookUp(new, k) = NotFound /\ LookUp(dict, k) = NotFound
      BY <1>4, <2>1, LookUpFinds
  <2> QED BY <1>4, <2>2
<1> QED BY <1>2, <1>3, <1>4

LEMMA AfterRemove ==
    ASSUME NEW dict, Good(dict), NEW key \in Keys, NEW new, Good(new),
           \A x : Has(new, x) <=> Has(dict, x) /\ x.key # key
    PROVE  \A k \in Keys : LookUp(new, k) = IF k = key THEN NotFound ELSE LookUp(dict, k)
<1> SUFFICES ASSUME NEW k \in Keys
             PROVE  LookUp(new, k) = IF k = key THEN NotFound ELSE LookUp(dict, k)
    OBVIOUS
<1>1. CASE k = key
  <2>1. ~HasKey(new, k)
      BY <1>1, KeyOfEntry
  <2> QED BY <1>1, <2>1, LookUpFinds
<1>2. CASE k # key /\ HasKey(dict, k)
  <2>1. PICK x : Has(dict, x) /\ x.key = k
      BY <1>2, KeyOfEntry
  <2>2. Has(new, x)
      BY <1>2, <2>1
  <2>3. LookUp(new, k) = x.val /\ LookUp(dict, k) = x.val
      BY <2>1, <2>2, LookUpFinds
  <2> QED BY <1>2, <2>3
<1>3. CASE k # key /\ ~HasKey(dict, k)
  <2>1. ~HasKey(new, k)
      BY <1>3, KeyOfEntry
  <2>2. LookUp(new, k) = NotFound /\ LookUp(dict, k) = NotFound
      BY <1>3, <2>1, LookUpFinds
  <2> QED BY <1>3, <2>2
<1> QED BY <1>1, <1>2, <1>3

LEMMA NextMaps ==
    ASSUME Dict!IInv, [Dict!Next]_p_entries
    PROVE  Dict!IInv' /\ [Dict!Map!Next]_([k \in Keys |-> Dict!vlc_dictionary_value_for_key(k)])
<1> DEFINE value == [k \in Keys |-> Dict!vlc_dictionary_value_for_key(k)]
<1>1. /\ value = [k \in Keys |-> LookUp(p_entries, k)]
      /\ value' = [k \in Keys |-> LookUp(p_entries', k)]
    BY LookUpIsValue
<1>2. Good(p_entries) /\ (Dict!IInv' <=> Good(p_entries'))
    BY DEF Dict!IInv, Good, Entry
<1> SUFFICES Good(p_entries') /\ [Dict!Map!Next]_value
    BY <1>2
<1> HIDE DEF value
<1>3. ASSUME NEW key \in Keys, NEW val \in Values, Dict!vlc_dictionary_insert(key, val)
      PROVE  Good(p_entries') /\ [Dict!Map!Next]_value
  <2>1. LookUp(p_entries, key) = NotFound /\ p_entries' = Dict!Inserted(p_entries, key, val)
      BY <1>3, LookUpIsValue DEF Dict!vlc_dictionary_insert
  <2>2. ~HasKey(p_entries, key)
      BY <1>2, <2>1, KeyOfEntry, LookUpFinds, DictionaryAssumption
  <2>3. /\ Good(p_entries')
        /\ \A x : Has(p_entries', x) <=> Has(p_entries, x) \/ x = [key |-> key, val |-> val]
      BY <1>2, <2>1, <2>2, InsertedAdds
  <2>4. \A k \in Keys : LookUp(p_entries', k) = IF k = key THEN val ELSE LookUp(p_entries, k)
      BY <1>2, <2>2, <2>3, AfterInsert
  <2>5. value[key] = NotFound /\ value' = [value EXCEPT ![key] = val]
      BY <1>1, <2>1, <2>4
  <2> QED BY <2>3, <2>5 DEF Dict!Map!Next, Dict!Map!Insert, value
<1>4. ASSUME NEW key \in Keys, Dict!vlc_dictionary_remove_value_for_key(key)
      PROVE  Good(p_entries') /\ [Dict!Map!Next]_value
  <2>1. p_entries # <<>> /\ p_entries \in Seq(Seq(Entry))
      BY <1>2, <1>4 DEF Dict!vlc_dictionary_remove_value_for_key, Good
  <2>2. Len(p_entries) # 0
      BY <2>1, EmptySeq
  <2>3. Good(p_entries') /\ \A x : Has(p_entries', x) <=> Has(p_entries, x) /\ x.key # key
      BY <1>2, <1>4, <2>2, RemovedDrops DEF Dict!vlc_dictionary_remove_value_for_key
  <2>4. \A k \in Keys : LookUp(p_entries', k) = IF k = key THEN NotFound ELSE LookUp(p_entries, k)
      BY <1>2, <2>3, AfterRemove
  <2>5. value' = [value EXCEPT ![key] = NotFound]
      BY <1>1, <2>4
  <2> QED BY <2>3, <2>5 DEF Dict!Map!Next, Dict!Map!Remove, value
<1>5. ASSUME Dict!vlc_dictionary_clear PROVE Good(p_entries') /\ [Dict!Map!Next]_value
  <2>1. p_entries' = <<>>
      BY <1>5 DEF Dict!vlc_dictionary_clear
  <2>2. Good(p_entries')
      BY <2>1 DEF Good
  <2>3. value' = [k \in Keys |-> NotFound]
      BY <1>1, <2>1 DEF LookUp
  <2> QED BY <2>2, <2>3 DEF Dict!Map!Next, Dict!Map!Clear, value
<1>6. ASSUME UNCHANGED p_entries PROVE Good(p_entries') /\ [Dict!Map!Next]_value
    BY <1>1, <1>2, <1>6
<1> QED BY <1>3, <1>4, <1>5, <1>6 DEF Dict!Next

(* For any keys, values and hashes: through collisions, removals and       *)
(* rebuilding, a dictionary is a map, and the keys it lists are those that *)
(* have a value, each once.                                                *)
THEOREM DictionaryIsMap == Dict!Spec => IsMap
<1> DEFINE value == [k \in Keys |-> Dict!vlc_dictionary_value_for_key(k)]
<1>1. Dict!Init => Dict!IInv /\ Dict!Map!Init
  <2> SUFFICES ASSUME Dict!Init PROVE Dict!IInv /\ Dict!Map!Init
      OBVIOUS
  <2>1. PICK n \in {0, 1} : p_entries = Dict!Empty(n)
      BY DEF Dict!Init, Dict!Sizes
  <2>2. Good(p_entries) /\ \A k : ~HasKey(p_entries, k)
      BY <2>1, EmptyGood, KeyOfEntry
  <2>3. Dict!IInv
      BY <2>2 DEF Dict!IInv, Good, Entry
  <2>4. \A k \in Keys : LookUp(p_entries, k) = NotFound
      BY <2>2, LookUpFinds
  <2> QED BY <2>3, <2>4, LookUpIsValue DEF Dict!Map!Init
<1>2. Dict!IInv /\ [Dict!Next]_p_entries => Dict!IInv' /\ [Dict!Map!Next]_value
    BY NextMaps
<1>3. Dict!IInv => Dict!KeysListed
    BY KeysAreListed DEF Dict!IInv, Good, Entry
<1> QED BY <1>1, <1>2, <1>3, PTL DEF Dict!Spec, IsMap, Dict!IsMap, Dict!Map!Spec

---------------------------------------------------------------------------
(* The media objects.                                                      *)

(* The field f of an object is a block the object owns.                    *)
Holds(o, f, b) == o # Null /\ f \in DOMAIN o.own /\ o.own[f] = b

(* A value that was replaced in one of two dictionaries stays so.          *)
Onward == replaced' \in BOOLEAN /\ (replaced => replaced')

(* What Muxes and Currents say of one object.                              *)
Fine(o) ==
    /\ o.kind = "media" /\ ~o.b_vod => o.own.psz_mux = Null
    /\ o.p_current # Null => /\ o.kind = "guide"
                             /\ \E f \in Events : o.own[f] = o.p_current

(* The blocks at are new ones, all different, for the fields F.            *)
New(at, F, kept) ==
    /\ at \in [F -> Blocks \ DOMAIN kept]
    /\ \A f, g \in F : at[f] = at[g] => f = g

LEMMA FieldSets ==
    /\ IsFiniteSet(Fields)
    /\ \A k \in DOMAIN FieldsOf : FieldsOf[k] \subseteq Fields
<1> DEFINE A == {"psz_name", "seekpoint"}   B == {"p_data", "ppsz_input"}
           C == {"psz_mux", "event1"}       D == {"event2", "ppsz_meta"}
           E == {"tag1", "tag2"}
<1>1. ASSUME NEW x, NEW y PROVE IsFiniteSet({x, y})
  <2>1. IsFiniteSet({x}) /\ IsFiniteSet({y}) /\ {x, y} = {x} \cup {y}
      BY FS_Singleton
  <2> QED BY <2>1, FS_Union
<1>2. IsFiniteSet(A) /\ IsFiniteSet(B) /\ IsFiniteSet(C) /\ IsFiniteSet(D) /\ IsFiniteSet(E)
    BY <1>1
<1>3. Fields = A \cup B \cup C \cup D \cup E
    BY DEF Fields, TitleFields, AttachmentFields, MediaFields, GuideFields, MetaFields, Events,
           Tags
<1> HIDE DEF A, B, C, D, E
<1>4. IsFiniteSet(Fields)
    BY <1>2, <1>3, FS_Union
<1>5. \A k \in DOMAIN FieldsOf : FieldsOf[k] \subseteq Fields
    BY DEF FieldsOf, Fields, InstanceFields, MediaFields
<1> QED BY <1>4, <1>5

(* If there is room for the blocks, they are new and different.            *)
LEMMA PlacedIsNew ==
    ASSUME MaxBlocks \in Nat, NEW kept, NEW F \in SUBSET Fields, Fits(kept, F)
    PROVE  New(Placed(kept, F), F, kept)
<1> DEFINE R == Room(kept)
<1>1. IsFiniteSet(F)
    BY FieldSets, FS_Subset
<1>2. IsFiniteSet(R)
  <2>1. IsFiniteSet(Blocks)
      BY FS_Interval DEF Blocks
  <2> QED BY <2>1, FS_Subset DEF Room
<1> DEFINE n == Cardinality(F)   m == Cardinality(R)
<1>3. n \in Nat /\ m \in Nat /\ n <= m
    BY <1>1, <1>2, FS_CardinalityType DEF Fits
<1>4. PICK p \in Bijection(1..n, F) : TRUE
    BY <1>1, FS_CardinalityType DEF ExistsBijection
<1>5. PICK q \in Bijection(1..m, R) : TRUE
    BY <1>2, FS_CardinalityType DEF ExistsBijection
<1> HIDE DEF n, m, R
<1>6. /\ p \in [1..n -> F] /\ \A f \in F : \E i \in 1..n : p[i] = f
      /\ q \in [1..m -> R] /\ \A i, j \in 1..m : q[i] = q[j] => i = j
    BY <1>4, <1>5 DEF Bijection, Surjection, Injection, IsInjective
<1> DEFINE Pos(f) == CHOOSE i \in 1..n : p[i] = f
           at == [f \in F |-> q[Pos(f)]]
<1>7. \A f \in F : Pos(f) \in 1..n /\ p[Pos(f)] = f
    BY <1>6
<1> HIDE DEF Pos
<1>8. \A f \in F : Pos(f) \in 1..m
    BY <1>3, <1>7
<1>9. at \in [F -> R]
    BY <1>6, <1>8
<1>10. \A f, g \in F : at[f] = at[g] => f = g
    BY <1>6, <1>7, <1>8
<1>11. at \in Injection(F, R)
    BY <1>9, <1>10 DEF Injection, IsInjective
<1> HIDE DEF at
<1>12. Placed(kept, F) \in Injection(F, R)
    BY <1>11 DEF Placed, R
<1> QED BY <1>12 DEF Injection, IsInjective, New, R, Room

LEMMA Shape ==
    ASSUME NEW o \in AllObjects
    PROVE  /\ o.kind \in DOMAIN FieldsOf /\ o.own \in [FieldsOf[o.kind] -> Blocks \cup {Null}]
           /\ o.b_vod \in BOOLEAN /\ o.p_current \in Blocks \cup {Null}
           /\ o = [kind |-> o.kind, own |-> o.own, b_vod |-> o.b_vod,
                   p_current |-> o.p_current]
<1>1. PICK k \in DOMAIN FieldsOf : o \in ObjectsOf(k)
    BY DEF AllObjects
<1> QED BY <1>1 DEF ObjectsOf

LEMMA Record ==
    ASSUME NEW k \in DOMAIN FieldsOf, NEW own \in [FieldsOf[k] -> Blocks \cup {Null}],
           NEW vod \in BOOLEAN, NEW cur \in Blocks \cup {Null}
    PROVE  [kind |-> k, own |-> own, b_vod |-> vod, p_current |-> cur] \in AllObjects
BY DEF AllObjects, ObjectsOf

LEMMA WithOwn ==
    ASSUME NEW o \in AllObjects, NEW own \in [FieldsOf[o.kind] -> Blocks \cup {Null}]
    PROVE  LET x == [o EXCEPT !.own = own]
           IN  /\ x \in AllObjects /\ x.kind = o.kind /\ x.own = own /\ x.b_vod = o.b_vod
               /\ x.p_current = o.p_current
<1> DEFINE x == [kind |-> o.kind, own |-> own, b_vod |-> o.b_vod, p_current |-> o.p_current]
<1>1. o \in [kind : {o.kind}, own : {o.own}, b_vod : {o.b_vod}, p_current : {o.p_current}]
    BY Shape
<1>2. x \in AllObjects
    BY Shape, Record
<1>3. [o EXCEPT !.own = own] = x
    BY <1>1
<1> QED BY <1>2, <1>3

(* Blocks are freed, and new ones are for the fields F of s; every other   *)
(* block keeps its owner or, if that is a tag, gets another one as well.   *)
Moves(s, F, at, use, freed) ==
    /\ F \in SUBSET Fields /\ New(at, F, Freed(freed))
    /\ heap' = Allocated(Freed(freed), at, use)
    /\ \A f \in F : f \in Tags => use = Tag
    /\ \A f \in F : \A b \in Blocks : b = at[f] => Owns(s, f, b)'
    /\ \A t \in Slots : \A f \in Fields : \A b \in Blocks :
          Owns(t, f, b)' => \/ t = s /\ f \in F /\ b = at[f]
                            \/ b \notin freed /\ \E r \in Slots : Owns(r, f, b)
    /\ \A t, u \in Slots : \A f \in Fields : \A b \in Blocks :
          Owns(t, f, b)' /\ Owns(u, f, b)' => t = u \/ f \in Tags
    /\ \A t \in Slots : \A f \in Fields \ Tags : \A b \in Blocks \ freed :
          Owns(t, f, b) => Owns(t, f, b)'

(* Whoever the blocks come from, each then has one owner, or owners that   *)
(* hold it under the same tag.                                             *)
LEMMA Transfer ==
    ASSUME IInv, ~replaced, NEW s \in Slots, NEW F, NEW at, NEW use, NEW freed,
           Moves(s, F, at, use, freed)
    PROVE  Exclusive' /\ InUse' /\ Accounted'
<1> USE DEF Moves
<1> DEFINE K == DOMAIN heap \ freed
<1>1. /\ at \in [F -> Blocks \ K] /\ \A f, g \in F : at[f] = at[g] => f = g
      /\ DOMAIN heap \subseteq Blocks
    BY DEF New, Freed, Restrict, IInv, TypeOK
<1>2. /\ DOMAIN heap' = {at[f] : f \in F} \cup K
      /\ \A f \in F : heap'[at[f]] = use
      /\ \A b \in K : heap'[b] = heap[b]
  <2>1. Range(at) = {at[f] : f \in F}
      BY <1>1 DEF Range
  <2>2. DOMAIN Freed(freed) = K /\ \A b \in K : Freed(freed)[b] = heap[b]
      BY DEF Freed, Restrict
  <2>3. K \cap Range(at) = {}
      BY <1>1, <2>1
  <2>4. heap' = [b \in Range(at) \cup K |-> IF b \in Range(at) THEN use ELSE Freed(freed)[b]]
      BY <2>2 DEF Allocated, Over
  <2> QED BY <2>1, <2>2, <2>3, <2>4
<1>3. ASSUME NEW t \in Slots, NEW f \in Fields, NEW b \in Blocks, Owns(t, f, b)'
      PROVE  \/ t = s /\ f \in F /\ b = at[f]
             \/ b \in K /\ \E r \in Slots : Owns(r, f, b)
    BY <1>3 DEF IInv, InUse
<1> HIDE DEF K
<1>4. Exclusive'
  <2> SUFFICES ASSUME NEW t \in Slots, NEW u \in Slots, NEW f \in Fields, NEW g \in Fields,
                      NEW b \in Blocks, Owns(t, f, b)', Owns(u, g, b)'
               PROVE  f = g /\ (t = u \/ f \in Tags)
      BY DEF Exclusive, Tags
  <2>1. f = g
    <3>1. CASE f \in F /\ b = at[f]
      <4>1. b \notin K
          BY <1>1, <3>1
      <4> QED BY <1>1, <1>3, <3>1, <4>1
    <3>2. CASE ~(f \in F /\ b = at[f])
      <4>1. b \in K /\ \E r \in Slots : Owns(r, f, b)
          BY <1>3, <3>2
      <4>2. \E r \in Slots : Owns(r, g, b)
          BY <1>1, <1>3, <4>1
      <4> QED BY <4>1, <4>2 DEF IInv, Exclusive
    <3> QED BY <3>1, <3>2
  <2> QED BY <2>1
<1>5. InUse'
  <2> SUFFICES ASSUME NEW t \in Slots, NEW f \in Fields, NEW b \in Blocks, Owns(t, f, b)'
               PROVE  b \in DOMAIN heap' /\ (f \in Tags => heap'[b] = Tag)
      BY DEF InUse, Tag
  <2>1. CASE f \in F /\ b = at[f]
      BY <1>2, <2>1
  <2>2. CASE b \in K /\ \E r \in Slots : Owns(r, f, b)
      BY <1>2, <2>2 DEF IInv, InUse
  <2> QED BY <1>3, <2>1, <2>2
<1>6. Accounted'
  <2> SUFFICES ASSUME NEW b \in DOMAIN heap', heap'[b] # Tag
               PROVE  \E t \in Slots : \E f \in Fields : Owns(t, f, b)'
      BY DEF Accounted, Tag
  <2>1. CASE \E f \in F : b = at[f]
      BY <1>1, <2>1
  <2>2. CASE b \in K
    <3>1. b \in Blocks /\ heap[b] # Tag /\ b \in DOMAIN heap /\ b \notin freed
        BY <1>1, <1>2, <2>2 DEF K
    <3>2. PICK t \in Slots, f \in Fields : Owns(t, f, b)
        BY <3>1 DEF IInv, Accounted
    <3>3. f \notin Tags
        BY <3>1, <3>2 DEF IInv, InUse
    <3> QED BY <3>1, <3>2, <3>3
  <2> QED BY <1>2, <2>1, <2>2
<1> QED BY <1>4, <1>5, <1>6

LEMMA Replaced ==
    ASSUME IInv, NEW s \in Slots, NEW x, objects' = [objects EXCEPT ![s] = x]
    PROVE  /\ objects'[s] = x /\ \A t \in Slots \ {s} : objects'[t] = objects[t]
           /\ \A f, b : Owns(s, f, b)' <=> Holds(x, f, b)
           /\ \A t \in Slots \ {s} : \A f, b : Owns(t, f, b)' <=> Owns(t, f, b)
<1>1. objects'[s] = x /\ \A t \in Slots \ {s} : objects'[t] = objects[t]
    BY DEF IInv, TypeOK
<1> QED BY <1>1 DEF Owns, Own, Holds

LEMMA StayFine ==
    ASSUME \A t \in Slots : objects'[t] = Null \/ Fine(objects'[t])
    PROVE  Muxes' /\ Currents'
BY DEF Fine, Muxes, Currents, Own

LEMMA AllFine ==
    ASSUME IInv, NEW t \in Slots, objects[t] # Null
    PROVE  Fine(objects[t]) /\ objects[t] \in AllObjects
BY DEF Fine, IInv, Muxes, Currents, Own, TypeOK

(* A step that makes the object s x, frees blocks and gives x new ones for *)
(* the fields F: x keeps the other blocks it owned, but for values of      *)
(* tags, which may also be another's; and as long as no value is replaced  *)
(* that two hold, no other object owned one that is freed.                 *)
Becomes(s, x, F, at, use, freed) ==
    /\ objects' = [objects EXCEPT ![s] = x]
    /\ x \in AllObjects \cup {Null} /\ (x # Null => Fine(x))
    /\ F \in SUBSET Fields /\ New(at, F, Freed(freed))
    /\ heap' = Allocated(Freed(freed), at, use)
    /\ \A f \in F : Holds(x, f, at[f]) /\ (f \in Tags => use = Tag)
    /\ \A f \in Fields \ Tags : \A b \in Blocks \ freed : Owns(s, f, b) => Holds(x, f, b)
    /\ ~replaced' =>
          /\ \A f \in Fields \ F : \A b \in Blocks : Holds(x, f, b) =>
                b \notin freed /\ \E r \in Slots : Owns(r, f, b) /\ (r = s \/ f \in Tags)
          /\ \A t \in Slots \ {s} : \A f \in Fields : \A b \in Blocks :
                Owns(t, f, b) => b \notin freed

(* The same for a step that changes one object.                            *)
LEMMA OneObject ==
    ASSUME IInv, Onward, NEW s \in Slots, NEW x, NEW F, NEW at, NEW use, NEW freed,
           Becomes(s, x, F, at, use, freed)
    PROVE  IInv'
<1> USE DEF Becomes
<1>1. /\ objects'[s] = x /\ \A t \in Slots \ {s} : objects'[t] = objects[t]
      /\ \A f, b : Owns(s, f, b)' <=> Holds(x, f, b)
      /\ \A t \in Slots \ {s} : \A f, b : Owns(t, f, b)' <=> Owns(t, f, b)
    BY Replaced
<1>2. DOMAIN heap' \subseteq Blocks
  <2>1. DOMAIN Freed(freed) \subseteq Blocks
      BY DEF Freed, Restrict, IInv, TypeOK
  <2>2. Range(at) \subseteq Blocks
      BY DEF New, Range
  <2> QED BY <2>1, <2>2 DEF Allocated, Over
<1>3. objects' \in [Slots -> AllObjects \cup {Null}]
    BY DEF IInv, TypeOK
<1>4. Muxes' /\ Currents'
  <2>1. ASSUME NEW t \in Slots, objects'[t] # Null PROVE Fine(objects'[t])
    <3>1. CASE t = s
        BY <1>1, <2>1, <3>1
    <3>2. CASE t # s
        BY <1>1, <2>1, <3>2, AllFine
    <3> QED BY <3>1, <3>2
  <2> QED BY <2>1, StayFine
<1>5. ASSUME ~replaced' PROVE Exclusive' /\ InUse' /\ Accounted'
  <2>1. ~replaced /\ Exclusive /\ InUse
      BY <1>5 DEF Onward, IInv
  <2>2. \A f \in F : \A b \in Blocks : b = at[f] => Owns(s, f, b)'
      BY <1>1
  <2>3. ASSUME NEW f \in Fields, NEW b \in Blocks, Owns(s, f, b)'
        PROVE  \/ f \in F /\ b = at[f]
               \/ b \notin freed /\ \E r \in Slots : Owns(r, f, b) /\ (r = s \/ f \in Tags)
    <3>1. Holds(x, f, b)
        BY <1>1, <2>3
    <3>2. CASE f \in F
      <4>1. Holds(x, f, at[f])
          BY <3>2
      <4> QED BY <3>1, <3>2, <4>1 DEF Holds
    <3> QED BY <1>5, <3>1, <3>2
  <2>4. ASSUME NEW t \in Slots, NEW f \in Fields, NEW b \in Blocks, Owns(t, f, b)'
        PROVE  \/ t = s /\ f \in F /\ b = at[f]
               \/ b \notin freed /\ \E r \in Slots : Owns(r, f, b)
      BY <1>1, <1>5, <2>3, <2>4
  <2>5. ASSUME NEW t \in Slots \ {s}, NEW f \in Fields \ Tags, NEW b \in Blocks,
               Owns(t, f, b)
        PROVE  ~Owns(s, f, b)'
    <3>1. b \in DOMAIN heap \ freed
        BY <1>5, <2>1, <2>5 DEF InUse
    <3>2. ~(f \in F /\ b = at[f])
        BY <3>1 DEF New, Freed, Restrict
    <3>3. ~Owns(s, f, b)
        BY <2>1, <2>5 DEF Exclusive
    <3> QED BY <2>3, <3>2, <3>3
  <2>6. ASSUME NEW t \in Slots, NEW u \in Slots, NEW f \in Fields \ Tags, NEW b \in Blocks,
               Owns(t, f, b)', Owns(u, f, b)'
        PROVE  t = u
    <3>1. CASE t # s /\ u # s
        BY <1>1, <2>1, <2>6, <3>1 DEF Exclusive
    <3>2. CASE t = s \/ u = s
        BY <1>1, <2>5, <2>6, <3>2
    <3> QED BY <3>1, <3>2
  <2>7. \A t \in Slots : \A f \in Fields \ Tags : \A b \in Blocks \ freed :
            Owns(t, f, b) => Owns(t, f, b)'
      BY <1>1
  <2>8. \A t, u \in Slots : \A f \in Fields : \A b \in Blocks :
            Owns(t, f, b)' /\ Owns(u, f, b)' => t = u \/ f \in Tags
      BY <2>6
  <2>9. Moves(s, F, at, use, freed)
      BY <2>2, <2>4, <2>7, <2>8 DEF Moves
  <2> QED BY <2>1, <2>9, Transfer
<1> QED BY <1>2, <1>3, <1>4, <1>5 DEF IInv, TypeOK, Onward

(* What was an object's own is no other's.                                 *)
LEMMA NoOthers ==
    ASSUME IInv, ~replaced, NEW s \in Slots, objects[s] # Null, Null \notin Blocks,
           NEW G \in SUBSET (Fields \cap DOMAIN Own(s)), \A tag \in G \cap Tags : ~Shared(s, tag)
    PROVE  LET freed == {Own(s)[f] : f \in G}
           IN  /\ \A t \in Slots \ {s} : \A f \in Fields : \A b \in Blocks :
                     Owns(t, f, b) => b \notin freed
               /\ \A f \in Fields \ G : \A b \in Blocks : Owns(s, f, b) => b \notin freed
<1> DEFINE freed == {Own(s)[f] : f \in G}
<1>1. ASSUME NEW b \in Blocks, b \in freed
      PROVE  \E f \in G : Owns(s, f, b)
    BY <1>1 DEF Owns
<1> HIDE DEF freed
<1>2. ASSUME NEW t \in Slots \ {s}, NEW f \in Fields, NEW b \in Blocks, Owns(t, f, b)
      PROVE  b \notin freed
  <2> SUFFICES ASSUME b \in freed PROVE FALSE
      OBVIOUS
  <2>1. PICK g \in G : Owns(s, g, b)
      BY <1>1
  <2>2. g = f /\ f \in Tags
      BY <1>2, <2>1 DEF IInv, Exclusive
  <2> QED BY <1>2, <2>1, <2>2 DEF Shared
<1>3. \A f \in Fields \ G : \A b \in Blocks : Owns(s, f, b) => b \notin freed
    BY <1>1 DEF IInv, Exclusive
<1> QED BY <1>2, <1>3 DEF freed

---------------------------------------------------------------------------
(* Maps.                                                                   *)

LEMMA OverBlank ==
    ASSUME NEW F, NEW G, NEW B, NEW at \in [F -> B], F \subseteq G
    PROVE  LET own == Over(at, Blank(G))
           IN  /\ own \in [G -> B \cup {Null}]
               /\ \A f \in G : own[f] = IF f \in F THEN at[f] ELSE Null
BY DEF Over, Blank

LEMMA NothingFreed ==
    ASSUME NEW at, NEW use
    PROVE  /\ DOMAIN Freed({}) = DOMAIN heap
           /\ Allocated(Freed({}), at, use) = Allocated(heap, at, use)
<1>1. DOMAIN Freed({}) = DOMAIN heap /\ \A b \in DOMAIN heap : Freed({})[b] = heap[b]
    BY DEF Freed, Restrict
<1> QED BY <1>1 DEF Allocated, Over

LEMMA NothingNew ==
    ASSUME NEW freed, NEW use
    PROVE  LET at == [f \in {} |-> Null]
           IN  New(at, {}, Freed(freed)) /\ Allocated(Freed(freed), at, use) = Freed(freed)
<1> DEFINE at == [f \in {} |-> Null]
<1>1. Range(at) = {}
    BY DEF Range
<1>2. Freed(freed) = [b \in DOMAIN heap \ freed |-> heap[b]]
    BY DEF Freed, Restrict
<1> QED BY <1>1, <1>2 DEF Allocated, Over, New

---------------------------------------------------------------------------
(* The operations the handlers are made of.                                *)

(* Each keeps the invariant, for whatever fields a handler calls it with.  *)
LEMMA MakeKeeps ==
    ASSUME IInv, Onward, MaxBlocks \in Nat, Null \notin Blocks, Null \notin AllObjects,
           NEW s \in Slots, NEW k \in DOMAIN FieldsOf,
           NEW given \in SUBSET (FieldsOf[k] \ Tags), k = "media" => given = {},
           Make(s, k, FieldsOf[k], given)
    PROVE  IInv'
<1> DEFINE at == Placed(heap, given)
           own == Over(at, Blank(FieldsOf[k]))
           x == Object(k, own)
<1>1. /\ objects[s] = Null /\ Fits(heap, given)
      /\ objects' = [objects EXCEPT ![s] = x] /\ heap' = Allocated(heap, at, Text)
    BY DEF Make
<1>2. given \in SUBSET Fields
    BY FieldSets
<1>3. New(at, given, heap)
    BY <1>1, <1>2, PlacedIsNew
<1> HIDE DEF at
<1>4. New(at, given, Freed({})) /\ heap' = Allocated(Freed({}), at, Text)
    BY <1>1, <1>3, NothingFreed DEF New
<1>5. /\ own \in [FieldsOf[k] -> Blocks \cup {Null}]
      /\ \A f \in FieldsOf[k] : own[f] = IF f \in given THEN at[f] ELSE Null
  <2>1. at \in [given -> Blocks] /\ given \subseteq FieldsOf[k]
      BY <1>3 DEF New
  <2> QED BY <2>1, OverBlank
<1> HIDE DEF own
<1>6. x \in AllObjects
    BY <1>5, Record DEF Object
<1>7. /\ x # Null /\ x.own = own /\ x.kind = k /\ x.p_current = Null /\ x.b_vod = FALSE
    BY <1>6 DEF Object
<1> HIDE DEF x
<1>8. Fine(x)
  <2>1. k = "media" => own.psz_mux = Null
      BY <1>5 DEF FieldsOf, MediaFields
  <2> QED BY <1>7, <2>1 DEF Fine
<1>9. \A f \in given : Holds(x, f, at[f])
    BY <1>5, <1>7 DEF Holds
<1>10. \A f \in Fields \ given : \A b \in Blocks : ~Holds(x, f, b)
    BY <1>5, <1>7 DEF Holds
<1>11. \A f \in Fields : \A b \in Blocks : ~Owns(s, f, b)
    BY <1>1 DEF Owns
<1>12. Becomes(s, x, given, at, Text, {})
    BY <1>1, <1>2, <1>4, <1>6, <1>8, <1>9, <1>10, <1>11 DEF Becomes
<1> QED BY <1>12, OneObject

LEMMA AssignKeeps ==
    ASSUME IInv, Onward, MaxBlocks \in Nat, Null \notin Blocks, Null \notin AllObjects,
           NEW s \in Slots, objects[s] # Null,
           NEW field \in DOMAIN Own(s), NEW free \in BOOLEAN, NEW use,
           field \in Tags /\ ~replaced' => ~Shared(s, field),
           field \in Tags => use = Tag,
           free \/ Own(s)[field] = Null,
           field = "psz_mux" => objects[s].b_vod,
           objects[s].p_current # Null => Own(s)[field] = Null,
           Assign(s, field, use, free)
    PROVE  IInv'
<1> DEFINE G == IF free THEN {field} ELSE {}
           freed == {Own(s)[f] : f \in G}
           at == Placed(Freed(freed), {field})
           own == Over(at, Own(s))
           x == [objects[s] EXCEPT !.own = own]
<1>1. Freed(IF free THEN {Own(s)[field]} ELSE {}) = Freed(freed)
  <2>1. (IF free THEN {Own(s)[field]} ELSE {}) = freed
      OBVIOUS
  <2> QED BY <2>1
<1>2. objects[s] \in AllObjects /\ Fine(objects[s])
    BY AllFine
<1>3. Own(s) \in [FieldsOf[objects[s].kind] -> Blocks \cup {Null}] /\ field \in Fields
    BY <1>2, Shape, FieldSets DEF Own
<1>4. /\ Fits(Freed(freed), {field})
      /\ objects' = [objects EXCEPT ![s].own = Over(at, @)]
      /\ heap' = Allocated(Freed(freed), at, use)
    BY <1>1 DEF Assign
<1>5. New(at, {field}, Freed(freed))
    BY <1>3, <1>4, PlacedIsNew
<1>6. objects' = [objects EXCEPT ![s] = x]
    BY <1>4 DEF Own
<1>7. /\ G \in SUBSET (Fields \cap DOMAIN Own(s))
      /\ ~replaced' =>
            /\ \A t \in Slots \ {s} : \A f \in Fields : \A b \in Blocks :
                  Owns(t, f, b) => b \notin freed
            /\ \A f \in Fields \ G : \A b \in Blocks : Owns(s, f, b) => b \notin freed
  <2>1. G \in SUBSET (Fields \cap DOMAIN Own(s))
      BY <1>3
  <2>2. ~replaced' => ~replaced /\ \A tag \in G \cap Tags : ~Shared(s, tag)
      BY DEF Onward
  <2> HIDE DEF G
  <2> QED BY <2>1, <2>2, NoOthers
<1>8. \A b \in Blocks : Owns(s, field, b) => b \in freed
    BY DEF Owns
<1> HIDE DEF at, freed, G
<1>9. /\ own \in [FieldsOf[objects[s].kind] -> Blocks \cup {Null}]
      /\ \A f \in DOMAIN Own(s) : own[f] = IF f = field THEN at[f] ELSE Own(s)[f]
  <2>1. at \in [{field} -> Blocks \cup {Null}]
      BY <1>5 DEF New
  <2>2. DOMAIN Own(s) = FieldsOf[objects[s].kind] /\ {field} \subseteq DOMAIN Own(s)
      BY <1>3
  <2> QED BY <1>3, <2>1, <2>2 DEF Over
<1> HIDE DEF own
<1>10. /\ x \in AllObjects /\ x.kind = objects[s].kind /\ x.own = own
       /\ x.b_vod = objects[s].b_vod /\ x.p_current = objects[s].p_current
       /\ x # Null
    BY <1>2, <1>9, WithOwn
<1> HIDE DEF x
<1>11. Fine(x)
  <2>1. x.kind = "media" /\ ~x.b_vod => own.psz_mux = Null
    <3>1. x.kind = "media" => "psz_mux" \in DOMAIN Own(s)
        BY <1>3, <1>10 DEF FieldsOf, MediaFields
    <3> QED BY <1>2, <1>9, <1>10, <3>1 DEF Fine, Own
  <2>2. ASSUME x.p_current # Null
        PROVE  x.kind = "guide" /\ \E f \in Events : own[f] = x.p_current
    <3>1. x.kind = "guide" /\ Events \subseteq DOMAIN Own(s)
        BY <1>2, <1>3, <1>10, <2>2 DEF Fine, FieldsOf, GuideFields
    <3>2. PICK f \in Events : Own(s)[f] = x.p_current
        BY <1>2, <1>10, <2>2 DEF Fine, Own
    <3>3. f # field
        BY <1>10, <2>2, <3>2
    <3> QED BY <1>9, <3>1, <3>2, <3>3
  <2> QED BY <1>10, <2>1, <2>2 DEF Fine
<1>12. Holds(x, field, at[field])
    BY <1>3, <1>9, <1>10 DEF Holds
<1>13. \A f \in Fields \ {field} : \A b \in Blocks : Holds(x, f, b) <=> Owns(s, f, b)
    BY <1>3, <1>9, <1>10 DEF Holds, Owns
<1>14. ~replaced' =>
           \A f \in Fields \ {field} : \A b \in Blocks : Owns(s, f, b) => b \notin freed
    BY <1>7 DEF G
<1>15. {field} \in SUBSET Fields /\ \A f \in {field} : Holds(x, f, at[f])
    BY <1>3, <1>12
<1>16. \A f \in Fields \ Tags : \A b \in Blocks \ freed : Owns(s, f, b) => Holds(x, f, b)
    BY <1>8, <1>13
<1>17. ~replaced' => \A f \in Fields \ {field} : \A b \in Blocks :
           Holds(x, f, b) => b \notin freed /\ Owns(s, f, b)
    BY <1>13, <1>14
<1>18. Becomes(s, x, {field}, at, use, freed)
    BY <1>4, <1>5, <1>6, <1>7, <1>10, <1>11, <1>15, <1>16, <1>17 DEF Becomes
<1> QED BY <1>18, OneObject

LEMMA CopyKeeps ==
    ASSUME IInv, Onward, MaxBlocks \in Nat, Null \notin Blocks, Null \notin AllObjects,
           NEW s \in Slots, NEW d \in Slots, objects[s] # Null, objects[s].kind # "guide",
           NEW fields, fields \cap Tags = {},
           objects[s].kind = "media" /\ ~objects[s].b_vod => "psz_mux" \notin fields,
           Copy(s, d, fields)
    PROVE  IInv'
<1> DEFINE copied == Set(s) \cap fields
           at == Placed(heap, copied)
           own == Over(at, Blank(DOMAIN Own(s)))
           x == [objects[s] EXCEPT !.own = own]
<1>1. /\ objects[d] = Null /\ Fits(heap, copied) /\ heap' = Allocated(heap, at, Text)
      /\ objects' = [objects EXCEPT ![d] = x]
    BY DEF Copy, Own
<1>2. objects[s] \in AllObjects /\ Fine(objects[s])
    BY AllFine
<1>3. Own(s) \in [FieldsOf[objects[s].kind] -> Blocks \cup {Null}]
    BY <1>2, Shape DEF Own
<1>4. copied \subseteq DOMAIN Own(s) /\ copied \in SUBSET Fields /\ copied \cap Tags = {}
    BY <1>2, <1>3, Shape, FieldSets DEF Set
<1>5. copied \subseteq fields
    OBVIOUS
<1> HIDE DEF copied
<1>6. New(at, copied, heap)
    BY <1>1, <1>4, PlacedIsNew
<1> HIDE DEF at
<1>7. New(at, copied, Freed({})) /\ heap' = Allocated(Freed({}), at, Text)
    BY <1>1, <1>6, NothingFreed DEF New
<1>8. /\ own \in [FieldsOf[objects[s].kind] -> Blocks \cup {Null}]
      /\ \A f \in DOMAIN Own(s) : own[f] = IF f \in copied THEN at[f] ELSE Null
  <2>1. at \in [copied -> Blocks]
      BY <1>6 DEF New
  <2>2. DOMAIN Own(s) = FieldsOf[objects[s].kind] /\ copied \in SUBSET DOMAIN Own(s)
      BY <1>3, <1>4
  <2> DEFINE G == DOMAIN Own(s)
  <2> HIDE DEF G
  <2>3. copied \in SUBSET G
      BY <2>2 DEF G
  <2>4. /\ Over(at, Blank(G)) \in [G -> Blocks \cup {Null}]
        /\ \A f \in G : Over(at, Blank(G))[f] = IF f \in copied THEN at[f] ELSE Null
      BY <2>1, <2>3, OverBlank
  <2> QED BY <2>2, <2>4 DEF G
<1> HIDE DEF own
<1>9. /\ x \in AllObjects /\ x.kind = objects[s].kind /\ x.own = own
      /\ x.b_vod = objects[s].b_vod /\ x.p_current = objects[s].p_current /\ x # Null
    BY <1>2, <1>8, WithOwn
<1> HIDE DEF x
<1>10. Fine(x)
  <2>1. ASSUME x.kind = "media", ~x.b_vod
        PROVE  own.psz_mux = Null
    <3>1. "psz_mux" \in DOMAIN Own(s) /\ "psz_mux" \notin copied
        BY <1>3, <1>5, <1>9, <2>1 DEF FieldsOf, MediaFields
    <3> QED BY <1>8, <3>1
  <2> QED BY <1>2, <1>9, <2>1 DEF Fine
<1>11. \A f \in copied : Holds(x, f, at[f])
    BY <1>3, <1>4, <1>8, <1>9 DEF Holds
<1>12. \A f \in Fields \ copied : \A b \in Blocks : ~Holds(x, f, b)
    BY <1>3, <1>8, <1>9 DEF Holds
<1>13. \A f \in Fields : \A b \in Blocks : ~Owns(d, f, b)
    BY <1>1 DEF Owns
<1>14. Becomes(d, x, copied, at, Text, {})
    BY <1>1, <1>4, <1>7, <1>9, <1>10, <1>11, <1>12, <1>13 DEF Becomes
<1> QED BY <1>14, OneObject

(* Blocks are freed, and none is new.                                      *)
LEMMA ReleaseKeeps ==
    ASSUME IInv, Onward, Null \notin Blocks, NEW s \in Slots, objects[s] # Null,
           NEW G \in SUBSET (Fields \cap DOMAIN Own(s)), G \cap Tags = {},
           NEW x \in AllObjects \cup {Null}, x # Null => Fine(x),
           objects' = [objects EXCEPT ![s] = x], heap' = Freed({Own(s)[f] : f \in G}),
           \A f \in Fields : \A b \in Blocks : Holds(x, f, b) => f \notin G /\ Owns(s, f, b),
           \A f \in Fields \ (G \cup Tags) : \A b \in Blocks : Owns(s, f, b) => Holds(x, f, b)
    PROVE  IInv'
<1> DEFINE freed == {Own(s)[f] : f \in G}
           at == [f \in {} |-> Null]
<1>1. New(at, {}, Freed(freed)) /\ Allocated(Freed(freed), at, Text) = Freed(freed)
    BY NothingNew
<1>2. ~replaced' =>
         /\ \A t \in Slots \ {s} : \A f \in Fields : \A b \in Blocks :
               Owns(t, f, b) => b \notin freed
         /\ \A f \in Fields \ G : \A b \in Blocks : Owns(s, f, b) => b \notin freed
    BY NoOthers DEF Onward
<1>3. \A f \in G : \A b \in Blocks : Owns(s, f, b) => b \in freed
    BY DEF Owns
<1>4. heap' = Freed(freed)
    OBVIOUS
<1> HIDE DEF at, freed
<1>5. Becomes(s, x, {}, at, Text, freed)
    BY <1>1, <1>2, <1>3, <1>4 DEF Becomes
<1> QED BY <1>5, OneObject

LEMMA DestroyKeeps ==
    ASSUME IInv, Onward, Null \notin Blocks, NEW s \in Slots, objects[s] # Null,
           NEW fields \in SUBSET (FieldsOf[objects[s].kind] \ Tags),
           \A f \in FieldsOf[objects[s].kind] \ (fields \cup Tags) : Own(s)[f] = Null,
           Destroy(s, fields)
    PROVE  IInv'
<1>1. objects[s] \in AllObjects
    BY AllFine
<1>2. DOMAIN Own(s) = FieldsOf[objects[s].kind] /\ FieldsOf[objects[s].kind] \subseteq Fields
    BY <1>1, Shape, FieldSets DEF Own
<1>3. fields \in SUBSET (Fields \cap DOMAIN Own(s)) /\ fields \cap Tags = {}
    BY <1>2
<1>4. \A f \in Fields \ (fields \cup Tags) : \A b \in Blocks : ~Owns(s, f, b)
    BY <1>2 DEF Owns
<1>5. \A f \in Fields : \A b \in Blocks : ~Holds(Null, f, b)
    BY DEF Holds
<1> QED BY <1>3, <1>4, <1>5, ReleaseKeeps DEF Destroy

(* A step that changes no field.                                           *)
LEMMA FlagKeeps ==
    ASSUME IInv, Onward, Null \notin AllObjects, NEW s \in Slots, objects[s] # Null,
           NEW x \in AllObjects, Fine(x), x.own = objects[s].own,
           objects' = [objects EXCEPT ![s] = x], heap' = heap
    PROVE  IInv'
<1>1. /\ objects'[s] = x /\ \A t \in Slots \ {s} : objects'[t] = objects[t]
      /\ \A f, b : Owns(s, f, b)' <=> Holds(x, f, b)
      /\ \A t \in Slots \ {s} : \A f, b : Owns(t, f, b)' <=> Owns(t, f, b)
    BY Replaced
<1>2. \A t \in Slots : \A f, b : Owns(t, f, b)' <=> Owns(t, f, b)
    BY <1>1 DEF Holds, Owns, Own
<1>3. ASSUME ~replaced' PROVE Exclusive' /\ InUse' /\ Accounted'
  <2>1. Exclusive /\ InUse /\ Accounted
      BY <1>3 DEF Onward, IInv
  <2>2. Exclusive'
      BY <1>2, <2>1 DEF Exclusive, Tags
  <2>3. InUse'
      BY <1>2, <2>1 DEF InUse, Tags, Tag
  <2>4. Accounted'
      BY <1>2, <2>1 DEF Accounted, Tag
  <2> QED BY <2>2, <2>3, <2>4
<1>4. TypeOK'
    BY DEF IInv, TypeOK, Onward
<1>5. Muxes' /\ Currents'
  <2>1. ASSUME NEW t \in Slots, objects'[t] # Null PROVE Fine(objects'[t])
      BY <1>1, <2>1, AllFine
  <2> QED BY <2>1, StayFine
<1> QED BY <1>3, <1>4, <1>5 DEF IInv

---------------------------------------------------------------------------
(* The handlers.                                                           *)

(* The pointer that points nowhere is no block and no object.              *)
NullApart == MaxBlocks \in Nat /\ Null \notin Blocks /\ Null \notin AllObjects

LEMMA OwnFields ==
    ASSUME IInv, NEW s \in Slots, objects[s] # Null
    PROVE  DOMAIN Own(s) = FieldsOf[objects[s].kind]
BY AllFine, Shape DEF Own

(* A field that is not set yet.                                            *)
LEMMA FillKeeps ==
    ASSUME IInv, Onward, NullApart, NEW s \in Slots, objects[s] # Null,
           objects[s].kind # "guide",
           NEW field \in FieldsOf[objects[s].kind] \ Tags,
           field = "psz_mux" => objects[s].b_vod, Fill(s, field)
    PROVE  IInv'
<1>1. objects[s].p_current = Null
    BY AllFine DEF Fine
<1>2. field \in DOMAIN Own(s)
    BY OwnFields
<1>3. Own(s)[field] = Null /\ Assign(s, field, Text, FALSE)
    BY DEF Fill
<1> QED BY <1>1, <1>2, <1>3, AssignKeeps DEF NullApart

LEMMA WithFlag ==
    ASSUME NEW o \in AllObjects, NEW v
    PROVE  /\ [o EXCEPT !.b_vod = v] =
                  [kind |-> o.kind, own |-> o.own, b_vod |-> v, p_current |-> o.p_current]
           /\ [o EXCEPT !.p_current = v] =
                  [kind |-> o.kind, own |-> o.own, b_vod |-> o.b_vod, p_current |-> v]
<1>1. o \in [kind : {o.kind}, own : {o.own}, b_vod : {o.b_vod}, p_current : {o.p_current}]
    BY Shape
<1> QED BY <1>1

LEMMA SetVodKeeps ==
    ASSUME IInv, Onward, NullApart, NEW s \in Slots, SetVod(s)
    PROVE  IInv'
<1> DEFINE o == objects[s]
           x == [kind |-> o.kind, own |-> o.own, b_vod |-> TRUE, p_current |-> o.p_current]
<1>1. objects[s] # Null /\ objects[s].kind = "media" /\ heap' = heap
    BY DEF SetVod, Is
<1>2. o \in AllObjects /\ Fine(o)
    BY <1>1, AllFine
<1>3. x \in AllObjects
    BY <1>2, Shape, Record
<1>4. [o EXCEPT !.b_vod = TRUE] = x
    BY <1>2, WithFlag
<1>5. objects' = [objects EXCEPT ![s] = x]
    BY <1>4 DEF SetVod
<1>6. Fine(x)
    BY <1>2 DEF Fine
<1> QED BY <1>1, <1>3, <1>5, <1>6, FlagKeeps DEF NullApart

LEMMA SetCurrentKeeps ==
    ASSUME IInv, Onward, NullApart, NEW s \in Slots, NEW i_start, vlc_epg_SetCurrent(s, i_start)
    PROVE  IInv'
<1>0. PICK found \in SUBSET (Events \cap Set(s)) :
              objects' = [objects EXCEPT ![s].p_current =
                 IF i_start < 0 \/ found = {} THEN Null
                 ELSE Own(s)[IF "event1" \in found THEN "event1" ELSE "event2"]]
    BY DEF vlc_epg_SetCurrent
<1> DEFINE first == IF "event1" \in found THEN "event1" ELSE "event2"
           current == IF i_start < 0 \/ found = {} THEN Null ELSE Own(s)[first]
           o == objects[s]
           x == [kind |-> o.kind, own |-> o.own, b_vod |-> o.b_vod, p_current |-> current]
<1>1. /\ o # Null /\ o.kind = "guide" /\ heap' = heap
      /\ objects' = [objects EXCEPT ![s].p_current = current]
    BY <1>0 DEF vlc_epg_SetCurrent, Is
<1>2. o \in AllObjects /\ Fine(o)
    BY <1>1, AllFine
<1>3. DOMAIN Own(s) = GuideFields /\ Own(s) \in [GuideFields -> Blocks \cup {Null}]
    BY <1>1, <1>2, Shape DEF Own, FieldsOf
<1>4. first \in Events /\ first \in GuideFields
    BY DEF Events, GuideFields
<1>5. current = Null \/ current = Own(s)[first]
    OBVIOUS
<1> HIDE DEF first, current
<1>6. current \in Blocks \cup {Null}
    BY <1>3, <1>4, <1>5
<1>7. x \in AllObjects
    BY <1>2, <1>6, Shape, Record
<1>8. [o EXCEPT !.p_current = current] = x
    BY <1>2, WithFlag
<1>9. objects' = [objects EXCEPT ![s] = x]
    BY <1>1, <1>8
<1>10. Fine(x)
    BY <1>1, <1>4, <1>5 DEF Fine, Own
<1> QED BY <1>1, <1>7, <1>9, <1>10, FlagKeeps DEF NullApart

LEMMA UnsetKeeps ==
    ASSUME IInv, Onward, NullApart, NEW s \in Slots, vlc_meta_Set(s, FALSE)
    PROVE  IInv'
<1> DEFINE own == [Own(s) EXCEPT !["ppsz_meta"] = Null]
           x == [objects[s] EXCEPT !.own = own]
<1>1. /\ objects[s] # Null /\ objects[s].kind = "meta"
      /\ objects' = [objects EXCEPT ![s] = x] /\ heap' = Freed({Own(s)["ppsz_meta"]})
    BY DEF vlc_meta_Set, Is, Own
<1>2. objects[s] \in AllObjects /\ Fine(objects[s])
    BY <1>1, AllFine
<1>3. Own(s) \in [MetaFields -> Blocks \cup {Null}] /\ FieldsOf[objects[s].kind] = MetaFields
    BY <1>1, <1>2, Shape DEF Own, FieldsOf
<1>4. "ppsz_meta" \in MetaFields /\ "ppsz_meta" \in Fields /\ "ppsz_meta" \notin Tags
    BY DEF MetaFields, Fields, Tags
<1>5. /\ own \in [FieldsOf[objects[s].kind] -> Blocks \cup {Null}]
      /\ own["ppsz_meta"] = Null
      /\ \A f \in MetaFields \ {"ppsz_meta"} : own[f] = Own(s)[f]
    BY <1>3, <1>4
<1> HIDE DEF own
<1>6. /\ x \in AllObjects /\ x.kind = objects[s].kind /\ x.own = own
      /\ x.b_vod = objects[s].b_vod /\ x.p_current = objects[s].p_current
    BY <1>2, <1>5, WithOwn
<1> HIDE DEF x
<1> DEFINE G == {"ppsz_meta"}
<1>7. Fine(x)
    BY <1>1, <1>2, <1>6 DEF Fine
<1>8. G \in SUBSET (Fields \cap DOMAIN Own(s)) /\ G \cap Tags = {}
    BY <1>3, <1>4
<1>9. \A f \in Fields : \A b \in Blocks : Holds(x, f, b) => f \notin G /\ Owns(s, f, b)
    BY <1>1, <1>3, <1>5, <1>6 DEF Holds, Owns, NullApart
<1>10. \A f \in Fields \ (G \cup Tags) : \A b \in Blocks : Owns(s, f, b) => Holds(x, f, b)
  <2>1. x # Null
      BY <1>6 DEF NullApart
  <2> QED BY <1>3, <1>5, <1>6, <2>1 DEF Holds, Owns
<1>11. heap' = Freed({Own(s)[f] : f \in G})
  <2>1. {Own(s)[f] : f \in G} = {Own(s)["ppsz_meta"]}
      OBVIOUS
  <2> QED BY <1>1, <2>1
<1> HIDE DEF G
<1> QED BY <1>1, <1>6, <1>7, <1>8, <1>9, <1>10, <1>11, ReleaseKeeps DEF NullApart

(* Values of tags go from s to d as well; what d had in their place is lost. *)
LEMMA MergeKeeps ==
    ASSUME IInv, Onward, NullApart, NEW d \in Slots, NEW s \in Slots, vlc_meta_Merge(d, s)
    PROVE  IInv'
<1> DEFINE moved  == Tags \cap Set(s)
           copied == {"ppsz_meta"} \cap Set(s)
           freed  == {Own(d)[f] : f \in copied}
           at     == Placed(Freed(freed), copied)
           mid    == Over(Restrict(Own(s), moved), Own(d))
           own    == Over(at, mid)
           x      == [objects[d] EXCEPT !.own = own]
<1>1. /\ d # s /\ objects[d] # Null /\ objects[d].kind = "meta"
      /\ objects[s] # Null /\ objects[s].kind = "meta"
      /\ Fits(Freed(freed), copied) /\ heap' = Allocated(Freed(freed), at, Text)
    BY DEF vlc_meta_Merge, Is
<1>2. objects' = [objects EXCEPT ![d] = x]
  <2>1. objects' = [objects EXCEPT ![d].own = Over(at, Over(Restrict(Own(s), moved), @))]
      BY DEF vlc_meta_Merge
  <2> QED BY <1>1, <2>1 DEF Own
<1>3. /\ objects[d] \in AllObjects /\ Fine(objects[d])
      /\ objects[s] \in AllObjects
    BY <1>1, AllFine
<1>4. /\ Own(d) \in [MetaFields -> Blocks \cup {Null}]
      /\ Own(s) \in [MetaFields -> Blocks \cup {Null}]
      /\ FieldsOf[objects[d].kind] = MetaFields
    BY <1>1, <1>3, Shape DEF Own, FieldsOf
<1>5. /\ copied \in SUBSET Fields /\ copied \subseteq MetaFields /\ copied \cap Tags = {}
      /\ moved \subseteq MetaFields /\ moved \subseteq Tags
    BY <1>4 DEF Set, MetaFields, Fields, Tags
<1>6. \A b \in Blocks : \A f \in copied : Owns(d, f, b) => b \in freed
    BY DEF Owns
<1>7. ~replaced' =>
         /\ \A t \in Slots \ {d} : \A f \in Fields : \A b \in Blocks :
               Owns(t, f, b) => b \notin freed
         /\ \A f \in Fields \ copied : \A b \in Blocks : Owns(d, f, b) => b \notin freed
  <2>1. copied \in SUBSET (Fields \cap DOMAIN Own(d)) /\ copied \cap Tags = {}
      BY <1>4, <1>5
  <2> HIDE DEF copied
  <2> QED BY <1>1, <2>1, NoOthers DEF NullApart, Onward
<1> HIDE DEF moved, copied
<1>8. New(at, copied, Freed(freed))
    BY <1>1, <1>5, PlacedIsNew DEF NullApart
<1> HIDE DEF at, freed
<1>9. /\ own \in [MetaFields -> Blocks \cup {Null}]
      /\ \A f \in MetaFields : own[f] = IF f \in copied THEN at[f]
                                        ELSE IF f \in moved THEN Own(s)[f] ELSE Own(d)[f]
  <2>1. /\ mid \in [MetaFields -> Blocks \cup {Null}]
        /\ \A f \in MetaFields : mid[f] = IF f \in moved THEN Own(s)[f] ELSE Own(d)[f]
      BY <1>4, <1>5 DEF Over, Restrict
  <2> HIDE DEF mid
  <2>2. at \in [copied -> Blocks \cup {Null}]
      BY <1>8 DEF New
  <2>3. own \in [MetaFields -> Blocks \cup {Null}]
      BY <1>5, <2>1, <2>2 DEF Over
  <2>4. \A f \in MetaFields : own[f] = IF f \in copied THEN at[f] ELSE mid[f]
      BY <1>5, <2>1, <2>2 DEF Over
  <2> QED BY <2>1, <2>3, <2>4
<1> HIDE DEF own
<1>10. /\ x \in AllObjects /\ x.kind = "meta" /\ x.own = own
       /\ x.p_current = objects[d].p_current /\ x # Null
    BY <1>1, <1>3, <1>4, <1>9, WithOwn DEF NullApart
<1> HIDE DEF x
<1>11. ASSUME NEW f \in Fields, NEW b \in Blocks
       PROVE  /\ Holds(x, f, b) <=> f \in MetaFields /\ own[f] = b
              /\ Owns(d, f, b) <=> f \in MetaFields /\ Own(d)[f] = b
              /\ Owns(s, f, b) <=> f \in MetaFields /\ Own(s)[f] = b
    BY <1>1, <1>4, <1>9, <1>10 DEF Owns, Holds
<1>12. \A f \in copied : Holds(x, f, at[f])
    BY <1>5, <1>9, <1>10 DEF Holds
<1>13. ASSUME ~replaced', NEW f \in Fields \ copied, NEW b \in Blocks, Holds(x, f, b)
       PROVE  b \notin freed /\ \E r \in Slots : Owns(r, f, b) /\ (r = d \/ f \in Tags)
  <2>1. CASE f \in moved
    <3>1. Owns(s, f, b) /\ f \in Tags
        BY <1>5, <1>9, <1>11, <1>13, <2>1
    <3> QED BY <1>1, <1>7, <1>13, <3>1
  <2>2. CASE f \notin moved
    <3>1. Owns(d, f, b)
        BY <1>9, <1>11, <1>13, <2>2
    <3> QED BY <1>7, <1>13, <3>1
  <2> QED BY <2>1, <2>2
<1>14. ASSUME NEW f \in Fields \ Tags, NEW b \in Blocks \ freed, Owns(d, f, b)
       PROVE  Holds(x, f, b)
  <2>1. f \notin copied /\ f \notin moved
      BY <1>5, <1>6, <1>14
  <2> QED BY <1>9, <1>11, <1>14, <2>1
<1>15. Fine(x)
    BY <1>1, <1>3, <1>10 DEF Fine
<1>16. \A f \in copied : Holds(x, f, at[f]) /\ (f \in Tags => Text = Tag)
    BY <1>5, <1>12
<1>17. ~replaced' =>
          \A f \in Fields \ copied : \A b \in Blocks : Holds(x, f, b) =>
             b \notin freed /\ \E r \in Slots : Owns(r, f, b) /\ (r = d \/ f \in Tags)
    BY <1>13
<1>18. Becomes(d, x, copied, at, Text, freed)
    BY <1>1, <1>2, <1>5, <1>7, <1>8, <1>10, <1>14, <1>15, <1>16, <1>17 DEF Becomes
<1> QED BY <1>18, OneObject

LEMMA FieldsByKind ==
    /\ DOMAIN FieldsOf = {"title", "attachment", "media", "instance", "guide", "meta"}
    /\ FieldsOf["title"] = TitleFields /\ FieldsOf["attachment"] = AttachmentFields
    /\ FieldsOf["media"] = MediaFields /\ FieldsOf["instance"] = InstanceFields
    /\ FieldsOf["guide"] = GuideFields /\ FieldsOf["meta"] = MetaFields
    /\ Tags \cap (TitleFields \cup AttachmentFields \cup MediaFields \cup InstanceFields
                    \cup GuideFields \cup {"ppsz_meta"}) = {}
    /\ MetaFields = {"ppsz_meta"} \cup Tags
BY DEF FieldsOf, TitleFields, AttachmentFields, MediaFields, InstanceFields, GuideFields,
       Events, MetaFields, Tags

LEMMA TitleKeeps ==
    ASSUME IInv, Onward, NullApart, NEW s \in Slots, NEW d \in Slots,
           \/ vlc_input_title_New(s) \/ vlc_input_title_Delete(s)
           \/ Is(s, "title") /\ \E f \in TitleFields : Fill(s, f)
           \/ vlc_input_title_Duplicate(s, d)
    PROVE  IInv'
<1>1. ASSUME vlc_input_title_New(s) PROVE IInv'
  <2>1. Make(s, "title", FieldsOf["title"], {})
      BY <1>1, FieldsByKind DEF vlc_input_title_New
  <2> QED BY <2>1, FieldsByKind, MakeKeeps DEF NullApart
<1>2. ASSUME vlc_input_title_Delete(s) PROVE IInv'
  <2>1. /\ objects[s] # Null /\ objects[s].kind = "title" /\ Destroy(s, TitleFields)
        /\ FieldsOf[objects[s].kind] = TitleFields /\ TitleFields \cap Tags = {}
      BY <1>2, FieldsByKind DEF vlc_input_title_Delete, Is
  <2> QED BY <2>1, DestroyKeeps DEF NullApart
<1>3. ASSUME Is(s, "title"), NEW f \in TitleFields, Fill(s, f) PROVE IInv'
  <2>1. /\ objects[s] # Null /\ objects[s].kind = "title"
        /\ f \in FieldsOf[objects[s].kind] \ Tags /\ f # "psz_mux"
      BY <1>3, FieldsByKind DEF Is, TitleFields
  <2> QED BY <1>3, <2>1, FillKeeps
<1>4. ASSUME vlc_input_title_Duplicate(s, d) PROVE IInv'
  <2>1. objects[s] # Null /\ objects[s].kind = "title" /\ Copy(s, d, TitleFields)
      BY <1>4 DEF vlc_input_title_Duplicate, Is
  <2>2. TitleFields \cap Tags = {}
      BY FieldsByKind
  <2> QED BY <2>1, <2>2, CopyKeeps DEF NullApart
<1> QED BY <1>1, <1>2, <1>3, <1>4

LEMMA AttachmentKeeps ==
    ASSUME IInv, Onward, NullApart, NEW s \in Slots, NEW d \in Slots,
           \/ \E data \in BOOLEAN : vlc_input_attachment_New(s, data)
           \/ vlc_input_attachment_Delete(s) \/ vlc_input_attachment_Duplicate(s, d)
    PROVE  IInv'
<1>1. ASSUME NEW t \in Slots, NEW data, vlc_input_attachment_New(t, data) PROVE IInv'
  <2> DEFINE given == AttachmentFields \ IF data THEN {} ELSE {"p_data"}
  <2>1. Make(t, "attachment", FieldsOf["attachment"], given)
      BY <1>1, FieldsByKind DEF vlc_input_attachment_New
  <2>2. given \in SUBSET (FieldsOf["attachment"] \ Tags)
      BY FieldsByKind
  <2> HIDE DEF given
  <2> QED BY <2>1, <2>2, FieldsByKind, MakeKeeps DEF NullApart
<1>2. ASSUME vlc_input_attachment_Delete(s) PROVE IInv'
  <2>1. /\ objects[s] # Null /\ objects[s].kind = "attachment" /\ Destroy(s, AttachmentFields)
        /\ FieldsOf[objects[s].kind] = AttachmentFields /\ AttachmentFields \cap Tags = {}
      BY <1>2, FieldsByKind DEF vlc_input_attachment_Delete, Is
  <2> QED BY <2>1, DestroyKeeps DEF NullApart
<1> QED BY <1>1, <1>2 DEF vlc_input_attachment_Duplicate

LEMMA MediaKeeps ==
    ASSUME IInv, Onward, NullApart, NEW s \in Slots, NEW d \in Slots,
           \/ vlm_media_New(s) \/ SetVod(s) \/ vlm_media_Delete(s)
           \/ Is(s, "media") /\ \E f \in VodFields(s) : Fill(s, f)
           \/ vlm_media_Duplicate(s, d)
           \/ vlm_media_instance_New(s) \/ vlm_media_instance_Delete(s)
           \/ Is(s, "instance") /\ Fill(s, "psz_name")
    PROVE  IInv'
<1>1. ASSUME vlm_media_New(s) PROVE IInv'
  <2>1. Make(s, "media", FieldsOf["media"], {})
      BY <1>1, FieldsByKind DEF vlm_media_New
  <2> QED BY <2>1, FieldsByKind, MakeKeeps DEF NullApart
<1>2. ASSUME vlm_media_Delete(s) PROVE IInv'
  <2>1. /\ objects[s] # Null /\ objects[s].kind = "media" /\ Destroy(s, VodFields(s))
        /\ FieldsOf[objects[s].kind] = MediaFields /\ MediaFields \cap Tags = {}
      BY <1>2, FieldsByKind DEF vlm_media_Delete, Is
  <2>2. VodFields(s) \in SUBSET (FieldsOf[objects[s].kind] \ Tags)
      BY <2>1 DEF VodFields
  <2>3. \A f \in FieldsOf[objects[s].kind] \ (VodFields(s) \cup Tags) : Own(s)[f] = Null
      BY <2>1, AllFine DEF VodFields, Fine, Own
  <2> QED BY <2>1, <2>2, <2>3, DestroyKeeps DEF NullApart
<1>3. ASSUME Is(s, "media"), NEW f \in VodFields(s), Fill(s, f) PROVE IInv'
  <2>1. /\ objects[s] # Null /\ objects[s].kind = "media"
        /\ f \in FieldsOf[objects[s].kind] \ Tags /\ (f = "psz_mux" => objects[s].b_vod)
      BY <1>3, FieldsByKind DEF Is, VodFields
  <2> QED BY <1>3, <2>1, FillKeeps
<1>4. ASSUME vlm_media_Duplicate(s, d) PROVE IInv'
  <2>1. /\ objects[s] # Null /\ objects[s].kind = "media" /\ Copy(s, d, VodFields(s))
        /\ VodFields(s) \cap Tags = {} /\ (~objects[s].b_vod => "psz_mux" \notin VodFields(s))
      BY <1>4, FieldsByKind DEF vlm_media_Duplicate, Is, VodFields
  <2> QED BY <2>1, CopyKeeps DEF NullApart
<1>5. ASSUME vlm_media_instance_New(s) PROVE IInv'
  <2>1. Make(s, "instance", FieldsOf["instance"], {})
      BY <1>5, FieldsByKind DEF vlm_media_instance_New
  <2> QED BY <2>1, FieldsByKind, MakeKeeps DEF NullApart
<1>6. ASSUME vlm_media_instance_Delete(s) PROVE IInv'
  <2>1. /\ objects[s] # Null /\ objects[s].kind = "instance" /\ Destroy(s, InstanceFields)
        /\ FieldsOf[objects[s].kind] = InstanceFields /\ InstanceFields \cap Tags = {}
      BY <1>6, FieldsByKind DEF vlm_media_instance_Delete, Is
  <2> QED BY <2>1, DestroyKeeps DEF NullApart
<1>7. ASSUME Is(s, "instance"), Fill(s, "psz_name") PROVE IInv'
  <2>1. /\ objects[s] # Null /\ objects[s].kind = "instance"
        /\ "psz_name" \in FieldsOf[objects[s].kind] \ Tags
      BY <1>7, FieldsByKind DEF Is, InstanceFields
  <2> QED BY <1>7, <2>1, FillKeeps
<1> QED BY <1>1, <1>2, <1>3, <1>4, <1>5, <1>6, <1>7, SetVodKeeps

LEMMA GuideKeeps ==
    ASSUME IInv, Onward, NullApart, NEW s \in Slots,
           \/ \E named \in BOOLEAN : vlc_epg_New(s, named)
           \/ \E i_start \in Starts :
                 vlc_epg_AddEvent(s, i_start) \/ vlc_epg_SetCurrent(s, i_start)
           \/ vlc_epg_Delete(s)
    PROVE  IInv'
<1>1. ASSUME NEW named, vlc_epg_New(s, named) PROVE IInv'
  <2> DEFINE given == IF named THEN {"psz_name"} ELSE {}
  <2>1. Make(s, "guide", FieldsOf["guide"], given)
      BY <1>1, FieldsByKind DEF vlc_epg_New
  <2>2. given \in SUBSET (FieldsOf["guide"] \ Tags)
      BY FieldsByKind DEF GuideFields
  <2> HIDE DEF given
  <2> QED BY <2>1, <2>2, FieldsByKind, MakeKeeps DEF NullApart
<1>2. ASSUME NEW i_start, vlc_epg_AddEvent(s, i_start) PROVE IInv'
  <2>1. PICK f \in Events : Own(s)[f] = Null /\ Assign(s, f, Event(i_start), FALSE)
      BY <1>2 DEF vlc_epg_AddEvent
  <2>2. objects[s] # Null /\ objects[s].kind = "guide"
      BY <1>2 DEF vlc_epg_AddEvent, Is
  <2>3. f \in DOMAIN Own(s) /\ f \notin Tags /\ f # "psz_mux"
      BY <2>2, OwnFields, FieldsByKind DEF GuideFields, Events
  <2> QED BY <2>1, <2>2, <2>3, AssignKeeps DEF NullApart
<1>3. ASSUME vlc_epg_Delete(s) PROVE IInv'
  <2>1. /\ objects[s] # Null /\ objects[s].kind = "guide" /\ Destroy(s, GuideFields)
        /\ FieldsOf[objects[s].kind] = GuideFields /\ GuideFields \cap Tags = {}
      BY <1>3, FieldsByKind DEF vlc_epg_Delete, Is
  <2> QED BY <2>1, DestroyKeeps DEF NullApart
<1> QED BY <1>1, <1>2, <1>3, SetCurrentKeeps

(* A field of meta data gets a new value, and the old one is freed.        *)
LEMMA ReplaceKeeps ==
    ASSUME IInv, Onward, NullApart, NEW s \in Slots, NEW f \in MetaFields, NEW use,
           f \in Tags => use = Tag, f \in Tags /\ ~replaced' => ~Shared(s, f),
           Is(s, "meta"), Assign(s, f, use, TRUE)
    PROVE  IInv'
<1>1. objects[s] # Null /\ objects[s].kind = "meta"
    BY DEF Is
<1>2. f \in DOMAIN Own(s) /\ f # "psz_mux"
    BY <1>1, OwnFields, FieldsByKind DEF MetaFields, Tags
<1>3. objects[s].p_current = Null
    BY <1>1, AllFine DEF Fine
<1> QED BY <1>1, <1>2, <1>3, AssignKeeps DEF NullApart

LEMMA MetaKeeps ==
    ASSUME IInv, Onward, NullApart, NEW s \in Slots, NEW d \in Slots,
           \/ vlc_meta_New(s) \/ vlc_meta_Delete(s)
           \/ \E val \in BOOLEAN : vlc_meta_Set(s, val)
           \/ vlc_meta_Merge(d, s)
    PROVE  IInv'
<1>1. ASSUME vlc_meta_New(s) PROVE IInv'
  <2>1. Make(s, "meta", FieldsOf["meta"], {})
      BY <1>1, FieldsByKind DEF vlc_meta_New
  <2> QED BY <2>1, FieldsByKind, MakeKeeps DEF NullApart
<1>2. ASSUME vlc_meta_Delete(s) PROVE IInv'
  <2>1. objects[s] # Null /\ objects[s].kind = "meta" /\ Destroy(s, MetaFields \ Tags)
      BY <1>2, Zenon DEF vlc_meta_Delete, Is
  <2>2. FieldsOf[objects[s].kind] = MetaFields
      BY <2>1, FieldsByKind, Zenon
  <2>3. MetaFields \ Tags = FieldsOf[objects[s].kind] \ Tags
      BY <2>2
  <2> QED BY <2>1, <2>2, <2>3, DestroyKeeps DEF NullApart
<1>3. ASSUME vlc_meta_Set(s, TRUE) PROVE IInv'
  <2>1. Is(s, "meta") /\ Assign(s, "ppsz_meta", Text, TRUE)
      BY <1>3 DEF vlc_meta_Set
  <2>2. "ppsz_meta" \in MetaFields /\ "ppsz_meta" \notin Tags
      BY FieldsByKind
  <2> QED BY <2>1, <2>2, ReplaceKeeps
<1> QED BY <1>1, <1>2, <1>3, UnsetKeeps, MergeKeeps

(* The value AddExtra frees is no other's, or is noted as replaced.        *)
LEMMA AddExtraKeeps ==
    ASSUME IInv, NullApart, NEW s \in Slots, NEW tag \in Tags, vlc_meta_AddExtra(s, tag)
    PROVE  IInv'
<1>1. replaced \in BOOLEAN /\ Shared(s, tag) \in BOOLEAN
    BY DEF IInv, TypeOK, Shared
<1>2. replaced' = (replaced \/ Shared(s, tag))
    BY DEF vlc_meta_AddExtra
<1>3. Onward /\ (~replaced' => ~Shared(s, tag))
    BY <1>1, <1>2, Zenon DEF Onward
<1>4. Is(s, "meta") /\ Assign(s, tag, Tag, TRUE)
    BY DEF vlc_meta_AddExtra
<1>5. tag \in MetaFields
    BY FieldsByKind
<1> QED BY <1>3, <1>4, <1>5, ReplaceKeeps

LEMMA NextKeeps ==
    ASSUME IInv, NullApart, Next
    PROVE  IInv'
<1>1. PICK s \in Slots : ObjectStep(s) \/ \E tag \in Tags : vlc_meta_AddExtra(s, tag)
    BY DEF Next
<1>2. CASE ObjectStep(s)
  <2>1. Onward
    <3>1. replaced' = replaced /\ replaced \in BOOLEAN
        BY <1>2 DEF ObjectStep, IInv, TypeOK
    <3> QED BY <3>1, Zenon DEF Onward
  <2> QED BY <1>2, <2>1, TitleKeeps, AttachmentKeeps, MediaKeeps, GuideKeeps, MetaKeeps
      DEF ObjectStep
<1>3. CASE \E tag \in Tags : vlc_meta_AddExtra(s, tag)
    BY <1>3, AddExtraKeeps
<1> QED BY <1>1, <1>2, <1>3

---------------------------------------------------------------------------
LEMMA InitFine ==
    ASSUME Init, NullApart
    PROVE  IInv
<1>1. DOMAIN heap = {}
    BY DEF Init
<1> QED BY <1>1 DEF Init, IInv, TypeOK, Exclusive, InUse, Accounted, Muxes, Currents, Owns

(* A set no two elements of which differ has one at most.                  *)
LEMMA AtMostOne ==
    ASSUME NEW S, \A x, y \in S : x = y
    PROVE  Cardinality(S) <= 1
<1>1. CASE S = {}
    BY <1>1, FS_EmptySet
<1>2. CASE S # {}
  <2>1. PICK x \in S : S = {x}
      BY <1>2
  <2>2. Cardinality({x}) = 1
      BY FS_Singleton
  <2> QED BY <2>1, <2>2
<1> QED BY <1>1, <1>2

(* The invariant says what OwnedOnce counts.                               *)
LEMMA OnceIsOnce ==
    ASSUME IInv, NullApart
    PROVE  OwnedOnce
<1>1. ASSUME ~replaced, NEW b \in Blocks
      PROVE  /\ \/ Cardinality(Owners(b)) <= 1
                \/ \E tag \in Tags : \A o \in Owners(b) : o[2] = tag
             /\ Owners(b) # {} => b \in DOMAIN heap
             /\ b \in DOMAIN heap /\ heap[b] # Tag => Owners(b) # {}
  <2>1. Exclusive /\ InUse /\ Accounted
      BY <1>1 DEF IInv
  <2>2. Owners(b) # {} => b \in DOMAIN heap
      BY <2>1 DEF Owners, InUse
  <2>3. ASSUME b \in DOMAIN heap, heap[b] # Tag PROVE Owners(b) # {}
    <3>1. PICK s \in Slots, f \in Fields : Owns(s, f, b)
        BY <2>1, <2>3 DEF Accounted
    <3>2. <<s, f>> \in Owners(b)
        BY <3>1 DEF Owners
    <3> QED BY <3>2
  <2>4. CASE \E o \in Owners(b) : o[2] \in Tags
    <3>1. PICK o \in Owners(b) : o[2] \in Tags
        BY <2>4
    <3>2. \A p \in Owners(b) : p[2] = o[2]
        BY <2>1 DEF Owners, Exclusive
    <3> QED BY <2>2, <2>3, <3>1, <3>2
  <2>5. CASE \A o \in Owners(b) : o[2] \notin Tags
    <3>1. \A x, y \in Owners(b) : x = y
        BY <2>1, <2>5 DEF Owners, Exclusive
    <3> QED BY <2>2, <2>3, <3>1, AtMostOne
  <2> QED BY <2>4, <2>5
<1>2. ~replaced => \A b \in Blocks :
          /\ \/ Cardinality(Owners(b)) <= 1
             \/ \E tag \in Tags : \A o \in Owners(b) : o[2] = tag
          /\ Owners(b) # {} => b \in DOMAIN heap
          /\ b \in DOMAIN heap /\ heap[b] # Tag => Owners(b) # {}
    BY <1>1
<1>3. Currents
    BY DEF IInv
<1> QED BY <1>2, <1>3 DEF OwnedOnce, Currents

(* For any number of objects and of blocks, until AddExtra frees a value   *)
(* that a merge has put into two dictionaries: what an object points to    *)
(* has not been freed and is no other's, except that meta data may hold    *)
(* the value of a tag together, whatever is copied, merged and deleted     *)
(* before.  And always, a guide's current event is one of its own.         *)
THEOREM Ownership ==
    ASSUME NullApart
    PROVE  Spec => []OwnedOnce
<1>1. Init => IInv
    BY InitFine
<1>2. IInv /\ [Next]_vars => IInv'
  <2>1. ASSUME IInv, UNCHANGED vars PROVE IInv'
    <3>1. replaced' = replaced
        BY <2>1 DEF vars
    <3>2. TypeOK' /\ Muxes' /\ Currents'
        BY <2>1 DEF vars, IInv, TypeOK, Muxes, Currents, Own
    <3>3. ASSUME ~replaced PROVE Exclusive' /\ InUse' /\ Accounted'
        BY <2>1, <3>3 DEF vars, IInv, Exclusive, InUse, Accounted, Owns, Own
    <3> QED BY <3>1, <3>2, <3>3 DEF IInv
  <2> QED BY <2>1, NextKeeps
<1>3. IInv => OwnedOnce
    BY OnceIsOnce
<1> QED BY <1>1, <1>2, <1>3, PTL DEF Spec

---------------------------------------------------------------------------
(* The URLs.                                                               *)

(* strchr finds the first of a token.                                      *)
LEMMA StrchrIs ==
    ASSUME NEW s \in Seq(Tokens), NEW t
    PROVE  /\ ~Link!Contains(s, t) => Link!strchr(s, t) = 0
           /\ Link!Contains(s, t) => /\ Link!strchr(s, t) \in 1..Len(s) /\ s[Link!strchr(s, t)] = t
                             /\ \A j \in 1..Len(s) : s[j] = t => Link!strchr(s, t) <= j
<1> DEFINE I == {i \in 1..Len(s) : s[i] = t}
<1>1. Link!strchr(s, t) = IF I # {} THEN CHOOSE x \in I : \A y \in I : x <= y ELSE 0
    BY DEF Link!strchr, Link!SelectInSeq, Link!Min
<1>2. Link!Contains(s, t) <=> I # {}
    BY DEF Link!Contains
<1>3. I \in SUBSET Nat
    OBVIOUS
<1>4. CASE I # {}
  <2> HIDE DEF I
  <2>1. \E x \in I : \A y \in I : x <= y
      BY <1>3, <1>4, Least
  <2>2. Link!strchr(s, t) \in I /\ \A y \in I : Link!strchr(s, t) <= y
      BY <1>1, <1>4, <2>1
  <2> QED BY <1>2, <1>4, <2>2 DEF I
<1> QED BY <1>1, <1>2, <1>4

LEMMA OneToken == ASSUME NEW S, NEW x \in S PROVE <<x>> \in Seq(S)
<1>1. <<x>> \in [1..1 -> S]
    OBVIOUS
<1> QED BY <1>1, Tuple

(* What comes before and behind a concatenation's joint.                   *)
LEMMA BothParts ==
    ASSUME NEW S, NEW a \in Seq(S), NEW b \in Seq(S)
    PROVE  /\ SubSeq(a \o b, 1, Len(a)) = a
           /\ SubSeq(a \o b, Len(a) + 1, Len(a \o b)) = b
<1> DEFINE s == a \o b  x == SubSeq(s, 1, Len(a))  y == SubSeq(s, Len(a) + 1, Len(s))
<1>1. /\ s \in Seq(S) /\ Len(s) = Len(a) + Len(b) /\ Len(a) \in Nat /\ Len(b) \in Nat
      /\ \A i \in 1..Len(a) + Len(b) : s[i] = IF i <= Len(a) THEN a[i] ELSE b[i - Len(a)]
    BY ConcatProperties
<1> HIDE DEF s
<1>2. x \in Seq(S) /\ Len(x) = Len(a) /\ \A i \in 1..Len(a) : x[i] = s[i]
    BY <1>1, SubSeqProperties
<1>3. /\ y \in Seq(S) /\ Len(y) = Len(b)
      /\ \A i \in 1..Len(b) : y[i] = s[Len(a) + i]
    BY <1>1, SubSeqProperties
<1> HIDE DEF x, y
<1>4. x = a
    BY <1>1, <1>2, SeqEqual
<1>5. ASSUME NEW i \in 1..Len(b) PROVE y[i] = b[i]
  <2>1. /\ Len(a) + i \in 1..Len(a) + Len(b) /\ ~(Len(a) + i <= Len(a))
        /\ (Len(a) + i) - Len(a) = i
      BY <1>1
  <2>2. s[Len(a) + i] = b[i]
      BY <1>1, <2>1
  <2> QED BY <1>3, <2>2
<1>6. y = b
    BY <1>3, <1>5, SeqEqual
<1> QED BY <1>4, <1>6 DEF x, y, s

LEMMA HoldsJoined ==
    ASSUME NEW a \in Seq(Tokens), NEW b \in Seq(Tokens), NEW t
    PROVE  Link!Contains(a \o b, t) <=> Link!Contains(a, t) \/ Link!Contains(b, t)
<1> DEFINE s == a \o b
<1>1. /\ s \in Seq(Tokens) /\ Len(s) = Len(a) + Len(b) /\ Len(a) \in Nat /\ Len(b) \in Nat
      /\ \A i \in 1..Len(a) + Len(b) : s[i] = IF i <= Len(a) THEN a[i] ELSE b[i - Len(a)]
    BY ConcatProperties
<1> HIDE DEF s
<1>2. \A i \in 1..Len(a) : i \in 1..Len(s) /\ s[i] = a[i]
    BY <1>1
<1>3. ASSUME NEW i \in 1..Len(b)
      PROVE  i + Len(a) \in 1..Len(s) /\ s[i + Len(a)] = b[i]
  <2>1. /\ i + Len(a) \in 1..Len(a) + Len(b) /\ ~(i + Len(a) <= Len(a))
        /\ (i + Len(a)) - Len(a) = i
      BY <1>1
  <2> QED BY <1>1, <2>1
<1>4. ASSUME NEW i \in 1..Len(s)
      PROVE  \/ i \in 1..Len(a) /\ s[i] = a[i]
             \/ i - Len(a) \in 1..Len(b) /\ s[i] = b[i - Len(a)]
  <2>1. CASE i <= Len(a)
    <3>1. i \in 1..Len(a) /\ i \in 1..Len(a) + Len(b)
        BY <1>1, <2>1
    <3> QED BY <1>1, <2>1, <3>1
  <2>2. CASE ~(i <= Len(a))
    <3>1. i - Len(a) \in 1..Len(b) /\ i \in 1..Len(a) + Len(b)
        BY <1>1, <2>2
    <3> QED BY <1>1, <2>2, <3>1
  <2> QED BY <2>1, <2>2
<1>5. Link!Contains(s, t) <=> Link!Contains(a, t) \/ Link!Contains(b, t)
    BY <1>2, <1>3, <1>4 DEF Link!Contains
<1> QED BY <1>5 DEF s

LEMMA HoldsOne == \A c, t : Link!Contains(<<c>>, t) <=> c = t
BY DEF Link!Contains

LEMMA HoldsNone == \A t : ~Link!Contains(<<>>, t)
BY DEF Link!Contains

(* The place of the joint's token: its first, when none comes before it.   *)
LEMMA Cut ==
    ASSUME NEW a \in Seq(Tokens), NEW c \in Tokens, NEW b \in Seq(Tokens), ~Link!Contains(a, c)
    PROVE  LET s == a \o (<<c>> \o b)
           IN  /\ s \in Seq(Tokens)
               /\ Len(s) = Len(a) + 1 + Len(b)
               /\ \A i \in 1..Len(a) : s[i] = a[i]
               /\ s[Len(a) + 1] = c
               /\ \A i \in 1..Len(b) : s[Len(a) + 1 + i] = b[i]
               /\ Link!strchr(s, c) = Len(a) + 1
               /\ Link!Before(s, Len(a) + 1) = a
               /\ Link!After(s, Len(a) + 1) = b
               /\ Link!After(s, Len(a)) = <<c>> \o b
<1> DEFINE d == <<c>> \o b  s == a \o d  e == a \o <<c>>
<1>0. Len(a) \in Nat /\ Len(b) \in Nat /\ <<c>> \in Seq(Tokens) /\ Len(<<c>>) = 1 /\ <<c>>[1] = c
  <2>1. Len(a) \in Nat /\ Len(b) \in Nat
      OBVIOUS
  <2>2. <<c>> \in Seq(Tokens)
      BY OneToken
  <2>3. Len(<<c>>) = 1 /\ <<c>>[1] = c
      OBVIOUS
  <2> QED BY <2>1, <2>2, <2>3
<1>1. /\ d \in Seq(Tokens) /\ Len(d) = 1 + Len(b) /\ d[1] = c
      /\ \A i \in 1..Len(b) : d[1 + i] = b[i]
  <2>1. /\ d \in Seq(Tokens) /\ Len(d) = Len(<<c>>) + Len(b)
        /\ \A i \in 1..Len(<<c>>) + Len(b) :
              d[i] = IF i <= Len(<<c>>) THEN <<c>>[i] ELSE b[i - Len(<<c>>)]
      BY <1>0, ConcatProperties
  <2>2. 1 \in 1..Len(<<c>>) + Len(b) /\ 1 <= Len(<<c>>)
      BY <1>0
  <2>3. ASSUME NEW i \in 1..Len(b) PROVE d[1 + i] = b[i]
    <3>1. /\ 1 + i \in 1..Len(<<c>>) + Len(b) /\ ~(1 + i <= Len(<<c>>))
          /\ (1 + i) - Len(<<c>>) = i
        BY <1>0
    <3> HIDE DEF d
    <3> QED BY <2>1, <3>1
  <2> HIDE DEF d
  <2>4. d[1] = c
      BY <1>0, <2>1, <2>2
  <2>5. Len(d) = 1 + Len(b)
      BY <1>0, <2>1
  <2> QED BY <2>1, <2>3, <2>4, <2>5
<1>2. SubSeq(s, 1, Len(a)) = a /\ SubSeq(s, Len(a) + 1, Len(s)) = d
  <2> HIDE DEF d
  <2> QED BY <1>1, BothParts
<1>3. /\ s \in Seq(Tokens) /\ Len(s) = Len(a) + Len(d)
      /\ \A i \in 1..Len(a) + Len(d) : s[i] = IF i <= Len(a) THEN a[i] ELSE d[i - Len(a)]
  <2>1. d \in Seq(Tokens)
      BY <1>1
  <2> HIDE DEF d
  <2> QED BY <2>1, ConcatProperties
<1>4. s = e \o b
    BY <1>0, ConcatAssociative
<1>5. e \in Seq(Tokens) /\ Len(e) = Len(a) + 1
  <2>1. e \in Seq(Tokens) /\ Len(e) = Len(a) + Len(<<c>>)
      BY <1>0, ConcatProperties
  <2> HIDE DEF e
  <2> QED BY <1>0, <2>1
<1>6. SubSeq(s, Len(a) + 2, Len(s)) = b
  <2>1. SubSeq(s, Len(e) + 1, Len(s)) = b
    <3> HIDE DEF e
    <3> QED BY <1>4, <1>5, BothParts
  <2>2. Len(e) + 1 = Len(a) + 2
    <3> HIDE DEF e
    <3> QED BY <1>0, <1>5
  <2> QED BY <2>1, <2>2
<1> HIDE DEF d, s, e
<1>7. /\ Len(s) = Len(a) + 1 + Len(b) /\ s[Len(a) + 1] = c
      /\ \A i \in 1..Len(a) : s[i] = a[i]
      /\ \A i \in 1..Len(b) : s[Len(a) + 1 + i] = b[i]
  <2>1. Len(s) = Len(a) + 1 + Len(b)
      BY <1>0, <1>1, <1>3
  <2>2. ASSUME NEW i \in 1..Len(a) PROVE s[i] = a[i]
    <3>1. i \in 1..Len(a) + Len(d) /\ i <= Len(a)
        BY <1>0, <1>1
    <3> QED BY <1>3, <3>1
  <2>3. ASSUME NEW i \in 1..Len(d) PROVE s[Len(a) + i] = d[i]
    <3>1. /\ Len(a) + i \in 1..Len(a) + Len(d) /\ ~(Len(a) + i <= Len(a))
          /\ (Len(a) + i) - Len(a) = i
        BY <1>0, <1>1
    <3> QED BY <1>3, <3>1
  <2>4. s[Len(a) + 1] = c
    <3>1. 1 \in 1..Len(d)
        BY <1>0, <1>1
    <3> QED BY <1>1, <2>3, <3>1
  <2>5. ASSUME NEW i \in 1..Len(b) PROVE s[Len(a) + 1 + i] = b[i]
    <3>1. 1 + i \in 1..Len(d) /\ Len(a) + 1 + i = Len(a) + (1 + i)
        BY <1>0, <1>1
    <3> QED BY <1>1, <2>3, <3>1
  <2> QED BY <2>1, <2>2, <2>4, <2>5
<1>8. Link!strchr(s, c) = Len(a) + 1
  <2>1. Len(a) + 1 \in 1..Len(s)
      BY <1>0, <1>7
  <2>2. Link!Contains(s, c)
      BY <1>7, <2>1 DEF Link!Contains
  <2>3. /\ Link!strchr(s, c) \in 1..Len(s) /\ s[Link!strchr(s, c)] = c
        /\ Link!strchr(s, c) <= Len(a) + 1
      BY <1>3, <1>7, <2>1, <2>2, StrchrIs
  <2> DEFINE p == Link!strchr(s, c)
  <2>4. p \notin 1..Len(a)
      BY <1>7, <2>3 DEF Link!Contains
  <2>5. p \in Int /\ 1 <= p /\ p <= Len(a) + 1
    <3>1. Len(s) \in Nat
        BY <1>0, <1>7
    <3>2. p \in 1..Len(s) /\ p <= Len(a) + 1
        BY <2>3
    <3> HIDE DEF p
    <3> QED BY <1>0, <3>1, <3>2
  <2> HIDE DEF p
  <2>6. p = Len(a) + 1
      BY <1>0, <2>4, <2>5
  <2> QED BY <2>6 DEF p
<1>9. /\ Link!Before(s, Len(a) + 1) = a /\ Link!After(s, Len(a) + 1) = b
      /\ Link!After(s, Len(a)) = d
  <2>1. (Len(a) + 1) - 1 = Len(a) /\ (Len(a) + 1) + 1 = Len(a) + 2
      BY <1>0
  <2> QED BY <1>2, <1>6, <2>1 DEF Link!Before, Link!After
<1> QED BY <1>3, <1>7, <1>8, <1>9 DEF s, d

(* Escaping takes a name's separators away, but for slashes; decoding      *)
(* brings them back.                                                       *)
LEMMA EscapedBack ==
    ASSUME NEW w \in Seq(Tokens), \A i \in 1..Len(w) : w[i] \notin DOMAIN Link!Escaped
    PROVE  /\ Link!Escape(w) \in Seq(Tokens)
           /\ ~Link!Contains(Link!Escape(w), "@") /\ ~Link!Contains(Link!Escape(w), ":")
           /\ ~Link!Contains(w, "/") => ~Link!Contains(Link!Escape(w), "/")
           /\ Link!decode_URI(Link!Escape(w)) = w
<1> DEFINE E == Link!Escaped
           Code(x) == IF \E e \in DOMAIN E : E[e] = x
                      THEN CHOOSE e \in DOMAIN E : E[e] = x ELSE x
           v == Link!Escape(w)
<1>1. /\ DOMAIN E = {"%40", "%3A"} /\ E["%40"] = "@" /\ E["%3A"] = ":"
      /\ DOMAIN E \subseteq Tokens
    BY UrlAssumption DEF Link!Escaped
<1>2. v = [i \in DOMAIN w |-> Code(w[i])]
    BY DEF Link!Escape
<1> HIDE DEF E, v
<1>3. /\ Code("@") = "%40" /\ Code(":") = "%3A"
      /\ \A x : x # "@" /\ x # ":" => Code(x) = x
    BY <1>1
<1> HIDE DEF Code
<1>4. Len(w) \in Nat /\ DOMAIN w = 1..Len(w) /\ \A i \in 1..Len(w) : w[i] \in Tokens
    OBVIOUS
<1>5. ASSUME NEW i \in 1..Len(w)
      PROVE  /\ Code(w[i]) \in Tokens /\ Code(w[i]) # "@" /\ Code(w[i]) # ":"
             /\ w[i] # "/" => Code(w[i]) # "/"
             /\ (IF Code(w[i]) \in DOMAIN E THEN E[Code(w[i])] ELSE Code(w[i])) = w[i]
  <2>1. CASE w[i] = "@"
    <3>1. Code(w[i]) = "%40"
        BY <1>3, <2>1
    <3>2. Code(w[i]) \in DOMAIN E /\ E[Code(w[i])] = w[i]
        BY <1>1, <2>1, <3>1
    <3> QED BY <1>1, <2>1, <3>1, <3>2
  <2>2. CASE w[i] = ":"
    <3>1. Code(w[i]) = "%3A"
        BY <1>3, <2>2
    <3>2. Code(w[i]) \in DOMAIN E /\ E[Code(w[i])] = w[i]
        BY <1>1, <2>2, <3>1
    <3> QED BY <1>1, <2>2, <3>1, <3>2
  <2>3. CASE w[i] # "@" /\ w[i] # ":"
    <3>1. w[i] \in Tokens /\ w[i] \notin DOMAIN E /\ Code(w[i]) = w[i]
        BY <1>3, <1>4, <2>3 DEF E
    <3> QED BY <2>3, <3>1
  <2> QED BY <2>1, <2>2, <2>3
<1>6. v \in [1..Len(w) -> Tokens] /\ \A i \in 1..Len(w) : v[i] = Code(w[i])
    BY <1>2, <1>4, <1>5
<1>7. v \in Seq(Tokens) /\ Len(v) = Len(w) /\ DOMAIN v = DOMAIN w
    BY <1>4, <1>6, Tuple
<1>8. ~Link!Contains(v, "@") /\ ~Link!Contains(v, ":")
    BY <1>5, <1>6, <1>7 DEF Link!Contains
<1>9. ~Link!Contains(w, "/") => ~Link!Contains(v, "/")
    BY <1>5, <1>6, <1>7 DEF Link!Contains
<1>10. Link!decode_URI(v) = w
  <2>1. Link!decode_URI(v)
          = [i \in DOMAIN v |-> IF v[i] \in DOMAIN E THEN E[v[i]] ELSE v[i]]
      BY DEF Link!decode_URI, E
  <2>2. \A i \in DOMAIN v : (IF v[i] \in DOMAIN E THEN E[v[i]] ELSE v[i]) = w[i]
      BY <1>4, <1>5, <1>6, <1>7
  <2>3. Link!decode_URI(v) = [i \in DOMAIN w |-> w[i]]
      BY <1>7, <2>1, <2>2
  <2>4. w = [i \in DOMAIN w |-> w[i]]
      BY <1>4
  <2> QED BY <2>3, <2>4
<1> QED BY <1>7, <1>8, <1>9, <1>10 DEF v

LEMMA Characters ==
    ASSUME NEW c \in Link!Separators PROVE c \in Tokens
BY UrlAssumption

(* The protocol step, when a protocol is given and when none is.           *)
LEMMA ProtocolCut ==
    ASSUME NEW pr \in Protocols, NEW t \in Seq(Tokens)
    PROVE  Link!Protocol((pr \o <<":", "/", "/">>) \o t)
             = [rest |-> t, url |-> [Link!Empty EXCEPT !.psz_protocol = pr]]
<1> DEFINE m == <<":", "/", "/">>  a == pr \o m  s == a \o t  L == Len(pr)
           places == {i \in 1..Len(s) - 1 : s[i] = ":" /\ s[i + 1] = "/"}
<1>1. /\ pr \in Seq(Tokens) /\ L \in Nat
      /\ \A i \in 1..L : pr[i] \notin Link!Separators \cup DOMAIN Link!Escaped
    BY UrlAssumption
<1>2. m \in Seq(Tokens) /\ Len(m) = 3 /\ m[1] = ":" /\ m[2] = "/" /\ m[3] = "/"
  <2>1. ":" \in Tokens /\ "/" \in Tokens
      BY Characters DEF Link!Separators
  <2>2. m \in [1..3 -> Tokens]
      BY <2>1
  <2>3. m \in Seq(Tokens)
      BY <2>2, Tuple
  <2> QED BY <2>3
<1> HIDE DEF m
<1>3. /\ a \in Seq(Tokens) /\ Len(a) = L + 3
      /\ \A i \in 1..L + 3 : a[i] = IF i <= L THEN pr[i] ELSE m[i - L]
  <2>1. /\ a \in Seq(Tokens) /\ Len(a) = Len(pr) + Len(m)
        /\ \A i \in 1..Len(pr) + Len(m) :
              a[i] = IF i <= Len(pr) THEN pr[i] ELSE m[i - Len(pr)]
      BY <1>1, <1>2, ConcatProperties
  <2> HIDE DEF a
  <2> QED BY <1>2, <2>1
<1>4. SubSeq(a, 1, L) = pr
    BY <1>1, <1>2, BothParts
<1> HIDE DEF a
<1>5. /\ s \in Seq(Tokens) /\ Len(s) = Len(a) + Len(t) /\ Len(t) \in Nat
      /\ \A i \in 1..Len(a) + Len(t) : s[i] = IF i <= Len(a) THEN a[i] ELSE t[i - Len(a)]
  <2>1. Len(t) \in Nat /\ a \in Seq(Tokens)
      BY <1>3
  <2>2. /\ s \in Seq(Tokens) /\ Len(s) = Len(a) + Len(t)
        /\ \A i \in 1..Len(a) + Len(t) : s[i] = IF i <= Len(a) THEN a[i] ELSE t[i - Len(a)]
      BY <2>1, ConcatProperties
  <2> QED BY <2>1, <2>2
<1>6. SubSeq(s, 1, Len(a)) = a /\ SubSeq(s, Len(a) + 1, Len(s)) = t
    BY <1>3, BothParts
<1> HIDE DEF s, L
<1>7. /\ Len(s) = L + 3 + Len(t) /\ s[L + 1] = ":" /\ s[L + 2] = "/" /\ s[L + 3] = "/"
      /\ \A i \in 1..L : s[i] = pr[i]
  <2>1. ASSUME NEW i \in 1..L + 3 PROVE s[i] = a[i]
      BY <1>1, <1>3, <1>5
  <2>2. ASSUME NEW i \in 1..L PROVE s[i] = pr[i]
    <3>1. i \in 1..L + 3 /\ i <= L
        BY <1>1
    <3> QED BY <1>3, <2>1, <3>1
  <2>3. ASSUME NEW i \in 1..3 PROVE s[L + i] = m[i]
    <3>1. L + i \in 1..L + 3 /\ ~(L + i <= L) /\ (L + i) - L = i
        BY <1>1
    <3> QED BY <1>3, <2>1, <3>1
  <2> QED BY <1>2, <1>3, <1>5, <2>2, <2>3
<1>8. L + 1 \in places /\ \A i \in places : L + 1 <= i
  <2>1. L + 1 \in 1..Len(s) - 1 /\ (L + 1) + 1 = L + 2
      BY <1>1, <1>5, <1>7
  <2>2. ASSUME NEW i \in places, ~(L + 1 <= i) PROVE FALSE
    <3>1. i \in 1..L /\ s[i] = ":"
        BY <1>1, <1>5, <1>7, <2>2
    <3> QED BY <1>1, <1>7, <3>1 DEF Link!Separators
  <2> QED BY <1>7, <2>1, <2>2
<1>9. Link!Min(places) = L + 1 /\ places # {}
  <2>1. \A i \in places : i \in Int
      OBVIOUS
  <2> HIDE DEF places
  <2> QED BY <1>1, <1>8, <2>1 DEF Link!Min
<1>10. /\ L + 1 # 0 /\ (L + 1) - 1 = L /\ Len(s) > (L + 1) + 1 /\ (L + 1) + 2 = L + 3
       /\ s[(L + 1) + 2] = "/"
       /\ ~ \E i \in 1..L : s[i] \in Link!Separators \cup DOMAIN Link!Escaped
  <2>1. L + 1 # 0 /\ (L + 1) - 1 = L /\ (L + 1) + 2 = L + 3
      BY <1>1
  <2>2. Len(s) > (L + 1) + 1
      BY <1>1, <1>5, <1>7
  <2>3. ~ \E i \in 1..L : s[i] \in Link!Separators \cup DOMAIN Link!Escaped
      BY <1>1, <1>7
  <2> QED BY <1>7, <2>1, <2>2, <2>3
<1>11. Link!Before(s, L + 1) = pr
  <2>1. SubSeq(s, 1, L) = SubSeq(a, 1, L)
    <3>1. SubSeq(s, 1, L) \in Seq(Tokens) /\ Len(SubSeq(s, 1, L)) = L
          /\ \A i \in 1..L : SubSeq(s, 1, L)[i] = s[i]
        BY <1>1, <1>5, <1>7, SubSeqProperties
    <3>2. SubSeq(s, 1, L) = pr
        BY <1>1, <1>7, <3>1, SeqEqual DEF L
    <3> QED BY <1>4, <3>2
  <2> QED BY <1>4, <1>10, <2>1 DEF Link!Before
<1>12. Link!After(s, (L + 1) + 2) = t
    BY <1>3, <1>6, <1>10 DEF Link!After
<1>13. Link!Protocol(s) = [rest |-> Link!After(s, (L + 1) + 2),
                           url |-> [Link!Empty EXCEPT !.psz_protocol = Link!Before(s, L + 1)]]
  <2> DEFINE p == IF places = {} THEN 0 ELSE Link!Min(places)
             slash == Len(s) > p + 1 /\ s[p + 2] = "/"
  <2>1. Link!Protocol(s)
          = IF p = 0 \/ \E i \in 1..p - 1 : s[i] \in Link!Separators \cup DOMAIN Link!Escaped
            THEN [rest |-> s, url |-> Link!Empty]
            ELSE [rest |-> Link!After(s, IF slash THEN p + 2 ELSE p),
                  url  |-> [Link!Empty EXCEPT !.psz_protocol = Link!Before(s, p)]]
      BY DEF Link!Protocol
  <2>2. p = L + 1
      BY <1>9
  <2> HIDE DEF p, places
  <2> QED BY <1>10, <2>1, <2>2
<1> QED BY <1>11, <1>12, <1>13 DEF s, a, m

LEMMA NoProtocol ==
    ASSUME NEW h \in Seq(Tokens), ~Link!Contains(h, "/"), h # <<>> => h[Len(h)] # ":",
           NEW r \in Seq(Tokens), r # <<>> => r[1] = "/"
    PROVE  Link!Protocol(h \o r) = [rest |-> h \o r, url |-> Link!Empty]
<1> DEFINE s == h \o r
           places == {i \in 1..Len(s) - 1 : s[i] = ":" /\ s[i + 1] = "/"}
           p == IF places = {} THEN 0 ELSE Link!Min(places)
<1>1. Len(h) \in Nat /\ Len(r) \in Nat /\ (Len(h) = 0 <=> h = <<>>) /\ (Len(r) = 0 <=> r = <<>>)
    BY EmptySeq
<1>2. /\ s \in Seq(Tokens) /\ Len(s) = Len(h) + Len(r)
      /\ \A i \in 1..Len(h) + Len(r) : s[i] = IF i <= Len(h) THEN h[i] ELSE r[i - Len(h)]
    BY ConcatProperties
<1> HIDE DEF s
<1>3. ASSUME NEW i \in places
      PROVE  i \in Nat /\ \E j \in 1..i - 1 : s[j] = "/"
  <2>1. /\ i \in 1..Len(s) - 1 /\ s[i] = ":" /\ s[i + 1] = "/"
        /\ i \in 1..Len(h) + Len(r) /\ i + 1 \in 1..Len(h) + Len(r)
      BY <1>1, <1>2
  <2>2. ~(i + 1 <= Len(h))
    <3>1. SUFFICES ASSUME i + 1 <= Len(h) PROVE FALSE
        OBVIOUS
    <3>2. h[i + 1] = "/" /\ i + 1 \in 1..Len(h)
        BY <1>1, <1>2, <2>1, <3>1
    <3> QED BY <3>2 DEF Link!Contains
  <2>3. i # Len(h)
    <3>1. SUFFICES ASSUME i = Len(h) PROVE FALSE
        OBVIOUS
    <3>2. h[Len(h)] = ":" /\ Len(h) # 0
        BY <1>1, <1>2, <2>1, <3>1
    <3> QED BY <1>1, <3>2
  <2>4. Len(h) + 1 \in 1..i /\ Len(h) + 1 \in 1..Len(h) + Len(r) /\ Len(r) # 0
      BY <1>1, <2>1, <2>2, <2>3
  <2>5. s[Len(h) + 1] = "/"
    <3>1. ~(Len(h) + 1 <= Len(h)) /\ (Len(h) + 1) - Len(h) = 1
        BY <1>1
    <3>2. s[Len(h) + 1] = r[1]
        BY <1>2, <2>4, <3>1
    <3> QED BY <1>1, <2>4, <3>2
  <2>6. Len(h) + 1 \in 1..i - 1 /\ i \in Nat
    <3>1. Len(h) + 1 # i
        BY <2>1, <2>5
    <3> QED BY <1>1, <2>1, <2>4, <3>1
  <2> QED BY <2>5, <2>6
<1> HIDE DEF places
<1>4. p = 0 \/ \E j \in 1..p - 1 : s[j] = "/"
  <2>1. CASE places = {}
      BY <2>1
  <2>2. CASE places # {}
    <3>1. places \in SUBSET Nat
        BY <1>3
    <3>2. \E x \in places : \A y \in places : x <= y
        BY <2>2, <3>1, Least
    <3>3. Link!Min(places) \in places
        BY <3>2 DEF Link!Min
    <3> QED BY <1>3, <2>2, <3>3
  <2> QED BY <2>1, <2>2
<1>5. Link!Protocol(s)
        = IF p = 0 \/ \E i \in 1..p - 1 : s[i] \in Link!Separators \cup DOMAIN Link!Escaped
          THEN [rest |-> s, url |-> Link!Empty]
          ELSE [rest |-> Link!After(s, IF Len(s) > p + 1 /\ s[p + 2] = "/" THEN p + 2 ELSE p),
                url  |-> [Link!Empty EXCEPT !.psz_protocol = Link!Before(s, p)]]
    BY DEF Link!Protocol, places
<1> HIDE DEF p
<1>6. p = 0 \/ \E i \in 1..p - 1 : s[i] \in Link!Separators \cup DOMAIN Link!Escaped
    BY <1>4 DEF Link!Separators
<1> QED BY <1>5, <1>6 DEF s

(* The login step, when a name is given and when none is.                  *)
LEMMA LoginCut ==
    ASSUME NEW us \in Words, NEW pw \in {NoPart} \cup Words, NEW t \in Seq(Tokens), NEW f,
           f.rest = (Link!Escape(us)
                       \o Link!Unless(pw, NoPart, <<":">> \o Link!Escape(pw)) \o <<"@">>) \o t
    PROVE  Link!Login(f)
             = [rest |-> t,
                url  |-> [f.url EXCEPT !.psz_username = us, !.psz_password = pw]]
<1> DEFINE x == Link!Escape(us)  y == Link!Escape(pw)
           c == Link!Unless(pw, NoPart, <<":">> \o y)  a == x \o c  s == f.rest
           Filled(n, q) == [f.url EXCEPT !.psz_username = n, !.psz_password = q]
<1>1. /\ us \in Seq(Tokens) /\ \A i \in 1..Len(us) : us[i] \notin {"/"} \cup DOMAIN Link!Escaped
      /\ pw # NoPart => /\ pw \in Seq(Tokens)
                        /\ \A i \in 1..Len(pw) : pw[i] \notin {"/"} \cup DOMAIN Link!Escaped
      /\ ":" \in Tokens /\ "@" \in Tokens
    BY UrlAssumption, Characters DEF Link!Separators
<1>2. /\ x \in Seq(Tokens) /\ ~Link!Contains(x, "@") /\ ~Link!Contains(x, ":") /\ ~Link!Contains(x, "/")
      /\ Link!decode_URI(x) = us
  <2>1. ~Link!Contains(us, "/") /\ \A i \in 1..Len(us) : us[i] \notin DOMAIN Link!Escaped
      BY <1>1 DEF Link!Contains
  <2> QED BY <1>1, <2>1, EscapedBack
<1>3. ASSUME pw # NoPart
      PROVE  /\ y \in Seq(Tokens) /\ ~Link!Contains(y, "@") /\ ~Link!Contains(y, ":") /\ ~Link!Contains(y, "/")
             /\ Link!decode_URI(y) = pw
  <2>1. ~Link!Contains(pw, "/") /\ \A i \in 1..Len(pw) : pw[i] \notin DOMAIN Link!Escaped
      BY <1>1, <1>3 DEF Link!Contains
  <2> QED BY <1>1, <1>3, <2>1, EscapedBack
<1> HIDE DEF x, y, s
<1>4. c \in Seq(Tokens) /\ ~Link!Contains(c, "@") /\ ~Link!Contains(c, "/")
  <2>1. CASE pw = NoPart
    <3>1. c = <<>>
        BY <2>1 DEF Link!Unless
    <3>2. c \in Seq(Tokens)
        BY <3>1
    <3> HIDE DEF c
    <3> QED BY <3>1, <3>2, HoldsNone
  <2>2. CASE pw # NoPart
    <3>1. c = <<":">> \o y
        BY <2>2 DEF Link!Unless
    <3>2. <<":">> \in Seq(Tokens) /\ y \in Seq(Tokens)
        BY <1>1, <1>3, <2>2, OneToken
    <3>3. /\ <<":">> \o y \in Seq(Tokens)
          /\ ~Link!Contains(<<":">> \o y, "@") /\ ~Link!Contains(<<":">> \o y, "/")
      <4>1. ~Link!Contains(<<":">>, "@") /\ ~Link!Contains(<<":">>, "/")
          BY HoldsOne
      <4> QED BY <1>3, <2>2, <3>2, <4>1, HoldsJoined, ConcatProperties
    <3> HIDE DEF c
    <3> QED BY <3>1, <3>3
  <2> QED BY <2>1, <2>2
<1>5. a \in Seq(Tokens) /\ ~Link!Contains(a, "@") /\ ~Link!Contains(a, "/")
  <2> HIDE DEF c
  <2> QED BY <1>2, <1>4, HoldsJoined, ConcatProperties
<1>6. s = a \o (<<"@">> \o t)
  <2>1. s = (a \o <<"@">>) \o t
      BY DEF s, x, y
  <2> HIDE DEF a
  <2> QED BY <1>1, <1>5, <2>1, OneToken, ConcatAssociative
<1> DEFINE p == Len(a) + 1
<1>7. /\ s \in Seq(Tokens) /\ Len(s) = Len(a) + 1 + Len(t)
      /\ \A i \in 1..Len(a) : s[i] = a[i]
      /\ s[p] = "@" /\ Link!strchr(s, "@") = p
      /\ Link!Before(s, p) = a /\ Link!After(s, p) = t
  <2> HIDE DEF a
  <2> DEFINE z == a \o (<<"@">> \o t)
  <2>1. a \in Seq(Tokens) /\ ~Link!Contains(a, "@") /\ "@" \in Tokens
      BY <1>1, <1>5
  <2>2. /\ z \in Seq(Tokens) /\ Len(z) = Len(a) + 1 + Len(t)
        /\ \A i \in 1..Len(a) : z[i] = a[i]
        /\ z[Len(a) + 1] = "@" /\ Link!strchr(z, "@") = Len(a) + 1
        /\ Link!Before(z, Len(a) + 1) = a /\ Link!After(z, Len(a) + 1) = t
      BY <2>1, Cut
  <2> HIDE DEF z
  <2>3. s = z
      BY <1>6 DEF z
  <2> QED BY <2>2, <2>3
<1>8. Link!HasLogin(s)
  <2> HIDE DEF a
  <2>1. Len(a) \in Nat
      BY <1>5
  <2>2. ASSUME Link!strchr(s, "/") # 0 PROVE p < Link!strchr(s, "/")
    <3> DEFINE q == Link!strchr(s, "/")
    <3>1. q \in 1..Len(s) /\ s[q] = "/"
        BY <1>7, <2>2, StrchrIs
    <3>2. q # p
        BY <1>7, <3>1
    <3>3. q \notin 1..Len(a)
        BY <1>5, <1>7, <3>1 DEF Link!Contains
    <3>4. Len(s) \in Nat
        BY <1>7
    <3> HIDE DEF q
    <3>5. p < q
        BY <2>1, <3>1, <3>2, <3>3, <3>4
    <3> QED BY <3>5 DEF q
  <2>3. p # 0
      BY <2>1
  <2> HIDE DEF p
  <2> QED BY <1>7, <2>2, <2>3 DEF Link!HasLogin
<1> DEFINE colon == Link!strchr(a, ":")
           n == IF colon = 0 THEN a ELSE Link!Before(a, colon)
           q == IF colon = 0 THEN NoPart ELSE Link!decode_URI(Link!After(a, colon))
<1>9. n = x /\ q = pw
  <2>1. CASE pw = NoPart
    <3>1. c = <<>>
        BY <2>1 DEF Link!Unless
    <3>2. a = x
      <4> HIDE DEF c
      <4> QED BY <1>2, <3>1, ConcatEmptySeq
    <3> HIDE DEF a
    <3>3. colon = 0
        BY <1>2, <3>2, StrchrIs
    <3> QED BY <2>1, <3>2, <3>3
  <2>2. CASE pw # NoPart
    <3> DEFINE z == x \o (<<":">> \o y)
    <3>1. a = z
        BY <2>2 DEF Link!Unless
    <3>2. /\ Link!strchr(z, ":") = Len(x) + 1 /\ Link!Before(z, Len(x) + 1) = x
          /\ Link!After(z, Len(x) + 1) = y
      <4>1. x \in Seq(Tokens) /\ ~Link!Contains(x, ":") /\ ":" \in Tokens /\ y \in Seq(Tokens)
          BY <1>1, <1>2, <1>3, <2>2
      <4> QED BY <4>1, Cut
    <3> HIDE DEF a, z
    <3>3. Len(x) + 1 # 0
        BY <1>2
    <3>4. /\ colon = Len(x) + 1 /\ Link!Before(a, Len(x) + 1) = x
          /\ Link!After(a, Len(x) + 1) = y
        BY <3>1, <3>2
    <3> HIDE DEF colon
    <3> QED BY <1>3, <2>2, <3>3, <3>4
  <2> QED BY <2>1, <2>2
<1>10. Link!Login(f) = [rest |-> Link!After(s, p), url |-> Filled(Link!decode_URI(n), q)]
  <2> HIDE DEF a, p
  <2>1. Link!Login(f)
          = [rest |-> Link!After(s, p),
             url  |-> [f.url EXCEPT !.psz_username = Link!decode_URI(n), !.psz_password = q]]
      BY <1>7, <1>8 DEF Link!Login, s
  <2> QED BY <2>1
<1> HIDE DEF n, q, p, a
<1>11. Link!Login(f) = [rest |-> t, url |-> Filled(us, pw)]
  <2> HIDE DEF Filled
  <2> QED BY <1>2, <1>7, <1>9, <1>10
<1> QED BY <1>11

(* The separator between a host and what follows it is not a name's.       *)
LEMMA JointIs ==
    ASSUME NEW h \in Seq(Tokens), ~Link!Contains(h, "/"),
           NEW r \in Seq(Tokens), r # <<>> => r[1] = "/"
    PROVE  /\ h \o r \in Seq(Tokens)
           /\ r = <<>> => Link!strchr(h \o r, "/") = 0 /\ h \o r = h
           /\ r # <<>> => /\ Link!strchr(h \o r, "/") = Len(h) + 1
                          /\ Link!Before(h \o r, Len(h) + 1) = h
                          /\ Link!After(h \o r, Len(h)) = r
<1>1. h \o r \in Seq(Tokens)
    BY ConcatProperties
<1>2. CASE r = <<>>
  <2>1. h \o r = h
      BY <1>2, ConcatEmptySeq
  <2>2. Link!strchr(h, "/") = 0
      BY StrchrIs
  <2> QED BY <1>1, <1>2, <2>1, <2>2
<1>3. CASE r # <<>>
  <2> DEFINE b == Tail(r)  d == <<"/">> \o b
  <2>0. Len(r) \in Nat /\ Len(r) # 0
      BY <1>3, EmptySeq
  <2>1. b \in Seq(Tokens) /\ Len(b) = Len(r) - 1 /\ \A i \in 1..Len(b) : b[i] = r[i + 1]
      BY <1>3, HeadTailProperties
  <2> HIDE DEF b
  <2>2. "/" \in Tokens /\ <<"/">> \in Seq(Tokens) /\ Len(<<"/">>) = 1 /\ <<"/">>[1] = "/"
    <3>1. "/" \in Tokens
        BY Characters DEF Link!Separators
    <3> QED BY <3>1, OneToken
  <2>3. r = d
    <3>1. /\ d \in Seq(Tokens) /\ Len(d) = Len(<<"/">>) + Len(b)
          /\ \A i \in 1..Len(<<"/">>) + Len(b) :
                d[i] = IF i <= Len(<<"/">>) THEN <<"/">>[i] ELSE b[i - Len(<<"/">>)]
        BY <2>1, <2>2, ConcatProperties
    <3> HIDE DEF d
    <3>2. Len(d) = Len(r)
        BY <2>0, <2>1, <2>2, <3>1
    <3>3. ASSUME NEW i \in 1..Len(r) PROVE d[i] = r[i]
      <4>1. CASE i = 1
        <5>1. 1 \in 1..Len(<<"/">>) + Len(b) /\ 1 <= Len(<<"/">>)
            BY <2>0, <2>1, <2>2
        <5>2. d[1] = "/"
            BY <2>2, <3>1, <5>1
        <5> QED BY <1>3, <4>1, <5>2
      <4>2. CASE i # 1
        <5>1. /\ i \in 1..Len(<<"/">>) + Len(b) /\ ~(i <= Len(<<"/">>))
              /\ i - Len(<<"/">>) = i - 1 /\ i - 1 \in 1..Len(b) /\ (i - 1) + 1 = i
            BY <2>0, <2>1, <2>2, <4>2
        <5>2. d[i] = b[i - 1]
            BY <3>1, <5>1
        <5>3. b[i - 1] = r[i]
            BY <2>1, <5>1
        <5> QED BY <5>2, <5>3
      <4> QED BY <4>1, <4>2
    <3> QED BY <3>1, <3>2, <3>3, SeqEqual
  <2>4. /\ Link!strchr(h \o d, "/") = Len(h) + 1
        /\ Link!Before(h \o d, Len(h) + 1) = h
        /\ Link!After(h \o d, Len(h)) = d
      BY <2>1, <2>2, Cut
  <2> HIDE DEF d
  <2> QED BY <1>1, <1>3, <2>3, <2>4
<1> QED BY <1>2, <1>3

LEMMA NoLogin ==
    ASSUME NEW h \in Seq(Tokens), ~Link!Contains(h, "/"), ~Link!Contains(h, "@"),
           NEW r \in Seq(Tokens), r # <<>> => r[1] = "/",
           NEW f, f.rest = h \o r
    PROVE  Link!Login(f) = f
<1> DEFINE s == h \o r
<1>1. s \in Seq(Tokens) /\ Len(h) \in Nat
    BY JointIs
<1>2. ~Link!HasLogin(s)
  <2>1. SUFFICES ASSUME Link!HasLogin(s) PROVE FALSE
      OBVIOUS
  <2> DEFINE p == Link!strchr(s, "@")
  <2>2. p # 0
      BY <2>1 DEF Link!HasLogin
  <2>3. Link!Contains(s, "@") /\ p \in 1..Len(s) /\ s[p] = "@"
    <3> HIDE DEF s
    <3> QED BY <1>1, <2>2, StrchrIs
  <2>4. r # <<>>
    <3>1. Link!Contains(r, "@")
        BY <2>3, HoldsJoined
    <3> QED BY <3>1, HoldsNone
  <2>5. Link!strchr(s, "/") = Len(h) + 1
      BY <2>4, JointIs
  <2>6. p < Len(h) + 1
    <3>1. Link!strchr(s, "/") # 0
        BY <1>1, <2>5
    <3> QED BY <2>1, <2>5, <3>1 DEF Link!HasLogin
  <2>7. p \in 1..Len(h)
    <3>1. Len(s) \in Nat
        BY <1>1
    <3> HIDE DEF s, p
    <3> QED BY <1>1, <2>3, <2>6, <3>1
  <2>8. s[p] = h[p]
    <3>1. Len(r) \in Nat /\ p \in 1..Len(h) + Len(r) /\ p <= Len(h)
      <4> HIDE DEF p
      <4>1. Len(r) \in Nat
          OBVIOUS
      <4> QED BY <1>1, <2>7, <4>1
    <3> HIDE DEF p
    <3> QED BY <3>1, ConcatProperties
  <2> QED BY <2>3, <2>7, <2>8 DEF Link!Contains
<1> QED BY <1>2 DEF Link!Login

PortOf(po) == Link!Unless(po, 0, <<":", Link!Digits(po)>>)

LEMMA PortIs ==
    /\ Link!Range(Link!atoi) = {554}
    /\ PortOf(0) = <<>>
    /\ PortOf(554) = <<":", "554">>
    /\ Link!atoi["554"] = 554
    /\ <<":", "554">> \in Seq(Tokens)
<1>1. DOMAIN Link!atoi = {"554"} /\ Link!atoi["554"] = 554
    BY DEF Link!atoi
<1>2. Link!Range(Link!atoi) = {554}
    BY <1>1 DEF Link!Range
<1>3. Link!Digits(554) = "554"
    BY <1>1 DEF Link!Digits
<1>4. PortOf(0) = <<>> /\ PortOf(554) = <<":", "554">>
    BY <1>3 DEF PortOf, Link!Unless
<1>5. <<":", "554">> \in Seq(Tokens)
  <2>1. ":" \in Tokens /\ "554" \in Tokens
      BY <1>1, UrlAssumption DEF Link!Separators
  <2>2. <<":", "554">> \in [1..2 -> Tokens]
      BY <2>1
  <2> QED BY <2>2, Tuple
<1> QED BY <1>1, <1>2, <1>4, <1>5

(* A host, its port and the colon between them, which is found behind an   *)
(* IPv6 address too.                                                       *)
HostAndPort(h, ho, po) ==
    /\ h \in Seq(Tokens) /\ h # <<>> /\ h[Len(h)] # ":"
    /\ ~Link!Contains(h, "/") /\ ~Link!Contains(h, "@")
    /\ po = 0 => h = ho /\ Link!PortColon(h) = 0
    /\ po # 0 => /\ Link!PortColon(h) = Len(ho) + 1
                 /\ Len(ho) + 1 # 0
                 /\ Link!Before(h, Len(ho) + 1) = ho
                 /\ Link!atoi[h[(Len(ho) + 1) + 1]] = po

LEMMA HostPartIs ==
    ASSUME NEW ho \in Hosts, NEW po \in {0, 554}
    PROVE  HostAndPort(ho \o PortOf(po), ho, po)
<1> DEFINE d == PortOf(po)  h == ho \o d  n == Len(ho)
<1>1. /\ ho \in Seq(Tokens) /\ ho # <<>> /\ ~Link!Contains(ho, "/") /\ ~Link!Contains(ho, "@")
      /\ IF ho[1] = "[" THEN \A i \in 1..Len(ho) : ho[i] = "]" <=> i = Len(ho)
         ELSE ~Link!Contains(ho, ":")
    BY UrlAssumption
<1>2. n \in Nat /\ n # 0 /\ 1 \in 1..n /\ n \in 1..n
  <2>1. n \in Nat /\ n # 0
      BY <1>1, EmptySeq
  <2> QED BY <2>1
<1>3. /\ d \in Seq(Tokens) /\ ~Link!Contains(d, "/") /\ ~Link!Contains(d, "@") /\ ~Link!Contains(d, "]")
      /\ po = 0 => d = <<>> /\ Len(d) = 0
      /\ po # 0 => /\ po = 554 /\ d = <<":", "554">> /\ Len(d) = 2 /\ d[1] = ":" /\ d[2] = "554"
  <2>1. CASE po = 0
    <3>1. d = <<>>
        BY <2>1, PortIs
    <3> HIDE DEF d
    <3>2. d \in Seq(Tokens) /\ Len(d) = 0
        BY <3>1
    <3>3. ~Link!Contains(d, "/") /\ ~Link!Contains(d, "@") /\ ~Link!Contains(d, "]")
        BY <3>1, HoldsNone
    <3> QED BY <2>1, <3>1, <3>2, <3>3
  <2>2. CASE po # 0
    <3>0. po = 554
        BY <2>2
    <3>1. po = 554 /\ d = <<":", "554">> /\ d \in Seq(Tokens)
      <4>1. PortOf(554) = <<":", "554">> /\ <<":", "554">> \in Seq(Tokens)
          BY PortIs
      <4>2. d = PortOf(554)
          BY <3>0
      <4> HIDE DEF d
      <4> QED BY ONLY <3>0, <4>1, <4>2
    <3>2. Len(<<":", "554">>) = 2 /\ <<":", "554">>[1] = ":" /\ <<":", "554">>[2] = "554"
        OBVIOUS
    <3>3. Len(d) = 2 /\ d[1] = ":" /\ d[2] = "554"
        BY <3>1, <3>2
    <3> HIDE DEF d
    <3>4. \A i \in 1..Len(d) : d[i] = ":" \/ d[i] = "554"
        BY <3>3
    <3> QED BY <2>2, <3>1, <3>3, <3>4 DEF Link!Contains
  <2> QED BY <2>1, <2>2
<1> HIDE DEF d
<1>4. /\ h \in Seq(Tokens) /\ Len(h) = n + Len(d)
      /\ \A i \in 1..n + Len(d) : h[i] = IF i <= n THEN ho[i] ELSE d[i - n]
    BY <1>1, <1>3, ConcatProperties
<1>5. ~Link!Contains(h, "/") /\ ~Link!Contains(h, "@") /\ (Link!Contains(h, ":") <=> Link!Contains(ho, ":") \/ Link!Contains(d, ":"))
    BY <1>1, <1>3, HoldsJoined
<1>6. SubSeq(h, 1, n) = ho /\ SubSeq(h, n + 1, Len(h)) = d
    BY <1>1, <1>3, BothParts
<1>7. po = 0 => h = ho
    BY <1>1, <1>3, ConcatEmptySeq
<1> HIDE DEF h, n
<1>8. /\ Len(d) \in 0..2
      /\ \A i \in 1..n : h[i] = ho[i] /\ i \in 1..Len(h)
  <2>1. Len(d) \in 0..2
      BY <1>3
  <2>2. ASSUME NEW i \in 1..n PROVE h[i] = ho[i] /\ i \in 1..Len(h)
    <3>1. i \in 1..n + Len(d) /\ i <= n
        BY <1>2, <2>1
    <3> QED BY <1>4, <3>1
  <2> QED BY <2>1, <2>2
<1>9. po # 0 => h[n + 1] = ":" /\ h[(n + 1) + 1] = "554" /\ Len(h) = (n + 1) + 1
  <2>1. ASSUME po # 0, NEW i \in 1..2 PROVE h[n + i] = d[i]
    <3>1. n + i \in 1..n + Len(d) /\ ~(n + i <= n) /\ (n + i) - n = i
        BY <1>2, <1>3, <2>1
    <3> QED BY <1>4, <3>1
  <2>2. n + 2 = (n + 1) + 1 /\ 1 \in 1..2 /\ 2 \in 1..2
      BY <1>2
  <2>3. ASSUME po # 0
        PROVE  h[n + 1] = ":" /\ h[n + 2] = "554" /\ Len(h) = n + 2
    <3>1. d[1] = ":" /\ d[2] = "554" /\ Len(d) = 2
        BY <1>3, <2>3
    <3>2. h[n + 1] = d[1] /\ h[n + 2] = d[2]
        BY <2>1, <2>2, <2>3
    <3> QED BY <1>4, <3>1, <3>2
  <2> QED BY <2>2, <2>3
<1>10. h # <<>> /\ h[Len(h)] # ":"
  <2>1. h # <<>>
    <3>1. Len(h) # 0
        BY <1>2, <1>4, <1>8
    <3> QED BY <1>4, <3>1, EmptySeq
  <2>2. CASE po # 0
      BY <1>9, <2>1, <2>2
  <2>3. CASE po = 0
    <3>1. Len(h) = n /\ h[n] = ho[n]
        BY <1>2, <1>3, <1>4, <1>8, <2>3
    <3>2. ho[n] # ":"
        BY <1>1, <1>2 DEF Link!Contains, n
    <3> QED BY <2>1, <3>1, <3>2
  <2> QED BY <2>2, <2>3
<1>11. ho[1] # "[" => Link!strchr(h, "[") # 1
  <2>1. ASSUME Link!strchr(h, "[") = 1 PROVE h[1] = "["
      BY <1>4, <2>1, StrchrIs
  <2> QED BY <1>2, <1>8, <2>1
<1>12. ho[1] = "[" => /\ Link!strchr(h, "[") = 1 /\ Link!strchr(h, "]") = n
                     /\ Link!After(h, n) = d
  <2>1. SUFFICES ASSUME ho[1] = "["
                 PROVE  /\ Link!strchr(h, "[") = 1 /\ Link!strchr(h, "]") = n
                        /\ Link!After(h, n) = d
      OBVIOUS
  <2>2. Link!strchr(h, "[") = 1
    <3> DEFINE q == Link!strchr(h, "[")
    <3>1. h[1] = "[" /\ 1 \in 1..Len(h)
        BY <1>2, <1>8, <2>1
    <3>2. q \in 1..Len(h) /\ q <= 1
        BY <1>4, <3>1, StrchrIs DEF Link!Contains
    <3>3. Len(h) \in Nat
        BY <1>4
    <3> HIDE DEF q
    <3>4. q = 1
        BY <3>2, <3>3
    <3> QED BY <3>4 DEF q
  <2>3. Link!strchr(h, "]") = n
    <3> DEFINE q == Link!strchr(h, "]")
    <3>1. h[n] = "]" /\ n \in 1..Len(h)
        BY <1>1, <1>2, <1>8, <2>1 DEF n
    <3>2. q \in 1..Len(h) /\ q <= n /\ h[q] = "]"
        BY <1>4, <3>1, StrchrIs DEF Link!Contains
    <3>3. Len(h) \in Nat
        BY <1>4
    <3> HIDE DEF q
    <3>4. q \in 1..n
        BY <1>2, <3>2, <3>3
    <3>5. q = n
        BY <1>1, <1>8, <2>1, <3>2, <3>4 DEF n
    <3> QED BY <3>5 DEF q
  <2> QED BY <1>6, <2>2, <2>3 DEF Link!After
<1>13. po = 0 => Link!PortColon(h) = 0
  <2>1. SUFFICES ASSUME po = 0 PROVE Link!PortColon(h) = 0
      OBVIOUS
  <2>2. d = <<>> /\ Link!strchr(d, ":") = 0
    <3>1. d = <<>> /\ d \in Seq(Tokens)
        BY <1>3, <2>1
    <3>2. ~Link!Contains(d, ":")
        BY <3>1, HoldsNone
    <3>3. Link!strchr(d, ":") = 0
        BY <1>3, <3>2, StrchrIs
    <3> QED BY <3>1, <3>3
  <2>3. CASE ho[1] = "["
      BY <1>12, <2>2, <2>3 DEF Link!PortColon
  <2>4. CASE ho[1] # "["
    <3>1. ~Link!Contains(h, ":")
        BY <1>1, <1>5, <2>2, <2>4, HoldsNone
    <3>2. Link!strchr(h, ":") = 0
        BY <1>4, <3>1, StrchrIs
    <3> QED BY <1>11, <2>4, <3>2 DEF Link!PortColon
  <2> QED BY <2>3, <2>4
<1>14. po # 0 => Link!PortColon(h) = n + 1
  <2>1. SUFFICES ASSUME po # 0 PROVE Link!PortColon(h) = n + 1
      OBVIOUS
  <2>2. CASE ho[1] = "["
    <3> DEFINE q == Link!strchr(d, ":")
    <3>0. Len(d) = 2 /\ d[1] = ":" /\ 1 \in 1..2
        BY <1>3, <2>1
    <3>1. 1 \in 1..Len(d) /\ d[1] = ":"
        BY <3>0
    <3>2. q \in 1..Len(d) /\ q <= 1
        BY <1>3, <3>1, StrchrIs DEF Link!Contains
    <3> HIDE DEF q
    <3>3. q = 1
        BY <1>8, <3>2
    <3> QED BY <1>2, <1>12, <2>2, <3>3 DEF Link!PortColon, q
  <2>3. CASE ho[1] # "["
    <3> DEFINE q == Link!strchr(h, ":")
    <3>1. h[n + 1] = ":" /\ n + 1 \in 1..Len(h)
        BY <1>2, <1>9, <2>1
    <3>2. q \in 1..Len(h) /\ q <= n + 1 /\ h[q] = ":"
        BY <1>4, <3>1, StrchrIs DEF Link!Contains
    <3>3. q \notin 1..n
        BY <1>1, <1>8, <2>3, <3>2 DEF Link!Contains, n
    <3>4. Len(h) \in Nat
        BY <1>4
    <3> HIDE DEF q
    <3>5. q = n + 1
        BY <1>2, <3>2, <3>3, <3>4
    <3> QED BY <1>11, <2>3, <3>5 DEF Link!PortColon, q
  <2> QED BY <2>2, <2>3
<1>15. po # 0 => /\ n + 1 # 0 /\ Link!Before(h, n + 1) = ho
                /\ Link!atoi[h[(n + 1) + 1]] = po
  <2>1. (n + 1) - 1 = n /\ n + 1 # 0
      BY <1>2
  <2> QED BY <1>3, <1>6, <1>9, <2>1, PortIs DEF Link!Before
<1>16. HostAndPort(h, ho, po)
    BY <1>4, <1>5, <1>7, <1>10, <1>13, <1>14, <1>15 DEF n, HostAndPort
<1> QED BY <1>16 DEF h, d

(* The host step, when a host is given and when none is.                   *)
HostFound(f, ho, po, r) ==
    Link!Host(f)
      = [rest |-> r,
         url  |-> IF po = 0 THEN [f.url EXCEPT !.psz_host = ho]
                  ELSE [f.url EXCEPT !.psz_host = ho, !.i_port = po]]

LEMMA HostCut ==
    ASSUME NEW ho, NEW po, NEW h, HostAndPort(h, ho, po),
           NEW r \in Seq(Tokens), r # <<>> => r[1] = "/",
           NEW f, f.rest = h \o r
    PROVE  HostFound(f, ho, po, r)
<1> DEFINE s == f.rest  p == Link!strchr(s, "/")
           host == IF p = 0 THEN s ELSE Link!Before(s, p)
           colon == Link!PortColon(host)
           left == IF p = 0 THEN <<>> ELSE Link!After(s, p - 1)
           One(a) == [f.url EXCEPT !.psz_host = a]
           Two(a, b) == [f.url EXCEPT !.psz_host = a, !.i_port = b]
<1>1. /\ h \in Seq(Tokens) /\ h # <<>> /\ ~Link!Contains(h, "/")
      /\ po = 0 => h = ho /\ Link!PortColon(h) = 0
      /\ po # 0 => /\ Link!PortColon(h) = Len(ho) + 1 /\ Len(ho) + 1 # 0
                   /\ Link!Before(h, Len(ho) + 1) = ho
                   /\ Link!atoi[h[(Len(ho) + 1) + 1]] = po
    BY DEF HostAndPort
<1>2. s = h \o r
    OBVIOUS
<1> HIDE DEF s
<1>3. Len(h) \in Nat /\ Len(h) # 0 /\ Len(h) + 1 # 1 /\ Len(h) + 1 # 0 /\ (Len(h) + 1) - 1 = Len(h)
  <2>1. Len(h) \in Nat /\ Len(h) # 0
      BY <1>1, EmptySeq
  <2> QED BY <2>1
<1>4. p # 1 /\ host = h /\ left = r
  <2>1. CASE r = <<>>
    <3>1. p = 0 /\ s = h
        BY <1>1, <1>2, <2>1, JointIs
    <3> HIDE DEF p
    <3> QED BY <2>1, <3>1
  <2>2. CASE r # <<>>
    <3>1. /\ p = Len(h) + 1 /\ Link!Before(s, Len(h) + 1) = h /\ Link!After(s, Len(h)) = r
        BY <1>1, <1>2, <2>2, JointIs
    <3> HIDE DEF p
    <3> QED BY <1>3, <3>1
  <2> QED BY <2>1, <2>2
<1>5. Link!Host(f)
        = IF p = 1 THEN f
          ELSE [rest |-> left,
                url  |-> IF colon = 0 THEN One(host)
                         ELSE Two(Link!Before(host, colon), Link!atoi[host[colon + 1]])]
    BY DEF Link!Host, s
<1> HIDE DEF p, left, host, One, Two
<1>6. Link!Host(f) = [rest |-> r, url |-> IF po = 0 THEN One(ho) ELSE Two(ho, po)]
  <2>1. CASE po = 0
    <3>1. colon = 0
        BY <1>1, <1>4, <2>1
    <3> HIDE DEF colon
    <3> QED BY <1>1, <1>4, <1>5, <2>1, <3>1
  <2>2. CASE po # 0
    <3>1. /\ colon = Len(ho) + 1 /\ colon # 0 /\ Link!Before(host, colon) = ho
          /\ Link!atoi[host[colon + 1]] = po
        BY <1>1, <1>4, <2>2
    <3> HIDE DEF colon
    <3> QED BY <1>4, <1>5, <2>2, <3>1
  <2> QED BY <2>1, <2>2
<1> QED BY <1>6 DEF One, Two, HostFound

LEMMA NoHost ==
    ASSUME NEW r \in Seq(Tokens), r # <<>>, r[1] = "/", NEW f, f.rest = r
    PROVE  Link!Host(f) = f
<1>1. Link!strchr(<<>> \o r, "/") = Len(<<>>) + 1
  <2>1. <<>> \in Seq(Tokens) /\ ~Link!Contains(<<>>, "/")
      BY HoldsNone
  <2> QED BY <2>1, JointIs
<1>2. Link!strchr(r, "/") = 1
  <2>1. <<>> \o r = r /\ Len(<<>>) + 1 = 1
      BY ConcatEmptySeq
  <2> QED BY <1>1, <2>1
<1> QED BY <1>2 DEF Link!Host

(* The path step.                                                          *)
LEMMA PathCut ==
    ASSUME NEW pa \in Paths, NEW op \in {NoPart} \cup Options,
           NEW f, f.rest = pa \o Link!Unless(op, NoPart, <<"?">> \o op)
    PROVE  Link!Path(f) = IF op = NoPart THEN [f.url EXCEPT !.psz_path = pa]
                          ELSE [f.url EXCEPT !.psz_path = pa, !.psz_option = op]
<1> DEFINE s == f.rest  p == Link!strchr(s, "?")
           One(a) == [f.url EXCEPT !.psz_path = a]
           Two(a, b) == [f.url EXCEPT !.psz_path = a, !.psz_option = b]
<1>1. /\ pa \in Seq(Tokens) /\ pa # <<>> /\ ~Link!Contains(pa, "?") /\ "?" \in Tokens
      /\ op # NoPart => op \in Seq(Tokens)
    BY UrlAssumption, Characters DEF Link!Separators
<1>2. Link!Path(f) = IF s = <<>> THEN f.url ELSE IF p = 0 THEN One(s)
                     ELSE Two(Link!Before(s, p), Link!After(s, p))
    BY DEF Link!Path, Link!option
<1>3. CASE op = NoPart
  <2>1. Link!Unless(op, NoPart, <<"?">> \o op) = <<>>
      BY <1>3 DEF Link!Unless
  <2>2. s = pa
      BY <1>1, <2>1, ConcatEmptySeq
  <2> HIDE DEF s
  <2>3. p = 0
      BY <1>1, <2>2, StrchrIs
  <2> HIDE DEF p
  <2> QED BY <1>1, <1>2, <1>3, <2>2, <2>3
<1>4. CASE op # NoPart
  <2> DEFINE z == pa \o (<<"?">> \o op)  n == Len(pa) + 1
  <2>1. s = z
      BY <1>4 DEF Link!Unless
  <2>2. Len(pa) \in Nat /\ op \in Seq(Tokens) /\ Len(op) \in Nat
      BY <1>1, <1>4
  <2>3. /\ z \in Seq(Tokens) /\ Len(z) = Len(pa) + 1 + Len(op) /\ Link!strchr(z, "?") = n
        /\ Link!Before(z, n) = pa /\ Link!After(z, n) = op
      BY <1>1, <2>2, Cut
  <2> HIDE DEF z, s
  <2>4. n # 0 /\ z # <<>>
    <3>1. Len(z) # 0
        BY <2>2, <2>3
    <3> QED BY <2>2, <3>1
  <2>5. /\ p = n /\ p # 0 /\ s # <<>> /\ Link!Before(s, p) = pa /\ Link!After(s, p) = op
      BY <2>1, <2>3, <2>4
  <2> HIDE DEF p
  <2> QED BY <1>2, <1>4, <2>5
<1> QED BY <1>3, <1>4

UrlOf(pr, us, pw, ho, po, pa, op) ==
    [psz_protocol |-> pr, psz_username |-> us, psz_password |-> pw, psz_host |-> ho,
     i_port |-> po, psz_path |-> pa, psz_option |-> op]

LEMMA EmptyIs ==
    /\ Link!Empty = UrlOf(NoPart, NoPart, NoPart, NoPart, 0, NoPart, NoPart)
    /\ \A x : [Link!Empty EXCEPT !.psz_protocol = x]
                = UrlOf(x, NoPart, NoPart, NoPart, 0, NoPart, NoPart)
BY DEF UrlOf, Link!Empty

(* What the steps of the parser put into what was found.                   *)
Excepts(v, a, b, c, d, e, f, g) ==
    /\ \A x, y : [v EXCEPT !.psz_username = x, !.psz_password = y] = UrlOf(a, x, y, d, e, f, g)
    /\ \A x : [v EXCEPT !.psz_host = x] = UrlOf(a, b, c, x, e, f, g)
    /\ \A x, y : [v EXCEPT !.psz_host = x, !.i_port = y] = UrlOf(a, b, c, x, y, f, g)
    /\ \A x : [v EXCEPT !.psz_path = x] = UrlOf(a, b, c, d, e, x, g)
    /\ \A x, y : [v EXCEPT !.psz_path = x, !.psz_option = y] = UrlOf(a, b, c, d, e, x, y)

LEMMA UrlExcept ==
    ASSUME NEW a, NEW b, NEW c, NEW d, NEW e, NEW f, NEW g,
           NEW v, v = UrlOf(a, b, c, d, e, f, g)
    PROVE  Excepts(v, a, b, c, d, e, f, g)
<1>1. ASSUME NEW x
      PROVE  [v EXCEPT !.psz_host = x] = UrlOf(a, b, c, x, e, f, g)
    BY DEF UrlOf
<1>2. ASSUME NEW x
      PROVE  [v EXCEPT !.psz_path = x] = UrlOf(a, b, c, d, e, x, g)
    BY DEF UrlOf
<1>3. ASSUME NEW x, NEW y
      PROVE  [v EXCEPT !.psz_username = x, !.psz_password = y] = UrlOf(a, x, y, d, e, f, g)
  <2>1. [v EXCEPT !.psz_username = x] = UrlOf(a, x, c, d, e, f, g)
      BY DEF UrlOf
  <2>2. [UrlOf(a, x, c, d, e, f, g) EXCEPT !.psz_password = y] = UrlOf(a, x, y, d, e, f, g)
      BY DEF UrlOf
  <2>3. [v EXCEPT !.psz_username = x, !.psz_password = y]
          = [[v EXCEPT !.psz_username = x] EXCEPT !.psz_password = y]
      OBVIOUS
  <2> QED BY <2>1, <2>2, <2>3
<1>4. ASSUME NEW x, NEW y
      PROVE  [v EXCEPT !.psz_host = x, !.i_port = y] = UrlOf(a, b, c, x, y, f, g)
  <2>1. [v EXCEPT !.psz_host = x] = UrlOf(a, b, c, x, e, f, g)
      BY DEF UrlOf
  <2>2. [UrlOf(a, b, c, x, e, f, g) EXCEPT !.i_port = y] = UrlOf(a, b, c, x, y, f, g)
      BY DEF UrlOf
  <2>3. [v EXCEPT !.psz_host = x, !.i_port = y]
          = [[v EXCEPT !.psz_host = x] EXCEPT !.i_port = y]
      OBVIOUS
  <2> QED BY <2>1, <2>2, <2>3
<1>5. ASSUME NEW x, NEW y
      PROVE  [v EXCEPT !.psz_path = x, !.psz_option = y] = UrlOf(a, b, c, d, e, x, y)
  <2>1. [v EXCEPT !.psz_path = x] = UrlOf(a, b, c, d, e, x, g)
      BY DEF UrlOf
  <2>2. [UrlOf(a, b, c, d, e, x, g) EXCEPT !.psz_option = y] = UrlOf(a, b, c, d, e, x, y)
      BY DEF UrlOf
  <2>3. [v EXCEPT !.psz_path = x, !.psz_option = y]
          = [[v EXCEPT !.psz_path = x] EXCEPT !.psz_option = y]
      OBVIOUS
  <2> QED BY <2>1, <2>2, <2>3
<1> QED BY <1>1, <1>2, <1>3, <1>4, <1>5 DEF Excepts

UrlParts(u) ==
    /\ u = UrlOf(u.psz_protocol, u.psz_username, u.psz_password, u.psz_host, u.i_port,
                 u.psz_path, u.psz_option)
    /\ u.psz_protocol \in {NoPart} \cup Protocols
    /\ u.psz_username \in {NoPart} \cup Words
    /\ u.psz_password \in {NoPart} \cup Words
    /\ u.psz_host \in {NoPart} \cup Hosts
    /\ u.i_port \in {0, 554}
    /\ u.psz_path \in {NoPart} \cup Paths
    /\ u.psz_option \in {NoPart} \cup Options
    /\ u.psz_username # NoPart => u.psz_protocol # NoPart
    /\ u.psz_password # NoPart => u.psz_username # NoPart
    /\ u.i_port # 0 => u.psz_host # NoPart
    /\ u.psz_host = NoPart => u.psz_path # NoPart
    /\ u.psz_option # NoPart => u.psz_path # NoPart

LEMMA UrlHas == ASSUME NEW u \in Link!Urls PROVE UrlParts(u)
<1>1. {0} \cup Link!Range(Link!atoi) = {0, 554}
    BY PortIs
<1>2. u \in [psz_protocol : {NoPart} \cup Protocols, psz_username : {NoPart} \cup Words,
             psz_password : {NoPart} \cup Words, psz_host : {NoPart} \cup Hosts,
             i_port : {0, 554}, psz_path : {NoPart} \cup Paths,
             psz_option : {NoPart} \cup Options]
    BY <1>1 DEF Link!Urls
<1>3. /\ u.psz_username # NoPart => u.psz_protocol # NoPart
      /\ u.psz_password # NoPart => u.psz_username # NoPart
      /\ u.i_port # 0 => u.psz_host # NoPart
      /\ u.psz_host = NoPart => u.psz_path # NoPart
      /\ u.psz_option # NoPart => u.psz_path # NoPart
    BY DEF Link!Urls
<1>4. u = UrlOf(u.psz_protocol, u.psz_username, u.psz_password, u.psz_host, u.i_port,
                u.psz_path, u.psz_option)
    BY <1>2 DEF UrlOf
<1> QED BY <1>2, <1>3, <1>4 DEF UrlParts

(* What the pieces of a URL are written as, and what is left after each.   *)
ProtocolPart(u) == Link!Unless(u.psz_protocol, NoPart, u.psz_protocol \o <<":", "/", "/">>)

LoginPart(u) ==
    Link!Unless(u.psz_username, NoPart,
                Link!Escape(u.psz_username)
                  \o Link!Unless(u.psz_password, NoPart, <<":">> \o Link!Escape(u.psz_password))
                  \o <<"@">>)

HostPart(u) == Link!Unless(u.psz_host, NoPart, u.psz_host \o PortOf(u.i_port))

PathPart(u) == Link!Unless(u.psz_path, NoPart, u.psz_path)

OptionPart(u) == Link!Unless(u.psz_option, NoPart, <<"?">> \o u.psz_option)

FromPath(u) == PathPart(u) \o OptionPart(u)

FromHost(u) == HostPart(u) \o FromPath(u)

FromLogin(u) == LoginPart(u) \o FromHost(u)

LEMMA LoginPartIs == ASSUME NEW u, UrlParts(u) PROVE LoginPart(u) \in Seq(Tokens)
<1> DEFINE us == u.psz_username  pw == u.psz_password
           c == Link!Unless(pw, NoPart, <<":">> \o Link!Escape(pw))
<1>1. /\ us \in {NoPart} \cup Words /\ pw \in {NoPart} \cup Words
      /\ ":" \in Tokens /\ "@" \in Tokens
    BY Characters DEF UrlParts, Link!Separators
<1> HIDE DEF us, pw
<1>2. ASSUME NEW w \in Words PROVE Link!Escape(w) \in Seq(Tokens)
  <2>1. w \in Seq(Tokens) /\ \A i \in 1..Len(w) : w[i] \notin DOMAIN Link!Escaped
      BY UrlAssumption
  <2> QED BY <2>1, EscapedBack
<1>3. c \in Seq(Tokens)
  <2>1. CASE pw = NoPart
    <3>1. c = <<>>
        BY <2>1 DEF Link!Unless
    <3> QED BY <3>1
  <2>2. CASE pw # NoPart
    <3>1. c = <<":">> \o Link!Escape(pw)
        BY <2>2 DEF Link!Unless
    <3>2. <<":">> \in Seq(Tokens) /\ Link!Escape(pw) \in Seq(Tokens)
        BY <1>1, <1>2, <2>2, OneToken
    <3> HIDE DEF c
    <3> QED BY <3>1, <3>2, ConcatProperties
  <2> QED BY <2>1, <2>2
<1> HIDE DEF c
<1>4. LoginPart(u) = Link!Unless(us, NoPart, Link!Escape(us) \o c \o <<"@">>)
    BY DEF LoginPart, us, pw, c
<1>5. CASE us = NoPart
  <2>1. LoginPart(u) = <<>>
      BY <1>4, <1>5 DEF Link!Unless
  <2> QED BY <2>1
<1>6. CASE us # NoPart
  <2>1. LoginPart(u) = Link!Escape(us) \o c \o <<"@">>
      BY <1>4, <1>6 DEF Link!Unless
  <2>2. Link!Escape(us) \in Seq(Tokens) /\ <<"@">> \in Seq(Tokens)
      BY <1>1, <1>2, <1>6, OneToken
  <2>3. Link!Escape(us) \o c \in Seq(Tokens)
      BY <1>3, <2>2, ConcatProperties
  <2>4. (Link!Escape(us) \o c) \o <<"@">> \in Seq(Tokens)
      BY <2>2, <2>3, ConcatProperties
  <2> QED BY <2>1, <2>4
<1> QED BY <1>5, <1>6

LEMMA HostPartHas ==
    ASSUME NEW u, UrlParts(u)
    PROVE  /\ HostPart(u) \in Seq(Tokens)
           /\ HostPart(u) # <<>> => HostPart(u)[Len(HostPart(u))] # ":"
           /\ ~Link!Contains(HostPart(u), "/") /\ ~Link!Contains(HostPart(u), "@")
<1>1. u.psz_host \in {NoPart} \cup Hosts /\ u.i_port \in {0, 554}
    BY DEF UrlParts
<1>2. CASE u.psz_host = NoPart
  <2>1. HostPart(u) = <<>>
      BY <1>2 DEF HostPart, Link!Unless
  <2>2. HostPart(u) \in Seq(Tokens)
      BY <2>1
  <2> QED BY <2>1, <2>2, HoldsNone
<1>3. CASE u.psz_host # NoPart
  <2>1. HostPart(u) = u.psz_host \o PortOf(u.i_port)
      BY <1>3 DEF HostPart, Link!Unless
  <2>2. HostAndPort(HostPart(u), u.psz_host, u.i_port)
      BY <1>1, <1>3, <2>1, HostPartIs
  <2> QED BY <2>2 DEF HostAndPort
<1> QED BY <1>2, <1>3

LEMMA FromPathIs ==
    ASSUME NEW u, UrlParts(u)
    PROVE  /\ PathPart(u) \in Seq(Tokens) /\ OptionPart(u) \in Seq(Tokens)
           /\ FromPath(u) \in Seq(Tokens)
           /\ u.psz_path = NoPart => FromPath(u) = <<>>
           /\ u.psz_path # NoPart => /\ FromPath(u) # <<>> /\ FromPath(u)[1] = "/"
                                     /\ FromPath(u) = u.psz_path \o OptionPart(u)
<1> DEFINE pa == u.psz_path  op == u.psz_option
<1>1. /\ pa \in {NoPart} \cup Paths /\ op \in {NoPart} \cup Options
      /\ op # NoPart => pa # NoPart
      /\ \A s \in Paths : s \in Seq(Tokens) /\ s # <<>> /\ s[1] = "/"
      /\ \A s \in Options : s \in Seq(Tokens)
      /\ "?" \in Tokens
    BY UrlAssumption, Characters DEF UrlParts, Link!Separators
<1>2. /\ PathPart(u) = IF pa = NoPart THEN <<>> ELSE pa
      /\ OptionPart(u) = IF op = NoPart THEN <<>> ELSE <<"?">> \o op
    BY DEF PathPart, OptionPart, Link!Unless
<1> HIDE DEF pa, op
<1>3. PathPart(u) \in Seq(Tokens)
  <2>1. CASE pa = NoPart
    <3>1. PathPart(u) = <<>>
        BY <1>2, <2>1
    <3> QED BY <3>1
  <2>2. CASE pa # NoPart
      BY <1>1, <1>2, <2>2
  <2> QED BY <2>1, <2>2
<1>4. OptionPart(u) \in Seq(Tokens)
  <2>1. CASE op = NoPart
    <3>1. OptionPart(u) = <<>>
        BY <1>2, <2>1
    <3> QED BY <3>1
  <2>2. CASE op # NoPart
    <3>1. OptionPart(u) = <<"?">> \o op
        BY <1>2, <2>2
    <3>2. <<"?">> \in Seq(Tokens) /\ op \in Seq(Tokens)
        BY <1>1, <2>2, OneToken
    <3> QED BY <3>1, <3>2, ConcatProperties
  <2> QED BY <2>1, <2>2
<1>5. FromPath(u) \in Seq(Tokens)
    BY <1>3, <1>4, ConcatProperties DEF FromPath
<1>6. CASE pa = NoPart
  <2>1. PathPart(u) = <<>> /\ OptionPart(u) = <<>>
      BY <1>1, <1>2, <1>6
  <2>2. FromPath(u) = <<>>
      BY <2>1, <1>4, ConcatEmptySeq DEF FromPath
  <2> QED BY <1>3, <1>4, <1>5, <1>6, <2>2 DEF pa
<1>7. CASE pa # NoPart
  <2>1. FromPath(u) = pa \o OptionPart(u) /\ pa \in Seq(Tokens) /\ pa # <<>> /\ pa[1] = "/"
      BY <1>1, <1>2, <1>7 DEF FromPath
  <2>2. Len(pa) \in Nat /\ Len(pa) # 0 /\ Len(OptionPart(u)) \in Nat
      BY <1>4, <2>1, EmptySeq
  <2>3. 1 \in 1..Len(pa) + Len(OptionPart(u)) /\ 1 <= Len(pa)
      BY <2>2
  <2>4. /\ Len(FromPath(u)) = Len(pa) + Len(OptionPart(u))
        /\ \A i \in 1..Len(pa) + Len(OptionPart(u)) :
              FromPath(u)[i] = IF i <= Len(pa) THEN pa[i] ELSE OptionPart(u)[i - Len(pa)]
      BY <1>4, <2>1, ConcatProperties
  <2>5. FromPath(u)[1] = "/"
      BY <2>1, <2>3, <2>4
  <2>6. FromPath(u) # <<>>
    <3>1. Len(FromPath(u)) # 0
        BY <2>2, <2>4
    <3> QED BY <1>5, <3>1, EmptySeq
  <2> QED BY <1>3, <1>4, <1>5, <1>7, <2>1, <2>5, <2>6 DEF pa
<1> QED BY <1>6, <1>7

(* Step by step.                                                           *)
LEMMA AfterProtocol ==
    ASSUME NEW u, UrlParts(u)
    PROVE  /\ FromHost(u) \in Seq(Tokens)
           /\ Link!Protocol(ProtocolPart(u) \o FromLogin(u))
                = [rest |-> FromLogin(u),
                   url  |-> UrlOf(u.psz_protocol, NoPart, NoPart, NoPart, 0, NoPart, NoPart)]
           /\ u.psz_username = NoPart => FromLogin(u) = FromHost(u)
<1> DEFINE h == HostPart(u)  r == FromPath(u)  l == LoginPart(u)  t == FromHost(u)
<1>1. /\ h \in Seq(Tokens) /\ (h # <<>> => h[Len(h)] # ":") /\ ~Link!Contains(h, "/")
      /\ r \in Seq(Tokens) /\ (r # <<>> => r[1] = "/") /\ l \in Seq(Tokens)
      /\ t = h \o r
  <2>1. r \in Seq(Tokens) /\ (r # <<>> => r[1] = "/")
      BY FromPathIs
  <2> QED BY <2>1, HostPartHas, LoginPartIs DEF FromHost
<1> HIDE DEF h, r, l, t
<1>2. t \in Seq(Tokens)
    BY <1>1, ConcatProperties
<1>3. FromLogin(u) = l \o t
    BY DEF FromLogin, l, t
<1>4. u.psz_username = NoPart => FromLogin(u) = t
  <2>1. SUFFICES ASSUME u.psz_username = NoPart PROVE l \o t = t
      BY <1>3
  <2>2. l = <<>>
      BY <2>1 DEF l, LoginPart, Link!Unless
  <2> QED BY <1>2, <2>2, ConcatEmptySeq
<1>5. CASE u.psz_protocol = NoPart
  <2>1. ProtocolPart(u) = <<>> /\ FromLogin(u) = t
      BY <1>4, <1>5 DEF ProtocolPart, Link!Unless, UrlParts
  <2>2. ProtocolPart(u) \o FromLogin(u) = h \o r
      BY <1>1, <1>2, <2>1, ConcatEmptySeq
  <2>3. Link!Protocol(h \o r) = [rest |-> h \o r, url |-> Link!Empty]
      BY <1>1, NoProtocol
  <2>4. Link!Empty = UrlOf(u.psz_protocol, NoPart, NoPart, NoPart, 0, NoPart, NoPart)
      BY <1>5, EmptyIs
  <2> QED BY <1>1, <1>2, <1>4, <2>1, <2>2, <2>3, <2>4 DEF t
<1>6. CASE u.psz_protocol # NoPart
  <2> DEFINE pr == u.psz_protocol  x == l \o t
  <2>1. pr \in Protocols
      BY <1>6 DEF UrlParts
  <2>2. ProtocolPart(u) = pr \o <<":", "/", "/">>
      BY <1>6 DEF ProtocolPart, Link!Unless
  <2>3. x \in Seq(Tokens)
      BY <1>1, <1>2, ConcatProperties
  <2> HIDE DEF pr, x
  <2>4. Link!Protocol((pr \o <<":", "/", "/">>) \o x)
          = [rest |-> x, url |-> [Link!Empty EXCEPT !.psz_protocol = pr]]
      BY <2>1, <2>3, ProtocolCut
  <2>5. [Link!Empty EXCEPT !.psz_protocol = pr]
          = UrlOf(pr, NoPart, NoPart, NoPart, 0, NoPart, NoPart)
      BY EmptyIs
  <2>6. FromLogin(u) = x
      BY <1>3 DEF x
  <2>7. Link!Protocol(ProtocolPart(u) \o FromLogin(u))
          = [rest |-> FromLogin(u),
             url  |-> UrlOf(pr, NoPart, NoPart, NoPart, 0, NoPart, NoPart)]
      BY <2>2, <2>4, <2>5, <2>6
  <2> QED BY <1>2, <1>4, <2>7 DEF pr, t
<1> QED BY <1>5, <1>6

LEMMA AfterLogin ==
    ASSUME NEW u, UrlParts(u), NEW f, f.rest = FromLogin(u),
           f.url = UrlOf(u.psz_protocol, NoPart, NoPart, NoPart, 0, NoPart, NoPart)
    PROVE  /\ Link!Login(f).rest = FromHost(u)
           /\ Link!Login(f).url = UrlOf(u.psz_protocol, u.psz_username, u.psz_password,
                                        NoPart, 0, NoPart, NoPart)
<1> DEFINE us == u.psz_username  pw == u.psz_password  pr == u.psz_protocol
           t == FromHost(u)
<1>1. /\ us \in {NoPart} \cup Words /\ pw \in {NoPart} \cup Words
      /\ pw # NoPart => us # NoPart
    BY DEF UrlParts
<1>2. t \in Seq(Tokens) /\ (us = NoPart => f.rest = t)
    BY AfterProtocol
<1>3. f.url = UrlOf(pr, NoPart, NoPart, NoPart, 0, NoPart, NoPart)
    OBVIOUS
<1>4. CASE us = NoPart
  <2> DEFINE h == HostPart(u)  r == FromPath(u)
  <2>1. /\ h \in Seq(Tokens) /\ ~Link!Contains(h, "/") /\ ~Link!Contains(h, "@")
        /\ r \in Seq(Tokens) /\ (r # <<>> => r[1] = "/")
    <3>1. r \in Seq(Tokens) /\ (r # <<>> => r[1] = "/")
        BY FromPathIs
    <3> QED BY <3>1, HostPartHas
  <2>2. f.rest = h \o r
      BY <1>2, <1>4 DEF FromHost
  <2> HIDE DEF h, r
  <2>3. Link!Login(f) = f
      BY <2>1, <2>2, NoLogin
  <2>4. pw = NoPart
      BY <1>1, <1>4
  <2> QED BY <1>2, <1>3, <1>4, <2>3, <2>4
<1>5. CASE us # NoPart
  <2>1. f.rest = (Link!Escape(us)
                    \o Link!Unless(pw, NoPart, <<":">> \o Link!Escape(pw)) \o <<"@">>) \o t
      BY <1>5 DEF FromLogin, LoginPart, Link!Unless
  <2> HIDE DEF us, pw, t, pr
  <2>2. us \in Words
      BY <1>1, <1>5
  <2>3. Link!Login(f)
          = [rest |-> t, url |-> [f.url EXCEPT !.psz_username = us, !.psz_password = pw]]
      BY <1>1, <1>2, <2>1, <2>2, LoginCut
  <2>4. [f.url EXCEPT !.psz_username = us, !.psz_password = pw]
          = UrlOf(pr, us, pw, NoPart, 0, NoPart, NoPart)
    <3>1. Excepts(f.url, pr, NoPart, NoPart, NoPart, 0, NoPart, NoPart)
        BY <1>3, UrlExcept
    <3> QED BY <3>1 DEF Excepts
  <2> QED BY <2>3, <2>4 DEF us, pw, t, pr
<1> QED BY <1>4, <1>5

LEMMA AfterHost ==
    ASSUME NEW u, UrlParts(u), NEW f, f.rest = FromHost(u),
           f.url = UrlOf(u.psz_protocol, u.psz_username, u.psz_password, NoPart, 0, NoPart, NoPart)
    PROVE  /\ Link!Host(f).rest = FromPath(u)
           /\ Link!Host(f).url = UrlOf(u.psz_protocol, u.psz_username, u.psz_password,
                                       u.psz_host, u.i_port, NoPart, NoPart)
<1> DEFINE a == u.psz_protocol  b == u.psz_username  c == u.psz_password
           ho == u.psz_host  po == u.i_port  r == FromPath(u)
<1>1. /\ ho \in {NoPart} \cup Hosts /\ po \in {0, 554} /\ (po # 0 => ho # NoPart)
      /\ ho = NoPart => u.psz_path # NoPart
    BY DEF UrlParts
<1>2. /\ r \in Seq(Tokens) /\ (r # <<>> => r[1] = "/")
      /\ ho = NoPart => r # <<>>
    BY <1>1, FromPathIs
<1>3. f.url = UrlOf(a, b, c, NoPart, 0, NoPart, NoPart)
    OBVIOUS
<1>4. CASE ho = NoPart
  <2>1. HostPart(u) = <<>>
      BY <1>4 DEF HostPart, Link!Unless
  <2>2. f.rest = r
      BY <1>2, <2>1, ConcatEmptySeq DEF FromHost
  <2>3. Link!Host(f) = f
    <3> HIDE DEF r
    <3> QED BY <1>2, <1>4, <2>2, NoHost
  <2>4. po = 0
      BY <1>1, <1>4
  <2> QED BY <1>3, <1>4, <2>2, <2>3, <2>4
<1>5. CASE ho # NoPart
  <2> DEFINE h == ho \o PortOf(po)
  <2>1. f.rest = h \o r
      BY <1>5 DEF FromHost, HostPart, Link!Unless
  <2> HIDE DEF a, b, c, ho, po, r
  <2>2. /\ ho \in Hosts /\ po \in {0, 554} /\ r \in Seq(Tokens)
        /\ r # <<>> => r[1] = "/"
      BY <1>1, <1>2, <1>5
  <2>3. Link!Host(f)
          = [rest |-> r,
             url  |-> IF po = 0 THEN [f.url EXCEPT !.psz_host = ho]
                      ELSE [f.url EXCEPT !.psz_host = ho, !.i_port = po]]
    <3>1. HostAndPort(h, ho, po)
        BY <2>2, HostPartIs
    <3> HIDE DEF h
    <3>2. HostFound(f, ho, po, r)
        BY <2>1, <2>2, <3>1, HostCut
    <3> QED BY <3>2 DEF HostFound
  <2>4. /\ [f.url EXCEPT !.psz_host = ho] = UrlOf(a, b, c, ho, 0, NoPart, NoPart)
        /\ [f.url EXCEPT !.psz_host = ho, !.i_port = po] = UrlOf(a, b, c, ho, po, NoPart, NoPart)
    <3>1. Excepts(f.url, a, b, c, NoPart, 0, NoPart, NoPart)
        BY <1>3, UrlExcept
    <3> QED BY <3>1 DEF Excepts
  <2>5. Link!Host(f) = [rest |-> r, url |-> UrlOf(a, b, c, ho, po, NoPart, NoPart)]
      BY <2>3, <2>4
  <2> QED BY <2>5 DEF a, b, c, ho, po, r
<1> QED BY <1>4, <1>5

LEMMA AfterPath ==
    ASSUME NEW u, UrlParts(u), NEW f, f.rest = FromPath(u),
           f.url = UrlOf(u.psz_protocol, u.psz_username, u.psz_password, u.psz_host, u.i_port,
                         NoPart, NoPart)
    PROVE  Link!Path(f) = u
<1> DEFINE a == u.psz_protocol  b == u.psz_username  c == u.psz_password
           d == u.psz_host  e == u.i_port  pa == u.psz_path  op == u.psz_option
<1>1. /\ pa \in {NoPart} \cup Paths /\ op \in {NoPart} \cup Options
      /\ op # NoPart => pa # NoPart
      /\ u = UrlOf(a, b, c, d, e, pa, op)
    BY DEF UrlParts
<1>2. f.url = UrlOf(a, b, c, d, e, NoPart, NoPart)
    OBVIOUS
<1>3. CASE pa = NoPart
  <2>1. f.rest = <<>>
      BY <1>3, FromPathIs
  <2>2. Link!Path(f) = f.url
      BY <2>1 DEF Link!Path
  <2>3. op = NoPart
      BY <1>1, <1>3
  <2> HIDE DEF a, b, c, d, e, pa, op
  <2> QED BY <1>1, <1>2, <1>3, <2>2, <2>3
<1>4. CASE pa # NoPart
  <2>1. f.rest = pa \o Link!Unless(op, NoPart, <<"?">> \o op)
      BY <1>4, FromPathIs DEF OptionPart
  <2> HIDE DEF a, b, c, d, e, pa, op
  <2>2. pa \in Paths
      BY <1>1, <1>4
  <2>3. Link!Path(f) = IF op = NoPart THEN [f.url EXCEPT !.psz_path = pa]
                       ELSE [f.url EXCEPT !.psz_path = pa, !.psz_option = op]
      BY <1>1, <2>1, <2>2, PathCut
  <2>4. /\ [f.url EXCEPT !.psz_path = pa] = UrlOf(a, b, c, d, e, pa, NoPart)
        /\ [f.url EXCEPT !.psz_path = pa, !.psz_option = op] = UrlOf(a, b, c, d, e, pa, op)
    <3>1. Excepts(f.url, a, b, c, d, e, NoPart, NoPart)
        BY <1>2, UrlExcept
    <3> QED BY <3>1 DEF Excepts
  <2>5. Link!Path(f) = UrlOf(a, b, c, d, e, pa, op)
      BY <2>3, <2>4
  <2> QED BY <1>1, <2>5
<1> QED BY <1>3, <1>4

Associate(a, b, c) == (a \o b) \o c = a \o (b \o c)

LEMMA Three ==
    ASSUME NEW S, NEW a \in Seq(S), NEW b \in Seq(S), NEW c \in Seq(S)
    PROVE  Associate(a, b, c) /\ a \o b \in Seq(S)
BY ConcatAssociative, ConcatProperties DEF Associate

Chained(a, b, c, d, e) == (((a \o b) \o c) \o d) \o e = a \o (b \o (c \o (d \o e)))

LEMMA Chain ==
    ASSUME NEW S, NEW a \in Seq(S), NEW b \in Seq(S), NEW c \in Seq(S), NEW d \in Seq(S),
           NEW e \in Seq(S)
    PROVE  Chained(a, b, c, d, e)
<1> DEFINE x == a \o b  y == x \o c  w == d \o e  v == c \o w
<1>1. x \in Seq(S) /\ w \in Seq(S)
    BY Three
<1> HIDE DEF x, w
<1>2. y \in Seq(S) /\ v \in Seq(S)
    BY <1>1, Three
<1> HIDE DEF y, v
<1>3. Associate(y, d, e)
    BY <1>2, Three
<1>4. Associate(x, c, w)
    BY <1>1, Three
<1>5. Associate(a, b, v)
    BY <1>2, Three
<1>6. (y \o d) \o e = y \o w
    BY <1>3 DEF Associate, w
<1>7. y \o w = x \o v
    BY <1>4 DEF Associate, y, v
<1>8. x \o v = a \o (b \o v)
    BY <1>5 DEF Associate, x
<1>9. (y \o d) \o e = a \o (b \o v)
    BY <1>6, <1>7, <1>8
<1> QED BY <1>9 DEF Chained, x, y, w, v

(* A URL is cut into what it was made from.                                *)
LEMMA ParsedBack ==
    ASSUME NEW u \in Link!Urls PROVE Link!Parsed(Link!Made(u)) = u
<1> DEFINE s == ProtocolPart(u) \o FromLogin(u)
           f1 == Link!Protocol(s)  f2 == Link!Login(f1)  f3 == Link!Host(f2)
<1>1. UrlParts(u)
    BY UrlHas
<1>2. Link!Made(u) = s
  <2> DEFINE A == ProtocolPart(u)  B == LoginPart(u)  C == HostPart(u)
             D == PathPart(u)  E == OptionPart(u)
  <2>1. Link!Made(u) = (((A \o B) \o C) \o D) \o E
      BY DEF Link!Made, ProtocolPart, LoginPart, HostPart, PathPart, OptionPart, PortOf, Link!option
  <2>2. A \in Seq(Tokens)
    <3>1. CASE u.psz_protocol = NoPart
      <4>1. A = <<>>
          BY <3>1 DEF ProtocolPart, Link!Unless
      <4> QED BY <4>1
    <3>2. CASE u.psz_protocol # NoPart
      <4>1. A = u.psz_protocol \o <<":", "/", "/">>
          BY <3>2 DEF ProtocolPart, Link!Unless
      <4>2. u.psz_protocol \in Seq(Tokens)
          BY <1>1, <3>2, UrlAssumption DEF UrlParts
      <4>3. <<":", "/", "/">> \in Seq(Tokens)
        <5>1. ":" \in Tokens /\ "/" \in Tokens
            BY Characters DEF Link!Separators
        <5>2. <<":", "/", "/">> \in [1..3 -> Tokens]
            BY <5>1
        <5> QED BY <5>2, Tuple
      <4> QED BY <4>1, <4>2, <4>3, ConcatProperties
    <3> QED BY <3>1, <3>2
  <2>3. /\ B \in Seq(Tokens) /\ C \in Seq(Tokens) /\ D \in Seq(Tokens) /\ E \in Seq(Tokens)
      BY <1>1, LoginPartIs, HostPartHas, FromPathIs
  <2>4. s = A \o (B \o (C \o (D \o E)))
      BY DEF FromLogin, FromHost, FromPath
  <2> HIDE DEF A, B, C, D, E, s
  <2>5. Chained(A, B, C, D, E)
      BY <2>2, <2>3, Chain
  <2> QED BY <2>1, <2>4, <2>5 DEF Chained
<1>3. /\ f1.rest = FromLogin(u)
      /\ f1.url = UrlOf(u.psz_protocol, NoPart, NoPart, NoPart, 0, NoPart, NoPart)
  <2>1. Link!Protocol(ProtocolPart(u) \o FromLogin(u))
          = [rest |-> FromLogin(u),
             url  |-> UrlOf(u.psz_protocol, NoPart, NoPart, NoPart, 0, NoPart, NoPart)]
      BY <1>1, AfterProtocol
  <2> QED BY <2>1
<1> HIDE DEF f1
<1>4. /\ f2.rest = FromHost(u)
      /\ f2.url = UrlOf(u.psz_protocol, u.psz_username, u.psz_password, NoPart, 0, NoPart, NoPart)
    BY <1>1, <1>3, AfterLogin
<1> HIDE DEF f2
<1>5. /\ f3.rest = FromPath(u)
      /\ f3.url = UrlOf(u.psz_protocol, u.psz_username, u.psz_password, u.psz_host, u.i_port,
                        NoPart, NoPart)
    BY <1>1, <1>4, AfterHost
<1> HIDE DEF f3
<1>6. Link!Path(f3) = u
    BY <1>1, <1>5, AfterPath
<1>7. Link!Parsed(s) = Link!Path(f3)
    BY DEF Link!Parsed, f1, f2, f3
<1> QED BY <1>2, <1>6, <1>7

(* Every URL of the format vlc_UrlParse names is cut into the parts it was *)
(* made from, whatever separators its names and its path hold.             *)
THEOREM UrlsAreCut == Link!Spec => []PartsFound
<1> DEFINE Inv == url \in {Link!Empty, parts} /\ parts \in {Link!Empty} \cup Link!Urls
<1>1. Link!Init => Inv
    BY DEF Link!Init
<1>2. Inv /\ [Link!Next]_(Link!vars) => Inv'
  <2>1. SUFFICES ASSUME Inv, [Link!Next]_(Link!vars) PROVE Inv'
      OBVIOUS
  <2>2. CASE Link!GetUrl
      BY <2>1, <2>2 DEF Link!GetUrl
  <2>3. CASE Link!vlc_UrlParse
    <3>1. CASE parts = Link!Empty
        BY <2>1, <2>3, <3>1 DEF Link!vlc_UrlParse
    <3>2. CASE parts # Link!Empty
      <4>1. url' = parts /\ parts' = parts
          BY <2>1, <2>3, <3>2, ParsedBack DEF Link!vlc_UrlParse
      <4> QED BY <2>1, <4>1
    <3> QED BY <3>1, <3>2
  <2>4. CASE Link!vlc_UrlClean
      BY <2>4 DEF Link!vlc_UrlClean
  <2>5. CASE UNCHANGED Link!vars
      BY <2>1, <2>5 DEF Link!vars
  <2> QED BY <2>1, <2>2, <2>3, <2>4, <2>5 DEF Link!Next
<1>3. Inv => PartsFound
    BY DEF PartsFound, Link!PartsFound
<1> QED BY <1>1, <1>2, <1>3, PTL DEF Link!Spec
=============================================================================
