------------------------------ MODULE BitStream ------------------------------
(***************************************************************************)
(* vlc_bits.h of the VLC SDK: bits read from and written to bytes, the     *)
(* highest of a byte first.  A byte has Width bits, 8 in the code.         *)
(***************************************************************************)
EXTENDS Powers, Sequences

CONSTANTS
    Width,
    Size,       \* bytes of data
    Numbers,    \* bound: what is written
    MaxCount,   \* bound: bits handled at a time
    MaxPos      \* bound: bits a skip may leave behind

VARIABLES
    data,       \* the bytes from p_start to p_end
    p,          \* the byte the position is in
    i_left,     \* the bits of it not behind yet
    i_result    \* what was read last

vars == <<data, p, i_left, i_result>>

Init ==
    /\ data = [i \in 0..Size - 1 |-> 0]
    /\ p = 0 /\ i_left = Width /\ i_result = 0

(* bs_pos, bs_eof.                                                         *)
bs_pos == Width * p + Width - i_left
bs_eof == p >= Size

(* The next byte when all of this one is behind.                           *)
Place(byte, left) == IF left = 0 THEN [p |-> byte + 1, left |-> Width]
                     ELSE [p |-> byte, left |-> left]

At(place) == p' = place.p /\ i_left' = place.left

(* Mutant: the bits before the position are not masked out.                *)
LowBitsMutant(b, n) == b

(* b & i_mask[n]                                                           *)
LowBits(b, n) == b % Pow2[n]

Readings == [p : Nat, left : 1..Width, count : Int, result : Nat]

(* The loop of bs_read: what a byte gives goes where the count of bits     *)
(* still wanted says.                                                      *)
Reading[r \in Readings] ==
    LET i_shr == r.left - r.count
        more  == r.count - r.left
    IN  IF r.count <= 0 \/ r.p >= Size THEN r
        ELSE IF i_shr >= 0
        THEN LET place == Place(r.p, i_shr)
             IN  [p |-> place.p, left |-> place.left, count |-> 0,
                  result |-> r.result + LowBits(data[r.p] \div Pow2[i_shr], r.count)]
        ELSE Reading[[p |-> r.p + 1, left |-> Width, count |-> more,
                      result |-> r.result + LowBits(data[r.p], r.left) * Pow2[more]]]

Read(n) == Reading[[p |-> p, left |-> i_left, count |-> n, result |-> 0]]

bs_read(n) ==
    /\ p' = Read(n).p /\ i_left' = Read(n).left
    /\ i_result' = Read(n).result
    /\ UNCHANGED data

bs_read1 ==
    /\ IF bs_eof THEN i_result' = 0 /\ UNCHANGED <<p, i_left>>
       ELSE i_result' = LowBits(data[p] \div Pow2[i_left - 1], 1) /\ At(Place(p, i_left - 1))
    /\ UNCHANGED data

bs_show(n) ==
    /\ i_result' = Read(n).result
    /\ UNCHANGED <<data, p, i_left>>

Skips == [p : Nat, left : Int]

(* No end stops it.                                                        *)
Skipping[place \in Skips] ==
    IF place.left > 0 THEN place
    ELSE Skipping[[p |-> place.p + 1, left |-> place.left + Width]]

bs_skip(n) ==
    /\ bs_pos + n <= MaxPos
    /\ At(Skipping[[p |-> p, left |-> i_left - n]])
    /\ UNCHANGED <<data, i_result>>

Byte == 0..Pow2[Width] - 1

WithBit(b, i, bit) == b + (bit - ((b \div Pow2[i]) % 2)) * Pow2[i]

Writings == [p : Nat, left : 1..Width, count : Nat, data : [0..Size - 1 -> Byte]]

(* The loop of bs_write, bit by bit.                                       *)
Writing(i_bits) ==
    LET write[w \in Writings] ==
          LET i_count == w.count - 1
              place   == Place(w.p, w.left - 1)
              bit     == (i_bits \div Pow2[i_count]) % 2
          IN  IF w.count = 0 \/ w.p >= Size THEN w
              ELSE write[[p |-> place.p, left |-> place.left, count |-> i_count,
                          data |-> [w.data EXCEPT ![w.p] = WithBit(@, w.left - 1, bit)]]]
    IN  write

bs_write(n, i_bits) ==
    LET w == Writing(i_bits)[[p |-> p, left |-> i_left, count |-> n, data |-> data]]
    IN  /\ At(w) /\ data' = w.data
        /\ UNCHANGED i_result

bs_align ==
    /\ i_left # Width
    /\ p' = p + 1 /\ i_left' = Width
    /\ UNCHANGED <<data, i_result>>

bs_align_0 == i_left # Width /\ bs_write(i_left, 0)

(* Past the end, within a byte, it writes no bit and loops for ever: such  *)
(* a call must not be made.                                                *)
bs_align_1 ==
    /\ i_left # Width /\ ~bs_eof
    /\ bs_write(i_left, Pow2[i_left] - 1)

(* bs_init over the same data.                                             *)
bs_init ==
    /\ p' = 0 /\ i_left' = Width
    /\ UNCHANGED <<data, i_result>>

Next ==
    \/ \E n \in 0..MaxCount :
          \/ bs_read(n) \/ bs_show(n) \/ bs_skip(n)
          \/ \E i_bits \in Numbers : bs_write(n, i_bits)
    \/ bs_read1 \/ bs_align \/ bs_align_0 \/ bs_align_1 \/ bs_init

Spec == Init /\ [][Next]_vars

---------------------------------------------------------------------------
TypeOK ==
    /\ data \in [0..Size - 1 -> Byte]
    /\ p \in Nat /\ i_left \in 1..Width /\ i_result \in Nat

Bits ==
    [i \in 1..Width * Size |->
        (data[(i - 1) \div Width] \div Pow2[Width - 1 - ((i - 1) % Width)]) % 2]

(* Bytes, shifts and masks make a tape of bits: numbers are read as they   *)
(* were written, at every position and over every boundary, and the end    *)
(* stops reading and writing.                                              *)
Tape == INSTANCE BitTape WITH bits <- Bits, pos <- bs_pos, got <- i_result

IsTape == Tape!Spec
===========================================================================
