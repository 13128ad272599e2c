---------------------------- MODULE Packetizer -----------------------------
(***************************************************************************)
(* How MulticastSender.loadMetaData, and RtpTransmitter.loadData with the  *)
(* same text, cut size bytes into packets of packetSize bytes.  The number *)
(* of packets goes through a float division, whose roundings are modelled  *)
(* for sizes of fewer than Precision \div 2 packets, and packets of fewer  *)
(* than Precision bytes, so that the quotient has a fractional part.       *)
(***************************************************************************)
EXTENDS Integers

Precision == 256 * 256 * 256                    \* a float holds 24 bits
Powers    == {2^i : i \in 0..24}

InRange(size, packetSize) ==
    /\ size \in Nat /\ packetSize \in 1..Precision - 1
    /\ size \div packetSize < Precision \div 2

(* The multiple of unit nearest to n, and of two the even one.             *)
Nearest(n, unit) ==
    LET q == n \div unit
        r == n % unit
    IN  IF 2 * r > unit \/ (2 * r = unit /\ q % 2 = 1) THEN unit * (q + 1) ELSE unit * q

(* The conversion of a long to a float: from 2^24 on, to a multiple of the *)
(* distance of floats there.                                               *)
Float(n) ==
    IF n < Precision THEN n
    ELSE Nearest(n, CHOOSE u \in Powers : n \div u \in Precision \div 2 .. Precision - 1)

(* x / packetSize, a little more than k, is rounded up to k + 1 when the   *)
(* rest is at most half the distance between floats from k on: 1 / f for   *)
(* the least power f with f * k >= Precision.                              *)
RoundsUp(x, packetSize) ==
    LET k    == x \div packetSize
        rest == packetSize * (k + 1) - x
    IN  /\ k > 0
        /\ \E f \in Powers :
              (Precision - 1) \div k < f /\ f <= packetSize \div rest

(* (int) Math.floor(x / (1f * packetSize))                                 *)
FloorOfQuotient(x, packetSize) ==
    x \div packetSize + (IF RoundsUp(x, packetSize) THEN 1 ELSE 0)

(* Mutant: a last packet that is not full is not counted.                  *)
PacketCountMutant(size, packetSize) == size \div packetSize

(* Mutant: one packet more, also when the last one is full.                *)
PacketCountPlusOne(size, packetSize) == size \div packetSize + 1

PacketCount(size, packetSize) ==
    IF size % packetSize = 0 THEN size \div packetSize
    ELSE FloorOfQuotient(Float(size), packetSize) + 1

LastPacketSize(size, packetSize) ==
    IF size % packetSize = 0 THEN packetSize ELSE size % packetSize

(* The bytes of the file that are copied into packet i; the rest of it     *)
(* keeps its zeros.                                                        *)
CurrentPacketSize(size, packetSize, i) ==
    IF i = PacketCount(size, packetSize) - 1 THEN LastPacketSize(size, packetSize)
    ELSE packetSize

(* Where the copying ends; past the end of the file it throws.             *)
CopiedUpTo(size, packetSize) ==
    LET last == PacketCount(size, packetSize) - 1
    IN  IF last < 0 THEN 0
        ELSE last * packetSize + CurrentPacketSize(size, packetSize, last)
===========================================================================
