------------------------------ MODULE VlcBits ------------------------------
(***************************************************************************)
(* The bit streams of the VLC SDK, which are proved about, with their      *)
(* parameters.                                                             *)
(***************************************************************************)
EXTENDS Integers, Sequences

CONSTANTS
    ByteWidth, DataSize,            \* bits of a byte, bytes of the data
    Numbers, MostBits, LastPos      \* bounds of what is written, of a call, of a skip

ASSUME BitAssumption ==
    /\ ByteWidth \in Nat \ {0} /\ DataSize \in Nat
    /\ Numbers \subseteq Nat

VARIABLES
    bs_data, bs_p, bs_left, bs_result

Bitio == INSTANCE BitStream
           WITH Width <- ByteWidth, Size <- DataSize, MaxCount <- MostBits, MaxPos <- LastPos,
                data <- bs_data, p <- bs_p, i_left <- bs_left, i_result <- bs_result

(* The bit streams of vlc_bits.h implement a tape of bits with a position. *)
IsTape == Bitio!IsTape
===========================================================================
