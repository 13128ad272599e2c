----------------------------- MODULE VlcStreams -----------------------------
(***************************************************************************)
(* The byte streams of the VLC SDK, which are proved about, with their     *)
(* parameters.                                                             *)
(***************************************************************************)
EXTENDS Integers, Sequences

CONSTANTS
    Octets, Startcodes,
    StreamBytes, StreamBlocks, BlockSize    \* bounds of a stream and of a block

(* Nobody looks for nothing: the search would look at the first byte of no *)
(* bytes.                                                                  *)
ASSUME StreamAssumption ==
    /\ StreamBytes \in Nat /\ BlockSize \in Nat
    /\ \A code \in Startcodes : code \in Seq(Octets) /\ code # <<>>

VARIABLES
    p_chain, p_block, i_offset, outcome, startcode, pi_offset, found

Stream == INSTANCE ByteStream
            WITH MaxBytes <- StreamBytes, MaxBlocks <- StreamBlocks, MaxSize <- BlockSize

(* The byte streams of vlc_block_helper.h implement a queue of bytes, and  *)
(* waiting and peeking tell the truth of it.                               *)
IsFifo == Stream!IsFifo

(* A search for a start code in a byte stream passes none, also when it    *)
(* goes on after more data have come.                                      *)
NothingMissed == Stream!NothingMissed
===========================================================================
