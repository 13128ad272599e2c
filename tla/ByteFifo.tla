------------------------------ MODULE ByteFifo ------------------------------
(***************************************************************************)
(* What a block_bytestream_t is for: a queue of bytes, whatever the blocks *)
(* they came in.  Bytes leave it at the front, as many as were asked for   *)
(* or none; a block is handed back whole.                                  *)
(***************************************************************************)
EXTENDS Naturals, SequencesExt

CONSTANTS Octets, MaxBytes

VARIABLES queue, outcome

vars == <<queue, outcome>>

Nothing == [asked |-> 0, bytes |-> <<>>]

Init == queue = <<>> /\ outcome = Nothing

(* Bytes go in at the end; none at all when blocks are only tidied.        *)
Push ==
    /\ \E bytes \in BoundedSeq(Octets, MaxBytes) : queue' = queue \o bytes
    /\ outcome' = Nothing

Release == queue' = <<>> /\ outcome' = Nothing

Drop(n) == queue' = SubSeq(queue, n + 1, Len(queue))

Get(n) ==
    /\ n <= Len(queue) /\ Drop(n)
    /\ outcome' = [asked |-> n, bytes |-> SubSeq(queue, 1, n)]

Skip(n) ==
    /\ n <= Len(queue) /\ Drop(n)
    /\ outcome' = [asked |-> n, bytes |-> <<>>]

Fail(n) ==
    /\ n > Len(queue) /\ UNCHANGED queue
    /\ outcome' = [asked |-> n, bytes |-> <<>>]

(* The block that came in last is handed back, or what is left of it.      *)
Pop(n) ==
    /\ outcome' = [asked |-> 0, bytes |-> SubSeq(queue, n + 1, Len(queue))]
    /\ queue' = SubSeq(queue, 1, n)

Next ==
    \/ Push \/ Release
    \/ \E n \in 0..Len(queue) : Get(n) \/ Skip(n) \/ Pop(n)
    \/ \E n \in 0..MaxBytes + 1 : Fail(n)

Spec == Init /\ [][Next]_vars
===========================================================================
