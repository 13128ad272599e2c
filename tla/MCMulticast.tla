---------------------------- MODULE MCMulticast ----------------------------
(***************************************************************************)
(* Command lines for Multicast: few arguments, packet sizes that are not   *)
(* positive, an address that is not known, an empty file, files that fill  *)
(* their last packet or not, a packet too large for the receiver's buffer  *)
(* or for UDP, and a file of which a float does not hold the size.         *)
(***************************************************************************)
EXTENDS Multicast

Job(size, packetSize, times) ==
    [args |-> 5, known |-> TRUE, size |-> size, packetSize |-> packetSize, times |-> times]

MCJobs ==
    {Job(s, p, t) : s \in {3, 4}, p \in {2, 3}, t \in {0, 1, 3}}
    \cup {Job(0, 2, 1), Job(3, 0, 1), Job(3, -1, 1)}
    \cup {[Job(3, 2, 1) EXCEPT !.args = n] : n \in {0, 3, 4}}
    \cup {[Job(3, 2, 1) EXCEPT !.known = FALSE]}
    \cup {Job(250, 120, 1), Job(70000, 66000, 1)}
    \cup {Job(513 * 32768 - 1, 32768, 1)}
===========================================================================
