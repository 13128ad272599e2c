----------------------------- MODULE Broadcast -----------------------------
(***************************************************************************)
(* What the multicast sender promises: a fixed number of datagrams goes    *)
(* out, numbered from zero, and a receiver gets one of them at most.       *)
(***************************************************************************)
EXTENDS Naturals

CONSTANTS Receivers, Nothing

VARIABLES
    total,      \* datagrams to send
    n,          \* datagrams sent
    got         \* the number in the datagram each receiver got

Init ==
    /\ total \in Nat /\ n = 0
    /\ got = [r \in Receivers |-> Nothing]

(* A receiver that has nothing yet may get the datagram.  Its number has   *)
(* 16 bits.                                                                *)
Send ==
    /\ n < total
    /\ n' = n + 1
    /\ \E S \in SUBSET {r \in Receivers : got[r] = Nothing} :
          got' = [r \in Receivers |-> IF r \in S THEN n % (256 * 256) ELSE got[r]]
    /\ UNCHANGED total

Spec == Init /\ [][Send]_<<total, n, got>>
===========================================================================
