------------------------------ MODULE BitTape ------------------------------
(***************************************************************************)
(* What a bs_t is for: a tape of bits with a position.  Past the end it    *)
(* reads as zeros, is not written, and only a skip moves on.               *)
(***************************************************************************)
EXTENDS Powers, Sequences

CONSTANTS
    Numbers,    \* numbers written
    MaxCount,   \* bits handled at a time
    Width       \* bits to align to

VARIABLES
    bits,
    pos,        \* bits behind
    got         \* what was read last

vars == <<bits, pos, got>>

Init == bits \in Seq({0}) /\ pos = 0 /\ got = 0

Ahead == IF pos < Len(bits) THEN Len(bits) - pos ELSE 0

Move(n) == pos' = pos + (IF n < Ahead THEN n ELSE Ahead)

Bit(i) == IF i <= Len(bits) THEN bits[i] ELSE 0

(* The number the next n bits make, the first one highest.                 *)
Number(n) ==
    LET sum[i \in 0..n] == IF i = 0 THEN 0 ELSE 2 * sum[i - 1] + Bit(pos + i)
    IN  sum[n]

Read(n) == got' = Number(n) /\ Move(n) /\ UNCHANGED bits

Show(n) == got' = Number(n) /\ UNCHANGED <<bits, pos>>

Skip(n) == pos' = pos + n /\ UNCHANGED <<bits, got>>

Write(n, number) ==
    /\ bits' = [i \in DOMAIN bits |->
                   IF i \in pos + 1..pos + n THEN (number \div Pow2[pos + n - i]) % 2
                   ELSE bits[i]]
    /\ Move(n) /\ UNCHANGED got

(* To the next multiple of Width, leaving, clearing or setting the bits.   *)
Rest == (Width - (pos % Width)) % Width

Rewind == pos' = 0 /\ UNCHANGED <<bits, got>>

Next ==
    \/ \E n \in 0..MaxCount :
          \/ Read(n) \/ Show(n) \/ Skip(n)
          \/ \E number \in Numbers : Write(n, number)
    \/ Read(1)
    \/ Skip(Rest) \/ Write(Rest, 0) \/ Write(Rest, Pow2[Rest] - 1)
    \/ Rewind

Spec == Init /\ [][Next]_vars
===========================================================================
