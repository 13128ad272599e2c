------------------------------ MODULE KeyValue ------------------------------
(***************************************************************************)
(* What a vlc_dictionary_t is for: at most one value for a key.            *)
(***************************************************************************)
CONSTANTS Keys, Values, NotFound

VARIABLE value

Init == value = [k \in Keys |-> NotFound]

Insert(k, v) == value[k] = NotFound /\ value' = [value EXCEPT ![k] = v]

Remove(k) == value' = [value EXCEPT ![k] = NotFound]

Clear == value' = [k \in Keys |-> NotFound]

Next ==
    \/ Clear
    \/ \E k \in Keys : Remove(k) \/ \E v \in Values : Insert(k, v)

Spec == Init /\ [][Next]_value
===========================================================================
