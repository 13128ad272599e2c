------------------------------ MODULE ItemList ------------------------------
(***************************************************************************)
(* What the arrays of vlc_arrays.h are for: a list.                        *)
(***************************************************************************)
EXTENDS Naturals, Sequences

CONSTANT Elements

VARIABLE list

Init == list = <<>>

Insert(e, pos) ==
    list' = SubSeq(list, 1, pos) \o <<e>> \o SubSeq(list, pos + 1, Len(list))

Remove(pos) == list' = SubSeq(list, 1, pos) \o SubSeq(list, pos + 2, Len(list))

Clear == list' = <<>>

Next ==
    \/ Clear
    \/ \E e \in Elements : \E pos \in 0..Len(list) : Insert(e, pos)
    \/ \E pos \in 0..Len(list) - 1 : Remove(pos)

Spec == Init /\ [][Next]_list
===========================================================================
