------------------------------ MODULE VlcArray ------------------------------
(***************************************************************************)
(* The three arrays of vlc_arrays.h, as memory that is allocated and moved *)
(* about: the progressive DECL_ARRAY, the TAB_ macros, which vlc_array_t   *)
(* uses, and INSERT_ELEM with REMOVE_ELEM.  They differ in how much memory *)
(* they ask for and when.                                                  *)
(***************************************************************************)
EXTENDS Integers, Sequences

CONSTANTS
    Elements,   \* integers, so that they can be searched for
    Junk,       \* what a cell holds that was never written, or given up
    Marked,     \* bound: elements that are in an array at most once
    MaxSize     \* bound: elements in an array

Kinds == {"ARRAY", "TAB", "ELEM"}

VARIABLES
    kind,       \* which of the three the array is
    p_elems,    \* the memory: Len(p_elems) is i_alloc
    i_size

vars == <<kind, p_elems, i_size>>

(* ARRAY_INIT, TAB_INIT, vlc_array_init.                                   *)
Init == kind \in Kinds /\ p_elems = <<>> /\ i_size = 0

i_alloc == Len(p_elems)

Cell(mem, i) == IF i \in 0..Len(mem) - 1 THEN mem[i + 1] ELSE Junk

realloc(mem, n) == [i \in 1..n |-> Cell(mem, i - 1)]

(* Cells past the end of the memory are not there to be written.           *)
memmove(mem, to, from, n) ==
    [i \in 1..Len(mem) |->
        IF i - 1 \in to..to + n - 1 THEN Cell(mem, i - 1 - to + from) ELSE mem[i]]

Written(mem, pos, e) == [mem EXCEPT ![pos + 1] = e]

(* What is no longer an element is given up.                               *)
Within(mem, n) == [i \in 1..Len(mem) |-> IF i <= n THEN mem[i] ELSE Junk]

---------------------------------------------------------------------------
(* Mutant: the array grows when it is full already and one more.           *)
GrownMutant ==
    IF kind # "ARRAY" THEN i_size + 1
    ELSE IF i_alloc < 10 THEN 10
    ELSE IF i_alloc < i_size THEN (i_alloc * 3) \div 2
    ELSE i_alloc

(* _ARRAY_GROW1; realloc or malloc of one more.                            *)
Grown ==
    IF kind # "ARRAY" THEN i_size + 1
    ELSE IF i_alloc < 10 THEN 10
    ELSE IF i_alloc = i_size THEN (i_alloc * 3) \div 2
    ELSE i_alloc

(* _ARRAY_SHRINK, the free of TAB_REMOVE, the realloc or free of           *)
(* REMOVE_ELEM, when n elements are left.                                  *)
Shrunk(n) ==
    CASE kind = "ARRAY" -> IF n > 10 /\ n < (i_alloc * 2) \div 3 THEN n + 5 ELSE i_alloc
      [] kind = "TAB"   -> IF n = 0 THEN 0 ELSE i_alloc
      [] OTHER          -> n

(* TAB_FIND and vlc_array_index_of_item: the first one, or -1.             *)
IndexOf(e) ==
    LET at == {i \in 0..i_size - 1 : Cell(p_elems, i) = e}
    IN  IF at = {} THEN -1 ELSE CHOOSE i \in at : \A j \in at : i <= j

(* ARRAY_INSERT, TAB_INSERT (vlc_array_insert), INSERT_ELEM.               *)
Insert(e, pos) ==
    LET mem == realloc(p_elems, Grown)
    IN  /\ i_size < MaxSize /\ (e \in Marked => IndexOf(e) = -1)
        /\ p_elems' = Written(memmove(mem, pos + 1, pos, i_size - pos), pos, e)
        /\ i_size' = i_size + 1
        /\ UNCHANGED kind

(* ARRAY_APPEND, TAB_APPEND: what vlc_array_append inserts at i_count.     *)
Append1(e) == Insert(e, i_size)

(* ARRAY_REMOVE, vlc_array_remove, REMOVE_ELEM.                            *)
Remove(pos) ==
    LET moved == memmove(p_elems, pos, pos + 1, i_size - pos - 1)
    IN  /\ p_elems' = realloc(Within(moved, i_size - 1), Shrunk(i_size - 1))
        /\ i_size' = i_size - 1
        /\ UNCHANGED kind

TAB_REMOVE(e) ==
    /\ kind = "TAB" /\ IndexOf(e) >= 0
    /\ Remove(IndexOf(e))

(* ARRAY_RESET, TAB_CLEAN, vlc_array_clear.                                *)
Reset == p_elems' = <<>> /\ i_size' = 0 /\ UNCHANGED kind

Highest == i_size - 1

BSEARCH(key) ==
    LET Search[range \in (0..i_size) \X (-1..Highest)] ==
          LET low  == range[1]
              high == range[2]
              mid  == (low + high) \div 2
          IN  IF low > high THEN -1
              ELSE IF p_elems[mid + 1] < key THEN Search[<<mid + 1, high>>]
              ELSE IF p_elems[mid + 1] > key THEN Search[<<low, mid - 1>>]
              ELSE mid
    IN  Search[<<0, Highest>>]

---------------------------------------------------------------------------
Next ==
    \/ \E e \in Elements : \E pos \in 0..i_size - 1 : Insert(e, pos)
    \/ \E e \in Elements : Append1(e) \/ TAB_REMOVE(e)
    \/ \E pos \in 0..i_size - 1 : Remove(pos)
    \/ Reset

Spec == Init /\ [][Next]_vars

---------------------------------------------------------------------------
TypeOK ==
    /\ kind \in Kinds
    /\ p_elems \in Seq(Elements \cup {Junk})
    /\ i_size \in Nat

Items == [i \in 1..i_size |-> Cell(p_elems, i - 1)]

(* The elements lie in memory that is allocated.                           *)
WithinMemory == i_size <= i_alloc

(* Of a sorted array the binary search finds an element with the key if    *)
(* there is one.                                                           *)
SearchTrue ==
    (\A i, j \in 1..i_size : i <= j => Items[i] <= Items[j]) =>
        \A key \in Elements :
            IF key \in {Items[i] : i \in 1..i_size} THEN Cell(p_elems, BSEARCH(key)) = key
            ELSE BSEARCH(key) = -1

List == INSTANCE ItemList WITH list <- Items

(* Whatever memory is asked for, moved and given back, the elements are a  *)
(* list: none is lost past the end of the memory, none overwritten; and    *)
(* what is in a sorted one is found.                                       *)
IsList == List!Spec /\ []SearchTrue

(* The memory lasts, and no element is junk.                               *)
IInv == TypeOK /\ WithinMemory /\ \A i \in 1..i_size : p_elems[i] \in Elements
===========================================================================
