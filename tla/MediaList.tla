----------------------------- MODULE MediaList -----------------------------
(***************************************************************************)
(* JVLC/.../MediaList.java.  A media list is kept twice: as a list of mrls *)
(* in Java (items), consulted for duplicates and to find what to remove,   *)
(* and as libvlc's own list (native), which is what gets played.           *)
(***************************************************************************)
EXTENDS Integers, Sequences, SequencesExt

CONSTANTS
    Mrls,           \* media resource locators
    MaxItems        \* bound: length of libvlc's list

ASSUME MediaListAssumption == MaxItems \in Nat

VARIABLES
    items, native,
    clearing        \* clear's loop variable, or -1 outside clear

vars == <<items, native, clearing>>

TypeOK == items \in Seq(Mrls) /\ native \in Seq(Mrls) /\ clearing \in Nat \cup {-1}

Init == items = << >> /\ native = << >> /\ clearing = -1

Indices(s) == 0..Len(s) - 1
Item(s, i) == s[i + 1]
Without(s, i) == RemoveAt(s, i + 1)

(* The position of m in items, List.indexOf.                               *)
IndexOf(m) ==
    CHOOSE i \in Indices(items) :
        Item(items, i) = m /\ \A j \in 0..i - 1 : Item(items, j) # m

---------------------------------------------------------------------------
(* Mutant: no test for a media that is in the list already.                *)
AddMediaMutant(m) ==
    /\ clearing = -1 /\ Len(native) < MaxItems
    /\ items' = Append(items, m) /\ native' = Append(native, m)
    /\ UNCHANGED clearing

(* A media that is in the list already is not added again.                 *)
AddMedia(m) ==
    /\ clearing = -1 /\ Len(native) < MaxItems
    /\ \A i \in Indices(items) : Item(items, i) # m
    /\ items' = Append(items, m) /\ native' = Append(native, m)
    /\ UNCHANGED clearing

(* Only libvlc's list takes the descriptor.                                *)
InsertMediaDescriptor(m, i) ==
    /\ clearing = -1 /\ Len(native) < MaxItems
    /\ native' = InsertAt(native, i + 1, m)
    /\ UNCHANGED <<items, clearing>>

(* Mutant: the wrong end of the Java list shrinks.                         *)
RemoveItemMutant(i) ==
    /\ native' = Without(native, i)
    /\ items' = IF items = << >> THEN items ELSE Front(items)

(* removeMedia(index), for an index libvlc accepts.  items.remove throws   *)
(* when the index is beyond its end; libvlc's item is gone by then.        *)
RemoveItem(i) ==
    /\ native' = Without(native, i)
    /\ items' = IF i \in Indices(items) THEN Without(items, i) ELSE items

RemoveIndex(i) ==
    /\ clearing = -1
    /\ RemoveItem(i)
    /\ UNCHANGED clearing

(* removeMedia(mrl) and removeMedia(descriptor).                           *)
RemoveMedia(m) ==
    /\ clearing = -1
    /\ \E i \in Indices(items) : Item(items, i) = m
    /\ IndexOf(m) \in Indices(native)
    /\ RemoveItem(IndexOf(m))
    /\ UNCHANGED clearing

(* clear(): the index counts up while the list shrinks under it.           *)
Clear ==
    /\ clearing = -1
    /\ clearing' = 0
    /\ UNCHANGED <<items, native>>

ClearItem ==
    /\ clearing \in Indices(native)
    /\ RemoveItem(clearing)
    /\ clearing' = IF clearing \in Indices(items) THEN clearing + 1
                   ELSE -1                            \* items.remove throws

ClearDone ==
    /\ clearing >= Len(native)
    /\ clearing' = -1
    /\ UNCHANGED <<items, native>>

Next ==
    \/ \E m \in Mrls : AddMedia(m) \/ RemoveMedia(m)
    \/ \E m \in Mrls, i \in 0..Len(native) : InsertMediaDescriptor(m, i)
    \/ \E i \in Indices(native) : RemoveIndex(i)
    \/ Clear \/ ClearItem \/ ClearDone

Spec == Init /\ [][Next]_vars

---------------------------------------------------------------------------
(* Insertion apart, an operation that finds the two lists equal leaves     *)
(* them equal, every step of clear included, although each method changes  *)
(* them on its own and clear skips items.                                  *)
MirrorKept ==
    [][items = native =>
          \/ items' = native'
          \/ \E m \in Mrls, i \in 0..Len(native) : InsertMediaDescriptor(m, i)]_vars

(* An index found in items is one libvlc accepts, so that an item of the   *)
(* Java list can always be removed; and items has no duplicates, inserted  *)
(* media or not.                                                           *)
ItemsWithinNative ==
    /\ Len(items) <= Len(native)
    /\ \A i, j \in Indices(items) : Item(items, i) = Item(items, j) => i = j

(* MediaList.java:164, "Removes all items from the media list.", which     *)
(* clear does not do even where nothing was inserted and no removal        *)
(* throws: the index it counts up meets the size that shrinks, and each    *)
(* second item stays.                                                      *)
ClearsAll ==
    [][items = native /\ clearing >= 0 /\ clearing' = -1 => native' = << >>]_vars
===========================================================================
