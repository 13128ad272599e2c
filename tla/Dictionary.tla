----------------------------- MODULE Dictionary -----------------------------
(***************************************************************************)
(* The dictionaries of vlc_arrays.h: an array of chains, a key in the      *)
(* chain its hash says.  A key goes in front of its chain; when the chain  *)
(* grows longer than three, everything moves to a bigger array.  Callers   *)
(* remove a key before they insert it again.                               *)
(***************************************************************************)
EXTENDS Naturals, SequencesExt

CONSTANTS
    Keys, Values,
    NotFound,   \* kVLCDictionaryNotFound
    Hash        \* of a key, before the remainder by the size

VARIABLE p_entries  \* the chains; none for NULL

Sizes == 0..1   \* what vlc_dictionary_init is called with

Empty(i_size) == [i \in 1..i_size |-> <<>>]

Init == \E i_size \in Sizes : p_entries = Empty(i_size)

DictHash(key, i_size) == (Hash[key] % i_size) + 1

(* Mutant: p_next is read after it was overwritten.                        *)
EntriesMutant(dict) == FlattenSeq([i \in DOMAIN dict |-> SubSeq(dict[i], 1, 1)])

(* All entries, from the front of each chain.                              *)
Entries(dict) == FlattenSeq(dict)

(* An entry goes in front of the chain of its key.                         *)
InFront(dict, entry) ==
    [dict EXCEPT ![DictHash(entry.key, Len(dict))] = <<entry>> \o @]

(* All of them, one after the other, into a bigger array.                  *)
Rebuilt(dict, i_new) ==
    LET old == Entries(dict)
        new_dict[n \in 0..Len(old)] ==
          IF n = 0 THEN Empty(i_new) ELSE InFront(new_dict[n - 1], old[n])
    IN  new_dict[Len(old)]

(* vlc_dictionary_insert.                                                  *)
Inserted(dict, key, val) ==
    LET made  == IF dict = <<>> THEN Empty(1) ELSE dict
        grown == InFront(made, [key |-> key, val |-> val])
    IN  IF Len(grown[DictHash(key, Len(made))]) > 3
        THEN Rebuilt(grown, ((Len(made) + 2) * 3) \div 2)
        ELSE grown

Matches(chain, key) == {i \in DOMAIN chain : chain[i].key = key}
FirstOf(S) == CHOOSE i \in S : \A j \in S : i <= j

(* The first entry of the chain with the very key.                         *)
vlc_dictionary_value_for_key(key) ==
    LET chain == p_entries[DictHash(key, Len(p_entries))]
    IN  IF p_entries = <<>> THEN NotFound
        ELSE IF Matches(chain, key) = {} THEN NotFound
        ELSE chain[FirstOf(Matches(chain, key))].val

vlc_dictionary_keys_count == Len(FlattenSeq(p_entries))

vlc_dictionary_all_keys ==
    [i \in 1..vlc_dictionary_keys_count |-> FlattenSeq(p_entries)[i].key]

vlc_dictionary_insert(key, val) ==
    /\ vlc_dictionary_value_for_key(key) = NotFound
    /\ p_entries' = Inserted(p_entries, key, val)

vlc_dictionary_remove_value_for_key(key) ==
    LET i_pos == DictHash(key, Len(p_entries))
        found == Matches(p_entries[i_pos], key)
    IN  /\ p_entries # <<>> /\ found # {}
        /\ p_entries' = [p_entries EXCEPT ![i_pos] = RemoveAt(@, FirstOf(found))]

vlc_dictionary_clear == p_entries # <<>> /\ p_entries' = <<>>

Next ==
    \/ \E k \in Keys, v \in Values : vlc_dictionary_insert(k, v)
    \/ \E k \in Keys : vlc_dictionary_remove_value_for_key(k)
    \/ vlc_dictionary_clear

Spec == Init /\ [][Next]_p_entries

---------------------------------------------------------------------------
(* An entry is in the chain its key's hash says, and there no other has    *)
(* its key.                                                                *)
IInv ==
    /\ p_entries \in Seq(Seq([key : Keys, val : Values]))
    /\ \A i \in 1..Len(p_entries) : \A j, k \in 1..Len(p_entries[i]) :
          /\ DictHash(p_entries[i][j].key, Len(p_entries)) = i
          /\ p_entries[i][j].key = p_entries[i][k].key => j = k

(* The keys listed are those with a value, each once.                      *)
KeysListed ==
    /\ ToSet(vlc_dictionary_all_keys) =
         {k \in Keys : vlc_dictionary_value_for_key(k) # NotFound}
    /\ IsInjective(vlc_dictionary_all_keys)

(* Looking up is the map from keys to the values they were inserted with,  *)
(* through collisions, removals and rebuilding, and the keys listed are    *)
(* its domain.                                                             *)
Map == INSTANCE KeyValue
         WITH value <- [k \in Keys |-> vlc_dictionary_value_for_key(k)]

IsMap == Map!Spec /\ []KeysListed
===========================================================================
