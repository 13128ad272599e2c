------------------------------ MODULE VlcData ------------------------------
(***************************************************************************)
(* The sequential parts that are proved about, with their parameters: the  *)
(* RTP header of the videos' frames and the media objects, which are       *)
(* extended, so that Init and Next are those of the objects, and the       *)
(* arrays and dictionaries.                                                *)
(***************************************************************************)
EXTENDS RtpPacket, MediaObjects, Sequences

CONSTANTS
    Elements, Junk, Marked, MaxSize,    \* of the arrays
    Keys, Values, NotFound, Hash        \* of the dictionaries

(* A value is never NULL, which stands for none.                           *)
ASSUME DictionaryAssumption == Hash \in [Keys -> Nat] /\ NotFound \notin Values

VARIABLES
    kind, p_elems, i_size,
    p_entries

Array == INSTANCE VlcArray

(* The arrays of vlc_arrays.h implement a list, and the binary search      *)
(* tells the truth of a sorted one.                                        *)
IsList == Array!IsList

Dict == INSTANCE Dictionary

(* The dictionaries of vlc_arrays.h implement a map from keys to values.   *)
IsMap == Dict!IsMap
===========================================================================
