---------------------------- MODULE MediaObjects ----------------------------
(***************************************************************************)
(* The objects the headers of the VLC SDK make, copy and delete in line:   *)
(* titles and attachments (vlc_input.h), the media of the VLM and their    *)
(* instances (vlc_vlm.h), programme guides (vlc_epg.h) and meta data       *)
(* (vlc_meta.h).  An object owns blocks from strdup and malloc; deleting   *)
(* it must free each of them, and no block of another.                     *)
(*                                                                         *)
(* Memory does not run out.  A block freed is used again by the next       *)
(* allocation.                                                             *)
(***************************************************************************)
EXTENDS Integers, FiniteSets, Functions

CONSTANTS
    Slots,      \* bound: objects at the same time
    MaxBlocks,  \* bound: blocks at the same time
    Starts,     \* when an event of a guide may start
    Null

VARIABLES
    heap,       \* the blocks in use, and what each is for
    objects,
    replaced    \* history: AddExtra has freed a value that a merge had put
                \* into two dictionaries

vars == <<heap, objects, replaced>>

Blocks == 1..MaxBlocks

(* Of fields that are treated alike, one stands for all: names, mime type   *)
(* and description; inputs and options; the texts of an event.             *)
TitleFields      == {"psz_name", "seekpoint"}
AttachmentFields == {"psz_name", "p_data"}
MediaFields      == {"psz_name", "ppsz_input", "psz_mux"}
InstanceFields   == {"psz_name"}
Events           == {"event1", "event2"}
GuideFields      == {"psz_name"} \cup Events
Tags             == {"tag1", "tag2"}
MetaFields       == {"ppsz_meta"} \cup Tags

Text           == [of |-> "text", i_start |-> 0]
Tag            == [of |-> "tag", i_start |-> 0]
Event(i_start) == [of |-> "event", i_start |-> i_start]

(* b_vod is a media's, p_current a guide's.                                *)
Object(kind, own) ==
    [kind |-> kind, own |-> own, b_vod |-> FALSE, p_current |-> Null]

Init == heap = <<>> /\ objects = [s \in Slots |-> Null] /\ replaced = FALSE

---------------------------------------------------------------------------
(* Memory.                                                                 *)

(* A new block for each of the fields, of those that are not kept.         *)
Room(kept)           == Blocks \ DOMAIN kept
Fits(kept, fields)   == Cardinality(fields) <= Cardinality(Room(kept))
Placed(kept, fields) == CHOOSE at \in Injection(fields, Room(kept)) : TRUE

(* A map changed by another.                                               *)
Over(new, old) ==
    [x \in DOMAIN new \cup DOMAIN old |-> IF x \in DOMAIN new THEN new[x] ELSE old[x]]

Allocated(kept, at, use) == Over([b \in Range(at) |-> use], kept)

Freed(blocks) == Restrict(heap, DOMAIN heap \ blocks)

Is(s, kind) == objects[s] # Null /\ objects[s].kind = kind
Own(s)      == objects[s].own
Set(s)      == {f \in DOMAIN Own(s) : Own(s)[f] # Null}
Blank(fields) == [f \in fields |-> Null]

Owns(s, f, b) == objects[s] # Null /\ f \in DOMAIN Own(s) /\ Own(s)[f] = b

(* An object whose fields, some of them, are given copies of their own.    *)
Make(s, kind, fields, given) ==
    LET at == Placed(heap, given)
    IN  /\ objects[s] = Null /\ Fits(heap, given)
        /\ objects' = [objects EXCEPT ![s] = Object(kind, Over(at, Blank(fields)))]
        /\ heap' = Allocated(heap, at, Text)

(* The field is set; what it was set to is freed, if free is.              *)
Assign(s, field, use, free) ==
    LET kept == Freed(IF free THEN {Own(s)[field]} ELSE {})
        at   == Placed(kept, {field})
    IN  /\ Fits(kept, {field})
        /\ objects' = [objects EXCEPT ![s].own = Over(at, @)]
        /\ heap' = Allocated(kept, at, use)

(* A copy of the fields of s that are set.                                 *)
Copy(s, d, fields) ==
    LET copied == Set(s) \cap fields
        at     == Placed(heap, copied)
    IN  /\ objects[d] = Null /\ Fits(heap, copied)
        /\ objects' = [objects EXCEPT ![d] =
                          [objects[s] EXCEPT !.own = Over(at, Blank(DOMAIN @))]]
        /\ heap' = Allocated(heap, at, Text)

Destroy(s, fields) ==
    /\ heap' = Freed({Own(s)[f] : f \in fields})
    /\ objects' = [objects EXCEPT ![s] = Null]

(* Whoever made the object sets a field of it.                             *)
Fill(s, field) == Own(s)[field] = Null /\ Assign(s, field, Text, FALSE)

---------------------------------------------------------------------------
(* Titles, with their seek points, and attachments.                        *)

vlc_input_title_New(s) == Make(s, "title", TitleFields, {})

vlc_input_title_Duplicate(s, d) == Is(s, "title") /\ Copy(s, d, TitleFields)
vlc_input_title_Delete(s)       == Is(s, "title") /\ Destroy(s, TitleFields)

(* A name that is missing becomes an empty one.                            *)
vlc_input_attachment_New(s, data) ==
    Make(s, "attachment", AttachmentFields,
         AttachmentFields \ IF data THEN {} ELSE {"p_data"})

vlc_input_attachment_Duplicate(s, d) ==
    /\ Is(s, "attachment")
    /\ vlc_input_attachment_New(d, Own(s).p_data # Null)

vlc_input_attachment_Delete(s) == Is(s, "attachment") /\ Destroy(s, AttachmentFields)

---------------------------------------------------------------------------
(* The media of the VLM.                                                   *)

vlm_media_New(s) == Make(s, "media", MediaFields, {})

(* Whoever made the media decides what it is before it has a mux.          *)
SetVod(s) ==
    /\ Is(s, "media") /\ ~objects[s].b_vod
    /\ objects' = [objects EXCEPT ![s].b_vod = TRUE]
    /\ UNCHANGED heap

VodFields(s) == IF objects[s].b_vod THEN MediaFields ELSE MediaFields \ {"psz_mux"}

vlm_media_Duplicate(s, d) == Is(s, "media") /\ Copy(s, d, VodFields(s))
vlm_media_Delete(s)       == Is(s, "media") /\ Destroy(s, VodFields(s))

vlm_media_instance_New(s)    == Make(s, "instance", InstanceFields, {})
vlm_media_instance_Delete(s) == Is(s, "instance") /\ Destroy(s, InstanceFields)

---------------------------------------------------------------------------
(* Programme guides.                                                       *)

vlc_epg_New(s, named) ==
    Make(s, "guide", GuideFields, IF named THEN {"psz_name"} ELSE {})

vlc_epg_AddEvent(s, i_start) ==
    /\ Is(s, "guide")
    /\ \E f \in Events :
          /\ Own(s)[f] = Null /\ (f = "event1" \/ Own(s).event1 # Null)
          /\ Assign(s, f, Event(i_start), FALSE)

(* The first event that starts then; none for a negative number.  One that *)
(* was freed, as it may be once a value was replaced, may hold anything.   *)
vlc_epg_SetCurrent(s, i_start) ==
    /\ Is(s, "guide")
    /\ \E found \in SUBSET (Events \cap Set(s)) :
          LET first == IF "event1" \in found THEN "event1" ELSE "event2"
          IN  /\ \A f \in Events \cap Set(s) : Own(s)[f] \in DOMAIN heap =>
                     (f \in found <=> heap[Own(s)[f]] = Event(i_start))
              /\ objects' = [objects EXCEPT ![s].p_current =
                                IF i_start < 0 \/ found = {} THEN Null ELSE Own(s)[first]]
    /\ UNCHANGED heap

vlc_epg_Delete(s) == Is(s, "guide") /\ Destroy(s, GuideFields)

---------------------------------------------------------------------------
(* Meta data: fixed fields, and a dictionary of tags.                      *)

vlc_meta_New(s) == Make(s, "meta", MetaFields, {})

vlc_meta_Set(s, val) ==
    /\ Is(s, "meta")
    /\ IF val THEN Assign(s, "ppsz_meta", Text, TRUE)
       ELSE /\ objects' = [objects EXCEPT ![s].own.ppsz_meta = Null]
            /\ heap' = Freed({Own(s).ppsz_meta})

(* The value that was there is freed, whoever else has it.                 *)
Shared(s, tag) ==
    \E t \in Slots \ {s} : \E b \in Blocks : Owns(s, tag, b) /\ Owns(t, tag, b)

vlc_meta_AddExtra(s, tag) ==
    /\ Is(s, "meta") /\ Assign(s, tag, Tag, TRUE)
    /\ replaced' = (replaced \/ Shared(s, tag))

(* The fields that are set are copied; of the tags, the values themselves  *)
(* go into the other dictionary, and the values they replace are lost.     *)
(* Nobody merges meta data into themselves.                                *)
vlc_meta_Merge(d, s) ==
    LET moved  == Tags \cap Set(s)
        copied == {"ppsz_meta"} \cap Set(s)
        kept   == Freed({Own(d)[f] : f \in copied})
        at     == Placed(kept, copied)
    IN  /\ d # s /\ Is(d, "meta") /\ Is(s, "meta") /\ Fits(kept, copied)
        /\ objects' = [objects EXCEPT ![d].own = Over(at, Over(Restrict(Own(s), moved), @))]
        /\ heap' = Allocated(kept, at, Text)

(* Mutant: the dictionary's values are freed with it.                      *)
MetaDeleteMutant(s) == Is(s, "meta") /\ Destroy(s, MetaFields)

(* The dictionary is cleared, not the values of the tags.                  *)
vlc_meta_Delete(s) == Is(s, "meta") /\ Destroy(s, MetaFields \ Tags)

---------------------------------------------------------------------------
ObjectStep(s) ==
    /\ UNCHANGED replaced
    /\ \/ vlc_input_title_New(s) \/ vlc_input_title_Delete(s)
       \/ Is(s, "title") /\ \E f \in TitleFields : Fill(s, f)
       \/ \E data \in BOOLEAN : vlc_input_attachment_New(s, data)
       \/ vlc_input_attachment_Delete(s)
       \/ vlm_media_New(s) \/ SetVod(s) \/ vlm_media_Delete(s)
       \/ Is(s, "media") /\ \E f \in VodFields(s) : Fill(s, f)
       \/ vlm_media_instance_New(s) \/ vlm_media_instance_Delete(s)
       \/ Is(s, "instance") /\ Fill(s, "psz_name")
       \/ \E named \in BOOLEAN : vlc_epg_New(s, named)
       \/ \E i_start \in Starts :
             vlc_epg_AddEvent(s, i_start) \/ vlc_epg_SetCurrent(s, i_start)
       \/ vlc_epg_Delete(s)
       \/ vlc_meta_New(s) \/ vlc_meta_Delete(s)
       \/ \E val \in BOOLEAN : vlc_meta_Set(s, val)
       \/ \E d \in Slots :
             \/ vlc_input_title_Duplicate(s, d) \/ vlc_input_attachment_Duplicate(s, d)
             \/ vlm_media_Duplicate(s, d) \/ vlc_meta_Merge(d, s)

Next == \E s \in Slots : ObjectStep(s) \/ \E tag \in Tags : vlc_meta_AddExtra(s, tag)

Spec == Init /\ [][Next]_vars

---------------------------------------------------------------------------
Fields == TitleFields \cup AttachmentFields \cup MediaFields \cup GuideFields \cup MetaFields

Owners(b) == {o \in Slots \X Fields : Owns(o[1], o[2], b)}

(* Until AddExtra frees a value that is in two dictionaries, what an       *)
(* object points to has not been freed and is no other's, except that      *)
(* several meta data may hold the value of a tag, under the same tag;      *)
(* every block but the value of a tag has an owner.  And a guide's current *)
(* event is always one of its own ("should be the same than one of         *)
(* pp_event entry", vlc_epg.h:46).                                         *)
OwnedOnce ==
    /\ ~replaced => \A b \in Blocks :
          /\ \/ Cardinality(Owners(b)) <= 1
             \/ \E tag \in Tags : \A o \in Owners(b) : o[2] = tag
          /\ Owners(b) # {} => b \in DOMAIN heap
          /\ b \in DOMAIN heap /\ heap[b] # Tag => Owners(b) # {}
    /\ \A s \in Slots :
          objects[s] # Null /\ objects[s].p_current # Null =>
              \E f \in Events : Own(s)[f] = objects[s].p_current

---------------------------------------------------------------------------
FieldsOf ==
    [title |-> TitleFields, attachment |-> AttachmentFields, media |-> MediaFields,
     instance |-> InstanceFields, guide |-> GuideFields, meta |-> MetaFields]

ObjectsOf(kind) ==
    [kind : {kind}, own : [FieldsOf[kind] -> Blocks \cup {Null}], b_vod : BOOLEAN,
     p_current : Blocks \cup {Null}]

AllObjects == UNION {ObjectsOf(kind) : kind \in DOMAIN FieldsOf}

TypeOK ==
    /\ DOMAIN heap \subseteq Blocks
    /\ objects \in [Slots -> AllObjects \cup {Null}]
    /\ replaced \in BOOLEAN

(* No block has two owners but the value of a tag, none that has one was   *)
(* freed, a block without one was allocated for a tag, and a tag owns such *)
(* blocks only.                                                            *)
Exclusive ==
    \A s, t \in Slots : \A f, g \in Fields : \A b \in Blocks :
        Owns(s, f, b) /\ Owns(t, g, b) => f = g /\ (s = t \/ f \in Tags)

InUse ==
    \A s \in Slots : \A f \in Fields : \A b \in Blocks :
        Owns(s, f, b) => b \in DOMAIN heap /\ (f \in Tags => heap[b] = Tag)

Accounted ==
    \A b \in DOMAIN heap :
        heap[b] # Tag => \E s \in Slots : \E f \in Fields : Owns(s, f, b)

(* A media that is no VOD has no mux; only guides have a current event.    *)
Muxes ==
    \A s \in Slots :
        objects[s] # Null /\ objects[s].kind = "media" /\ ~objects[s].b_vod
            => Own(s).psz_mux = Null

Currents ==
    \A s \in Slots :
        objects[s] # Null /\ objects[s].p_current # Null =>
            /\ objects[s].kind = "guide"
            /\ \E f \in Events : Own(s)[f] = objects[s].p_current

IInv ==
    /\ TypeOK /\ Muxes /\ Currents
    /\ ~replaced => Exclusive /\ InUse /\ Accounted
===========================================================================
