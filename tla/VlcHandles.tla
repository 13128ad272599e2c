---------------------------- MODULE VlcHandles -----------------------------
(***************************************************************************)
(* JVLC: the Java objects that own handles of libvlc, which release them   *)
(* when they are told to or when they are finalized, whichever is first.   *)
(* Objects that became unreachable together are finalized in any order.    *)
(* Native media are counted by libvlc; a media is named by the descriptor  *)
(* that created it.  The program uses nothing it has released.             *)
(***************************************************************************)
EXTENDS Naturals, FiniteSets

CONSTANTS Descriptors, Players, Vlms, None

Owned   == {"list", "listPlayer"}
Cluster == {"jvlc"} \cup Owned \cup Vlms
Objects == Cluster \cup Descriptors \cup Players

ASSUME ObjectsAssumption ==
    /\ IsFiniteSet(Objects) /\ None \notin Objects
    /\ Descriptors \cap (Players \cup Cluster) = {}
    /\ Players \cap Cluster = {}
    /\ Vlms \cap ({"jvlc"} \cup Owned) = {}

VARIABLES
    created, released,
    held,           \* what the program refers to and may use
    vlm,            \* the fields of the objects
    mediaDescriptor, mediaPlayer, instance,
    inList,         \* libvlc: the media in the list,
    refs,           \* the references to each media,
    gone,           \* the other handles that were released,
    dangling,       \* and whether a released one was used
    closing         \* where JVLC.release is, and on which thread

fields == <<vlm, mediaDescriptor, mediaPlayer, instance>>
java   == <<created, released, held, fields>>
native == <<inList, refs, gone, dangling>>
vars   == <<java, native, closing>>

Open  == [at |-> "open"]
Steps == {"vlm", "list", "listPlayer", "instance", "done"}

TypeOK ==
    /\ created \subseteq Objects /\ released \subseteq created
    /\ held \subseteq {"jvlc"} \cup (created \ Cluster)
    /\ vlm \in Vlms \cup {None}
    /\ mediaDescriptor \in [Players -> Descriptors \cup {None}]
    /\ mediaPlayer \in [Descriptors -> Players \cup {None}]
    /\ instance \in [Descriptors -> Descriptors \cup {None}]
    /\ inList \subseteq Descriptors
    /\ refs \in [Descriptors -> Nat]
    /\ gone \subseteq {"jvlc"} \cup Owned \cup Players
    /\ dangling \in BOOLEAN
    /\ closing \in {Open} \cup [at : Steps, by : {"program", "finalizer"}]

Init ==
    /\ created = {"jvlc"} \cup Owned /\ released = {} /\ held = {"jvlc"}
    /\ vlm = None
    /\ mediaDescriptor = [p \in Players |-> None]
    /\ mediaPlayer = [d \in Descriptors |-> None]
    /\ instance = [d \in Descriptors |-> None]
    /\ inList = {} /\ refs = [d \in Descriptors |-> 0]
    /\ gone = {} /\ dangling = FALSE
    /\ closing = Open

---------------------------------------------------------------------------
(* Which object keeps which reachable.  The cluster lives and dies as one: *)
(* holding a part of it counts as holding the JVLC.  What the program has  *)
(* released it no longer holds.                                            *)
Refers(o) ==
    CASE o = "jvlc" -> Owned \cup ({vlm} \ {None})
      [] o \in Owned \cup Vlms -> {"jvlc"}
      [] o \in Players -> {mediaDescriptor[o]} \ {None}
      [] o \in Descriptors -> {mediaPlayer[o]} \ {None}

Closing(thread) == closing # Open /\ closing.at # "done" /\ closing.by = thread

Roots     == held \cup (IF Closing("program") THEN {"jvlc"} ELSE {})
With(S)   == S \cup UNION {Refers(o) : o \in S}
Reachable == With(With(Roots))

Usable(o) ==
    /\ o \in created \ released
    /\ o \in held \/ (o \in Cluster /\ "jvlc" \in held)

---------------------------------------------------------------------------
(* What the release methods do once the flag is set.                       *)

(* libvlc counts the references to a media.                                *)
Forget(m) ==
    /\ refs' = [refs EXCEPT ![m] = IF @ = 0 THEN 0 ELSE @ - 1]
    /\ dangling' = (dangling \/ refs[m] = 0)
    /\ UNCHANGED <<inList, gone>>

(* Mutant: the player takes its descriptor along.                          *)
FreePlayerMutant(p) ==
    LET m == instance[mediaDescriptor[p]]
    IN  /\ gone' = gone \cup {p}
        /\ refs' = [refs EXCEPT ![m] = IF @ < 2 THEN 0 ELSE @ - 2]
        /\ dangling' = (dangling \/ p \in gone \/ refs[m] < 2)
        /\ UNCHANGED inList

(* A player holds a reference to its media.                                *)
FreePlayer(p) ==
    LET m == instance[mediaDescriptor[p]]
    IN  /\ gone' = gone \cup {p}
        /\ refs' = [refs EXCEPT ![m] = IF @ = 0 THEN 0 ELSE @ - 1]
        /\ dangling' = (dangling \/ p \in gone \/ refs[m] = 0)
        /\ UNCHANGED inList

(* The list player keeps its list, the list its items.                     *)
FreeOwned(o) ==
    LET items == IF Owned \subseteq gone \cup {o} THEN inList ELSE {}
    IN  /\ gone' = gone \cup {o}
        /\ inList' = inList \ items
        /\ refs' = [m \in Descriptors |-> IF m \in items /\ refs[m] > 0 THEN refs[m] - 1
                                          ELSE refs[m]]
        /\ dangling' = (dangling \/ {"jvlc", o} \cap gone # {}
                                 \/ \E m \in items : refs[m] = 0)

(* libvlc_vlm_release is given the instance.                               *)
FreeVlm ==
    /\ dangling' = (dangling \/ "jvlc" \in gone)
    /\ UNCHANGED <<inList, refs, gone>>

Free(o) ==
    \/ o \in Descriptors /\ Forget(instance[o])
    \/ o \in Players /\ FreePlayer(o)
    \/ o \in Owned /\ FreeOwned(o)
    \/ o \in Vlms /\ FreeVlm

(* release of any object but JVLC: nothing if the flag is set.             *)
Releases(o) ==
    IF o \in released THEN UNCHANGED <<released, native>>
    ELSE released' = released \cup {o} /\ Free(o)

---------------------------------------------------------------------------
(* JVLC.release, by the program or by the finalizer.                       *)

BeginRelease(thread) ==
    /\ "jvlc" \notin released
    /\ released' = released \cup {"jvlc"}
    /\ closing' = [at |-> "vlm", by |-> thread]
    /\ UNCHANGED <<created, fields, native>>

At(step, next) == closing # Open /\ closing.at = step /\ closing' = [closing EXCEPT !.at = next]

ReleaseVlm ==
    /\ At("vlm", "list")
    /\ IF vlm = None THEN UNCHANGED <<released, native>> ELSE Releases(vlm)
    /\ vlm' = None
    /\ UNCHANGED <<created, held, mediaDescriptor, mediaPlayer, instance>>

ReleaseList ==
    /\ At("list", "listPlayer") /\ Releases("list")
    /\ UNCHANGED <<created, held, fields>>

(* Mutant: the list player is forgotten.                                   *)
ReleaseListPlayerMutant ==
    /\ At("listPlayer", "instance")
    /\ UNCHANGED <<java, native>>

ReleaseListPlayer ==
    /\ At("listPlayer", "instance") /\ Releases("listPlayer")
    /\ UNCHANGED <<created, held, fields>>

ReleaseInstance ==
    /\ At("instance", "done")
    /\ gone' = gone \cup {"jvlc"}
    /\ dangling' = (dangling \/ "jvlc" \in gone)
    /\ UNCHANGED <<java, inList, refs>>

ReleaseJvlc == ReleaseVlm \/ ReleaseList \/ ReleaseListPlayer \/ ReleaseInstance

---------------------------------------------------------------------------
(* The program, when it is not in JVLC.release.                            *)

Hold(o) == held' = held \cup {o}

GetVLM(v) ==
    /\ Usable("jvlc") /\ v \notin created
    /\ IF vlm = None THEN UNCHANGED <<released, native>> ELSE Releases(vlm)
    /\ created' = created \cup {v} /\ vlm' = v
    /\ UNCHANGED <<held, mediaDescriptor, mediaPlayer, instance, closing>>

(* new MediaDescriptor(jvlc, mrl).                                         *)
NewDescriptor(d) ==
    /\ Usable("jvlc") /\ d \notin created
    /\ created' = created \cup {d} /\ Hold(d)
    /\ instance' = [instance EXCEPT ![d] = d]
    /\ refs' = [refs EXCEPT ![d] = 1]
    /\ UNCHANGED <<released, vlm, mediaDescriptor, mediaPlayer, inList, gone, dangling, closing>>

(* The player is made at the first call.                                   *)
GetMediaPlayer(d, p) ==
    /\ Usable(d)
    /\ IF mediaPlayer[d] = None
       THEN /\ p \notin created
            /\ created' = created \cup {p}
            /\ mediaPlayer' = [mediaPlayer EXCEPT ![d] = p]
            /\ mediaDescriptor' = [mediaDescriptor EXCEPT ![p] = d]
            /\ refs' = [refs EXCEPT ![instance[d]] = @ + 1]
       ELSE /\ p = mediaPlayer[d]
            /\ UNCHANGED <<created, mediaPlayer, mediaDescriptor, refs>>
    /\ Hold(p)
    /\ UNCHANGED <<released, vlm, instance, inList, gone, dangling, closing>>

(* JVLC.play(media): descriptor, player, descriptor.release().             *)
PlayMedia(d, p) ==
    /\ Usable("jvlc") /\ {d, p} \cap created = {}
    /\ created' = created \cup {d, p} /\ Hold(p) /\ released' = released \cup {d}
    /\ instance' = [instance EXCEPT ![d] = d]
    /\ mediaDescriptor' = [mediaDescriptor EXCEPT ![p] = d]
    /\ refs' = [refs EXCEPT ![d] = 1]
    /\ UNCHANGED <<vlm, mediaPlayer, inList, gone, dangling, closing>>

GetMediaDescriptor(p) ==
    /\ Usable(p) /\ mediaDescriptor[p] \notin released /\ Hold(mediaDescriptor[p])
    /\ UNCHANGED <<created, released, fields, native, closing>>

(* What addMedia and removeMedia do to libvlc's list, where a media is at  *)
(* most once.                                                              *)
AddMedia(d) ==
    /\ Usable("list") /\ Usable(d) /\ instance[d] \notin inList
    /\ inList' = inList \cup {instance[d]}
    /\ refs' = [refs EXCEPT ![instance[d]] = @ + 1]
    /\ UNCHANGED <<java, gone, dangling, closing>>

(* addMedia(mrl) leaves its descriptor to the finalizer.                   *)
AddMrl(d) ==
    /\ Usable("list") /\ d \notin created
    /\ created' = created \cup {d}
    /\ instance' = [instance EXCEPT ![d] = d]
    /\ inList' = inList \cup {d}
    /\ refs' = [refs EXCEPT ![d] = 2]
    /\ UNCHANGED <<released, held, vlm, mediaDescriptor, mediaPlayer, gone, dangling, closing>>

RemoveMedia(m) ==
    /\ Usable("list") /\ m \in inList
    /\ inList' = inList \ {m}
    /\ refs' = [refs EXCEPT ![m] = @ - 1]
    /\ UNCHANGED <<java, gone, dangling, closing>>

(* Mutant: libvlc's reference is taken for the program's own.              *)
GetMediaDescriptorAtIndexMutant(m, d) ==
    /\ Usable("list") /\ m \in inList /\ d \notin created
    /\ created' = created \cup {d} /\ Hold(d)
    /\ instance' = [instance EXCEPT ![d] = m]
    /\ UNCHANGED <<released, vlm, mediaDescriptor, mediaPlayer, native, closing>>

(* libvlc retains an item it returns.                                      *)
GetMediaDescriptorAtIndex(m, d) ==
    /\ Usable("list") /\ m \in inList /\ d \notin created
    /\ created' = created \cup {d} /\ Hold(d)
    /\ instance' = [instance EXCEPT ![d] = m]
    /\ refs' = [refs EXCEPT ![m] = @ + 1]
    /\ UNCHANGED <<released, vlm, mediaDescriptor, mediaPlayer, inList, gone, dangling, closing>>

Release(o) ==
    /\ Usable(o) /\ held' = held \ {o}
    /\ \/ o = "jvlc" /\ BeginRelease("program")
       \/ /\ o # "jvlc" /\ Releases(o)
          /\ UNCHANGED <<created, fields, closing>>

Drop(o) ==
    /\ o \in held /\ held' = held \ {o}
    /\ UNCHANGED <<created, released, fields, native, closing>>

MediaStep ==
    \E d \in Descriptors :
        \/ NewDescriptor(d) \/ AddMedia(d) \/ AddMrl(d) \/ RemoveMedia(d)
        \/ \E p \in Players : GetMediaPlayer(d, p) \/ PlayMedia(d, p)
        \/ \E m \in Descriptors : GetMediaDescriptorAtIndex(m, d)

ProgramStep ==
    /\ ~Closing("program")
    /\ \/ MediaStep
       \/ \E v \in Vlms : GetVLM(v)
       \/ \E p \in Players : GetMediaDescriptor(p)
       \/ \E o \in Objects : Release(o) \/ Drop(o)

---------------------------------------------------------------------------
(* The finalizer's thread: an unreachable object is released.  Finalizing  *)
(* one that is released already does nothing.                              *)
Finalize(o) ==
    /\ o \in created \ (released \cup Reachable)
    /\ UNCHANGED held
    /\ \/ o = "jvlc" /\ BeginRelease("finalizer")
       \/ /\ o # "jvlc" /\ Releases(o)
          /\ UNCHANGED <<created, fields, closing>>

FinalizerStep == ~Closing("finalizer") /\ \E o \in Objects : Finalize(o)

Next == ProgramStep \/ FinalizerStep \/ ReleaseJvlc

Spec == Init /\ [][Next]_vars

---------------------------------------------------------------------------
(* libvlc's count of a media is the number of Java objects that have not   *)
(* released their reference, and one for the list.                         *)
RefsExact ==
    \A m \in Descriptors :
        refs[m] = Cardinality({d \in (Descriptors \cap created) \ released : instance[d] = m})
                + Cardinality({p \in (Players \cap created) \ released :
                                  instance[mediaDescriptor[p]] = m})
                + Cardinality({m} \cap inList)

(* The native handle the methods of an object pass.                        *)
Alive(o) ==
    /\ o \in Descriptors => refs[instance[o]] > 0
    /\ o \in Players => o \notin gone /\ refs[instance[mediaDescriptor[o]]] > 0
    /\ o \in Owned => o \notin gone
    /\ o \in Cluster => "jvlc" \notin gone

(* What is not released has a live handle, in whatever order the program   *)
(* and the finalizer release the other objects; and what is released has   *)
(* given its own back, so that nothing is left in libvlc at the end.       *)
HandlesMatch ==
    \A o \in created :
        IF o \in released THEN o \in Owned \cup Players => o \in gone ELSE Alive(o)

(* No handle is released twice, and none is used in a release when what it *)
(* belongs to is gone.                                                     *)
NothingDangles == ~dangling

---------------------------------------------------------------------------
(* The inductive invariant: what an object points to was created, how far  *)
(* JVLC.release has come, and which handles went with it.                  *)

Links ==
    /\ {"jvlc"} \cup Owned \subseteq created /\ {vlm} \ {None} \subseteq created
    /\ \A d \in Descriptors : mediaPlayer[d] \in created \cup {None}
    /\ \A d \in Descriptors \cap created : instance[d] \in Descriptors \cap created
    /\ \A p \in Players \cap created : mediaDescriptor[p] \in Descriptors \cap created
    /\ inList \subseteq created

Past(steps) == closing # Open /\ closing.at \in steps

Closes ==
    /\ closing # Open <=> "jvlc" \in released
    /\ Past({"done"}) <=> "jvlc" \in gone
    /\ Past({"listPlayer", "instance", "done"}) => "list" \in released
    /\ Past({"instance", "done"}) => "listPlayer" \in released
    /\ \A v \in Vlms \cap created : v \in released \/ (v = vlm /\ ~Past(Steps \ {"vlm"}))

GoneMatch == \A o \in Owned \cup Players : o \in gone <=> o \in released

IInv == TypeOK /\ Links /\ Closes /\ GoneMatch /\ RefsExact /\ NothingDangles
===========================================================================
