----------------------------- MODULE VlcPlayer -----------------------------
(***************************************************************************)
(* JVLC: a MediaPlayer with its listeners, between the program's thread    *)
(* and the thread on which libvlc delivers events.  Every native call goes *)
(* through one lock, that of LibVlc.SYNC_INSTANCE; a callback runs without *)
(* it.  A listener does what the one in VLCExample does.                   *)
(***************************************************************************)
EXTENDS Naturals, Sequences

CONSTANT Listeners

(* Ordinals of LibVlcEventType.                                            *)
Playing     == 9
Paused      == 10
Stopped     == 11
EndReached  == 14
TimeChanged == 16
PositionChanged == 17

Attached == Playing..TimeChanged
Detached == Playing..PositionChanged

(* Events on which the listener asks for the media's MRL.                  *)
Reading == {Playing, Paused, Stopped, EndReached}

VARIABLES
    waits,      \* whether libvlc_event_detach waits for a running callback
    app,        \* where the program's thread is in addListener or release
    callbacks,
    released,   \* the flag
    started, freed, \* the native player
    subscribed, \* listeners and events, as libvlc knows them
    event       \* the callback libvlc's thread runs

objects == <<callbacks, released>>
native  == <<started, freed, subscribed>>
vars    == <<waits, app, objects, native, event>>

Known   == {callbacks[i] : i \in 1..Len(callbacks)}

Idle    == [at |-> "idle"]
AppStates ==
    {Idle, [at |-> "free"]}
    \cup [at : {"attach"}, listener : Listeners, event : Attached]
    \cup [at : {"detach", "detaching"}, index : Nat, event : Detached]
Callbacks == [at : {"callback"}, listener : Listeners, event : Detached]

TypeOK ==
    /\ waits \in BOOLEAN /\ app \in AppStates
    /\ callbacks \in Seq(Listeners)
    /\ {released, started, freed} \subseteq BOOLEAN
    /\ subscribed \subseteq Listeners \X Detached
    /\ event \in {Idle} \cup Callbacks

Init ==
    /\ waits \in BOOLEAN /\ app = Idle
    /\ callbacks = <<>> /\ released = FALSE
    /\ started = FALSE /\ freed = FALSE /\ subscribed = {}
    /\ event = Idle

---------------------------------------------------------------------------
(* The program's thread; it calls nothing on a player it has released.     *)

play ==
    /\ app = Idle /\ ~released
    /\ started' = TRUE
    /\ UNCHANGED <<waits, app, objects, freed, subscribed, event>>

AddListener(l) ==
    /\ app = Idle /\ ~released /\ l \notin Known
    /\ app' = [at |-> "attach", listener |-> l, event |-> Playing]
    /\ UNCHANGED <<waits, objects, native, event>>

(* The list knows the callback when it is attached to all events.          *)
Attach ==
    /\ app.at = "attach"
    /\ subscribed' = subscribed \cup {<<app.listener, app.event>>}
    /\ IF app.event + 1 \in Attached
       THEN /\ app' = [app EXCEPT !.event = @ + 1]
            /\ UNCHANGED callbacks
       ELSE /\ app' = Idle
            /\ callbacks' = Append(callbacks, app.listener)
    /\ UNCHANGED <<waits, released, started, freed, event>>

(* The first event of a callback to detach, or the end of the list.        *)
AtCallback(i) ==
    IF i > Len(callbacks) THEN [at |-> "free"]
    ELSE [at |-> "detach", index |-> i, event |-> Playing]

(* Mutant: the player is freed with its callbacks attached.                *)
ReleaseMutant ==
    /\ app = Idle /\ ~released
    /\ released' = TRUE /\ app' = [at |-> "free"]
    /\ UNCHANGED <<waits, callbacks, native, event>>

(* By the program, or by the finalizer; once.                              *)
Release ==
    /\ app = Idle /\ ~released
    /\ released' = TRUE /\ app' = AtCallback(1)
    /\ UNCHANGED <<waits, callbacks, native, event>>

(* Mutant: the range is the one of addListener, shortened by one.          *)
LastDetachedMutant == TimeChanged - 1

LastDetached == PositionChanged

(* What is left to do when the event at hand is detached.                  *)
DetachEvent ==
    /\ subscribed' = subscribed \ {<<callbacks[app.index], app.event>>}
    /\ app' = IF app.event < LastDetached
              THEN [app EXCEPT !.at = "detach", !.event = @ + 1]
              ELSE AtCallback(app.index + 1)
    /\ UNCHANGED <<waits, objects, started, freed, event>>

Detach == app.at = "detach" /\ (waits => event = Idle) /\ DetachEvent

(* libvlc waits for the callback, inside the call, with the lock held.     *)
DetachWaits ==
    /\ app.at = "detach" /\ waits /\ event # Idle
    /\ app' = [app EXCEPT !.at = "detaching"]
    /\ UNCHANGED <<waits, objects, native, event>>

DetachReturns == app.at = "detaching" /\ event = Idle /\ DetachEvent

(* Mutant: the native player is forgotten.                                 *)
FreeMutant ==
    /\ app.at = "free" /\ app' = Idle
    /\ UNCHANGED <<waits, objects, native, event>>

Free ==
    /\ app.at = "free" /\ app' = Idle
    /\ freed' = TRUE
    /\ UNCHANGED <<waits, objects, started, subscribed, event>>

Continue == Attach \/ Detach \/ DetachWaits \/ DetachReturns \/ Free

AppStep ==
    play \/ (\E l \in Listeners : AddListener(l)) \/ Release \/ Continue

---------------------------------------------------------------------------
(* libvlc's thread.  While detaching waits no further callback begins.     *)

Deliver ==
    /\ app.at # "detaching"
    /\ started /\ ~freed /\ event = Idle
    /\ \E s \in subscribed : event' = [at |-> "callback", listener |-> s[1], event |-> s[2]]
    /\ UNCHANGED <<waits, app, objects, native>>

(* The listener's method, for the events that have one, calls nothing.     *)
Return ==
    /\ event # Idle /\ event.event \notin Reading
    /\ event' = Idle
    /\ UNCHANGED <<waits, app, objects, native>>

(* The listener's getMrl is a native call: it needs the lock.              *)
ReadMrl ==
    /\ event # Idle /\ event.event \in Reading
    /\ app.at # "detaching"
    /\ event' = Idle
    /\ UNCHANGED <<waits, app, objects, native>>

EventStep == Deliver \/ Return \/ ReadMrl

Next == AppStep \/ EventStep

(* A call goes on, a callback returns when it can; nobody has to call.     *)
Spec ==
    /\ Init /\ [][Next]_vars
    /\ WF_vars(Continue) /\ WF_vars(Return) /\ WF_vars(ReadMrl)

---------------------------------------------------------------------------
(* Between calls libvlc knows exactly the callbacks in the list, and none  *)
(* after release: what addListener attaches release detaches.              *)
SubscriptionsMatch ==
    app = Idle => subscribed = (IF released THEN {} ELSE Known \X Attached)

(* When detaching waits, no listener runs any more once release has freed  *)
(* the player.                                                             *)
QuietAfterRelease == waits /\ freed => event = Idle

(* release returns, unless detaching waits, lock in hand, for a listener   *)
(* that waits for the lock; if detaching does not wait it always returns.  *)
Stuck == app.at = "detaching" /\ event # Idle /\ event.event \in Reading

ReleaseEnds == released ~> (freed \/ Stuck)

---------------------------------------------------------------------------
(* The inductive invariant: what libvlc knows in the midst of addListener  *)
(* and release, and that a callback that runs is known as long as          *)
(* detaching waits for it.                                                 *)

NoDuplicates ==
    \A i, j \in 1..Len(callbacks) : callbacks[i] = callbacks[j] => i = j

Attaching ==
    app.at = "attach" =>
        /\ ~released /\ app.listener \notin Known
        /\ subscribed = (Known \X Attached) \cup ({app.listener} \X (Playing..app.event - 1))

(* What is attached still when callback i has lost its events before e.    *)
Left(i, e) ==
    {s \in Listeners \X Attached :
        \E j \in i..Len(callbacks) : s[1] = callbacks[j] /\ (j = i => s[2] >= e)}

Detaching ==
    app.at \in {"detach", "detaching"} =>
        /\ released /\ app.index \in 1..Len(callbacks)
        /\ subscribed = Left(app.index, app.event)

Freeing ==
    /\ app.at = "free" => released /\ subscribed = {}
    /\ freed => released /\ app = Idle

CallbackKnown ==
    waits /\ event # Idle => <<event.listener, event.event>> \in subscribed

IInv ==
    /\ TypeOK /\ NoDuplicates /\ Attaching /\ Detaching /\ Freeing
    /\ SubscriptionsMatch /\ CallbackKnown
===========================================================================
