-------------------------- MODULE VlcPlayer_proofs --------------------------
(***************************************************************************)
(* Listeners of a player, for every set of listeners, whether or not       *)
(* detaching waits for a running callback.                                 *)
(***************************************************************************)
EXTENDS VlcPlayer, TLAPS

(* An action that leaves app alone, or the list and what is attached.      *)
LEMMA Places ==
    ASSUME TypeOK
    PROVE  /\ app.at \in {"idle", "free", "attach", "detach", "detaching"}
           /\ app.at = "idle" <=> app = Idle
           /\ app.at = "attach" => app.listener \in Listeners /\ app.event \in Attached
           /\ app.at \in {"detach", "detaching"} => app.index \in Nat /\ app.event \in Detached
BY DEF TypeOK, AppStates, Idle

LEMMA Events ==
    ASSUME TypeOK, event # Idle
    PROVE  event.listener \in Listeners /\ event.event \in Detached
BY DEF TypeOK, Callbacks

(* No step but addListener's and release's own changes what they know.     *)
LEMMA StillAttached ==
    ASSUME IInv, TypeOK', UNCHANGED <<app, callbacks, released, subscribed, freed>>,
           CallbackKnown'
    PROVE  IInv'
BY DEF IInv, NoDuplicates, Attaching, Detaching, Freeing, SubscriptionsMatch,
       Known, Left, Idle

LEMMA PlayKeeps == ASSUME IInv, play PROVE IInv'
<1>1. TypeOK' /\ CallbackKnown'
    BY DEF IInv, TypeOK, CallbackKnown, play, objects
<1> QED BY <1>1, StillAttached DEF play, objects

LEMMA AddListenerKeeps ==
    ASSUME IInv, NEW l \in Listeners, AddListener(l)
    PROVE  IInv'
<1>1. app' = [at |-> "attach", listener |-> l, event |-> Playing]
    BY DEF AddListener
<1>2. UNCHANGED <<waits, callbacks, released, started, freed, subscribed, event>>
    BY DEF AddListener, objects, native
<1>3. TypeOK'
    BY <1>1, <1>2 DEF IInv, TypeOK, AppStates, Attached, Playing, TimeChanged
<1>4. Attaching'
  <2>1. subscribed = Known \X Attached
      BY DEF IInv, SubscriptionsMatch, AddListener
  <2>2. Playing..Playing - 1 = {}
      BY DEF Playing
  <2>3. {l} \X {} = {}
      OBVIOUS
  <2> QED BY <1>1, <1>2, <2>1, <2>2, <2>3 DEF Attaching, AddListener, Known
<1>5. Freeing'
    BY <1>1, <1>2 DEF IInv, Freeing, AddListener
<1> QED
    BY <1>1, <1>2, <1>3, <1>4, <1>5
    DEF IInv, NoDuplicates, Detaching, SubscriptionsMatch, CallbackKnown, Known, Idle

(* addListener's last step enters the listener into the list.              *)
LEMMA AppendKnown ==
    ASSUME NEW s \in Seq(Listeners), NEW l \in Listeners, l \notin {s[i] : i \in 1..Len(s)},
           \A i, j \in 1..Len(s) : s[i] = s[j] => i = j,
           NEW t, t = Append(s, l)
    PROVE  /\ t \in Seq(Listeners)
           /\ {t[i] : i \in 1..Len(t)} = {s[i] : i \in 1..Len(s)} \cup {l}
           /\ \A i, j \in 1..Len(t) : t[i] = t[j] => i = j
<1>1. Len(t) = Len(s) + 1 /\ Len(s) \in Nat /\ t[Len(s) + 1] = l
      /\ (\A i \in 1..Len(s) : t[i] = s[i]) /\ t \in Seq(Listeners)
    OBVIOUS
<1>2. 1..Len(t) = (1..Len(s)) \cup {Len(s) + 1}
    BY <1>1
<1> QED BY <1>1, <1>2

LEMMA AttachKeeps == ASSUME IInv, Attach PROVE IInv'
<1> DEFINE l == app.listener  e == app.event
<1>1. l \in Listeners /\ e \in 9..16 /\ ~released /\ l \notin Known
      /\ subscribed = (Known \X Attached) \cup ({l} \X (9..e - 1))
    BY Places DEF IInv, Attach, Attaching, Attached, Playing, TimeChanged
<1>2. UNCHANGED <<waits, released, started, freed, event>>
    BY DEF Attach
<1>3. subscribed' = subscribed \cup {<<l, e>>}
    BY DEF Attach
<1>4. ~freed /\ app # Idle
    BY <1>1 DEF IInv, Freeing, Attach, Idle
<1>5. subscribed' \subseteq Listeners \X Detached
    BY <1>1, <1>3 DEF IInv, TypeOK, Detached, Playing, PositionChanged
<1>6. (9..e - 1) \cup {e} = 9..e
    BY <1>1
<1>7. subscribed' = (Known \X Attached) \cup ({l} \X (9..e))
    BY <1>1, <1>3, <1>6
<1>8. CallbackKnown'
    BY <1>2, <1>3 DEF IInv, CallbackKnown
<1>9. CASE e + 1 \in Attached
  <2>1. callbacks' = callbacks /\ app' = [app EXCEPT !.event = e + 1]
      BY <1>9 DEF Attach
  <2>2. app' = [at |-> "attach", listener |-> l, event |-> e + 1]
      BY <2>1 DEF IInv, TypeOK, AppStates, Attach, Idle
  <2>3. TypeOK'
    <3>1. app' \in AppStates
        BY <1>1, <1>9, <2>2 DEF AppStates
    <3> QED BY <1>2, <1>5, <2>1, <3>1 DEF IInv, TypeOK
  <2>4. (e + 1) - 1 = e
      BY <1>1
  <2>5. Attaching'
      BY <1>1, <1>2, <1>7, <2>1, <2>2, <2>4 DEF Attaching, Known, Playing
  <2> QED
      BY <1>2, <1>4, <1>8, <2>1, <2>2, <2>3, <2>5
      DEF IInv, NoDuplicates, Detaching, Freeing, SubscriptionsMatch, Idle
<1>10. CASE e + 1 \notin Attached
  <2>1. app' = Idle /\ callbacks' = Append(callbacks, l)
      BY <1>10 DEF Attach
  <2>2. e = 16
      BY <1>1, <1>10 DEF Attached, Playing, TimeChanged
  <2>3. callbacks' \in Seq(Listeners) /\ Known' = Known \cup {l} /\ NoDuplicates'
      BY <1>1, <2>1, AppendKnown DEF IInv, TypeOK, NoDuplicates, Known
  <2>4. TypeOK'
      BY <1>1, <1>2, <1>5, <2>1, <2>3 DEF IInv, TypeOK, AppStates
  <2>5. subscribed' = Known' \X Attached
      BY <1>7, <2>2, <2>3 DEF Attached, Playing, TimeChanged
  <2> QED
      BY <1>1, <1>2, <1>4, <1>8, <2>1, <2>3, <2>4, <2>5
      DEF IInv, Attaching, Detaching, Freeing, SubscriptionsMatch, Idle
<1> QED BY <1>9, <1>10

---------------------------------------------------------------------------
(* What is left attached, step by step.                                    *)
LEMMA AllLeft ==
    ASSUME callbacks \in Seq(Listeners)
    PROVE  Left(1, Playing) = Known \X Attached
BY DEF Left, Known, Attached

LEMMA NothingLeft ==
    ASSUME callbacks \in Seq(Listeners), NEW i \in Nat, i > Len(callbacks)
    PROVE  Left(i, Playing) = {}
BY DEF Left

(* The first event of a callback is all of them.                           *)
LEMMA OneLess ==
    ASSUME callbacks \in Seq(Listeners), NoDuplicates,
           NEW i \in 1..Len(callbacks), NEW e \in Detached
    PROVE  Left(i, e) \ {<<callbacks[i], e>>} = Left(i, e + 1)
BY DEF Left, NoDuplicates, Detached, Attached, Playing, TimeChanged, PositionChanged

LEMMA NextCallback ==
    ASSUME callbacks \in Seq(Listeners), NEW i \in 1..Len(callbacks)
    PROVE  Left(i, PositionChanged + 1) = Left(i + 1, Playing)
BY DEF Left, Attached, Playing, TimeChanged, PositionChanged

(* release is about to detach callback i, or has detached them all.        *)
LEMMA AtCallbackKeeps ==
    ASSUME IInv, NEW i \in Nat \ {0}, i <= Len(callbacks) + 1, ~freed,
           UNCHANGED <<waits, callbacks, started, freed, event>>,
           released', app' = AtCallback(i), subscribed' = Left(i, Playing),
           CallbackKnown'
    PROVE  IInv'
<1>1. callbacks \in Seq(Listeners) /\ Len(callbacks) \in Nat
    BY DEF IInv, TypeOK
<1>2. subscribed' \subseteq Listeners \X Detached
    BY DEF Left, Detached, Attached, Playing, TimeChanged, PositionChanged
<1>3. released' \in BOOLEAN
    OBVIOUS
<1>4. CASE i > Len(callbacks)
  <2>1. app' = [at |-> "free"] /\ subscribed' = {}
      BY <1>1, <1>4, NothingLeft DEF AtCallback
  <2>2. TypeOK'
      BY <1>2, <2>1 DEF IInv, TypeOK, AppStates
  <2> QED
      BY <2>1, <2>2
      DEF IInv, NoDuplicates, Attaching, Detaching, Freeing, SubscriptionsMatch, Idle
<1>5. CASE i <= Len(callbacks)
  <2>1. app' = [at |-> "detach", index |-> i, event |-> Playing]
      BY <1>1, <1>5 DEF AtCallback
  <2>2. TypeOK'
      BY <1>2, <2>1 DEF IInv, TypeOK, AppStates, Detached, Playing, PositionChanged
  <2>3. Detaching'
      BY <1>1, <1>5, <2>1 DEF Detaching, Left
  <2> QED
      BY <2>1, <2>2, <2>3
      DEF IInv, NoDuplicates, Attaching, Freeing, SubscriptionsMatch, Idle
<1> QED BY <1>1, <1>4, <1>5

LEMMA ReleaseKeeps == ASSUME IInv, Release PROVE IInv'
<1>1. callbacks \in Seq(Listeners) /\ Len(callbacks) \in Nat
    BY DEF IInv, TypeOK
<1>2. subscribed = Left(1, Playing)
    BY <1>1, AllLeft DEF IInv, SubscriptionsMatch, Release
<1>3. ~freed
    BY DEF IInv, Freeing, Release
<1>4. CallbackKnown'
    BY DEF IInv, CallbackKnown, Release, native
<1> QED BY <1>1, <1>2, <1>3, <1>4, AtCallbackKeeps DEF Release, native

LEMMA DetachEventKeeps ==
    ASSUME IInv, app.at \in {"detach", "detaching"}, waits => event = Idle, DetachEvent
    PROVE  IInv'
<1> DEFINE i == app.index  e == app.event
<1>1. callbacks \in Seq(Listeners) /\ Len(callbacks) \in Nat /\ NoDuplicates
      /\ i \in 1..Len(callbacks) /\ e \in Detached /\ released
      /\ subscribed = Left(i, e)
    BY Places DEF IInv, TypeOK, Detaching
<1>2. UNCHANGED <<waits, callbacks, released, started, freed, event>>
    BY DEF DetachEvent, objects
<1>3. subscribed' = Left(i, e + 1)
    BY <1>1, OneLess DEF DetachEvent
<1>4. ~freed
    BY DEF IInv, Freeing, Idle
<1>5. CallbackKnown'
    BY <1>2 DEF CallbackKnown
<1>6. CASE e < LastDetached
  <2>1. app' = [at |-> "detach", index |-> i, event |-> e + 1]
    <3>1. app = [at |-> app.at, index |-> i, event |-> e]
        BY DEF IInv, TypeOK, AppStates, Idle
    <3>2. app' = [app EXCEPT !.at = "detach", !.event = e + 1]
        BY <1>6 DEF DetachEvent
    <3> QED BY <3>1, <3>2
  <2>2. e + 1 \in Detached
      BY <1>1, <1>6 DEF Detached, LastDetached, PositionChanged, Playing
  <2>3. subscribed' \subseteq Listeners \X Detached
      BY <1>3 DEF Left, Detached, Attached, Playing, TimeChanged, PositionChanged
  <2>4. TypeOK'
      BY <1>1, <1>2, <2>1, <2>2, <2>3 DEF IInv, TypeOK, AppStates
  <2>5. Detaching'
      BY <1>1, <1>2, <1>3, <2>1 DEF Detaching, Left
  <2> QED
      BY <1>2, <1>4, <1>5, <2>1, <2>4, <2>5
      DEF IInv, NoDuplicates, Attaching, Freeing, SubscriptionsMatch, Idle
<1>7. CASE ~(e < LastDetached)
  <2>1. e = PositionChanged
      BY <1>1, <1>7 DEF Detached, LastDetached, PositionChanged, Playing
  <2>2. subscribed' = Left(i + 1, Playing)
      BY <1>1, <1>3, <2>1, NextCallback
  <2>3. app' = AtCallback(i + 1)
      BY <1>7 DEF DetachEvent
  <2>4. i + 1 \in Nat \ {0} /\ i + 1 <= Len(callbacks) + 1
      BY <1>1
  <2> QED BY <1>1, <1>2, <1>4, <1>5, <2>2, <2>3, <2>4, AtCallbackKeeps
<1> QED BY <1>6, <1>7

LEMMA DetachWaitsKeeps == ASSUME IInv, DetachWaits PROVE IInv'
<1>1. app' = [at |-> "detaching", index |-> app.index, event |-> app.event]
    BY DEF DetachWaits, IInv, TypeOK, AppStates, Idle
<1>2. UNCHANGED <<waits, callbacks, released, started, freed, subscribed, event>>
    BY DEF DetachWaits, objects, native
<1>3. app.at = "detach" /\ app # Idle
    BY DEF DetachWaits, Idle
<1>4. app.index \in Nat /\ app.event \in Detached
    BY <1>3, Places DEF IInv
<1>5. TypeOK'
    BY <1>1, <1>2, <1>4 DEF IInv, TypeOK, AppStates
<1>6. Detaching'
    BY <1>1, <1>2, <1>3 DEF IInv, Detaching, Left
<1> QED
    BY <1>1, <1>2, <1>3, <1>5, <1>6
    DEF IInv, NoDuplicates, Attaching, Freeing, SubscriptionsMatch, CallbackKnown, Idle

LEMMA FreeKeeps == ASSUME IInv, Free PROVE IInv'
<1>1. app' = Idle /\ released /\ subscribed = {}
    BY DEF Free, IInv, Freeing
<1>2. UNCHANGED <<waits, callbacks, released, started, subscribed, event>> /\ freed' = TRUE
    BY DEF Free, objects
<1>3. TypeOK'
    BY <1>1, <1>2 DEF IInv, TypeOK, AppStates
<1> QED
    BY <1>1, <1>2, <1>3
    DEF IInv, NoDuplicates, Attaching, Detaching, Freeing, SubscriptionsMatch,
        CallbackKnown, Idle

LEMMA EventStepKeeps == ASSUME IInv, EventStep PROVE IInv'
<1>1. UNCHANGED <<waits, app, callbacks, released, started, freed, subscribed>>
    BY DEF EventStep, Deliver, Return, ReadMrl, objects, native
<1>2. CASE event' = Idle
  <2>1. TypeOK' /\ CallbackKnown'
      BY <1>1, <1>2 DEF IInv, TypeOK, CallbackKnown
  <2> QED BY <1>1, <2>1, StillAttached
<1>3. CASE \E s \in subscribed :
              event' = [at |-> "callback", listener |-> s[1], event |-> s[2]]
  <2>1. PICK s \in subscribed :
              event' = [at |-> "callback", listener |-> s[1], event |-> s[2]]
      BY <1>3
  <2>2. s[1] \in Listeners /\ s[2] \in Detached /\ s = <<s[1], s[2]>>
      BY DEF IInv, TypeOK
  <2>3. TypeOK'
      BY <1>1, <2>1, <2>2 DEF IInv, TypeOK, Callbacks
  <2>4. CallbackKnown'
      BY <1>1, <2>1, <2>2 DEF CallbackKnown
  <2> QED BY <1>1, <2>3, <2>4, StillAttached
<1> QED BY <1>2, <1>3 DEF EventStep, Deliver, Return, ReadMrl

---------------------------------------------------------------------------
LEMMA InitKeeps == ASSUME Init PROVE IInv
<1>1. TypeOK
  <2>1. app \in AppStates /\ event \in {Idle} \cup Callbacks
      BY DEF Init, AppStates
  <2>2. {released, started, freed} \subseteq BOOLEAN /\ waits \in BOOLEAN
      BY DEF Init
  <2>3. callbacks \in Seq(Listeners) /\ subscribed \subseteq Listeners \X Detached
      BY DEF Init
  <2> QED BY <2>1, <2>2, <2>3 DEF TypeOK
<1>2. Known = {} /\ NoDuplicates
    BY DEF Init, Known, NoDuplicates
<1> QED
    BY <1>1, <1>2
    DEF Init, IInv, Attaching, Detaching, Freeing, SubscriptionsMatch, CallbackKnown, Idle

(* The inductive invariant, of every set of listeners.                     *)
THEOREM Invariance == Spec => []IInv
<1>1. ASSUME IInv, [Next]_vars PROVE IInv'
  <2>1. CASE UNCHANGED vars
    <3>1. TypeOK' /\ CallbackKnown'
        BY <1>1, <2>1 DEF IInv, TypeOK, CallbackKnown, vars, objects, native
    <3> QED BY <1>1, <2>1, <3>1, StillAttached DEF vars, objects, native
  <2>2. CASE AppStep
      BY <1>1, <2>2, PlayKeeps, AddListenerKeeps, AttachKeeps, ReleaseKeeps,
         DetachEventKeeps, DetachWaitsKeeps, FreeKeeps
      DEF AppStep, Continue, Detach, DetachReturns
  <2> QED BY <1>1, <2>1, <2>2, EventStepKeeps DEF Next
<1> QED BY <1>1, InitKeeps, PTL DEF Spec

(* Between calls libvlc knows exactly the callbacks in the list, and none  *)
(* after release (MediaPlayer.java:162, :175).                             *)
THEOREM Subscriptions == Spec => []SubscriptionsMatch
<1>1. IInv => SubscriptionsMatch
    BY DEF IInv
<1> QED BY <1>1, Invariance, PTL

(* When libvlc_event_detach waits for a running callback, no listener runs *)
(* once release has freed the player (MediaPlayer.java:203).               *)
THEOREM Quiet == Spec => []QuietAfterRelease
<1>1. IInv => QuietAfterRelease
    BY DEF IInv, Freeing, SubscriptionsMatch, CallbackKnown, QuietAfterRelease
<1> QED BY <1>1, Invariance, PTL
===========================================================================
