------------------------------ MODULE CondVar ------------------------------
(***************************************************************************)
(* What vlc_threads.h promises on every platform: a mutex, and a condition *)
(* a thread waits for with the mutex given up in the same step.  A signal  *)
(* made with the mutex held ends by waking a sleeper, if there is one.     *)
(***************************************************************************)
CONSTANTS Threads, NoThread

VARIABLES
    owner,      \* of the mutex
    asleep,     \* threads that wait for the condition
    signaling   \* threads in vlc_cond_signal that have woken nobody yet

vars == <<owner, asleep, signaling>>

Init == owner = NoThread /\ asleep = {} /\ signaling = {}

Lock(t) ==
    /\ owner = NoThread /\ t \notin asleep
    /\ owner' = t
    /\ UNCHANGED <<asleep, signaling>>

Unlock(t) ==
    /\ owner = t /\ t \notin signaling
    /\ owner' = NoThread
    /\ UNCHANGED <<asleep, signaling>>

Wait(t) ==
    /\ owner = t /\ t \notin signaling
    /\ owner' = NoThread
    /\ asleep' = asleep \cup {t}
    /\ UNCHANGED signaling

(* The deadline passes, or the system wakes the thread for no reason.      *)
GiveUp(t) ==
    /\ t \in asleep
    /\ asleep' = asleep \ {t}
    /\ UNCHANGED <<owner, signaling>>

Signal(t) ==
    /\ owner = t
    /\ signaling' = signaling \cup {t}
    /\ UNCHANGED <<owner, asleep>>

Wake(t, u) ==
    /\ t \in signaling /\ u \in asleep
    /\ signaling' = signaling \ {t}
    /\ asleep' = asleep \ {u}
    /\ UNCHANGED owner

WakeNobody(t) ==
    /\ t \in signaling /\ asleep = {}
    /\ signaling' = signaling \ {t}
    /\ UNCHANGED <<owner, asleep>>

Next ==
    \E t \in Threads :
        \/ Lock(t) \/ Unlock(t) \/ Wait(t) \/ GiveUp(t)
        \/ Signal(t) \/ WakeNobody(t)
        \/ \E u \in Threads : Wake(t, u)

Spec == Init /\ [][Next]_vars
===========================================================================
