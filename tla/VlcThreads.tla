----------------------------- MODULE VlcThreads -----------------------------
(***************************************************************************)
(* vlc_threads.h of the VLC SDK: a mutex and a condition variable over     *)
(* what the platform has.  POSIX threads have both.  Win32 has an event,   *)
(* pulsed, and SignalObjectAndWait, which releases the mutex and waits in  *)
(* one step.  BeOS has a slot for the one thread that waits, which it      *)
(* suspends and the signalling thread resumes.                             *)
(***************************************************************************)
EXTENDS Integers

CONSTANTS
    Threads,
    NoThread,   \* -1 in the slot; the owner of a free mutex
    MaxRounds   \* bound: waits of 0x7fffffff ms a timed wait is cut into

ASSUME ThreadsAssumption ==
    NoThread \notin Threads /\ MaxRounds \in Nat \ {0}

Platforms == {"pthread", "win32", "beos"}

VARIABLES
    platform,   \* what the header was compiled for
    owner,      \* of p_mutex
    at,         \* where in a function of this header each thread is
    thread,     \* the slot of p_condvar
    rounds,     \* of a timed wait, those not yet begun
    result,     \* what the last timed wait of a thread returned
    heard,      \* history: whether a signal ended a round of the timed wait
    cut         \* history: whether a timed wait ever went on with a second round

timedVars  == <<rounds, result, heard, cut>>
condVars   == <<at, thread, timedVars>>
threadVars == <<platform, owner, condVars>>

Waits    == {"waiting", "suspending", "suspended"}
Wakes    == {"woken", "expired"}
AtLabels == {"running", "slot", "resumed", "round", "signal", "snooze"} \cup Waits \cup Wakes

ThreadsInit ==
    /\ platform \in Platforms /\ owner = NoThread
    /\ at = [t \in Threads |-> "running"]
    /\ thread = NoThread
    /\ rounds = [t \in Threads |-> 0]
    /\ result = [t \in Threads |-> "none"]
    /\ heard = [t \in Threads |-> FALSE] /\ cut = FALSE

---------------------------------------------------------------------------
(* Mutant: nobody is kept out.                                             *)
LockMutant(t) ==
    /\ at[t] = "running" /\ owner' = t
    /\ UNCHANGED <<platform, condVars>>

vlc_mutex_lock(t) ==
    /\ at[t] = "running" /\ owner = NoThread
    /\ owner' = t
    /\ UNCHANGED <<platform, condVars>>

vlc_mutex_unlock(t) ==
    /\ at[t] = "running" /\ owner = t
    /\ owner' = NoThread
    /\ UNCHANGED <<platform, condVars>>

---------------------------------------------------------------------------
(* vlc_cond_wait, vlc_cond_timedwait.                                      *)

Waiting == {t \in Threads : at[t] = "waiting"}

(* pthread_cond_wait; SignalObjectAndWait.                                 *)
BeginWait(t) ==
    /\ platform # "beos" /\ at[t] = "running" /\ owner = t
    /\ owner' = NoThread /\ at' = [at EXCEPT ![t] = "waiting"]
    /\ UNCHANGED <<platform, thread, timedVars>>

(* BeOS: the slot is taken with the mutex still held.                      *)
TakeSlot(t) ==
    /\ platform = "beos" /\ at[t] = "running" /\ owner = t
    /\ thread' = t /\ at' = [at EXCEPT ![t] = "slot"]
    /\ UNCHANGED <<platform, owner, timedVars>>

LeaveMutex(t) ==
    /\ at[t] = "slot"
    /\ owner' = NoThread /\ at' = [at EXCEPT ![t] = "suspending"]
    /\ UNCHANGED <<platform, thread, timedVars>>

(* One thread waits at a time: the slot is its own.                        *)
Suspend(t) ==
    /\ at[t] = "suspending" /\ thread = t
    /\ at' = [at EXCEPT ![t] = "suspended"]
    /\ UNCHANGED <<platform, owner, thread, timedVars>>

(* Mutant: the slot is left as it is.                                      *)
FreeSlotMutant(t) ==
    /\ at[t] = "resumed"
    /\ at' = [at EXCEPT ![t] = "woken"]
    /\ UNCHANGED <<platform, owner, thread, timedVars>>

FreeSlot(t) ==
    /\ at[t] = "resumed"
    /\ thread' = NoThread /\ at' = [at EXCEPT ![t] = "woken"]
    /\ UNCHANGED <<platform, owner, timedVars>>

vlc_cond_wait(t) == BeginWait(t) \/ TakeSlot(t)

(* The rounds a delay is cut into: one, up to 0x7fffffff ms; POSIX threads *)
(* wait for the deadline itself.                                           *)
Cut(n) == IF platform = "win32" THEN n ELSE 1

(* BeOS has none.                                                          *)
vlc_cond_timedwait(t, n) ==
    /\ platform # "beos" /\ at[t] = "running" /\ owner = t
    /\ owner' = NoThread /\ at' = [at EXCEPT ![t] = "waiting"]
    /\ rounds' = [rounds EXCEPT ![t] = Cut(n)]
    /\ heard' = [heard EXCEPT ![t] = FALSE]
    /\ UNCHANGED <<platform, thread, result, cut>>

Expire(t) ==
    /\ at[t] = "waiting" /\ rounds[t] > 0
    /\ at' = [at EXCEPT ![t] = "expired"]
    /\ UNCHANGED <<platform, owner, thread, timedVars>>

(* pthread_cond_wait may return although nobody signalled.                 *)
SpuriousWakeup(t) ==
    /\ platform = "pthread" /\ at[t] = "waiting"
    /\ at' = [at EXCEPT ![t] = "woken"]
    /\ UNCHANGED <<platform, owner, thread, timedVars>>

(* The mutex is taken again; the last round's result is the call's.        *)
Reacquire(t) ==
    /\ at[t] \in Wakes /\ owner = NoThread /\ rounds[t] <= 1
    /\ owner' = t /\ at' = [at EXCEPT ![t] = "running"]
    /\ rounds' = [rounds EXCEPT ![t] = 0]
    /\ result' = [result EXCEPT ![t] = IF at[t] = "expired" THEN "ETIMEDOUT" ELSE "ok"]
    /\ UNCHANGED <<platform, thread, heard, cut>>

(* while (total): another round, whatever ended the one before.            *)
ReacquireForRound(t) ==
    /\ at[t] \in Wakes /\ owner = NoThread /\ rounds[t] > 1
    /\ owner' = t /\ at' = [at EXCEPT ![t] = "round"]
    /\ rounds' = [rounds EXCEPT ![t] = @ - 1]
    /\ cut' = TRUE
    /\ UNCHANGED <<platform, thread, result, heard>>

NextRound(t) ==
    /\ at[t] = "round"
    /\ owner' = NoThread /\ at' = [at EXCEPT ![t] = "waiting"]
    /\ UNCHANGED <<platform, thread, timedVars>>

---------------------------------------------------------------------------
(* vlc_cond_signal, with the mutex held.                                   *)

vlc_cond_signal(t) ==
    /\ at[t] = "running" /\ owner = t
    /\ at' = [at EXCEPT ![t] = "signal"]
    /\ UNCHANGED <<platform, owner, thread, timedVars>>

(* Mutant: the event is pulsed for threads that do not wait with a limit.  *)
WakeOneMutant(t) ==
    /\ platform # "beos" /\ at[t] = "signal"
    /\ \/ /\ \A u \in Waiting : rounds[u] > 0
          /\ at' = [at EXCEPT ![t] = "running"] /\ UNCHANGED heard
       \/ \E u \in {w \in Waiting : rounds[w] = 0} :
             /\ at' = [at EXCEPT ![t] = "running", ![u] = "woken"]
             /\ heard' = [heard EXCEPT ![u] = TRUE]
    /\ UNCHANGED <<platform, owner, thread, rounds, result, cut>>

(* pthread_cond_signal; PulseEvent.                                        *)
WakeOne(t) ==
    /\ platform # "beos" /\ at[t] = "signal"
    /\ \/ /\ Waiting = {}
          /\ at' = [at EXCEPT ![t] = "running"] /\ UNCHANGED heard
       \/ \E u \in Waiting :
             /\ at' = [at EXCEPT ![t] = "running", ![u] = "woken"]
             /\ heard' = [heard EXCEPT ![u] = TRUE]
    /\ UNCHANGED <<platform, owner, thread, rounds, result, cut>>

(* BeOS: a thread not yet suspended is waited for, by sleeping a little.   *)
Resume(t) ==
    /\ platform = "beos" /\ at[t] = "signal"
    /\ thread \in Threads /\ at[thread] = "suspended"
    /\ at' = [at EXCEPT ![t] = "snooze", ![thread] = "resumed"]
    /\ UNCHANGED <<platform, owner, thread, timedVars>>

(* The loop ends when the slot is empty.                                   *)
EndSignal(t) ==
    /\ platform = "beos" /\ at[t] \in {"signal", "snooze"} /\ thread = NoThread
    /\ at' = [at EXCEPT ![t] = "running"]
    /\ UNCHANGED <<platform, owner, thread, timedVars>>

---------------------------------------------------------------------------
(* What a thread in one of the functions goes on with.                     *)
Continue(t) ==
    \/ LeaveMutex(t) \/ Suspend(t) \/ FreeSlot(t)
    \/ Reacquire(t) \/ ReacquireForRound(t) \/ NextRound(t)
    \/ WakeOne(t) \/ Resume(t) \/ EndSignal(t)

(* What the system does to a thread that waits.                            *)
Interrupt(t) == Expire(t) \/ SpuriousWakeup(t)

Asleep    == {t \in Threads : at[t] \in Waits}
Signaling == {t \in Threads : at[t] = "signal"}

Monitor == INSTANCE CondVar WITH asleep <- Asleep, signaling <- Signaling

(* The three implementations keep the promise of CondVar: no thread sleeps *)
(* or wakes but by it, and no signal ends with a sleeper left asleep.      *)
KeepsPromise == Monitor!Spec
===========================================================================
