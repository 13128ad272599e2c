----------------------------- MODULE VlcObject -----------------------------
(***************************************************************************)
(* Threads that share a VLC object: an integer variable of it, counted up  *)
(* and down with the read and the write apart that var_IncInteger and      *)
(* var_DecInteger are, under the object's lock, and its condition.         *)
(* A producer counts up and signals; a consumer waits while the variable   *)
(* is zero, with or without a limit, and counts down.                      *)
(***************************************************************************)
EXTENDS VlcThreads, FiniteSets

CONSTANTS
    Consumers,      \* the other threads produce
    BeosConsumers,  \* those there are on BeOS, where one can wait at a time
    MaxItems        \* bound: times the variable is counted up

ASSUME ObjectAssumption ==
    /\ Consumers \subseteq Threads /\ BeosConsumers \subseteq Consumers
    /\ \A c, d \in BeosConsumers : c = d
    /\ IsFiniteSet(Threads) /\ MaxItems \in Nat

Producers == Threads \ Consumers

VARIABLES
    pc,         \* where each thread is in its program
    i_int,      \* the value of the variable
    i_val,      \* what var_IncInteger or var_DecInteger read
    made, taken \* how often the variable was counted up and down

clientVars == <<pc, i_int, i_val, made, taken>>
vars == <<threadVars, clientVars>>

Held     == {"test", "count", "store", "signal", "unlock", "unlock first", "timed"}
PcLabels == Held \cup {"out", "lock again"}

TypeOK ==
    /\ platform \in Platforms /\ owner \in Threads \cup {NoThread}
    /\ at \in [Threads -> AtLabels]
    /\ thread \in Threads \cup {NoThread}
    /\ rounds \in [Threads -> 0..MaxRounds]
    /\ heard \in [Threads -> BOOLEAN]
    /\ result \in [Threads -> {"none", "ok", "ETIMEDOUT"}]
    /\ cut \in BOOLEAN
    /\ pc \in [Threads -> PcLabels]
    /\ i_int \in Nat /\ i_val \in [Threads -> Nat]
    /\ made \in 0..MaxItems /\ taken \in Nat

Init ==
    /\ ThreadsInit
    /\ pc = [t \in Threads |-> "out"]
    /\ i_int = 0 /\ i_val = [t \in Threads |-> 0]
    /\ made = 0 /\ taken = 0

ThisConsumer == IF platform = "beos" THEN BeosConsumers ELSE Consumers

Runs(t) == at[t] = "running"

Goes(t, from, to) ==
    /\ pc[t] = from /\ Runs(t)
    /\ pc' = [pc EXCEPT ![t] = to]

---------------------------------------------------------------------------
(* var_GetInteger into i_val.                                              *)
Read(t) == i_val' = [i_val EXCEPT ![t] = i_int]

Produce(p) ==
    /\ p \in Producers /\ made < MaxItems
    /\ Goes(p, "out", "count") /\ vlc_mutex_lock(p)
    /\ UNCHANGED <<i_int, i_val, made, taken>>

IncRead(p) ==
    /\ p \in Producers
    /\ Goes(p, "count", "store") /\ Read(p)
    /\ UNCHANGED <<threadVars, i_int, made, taken>>

(* Signalled with the lock held, or by vlc_object_signal, which locks.     *)
IncWrite(p) ==
    /\ p \in Producers
    /\ \/ Goes(p, "store", "signal") \/ Goes(p, "store", "unlock first")
    /\ i_int' = i_val[p] + 1 /\ made' = made + 1
    /\ UNCHANGED <<threadVars, i_val, taken>>

UnlockFirst(p) ==
    /\ Goes(p, "unlock first", "lock again") /\ vlc_mutex_unlock(p)
    /\ UNCHANGED <<i_int, i_val, made, taken>>

LockAgain(p) ==
    /\ Goes(p, "lock again", "signal") /\ vlc_mutex_lock(p)
    /\ UNCHANGED <<i_int, i_val, made, taken>>

Signal(p) ==
    /\ Goes(p, "signal", "unlock") /\ vlc_cond_signal(p)
    /\ UNCHANGED <<i_int, i_val, made, taken>>

Consume(c) ==
    /\ c \in ThisConsumer
    /\ Goes(c, "out", "test") /\ vlc_mutex_lock(c)
    /\ UNCHANGED <<i_int, i_val, made, taken>>

Wait(c) ==
    /\ c \in Consumers
    /\ pc[c] = "test" /\ i_int = 0 /\ vlc_cond_wait(c)
    /\ UNCHANGED clientVars

(* When the time is over the consumer leaves, to come back later.          *)
TimedWait(c) ==
    /\ c \in Consumers
    /\ i_int = 0 /\ Goes(c, "test", "timed")
    /\ \E n \in 1..MaxRounds : vlc_cond_timedwait(c, n)
    /\ UNCHANGED <<i_int, i_val, made, taken>>

Waited(c) ==
    /\ Goes(c, "timed", IF result[c] = "ETIMEDOUT" THEN "unlock" ELSE "test")
    /\ UNCHANGED <<threadVars, i_int, i_val, made, taken>>

DecRead(c) ==
    /\ c \in Consumers /\ i_int # 0
    /\ Goes(c, "test", "store") /\ Read(c)
    /\ UNCHANGED <<threadVars, i_int, made, taken>>

DecWrite(c) ==
    /\ c \in Consumers
    /\ Goes(c, "store", "unlock")
    /\ i_int' = i_val[c] - 1 /\ taken' = taken + 1
    /\ UNCHANGED <<threadVars, i_val, made>>

Unlock(t) ==
    /\ Goes(t, "unlock", "out") /\ vlc_mutex_unlock(t)
    /\ UNCHANGED <<i_int, i_val, made, taken>>

ProducerStep(p) ==
    \/ Produce(p) \/ IncRead(p) \/ IncWrite(p)
    \/ UnlockFirst(p) \/ LockAgain(p) \/ Signal(p)

ConsumerStep(c) ==
    \/ Consume(c) \/ Wait(c) \/ TimedWait(c) \/ Waited(c)
    \/ DecRead(c) \/ DecWrite(c)

Step(t) ==
    \/ (t \in Producers /\ ProducerStep(t))
    \/ (t \in Consumers /\ ConsumerStep(t))
    \/ Unlock(t)
    \/ (Continue(t) /\ UNCHANGED clientVars)

Next == \E t \in Threads : Step(t) \/ (Interrupt(t) /\ UNCHANGED clientVars)

(* The scheduler lets every thread run on; no deadline has to pass.        *)
Spec == Init /\ [][Next]_vars /\ \A t \in Threads : WF_vars(Step(t))

---------------------------------------------------------------------------
(* The lock of the object keeps reads and writes of the variable together: *)
(* no count is lost, on any platform.                                      *)
NoCountLost == i_int = made - taken

(* Threads that still have to signal what they counted up.                 *)
ToSignal == {p \in Producers : pc[p] \in {"signal", "unlock first", "lock again"}
                               \/ at[p] = "signal"}

(* While a consumer sleeps there are no more items than consumers awake    *)
(* and signals to come: no signal is lost, as long as no Win32 wait is so  *)
(* long that it is cut into rounds.                                        *)
NoSignalLost ==
    \/ cut \/ Asleep = {}
    \/ i_int <= Cardinality(ThisConsumer \ Asleep) + Cardinality(ToSignal)

(* Every item is taken then: no consumer sleeps for ever, and no BeOS      *)
(* signal loops for ever, while there is one.                              *)
ItemsTaken == i_int > 0 ~> (cut \/ i_int = 0)

(* vlc_threads.h:357, of vlc_cond_timedwait: "Returns 0 if object          *)
(* signaled, an error code in case of timeout or error."                   *)
ZeroIfSignaled ==
    \A c \in Consumers :
        pc[c] = "timed" /\ Runs(c) /\ heard[c] => result[c] = "ok"

---------------------------------------------------------------------------
(* The inductive invariant: where a thread holds the mutex, what those who *)
(* count know of the variable, and whose the slot is.                      *)

Inside(t) ==
    \/ at[t] \in {"slot", "round", "signal", "snooze"}
    \/ at[t] = "running" /\ pc[t] \in Held

(* Exactly the threads inside hold the mutex: at most one.                 *)
MutualExclusion == \A t \in Threads : owner = t <=> Inside(t)

InSlot == {"slot", "suspending", "suspended", "resumed"}

Place(t) ==
    /\ at[t] \in InSlot => platform = "beos" /\ t \in Consumers /\ pc[t] = "test"
    /\ at[t] = "snooze" => platform = "beos"
    /\ at[t] \in {"waiting", "round"} \/ rounds[t] > 0 => platform # "beos"
    /\ at[t] # "running" => pc[t] \in {"test", "timed", "unlock"}
    /\ pc[t] \in {"test", "timed"} => t \in Consumers
    /\ platform = "beos" /\ t \in Consumers /\ pc[t] # "out" => t \in BeosConsumers

Counts(t) ==
    /\ t \in Producers /\ pc[t] \in {"count", "store"} => made < MaxItems
    /\ pc[t] = "store" => i_val[t] = i_int
    /\ pc[t] = "store" /\ t \in Consumers => i_int > 0

HasSlot(t) == at[t] \in InSlot => thread = t

Places   == \A t \in Threads : Place(t) /\ Counts(t) /\ HasSlot(t)

IInv == TypeOK /\ MutualExclusion /\ Places /\ NoCountLost

(* Why no signal is lost: who goes to sleep has seen the variable zero with *)
(* the mutex held, unless it goes on with another round.                   *)
Sleeper(t) ==
    /\ at[t] \notin {"running", "signal", "snooze"} => t \in ThisConsumer
    /\ at[t] = "slot" => i_int = 0
    /\ at[t] = "round" => cut

Sleepers == \A t \in Threads : Sleeper(t)

SignalInv == NoSignalLost /\ Sleepers
===========================================================================
