-------------------------- MODULE RtpTransmitter --------------------------
(***************************************************************************)
(* com.anhquan.demo.rtsp/.../RtpTransmitter.java.  One thread calls the    *)
(* API; every startTransmission starts a RegularTransmitter thread that    *)
(* sends the loaded packets over and over until flagStopped is set.  Only  *)
(* the two flags are volatile, and loadData's monitor is taken by nobody   *)
(* else.  Every access of either to a field of the other's is a step of    *)
(* its own, and takes place in the order of the program.                   *)
(*                                                                         *)
(* A loaded buffer is a record: which load it comes from, and its number   *)
(* of packets.                                                             *)
(***************************************************************************)
EXTENDS Integers

CONSTANTS
    Threads,        \* bound: transmitter threads alive at the same time
    MaxLoads,       \* bound: calls of loadData with data
    MaxPackets,     \* bound: packets per load
    MaxSeq,         \* bound: packets built
    Policies        \* the callers considered: one that waits until a thread
                    \* it started runs, and loads between transmissions only;
                    \* one that replaces the buffer meanwhile; and one that
                    \* calls at any time, connected or not

ASSUME TransmitterAssumption ==
    /\ MaxLoads \in Nat /\ MaxPackets \in Nat /\ MaxSeq \in Nat
    /\ Policies \subseteq {"wait", "reload", "hurry"}

VARIABLES
    flagStopped, isTransmitting,
    packets, nextPacketIndex, sequenceNumber,
    socket,         \* multicastSocket
    caller,         \* where the thread that calls the API is
    thread,         \* the transmitter threads, their locals included
    loads,          \* loads so far
    sent,           \* the datagram sent last
    policy          \* the caller's policy, chosen once

buffer == <<packets, nextPacketIndex>>
flags  == <<flagStopped, isTransmitting>>
vars   == <<flags, buffer, sequenceNumber, socket, caller, thread, loads, sent,
            policy>>

Null      == [load |-> 0, len |-> 0]                       \* packets = null
Buffers   == [load : 1..MaxLoads, len : 0..MaxPackets]
NoThread  == [pc |-> "none", packet |-> Null, count |-> 0, length |-> 0,
              index |-> 0, seq |-> 0, marked |-> FALSE]
Labels    == {"none", "begin", "loop", "null", "empty", "count", "array", "fetch",
              "number", "next", "last", "mark", "log", "logIndex", "send",
              "read", "store", "wrap", "again", "clear", "clear2", "died", "noSocket"}
Locals    == [pc : Labels, packet : Buffers \cup {Null}, count : Nat, length : Nat,
              index : Nat, seq : Nat, marked : BOOLEAN]
Datagrams == [packet : Buffers, index : Nat, seq : Nat, marked : BOOLEAN]
NoDatagram == [packet |-> Null, index |-> 0, seq |-> 0, marked |-> FALSE]

CallerLabels == {"idle", "start", "start2", "spawn", "stop", "wait",
                 "disconnectStop", "disconnectWait", "leave", "closed",
                 "connect", "join", "clean", "loadIndex", "nullPackets"}

TypeOK ==
    /\ flagStopped \in BOOLEAN /\ isTransmitting \in BOOLEAN
    /\ packets \in Buffers \cup {Null} /\ nextPacketIndex \in Nat
    /\ sequenceNumber \in Nat
    /\ socket \in {"none", "open", "closed"}
    /\ caller \in CallerLabels
    /\ thread \in [Threads -> Locals]
    /\ loads \in 0..MaxLoads
    /\ sent \in Datagrams \cup {NoDatagram}
    /\ policy \in Policies

Init ==
    /\ flagStopped = FALSE /\ isTransmitting = FALSE
    /\ packets = Null /\ nextPacketIndex = 0
    /\ sequenceNumber = 0
    /\ socket = "none"
    /\ caller = "idle"
    /\ thread = [t \in Threads |-> NoThread]
    /\ loads = 0
    /\ sent = NoDatagram
    /\ policy \in Policies

Pc(t)   == thread[t].pc
Alive   == {t \in Threads : Pc(t) \notin {"none", "died", "noSocket"}}
Started == {t \in Threads : Pc(t) = "begin"}

---------------------------------------------------------------------------
(* The caller's thread.                                                    *)

Call(from, to)  == caller = from /\ caller' = to
Calls(to)       == (policy = "hurry" \/ Started = {}) /\ Call("idle", to)
LoadsNow(to)    == (policy = "reload" \/ Alive = {}) /\ Calls(to)

(* connect: a new socket, which joins the group, then cleanBuffer.         *)
Connect ==
    /\ LoadsNow("connect")
    /\ UNCHANGED <<flags, buffer, sequenceNumber, socket, thread, loads, sent>>

OpenSocket ==
    /\ Call("connect", "join")
    /\ socket' = "open"
    /\ UNCHANGED <<flags, buffer, sequenceNumber, thread, loads, sent>>

(* An exception is only logged: there is no socket, the one there was      *)
(* before or one that is not in the group, and the buffer is kept.         *)
ConnectFails ==
    /\ Call("connect", "idle") \/ Call("join", "idle")
    /\ UNCHANGED <<flags, buffer, sequenceNumber, socket, thread, loads, sent>>

(* Mutant: the index of the replaced buffer is kept.                       *)
ResetIndexMutant(from) ==
    /\ Call(from, "idle")
    /\ UNCHANGED <<flags, buffer, sequenceNumber, socket, thread, loads, sent>>

(* The second write of cleanBuffer and of loadData.                        *)
ResetIndex(from) ==
    /\ Call(from, "idle")
    /\ nextPacketIndex' = 0
    /\ UNCHANGED <<flags, packets, sequenceNumber, socket, thread, loads, sent>>

LoadData ==
    /\ LoadsNow("loadIndex")
    /\ loads < MaxLoads
    /\ loads' = loads + 1
    /\ \E n \in 0..MaxPackets : packets' = [load |-> loads', len |-> n]
    /\ UNCHANGED <<flags, nextPacketIndex, sequenceNumber, socket, thread, sent>>

(* loadData(null) writes the index first.                                  *)
LoadNull ==
    /\ LoadsNow("nullPackets")
    /\ nextPacketIndex' = 0
    /\ UNCHANGED <<flags, packets, sequenceNumber, socket, thread, loads, sent>>

(* packets = null, in cleanBuffer and in loadData(null).                   *)
NullPackets(from, to) ==
    /\ Call(from, to)
    /\ packets' = Null
    /\ UNCHANGED <<flags, nextPacketIndex, sequenceNumber, socket, thread, loads, sent>>

(* Mutant: a second start is not refused.                                  *)
StartTransmissionMutant ==
    /\ \E t \in Threads : Pc(t) = "none"
    /\ Calls("start")
    /\ UNCHANGED <<flags, buffer, sequenceNumber, socket, thread, loads, sent>>

(* startTransmission: test, clearFlag, new thread.                         *)
StartTransmission ==
    /\ ~isTransmitting
    /\ \E t \in Threads : Pc(t) = "none"
    /\ Calls("start")
    /\ UNCHANGED <<flags, buffer, sequenceNumber, socket, thread, loads, sent>>

StartClear ==
    /\ Call("start", "start2")
    /\ flagStopped' = FALSE
    /\ UNCHANGED <<isTransmitting, buffer, sequenceNumber, socket, thread, loads, sent>>

StartClear2 ==
    /\ Call("start2", "spawn")
    /\ isTransmitting' = FALSE
    /\ UNCHANGED <<flagStopped, buffer, sequenceNumber, socket, thread, loads, sent>>

Spawn ==
    /\ Call("spawn", "idle")
    /\ \E t \in Threads :
          /\ Pc(t) = "none"
          /\ thread' = [thread EXCEPT ![t].pc = "begin"]
    /\ UNCHANGED <<flags, buffer, sequenceNumber, socket, loads, sent>>

(* stopTransmission, called as such or by disconnect: it returns at once   *)
(* when nothing is transmitting, else sets the flag and spins.             *)
StopTransmission ==
    /\ isTransmitting /\ Calls("stop")
    /\ UNCHANGED <<flags, buffer, sequenceNumber, socket, thread, loads, sent>>

RaiseFlag(from, to) ==
    /\ Call(from, to)
    /\ flagStopped' = TRUE
    /\ UNCHANGED <<isTransmitting, buffer, sequenceNumber, socket, thread, loads, sent>>

(* Mutant: it does not wait.                                               *)
StoppedMutant(from, to) ==
    /\ Call(from, to)
    /\ UNCHANGED <<flags, buffer, sequenceNumber, socket, thread, loads, sent>>

Stopped(from, to) ==
    /\ ~isTransmitting /\ Call(from, to)
    /\ UNCHANGED <<flags, buffer, sequenceNumber, socket, thread, loads, sent>>

Disconnect ==
    /\ Calls(IF isTransmitting THEN "disconnectStop" ELSE "leave")
    /\ UNCHANGED <<flags, buffer, sequenceNumber, socket, thread, loads, sent>>

LeaveGroup ==
    /\ socket = "open" /\ Call("leave", "closed")
    /\ socket' = "closed"
    /\ UNCHANGED <<flags, buffer, sequenceNumber, thread, loads, sent>>

(* There is no socket, or leaveGroup throws, as it does when the socket is *)
(* closed: nothing is cleaned.                                             *)
LeaveFails ==
    /\ Call("leave", "idle")
    /\ UNCHANGED <<flags, buffer, sequenceNumber, socket, thread, loads, sent>>

CallerStep ==
    /\ UNCHANGED policy
    /\ \/ OpenSocket \/ ConnectFails
       \/ NullPackets("join", "clean") \/ NullPackets("closed", "clean")
       \/ NullPackets("nullPackets", "idle")
       \/ ResetIndex("clean") \/ ResetIndex("loadIndex")
       \/ StartClear \/ StartClear2 \/ Spawn
       \/ RaiseFlag("stop", "wait") \/ Stopped("wait", "idle")
       \/ RaiseFlag("disconnectStop", "disconnectWait")
       \/ Stopped("disconnectWait", "leave")
       \/ LeaveGroup \/ LeaveFails

ApiCall ==
    /\ UNCHANGED policy
    /\ \/ Connect \/ LoadData \/ LoadNull
       \/ StartTransmission \/ StopTransmission \/ Disconnect

---------------------------------------------------------------------------
(* A transmitter thread: run and sendOnePacketFromBuffer.  "died" is the   *)
(* end by a NullPointerException or ArrayIndexOutOfBoundsException of an   *)
(* access to the buffer, "noSocket" by one for want of a socket.           *)

At(t, to)  == [thread[t] EXCEPT !.pc = to]
AtLoop     == [NoThread EXCEPT !.pc = "loop"]     \* the locals are forgotten
Becomes(t, from, locals) == Pc(t) = from /\ thread' = [thread EXCEPT ![t] = locals]
Shared     == <<sequenceNumber, socket, caller, loads, sent>>

(* A step that writes nothing but the thread's locals.                     *)
Looks(t, from, locals) == Becomes(t, from, locals) /\ UNCHANGED <<flags, buffer, Shared>>

Begin(t) ==
    /\ Becomes(t, "begin", AtLoop)
    /\ isTransmitting' = TRUE
    /\ UNCHANGED <<flagStopped, buffer, Shared>>

Loop(t) == Looks(t, "loop", At(t, IF flagStopped THEN "clear" ELSE "null"))

(* packets == null, packets.length <= 0, packetCount.                      *)
NullTest(t) ==
    Looks(t, "null",
          At(t, IF packets = Null \/ sequenceNumber = MaxSeq THEN "loop" ELSE "empty"))

EmptyTest(t) ==
    Looks(t, "empty", At(t, CASE packets = Null  -> "died"
                              [] packets.len = 0 -> "loop"
                              [] OTHER           -> "count"))

PacketCount(t) ==
    Looks(t, "count", IF packets = Null THEN At(t, "died")
                      ELSE [At(t, "array") EXCEPT !.count = packets.len])

(* packets[nextPacketIndex]: the array, then the index.                    *)
ReadArray(t) == Looks(t, "array", [At(t, "fetch") EXCEPT !.packet = packets])

Fetch(t) ==
    Looks(t, "fetch", IF nextPacketIndex < thread[t].packet.len
                      THEN [At(t, "number") EXCEPT !.index = nextPacketIndex]
                      ELSE At(t, "died"))

(* sequenceNumber++, a read and a write.                                   *)
ReadNumber(t) == Looks(t, "number", [At(t, "next") EXCEPT !.seq = sequenceNumber])

StoreNumber(t) ==
    /\ Becomes(t, "next", At(t, "last"))
    /\ sequenceNumber' = thread[t].seq + 1
    /\ UNCHANGED <<flags, buffer, socket, caller, loads, sent>>

(* lastPacketIndex and the marker, from what packets and nextPacketIndex   *)
(* are now.                                                                *)
LastIndex(t) ==
    Looks(t, "last", IF packets = Null THEN At(t, "died")
                     ELSE [At(t, "mark") EXCEPT !.length = packets.len])

(* Mutant: the first packet is marked, as MulticastSender does.            *)
MarkMutant(t) ==
    Looks(t, "mark", [At(t, "log") EXCEPT !.marked = (nextPacketIndex = 0)])

Mark(t) ==
    Looks(t, "mark", [At(t, "log") EXCEPT !.marked = (nextPacketIndex = thread[t].length - 1)])

(* packets[nextPacketIndex] once more, for the log.                        *)
LogArray(t) == Looks(t, "log", [At(t, "logIndex") EXCEPT !.length = packets.len])

LogPacket(t) ==
    Looks(t, "logIndex", At(t, IF nextPacketIndex < thread[t].length THEN "send" ELSE "died"))

Send(t) ==
    /\ socket = "open" /\ Becomes(t, "send", At(t, "read"))
    /\ sent' = [packet |-> thread[t].packet, index |-> thread[t].index,
                seq |-> thread[t].seq, marked |-> thread[t].marked]
    /\ UNCHANGED <<flags, buffer, sequenceNumber, socket, caller, loads>>

(* An IOException, as of a closed socket: the packet's turn comes again.   *)
SendFails(t) == socket # "none" /\ Looks(t, "send", AtLoop)

(* multicastSocket is null.                                                *)
SendNowhere(t) == socket = "none" /\ Looks(t, "send", At(t, "noSocket"))

(* nextPacketIndex++, a read and a write; its test; and its reset.         *)
ReadIndex(t) == Looks(t, "read", [At(t, "store") EXCEPT !.index = nextPacketIndex])

StoreIndex(t) ==
    /\ Becomes(t, "store", At(t, "wrap"))
    /\ nextPacketIndex' = thread[t].index + 1
    /\ UNCHANGED <<flags, packets, Shared>>

(* Mutant: the index wraps one packet late.                                *)
WrapMutant(t) ==
    Looks(t, "wrap", IF nextPacketIndex > thread[t].count THEN At(t, "again") ELSE AtLoop)

Wrap(t) ==
    Looks(t, "wrap", IF nextPacketIndex = thread[t].count THEN At(t, "again") ELSE AtLoop)

FirstAgain(t) ==
    /\ Becomes(t, "again", AtLoop)
    /\ nextPacketIndex' = 0
    /\ UNCHANGED <<flags, packets, Shared>>

Clear(t) ==
    /\ Becomes(t, "clear", At(t, "clear2"))
    /\ flagStopped' = FALSE
    /\ UNCHANGED <<isTransmitting, buffer, Shared>>

Clear2(t) ==
    /\ Becomes(t, "clear2", NoThread)
    /\ isTransmitting' = FALSE
    /\ UNCHANGED <<flagStopped, buffer, Shared>>

ThreadStep(t) ==
    /\ UNCHANGED policy
    /\ \/ Begin(t) \/ Loop(t) \/ NullTest(t) \/ EmptyTest(t)
       \/ PacketCount(t) \/ ReadArray(t) \/ Fetch(t) \/ ReadNumber(t) \/ StoreNumber(t)
       \/ LastIndex(t) \/ Mark(t) \/ LogArray(t) \/ LogPacket(t)
       \/ Send(t) \/ SendFails(t) \/ SendNowhere(t)
       \/ ReadIndex(t) \/ StoreIndex(t) \/ Wrap(t) \/ FirstAgain(t)
       \/ Clear(t) \/ Clear2(t)

---------------------------------------------------------------------------
Next == ApiCall \/ CallerStep \/ \E t \in Threads : ThreadStep(t)

(* Every thread that can run does; the caller calls what it likes.         *)
Spec ==
    /\ Init /\ [][Next]_vars
    /\ WF_vars(CallerStep)
    /\ \A t \in Threads : WF_vars(ThreadStep(t))

---------------------------------------------------------------------------
(* Safety.                                                                 *)

(* Two threads never send from the same buffer: startTransmission's test   *)
(* and the new thread's isTransmitting = true are not atomic.              *)
OneTransmitter == \A t, u \in Alive : t = u

(* "mark the last packet": the marker is on the last packet of the load    *)
(* the datagram carries, and on no other, as long as loads wait.           *)
MarkerOnLast == policy = "wait" /\ sent # NoDatagram => (sent.marked <=> sent.index = sent.packet.len - 1)

(* Every datagram has a higher sequence number than the one before; and as *)
(* long as loads wait, the packets of a load go out in order, from the     *)
(* first and round again, through stops and restarts.                      *)
InOrder ==
    [][sent' # sent =>
        /\ sent # NoDatagram => sent'.seq > sent.seq
        /\ policy = "wait" =>
              sent'.index = IF sent'.packet = sent.packet
                            THEN (sent.index + 1) % sent.packet.len ELSE 0]_vars

(* Stop returns only when no transmitter thread is left, as the Javadoc    *)
(* says: "It will wait until the transmitter stops" (:150); and disconnect *)
(* stops the transmission (:112) before it closes the socket.              *)
StopMeansStopped ==
    [][(\/ caller = "wait" /\ caller' = "idle"
        \/ socket = "open" /\ socket' = "closed")
       => Alive' = {}]_vars

(* Liveness.                                                               *)

(* stopTransmission waits "until the transmitter stops" (:150), no longer; *)
(* one that never had a socket to send with is left aside.                 *)
StopReturns ==
    caller \in {"wait", "disconnectWait"} ~>
        \/ caller \notin {"wait", "disconnectWait"}
        \/ \E t \in Threads : Pc(t) = "noSocket"

(* It does so when loads wait, as no access to the unprotected buffer      *)
(* throws then, whatever point the stop reaches the sending thread at; and *)
(* for ever only when an exception has ended the thread: one of the        *)
(* buffer, or for want of a socket no connect has made.                    *)
StopReturnsOrDeath ==
    caller \in {"wait", "disconnectWait"} ~>
        \/ caller \notin {"wait", "disconnectWait"}
        \/ policy # "wait" /\ \E t \in Threads : Pc(t) = "died"
        \/ sent = NoDatagram /\ \E t \in Threads : Pc(t) = "noSocket"

---------------------------------------------------------------------------
(* The inductive invariant, of every caller that waits until a thread it   *)
(* started runs: where there is a thread, what it has of the buffer, and   *)
(* which packet is due.                                                    *)

NoThreads == \A t \in Threads : Pc(t) = "none"

(* A thread that runs, or died of an exception, is seen by the next start. *)
Flagged ==
    /\ \A t \in Threads : Pc(t) \notin {"none", "begin"} => isTransmitting
    /\ \A t, u \in Threads : Pc(t) # "none" /\ Pc(u) # "none" => t = u
    /\ caller # "idle" => Started = {}
    /\ caller \in {"start", "start2", "spawn", "leave"} => NoThreads

(* A thread misses the socket only when there never was one.               *)
Unsent == socket = "none" \/ (\E t \in Threads : Pc(t) = "noSocket") => sent = NoDatagram

(* Between sequenceNumber++ and the datagram.                              *)
BeforeSend == {"last", "mark", "log", "logIndex", "send"}

HasNumber(locals) ==
    /\ locals.pc = "next" => locals.seq = sequenceNumber
    /\ locals.pc \in BeforeSend => /\ sequenceNumber = locals.seq + 1
                                   /\ sent # NoDatagram => sent.seq < locals.seq

Numbered ==
    /\ sent # NoDatagram => sent.seq < sequenceNumber
    /\ \A t \in Threads : HasNumber(thread[t])

(* A load never seen before has a number of its own; a packet that was     *)
(* fetched is one of a load.                                               *)
HasPacket(locals) ==
    /\ locals.packet.load <= loads
    /\ locals.pc \in BeforeSend \cup {"number", "next"} => locals.packet # Null

Loaded ==
    /\ packets.load <= loads /\ sent.packet.load <= loads
    /\ \A t \in Threads : HasPacket(thread[t])

AfterSend  == {"read", "store", "wrap", "again"}
HasArray   == BeforeSend \cup {"fetch", "number", "next", "read", "store"}
AfterEmpty == HasArray \cup {"count", "array", "wrap", "again"}

(* No exception of the buffer, and what the thread has read is what the    *)
(* buffer holds.                                                           *)
InStep(locals) ==
    /\ locals.pc # "died"
    /\ locals.pc = "empty" => packets # Null
    /\ locals.pc \in AfterEmpty => packets # Null /\ packets.len > 0
    /\ locals.pc \in AfterEmpty \ {"count"} => locals.count = packets.len
    /\ locals.pc \in HasArray => locals.packet = packets
    /\ locals.pc \in HasArray \ {"fetch"} => nextPacketIndex < packets.len
    /\ locals.pc \in HasArray \ {"fetch", "read"} => locals.index = nextPacketIndex
    /\ locals.pc \in {"mark", "logIndex"} => locals.length = packets.len
    /\ locals.pc \in {"log", "logIndex", "send"} =>
          (locals.marked <=> nextPacketIndex = packets.len - 1)
    /\ locals.pc \in AfterSend => sent.packet = packets /\ sent.index < packets.len
    /\ locals.pc \in {"read", "store"} => sent.index = nextPacketIndex
    /\ locals.pc \in {"wrap", "again"} => nextPacketIndex = sent.index + 1
    /\ locals.pc = "again" => nextPacketIndex = packets.len

CallerWaits ==
    /\ caller \in {"connect", "join", "closed", "clean", "loadIndex", "nullPackets"}
          => Alive = {}
    /\ caller = "clean" => packets = Null
    /\ caller = "loadIndex" => packets # sent.packet

(* The index of the packet that is due, unless the last was just sent.     *)
Due ==
    \/ packets = Null \/ caller \in {"loadIndex", "nullPackets"}
    \/ \E t \in Threads : Pc(t) \in AfterSend
    \/ nextPacketIndex = IF packets = sent.packet
                         THEN (sent.index + 1) % sent.packet.len ELSE 0

Waiting ==
    /\ \A t \in Threads : InStep(thread[t])
    /\ CallerWaits /\ Due
    /\ sent # NoDatagram =>
          /\ sent.packet # Null /\ sent.index < sent.packet.len
          /\ sent.marked <=> sent.index = sent.packet.len - 1

IInv == /\ TypeOK /\ Flagged /\ Unsent /\ Numbered /\ Loaded
        /\ policy = "wait" => Waiting

(* As long as loads wait, no access to the unprotected buffer throws; and  *)
(* a thread ends for want of a socket only before anything was sent.       *)
NoDeath ==
    /\ policy = "wait" => \A t \in Threads : Pc(t) # "died"
    /\ (\E t \in Threads : Pc(t) = "noSocket") => sent = NoDatagram
===========================================================================
