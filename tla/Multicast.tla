----------------------------- MODULE Multicast -----------------------------
(***************************************************************************)
(* UDPTransmitter: MulticastSender sends a file, packet by packet, a       *)
(* number of times; each MulticastReceiver joins the group at some moment  *)
(* and prints the first datagram it gets.  The payload of a datagram is    *)
(* named by the file offset it starts at.                                  *)
(***************************************************************************)
EXTENDS Packetizer

CONSTANTS
    Receivers,
    Jobs,       \* command lines: how many arguments, whether address and port
                \* can be sent to, the file's size, and the last two as numbers
    MaxSent,    \* bound: datagrams sent, at least what the jobs ask for
    Nothing

ASSUME JobsAssumption ==
    /\ MaxSent \in Nat
    /\ \A j \in Jobs :
          /\ j.args \in Nat /\ j.known \in BOOLEAN /\ j.size \in Nat /\ j.packetSize \in Int /\ j.times \in Int
          /\ j.packetSize > 0 => /\ InRange(j.size, j.packetSize)
                                 /\ PacketCount(j.size, j.packetSize) \in Nat

HeaderSize  == 12
MaxPayload  == 65507        \* of a UDP datagram
BufferSize  == 128          \* of the receiver

Stamps    == 0..256 * 256 - 1
Datagrams == [from : Nat, seq : Stamps, marked : BOOLEAN]
Printed   == [from : Nat, bytes : 0..BufferSize, seq : Stamps, marked : BOOLEAN]

ASSUME NothingAssumption == Nothing \notin Datagrams \cup Printed \cup Stamps

VARIABLES
    job, sender,
    packetCount, nextPacketIndex, sequenceNumber, countDown,
    receiver,   \* where each receiver is
    received,   \* the first datagram that reached its socket
    printed     \* what it printed

load  == <<job, packetCount>>
rcvrs == <<receiver, received, printed>>
vars  == <<load, sender, nextPacketIndex, sequenceNumber, countDown, rcvrs>>

SenderLabels   == {"main", "send", "sleep", "leave", "done", "died"}
ReceiverLabels == {"main", "bound", "joined", "leave", "ended"}

TypeOK ==
    /\ job \in Jobs /\ sender \in SenderLabels
    /\ packetCount \in Nat /\ nextPacketIndex \in Nat
    /\ nextPacketIndex = 0 \/ nextPacketIndex < packetCount
    /\ sequenceNumber \in Nat /\ countDown \in Int
    /\ receiver \in [Receivers -> ReceiverLabels]
    /\ received \in [Receivers -> Datagrams \cup {Nothing}]
    /\ printed \in [Receivers -> Printed \cup {Nothing}]

Init ==
    /\ job \in Jobs /\ sender = "main"
    /\ packetCount = 0 /\ nextPacketIndex = 0 /\ sequenceNumber = 0 /\ countDown = 0
    /\ receiver = [r \in Receivers |-> "main"]
    /\ received = [r \in Receivers |-> Nothing]
    /\ printed = [r \in Receivers |-> Nothing]

---------------------------------------------------------------------------
(* MulticastSender.                                                        *)

Goto(from, to) == sender = from /\ sender' = to

(* Fewer than four arguments: the usage is printed.  With exactly four,    *)
(* argv[4] throws.                                                         *)
Usage ==
    /\ job.args < 5
    /\ Goto("main", IF job.args < 4 THEN "done" ELSE "died")
    /\ UNCHANGED <<load, nextPacketIndex, sequenceNumber, countDown, rcvrs>>

(* The file cannot be read: main catches the IOException.                  *)
LoadFails ==
    /\ job.args >= 5
    /\ Goto("main", "done")
    /\ UNCHANGED <<load, nextPacketIndex, sequenceNumber, countDown, rcvrs>>

(* loadMetaData throws: a division by zero, an array of negative size, or  *)
(* an index past the end of the file.                                      *)
Throws(size, packetSize) ==
    IF packetSize <= 0 THEN TRUE ELSE CopiedUpTo(size, packetSize) > size

LoadThrows ==
    /\ job.args >= 5 /\ Throws(job.size, job.packetSize)
    /\ Goto("main", "died")
    /\ UNCHANGED <<load, nextPacketIndex, sequenceNumber, countDown, rcvrs>>

LoadMetaData ==
    /\ job.args >= 5 /\ ~Throws(job.size, job.packetSize)
    /\ Goto("main", "send")
    /\ packetCount' = PacketCount(job.size, job.packetSize)
    /\ countDown' = job.times
    /\ UNCHANGED <<job, nextPacketIndex, sequenceNumber, rcvrs>>

(* An empty file has no packets[0].                                        *)
NoPacket ==
    /\ nextPacketIndex >= packetCount
    /\ Goto("send", "died")
    /\ UNCHANGED <<load, nextPacketIndex, sequenceNumber, countDown, rcvrs>>

(* Mutant: the last packet is marked, as RtpTransmitter does.              *)
DatagramMutant ==
    [from   |-> nextPacketIndex * job.packetSize,
     seq    |-> sequenceNumber % (256 * 256),
     marked |-> nextPacketIndex = packetCount - 1]

Datagram ==
    [from   |-> nextPacketIndex * job.packetSize,
     seq    |-> sequenceNumber % (256 * 256),
     marked |-> nextPacketIndex = 0]

(* Mutant: a receiver's buffer holds the last datagram.                    *)
DeliveredMutant ==
    \E S \in SUBSET {r \in Receivers : receiver[r] \in {"bound", "joined"}} :
        received' = [r \in Receivers |-> IF r \in S THEN Datagram ELSE received[r]]

(* The datagram may be lost on its way to any receiver.  A socket without  *)
(* the group may get it as well, when another one on its host has joined.  *)
Delivered ==
    \E S \in SUBSET {r \in Receivers : receiver[r] \in {"bound", "joined"}} :
        received' = [r \in Receivers |-> IF r \in S /\ received[r] = Nothing
                                         THEN Datagram ELSE received[r]]

(* init goes on when the address is unknown; sending to it throws.         *)
NoAddress ==
    /\ nextPacketIndex < packetCount /\ ~job.known
    /\ Goto("send", "died")
    /\ UNCHANGED <<load, nextPacketIndex, sequenceNumber, countDown, rcvrs>>

Send ==
    /\ job.known
    /\ nextPacketIndex < packetCount /\ sequenceNumber < MaxSent
    /\ job.packetSize + HeaderSize <= MaxPayload
    /\ Goto("send", "sleep")
    /\ Delivered
    /\ sequenceNumber' = sequenceNumber + 1
    /\ UNCHANGED <<load, nextPacketIndex, countDown, receiver, printed>>

(* An IOException ends send, its socket still open.  The number the packet *)
(* took is not seen any more.                                              *)
SendFails ==
    /\ Goto("send", "done")
    /\ UNCHANGED <<load, nextPacketIndex, sequenceNumber, countDown, rcvrs>>

(* Mutant: the countdown is decremented before it is tested.               *)
FinishedMutant == nextPacketIndex + 1 = packetCount /\ countDown - 1 <= 1

Finished == nextPacketIndex + 1 = packetCount /\ countDown <= 1

NextPacket ==
    LET wraps == nextPacketIndex + 1 = packetCount
    IN  /\ Goto("sleep", IF Finished THEN "leave" ELSE "send")
        /\ nextPacketIndex' = IF wraps THEN 0 ELSE nextPacketIndex + 1
        /\ countDown' = IF wraps THEN countDown - 1 ELSE countDown
        /\ UNCHANGED <<load, sequenceNumber, rcvrs>>

(* leaveGroup throws, as the sender never joined; close is not reached.    *)
LeaveGroup ==
    /\ Goto("leave", "done")
    /\ UNCHANGED <<load, nextPacketIndex, sequenceNumber, countDown, rcvrs>>

SenderStep ==
    \/ Usage \/ LoadFails \/ LoadThrows \/ LoadMetaData
    \/ NoPacket \/ NoAddress \/ Send \/ SendFails \/ NextPacket \/ LeaveGroup

---------------------------------------------------------------------------
(* MulticastReceiver.                                                      *)

Go(r, from, to) ==
    /\ receiver[r] = from /\ receiver' = [receiver EXCEPT ![r] = to]

Sender == <<load, sender, nextPacketIndex, sequenceNumber, countDown>>

(* Somebody starts a receiver.                                             *)
Bind(r) == Go(r, "main", "bound") /\ UNCHANGED <<Sender, received, printed>>

Join(r) == Go(r, "bound", "joined") /\ UNCHANGED <<Sender, received, printed>>

(* Too few arguments, an unknown host, a port in use or no group to join.  *)
Fails(r) ==
    /\ Go(r, "main", "ended") \/ Go(r, "bound", "ended")
    /\ UNCHANGED <<Sender, received, printed>>

(* What 128 bytes show of the file, after the header.                      *)
Shown(d) ==
    LET filled == CurrentPacketSize(job.size, job.packetSize, d.from \div job.packetSize)
        room   == BufferSize - HeaderSize
    IN  [from |-> d.from, bytes |-> IF filled < room THEN filled ELSE room,
         seq |-> d.seq, marked |-> d.marked]

Receive(r) ==
    /\ received[r] # Nothing
    /\ Go(r, "joined", "leave")
    /\ printed' = [printed EXCEPT ![r] = Shown(received[r])]
    /\ UNCHANGED <<Sender, received>>

Leave(r) == Go(r, "leave", "ended") /\ UNCHANGED <<Sender, received, printed>>

ReceiverStep(r) == Bind(r) \/ Join(r) \/ Fails(r) \/ Receive(r) \/ Leave(r)

Next == SenderStep \/ \E r \in Receivers : ReceiverStep(r)

(* Anybody may run at any moment, or never run again: nothing is promised. *)
Spec == Init /\ [][Next]_vars

---------------------------------------------------------------------------
(* The packets of a file of fewer than 2^24 bytes end where it ends: each  *)
(* byte is in one packet, the division through float at :173 or not.       *)
EveryByteOnce ==
    packetCount > 0 /\ job.size < Precision =>
        CopiedUpTo(job.size, job.packetSize) = job.size

(* Nothing but bad arguments, an empty file, or a size a float cannot hold *)
(* ends the sender with an exception it does not catch.                    *)
SenderSurvives ==
    sender = "died" =>
        \/ job.args = 4 \/ ~job.known \/ job.packetSize <= 0
        \/ job.size = 0 \/ job.size >= Precision

Times == IF job.times <= 1 THEN 1 ELSE job.times

(* Every packet is sent as often as asked for, when send leaves its loop,  *)
(* but at least once.                                                      *)
AllRoundsSent == sender = "leave" => sequenceNumber = packetCount * Times

(* The inductive invariant.  Count: what is loaded is the job's file.      *)
(* Sent: the rounds that are over and the current one add up to what was   *)
(* sent.                                                                   *)
Count ==
    /\ sender = "main" =>
          packetCount = 0 /\ nextPacketIndex = 0 /\ sequenceNumber = 0
    /\ packetCount > 0 \/ sender \in {"send", "sleep", "leave"} =>
          job.packetSize > 0 /\ packetCount = PacketCount(job.size, job.packetSize)
    /\ \A r \in Receivers : received[r] # Nothing \/ printed[r] # Nothing => packetCount > 0

Left == IF countDown <= 1 THEN 1 ELSE countDown

Sent ==
    /\ sender \in {"send", "sleep"} =>
          /\ Left <= Times
          /\ sequenceNumber = packetCount * (Times - Left) + nextPacketIndex
                              + (IF sender = "sleep" THEN 1 ELSE 0)
    /\ sender = "sleep" => nextPacketIndex < packetCount

IInv == TypeOK /\ Count /\ Sent /\ SenderSurvives /\ AllRoundsSent

(* The header tells a receiver which piece of the file it has: the number, *)
(* modulo the packets of the file, says where the piece starts; the marker *)
(* says that it is the first; and no byte past the file's end is counted   *)
(* in.                                                                     *)
PieceIdentified ==
    \A r \in Receivers : printed[r] # Nothing =>
        LET p == printed[r]
        IN  /\ p.from = (p.seq % packetCount) * job.packetSize
            /\ p.marked <=> p.seq % packetCount = 0
            /\ job.size < Precision => p.bytes > 0 /\ p.from + p.bytes <= job.size

(* Sender and receivers together implement the broadcast.                  *)
Total == IF job.packetSize > 0 THEN PacketCount(job.size, job.packetSize) * Times
         ELSE 0
Got   == [r \in Receivers |-> IF received[r] = Nothing THEN Nothing ELSE received[r].seq]

B == INSTANCE Broadcast WITH total <- Total, n <- sequenceNumber, got <- Got

Broadcasts == B!Spec
===========================================================================
