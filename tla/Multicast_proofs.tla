------------------------- MODULE Multicast_proofs -------------------------
(***************************************************************************)
(* Packetisation below 2^24 bytes, the invariants of Multicast, and that   *)
(* it implements Broadcast, for every set of jobs and receivers.           *)
(***************************************************************************)
EXTENDS Multicast, TLAPS

(***************************************************************************)
(* Arithmetic.                                                             *)
(***************************************************************************)
LEMMA Division ==
    ASSUME NEW a \in Nat, NEW b \in Nat \ {0}
    PROVE  /\ a \div b \in Nat /\ a % b \in 0..b - 1
           /\ a = b * (a \div b) + (a % b)
<1>1. b \in Int /\ b > 0 /\ a \in Int /\ a >= 0
    OBVIOUS
<1>2. a \div b \in Int /\ a \div b >= 0
    BY <1>1
<1>3. a % b \in 0..b - 1
    BY <1>1
<1>4. a = b * (a \div b) + (a % b)
    BY <1>1
<1> QED BY <1>2, <1>3, <1>4

LEMMA TimesLeq ==
    ASSUME NEW a \in Nat, NEW b \in Nat, NEW c \in Nat, NEW d \in Nat, a <= c, b <= d
    PROVE  a * b <= c * d
<1>1. a * b <= c * b
    <2>1. PICK k \in Nat : c = a + k
        <3>1. c - a \in Nat /\ c = a + (c - a)
            OBVIOUS
        <3> QED BY <3>1
    <2>2. c * b = a * b + k * b
        BY <2>1
    <2>3. k * b \in Nat /\ a * b \in Nat
        OBVIOUS
    <2> QED BY <2>2, <2>3
<1>2. c * b <= c * d
    <2>1. PICK k \in Nat : d = b + k
        <3>1. d - b \in Nat /\ d = b + (d - b)
            OBVIOUS
        <3> QED BY <3>1
    <2>2. c * d = c * b + c * k
        BY <2>1
    <2>3. c * k \in Nat /\ c * b \in Nat
        OBVIOUS
    <2> QED BY <2>2, <2>3
<1>3. a * b \in Nat /\ c * b \in Nat /\ c * d \in Nat
    OBVIOUS
<1> QED BY <1>1, <1>2, <1>3

(* The quotient and the remainder are the only ones.                       *)
LEMMA UniqueQuotient ==
    ASSUME NEW q \in Nat, NEW b \in Nat \ {0}, NEW r \in 0..b - 1
    PROVE  (b * q + r) \div b = q /\ (b * q + r) % b = r
<1> DEFINE n == b * q + r
<1>1. b * q \in Nat /\ n \in Nat
    OBVIOUS
<1>2. PICK p \in Nat, m \in 0..b - 1 : p = n \div b /\ m = n % b /\ n = b * p + m
    <2> HIDE DEF n
    <2> QED BY <1>1, Division
<1>3. b * q + r = b * p + m
    BY <1>2
<1>4. q = p
  <2>1. ASSUME NEW x \in Nat, NEW y \in Nat, NEW u \in 0..b - 1, NEW v \in 0..b - 1,
               x < y, b * x + u = b * y + v
        PROVE  FALSE
    <3>1. b * (x + 1) <= b * y
        BY <2>1, TimesLeq
    <3>2. b * (x + 1) = b * x + b
        OBVIOUS
    <3>3. b * x \in Nat /\ b * y \in Nat
        OBVIOUS
    <3> QED BY <2>1, <3>1, <3>2, <3>3
  <2>2. ~(q < p) /\ ~(p < q)
      BY <1>3, <2>1
  <2> QED BY <2>2
<1> QED BY <1>2, <1>3, <1>4

LEMMA PrecisionPositive == Precision \in Nat /\ Precision > 1
BY DEF Precision

(* A quotient of numbers that a float holds is not rounded to the next     *)
(* whole number: the powers for which it would be are too large.           *)
LEMMA NoRounding ==
    ASSUME NEW x \in Nat, NEW s \in Nat \ {0}, x < Precision
    PROVE  ~RoundsUp(x, s)
<1> DEFINE k == x \div s
           rest == s * (k + 1) - x
<1>1. SUFFICES ASSUME k > 0,
                      NEW f \in Powers, (Precision - 1) \div k < f, f <= s \div rest
               PROVE  FALSE
    BY DEF RoundsUp
<1>2. k \in Nat \ {0} /\ x % s \in 0..s - 1 /\ x = s * k + (x % s)
    BY <1>1, Division
<1>3. rest \in 1..s
  <2>1. s * (k + 1) = s * k + s /\ s * k \in Nat
      BY <1>2
  <2> QED BY <1>2, <2>1
<1> HIDE DEF k, rest
<1>4. s \div rest \in Nat /\ s \div rest <= s
  <2>1. s \div rest \in Nat /\ s = rest * (s \div rest) + (s % rest) /\ s % rest \in Nat
      BY <1>3, Division
  <2>2. 1 * (s \div rest) <= rest * (s \div rest)
      BY <1>3, <2>1, TimesLeq
  <2>3. rest * (s \div rest) \in Nat
      BY <1>3, <2>1
  <2> QED BY <2>1, <2>2, <2>3
<1>5. DEFINE q == (Precision - 1) \div k
<1>6. q \in Nat /\ Precision - 1 < k * (q + 1)
  <2>1. q \in Nat /\ (Precision - 1) % k \in 0..k - 1 /\ Precision - 1 = k * q + ((Precision - 1) % k)
    <3> DEFINE m == Precision - 1
    <3>1. m \in Nat
        BY PrecisionPositive
    <3> HIDE DEF m
    <3>2. m \div k \in Nat /\ m % k \in 0..k - 1 /\ m = k * (m \div k) + (m % k)
        BY <1>2, <3>1, Division
    <3> QED BY <3>2 DEF m
  <2>2. k * (q + 1) = k * q + k /\ k * q \in Nat
      BY <1>2, <2>1
  <2> HIDE DEF q
  <2> QED BY <1>2, <2>1, <2>2
<1>7. q < s
  <2>1. f \in Int
      BY DEF Powers
  <2> QED BY <1>1, <1>4, <1>6, <2>1
<1> HIDE DEF q
<1>8. k * (q + 1) <= k * s
    BY <1>2, <1>6, <1>7, TimesLeq
<1>9. k * s <= x /\ k * s \in Nat /\ k * (q + 1) \in Nat
    BY <1>2, <1>6
<1> QED BY <1>6, <1>8, <1>9, PrecisionPositive

(* The number of packets is the quotient rounded up, and the copying ends  *)
(* at the end of the file.                                                 *)
LEMMA CountRoundsUp ==
    ASSUME NEW size \in Nat, NEW s \in Nat \ {0}, size < Precision
    PROVE  PacketCount(size, s) = size \div s + (IF size % s = 0 THEN 0 ELSE 1)
BY NoRounding DEF PacketCount, FloorOfQuotient, Float

LEMMA CopiedExactly ==
    ASSUME NEW size \in Nat, NEW s \in Nat \ {0}, size < Precision
    PROVE  CopiedUpTo(size, s) = size
<1> DEFINE q == size \div s
           r == size % s
           count == PacketCount(size, s)
<1>1. q \in Nat /\ r \in 0..s - 1 /\ size = s * q + r
    BY Division
<1>2. count = q + (IF r = 0 THEN 0 ELSE 1)
    BY CountRoundsUp
<1>3. CopiedUpTo(size, s) = IF count - 1 < 0 THEN 0
                            ELSE (count - 1) * s + (IF r = 0 THEN s ELSE r)
    BY DEF CopiedUpTo, CurrentPacketSize, LastPacketSize
<1> HIDE DEF q, r, count
<1>4. CASE r = 0 /\ q = 0
    BY <1>1, <1>2, <1>3, <1>4
<1>5. CASE r = 0 /\ q > 0
  <2>1. (q - 1) * s + s = s * q
      BY <1>1, <1>5
  <2> QED BY <1>1, <1>2, <1>3, <1>5, <2>1
<1>6. CASE r # 0
  <2>1. count - 1 = q
      BY <1>1, <1>2, <1>6
  <2>2. ~(count - 1 < 0)
      BY <1>1, <2>1
  <2> QED BY <1>1, <1>3, <1>6, <2>1, <2>2
<1> QED BY <1>1, <1>4, <1>5, <1>6

---------------------------------------------------------------------------
(***************************************************************************)
(* The inductive invariant.                                                *)
(***************************************************************************)
JobFields == job.args \in Nat /\ job.size \in Nat /\ job.packetSize \in Int /\ job.times \in Int

LEMMA JobTypes ==
    ASSUME job \in Jobs
    PROVE  /\ JobFields
           /\ job.packetSize > 0 =>
                 /\ job.packetSize \in Nat \ {0}
                 /\ PacketCount(job.size, job.packetSize) \in Nat
BY JobsAssumption DEF JobFields

(* What is copied into a packet has a length.                              *)
LEMMA CurrentRange ==
    ASSUME NEW size \in Nat, NEW s \in Nat \ {0}, NEW i
    PROVE  CurrentPacketSize(size, s, i) \in 1..s
<1>1. size % s \in 0..s - 1
    BY Division
<1> QED BY <1>1 DEF CurrentPacketSize, LastPacketSize

LEMMA NumberRange ==
    ASSUME NEW n \in Nat
    PROVE  n % (256 * 256) \in Stamps
<1>1. 256 * 256 \in Nat \ {0}
    OBVIOUS
<1>2. \A w \in Nat \ {0} : n % w \in 0..w - 1
    OBVIOUS
<1> QED BY <1>1, <1>2, Zenon DEF Stamps

LEMMA DatagramType ==
    ASSUME TypeOK, Count, sender = "send"
    PROVE  Datagram \in Datagrams
<1>1. nextPacketIndex \in Nat /\ sequenceNumber \in Nat /\ job \in Jobs
    BY DEF TypeOK
<1>2. job.packetSize \in Nat
    BY <1>1, JobTypes DEF Count
<1>3. nextPacketIndex * job.packetSize \in Nat
    BY <1>1, <1>2
<1> QED BY <1>1, <1>3, NumberRange DEF Datagram, Datagrams

(* A receiver starts and stops, and takes over what arrived.               *)
LEMMA ReceiverType ==
    ASSUME TypeOK, Count, NEW r \in Receivers, ReceiverStep(r)
    PROVE  TypeOK'
<1>1. job \in Jobs /\ UNCHANGED <<Sender, received>>
    BY DEF TypeOK, ReceiverStep, Bind, Join, Fails, Receive, Leave
<1>2. receiver' \in [Receivers -> ReceiverLabels]
    BY DEF TypeOK, ReceiverStep, Bind, Join, Fails, Receive, Leave, Go, ReceiverLabels
<1>3. printed' \in [Receivers -> Printed \cup {Nothing}]
  <2>1. CASE UNCHANGED printed
      BY <2>1 DEF TypeOK
  <2>2. CASE Receive(r)
    <3>1. received[r] \in Datagrams
        BY <2>2 DEF TypeOK, Receive
    <3>2. job.size \in Nat /\ job.packetSize \in Nat \ {0}
        BY <1>1, <2>2, JobTypes DEF Count, Receive, JobFields
    <3> DEFINE filled == CurrentPacketSize(job.size, job.packetSize,
                                           received[r].from \div job.packetSize)
               shown  == IF filled < BufferSize - HeaderSize THEN filled
                         ELSE BufferSize - HeaderSize
    <3>3. filled \in 1..job.packetSize
        BY <3>2, CurrentRange
    <3> HIDE DEF filled
    <3>4. shown \in 0..BufferSize
        BY <3>2, <3>3 DEF BufferSize, HeaderSize
    <3>5. Shown(received[r]) = [from |-> received[r].from, bytes |-> shown,
                                seq |-> received[r].seq, marked |-> received[r].marked]
        BY DEF Shown, filled
    <3> HIDE DEF shown
    <3>6. Shown(received[r]) \in Printed
        BY <3>1, <3>4, <3>5 DEF Printed, Datagrams
    <3> QED BY <2>2, <3>6 DEF TypeOK, Receive
  <2> QED BY <2>1, <2>2 DEF ReceiverStep, Bind, Join, Fails, Leave
<1> QED BY <1>1, <1>2, <1>3 DEF TypeOK, Sender, load

(* The sender's steps, one at a time.                                      *)
LEMMA SenderType ==
    ASSUME TypeOK, Count, Sent, SenderStep
    PROVE  TypeOK'
<1>1. CASE Usage
    BY <1>1 DEF TypeOK, Usage, Goto, SenderLabels, load, rcvrs
<1>2. CASE LoadFails
    BY <1>2 DEF TypeOK, LoadFails, Goto, SenderLabels, load, rcvrs
<1>3. CASE LoadThrows
    BY <1>3 DEF TypeOK, LoadThrows, Goto, SenderLabels, load, rcvrs
<1>4. CASE LoadMetaData
  <2>1. job \in Jobs /\ job.packetSize > 0 /\ nextPacketIndex = 0 /\ sender = "main"
      BY <1>4, JobTypes DEF TypeOK, LoadMetaData, Throws, Goto, Count, JobFields
  <2>2. packetCount' \in Nat /\ countDown' \in Int
      BY <1>4, <2>1, JobTypes DEF LoadMetaData, JobFields
  <2> QED BY <1>4, <2>1, <2>2 DEF TypeOK, LoadMetaData, Goto, SenderLabels, rcvrs
<1>5. CASE NoPacket \/ NoAddress
    BY <1>5 DEF TypeOK, NoPacket, NoAddress, Goto, SenderLabels, load, rcvrs
<1>6. CASE Send
  <2>1. Datagram \in Datagrams
      BY <1>6, DatagramType DEF Send, Goto
  <2>2. received' \in [Receivers -> Datagrams \cup {Nothing}]
      BY <1>6, <2>1 DEF TypeOK, Send, Delivered
  <2> QED BY <1>6, <2>2 DEF TypeOK, Send, Goto, SenderLabels, load
<1>7. CASE SendFails
    BY <1>7 DEF TypeOK, SendFails, Goto, SenderLabels, load, rcvrs
<1>8. CASE NextPacket
  <2>1. nextPacketIndex < packetCount
      BY <1>8 DEF Sent, NextPacket, Goto
  <2>2. nextPacketIndex' \in Nat /\ (nextPacketIndex' = 0 \/ nextPacketIndex' < packetCount)
      BY <1>8, <2>1 DEF TypeOK, NextPacket
  <2>3. countDown' \in Int
      BY <1>8 DEF TypeOK, NextPacket
  <2>4. sender' \in SenderLabels
      BY <1>8 DEF NextPacket, Goto, SenderLabels
  <2> QED BY <1>8, <2>2, <2>3, <2>4 DEF TypeOK, NextPacket, load, rcvrs
<1>9. CASE LeaveGroup
    BY <1>9 DEF TypeOK, LeaveGroup, Goto, SenderLabels, load, rcvrs
<1> QED BY <1>1, <1>2, <1>3, <1>4, <1>5, <1>6, <1>7, <1>8, <1>9 DEF SenderStep

LEMMA SenderCount ==
    ASSUME TypeOK, Count, SenderStep
    PROVE  Count'
<1>1. CASE LoadMetaData
  <2>1. job.packetSize > 0 /\ job' = job
        /\ packetCount' = PacketCount(job.size, job.packetSize)
    <3>1. job.packetSize \in Int
        BY JobTypes DEF TypeOK, JobFields
    <3> QED BY <1>1, <3>1 DEF LoadMetaData, Throws
  <2>2. \A r \in Receivers : received'[r] = Nothing /\ printed'[r] = Nothing
      BY <1>1 DEF Count, LoadMetaData, Goto, rcvrs
  <2>3. sender' = "send"
      BY <1>1 DEF LoadMetaData, Goto
  <2> QED BY <2>1, <2>2, <2>3 DEF Count
<1>2. CASE Send
    BY <1>2 DEF TypeOK, Count, Send, Delivered, Goto, load
<1>3. CASE NextPacket
    BY <1>3 DEF TypeOK, Count, NextPacket, Goto, load, rcvrs
<1>4. CASE Usage \/ LoadFails \/ LoadThrows
    BY <1>4 DEF TypeOK, Count, Usage, LoadFails, LoadThrows, Goto, load, rcvrs
<1>5. CASE NoPacket \/ NoAddress \/ SendFails \/ LeaveGroup
    BY <1>5 DEF TypeOK, Count, NoPacket, NoAddress, SendFails, LeaveGroup, Goto, load, rcvrs
<1> QED BY <1>1, <1>2, <1>3, <1>4, <1>5 DEF SenderStep

LEMMA TimesType ==
    ASSUME TypeOK
    PROVE  Times \in Nat \ {0} /\ Left \in Nat \ {0}
BY JobTypes DEF TypeOK, JobFields, Times, Left

(* The sum of what is sent; at the end of a round a whole file is added.   *)
LEMMA SenderSent ==
    ASSUME TypeOK, Count, Sent, SenderStep
    PROVE  Sent' /\ AllRoundsSent'
<1>0. Times \in Nat \ {0} /\ Left \in Nat \ {0} /\ packetCount \in Nat /\ job.times \in Int
    BY TimesType, JobTypes DEF TypeOK, JobFields
<1>1. CASE LoadMetaData
  <2>1. sequenceNumber' = 0 /\ nextPacketIndex' = 0 /\ Left' = Times /\ Times' = Times
      BY <1>1 DEF Count, LoadMetaData, Goto, Left, Times
  <2>2. packetCount' \in Nat
      BY <1>1, SenderType DEF TypeOK, SenderStep
  <2>3. packetCount' * (Times - Times) = 0
    <3>1. Times - Times = 0
        BY <1>0
    <3>2. ASSUME NEW a \in Nat PROVE a * 0 = 0
        OBVIOUS
    <3>3. packetCount' * 0 = 0
        BY <2>2, <3>2
    <3> QED BY <3>1, <3>3
  <2> QED BY <1>0, <1>1, <2>1, <2>3 DEF Sent, AllRoundsSent, LoadMetaData, Goto
<1>2. CASE Send
  <2>1. Left' = Left /\ Times' = Times /\ packetCount' = packetCount
      BY <1>2 DEF Send, load, Left, Times
  <2>2. sender = "send" /\ sender' = "sleep"
      BY <1>2 DEF Send, Goto
  <2>3. sequenceNumber = packetCount * (Times - Left) + nextPacketIndex + 0 /\ Left <= Times
      BY <2>2 DEF Sent
  <2>4. packetCount * (Times - Left) \in Int
      BY <1>0
  <2> QED BY <1>2, <2>1, <2>2, <2>3, <2>4 DEF TypeOK, Sent, AllRoundsSent, Send
<1>3. CASE NextPacket
  <2>1. Times' = Times /\ packetCount' = packetCount /\ sequenceNumber' = sequenceNumber
      BY <1>3 DEF NextPacket, load, Times
  <2>2. sequenceNumber = packetCount * (Times - Left) + nextPacketIndex + 1
        /\ Left <= Times /\ nextPacketIndex < packetCount
      BY <1>3 DEF Sent, NextPacket, Goto
  <2>3. packetCount * (Times - Left) \in Int /\ nextPacketIndex \in Nat /\ countDown \in Int
      BY <1>0 DEF TypeOK
  <2>4. CASE nextPacketIndex + 1 # packetCount
    <3>1. sender' = "send" /\ nextPacketIndex' = nextPacketIndex + 1 /\ Left' = Left
        BY <1>3, <2>4 DEF NextPacket, Goto, Finished, Left
    <3> QED BY <2>1, <2>2, <2>3, <3>1 DEF Sent, AllRoundsSent
  <2>5. CASE nextPacketIndex + 1 = packetCount
    <3>1. packetCount * (Times - Left) + packetCount = packetCount * (Times - Left + 1)
        BY <1>0
    <3>2. sequenceNumber = packetCount * (Times - Left + 1)
        BY <2>2, <2>3, <2>5, <3>1
    <3>3. CASE countDown <= 1
      <4>1. sender' = "leave" /\ Left = 1
          BY <1>3, <2>5, <3>3 DEF NextPacket, Goto, Finished, Left
      <4>2. Times - Left + 1 = Times
          BY <1>0, <4>1
      <4> QED BY <2>1, <3>2, <4>1, <4>2 DEF Sent, AllRoundsSent
    <3>4. CASE countDown > 1
      <4>1. sender' = "send" /\ nextPacketIndex' = 0 /\ countDown' = countDown - 1
          BY <1>3, <2>3, <2>5, <3>4 DEF NextPacket, Goto, Finished
      <4>2. Left' = Left - 1
          BY <2>3, <3>4, <4>1 DEF Left
      <4>3. Times - Left + 1 = Times - (Left - 1) /\ Left - 1 <= Times
          BY <1>0, <2>2
      <4>4. packetCount * (Times - (Left - 1)) \in Int
          BY <1>0
      <4>5. sequenceNumber = packetCount * (Times - (Left - 1)) + 0 + 0
          BY <3>2, <4>3, <4>4
      <4> QED BY <2>1, <4>1, <4>2, <4>3, <4>5 DEF Sent, AllRoundsSent
    <3> QED BY <2>3, <3>3, <3>4
  <2> QED BY <2>4, <2>5
<1>4. CASE \/ Usage \/ LoadFails \/ LoadThrows \/ NoPacket \/ NoAddress
                \/ SendFails \/ LeaveGroup
    BY <1>4 DEF Sent, AllRoundsSent, Usage, LoadFails, LoadThrows, NoPacket, NoAddress,
                SendFails, LeaveGroup, Goto
<1> QED BY <1>1, <1>2, <1>3, <1>4 DEF SenderStep

(* How the sender can die: small files are cut without an exception, and   *)
(* have a packet unless they are empty.                                    *)
LEMMA SenderDies ==
    ASSUME TypeOK, Count, SenderSurvives, SenderStep
    PROVE  SenderSurvives'
<1>0. JobFields /\ job' = job
    BY JobTypes DEF TypeOK, SenderStep, Usage, LoadFails, LoadThrows, LoadMetaData,
                    NoPacket, NoAddress, Send, SendFails, NextPacket, LeaveGroup, load
<1>1. CASE Usage
    BY <1>0, <1>1 DEF SenderSurvives, Usage, Goto, JobFields
<1>2. CASE LoadThrows
  <2>1. ASSUME job.packetSize > 0, job.size < Precision PROVE FALSE
      BY <1>0, <1>2, <2>1, CopiedExactly DEF JobFields, LoadThrows, Throws
  <2>2. Precision \in Nat
      BY PrecisionPositive
  <2> QED BY <1>0, <2>1, <2>2 DEF SenderSurvives, JobFields
<1>3. CASE NoPacket
  <2>1. packetCount = 0 /\ job.packetSize > 0 /\ packetCount = PacketCount(job.size, job.packetSize)
      BY <1>3 DEF TypeOK, Count, NoPacket, Goto
  <2>2. ASSUME job.size < Precision PROVE job.size = 0
    <3>1. job.size \in Nat /\ job.packetSize \in Nat \ {0}
        BY <1>0, <2>1 DEF JobFields
    <3> DEFINE q == job.size \div job.packetSize
               r == job.size % job.packetSize
    <3>2. q \in Nat /\ r \in 0..job.packetSize - 1 /\ job.size = job.packetSize * q + r
        BY <3>1, Division
    <3>3. 0 = q + (IF r = 0 THEN 0 ELSE 1)
        BY <2>1, <2>2, <3>1, CountRoundsUp
    <3> HIDE DEF q, r
    <3>4. q = 0 /\ r = 0
        BY <3>2, <3>3
    <3>5. job.packetSize * 0 = 0
        BY <3>1
    <3> QED BY <3>2, <3>4, <3>5
  <2>3. Precision \in Nat
      BY PrecisionPositive
  <2> QED BY <1>0, <2>2, <2>3 DEF SenderSurvives, JobFields
<1>4. CASE NoAddress
  <2>1. job' = job /\ ~job.known
      BY <1>4 DEF NoAddress, load
  <2>2. ~job'.known
      BY <2>1, Zenon
  <2> QED BY <2>2 DEF SenderSurvives
<1>5. CASE LoadFails \/ LoadMetaData \/ Send \/ SendFails \/ NextPacket \/ LeaveGroup
    BY <1>5 DEF SenderSurvives, LoadFails, LoadMetaData, Send, SendFails, NextPacket,
                LeaveGroup, Goto
<1> QED BY <1>1, <1>2, <1>3, <1>4, <1>5 DEF SenderStep

(* Receivers change nothing of the sender's.                               *)
LEMMA ReceiverRest ==
    ASSUME Count, Sent, SenderSurvives, AllRoundsSent, NEW r \in Receivers, ReceiverStep(r)
    PROVE  Count' /\ Sent' /\ SenderSurvives' /\ AllRoundsSent'
<1>1. UNCHANGED <<Sender, received>>
    BY DEF ReceiverStep, Bind, Join, Fails, Receive, Leave
<1>2. Sent' /\ SenderSurvives' /\ AllRoundsSent'
    BY <1>1 DEF Sender, load, Sent, SenderSurvives, AllRoundsSent, Left, Times
<1>3. \A x \in Receivers : printed'[x] # Nothing => packetCount > 0
  <2>1. CASE UNCHANGED printed
      BY <2>1 DEF Count
  <2>2. CASE Receive(r)
      BY <2>2 DEF Count, Receive
  <2> QED BY <2>1, <2>2 DEF ReceiverStep, Bind, Join, Fails, Leave
<1> QED BY <1>1, <1>2, <1>3 DEF Sender, load, Count

(* The inductive invariant holds for all jobs and receivers.               *)
THEOREM Invariance == Spec => []IInv
<1>1. Init => IInv
    BY JobsAssumption DEF Init, IInv, TypeOK, Count, Sent, SenderSurvives, AllRoundsSent,
                          SenderLabels, ReceiverLabels
<1>2. IInv /\ [Next]_vars => IInv'
  <2> SUFFICES ASSUME IInv, [Next]_vars PROVE IInv'
      OBVIOUS
  <2> USE DEF IInv
  <2>1. CASE SenderStep
      BY <2>1, SenderType, SenderCount, SenderSent, SenderDies
  <2>2. ASSUME NEW r \in Receivers, ReceiverStep(r) PROVE IInv'
      BY <2>2, ReceiverType, ReceiverRest
  <2>3. CASE UNCHANGED vars
      BY <2>3 DEF vars, load, rcvrs, TypeOK, Count, Sent, SenderSurvives, AllRoundsSent,
                  Left, Times
  <2> QED BY <2>1, <2>2, <2>3 DEF Next
<1> QED BY <1>1, <1>2, PTL DEF Spec

(* Every variable keeps its type, and the index stays within the packets.  *)
THEOREM TypeCorrect == Spec => []TypeOK
BY Invariance, PTL DEF IInv

(* Each packet is sent as often as asked for.                              *)
THEOREM RoundsComplete == Spec => []AllRoundsSent
BY Invariance, PTL DEF IInv

(* The sender dies of bad arguments, empty files and files of 16 MB only.  *)
THEOREM Survival == Spec => []SenderSurvives
BY Invariance, PTL DEF IInv

(* For every file of fewer than 2^24 bytes and every packet size, each     *)
(* byte is in one packet.                                                  *)
THEOREM BytesCovered == Spec => []EveryByteOnce
<1>1. ASSUME IInv PROVE EveryByteOnce
  <2>1. SUFFICES ASSUME packetCount > 0, job.size < Precision
                 PROVE  CopiedUpTo(job.size, job.packetSize) = job.size
      BY DEF EveryByteOnce
  <2>2. job.size \in Nat /\ job.packetSize \in Nat \ {0}
      BY <1>1, <2>1, JobTypes DEF IInv, TypeOK, Count, JobFields
  <2> QED BY <2>1, <2>2, CopiedExactly
<1> QED BY Invariance, <1>1, PTL

---------------------------------------------------------------------------
(***************************************************************************)
(* Refinement.                                                             *)
(***************************************************************************)
LEMMA TotalType ==
    ASSUME job \in Jobs
    PROVE  Total \in Nat
<1>1. job.packetSize \in Int /\ job.times \in Int
    BY JobTypes DEF JobFields
<1>2. Times \in Nat
    BY <1>1 DEF Times
<1>3. ASSUME job.packetSize > 0
      PROVE  PacketCount(job.size, job.packetSize) * Times \in Nat
  <2>1. PacketCount(job.size, job.packetSize) \in Nat
      BY <1>3, JobTypes
  <2> QED BY <1>2, <2>1
<1> QED BY <1>1, <1>3 DEF Total

(* A datagram the code sends is one that is still due.                     *)
LEMMA StillDue ==
    ASSUME IInv, Send
    PROVE  sequenceNumber < Total
<1>1. Times \in Nat \ {0} /\ Left \in Nat \ {0} /\ packetCount \in Nat /\ nextPacketIndex \in Nat
    BY TimesType DEF IInv, TypeOK
<1>2. /\ sequenceNumber = packetCount * (Times - Left) + nextPacketIndex + 0
      /\ Left <= Times /\ nextPacketIndex < packetCount
    BY DEF IInv, Sent, Send, Goto
<1>3. packetCount * (Times - Left) + packetCount = packetCount * (Times - Left + 1)
    BY <1>1
<1>4. packetCount * (Times - Left + 1) <= packetCount * Times
    BY <1>1, <1>2, TimesLeq
<1>5. packetCount * (Times - Left) \in Int /\ packetCount * Times \in Int
    BY <1>1
<1>6. sequenceNumber < packetCount * Times
    BY <1>1, <1>2, <1>3, <1>4, <1>5
<1>7. Total = packetCount * Times
    BY DEF IInv, Count, Send, Goto, Total
<1> QED BY <1>6, <1>7

LEMMA SendRefines ==
    ASSUME IInv, Send
    PROVE  B!Send
<1>1. sequenceNumber < Total /\ sequenceNumber' = sequenceNumber + 1
    BY StillDue DEF Send
<1>2. Total' = Total
    BY DEF Send, load, Total, Times
<1>3. PICK S \in SUBSET {r \in Receivers : receiver[r] \in {"bound", "joined"}} :
          received' = [r \in Receivers |-> IF r \in S /\ received[r] = Nothing
                                           THEN Datagram ELSE received[r]]
    BY DEF Send, Delivered
<1> DEFINE T == {r \in S : received[r] = Nothing}
<1>4. ASSUME NEW r \in Receivers, received[r] # Nothing
      PROVE  received[r].seq # Nothing
    BY NothingAssumption, <1>4 DEF IInv, TypeOK, Datagrams
<1>5. T \in SUBSET {r \in Receivers : Got[r] = Nothing}
    BY DEF Got
<1>6. Datagram # Nothing /\ Datagram.seq = sequenceNumber % (256 * 256)
  <2>1. Datagram \in Datagrams
      BY DatagramType DEF IInv, Send, Goto
  <2> QED BY <2>1, NothingAssumption DEF Datagram
<1>7. Got' = [r \in Receivers |-> IF r \in T THEN sequenceNumber % (256 * 256) ELSE Got[r]]
    BY <1>3, <1>6 DEF Got
<1> HIDE DEF T
<1> QED BY <1>1, <1>2, <1>5, <1>7 DEF B!Send

(* Sender and receivers implement the broadcast: a fixed number of         *)
(* datagrams in order, and one of them at most for each receiver.          *)
THEOREM Refinement == Spec => Broadcasts
<1>1. Init => B!Init
    BY TotalType DEF Init, B!Init, Got
<1>2. IInv /\ [Next]_vars => [B!Send]_<<Total, sequenceNumber, Got>>
  <2> SUFFICES ASSUME IInv, [Next]_vars
               PROVE  B!Send \/ UNCHANGED <<Total, sequenceNumber, Got>>
      OBVIOUS
  <2>1. CASE Send
      BY <2>1, SendRefines
  <2>2. CASE SenderStep /\ ~Send
      BY <2>2 DEF SenderStep, Usage, LoadFails, LoadThrows, LoadMetaData, NoPacket,
                  NoAddress,
                  SendFails, NextPacket, LeaveGroup, load, rcvrs, Total, Times, Got
  <2>3. ASSUME NEW r \in Receivers, ReceiverStep(r)
        PROVE  UNCHANGED <<Total, sequenceNumber, Got>>
      BY <2>3 DEF ReceiverStep, Bind, Join, Fails, Receive, Leave, Sender, load,
                  Total, Times, Got
  <2>4. CASE UNCHANGED vars
      BY <2>4 DEF vars, load, rcvrs, Total, Times, Got
  <2> QED BY <2>1, <2>2, <2>3, <2>4 DEF Next
<1> QED BY Invariance, <1>1, <1>2, PTL DEF Spec, Broadcasts, B!Spec

---------------------------------------------------------------------------
(***************************************************************************)
(* What a receiver can tell from the header, as long as the 16 bits of the *)
(* sequence number are enough for the whole transmission.                  *)
(***************************************************************************)
Short == Total <= 256 * 256

Arrived ==
    \A r \in Receivers : received[r] # Nothing =>
        /\ received[r].from = (received[r].seq % packetCount) * job.packetSize
        /\ received[r].marked <=> received[r].seq % packetCount = 0

LEMMA SmallNumber ==
    ASSUME NEW n \in Nat, n < 256 * 256
    PROVE  n % (256 * 256) = n
OBVIOUS

LEMMA SendArrives ==
    ASSUME IInv, Short, Arrived, Send
    PROVE  Arrived'
<1>1. /\ Times \in Nat \ {0} /\ Left \in Nat \ {0} /\ packetCount \in Nat /\ nextPacketIndex \in Nat
      /\ sequenceNumber \in Nat
    BY TimesType DEF IInv, TypeOK
<1>2. /\ sequenceNumber = packetCount * (Times - Left) + nextPacketIndex + 0
      /\ Left <= Times /\ nextPacketIndex < packetCount
    BY DEF IInv, Sent, Send, Goto
<1>3. sequenceNumber % packetCount = nextPacketIndex
  <2> DEFINE q == Times - Left
  <2>1. q \in Nat /\ packetCount \in Nat \ {0} /\ nextPacketIndex \in 0..packetCount - 1
      BY <1>1, <1>2
  <2>2. sequenceNumber = packetCount * q + nextPacketIndex
      BY <1>1, <1>2, <2>1
  <2> HIDE DEF q
  <2> QED BY <2>1, <2>2, UniqueQuotient
<1>4. sequenceNumber % (256 * 256) = sequenceNumber
  <2>1. sequenceNumber < Total /\ Total \in Nat
      BY StillDue, TotalType DEF IInv, TypeOK
  <2>2. Total <= 256 * 256
      BY DEF Short
  <2> HIDE DEF Total
  <2>3. sequenceNumber < 256 * 256
      BY <1>1, <2>1, <2>2
  <2> QED BY <1>1, <2>3, SmallNumber
<1>5. UNCHANGED <<job, packetCount>>
    BY DEF Send, load
<1> SUFFICES ASSUME NEW r \in Receivers, received'[r] # Nothing
             PROVE  /\ received'[r].from = (received'[r].seq % packetCount) * job.packetSize
                    /\ received'[r].marked <=> received'[r].seq % packetCount = 0
    BY <1>5 DEF Arrived
<1>6. received'[r] \in {Datagram, received[r]}
    BY DEF Send, Delivered
<1>7. CASE received'[r] = Datagram
  <2>1. /\ Datagram.from = nextPacketIndex * job.packetSize
        /\ Datagram.seq = sequenceNumber
        /\ Datagram.marked = (nextPacketIndex = 0)
      BY <1>4 DEF Datagram
  <2> QED BY <1>3, <1>7, <2>1
<1>8. CASE received'[r] = received[r]
    BY <1>8 DEF Arrived
<1> QED BY <1>6, <1>7, <1>8

LEMMA OthersArrive ==
    ASSUME IInv, Arrived, [Next]_vars, ~Send
    PROVE  Arrived'
<1>1. CASE LoadMetaData
    BY <1>1 DEF IInv, Count, LoadMetaData, Goto, rcvrs, Arrived
<1>2. CASE UNCHANGED <<job, packetCount, received>>
    BY <1>2 DEF Arrived
<1> QED BY <1>1, <1>2 DEF Next, SenderStep, Usage, LoadFails, LoadThrows, NoPacket,
        NoAddress,
        SendFails, NextPacket, LeaveGroup, ReceiverStep, Bind, Join, Fails, Receive,
        Leave, Sender, load, rcvrs, vars

(* The bytes a datagram shows are bytes of the file.                       *)
LEMMA BytesOfFile ==
    ASSUME NEW size \in Nat, NEW s \in Nat \ {0}, size < Precision,
           NEW i \in Nat, i < PacketCount(size, s)
    PROVE  i * s + CurrentPacketSize(size, s, i) <= size
<1> DEFINE last == PacketCount(size, s) - 1
<1>1. PacketCount(size, s) \in Nat
  <2>1. size \div s \in Nat
      BY Division
  <2> QED BY <2>1, CountRoundsUp
<1>2. last \in Nat /\ i <= last
    BY <1>1
<1>3. last * s + CurrentPacketSize(size, s, last) = size
    BY <1>2, CopiedExactly DEF CopiedUpTo
<1>4. CurrentPacketSize(size, s, last) \in 1..s
    BY CurrentRange
<1>5. CASE i = last
    BY <1>3, <1>5, <1>4, <1>2
<1>6. CASE i # last
  <2>1. CurrentPacketSize(size, s, i) = s
      BY <1>6 DEF CurrentPacketSize
  <2>2. (i + 1) * s <= last * s
      BY <1>2, <1>6, TimesLeq
  <2>3. (i + 1) * s = i * s + s /\ i * s \in Nat /\ last * s \in Nat
      BY <1>2
  <2> HIDE DEF last
  <2> QED BY <1>3, <1>4, <2>1, <2>2, <2>3
<1> QED BY <1>5, <1>6

LEMMA ReceiveIdentifies ==
    ASSUME IInv, Arrived, PieceIdentified, NEW r \in Receivers, Receive(r)
    PROVE  PieceIdentified'
<1> DEFINE d == received[r]
           p == Shown(d)
           i == d.seq % packetCount
<1>1. d \in Datagrams /\ packetCount \in Nat \ {0} /\ job.packetSize \in Nat \ {0}
      /\ job.size \in Nat /\ packetCount = PacketCount(job.size, job.packetSize)
    BY JobTypes DEF IInv, TypeOK, Count, Receive, JobFields
<1>2. d.from = i * job.packetSize /\ (d.marked <=> i = 0)
    BY DEF Arrived, Receive
<1>3. i \in Nat /\ i < packetCount
  <2>1. d.seq \in Stamps
      BY <1>1 DEF Datagrams
  <2>2. \A x \in Stamps : x \in Nat
      BY DEF Stamps
  <2> DEFINE m == d.seq
  <2>3. m \in Nat
      BY <2>1, <2>2
  <2> HIDE DEF m
  <2>4. m % packetCount \in 0..packetCount - 1
      BY <1>1, <2>3, Division
  <2>5. i = m % packetCount
      BY DEF m
  <2> HIDE DEF i
  <2> QED BY <1>1, <2>4, <2>5
<1> DEFINE filled == CurrentPacketSize(job.size, job.packetSize, i)
<1>4. d.from \div job.packetSize = i
  <2>1. d.from = job.packetSize * i + 0
      BY <1>1, <1>2, <1>3
  <2> HIDE DEF i, d
  <2>2. 0 \in 0..job.packetSize - 1
      BY <1>1
  <2> QED BY <1>1, <1>3, <2>1, <2>2, UniqueQuotient
<1>5. filled \in Nat \ {0}
    BY <1>1, CurrentRange
<1>6. p.from = d.from /\ p.seq = d.seq /\ p.marked = d.marked
      /\ p.bytes \in Nat \ {0} /\ p.bytes <= filled
    BY <1>4, <1>5 DEF Shown, BufferSize, HeaderSize
<1>7. ASSUME job.size < Precision PROVE p.from + p.bytes <= job.size
  <2>1. i * job.packetSize + filled <= job.size
      BY <1>1, <1>3, <1>7, BytesOfFile
  <2>2. i * job.packetSize \in Nat
      BY <1>1, <1>3
  <2> HIDE DEF p, i, d, filled
  <2> QED BY <1>1, <1>2, <1>5, <1>6, <2>1, <2>2
<1>8. printed' = [printed EXCEPT ![r] = p] /\ UNCHANGED <<job, packetCount>>
    BY DEF Receive, Sender, load
<1>9. printed \in [Receivers -> Printed \cup {Nothing}]
    BY DEF IInv, TypeOK
<1>10. p.from = (p.seq % packetCount) * job.packetSize /\ (p.marked <=> p.seq % packetCount = 0)
    BY <1>2, <1>6
<1> HIDE DEF p, i, d, filled
<1>11. SUFFICES ASSUME NEW x \in Receivers, printed'[x] # Nothing
       PROVE /\ printed'[x].from = (printed'[x].seq % packetCount) * job.packetSize
             /\ printed'[x].marked <=> printed'[x].seq % packetCount = 0
             /\ job.size < Precision =>
                   printed'[x].bytes > 0 /\ printed'[x].from + printed'[x].bytes <= job.size
    BY <1>8 DEF PieceIdentified
<1>12. CASE x = r
  <2>1. printed'[x] = p
      BY <1>8, <1>9, <1>12
  <2> QED BY <1>6, <1>7, <1>10, <2>1
<1>13. CASE x # r
  <2>1. printed'[x] = printed[x]
      BY <1>8, <1>9, <1>13
  <2> QED BY <1>11, <2>1 DEF PieceIdentified
<1> QED BY <1>12, <1>13

(* A receiver can tell from number and marker which piece of the file it   *)
(* has, if at most 65536 datagrams are sent.                               *)
THEOREM PiecesKnown == Spec /\ []Short => []PieceIdentified
<1> DEFINE Known == Arrived /\ PieceIdentified
<1>1. Init => Known
    BY DEF Init, Arrived, PieceIdentified
<1>2. IInv /\ Short /\ Known /\ [Next]_vars => Known'
  <2> SUFFICES ASSUME IInv, Short, Known, [Next]_vars PROVE Known'
      OBVIOUS
  <2>1. Arrived'
      BY SendArrives, OthersArrive
  <2>2. CASE \E r \in Receivers : Receive(r)
    <3>1. PICK r \in Receivers : Receive(r)
        BY <2>2
    <3> QED BY <2>1, <3>1, ReceiveIdentifies
  <2>3. CASE LoadMetaData
    <3>1. packetCount = 0
        BY <2>3 DEF IInv, Count, LoadMetaData, Goto
    <3>2. \A r \in Receivers : printed'[r] = Nothing
        BY <2>3, <3>1 DEF IInv, Count, LoadMetaData, rcvrs
    <3> QED BY <2>1, <3>2 DEF PieceIdentified
  <2>4. CASE UNCHANGED <<job, packetCount, printed>>
      BY <2>1, <2>4 DEF PieceIdentified
  <2> QED BY <2>1, <2>2, <2>3, <2>4 DEF Next, SenderStep, Usage, LoadFails, LoadThrows,
          NoPacket, NoAddress, Send, SendFails, NextPacket, LeaveGroup, ReceiverStep, Bind, Join,
          Fails, Leave, Sender, load, rcvrs, vars
<1> QED BY Invariance, <1>1, <1>2, PTL DEF Spec
===========================================================================
