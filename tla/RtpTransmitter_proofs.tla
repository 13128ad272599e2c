----------------------- MODULE RtpTransmitter_proofs -----------------------
(***************************************************************************)
(* The transmitter, for every number of threads, loads and packets, and    *)
(* every caller but the hasty one.                                         *)
(***************************************************************************)
EXTENDS RtpTransmitter, TLAPS

(* The callers considered wait until a thread they started runs.           *)
Patient == "hurry" \notin Policies

LEMMA PolicyPatient ==
    ASSUME Patient, TypeOK
    PROVE  policy \in {"wait", "reload"}
BY TransmitterAssumption DEF Patient, TypeOK

LEMMA ThreadTypes ==
    ASSUME TypeOK, NEW t \in Threads
    PROVE  /\ thread[t] \in Locals /\ Pc(t) \in Labels
           /\ thread[t].packet \in Buffers \cup {Null}
           /\ thread[t].count \in Nat /\ thread[t].length \in Nat
           /\ thread[t].index \in Nat /\ thread[t].seq \in Nat
           /\ thread[t].marked \in BOOLEAN
BY DEF TypeOK, Pc, Locals

LEMMA BufferTypes ==
    ASSUME NEW b \in Buffers \cup {Null}
    PROVE  /\ b.load \in Nat /\ b.len \in Nat
           /\ b # Null => b \in Buffers
           /\ b = Null <=> b.load = 0
BY TransmitterAssumption DEF Buffers, Null

LEMMA SentTypes ==
    ASSUME TypeOK
    PROVE  /\ sent.packet \in Buffers \cup {Null} /\ sent.index \in Nat
           /\ sent.seq \in Nat /\ sent.marked \in BOOLEAN
           /\ sent # NoDatagram => sent \in Datagrams
<1>1. sent # NoDatagram => sent \in Datagrams
    BY DEF TypeOK
<1>2. CASE sent = NoDatagram
  <2>1. sent.packet = Null /\ sent.index = 0 /\ sent.seq = 0 /\ sent.marked = FALSE
      BY <1>2 DEF NoDatagram
  <2>2. sent.index \in Nat /\ sent.seq \in Nat
      BY <2>1
  <2>3. sent.packet \in Buffers \cup {Null} /\ sent.marked \in BOOLEAN
      BY <2>1, Zenon
  <2> QED BY <1>1, <2>2, <2>3
<1>3. CASE sent \in Datagrams
    BY <1>1, <1>3 DEF Datagrams
<1> QED BY <1>1, <1>2, <1>3

(* A thread that goes to a label keeps its locals.                         *)
LEMMA AtTypes ==
    ASSUME TypeOK, NEW t \in Threads, NEW to \in Labels
    PROVE  /\ At(t, to) \in Locals /\ At(t, to).pc = to
           /\ At(t, to).packet = thread[t].packet /\ At(t, to).count = thread[t].count
           /\ At(t, to).length = thread[t].length /\ At(t, to).index = thread[t].index
           /\ At(t, to).seq = thread[t].seq /\ At(t, to).marked = thread[t].marked
BY DEF TypeOK, At, Locals

(* Setting one of the locals.                                              *)
LEMMA PacketSet ==
    ASSUME NEW l \in Locals, NEW x \in Buffers \cup {Null}
    PROVE  /\ [l EXCEPT !.packet = x] \in Locals /\ [l EXCEPT !.packet = x].packet = x
           /\ [l EXCEPT !.packet = x].pc = l.pc /\ [l EXCEPT !.packet = x].count = l.count
           /\ [l EXCEPT !.packet = x].length = l.length /\ [l EXCEPT !.packet = x].index = l.index
           /\ [l EXCEPT !.packet = x].seq = l.seq /\ [l EXCEPT !.packet = x].marked = l.marked
BY DEF Locals

LEMMA CountSet ==
    ASSUME NEW l \in Locals, NEW x \in Nat
    PROVE  /\ [l EXCEPT !.count = x] \in Locals /\ [l EXCEPT !.count = x].count = x
           /\ [l EXCEPT !.count = x].pc = l.pc /\ [l EXCEPT !.count = x].packet = l.packet
           /\ [l EXCEPT !.count = x].length = l.length /\ [l EXCEPT !.count = x].index = l.index
           /\ [l EXCEPT !.count = x].seq = l.seq /\ [l EXCEPT !.count = x].marked = l.marked
BY DEF Locals

LEMMA LengthSet ==
    ASSUME NEW l \in Locals, NEW x \in Nat
    PROVE  /\ [l EXCEPT !.length = x] \in Locals /\ [l EXCEPT !.length = x].length = x
           /\ [l EXCEPT !.length = x].pc = l.pc /\ [l EXCEPT !.length = x].packet = l.packet
           /\ [l EXCEPT !.length = x].count = l.count /\ [l EXCEPT !.length = x].index = l.index
           /\ [l EXCEPT !.length = x].seq = l.seq /\ [l EXCEPT !.length = x].marked = l.marked
BY DEF Locals

LEMMA IndexSet ==
    ASSUME NEW l \in Locals, NEW x \in Nat
    PROVE  /\ [l EXCEPT !.index = x] \in Locals /\ [l EXCEPT !.index = x].index = x
           /\ [l EXCEPT !.index = x].pc = l.pc /\ [l EXCEPT !.index = x].packet = l.packet
           /\ [l EXCEPT !.index = x].count = l.count /\ [l EXCEPT !.index = x].length = l.length
           /\ [l EXCEPT !.index = x].seq = l.seq /\ [l EXCEPT !.index = x].marked = l.marked
BY DEF Locals

LEMMA SeqSet ==
    ASSUME NEW l \in Locals, NEW x \in Nat
    PROVE  /\ [l EXCEPT !.seq = x] \in Locals /\ [l EXCEPT !.seq = x].seq = x
           /\ [l EXCEPT !.seq = x].pc = l.pc /\ [l EXCEPT !.seq = x].packet = l.packet
           /\ [l EXCEPT !.seq = x].count = l.count /\ [l EXCEPT !.seq = x].length = l.length
           /\ [l EXCEPT !.seq = x].index = l.index /\ [l EXCEPT !.seq = x].marked = l.marked
BY DEF Locals

LEMMA MarkedSet ==
    ASSUME NEW l \in Locals, NEW x \in BOOLEAN
    PROVE  /\ [l EXCEPT !.marked = x] \in Locals /\ [l EXCEPT !.marked = x].marked = x
           /\ [l EXCEPT !.marked = x].pc = l.pc /\ [l EXCEPT !.marked = x].packet = l.packet
           /\ [l EXCEPT !.marked = x].count = l.count /\ [l EXCEPT !.marked = x].length = l.length
           /\ [l EXCEPT !.marked = x].index = l.index /\ [l EXCEPT !.marked = x].seq = l.seq
BY DEF Locals

LEMMA LoopTypes ==
    /\ AtLoop \in Locals /\ AtLoop.pc = "loop" /\ AtLoop.packet = Null
    /\ NoThread \in Locals /\ NoThread.pc = "none" /\ NoThread.packet = Null
BY DEF AtLoop, NoThread, Locals, Labels

---------------------------------------------------------------------------
(* Where a thread runs there is no other, and the caller is not about to   *)
(* start one or, if loads wait, to touch the buffer.                       *)
LEMMA Alone ==
    ASSUME IInv, NEW t \in Alive
    PROVE  /\ t \in Threads /\ Pc(t) \notin {"none", "died", "noSocket"}
           /\ \A u \in Threads \ {t} : Pc(u) = "none"
           /\ caller \notin {"start", "start2", "spawn", "leave"}
           /\ policy = "wait" =>
                caller \notin {"connect", "join", "closed", "clean", "loadIndex", "nullPackets"}
           /\ policy = "wait" => InStep(thread[t])
BY DEF Alive, IInv, Flagged, NoThreads, Waiting, CallerWaits

(* Threads one by one: what has to be shown of the one that moves.         *)
LEMMA Moved ==
    ASSUME IInv, NEW t \in Alive, NEW r \in Locals,
           thread' = [thread EXCEPT ![t] = r],
           UNCHANGED <<packets, socket, caller, loads, policy>>,
           flagStopped' \in BOOLEAN, isTransmitting' \in BOOLEAN,
           nextPacketIndex' \in Nat, sequenceNumber' \in Nat,
           sent' \in Datagrams \cup {NoDatagram},
           r.pc # "begin", r.pc # "none" => isTransmitting',
           socket = "none" \/ r.pc = "noSocket" => sent' = NoDatagram,
           sent' # NoDatagram => sent'.seq < sequenceNumber',
           HasNumber(r)', sent'.packet.load <= loads, HasPacket(r),
           policy = "wait" =>
              /\ InStep(r)' /\ Due'
              /\ sent' # NoDatagram =>
                    /\ sent'.packet # Null /\ sent'.index < sent'.packet.len
                    /\ sent'.marked <=> sent'.index = sent'.packet.len - 1
    PROVE  IInv'
<1>1. /\ thread'[t] = r /\ \A u \in Threads \ {t} : thread'[u] = thread[u]
      /\ thread' \in [Threads -> Locals]
    BY Alone DEF IInv, TypeOK
<1>2. Pc(t)' = r.pc /\ \A u \in Threads \ {t} : Pc(u)' = "none" /\ thread'[u].pc = "none"
    BY <1>1, Alone DEF Pc
<1>3. TypeOK'
    BY <1>1 DEF IInv, TypeOK
<1>4. Flagged'
  <2>1. \A u \in Threads : Pc(u)' \notin {"none", "begin"} => isTransmitting'
      BY <1>2
  <2>2. \A u, v \in Threads : Pc(u)' # "none" /\ Pc(v)' # "none" => u = v
      BY <1>2
  <2>3. Started' = {}
      BY <1>2 DEF Started
  <2>4. caller' \notin {"start", "start2", "spawn", "leave"}
      BY Alone
  <2> QED BY <2>1, <2>2, <2>3, <2>4 DEF Flagged
<1>5. Unsent'
    BY <1>2 DEF Unsent
<1>6. Numbered'
  <2>1. \A u \in Threads \ {t} : HasNumber(thread[u])'
      BY <1>2 DEF HasNumber, BeforeSend
  <2>2. HasNumber(thread[t])'
      BY <1>1 DEF HasNumber
  <2> QED BY <2>1, <2>2 DEF Numbered
<1>7. Loaded'
  <2>1. \A u \in Threads \ {t} : HasPacket(thread[u])'
      BY <1>1, <1>2 DEF HasPacket, BeforeSend, IInv, Loaded
  <2>2. HasPacket(thread[t])'
      BY <1>1 DEF HasPacket
  <2> QED BY <2>1, <2>2 DEF Loaded, IInv
<1>8. ASSUME policy = "wait" PROVE Waiting'
  <2>1. \A u \in Threads \ {t} : InStep(thread[u])'
      BY <1>2 DEF InStep, HasArray, AfterEmpty, AfterSend, BeforeSend
  <2>2. InStep(thread[t])'
      BY <1>1, <1>8 DEF InStep
  <2>3. CallerWaits'
      BY <1>8, Alone DEF CallerWaits
  <2> QED BY <1>8, <2>1, <2>2, <2>3 DEF Waiting
<1> QED BY <1>3, <1>4, <1>5, <1>6, <1>7, <1>8 DEF IInv

(* A step that writes nothing but the locals.                              *)
LEMMA Looked ==
    ASSUME IInv, NEW t \in Threads, NEW from, NEW r \in Locals, Looks(t, from, r),
           UNCHANGED policy, from \notin {"none", "begin", "died", "noSocket"},
           r.pc \notin {"none", "begin"}, r.pc = "noSocket" => socket = "none",
           HasNumber(r), HasPacket(r),
           policy = "wait" =>
              /\ InStep(r)
              /\ from \in AfterSend /\ r.pc \notin AfterSend =>
                    nextPacketIndex = IF packets = sent.packet
                                      THEN (sent.index + 1) % sent.packet.len ELSE 0
    PROVE  IInv'
<1>1. /\ Pc(t) = from /\ thread' = [thread EXCEPT ![t] = r] /\ t \in Alive
      /\ UNCHANGED <<flagStopped, isTransmitting, packets, nextPacketIndex, sequenceNumber,
                     socket, caller, loads, sent>>
    BY DEF Looks, Becomes, flags, buffer, Shared, Alive
<1>2. isTransmitting' /\ flagStopped' \in BOOLEAN
    BY <1>1 DEF IInv, TypeOK, Flagged
<1>3. nextPacketIndex' \in Nat /\ sequenceNumber' \in Nat /\ sent' \in Datagrams \cup {NoDatagram}
    BY <1>1 DEF IInv, TypeOK
<1>4. socket = "none" \/ r.pc = "noSocket" => sent' = NoDatagram
    BY <1>1 DEF IInv, Unsent
<1>5. /\ sent' # NoDatagram => sent'.seq < sequenceNumber'
      /\ sent'.packet.load <= loads /\ HasNumber(r)'
    BY <1>1 DEF IInv, Numbered, Loaded, HasNumber
<1>6. ASSUME policy = "wait"
      PROVE  /\ InStep(r)' /\ Due'
             /\ sent' # NoDatagram =>
                   /\ sent'.packet # Null /\ sent'.index < sent'.packet.len
                   /\ sent'.marked <=> sent'.index = sent'.packet.len - 1
  <2>1. InStep(r)'
      BY <1>1, <1>6 DEF InStep
  <2>2. Waiting
      BY <1>6 DEF IInv
  <2>3. Pc(t)' = r.pc
      BY <1>1 DEF IInv, TypeOK, Pc
  <2>4. (\E u \in Threads : Pc(u) \in AfterSend) => from \in AfterSend
      BY <1>1, Alone DEF AfterSend
  <2>5. Due'
      BY <1>1, <1>6, <2>2, <2>3, <2>4 DEF Waiting, Due
  <2> QED BY <1>1, <2>1, <2>2, <2>5 DEF Waiting
<1> QED BY <1>1, <1>2, <1>3, <1>4, <1>5, <1>6, Moved

---------------------------------------------------------------------------
(* The steps of a thread that only look.                                   *)

LEMMA LoopKeeps ==
    ASSUME IInv, NEW t \in Threads, Loop(t), UNCHANGED policy
    PROVE  IInv'
<1> DEFINE r == At(t, IF flagStopped THEN "clear" ELSE "null")
<1>1. Looks(t, "loop", r) /\ Pc(t) = "loop" /\ t \in Alive
    BY DEF Loop, Looks, Becomes, Alive
<1>2. /\ r \in Locals
      /\ r.pc \in {"clear", "null"} /\ r.packet = thread[t].packet
    BY AtTypes DEF IInv, Labels
<1> HIDE DEF r
<1>3. HasNumber(r) /\ HasPacket(r)
    BY <1>1, <1>2 DEF HasNumber, HasPacket, BeforeSend, IInv, Numbered, Loaded, Pc
<1>4. ASSUME policy = "wait" PROVE InStep(r)
    BY <1>2 DEF InStep, HasArray, AfterEmpty, AfterSend, BeforeSend
<1> QED BY <1>1, <1>2, <1>3, <1>4, Looked DEF AfterSend

LEMMA NullTestKeeps ==
    ASSUME IInv, NEW t \in Threads, NullTest(t), UNCHANGED policy
    PROVE  IInv'
<1> DEFINE r == At(t, IF packets = Null \/ sequenceNumber = MaxSeq THEN "loop" ELSE "empty")
<1>1. Looks(t, "null", r) /\ Pc(t) = "null" /\ t \in Alive
    BY DEF NullTest, Looks, Becomes, Alive
<1>2. /\ r \in Locals
      /\ r.pc \in {"loop", "empty"} /\ r.packet = thread[t].packet
      /\ r.pc = "empty" => packets # Null
    BY AtTypes DEF IInv, Labels
<1> HIDE DEF r
<1>3. HasNumber(r) /\ HasPacket(r)
    BY <1>1, <1>2 DEF HasNumber, HasPacket, BeforeSend, IInv, Numbered, Loaded, Pc
<1>4. ASSUME policy = "wait" PROVE InStep(r)
    BY <1>2 DEF InStep, HasArray, AfterEmpty, AfterSend, BeforeSend
<1> QED BY <1>1, <1>2, <1>3, <1>4, Looked DEF AfterSend

LEMMA EmptyTestKeeps ==
    ASSUME IInv, NEW t \in Threads, EmptyTest(t), UNCHANGED policy
    PROVE  IInv'
<1> DEFINE r == At(t, CASE packets = Null  -> "died"
                        [] packets.len = 0 -> "loop"
                        [] OTHER           -> "count")
<1>1. Looks(t, "empty", r) /\ Pc(t) = "empty" /\ t \in Alive
    BY DEF EmptyTest, Looks, Becomes, Alive
<1>2. /\ r \in Locals
      /\ r.pc \in {"died", "loop", "count"} /\ r.packet = thread[t].packet
      /\ r.pc = "died" => packets = Null
      /\ r.pc = "count" => packets # Null /\ packets.len # 0
    BY AtTypes DEF IInv, Labels, Null
<1> HIDE DEF r
<1>3. HasNumber(r) /\ HasPacket(r)
    BY <1>1, <1>2 DEF HasNumber, HasPacket, BeforeSend, IInv, Numbered, Loaded, Pc
<1>4. ASSUME policy = "wait" PROVE InStep(r)
  <2>1. packets # Null /\ packets.len \in Nat
      BY <1>1, <1>4, Alone, BufferTypes DEF InStep, Pc, IInv, TypeOK
  <2> QED BY <1>2, <2>1 DEF InStep, HasArray, AfterEmpty, AfterSend, BeforeSend
<1> QED BY <1>1, <1>2, <1>3, <1>4, Looked DEF AfterSend

LEMMA PacketCountKeeps ==
    ASSUME IInv, NEW t \in Threads, PacketCount(t), UNCHANGED policy
    PROVE  IInv'
<1> DEFINE r == IF packets = Null THEN At(t, "died")
                ELSE [At(t, "array") EXCEPT !.count = packets.len]
<1>1. Looks(t, "count", r) /\ Pc(t) = "count" /\ t \in Alive
    BY DEF PacketCount, Looks, Becomes, Alive
<1>2. /\ r \in Locals
      /\ r.pc \in {"died", "array"} /\ r.packet = thread[t].packet
      /\ r.pc = "died" => packets = Null
      /\ r.pc = "array" => r.count = packets.len
  <2>1. At(t, "array") \in Locals
      BY AtTypes DEF IInv, Labels
  <2>2. packets.len \in Nat
      BY BufferTypes DEF IInv, TypeOK
  <2>3. CASE packets = Null
      BY <2>3, AtTypes DEF IInv, Labels
  <2>4. CASE packets # Null
    <3>1. r = [At(t, "array") EXCEPT !.count = packets.len]
        BY <2>4
    <3>2. At(t, "array").pc = "array" /\ At(t, "array").packet = thread[t].packet
        BY AtTypes DEF IInv, Labels
    <3> HIDE DEF r
    <3>3. /\ r \in Locals /\ r.count = packets.len /\ r.pc = At(t, "array").pc
          /\ r.packet = At(t, "array").packet
        BY <2>1, <2>2, <3>1, CountSet, Zenon
    <3> QED BY <2>4, <3>2, <3>3
  <2> QED BY <2>3, <2>4
<1> HIDE DEF r
<1>3. HasNumber(r) /\ HasPacket(r)
    BY <1>1, <1>2 DEF HasNumber, HasPacket, BeforeSend, IInv, Numbered, Loaded, Pc
<1>4. ASSUME policy = "wait" PROVE InStep(r)
  <2>1. packets # Null /\ packets.len > 0
      BY <1>1, <1>4, Alone DEF InStep, AfterEmpty, Pc
  <2> QED BY <1>2, <2>1 DEF InStep, HasArray, AfterEmpty, AfterSend, BeforeSend
<1> QED BY <1>1, <1>2, <1>3, <1>4, Looked DEF AfterSend

LEMMA ReadArrayKeeps ==
    ASSUME IInv, NEW t \in Threads, ReadArray(t), UNCHANGED policy
    PROVE  IInv'
<1> DEFINE r == [At(t, "fetch") EXCEPT !.packet = packets]
<1>1. Looks(t, "array", r) /\ Pc(t) = "array" /\ t \in Alive
    BY DEF ReadArray, Looks, Becomes, Alive
<1>2. /\ r \in Locals
      /\ r.pc = "fetch" /\ r.packet = packets /\ r.count = thread[t].count
  <2>1. At(t, "fetch") \in Locals
      BY AtTypes DEF IInv, Labels
  <2>2. packets \in Buffers \cup {Null}
      BY BufferTypes DEF IInv, TypeOK
  <2>3. /\ At(t, "fetch").pc = "fetch" /\ At(t, "fetch").packet = thread[t].packet
        /\ At(t, "fetch").count = thread[t].count
      BY AtTypes DEF IInv, Labels
  <2>4. /\ r \in Locals /\ r.packet = packets /\ r.pc = At(t, "fetch").pc
        /\ r.count = At(t, "fetch").count
      BY <2>1, <2>2, PacketSet, Zenon
  <2> HIDE DEF r
  <2> QED BY <2>3, <2>4, Zenon
<1> HIDE DEF r
<1>3. HasNumber(r) /\ HasPacket(r)
    BY <1>1, <1>2 DEF HasNumber, HasPacket, BeforeSend, IInv, Numbered, Loaded, Pc
<1>4. ASSUME policy = "wait" PROVE InStep(r)
  <2>1. packets # Null /\ packets.len > 0 /\ thread[t].count = packets.len
      BY <1>1, <1>4, Alone DEF InStep, AfterEmpty, Pc
  <2> QED BY <1>2, <2>1 DEF InStep, HasArray, AfterEmpty, AfterSend, BeforeSend
<1> QED BY <1>1, <1>2, <1>3, <1>4, Looked DEF AfterSend

(* The next packet of a buffer, and round again.                           *)
LEMMA NextIndex ==
    ASSUME NEW i \in Nat, NEW n \in Nat, i < n
    PROVE  /\ (i + 1) % n = IF i + 1 = n THEN 0 ELSE i + 1
           /\ (i + 1) % n \in 0..n - 1
<1>1. CASE i + 1 = n
    BY <1>1
<1>2. CASE i + 1 < n
    BY <1>2
<1> QED BY <1>1, <1>2

(* The index is that of a packet, when one is due.                         *)
LEMMA DueInside ==
    ASSUME IInv, NEW t \in Alive, policy = "wait", Pc(t) \in AfterEmpty \ AfterSend
    PROVE  /\ packets # Null /\ nextPacketIndex \in Nat /\ nextPacketIndex < packets.len
           /\ nextPacketIndex = IF packets = sent.packet
                                THEN (sent.index + 1) % sent.packet.len ELSE 0
<1>1. packets # Null /\ packets.len > 0 /\ packets.len \in Nat /\ nextPacketIndex \in Nat
    BY Alone, BufferTypes DEF IInv, InStep, TypeOK, Pc
<1>2. nextPacketIndex = IF packets = sent.packet
                        THEN (sent.index + 1) % sent.packet.len ELSE 0
    BY <1>1, Alone DEF IInv, Waiting, Due, AfterSend
<1>3. CASE packets = sent.packet
  <2>1. sent # NoDatagram
      BY <1>1, <1>3 DEF NoDatagram
  <2>2. sent.index \in Nat /\ sent.index < sent.packet.len
      BY <2>1, SentTypes DEF IInv, Waiting
  <2> QED BY <1>1, <1>2, <1>3, <2>2, NextIndex
<1> QED BY <1>1, <1>2, <1>3

LEMMA FetchKeeps ==
    ASSUME IInv, NEW t \in Threads, Fetch(t), UNCHANGED policy
    PROVE  IInv'
<1> DEFINE r == IF nextPacketIndex < thread[t].packet.len
                THEN [At(t, "number") EXCEPT !.index = nextPacketIndex]
                ELSE At(t, "died")
<1>1. Looks(t, "fetch", r) /\ Pc(t) = "fetch" /\ t \in Alive
    BY DEF Fetch, Looks, Becomes, Alive
<1>2. /\ r \in Locals
      /\ r.pc \in {"number", "died"} /\ r.packet = thread[t].packet /\ r.count = thread[t].count
      /\ r.pc = "number" => /\ nextPacketIndex < thread[t].packet.len
                            /\ r.index = nextPacketIndex
      /\ r.pc = "died" => ~(nextPacketIndex < thread[t].packet.len)
  <2>1. At(t, "number") \in Locals
      BY AtTypes DEF IInv, Labels
  <2>2. nextPacketIndex \in Nat
      BY BufferTypes DEF IInv, TypeOK
  <2> QED BY <2>1, <2>2, AtTypes, IndexSet DEF IInv, Labels
<1> HIDE DEF r
<1>3. HasNumber(r) /\ HasPacket(r)
  <2>1. nextPacketIndex \in Nat /\ Null.len = 0
      BY DEF IInv, TypeOK, Null
  <2>2. r.pc = "number" => r.packet # Null
      BY <1>2, <2>1
  <2> QED BY <1>1, <1>2, <2>2 DEF HasNumber, HasPacket, BeforeSend, IInv, Loaded
<1>4. ASSUME policy = "wait" PROVE InStep(r)
  <2>1. packets # Null /\ nextPacketIndex < packets.len /\ packets.len > 0
      BY <1>1, <1>4, DueInside, Alone DEF InStep, AfterEmpty, HasArray, AfterSend, Pc
  <2>2. thread[t].count = packets.len /\ thread[t].packet = packets
      BY <1>1, <1>4, Alone DEF InStep, AfterEmpty, HasArray, Pc
  <2> QED BY <1>2, <2>1, <2>2 DEF InStep, HasArray, AfterEmpty, AfterSend, BeforeSend
<1> QED BY <1>1, <1>2, <1>3, <1>4, Looked DEF AfterSend

LEMMA ReadNumberKeeps ==
    ASSUME IInv, NEW t \in Threads, ReadNumber(t), UNCHANGED policy
    PROVE  IInv'
<1> DEFINE r == [At(t, "next") EXCEPT !.seq = sequenceNumber]
<1>1. Looks(t, "number", r) /\ Pc(t) = "number" /\ t \in Alive
    BY DEF ReadNumber, Looks, Becomes, Alive
<1>2. /\ r \in Locals
      /\ r.pc = "next" /\ r.seq = sequenceNumber
      /\ r.packet = thread[t].packet /\ r.count = thread[t].count
      /\ r.index = thread[t].index
  <2>1. At(t, "next") \in Locals
      BY AtTypes DEF IInv, Labels
  <2>2. sequenceNumber \in Nat
      BY BufferTypes DEF IInv, TypeOK
  <2> QED BY <2>1, <2>2, AtTypes, SeqSet DEF IInv, Labels
<1> HIDE DEF r
<1>3. HasNumber(r) /\ HasPacket(r)
    BY <1>1, <1>2 DEF HasNumber, HasPacket, BeforeSend, IInv, Numbered, Loaded, Pc
<1>4. ASSUME policy = "wait" PROVE InStep(r)
  <2>1. InStep(thread[t]) /\ thread[t].pc = "number"
      BY <1>1, <1>4, Alone DEF Pc
  <2> QED BY <1>2, <2>1 DEF InStep, HasArray, AfterEmpty, AfterSend, BeforeSend
<1> QED BY <1>1, <1>2, <1>3, <1>4, Looked DEF AfterSend

LEMMA LastIndexKeeps ==
    ASSUME IInv, NEW t \in Threads, LastIndex(t), UNCHANGED policy
    PROVE  IInv'
<1> DEFINE r == IF packets = Null THEN At(t, "died")
                ELSE [At(t, "mark") EXCEPT !.length = packets.len]
<1>1. Looks(t, "last", r) /\ Pc(t) = "last" /\ t \in Alive
    BY DEF LastIndex, Looks, Becomes, Alive
<1>2. /\ r \in Locals
      /\ r.pc \in {"died", "mark"}
      /\ r.packet = thread[t].packet /\ r.count = thread[t].count
      /\ r.index = thread[t].index /\ r.seq = thread[t].seq
      /\ r.pc = "died" => packets = Null
      /\ r.pc = "mark" => r.length = packets.len
  <2>1. At(t, "mark") \in Locals
      BY AtTypes DEF IInv, Labels
  <2>2. packets.len \in Nat
      BY BufferTypes DEF IInv, TypeOK
  <2> QED BY <2>1, <2>2, AtTypes, LengthSet DEF IInv, Labels
<1> HIDE DEF r
<1>3. HasNumber(r) /\ HasPacket(r)
    BY <1>1, <1>2 DEF HasNumber, HasPacket, BeforeSend, IInv, Numbered, Loaded, Pc
<1>4. ASSUME policy = "wait" PROVE InStep(r)
  <2>1. InStep(thread[t]) /\ thread[t].pc = "last"
      BY <1>1, <1>4, Alone DEF Pc
  <2> QED BY <1>2, <2>1 DEF InStep, HasArray, AfterEmpty, AfterSend, BeforeSend
<1> QED BY <1>1, <1>2, <1>3, <1>4, Looked DEF AfterSend

LEMMA MarkKeeps ==
    ASSUME IInv, NEW t \in Threads, Mark(t), UNCHANGED policy
    PROVE  IInv'
<1> DEFINE r == [At(t, "log") EXCEPT !.marked = (nextPacketIndex = thread[t].length - 1)]
<1>1. Looks(t, "mark", r) /\ Pc(t) = "mark" /\ t \in Alive
    BY DEF Mark, Looks, Becomes, Alive
<1>2. /\ r \in Locals
      /\ r.pc = "log"
      /\ r.packet = thread[t].packet /\ r.count = thread[t].count
      /\ r.index = thread[t].index /\ r.seq = thread[t].seq
      /\ r.marked <=> nextPacketIndex = thread[t].length - 1
  <2>1. At(t, "log") \in Locals
      BY AtTypes DEF IInv, Labels
  <2>2. (nextPacketIndex = thread[t].length - 1) \in BOOLEAN
      OBVIOUS
  <2>3. /\ r \in Locals /\ r.marked = (nextPacketIndex = thread[t].length - 1)
        /\ r.pc = At(t, "log").pc /\ r.packet = At(t, "log").packet
        /\ r.count = At(t, "log").count /\ r.index = At(t, "log").index
        /\ r.seq = At(t, "log").seq
      BY <2>1, <2>2, MarkedSet, Zenon
  <2>4. r.marked <=> nextPacketIndex = thread[t].length - 1
      BY <2>3, Zenon
  <2>5. /\ At(t, "log").pc = "log" /\ At(t, "log").packet = thread[t].packet
        /\ At(t, "log").count = thread[t].count /\ At(t, "log").index = thread[t].index
        /\ At(t, "log").seq = thread[t].seq
      BY AtTypes DEF IInv, Labels
  <2> HIDE DEF r
  <2> QED BY <2>3, <2>4, <2>5, Zenon
<1> HIDE DEF r
<1>3. HasNumber(r) /\ HasPacket(r)
    BY <1>1, <1>2 DEF HasNumber, HasPacket, BeforeSend, IInv, Numbered, Loaded, Pc
<1>4. ASSUME policy = "wait" PROVE InStep(r)
  <2>1. InStep(thread[t]) /\ thread[t].pc = "mark"
      BY <1>1, <1>4, Alone DEF Pc
  <2> QED BY <1>2, <2>1 DEF InStep, HasArray, AfterEmpty, AfterSend, BeforeSend
<1> QED BY <1>1, <1>2, <1>3, <1>4, Looked DEF AfterSend

LEMMA LogArrayKeeps ==
    ASSUME IInv, NEW t \in Threads, LogArray(t), UNCHANGED policy
    PROVE  IInv'
<1> DEFINE r == [At(t, "logIndex") EXCEPT !.length = packets.len]
<1>1. Looks(t, "log", r) /\ Pc(t) = "log" /\ t \in Alive
    BY DEF LogArray, Looks, Becomes, Alive
<1>2. /\ r \in Locals
      /\ r.pc = "logIndex" /\ r.length = packets.len /\ r.marked = thread[t].marked
      /\ r.packet = thread[t].packet /\ r.count = thread[t].count
      /\ r.index = thread[t].index /\ r.seq = thread[t].seq
  <2>1. At(t, "logIndex") \in Locals
      BY AtTypes DEF IInv, Labels
  <2>2. packets.len \in Nat
      BY BufferTypes DEF IInv, TypeOK
  <2> QED BY <2>1, <2>2, AtTypes, LengthSet DEF IInv, Labels
<1> HIDE DEF r
<1>3. HasNumber(r) /\ HasPacket(r)
    BY <1>1, <1>2 DEF HasNumber, HasPacket, BeforeSend, IInv, Numbered, Loaded, Pc
<1>4. ASSUME policy = "wait" PROVE InStep(r)
  <2>1. InStep(thread[t]) /\ thread[t].pc = "log"
      BY <1>1, <1>4, Alone DEF Pc
  <2> QED BY <1>2, <2>1 DEF InStep, HasArray, AfterEmpty, AfterSend, BeforeSend
<1> QED BY <1>1, <1>2, <1>3, <1>4, Looked DEF AfterSend

LEMMA LogPacketKeeps ==
    ASSUME IInv, NEW t \in Threads, LogPacket(t), UNCHANGED policy
    PROVE  IInv'
<1> DEFINE r == At(t, IF nextPacketIndex < thread[t].length THEN "send" ELSE "died")
<1>1. Looks(t, "logIndex", r) /\ Pc(t) = "logIndex" /\ t \in Alive
    BY DEF LogPacket, Looks, Becomes, Alive
<1>2. /\ r \in Locals
      /\ r.pc \in {"send", "died"} /\ r.marked = thread[t].marked
      /\ r.packet = thread[t].packet /\ r.count = thread[t].count
      /\ r.index = thread[t].index /\ r.seq = thread[t].seq
      /\ r.pc = "died" => ~(nextPacketIndex < thread[t].length)
    BY AtTypes DEF IInv, TypeOK, Labels, Locals
<1> HIDE DEF r
<1>3. HasNumber(r) /\ HasPacket(r)
    BY <1>1, <1>2 DEF HasNumber, HasPacket, BeforeSend, IInv, Numbered, Loaded, Pc
<1>4. ASSUME policy = "wait" PROVE InStep(r)
  <2>1. InStep(thread[t]) /\ thread[t].pc = "logIndex"
      BY <1>1, <1>4, Alone DEF Pc
  <2> QED BY <1>2, <2>1 DEF InStep, HasArray, AfterEmpty, AfterSend, BeforeSend
<1> QED BY <1>1, <1>2, <1>3, <1>4, Looked DEF AfterSend

LEMMA SendFailsKeeps ==
    ASSUME IInv, NEW t \in Threads, SendFails(t), UNCHANGED policy
    PROVE  IInv'
<1> DEFINE r == AtLoop
<1>1. Looks(t, "send", r) /\ Pc(t) = "send" /\ t \in Alive
    BY DEF SendFails, Looks, Becomes, Alive
<1>2. /\ r \in Locals
      /\ r.pc = "loop" /\ r.packet = Null
    BY LoopTypes
<1> HIDE DEF r
<1>3. HasNumber(r) /\ HasPacket(r)
    BY <1>2, TransmitterAssumption DEF HasNumber, HasPacket, BeforeSend, IInv, TypeOK, Null
<1>4. ASSUME policy = "wait" PROVE InStep(r)
    BY <1>2 DEF InStep, HasArray, AfterEmpty, AfterSend, BeforeSend
<1> QED BY <1>1, <1>2, <1>3, <1>4, Looked DEF AfterSend

LEMMA SendNowhereKeeps ==
    ASSUME IInv, NEW t \in Threads, SendNowhere(t), UNCHANGED policy
    PROVE  IInv'
<1> DEFINE r == At(t, "noSocket")
<1>1. Looks(t, "send", r) /\ Pc(t) = "send" /\ t \in Alive
    BY DEF SendNowhere, Looks, Becomes, Alive
<1>2. /\ r \in Locals
      /\ r.pc = "noSocket" /\ r.packet = thread[t].packet
    BY AtTypes DEF IInv, Labels
<1> HIDE DEF r
<1>3. HasNumber(r) /\ HasPacket(r)
    BY <1>1, <1>2 DEF HasNumber, HasPacket, BeforeSend, IInv, Numbered, Loaded, Pc
<1>4. ASSUME policy = "wait" PROVE InStep(r)
    BY <1>2 DEF InStep, HasArray, AfterEmpty, AfterSend, BeforeSend
<1>5. socket = "none"
    BY DEF SendNowhere
<1> QED BY <1>1, <1>2, <1>3, <1>4, <1>5, Looked DEF AfterSend

LEMMA ReadIndexKeeps ==
    ASSUME IInv, NEW t \in Threads, ReadIndex(t), UNCHANGED policy
    PROVE  IInv'
<1> DEFINE r == [At(t, "store") EXCEPT !.index = nextPacketIndex]
<1>1. Looks(t, "read", r) /\ Pc(t) = "read" /\ t \in Alive
    BY DEF ReadIndex, Looks, Becomes, Alive
<1>2. /\ r \in Locals
      /\ r.pc = "store" /\ r.index = nextPacketIndex
      /\ r.packet = thread[t].packet /\ r.count = thread[t].count
  <2>1. At(t, "store") \in Locals
      BY AtTypes DEF IInv, Labels
  <2>2. nextPacketIndex \in Nat
      BY BufferTypes DEF IInv, TypeOK
  <2> QED BY <2>1, <2>2, AtTypes, IndexSet DEF IInv, Labels
<1> HIDE DEF r
<1>3. HasNumber(r) /\ HasPacket(r)
    BY <1>1, <1>2 DEF HasNumber, HasPacket, BeforeSend, IInv, Numbered, Loaded, Pc
<1>4. ASSUME policy = "wait" PROVE InStep(r)
  <2>1. InStep(thread[t]) /\ thread[t].pc = "read"
      BY <1>1, <1>4, Alone DEF Pc
  <2> QED BY <1>2, <2>1 DEF InStep, HasArray, AfterEmpty, AfterSend, BeforeSend
<1> QED BY <1>1, <1>2, <1>3, <1>4, Looked DEF AfterSend

LEMMA WrapKeeps ==
    ASSUME IInv, NEW t \in Threads, Wrap(t), UNCHANGED policy
    PROVE  IInv'
<1> DEFINE r == IF nextPacketIndex = thread[t].count THEN At(t, "again") ELSE AtLoop
<1>1. Looks(t, "wrap", r) /\ Pc(t) = "wrap" /\ t \in Alive
    BY DEF Wrap, Looks, Becomes, Alive
<1>2. /\ r \in Locals
      /\ r.pc \in {"again", "loop"} /\ (r.packet = thread[t].packet \/ r.packet = Null)
      /\ r.pc = "again" => /\ nextPacketIndex = thread[t].count
                           /\ r.count = thread[t].count
      /\ r.pc = "loop" => nextPacketIndex # thread[t].count
    BY AtTypes, LoopTypes DEF IInv, Labels
<1> HIDE DEF r
<1>3. HasNumber(r) /\ HasPacket(r)
    BY <1>1, <1>2, TransmitterAssumption
    DEF HasNumber, HasPacket, BeforeSend, IInv, TypeOK, Loaded, Null
<1>4. ASSUME policy = "wait" PROVE InStep(r)
  <2>1. InStep(thread[t]) /\ thread[t].pc = "wrap"
      BY <1>1, <1>4, Alone DEF Pc
  <2> QED BY <1>2, <2>1 DEF InStep, HasArray, AfterEmpty, AfterSend, BeforeSend
<1>5. ASSUME policy = "wait", r.pc = "loop"
      PROVE  nextPacketIndex = IF packets = sent.packet
                               THEN (sent.index + 1) % sent.packet.len ELSE 0
  <2>1. /\ thread[t].count = packets.len /\ nextPacketIndex = sent.index + 1
        /\ sent.packet = packets /\ sent.index < packets.len
      BY <1>1, <1>5, Alone DEF InStep, AfterEmpty, AfterSend, Pc
  <2>2. sent.index \in Nat /\ packets.len \in Nat
      BY SentTypes, BufferTypes DEF IInv, TypeOK
  <2> QED BY <1>2, <1>5, <2>1, <2>2, NextIndex
<1> QED BY <1>1, <1>2, <1>3, <1>4, <1>5, Looked DEF AfterSend

---------------------------------------------------------------------------
(* The steps of a thread that write what others see.                       *)

LEMMA BeginKeeps ==
    ASSUME IInv, NEW t \in Threads, Begin(t), UNCHANGED policy
    PROVE  IInv'
<1>1. PICK r \in Locals : r = AtLoop
    BY LoopTypes
<1>2. /\ Pc(t) = "begin" /\ t \in Alive /\ thread' = [thread EXCEPT ![t] = r]
      /\ isTransmitting' /\ r.pc = "loop" /\ r.packet = Null
      /\ UNCHANGED <<flagStopped, packets, nextPacketIndex, sequenceNumber, socket, caller,
                     loads, sent>>
    BY <1>1, LoopTypes DEF Begin, Becomes, Alive, buffer, Shared
<1>3. HasNumber(r)' /\ HasPacket(r)
    BY <1>2, TransmitterAssumption DEF HasNumber, HasPacket, BeforeSend, Null, IInv, TypeOK
<1>4. policy = "wait" => InStep(r)' /\ Due'
  <2> SUFFICES ASSUME policy = "wait" PROVE InStep(r)' /\ Due'
      OBVIOUS
  <2>1. InStep(r)'
      BY <1>2 DEF InStep, HasArray, AfterEmpty, AfterSend, BeforeSend
  <2>2. ~\E u \in Threads : Pc(u) \in AfterSend
      BY <1>2, Alone DEF AfterSend
  <2>3. Due'
      BY <1>2, <2>2 DEF IInv, Waiting, Due
  <2> QED BY <2>1, <2>3
<1>5. /\ flagStopped' \in BOOLEAN /\ isTransmitting' \in BOOLEAN
      /\ nextPacketIndex' \in Nat /\ sequenceNumber' \in Nat
      /\ sent' \in Datagrams \cup {NoDatagram}
    BY <1>2 DEF IInv, TypeOK, Begin
<1>6. /\ socket = "none" => sent' = NoDatagram
      /\ sent' # NoDatagram => sent'.seq < sequenceNumber'
      /\ sent'.packet.load <= loads
      /\ policy = "wait" /\ sent' # NoDatagram =>
            /\ sent'.packet # Null /\ sent'.index < sent'.packet.len
            /\ sent'.marked <=> sent'.index = sent'.packet.len - 1
    BY <1>2 DEF IInv, Unsent, Numbered, Loaded, Waiting
<1> QED BY <1>2, <1>3, <1>4, <1>5, <1>6, Moved

LEMMA StoreNumberKeeps ==
    ASSUME IInv, NEW t \in Threads, StoreNumber(t), UNCHANGED policy
    PROVE  IInv'
<1>1. PICK r \in Locals : r = At(t, "last")
    BY AtTypes DEF IInv, Labels
<1>2. /\ Pc(t) = "next" /\ t \in Alive /\ thread' = [thread EXCEPT ![t] = r]
      /\ sequenceNumber' = thread[t].seq + 1
      /\ r.pc = "last" /\ r.packet = thread[t].packet /\ r.count = thread[t].count
      /\ r.index = thread[t].index /\ r.seq = thread[t].seq
      /\ UNCHANGED <<flagStopped, isTransmitting, packets, nextPacketIndex, socket, caller,
                     loads, sent>>
    BY <1>1, AtTypes DEF StoreNumber, Becomes, Alive, flags, buffer, IInv, Labels
<1>3. /\ thread[t].seq = sequenceNumber /\ sequenceNumber \in Nat
      /\ sent # NoDatagram => sent.seq < sequenceNumber /\ sent.seq \in Nat
    BY <1>2, SentTypes DEF IInv, TypeOK, Numbered, HasNumber, Pc
<1>4. HasNumber(r)' /\ HasPacket(r) /\ (sent' # NoDatagram => sent'.seq < sequenceNumber')
    BY <1>2, <1>3 DEF HasNumber, HasPacket, BeforeSend, IInv, Loaded, Pc
<1>5. policy = "wait" => InStep(r)' /\ Due'
  <2> SUFFICES ASSUME policy = "wait" PROVE InStep(r)' /\ Due'
      OBVIOUS
  <2>0. InStep(thread[t]) /\ thread[t].pc = "next"
      BY <1>2, Alone DEF Pc
  <2>1. InStep(r)'
      BY <1>2, <2>0 DEF InStep, HasArray, AfterEmpty, AfterSend, BeforeSend
  <2>2. ~\E u \in Threads : Pc(u) \in AfterSend
      BY <1>2, Alone DEF AfterSend
  <2>3. Due'
      BY <1>2, <2>2 DEF IInv, Waiting, Due
  <2> QED BY <2>1, <2>3
<1>6. /\ flagStopped' \in BOOLEAN /\ isTransmitting' /\ isTransmitting' \in BOOLEAN
      /\ nextPacketIndex' \in Nat /\ sequenceNumber' \in Nat
      /\ sent' \in Datagrams \cup {NoDatagram}
    BY <1>2, <1>3 DEF IInv, TypeOK, Flagged
<1>7. /\ socket = "none" => sent' = NoDatagram
      /\ sent'.packet.load <= loads
      /\ policy = "wait" /\ sent' # NoDatagram =>
            /\ sent'.packet # Null /\ sent'.index < sent'.packet.len
            /\ sent'.marked <=> sent'.index = sent'.packet.len - 1
    BY <1>2 DEF IInv, Unsent, Loaded, Waiting
<1> QED BY <1>2, <1>4, <1>5, <1>6, <1>7, Moved

LEMMA SendKeeps ==
    ASSUME IInv, NEW t \in Threads, Send(t), UNCHANGED policy
    PROVE  IInv'
<1>1. PICK r \in Locals : r = At(t, "read")
    BY AtTypes DEF IInv, Labels
<1>2. /\ Pc(t) = "send" /\ t \in Alive /\ thread' = [thread EXCEPT ![t] = r]
      /\ socket = "open"
      /\ sent' = [packet |-> thread[t].packet, index |-> thread[t].index,
                  seq |-> thread[t].seq, marked |-> thread[t].marked]
      /\ r.pc = "read" /\ r.packet = thread[t].packet /\ r.count = thread[t].count
      /\ UNCHANGED <<flagStopped, isTransmitting, packets, nextPacketIndex, sequenceNumber,
                     socket, caller, loads>>
    BY <1>1, AtTypes DEF Send, Becomes, Alive, flags, buffer, IInv, Labels
<1>3. /\ sent'.packet = thread[t].packet /\ sent'.index = thread[t].index
      /\ sent'.seq = thread[t].seq
    BY <1>2
<1>4. sent'.marked = thread[t].marked
    BY <1>2, Zenon
<1>5. thread[t].packet # Null /\ thread[t].packet.load <= loads
    BY <1>2 DEF IInv, Loaded, HasPacket, BeforeSend, Pc
<1>6. sent' \in Datagrams
  <2>1. thread[t].packet \in Buffers /\ thread[t].index \in Nat /\ thread[t].seq \in Nat
        /\ thread[t].marked \in BOOLEAN
      BY <1>5, ThreadTypes, BufferTypes DEF IInv
  <2> QED BY <1>2, <2>1, Zenon DEF Datagrams
<1>7. sequenceNumber = thread[t].seq + 1 /\ thread[t].seq \in Nat
    BY <1>2, ThreadTypes DEF IInv, Numbered, HasNumber, BeforeSend, Pc
<1>8. HasNumber(r)' /\ HasPacket(r) /\ sent'.seq < sequenceNumber'
    BY <1>2, <1>3, <1>5, <1>7 DEF HasNumber, HasPacket, BeforeSend
<1>9. ASSUME policy = "wait"
      PROVE  /\ InStep(r)' /\ Due'
             /\ sent'.packet # Null /\ sent'.index < sent'.packet.len
             /\ sent'.marked <=> sent'.index = sent'.packet.len - 1
  <2>1. InStep(thread[t]) /\ thread[t].pc = "send"
      BY <1>2, <1>9, Alone DEF Pc
  <2>2. /\ packets # Null /\ packets.len > 0 /\ nextPacketIndex < packets.len
        /\ thread[t].packet = packets /\ thread[t].index = nextPacketIndex
        /\ thread[t].count = packets.len
      BY <2>1 DEF InStep, HasArray, AfterEmpty, BeforeSend
  <2>3. thread[t].marked <=> nextPacketIndex = packets.len - 1
      BY <2>1 DEF InStep
  <2>4. InStep(r)'
      BY <1>2, <1>3, <2>2 DEF InStep, HasArray, AfterEmpty, AfterSend, BeforeSend
  <2>5. Pc(t)' = "read"
      BY <1>2 DEF IInv, TypeOK, Pc
  <2>6. Due'
      BY <2>5 DEF Due, AfterSend
  <2>7. sent'.marked <=> sent'.index = sent'.packet.len - 1
    <3>1. sent'.packet.len = packets.len /\ sent'.index = nextPacketIndex
        BY <1>3, <2>2
    <3>2. (sent'.index = sent'.packet.len - 1) <=> (nextPacketIndex = packets.len - 1)
        BY <3>1
    <3> QED BY <1>4, <2>3, <3>2, Zenon
  <2> QED BY <1>3, <2>2, <2>4, <2>6, <2>7
<1>10. /\ flagStopped' \in BOOLEAN /\ isTransmitting' /\ isTransmitting' \in BOOLEAN
       /\ nextPacketIndex' \in Nat /\ sequenceNumber' \in Nat
    BY <1>2 DEF IInv, TypeOK, Flagged
<1> QED BY <1>2, <1>3, <1>5, <1>6, <1>8, <1>9, <1>10, Moved

LEMMA StoreIndexKeeps ==
    ASSUME IInv, NEW t \in Threads, StoreIndex(t), UNCHANGED policy
    PROVE  IInv'
<1>1. PICK r \in Locals : r = At(t, "wrap")
    BY AtTypes DEF IInv, Labels
<1>2. /\ Pc(t) = "store" /\ t \in Alive /\ thread' = [thread EXCEPT ![t] = r]
      /\ nextPacketIndex' = thread[t].index + 1
      /\ r.pc = "wrap" /\ r.packet = thread[t].packet /\ r.count = thread[t].count
      /\ UNCHANGED <<flagStopped, isTransmitting, packets, sequenceNumber, socket, caller,
                     loads, sent>>
    BY <1>1, AtTypes DEF StoreIndex, Becomes, Alive, flags, Shared, IInv, Labels
<1>3. HasNumber(r)' /\ HasPacket(r) /\ nextPacketIndex' \in Nat
    BY <1>2, ThreadTypes DEF HasNumber, HasPacket, BeforeSend, IInv, Loaded, Pc
<1>4. policy = "wait" => InStep(r)' /\ Due'
  <2> SUFFICES ASSUME policy = "wait" PROVE InStep(r)' /\ Due'
      OBVIOUS
  <2>1. InStep(thread[t]) /\ thread[t].pc = "store"
      BY <1>2, Alone DEF Pc
  <2>2. InStep(r)'
      BY <1>2, <2>1 DEF InStep, HasArray, AfterEmpty, AfterSend, BeforeSend
  <2>3. Pc(t)' = "wrap"
      BY <1>2 DEF IInv, TypeOK, Pc
  <2> QED BY <2>2, <2>3 DEF Due, AfterSend
<1>5. /\ flagStopped' \in BOOLEAN /\ isTransmitting' /\ isTransmitting' \in BOOLEAN
      /\ sequenceNumber' \in Nat /\ sent' \in Datagrams \cup {NoDatagram}
    BY <1>2 DEF IInv, TypeOK, Flagged
<1>6. /\ socket = "none" => sent' = NoDatagram
      /\ sent' # NoDatagram => sent'.seq < sequenceNumber'
      /\ sent'.packet.load <= loads
      /\ policy = "wait" /\ sent' # NoDatagram =>
            /\ sent'.packet # Null /\ sent'.index < sent'.packet.len
            /\ sent'.marked <=> sent'.index = sent'.packet.len - 1
    BY <1>2 DEF IInv, Unsent, Numbered, Loaded, Waiting
<1> QED BY <1>2, <1>3, <1>4, <1>5, <1>6, Moved

LEMMA FirstAgainKeeps ==
    ASSUME IInv, NEW t \in Threads, FirstAgain(t), UNCHANGED policy
    PROVE  IInv'
<1>1. PICK r \in Locals : r = AtLoop
    BY LoopTypes
<1>2. /\ Pc(t) = "again" /\ t \in Alive /\ thread' = [thread EXCEPT ![t] = r]
      /\ nextPacketIndex' = 0 /\ r.pc = "loop" /\ r.packet = Null
      /\ UNCHANGED <<flagStopped, isTransmitting, packets, sequenceNumber, socket, caller,
                     loads, sent>>
    BY <1>1, LoopTypes DEF FirstAgain, Becomes, Alive, flags, Shared
<1>3. HasNumber(r)' /\ HasPacket(r)
    BY <1>2, TransmitterAssumption DEF HasNumber, HasPacket, BeforeSend, Null, IInv, TypeOK
<1>4. policy = "wait" => InStep(r)' /\ Due'
  <2> SUFFICES ASSUME policy = "wait" PROVE InStep(r)' /\ Due'
      OBVIOUS
  <2>1. InStep(r)'
      BY <1>2 DEF InStep, HasArray, AfterEmpty, AfterSend, BeforeSend
  <2>2. /\ sent.packet = packets /\ sent.index + 1 = packets.len
        /\ sent.index < packets.len
      BY <1>2, Alone DEF InStep, AfterSend, Pc
  <2>3. sent.index \in Nat /\ packets.len \in Nat
      BY SentTypes, BufferTypes DEF IInv, TypeOK
  <2>4. (sent.index + 1) % sent.packet.len = 0
      BY <2>2, <2>3, NextIndex
  <2> QED BY <1>2, <2>1, <2>2, <2>4 DEF Due
<1>5. /\ flagStopped' \in BOOLEAN /\ isTransmitting' /\ isTransmitting' \in BOOLEAN
      /\ nextPacketIndex' \in Nat /\ sequenceNumber' \in Nat
      /\ sent' \in Datagrams \cup {NoDatagram}
    BY <1>2 DEF IInv, TypeOK, Flagged
<1>6. /\ socket = "none" => sent' = NoDatagram
      /\ sent' # NoDatagram => sent'.seq < sequenceNumber'
      /\ sent'.packet.load <= loads
      /\ policy = "wait" /\ sent' # NoDatagram =>
            /\ sent'.packet # Null /\ sent'.index < sent'.packet.len
            /\ sent'.marked <=> sent'.index = sent'.packet.len - 1
    BY <1>2 DEF IInv, Unsent, Numbered, Loaded, Waiting
<1> QED BY <1>2, <1>3, <1>4, <1>5, <1>6, Moved

LEMMA ClearKeeps ==
    ASSUME IInv, NEW t \in Threads, Clear(t) \/ Clear2(t), UNCHANGED policy
    PROVE  IInv'
<1>1. PICK r \in Locals : r = IF Clear(t) THEN At(t, "clear2") ELSE NoThread
    BY AtTypes, LoopTypes DEF IInv, Labels
<1>2. /\ Pc(t) \in {"clear", "clear2"} /\ t \in Alive
      /\ thread' = [thread EXCEPT ![t] = r]
      /\ r.pc \in {"clear2", "none"} /\ (r.packet = thread[t].packet \/ r.packet = Null)
      /\ UNCHANGED <<packets, nextPacketIndex, sequenceNumber, socket, caller, loads, sent>>
    BY <1>1, AtTypes, LoopTypes
       DEF Clear, Clear2, Becomes, Alive, buffer, Shared, IInv, Labels
<1>3. /\ flagStopped' \in BOOLEAN /\ isTransmitting' \in BOOLEAN
      /\ r.pc # "none" => isTransmitting'
  <2>1. CASE Clear(t)
    <3>1. flagStopped' = FALSE /\ isTransmitting' = isTransmitting
        BY <2>1 DEF Clear
    <3>2. isTransmitting /\ isTransmitting \in BOOLEAN
        BY <1>2 DEF IInv, TypeOK, Flagged
    <3> QED BY <3>1, <3>2, Zenon
  <2>2. CASE ~Clear(t)
    <3>1. isTransmitting' = FALSE /\ flagStopped' = flagStopped /\ r = NoThread
        BY <1>1, <2>2 DEF Clear2
    <3>2. r.pc = "none" /\ flagStopped \in BOOLEAN
        BY <3>1, LoopTypes DEF IInv, TypeOK
    <3> QED BY <3>1, <3>2
  <2> QED BY <2>1, <2>2
<1>4. HasNumber(r)' /\ HasPacket(r)
    BY <1>2, TransmitterAssumption
       DEF HasNumber, HasPacket, BeforeSend, Null, IInv, TypeOK, Loaded
<1>5. policy = "wait" => InStep(r)' /\ Due'
  <2> SUFFICES ASSUME policy = "wait" PROVE InStep(r)' /\ Due'
      OBVIOUS
  <2>1. InStep(r)'
      BY <1>2 DEF InStep, HasArray, AfterEmpty, AfterSend, BeforeSend
  <2>2. ~\E u \in Threads : Pc(u) \in AfterSend
      BY <1>2, Alone DEF AfterSend
  <2>3. Due'
      BY <1>2, <2>2 DEF IInv, Waiting, Due
  <2> QED BY <2>1, <2>3
<1>6. /\ nextPacketIndex' \in Nat /\ sequenceNumber' \in Nat
      /\ sent' \in Datagrams \cup {NoDatagram}
    BY <1>2 DEF IInv, TypeOK
<1>7. /\ socket = "none" => sent' = NoDatagram
      /\ sent' # NoDatagram => sent'.seq < sequenceNumber'
      /\ sent'.packet.load <= loads
      /\ policy = "wait" /\ sent' # NoDatagram =>
            /\ sent'.packet # Null /\ sent'.index < sent'.packet.len
            /\ sent'.marked <=> sent'.index = sent'.packet.len - 1
    BY <1>2 DEF IInv, Unsent, Numbered, Loaded, Waiting
<1> QED BY <1>2, <1>3, <1>4, <1>5, <1>6, <1>7, Moved

LEMMA ThreadKeeps == ASSUME IInv, NEW t \in Threads, ThreadStep(t) PROVE IInv'
BY BeginKeeps, LoopKeeps, NullTestKeeps, EmptyTestKeeps, PacketCountKeeps, ReadArrayKeeps,
   FetchKeeps, ReadNumberKeeps, StoreNumberKeeps, LastIndexKeeps, MarkKeeps, LogArrayKeeps,
   LogPacketKeeps, SendKeeps, SendFailsKeeps, SendNowhereKeeps, ReadIndexKeeps,
   StoreIndexKeeps, WrapKeeps, FirstAgainKeeps, ClearKeeps
   DEF ThreadStep

---------------------------------------------------------------------------
(* The steps of the caller.                                                *)

(* Without a thread there is nothing to be out of step with.               *)
LEMMA NoneInStep ==
    ASSUME \A t \in Threads : Pc(t)' \in {"none", "begin", "noSocket"}
    PROVE  /\ \A t \in Threads : InStep(thread[t])'
           /\ ~\E t \in Threads : Pc(t)' \in AfterSend
BY DEF InStep, HasArray, AfterEmpty, AfterSend, BeforeSend, Pc

(* A call that keeps the threads, and what was sent.                       *)
LEMMA CallKeeps ==
    ASSUME IInv, UNCHANGED <<thread, sequenceNumber, sent, policy>>, TypeOK',
           packets'.load <= loads', loads <= loads', Flagged',
           socket' = "none" => socket = "none",
           policy = "wait" => (\A t \in Threads : InStep(thread[t])') /\ CallerWaits' /\ Due'
    PROVE  IInv'
<1>1. Numbered'
    BY DEF IInv, Numbered, HasNumber
<1>2. Loaded'
  <2>1. loads \in Nat /\ loads' \in Nat /\ sent.packet.load \in Nat
        /\ \A t \in Threads : thread[t].packet.load \in Nat
      BY BufferTypes, SentTypes, ThreadTypes, TransmitterAssumption DEF IInv, TypeOK
  <2>2. sent.packet.load <= loads /\ \A t \in Threads : thread[t].packet.load <= loads
      BY DEF IInv, Loaded, HasPacket
  <2>3. sent'.packet.load <= loads' /\ \A t \in Threads : thread'[t].packet.load <= loads'
      BY <2>1, <2>2
  <2> QED BY <2>3 DEF IInv, Loaded, HasPacket
<1>3. Unsent'
    BY DEF IInv, Unsent, Pc
<1>4. policy = "wait" => Waiting'
    BY DEF IInv, Waiting
<1> QED BY <1>1, <1>2, <1>3, <1>4 DEF IInv

(* A call that leaves the buffer alone too.                                *)
LEMMA BufferAlone ==
    ASSUME IInv, UNCHANGED <<thread, packets, nextPacketIndex, sequenceNumber, sent,
                             loads, policy>>,
           TypeOK', Flagged', socket' = "none" => socket = "none",
           {caller, caller'} \cap {"clean", "loadIndex", "nullPackets"} = {},
           policy = "wait" /\ caller' \in {"connect", "join", "closed"} => Alive = {}
    PROVE  IInv'
<1>1. packets'.load <= loads' /\ loads <= loads'
    BY TransmitterAssumption DEF IInv, Loaded, TypeOK
<1>2. ASSUME policy = "wait"
      PROVE  (\A t \in Threads : InStep(thread[t])') /\ CallerWaits' /\ Due'
  <2>1. Waiting
      BY <1>2 DEF IInv
  <2>2. \A t \in Threads : InStep(thread[t])'
      BY <2>1 DEF Waiting, InStep
  <2>3. CallerWaits'
      BY <1>2 DEF CallerWaits, Alive, Pc
  <2>4. Due'
      BY <2>1 DEF Waiting, Due, Pc
  <2> QED BY <2>2, <2>3, <2>4
<1> QED BY <1>1, <1>2, CallKeeps

(* From idle, the patient caller goes on when no thread is about to run.   *)
LEMMA CallsPatient ==
    ASSUME Patient, IInv, NEW to, Calls(to)
    PROVE  caller = "idle" /\ caller' = to /\ Started = {}
BY PolicyPatient DEF IInv, Calls, Call

(* And no thread at all is left where nothing is transmitting.             *)
LEMMA NoneLeft ==
    ASSUME IInv, Started = {}, ~isTransmitting
    PROVE  NoThreads
BY DEF IInv, Flagged, Started, NoThreads

LEMMA LoadsPatient ==
    ASSUME Patient, IInv, NEW to, LoadsNow(to)
    PROVE  /\ caller = "idle" /\ caller' = to /\ Started = {}
           /\ policy = "wait" => Alive = {}
<1>1. Calls(to)
    BY DEF LoadsNow
<1> QED BY <1>1, CallsPatient DEF LoadsNow

(* What the threads have to do with the caller.                            *)
LEMMA FlaggedByCall ==
    ASSUME IInv, UNCHANGED <<thread, isTransmitting>>,
           caller' # "idle" => Started = {},
           caller' \in {"start", "start2", "spawn", "leave"} => NoThreads
    PROVE  Flagged'
BY DEF IInv, Flagged, Started, NoThreads, Pc

LEMMA StartTransmissionKeeps ==
    ASSUME Patient, IInv, StartTransmission, UNCHANGED policy PROVE IInv'
<1>1. /\ caller = "idle" /\ caller' = "start" /\ Started = {} /\ ~isTransmitting
      /\ UNCHANGED <<flags, buffer, sequenceNumber, socket, thread, loads, sent>>
    BY CallsPatient DEF StartTransmission
<1>2. NoThreads
    BY <1>1, NoneLeft
<1>3. TypeOK'
    BY <1>1 DEF IInv, TypeOK, flags, buffer, CallerLabels
<1>4. Flagged'
    BY <1>1, <1>2, FlaggedByCall DEF flags
<1> QED BY <1>1, <1>3, <1>4, BufferAlone DEF buffer

LEMMA StartClearKeeps == ASSUME IInv, StartClear, UNCHANGED policy PROVE IInv'
<1>1. /\ caller = "start" /\ caller' = "start2" /\ flagStopped' = FALSE
      /\ UNCHANGED <<isTransmitting, buffer, sequenceNumber, socket, thread, loads, sent>>
    BY DEF StartClear, Call
<1>2. NoThreads /\ Started = {}
    BY <1>1 DEF IInv, Flagged
<1>3. TypeOK'
    BY <1>1 DEF IInv, TypeOK, buffer, CallerLabels
<1>4. Flagged'
    BY <1>1, <1>2, FlaggedByCall
<1> QED BY <1>1, <1>3, <1>4, BufferAlone DEF buffer

LEMMA StartClear2Keeps == ASSUME IInv, StartClear2, UNCHANGED policy PROVE IInv'
<1>1. /\ caller = "start2" /\ caller' = "spawn" /\ isTransmitting' = FALSE
      /\ UNCHANGED <<flagStopped, buffer, sequenceNumber, socket, thread, loads, sent>>
    BY DEF StartClear2, Call
<1>2. NoThreads /\ Started = {}
    BY <1>1 DEF IInv, Flagged
<1>3. TypeOK'
    BY <1>1 DEF IInv, TypeOK, buffer, CallerLabels
<1>4. Flagged'
    BY <1>1, <1>2 DEF Flagged, NoThreads, Started, Pc
<1> QED BY <1>1, <1>3, <1>4, BufferAlone DEF buffer

LEMMA SpawnKeeps == ASSUME IInv, Spawn, UNCHANGED policy PROVE IInv'
<1>1. /\ caller = "spawn" /\ caller' = "idle"
      /\ UNCHANGED <<flags, buffer, sequenceNumber, socket, loads, sent>>
    BY DEF Spawn, Call
<1>2. NoThreads
    BY <1>1 DEF IInv, Flagged
<1>3. PICK t \in Threads : Pc(t) = "none" /\ thread' = [thread EXCEPT ![t].pc = "begin"]
    BY DEF Spawn
<1>4. thread' = [thread EXCEPT ![t] = At(t, "begin")]
    BY <1>3 DEF At
<1>5. /\ At(t, "begin") \in Locals /\ At(t, "begin").pc = "begin"
      /\ At(t, "begin").packet = thread[t].packet
    BY AtTypes DEF IInv, Labels
<1>6. /\ thread' \in [Threads -> Locals] /\ thread'[t] = At(t, "begin")
      /\ \A u \in Threads \ {t} : thread'[u] = thread[u]
    BY <1>4, <1>5 DEF IInv, TypeOK
<1>7. /\ Pc(t)' = "begin" /\ \A u \in Threads \ {t} : Pc(u)' = "none"
      /\ \A u \in Threads : thread'[u].pc \in {"begin", "none"}
      /\ \A u \in Threads : thread'[u].packet = thread[u].packet
    BY <1>2, <1>5, <1>6 DEF NoThreads, Pc
<1>8. TypeOK'
    BY <1>1, <1>6 DEF IInv, TypeOK, flags, buffer, CallerLabels
<1>9. Flagged'
    BY <1>1, <1>2, <1>7 DEF Flagged
<1>10. Unsent'
    BY <1>1, <1>7 DEF IInv, Unsent
<1>11. Numbered'
    BY <1>1, <1>7 DEF IInv, Numbered, HasNumber, BeforeSend
<1>12. Loaded'
    BY <1>1, <1>7 DEF IInv, Loaded, HasPacket, BeforeSend, buffer
<1>13. ASSUME policy = "wait" PROVE Waiting'
  <2>1. \A u \in Threads : Pc(u)' \in {"none", "begin", "noSocket"}
      BY <1>7
  <2>2. Waiting /\ ~\E u \in Threads : Pc(u) \in AfterSend
      BY <1>2, <1>13 DEF IInv, NoThreads, AfterSend
  <2>3. CallerWaits' /\ Due'
      BY <1>1, <2>2 DEF CallerWaits, Waiting, Due, buffer
  <2> QED BY <1>1, <2>1, <2>2, <2>3, NoneInStep DEF Waiting
<1> QED BY <1>8, <1>9, <1>10, <1>11, <1>12, <1>13 DEF IInv

LEMMA StopTransmissionKeeps ==
    ASSUME Patient, IInv, StopTransmission, UNCHANGED policy PROVE IInv'
<1>1. /\ caller = "idle" /\ caller' = "stop" /\ Started = {}
      /\ UNCHANGED <<flags, buffer, sequenceNumber, socket, thread, loads, sent>>
    BY CallsPatient DEF StopTransmission
<1>2. TypeOK'
    BY <1>1 DEF IInv, TypeOK, flags, buffer, CallerLabels
<1>3. Flagged'
    BY <1>1, FlaggedByCall DEF flags
<1> QED BY <1>1, <1>2, <1>3, BufferAlone DEF buffer

LEMMA RaiseFlagKeeps ==
    ASSUME IInv, UNCHANGED policy,
           RaiseFlag("stop", "wait") \/ RaiseFlag("disconnectStop", "disconnectWait")
    PROVE  IInv'
<1>1. /\ caller \in {"stop", "disconnectStop"} /\ caller' \in {"wait", "disconnectWait"}
      /\ flagStopped' = TRUE
      /\ UNCHANGED <<isTransmitting, buffer, sequenceNumber, socket, thread, loads, sent>>
    BY DEF RaiseFlag, Call
<1>2. Started = {}
    BY <1>1 DEF IInv, Flagged
<1>3. TypeOK'
    BY <1>1 DEF IInv, TypeOK, buffer, CallerLabels
<1>4. Flagged'
    BY <1>1, <1>2, FlaggedByCall
<1> QED BY <1>1, <1>3, <1>4, BufferAlone DEF buffer

LEMMA StoppedKeeps ==
    ASSUME IInv, UNCHANGED policy,
           Stopped("wait", "idle") \/ Stopped("disconnectWait", "leave")
    PROVE  IInv'
<1>1. /\ caller \in {"wait", "disconnectWait"} /\ caller' \in {"idle", "leave"}
      /\ ~isTransmitting
      /\ UNCHANGED <<flags, buffer, sequenceNumber, socket, thread, loads, sent>>
    BY DEF Stopped, Call
<1>2. Started = {} /\ NoThreads
    BY <1>1, NoneLeft DEF IInv, Flagged
<1>3. TypeOK'
    BY <1>1 DEF IInv, TypeOK, flags, buffer, CallerLabels
<1>4. Flagged'
    BY <1>1, <1>2, FlaggedByCall DEF flags
<1> QED BY <1>1, <1>3, <1>4, BufferAlone DEF buffer

LEMMA DisconnectKeeps == ASSUME Patient, IInv, Disconnect, UNCHANGED policy PROVE IInv'
<1>1. /\ caller = "idle" /\ caller' = IF isTransmitting THEN "disconnectStop" ELSE "leave"
      /\ Started = {}
      /\ UNCHANGED <<flags, buffer, sequenceNumber, socket, thread, loads, sent>>
    BY CallsPatient DEF Disconnect
<1>2. caller' \in {"disconnectStop", "leave"} /\ (caller' = "leave" => NoThreads)
    BY <1>1, NoneLeft
<1>3. TypeOK'
    BY <1>1, <1>2 DEF IInv, TypeOK, flags, buffer, CallerLabels
<1>4. Flagged'
    BY <1>1, <1>2, FlaggedByCall DEF flags
<1> QED BY <1>1, <1>2, <1>3, <1>4, BufferAlone DEF buffer

(* What is left of Waiting when no thread is alive.                        *)
LEMMA WithoutThreads ==
    ASSUME IInv, policy = "wait", Alive = {}, UNCHANGED thread
    PROVE  Alive' = {} /\ \A t \in Threads : InStep(thread[t])'
<1>1. \A t \in Threads : Pc(t) # "died"
    BY DEF IInv, Waiting, InStep, Pc
<1>2. \A t \in Threads : Pc(t)' \in {"none", "begin", "noSocket"}
    BY <1>1 DEF Alive, Pc
<1>3. Alive' = {}
    BY DEF Alive, Pc
<1> QED BY <1>2, <1>3, NoneInStep

LEMMA ConnectKeeps == ASSUME Patient, IInv, Connect, UNCHANGED policy PROVE IInv'
<1>1. /\ caller = "idle" /\ caller' = "connect" /\ Started = {} /\ (policy = "wait" => Alive = {})
      /\ UNCHANGED <<flags, buffer, sequenceNumber, socket, thread, loads, sent>>
    BY LoadsPatient DEF Connect
<1>2. TypeOK'
    BY <1>1 DEF IInv, TypeOK, flags, buffer, CallerLabels
<1>3. Flagged'
    BY <1>1, FlaggedByCall DEF flags
<1> QED BY <1>1, <1>2, <1>3, BufferAlone DEF buffer

LEMMA OpenSocketKeeps == ASSUME IInv, OpenSocket, UNCHANGED policy PROVE IInv'
<1>1. /\ caller = "connect" /\ caller' = "join" /\ socket' = "open"
      /\ UNCHANGED <<flags, buffer, sequenceNumber, thread, loads, sent>>
    BY DEF OpenSocket, Call
<1>2. Started = {} /\ (policy = "wait" => Alive = {})
    BY <1>1 DEF IInv, Flagged, Waiting, CallerWaits
<1>3. TypeOK'
    BY <1>1 DEF IInv, TypeOK, flags, buffer, CallerLabels
<1>4. Flagged'
    BY <1>1, <1>2, FlaggedByCall DEF flags
<1> QED BY <1>1, <1>2, <1>3, <1>4, BufferAlone DEF buffer

LEMMA FailsKeeps == ASSUME IInv, ConnectFails \/ LeaveFails, UNCHANGED policy PROVE IInv'
<1>1. /\ caller \in {"connect", "join", "leave"} /\ caller' = "idle"
      /\ UNCHANGED <<flags, buffer, sequenceNumber, socket, thread, loads, sent>>
    BY DEF ConnectFails, LeaveFails, Call
<1>2. TypeOK'
    BY <1>1 DEF IInv, TypeOK, flags, buffer, CallerLabels
<1>3. Flagged'
    BY <1>1, FlaggedByCall DEF flags
<1> QED BY <1>1, <1>2, <1>3, BufferAlone DEF buffer

LEMMA LeaveGroupKeeps == ASSUME IInv, LeaveGroup, UNCHANGED policy PROVE IInv'
<1>1. /\ caller = "leave" /\ caller' = "closed" /\ socket' = "closed"
      /\ UNCHANGED <<flags, buffer, sequenceNumber, thread, loads, sent>>
    BY DEF LeaveGroup, Call
<1>2. NoThreads /\ Started = {} /\ Alive = {}
    BY <1>1 DEF IInv, Flagged, NoThreads, Alive
<1>3. TypeOK'
    BY <1>1 DEF IInv, TypeOK, flags, buffer, CallerLabels
<1>4. Flagged'
    BY <1>1, <1>2, FlaggedByCall DEF flags
<1> QED BY <1>1, <1>2, <1>3, <1>4, BufferAlone DEF buffer

LEMMA ResetIndexKeeps ==
    ASSUME IInv, ResetIndex("clean") \/ ResetIndex("loadIndex"), UNCHANGED policy
    PROVE  IInv'
<1>1. /\ caller \in {"clean", "loadIndex"} /\ caller' = "idle" /\ nextPacketIndex' = 0
      /\ UNCHANGED <<flags, packets, sequenceNumber, socket, thread, loads, sent>>
    BY DEF ResetIndex, Call
<1>2. TypeOK'
    BY <1>1 DEF IInv, TypeOK, flags, CallerLabels
<1>3. Flagged'
    BY <1>1, FlaggedByCall DEF flags
<1>4. packets'.load <= loads' /\ loads <= loads'
    BY <1>1, TransmitterAssumption DEF IInv, Loaded, TypeOK
<1>5. ASSUME policy = "wait"
      PROVE  (\A t \in Threads : InStep(thread[t])') /\ CallerWaits' /\ Due'
  <2>1. /\ Alive = {} /\ (caller = "clean" => packets = Null)
        /\ caller = "loadIndex" => packets # sent.packet
      BY <1>1, <1>5 DEF IInv, Waiting, CallerWaits
  <2>2. Due'
      BY <1>1, <2>1 DEF Due
  <2> QED BY <1>1, <1>5, <2>1, <2>2, WithoutThreads DEF CallerWaits
<1> QED BY <1>1, <1>2, <1>3, <1>4, <1>5, CallKeeps

LEMMA LoadDataKeeps == ASSUME Patient, IInv, LoadData, UNCHANGED policy PROVE IInv'
<1>1. /\ caller = "idle" /\ caller' = "loadIndex" /\ Started = {}
      /\ (policy = "wait" => Alive = {}) /\ loads < MaxLoads /\ loads' = loads + 1
      /\ UNCHANGED <<flags, nextPacketIndex, sequenceNumber, socket, thread, sent>>
    BY LoadsPatient DEF LoadData
<1>2. PICK n \in 0..MaxPackets : packets' = [load |-> loads', len |-> n]
    BY DEF LoadData
<1>3. loads \in 0..MaxLoads /\ MaxLoads \in Nat
    BY TransmitterAssumption DEF IInv, TypeOK
<1>4. loads' \in 1..MaxLoads /\ loads' \in 0..MaxLoads /\ loads < loads'
    BY <1>1, <1>3
<1>5. packets' \in Buffers /\ packets'.load = loads'
    BY <1>2, <1>4 DEF Buffers
<1>6. TypeOK'
    BY <1>1, <1>4, <1>5 DEF IInv, TypeOK, flags, CallerLabels
<1>7. Flagged'
    BY <1>1, FlaggedByCall DEF flags
<1>8. packets'.load <= loads' /\ loads <= loads'
    BY <1>3, <1>4, <1>5
<1>9. ASSUME policy = "wait"
      PROVE  (\A t \in Threads : InStep(thread[t])') /\ CallerWaits' /\ Due'
  <2>1. packets' # sent.packet
    <3>1. sent.packet.load <= loads /\ sent.packet.load \in Nat
        BY BufferTypes, SentTypes DEF IInv, Loaded
    <3> QED BY <1>3, <1>4, <1>5, <3>1
  <2>2. Alive' = {}
      BY <1>1, <1>9, WithoutThreads
  <2>3. CallerWaits' /\ Due'
      BY <1>1, <2>1, <2>2 DEF CallerWaits, Due
  <2> QED BY <1>1, <1>9, <2>3, WithoutThreads
<1> QED BY <1>1, <1>6, <1>7, <1>8, <1>9, CallKeeps

LEMMA LoadNullKeeps == ASSUME Patient, IInv, LoadNull, UNCHANGED policy PROVE IInv'
<1>1. /\ caller = "idle" /\ caller' = "nullPackets" /\ Started = {}
      /\ (policy = "wait" => Alive = {}) /\ nextPacketIndex' = 0
      /\ UNCHANGED <<flags, packets, sequenceNumber, socket, thread, loads, sent>>
    BY LoadsPatient DEF LoadNull
<1>2. TypeOK'
    BY <1>1 DEF IInv, TypeOK, flags, CallerLabels
<1>3. Flagged'
    BY <1>1, FlaggedByCall DEF flags
<1>4. packets'.load <= loads' /\ loads <= loads'
    BY <1>1, TransmitterAssumption DEF IInv, Loaded, TypeOK
<1>5. policy = "wait" => (\A t \in Threads : InStep(thread[t])') /\ CallerWaits' /\ Due'
    BY <1>1, WithoutThreads DEF CallerWaits, Due
<1> QED BY <1>1, <1>2, <1>3, <1>4, <1>5, CallKeeps

LEMMA NullPacketsKeeps ==
    ASSUME IInv, UNCHANGED policy,
           \/ NullPackets("join", "clean") \/ NullPackets("closed", "clean")
           \/ NullPackets("nullPackets", "idle")
    PROVE  IInv'
<1>1. /\ caller \in {"join", "closed", "nullPackets"} /\ caller' \in {"clean", "idle"}
      /\ packets' = Null
      /\ UNCHANGED <<flags, nextPacketIndex, sequenceNumber, socket, thread, loads, sent>>
    BY DEF NullPackets, Call
<1>2. TypeOK'
    BY <1>1 DEF IInv, TypeOK, flags, CallerLabels
<1>3. Flagged'
  <2>1. Started = {}
      BY <1>1 DEF IInv, Flagged
  <2> QED BY <1>1, <2>1, FlaggedByCall DEF flags
<1>4. packets'.load <= loads' /\ loads <= loads'
    BY <1>1, TransmitterAssumption DEF Null, IInv, TypeOK
<1>5. ASSUME policy = "wait"
      PROVE  (\A t \in Threads : InStep(thread[t])') /\ CallerWaits' /\ Due'
  <2>1. Alive = {}
      BY <1>1, <1>5 DEF IInv, Waiting, CallerWaits
  <2> QED BY <1>1, <1>5, <2>1, WithoutThreads DEF CallerWaits, Due
<1> QED BY <1>1, <1>2, <1>3, <1>4, <1>5, CallKeeps

---------------------------------------------------------------------------
LEMMA InitHolds == Init => IInv
<1> SUFFICES ASSUME Init PROVE IInv
    OBVIOUS
<1>1. \A t \in Threads : /\ thread[t] = NoThread /\ Pc(t) = "none"
                          /\ thread[t].pc = "none" /\ thread[t].packet = Null
    BY LoopTypes DEF Init, Pc
<1>2. sent = NoDatagram /\ packets = Null /\ sent.packet = Null
    BY DEF Init, NoDatagram
<1>3. TypeOK
  <2>1. NoThread \in Locals
      BY LoopTypes
  <2>2. thread \in [Threads -> Locals]
      BY <2>1 DEF Init
  <2>3. flagStopped \in BOOLEAN /\ isTransmitting \in BOOLEAN
      BY DEF Init
  <2>4. loads \in 0..MaxLoads /\ sequenceNumber \in Nat /\ nextPacketIndex \in Nat
      BY TransmitterAssumption DEF Init
  <2> QED BY <1>2, <2>2, <2>3, <2>4 DEF Init, TypeOK, CallerLabels
<1>4. Flagged
    BY <1>1 DEF Init, Flagged, NoThreads, Started
<1>5. Numbered
    BY <1>1, <1>2 DEF Numbered, HasNumber, BeforeSend
<1>6. Loaded
  <2>1. Null.load <= loads
      BY DEF Null, Init
  <2> QED BY <1>1, <1>2, <2>1 DEF Loaded, HasPacket, BeforeSend
<1>7. Waiting
  <2>1. \A t \in Threads : InStep(thread[t])
      BY <1>1 DEF InStep, HasArray, AfterEmpty, AfterSend, BeforeSend
  <2>2. CallerWaits /\ Due
      BY <1>2 DEF Init, CallerWaits, Due
  <2> QED BY <1>2, <2>1, <2>2 DEF Waiting
<1>8. Unsent
    BY <1>2 DEF Unsent
<1> QED BY <1>3, <1>4, <1>5, <1>6, <1>7, <1>8 DEF IInv

LEMMA StutterKeeps == ASSUME IInv, UNCHANGED vars PROVE IInv'
BY DEF IInv, vars, flags, buffer, TypeOK, Flagged, NoThreads, Started, Alive, Unsent,
       Numbered, HasNumber, Loaded, HasPacket, Waiting, InStep, CallerWaits, Due, Pc

LEMMA NextKeeps == ASSUME Patient, IInv, [Next]_vars PROVE IInv'
<1>1. CASE ApiCall
    BY <1>1, ConnectKeeps, LoadDataKeeps, LoadNullKeeps,
       StartTransmissionKeeps, StopTransmissionKeeps, DisconnectKeeps DEF ApiCall
<1>2. CASE CallerStep
    BY <1>2, OpenSocketKeeps, FailsKeeps, NullPacketsKeeps, ResetIndexKeeps,
       StartClearKeeps, StartClear2Keeps, SpawnKeeps, RaiseFlagKeeps, StoppedKeeps,
       LeaveGroupKeeps DEF CallerStep
<1>3. CASE \E t \in Threads : ThreadStep(t)
    BY <1>3, ThreadKeeps
<1>4. CASE UNCHANGED vars
    BY <1>4, StutterKeeps
<1> QED BY <1>1, <1>2, <1>3, <1>4 DEF Next

(* The inductive invariant holds of every run of the transmitter whose     *)
(* callers wait until a thread they started runs (RtpTransmitter.java:136, *)
(* :143 and :161).                                                         *)
THEOREM Invariance == ASSUME Patient PROVE Spec => []IInv
<1>1. Init => IInv
    BY InitHolds
<1>2. IInv /\ [Next]_vars => IInv'
    BY NextKeeps
<1> QED BY <1>1, <1>2, PTL DEF Spec

(* Types: what each field, local and datagram can hold.                    *)
THEOREM Typed == ASSUME Patient PROVE Spec => []TypeOK
<1>1. IInv => TypeOK
    BY DEF IInv
<1> QED BY <1>1, Invariance, PTL

(* Two transmitter threads are never alive at once: isTransmitting covers  *)
(* every thread but one that has not begun, and the caller waits for that. *)
THEOREM One == ASSUME Patient PROVE Spec => []OneTransmitter
<1>1. IInv => OneTransmitter
    BY DEF IInv, Flagged, OneTransmitter, Alive
<1> QED BY <1>1, Invariance, PTL

(* As long as loads wait, the marker is on the last packet of a load, and  *)
(* on no other.                                                            *)
THEOREM Marker == ASSUME Patient PROVE Spec => []MarkerOnLast
<1>1. IInv => MarkerOnLast
    BY DEF IInv, Waiting, MarkerOnLast
<1> QED BY <1>1, Invariance, PTL

(* As long as loads wait, no access to the buffer (RtpTransmitter.java:230 *)
(* to 256) kills a thread; and one dies for want of a socket (:252) only   *)
(* before anything was sent.                                               *)
THEOREM Survives == ASSUME Patient PROVE Spec => []NoDeath
<1>1. IInv => NoDeath
    BY DEF IInv, Unsent, Waiting, InStep, NoDeath, Pc
<1> QED BY <1>1, Invariance, PTL

(* Only Send changes the datagram sent last.                               *)
LEMMA OnlySend ==
    ASSUME [Next]_vars, sent' # sent
    PROVE  \E t \in Threads : Send(t)
<1>1. CASE ApiCall
    BY <1>1 DEF ApiCall, Connect, LoadData, LoadNull, StartTransmission,
                StopTransmission, Disconnect
<1>2. CASE CallerStep
    BY <1>2 DEF CallerStep, OpenSocket, ConnectFails, ResetIndex, NullPackets, StartClear,
                StartClear2, Spawn, RaiseFlag, Stopped, LeaveGroup, LeaveFails
<1>3. ASSUME NEW t \in Threads, ThreadStep(t) PROVE Send(t)
  <2>1. CASE Begin(t) \/ StoreNumber(t) \/ StoreIndex(t) \/ FirstAgain(t)
             \/ Clear(t) \/ Clear2(t)
      BY <2>1 DEF Begin, StoreNumber, StoreIndex, FirstAgain, Clear, Clear2, Shared
  <2>2. CASE \E from, r : Looks(t, from, r)
      BY <2>2 DEF Looks, Shared
  <2> QED BY <1>3, <2>1, <2>2
          DEF ThreadStep, Loop, NullTest, EmptyTest, PacketCount, ReadArray, Fetch, ReadNumber,
              LastIndex, Mark, LogArray, LogPacket, SendFails, SendNowhere, ReadIndex, Wrap
<1> QED BY <1>1, <1>2, <1>3 DEF Next, vars

(* Sequence numbers only grow; and as long as loads wait, the packets of a *)
(* load go out in order and round again, and those of a new load from its  *)
(* first, through stops and restarts.                                      *)
THEOREM Ordered == ASSUME Patient PROVE Spec => InOrder
<1>1. IInv /\ [Next]_vars =>
        [sent' # sent =>
            /\ sent # NoDatagram => sent'.seq > sent.seq
            /\ policy = "wait" =>
                  sent'.index = IF sent'.packet = sent.packet
                                THEN (sent.index + 1) % sent.packet.len ELSE 0]_vars
  <2> SUFFICES ASSUME IInv, [Next]_vars, sent' # sent
               PROVE  /\ sent # NoDatagram => sent'.seq > sent.seq
                      /\ policy = "wait" =>
                            sent'.index = IF sent'.packet = sent.packet
                                          THEN (sent.index + 1) % sent.packet.len ELSE 0
      OBVIOUS
  <2>1. PICK t \in Threads : Send(t)
      BY OnlySend
  <2>2. Pc(t) = "send" /\ sent' = [packet |-> thread[t].packet, index |-> thread[t].index,
                                   seq |-> thread[t].seq, marked |-> thread[t].marked]
      BY <2>1 DEF Send, Becomes
  <2>3. sent'.packet = thread[t].packet /\ sent'.index = thread[t].index
        /\ sent'.seq = thread[t].seq
      BY <2>2
  <2>4. sent # NoDatagram => sent'.seq > sent.seq
      BY <2>2, <2>3, ThreadTypes, SentTypes DEF IInv, Numbered, HasNumber, BeforeSend, Pc
  <2>5. ASSUME policy = "wait"
        PROVE  sent'.index = IF sent'.packet = sent.packet
                             THEN (sent.index + 1) % sent.packet.len ELSE 0
    <3>1. t \in Alive /\ Pc(t) \in AfterEmpty \ AfterSend
        BY <2>2 DEF Alive, AfterEmpty, HasArray, AfterSend, BeforeSend
    <3>2. thread[t].packet = packets /\ thread[t].index = nextPacketIndex
        BY <2>2, <2>5, <3>1, Alone DEF InStep, HasArray, BeforeSend, Pc
    <3> QED BY <2>3, <2>5, <3>1, <3>2, DueInside
  <2> QED BY <2>4, <2>5
<1> QED BY <1>1, Invariance, PTL DEF Spec, InOrder

(* A step from the waiting loop, or that closes the socket, is the         *)
(* caller's.                                                               *)
LEMMA StopSteps ==
    ASSUME [Next]_vars,
           \/ caller = "wait" /\ caller' = "idle"
           \/ socket = "open" /\ socket' = "closed"
    PROVE  \/ Stopped("wait", "idle")
           \/ caller = "leave" /\ UNCHANGED thread
<1>1. CASE ApiCall
    BY <1>1 DEF ApiCall, Connect, LoadData, LoadNull, StartTransmission,
                StopTransmission, Disconnect, Calls, LoadsNow, Call
<1>2. CASE CallerStep
    BY <1>2 DEF CallerStep, OpenSocket, ConnectFails, ResetIndex, NullPackets, StartClear,
                StartClear2, Spawn, RaiseFlag, Stopped, LeaveGroup, LeaveFails, Call
<1>3. ASSUME NEW t \in Threads, ThreadStep(t) PROVE UNCHANGED <<caller, socket>>
  <2>1. CASE Begin(t) \/ StoreNumber(t) \/ Send(t) \/ StoreIndex(t) \/ FirstAgain(t)
             \/ Clear(t) \/ Clear2(t)
      BY <2>1 DEF Begin, StoreNumber, Send, StoreIndex, FirstAgain, Clear, Clear2, Shared
  <2>2. CASE \E from, r : Looks(t, from, r)
      BY <2>2 DEF Looks, Shared
  <2> QED BY <1>3, <2>1, <2>2
          DEF ThreadStep, Loop, NullTest, EmptyTest, PacketCount, ReadArray, Fetch, ReadNumber,
              LastIndex, Mark, LogArray, LogPacket, SendFails, SendNowhere, ReadIndex, Wrap
<1> QED BY <1>1, <1>2, <1>3 DEF Next, vars

(* stopTransmission returns, and disconnect closes the socket, only when   *)
(* no transmitter thread is left (RtpTransmitter.java:115, :152).         *)
THEOREM Stops == ASSUME Patient PROVE Spec => StopMeansStopped
<1>1. IInv /\ [Next]_vars =>
        [(\/ caller = "wait" /\ caller' = "idle"
          \/ socket = "open" /\ socket' = "closed") => Alive' = {}]_vars
  <2> SUFFICES ASSUME IInv, [Next]_vars,
                      \/ caller = "wait" /\ caller' = "idle"
                      \/ socket = "open" /\ socket' = "closed"
               PROVE  Alive' = {}
      OBVIOUS
  <2>1. CASE Stopped("wait", "idle")
    <3>1. caller = "wait" /\ ~isTransmitting /\ UNCHANGED thread
        BY <2>1 DEF Stopped, Call
    <3>2. NoThreads
        BY <3>1, NoneLeft DEF IInv, Flagged
    <3> QED BY <3>1, <3>2 DEF NoThreads, Alive, Pc
  <2>2. CASE caller = "leave" /\ UNCHANGED thread
    <3>1. NoThreads
        BY <2>2 DEF IInv, Flagged
    <3> QED BY <2>2, <3>1 DEF NoThreads, Alive, Pc
  <2> QED BY <2>1, <2>2, StopSteps
<1> QED BY <1>1, Invariance, PTL DEF Spec, StopMeansStopped
===========================================================================
