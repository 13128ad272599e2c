# Verification of learningatwork

The repository is a collection of experiments around streaming: an RTSP/RTP
player and server (`rtsp-demo`), a second attempt at a transmitter
(`com.anhquan.demo.rtsp`), a state-chart library with an RTSP chart
(`StopWatchStateMachineDemo`), multicast tools (`UDPTransmitter`), the JVLC
bindings of libvlc (`JVLC`) with the headers of the VLC SDK, and a few small
servers and tools. This directory holds TLA+ models of the parts with
concurrency, or with state that two places must agree on, or whose arithmetic on
memory is easy to get wrong; the TLC runs that check them; and the TLAPS proofs.

To check a model: `tlc -config X.cfg M`; to check proofs: `tlapm M_proofs.tla`.

## 1. Inventory

| Component | State it keeps | Operations | Talks to | What is hard |
|---|---|---|---|---|
| rtsp-demo server (`RtspServer.java`) | RTSP state, CSeq, frame timer, frame number, sockets | accept, parse request, answer, start/stop timer, send frame, exit | client over TCP and UDP; its own event dispatch thread (EDT) through unsynchronised fields | two threads; answers leave before the state changes; the client can vanish |
| rtsp-demo client (`RtspClient.java`) | RTSP state, CSeq, frame timer, sockets | five buttons, parse response, receive and show frame, exit | server | one GUI thread that blocks in `readLine` and in `receive`; buttons without guards |
| RTP header (`RTPpacket.java`, `RtpPacket.java`, `RTPPacket.java`) | twelve bytes | encode, decode, set marker | server, client, transmitters | signed bytes |
| `RtpTransmitter` | two volatile flags, packet array, index, sequence number, socket | connect, disconnect, loadData, startTransmission, stopTransmission; the sending thread | multicast group | check-then-act on flags, unprotected buffer, busy waiting |
| RTSP state chart (`rtsp-server.xml`) | current state | six events | interpreted by `RtspStateMachine` | none by itself: it is what an implementation must follow |
| UDPTransmitter (`MulticastSender`, `MulticastReceiver`) | packets, index, countdown; one buffer | load, send, receive | multicast group | countdown and packet-count arithmetic through `float`, loss, receivers that come at any moment |
| JVLC media list (`MediaList.java`) | a Java list beside libvlc's list | add, insert, remove, clear, item | libvlc | the two lists must agree on indices |
| JVLC players and handles | native handles, listener lists | create, play, release, finalize, events | libvlc, its event thread | release order, waiting for playback, event ranges |
| VLC SDK threads (`vlc_threads.h`, `vlc_objects.h`, `vlc_variables.h`) | a mutex and a condition per object, on BeOS a slot; variables | lock, unlock, wait, timed wait, signal; count a variable up and down | pthreads, Win32 events, BeOS threads | a signal between giving up the mutex and sleeping; waits cut into rounds |
| VLC SDK byte streams (`vlc_block_helper.h`, `vlc_block.h`) | a chain of blocks, a place in it | push, pop, flush, peek, skip, get, wait, find a start code | - | places at the end of blocks, empty blocks, a start code across blocks |
| VLC SDK arrays and dictionaries (`vlc_arrays.h`) | memory, sizes, chains | insert, append, remove, search, rebuild | - | growing and shrinking, an insertion behind the last, chains that are moved while they are walked |
| VLC SDK bit streams (`vlc_bits.h`) | a byte and a bit position | read, show, skip, write, align | - | numbers across bytes and past the end |
| VLC SDK URLs (`vlc_url.h`) | the parts of a URL | parse, clean | - | which separator ends which part |
| VLC SDK media objects (`vlc_input.h`, `vlc_vlm.h`, `vlc_epg.h`, `vlc_meta.h`) | what each object points to | new, copy, set, merge, delete | - | who frees what |
| Stop watch chart (`stopwatch.xml`, `StopWatch.java`) | state, elapsed time | watch events, timer task | Swing | little: one thread |
| MINA time server, `HttpPostRequestTester`, `ShutdownSample`, vosao page filter | connection, run state | small handlers | network, JVM shutdown | what the other side does |
| stubs, accessors, the rest of the vendored VLC, scripts | none | - | - | - |

What makes each part correct:

* **server and client together**: one request at a time, answered by the server
  in the state both agree on; the same RTSP state on both sides between
  requests; the timer on exactly when PLAYING; frames shown in order and only
  while PLAYING; a leaving client ends the server.
* **header**: what the receiver decodes identifies the frame.
* **transmitter**: one sending thread, which no exception kills; packets in
  order, with the marker on the last one; stop and disconnect return, and only
  when nothing is sent any more.
* **multicast**: each byte of the file in one packet, each packet as often as
  asked for; a receiver that catches one datagram can tell which piece it has.
* **media list**: both lists name the same media at the same index.
* **JVLC**: each native handle is released exactly once, before what it needs
  and by whoever comes first, the program or the finalizer; callbacks and
  release do not get in each other's way.
* **threads**: each platform's mutex and condition are a mutex and a condition;
  what they protect is counted right, and nobody sleeps beside work to do.
* **data structures**: each is what it is for, a queue, a list, a map, a tape,
  whatever memory it moves; a search misses nothing; a URL is cut where its
  format says; what an object points to is freed once, by its owner.

The hazards, each at its line and with the properties that cover it, are listed
in `PROJECT.json`.

## 2. Modules

| Module | Models |
|---|---|
| `RtspNet` | TCP connection 1 in both directions, the accept backlog, UDP with loss, `javax.swing.Timer` |
| `RtspServer` | `RtspServer.java`: main thread (`main`) and EDT (`sEdt`) |
| `RtspClient` | `RtspClient.java`: the EDT (`cEdt`) |
| `RtspDemo` | both processes, their properties, refinement mappings and the inductive invariant |
| `RtspSession` | abstract: client and server move in lock step |
| `RtspStateChart` | `rtsp-server.xml`; the client implements it |
| `RtpTransmitter` | `RtpTransmitter.java`, API thread and sending threads |
| `Packetizer` | how `loadMetaData` (and `loadData`, the same text) cuts a file |
| `Multicast` | `MulticastSender.java` and any number of `MulticastReceiver.java` |
| `Broadcast` | abstract: numbered datagrams, one at most for each receiver |
| `MCMulticast` | the command lines `Multicast` is checked with |
| `MediaList` | `MediaList.java` and the libvlc list it mirrors |
| `VlcPlayer` | `MediaPlayer.java`'s listeners, `MediaPlayerCallback.java`, libvlc's event thread |
| `VlcHandles` | the handles of `JVLC`, `MediaList`, `MediaListPlayer`, `VLM`, `MediaDescriptor`, `MediaPlayer`: release and finalization |
| `VlcThreads` | `vlc_threads.h`: mutex and condition on POSIX threads, Win32 and BeOS |
| `VlcObject` | producers and consumers that share a VLC object: its lock, its signal, an integer variable |
| `CondVar` | abstract: a mutex and a condition |
| `RtpPacket` | the RTP header codec and a video's trip through it |
| `ByteStream` | `vlc_block_helper.h` and the chains of `vlc_block.h` |
| `ByteFifo` | abstract: a queue of bytes |
| `VlcArray` | the three kinds of array in `vlc_arrays.h`, and the binary search |
| `ItemList` | abstract: a list |
| `Dictionary` | the dictionary of `vlc_arrays.h` |
| `KeyValue` | abstract: a map |
| `BitStream` | `vlc_bits.h` |
| `BitTape` | abstract: a tape of bits with a position |
| `Powers` | the powers of two that shift and mask |
| `Url` | `vlc_UrlParse`, `vlc_UrlClean` |
| `MediaObjects` | the objects of `vlc_input.h`, `vlc_vlm.h`, `vlc_epg.h`, `vlc_meta.h`, and the memory they own |
| `VlcData` | the header, the arrays, the dictionaries and the media objects, with their parameters |
| `VlcStreams` | the byte streams, with their parameters |
| `VlcBits` | the bit streams, with their parameters |
| `VlcUrls` | the URL parser, with its parameters |
| `MCData` | the seven sequential parts, from `RtpPacket` on, in one instance for TLC |
| `RtspDemo_proofs` | type correctness and the inductive invariant of `RtspDemo`, its safety properties and both refinements |
| `Multicast_proofs` | packetisation, the inductive invariant of `Multicast`, its safety properties and refinement |
| `RtpTransmitter_proofs` | the inductive invariant of the transmitter, its safety and action properties |
| `VlcPlayer_proofs` | the inductive invariant of listeners and release |
| `VlcHandles_proofs` | the inductive invariant of handles and reference counts |
| `Lists_proofs` | the two lists of a media list; that the byte stream is a queue, and its search misses nothing; that the bit stream is a tape |
| `VlcObject_proofs` | mutual exclusion, the count, that no signal is lost, and that each platform implements `CondVar` |
| `Data_proofs` | the header codec for every number and payload type, the arrays, the dictionaries, the media objects, the URL parser |

### The player: `RtspNet`, `RtspServer`, `RtspClient`, `RtspDemo`

`main` is the position of the server's main thread. A step runs from one effect
another thread or the client can see to the next: the answer to PAUSE, stopping
the timer, and changing the state are three steps (`pauseReply`, `pauseStop`,
`pauseState`), because the client sees the first, and the EDT the second, before
the others happen. The two reading loops are `setup` and `serve`; `Branch` says
which requests they answer, every other request is read and dropped. The timer's
event is a sequence of steps: `BeginEvent` takes it out of the queue, `NextFrame`
(or `EndOfVideo`) tests the length and counts the frame, `SendFrame` sends it,
`EventDone` leaves the handler; the main thread may stop the timer, change the
state or close the socket between any two. Stopping the timer recalls no handler
that has begun, so that one more frame may be taken after a PAUSE is done with:
`PauseHolds` says that it is one at most, and that the handler is not entered
again.

The client has one thread. `cEdt` is the request whose answer it waits for,
`receive` while it waits for a datagram, or `idle`. Buttons are enabled in
`idle`; Connect, Setup and Teardown have exactly the guards of the code: none,
the state INIT, none. Setup binds the RTP port, which fails, and ends the
client, the second time.

Connect may establish several TCP connections: the server accepts the first one
and closes its listening socket. The model keeps the byte streams of the first
connection; a later one only replaces the client's socket, after which the first
may be closed by the garbage collector (`CollectSocket`). A read at the end of
the stream, or a failing read or write, ends the process, as the code's catch
blocks do. What was sent on a closed connection may be lost or seem to
succeed. The window of either program can be closed, and the client killed, at
any moment.

Frames are their numbers. A datagram is lost when the receive buffer is full, or
for any other reason. A Swing timer has at most one event in the queue, `stop`
cancels it (JDK behaviour with coalescing on, the default). Lines of a request
are abstracted to its type and its CSeq; the session header, which nobody
compares, is left out. `VideoStream` has its file access commented out and
returns the same ten bytes for ever, so the end of the video comes from
`VIDEO_LENGTH` only.

### The abstract session and the chart

`RtspSession` says that the server answers only when the two sides agree, that
the answer takes the session one legal step further, and that the client follows
exactly that step. The mapping (`ServerView`) lets a request take effect with its
answer, which is why it holds although the code answers first and changes
`state` later. `RtspStateChart` is the repository's own state chart; the client's
`state` variable implements it.

### `RtpTransmitter`

Each access to a field the other thread writes is a step, as only the two flags
are volatile and `loadData`'s monitor is taken by nobody else. Where an expression
reads both `packets` and `nextPacketIndex`, each read is a step (`ReadArray` and
`Fetch`, `LastIndex` and `Mark`, `LogArray` and `LogPacket`), and so are the read
and the write of a `++`. The steps take effect in the order of the program:
what the memory model allows beyond that for the fields that are not volatile,
such as a stale or reordered read, is not modelled. A buffer is the load it came
from and its number of packets. `connect` logs every exception and returns: the
buffer is then kept, and there may be no socket (`ConnectFails`), which
`startTransmission` does not ask for. A thread with something to send then dies
of a `NullPointerException` (`SendNowhere`), and a stop waits for ever:
`StopReturnsOrDeath` has to except it. The constant `Policies` says
which callers there are, and `Init` chooses one, the variable `policy`: `wait`
calls nothing before the thread of the last start runs, and loads only between
transmissions; `reload` also loads during one; `hurry` also calls before the
thread runs. With `wait` the transmitter keeps its promises; each of the others
breaks some, so properties that need `wait` say so.

### `Multicast`, `Packetizer`, `Broadcast`

`job` is the command line together with the size of the file it names. `main`
and `init` end in `LoadMetaData`, or in one of the ways to fail (`Usage`,
`LoadFails`, `LoadThrows`). The loop of `send` is `Send` and `NextPacket`, with
the sleep in between; `NoPacket`, `NoAddress` and `SendFails` leave it early. The
payload of a datagram is named by the file offset it starts at. A datagram
reaches any set of the receivers whose socket is bound; a receiver's `received`
is the first one that did, and `Receive` prints as much of it as 128 bytes hold.
That the numbers on the command line parse is taken for granted; what fails then
is the same as for other bad arguments.

`Packetizer` does the arithmetic of `loadMetaData`. The quotient
`dataSize / (1f * packetSizeMax)` is modelled with its two roundings (`Float` of
the size, `RoundsUp` of the quotient), so that a file of 513 * 32768 - 1 bytes
shows what the code does with it: the size becomes 513 * 32768, the quotient
whole, one packet too many is counted, and the copying throws.

### `MediaList`

`items` and `native` are the Java and the libvlc list, changed by each method as
in the code; `clear` is a loop, one removal per step, with its growing index.

### `VlcPlayer`

Two threads: `app` is the program's, inside `addListener` or `release`, one
native call per step; `event` is the callback libvlc's thread runs. A native call
takes the lock of `LibVlc.SYNC_INSTANCE`, which matters in one place: a call that
waits inside libvlc (`detaching`) keeps it. The listener is the one of
`VLCExample`: for some events it asks for the media's MRL, a native call
(`Reading`). Whether `libvlc_event_detach` waits for a running callback is
nowhere said in the repository, so `Init` chooses (`waits`). Each answer has its
price: if it waits, `release` and a listener that reads the MRL block each other
(`Stuck`), which `ReleaseEnds` has to allow; if it does not, a listener can still
run when its player is freed, so that `QuietAfterRelease` is stated for `waits`
only. libvlc delivers nothing to a player that was not started. The program calls
nothing on a player it has released.

### `VlcHandles`

Java's side is which objects exist, which have `released` set, what the program
holds, and the fields that link objects; libvlc's is the count of references to
each media, the items of the list, and which other handles are gone. What libvlc
does with references comes from its headers (`vlc_exec/sdk/include/vlc/libvlc.h`)
and from how the code relies on it: a new media has one reference; a player, a
list and an item returned from a list keep one; the list player keeps its list.
The finalizer runs on its own thread and takes any unreachable object that is not
released. `JVLC.release` is a sequence of four steps, on either thread; the other
thread goes on in between. The program is one thread, gets its VLMs from
`getVLM`, and uses nothing it has released. The `JVLC`, its list, list player and
VLM refer to each other, so that holding one keeps all; `held` names `"jvlc"` for
any of them.

An object of the `JVLC` that its `release`, or `getVLM` replacing a VLM, did not
release would be left to the finalizer, which may come after `libvlc_release`:
that is what `NothingDangles` excludes. The same method that finalizes an object
also releases it, and the flag keeps the second from doing anything
(`HandlesMatch`, `RefsExact`).

### `VlcThreads`, `VlcObject`, `CondVar`

`platform`, chosen by `Init`, is what the header was compiled for. A function of
the header is one step where the platform makes it one, and several where it
does not: on Win32 `SignalObjectAndWait` gives the mutex up and waits in one
step, on BeOS the waiting thread puts itself into the slot (`TakeSlot`), gives
the mutex up (`LeaveMutex`) and is suspended (`Suspend`), and the signalling
thread resumes what it finds in the slot and sleeps until the slot is empty
(`Resume`, `EndSignal`). A timed wait of Win32 is cut into rounds of 0x7fffffff
ms; `rounds` is how many are left, `cut` remembers that there was a second one,
`heard` whether the wait was signalled.

`VlcObject` is a program of producers and consumers over it: `var_IncInteger`
and `var_DecInteger` are a read and a write (`IncRead`, `IncWrite`, `DecRead`,
`DecWrite`) under the object's lock; a producer signals while it holds the lock,
or through `vlc_object_signal`, which takes it again (`LockAgain`); a consumer
waits with a limit or without.

`CondVar` is the promise: waiting gives the mutex up and sleeps in one step, a
signal made with the mutex held ends by waking one sleeper or with none asleep,
nobody wakes otherwise but by a time limit or for no reason. The three
implementations are shown to keep it (`KeepsPromise`).

Taken for granted: `SignalObjectAndWait` is atomic; a thread that waits for an
event is not suspended for a kernel call when `PulseEvent` comes; on BeOS one
thread waits for a condition at a time, as its slot has room for one. The
`UNDER_CE` branch is not modelled: its mutex is a `HANDLE`, which has no
`csection` to lock, so that it does not compile.

### The sequential parts: `RtpPacket` to `MediaObjects`, `MCData`

`RtpPacket` encodes a frame's header as `RTPpacket` does, into bytes that are
signed when they are read, and decodes it with `unsigned_int`.

`ByteStream` keeps `p_chain` (blocks of bytes), `p_block` and `i_offset` as the
code does. The loop the copying functions share is `Walk`. Skipping, peeking or
getting a byte of a stream without blocks dereferences NULL, so it is not done.
`outcome` is what the caller sees. A `pop` of several blocks hands out the last
block, not the first: `ByteFifo` says so. The search for a start code is `Scan`:
a place to look at, and where to go back to after a false positive (`Back`);
`NothingMissed` says that it passes no start code, also when it is called again
after more blocks have come.

`VlcArray` treats the array as memory: `realloc`, `memmove`, cells that hold
`Junk`. Its refinement to `ItemList` fails as soon as an element is moved out of
the memory or not moved at all. `Dictionary` keeps chains in the order the code
builds them, which a rebuild reverses. Callers remove a key before they insert it
again, as all in the headers do: with two entries for a key it would depend on
the number of rebuilds which one is found.

`BitStream` has bytes of `Width` bits. `bs_align_1` writes ones up to the end of
a byte; past the end of the data `bs_write` writes nothing and does not move on,
and the loop never ends: it is not called there.

`Url` takes a URL apart by the code's steps: `Protocol`, `Login`, `Host`,
`Path`. The variable `parts` is what the URL was put together from by the format
the header gives (`GetUrl`), `url` what the parser finds. `PartsFound` compares
them over every choice of the parts. A URL is a sequence of `Tokens`, words and the
characters the parser looks for; `NoPart` is the NULL of a part that is missing.

`MediaObjects` has a heap of blocks and a few objects that point to them.
Fields that are treated alike are one field: texts that are all copied, or all
freed. An object is deleted by its own function, and `OwnedOnce` says that no
block is freed that another object points to, that nothing freed is pointed to,
that nothing but the values of tags is lost, and that a guide's current event is
one of its events. Three things about it come from the code. `vlc_meta_Delete`
clears the dictionary and never frees the values of the tags. `vlc_meta_Merge`
puts the values themselves into the other dictionary, so that afterwards both
hold them, under the same tag: `OwnedOnce` allows for that. Whoever then changes
the tag of either with `vlc_meta_AddExtra` frees what the other points to; the
history variable `replaced` remembers that it happened, and `OwnedOnce` claims
nothing of blocks from then on, while the model goes on with freed blocks being
pointed to, used again and freed twice. And a media's `vod.psz_mux` is copied and
freed only if `b_vod` is set, so whoever makes a media says so before it sets the
mux. Memory does not run out.

## 3. Runs

| Run | Shows | Bounds |
|---|---|---|
| `rtsp` | all safety and action properties, both refinements; requests within a session are answered; the server ends with its client | 2 connections, 2 datagrams buffered, 3 frames, 5 requests |
| `rtsp_replies` | violated: a TEARDOWN before SETUP is never answered | the same with 2 frames |
| `transmitter` | a waiting caller that loads between transmissions: all promises hold; one that replaces the buffer meanwhile: one thread, numbers that grow, a stop that stops unless the thread died; either's thread can die for want of a socket | 2 threads, 2 loads of up to 2 packets, 4 datagrams built |
| `transmitter_stop` | violated: a new buffer kills the thread, and stop waits for ever | the same |
| `multicast` | each byte in one packet, all rounds sent, what kills the sender, what a receiver can tell; the refinement | 22 jobs, 2 receivers, 6 datagrams |
| `medialist` | every operation but an insertion keeps both lists the same; the Java list never names an index libvlc refuses | 3 media, 4 items |
| `medialist_clear` | violated: of two items added, `clear` leaves the second | the same |
| `vlc_player` | listeners attached are detached; no listener on a freed player where detaching waits; release returns, or waits for a callback that waits for it | 2 listeners, every event from `Playing` to `PositionChanged` |
| `vlc_handles` | exact reference counts, each handle released once, none dangling, under every order of release and finalization | 2 descriptors, 1 player, 2 VLMs |
| `threads` | on each platform: no count lost, no signal lost, every item taken; the refinement | 2 producers, 2 consumers (1 on BeOS), 2 items, waits of up to 2 rounds |
| `threads_long` | violated: a Win32 wait that was signalled in its first round returns `ETIMEDOUT` | 1 producer, 1 consumer, the same |
| `data` | which frame numbers arrive wrong; byte stream, arrays, dictionary and bit stream implement what they are for; no start code missed; URLs cut into the parts they were made from; what media objects point to is in use and their own until a value two dictionaries hold is replaced | see below |

The bounds. Two connections are the accepted one and one that is not; a third
behaves like the second. Five requests are SETUP, PLAY, PAUSE, PLAY and one more,
so that a second PLAY and a second PAUSE follow a first; three frames with a
buffer of two reach loss, a backlog over a pause and the end of the video. Two
transmitter threads are what a second start makes; two loads let one replace the
other, and two packets tell the first from the last. The jobs of `multicast` are every kind of
argument error, an empty file, sizes 3 and 4 in packets of 2 and 3 (full and not
full last packets, one packet and two) sent 0, 1 and 3 times, a packet longer
than the receiver's buffer and one longer than a UDP datagram, and a size no
float holds; 6 datagrams are all that the largest of them sends, and two
receivers get the same datagram or different ones. Four items are the fewest
where clear's leaving of every second item leaves more than one; three media let
an insertion put one of them before two others, and let a media occur twice.
Two listeners make release detach one and go on to the next, with a callback of
either in between. Two descriptors can own references to one media, or to two;
one player and its descriptor can be released and finalized in both orders; the
second VLM replaces the first. Two producers signal one after the other while
two consumers sleep; two items let a consumer come back; two rounds are a first
and a last.

In `data` each part runs by itself. The header: the code's own 500 frames. The
stream: bytes 0 and 1, up to four of them in up to three blocks of at most two,
empty ones among them, and the start code 0 0 1, of which a false positive can
begin a true one, within a block or across two. The arrays: up to 16 elements,
past the first growth at 10, the second at 15, and the first shrinking; one of
the two elements occurs once at most. The dictionary: five keys, of which four share a
chain of every array up to the one a rebuild makes, and the fifth does not. The
bit stream: two bytes of three bits, up to five bits at a time, positions up to
one past the end, and numbers to write with every bit set and with every other one.
URLs: protocol or none, three names (one with an `@`, one with a `:` in it,
escaped), a host name and an IPv6 address, port or none, three paths
(one with `:`, one with `@`), option or none. The objects: two, four blocks,
which are a title or a VOD media with its copy, or meta data with a tag merged
into other, and the tag changed then.

Deadlock is checked where the system never stops: in `medialist` and
`medialist_clear`. It is not in the `Rtsp*` configurations (both processes exit),
the transmitter runs (a thread can die, and the caller wait for ever),
`multicast` (sender and receivers end), `vlc_player` (a released player without
callbacks has nothing to do; `Stuck`), `vlc_handles` (everything is released),
the `VlcObject*` configurations (when the last item is taken all consumers may
sleep) and `data` (the video ends).

Fairness. Every thread that can run does: weak fairness of the main thread's
steps, the EDT's, and the timer queue's, one condition per thread. Nothing is
assumed of the user (buttons, closing windows), of the network (datagrams may all
be lost) or of the garbage collector. The transmitter: weak fairness of each
thread and of the caller inside a call, none of the calls themselves. The player:
a thread inside `addListener` or `release` goes on, and a callback returns when
the lock is free; libvlc need not deliver anything. Threads around a VLC object:
weak fairness of each thread's own steps; no time limit has to pass, nobody has
to wake for no reason, and no one is promised the mutex before others.

## 4. Proofs

For every value of the constants, under the assumptions the modules state:
`NetAssumption` (at least one connection, a buffer for at least one datagram),
`VideoAssumption` (the length is a natural number), `SeqNbAssumption` (at least
one request), `PacketAssumption` (payload type in 0..127), `DictionaryAssumption` (hashes are
natural numbers, no value is NULL), `JobsAssumption`
(sizes in the range `Packetizer` models), `NothingAssumption` (`Nothing` is no
datagram), `TransmitterAssumption` (natural bounds, known policies),
`MediaListAssumption` (a natural bound), `StreamAssumption` (natural bounds, a
start code has at least one byte), `BitAssumption` (a byte has at least one bit, what
is written is a natural number), `UrlAssumption` (which characters the parts of a
URL may hold, see below), `ThreadsAssumption` and
`ObjectAssumption` (`NoThread` is none of the threads, finitely many threads, at
least one round, one consumer at most on BeOS).

**The player.**

* `TypeCorrect`: `TypeOK`, which includes that the frame number never passes
  the end of the video.
* `Invariance`: `IInv`, the inductive invariant. None of the safety properties
  is inductive. `StatesAgree` speaks of the moments between two requests and
  needs to know what is in flight otherwise (`Handshake`: quiet, requested,
  answering, or responded). `Handshake` needs what the main thread's position
  says of state and sockets (`ServerProgress`) and that the client waits for a
  request only in the state it was sent in (`ClientProgress`).
  `TimerFollowsState` needs where the timer is off and on between the loops
  (`TimerProgress`). `FramesInOrder` needs the order of the frames in the
  receive buffer and the one in the EDT's hands (`FramesOnTheWay`).
* From it: `RepliesMatch`, `Agreement`, `SessionKept`, `TimerFollows`, and the
  action properties `NewerFrames` and `PauseIsHeld`.
* `Refinement`: the demo implements `RtspSession`; `ChartFollowed`: it
  implements `RtspStateChart`. Initial states map to initial states, and each
  step to a step or a stutter.

**The header.** `WrongBy256`, `NumbersDiffer`, `MarkerTakenBack`: for every
video shorter than 32768 (65536) frames and every payload type, a decoded number
is right or too low by 256, no two frames share one, and the marker bit can be
taken back.

**The transmitter.** Every theorem is about callers that wait until a thread
they started runs (`Patient`: no policy is `hurry`). `IInv` says that a thread
that runs has `isTransmitting` set and is alone (`Flagged`), where the sequence
number stands against what was sent and what is under way (`Numbered`), that
loads are told apart by their number (`Loaded`), and, of callers that also load
between transmissions only, that what the thread has read is what the buffer
holds (`InStep`), where the caller can be (`CallerWaits`), and which packet is due
(`Due`). `One` follows from `Flagged`; `Stops` too, as only a thread clears the
flag, and does it last; `Ordered` needs `Due`, through stops and restarts; `Marker`
and `Survives` need `InStep`, and `Survives` that a thread that dies for want of a
socket, or may, has sent nothing (`Unsent`).

**Multicast.**

* `BytesCovered`: for every file below 2^24 bytes and every packet size, each
  byte is in one packet. The step that matters is `NoRounding`: the quotient of
  two numbers a float holds is not rounded up to the next whole number.
* `Invariance` of its `IInv`: packets of the rounds that are over and of the
  current one add up to the sequence number (`Sent`), which is what makes
  `AllRoundsSent` inductive; `Count` says where the number of packets comes from.
  From it `RoundsComplete`, `Survival`, and `Refinement`: a datagram the code
  sends is one that is still due. `PiecesKnown` needs one more assumption, that
  at most 65536 datagrams are sent: beyond it the 16 bits of the sequence number
  wrap, and unless the number of packets divides 65536 the number no longer names
  the piece.

**The media list.** `WithinNative`: the Java list is never longer than libvlc's
and names no media twice. `MirrorIsKept`: from equal lists every step but an
insertion leads to equal lists. Both rest on `Without`, the sequence that misses
one place, which is written as a function for this.

**The byte stream.** `StreamIsFifo`: `ByteStream` implements `ByteFifo`, and
waiting and peeking tell the truth (`IsFifo`); `NoStartcodeMissed`: a search
passes no start code (`NothingMissed`). Both hold for any bytes, blocks of any
size, empty ones among them, and any start codes. Everything rests on one
predicate, `Placed`: what is still to be read is a sequence, and each block from
`p_block` on begins at a known place of it, the first one before its beginning if
it is read in part. Pushing (`Extended`), flushing (`Dropped`, `FlushedIs`),
popping (`TakenOff`) and reading on (`ReadOn`) then say where the blocks are
afterwards, and the queue's steps follow (`PushQueues`, `PopQueues`, `StepQueues`,
`BytesQueue`).

The copying loop and the search are recursive functions, `Walk` and `Scan`, over
infinitely many places, and not all of their recursion is downwards. `GoingOn`
shows that a function exists that goes on from one place to the next until it is
done, whether or not it ever is, so that both satisfy their equations (`WalkIs`,
`ScanIs`). `Walk` goes through the blocks in order (`WalkReaches`, by
`CountingUp`). `Scan` goes back after a false positive; `InScan` is its loop's
invariant: the bytes up to `match` agree, no start code begins before the place
under examination, and `backup` is that place. A step examines a later place, or
the same with one byte more that agrees, or it moves on to the next block
(`ScanAdvances`). Each of the three is bounded, so the search ends, and with the
truth (`ScanFinds`).

`NothingMissed` alone is not inductive, `ByteStream!IInv` is: it adds that the
place reading goes on at lies in a block. That the property is kept when blocks
come in (`MoreData`) is why it speaks of places where the start code may begin,
and not only of those where it does: a search that stopped behind a beginning cut
in two would satisfy the weaker statement until the next push.

**The JVLC player.** `SubscriptionsMatch` speaks of the moments between calls;
`IInv` adds what is attached in the midst of `addListener` (`Attaching`) and what
is left to detach in the midst of `release` (`Detaching`, with `Left`), that no
callback is twice in the list, and that a running callback is subscribed as long
as detaching waits for it (`CallbackKnown`), from which `Quiet` follows.

**The threads.** `IInv` of `VlcObject` is `TypeOK`, `MutualExclusion` (the
threads inside, and no others, own the mutex), `Places` (where a thread of which
platform can be; what one that counts knows of the variable; whose the slot is)
and `NoCountLost`. From it `CountsAddUp`, `OneInside`, and `PromiseKept`: each
step on each platform is a step of `CondVar` or a stutter. The difficult case is
BeOS, where the signal ends with the slot found empty: that nobody sleeps then
needs `HasSlot`.

`SignalsArrive` is `NoSignalLost`, which counts: sleepers against awake consumers
and signals to come. `SignalInv` adds `Sleepers`, what is known of a thread at
each point of a wait: who is about to put itself into the BeOS slot has seen the
variable at 0 with the mutex held, and nobody goes into another round unless the
wait was cut. Each step then moves at most one thread from one side of the
inequality to the other, which the lemmas on cardinalities turn into sums; that
is where finitely many threads are needed.

**The handles.** The safety properties of `VlcHandles` are one invariant with
three parts of its own: `Links` (what an object points to was created),
`Closes` (how far `JVLC.release` has come, and what is therefore released: the
list before the list player, both before the instance, and no VLM but the
current one after the first step) and `GoneMatch` (a handle is gone exactly when
the flag says so). `RefsExact` is a sum of two cardinalities; a step adds or takes
one element of one of the sets, and that a player's media outlives it is `Links`
with `RefsExact`. `CountsExact`, `NoDangling` and `Matched` follow, for any
finite sets of descriptors, players and VLMs.

**The arrays.** `ArrayIsList`: `VlcArray` implements `ItemList`, for arrays of
every kind and size, if the elements are integers. The invariant is that the
elements lie within the memory and that none of them is junk; from it `InsertCells`
and `RemoveCells` say what `realloc` and `memmove` leave in each cell, and
`Inserted` and `Removed` that this is the list's insertion and removal. `BSEARCH`
is recursive: a recursive function is the one that satisfies its equation, if
there is one. `SearchUpTo` shows that there is, `SearchFinds` that it finds the
key of a sorted range or says -1; both take a range of least size for which this
fails (`Least`) and halve it.

**The dictionaries.** `DictionaryIsMap`: `Dictionary` implements `KeyValue`, and
the keys it lists are those with a value, each once, for any keys, values and
hashes (`DictionaryAssumption`: a hash is a natural number, and no value is the
NULL that stands for none). The invariant `Dictionary!IInv` puts every entry into
the chain its hash says, and no key into a chain twice. The argument is about what
a dictionary `Has`: an entry in front of its chain adds just that entry
(`InFrontAdds`), removing a key drops just its entry (`RemovedDrops`), and a
rebuild keeps all and adds none (`RebuiltKeeps`), as the entries it walks through
are those of all chains, each once (`EntriesList`). What a key is looked up to
follows from what the dictionary has (`LookUpFinds`). Both `FlattenSeq` and
`Rebuilt` are recursive. `CountingUp` is the induction over an interval, with a set
in place of the formula; `Recursion` gets from it that a function defined by
counting up exists, with a function in place of the step.

**The media objects.** `Ownership`: `OwnedOnce` for any number of objects and of
blocks, if `Null` is neither a block nor an object (`NullApart`). The inductive
invariant says it without counting: as long as no value that two dictionaries
hold was replaced, no two fields own a block unless both are the same tag
(`Exclusive`), what is owned is in use, and is a tag's if a tag owns it (`InUse`),
what is in use and no tag's is owned (`Accounted`). Always, a media that is no VOD
has no mux (`Muxes`), as its deletion would not free one; and a current event is
one of the guide's (`Currents`). Every handler changes one object, frees some of
what it owned and gives it new blocks, and the values of tags it did not own
before are another's under the same tag (`Becomes`); `OneObject` shows of all such
steps that they keep the invariant, for whatever blocks go from one object to
another as well (`Moves`, `Transfer`). What `vlc_meta_AddExtra` frees may be
another's; then `replaced` becomes true, and otherwise it is not `Shared`
(`AddExtraKeeps`).

**The bit stream.** `TapeOfBits`: `BitStream` implements `BitTape` (`IsTape`),
for bytes of any width and any number of them, any counts and any numbers, also
numbers longer than what is written of them. The invariant is its `TypeOK`
(`BytesStayBytes`). The powers of two are a recursive function, `Pow2`, as the
provers know nothing of exponents that are not given; that it is defined, and what
it is of a sum, are `PowersOfTwo` and `PowersMultiply`. On division they know that
quotient and remainder exist; `Quotient` says that there are no others, and from it
come shifting twice (`DivDiv`), masking one bit more (`OneBitMore`), and that a bit
put into a byte leaves its other bits alone (`OneBitPut`).

`TapeBits` says which bit of which byte a place of the tape is. `BitsInARow`: what a
byte gives under the mask is what its bits add to the number when they are read one by
one; `ZerosInARow` is the same past the end. `InRead` is the invariant of the loop
that reads: the bits behind, shifted by the count of those still wanted, are the
result so far. `InWrite` is the one of the loop that writes, and
`BitWritten` its step. Both loops, and that of `bs_skip`, are recursive functions
over infinitely many places; `GoingOn` gives their equations (`ReadingIs`,
`WritingIs`, `SkippingIs`), and `CountingOn`, the induction over the natural numbers
with a set in place of the formula, that they end (`ReadingFinds`, `WritingHolds`,
`SkippingEnds`).

**The URLs.** `UrlsAreCut`: `PartsFound` for any vocabulary, and parts of any
length. `UrlAssumption` says what the parts may hold, which is what the parser can
tell apart: a protocol no separators and nothing escaped; a name no slash, as
`HasLogin` takes the first one for the end of the host, and nothing that looks
escaped already; a host neither slash nor `@`, and a colon only within the brackets
of an IPv6 address; a path begins with a slash and has no option's mark. Names may
be empty. `Cut` is about a
sequence with a token before which it does not occur: `strchr` finds it, and before
and behind it is what was put there. Each step of the parser is shown to take its
part off the front of what the rest is made of (`AfterProtocol`, `AfterLogin`,
`AfterHost`, `AfterPath`), also when the part is missing: then the separator it looks
for is either not there, or behind the slash of the path. `EscapedBack`: decoding
undoes escaping, and what is escaped holds no `:` and no `@`.

Only proved, with no run of their own: type invariants, the inductive invariants,
`NoDeath`, `MutualExclusion`, and that no two frames share a decoded number.

Only model-checked: liveness under fairness, which is out of the prover's reach
(`SessionRequestsAnswered`, `ServerEndsWithClient`, `StopReturnsOrDeath`,
`ReleaseEnds`, `ItemsTaken`). Every invariant and every other property of a passing
run that a theorem can state is proved.

## 5. Disagreements between code and documentation

Four have a run that shows them and the line they contradict: see "findings"
in `PROJECT.json`. In short: a TEARDOWN before SETUP is not answered; a new
buffer during a transmission can leave `stopTransmission` waiting for ever;
`MediaList.clear` leaves every second item, also where nothing was inserted; a long Win32 wait forgets that it was
signalled.

Others have no run of their own:

* The RTP socket has no timeout, although `RtspClient.java:189` says it has one
  of 5 ms: `receive` waits for as long as no frame comes. `ReceiveReturns` in
  `RtspDemo` is the promise; it does not hold.
* Two quick starts of the transmitter make two threads, as the new one sets
  `isTransmitting` only when it runs, and one stop then does not stop: with
  `Policies = {"hurry"}`, `OneTransmitter` and `StopMeansStopped` fail.
* With a buffer replaced during a transmission the marker can land on a packet
  that is not the last, and a packet be skipped: `MarkerOnLast` and `InOrder`
  except that.
* The number of frame 128 arrives as -128, as bytes are decoded as signed;
  `OffBy256` says exactly which numbers are wrong.
* `insertMediaDescriptor` does not enter the media into `items`, whose positions
  `removeMedia` uses as libvlc's, so that another media can go than the one
  named: `MirrorKept` has to except insertions.
* `connect` swallows the exception of a socket that cannot be made; the sending
  thread then dies of the first packet, and a stop waits for ever:
  `StopReturnsOrDeath` has to except it.
* `vlc_meta_Merge` makes two dictionaries share values, and `vlc_meta_AddExtra`
  on either then frees what the other points to, see `MediaObjects`: `OwnedOnce`
  holds until then.
* A frame may be taken after a PAUSE is done with, when the timer's handler had
  begun: `PauseHolds` allows for it.

And read, in code that is not modelled: `vlc_UrlIsNotEncoded` (`vlc_url.h:210`)
calls a string not encoded as soon as it meets a letter, a digit or one of
`- _ .`, the opposite of its comment; `vlc_seekpoint_Duplicate` does not copy
`i_level`; `vlc_threadvar_set` on Win32 returns `EINVAL` when `TlsSetValue`
succeeds and 0 when it fails.

## 6. Not modelled

* `MediaListPlayer`'s waiting loops: they end when libvlc plays, which nothing
  in the repository decides.
* The stop watch: its chart, its buttons and its timer all run in the event
  dispatch thread, one after the other.
* The HTTP tool, the MINA handler, the shutdown sample, the Vosao plugin and
  filter: what they do depends on a server, a container or the JVM; none of them
  keeps state between two calls that could be left wrong.
* Stubs (`com.anhquan.demo.rtsp`'s client and its states), the unused
  `RtspPacket.java`, accessors that are a native call or two each (the deprecated
  `Playlist` among them, which only adds a lock), shell scripts.
* The rest of the VLC SDK. Of its headers, some 14,900 lines, the most are
  declarations, constants and comments of a library whose source is not in the
  repository; about 2,200 lines are bodies of functions, and the macros of
  `vlc_arrays.h` come to that. The modules here translate about 1,800 lines: all
  of the containers, the condition variables, the URL parser and the media
  objects. What is left are functions of one call (`var_Get*`, `var_Set*`,
  `stats_*`, `stream_*`, `es_out_*`, control functions that forward their
  arguments), tables of texts, byte-order conversions, and the thread-local
  variables and spin locks, which are one system call each.
* Wording and layout of messages, the GUI beyond its handlers, time stamps and
  flags of blocks, and payload bytes.
