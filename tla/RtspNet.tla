------------------------------ MODULE RtspNet ------------------------------
(***************************************************************************)
(* What RtspClient and RtspServer share: the loopback sockets between the  *)
(* two processes and the Swing timer each of them owns.  Everything here   *)
(* is the JDK and the kernel as the two programs use them.                 *)
(*                                                                         *)
(* TCP.  The server accepts one connection and closes its listening        *)
(* socket.  The client may establish several (Connect has no guard); the   *)
(* accepted one is connection 1, the client's RTSPsocket is the last one.  *)
(* Only the byte streams of connection 1 are ever read by both ends.       *)
(*                                                                         *)
(* UDP.  Loopback keeps datagrams in order; one is lost when the receive   *)
(* buffer is full, or for any other reason.                                *)
(***************************************************************************)
EXTENDS Integers, Sequences

CONSTANTS
    MaxConnects,    \* bound: TCP connections the client establishes
    UdpCapacity     \* datagrams the client's receive buffer holds

ASSUME NetAssumption == MaxConnects \in Nat \ {0} /\ UdpCapacity \in Nat \ {0}

VARIABLES
    serverUp,       \* the server process has not exited
    clientUp,       \* the client process has not exited
    listen,         \* the server's listening socket
    serverEnd,      \* the server's RTSPsocket, its end of connection 1
    conns,          \* connections the client established so far
    dropped,        \* the client's end of connection 1, replaced by a later
                    \* connection, has been closed by the garbage collector
    requests,       \* connection 1, client to server
    responses,      \* connection 1, server to client
    rtp             \* the client's UDP receive buffer: frame numbers

netVars == <<serverUp, clientUp, listen, serverEnd, conns, dropped, requests, responses, rtp>>

RtspRequest == {"SETUP", "PLAY", "PAUSE", "TEARDOWN"}
RtspState   == {"NULL", "INIT", "READY", "PLAYING"}   \* NULL: not assigned yet

(* The client's end of connection 1 is closed: the server reads end of     *)
(* stream, and a write may fail or vanish.                                 *)
ClientEndClosed == ~clientUp \/ dropped

(* A connection beyond the first is never accepted; the kernel resets it   *)
(* when the listening socket is closed.                                    *)
NeverAccepted == conns > 1

(* What the client's current connection leads to is gone.                  *)
ServerEndClosed ==
    \/ ~serverUp
    \/ serverEnd = "closed"
    \/ NeverAccepted /\ listen = "closed"

(* A datagram arrives, or is lost.                                         *)
Datagram(d) ==
    \/ clientUp /\ Len(rtp) < UdpCapacity /\ rtp' = Append(rtp, d)
    \/ UNCHANGED rtp

---------------------------------------------------------------------------
(* javax.swing.Timer with coalescing: at most one event of a timer waits   *)
(* for the event dispatch thread, and stop() cancels it.                   *)

SwingTimer == [running : BOOLEAN, pending : BOOLEAN]
NewTimer   == [running |-> FALSE, pending |-> FALSE]
Started(t) == [t EXCEPT !.running = TRUE]
Stopped(t) == [running |-> FALSE, pending |-> FALSE]
Due(t)     == [t EXCEPT !.pending = TRUE]
Handled(t) == [running |-> t.running, pending |-> FALSE]

---------------------------------------------------------------------------
Requests  == [type : RtspRequest, cseq : Nat]
Responses == [cseq : Nat]

NetTypeOK ==
    /\ serverUp \in BOOLEAN /\ clientUp \in BOOLEAN
    /\ listen \in {"unbound", "open", "closed"}
    /\ serverEnd \in {"none", "open", "closed"}
    /\ conns \in 0..MaxConnects
    /\ dropped \in BOOLEAN
    /\ requests \in Seq(Requests)
    /\ responses \in Seq(Responses)
    /\ rtp \in Seq(Nat)

NetInit ==
    /\ serverUp = TRUE /\ clientUp = TRUE
    /\ listen = "unbound" /\ serverEnd = "none"
    /\ conns = 0
    /\ dropped = FALSE
    /\ requests = << >> /\ responses = << >> /\ rtp = << >>

(* The Socket of connection 1, no longer referenced by the client, is      *)
(* finalized: its descriptor is closed.                                    *)
CollectSocket ==
    /\ clientUp /\ NeverAccepted /\ ~dropped
    /\ dropped' = TRUE
    /\ UNCHANGED <<serverUp, clientUp, listen, serverEnd, conns, requests, responses, rtp>>
===========================================================================
