---------------------------- MODULE RtspClient ----------------------------
(***************************************************************************)
(* rtsp-demo/.../RtspClient.java.  Everything runs on one event dispatch   *)
(* thread (EDT): the button handlers, which block it in readLine until the *)
(* response arrives, and the timer's handler, which blocks it in receive   *)
(* until a datagram arrives.  `cEdt` is "idle", "receive", or the request  *)
(* whose response the EDT waits for.                                       *)
(***************************************************************************)
EXTENDS RtspNet

CONSTANT MaxSeqNb       \* bound: requests the user sends in a session

ASSUME SeqNbAssumption == MaxSeqNb \in Nat \ {0}

VARIABLES
    cEdt,       \* the event dispatch thread
    cState,     \* state
    cSeqNb,     \* RTSPSeqNb
    cTimer,     \* timer
    cRtp,       \* RTPsocket is bound to RTP_RCV_PORT
    shown       \* number of the frame displayed last

clientVars == <<cEdt, cState, cSeqNb, cTimer, cRtp, shown>>

ClientTypeOK ==
    /\ cEdt \in {"idle", "receive"} \cup RtspRequest
    /\ cState \in RtspState
    /\ cSeqNb \in 0..MaxSeqNb
    /\ cTimer \in SwingTimer
    /\ cRtp \in BOOLEAN
    /\ shown \in Nat

ClientInit ==
    /\ cEdt = "idle"
    /\ cState = "NULL"
    /\ cSeqNb = 0
    /\ cTimer = NewTimer
    /\ cRtp = FALSE
    /\ shown = 0

(* System.exit(0).                                                         *)
ClientExit ==
    /\ clientUp' = FALSE
    /\ UNCHANGED <<serverUp, listen, serverEnd, conns, dropped, requests, responses, rtp>>
    /\ UNCHANGED clientVars

Idle == clientUp /\ cEdt = "idle"

---------------------------------------------------------------------------
(* Buttons.                                                                *)

(* connect(): no guard on the state.  A refused connection changes         *)
(* nothing; the old socket is replaced without being closed.               *)
Connect ==
    /\ Idle
    /\ serverUp /\ listen = "open"
    /\ conns < MaxConnects
    /\ conns' = conns + 1
    /\ cState' = "INIT"
    /\ UNCHANGED <<serverUp, clientUp, listen, serverEnd, dropped, requests, responses, rtp>>
    /\ UNCHANGED <<cEdt, cSeqNb, cTimer, cRtp, shown>>

(* send_RTSP_request, after which the handler waits for the response.  The *)
(* server only ever reads what is sent on connection 1; a write to a       *)
(* closed connection may go unnoticed.                                     *)
SendRequest(type) ==
    /\ conns > 0
    /\ requests' = IF NeverAccepted \/ ServerEndClosed THEN requests
                   ELSE Append(requests, [type |-> type, cseq |-> cSeqNb'])
    /\ cEdt' = type
    /\ UNCHANGED <<serverUp, clientUp, listen, serverEnd, conns, dropped, responses, rtp>>
    /\ UNCHANGED <<cState, cTimer, shown>>

(* RTP_RCV_PORT can be bound once only; a second bind ends the process.    *)
Setup ==
    /\ Idle /\ cState = "INIT"
    /\ IF cRtp THEN ClientExit
       ELSE /\ cRtp' = TRUE
            /\ cSeqNb' = 1
            /\ SendRequest("SETUP")

NextRequest(type) ==
    /\ Idle
    /\ cSeqNb < MaxSeqNb
    /\ cSeqNb' = cSeqNb + 1
    /\ UNCHANGED cRtp
    /\ SendRequest(type)

(* Mutant: the state changes when the request is sent.                     *)
PlayMutant ==
    /\ Idle /\ cState = "READY" /\ cSeqNb < MaxSeqNb
    /\ requests' = IF ServerEndClosed THEN requests
                   ELSE Append(requests, [type |-> "PLAY", cseq |-> cSeqNb + 1])
    /\ cSeqNb' = cSeqNb + 1 /\ cState' = "PLAYING" /\ cEdt' = "PLAY"
    /\ UNCHANGED <<serverUp, clientUp, listen, serverEnd, conns, dropped, responses, rtp>>
    /\ UNCHANGED <<cTimer, cRtp, shown>>

Play     == cState = "READY" /\ NextRequest("PLAY")
Pause    == cState = "PLAYING" /\ NextRequest("PAUSE")
Teardown == NextRequest("TEARDOWN")             \* no guard on the state

(* The write fails, or there is no writer yet: send_RTSP_request exits.    *)
RequestFails ==
    /\ Idle
    /\ conns = 0 \/ ServerEndClosed
    /\ ClientExit

Buttons == Connect \/ Setup \/ Play \/ Pause \/ Teardown \/ RequestFails

---------------------------------------------------------------------------
(* parse_server_response and what each handler does with a 200.            *)

Receives(type) ==
    /\ clientUp /\ cEdt = type
    /\ conns = 1 /\ responses # << >>
    /\ responses' = Tail(responses)
    /\ cEdt' = "idle"
    /\ UNCHANGED <<serverUp, listen, serverEnd, conns, dropped, requests, rtp>>
    /\ UNCHANGED <<cSeqNb, cRtp, shown>>

(* Mutant: SETUP's handler takes PLAY's state.                             *)
SetupDoneMutant ==
    /\ Receives("SETUP")
    /\ cState' = "PLAYING"
    /\ UNCHANGED <<clientUp, cTimer>>

SetupDone ==
    /\ Receives("SETUP")
    /\ cState' = "READY"
    /\ UNCHANGED <<clientUp, cTimer>>

PlayDone ==
    /\ Receives("PLAY")
    /\ cState' = "PLAYING"
    /\ cTimer' = Started(cTimer)
    /\ UNCHANGED clientUp

(* Mutant: PAUSE leaves the state alone.                                   *)
PauseStateMutant ==
    /\ Receives("PAUSE")
    /\ cTimer' = Stopped(cTimer)
    /\ UNCHANGED <<clientUp, cState>>

PauseDone ==
    /\ Receives("PAUSE")
    /\ cState' = "READY"
    /\ cTimer' = Stopped(cTimer)
    /\ UNCHANGED clientUp

TeardownDone ==
    /\ Receives("TEARDOWN")
    /\ cState' = "INIT"
    /\ cTimer' = Stopped(cTimer)
    /\ clientUp' = FALSE

(* End of stream, or a reset: parse_server_response exits.                 *)
ResponseFails ==
    /\ clientUp /\ cEdt \in RtspRequest
    /\ NeverAccepted \/ responses = << >>
    /\ ServerEndClosed
    /\ ClientExit

ResponseStep == SetupDone \/ PlayDone \/ PauseDone \/ TeardownDone \/ ResponseFails

---------------------------------------------------------------------------
(* The frame timer.                                                        *)

ClientTick ==
    /\ clientUp /\ cTimer.running /\ ~cTimer.pending
    /\ cTimer' = Due(cTimer)
    /\ UNCHANGED <<netVars, cEdt, cState, cSeqNb, cRtp, shown>>

(* timerListener: RTPsocket has no timeout, receive blocks the EDT.        *)
BeginReceive ==
    /\ Idle /\ cTimer.pending
    /\ cEdt' = "receive"
    /\ UNCHANGED <<netVars, cState, cSeqNb, cTimer, cRtp, shown>>

ShowFrame ==
    /\ clientUp /\ cEdt = "receive"
    /\ rtp # << >>
    /\ rtp' = Tail(rtp)
    /\ shown' = Head(rtp)
    /\ cEdt' = "idle"
    /\ cTimer' = Handled(cTimer)
    /\ UNCHANGED <<serverUp, clientUp, listen, serverEnd, conns, dropped, requests, responses>>
    /\ UNCHANGED <<cState, cSeqNb, cRtp>>

FrameStep == BeginReceive \/ ShowFrame

---------------------------------------------------------------------------
(* The window is closed, or the process killed: no TEARDOWN is sent.       *)
ClientWindowClosing == Idle /\ ClientExit
ClientKilled        == clientUp /\ cEdt # "idle" /\ ClientExit

ClientNext ==
    \/ Buttons \/ ResponseStep \/ ClientTick \/ FrameStep
    \/ ClientWindowClosing \/ ClientKilled
    \/ CollectSocket /\ UNCHANGED clientVars

(* The EDT handles what arrives; nobody has to press a button.             *)
ClientFairness ==
    /\ WF_<<netVars, clientVars>>(ResponseStep)
    /\ WF_<<netVars, clientVars>>(ClientTick)
    /\ WF_<<netVars, clientVars>>(FrameStep)
===========================================================================
