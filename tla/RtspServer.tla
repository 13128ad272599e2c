---------------------------- MODULE RtspServer ----------------------------
(***************************************************************************)
(* rtsp-demo/.../RtspServer.java.  Two threads share the server object:    *)
(* the main thread, which accepts one client and answers its requests, and *)
(* the event dispatch thread (EDT), which runs the frame timer's handler.  *)
(* `main` and `sEdt` say where each of them is; a step of either goes from *)
(* one effect visible to the other thread or to the client to the next.    *)
(***************************************************************************)
EXTENDS RtspNet

CONSTANT VideoLength    \* VIDEO_LENGTH, frames in the video

ASSUME VideoAssumption == VideoLength \in Nat

VARIABLES
    main,       \* the main thread
    sEdt,       \* the event dispatch thread
    sState,     \* state
    sSeqNb,     \* RTSPSeqNb, from the last request parsed
    sTimer,     \* timer
    imagenb,    \* number of the frame transmitted last
    sRtp        \* RTPsocket

serverVars == <<main, sEdt, sState, sSeqNb, sTimer, imagenb, sRtp>>

(* "setup" and "serve" are the two reading loops.                          *)
MainLabels == {"start", "accept", "unlisten", "setup", "setupReply", "openRtp",
               "serve", "playReply", "playStart", "playState",
               "pauseReply", "pauseStop", "pauseState",
               "tearReply", "tearStop", "tearClose", "exit"}

ServerTypeOK ==
    /\ main \in MainLabels
    /\ sEdt \in {"idle", "event", "frame", "done"}
    /\ sState \in RtspState
    /\ sSeqNb \in Nat
    /\ sTimer \in SwingTimer
    /\ imagenb \in 0..VideoLength
    /\ sRtp \in {"none", "open", "closed"}

ServerInit ==
    /\ main = "start"
    /\ sEdt = "idle"
    /\ sState = "NULL"
    /\ sSeqNb = 0
    /\ sTimer = NewTimer
    /\ imagenb = 0
    /\ sRtp = "none"

(* System.exit(0), from either thread.                                     *)
ServerExit ==
    /\ serverUp' = FALSE
    /\ UNCHANGED <<clientUp, listen, serverEnd, conns, dropped, requests, responses, rtp, serverVars>>

Main(from, to) == serverUp /\ main = from /\ main' = to

---------------------------------------------------------------------------
(* The main thread up to the first request.                                *)

Bind ==
    /\ Main("start", "accept")
    /\ listen' = "open"
    /\ UNCHANGED <<serverUp, clientUp, serverEnd, conns, dropped, requests, responses, rtp>>
    /\ UNCHANGED <<sEdt, sState, sSeqNb, sTimer, imagenb, sRtp>>

Accept ==
    /\ Main("accept", "unlisten")
    /\ conns > 0
    /\ serverEnd' = "open"
    /\ UNCHANGED <<serverUp, clientUp, listen, conns, dropped, requests, responses, rtp>>
    /\ UNCHANGED <<sEdt, sState, sSeqNb, sTimer, imagenb, sRtp>>

(* Mutant: the listening socket stays open.                                *)
CloseListenMutant ==
    /\ Main("unlisten", "setup")
    /\ sState' = "INIT"
    /\ UNCHANGED <<netVars, sEdt, sSeqNb, sTimer, imagenb, sRtp>>

CloseListen ==
    /\ Main("unlisten", "setup")
    /\ listen' = "closed"
    /\ sState' = "INIT"
    /\ UNCHANGED <<serverUp, clientUp, serverEnd, conns, dropped, requests, responses, rtp>>
    /\ UNCHANGED <<sEdt, sSeqNb, sTimer, imagenb, sRtp>>

---------------------------------------------------------------------------
(* Reading requests.  A request the current state has no branch for is     *)
(* consumed and not answered.                                              *)

(* Mutant: PAUSE tests for the state PLAY tests for.                       *)
BranchMutant(type) ==
    IF main = "setup"
    THEN IF type = "SETUP" THEN "setupReply" ELSE "setup"
    ELSE CASE type = "PLAY" /\ sState = "READY"  -> "playReply"
           [] type = "PAUSE" /\ sState = "READY" -> "pauseReply"
           [] type = "TEARDOWN"                  -> "tearReply"
           [] OTHER                              -> "serve"

Branch(type) ==
    IF main = "setup"
    THEN IF type = "SETUP" THEN "setupReply" ELSE "setup"
    ELSE CASE type = "PLAY" /\ sState = "READY"    -> "playReply"
           [] type = "PAUSE" /\ sState = "PLAYING" -> "pauseReply"
           [] type = "TEARDOWN"                    -> "tearReply"
           [] OTHER                                -> "serve"

(* Mutant: the CSeq line is parsed for SETUP only.                         *)
ReadRequestMutant ==
    /\ serverUp /\ main \in {"setup", "serve"}
    /\ requests # << >>
    /\ requests' = Tail(requests)
    /\ main' = Branch(Head(requests).type)
    /\ sSeqNb' = IF main' = "setupReply" THEN Head(requests).cseq ELSE sSeqNb
    /\ sState' = IF main' = "setupReply" THEN "READY" ELSE sState
    /\ UNCHANGED <<serverUp, clientUp, listen, serverEnd, conns, dropped, responses, rtp>>
    /\ UNCHANGED <<sEdt, sTimer, imagenb, sRtp>>

ReadRequest ==
    /\ serverUp /\ main \in {"setup", "serve"}
    /\ requests # << >>
    /\ requests' = Tail(requests)
    /\ sSeqNb' = Head(requests).cseq
    /\ main' = Branch(Head(requests).type)
    /\ sState' = IF main' = "setupReply" THEN "READY" ELSE sState
    /\ UNCHANGED <<serverUp, clientUp, listen, serverEnd, conns, dropped, responses, rtp>>
    /\ UNCHANGED <<sEdt, sTimer, imagenb, sRtp>>

(* Mutant: the end of the stream is noticed in the second loop only.       *)
ReadEndOfStreamMutant ==
    /\ serverUp /\ main = "serve"
    /\ ClientEndClosed
    /\ ServerExit

(* readLine returns null, or throws after a reset that may discard what    *)
(* was not read yet; either way parse_RTSP_request ends the process.       *)
ReadEndOfStream ==
    /\ serverUp /\ main \in {"setup", "serve"}
    /\ ClientEndClosed
    /\ ServerExit

---------------------------------------------------------------------------
(* Answering them.                                                         *)

SendResponse ==
    /\ IF ClientEndClosed THEN UNCHANGED responses
       ELSE responses' = Append(responses, [cseq |-> sSeqNb])
    /\ UNCHANGED <<serverUp, clientUp, listen, serverEnd, conns, dropped, requests, rtp>>
    /\ UNCHANGED <<sEdt, sState, sSeqNb, sTimer, imagenb, sRtp>>

SetupReply == Main("setupReply", "openRtp") /\ SendResponse
PlayReply  == Main("playReply", "playStart") /\ SendResponse
PauseReply == Main("pauseReply", "pauseStop") /\ SendResponse
TearReply  == Main("tearReply", "tearStop") /\ SendResponse

(* The write fails: the client's end is gone.                              *)
ReplyFails ==
    /\ serverUp /\ main \in {"setupReply", "playReply", "pauseReply", "tearReply"}
    /\ ClientEndClosed
    /\ ServerExit

OpenRtp ==
    /\ Main("openRtp", "serve")
    /\ sRtp' = "open"
    /\ UNCHANGED <<netVars, sEdt, sState, sSeqNb, sTimer, imagenb>>

(* Mutant: PLAY starts the video over.                                     *)
StartTimerMutant ==
    /\ Main("playStart", "playState")
    /\ sTimer' = Started(sTimer)
    /\ imagenb' = 0
    /\ UNCHANGED <<netVars, sEdt, sState, sSeqNb, sRtp>>

StartTimer ==
    /\ Main("playStart", "playState")
    /\ sTimer' = Started(sTimer)
    /\ UNCHANGED <<netVars, sEdt, sState, sSeqNb, imagenb, sRtp>>

StopTimer(from, to) ==
    /\ Main(from, to)
    /\ sTimer' = Stopped(sTimer)
    /\ UNCHANGED <<netVars, sEdt, sState, sSeqNb, imagenb, sRtp>>

(* Mutant: PAUSE leaves the timer running.                                 *)
PauseStopMutant ==
    /\ Main("pauseStop", "pauseState")
    /\ UNCHANGED <<netVars, sEdt, sState, sSeqNb, sTimer, imagenb, sRtp>>

PauseStop == StopTimer("pauseStop", "pauseState")
TearStop  == StopTimer("tearStop", "tearClose")

UpdateState(from, new) ==
    /\ Main(from, "serve")
    /\ sState' = new
    /\ UNCHANGED <<netVars, sEdt, sSeqNb, sTimer, imagenb, sRtp>>

PlayState  == UpdateState("playState", "PLAYING")
PauseState == UpdateState("pauseState", "READY")

(* RTSPsocket.close and RTPsocket.close.                                   *)
CloseSockets ==
    /\ Main("tearClose", "exit")
    /\ serverEnd' = "closed" /\ sRtp' = "closed"
    /\ UNCHANGED <<serverUp, clientUp, listen, conns, dropped, requests, responses, rtp>>
    /\ UNCHANGED <<sEdt, sState, sSeqNb, sTimer, imagenb>>

TearExit == serverUp /\ main = "exit" /\ ServerExit

MainStep ==
    \/ Bind \/ Accept \/ CloseListen
    \/ ReadRequest \/ ReadEndOfStream
    \/ SetupReply \/ OpenRtp
    \/ PlayReply \/ StartTimer \/ PlayState
    \/ PauseReply \/ PauseStop \/ PauseState
    \/ TearReply \/ TearStop \/ CloseSockets \/ TearExit
    \/ ReplyFails

---------------------------------------------------------------------------
(* The timer queue's thread and the event dispatch thread.                 *)

ServerTick ==
    /\ serverUp /\ sTimer.running /\ ~sTimer.pending
    /\ sTimer' = Due(sTimer)
    /\ UNCHANGED <<netVars, main, sEdt, sState, sSeqNb, imagenb, sRtp>>

(* The timer's event is dispatched and still wanted: actionPerformed is    *)
(* called.  A stop of the main thread from here on comes too late for it.  *)
BeginEvent ==
    /\ serverUp /\ sEdt = "idle" /\ sTimer.pending
    /\ sEdt' = "event"
    /\ UNCHANGED <<netVars, main, sState, sSeqNb, sTimer, imagenb, sRtp>>

(* actionPerformed, until the datagram is sent.                            *)
NextFrame ==
    /\ serverUp /\ sEdt = "event"
    /\ imagenb < VideoLength
    /\ imagenb' = imagenb + 1
    /\ sEdt' = "frame"
    /\ UNCHANGED <<netVars, main, sState, sSeqNb, sTimer, sRtp>>

(* The end of the video: the handler stops its own timer.                  *)
EndOfVideo ==
    /\ serverUp /\ sEdt = "event"
    /\ imagenb = VideoLength
    /\ sTimer' = Stopped(sTimer)
    /\ sEdt' = "done"
    /\ UNCHANGED <<netVars, main, sState, sSeqNb, imagenb, sRtp>>

SendFrame ==
    /\ serverUp /\ sEdt = "frame" /\ sRtp = "open"
    /\ Datagram(imagenb)
    /\ sEdt' = "done"
    /\ UNCHANGED <<serverUp, clientUp, listen, serverEnd, conns, dropped, requests, responses>>
    /\ UNCHANGED <<main, sState, sSeqNb, sTimer, imagenb, sRtp>>

(* No socket, or one the main thread has closed: the handler exits.        *)
SendFails ==
    /\ serverUp /\ sEdt = "frame" /\ sRtp # "open"
    /\ ServerExit

(* The handler returns: a coalescing timer forgets its event, a later one  *)
(* that came meanwhile included.                                           *)
EventDone ==
    /\ serverUp /\ sEdt = "done"
    /\ sTimer' = Handled(sTimer)
    /\ sEdt' = "idle"
    /\ UNCHANGED <<netVars, main, sState, sSeqNb, imagenb, sRtp>>

EdtStep == BeginEvent \/ NextFrame \/ EndOfVideo \/ SendFrame \/ SendFails \/ EventDone

ServerWindowClosing == serverUp /\ sEdt = "idle" /\ ServerExit

---------------------------------------------------------------------------
ServerNext == MainStep \/ ServerTick \/ EdtStep \/ ServerWindowClosing

(* The scheduler runs both threads; nothing makes the user close a window. *)
ServerFairness ==
    /\ WF_<<netVars, serverVars>>(MainStep)
    /\ WF_<<netVars, serverVars>>(ServerTick)
    /\ WF_<<netVars, serverVars>>(EdtStep)
===========================================================================
