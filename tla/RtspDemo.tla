----------------------------- MODULE RtspDemo -----------------------------
(***************************************************************************)
(* The rtsp-demo player: one RtspServer and one RtspClient process joined  *)
(* by the sockets of RtspNet.                                              *)
(***************************************************************************)
EXTENDS RtspServer, RtspClient

vars == <<netVars, serverVars, clientVars>>

Init == NetInit /\ ServerInit /\ ClientInit

Next ==
    \/ ServerNext /\ UNCHANGED clientVars
    \/ ClientNext /\ UNCHANGED serverVars

Fairness == ServerFairness /\ ClientFairness

Spec == Init /\ [][Next]_vars /\ Fairness

TypeOK == NetTypeOK /\ ServerTypeOK /\ ClientTypeOK

---------------------------------------------------------------------------
(* Safety.                                                                 *)

Waiting  == cEdt \in RtspRequest
Reading  == main \in {"setup", "serve"}
Replying == main \in {"setupReply", "playReply", "pauseReply", "tearReply"}
Count(b) == IF b THEN 1 ELSE 0

(* The client does not look at the CSeq of a response, and the server      *)
(* skips requests silently.  Still a response under way is the only        *)
(* message under way, and answers the request the client waits for.        *)
ReplyMatchesRequest ==
    clientUp /\ conns = 1 =>
        /\ Len(requests) + Len(responses) + Count(Replying) <= Count(Waiting)
        /\ responses # << >> => Head(responses).cseq = cSeqNb

(* With no request under way and the server's main thread back in its      *)
(* reading loop, both sides are in the same RTSP state.                    *)
StatesAgree ==
    serverUp /\ clientUp /\ conns = 1 /\ ~Waiting /\ Reading => sState = cState

(* Connect is never disabled, yet once a session is set up no later        *)
(* connection replaces it, and SETUP never binds the RTP port twice.       *)
SessionIsKept ==
    /\ cState \in {"READY", "PLAYING"} => conns = 1 /\ listen = "closed"
    /\ Idle /\ cState = "INIT" => ~cRtp

(* Main thread and EDT start and stop the timer without a lock.  Back in   *)
(* its loop the main thread finds it stopped unless the state is PLAYING,  *)
(* and then running as long as there are frames to send.  SETUP is         *)
(* answered before the RTP socket exists; the timer's handler still never  *)
(* runs without one, and meets a closed one only after a TEARDOWN was      *)
(* answered.                                                               *)
TimerFollowsState ==
    serverUp =>
        /\ Reading /\ sState # "PLAYING" => ~sTimer.running /\ ~sTimer.pending
        /\ Reading /\ sState = "PLAYING" /\ imagenb < VideoLength => sTimer.running
        /\ sEdt # "idle" => sRtp = "open" \/ main = "exit"

(* The client does not look at sequence numbers and keeps a backlog of     *)
(* frames over a pause, but never shows a frame older than the last one,   *)
(* and none unless its state is PLAYING, although a timer event or a       *)
(* receive may be under way when a button is pressed.                      *)
FramesInOrder == [][shown' # shown => shown' > shown /\ cState = "PLAYING"]_vars

(* While the client is paused and the server done with the PAUSE, the      *)
(* timer's handler is not entered.  One that was entered before the main   *)
(* thread stopped the timer may still be under way: it takes one frame     *)
(* more from the video at most, and no other is taken after it.            *)
PauseHolds ==
    [][clientUp /\ ~Waiting /\ cState = "READY" /\ main = "serve" /\ sEdt \in {"idle", "done"}
        => sEdt' \in {"idle", "done"} /\ imagenb' = imagenb]_vars

---------------------------------------------------------------------------
(* Liveness.                                                               *)

Answered(type) == (clientUp /\ cEdt = type) ~> ~(clientUp /\ cEdt = type)

(* The EDT is not left blocked in readLine by SETUP, PLAY and PAUSE, nor   *)
(* by TEARDOWN within a session.                                           *)
SessionRequestsAnswered ==
    /\ \A type \in {"SETUP", "PLAY", "PAUSE"} : Answered(type)
    /\ (clientUp /\ cEdt = "TEARDOWN" /\ cState \in {"READY", "PLAYING"})
          ~> ~(clientUp /\ cEdt = "TEARDOWN")

(* A client that leaves, with or without TEARDOWN, takes the server along. *)
ServerEndsWithClient == (~clientUp /\ conns > 0) ~> ~serverUp

(* lab5-kurose-ross.html:130, "The server alway replies to all the         *)
(* messages the client sends."                                             *)
ServerAlwaysReplies == \A type \in RtspRequest : Answered(type)

(* RtspClient.java:182, "Init non-blocking RTPsocket", and :189, "set      *)
(* TimeOut value of the socket to 5msec.": receive returns.                *)
ReceiveReturns == (clientUp /\ cEdt = "receive") ~> ~(clientUp /\ cEdt = "receive")

---------------------------------------------------------------------------
(* Refinement.                                                             *)

(* The session state the server has answered for: SETUP, PLAY, PAUSE and   *)
(* TEARDOWN take effect with their response.                               *)
ServerView ==
    CASE main \in {"start", "accept", "unlisten", "setup", "setupReply"} -> "INIT"
      [] main \in {"playStart", "playState"}            -> "PLAYING"
      [] main \in {"pauseStop", "pauseState"}           -> "READY"
      [] main \in {"tearStop", "tearClose", "exit"}     -> "GONE"
      [] OTHER                                          -> sState

Outcome(type) ==
    CASE type = "PLAY"     -> "PLAYING"
      [] type = "TEARDOWN" -> "GONE"
      [] OTHER             -> "READY"

Session == INSTANCE RtspSession WITH
    server <- IF serverUp THEN ServerView ELSE "GONE",
    client <- CASE ~clientUp                        -> "GONE"
                [] clientUp /\ cState = "NULL"      -> "INIT"
                [] OTHER                            -> cState,
    answer <- IF responses = << >> THEN "none" ELSE Outcome(cEdt)

(* Client and server move in lock step although the server answers PLAY    *)
(* and PAUSE before it changes its own state.                              *)
LockStep == Session!Spec

Chart == INSTANCE RtspStateChart WITH
    state <- CASE cState = "READY"   -> "ready"
               [] cState = "PLAYING" -> "playing"
               [] OTHER              -> "init"

(* The client's state is the one the state chart prescribes.               *)
FollowsChart == Chart!Spec

---------------------------------------------------------------------------
(* The inductive invariant behind the safety properties.                   *)

BeforeSession == {"start", "accept", "unlisten", "setup"}
BeforeRtp     == BeforeSession \cup {"setupReply", "openRtp"}

(* What the server's position says of its sockets and its state.           *)
ServerProgress ==
    /\ listen = CASE main = "start"                -> "unbound"
                  [] main \in {"accept", "unlisten"} -> "open"
                  [] OTHER                         -> "closed"
    /\ main \notin {"start", "accept"} => conns > 0
    /\ main \in {"start", "accept", "unlisten"} => sState = "NULL"
    /\ main = "setup" => sState = "INIT"
    /\ main \in {"setupReply", "openRtp", "playReply", "playStart", "playState"}
           => sState = "READY"
    /\ main \in {"pauseReply", "pauseStop", "pauseState"} => sState = "PLAYING"
    /\ main \in {"serve", "tearReply", "tearStop", "tearClose", "exit"}
           => sState \in {"READY", "PLAYING"}
    /\ sRtp = CASE main \in BeforeRtp -> "none"
                [] main = "exit"      -> "closed"
                [] OTHER              -> "open"

TimerOff ==
    \/ main \in BeforeRtp \cup {"playReply", "playStart", "pauseState", "tearClose", "exit"}
    \/ main = "serve" /\ sState = "READY"

TimerOn ==
    \/ main \in {"playState", "pauseReply", "pauseStop"}
    \/ main = "serve" /\ sState = "PLAYING"

(* Where the timer is off and where it runs, unless the video has ended.   *)
TimerProgress ==
    /\ TimerOff => sTimer = NewTimer
    /\ TimerOn /\ imagenb < VideoLength => sTimer.running
    /\ sEdt # "idle" => main \notin BeforeRtp

(* What the client's state says of its sockets, its timer and its EDT.     *)
ClientProgress ==
    /\ conns = 0 <=> cState = "NULL"
    /\ cState \in {"READY", "PLAYING"} => conns = 1 /\ listen = "closed"
    /\ clientUp /\ cRtp => cState \in {"READY", "PLAYING"} \/ cEdt = "SETUP"
    /\ clientUp /\ cEdt = "SETUP" => cState = "INIT"
    /\ clientUp /\ cEdt = "PLAY" => cState = "READY"
    /\ clientUp /\ cEdt \in {"PAUSE", "receive"} => cState = "PLAYING"
    /\ clientUp /\ (cTimer.running \/ cTimer.pending) => cState = "PLAYING"

ReplyLabel(type) ==
    CASE type = "SETUP" -> "setupReply" [] type = "PLAY" -> "playReply"
      [] type = "PAUSE" -> "pauseReply" [] OTHER         -> "tearReply"

Quiet     == requests = << >> /\ responses = << >> /\ ~Replying /\ ServerView = cState
Requested == /\ Waiting /\ ~Replying /\ ServerView = cState
             /\ requests = <<[type |-> cEdt, cseq |-> cSeqNb]>> /\ responses = << >>
Answering == /\ Waiting /\ main = ReplyLabel(cEdt) /\ sSeqNb = cSeqNb
             /\ ServerView = cState
             /\ requests = << >> /\ responses = << >>
Responded == /\ Waiting /\ ~Replying /\ ServerView = Outcome(cEdt)
             /\ requests = << >> /\ responses = <<[cseq |-> cSeqNb]>>

(* A request is under way, being answered, answered, or there is none.     *)
Handshake ==
    /\ dropped => conns > 1
    /\ conns # 1 => requests = << >> /\ responses = << >> /\ main \in BeforeSession
    /\ clientUp /\ conns = 1 => Quiet \/ Requested \/ Answering \/ Responded

(* Frames are on their way in order, between the last one shown and the    *)
(* last one taken from the video.                                          *)
FramesOnTheWay ==
    /\ shown <= imagenb /\ (sEdt = "frame" => shown < imagenb)
    /\ \A i \in 1..Len(rtp) :
          shown < rtp[i] /\ rtp[i] <= imagenb /\ (sEdt = "frame" => rtp[i] < imagenb)
    /\ \A i, j \in 1..Len(rtp) : i < j => rtp[i] < rtp[j]

(* Every part is preserved by a step only where the others hold.           *)
IInv == TypeOK /\ ServerProgress /\ TimerProgress /\ ClientProgress /\ Handshake
               /\ FramesOnTheWay
===========================================================================
