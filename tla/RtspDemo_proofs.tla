-------------------------- MODULE RtspDemo_proofs --------------------------
(***************************************************************************)
(* The client and the server of rtsp-demo and the sockets between them:    *)
(* types first, then the inductive invariant, what follows from it, and    *)
(* the two refinements.                                                    *)
(***************************************************************************)
EXTENDS RtspDemo, TLAPS, SequenceTheorems

LEMMA TimerTypes ==
    ASSUME NEW t \in SwingTimer
    PROVE  /\ Started(t) \in SwingTimer /\ Stopped(t) \in SwingTimer
           /\ Due(t) \in SwingTimer /\ Handled(t) \in SwingTimer
BY DEF SwingTimer, Started, Stopped, Due, Handled

LEMMA NewTimerType == NewTimer \in SwingTimer
BY DEF SwingTimer, NewTimer

LEMMA InitTypes == Init => TypeOK
<1> SUFFICES ASSUME Init PROVE TypeOK
    OBVIOUS
<1> USE NetAssumption, VideoAssumption, SeqNbAssumption
<1>1. NetTypeOK
  <2>1. requests \in Seq(Requests) /\ responses \in Seq(Responses) /\ rtp \in Seq(Nat)
      BY EmptySeq DEF Init, NetInit
  <2>2. conns \in 0..MaxConnects
      BY DEF Init, NetInit
  <2> QED BY <2>1, <2>2 DEF Init, NetInit, NetTypeOK
<1>2. ServerTypeOK
    BY NewTimerType DEF Init, ServerInit, ServerTypeOK, MainLabels, RtspState
<1>3. ClientTypeOK
  <2>1. cSeqNb \in 0..MaxSeqNb /\ shown \in Nat
      BY DEF Init, ClientInit
  <2>2. cEdt \in {"idle", "receive"} \cup RtspRequest /\ cState \in RtspState
      BY DEF Init, ClientInit, RtspState
  <2>3. cTimer \in SwingTimer /\ cRtp \in BOOLEAN
      BY NewTimerType DEF Init, ClientInit
  <2> QED BY <2>1, <2>2, <2>3 DEF ClientTypeOK
<1> QED BY <1>1, <1>2, <1>3 DEF TypeOK

LEMMA ExitTypes ==
    /\ TypeOK /\ ServerExit => NetTypeOK' /\ ServerTypeOK'
    /\ TypeOK /\ ClientExit => NetTypeOK' /\ ClientTypeOK'
<1>1. ASSUME TypeOK, ServerExit PROVE NetTypeOK' /\ ServerTypeOK'
    BY <1>1 DEF TypeOK, NetTypeOK, ServerTypeOK, ServerExit, serverVars
<1>2. ASSUME TypeOK, ClientExit PROVE NetTypeOK' /\ ClientTypeOK'
    BY <1>2 DEF TypeOK, NetTypeOK, ClientTypeOK, ClientExit, clientVars
<1> QED BY <1>1, <1>2

LEMMA ResponseTypes ==
    ASSUME TypeOK, SendResponse
    PROVE  NetTypeOK'
<1>1. [cseq |-> sSeqNb] \in Responses
    BY DEF TypeOK, ServerTypeOK, Responses
<1>2. responses' \in Seq(Responses)
    BY <1>1, AppendProperties DEF SendResponse, TypeOK, NetTypeOK
<1> QED BY <1>2 DEF SendResponse, TypeOK, NetTypeOK

LEMMA ServerTypeStep ==
    ASSUME TypeOK, ServerNext
    PROVE  NetTypeOK' /\ ServerTypeOK'
<1> USE DEF TypeOK, NetTypeOK, ServerTypeOK, netVars
<1>1. CASE Bind
    BY <1>1 DEF Bind, Main, MainLabels
<1>2. CASE Accept
    BY <1>2 DEF Accept, Main, MainLabels
<1>3. CASE CloseListen
    BY <1>3 DEF CloseListen, Main, MainLabels, RtspState
<1>4. CASE ReadRequest
  <2>1. Head(requests) \in Requests /\ requests' \in Seq(Requests)
      BY <1>4, HeadTailProperties DEF ReadRequest
  <2>2. sSeqNb' \in Nat
      BY <1>4, <2>1 DEF ReadRequest, Requests
  <2>3. main' \in MainLabels
      BY <1>4 DEF ReadRequest, Branch, MainLabels
  <2>4. sState' \in RtspState
      BY <1>4 DEF ReadRequest, RtspState
  <2> QED BY <1>4, <2>1, <2>2, <2>3, <2>4 DEF ReadRequest
<1>5. CASE ReadEndOfStream \/ ReplyFails \/ TearExit \/ SendFails \/ ServerWindowClosing
    BY <1>5, ExitTypes DEF ReadEndOfStream, ReplyFails, TearExit, SendFails,
                           ServerWindowClosing
<1>6. CASE SetupReply \/ PlayReply \/ PauseReply \/ TearReply
  <2>1. NetTypeOK'
      BY <1>6, ResponseTypes DEF SetupReply, PlayReply, PauseReply, TearReply
  <2>2. ServerTypeOK'
      BY <1>6 DEF SetupReply, PlayReply, PauseReply, TearReply, SendResponse, Main,
                  MainLabels
  <2> QED BY <2>1, <2>2
<1>7. CASE OpenRtp
    BY <1>7 DEF OpenRtp, Main, MainLabels
<1>8. CASE StartTimer
    BY <1>8, TimerTypes DEF StartTimer, Main, MainLabels
<1>9. CASE PauseStop \/ TearStop
    BY <1>9, TimerTypes DEF PauseStop, TearStop, StopTimer, Main, MainLabels
<1>10. CASE PlayState \/ PauseState
    BY <1>10 DEF PlayState, PauseState, UpdateState, Main, MainLabels, RtspState
<1>11. CASE CloseSockets
    BY <1>11 DEF CloseSockets, Main, MainLabels
<1>12. CASE ServerTick
    BY <1>12, TimerTypes DEF ServerTick
<1>13. CASE NextFrame
    BY <1>13, VideoAssumption DEF NextFrame
<1>14. CASE BeginEvent \/ EndOfVideo \/ EventDone
    BY <1>14, TimerTypes DEF BeginEvent, EndOfVideo, EventDone
<1>15. CASE SendFrame
  <2>1. rtp' \in Seq(Nat)
    <3>1. imagenb \in Nat
        BY VideoAssumption
    <3>2. CASE rtp' = Append(rtp, imagenb)
        BY <3>1, <3>2, AppendProperties
    <3>3. CASE UNCHANGED rtp
        BY <3>3
    <3> QED BY <1>15, <3>2, <3>3 DEF SendFrame, Datagram
  <2>2. ServerTypeOK'
      BY <1>15 DEF SendFrame
  <2> QED BY <1>15, <2>1, <2>2 DEF SendFrame
<1> QED BY <1>1, <1>2, <1>3, <1>4, <1>5, <1>6, <1>7, <1>8, <1>9, <1>10, <1>11, <1>12,
           <1>13, <1>14, <1>15
        DEF ServerNext, MainStep, EdtStep

LEMMA RequestTypes ==
    ASSUME TypeOK, NEW type \in RtspRequest, SendRequest(type), cSeqNb' \in Nat
    PROVE  NetTypeOK' /\ cEdt' \in RtspRequest
<1>1. [type |-> type, cseq |-> cSeqNb'] \in Requests
    BY DEF Requests
<1>2. requests' \in Seq(Requests)
    BY <1>1 DEF SendRequest, TypeOK, NetTypeOK
<1> QED BY <1>2 DEF SendRequest, TypeOK, NetTypeOK

LEMMA ReceiveTypes ==
    ASSUME TypeOK, NEW type, Receives(type), clientUp' \in BOOLEAN
    PROVE  NetTypeOK' /\ cEdt' = "idle"
<1>1. responses' \in Seq(Responses)
    BY HeadTailProperties DEF Receives, TypeOK, NetTypeOK
<1> QED BY <1>1 DEF Receives, TypeOK, NetTypeOK

LEMMA ClientTypeStep ==
    ASSUME TypeOK, ClientNext
    PROVE  NetTypeOK' /\ ClientTypeOK'
<1> USE DEF TypeOK, ClientTypeOK
<1>1. CASE Connect
  <2>1. conns' \in 0..MaxConnects
      BY <1>1, NetAssumption DEF Connect, NetTypeOK
  <2> QED BY <1>1, <2>1 DEF Connect, NetTypeOK, RtspState
<1>2. CASE Setup
  <2>1. CASE cRtp
      BY <1>2, <2>1, ExitTypes DEF Setup
  <2>2. CASE ~cRtp
    <3>1. SendRequest("SETUP") /\ cSeqNb' = 1 /\ cRtp'
        BY <1>2, <2>2 DEF Setup
    <3>2. NetTypeOK' /\ cEdt' \in RtspRequest
        BY <3>1, RequestTypes DEF RtspRequest
    <3> QED BY <3>1, <3>2, SeqNbAssumption DEF SendRequest
  <2> QED BY <2>1, <2>2
<1>3. ASSUME NEW type \in {"PLAY", "PAUSE", "TEARDOWN"}, NextRequest(type)
      PROVE  NetTypeOK' /\ ClientTypeOK'
  <2>1. cSeqNb' \in 0..MaxSeqNb
      BY <1>3, SeqNbAssumption DEF NextRequest
  <2>2. NetTypeOK' /\ cEdt' \in RtspRequest
      BY <1>3, <2>1, RequestTypes, SeqNbAssumption DEF NextRequest, RtspRequest
  <2> QED BY <1>3, <2>1, <2>2 DEF NextRequest, SendRequest
<1>4. CASE Play \/ Pause \/ Teardown
    BY <1>3, <1>4 DEF Play, Pause, Teardown
<1>5. CASE RequestFails \/ ResponseFails \/ ClientWindowClosing \/ ClientKilled
    BY <1>5, ExitTypes DEF RequestFails, ResponseFails, ClientWindowClosing, ClientKilled
<1>6. CASE SetupDone \/ PlayDone \/ PauseDone \/ TeardownDone
  <2>1. NetTypeOK' /\ cEdt' = "idle"
      BY <1>6, ReceiveTypes DEF SetupDone, PlayDone, PauseDone, TeardownDone, NetTypeOK
  <2>2. cState' \in RtspState /\ cTimer' \in SwingTimer
      BY <1>6, TimerTypes DEF SetupDone, PlayDone, PauseDone, TeardownDone, RtspState
  <2> QED BY <1>6, <2>1, <2>2
          DEF SetupDone, PlayDone, PauseDone, TeardownDone, Receives
<1>7. CASE ClientTick
    BY <1>7, TimerTypes DEF ClientTick, netVars, NetTypeOK
<1>8. CASE BeginReceive
    BY <1>8 DEF BeginReceive, netVars, NetTypeOK
<1>9. CASE ShowFrame
  <2>1. rtp' \in Seq(Nat) /\ shown' \in Nat
      BY <1>9, HeadTailProperties DEF ShowFrame, NetTypeOK
  <2> QED BY <1>9, <2>1, TimerTypes DEF ShowFrame, NetTypeOK
<1>10. CASE CollectSocket /\ UNCHANGED clientVars
    BY <1>10 DEF CollectSocket, clientVars, NetTypeOK
<1> QED BY <1>1, <1>2, <1>4, <1>5, <1>6, <1>7, <1>8, <1>9, <1>10
        DEF ClientNext, Buttons, ResponseStep, FrameStep

LEMMA TypeStep == TypeOK /\ [Next]_vars => TypeOK'
<1> SUFFICES ASSUME TypeOK, [Next]_vars PROVE TypeOK'
    OBVIOUS
<1>1. CASE ServerNext /\ UNCHANGED clientVars
    BY <1>1, ServerTypeStep DEF TypeOK, ClientTypeOK, clientVars
<1>2. CASE ClientNext /\ UNCHANGED serverVars
    BY <1>2, ClientTypeStep DEF TypeOK, ServerTypeOK, serverVars
<1>3. CASE UNCHANGED vars
    BY <1>3 DEF vars, TypeOK, NetTypeOK, ServerTypeOK, ClientTypeOK, netVars, serverVars,
                clientVars
<1> QED BY <1>1, <1>2, <1>3 DEF Next

(* Every variable keeps its type, whatever the bounds: in particular the   *)
(* frame number stays within the video.                                    *)
THEOREM TypeCorrect == Spec => []TypeOK
BY InitTypes, TypeStep, PTL DEF Spec

---------------------------------------------------------------------------
(* What a step of one process leaves alone.                                *)
LEMMA ClientFrame ==
    ASSUME ClientNext
    PROVE  /\ UNCHANGED <<serverUp, listen, serverEnd>>
           /\ Connect \/ UNCHANGED conns
<1> USE DEF netVars, clientVars, ClientExit
<1>1. CASE Connect
    BY <1>1 DEF Connect
<1>2. CASE Setup \/ Play \/ Pause \/ Teardown \/ RequestFails
    BY <1>2 DEF Setup, Play, Pause, Teardown, NextRequest, SendRequest, RequestFails
<1>3. CASE ResponseStep
    BY <1>3 DEF ResponseStep, SetupDone, PlayDone, PauseDone, TeardownDone, ResponseFails,
                Receives
<1>4. CASE ClientTick \/ FrameStep
    BY <1>4 DEF ClientTick, FrameStep, BeginReceive, ShowFrame
<1>5. CASE ClientWindowClosing \/ ClientKilled \/ CollectSocket
    BY <1>5 DEF ClientWindowClosing, ClientKilled, CollectSocket
<1> QED BY <1>1, <1>2, <1>3, <1>4, <1>5 DEF ClientNext, Buttons

LEMMA ExitFrame ==
    ASSUME ReadEndOfStream \/ ReplyFails \/ TearExit \/ SendFails \/ ServerWindowClosing
    PROVE  /\ ServerExit /\ serverUp /\ ~serverUp'
           /\ UNCHANGED <<clientUp, listen, serverEnd, conns, dropped, requests, responses, rtp>>
           /\ UNCHANGED <<main, sEdt, sState, sSeqNb, sTimer, imagenb, sRtp>>
BY DEF ReadEndOfStream, ReplyFails, TearExit, SendFails, ServerWindowClosing, ServerExit,
       serverVars

---------------------------------------------------------------------------
LEMMA ServerProgressStep ==
    ASSUME TypeOK, ServerProgress, [Next]_vars
    PROVE  ServerProgress'
<1> USE DEF ServerProgress, BeforeRtp, BeforeSession
<1>1. ASSUME ServerNext, UNCHANGED clientVars PROVE ServerProgress'
  <2> USE DEF netVars
  <2>1. CASE Bind
      BY <2>1 DEF Bind, Main
  <2>2. CASE Accept
      BY <2>2 DEF Accept, Main
  <2>3. CASE CloseListen
      BY <2>3 DEF CloseListen, Main
  <2>4. CASE ReadRequest
      BY <2>4 DEF ReadRequest, Branch
  <2>5. CASE ReadEndOfStream \/ ReplyFails \/ TearExit \/ SendFails \/ ServerWindowClosing
      BY <2>5, ExitFrame
  <2>6. CASE SetupReply \/ PlayReply \/ PauseReply \/ TearReply
      BY <2>6 DEF SetupReply, PlayReply, PauseReply, TearReply, SendResponse, Main
  <2>7. CASE OpenRtp
      BY <2>7 DEF OpenRtp, Main
  <2>8. CASE StartTimer \/ PauseStop \/ TearStop
      BY <2>8 DEF StartTimer, PauseStop, TearStop, StopTimer, Main
  <2>9. CASE PlayState \/ PauseState
      BY <2>9 DEF PlayState, PauseState, UpdateState, Main
  <2>10. CASE CloseSockets
      BY <2>10 DEF CloseSockets, Main
  <2>11. CASE ServerTick \/ BeginEvent \/ NextFrame \/ EndOfVideo \/ SendFrame \/ EventDone
      BY <2>11 DEF ServerTick, BeginEvent, NextFrame, EndOfVideo, SendFrame, EventDone
  <2> QED BY <1>1, <2>1, <2>2, <2>3, <2>4, <2>5, <2>6, <2>7, <2>8, <2>9, <2>10, <2>11
          DEF ServerNext, MainStep, EdtStep
<1>2. ASSUME ClientNext, UNCHANGED serverVars PROVE ServerProgress'
  <2>1. CASE Connect
      BY <1>2, <2>1 DEF Connect, serverVars, TypeOK, NetTypeOK
  <2>2. CASE UNCHANGED conns
      BY <1>2, <2>2, ClientFrame DEF serverVars
  <2> QED BY <1>2, <2>1, <2>2, ClientFrame
<1>3. CASE UNCHANGED vars
    BY <1>3 DEF vars, netVars, serverVars
<1> QED BY <1>1, <1>2, <1>3 DEF Next

LEMMA HandledRuns ==
    ASSUME NEW t \in SwingTimer
    PROVE  /\ Handled(t).running = t.running
           /\ t = NewTimer => Handled(t) = NewTimer
<1>1. Handled(t).running = t.running
    BY DEF Handled, SwingTimer
<1>2. t = NewTimer => Handled(t) = NewTimer
    BY DEF Handled, NewTimer
<1> QED BY <1>1, <1>2

LEMMA TimerProgressStep ==
    ASSUME TypeOK, ServerProgress, TimerProgress, [Next]_vars
    PROVE  TimerProgress'
<1> USE DEF TimerProgress, TimerOff, TimerOn
<1>1. ASSUME ServerNext, UNCHANGED clientVars PROVE TimerProgress'
  <2> USE DEF netVars, BeforeRtp, BeforeSession
  <2>1. CASE Bind \/ Accept \/ CloseListen
      BY <2>1 DEF Bind, Accept, CloseListen, Main
  <2>2. CASE ReadRequest
      BY <2>2 DEF ReadRequest, Branch, ServerProgress
  <2>3. CASE ReadEndOfStream \/ ReplyFails \/ TearExit \/ SendFails \/ ServerWindowClosing
      BY <2>3, ExitFrame
  <2>4. CASE SetupReply \/ PlayReply \/ PauseReply \/ TearReply
      BY <2>4 DEF SetupReply, PlayReply, PauseReply, TearReply, SendResponse, Main
  <2>5. CASE OpenRtp
      BY <2>5 DEF OpenRtp, Main, ServerProgress
  <2>6. CASE StartTimer
      BY <2>6 DEF StartTimer, Main, Started, TypeOK, ServerTypeOK, SwingTimer
  <2>7. CASE PauseStop \/ TearStop
      BY <2>7 DEF PauseStop, TearStop, StopTimer, Main, Stopped, NewTimer
  <2>8. CASE PlayState \/ PauseState
      BY <2>8 DEF PlayState, PauseState, UpdateState, Main
  <2>9. CASE CloseSockets
      BY <2>9 DEF CloseSockets, Main
  <2>10. CASE ServerTick
    <3>1. sTimer # NewTimer
        BY <2>10 DEF ServerTick, NewTimer
    <3>2. sTimer'.running
        BY <2>10 DEF ServerTick, Due, TypeOK, ServerTypeOK, SwingTimer
    <3> QED BY <2>10, <3>1, <3>2 DEF ServerTick
  <2>11. CASE BeginEvent \/ NextFrame \/ SendFrame
      BY <2>11, VideoAssumption
         DEF BeginEvent, NextFrame, SendFrame, NewTimer, TypeOK, ServerTypeOK
  <2>12. CASE EndOfVideo
      BY <2>12, VideoAssumption DEF EndOfVideo, NewTimer, Stopped, TypeOK, ServerTypeOK
  <2>13. CASE EventDone
    <3>1. sTimer.running => sTimer'.running
        BY <2>13, HandledRuns DEF EventDone, TypeOK, ServerTypeOK
    <3>2. sTimer = NewTimer => sTimer' = NewTimer
        BY <2>13, HandledRuns DEF EventDone, TypeOK, ServerTypeOK
    <3>3. UNCHANGED <<main, sState, imagenb>> /\ sEdt' = "idle"
        BY <2>13 DEF EventDone
    <3>4. TimerOff' => TimerOff
        BY <3>3
    <3>5. TimerOn' /\ imagenb' < VideoLength => sTimer'.running
        BY <3>1, <3>3
    <3>6. TimerOff' => sTimer' = NewTimer'
        BY <3>2, <3>4 DEF NewTimer
    <3> QED BY <3>3, <3>5, <3>6
  <2> QED BY <1>1, <2>1, <2>2, <2>3, <2>4, <2>5, <2>6, <2>7, <2>8, <2>9, <2>10, <2>11,
             <2>12, <2>13
          DEF ServerNext, MainStep, EdtStep
<1>2. CASE UNCHANGED serverVars
    BY <1>2 DEF serverVars
<1> QED BY <1>1, <1>2 DEF Next, vars

LEMMA FramesStep ==
    ASSUME TypeOK, FramesOnTheWay, [Next]_vars
    PROVE  FramesOnTheWay'
<1> USE DEF FramesOnTheWay
<1>1. CASE UNCHANGED <<shown, imagenb, rtp>> /\ (sEdt' = "frame" => sEdt = "frame")
    BY <1>1
<1>2. CASE NextFrame /\ UNCHANGED clientVars
  <2>1. imagenb' = imagenb + 1 /\ imagenb \in Nat /\ shown \in Nat
      BY <1>2, VideoAssumption DEF NextFrame, TypeOK, ServerTypeOK, ClientTypeOK
  <2>2. \A i \in 1..Len(rtp) : rtp[i] \in Nat
      BY ElementOfSeq DEF TypeOK, NetTypeOK
  <2> QED BY <1>2, <2>1, <2>2 DEF NextFrame, netVars, clientVars
<1>3. CASE SendFrame /\ UNCHANGED clientVars
  <2>1. imagenb' = imagenb /\ sEdt = "frame" /\ sEdt' = "done" /\ UNCHANGED shown
      BY <1>3 DEF SendFrame, clientVars
  <2>2. imagenb \in Nat /\ rtp \in Seq(Nat) /\ shown \in Nat
      BY VideoAssumption DEF TypeOK, NetTypeOK, ServerTypeOK, ClientTypeOK
  <2>3. CASE UNCHANGED rtp
      BY <2>1, <2>2, <2>3
  <2>4. CASE rtp' = Append(rtp, imagenb)
    <3>1. /\ Len(rtp') = Len(rtp) + 1 /\ Len(rtp) \in Nat
          /\ \A i \in 1..Len(rtp) : rtp'[i] = rtp[i]
          /\ rtp'[Len(rtp) + 1] = imagenb
        BY <2>2, <2>4, AppendProperties, LenProperties
    <3>2. \A i \in 1..Len(rtp') : i \in 1..Len(rtp) \/ i = Len(rtp) + 1
        BY <3>1
    <3>3. \A i \in 1..Len(rtp') : shown < rtp'[i] /\ rtp'[i] <= imagenb
        BY <2>1, <2>2, <3>1, <3>2
    <3>4. \A i, j \in 1..Len(rtp') : i < j => rtp'[i] < rtp'[j]
        BY <2>1, <3>1, <3>2
    <3> QED BY <2>1, <3>3, <3>4
  <2> QED BY <1>3, <2>3, <2>4 DEF SendFrame, Datagram
<1>4. CASE ShowFrame /\ UNCHANGED serverVars
  <2>1. rtp \in Seq(Nat) /\ rtp # << >> /\ rtp' = Tail(rtp) /\ shown' = rtp[1]
      BY <1>4, HeadTailProperties DEF ShowFrame, TypeOK, NetTypeOK
  <2>2. /\ Len(rtp') = Len(rtp) - 1 /\ Len(rtp) \in Nat \ {0}
        /\ \A i \in 1..Len(rtp') : rtp'[i] = rtp[i + 1]
      BY <2>1, HeadTailProperties, LenProperties, EmptySeq
  <2>3. \A i \in 1..Len(rtp') : i + 1 \in 1..Len(rtp) /\ 1 < i + 1
      BY <2>2
  <2>4. UNCHANGED <<imagenb, sEdt>> /\ 1 \in 1..Len(rtp)
      BY <1>4, <2>2 DEF serverVars
  <2>5. \A i \in 1..Len(rtp') : shown' < rtp'[i]
      BY <2>1, <2>2, <2>3, <2>4
  <2>6. \A i \in 1..Len(rtp') : rtp'[i] <= imagenb /\ (sEdt = "frame" => rtp'[i] < imagenb)
      BY <2>2, <2>3
  <2>7. \A i, j \in 1..Len(rtp') : i < j => rtp'[i] < rtp'[j]
    <3>1. SUFFICES ASSUME NEW i \in 1..Len(rtp'), NEW j \in 1..Len(rtp'), i < j
                   PROVE  rtp[i + 1] < rtp[j + 1]
        BY <2>2
    <3>2. i + 1 < j + 1
        BY <3>1
    <3> QED BY <2>3, <3>2
  <2>8. shown' <= imagenb /\ (sEdt = "frame" => shown' < imagenb)
      BY <2>1, <2>4
  <2> QED BY <2>4, <2>5, <2>6, <2>7, <2>8
<1>5. CASE ServerNext /\ ~NextFrame /\ ~SendFrame /\ UNCHANGED clientVars
  <2>1. UNCHANGED <<imagenb, rtp>> /\ (sEdt' = "frame" => sEdt = "frame")
      BY <1>5 DEF ServerNext, MainStep, EdtStep, netVars, serverVars, Bind, Accept,
                  CloseListen, ReadRequest, ReadEndOfStream, ReplyFails, TearExit, SendFails,
                  ServerWindowClosing, ServerExit, SetupReply, PlayReply, PauseReply,
                  TearReply, SendResponse, OpenRtp, StartTimer, PauseStop, TearStop, StopTimer,
                  PlayState, PauseState, UpdateState, CloseSockets, ServerTick, BeginEvent,
                  EndOfVideo, EventDone
  <2> QED BY <1>1, <1>5, <2>1 DEF clientVars
<1>6. CASE ClientNext /\ ~ShowFrame /\ UNCHANGED serverVars
  <2>1. UNCHANGED <<rtp, shown>>
      BY <1>6 DEF ClientNext, Buttons, ResponseStep, FrameStep, Connect, Setup, Play, Pause,
                  Teardown, NextRequest, SendRequest, RequestFails, SetupDone, PlayDone,
                  PauseDone, TeardownDone, ResponseFails, Receives, ClientTick,
                  BeginReceive, ClientWindowClosing, ClientKilled, ClientExit,
                  CollectSocket, netVars, clientVars
  <2> QED BY <1>1, <1>6, <2>1 DEF serverVars
<1>7. CASE UNCHANGED vars
    BY <1>1, <1>7 DEF vars, netVars, serverVars, clientVars
<1> QED BY <1>2, <1>3, <1>4, <1>5, <1>6, <1>7 DEF Next

---------------------------------------------------------------------------
(* A response the client can read comes from a server that has closed its  *)
(* listening socket.                                                       *)
LEMMA ResponseComesLate ==
    ASSUME ServerProgress, Handshake, clientUp, conns = 1, responses # << >>
    PROVE  Responded /\ listen = "closed"
<1>1. Responded
    BY DEF Handshake, Quiet, Requested, Answering
<1>2. main \notin BeforeSession
    BY <1>1 DEF Responded, ServerView, Outcome, BeforeSession
<1> QED BY <1>1, <1>2 DEF ServerProgress, BeforeSession

LEMMA ClientProgressStep ==
    ASSUME TypeOK, ServerProgress, ClientProgress, Handshake, [Next]_vars
    PROVE  ClientProgress'
<1> USE DEF ClientProgress
<1>1. ASSUME ServerNext, UNCHANGED clientVars PROVE ClientProgress'
  <2>1. UNCHANGED <<clientUp, conns>>
      BY <1>1 DEF ServerNext, MainStep, EdtStep, netVars, Bind, Accept,
                  CloseListen, ReadRequest, ReadEndOfStream, ReplyFails, TearExit, SendFails,
                  ServerWindowClosing, ServerExit, SetupReply, PlayReply, PauseReply,
                  TearReply, SendResponse, OpenRtp, StartTimer, PauseStop, TearStop, StopTimer,
                  PlayState, PauseState, UpdateState, CloseSockets, ServerTick, BeginEvent,
                  NextFrame, EndOfVideo, SendFrame, EventDone
  <2>2. listen = "closed" => listen' = "closed"
    <3>1. CASE UNCHANGED listen
        BY <3>1
    <3>2. CASE Bind
        BY <3>2 DEF Bind, Main, ServerProgress
    <3>3. CASE CloseListen
        BY <3>3 DEF CloseListen
    <3> QED BY <1>1, <3>1, <3>2, <3>3
        DEF ServerNext, MainStep, EdtStep, netVars, Accept,
            ReadRequest, ReadEndOfStream, ReplyFails, TearExit, SendFails,
            ServerWindowClosing, ServerExit, SetupReply, PlayReply, PauseReply,
            TearReply, SendResponse, OpenRtp, StartTimer, PauseStop, TearStop, StopTimer,
            PlayState, PauseState, UpdateState, CloseSockets, ServerTick, BeginEvent,
            NextFrame, EndOfVideo, SendFrame, EventDone
  <2> QED BY <1>1, <2>1, <2>2 DEF clientVars
<1>2. ASSUME ClientNext, UNCHANGED serverVars PROVE ClientProgress'
  <2>0. UNCHANGED listen
      BY <1>2, ClientFrame
  <2>1. CASE Connect
      BY <2>1 DEF Connect, Idle, TypeOK, NetTypeOK
  <2>2. CASE Setup
      BY <2>2 DEF Setup, ClientExit, clientVars, SendRequest, Idle
  <2>3. CASE Play \/ Pause \/ Teardown
      BY <2>3 DEF Play, Pause, Teardown, NextRequest, SendRequest, Idle
  <2>4. CASE RequestFails \/ ResponseFails \/ ClientWindowClosing \/ ClientKilled
      BY <2>4 DEF RequestFails, ResponseFails, ClientWindowClosing, ClientKilled,
                  ClientExit, clientVars
  <2>5. CASE SetupDone
      BY <2>0, <2>5, ResponseComesLate DEF SetupDone, Receives
  <2>6. CASE PlayDone
      BY <2>6 DEF PlayDone, Receives
  <2>7. CASE PauseDone
      BY <2>7 DEF PauseDone, Receives, Stopped
  <2>8. CASE TeardownDone
      BY <2>8 DEF TeardownDone, Receives
  <2>9. CASE ClientTick
      BY <2>9 DEF ClientTick, netVars
  <2>10. CASE BeginReceive
      BY <2>10 DEF BeginReceive, netVars, Idle
  <2>11. CASE ShowFrame
      BY <2>11 DEF ShowFrame
  <2>12. CASE CollectSocket /\ UNCHANGED clientVars
      BY <2>12 DEF CollectSocket, clientVars
  <2> QED BY <1>2, <2>1, <2>2, <2>3, <2>4, <2>5, <2>6, <2>7, <2>8, <2>9, <2>10, <2>11,
             <2>12
          DEF ClientNext, Buttons, ResponseStep, FrameStep
<1>3. CASE UNCHANGED vars
    BY <1>3 DEF vars, netVars, clientVars
<1> QED BY <1>1, <1>2, <1>3 DEF Next

LEMMA HandshakeServerStep ==
    ASSUME TypeOK, ServerProgress, ClientProgress, Handshake,
           ServerNext, UNCHANGED clientVars
    PROVE  Handshake'
<1> USE DEF Handshake, BeforeSession
<1> DEFINE Phases == Quiet \/ Requested \/ Answering \/ Responded
<1> USE DEF Quiet, Requested, Answering, Responded, Waiting, Replying, RtspRequest, netVars,
            clientVars, ReplyLabel
<1>1. CASE Bind \/ Accept \/ CloseListen
    BY <1>1 DEF Bind, Accept, CloseListen, Main, ServerView
<1>2. CASE ReadRequest
  <2>1. main \notin {"start", "accept", "unlisten"} /\ ~Replying
      BY <1>2 DEF ReadRequest
  <2>2. UNCHANGED <<clientUp, conns, dropped, responses>>
      BY <1>2 DEF ReadRequest
  <2>3. ASSUME clientUp, conns = 1 PROVE Phases'
    <3>0. Requested
        BY <1>2, <2>1, <2>3 DEF ReadRequest
    <3>1. /\ requests' = << >> /\ responses' = << >>
          /\ sSeqNb' = cSeqNb /\ main' = Branch(cEdt)
      <4>1. Head(requests).type = cEdt /\ Head(requests).cseq = cSeqNb /\ Tail(requests) = << >>
          BY <3>0
      <4> QED BY <1>2, <3>0, <4>1 DEF ReadRequest
    <3>2. CASE main' = "setupReply"
        BY <1>2, <2>1, <2>2, <2>3, <3>0, <3>1, <3>2 DEF Branch, ServerView, ReadRequest
    <3>3. CASE main' # "setupReply" /\ main = "setup"
        BY <1>2, <2>1, <2>2, <2>3, <3>0, <3>1, <3>3 DEF Branch, ServerView, ReadRequest
    <3>4. CASE main' # "setupReply" /\ main = "serve"
        BY <1>2, <2>1, <2>2, <2>3, <3>0, <3>1, <3>4 DEF Branch, ServerView, ReadRequest
    <3> QED BY <1>2, <3>2, <3>3, <3>4 DEF ReadRequest
  <2>4. conns = 1
      BY <1>2 DEF ReadRequest
  <2> QED BY <2>2, <2>3, <2>4
<1>3. CASE ReadEndOfStream \/ ReplyFails \/ TearExit \/ SendFails \/ ServerWindowClosing
    BY <1>3, ExitFrame DEF ServerView
<1>4. CASE SetupReply \/ PlayReply \/ PauseReply \/ TearReply
  <2>1. conns = 1 /\ ~dropped
      BY <1>4 DEF SetupReply, PlayReply, PauseReply, TearReply, Main
  <2>2. UNCHANGED <<clientUp, conns, dropped, requests, sState>>
      BY <1>4 DEF SetupReply, PlayReply, PauseReply, TearReply, SendResponse
  <2>3. ASSUME clientUp PROVE Responded'
    <3>1. Answering
        BY <1>4, <2>1, <2>3 DEF SetupReply, PlayReply, PauseReply, TearReply, Main
    <3>2. responses' = <<[cseq |-> cSeqNb]>>
      <4>1. SendResponse /\ ~ClientEndClosed
          BY <1>4, <2>1, <2>3 DEF SetupReply, PlayReply, PauseReply, TearReply, ClientEndClosed
      <4>2. responses' = Append(<< >>, [cseq |-> cSeqNb])
          BY <3>1, <4>1 DEF SendResponse
      <4> QED BY <4>2
    <3>3. ~Replying' /\ ServerView' = Outcome(cEdt)
      <4> USE <2>2, <3>1 DEF Main, ServerView, Outcome, ServerProgress
      <4>1. CASE SetupReply BY <4>1 DEF SetupReply
      <4>2. CASE PlayReply BY <4>2 DEF PlayReply
      <4>3. CASE PauseReply BY <4>3 DEF PauseReply
      <4>4. CASE TearReply BY <4>4 DEF TearReply
      <4> QED BY <1>4, <4>1, <4>2, <4>3, <4>4
    <3> QED BY <2>2, <3>1, <3>2, <3>3
  <2> QED BY <2>1, <2>2, <2>3
<1>5. CASE OpenRtp \/ StartTimer \/ PauseStop \/ TearStop
    BY <1>5 DEF OpenRtp, StartTimer, PauseStop, TearStop, StopTimer, Main,
                ServerView, ServerProgress
<1>6. CASE PlayState \/ PauseState \/ CloseSockets
    BY <1>6 DEF PlayState, PauseState, UpdateState, CloseSockets, Main, ServerView
<1>7. CASE ServerTick \/ BeginEvent \/ NextFrame \/ EndOfVideo \/ SendFrame \/ EventDone
    BY <1>7 DEF ServerTick, BeginEvent, NextFrame, EndOfVideo, SendFrame, EventDone, ServerView
<1> QED BY <1>1, <1>2, <1>3, <1>4, <1>5, <1>6, <1>7 DEF ServerNext, MainStep, EdtStep

LEMMA HandshakeClientStep ==
    ASSUME TypeOK, ServerProgress, ClientProgress, Handshake,
           ClientNext, UNCHANGED serverVars
    PROVE  Handshake'
<1> USE DEF Handshake
<1> DEFINE Phases == Quiet \/ Requested \/ Answering \/ Responded
<1>1. ServerView' = ServerView /\ Replying' = Replying /\ UNCHANGED <<main, sState, sSeqNb>>
    BY DEF ServerView, Replying, serverVars
<1>2. ASSUME Idle, conns = 1 PROVE Quiet
    BY <1>2 DEF Idle, Requested, Answering, Responded, Waiting, RtspRequest
<1>3. CASE Connect
  <2>1. conns' = conns + 1 /\ conns \in Nat /\ UNCHANGED <<requests, responses, dropped, clientUp>>
      BY <1>3 DEF Connect, TypeOK, NetTypeOK
  <2>2. main \in {"accept", "unlisten"}
      BY <1>3 DEF Connect, ServerProgress
  <2>3. requests = << >> /\ responses = << >>
      BY <1>2, <1>3 DEF Connect, Quiet
  <2>4. conns' = 1 => Quiet'
      BY <1>1, <1>3, <2>1, <2>2, <2>3 DEF Connect, Quiet, ServerView, Replying
  <2> QED BY <1>1, <2>1, <2>2, <2>3, <2>4 DEF BeforeSession
<1>4. ASSUME NEW type \in RtspRequest, Idle, SendRequest(type) PROVE Handshake'
  <2>1. conns \in Nat \ {0} /\ UNCHANGED <<conns, dropped, responses, clientUp, cState>>
      BY <1>4 DEF SendRequest, TypeOK, NetTypeOK
  <2>2. conns # 1 => UNCHANGED requests
      BY <1>4, <2>1 DEF SendRequest, NeverAccepted
  <2>3. ASSUME conns = 1 PROVE Quiet' \/ Requested'
    <3>1. Quiet /\ cEdt' = type
        BY <1>2, <1>4, <2>3 DEF SendRequest
    <3>2. requests' = << >> \/ requests' = Append(<< >>, [type |-> type, cseq |-> cSeqNb'])
        BY <1>4, <3>1 DEF SendRequest, Quiet
    <3>3. requests' = << >> \/ requests' = <<[type |-> cEdt', cseq |-> cSeqNb']>>
        BY <3>1, <3>2
    <3> QED BY <1>1, <1>4, <2>1, <3>1, <3>3 DEF Quiet, Requested, Waiting
  <2> QED BY <1>1, <2>1, <2>2, <2>3
<1>5. CASE (Setup /\ ~cRtp) \/ Play \/ Pause \/ Teardown
    BY <1>4, <1>5 DEF Setup, Play, Pause, Teardown, NextRequest, RtspRequest
<1>6. CASE \/ (Setup /\ cRtp) \/ RequestFails \/ ResponseFails
           \/ ClientWindowClosing \/ ClientKilled
    BY <1>1, <1>6 DEF Setup, RequestFails, ResponseFails, ClientWindowClosing, ClientKilled,
                      ClientExit
<1>7. ASSUME NEW type \in RtspRequest, Receives(type), clientUp' => cState' = Outcome(type)
      PROVE  Handshake'
  <2>1. /\ conns = 1 /\ clientUp /\ cEdt' = "idle"
        /\ UNCHANGED <<conns, dropped, requests>>
      BY <1>7 DEF Receives
  <2>2. Responded /\ cEdt = type
      BY <1>7, ResponseComesLate DEF Receives
  <2>3. responses' = << >>
      BY <1>7, <2>2 DEF Responded, Receives
  <2>4. clientUp' => Quiet'
      BY <1>1, <1>7, <2>1, <2>2, <2>3 DEF Responded, Quiet
  <2> QED BY <2>1, <2>4
<1>8. CASE SetupDone \/ PlayDone \/ PauseDone \/ TeardownDone
    BY <1>7, <1>8 DEF SetupDone, PlayDone, PauseDone, TeardownDone, Outcome, RtspRequest
<1>9. CASE ClientTick
    BY <1>1, <1>9 DEF ClientTick, netVars, Quiet, Requested, Answering, Responded, Waiting
<1>10. CASE BeginReceive \/ ShowFrame
  <2>1. UNCHANGED <<clientUp, conns, dropped, requests, responses, cState>>
      BY <1>10 DEF BeginReceive, ShowFrame, netVars
  <2>2. clientUp /\ conns = 1 => Quiet
      BY <1>2, <1>10 DEF BeginReceive, ShowFrame, Requested, Answering, Responded, Waiting,
                         RtspRequest
  <2> QED BY <1>1, <2>1, <2>2 DEF Quiet
<1>11. CASE CollectSocket /\ UNCHANGED clientVars
    BY <1>1, <1>11 DEF CollectSocket, NeverAccepted, clientVars
<1> QED BY <1>3, <1>5, <1>6, <1>8, <1>9, <1>10, <1>11
        DEF ClientNext, Buttons, ResponseStep, FrameStep

LEMMA HandshakeStep ==
    ASSUME TypeOK, ServerProgress, ClientProgress, Handshake, [Next]_vars
    PROVE  Handshake'
<1>1. CASE UNCHANGED vars
    BY <1>1 DEF vars, netVars, serverVars, clientVars, Handshake, Quiet, Requested, Answering,
                Responded, Waiting, Replying, ServerView
<1> QED BY <1>1, HandshakeServerStep, HandshakeClientStep DEF Next

---------------------------------------------------------------------------
LEMMA InitIInv == Init => IInv
<1> SUFFICES ASSUME Init PROVE IInv
    OBVIOUS
<1>1. ServerProgress /\ TimerProgress
    BY DEF Init, NetInit, ServerInit, ServerProgress, TimerProgress, TimerOff, TimerOn,
           BeforeRtp, BeforeSession
<1>2. ClientProgress
    BY DEF Init, NetInit, ClientInit, ClientProgress, NewTimer
<1>3. Handshake
    BY DEF Init, NetInit, ServerInit, Handshake, BeforeSession
<1>4. FramesOnTheWay
    BY DEF Init, NetInit, ServerInit, ClientInit, FramesOnTheWay
<1> QED BY <1>1, <1>2, <1>3, <1>4, InitTypes DEF IInv

(* The reachable states of every instance satisfy the inductive invariant: *)
(* positions of the four threads, the request under way and the frames on  *)
(* their way fit together.                                                 *)
THEOREM Invariance == Spec => []IInv
<1>1. IInv /\ [Next]_vars => IInv'
    BY TypeStep, ServerProgressStep, TimerProgressStep, ClientProgressStep, HandshakeStep,
       FramesStep
    DEF IInv
<1> QED BY InitIInv, <1>1, PTL DEF Spec

---------------------------------------------------------------------------
(* A response under way is the only message under way and answers the      *)
(* request the client waits for.                                           *)
THEOREM RepliesMatch == Spec => []ReplyMatchesRequest
<1>1. ASSUME IInv PROVE ReplyMatchesRequest
  <2>1. SUFFICES ASSUME clientUp, conns = 1
                 PROVE  /\ Len(requests) + Len(responses) + Count(Replying) <= Count(Waiting)
                        /\ responses # << >> => Head(responses).cseq = cSeqNb
      BY DEF ReplyMatchesRequest
  <2>2. CASE Quiet
      BY <2>2 DEF Quiet, Count
  <2>3. CASE Requested
    <3>1. Len(requests) = 1 /\ Len(responses) = 0
        BY <2>3 DEF Requested
    <3> QED BY <2>3, <3>1 DEF Requested, Count
  <2>4. CASE Answering
      BY <2>4 DEF Answering, Count
  <2>5. CASE Responded
    <3>1. Len(responses) = 1 /\ Len(requests) = 0 /\ Head(responses).cseq = cSeqNb
        BY <2>5 DEF Responded
    <3> QED BY <2>5, <3>1 DEF Responded, Count
  <2> QED BY <1>1, <2>1, <2>2, <2>3, <2>4, <2>5 DEF IInv, Handshake
<1> QED BY Invariance, <1>1, PTL

(* With no request under way and the server's main thread back in its      *)
(* reading loop, client and server are in the same RTSP state.             *)
THEOREM Agreement == Spec => []StatesAgree
<1>1. ASSUME IInv PROVE StatesAgree
  <2> SUFFICES ASSUME clientUp, conns = 1, ~Waiting, Reading PROVE sState = cState
      BY DEF StatesAgree
  <2>1. Quiet
      BY <1>1 DEF IInv, Handshake, Requested, Answering, Responded
  <2> QED BY <1>1, <2>1 DEF IInv, ServerProgress, Quiet, ServerView, Reading
<1> QED BY Invariance, <1>1, PTL

(* No later connection replaces an established session, and SETUP never    *)
(* binds the RTP port twice.                                               *)
THEOREM SessionKept == Spec => []SessionIsKept
<1>1. IInv => SessionIsKept
    BY DEF IInv, ClientProgress, SessionIsKept, Idle
<1> QED BY Invariance, <1>1, PTL

(* Back in its loop the main thread finds the timer running in state       *)
(* PLAYING, while there are frames to send, and stopped otherwise; the     *)
(* timer's handler never runs without a socket, and meets a closed one     *)
(* only after a TEARDOWN was answered.                                     *)
THEOREM TimerFollows == Spec => []TimerFollowsState
<1>1. IInv => TimerFollowsState
    BY DEF IInv, ServerProgress, TimerProgress, TimerOff, TimerOn, TimerFollowsState, Reading,
           NewTimer, BeforeRtp, BeforeSession
<1> QED BY Invariance, <1>1, PTL

(* Only ShowFrame changes what is shown.                                   *)
LEMMA OnlyShowFrame ==
    ASSUME [Next]_vars, shown' # shown
    PROVE  ShowFrame
<1>1. CASE ClientNext
    BY <1>1 DEF ClientNext, Buttons, ResponseStep, FrameStep, Connect, Setup, Play, Pause,
                Teardown, NextRequest, SendRequest, RequestFails, SetupDone, PlayDone,
                PauseDone, TeardownDone, ResponseFails, Receives, ClientTick,
                BeginReceive, ClientWindowClosing, ClientKilled, ClientExit,
                CollectSocket, netVars, clientVars
<1>2. CASE UNCHANGED clientVars
    BY <1>2 DEF clientVars
<1> QED BY <1>1, <1>2 DEF Next, vars

(* The client never shows a frame older than the one it showed last, and   *)
(* shows frames in state PLAYING only.                                     *)
THEOREM NewerFrames == Spec => FramesInOrder
<1>1. ASSUME IInv, [Next]_vars
      PROVE  shown' # shown => shown' > shown /\ cState = "PLAYING"
  <2> SUFFICES ASSUME shown' # shown PROVE shown' > shown /\ cState = "PLAYING"
      OBVIOUS
  <2>0. cState = "PLAYING"
      BY <1>1, OnlyShowFrame DEF ShowFrame, IInv, ClientProgress
  <2>1. rtp \in Seq(Nat) /\ rtp # << >> /\ shown' = rtp[1]
      BY <1>1, OnlyShowFrame, HeadTailProperties DEF ShowFrame, IInv, TypeOK, NetTypeOK
  <2>2. 1 \in 1..Len(rtp)
      BY <2>1, LenProperties, EmptySeq
  <2>3. shown \in Nat /\ rtp[1] \in Nat /\ shown < rtp[1]
      BY <1>1, <2>1, <2>2, ElementOfSeq DEF IInv, TypeOK, ClientTypeOK, FramesOnTheWay
  <2> QED BY <2>0, <2>1, <2>3
<1> QED BY Invariance, <1>1, PTL DEF Spec, FramesInOrder

(* While the client is paused and the server done with the PAUSE, the      *)
(* timer's handler is not entered; one already entered takes a last frame  *)
(* from the video at most.                                                 *)
THEOREM PauseIsHeld == Spec => PauseHolds
<1>1. ASSUME IInv, [Next]_vars
      PROVE  clientUp /\ ~Waiting /\ cState = "READY" /\ main = "serve"
                /\ sEdt \in {"idle", "done"}
             => sEdt' \in {"idle", "done"} /\ imagenb' = imagenb
  <2> SUFFICES ASSUME clientUp, ~Waiting, cState = "READY", main = "serve",
                      sEdt \in {"idle", "done"}
               PROVE  sEdt' \in {"idle", "done"} /\ imagenb' = imagenb
      OBVIOUS
  <2>1. Quiet
      BY <1>1 DEF IInv, ClientProgress, Handshake, Requested, Answering, Responded
  <2>2. sTimer = NewTimer
      BY <1>1, <2>1 DEF IInv, TimerProgress, TimerOff, Quiet, ServerView
  <2>3. ~BeginEvent /\ ~NextFrame /\ ~SendFrame /\ ~EndOfVideo
      BY <2>2 DEF BeginEvent, NextFrame, SendFrame, EndOfVideo, NewTimer
  <2>4. CASE ServerNext
      BY <2>3, <2>4 DEF ServerNext, MainStep, EdtStep, netVars, serverVars, Bind, Accept,
                  CloseListen, ReadRequest, ReadEndOfStream, ReplyFails, TearExit, SendFails,
                  ServerWindowClosing, ServerExit, SetupReply, PlayReply, PauseReply,
                  TearReply, SendResponse, OpenRtp, StartTimer, PauseStop, TearStop, StopTimer,
                  PlayState, PauseState, UpdateState, CloseSockets, ServerTick, EventDone
  <2>5. CASE UNCHANGED serverVars
      BY <2>5 DEF serverVars
  <2> QED BY <1>1, <2>4, <2>5 DEF Next, vars
<1> QED BY Invariance, <1>1, PTL DEF Spec, PauseHolds

---------------------------------------------------------------------------
(* The refinement of the lock-step session.                                *)

SessionServer == IF serverUp THEN ServerView ELSE "GONE"
SessionClient == CASE ~clientUp                   -> "GONE"
                   [] clientUp /\ cState = "NULL" -> "INIT"
                   [] OTHER                       -> cState
SessionAnswer == IF responses = << >> THEN "none" ELSE Outcome(cEdt)
sessionVars   == <<SessionServer, SessionClient, SessionAnswer>>

LEMMA SessionServerStep ==
    ASSUME IInv, IInv', ServerNext, UNCHANGED clientVars
    PROVE  Session!Next \/ UNCHANGED sessionVars
<1> USE DEF SessionServer, SessionClient, SessionAnswer, sessionVars, IInv
<1>1. CASE ReadEndOfStream \/ ReplyFails \/ TearExit \/ SendFails \/ ServerWindowClosing
  <2>1. Session!ServerLeaves
      BY <1>1, ExitFrame DEF Session!ServerLeaves, clientVars
  <2> QED BY <2>1 DEF Session!Next
<1>2. CASE SetupReply \/ PlayReply \/ PauseReply \/ TearReply
  <2>1. /\ serverUp /\ serverUp' /\ conns = 1
        /\ UNCHANGED <<clientUp, sState, cState, cEdt>> /\ ~dropped
      BY <1>2 DEF SetupReply, PlayReply, PauseReply, TearReply, SendResponse, Main,
                  Handshake, clientVars, BeforeSession
  <2>2. <<ServerView, ServerView'>> \in Session!Legal /\ ServerView' \in {"READY", "PLAYING", "GONE"}
    <3> USE <2>1 DEF Main, ServerView, ServerProgress, Session!Legal
    <3>1. CASE SetupReply BY <3>1 DEF SetupReply
    <3>2. CASE PlayReply BY <3>2 DEF PlayReply
    <3>3. CASE PauseReply BY <3>3 DEF PauseReply
    <3>4. CASE TearReply BY <3>4 DEF TearReply
    <3> QED BY <1>2, <3>1, <3>2, <3>3, <3>4
  <2>3. CASE clientUp
    <3>1. Answering
        BY <1>2, <2>1, <2>3 DEF SetupReply, PlayReply, PauseReply, TearReply, Main, Handshake,
            Quiet, Requested, Responded, Replying
    <3>2. responses' # << >>
      <4>1. SendResponse /\ ~ClientEndClosed
          BY <1>2, <2>1, <2>3
          DEF SetupReply, PlayReply, PauseReply, TearReply, ClientEndClosed
      <4>2. responses' = Append(<< >>, [cseq |-> sSeqNb])
          BY <3>1, <4>1 DEF SendResponse, Answering
      <4> QED BY <4>2
    <3>3. Responded'
        BY <2>1, <2>3, <3>2 DEF Handshake, Quiet, Requested, Answering
    <3>4. ServerView' = Outcome(cEdt)
        BY <2>1, <3>3 DEF Responded, Outcome
    <3>5. cState # "NULL" /\ ServerView = cState
        BY <2>1, <3>1 DEF Answering, ClientProgress
    <3>6. Session!Answer
        BY <2>1, <2>2, <2>3, <3>1, <3>2, <3>4, <3>5 DEF Session!Answer, Answering
    <3> QED BY <3>6 DEF Session!Next
  <2>4. CASE ~clientUp
    <3>1. UNCHANGED responses
        BY <1>2, <2>4 DEF SetupReply, PlayReply, PauseReply, TearReply, SendResponse,
                          ClientEndClosed
    <3>2. Session!AnswerLost
        BY <2>1, <2>2, <2>4, <3>1 DEF Session!AnswerLost
    <3> QED BY <3>2 DEF Session!Next
  <2> QED BY <2>3, <2>4
<1>3. CASE ReadRequest
  <2>1. UNCHANGED <<serverUp, clientUp, responses, cState, cEdt>>
      BY <1>3 DEF ReadRequest, clientVars
  <2>2. ServerView' = ServerView
      BY <1>3 DEF ReadRequest, Branch, ServerView, ServerProgress
  <2> QED BY <2>1, <2>2
<1>4. CASE \/ Bind \/ Accept \/ CloseListen \/ OpenRtp \/ StartTimer \/ PauseStop \/ TearStop
           \/ PlayState \/ PauseState \/ CloseSockets
  <2>1. UNCHANGED <<serverUp, clientUp, responses, cState, cEdt>>
      BY <1>4 DEF Bind, Accept, CloseListen, OpenRtp, StartTimer, PauseStop, TearStop,
                  StopTimer, PlayState, PauseState, UpdateState, CloseSockets, netVars,
                  clientVars
  <2>2. ServerView' = ServerView
      BY <1>4 DEF Bind, Accept, CloseListen, OpenRtp, StartTimer, PauseStop, TearStop,
                  StopTimer, PlayState, PauseState, UpdateState, CloseSockets, Main,
                  ServerView, ServerProgress
  <2> QED BY <2>1, <2>2
<1>5. CASE ServerTick \/ BeginEvent \/ NextFrame \/ EndOfVideo \/ SendFrame \/ EventDone
    BY <1>5 DEF ServerTick, BeginEvent, NextFrame, EndOfVideo, SendFrame, EventDone, netVars,
                clientVars, ServerView
<1> QED BY <1>1, <1>2, <1>3, <1>4, <1>5 DEF ServerNext, MainStep, EdtStep

LEMMA SessionClientStep ==
    ASSUME IInv, ClientNext, UNCHANGED serverVars
    PROVE  Session!Next \/ UNCHANGED sessionVars
<1> USE DEF SessionServer, SessionClient, SessionAnswer, sessionVars, IInv
<1>1. UNCHANGED SessionServer
    BY ClientFrame DEF ServerView, serverVars
<1>2. ASSUME clientUp, conns # 1 \/ cEdt \in {"idle", "receive"} PROVE responses = << >>
    BY <1>2 DEF Handshake, Quiet, Requested, Answering, Responded, Waiting, RtspRequest
<1>3. ASSUME ClientExit, clientUp PROVE Session!ClientLeaves
    BY <1>1, <1>3 DEF Session!ClientLeaves, ClientExit, clientVars
<1>4. CASE Connect
  <2>1. cState \in {"NULL", "INIT"}
      BY <1>4 DEF Connect, ClientProgress, ServerProgress, TypeOK, ClientTypeOK, RtspState
  <2> QED BY <1>1, <1>4, <2>1 DEF Connect, Idle
<1>5. ASSUME NEW type, Idle, SendRequest(type) PROVE UNCHANGED sessionVars
    BY <1>1, <1>2, <1>5 DEF SendRequest, Idle
<1>6. CASE (Setup /\ ~cRtp) \/ Play \/ Pause \/ Teardown
    BY <1>5, <1>6 DEF Setup, Play, Pause, Teardown, NextRequest
<1>7. CASE \/ (Setup /\ cRtp) \/ RequestFails \/ ResponseFails
           \/ ClientWindowClosing \/ ClientKilled
    BY <1>3, <1>7 DEF Setup, RequestFails, ResponseFails, ClientWindowClosing, ClientKilled,
                      Idle, Session!Next
<1>8. ASSUME NEW type \in RtspRequest, Receives(type),
             SessionClient' = Outcome(type)
      PROVE  Session!Follow
  <2>1. Responded /\ cEdt = type
      BY <1>8, ResponseComesLate DEF Receives
  <2>2. responses # << >> /\ responses' = << >>
      BY <1>8, <2>1 DEF Responded, Receives
  <2>3. Outcome(type) # "none"
      BY DEF Outcome
  <2> QED BY <1>1, <1>8, <2>1, <2>2, <2>3 DEF Session!Follow
<1>9. CASE SetupDone \/ PlayDone \/ PauseDone \/ TeardownDone
    BY <1>8, <1>9 DEF SetupDone, PlayDone, PauseDone, TeardownDone, Receives, Outcome,
                      RtspRequest, Session!Next
<1>10. CASE ClientTick \/ (CollectSocket /\ UNCHANGED clientVars)
    BY <1>1, <1>10 DEF ClientTick, CollectSocket, netVars, clientVars
<1>11. CASE BeginReceive \/ ShowFrame
  <2>1. UNCHANGED <<clientUp, responses, cState>> /\ responses = << >>
      BY <1>2, <1>11 DEF BeginReceive, ShowFrame, Idle, netVars
  <2> QED BY <1>1, <2>1
<1> HIDE DEF SessionServer, SessionClient, SessionAnswer, sessionVars, IInv
<1> QED BY <1>4, <1>6, <1>7, <1>9, <1>10, <1>11
        DEF ClientNext, Buttons, ResponseStep, FrameStep

(* The demo implements the lock-step session: the server answers only when *)
(* both sides agree, and the client takes exactly the step answered.       *)
THEOREM Refinement == Spec => LockStep
<1>1. Init => Session!Init
    BY DEF Init, NetInit, ServerInit, ClientInit, Session!Init, ServerView
<1>2. ASSUME IInv, IInv', [Next]_vars PROVE [Session!Next]_(Session!vars)
  <2>1. CASE UNCHANGED vars
      BY <2>1 DEF vars, netVars, serverVars, clientVars, Session!vars, ServerView
  <2> QED BY <1>2, <2>1, SessionServerStep, SessionClientStep
          DEF Next, Session!vars, sessionVars, SessionServer, SessionClient, SessionAnswer
<1> QED BY Invariance, <1>1, <1>2, PTL DEF Spec, LockStep, Session!Spec

(* The client's state follows the transitions of the RTSP state chart.     *)
THEOREM ChartFollowed == Spec => FollowsChart
<1>1. Init => Chart!Init
    BY DEF Init, ClientInit, Chart!Init
<1>2. ASSUME IInv, [Next]_vars
      PROVE  [Chart!Next]_(CASE cState = "READY"   -> "ready"
                             [] cState = "PLAYING" -> "playing"
                             [] OTHER              -> "init")
  <2> USE DEF Chart!Next, Chart!SetupResponse, Chart!PlayResponse, Chart!PauseResponse,
              Chart!TeardownResponse
  <2>1. CASE UNCHANGED cState
      BY <2>1
  <2>2. CASE Connect
      BY <1>2, <2>2 DEF Connect, IInv, ClientProgress, ServerProgress
  <2>3. CASE SetupDone
      BY <1>2, <2>3 DEF SetupDone, Receives, IInv, ClientProgress
  <2>4. CASE PlayDone
      BY <1>2, <2>4 DEF PlayDone, Receives, IInv, ClientProgress
  <2>5. CASE PauseDone
      BY <1>2, <2>5 DEF PauseDone, Receives, IInv, ClientProgress
  <2>6. CASE TeardownDone
      BY <2>6 DEF TeardownDone
  <2>7. CASE ClientNext /\ ~Connect /\ ~SetupDone /\ ~PlayDone /\ ~PauseDone /\ ~TeardownDone
    <3>1. UNCHANGED cState
        BY <2>7 DEF ClientNext, Buttons, ResponseStep, FrameStep, Setup, Play, Pause, Teardown,
                    NextRequest, SendRequest, RequestFails, ResponseFails, ClientTick,
                    BeginReceive, ShowFrame, ClientWindowClosing, ClientKilled, ClientExit,
                    CollectSocket, netVars, clientVars
    <3> QED BY <2>1, <3>1
  <2>8. UNCHANGED clientVars => UNCHANGED cState
      BY DEF clientVars
  <2> QED BY <1>2, <2>1, <2>2, <2>3, <2>4, <2>5, <2>6, <2>7, <2>8 DEF Next, vars
<1> QED BY Invariance, <1>1, <1>2, PTL DEF Spec, FollowsChart, Chart!Spec
===========================================================================
