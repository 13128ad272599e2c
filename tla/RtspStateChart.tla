-------------------------- MODULE RtspStateChart --------------------------
(***************************************************************************)
(* The state chart of StopWatchStateMachineDemo/src/rtsp-server.xml, which *)
(* says how an RTSP session reacts to the responses it receives.           *)
(* RtspStateMachine interprets it; an event no transition of the current   *)
(* state names is ignored.                                                 *)
(***************************************************************************)

VARIABLE state

ChartStates == {"init", "ready", "recording", "playing"}

Init == state = "init"

SetupResponse ==
    state' = IF state = "init" THEN "ready" ELSE state

TeardownResponse == state' = "init"

PlayResponse ==
    /\ state \in {"ready", "playing"}
    /\ state' = "playing"

RecordResponse ==
    /\ state \in {"ready", "recording"}
    /\ state' = "recording"

PauseResponse ==
    /\ state \in {"playing", "recording"}
    /\ state' = "ready"

RequestTimeout == state' = "init"

Next ==
    \/ SetupResponse \/ TeardownResponse
    \/ PlayResponse \/ RecordResponse \/ PauseResponse
    \/ RequestTimeout

Spec == Init /\ [][Next]_state
===========================================================================
