---------------------------- MODULE RtspSession ----------------------------
(***************************************************************************)
(* What client and server together promise about an RTSP session: they     *)
(* move in lock step.  The server answers only when the two agree, the     *)
(* answer takes the session one step further, and the client follows       *)
(* exactly that step.  Either may leave at any time.                       *)
(***************************************************************************)

VARIABLES
    server,     \* state of the session as the server sees it
    client,     \* as the client sees it
    answer      \* the state the answer under way leads to, or "none"

vars == <<server, client, answer>>

Legal == {<<"INIT", "READY">>, <<"READY", "PLAYING">>, <<"PLAYING", "READY">>,
          <<"READY", "GONE">>, <<"PLAYING", "GONE">>}

Init == server = "INIT" /\ client = "INIT" /\ answer = "none"

Answer ==
    /\ answer = "none"
    /\ client = server
    /\ \E next \in {"READY", "PLAYING", "GONE"} :
          /\ <<server, next>> \in Legal
          /\ server' = next /\ answer' = next
    /\ UNCHANGED client

(* The answer goes nowhere: there is no client left to receive it.         *)
AnswerLost ==
    /\ client = "GONE"
    /\ \E next \in {"READY", "PLAYING", "GONE"} :
          <<server, next>> \in Legal /\ server' = next
    /\ UNCHANGED <<client, answer>>

Follow ==
    /\ answer # "none"
    /\ client' = answer /\ answer' = "none"
    /\ UNCHANGED server

ServerLeaves == server' = "GONE" /\ UNCHANGED <<client, answer>>
ClientLeaves == client' = "GONE" /\ UNCHANGED <<server, answer>>

Next == Answer \/ AnswerLost \/ Follow \/ ServerLeaves \/ ClientLeaves

Spec == Init /\ [][Next]_vars
===========================================================================
