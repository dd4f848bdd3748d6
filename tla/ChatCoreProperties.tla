-------------------------- MODULE ChatCoreProperties --------------------------
(* What is claimed of ChatCore.                                              *)
EXTENDS ChatCore, JsonStream

(* Every variable has its type, and the bus and the queue of the worker hold *)
(* no more than their depth (chat_bus.c:42, coze_client.c:193).              *)
TypeOK ==
    /\ core \in [state : States, mode : Modes, pressed : BOOLEAN,
                 wait : BOOLEAN, idle : Nat, backoff : Nat, press : Nat]
    /\ at \in {"loop", "netmgr", "open"}
    /\ bus \in Seq(Events) /\ Len(bus) <= BusDepth
    /\ mode \in Modes
    /\ net \in [up : BOOLEAN, asked : BOOLEAN, activating : BOOLEAN]
    /\ ws \in [sock : {"closed", "opening", "open"}, mode : Modes, owes : BOOLEAN,
               report : BOOLEAN, connecting : BOOLEAN]
    /\ rx \in Seq(Chunks) /\ Len(rx) <= RxDepth
    /\ hand \in Chunks \union {"none"}
    /\ audio \in [active : BOOLEAN, ptt : BOOLEAN, mode : Modes]
    /\ button \in [down : BOOLEAN, irq : BOOLEAN,
                   last : {"none", "BUTTON_PRESSED", "BUTTON_RELEASED"}]
    /\ lost \in BOOLEAN
    /\ left \in [edges : Nat, inputs : Nat]

(* The microphone and the loudspeaker are in use in a conversation and at no *)
(* other time, whatever way it ended or was started, a late WS_CONNECTED     *)
(* included (chatbot_types.h:15, chat_core.c:155).                           *)
AudioFollowsState == audio.active <=> core.state = "ACTIVE"

(* The uplink takes the button for pressed only in a session of the button   *)
(* that is under way, while the core saw a press and no release since, and   *)
(* not during the press that woke the device (chat_core.c:107-136).          *)
PttFollowsButton ==
    audio.ptt => /\ core.state = "ACTIVE" /\ core.pressed /\ ~core.wait
                 /\ core.mode = "BUTTON" /\ audio.mode = "BUTTON"

(* Who decides when the user has finished is the same for the core task, for *)
(* the uplink and for the cloud, which learns it from chat.update when the   *)
(* websocket opens (coze_session.c:35, coze_client.c:431).                   *)
TurnModeAgrees ==
    audio.active /\ ws.sock = "open" => core.mode = audio.mode /\ audio.mode = ws.mode

(* As long as the cloud has not answered chat.update of this connection, the *)
(* queue of the worker holds no answer of an earlier one: what can survive a *)
(* reset is the one chunk the worker has taken (coze_client.c:263-281).      *)
StreamIsFresh ==
    ws.sock = "open" /\ ws.owes => \A i \in DOMAIN rx : rx[i] # "WS_CONNECTED"

(* No answer of the modem is on its way that would clear g_net_activating.   *)
StaleActivating == net.activating /\ ~net.asked /\ at # "netmgr"

(* CONNECTING has no timeout (chat_core.c:298).  It ends all the same, unless*)
(* a request was refused or failed, chat.update stayed without an answer, an *)
(* event was dropped, or g_net_activating was set after the callback that    *)
(* should have cleared it (net_mgr.c:165).                                   *)
ConnectingResolves ==
    core.state = "CONNECTING" ~> (core.state # "CONNECTING" \/ lost \/ StaleActivating)

Unused ==
    core.state = "ACTIVE" /\ (ws.sock = "closed" \/ (audio.mode = "BUTTON" /\ ~audio.ptt))

(* A conversation without a websocket ends, one that a late WS_CONNECTED     *)
(* started included, and so does one of the button in which nobody talks.    *)
(* In VOICE mode the uplink keeps the idle time at zero (coze_audio_task.c:  *)
(* 398-402), so nothing is said of it.                                       *)
UnusedSessionEnds == Unused ~> ~Unused

(* However the cloud's events are cut into parts, the worker that starts    *)
(* with an empty buffer dispatches each of them once, whole and in order:   *)
(* "按 JSON 对象边界重组后再分发" (coze_client.c:57-58).                    *)
EventsAreWhole ==
    core.state = "IDLE" /\ at = "loop" /\ left = [edges |-> MaxEdges, inputs |-> MaxInputs]
      /\ bus = <<>> /\ ~net.up /\ ~net.asked =>
        \A one \in Objects, two \in Objects, blank \in {<<>>, <<"x">>} :
            LET text == one \o blank \o two
            IN  \A j \in 0 .. Len(text) : \A i \in 0 .. j :
                    Received(Parts(text, i, j)) = <<one, two>>
=============================================================================
