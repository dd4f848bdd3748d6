------------------------------- MODULE ChatCore -------------------------------
(***************************************************************************)
(* The conversation of voice_chatbot: the core task (core/chat_core.c)     *)
(* with its bus, the PDP activation (network/net_mgr.c), the session       *)
(* (network/coze_session.c), the websocket client and its worker           *)
(* (network/coze_client.c) and the talk button (peripherals/talk_button.c).*)
(*                                                                         *)
(* The core task takes one event at a time and ticks when none came for a  *)
(* second.  Everyone else only posts.  Two of its calls start something    *)
(* whose callback clears a flag, and set that flag after the call: between *)
(* the two the task is at "netmgr" or at "open", and the callback may run. *)
(*                                                                         *)
(* The modem, the websocket library, the cloud and the finger on the       *)
(* button are the environment.  The audio tasks appear as three flags and  *)
(* as the activity they report; AudioPath models them.  Nobody posts       *)
(* NET_LOST or SERVER_ERROR, and a tool call changes nothing here: their   *)
(* handlers are left out.  So is the substate, which nothing reads: "TALK" *)
(* stands for SPEECH_STARTED, SPEECH_STOPPED, SERVER_TEXT and              *)
(* CHAT_COMPLETED, which differ in it only.                                *)
(***************************************************************************)
EXTENDS Integers, Sequences

CONSTANTS
    BusDepth,      \* CHATBOT_BUS_QUEUE_DEPTH
    RxDepth,       \* CHATBOT_PROTO_WORKER_QUEUE_DEPTH
    IdleTicks,     \* CHATBOT_SESSION_IDLE_TIMEOUT_MS, in ticks
    BackoffTicks,  \* CHATBOT_RECONNECT_BACKOFF_MS, in ticks
    PressTicks,    \* CHATBOT_TALK_BUTTON_LONG_PRESS_MS, in ticks, rounded up
    MaxEdges,      \* times the button goes down or up
    MaxInputs      \* wake words, losses of the network or of the websocket, and messages
                   \* of the cloud that answer nothing, in all

ASSUME ChatAssumption ==
    /\ {BusDepth, RxDepth, IdleTicks, BackoffTicks, PressTicks} \subseteq Nat \ {0}
    /\ {MaxEdges, MaxInputs} \subseteq Nat

VARIABLES
    core,    \* the statics of chat_core.c
    at,      \* where the core task is
    bus,     \* the event bus
    mode,    \* g_session_mode of coze_session.c
    net,     \* the modem's PDP context, and g_net_activating
    ws,      \* the websocket, and g_client_connecting
    rx,      \* the queue of the worker
    hand,    \* the chunk the worker has taken from it
    audio,   \* g_audio_active, g_ptt_pressed, g_session_mode of coze_audio_task.c
    button,  \* the level of the button, and the statics of talk_button.c
    lost,    \* history: something the connection waits for failed without an event
    left     \* what remains of the bounds

link == <<mode, net, ws>>
down == <<rx, hand>>
vars == <<core, at, bus, link, down, audio, button, lost, left>>

States == {"IDLE", "CONNECTING", "ACTIVE", "ERROR"}
Modes  == {"VOICE", "BUTTON"}

Chunks == {"TALK", "WS_CONNECTED", "AUDIO_DELTA", "RESET"}

(* The events a connection waits for, and all of them.                      *)
Reports == {"NET_READY", "WS_CONNECTED", "WS_CONNECT_FAILED", "WS_DISCONNECTED"}
Events  == Reports \union {"TALK", "WAKE_DETECTED", "BUTTON_PRESSED", "BUTTON_RELEASED"}

Silent(m) == [active |-> FALSE, ptt |-> FALSE, mode |-> m]

Init ==
    /\ core = [state |-> "IDLE", mode |-> "VOICE", pressed |-> FALSE,
               wait |-> FALSE, idle |-> 0, backoff |-> 0, press |-> 0]
    /\ at = "loop" /\ bus = <<>> /\ mode = "VOICE"
    /\ net \in [up : BOOLEAN, asked : {FALSE}, activating : {FALSE}]
    /\ ws = [sock |-> "closed", mode |-> "VOICE", owes |-> FALSE, report |-> FALSE,
             connecting |-> FALSE]
    /\ rx = <<>> /\ hand = "none"
    /\ audio = Silent("VOICE")
    /\ button = [down |-> FALSE, irq |-> FALSE, last |-> "none"]
    /\ lost = FALSE
    /\ left = [edges |-> MaxEdges, inputs |-> MaxInputs]

-----------------------------------------------------------------------------
(* chat_bus                                                                 *)

BusFull == Len(bus) >= BusDepth

(* Posts whatever the length of the queue.                                  *)
chat_bus_post_event_Wrong(e) == bus' = Append(bus, e) /\ UNCHANGED lost

chat_bus_post_event(e) ==
    /\ bus' = IF BusFull THEN bus ELSE Append(bus, e)
    /\ lost' = IF BusFull /\ e \in Reports THEN TRUE ELSE lost

(* chat_bus_wait_event returned e.                                          *)
Take(e) == at = "loop" /\ bus # <<>> /\ Head(bus) = e /\ bus' = Tail(bus)

-----------------------------------------------------------------------------
(* coze_session, as the core task calls it                                  *)

Activate ==
    \/ /\ net.activating /\ at' = at /\ UNCHANGED <<net, lost>>
    \/ /\ ~net.activating /\ at' = at /\ lost' = TRUE       \* not attached, or refused
       /\ UNCHANGED net
    \/ /\ ~net.activating /\ at' = "netmgr" /\ net' = [net EXCEPT !.asked = TRUE]
       /\ UNCHANGED lost

(* The library refuses to open a client that is in use, and may refuse any. *)
coze_client_connect ==
    \/ /\ ws.connecting /\ at' = at /\ UNCHANGED <<ws, lost>>
    \/ /\ ~ws.connecting /\ at' = at /\ lost' = TRUE /\ UNCHANGED ws
    \/ /\ ~ws.connecting /\ ws.sock = "closed"
       /\ at' = "open" /\ ws' = [ws EXCEPT !.sock = "opening"] /\ UNCHANGED lost

(* Keeps the mode of the last session when the websocket can be opened at   *)
(* once.                                                                    *)
coze_session_request_start_Wrong(m) ==
    /\ mode' = IF net.up THEN mode ELSE m
    /\ \/ ~net.up /\ Activate /\ UNCHANGED ws
       \/ net.up /\ coze_client_connect /\ UNCHANGED net

coze_session_request_start(m) ==
    /\ mode' = m
    /\ \/ ~net.up /\ Activate /\ UNCHANGED ws
       \/ net.up /\ coze_client_connect /\ UNCHANGED net

(* Closes the websocket but leaves the audio tasks active.                  *)
coze_session_stop_Wrong(m) ==
    /\ UNCHANGED audio
    /\ \E report \in BOOLEAN :
         ws' = [ws EXCEPT !.sock = "closed", !.owes = FALSE, !.connecting = FALSE,
                          !.report = IF report /\ ws.sock # "closed" THEN TRUE ELSE @]

(* Whether the library reports a close it was asked for is open.            *)
coze_session_stop(m) ==
    /\ audio' = Silent(m)
    /\ \E report \in BOOLEAN :
         ws' = [ws EXCEPT !.sock = "closed", !.owes = FALSE, !.connecting = FALSE,
                          !.report = IF report /\ ws.sock # "closed" THEN TRUE ELSE @]

-----------------------------------------------------------------------------
(* chat_core_handle_event                                                   *)

(* Leaves IDLE for a new session.                                           *)
Request(m, wait) ==
    /\ core' = [core EXCEPT !.state = "CONNECTING", !.mode = m, !.wait = wait,
                            !.press = IF wait THEN 0 ELSE @]
    /\ coze_session_request_start(m)

HandleWake ==
    /\ Take("WAKE_DETECTED")
    /\ \/ core.state = "IDLE" /\ Request("VOICE", FALSE)
       \/ core.state # "IDLE" /\ UNCHANGED <<core, at, link, lost>>
    /\ UNCHANGED <<down, audio, button, left>>

(* Talks as soon as the button is down, also with the press that woke it.   *)
PressTalks_Wrong == core.state = "ACTIVE" /\ core.mode = "BUTTON"

PressTalks == core.state = "ACTIVE" /\ core.mode = "BUTTON" /\ ~core.wait

HandlePressed ==
    /\ Take("BUTTON_PRESSED")
    /\ LET c == [core EXCEPT !.pressed = TRUE, !.press = 0]
       IN \/ /\ PressTalks
             /\ core' = [c EXCEPT !.idle = 0]
             /\ audio' = [audio EXCEPT !.ptt = TRUE]
          \/ /\ ~PressTalks
             /\ core' = c
             /\ UNCHANGED audio
    /\ UNCHANGED <<at, link, down, button, lost, left>>

HandleReleased ==
    /\ Take("BUTTON_RELEASED")
    /\ LET c == [core EXCEPT !.pressed = FALSE, !.press = 0]
           ends == core.state = "ACTIVE" /\ core.mode = "BUTTON" /\ core.pressed
       IN \/ /\ core.wait
             /\ core' = [c EXCEPT !.wait = FALSE, !.idle = 0]
             /\ UNCHANGED audio
          \/ /\ ~core.wait /\ ends
             /\ core' = [c EXCEPT !.idle = 0]
             /\ audio' = [audio EXCEPT !.ptt = FALSE]
          \/ /\ ~core.wait /\ ~ends
             /\ core' = c
             /\ UNCHANGED audio
    /\ UNCHANGED <<at, link, down, button, lost, left>>

(* Waits for the next wake word instead of asking again.                    *)
HandleNetReady_Wrong ==
    /\ Take("NET_READY")
    /\ UNCHANGED <<core, at, link, lost, down, audio, button, left>>

HandleNetReady ==
    /\ Take("NET_READY")
    /\ \/ core.state = "CONNECTING" /\ coze_session_request_start(core.mode)
       \/ core.state # "CONNECTING" /\ UNCHANGED <<at, link, lost>>
    /\ UNCHANGED <<core, down, audio, button, left>>

Fail(c, m) == core' = [c EXCEPT !.state = "ERROR", !.backoff = 0] /\ coze_session_stop(m)

(* In every state.  The codec or a stream may fail to start.                *)
HandleConnected ==
    /\ Take("WS_CONNECTED")
    /\ \/ /\ core' = [core EXCEPT !.state = "ACTIVE", !.idle = 0]
          /\ audio' = [active |-> TRUE, ptt |-> FALSE, mode |-> mode]
          /\ UNCHANGED ws
       \/ Fail(core, mode)
    /\ UNCHANGED <<at, mode, net, down, button, lost, left>>

HandleClosed(e) ==
    /\ Take(e)
    /\ Fail([core EXCEPT !.wait = FALSE], audio.mode)
    /\ UNCHANGED <<at, mode, net, down, button, lost, left>>

HandleTalk ==
    /\ Take("TALK")
    /\ core' = IF core.state = "ACTIVE" THEN [core EXCEPT !.idle = 0] ELSE core
    /\ UNCHANGED <<at, link, down, audio, button, lost, left>>

HandleEvent ==
    \/ HandleWake \/ HandlePressed \/ HandleReleased \/ HandleNetReady \/ HandleConnected
    \/ \E e \in {"WS_CONNECT_FAILED", "WS_DISCONNECTED"} : HandleClosed(e)
    \/ HandleTalk

(* The assignments after the two asynchronous calls.                        *)
SetActivating ==
    /\ at = "netmgr" /\ at' = "loop"
    /\ net' = [net EXCEPT !.activating = TRUE]
    /\ UNCHANGED <<core, bus, mode, ws, down, audio, button, lost, left>>

SetConnecting ==
    /\ at = "open" /\ at' = "loop"
    /\ ws' = [ws EXCEPT !.connecting = TRUE]
    /\ UNCHANGED <<core, bus, mode, net, down, audio, button, lost, left>>

-----------------------------------------------------------------------------
(* chat_core_tick                                                           *)

Ticks(s) == at = "loop" /\ bus = <<>> /\ core.state = s

(* Starts the count anew with every tick.                                   *)
TickError ==
    /\ Ticks("ERROR")
    /\ \/ /\ core.backoff + 1 >= BackoffTicks
          /\ core' = [core EXCEPT !.state = "IDLE", !.backoff = 0]
          /\ lost' = FALSE
       \/ /\ core.backoff + 1 < BackoffTicks
          /\ core' = [core EXCEPT !.backoff = @ + 1]
          /\ UNCHANGED lost
    /\ UNCHANGED <<at, bus, link, down, audio, button, left>>

(* Counts the time of a session in VOICE mode only.                         *)
TickActive_Wrong ==
    /\ Ticks("ACTIVE") /\ core.mode = "VOICE"
    /\ core' = [core EXCEPT !.idle = 0]
    /\ UNCHANGED <<at, bus, link, down, audio, button, lost, left>>

TickActive ==
    /\ Ticks("ACTIVE")
    /\ LET c == [core EXCEPT !.idle = @ + 1]
       IN \/ /\ c.idle >= IdleTicks
             /\ core' = [c EXCEPT !.state = "IDLE"]
             /\ coze_session_stop(audio.mode)
             /\ lost' = FALSE
          \/ /\ c.idle < IdleTicks
             /\ core' = c
             /\ UNCHANGED <<audio, ws, lost>>
    /\ UNCHANGED <<at, bus, mode, net, down, button, left>>

TickIdle ==
    /\ Ticks("IDLE") /\ core.pressed
    /\ \/ /\ core.press + 1 >= PressTicks
          /\ Request("BUTTON", TRUE)
       \/ /\ core.press + 1 < PressTicks
          /\ core' = [core EXCEPT !.press = @ + 1]
          /\ UNCHANGED <<at, link, lost>>
    /\ UNCHANGED <<bus, down, audio, button, left>>

chat_core_tick == TickError \/ TickActive \/ TickIdle

CoreTask == HandleEvent \/ SetActivating \/ SetConnecting \/ chat_core_tick

(* chat_core_ping_activity: the uplink sent a frame.                        *)
PingActivity ==
    /\ audio.active /\ ws.sock = "open" /\ (audio.mode = "VOICE" \/ audio.ptt)
    /\ core.state = "ACTIVE"
    /\ core' = [core EXCEPT !.idle = 0]
    /\ UNCHANGED <<at, bus, link, down, audio, button, lost, left>>

-----------------------------------------------------------------------------
(* net_mgr: the callbacks of the modem                                      *)

ContextDown ==
    /\ net.up /\ left.inputs > 0
    /\ net' = [net EXCEPT !.up = FALSE]
    /\ left' = [left EXCEPT !.inputs = @ - 1]
    /\ UNCHANGED <<core, at, bus, mode, ws, down, audio, button, lost>>

(* The context came up, asked for or not.                                   *)
net_pdp_event_cb ==
    /\ ~net.up
    /\ net' = [net EXCEPT !.up = TRUE]
    /\ chat_bus_post_event("NET_READY")
    /\ UNCHANGED <<core, at, mode, ws, down, audio, button, left>>

net_mgr_datacall_act_cb ==
    /\ net.asked
    /\ net' = [net EXCEPT !.asked = FALSE, !.activating = FALSE]
    /\ \/ net.up /\ chat_bus_post_event("NET_READY")
       \/ lost' = TRUE /\ UNCHANGED bus
    /\ UNCHANGED <<core, at, mode, ws, down, audio, button, left>>

-----------------------------------------------------------------------------
(* coze_ws_recv_cb                                                          *)

(* Leaves what the last connection sent in the queue of the worker.         *)
PostReset_Wrong == rx' = IF Len(rx) >= RxDepth THEN rx ELSE Append(rx, "RESET")

(* coze_proto_worker_post_reset                                             *)
PostReset == rx' = <<"RESET">>

(* chat.update may fail, or stay without an answer.                         *)
Opened ==
    /\ ws.sock = "opening"
    /\ PostReset
    /\ \E owes \in BOOLEAN :
         /\ ws' = [ws EXCEPT !.sock = "open", !.mode = mode, !.owes = owes,
                             !.connecting = FALSE]
         /\ lost' = IF owes THEN lost ELSE TRUE
    /\ UNCHANGED <<core, at, bus, mode, net, hand, audio, button, left>>

OpenFailed ==
    /\ ws.sock = "opening"
    /\ PostReset
    /\ ws' = [ws EXCEPT !.sock = "closed", !.connecting = FALSE]
    /\ chat_bus_post_event("WS_CONNECT_FAILED")
    /\ UNCHANGED <<core, at, mode, net, hand, audio, button, left>>

(* The peer closed, or the report of a close the core task asked for.       *)
Closed ==
    /\ PostReset
    /\ \/ /\ ws.sock = "open" /\ left.inputs > 0
          /\ ws' = [ws EXCEPT !.sock = "closed", !.owes = FALSE, !.connecting = FALSE]
          /\ left' = [left EXCEPT !.inputs = @ - 1]
       \/ /\ ws.report
          /\ ws' = [ws EXCEPT !.report = FALSE, !.connecting = FALSE]
          /\ UNCHANGED left
    /\ chat_bus_post_event("WS_DISCONNECTED")
    /\ UNCHANGED <<core, at, mode, net, hand, audio, button>>

(* coze_proto_worker_enqueue                                                *)
Enqueue(c) == rx' = IF Len(rx) >= RxDepth THEN rx ELSE Append(rx, c)

CloudAnswers ==
    /\ ws.sock = "open" /\ ws.owes
    /\ ws' = [ws EXCEPT !.owes = FALSE]
    /\ Enqueue("WS_CONNECTED")
    /\ lost' = IF Len(rx) >= RxDepth THEN TRUE ELSE lost
    /\ UNCHANGED <<core, at, bus, mode, net, hand, audio, button, left>>

CloudTalks ==
    /\ ws.sock = "open" /\ ~ws.owes /\ left.inputs > 0
    /\ \E c \in {"TALK", "AUDIO_DELTA"} : Enqueue(c)
    /\ left' = [left EXCEPT !.inputs = @ - 1]
    /\ UNCHANGED <<core, at, bus, link, hand, audio, button, lost>>

-----------------------------------------------------------------------------
(* coze_proto_worker_process                                                *)

WorkerTakes ==
    /\ hand = "none" /\ rx # <<>>
    /\ hand' = Head(rx) /\ rx' = Tail(rx)
    /\ UNCHANGED <<core, at, bus, link, audio, button, lost, left>>

(* A frame of audio is played, which counts as activity.                    *)
WorkerDispatches ==
    /\ hand # "none" /\ hand' = "none"
    /\ \/ hand \in Events /\ chat_bus_post_event(hand) /\ UNCHANGED core
       \/ /\ hand = "AUDIO_DELTA"
          /\ core' = IF audio.active /\ core.state = "ACTIVE" THEN [core EXCEPT !.idle = 0]
                                                              ELSE core
          /\ UNCHANGED <<bus, lost>>
       \/ /\ hand = "RESET" /\ UNCHANGED <<core, bus, lost>>
    /\ UNCHANGED <<at, link, rx, audio, button, left>>

-----------------------------------------------------------------------------
(* The peripherals                                                          *)

(* wake_uart_rx_cb                                                          *)
WakeWord ==
    /\ left.inputs > 0 /\ left' = [left EXCEPT !.inputs = @ - 1]
    /\ chat_bus_post_event("WAKE_DETECTED")
    /\ UNCHANGED <<core, at, link, down, audio, button>>

Edge ==
    /\ left.edges > 0 /\ left' = [left EXCEPT !.edges = @ - 1]
    /\ button' = [button EXCEPT !.down = ~@, !.irq = TRUE]
    /\ UNCHANGED <<core, at, bus, link, down, audio, lost>>

(* Reads the level as it is now.  Within TALK_BUTTON_DEBOUNCE_MS of the edge *)
(* before, which only a first edge is not, nothing is posted.                *)
talk_button_irq_cb ==
    /\ button.irq
    /\ LET e == IF button.down THEN "BUTTON_PRESSED" ELSE "BUTTON_RELEASED"
           b == [button EXCEPT !.irq = FALSE]
       IN \/ /\ button.last # "none" \/ e = button.last
             /\ button' = b /\ UNCHANGED <<bus, lost>>
          \/ /\ e # button.last
             /\ button' = [b EXCEPT !.last = e] /\ chat_bus_post_event(e)
    /\ UNCHANGED <<core, at, link, down, audio, left>>

-----------------------------------------------------------------------------
Worker == WorkerTakes \/ WorkerDispatches

Next ==
    \/ CoreTask \/ Worker \/ PingActivity
    \/ net_pdp_event_cb \/ ContextDown \/ net_mgr_datacall_act_cb
    \/ Opened \/ OpenFailed \/ Closed \/ CloudAnswers \/ CloudTalks
    \/ WakeWord \/ Edge \/ talk_button_irq_cb

Spec == Init /\ [][Next]_vars

(* The tasks run, the modem and the library answer, the cloud answers what  *)
(* it does not leave unanswered.                                            *)
FairSpec ==
    /\ Spec
    /\ WF_vars(CoreTask) /\ WF_vars(Worker) /\ WF_vars(CloudAnswers)
    /\ WF_vars(net_mgr_datacall_act_cb) /\ WF_vars(Opened \/ OpenFailed)
=============================================================================
