--------------------------- MODULE ChatCoreProofs ----------------------------
(***************************************************************************)
(* What is proved of ChatCore for queues of every depth and timeouts of    *)
(* every length: its type invariant, that the core task, the audio and the *)
(* cloud agree on the conversation, and that a session that connects is    *)
(* never left with nothing that could end it.  And of the scan of the      *)
(* worker for texts of every length: however a stream of JSON objects is   *)
(* cut into parts, each object is dispatched once, whole and in order.     *)
(***************************************************************************)
EXTENDS ChatCoreProperties, SequenceTheorems, WellFoundedInduction, TLAPS

CoreType   == [state : States, mode : Modes, pressed : BOOLEAN,
               wait : BOOLEAN, idle : Nat, backoff : Nat, press : Nat]
NetType    == [up : BOOLEAN, asked : BOOLEAN, activating : BOOLEAN]
WsType     == [sock : {"closed", "opening", "open"}, mode : Modes, owes : BOOLEAN,
               report : BOOLEAN, connecting : BOOLEAN]
AudioType  == [active : BOOLEAN, ptt : BOOLEAN, mode : Modes]
ButtonType == [down : BOOLEAN, irq : BOOLEAN,
               last : {"none", "BUTTON_PRESSED", "BUTTON_RELEASED"}]

(* The parts of the type invariant.                                         *)
Records ==
    /\ core \in CoreType /\ at \in {"loop", "netmgr", "open"} /\ mode \in Modes
    /\ net \in NetType /\ ws \in WsType /\ audio \in AudioType
    /\ button \in ButtonType /\ left \in [edges : Nat, inputs : Nat]

Queues ==
    /\ bus \in Seq(Events) /\ Len(bus) <= BusDepth /\ lost \in BOOLEAN
    /\ rx \in Seq(Chunks) /\ Len(rx) <= RxDepth /\ hand \in Chunks \union {"none"}

LEMMA TypeParts == TypeOK <=> Records /\ Queues
BY DEF TypeOK, Records, Queues, CoreType, NetType, WsType, AudioType, ButtonType

(* The session has the mode the core asked for.  Without a session there is *)
(* no websocket, in a conversation the audio has its mode, and an open      *)
(* websocket was announced in that mode.                                    *)
ModesMatch ==
    /\ mode = core.mode
    /\ core.state \in {"IDLE", "ERROR"} => ws.sock = "closed"
    /\ core.state = "ACTIVE" => audio.mode = mode
    /\ ws.sock = "open" => ws.mode = mode

ChatInv == TypeOK /\ ModesMatch /\ AudioFollowsState /\ PttFollowsButton /\ StreamIsFresh

(* The steps of the core task, of the network, and of the rest.             *)
HandleFailed == \E e \in {"WS_CONNECT_FAILED", "WS_DISCONNECTED"} : HandleClosed(e)
LinkSteps == \/ PingActivity \/ net_pdp_event_cb \/ ContextDown \/ net_mgr_datacall_act_cb
             \/ Opened \/ OpenFailed \/ Closed \/ CloudAnswers \/ CloudTalks
NearSteps == Worker \/ WakeWord \/ Edge \/ talk_button_irq_cb

-----------------------------------------------------------------------------
(* Each step keeps the records.                                             *)

(* What the EXCEPTs of the core task make of its record.                    *)
LEMMA CoreGoes ==
    ASSUME NEW c \in CoreType, NEW s \in States, NEW m \in Modes, NEW b \in BOOLEAN,
           NEW n \in Nat
    PROVE  /\ [c EXCEPT !.idle = n] \in CoreType
           /\ [c EXCEPT !.backoff = n] \in CoreType
           /\ [c EXCEPT !.press = n] \in CoreType
           /\ [c EXCEPT !.wait = b] \in CoreType
           /\ [c EXCEPT !.state = s] \in CoreType
           /\ [c EXCEPT !.state = s, !.idle = n] \in CoreType
           /\ [c EXCEPT !.state = s, !.backoff = n] \in CoreType
           /\ [c EXCEPT !.pressed = b, !.press = n] \in CoreType
           /\ [c EXCEPT !.wait = b, !.idle = n] \in CoreType
           /\ [c EXCEPT !.state = s, !.mode = m, !.wait = b, !.press = n] \in CoreType
BY DEF CoreType

(* A request keeps the types, and so does the end of a session.             *)
LEMMA StartTypes ==
    ASSUME net \in NetType, ws \in WsType, NEW m, coze_session_request_start(m)
    PROVE  net' \in NetType /\ ws' \in WsType
<1>1. [net EXCEPT !.asked = TRUE] \in NetType
  BY DEF NetType
<1>2. [ws EXCEPT !.sock = "opening"] \in WsType
  BY DEF WsType
<1>3. CASE net.up
  BY <1>2, <1>3 DEF coze_session_request_start, coze_client_connect
<1>4. CASE ~net.up
  BY <1>1, <1>4 DEF coze_session_request_start, Activate
<1>5. QED
  BY <1>3, <1>4

LEMMA RequestTypes ==
    ASSUME Records, NEW m \in Modes, NEW wait \in BOOLEAN, Request(m, wait)
    PROVE  core' \in CoreType /\ net' \in NetType /\ ws' \in WsType
<1>1. net' \in NetType /\ ws' \in WsType
  BY StartTypes DEF Request, Records
<1>2. core.press \in Nat
  BY DEF Records, CoreType
<1>3. PICK n \in Nat : core' = [core EXCEPT !.state = "CONNECTING", !.mode = m, !.wait = wait,
                                          !.press = n]
  BY <1>2 DEF Request
<1>4. "CONNECTING" \in States
  BY DEF States
<1>5. core' \in CoreType
  BY <1>3, <1>4, CoreGoes DEF Records
<1>6. QED
  BY <1>1, <1>5

LEMMA CoreRecord == ChatInv /\ Next => core' \in CoreType
<1> SUFFICES ASSUME ChatInv, Next PROVE core' \in CoreType
  OBVIOUS
<1>0. Records
  BY TypeParts DEF ChatInv
<1>1. CASE UNCHANGED core
  BY <1>0, <1>1 DEF Records
<1>2. CASE HandleWake
  <2>1. "VOICE" \in Modes
    BY DEF Modes
  <2>2. QED
    BY <1>0, <1>2, <2>1, RequestTypes DEF Records, HandleWake
<1>3. CASE HandlePressed
  <2>1. [core EXCEPT !.pressed = TRUE, !.press = 0] \in CoreType
    BY <1>0, CoreGoes DEF Records, States, Modes
  <2>2. [[core EXCEPT !.pressed = TRUE, !.press = 0] EXCEPT !.idle = 0] \in CoreType
    BY <2>1, CoreGoes DEF States, Modes
  <2>3. QED
    BY <1>3, <2>1, <2>2 DEF HandlePressed
<1>4. CASE HandleReleased
  <2> DEFINE c == [core EXCEPT !.pressed = FALSE, !.press = 0]
  <2>1. c \in CoreType
    BY <1>0, CoreGoes DEF Records, States, Modes
  <2>2. [c EXCEPT !.idle = 0] \in CoreType /\ [c EXCEPT !.wait = FALSE, !.idle = 0] \in CoreType
    <3> HIDE DEF c
    <3> QED
      BY <2>1, CoreGoes DEF States, Modes
  <2>3. QED
    BY <1>4, <2>1, <2>2 DEF HandleReleased
<1>5. CASE HandleConnected
  <2>1. /\ [core EXCEPT !.state = "ACTIVE", !.idle = 0] \in CoreType
        /\ [core EXCEPT !.state = "ERROR", !.backoff = 0] \in CoreType
    BY <1>0, CoreGoes DEF Records, States, Modes
  <2>2. QED
    BY <1>5, <2>1 DEF HandleConnected, Fail
<1>6. CASE HandleFailed
  <2> DEFINE c == [core EXCEPT !.wait = FALSE]
  <2>1. c \in CoreType
    BY <1>0, CoreGoes DEF Records, States, Modes
  <2>2. [c EXCEPT !.state = "ERROR", !.backoff = 0] \in CoreType
    <3> HIDE DEF c
    <3> QED
      BY <2>1, CoreGoes DEF States, Modes
  <2>3. QED
    BY <1>6, <2>2 DEF HandleFailed, HandleClosed, Fail
<1>7. CASE HandleTalk
  BY <1>0, <1>7 DEF Records, CoreType, States, Modes, HandleTalk, Take
<1>8. CASE TickError
  <2>1. "IDLE" \in States /\ "VOICE" \in Modes /\ core.backoff + 1 \in Nat
    BY <1>0 DEF Records, CoreType, States, Modes
  <2>2. /\ [core EXCEPT !.backoff = core.backoff + 1] \in CoreType
        /\ [core EXCEPT !.state = "IDLE", !.backoff = 0] \in CoreType
    BY <1>0, <2>1, CoreGoes DEF Records
  <2>3. QED
    BY <1>8, <2>2 DEF TickError
<1>9. CASE TickActive
  <2> DEFINE c == [core EXCEPT !.idle = core.idle + 1]
  <2>1. "IDLE" \in States /\ "VOICE" \in Modes /\ core.idle + 1 \in Nat
    BY <1>0 DEF Records, CoreType, States, Modes
  <2>2. c \in CoreType
    BY <1>0, <2>1, CoreGoes DEF Records
  <2>3. [c EXCEPT !.state = "IDLE"] \in CoreType
    <3> HIDE DEF c
    <3> QED
      BY <2>1, <2>2, CoreGoes
  <2>4. QED
    BY <1>9, <2>2, <2>3 DEF TickActive
<1>10. CASE TickIdle
  <2>1. "BUTTON" \in Modes /\ "IDLE" \in States /\ core.press + 1 \in Nat
    BY <1>0 DEF Records, CoreType, States, Modes
  <2>2. [core EXCEPT !.press = core.press + 1] \in CoreType
    BY <1>0, <2>1, CoreGoes DEF Records
  <2>3. QED
    BY <1>0, <1>10, <2>1, <2>2, RequestTypes DEF TickIdle
<1>11. CASE PingActivity
  BY <1>0, <1>11 DEF Records, CoreType, States, Modes, PingActivity
<1>12. CASE WorkerDispatches
  <2>1. [core EXCEPT !.idle = 0] \in CoreType
    BY <1>0, CoreGoes DEF Records, States, Modes
  <2>2. QED
    BY <1>0, <1>12, <2>1 DEF Records, WorkerDispatches
<1>13. QED
  BY <1>1, <1>2, <1>3, <1>4, <1>5, <1>6, <1>7, <1>8, <1>9, <1>10, <1>11, <1>12
     DEF Next, CoreTask, HandleEvent, HandleFailed, HandleClosed, chat_core_tick, Worker, link,
         down, HandleNetReady, SetActivating, SetConnecting, net_pdp_event_cb, ContextDown,
         net_mgr_datacall_act_cb, Opened, OpenFailed, Closed, CloudAnswers, CloudTalks,
         WorkerTakes, WakeWord, Edge, talk_button_irq_cb

LEMMA NetRecord == ChatInv /\ Next => net' \in NetType
<1> SUFFICES ASSUME ChatInv, Next PROVE net' \in NetType
  OBVIOUS
<1>0. Records
  BY TypeParts DEF ChatInv
<1>1. CASE UNCHANGED net
  BY <1>0, <1>1 DEF Records
<1>2. CASE HandleWake
  <2>1. "VOICE" \in Modes
    BY DEF Modes
  <2>2. QED
    BY <1>0, <1>2, <2>1, RequestTypes DEF Records, HandleWake, link
<1>3. CASE HandleNetReady
  BY <1>0, <1>3, StartTypes DEF Records, HandleNetReady, link
<1>4. CASE TickIdle
  <2>1. "BUTTON" \in Modes
    BY DEF Modes
  <2>2. QED
    BY <1>0, <1>4, <2>1, RequestTypes DEF Records, TickIdle, link
<1>5. CASE SetActivating
  BY <1>0, <1>5 DEF Records, NetType, SetActivating
<1>6. CASE ContextDown
  BY <1>0, <1>6 DEF Records, NetType, ContextDown
<1>7. CASE net_pdp_event_cb
  BY <1>0, <1>7 DEF Records, NetType, net_pdp_event_cb, chat_bus_post_event
<1>8. CASE net_mgr_datacall_act_cb
  BY <1>0, <1>8 DEF Records, NetType, net_mgr_datacall_act_cb, chat_bus_post_event
<1>9. QED
  BY <1>1, <1>2, <1>3, <1>4, <1>5, <1>6, <1>7, <1>8
     DEF Next, CoreTask, HandleEvent, HandleFailed, HandleClosed, chat_core_tick, Worker, link,
         down, HandlePressed, HandleReleased, HandleConnected, HandleTalk, SetConnecting,
         TickError, TickActive, PingActivity, Opened, OpenFailed, Closed, CloudAnswers,
         CloudTalks, WorkerTakes, WorkerDispatches, WakeWord, Edge, talk_button_irq_cb

LEMMA WsRecord == ChatInv /\ Next => ws' \in WsType
<1> SUFFICES ASSUME ChatInv, Next PROVE ws' \in WsType
  OBVIOUS
<1>0. Records
  BY TypeParts DEF ChatInv
<1>1. CASE UNCHANGED ws
  BY <1>0, <1>1 DEF Records
<1>2. CASE HandleWake
  <2>1. "VOICE" \in Modes
    BY DEF Modes
  <2>2. QED
    BY <1>0, <1>2, <2>1, RequestTypes DEF Records, HandleWake, link
<1>3. CASE HandleNetReady
  BY <1>0, <1>3, StartTypes DEF Records, HandleNetReady, link
<1>4. CASE HandleConnected
  BY <1>0, <1>4, ZenonT(60) DEF Records, WsType, HandleConnected, Take, Fail, coze_session_stop
<1>5. CASE HandleFailed
  BY <1>0, <1>5, ZenonT(60)
     DEF Records, WsType, HandleFailed, HandleClosed, Take, Fail, coze_session_stop
<1>6. CASE TickActive
  BY <1>0, <1>6, ZenonT(60) DEF Records, WsType, TickActive, Ticks, coze_session_stop
<1>7. CASE TickIdle
  <2>1. "BUTTON" \in Modes
    BY DEF Modes
  <2>2. QED
    BY <1>0, <1>7, <2>1, RequestTypes DEF Records, TickIdle, link
<1>8. CASE SetConnecting
  BY <1>0, <1>8 DEF Records, WsType, SetConnecting
<1>9. CASE Opened
  BY <1>0, <1>9 DEF Records, WsType, Opened, PostReset
<1>10. CASE OpenFailed
  BY <1>0, <1>10 DEF Records, WsType, OpenFailed, PostReset, chat_bus_post_event
<1>11. CASE Closed
  BY <1>0, <1>11, ZenonT(60) DEF Records, WsType, Closed, PostReset, chat_bus_post_event
<1>12. CASE CloudAnswers
  BY <1>0, <1>12 DEF Records, WsType, CloudAnswers, Enqueue
<1>13. QED
  BY <1>1, <1>2, <1>3, <1>4, <1>5, <1>6, <1>7, <1>8, <1>9, <1>10, <1>11, <1>12
     DEF Next, CoreTask, HandleEvent, HandleFailed, HandleClosed, chat_core_tick, Worker, link,
         down, HandlePressed, HandleReleased, HandleTalk, SetActivating, TickError, PingActivity,
         net_pdp_event_cb, ContextDown, net_mgr_datacall_act_cb, CloudTalks, WorkerTakes,
         WorkerDispatches, WakeWord, Edge, talk_button_irq_cb

LEMMA AudioRecord == ChatInv /\ Next => audio' \in AudioType
<1> SUFFICES ASSUME ChatInv, Next PROVE audio' \in AudioType
  OBVIOUS
<1>0. Records
  BY TypeParts DEF ChatInv
<1>1. CASE UNCHANGED audio
  BY <1>0, <1>1 DEF Records
<1>2. CASE HandlePressed
  BY <1>0, <1>2 DEF Records, AudioType, Silent, HandlePressed, Take, PressTalks
<1>3. CASE HandleReleased
  BY <1>0, <1>3 DEF Records, AudioType, Silent, HandleReleased, Take
<1>4. CASE HandleConnected
  <2>1. [active |-> TRUE, ptt |-> FALSE, mode |-> mode] \in AudioType
    BY <1>0 DEF Records, AudioType
  <2>2. Silent(mode) \in AudioType
    BY <1>0 DEF Records, AudioType, Silent
  <2>3. QED
    BY <1>4, <2>1, <2>2 DEF HandleConnected, Fail, coze_session_stop
<1>5. CASE HandleFailed
  BY <1>0, <1>5
     DEF Records, AudioType, Silent, HandleFailed, HandleClosed, Take, Fail, coze_session_stop
<1>6. CASE TickActive
  <2>1. Silent(audio.mode) \in AudioType
    BY <1>0 DEF Records, AudioType, Silent
  <2>2. QED
    BY <1>0, <1>6, <2>1 DEF Records, TickActive, coze_session_stop
<1>7. QED
  BY <1>1, <1>2, <1>3, <1>4, <1>5, <1>6
     DEF Next, CoreTask, HandleEvent, HandleFailed, HandleClosed, chat_core_tick, Worker, link,
         down, HandleWake, HandleNetReady, HandleTalk, SetActivating, SetConnecting, TickError,
         TickIdle, PingActivity, net_pdp_event_cb, ContextDown, net_mgr_datacall_act_cb, Opened,
         OpenFailed, Closed, CloudAnswers, CloudTalks, WorkerTakes, WorkerDispatches, WakeWord,
         Edge, talk_button_irq_cb

LEMMA ButtonRecord == ChatInv /\ Next => button' \in ButtonType
<1> SUFFICES ASSUME ChatInv, Next PROVE button' \in ButtonType
  OBVIOUS
<1>0. Records
  BY TypeParts DEF ChatInv
<1>1. CASE UNCHANGED button
  BY <1>0, <1>1 DEF Records
<1>2. CASE Edge
  BY <1>0, <1>2 DEF Records, ButtonType, Edge
<1>3. CASE talk_button_irq_cb
  BY <1>0, <1>3 DEF Records, ButtonType, talk_button_irq_cb, chat_bus_post_event
<1>4. QED
  BY <1>1, <1>2, <1>3
     DEF Next, CoreTask, HandleEvent, HandleFailed, HandleClosed, chat_core_tick, Worker, link,
         down, HandleWake, HandlePressed, HandleReleased, HandleNetReady, HandleConnected,
         HandleTalk, SetActivating, SetConnecting, TickError, TickActive, TickIdle, PingActivity,
         net_pdp_event_cb, ContextDown, net_mgr_datacall_act_cb, Opened, OpenFailed, Closed,
         CloudAnswers, CloudTalks, WorkerTakes, WorkerDispatches, WakeWord

LEMMA LeftRecord == ChatInv /\ Next => left' \in [edges : Nat, inputs : Nat]
<1> SUFFICES ASSUME ChatInv, Next PROVE left' \in [edges : Nat, inputs : Nat]
  OBVIOUS
<1>0. Records
  BY TypeParts DEF ChatInv
<1>1. CASE UNCHANGED left
  BY <1>0, <1>1 DEF Records
<1>2. CASE ContextDown
  BY <1>0, <1>2 DEF Records, ContextDown
<1>3. CASE Closed
  BY <1>0, <1>3 DEF Records, Closed, PostReset, chat_bus_post_event
<1>4. CASE CloudTalks
  BY <1>0, <1>4 DEF Records, CloudTalks, Enqueue
<1>5. CASE WakeWord
  BY <1>0, <1>5 DEF Records, WakeWord, chat_bus_post_event
<1>6. CASE Edge
  BY <1>0, <1>6 DEF Records, Edge
<1>7. QED
  BY <1>1, <1>2, <1>3, <1>4, <1>5, <1>6
     DEF Next, CoreTask, HandleEvent, HandleFailed, HandleClosed, chat_core_tick, Worker, link,
         down, HandleWake, HandlePressed, HandleReleased, HandleNetReady, HandleConnected,
         HandleTalk, SetActivating, SetConnecting, TickError, TickActive, TickIdle, PingActivity,
         net_pdp_event_cb, net_mgr_datacall_act_cb, Opened, OpenFailed, CloudAnswers, WorkerTakes,
         WorkerDispatches, talk_button_irq_cb

LEMMA ModeRecord == ChatInv /\ Next => at' \in {"loop", "netmgr", "open"} /\ mode' \in Modes
<1> SUFFICES ASSUME ChatInv, Next PROVE at' \in {"loop", "netmgr", "open"} /\ mode' \in Modes
  OBVIOUS
<1>0. Records
  BY TypeParts DEF ChatInv
<1>1. CASE UNCHANGED <<at, mode>>
  BY <1>0, <1>1 DEF Records
<1>2. CASE HandleWake
  BY <1>0, <1>2
     DEF Records, CoreType, Modes, link, HandleWake, Take, Request, coze_session_request_start,
         Activate, coze_client_connect
<1>3. CASE HandleNetReady
  BY <1>0, <1>3
     DEF Records, CoreType, Modes, link, HandleNetReady, Take, coze_session_request_start,
         Activate, coze_client_connect
<1>4. CASE TickIdle
  BY <1>0, <1>4
     DEF Records, CoreType, Modes, link, TickIdle, Ticks, Request, coze_session_request_start,
         Activate, coze_client_connect
<1>5. CASE SetActivating
  BY <1>0, <1>5 DEF Records, CoreType, Modes, link, SetActivating
<1>6. CASE SetConnecting
  BY <1>0, <1>6 DEF Records, CoreType, Modes, link, SetConnecting
<1>7. QED
  BY <1>1, <1>2, <1>3, <1>4, <1>5, <1>6
     DEF Next, CoreTask, HandleEvent, HandleFailed, HandleClosed, chat_core_tick, Worker, link,
         down, HandlePressed, HandleReleased, HandleConnected, HandleTalk, TickError, TickActive,
         PingActivity, net_pdp_event_cb, ContextDown, net_mgr_datacall_act_cb, Opened, OpenFailed,
         Closed, CloudAnswers, CloudTalks, WorkerTakes, WorkerDispatches, WakeWord, Edge,
         talk_button_irq_cb

LEMMA RecordsStep == ChatInv /\ Next => Records'
BY CoreRecord, NetRecord, WsRecord, AudioRecord, ButtonRecord, LeftRecord, ModeRecord DEF Records

-----------------------------------------------------------------------------
(* Each step keeps the two queues.                                          *)

(* A posted event keeps the bus within its depth, and so does a taken one.  *)
LEMMA Posts ==
    ASSUME Queues, NEW e \in Events, chat_bus_post_event(e)
    PROVE  bus' \in Seq(Events) /\ Len(bus') <= BusDepth /\ lost' \in BOOLEAN
<1>1. bus \in Seq(Events) /\ Len(bus) \in Nat /\ Len(bus) <= BusDepth
  BY DEF Queues
<1>2. lost' \in BOOLEAN
  BY DEF Queues, chat_bus_post_event
<1>3. CASE BusFull
  BY <1>1, <1>2, <1>3 DEF chat_bus_post_event
<1>4. CASE ~BusFull
  <2>1. bus' = Append(bus, e) /\ Len(bus) < BusDepth
    BY <1>1, <1>4, ChatAssumption DEF chat_bus_post_event, BusFull
  <2>2. Append(bus, e) \in Seq(Events) /\ Len(Append(bus, e)) = Len(bus) + 1
    BY <1>1
  <2>3. QED
    BY <1>1, <1>2, <2>1, <2>2, ChatAssumption
<1>5. QED
  BY <1>3, <1>4

LEMMA Takes ==
    ASSUME Queues, NEW e, Take(e)
    PROVE  bus' \in Seq(Events) /\ Len(bus') <= BusDepth
<1>1. bus \in Seq(Events) /\ bus # <<>> /\ Len(bus) <= BusDepth
  BY DEF Queues, Take
<1>2. Tail(bus) \in Seq(Events) /\ Len(Tail(bus)) = Len(bus) - 1
  BY <1>1
<1>3. QED
  BY <1>1, <1>2, ChatAssumption DEF Take

(* The same of the queue of the worker.                                     *)
LEMMA Resets ==
    ASSUME PostReset PROVE rx' \in Seq(Chunks) /\ Len(rx') <= RxDepth
<1>1. "RESET" \in Chunks
  BY DEF Chunks
<1>2. <<"RESET">> \in Seq(Chunks) /\ Len(<<"RESET">>) = 1
  BY <1>1
<1>3. QED
  BY <1>2, ChatAssumption DEF PostReset

LEMMA Enqueues ==
    ASSUME Queues, NEW c \in Chunks, Enqueue(c)
    PROVE  rx' \in Seq(Chunks) /\ Len(rx') <= RxDepth
<1>1. rx \in Seq(Chunks) /\ Len(rx) \in Nat /\ Len(rx) <= RxDepth
  BY DEF Queues
<1>2. CASE Len(rx) >= RxDepth
  BY <1>1, <1>2 DEF Enqueue
<1>3. CASE ~(Len(rx) >= RxDepth)
  <2>1. rx' = Append(rx, c) /\ Len(rx) < RxDepth
    BY <1>1, <1>3, ChatAssumption DEF Enqueue
  <2>2. Append(rx, c) \in Seq(Chunks) /\ Len(Append(rx, c)) = Len(rx) + 1
    BY <1>1
  <2>3. QED
    BY <1>1, <2>1, <2>2, ChatAssumption
<1>4. QED
  BY <1>2, <1>3

LEMMA BusStep == ChatInv /\ Next => bus' \in Seq(Events) /\ Len(bus') <= BusDepth
<1> SUFFICES ASSUME ChatInv, Next PROVE bus' \in Seq(Events) /\ Len(bus') <= BusDepth
  OBVIOUS
<1>0. Records /\ Queues
  BY TypeParts DEF ChatInv
<1>1. CASE UNCHANGED bus
  BY <1>0, <1>1 DEF Queues
<1>2. CASE HandleWake
  BY <1>0, <1>2, Takes DEF HandleWake
<1>3. CASE HandlePressed
  BY <1>0, <1>3, Takes DEF HandlePressed
<1>4. CASE HandleReleased
  BY <1>0, <1>4, Takes DEF HandleReleased
<1>5. CASE HandleNetReady
  BY <1>0, <1>5, Takes DEF HandleNetReady
<1>6. CASE HandleConnected
  BY <1>0, <1>6, Takes DEF HandleConnected
<1>7. CASE HandleFailed
  BY <1>0, <1>7, Takes DEF HandleFailed, HandleClosed
<1>8. CASE HandleTalk
  BY <1>0, <1>8, Takes DEF HandleTalk
<1>9. CASE net_pdp_event_cb
  BY <1>0, <1>9, Posts DEF net_pdp_event_cb, Events, Reports
<1>10. CASE net_mgr_datacall_act_cb
  BY <1>0, <1>10, Posts DEF net_mgr_datacall_act_cb, Events, Reports, Queues
<1>11. CASE OpenFailed
  BY <1>0, <1>11, Posts DEF OpenFailed, Events, Reports
<1>12. CASE Closed
  BY <1>0, <1>12, Posts DEF Closed, Events, Reports
<1>13. CASE WorkerDispatches
  BY <1>0, <1>13, Posts DEF WorkerDispatches, Queues
<1>14. CASE WakeWord
  BY <1>0, <1>14, Posts DEF WakeWord, Events, Reports
<1>15. CASE talk_button_irq_cb
  BY <1>0, <1>15, Posts DEF talk_button_irq_cb, Queues, Events, Reports
<1>16. QED
  BY <1>1, <1>2, <1>3, <1>4, <1>5, <1>6, <1>7, <1>8, <1>9, <1>10, <1>11, <1>12, <1>13, <1>14,
     <1>15
     DEF Next, CoreTask, HandleEvent, HandleFailed, HandleClosed, chat_core_tick, Worker, link,
         down, SetActivating, SetConnecting, TickError, TickActive, TickIdle, PingActivity,
         ContextDown, Opened, CloudAnswers, CloudTalks, WorkerTakes, Edge

LEMMA LostStep == ChatInv /\ Next => lost' \in BOOLEAN
<1> SUFFICES ASSUME ChatInv, Next PROVE lost' \in BOOLEAN
  OBVIOUS
<1>0. Records /\ Queues
  BY TypeParts DEF ChatInv
<1>1. CASE UNCHANGED lost
  BY <1>0, <1>1 DEF Queues
<1>2. CASE HandleWake
  BY <1>0, <1>2
     DEF Queues, HandleWake, Request, coze_session_request_start, Activate, coze_client_connect
<1>3. CASE HandleNetReady
  BY <1>0, <1>3
     DEF Queues, HandleNetReady, coze_session_request_start, Activate, coze_client_connect
<1>4. CASE TickError
  BY <1>0, <1>4 DEF Queues, TickError
<1>5. CASE TickActive
  BY <1>0, <1>5 DEF Queues, TickActive
<1>6. CASE TickIdle
  BY <1>0, <1>6
     DEF Queues, TickIdle, Request, coze_session_request_start, Activate, coze_client_connect
<1>7. CASE net_pdp_event_cb
  BY <1>0, <1>7, Posts DEF net_pdp_event_cb, Events, Reports
<1>8. CASE net_mgr_datacall_act_cb
  BY <1>0, <1>8, Posts DEF net_mgr_datacall_act_cb, Events, Reports, Queues
<1>9. CASE Opened
  BY <1>0, <1>9 DEF Opened, Queues
<1>10. CASE OpenFailed
  BY <1>0, <1>10, Posts DEF OpenFailed, Events, Reports
<1>11. CASE Closed
  BY <1>0, <1>11, Posts DEF Closed, Events, Reports
<1>12. CASE CloudAnswers
  BY <1>0, <1>12 DEF CloudAnswers, Queues
<1>13. CASE WorkerDispatches
  BY <1>0, <1>13, Posts DEF WorkerDispatches, Queues
<1>14. CASE WakeWord
  BY <1>0, <1>14, Posts DEF WakeWord, Events, Reports
<1>15. CASE talk_button_irq_cb
  BY <1>0, <1>15, Posts DEF talk_button_irq_cb, Queues, Events, Reports
<1>16. QED
  BY <1>1, <1>2, <1>3, <1>4, <1>5, <1>6, <1>7, <1>8, <1>9, <1>10, <1>11, <1>12, <1>13, <1>14,
     <1>15
     DEF Next, CoreTask, HandleEvent, HandleFailed, HandleClosed, chat_core_tick, Worker, link,
         down, HandlePressed, HandleReleased, HandleConnected, HandleTalk, SetActivating,
         SetConnecting, PingActivity, ContextDown, CloudTalks, WorkerTakes, Edge

LEMMA RxStep == ChatInv /\ Next
    => rx' \in Seq(Chunks) /\ Len(rx') <= RxDepth /\ hand' \in Chunks \union {"none"}
<1> SUFFICES ASSUME ChatInv, Next
             PROVE  rx' \in Seq(Chunks) /\ Len(rx') <= RxDepth /\ hand' \in Chunks \union {"none"}
  OBVIOUS
<1>0. Records /\ Queues
  BY TypeParts DEF ChatInv
<1>1. CASE UNCHANGED <<rx, hand>>
  BY <1>0, <1>1 DEF Queues
<1>2. CASE Opened
  BY <1>0, <1>2, Resets DEF Opened, Queues
<1>3. CASE OpenFailed
  BY <1>0, <1>3, Resets DEF OpenFailed, Queues
<1>4. CASE Closed
  BY <1>0, <1>4, Resets DEF Closed, Queues
<1>5. CASE CloudAnswers
  BY <1>0, <1>5, Enqueues DEF CloudAnswers, Chunks, Queues
<1>6. CASE CloudTalks
  BY <1>0, <1>6, Enqueues DEF CloudTalks, Chunks, Queues
<1>7. CASE WorkerTakes
  BY <1>0, <1>7, ChatAssumption DEF WorkerTakes, Queues
<1>8. CASE WorkerDispatches
  BY <1>0, <1>8 DEF WorkerDispatches, Queues
<1>9. QED
  BY <1>1, <1>2, <1>3, <1>4, <1>5, <1>6, <1>7, <1>8
     DEF Next, CoreTask, HandleEvent, HandleFailed, HandleClosed, chat_core_tick, Worker, link,
         down, HandleWake, HandlePressed, HandleReleased, HandleNetReady, HandleConnected,
         HandleTalk, SetActivating, SetConnecting, TickError, TickActive, TickIdle, PingActivity,
         net_pdp_event_cb, ContextDown, net_mgr_datacall_act_cb, WakeWord, Edge,
         talk_button_irq_cb

LEMMA QueuesStep == ChatInv /\ Next => Queues'
BY BusStep, LostStep, RxStep DEF Queues

-----------------------------------------------------------------------------
(* Each step keeps what ties core, audio and websocket together.            *)

LEMMA CoreSession == ChatInv /\ CoreTask => ModesMatch' /\ AudioFollowsState' /\ PttFollowsButton'
<1> SUFFICES ASSUME ChatInv, CoreTask PROVE ModesMatch' /\ AudioFollowsState' /\ PttFollowsButton'
  OBVIOUS
<1>0. /\ core \in CoreType /\ ws \in WsType /\ audio \in AudioType
      /\ ModesMatch /\ AudioFollowsState /\ PttFollowsButton
  BY TypeParts DEF ChatInv, Records
<1> USE <1>0 DEF CoreType, WsType, AudioType, ModesMatch, AudioFollowsState, PttFollowsButton,
                Silent, Modes, States, link, down
<1>1. CASE HandleWake
  BY <1>1, ZenonT(60)
     DEF HandleWake, Request, coze_session_request_start, Activate, coze_client_connect
<1>2. CASE HandlePressed
  BY <1>2, ZenonT(60) DEF HandlePressed, PressTalks
<1>3. CASE HandleReleased
  BY <1>3, ZenonT(60) DEF HandleReleased
<1>4. CASE HandleNetReady
  BY <1>4 DEF HandleNetReady, coze_session_request_start, Activate, coze_client_connect
<1>5. CASE HandleConnected
  <2>1. CASE core' = [core EXCEPT !.state = "ACTIVE", !.idle = 0] /\ UNCHANGED <<mode, ws>>
              /\ audio' = [active |-> TRUE, ptt |-> FALSE, mode |-> mode]
    BY <2>1
  <2>2. CASE Fail(core, mode) /\ UNCHANGED mode
    <3>1. core'.state = "ERROR" /\ core'.mode = core.mode
      BY <2>2 DEF Fail
    <3>2. ws'.sock = "closed" /\ ~audio'.active /\ ~audio'.ptt
      BY <2>2 DEF Fail, coze_session_stop
    <3>3. QED
      BY <2>2, <3>1, <3>2
  <2>3. QED
    BY <1>5, <2>1, <2>2 DEF HandleConnected
<1>6. CASE HandleFailed
  BY <1>6 DEF HandleFailed, HandleClosed, Fail, coze_session_stop
<1>7. CASE HandleTalk
  BY <1>7 DEF HandleTalk
<1>8. CASE SetActivating
  BY <1>8 DEF SetActivating
<1>9. CASE SetConnecting
  BY <1>9 DEF SetConnecting
<1>10. CASE TickError
  BY <1>10 DEF TickError, Ticks
<1>11. CASE TickActive
  <2> DEFINE c == [core EXCEPT !.idle = core.idle + 1]
  <2>1. c.state = core.state /\ c.mode = core.mode /\ c.pressed = core.pressed /\ c.wait = core.wait
    OBVIOUS
  <2>2. CASE core' = [c EXCEPT !.state = "IDLE"] /\ coze_session_stop(audio.mode) /\ UNCHANGED mode
    <3>1. core'.state = "IDLE" /\ core'.mode = core.mode
      BY <2>2
    <3>2. ws'.sock = "closed" /\ ~audio'.active /\ ~audio'.ptt
      BY <2>2 DEF coze_session_stop
    <3>3. QED
      BY <2>2, <3>1, <3>2
  <2>3. CASE core' = c /\ UNCHANGED <<audio, ws, mode>>
    BY <2>1, <2>3
  <2>4. QED
    BY <1>11, <2>2, <2>3 DEF TickActive
<1>12. CASE TickIdle
  BY <1>12, ZenonT(60)
     DEF TickIdle, Ticks, Request, coze_session_request_start, Activate, coze_client_connect
<1>13. QED
  BY <1>1, <1>2, <1>3, <1>4, <1>5, <1>6, <1>7, <1>8, <1>9, <1>10, <1>11, <1>12
     DEF CoreTask, HandleEvent, HandleFailed, chat_core_tick

LEMMA LinkSession == ChatInv /\ LinkSteps
    => ModesMatch' /\ AudioFollowsState' /\ PttFollowsButton'
<1> SUFFICES ASSUME ChatInv, LinkSteps
             PROVE  ModesMatch' /\ AudioFollowsState' /\ PttFollowsButton'
  OBVIOUS
<1>0. /\ core \in CoreType /\ ws \in WsType /\ audio \in AudioType
      /\ ModesMatch /\ AudioFollowsState /\ PttFollowsButton
  BY TypeParts DEF ChatInv, Records
<1> USE <1>0 DEF CoreType, WsType, AudioType, ModesMatch, AudioFollowsState, PttFollowsButton,
                Silent, Modes, States, link, down
<1>1. CASE PingActivity
  BY <1>1 DEF PingActivity
<1>2. CASE net_pdp_event_cb
  BY <1>2 DEF net_pdp_event_cb
<1>3. CASE ContextDown
  BY <1>3 DEF ContextDown
<1>4. CASE net_mgr_datacall_act_cb
  BY <1>4 DEF net_mgr_datacall_act_cb
<1>5. CASE Opened
  BY <1>5 DEF Opened
<1>6. CASE OpenFailed
  BY <1>6 DEF OpenFailed
<1>7. CASE Closed
  BY <1>7, ZenonT(60) DEF Closed
<1>8. CASE CloudAnswers
  BY <1>8 DEF CloudAnswers
<1>9. CASE CloudTalks
  BY <1>9 DEF CloudTalks
<1>10. QED
  BY <1>1, <1>2, <1>3, <1>4, <1>5, <1>6, <1>7, <1>8, <1>9
     DEF LinkSteps

LEMMA NearSession == ChatInv /\ NearSteps
    => ModesMatch' /\ AudioFollowsState' /\ PttFollowsButton'
<1> SUFFICES ASSUME ChatInv, NearSteps
             PROVE  ModesMatch' /\ AudioFollowsState' /\ PttFollowsButton'
  OBVIOUS
<1>0. /\ core \in CoreType /\ ws \in WsType /\ audio \in AudioType
      /\ ModesMatch /\ AudioFollowsState /\ PttFollowsButton
  BY TypeParts DEF ChatInv, Records
<1> USE <1>0 DEF CoreType, WsType, AudioType, ModesMatch, AudioFollowsState, PttFollowsButton,
                Silent, Modes, States, link, down
<1>1. CASE WorkerTakes
  BY <1>1 DEF WorkerTakes
<1>2. CASE WorkerDispatches
  BY <1>2 DEF WorkerDispatches
<1>3. CASE WakeWord
  BY <1>3 DEF WakeWord
<1>4. CASE Edge
  BY <1>4 DEF Edge
<1>5. CASE talk_button_irq_cb
  BY <1>5 DEF talk_button_irq_cb
<1>6. QED
  BY <1>1, <1>2, <1>3, <1>4, <1>5
     DEF NearSteps, Worker

-----------------------------------------------------------------------------
(* Each step keeps the stream of a connection free of an earlier answer.    *)

LEMMA CoreStream == ChatInv /\ CoreTask => StreamIsFresh'
<1> SUFFICES ASSUME ChatInv, CoreTask PROVE StreamIsFresh'
  OBVIOUS
<1> USE ChatAssumption DEF ChatInv, TypeOK, StreamIsFresh, Chunks, link, down
<1>1. CASE HandleWake
  BY <1>1, ZenonT(60)
     DEF HandleWake, Take, Request, coze_session_request_start, Activate, coze_client_connect
<1>2. CASE HandlePressed
  BY <1>2 DEF HandlePressed, Take, PressTalks
<1>3. CASE HandleReleased
  BY <1>3 DEF HandleReleased, Take
<1>4. CASE HandleNetReady
  BY <1>4, ZenonT(60)
     DEF HandleNetReady, Take, coze_session_request_start, Activate, coze_client_connect
<1>5. CASE HandleConnected
  BY <1>5, ZenonT(60) DEF HandleConnected, Take, Fail, coze_session_stop
<1>6. CASE HandleFailed
  BY <1>6 DEF HandleFailed, HandleClosed, Take, Fail, coze_session_stop
<1>7. CASE HandleTalk
  BY <1>7 DEF HandleTalk, Take
<1>8. CASE SetActivating
  BY <1>8 DEF SetActivating
<1>9. CASE SetConnecting
  BY <1>9 DEF SetConnecting
<1>10. CASE TickError
  BY <1>10 DEF TickError, Ticks
<1>11. CASE TickActive
  BY <1>11, ZenonT(60) DEF TickActive, Ticks, coze_session_stop
<1>12. CASE TickIdle
  BY <1>12, SMTT(30)
     DEF TickIdle, Ticks, Request, coze_session_request_start, Activate, coze_client_connect
<1>13. QED
  BY <1>1, <1>2, <1>3, <1>4, <1>5, <1>6, <1>7, <1>8, <1>9, <1>10, <1>11, <1>12
     DEF CoreTask, HandleEvent, HandleFailed, chat_core_tick

LEMMA LinkStream == ChatInv /\ LinkSteps => StreamIsFresh'
<1> SUFFICES ASSUME ChatInv, LinkSteps PROVE StreamIsFresh'
  OBVIOUS
<1> USE ChatAssumption DEF ChatInv, TypeOK, StreamIsFresh, Chunks, link, down
<1>1. CASE PingActivity
  BY <1>1 DEF PingActivity
<1>2. CASE net_pdp_event_cb
  BY <1>2 DEF net_pdp_event_cb, chat_bus_post_event
<1>3. CASE ContextDown
  BY <1>3 DEF ContextDown
<1>4. CASE net_mgr_datacall_act_cb
  BY <1>4 DEF net_mgr_datacall_act_cb, chat_bus_post_event
<1>5. CASE Opened
  BY <1>5, SMTT(30) DEF Opened, PostReset
<1>6. CASE OpenFailed
  BY <1>6 DEF OpenFailed, PostReset, chat_bus_post_event
<1>7. CASE Closed
  BY <1>7, SMTT(30) DEF Closed, PostReset, chat_bus_post_event
<1>8. CASE CloudAnswers
  BY <1>8 DEF CloudAnswers, Enqueue
<1>9. CASE CloudTalks
  BY <1>9 DEF CloudTalks, Enqueue
<1>10. QED
  BY <1>1, <1>2, <1>3, <1>4, <1>5, <1>6, <1>7, <1>8, <1>9
     DEF LinkSteps

LEMMA NearStream == ChatInv /\ NearSteps => StreamIsFresh'
<1> SUFFICES ASSUME ChatInv, NearSteps PROVE StreamIsFresh'
  OBVIOUS
<1>1. CASE WorkerTakes
  <2>1. rx # <<>> /\ rx' = Tail(rx) /\ ws' = ws
    BY <1>1 DEF WorkerTakes, link
  <2>2. rx \in Seq(Chunks) /\ StreamIsFresh
    BY DEF ChatInv, TypeOK
  <2>3. \A i \in DOMAIN Tail(rx) : i + 1 \in DOMAIN rx /\ Tail(rx)[i] = rx[i + 1]
    BY <2>1, <2>2
  <2>4. QED
    BY <2>1, <2>2, <2>3 DEF StreamIsFresh
<1> USE ChatAssumption DEF ChatInv, TypeOK, StreamIsFresh, Chunks, link, down
<1>2. CASE WorkerDispatches
  BY <1>2 DEF WorkerDispatches, chat_bus_post_event
<1>3. CASE WakeWord
  BY <1>3 DEF WakeWord, chat_bus_post_event
<1>4. CASE Edge
  BY <1>4 DEF Edge
<1>5. CASE talk_button_irq_cb
  BY <1>5 DEF talk_button_irq_cb, chat_bus_post_event
<1>6. QED
  BY <1>1, <1>2, <1>3, <1>4, <1>5
     DEF NearSteps, Worker

-----------------------------------------------------------------------------
LEMMA ChatInvInit == Init => ChatInv
<1> SUFFICES ASSUME Init PROVE ChatInv
  OBVIOUS
<1> USE ChatAssumption DEF Init
<1>1. PICK up \in BOOLEAN : net = [up |-> up, asked |-> FALSE, activating |-> FALSE]
  OBVIOUS
<1>2. net \in NetType
  BY <1>1 DEF NetType
<1>3. core \in CoreType
  BY DEF CoreType, States, Modes
<1>4. ws \in WsType
  BY DEF WsType, Modes
<1>5. audio \in AudioType /\ button \in ButtonType
  BY DEF AudioType, Silent, Modes, ButtonType
<1>6. left \in [edges : Nat, inputs : Nat]
  OBVIOUS
<1>7. Records
  BY <1>2, <1>3, <1>4, <1>5, <1>6 DEF Records, Modes
<1>8. Queues
  <2>1. bus \in Seq(Events) /\ Len(bus) = 0 /\ rx \in Seq(Chunks) /\ Len(rx) = 0
    OBVIOUS
  <2>2. 0 <= BusDepth /\ 0 <= RxDepth
    OBVIOUS
  <2>3. lost \in BOOLEAN /\ hand = "none"
    OBVIOUS
  <2>4. QED
    BY <2>1, <2>2, <2>3 DEF Queues
<1>9. ModesMatch /\ AudioFollowsState /\ PttFollowsButton /\ StreamIsFresh
  BY DEF ModesMatch, AudioFollowsState, PttFollowsButton, StreamIsFresh, Silent
<1>10. QED
  BY <1>7, <1>8, <1>9, TypeParts DEF ChatInv

LEMMA ChatInvStep == ChatInv /\ [Next]_vars => ChatInv'
<1>1. ChatInv /\ Next => TypeOK'
  <2>1. ChatInv /\ Next => Records' /\ Queues'
    BY RecordsStep, QueuesStep
  <2>2. QED
    BY <2>1 DEF TypeOK, Records, Queues, CoreType, NetType, WsType, AudioType, ButtonType
<1>2. ChatInv /\ Next => ModesMatch' /\ AudioFollowsState' /\ PttFollowsButton'
  BY CoreSession, LinkSession, NearSession DEF Next, LinkSteps, NearSteps
<1>3. ChatInv /\ Next => StreamIsFresh'
  BY CoreStream, LinkStream, NearStream DEF Next, LinkSteps, NearSteps
<1>4. ChatInv /\ UNCHANGED vars => ChatInv'
  BY DEF ChatInv, vars, link, down, TypeOK, ModesMatch, AudioFollowsState, PttFollowsButton,
         StreamIsFresh
<1>5. QED
  BY <1>1, <1>2, <1>3, <1>4 DEF ChatInv

-----------------------------------------------------------------------------
(* Every variable of the conversation keeps its type, whatever the depth of *)
(* the bus and of the queue of the worker.                                  *)
THEOREM ChatTypeCorrect == Spec => []TypeOK
<1>1. ChatInv => TypeOK
  BY DEF ChatInv
<1>2. QED
  BY <1>1, ChatInvInit, ChatInvStep, PTL DEF Spec

(* The audio is in use in a conversation and at no other time.              *)
THEOREM ChatAudioFollows == Spec => []AudioFollowsState
<1>1. ChatInv => AudioFollowsState
  BY DEF ChatInv
<1>2. QED
  BY <1>1, ChatInvInit, ChatInvStep, PTL DEF Spec

(* The uplink takes the button for pressed only while a session of the      *)
(* button is under way and the core saw the press.                          *)
THEOREM ChatPttFollows == Spec => []PttFollowsButton
<1>1. ChatInv => PttFollowsButton
  BY DEF ChatInv
<1>2. QED
  BY <1>1, ChatInvInit, ChatInvStep, PTL DEF Spec

(* The core task, the uplink and the cloud agree on who ends a turn.        *)
THEOREM ChatModesAgree == Spec => []TurnModeAgrees
<1>1. ChatInv => TurnModeAgrees
  BY DEF ChatInv, ModesMatch, AudioFollowsState, TurnModeAgrees
<1>2. QED
  BY <1>1, ChatInvInit, ChatInvStep, PTL DEF Spec

(* An answer of an earlier connection is never queued behind a new one that *)
(* still waits for its own.                                                 *)
THEOREM ChatStreamFresh == Spec => []StreamIsFresh
<1>1. ChatInv => StreamIsFresh
  BY DEF ChatInv
<1>2. QED
  BY <1>1, ChatInvInit, ChatInvStep, PTL DEF Spec
-----------------------------------------------------------------------------
(* What ConnectingResolves rests on: CONNECTING has no timeout, so there    *)
(* must always be something that will end it.                               *)

Queued(e, q) == \E i \in DOMAIN q : q[i] = e

(* The answer of the modem or its report, and the websocket on its way to a *)
(* report of its own.                                                       *)
NetAwaited == net.asked \/ Queued("NET_READY", bus)

WsAwaited ==
    \/ ws.sock = "opening"
    \/ ws.sock = "open" /\ ws.owes
    \/ Queued("WS_CONNECTED", rx)
    \/ hand = "WS_CONNECTED"
    \/ \E e \in Reports \ {"NET_READY"} : Queued(e, bus)

Seeks == core.state = "CONNECTING" /\ ~lost

(* Only a session that connects opens a websocket, and g_client_connecting  *)
(* does not outlive it: it would keep the next one from connecting.         *)
FlagEnds ==
    /\ core.state \in {"IDLE", "ERROR"} => ~ws.connecting
    /\ at = "open" => core.state = "CONNECTING"

(* Once there is a websocket a report of it is on its way.                  *)
WsReports == Seeks /\ (ws.connecting \/ at = "open" \/ ws.sock # "closed") => WsAwaited

(* A core task that is CONNECTING waits for something that is on its way,   *)
(* unless it failed without an event, was dropped, or g_net_activating was  *)
(* set too late.                                                            *)
ConnectingAwaits == Seeks /\ ~StaleActivating => NetAwaited \/ WsAwaited

SeekInv == FlagEnds /\ WsReports /\ ConnectingAwaits

LEMMA PostQueues ==
    ASSUME ChatInv, NEW e \in Events, chat_bus_post_event(e)
    PROVE  /\ \A x : Queued(x, bus) => Queued(x, bus')
           /\ lost => lost'
           /\ e \in Reports => Queued(e, bus') \/ lost'
<1>1. bus \in Seq(Events) /\ lost \in BOOLEAN
  BY DEF ChatInv, TypeOK
<1>2. CASE BusFull
  BY <1>2 DEF chat_bus_post_event
<1>3. CASE ~BusFull
  <2>1. bus' = Append(bus, e) /\ lost' = lost
    BY <1>3 DEF chat_bus_post_event
  <2>2. /\ \A i \in DOMAIN bus : i \in DOMAIN bus' /\ bus'[i] = bus[i]
        /\ Len(bus) + 1 \in DOMAIN bus' /\ bus'[Len(bus) + 1] = e
    BY <1>1, <2>1
  <2>3. QED
    BY <2>1, <2>2 DEF Queued
<1>4. QED
  BY <1>2, <1>3

LEMMA TakeLeaves ==
    ASSUME NEW q, NEW S, q \in Seq(S), q # <<>>, NEW x, x # Head(q), Queued(x, q)
    PROVE  Queued(x, Tail(q))
<1>1. PICK i \in DOMAIN q : q[i] = x
  BY DEF Queued
<1>2. i # 1
  BY <1>1
<1>3. i - 1 \in DOMAIN Tail(q) /\ Tail(q)[i - 1] = q[i]
  BY <1>2
<1>4. QED
  BY <1>1, <1>3 DEF Queued

LEMMA EnqueueQueues ==
    ASSUME ChatInv, NEW c \in Chunks, Enqueue(c)
    PROVE  /\ \A x : Queued(x, rx) => Queued(x, rx')
           /\ Len(rx) < RxDepth => Queued(c, rx')
<1>1. rx \in Seq(Chunks)
  BY DEF ChatInv, TypeOK
<1>2. CASE Len(rx) < RxDepth
  <2>1. rx' = Append(rx, c)
    BY <1>1, <1>2, ChatAssumption DEF Enqueue
  <2>2. /\ \A i \in DOMAIN rx : i \in DOMAIN rx' /\ rx'[i] = rx[i]
        /\ Len(rx) + 1 \in DOMAIN rx' /\ rx'[Len(rx) + 1] = c
    BY <1>1, <2>1
  <2>3. QED
    BY <2>2 DEF Queued
<1>3. CASE ~(Len(rx) < RxDepth)
  BY <1>1, <1>3, ChatAssumption DEF Enqueue
<1>4. QED
  BY <1>2, <1>3

(* A step of others that leaves what is awaited, or records its loss.       *)
LEMMA SeekKept ==
    ASSUME SeekInv, core'.state = core.state, at' = at,
           ws'.sock = ws.sock, ws'.connecting = ws.connecting,
           net'.asked = net.asked, net'.activating = net.activating,
           lost => lost', NetAwaited => NetAwaited' \/ lost', WsAwaited => WsAwaited' \/ lost'
    PROVE  SeekInv'
BY DEF SeekInv, FlagEnds, WsReports, ConnectingAwaits, Seeks, StaleActivating

(* A session that is asked for goes on to the modem or to the websocket.    *)
LEMMA RequestSeeks ==
    ASSUME ChatInv, SeekInv, at = "loop", NEW m, coze_session_request_start(m),
           core'.state = "CONNECTING", core.state \in {"IDLE", "CONNECTING"},
           UNCHANGED <<rx, hand>>,
           \A x \in Reports \ {"NET_READY"} : Queued(x, bus) => Queued(x, bus')
    PROVE  SeekInv'
<1> USE DEF SeekInv, FlagEnds, WsReports, ConnectingAwaits, Seeks
<1>1. /\ net \in NetType /\ ws \in WsType /\ lost \in BOOLEAN
      /\ core.state = "IDLE" => ws.sock = "closed" /\ ~ws.connecting
  BY TypeParts DEF ChatInv, Records, Queues, ModesMatch
<1>2. CASE ~net.up
  <2>1. Activate /\ ws' = ws
    BY <1>2 DEF coze_session_request_start
  <2>2. WsAwaited => WsAwaited'
    BY <2>1 DEF WsAwaited
  <2>3. lost' \/ net'.asked \/ (net.activating /\ net' = net /\ at' = "loop" /\ lost' = lost)
    BY <1>1, <2>1 DEF Activate, NetType
  <2>4. lost' = lost \/ lost'
    BY <1>1, <2>1 DEF Activate
  <2>5. at' # "open"
    BY <2>1 DEF Activate
  <2>6. WsReports'
    BY <1>1, <2>1, <2>2, <2>4, <2>5
  <2>7. ConnectingAwaits'
    BY <1>1, <2>3 DEF NetAwaited, StaleActivating, NetType
  <2>8. QED
    BY <2>5, <2>6, <2>7
<1>3. CASE net.up
  <2>1. coze_client_connect /\ net' = net
    BY <1>3 DEF coze_session_request_start
  <2>2. CASE ws.connecting /\ at' = at /\ UNCHANGED <<ws, lost>>
    <3>1. core.state = "CONNECTING"
      BY <1>1, <2>2
    <3>2. WsAwaited => WsAwaited'
      BY <2>2 DEF WsAwaited
    <3>3. QED
      BY <2>2, <3>1, <3>2
  <2>3. CASE lost' = TRUE /\ at' = at /\ ~ws.connecting
    BY <2>3
  <2>4. CASE at' = "open" /\ ws' = [ws EXCEPT !.sock = "opening"]
    <3>1. ws'.sock = "opening"
      BY <1>1, <2>4 DEF WsType
    <3>2. WsAwaited'
      BY <3>1 DEF WsAwaited
    <3>3. QED
      BY <2>4, <3>2
  <2>5. QED
    BY <2>1, <2>2, <2>3, <2>4 DEF coze_client_connect
<1>4. QED
  BY <1>1, <1>2, <1>3 DEF NetType

(* What the core task takes from the bus is what it waited for, or leaves   *)
(* that where it is.                                                        *)
LEMMA TakenEvent ==
    ASSUME ChatInv, NEW e, Take(e), NEW x, x # e, Queued(x, bus)
    PROVE  Queued(x, bus')
<1>1. bus \in Seq(Events) /\ bus # <<>> /\ x # Head(bus) /\ bus' = Tail(bus)
  BY DEF ChatInv, TypeOK, Take
<1>2. QED
  BY <1>1, TakeLeaves

LEMMA SeekWake == ChatInv /\ SeekInv /\ (HandleWake \/ HandleNetReady \/ TickIdle) => SeekInv'
<1> SUFFICES ASSUME ChatInv, SeekInv, HandleWake \/ HandleNetReady \/ TickIdle PROVE SeekInv'
  OBVIOUS
<1>0. core \in CoreType
  BY TypeParts DEF ChatInv, Records
<1>1. CASE HandleWake
  <2>1. Take("WAKE_DETECTED") /\ at = "loop" /\ rx' = rx /\ hand' = hand
    BY <1>1 DEF HandleWake, Take, down
  <2>2. \A x \in Reports : Queued(x, bus) => Queued(x, bus')
    BY <2>1, TakenEvent DEF Reports
  <2>3. CASE core.state = "IDLE" /\ Request("VOICE", FALSE)
    <3>1. core'.state = "CONNECTING" /\ coze_session_request_start("VOICE")
      BY <1>0, <2>3 DEF Request, CoreType
    <3>2. QED
      BY <2>1, <2>2, <2>3, <3>1, RequestSeeks
  <2>4. CASE UNCHANGED <<core, at, link, lost>>
    <3>1. /\ NetAwaited => NetAwaited'
          /\ WsAwaited => WsAwaited'
      BY <2>1, <2>2, <2>4 DEF NetAwaited, WsAwaited, Reports, link
    <3>2. QED
      BY <2>4, <3>1, SeekKept DEF link
  <2>5. QED
    BY <1>1, <2>3, <2>4 DEF HandleWake
<1>2. CASE HandleNetReady
  <2>1. Take("NET_READY") /\ at = "loop" /\ rx' = rx /\ hand' = hand /\ core' = core
    BY <1>2 DEF HandleNetReady, Take, down
  <2>2. \A x \in Reports \ {"NET_READY"} : Queued(x, bus) => Queued(x, bus')
    BY <2>1, TakenEvent
  <2>3. CASE core.state = "CONNECTING" /\ coze_session_request_start(core.mode)
    BY <2>1, <2>2, <2>3, RequestSeeks
  <2>4. CASE core.state # "CONNECTING" /\ UNCHANGED <<at, link, lost>>
    BY <2>1, <2>4
       DEF SeekInv, FlagEnds, WsReports, ConnectingAwaits, Seeks, link
  <2>5. QED
    BY <1>2, <2>3, <2>4 DEF HandleNetReady
<1>3. CASE TickIdle
  <2>1. at = "loop" /\ core.state = "IDLE" /\ bus' = bus /\ rx' = rx /\ hand' = hand
    BY <1>3 DEF TickIdle, Ticks, down
  <2>2. CASE Request("BUTTON", TRUE)
    <3>1. core'.state = "CONNECTING" /\ coze_session_request_start("BUTTON")
      BY <1>0, <2>2 DEF Request, CoreType
    <3>2. QED
      BY <2>1, <3>1, RequestSeeks
  <2>3. CASE core' = [core EXCEPT !.press = core.press + 1] /\ UNCHANGED <<at, link, lost>>
    <3>1. core'.state = "IDLE"
      BY <1>0, <2>1, <2>3 DEF CoreType
    <3>2. QED
      BY <2>1, <2>3, <3>1
         DEF SeekInv, FlagEnds, WsReports, ConnectingAwaits, Seeks, link
  <2>4. QED
    BY <1>3, <2>2, <2>3 DEF TickIdle
<1>4. QED
  BY <1>1, <1>2, <1>3

(* A session under way needs nothing, and one that has ended has no         *)
(* websocket.                                                               *)
LEMMA SeekEnds ==
    ASSUME ChatInv, SeekInv, at = "loop", at' = at, core'.state \in {"IDLE", "ACTIVE", "ERROR"},
           core'.state # "ACTIVE" => ~ws'.connecting
    PROVE  SeekInv'
BY DEF SeekInv, FlagEnds, WsReports, ConnectingAwaits, Seeks

LEMMA SeekLeaves ==
    ChatInv /\ SeekInv /\ (HandleConnected \/ HandleFailed \/ TickError \/ TickActive)
    => SeekInv'
<1> SUFFICES ASSUME ChatInv, SeekInv,
                    HandleConnected \/ HandleFailed \/ TickError \/ TickActive
             PROVE SeekInv'
  OBVIOUS
<1>0. core \in CoreType /\ ws \in WsType
  BY TypeParts DEF ChatInv, Records
<1>1. ASSUME NEW m, coze_session_stop(m) PROVE ~ws'.connecting
  BY <1>0, <1>1 DEF coze_session_stop, WsType
<1>2. ASSUME NEW c \in CoreType, NEW m, Fail(c, m)
      PROVE  core'.state = "ERROR" /\ ~ws'.connecting
  BY <1>1, <1>2 DEF Fail, CoreType
<1>3. CASE HandleConnected
  <2>1. at = "loop" /\ at' = at
    BY <1>3 DEF HandleConnected, Take
  <2>2. core' = [core EXCEPT !.state = "ACTIVE", !.idle = 0] => core'.state = "ACTIVE"
    BY <1>0 DEF CoreType
  <2>3. QED
    BY <1>0, <1>2, <1>3, <2>1, <2>2, SeekEnds DEF HandleConnected
<1>4. CASE HandleFailed
  <2>1. at = "loop" /\ at' = at /\ Fail([core EXCEPT !.wait = FALSE], audio.mode)
    BY <1>4 DEF HandleFailed, HandleClosed, Take
  <2>2. [core EXCEPT !.wait = FALSE] \in CoreType
    BY <1>0 DEF CoreType
  <2>3. QED
    BY <1>2, <2>1, <2>2, SeekEnds
<1>5. CASE TickError
  <2>1. at = "loop" /\ at' = at /\ core.state = "ERROR" /\ ws' = ws
    BY <1>5 DEF TickError, Ticks, link
  <2>2. ~ws'.connecting
    BY <2>1 DEF SeekInv, FlagEnds
  <2>3. core'.state \in {"IDLE", "ERROR"}
    BY <1>0, <1>5, <2>1 DEF TickError, CoreType
  <2>4. QED
    BY <2>1, <2>2, <2>3, SeekEnds
<1>6. CASE TickActive
  <2>1. at = "loop" /\ at' = at /\ core.state = "ACTIVE"
    BY <1>6 DEF TickActive, Ticks
  <2> DEFINE c == [core EXCEPT !.idle = core.idle + 1]
  <2>2. c \in [state : States, mode : Modes, pressed : BOOLEAN,
               wait : BOOLEAN, idle : Nat, backoff : Nat, press : Nat] /\ c.state = "ACTIVE"
    BY <1>0, <2>1 DEF CoreType
  <2>3. \/ core' = [c EXCEPT !.state = "IDLE"] /\ coze_session_stop(audio.mode)
        \/ core' = c
    BY <1>6 DEF TickActive
  <2> HIDE DEF c
  <2>4. [c EXCEPT !.state = "IDLE"].state = "IDLE"
    BY <2>2
  <2>5. core'.state \in {"IDLE", "ACTIVE"} /\ (core'.state # "ACTIVE" => ~ws'.connecting)
    BY <1>1, <2>2, <2>3, <2>4
  <2>6. QED
    BY <2>1, <2>5, SeekEnds
<1>7. QED
  BY <1>3, <1>4, <1>5, <1>6

(* The button and the talk change nothing that is awaited.                  *)
LEMMA SeekTalk ==
    ChatInv /\ SeekInv /\ (HandlePressed \/ HandleReleased \/ HandleTalk) => SeekInv'
<1> SUFFICES ASSUME ChatInv, SeekInv, HandlePressed \/ HandleReleased \/ HandleTalk
             PROVE SeekInv'
  OBVIOUS
<1>1. core \in CoreType
  BY TypeParts DEF ChatInv, Records
<1>2. \E e \in Events \ Reports : Take(e)
  BY DEF HandlePressed, HandleReleased, HandleTalk, Events, Reports
<1>3. UNCHANGED <<at, mode, net, ws, rx, hand, lost>>
  BY DEF HandlePressed, HandleReleased, HandleTalk, link, down
<1>4. \A x \in Reports : Queued(x, bus) => Queued(x, bus')
  BY <1>2, TakenEvent
<1>5. core'.state = core.state
  BY <1>1 DEF HandlePressed, HandleReleased, HandleTalk, CoreType
<1>6. (NetAwaited => NetAwaited') /\ (WsAwaited => WsAwaited')
  BY <1>3, <1>4 DEF NetAwaited, WsAwaited, Reports
<1>7. QED
  BY <1>3, <1>5, <1>6, SeekKept

(* The two assignments after the calls.                                     *)
LEMMA SeekSets == ChatInv /\ SeekInv /\ (SetActivating \/ SetConnecting) => SeekInv'
<1> SUFFICES ASSUME ChatInv, SeekInv, SetActivating \/ SetConnecting PROVE SeekInv'
  OBVIOUS
<1>0. net \in NetType /\ ws \in WsType
  BY TypeParts DEF ChatInv, Records
<1>1. CASE SetActivating
  <2>1. /\ UNCHANGED <<core, bus, ws, rx, hand, lost>> /\ at = "netmgr" /\ at' = "loop"
        /\ net'.activating /\ net'.asked = net.asked
    BY <1>0, <1>1 DEF SetActivating, down, NetType
  <2>2. WsAwaited => WsAwaited'
    BY <2>1 DEF WsAwaited
  <2>3. ~StaleActivating' => NetAwaited'
    BY <2>1 DEF StaleActivating, NetAwaited
  <2>4. QED
    BY <2>1, <2>2, <2>3 DEF SeekInv, FlagEnds, WsReports, ConnectingAwaits, Seeks
<1>2. CASE SetConnecting
  <2>1. /\ UNCHANGED <<core, bus, net, rx, hand, lost>> /\ at = "open" /\ at' = "loop"
        /\ ws'.sock = ws.sock /\ ws'.owes = ws.owes
    BY <1>0, <1>2 DEF SetConnecting, down, WsType
  <2>2. WsAwaited => WsAwaited'
    BY <2>1 DEF WsAwaited
  <2>3. core.state = "CONNECTING" /\ (Seeks => WsAwaited)
    BY <2>1 DEF SeekInv, FlagEnds, WsReports
  <2>4. QED
    BY <2>1, <2>2, <2>3 DEF SeekInv, FlagEnds, WsReports, ConnectingAwaits, Seeks
<1>3. QED
  BY <1>1, <1>2

(* The modem: an answer is turned into the event that was awaited.          *)
LEMMA SeekModem ==
    ChatInv /\ SeekInv /\ (ContextDown \/ net_pdp_event_cb \/ net_mgr_datacall_act_cb)
    => SeekInv'
<1> SUFFICES ASSUME ChatInv, SeekInv,
                    ContextDown \/ net_pdp_event_cb \/ net_mgr_datacall_act_cb
             PROVE SeekInv'
  OBVIOUS
<1>0. net \in NetType /\ lost \in BOOLEAN
  BY TypeParts DEF ChatInv, Records, Queues
<1>1. UNCHANGED <<core, at, ws, rx, hand>>
  BY DEF ContextDown, net_pdp_event_cb, net_mgr_datacall_act_cb, down
<1>2. "NET_READY" \in Events /\ "NET_READY" \in Reports
  BY DEF Events, Reports
<1>3. CASE ContextDown
  <2>1. net'.asked = net.asked /\ net'.activating = net.activating /\ UNCHANGED <<bus, lost>>
    BY <1>0, <1>3 DEF ContextDown, NetType
  <2>2. (NetAwaited => NetAwaited') /\ (WsAwaited => WsAwaited')
    BY <1>1, <2>1 DEF NetAwaited, WsAwaited
  <2>3. QED
    BY <1>1, <2>1, <2>2, SeekKept
<1>4. CASE net_pdp_event_cb
  <2>1. /\ net'.asked = net.asked /\ net'.activating = net.activating
        /\ chat_bus_post_event("NET_READY")
    BY <1>0, <1>4 DEF net_pdp_event_cb, NetType
  <2>2. (\A x : Queued(x, bus) => Queued(x, bus')) /\ (lost => lost')
    BY <1>2, <2>1, PostQueues
  <2>3. (NetAwaited => NetAwaited') /\ (WsAwaited => WsAwaited')
    BY <1>1, <2>1, <2>2 DEF NetAwaited, WsAwaited
  <2>4. QED
    BY <1>1, <2>1, <2>2, <2>3, SeekKept
<1>5. CASE net_mgr_datacall_act_cb
  <2>1. CASE chat_bus_post_event("NET_READY")
    <3>1. /\ \A x : Queued(x, bus) => Queued(x, bus')
          /\ lost => lost'
          /\ Queued("NET_READY", bus') \/ lost'
      BY <1>2, <2>1, PostQueues
    <3>2. (WsAwaited => WsAwaited') /\ (NetAwaited' \/ lost')
      BY <1>1, <3>1 DEF NetAwaited, WsAwaited
    <3>3. QED
      BY <1>1, <3>1, <3>2 DEF SeekInv, FlagEnds, WsReports, ConnectingAwaits, Seeks
  <2>2. CASE lost' = TRUE
    BY <1>1, <2>2 DEF SeekInv, FlagEnds, WsReports, ConnectingAwaits, Seeks
  <2>3. QED
    BY <1>5, <2>1, <2>2 DEF net_mgr_datacall_act_cb
<1>6. QED
  BY <1>3, <1>4, <1>5

(* The callbacks of the websocket: it opens and owes an answer, or what     *)
(* became of it is posted.                                                  *)
LEMMA SeekSocket ==
    ChatInv /\ SeekInv /\ (Opened \/ OpenFailed \/ Closed \/ CloudAnswers \/ CloudTalks)
    => SeekInv'
<1> SUFFICES ASSUME ChatInv, SeekInv,
                    Opened \/ OpenFailed \/ Closed \/ CloudAnswers \/ CloudTalks
             PROVE SeekInv'
  OBVIOUS
<1>0. ws \in WsType /\ lost \in BOOLEAN /\ rx \in Seq(Chunks)
  BY TypeParts DEF ChatInv, Records, Queues
<1>1. UNCHANGED <<core, at, net, hand>>
  BY DEF Opened, OpenFailed, Closed, CloudAnswers, CloudTalks, link
<1>2. ASSUME ~ws'.connecting, lost => lost', WsAwaited' \/ lost' PROVE SeekInv'
  BY <1>1, <1>2 DEF SeekInv, FlagEnds, WsReports, ConnectingAwaits, Seeks
<1>3. ASSUME NEW e \in {"WS_CONNECT_FAILED", "WS_DISCONNECTED"}, chat_bus_post_event(e)
      PROVE  (lost => lost') /\ (WsAwaited' \/ lost')
  <2>1. e \in Events /\ e \in Reports \ {"NET_READY"}
    BY DEF Events, Reports
  <2>2. (lost => lost') /\ (Queued(e, bus') \/ lost')
    BY <1>3, <2>1, PostQueues
  <2>3. QED
    BY <2>1, <2>2 DEF WsAwaited
<1>4. CASE Opened
  <2>1. PICK owes \in BOOLEAN :
          /\ ws' = [ws EXCEPT !.sock = "open", !.mode = mode, !.owes = owes,
                              !.connecting = FALSE]
          /\ lost' = IF owes THEN lost ELSE TRUE
    BY <1>4 DEF Opened
  <2>2. ws'.sock = "open" /\ ws'.owes = owes /\ ~ws'.connecting
    BY <1>0, <2>1 DEF WsType
  <2>3. WsAwaited' \/ lost'
    BY <2>1, <2>2 DEF WsAwaited
  <2>4. QED
    BY <1>0, <1>2, <2>1, <2>2, <2>3
<1>5. CASE OpenFailed
  <2>1. ~ws'.connecting /\ chat_bus_post_event("WS_CONNECT_FAILED")
    BY <1>0, <1>5 DEF OpenFailed, WsType
  <2>2. QED
    BY <1>2, <1>3, <2>1
<1>6. CASE Closed
  <2>1. ~ws'.connecting /\ chat_bus_post_event("WS_DISCONNECTED")
    BY <1>0, <1>6 DEF Closed, WsType
  <2>2. QED
    BY <1>2, <1>3, <2>1
<1>7. CASE CloudAnswers
  <2>1. /\ ws'.sock = ws.sock /\ ws'.connecting = ws.connecting /\ UNCHANGED bus
        /\ Enqueue("WS_CONNECTED") /\ lost' = IF Len(rx) >= RxDepth THEN TRUE ELSE lost
    BY <1>0, <1>7 DEF CloudAnswers, WsType
  <2>2. Len(rx) < RxDepth => Queued("WS_CONNECTED", rx')
    BY <2>1, EnqueueQueues DEF Chunks
  <2>3. lost' \/ WsAwaited'
    BY <1>0, <2>1, <2>2, ChatAssumption DEF WsAwaited
  <2>4. (NetAwaited => NetAwaited') /\ (lost => lost')
    BY <1>1, <2>1 DEF NetAwaited
  <2>5. QED
    BY <1>1, <2>1, <2>3, <2>4, SeekKept
<1>8. CASE CloudTalks
  <2>1. UNCHANGED <<ws, bus, lost>> /\ \E c \in {"TALK", "AUDIO_DELTA"} : Enqueue(c)
    BY <1>8 DEF CloudTalks, link
  <2>2. \A x : Queued(x, rx) => Queued(x, rx')
    BY <2>1, EnqueueQueues DEF Chunks
  <2>3. (NetAwaited => NetAwaited') /\ (WsAwaited => WsAwaited')
    BY <1>1, <2>1, <2>2 DEF NetAwaited, WsAwaited
  <2>4. QED
    BY <1>1, <2>1, <2>3, SeekKept
<1>9. QED
  BY <1>4, <1>5, <1>6, <1>7, <1>8

(* The worker carries an answer from its queue to the bus.                  *)
LEMMA SeekWorker == ChatInv /\ SeekInv /\ Worker => SeekInv'
<1> SUFFICES ASSUME ChatInv, SeekInv, Worker PROVE SeekInv'
  OBVIOUS
<1>0. core \in CoreType /\ rx \in Seq(Chunks) /\ lost \in BOOLEAN
  BY TypeParts DEF ChatInv, Records, Queues
<1>1. UNCHANGED <<at, net, ws>>
  BY DEF Worker, WorkerTakes, WorkerDispatches, link
<1>2. CASE WorkerTakes
  <2>1. /\ hand = "none" /\ rx # <<>> /\ hand' = Head(rx) /\ rx' = Tail(rx)
        /\ UNCHANGED <<core, bus, lost>>
    BY <1>2 DEF WorkerTakes
  <2>2. Queued("WS_CONNECTED", rx) => hand' = "WS_CONNECTED" \/ Queued("WS_CONNECTED", rx')
    BY <1>0, <2>1, TakeLeaves
  <2>3. (NetAwaited => NetAwaited') /\ (WsAwaited => WsAwaited')
    BY <1>1, <2>1, <2>2 DEF NetAwaited, WsAwaited
  <2>4. QED
    BY <1>1, <2>1, <2>3, SeekKept
<1>3. CASE WorkerDispatches
  <2>1. hand' = "none" /\ rx' = rx
    BY <1>3 DEF WorkerDispatches
  <2>2. core'.state = core.state
    BY <1>0, <1>3 DEF WorkerDispatches, CoreType
  <2>3. CASE hand \in Events /\ chat_bus_post_event(hand)
    <3>1. /\ \A x : Queued(x, bus) => Queued(x, bus')
          /\ lost => lost'
          /\ hand \in Reports => Queued(hand, bus') \/ lost'
      BY <2>3, PostQueues
    <3>2. WsAwaited => WsAwaited' \/ lost'
      BY <1>1, <2>1, <3>1 DEF WsAwaited, Reports
    <3>3. NetAwaited => NetAwaited'
      BY <1>1, <3>1 DEF NetAwaited
    <3>4. QED
      BY <1>1, <2>2, <3>1, <3>2, <3>3, SeekKept
  <2>4. CASE hand \in {"AUDIO_DELTA", "RESET"} /\ UNCHANGED <<bus, lost>>
    <3>1. (NetAwaited => NetAwaited') /\ (WsAwaited => WsAwaited')
      BY <1>1, <2>1, <2>4 DEF NetAwaited, WsAwaited
    <3>2. QED
      BY <1>1, <2>2, <2>4, <3>1, SeekKept
  <2>5. QED
    BY <1>3, <2>3, <2>4 DEF WorkerDispatches
<1>4. QED
  BY <1>2, <1>3 DEF Worker

(* The peripherals and the uplink post what no connection waits for.        *)
LEMMA SeekNear ==
    ChatInv /\ SeekInv /\ (PingActivity \/ WakeWord \/ Edge \/ talk_button_irq_cb) => SeekInv'
<1> SUFFICES ASSUME ChatInv, SeekInv, PingActivity \/ WakeWord \/ Edge \/ talk_button_irq_cb
             PROVE SeekInv'
  OBVIOUS
<1>1. core \in CoreType
  BY TypeParts DEF ChatInv, Records
<1>2. UNCHANGED <<at, net, ws, rx, hand>>
  BY DEF PingActivity, WakeWord, Edge, talk_button_irq_cb, link, down
<1>3. core'.state = core.state
  BY <1>1 DEF PingActivity, WakeWord, Edge, talk_button_irq_cb, CoreType
<1>4. UNCHANGED <<bus, lost>> \/ \E e \in Events : chat_bus_post_event(e)
  BY DEF PingActivity, WakeWord, Edge, talk_button_irq_cb, Events
<1>5. (\A x : Queued(x, bus) => Queued(x, bus')) /\ (lost => lost')
  BY <1>4, PostQueues
<1>6. (NetAwaited => NetAwaited') /\ (WsAwaited => WsAwaited')
  BY <1>2, <1>5 DEF NetAwaited, WsAwaited
<1>7. QED
  BY <1>2, <1>3, <1>5, <1>6, SeekKept

LEMMA SeekInvStep == ChatInv /\ SeekInv /\ [Next]_vars => SeekInv'
<1>1. ChatInv /\ SeekInv /\ Next => SeekInv'
  BY SeekWake, SeekLeaves, SeekTalk, SeekSets, SeekModem, SeekSocket, SeekWorker, SeekNear
     DEF Next, CoreTask, HandleEvent, HandleFailed, chat_core_tick
<1>2. SeekInv /\ UNCHANGED vars => SeekInv'
  BY DEF SeekInv, FlagEnds, WsReports, ConnectingAwaits, Seeks, StaleActivating, NetAwaited,
         WsAwaited, Queued, vars, link, down
<1>3. QED
  BY <1>1, <1>2

LEMMA SeekInvInit == Init => SeekInv
BY DEF Init, SeekInv, FlagEnds, WsReports, ConnectingAwaits, Seeks

(* A session that connects is never left with nothing that could end it,    *)
(* but for what failed or was dropped without an event, and for             *)
(* g_net_activating: the safety half of ConnectingResolves.                 *)
THEOREM ChatConnectingAwaits == Spec => []ConnectingAwaits
<1>1. SeekInv => ConnectingAwaits
  BY DEF SeekInv
<1>2. QED
  BY <1>1, ChatInvInit, ChatInvStep, SeekInvInit, SeekInvStep, PTL DEF Spec

-----------------------------------------------------------------------------
(* The JSON objects in what is received.  Induction over a text, its parts  *)
(* or how it is built is by sets: of numbers, or of texts that a grammar's  *)
(* rules do not lead out of.                                                *)

LEMMA NatSetInduction ==
    ASSUME NEW S, 0 \in S, \A n \in Nat : n \in S => n + 1 \in S
    PROVE  \A n \in Nat : n \in S
<1> DEFINE R == OpToRel(<, Nat)
           T == Nat \ S
<1>1. IsWellFoundedOn(R, Nat)
  BY NatLessThanWellFounded, Zenon
<1>2. ASSUME T # {} PROVE FALSE
  <2>1. T \subseteq Nat
    OBVIOUS
  <2>2. PICK x \in T : \A y \in T : ~(<<y, x>> \in R)
    <3> HIDE DEF T, R
    <3> QED
      BY <1>1, <1>2, <2>1, WFMin
  <2>3. x \in Nat /\ x # 0
    OBVIOUS
  <2>4. x - 1 \in Nat /\ x - 1 < x /\ (x - 1) + 1 = x
    BY <2>3
  <2>5. <<x - 1, x>> \in R
    BY <2>3, <2>4, Zenon DEF OpToRel
  <2>6. x - 1 \in S
    BY <2>2, <2>4, <2>5
  <2>7. QED
    BY <2>3, <2>4, <2>6
<1>3. QED
  BY <1>2

Chars == {"open", "close", "quote", "escape", "x"}
Texts == Seq(Chars)

(* What one character makes of the locals.                                  *)
Read(s, text, i) == IF s.string THEN InString(s, text[i]) ELSE Outside(s, text[i], i, text)

Locals == [depth : Nat, from : Nat, consumed : Nat, string : BOOLEAN, escaped : BOOLEAN,
           found : Seq(Texts)]

Outer(s) == s.depth = 0 /\ ~s.string /\ ~s.escaped

(* The locals before the first character and after each.                    *)
LEMMA ScanSteps ==
    ASSUME NEW text \in Texts
    PROVE  /\ scanned(text)[0] = Fresh
           /\ \A i \in 1..Len(text) : scanned(text)[i] = Read(scanned(text)[i - 1], text, i)
<1> DEFINE N == Len(text)
           Upto(n, f) == /\ DOMAIN f = 0..n
                         /\ f[0] = Fresh
                         /\ \A i \in 1..n : f[i] = Read(f[i - 1], text, i)
           S == {n \in Nat : \E f : Upto(n, f)}
<1>1. 0 \in S
  <2> DEFINE g == [i \in 0..0 |-> Fresh]
  <2>1. DOMAIN g = 0..0 /\ g[0] = Fresh
    OBVIOUS
  <2>2. 1..0 = {}
    OBVIOUS
  <2> HIDE DEF g
  <2>3. Upto(0, g)
    BY <2>1, <2>2
  <2>4. QED
    BY <2>3
<1>2. ASSUME NEW n \in Nat, n \in S PROVE n + 1 \in S
  <2>1. PICK f : Upto(n, f)
    BY <1>2
  <2> DEFINE g == [i \in 0..(n + 1) |-> IF i = n + 1 THEN Read(f[n], text, n + 1) ELSE f[i]]
  <2>2. /\ DOMAIN g = 0..(n + 1)
        /\ g[n + 1] = Read(f[n], text, n + 1)
        /\ \A i \in 0..n : g[i] = f[i]
    OBVIOUS
  <2> HIDE DEF g
  <2>3. ASSUME NEW i \in 1..(n + 1) PROVE g[i] = Read(g[i - 1], text, i)
    <3>1. CASE i = n + 1
      <4>1. i - 1 = n /\ g[i - 1] = f[n]
        BY <2>2, <3>1
      <4>2. QED
        BY <2>2, <3>1, <4>1
    <3>2. CASE i \in 1..n
      <4>1. g[i] = f[i] /\ g[i - 1] = f[i - 1]
        BY <2>2, <3>2
      <4>2. QED
        BY <2>1, <3>2, <4>1
    <3>3. QED
      BY <3>1, <3>2
  <2>4. Upto(n + 1, g)
    <3>1. 0 \in 0..n
      OBVIOUS
    <3>2. g[0] = Fresh
      BY <2>1, <2>2, <3>1
    <3>3. \A i \in 1..(n + 1) : g[i] = Read(g[i - 1], text, i)
      BY <2>3
    <3>4. QED
      BY <2>2, <3>2, <3>3, Zenon
  <2>5. QED
    BY <2>4
<1>3. N \in S
  <2> HIDE DEF S
  <2>1. N \in Nat
    BY DEF Texts
  <2>2. QED
    BY <1>1, <1>2, <2>1, NatSetInduction
<1>4. PICK f : Upto(N, f)
  BY <1>3
<1> DEFINE Run(g) == g = [i \in 0..N |-> IF i = 0 THEN Fresh ELSE Read(g[i - 1], text, i)]
           run == CHOOSE g : Run(g)
<1>5. \A i \in 0..N : f[i] = IF i = 0 THEN Fresh ELSE Read(f[i - 1], text, i)
  BY <1>4
<1>6. f = [i \in 0..N |-> f[i]]
  BY <1>4
<1>7. Run(f)
  BY <1>5, <1>6
<1>8. Run(run)
  <2> HIDE DEF Run
  <2> QED
    BY <1>7
<1>9. scanned(text) = run
  BY DEF scanned, Read
<1> HIDE DEF run
<1>10. \A i \in 0..N : run[i] = IF i = 0 THEN Fresh ELSE Read(run[i - 1], text, i)
  BY <1>8
<1>11. N \in Nat
  BY DEF Texts
<1>12. QED
  BY <1>9, <1>10, <1>11

(* A character ends an object.                                              *)
Ends(s, c) == ~s.string /\ c = "close" /\ s.depth = 1

(* What one character makes of each of the locals.                          *)
Follows(s, r, c, text, i) ==
    /\ r = [depth |-> r.depth, from |-> r.from, consumed |-> r.consumed,
            string |-> r.string, escaped |-> r.escaped, found |-> r.found]
    /\ r.depth = IF s.string \/ (c # "open" /\ c # "close") THEN s.depth
                 ELSE IF c = "open" THEN s.depth + 1
                 ELSE IF s.depth = 0 THEN 0 ELSE s.depth - 1
    /\ r.from = IF ~s.string /\ c = "open" /\ s.depth = 0 THEN i ELSE s.from
    /\ r.consumed = IF Ends(s, c) THEN i ELSE s.consumed
    /\ r.found = IF Ends(s, c) THEN Append(s.found, SubSeq(text, s.from, i)) ELSE s.found
    /\ r.string \in BOOLEAN /\ r.escaped \in BOOLEAN
    /\ r.string <=> IF s.string THEN s.escaped \/ c # "quote" ELSE c = "quote"
    /\ r.escaped <=> IF s.string THEN ~s.escaped /\ c = "escape" ELSE s.escaped

LEMMA ReadFollows ==
    ASSUME NEW s \in Locals, NEW text, NEW i
    PROVE  Follows(s, Read(s, text, i), text[i], text, i)
<1> DEFINE c == text[i]
<1> DEFINE r == Read(s, text, i)
<1>0. r = IF s.string THEN InString(s, c) ELSE Outside(s, c, i, text)
  BY DEF Read
<1> HIDE DEF r, c
<1> SUFFICES Follows(s, r, c, text, i)
  BY DEF r, c
<1>1. /\ s = [depth |-> s.depth, from |-> s.from, consumed |-> s.consumed,
              string |-> s.string, escaped |-> s.escaped, found |-> s.found]
      /\ s.depth \in Nat /\ s.string \in BOOLEAN /\ s.escaped \in BOOLEAN
  BY DEF Locals
<1>2. CASE s.string
  <2>1. r = InString(s, c)
    BY <1>0, <1>2
  <2>2. ~Ends(s, c)
    BY <1>2 DEF Ends
  <2>3. CASE s.escaped
    <3>1. r = [s EXCEPT !.escaped = FALSE]
      BY <2>1, <2>3 DEF InString
    <3>2. QED
      BY <1>1, <1>2, <2>2, <2>3, <3>1 DEF Follows
  <2>4. CASE ~s.escaped
    <3>1. r = [s EXCEPT !.escaped = c = "escape", !.string = c # "quote"]
      BY <2>1, <2>4 DEF InString
    <3>2. QED
      BY <1>1, <1>2, <2>2, <2>4, <3>1 DEF Follows
  <2>5. QED
    BY <2>3, <2>4
<1>3. CASE ~s.string
  <2>1. r = Outside(s, c, i, text)
    BY <1>0, <1>3
  <2>2. CASE c = "quote"
    <3>1. r = [s EXCEPT !.string = TRUE]
      BY <2>1, <2>2 DEF Outside
    <3>2. QED
      BY <1>1, <1>3, <2>2, <3>1 DEF Follows, Ends
  <2>3. CASE c = "open"
    <3>1. r = [s EXCEPT !.depth = s.depth + 1, !.from = IF s.depth = 0 THEN i ELSE s.from]
      BY <2>1, <2>3 DEF Outside
    <3>2. QED
      BY <1>1, <1>3, <2>3, <3>1 DEF Follows, Ends
  <2>4. CASE c = "close"
    <3>1. CASE s.depth = 0
      BY <1>1, <1>3, <2>1, <2>4, <3>1 DEF Outside, Follows, Ends
    <3>2. CASE s.depth > 1
      <4>1. r = [s EXCEPT !.depth = s.depth - 1]
        BY <1>1, <2>1, <2>4, <3>2 DEF Outside
      <4>2. QED
        BY <1>1, <1>3, <2>4, <3>2, <4>1 DEF Follows, Ends
    <3>3. CASE s.depth = 1
      <4>1. r = [s EXCEPT !.depth = 0, !.consumed = i,
                          !.found = Append(s.found, SubSeq(text, s.from, i))]
        BY <1>1, <2>1, <2>4, <3>3 DEF Outside
      <4>2. r = [depth |-> 0, from |-> s.from, consumed |-> i, string |-> s.string,
                 escaped |-> s.escaped, found |-> Append(s.found, SubSeq(text, s.from, i))]
        BY <1>1, <4>1
      <4>3. Ends(s, c)
        BY <1>3, <2>4, <3>3 DEF Ends
      <4>4. /\ r.depth = 0 /\ r.from = s.from /\ r.consumed = i /\ r.string = s.string
            /\ r.escaped = s.escaped /\ r.found = Append(s.found, SubSeq(text, s.from, i))
        BY <4>2
      <4>5. r = [depth |-> r.depth, from |-> r.from, consumed |-> r.consumed,
                 string |-> r.string, escaped |-> r.escaped, found |-> r.found]
        BY <4>2
      <4>6. r.found = IF Ends(s, c) THEN Append(s.found, SubSeq(text, s.from, i)) ELSE s.found
        BY <4>3, <4>4, Zenon
      <4>7. r.from = IF ~s.string /\ c = "open" /\ s.depth = 0 THEN i ELSE s.from
        BY <3>3, <4>4
      <4>8. r.consumed = IF Ends(s, c) THEN i ELSE s.consumed
        BY <4>3, <4>4
      <4>9. r.depth = IF s.string \/ (c # "open" /\ c # "close") THEN s.depth
                 ELSE IF c = "open" THEN s.depth + 1
                 ELSE IF s.depth = 0 THEN 0 ELSE s.depth - 1
        BY <1>3, <2>4, <3>3, <4>4
      <4>10. /\ r.string \in BOOLEAN /\ r.escaped \in BOOLEAN
             /\ r.string <=> IF s.string THEN s.escaped \/ c # "quote" ELSE c = "quote"
             /\ r.escaped <=> IF s.string THEN ~s.escaped /\ c = "escape" ELSE s.escaped
        BY <1>1, <1>3, <2>4, <4>4
      <4>11. QED
        BY <4>5, <4>6, <4>7, <4>8, <4>9, <4>10, Zenon DEF Follows
    <3>4. s.depth = 0 \/ s.depth > 1 \/ s.depth = 1
      BY <1>1
    <3>5. QED
      BY <3>1, <3>2, <3>3, <3>4, Zenon
  <2>5. CASE c # "quote" /\ c # "open" /\ c # "close"
    BY <1>1, <1>3, <2>1, <2>5 DEF Outside, Follows, Ends
  <2>6. QED
    BY <2>2, <2>3, <2>4, <2>5
<1>4. QED
  BY <1>2, <1>3

(* The locals have their types, an object under way began at a character    *)
(* read, and since the end of the last object nothing was found; there the  *)
(* scan was as it is at the start of a text.                                *)
ScanSound(g, i) ==
    /\ g[i] \in Locals
    /\ g[i].depth > 0 => g[i].from \in 1..i
    /\ g[i].escaped => g[i].string
    /\ g[i].consumed \in 0..i
    /\ Outer(g[g[i].consumed])
    /\ g[i].found = g[g[i].consumed].found

LEMMA ScanIsSound ==
    ASSUME NEW text \in Texts
    PROVE  \A i \in 0..Len(text) : ScanSound(scanned(text), i)
<1> DEFINE N == Len(text)
           g == scanned(text)
           S == {i \in Nat : i <= N => ScanSound(g, i)}
<1>0. N \in Nat
  BY DEF Texts
<1>1. 0 \in S
  <2>1. g[0] = Fresh
    BY ScanSteps
  <2>2. Fresh \in Locals /\ Outer(Fresh) /\ Fresh.consumed = 0 /\ Fresh.depth = 0
    BY DEF Fresh, Locals, Outer, Texts
  <2> HIDE DEF g
  <2>3. ScanSound(g, 0)
    BY <2>1, <2>2 DEF ScanSound, Outer
  <2>4. QED
    BY <2>3
<1>2. ASSUME NEW n \in Nat, n \in S PROVE n + 1 \in S
  <2> DEFINE i == n + 1
             s == g[n]
             r == g[i]
             c == text[i]
  <2> SUFFICES ASSUME i <= N PROVE ScanSound(g, i)
    OBVIOUS
  <2>1. ScanSound(g, n)
    BY <1>0, <1>2
  <2>2. i \in 1..N /\ i - 1 = n
    BY <1>0
  <2>3. g[i] = Read(g[n], text, i)
    BY <2>2, ScanSteps
  <2> HIDE DEF g
  <2>4. s \in Locals
    BY <2>1 DEF ScanSound
  <2>5. Follows(s, r, c, text, i)
    BY <2>3, <2>4, ReadFollows
  <2> HIDE DEF i, c
  <2>6. i \in Nat /\ n = i - 1
    BY DEF i
  <2>7. s.depth \in Nat /\ s.from \in Nat /\ s.consumed \in 0..n /\ s.found \in Seq(Texts)
    BY <2>1 DEF ScanSound, Locals
  <2>8. r.depth \in Nat /\ r.from \in Nat /\ r.consumed \in 0..i
    <3>1. r.depth \in Nat
      BY <2>5, <2>7 DEF Follows
    <3>2. r.from = i \/ r.from = s.from
      BY <2>5 DEF Follows
    <3>3. r.consumed = i \/ r.consumed = s.consumed
      BY <2>5 DEF Follows
    <3>4. QED
      BY <2>6, <2>7, <3>1, <3>2, <3>3, SMTT(30)
  <2>9. r.depth > 0 => r.from \in 1..i
    BY <2>1, <2>5, <2>6, <2>7, SMTT(30) DEF Follows, ScanSound
  <2>10. r.escaped => r.string
    <3>1. s.string \in BOOLEAN /\ s.escaped \in BOOLEAN /\ (s.escaped => s.string)
      BY <2>1 DEF ScanSound, Locals
    <3>2. "escape" # "quote"
      OBVIOUS
    <3>3. QED
      BY <2>5, <3>1, <3>2, Zenon DEF Follows
  <2>11. CASE Ends(s, c)
    <3>1. r.consumed = i /\ r.depth = 0 /\ ~r.string /\ ~r.escaped
      <4>1. r.consumed = i /\ r.depth = 0
        BY <2>5, <2>11 DEF Follows, Ends
      <4>2. ~r.string
        BY <2>5, <2>11 DEF Follows, Ends
      <4>3. QED
        BY <2>10, <4>1, <4>2
    <3>2. SubSeq(text, s.from, i) \in Texts
      <4>1. s.from \in 1..i /\ i \in 1..Len(text)
        BY <2>1, <2>2, <2>6, <2>11 DEF ScanSound, Ends
      <4>2. QED
        BY <4>1 DEF Texts
    <3>3. r.found = Append(s.found, SubSeq(text, s.from, i))
      BY <2>5, <2>11, Zenon DEF Follows
    <3>4. r.found \in Seq(Texts)
      BY <2>7, <3>2, <3>3
    <3>5. r \in Locals
      <4>1. /\ r = [depth |-> r.depth, from |-> r.from, consumed |-> r.consumed,
                    string |-> r.string, escaped |-> r.escaped, found |-> r.found]
            /\ r.string \in BOOLEAN /\ r.escaped \in BOOLEAN
        BY <2>5 DEF Follows
      <4>2. QED
        BY <2>6, <2>8, <3>4, <4>1 DEF Locals
    <3>6. QED
      BY <2>8, <2>9, <2>10, <3>1, <3>5, Zenon DEF ScanSound, Outer
  <2>12. CASE ~Ends(s, c)
    <3>1. r.consumed = s.consumed /\ r.found = s.found
      BY <2>5, <2>12, Zenon DEF Follows
    <3>2. r \in Locals
      <4>1. /\ r = [depth |-> r.depth, from |-> r.from, consumed |-> r.consumed,
                    string |-> r.string, escaped |-> r.escaped, found |-> r.found]
            /\ r.string \in BOOLEAN /\ r.escaped \in BOOLEAN
        BY <2>5 DEF Follows
      <4>2. QED
        BY <2>7, <2>8, <3>1, <4>1 DEF Locals
    <3>3. QED
      BY <2>1, <2>8, <2>9, <2>10, <3>1, <3>2, Zenon DEF ScanSound
  <2>13. QED
    BY <2>11, <2>12 DEF i
<1>3. \A n \in Nat : n \in S
  <2> HIDE DEF S
  <2> QED
    BY <1>1, <1>2, NatSetInduction
<1>4. QED
  BY <1>0, <1>3

LEMMA PartOfText ==
    ASSUME NEW T \in Texts, NEW c \in 0..Len(T), NEW n \in c..Len(T)
    PROVE  /\ SubSeq(T, c + 1, n) \in Texts
           /\ Len(SubSeq(T, c + 1, n)) = n - c
           /\ \A k \in 1..(n - c) : SubSeq(T, c + 1, n)[k] = T[c + k]
BY DEF Texts

LEMMA PartOfPart ==
    ASSUME NEW T \in Texts, NEW a \in 1..Len(T), NEW b \in 1..Len(T),
           NEW m \in 1..(b - a + 1), NEW n \in 1..(b - a + 1)
    PROVE  SubSeq(SubSeq(T, a, b), m, n) = SubSeq(T, a + m - 1, a + n - 1)
<1> DEFINE U == SubSeq(T, a, b)
<1>1. U \in Seq(Chars) /\ Len(U) = b - a + 1 /\ \A k \in 1..(b - a + 1) : U[k] = T[a + k - 1]
  BY DEF Texts
<1> HIDE DEF U
<1>2. /\ SubSeq(U, m, n) \in Seq(Chars) /\ SubSeq(T, a + m - 1, a + n - 1) \in Seq(Chars)
      /\ Len(SubSeq(U, m, n)) = Len(SubSeq(T, a + m - 1, a + n - 1))
      /\ \A k \in 1..Len(SubSeq(U, m, n)) :
             SubSeq(U, m, n)[k] = SubSeq(T, a + m - 1, a + n - 1)[k]
  BY <1>1 DEF Texts
<1>3. QED
  BY <1>2, SeqEqual DEF U

LEMMA AppendToConcat ==
    ASSUME NEW p \in Seq(Texts), NEW q \in Seq(Texts), NEW o \in Texts
    PROVE  Append(p \o q, o) = p \o Append(q, o)
<1>1. /\ Append(p \o q, o) \in Seq(Texts) /\ p \o Append(q, o) \in Seq(Texts)
      /\ Len(Append(p \o q, o)) = Len(p \o Append(q, o))
  OBVIOUS
<1>2. ASSUME NEW i \in 1..Len(Append(p \o q, o))
      PROVE  Append(p \o q, o)[i] = (p \o Append(q, o))[i]
  OBVIOUS
<1>3. QED
  BY <1>1, <1>2, SeqEqual

(* A scan that begins anew where a scan of the whole text is outside of     *)
(* objects and strings, as after an object, goes on like that one.          *)
Resumes(g, h, c, k) ==
    /\ h[k].depth = g[c + k].depth
    /\ h[k].string <=> g[c + k].string
    /\ h[k].escaped <=> g[c + k].escaped
    /\ g[c + k].depth > 0 => g[c + k].from = c + h[k].from
    /\ g[c + k].consumed = IF h[k].consumed = 0 THEN g[c].consumed ELSE c + h[k].consumed
    /\ g[c + k].found = g[c].found \o h[k].found

LEMMA ScanResumes ==
    ASSUME NEW T \in Texts, NEW c \in 0..Len(T), NEW n \in c..Len(T), Outer(scanned(T)[c])
    PROVE  \A k \in 0..(n - c) : Resumes(scanned(T), scanned(SubSeq(T, c + 1, n)), c, k)
<1> DEFINE U == SubSeq(T, c + 1, n)
           g == scanned(T)
           h == scanned(U)
           S == {k \in Nat : k <= n - c => Resumes(g, h, c, k)}
<1>1. /\ c \in Nat /\ n \in Nat /\ Len(T) \in Nat
      /\ U \in Texts /\ Len(U) = n - c
      /\ \A k \in 1..Len(U) : U[k] = T[c + k]
  <2>1. Len(T) \in Nat
    BY DEF Texts
  <2>2. QED
    BY <2>1, PartOfText
<1>2. /\ \A i \in 0..Len(T) : ScanSound(g, i)
      /\ \A i \in 0..Len(U) : ScanSound(h, i)
  BY <1>1, ScanIsSound
<1>3. /\ h[0] = Fresh
      /\ \A i \in 1..Len(T) : g[i] = Read(g[i - 1], T, i)
      /\ \A i \in 1..Len(U) : h[i] = Read(h[i - 1], U, i)
  BY <1>1, ScanSteps
<1>4. 0 \in S
  <2> HIDE DEF g, h
  <2>1. c \in 0..Len(T) /\ c + 0 = c
    BY <1>1
  <2>2. g[c].found \in Seq(Texts)
    BY <1>2, <2>1 DEF ScanSound, Locals
  <2>3. g[c].found \o <<>> = g[c].found
    BY <2>2, ConcatEmptySeq
  <2>4. Outer(g[c])
    BY DEF g
  <2>5. /\ Fresh.depth = 0 /\ ~Fresh.string /\ ~Fresh.escaped
        /\ Fresh.consumed = 0 /\ Fresh.found = <<>>
    BY DEF Fresh
  <2>6. Resumes(g, h, c, 0)
    BY <1>3, <2>1, <2>3, <2>4, <2>5 DEF Resumes, Outer
  <2>7. QED
    BY <2>6
<1>5. ASSUME NEW k \in Nat, k \in S PROVE k + 1 \in S
  <2> DEFINE l == k + 1
             i == c + k + 1
             s == g[c + k]
             r == h[k]
             x == T[i]
  <2> SUFFICES ASSUME l <= n - c PROVE Resumes(g, h, c, l)
    OBVIOUS
  <2> HIDE DEF U
  <2>1. /\ l \in 1..Len(U) /\ l - 1 = k /\ i \in 1..Len(T) /\ i - 1 = c + k /\ U[l] = x
        /\ k \in 0..Len(U) /\ c + k \in 0..Len(T) /\ c + l = i
    BY <1>1
  <2>2. Resumes(g, h, c, k)
    BY <1>1, <1>5
  <2>3. g[i] = Read(s, T, i) /\ h[l] = Read(r, U, l)
    BY <1>3, <2>1
  <2>4. ScanSound(g, c + k) /\ ScanSound(h, k) /\ ScanSound(g, c)
    BY <1>1, <1>2, <2>1
  <2> HIDE DEF g, h, U
  <2>5. s \in Locals /\ r \in Locals
    BY <2>4 DEF ScanSound
  <2>6. Follows(s, g[i], x, T, i) /\ Follows(r, h[l], x, U, l)
    <3>1. Follows(s, Read(s, T, i), T[i], T, i) /\ Follows(r, Read(r, U, l), U[l], U, l)
      BY <2>5, ReadFollows
    <3>2. QED
      BY <2>1, <2>3, <3>1
  <2> HIDE DEF i, l, x
  <2>7. /\ i \in Nat /\ l \in Nat /\ i = c + l /\ k = l - 1 /\ l > 0
    BY <1>1, <2>1 DEF l, i
  <2>8. /\ s.depth \in Nat /\ s.from \in Nat /\ s.consumed \in Nat
        /\ s.string \in BOOLEAN /\ s.escaped \in BOOLEAN
        /\ r.depth \in Nat /\ r.from \in Nat /\ r.consumed \in Nat
        /\ r.string \in BOOLEAN /\ r.escaped \in BOOLEAN
        /\ g[c].found \in Seq(Texts) /\ r.found \in Seq(Texts)
    BY <2>4 DEF ScanSound, Locals
  <2>9. Ends(s, x) <=> Ends(r, x)
    BY <2>2 DEF Resumes, Ends
  <2>10. h[l].depth = g[i].depth
    BY <2>2, <2>6 DEF Resumes, Follows
  <2>11. h[l].string <=> g[i].string
    BY <2>2, <2>6, Zenon DEF Resumes, Follows
  <2>12. h[l].escaped <=> g[i].escaped
    BY <2>2, <2>6, Zenon DEF Resumes, Follows
  <2>13. g[i].depth > 0 => g[i].from = c + h[l].from
    <3>1. s.depth = 0 /\ ~(~s.string /\ x = "open") => g[i].depth = 0
      BY <2>6, <2>8 DEF Follows
    <3>2. g[i].from = IF ~s.string /\ x = "open" /\ s.depth = 0 THEN i ELSE s.from
      BY <2>6 DEF Follows
    <3>3. h[l].from = IF ~r.string /\ x = "open" /\ r.depth = 0 THEN l ELSE r.from
      BY <2>6 DEF Follows
    <3>4. r.depth = s.depth /\ (r.string <=> s.string) /\ (s.depth > 0 => s.from = c + r.from)
      BY <2>2 DEF Resumes
    <3>5. QED
      BY <2>7, <2>8, <3>1, <3>2, <3>3, <3>4, SMTT(30)
  <2>14. g[i].consumed = IF h[l].consumed = 0 THEN g[c].consumed ELSE c + h[l].consumed
    <3>1. g[i].consumed = IF Ends(s, x) THEN i ELSE s.consumed
      BY <2>6 DEF Follows
    <3>2. h[l].consumed = IF Ends(r, x) THEN l ELSE r.consumed
      BY <2>6 DEF Follows
    <3>3. s.consumed = IF r.consumed = 0 THEN g[c].consumed ELSE c + r.consumed
      BY <2>2 DEF Resumes
    <3>4. QED
      BY <2>7, <2>9, <3>1, <3>2, <3>3
  <2>15. g[i].found = g[c].found \o h[l].found
    <3>1. s.found = g[c].found \o r.found
      BY <2>2 DEF Resumes
    <3>2. CASE ~Ends(s, x)
      <4>1. g[i].found = s.found /\ h[l].found = r.found
        BY <2>6, <2>9, <3>2, Zenon DEF Follows
      <4>2. QED
        BY <3>1, <4>1
    <3>3. CASE Ends(s, x)
      <4> DEFINE o == SubSeq(U, r.from, l)
      <4>1. /\ g[i].found = Append(s.found, SubSeq(T, s.from, i))
            /\ h[l].found = Append(r.found, o)
        BY <2>6, <2>9, <3>3, Zenon DEF Follows
      <4>2. s.from = c + r.from /\ r.from \in 1..k
        BY <2>2, <2>4, <3>3 DEF Resumes, Ends, ScanSound
      <4>3. SubSeq(T, s.from, i) = o
        <5>1. /\ c + 1 \in 1..Len(T) /\ n \in 1..Len(T) /\ T \in Seq(Chars)
              /\ r.from \in 1..(n - (c + 1) + 1) /\ l \in 1..(n - (c + 1) + 1)
          <6>1. T \in Seq(Chars)
            BY DEF Texts
          <6>2. l \in 1..(n - c) /\ r.from \in 1..(n - c) /\ c + 1 <= n
            BY <1>1, <2>1, <2>7, <4>2
          <6>3. n - (c + 1) + 1 = n - c
            BY <1>1
          <6>4. QED
            BY <1>1, <6>1, <6>2, <6>3
        <5>2. SubSeq(SubSeq(T, c + 1, n), r.from, l)
                  = SubSeq(T, c + 1 + r.from - 1, c + 1 + l - 1)
          BY <5>1, PartOfPart
        <5>3. c + 1 + r.from - 1 = s.from /\ c + 1 + l - 1 = i
          <6>1. c \in Nat /\ r.from \in Nat /\ l \in Nat
            BY <1>1, <2>7, <2>8
          <6>2. s.from = c + r.from /\ i = c + l
            BY <2>7, <4>2
          <6>3. QED
            BY <6>1, <6>2, SMTT(30)
        <5>4. QED
          BY <5>2, <5>3 DEF U
      <4>4. o \in Texts
        <5>1. r.from \in 1..l /\ l \in 1..Len(U)
          BY <2>1, <2>7, <4>2
        <5>2. QED
          BY <1>1, <5>1, SMTT(30) DEF Texts
      <4> HIDE DEF o
      <4>5. Append(g[c].found \o r.found, o) = g[c].found \o Append(r.found, o)
        BY <2>8, <4>4, AppendToConcat
      <4>6. QED
        BY <3>1, <4>1, <4>3, <4>5
    <3>4. QED
      BY <3>2, <3>3
  <2>16. QED
    BY <2>1, <2>10, <2>11, <2>12, <2>13, <2>14, <2>15, Zenon DEF Resumes
<1>6. \A k \in Nat : k \in S
  <2> HIDE DEF S
  <2> QED
    BY <1>4, <1>5, NatSetInduction
<1>7. QED
  BY <1>1, <1>6

(* Outside of objects no string is open: a quote there would go with the    *)
(* text that is dropped.                                                    *)
QuotesInside(text) ==
    \A i \in 0..Len(text) : scanned(text)[i].depth = 0 => ~scanned(text)[i].string

(* The worker has the text up to n, and found what a scan of it finds; what *)
(* it keeps begins where nothing of an object is lost.                      *)
Kept(T, w, n) ==
    \E c \in scanned(T)[n].consumed..n :
        /\ Outer(scanned(T)[c])
        /\ scanned(T)[c].found = scanned(T)[n].found
        /\ w = [accum |-> SubSeq(T, c + 1, n), found |-> scanned(T)[n].found]

(* One more part is dispatched, not too long with what is kept.             *)
LEMMA PartIsKept ==
    ASSUME NEW T \in Texts, QuotesInside(T), NEW w, NEW n \in 0..Len(T), NEW m \in n + 1..Len(T),
           Kept(T, w, n), m - scanned(T)[n].consumed < AccumMax
    PROVE  Kept(T, coze_dispatch_json_stream(w, SubSeq(T, n + 1, m)), m)
<1> DEFINE g == scanned(T)
           chunk == SubSeq(T, n + 1, m)
<1>1. PICK c \in g[n].consumed..n :
          /\ Outer(g[c]) /\ g[c].found = g[n].found
          /\ w = [accum |-> SubSeq(T, c + 1, n), found |-> g[n].found]
  BY DEF Kept
<1> DEFINE U == SubSeq(T, c + 1, m)
           h == scanned(U)
           s == h[m - c]
<1>2. \A i \in 0..Len(T) : ScanSound(g, i)
  BY ScanIsSound
<1>3. /\ Len(T) \in Nat /\ n \in 0..Len(T) /\ m \in 0..Len(T) /\ n < m
      /\ n \in Nat /\ m \in Nat /\ c \in Nat
      /\ g[n].consumed \in 0..n /\ c \in 0..n /\ c \in 0..Len(T) /\ m \in c..Len(T)
  <2>1. Len(T) \in Nat
    BY DEF Texts
  <2>2. g[n].consumed \in 0..n
    BY <1>2 DEF ScanSound
  <2>3. QED
    BY <1>1, <2>1, <2>2
<1>4. U \in Texts /\ Len(U) = m - c
  BY <1>3, PartOfText
<1>5. ScanSound(h, m - c) /\ ScanSound(g, m) /\ ScanSound(g, c)
  <2>1. m - c \in 0..Len(U)
    BY <1>3, <1>4
  <2> HIDE DEF U
  <2>2. QED
    BY <1>2, <1>3, <1>4, <2>1, ScanIsSound
<1>6. Resumes(g, h, c, m - c)
  <2>1. m - c \in 0..(m - c)
    BY <1>3
  <2>2. \A k \in 0..(m - c) : Resumes(g, h, c, k)
    BY <1>1, <1>3, ScanResumes
  <2>3. QED
    BY <2>1, <2>2
<1>7. coze_dispatch_json_stream(w, chunk) =
          [accum |-> IF s.consumed > 0 THEN SubSeq(U, s.consumed + 1, m - c)
                     ELSE IF s.depth = 0 THEN <<>> ELSE U,
           found |-> w.found \o s.found]
  <2>1. Len(w.accum) = n - c /\ Len(chunk) = m - n /\ w.accum \o chunk = U
    <3>1. w.accum = SubSeq(T, c + 1, n)
      BY <1>1
    <3>2. SubSeq(T, c + 1, n) \o SubSeq(T, n + 1, m) = U
      <4>1. c + 1 \in 1..(Len(T) + 1) /\ n \in (c + 1) - 1..Len(T) /\ m \in n..Len(T)
        BY <1>3
      <4>2. QED
        BY <4>1, ConcatAdjacentSubSeq DEF Texts
    <3>3. Len(SubSeq(T, c + 1, n)) = n - c
      <4>1. n \in c..Len(T)
        BY <1>3
      <4>2. QED
        BY <1>3, <4>1, PartOfText
    <3>4. Len(chunk) = m - n
      <4>1. m \in n..Len(T)
        BY <1>3
      <4>2. QED
        BY <1>3, <4>1, PartOfText
    <3>5. QED
      BY <3>1, <3>2, <3>3, <3>4
  <2>2. ~(Len(w.accum) + Len(chunk) >= AccumMax) /\ ~(Len(chunk) >= AccumMax)
    <3>1. AccumMax \in Nat
      BY JsonAssumption
    <3>2. m - c < AccumMax /\ m - n < AccumMax /\ (n - c) + (m - n) = m - c
      BY <1>1, <1>3, <3>1
    <3> HIDE DEF chunk
    <3>3. QED
      BY <1>3, <2>1, <3>1, <3>2
  <2>3. scan(U) = s
    BY <1>4 DEF scan
  <2> HIDE DEF U, s, chunk
  <2>4. QED
    BY <1>4, <2>1, <2>2, <2>3 DEF coze_dispatch_json_stream
<1> DEFINE v == coze_dispatch_json_stream(w, chunk)
<1>8. w.found \o s.found = g[m].found
  <2>1. c + (m - c) = m /\ w.found = g[c].found
    BY <1>1, <1>3
  <2> HIDE DEF g, h
  <2>2. QED
    BY <1>6, <2>1 DEF Resumes
<1> HIDE DEF g, h, v, s
<1>9. c + (m - c) = m /\ s.consumed \in 0..(m - c) /\ s.depth \in Nat
  BY <1>3, <1>5, SMTT(30) DEF ScanSound, Locals, s
<1>10. /\ s.depth = g[m].depth
       /\ g[m].consumed = IF s.consumed = 0 THEN g[c].consumed ELSE c + s.consumed
  BY <1>6, <1>9 DEF Resumes, s
<1>11. CASE s.consumed > 0
  <2> DEFINE e == s.consumed
             d == c + e
  <2>1. d = g[m].consumed /\ d \in 1..m
    BY <1>3, <1>9, <1>10, <1>11
  <2>2. Outer(g[d]) /\ g[d].found = g[m].found
    BY <1>5, <2>1 DEF ScanSound
  <2>3. SubSeq(U, s.consumed + 1, m - c) = SubSeq(T, d + 1, m)
    <3>1. e \in 0..(m - c) /\ c \in Nat /\ m \in Nat
      BY <1>3, <1>9
    <3>2. /\ c + 1 + (e + 1) - 1 = d + 1 /\ c + 1 + (m - c) - 1 = m
          /\ e = m - c => d = m
          /\ e < m - c => e + 1 \in 1..(m - (c + 1) + 1) /\ m - c \in 1..(m - (c + 1) + 1)
          /\ e < m - c => c + 1 \in 1..Len(T) /\ m \in 1..Len(T)
      <4> HIDE DEF e
      <4> QED
        BY <1>3, <3>1
    <3> HIDE DEF e, d
    <3>3. CASE e = m - c
      <4>1. SubSeq(U, m - c + 1, m - c) = <<>> /\ SubSeq(T, m + 1, m) = <<>>
        <5>1. m - c \in Int /\ m - c + 1 \in Int /\ m - c < m - c + 1
          BY <3>1
        <5>2. m \in Int /\ m + 1 \in Int /\ m < m + 1
          BY <3>1
        <5>3. QED
          BY <5>1, <5>2, SubSeqEmpty
      <4>2. QED
        BY <3>2, <3>3, <4>1 DEF e
    <3>4. CASE e < m - c
      <4>1. SubSeq(U, e + 1, m - c) = SubSeq(T, c + 1 + (e + 1) - 1, c + 1 + (m - c) - 1)
        BY <3>2, <3>4, PartOfPart
      <4>2. QED
        BY <3>2, <4>1 DEF e
    <3>5. e = m - c \/ e < m - c
      BY <3>1
    <3>6. QED
      BY <3>3, <3>4, <3>5 DEF e, d
  <2>4. v = [accum |-> SubSeq(T, d + 1, m), found |-> g[m].found]
    BY <1>7, <1>8, <1>11, <2>3 DEF v, s
  <2>5. d \in g[m].consumed..m
    BY <1>3, <2>1
  <2>6. QED
    BY <2>2, <2>4, <2>5 DEF Kept, g, v
<1>12. CASE s.consumed = 0 /\ s.depth = 0
  <2>1. Outer(g[m])
    <3>1. ~g[m].string
      BY <1>3, <1>10, <1>12 DEF QuotesInside, g
    <3>2. QED
      BY <1>5, <1>10, <1>12, <3>1 DEF ScanSound, Outer
  <2>2. SubSeq(T, m + 1, m) = <<>>
    BY <1>3, SubSeqEmpty
  <2>3. v = [accum |-> SubSeq(T, m + 1, m), found |-> g[m].found]
    BY <1>7, <1>8, <1>12, <2>2 DEF v, s
  <2>4. m \in g[m].consumed..m
    BY <1>3, <1>5 DEF ScanSound
  <2>5. QED
    BY <2>1, <2>3, <2>4 DEF Kept, g, v
<1>13. CASE s.consumed = 0 /\ s.depth > 0
  <2>1. v = [accum |-> SubSeq(T, c + 1, m), found |-> g[m].found]
    <3>1. ~(s.consumed > 0) /\ s.depth # 0
      BY <1>13
    <3>2. QED
      BY <1>7, <1>8, <3>1 DEF v, s
  <2>2. g[m].found = g[c].found
    <3>1. s.found = <<>>
      <4>1. s.found = h[0].found
        BY <1>5, <1>13 DEF ScanSound, s
      <4>2. h[0] = Fresh
        BY <1>4, ScanSteps DEF h
      <4>3. QED
        BY <4>1, <4>2 DEF Fresh
    <3>2. g[c].found \in Seq(Texts) /\ w.found = g[c].found
      BY <1>1, <1>5 DEF ScanSound, Locals, g
    <3>3. g[c].found \o <<>> = g[c].found
      BY <3>2, ConcatEmptySeq
    <3>4. QED
      BY <1>8, <3>1, <3>2, <3>3
  <2>3. c \in g[m].consumed..m
    BY <1>3, <1>5, <1>10, <1>13 DEF ScanSound
  <2>4. QED
    BY <1>1, <2>1, <2>2, <2>3 DEF Kept, g, v
<1>14. QED
  BY <1>9, <1>11, <1>12, <1>13 DEF v

(* What the worker has before the first part and after each.                *)
Nothing == [accum |-> <<>>, found |-> <<>>]

Dispatched(parts, w, k) ==
    IF k = 0 THEN Nothing
    ELSE IF parts[k] = <<>> THEN w[k - 1] ELSE coze_dispatch_json_stream(w[k - 1], parts[k])

LEMMA DispatchSteps ==
    ASSUME NEW parts \in Seq(Texts)
    PROVE  \E w : /\ \A k \in 0..Len(parts) : w[k] = Dispatched(parts, w, k)
                  /\ Received(parts) = w[Len(parts)].found
<1> DEFINE N == Len(parts)
           Upto(n, f) == DOMAIN f = 0..n /\ \A k \in 0..n : f[k] = Dispatched(parts, f, k)
           S == {n \in Nat : \E f : Upto(n, f)}
<1>1. 0 \in S
  <2> DEFINE f == [k \in 0..0 |-> Nothing]
  <2>1. DOMAIN f = 0..0 /\ f[0] = Nothing
    OBVIOUS
  <2> HIDE DEF f
  <2>2. Upto(0, f)
    BY <2>1 DEF Dispatched
  <2>3. QED
    BY <2>2
<1>2. ASSUME NEW n \in Nat, n \in S PROVE n + 1 \in S
  <2>1. PICK f : Upto(n, f)
    BY <1>2
  <2> DEFINE g == [k \in 0..(n + 1) |-> IF k = n + 1 THEN Dispatched(parts, f, n + 1) ELSE f[k]]
  <2>2. /\ DOMAIN g = 0..(n + 1)
        /\ g[n + 1] = Dispatched(parts, f, n + 1)
        /\ \A k \in 0..n : g[k] = f[k]
    OBVIOUS
  <2> HIDE DEF g
  <2>3. ASSUME NEW k \in 0..(n + 1) PROVE g[k] = Dispatched(parts, g, k)
    <3>1. k = 0 \/ g[k - 1] = f[k - 1]
      BY <2>2
    <3>2. Dispatched(parts, g, k) = Dispatched(parts, f, k)
      BY <3>1, Zenon DEF Dispatched
    <3>3. k = n + 1 \/ k \in 0..n
      OBVIOUS
    <3>4. QED
      BY <2>1, <2>2, <3>2, <3>3
  <2>4. Upto(n + 1, g)
    BY <2>2, <2>3
  <2>5. QED
    BY <2>4
<1>3. N \in S
  <2> HIDE DEF S
  <2> QED
    BY <1>1, <1>2, NatSetInduction
<1>4. PICK f : Upto(N, f)
  BY <1>3
<1> DEFINE Run(w) == w = [k \in 0..N |-> Dispatched(parts, w, k)]
           run == CHOOSE w : Run(w)
<1>5. Run(f)
  BY <1>4
<1>6. Run(run)
  <2> HIDE DEF Run
  <2> QED
    BY <1>5
<1>7. Received(parts) = run[N].found
  BY DEF Received, Dispatched, Nothing
<1> HIDE DEF run
<1>8. \A k \in 0..N : run[k] = Dispatched(parts, run, k)
  BY <1>6
<1>9. QED
  BY <1>7, <1>8

(* Part k of the text ends at character cut[k].                             *)
CutInto(T, parts, cut) ==
    /\ cut \in [0..Len(parts) -> 0..Len(T)]
    /\ cut[0] = 0 /\ cut[Len(parts)] = Len(T)
    /\ \A k \in 1..Len(parts) : /\ cut[k - 1] <= cut[k]
                                /\ parts[k] = SubSeq(T, cut[k - 1] + 1, cut[k])

(* Each part fits in the buffer with all that came since the last object.   *)
Fit(T, parts, cut) ==
    \A k \in 1..Len(parts) : cut[k] - scanned(T)[cut[k - 1]].consumed < AccumMax

(* However a text is cut into parts, the worker dispatches what it would    *)
(* have found in the whole text, as long as the parts fit in its buffer     *)
(* (coze_client.c:59-170).                                                  *)
THEOREM CutsDoNotMatter ==
    ASSUME NEW T \in Texts, QuotesInside(T), NEW parts \in Seq(Texts), NEW cut,
           CutInto(T, parts, cut), Fit(T, parts, cut)
    PROVE  Received(parts) = scan(T).found
<1> DEFINE N == Len(parts)
           g == scanned(T)
<1>1. PICK w : /\ \A k \in 0..N : w[k] = Dispatched(parts, w, k)
               /\ Received(parts) = w[N].found
  BY DispatchSteps
<1> DEFINE S == {k \in Nat : k <= N => Kept(T, w[k], cut[k])}
<1>2. N \in Nat /\ Len(T) \in Nat
  BY DEF Texts
<1>3. 0 \in S
  <2>1. w[0] = Nothing /\ cut[0] = 0
    BY <1>1, <1>2 DEF Dispatched, CutInto
  <2>2. g[0] = Fresh
    BY ScanSteps
  <2>3. Outer(Fresh) /\ Fresh.consumed = 0 /\ Fresh.found = <<>>
    BY DEF Fresh, Outer
  <2>4. SubSeq(T, 0 + 1, 0) = <<>>
    BY SubSeqEmpty
  <2> HIDE DEF g
  <2>5. Nothing = [accum |-> SubSeq(T, 0 + 1, 0), found |-> g[0].found]
    BY <2>2, <2>3, <2>4 DEF Nothing
  <2>6. 0 \in g[0].consumed..0
    BY <2>2, <2>3
  <2>7. Kept(T, Nothing, 0)
    BY <2>2, <2>3, <2>5, <2>6 DEF Kept, g
  <2>8. QED
    BY <2>1, <2>7
<1>4. ASSUME NEW n \in Nat, n \in S PROVE n + 1 \in S
  <2> DEFINE k == n + 1
             a == cut[n]
             b == cut[k]
  <2> SUFFICES ASSUME k <= N PROVE Kept(T, w[k], b)
    OBVIOUS
  <2>1. /\ k \in 1..N /\ k - 1 = n /\ k \in 0..N /\ n \in 0..N /\ k # 0
        /\ Kept(T, w[n], a)
    BY <1>2, <1>4
  <2>2. /\ a \in 0..Len(T) /\ b \in 0..Len(T) /\ a <= b
        /\ parts[k] = SubSeq(T, a + 1, b)
        /\ b - g[a].consumed < AccumMax
    BY <2>1 DEF CutInto, Fit
  <2>3. w[k] = IF parts[k] = <<>> THEN w[n] ELSE coze_dispatch_json_stream(w[n], parts[k])
    BY <1>1, <2>1 DEF Dispatched
  <2> HIDE DEF k, a, b, g
  <2>4. CASE a = b
    <3>1. SubSeq(T, b + 1, b) = <<>>
      BY <2>2, SubSeqEmpty
    <3>2. w[k] = w[n]
      BY <2>2, <2>3, <2>4, <3>1
    <3>3. QED
      BY <2>1, <2>4, <3>2
  <2>5. CASE a < b
    <3>1. b \in a + 1..Len(T) /\ b \in a..Len(T)
      BY <1>2, <2>2, <2>5
    <3>2. Len(SubSeq(T, a + 1, b)) = b - a
      BY <2>2, <3>1, PartOfText
    <3>3. parts[k] # <<>>
      BY <2>2, <2>5, <3>2
    <3>4. Kept(T, coze_dispatch_json_stream(w[n], SubSeq(T, a + 1, b)), b)
      BY <2>1, <2>2, <3>1, PartIsKept DEF g
    <3>5. QED
      BY <2>2, <2>3, <3>3, <3>4
  <2>6. QED
    BY <2>2, <2>4, <2>5 DEF b
<1>5. \A k \in Nat : k \in S
  <2> HIDE DEF S
  <2> QED
    BY <1>3, <1>4, NatSetInduction
<1>6. Kept(T, w[N], Len(T))
  <2>1. cut[N] = Len(T)
    BY DEF CutInto
  <2>2. QED
    BY <1>2, <1>5, <2>1
<1>7. w[N].found = g[Len(T)].found
  <2> HIDE DEF g
  <2> QED
    BY <1>6 DEF Kept, g
<1>8. QED
  BY <1>1, <1>7 DEF scan

(* What a string holds: an escape takes the next character along.           *)
StringClosed(X) ==
    /\ <<>> \in X
    /\ \A s \in X, c \in Chars \ {"quote", "escape"} : s \o <<c>> \in X
    /\ \A s \in X, c \in Chars : s \o <<"escape", c>> \in X

StringBodies == {t \in Texts : \A X \in SUBSET Texts : StringClosed(X) => t \in X}

(* What an object holds: characters, strings and objects.                   *)
BodyClosed(X) ==
    /\ <<>> \in X
    /\ \A b \in X, c \in Chars \ {"quote", "open", "close"} : b \o <<c>> \in X
    /\ \A b \in X, s \in StringBodies : b \o (<<"quote">> \o (s \o <<"quote">>)) \in X
    /\ \A b \in X, d \in X : b \o (<<"open">> \o (d \o <<"close">>)) \in X

Bodies == {t \in Texts : \A X \in SUBSET Texts : BodyClosed(X) => t \in X}

JsonObjects == {<<"open">> \o (b \o <<"close">>) : b \in Bodies}

(* A stream and its objects: between them is what is neither string nor     *)
(* object.                                                                  *)
StreamClosed(X) ==
    /\ <<<<>>, <<>>>> \in X
    /\ \A p \in X, c \in Chars \ {"quote", "open", "close"} : <<p[1] \o <<c>>, p[2]>> \in X
    /\ \A p \in X, o \in JsonObjects : <<p[1] \o o, Append(p[2], o)>> \in X

Streams == {p \in Texts \X Seq(Texts) :
                \A X \in SUBSET (Texts \X Seq(Texts)) : StreamClosed(X) => p \in X}

(* b is in the text from character i + 1 on.                                *)
At(text, i, b) == i + Len(b) <= Len(text) /\ \A j \in 1..Len(b) : text[i + j] = b[j]

LEMMA AtConcat ==
    ASSUME NEW text \in Texts, NEW a \in Texts, NEW b \in Texts, NEW i \in Nat,
           At(text, i, a \o b)
    PROVE  /\ a \o b \in Texts /\ Len(a \o b) = Len(a) + Len(b)
           /\ At(text, i, a)
           /\ At(text, i + Len(a), b)
<1>1. /\ a \o b \in Texts /\ Len(a \o b) = Len(a) + Len(b) /\ Len(a) \in Nat /\ Len(b) \in Nat
      /\ \A j \in 1..Len(a) : (a \o b)[j] = a[j]
      /\ \A j \in 1..Len(b) : (a \o b)[Len(a) + j] = b[j]
  BY DEF Texts
<1>2. Len(text) \in Nat
  BY DEF Texts
<1>3. \A j \in 1..Len(a) : text[i + j] = a[j]
  BY <1>1 DEF At
<1>4. \A j \in 1..Len(b) : text[i + Len(a) + j] = b[j]
  <2> SUFFICES ASSUME NEW j \in 1..Len(b) PROVE text[i + Len(a) + j] = b[j]
    OBVIOUS
  <2>1. Len(a) + j \in 1..Len(a \o b) /\ i + Len(a) + j = i + (Len(a) + j)
    BY <1>1
  <2>2. QED
    BY <1>1, <2>1 DEF At
<1>5. QED
  BY <1>1, <1>2, <1>3, <1>4 DEF At

LEMMA AtOne ==
    ASSUME NEW text \in Texts, NEW c \in Chars, NEW i \in Nat, At(text, i, <<c>>)
    PROVE  i + 1 \in 1..Len(text) /\ text[i + 1] = c
<1> DEFINE b == <<c>>
<1>1. Len(b) = 1 /\ b[1] = c /\ 1 \in 1..1
  OBVIOUS
<1>2. Len(text) \in Nat
  BY DEF Texts
<1> HIDE DEF b
<1>3. At(text, i, b)
  BY DEF b
<1>4. i + 1 <= Len(text) /\ text[i + 1] = c
  BY <1>1, <1>3 DEF At
<1>5. QED
  BY <1>2, <1>4

LEMMA OneIsText ==
    ASSUME NEW c \in Chars
    PROVE  <<c>> \in Texts /\ Len(<<c>>) = 1
BY DEF Texts

(* From i to j the scan comes back to where it was, and stays as deep.      *)
Passes(g, i, j) == g[j] = g[i] /\ \A k \in i..j : g[k].depth >= g[i].depth

LEMMA PassesOn ==
    ASSUME NEW g, NEW i \in Nat, NEW j \in Nat, NEW k \in Nat, Passes(g, i, j), Passes(g, j, k)
    PROVE  Passes(g, i, k)
<1>1. \A l \in i..k : l \in i..j \/ l \in j..k
  OBVIOUS
<1>2. g[j] = g[i] /\ g[k] = g[i]
  BY DEF Passes
<1>3. QED
  BY <1>1, <1>2 DEF Passes

(* The locals before and after a character of a text.                       *)
LEMMA CharRead ==
    ASSUME NEW text \in Texts, NEW c \in Chars, NEW i \in Nat, At(text, i, <<c>>)
    PROVE  LET g == scanned(text)
           IN  /\ g[i] \in Locals /\ g[i + 1] \in Locals
               /\ i + 1 \in 1..Len(text)
               /\ Follows(g[i], g[i + 1], c, text, i + 1)
<1> DEFINE g == scanned(text)
<1>1. /\ i + 1 \in 1..Len(text) /\ text[i + 1] = c /\ (i + 1) - 1 = i
      /\ i \in 0..Len(text) /\ i + 1 \in 0..Len(text)
  <2>1. Len(text) \in Nat
    BY DEF Texts
  <2>2. QED
    BY <2>1, AtOne
<1>2. g[i] \in Locals /\ g[i + 1] \in Locals
  BY <1>1, ScanIsSound DEF ScanSound
<1>3. g[i + 1] = Read(g[i], text, i + 1)
  BY <1>1, ScanSteps
<1>4. Follows(g[i], Read(g[i], text, i + 1), text[i + 1], text, i + 1)
  BY <1>2, ReadFollows
<1>5. QED
  BY <1>1, <1>2, <1>3, <1>4

LEMMA SameLocals ==
    ASSUME NEW s \in Locals, NEW r \in Locals,
           r.depth = s.depth, r.from = s.from, r.consumed = s.consumed, r.found = s.found,
           r.string <=> s.string, r.escaped <=> s.escaped
    PROVE  r = s
<1>1. r.string = s.string /\ r.escaped = s.escaped
  BY Zenon DEF Locals
<1>2. QED
  BY <1>1 DEF Locals

(* A character of a string that neither ends it nor escapes, and one that   *)
(* is escaped.                                                              *)
LEMMA StringChar ==
    ASSUME NEW text \in Texts, NEW i \in Nat, NEW c \in Chars \ {"quote", "escape"},
           At(text, i, <<c>>), scanned(text)[i].string, ~scanned(text)[i].escaped
    PROVE  Passes(scanned(text), i, i + 1)
<1> DEFINE g == scanned(text)
<1>1. g[i] \in Locals /\ g[i + 1] \in Locals /\ Follows(g[i], g[i + 1], c, text, i + 1)
  BY CharRead
<1> HIDE DEF g
<1>2. ~Ends(g[i], c)
  BY DEF Ends, g
<1>3. g[i + 1] = g[i]
  <2>1. /\ g[i + 1].depth = g[i].depth /\ g[i + 1].from = g[i].from
        /\ g[i + 1].consumed = g[i].consumed /\ g[i + 1].found = g[i].found
    BY <1>1, <1>2, Zenon DEF Follows, g
  <2>2. (g[i + 1].string <=> g[i].string) /\ (g[i + 1].escaped <=> g[i].escaped)
    BY <1>1, Zenon DEF Follows, g
  <2>3. QED
    BY <1>1, <2>1, <2>2, SameLocals
<1>4. \A k \in i..i + 1 : k = i \/ k = i + 1
  OBVIOUS
<1>5. g[i].depth \in Nat
  BY <1>1 DEF Locals
<1>6. QED
  BY <1>3, <1>4, <1>5 DEF Passes, g

LEMMA EscapedChar ==
    ASSUME NEW text \in Texts, NEW i \in Nat, NEW c \in Chars,
           At(text, i, <<"escape", c>>), scanned(text)[i].string, ~scanned(text)[i].escaped
    PROVE  Passes(scanned(text), i, i + 2)
<1> DEFINE g == scanned(text)
<1>1. At(text, i, <<"escape">>) /\ At(text, i + 1, <<c>>)
  <2>1. <<"escape", c>> = <<"escape">> \o <<c>>
    OBVIOUS
  <2>2. <<"escape">> \in Texts /\ <<c>> \in Texts /\ Len(<<"escape">>) = 1
    BY OneIsText DEF Chars
  <2> DEFINE a == <<"escape">>
             b == <<c>>
  <2>3. a \in Texts /\ b \in Texts /\ Len(a) = 1 /\ At(text, i, a \o b)
    BY <2>1, <2>2
  <2> HIDE DEF a, b
  <2>4. At(text, i, a) /\ At(text, i + Len(a), b)
    BY <2>3, AtConcat
  <2>5. QED
    BY <2>3, <2>4 DEF a, b
<1>2. /\ g[i] \in Locals /\ g[i + 1] \in Locals
      /\ Follows(g[i], g[i + 1], "escape", text, i + 1)
  <2>1. "escape" \in Chars
    BY DEF Chars
  <2>2. QED
    BY <1>1, <2>1, CharRead
<1>3. g[i + 2] \in Locals /\ Follows(g[i + 1], g[i + 2], c, text, i + 2)
  <2>1. i + 1 \in Nat /\ (i + 1) + 1 = i + 2
    OBVIOUS
  <2>2. /\ g[(i + 1) + 1] \in Locals
        /\ Follows(g[i + 1], g[(i + 1) + 1], c, text, (i + 1) + 1)
    BY <1>1, <2>1, CharRead
  <2>3. QED
    BY <2>1, <2>2
<1> HIDE DEF g
<1>4. /\ g[i + 1].string /\ g[i + 1].escaped
      /\ g[i + 1].depth = g[i].depth /\ g[i + 1].from = g[i].from
      /\ g[i + 1].consumed = g[i].consumed /\ g[i + 1].found = g[i].found
  <2>1. ~Ends(g[i], "escape") /\ "escape" # "quote"
    BY DEF Ends, g
  <2>2. g[i + 1].depth = g[i].depth /\ g[i + 1].from = g[i].from
    BY <1>2 DEF Follows, g
  <2>3. g[i + 1].string /\ g[i + 1].escaped
    BY <1>2, <2>1, Zenon DEF Follows, g
  <2>4. QED
    BY <1>2, <2>1, <2>2, <2>3, Zenon DEF Follows
<1>5. g[i + 2] = g[i]
  <2>1. ~Ends(g[i + 1], c)
    BY <1>4 DEF Ends
  <2>2. /\ g[i + 2].depth = g[i].depth /\ g[i + 2].from = g[i].from
        /\ g[i + 2].consumed = g[i].consumed /\ g[i + 2].found = g[i].found
    BY <1>3, <1>4, <2>1, Zenon DEF Follows
  <2>3. (g[i + 2].string <=> g[i].string) /\ (g[i + 2].escaped <=> g[i].escaped)
    BY <1>3, <1>4, Zenon DEF Follows, g
  <2>4. QED
    BY <1>2, <1>3, <2>2, <2>3, SameLocals
<1>6. \A k \in i..i + 2 : k = i \/ k = i + 1 \/ k = i + 2
  OBVIOUS
<1>7. g[i].depth \in Nat
  BY <1>2 DEF Locals
<1>8. QED
  BY <1>4, <1>5, <1>6, <1>7 DEF Passes, g

(* The scan of what a string holds ends in the string.                      *)
LEMMA StringBodyPasses ==
    ASSUME NEW b \in StringBodies, NEW text \in Texts, NEW i \in Nat, At(text, i, b),
           scanned(text)[i].string, ~scanned(text)[i].escaped
    PROVE  Passes(scanned(text), i, i + Len(b))
<1> DEFINE g == scanned(text)
           In(j) == g[j].string /\ ~g[j].escaped
           X == {t \in Texts : \A j \in Nat : At(text, j, t) /\ In(j) => Passes(g, j, j + Len(t))}
<1>1. <<>> \in X
  <2>1. <<>> \in Texts /\ Len(<<>>) = 0
    BY DEF Texts
  <2>2. ASSUME NEW j \in Nat, At(text, j, <<>>) PROVE Passes(g, j, j + 0)
    <3>1. j \in 0..Len(text)
      BY <2>1, <2>2 DEF At, Texts
    <3>2. g[j].depth \in Nat
      BY <3>1, ScanIsSound DEF ScanSound, Locals
    <3> HIDE DEF g
    <3>3. QED
      BY <3>2 DEF Passes
  <2> HIDE DEF g
  <2>3. QED
    BY <2>1, <2>2
<1>2. ASSUME NEW s \in X, NEW u \in Texts,
             \A j \in Nat : At(text, j, u) /\ In(j) => Passes(g, j, j + Len(u))
      PROVE  s \o u \in X
  <2>1. s \o u \in Texts /\ s \in Texts /\ Len(s) \in Nat /\ Len(u) \in Nat
    BY DEF Texts
  <2>2. ASSUME NEW j \in Nat, At(text, j, s \o u), In(j) PROVE Passes(g, j, j + Len(s \o u))
    <3>1. At(text, j, s) /\ At(text, j + Len(s), u) /\ Len(s \o u) = Len(s) + Len(u)
      BY <2>1, <2>2, AtConcat
    <3> HIDE DEF g
    <3>2. Passes(g, j, j + Len(s))
      BY <2>2, <3>1
    <3>3. In(j + Len(s)) /\ j + Len(s) \in Nat
      BY <2>1, <2>2, <3>2 DEF Passes
    <3>4. Passes(g, j + Len(s), j + Len(s) + Len(u))
      BY <1>2, <3>1, <3>3
    <3>5. j + Len(s) + Len(u) \in Nat /\ j + Len(s \o u) = j + Len(s) + Len(u)
      BY <2>1, <3>1
    <3>6. QED
      BY <3>2, <3>3, <3>4, <3>5, PassesOn
  <2> HIDE DEF g, In
  <2>3. QED
    BY <2>1, <2>2
<1>3. \A s \in X, c \in Chars \ {"quote", "escape"} : s \o <<c>> \in X
  <2> SUFFICES ASSUME NEW s \in X, NEW c \in Chars \ {"quote", "escape"} PROVE s \o <<c>> \in X
    OBVIOUS
  <2>1. <<c>> \in Texts /\ Len(<<c>>) = 1
    BY OneIsText
  <2>2. \A j \in Nat : At(text, j, <<c>>) /\ In(j) => Passes(g, j, j + Len(<<c>>))
    BY <2>1, StringChar
  <2> HIDE DEF X, In, g
  <2>3. QED
    BY <1>2, <2>1, <2>2
<1>4. \A s \in X, c \in Chars : s \o <<"escape", c>> \in X
  <2> SUFFICES ASSUME NEW s \in X, NEW c \in Chars PROVE s \o <<"escape", c>> \in X
    OBVIOUS
  <2>1. <<"escape", c>> \in Texts /\ Len(<<"escape", c>>) = 2
    BY DEF Texts, Chars
  <2>2. \A j \in Nat : At(text, j, <<"escape", c>>) /\ In(j)
                           => Passes(g, j, j + Len(<<"escape", c>>))
    BY <2>1, EscapedChar
  <2> HIDE DEF X, In, g
  <2>3. QED
    BY <1>2, <2>1, <2>2
<1>5. StringClosed(X) /\ X \in SUBSET Texts
  <2>1. X \in SUBSET Texts
    OBVIOUS
  <2> HIDE DEF X
  <2>2. QED
    BY <1>1, <1>3, <1>4, <2>1 DEF StringClosed
<1>6. b \in X
  <2> HIDE DEF X
  <2> QED
    BY <1>5 DEF StringBodies
<1>7. QED
  BY <1>6

(* A character within an object that is neither a brace nor a quote.        *)
LEMMA PlainChar ==
    ASSUME NEW text \in Texts, NEW i \in Nat, NEW c \in Chars \ {"quote", "open", "close"},
           At(text, i, <<c>>), ~scanned(text)[i].string, ~scanned(text)[i].escaped
    PROVE  scanned(text)[i + 1] = scanned(text)[i]
<1> DEFINE g == scanned(text)
<1>1. g[i] \in Locals /\ g[i + 1] \in Locals /\ Follows(g[i], g[i + 1], c, text, i + 1)
  BY CharRead
<1>2. ~Ends(g[i], c)
  BY DEF Ends
<1>3. ~g[i].string /\ ~g[i].escaped
  OBVIOUS
<1> HIDE DEF g
<1>4. /\ g[i + 1].depth = g[i].depth /\ g[i + 1].from = g[i].from
      /\ g[i + 1].consumed = g[i].consumed /\ g[i + 1].found = g[i].found
  BY <1>1, <1>2, Zenon DEF Follows
<1>5. (g[i + 1].string <=> g[i].string) /\ (g[i + 1].escaped <=> g[i].escaped)
  BY <1>1, <1>3, Zenon DEF Follows
<1>6. QED
  BY <1>1, <1>4, <1>5, SameLocals DEF g

(* A whole string, from a quote to the next that is not escaped.            *)
LEMMA StringPasses ==
    ASSUME NEW text \in Texts, NEW i \in Nat, NEW b \in StringBodies,
           At(text, i, <<"quote">> \o (b \o <<"quote">>)),
           ~scanned(text)[i].string, ~scanned(text)[i].escaped
    PROVE  Passes(scanned(text), i, i + Len(<<"quote">> \o (b \o <<"quote">>)))
<1> DEFINE g == scanned(text)
           j == i + 1
           k == j + Len(b)
<1>1. <<"quote">> \in Texts /\ Len(<<"quote">>) = 1 /\ "quote" \in Chars
  BY OneIsText DEF Chars
<1>2. b \in Texts /\ b \o <<"quote">> \in Texts /\ Len(b) \in Nat
  BY <1>1 DEF StringBodies, Texts
<1>3. /\ At(text, i, <<"quote">>) /\ At(text, j, b) /\ At(text, k, <<"quote">>)
      /\ i + Len(<<"quote">> \o (b \o <<"quote">>)) = k + 1
      /\ j \in Nat /\ k \in Nat
  <2> DEFINE q == <<"quote">>
  <2>1. q \in Texts /\ Len(q) = 1 /\ At(text, i, q \o (b \o q))
    BY <1>1
  <2> HIDE DEF q
  <2>2. /\ At(text, i, q) /\ At(text, j, b \o q)
        /\ Len(q \o (b \o q)) = 1 + Len(b \o q)
    BY <1>2, <2>1, AtConcat, ZenonT(60) DEF q
  <2>3. At(text, j, b) /\ At(text, k, q) /\ Len(b \o q) = Len(b) + 1
    <3>1. j \in Nat
      OBVIOUS
    <3> HIDE DEF j
    <3>2. QED
      BY <1>2, <2>1, <2>2, <3>1, AtConcat
  <2>4. QED
    BY <1>2, <2>2, <2>3 DEF q
<1> HIDE DEF j, k
<1>4. g[i] \in Locals /\ g[j] \in Locals /\ Follows(g[i], g[j], "quote", text, j)
  BY <1>1, <1>3, CharRead DEF j
<1>5. g[k] \in Locals /\ g[k + 1] \in Locals /\ Follows(g[k], g[k + 1], "quote", text, k + 1)
  BY <1>1, <1>3, CharRead
<1>6. ~g[i].string /\ ~g[i].escaped /\ ~Ends(g[i], "quote")
  BY DEF Ends
<1> HIDE DEF g
<1>7. /\ g[j].string /\ ~g[j].escaped
      /\ g[j].depth = g[i].depth /\ g[j].from = g[i].from
      /\ g[j].consumed = g[i].consumed /\ g[j].found = g[i].found
  BY <1>4, <1>6, Zenon DEF Follows
<1>8. Passes(g, j, k)
  BY <1>3, <1>7, StringBodyPasses DEF g, k
<1>9. g[k] = g[j]
  BY <1>8 DEF Passes
<1>10. g[k + 1] = g[i]
  <2>1. ~Ends(g[k], "quote")
    BY <1>7, <1>9 DEF Ends
  <2>2. /\ g[k + 1].depth = g[i].depth /\ g[k + 1].from = g[i].from
        /\ g[k + 1].consumed = g[i].consumed /\ g[k + 1].found = g[i].found
    BY <1>5, <1>7, <1>9, <2>1, Zenon DEF Follows
  <2>3. (g[k + 1].string <=> g[i].string) /\ (g[k + 1].escaped <=> g[i].escaped)
    BY <1>5, <1>6, <1>7, <1>9, Zenon DEF Follows
  <2>4. QED
    BY <1>4, <1>5, <2>2, <2>3, SameLocals
<1>11. ASSUME NEW l \in i..k + 1 PROVE g[l].depth >= g[i].depth
  <2>1. l = i \/ l \in j..k \/ l = k + 1
    BY <1>2, <1>3 DEF j, k
  <2>2. g[i].depth \in Nat
    BY <1>4 DEF Locals
  <2>3. QED
    BY <1>7, <1>8, <1>10, <2>1, <2>2 DEF Passes
<1>12. QED
  BY <1>3, <1>10, <1>11 DEF Passes, g

(* Between a brace and the one that closes it the scan goes one deeper:     *)
(* text[i + 1] opens, and from there to text[k + 1] the scan passes.        *)
LEMMA BraceOpens ==
    ASSUME NEW text \in Texts, NEW i \in Nat, At(text, i, <<"open">>),
           ~scanned(text)[i].string, ~scanned(text)[i].escaped
    PROVE  LET g == scanned(text)
           IN  /\ g[i + 1].depth = g[i].depth + 1
               /\ g[i + 1].from = IF g[i].depth = 0 THEN i + 1 ELSE g[i].from
               /\ g[i + 1].consumed = g[i].consumed /\ g[i + 1].found = g[i].found
               /\ ~g[i + 1].string /\ ~g[i + 1].escaped
<1> DEFINE g == scanned(text)
<1>1. "open" \in Chars
  BY DEF Chars
<1>2. g[i] \in Locals /\ Follows(g[i], g[i + 1], "open", text, i + 1)
  BY <1>1, CharRead
<1>3. ~g[i].string /\ ~g[i].escaped /\ ~Ends(g[i], "open")
  BY DEF Ends
<1> HIDE DEF g
<1>4. g[i + 1].depth = g[i].depth + 1
  BY <1>2, <1>3 DEF Follows
<1>5. g[i + 1].from = IF g[i].depth = 0 THEN i + 1 ELSE g[i].from
  BY <1>2, <1>3, Zenon DEF Follows
<1>6. g[i + 1].consumed = g[i].consumed /\ g[i + 1].found = g[i].found
  BY <1>2, <1>3, Zenon DEF Follows
<1>7. "open" # "quote"
  OBVIOUS
<1>8. ~g[i + 1].string /\ ~g[i + 1].escaped
  BY <1>2, <1>3, <1>7, Zenon DEF Follows
<1>9. QED
  BY <1>4, <1>5, <1>6, <1>8 DEF g

LEMMA BraceCloses ==
    ASSUME NEW text \in Texts, NEW i \in Nat, At(text, i, <<"close">>),
           ~scanned(text)[i].string, ~scanned(text)[i].escaped, scanned(text)[i].depth > 0
    PROVE  LET g == scanned(text)
           IN  /\ g[i + 1].depth = g[i].depth - 1
               /\ g[i + 1].from = g[i].from
               /\ g[i + 1].consumed = IF g[i].depth = 1 THEN i + 1 ELSE g[i].consumed
               /\ g[i + 1].found = IF g[i].depth = 1
                                   THEN Append(g[i].found, SubSeq(text, g[i].from, i + 1))
                                   ELSE g[i].found
               /\ ~g[i + 1].string /\ ~g[i + 1].escaped
<1> DEFINE g == scanned(text)
<1>1. "close" \in Chars
  BY DEF Chars
<1>2. g[i] \in Locals /\ Follows(g[i], g[i + 1], "close", text, i + 1)
  BY <1>1, CharRead
<1>3. ~g[i].string /\ ~g[i].escaped /\ g[i].depth > 0 /\ (Ends(g[i], "close") <=> g[i].depth = 1)
  BY DEF Ends
<1> HIDE DEF g
<1>4. g[i + 1].depth = g[i].depth - 1
  BY <1>2, <1>3 DEF Follows, Locals
<1>5. "close" # "open" /\ "close" # "quote"
  OBVIOUS
<1>6. g[i + 1].from = g[i].from
  BY <1>2, <1>5, Zenon DEF Follows
<1>7. /\ g[i + 1].consumed = IF g[i].depth = 1 THEN i + 1 ELSE g[i].consumed
      /\ g[i + 1].found = IF g[i].depth = 1
                          THEN Append(g[i].found, SubSeq(text, g[i].from, i + 1))
                          ELSE g[i].found
  BY <1>2, <1>3, Zenon DEF Follows
<1>8. ~g[i + 1].string /\ ~g[i + 1].escaped
  BY <1>2, <1>3, <1>5, Zenon DEF Follows
<1>9. QED
  BY <1>4, <1>6, <1>7, <1>8 DEF g

(* Where the parts of a braced text are.                                    *)
LEMMA AtBraces ==
    ASSUME NEW text \in Texts, NEW i \in Nat, NEW b \in Texts,
           At(text, i, <<"open">> \o (b \o <<"close">>))
    PROVE  /\ At(text, i, <<"open">>)
           /\ At(text, i + 1, b)
           /\ At(text, i + 1 + Len(b), <<"close">>)
           /\ <<"open">> \o (b \o <<"close">>) \in Texts
           /\ Len(<<"open">> \o (b \o <<"close">>)) = Len(b) + 2
<1> DEFINE o == <<"open">>
           e == <<"close">>
           j == i + 1
<1>1. /\ o \in Texts /\ Len(o) = 1 /\ e \in Texts /\ Len(e) = 1
      /\ At(text, i, o \o (b \o e)) /\ j \in Nat /\ j = i + Len(o)
  BY OneIsText DEF Chars
<1> HIDE DEF o, e, j
<1>2. b \o e \in Texts /\ Len(b) \in Nat
  BY <1>1 DEF Texts
<1> DEFINE u == b \o e
<1>3. /\ At(text, i, o) /\ At(text, j, u)
      /\ o \o u \in Texts /\ Len(o \o u) = 1 + Len(u)
  <2> HIDE DEF u
  <2>1. u \in Texts /\ At(text, i, o \o u)
    BY <1>1, <1>2 DEF u
  <2>2. /\ o \o u \in Texts /\ Len(o \o u) = Len(o) + Len(u)
        /\ At(text, i, o) /\ At(text, i + Len(o), u)
    BY <1>1, <2>1, AtConcat
  <2>3. QED
    BY <1>1, <2>2
<1>4. At(text, j, b) /\ At(text, j + Len(b), e) /\ Len(u) = Len(b) + 1
  <2>1. At(text, j, b \o e)
    BY <1>3
  <2>2. e \in Texts /\ j \in Nat
    BY <1>1
  <2>3. Len(b \o e) = Len(b) + Len(e) /\ At(text, j, b) /\ At(text, j + Len(b), e)
    BY <2>1, <2>2, AtConcat
  <2>4. QED
    BY <1>1, <2>3
<1>5. QED
  BY <1>2, <1>3, <1>4 DEF o, e, j

(* The scan of what an object holds comes back to where it was.             *)
LEMMA BodyPasses ==
    ASSUME NEW b \in Bodies, NEW text \in Texts, NEW i \in Nat, At(text, i, b),
           ~scanned(text)[i].string, ~scanned(text)[i].escaped, scanned(text)[i].depth > 0
    PROVE  Passes(scanned(text), i, i + Len(b))
<1> DEFINE g == scanned(text)
           In(j) == ~g[j].string /\ ~g[j].escaped /\ g[j].depth > 0
           Fine(t) == \A j \in Nat : At(text, j, t) /\ In(j) => Passes(g, j, j + Len(t))
           X == {t \in Texts : Fine(t)}
<1>0. ASSUME NEW t \in Texts, NEW j \in Nat, At(text, j, t)
      PROVE  j \in 0..Len(text) /\ Len(t) \in Nat /\ g[j] \in Locals
  <2>1. j \in 0..Len(text) /\ Len(t) \in Nat
    BY <1>0 DEF At, Texts
  <2>2. QED
    BY <2>1, ScanIsSound DEF ScanSound
<1>1. <<>> \in X
  <2>1. <<>> \in Texts /\ Len(<<>>) = 0
    BY DEF Texts
  <2>2. ASSUME NEW j \in Nat, At(text, j, <<>>) PROVE Passes(g, j, j + 0)
    <3>1. g[j].depth \in Nat
      BY <1>0, <2>1, <2>2 DEF Locals
    <3> HIDE DEF g
    <3>2. QED
      BY <3>1 DEF Passes
  <2> HIDE DEF g
  <2>3. QED
    BY <2>1, <2>2
<1>2. ASSUME NEW s \in X, NEW u \in Texts, Fine(u)
      PROVE  s \o u \in X
  <2>1. s \o u \in Texts /\ s \in Texts /\ Len(s) \in Nat /\ Len(u) \in Nat
    BY DEF Texts
  <2>2. ASSUME NEW j \in Nat, At(text, j, s \o u), In(j) PROVE Passes(g, j, j + Len(s \o u))
    <3>1. At(text, j, s) /\ At(text, j + Len(s), u) /\ Len(s \o u) = Len(s) + Len(u)
      BY <2>1, <2>2, AtConcat
    <3> HIDE DEF g
    <3>2. Passes(g, j, j + Len(s))
      BY <2>2, <3>1
    <3>3. In(j + Len(s)) /\ j + Len(s) \in Nat
      BY <2>1, <2>2, <3>2 DEF Passes
    <3>4. Passes(g, j + Len(s), j + Len(s) + Len(u))
      BY <1>2, <3>1, <3>3
    <3>5. j + Len(s) + Len(u) \in Nat /\ j + Len(s \o u) = j + Len(s) + Len(u)
      BY <2>1, <3>1
    <3>6. QED
      BY <3>2, <3>3, <3>4, <3>5, PassesOn
  <2> HIDE DEF g, In
  <2>3. QED
    BY <2>1, <2>2
<1>3. \A s \in X, c \in Chars \ {"quote", "open", "close"} : s \o <<c>> \in X
  <2> SUFFICES ASSUME NEW s \in X, NEW c \in Chars \ {"quote", "open", "close"}
               PROVE  s \o <<c>> \in X
    OBVIOUS
  <2>1. <<c>> \in Texts /\ Len(<<c>>) = 1
    BY OneIsText
  <2>2. ASSUME NEW j \in Nat, At(text, j, <<c>>), In(j) PROVE Passes(g, j, j + 1)
    <3>1. g[j + 1] = g[j]
      BY <2>2, PlainChar
    <3>2. g[j].depth \in Nat
      BY <1>0, <2>1, <2>2 DEF Locals
    <3>3. \A k \in j..j + 1 : k = j \/ k = j + 1
      OBVIOUS
    <3> HIDE DEF g
    <3>4. QED
      BY <3>1, <3>2, <3>3 DEF Passes
  <2>3. Fine(<<c>>)
    BY <2>1, <2>2
  <2> HIDE DEF X, Fine, g
  <2>4. QED
    BY <1>2, <2>1, <2>3
<1>4. \A s \in X, t \in StringBodies : s \o (<<"quote">> \o (t \o <<"quote">>)) \in X
  <2> SUFFICES ASSUME NEW s \in X, NEW t \in StringBodies
               PROVE  s \o (<<"quote">> \o (t \o <<"quote">>)) \in X
    OBVIOUS
  <2> DEFINE u == <<"quote">> \o (t \o <<"quote">>)
  <2>1. u \in Texts
    BY DEF StringBodies, Texts, Chars
  <2>2. Fine(u)
    BY StringPasses
  <2> HIDE DEF X, Fine, u
  <2>3. QED
    BY <1>2, <2>1, <2>2 DEF u
<1>5. \A s \in X, t \in X : s \o (<<"open">> \o (t \o <<"close">>)) \in X
  <2> SUFFICES ASSUME NEW s \in X, NEW t \in X
               PROVE  s \o (<<"open">> \o (t \o <<"close">>)) \in X
    OBVIOUS
  <2> DEFINE u == <<"open">> \o (t \o <<"close">>)
  <2>1. u \in Texts /\ t \in Texts
    BY DEF Texts, Chars
  <2>2. ASSUME NEW j \in Nat, At(text, j, u), In(j) PROVE Passes(g, j, j + Len(u))
    <3> DEFINE l == j + 1
               k == l + Len(t)
    <3>1. /\ At(text, j, <<"open">>) /\ At(text, l, t) /\ At(text, k, <<"close">>)
          /\ j + Len(u) = k + 1
          /\ Len(t) \in Nat /\ l \in Nat /\ k \in Nat
      <4>1. Len(t) \in Nat
        BY <2>1 DEF Texts
      <4>2. QED
        BY <2>1, <2>2, <4>1, AtBraces
    <3>2. g[j] \in Locals /\ g[k + 1] \in Locals
      <4>1. g[j] \in Locals
        BY <1>0, <2>1, <2>2
      <4>2. g[k + 1] \in Locals
        <5> HIDE DEF k
        <5>1. "close" \in Chars
          BY DEF Chars
        <5>2. QED
          BY <3>1, <5>1, CharRead
      <4>3. QED
        BY <4>1, <4>2
    <3>3. /\ g[l].depth = g[j].depth + 1 /\ g[l].from = g[j].from
          /\ g[l].consumed = g[j].consumed /\ g[l].found = g[j].found
          /\ ~g[l].string /\ ~g[l].escaped
      BY <2>2, <3>1, BraceOpens
    <3>4. g[j].depth \in Nat /\ g[j].depth > 0
      BY <2>2, <3>2 DEF Locals
    <3> HIDE DEF l
    <3>5. Passes(g, l, k)
      <4>1. In(l)
        <5> HIDE DEF g
        <5> QED
          BY <3>3, <3>4
      <4>2. QED
        BY <3>1, <4>1
    <3>6. g[k] = g[l]
      BY <3>5 DEF Passes
    <3>7. /\ g[k + 1].depth = g[k].depth - 1 /\ g[k + 1].from = g[k].from
          /\ g[k + 1].consumed = g[k].consumed /\ g[k + 1].found = g[k].found
          /\ ~g[k + 1].string /\ ~g[k + 1].escaped
      <4>1. ~g[k].string /\ ~g[k].escaped /\ g[k].depth > 0 /\ g[k].depth # 1
        <5> HIDE DEF g
        <5> QED
          BY <3>3, <3>4, <3>6
      <4> HIDE DEF k
      <4>2. QED
        BY <3>1, <4>1, BraceCloses
    <3> HIDE DEF g, k
    <3>8. g[k + 1] = g[j]
      <4>1. g[k + 1].depth = g[j].depth
        BY <3>3, <3>4, <3>6, <3>7
      <4>2. QED
        BY <2>2, <3>2, <3>3, <3>6, <3>7, <4>1, SameLocals
    <3>9. ASSUME NEW m \in j..k + 1 PROVE g[m].depth >= g[j].depth
      <4>1. m = j \/ m \in l..k \/ m = k + 1
        BY <3>1 DEF l, k
      <4>2. CASE m \in l..k
        <5>1. g[m].depth >= g[j].depth + 1
          BY <3>3, <3>5, <4>2 DEF Passes
        <5>2. \E d : d = g[m].depth /\ d \in Nat
          <6>1. m \in 0..Len(text)
            BY <3>1, <4>2 DEF At, Texts
          <6>2. QED
            BY <6>1, ScanIsSound DEF ScanSound, Locals, g
        <5>3. QED
          BY <3>4, <5>1, <5>2
      <4>3. QED
        BY <3>4, <3>8, <4>1, <4>2
    <3>10. QED
      BY <3>1, <3>8, <3>9 DEF Passes
  <2>3. Fine(u)
    BY <2>2
  <2> HIDE DEF X, Fine, u
  <2>4. QED
    BY <1>2, <2>1, <2>3 DEF u
<1>6. BodyClosed(X) /\ X \in SUBSET Texts
  <2>1. X \in SUBSET Texts
    OBVIOUS
  <2> HIDE DEF X
  <2>2. QED
    BY <1>1, <1>3, <1>4, <1>5, <2>1 DEF BodyClosed
<1>7. b \in X
  <2> HIDE DEF X
  <2> QED
    BY <1>6 DEF Bodies
<1>8. QED
  BY <1>7

(* Outside of objects the scan of a whole object finds it.                  *)
LEMMA ObjectIsFound ==
    ASSUME NEW text \in Texts, NEW i \in Nat, NEW o \in JsonObjects, At(text, i, o),
           Outer(scanned(text)[i])
    PROVE  LET g == scanned(text)
           IN  /\ Outer(g[i + Len(o)])
               /\ g[i + Len(o)].found = Append(g[i].found, o)
               /\ \A k \in i..i + Len(o) : g[k].depth = 0 => ~g[k].string
<1>1. PICK b \in Bodies : o = <<"open">> \o (b \o <<"close">>)
  BY DEF JsonObjects
<1> DEFINE g == scanned(text)
           l == i + 1
           k == l + Len(b)
<1>2. /\ At(text, i, <<"open">>) /\ At(text, l, b) /\ At(text, k, <<"close">>)
      /\ i + Len(o) = k + 1 /\ o \in Texts /\ Len(o) = Len(b) + 2
      /\ Len(b) \in Nat /\ l \in Nat /\ k \in Nat
  <2>1. b \in Texts /\ Len(b) \in Nat
    BY DEF Bodies, Texts
  <2>2. QED
    BY <1>1, <2>1, AtBraces
<1>3. g[i].depth = 0 /\ ~g[i].string /\ ~g[i].escaped
  BY DEF Outer
<1>4. /\ g[l].depth = 1 /\ g[l].from = l
      /\ g[l].found = g[i].found /\ ~g[l].string /\ ~g[l].escaped
  <2>1. /\ g[l].depth = g[i].depth + 1
        /\ g[l].from = IF g[i].depth = 0 THEN l ELSE g[i].from
        /\ g[l].found = g[i].found /\ ~g[l].string /\ ~g[l].escaped
    BY <1>2, <1>3, BraceOpens
  <2> HIDE DEF g, l
  <2>2. QED
    BY <1>3, <2>1
<1>5. Passes(g, l, k)
  <2>1. ~g[l].string /\ ~g[l].escaped /\ g[l].depth > 0
    <3> HIDE DEF g
    <3> QED
      BY <1>4
  <2> HIDE DEF l
  <2>2. QED
    BY <1>2, <2>1, BodyPasses
<1>6. g[k] = g[l]
  BY <1>5 DEF Passes
<1>7. /\ g[k + 1].depth = 0 /\ ~g[k + 1].string /\ ~g[k + 1].escaped
      /\ g[k + 1].found = Append(g[i].found, SubSeq(text, l, k + 1))
  <2> HIDE DEF g, l, k
  <2>1. ~g[k].string /\ ~g[k].escaped /\ g[k].depth = 1 /\ g[k].depth > 0
    BY <1>4, <1>6
  <2>2. /\ g[k + 1].depth = g[k].depth - 1
        /\ g[k + 1].found = IF g[k].depth = 1
                            THEN Append(g[k].found, SubSeq(text, g[k].from, k + 1))
                            ELSE g[k].found
        /\ ~g[k + 1].string /\ ~g[k + 1].escaped
    BY <1>2, <2>1, BraceCloses DEF g
  <2>3. QED
    BY <1>4, <1>6, <2>1, <2>2
<1>8. SubSeq(text, l, k + 1) = o
  <2>1. k + 1 <= Len(text) /\ Len(text) \in Nat
    BY <1>2 DEF At, Texts
  <2>2. /\ SubSeq(text, l, k + 1) \in Texts /\ Len(SubSeq(text, l, k + 1)) = Len(o)
        /\ \A m \in 1..Len(o) : SubSeq(text, l, k + 1)[m] = text[i + m]
    <3> DEFINE e == k + 1
    <3>1. i \in 0..Len(text) /\ e \in i..Len(text) /\ e - i = Len(o)
      BY <1>2, <2>1
    <3> HIDE DEF e
    <3>2. /\ SubSeq(text, i + 1, e) \in Texts
          /\ Len(SubSeq(text, i + 1, e)) = e - i
          /\ \A m \in 1..(e - i) : SubSeq(text, i + 1, e)[m] = text[i + m]
      BY <3>1, PartOfText
    <3>3. QED
      BY <3>1, <3>2 DEF e
  <2>3. \A m \in 1..Len(o) : text[i + m] = o[m]
    BY DEF At
  <2> DEFINE v == SubSeq(text, l, k + 1)
  <2> HIDE DEF v
  <2>4. v \in Texts /\ o \in Texts /\ Len(v) = Len(o) /\ \A m \in 1..Len(v) : v[m] = o[m]
    BY <1>2, <2>2, <2>3 DEF v
  <2>5. v = o
    BY <2>4, SeqEqual DEF Texts
  <2>6. QED
    BY <2>5 DEF v
<1>9. ASSUME NEW m \in i..k + 1, g[m].depth = 0 PROVE ~g[m].string
  <2>1. m = i \/ m \in l..k \/ m = k + 1
    BY <1>2
  <2>2. ~(m \in l..k)
    <3> HIDE DEF g, l, k
    <3> QED
      BY <1>4, <1>5, <1>9 DEF Passes
  <2>3. QED
    BY <1>3, <1>7, <2>1, <2>2
<1>10. QED
  <2> HIDE DEF g, l, k
  <2>1. Outer(g[k + 1])
    BY <1>7 DEF Outer
  <2>2. QED
    BY <1>2, <1>7, <1>8, <1>9, <2>1 DEF g

(* The scan of a stream finds its objects.                                  *)
THEOREM StreamIsScanned ==
    ASSUME NEW T, NEW os, <<T, os>> \in Streams
    PROVE  T \in Texts /\ QuotesInside(T) /\ scan(T).found = os
<1> DEFINE Scans(t, ds) ==
               \A text \in Texts : At(text, 0, t) =>
                   /\ Outer(scanned(text)[Len(t)])
                   /\ scanned(text)[Len(t)].found = ds
                   /\ \A k \in 0..Len(t) :
                          scanned(text)[k].depth = 0 => ~scanned(text)[k].string
           X == {p \in Texts \X Seq(Texts) : Scans(p[1], p[2])}
<1>1. <<<<>>, <<>>>> \in X
  <2>1. <<>> \in Texts /\ Len(<<>>) = 0 /\ <<>> \in Seq(Texts)
    BY DEF Texts
  <2>2. Outer(Fresh) /\ Fresh.found = <<>> /\ ~Fresh.string
    BY DEF Fresh, Outer
  <2>3. \A k \in 0..0 : k = 0
    OBVIOUS
  <2>4. Scans(<<>>, <<>>)
    BY <2>1, <2>2, <2>3, ScanSteps
  <2> HIDE DEF Scans
  <2>5. QED
    BY <2>1, <2>4
<1>2. \A p \in X, c \in Chars \ {"quote", "open", "close"} : <<p[1] \o <<c>>, p[2]>> \in X
  <2> SUFFICES ASSUME NEW p \in X, NEW c \in Chars \ {"quote", "open", "close"}
               PROVE  <<p[1] \o <<c>>, p[2]>> \in X
    OBVIOUS
  <2> DEFINE t == p[1]
             ds == p[2]
             n == Len(t)
  <2>1. t \in Texts /\ ds \in Seq(Texts) /\ Scans(t, ds)
    OBVIOUS
  <2>2. t \o <<c>> \in Texts /\ Len(t \o <<c>>) = n + 1 /\ n \in Nat
    BY <2>1 DEF Texts
  <2> HIDE DEF t, ds
  <2>3. ASSUME NEW text \in Texts, At(text, 0, t \o <<c>>)
        PROVE  /\ Outer(scanned(text)[n + 1])
               /\ scanned(text)[n + 1].found = ds
               /\ \A k \in 0..n + 1 : scanned(text)[k].depth = 0 => ~scanned(text)[k].string
    <3>1. At(text, 0, t) /\ At(text, n, <<c>>)
      <4>1. <<c>> \in Texts
        BY OneIsText
      <4>2. At(text, 0, t) /\ At(text, 0 + n, <<c>>)
        BY <2>1, <2>3, <4>1, AtConcat
      <4>3. 0 + n = n
        BY <2>2
      <4>4. QED
        BY <4>2, <4>3
    <3>2. /\ Outer(scanned(text)[n]) /\ scanned(text)[n].found = ds
          /\ \A k \in 0..n : scanned(text)[k].depth = 0 => ~scanned(text)[k].string
      BY <2>1, <3>1
    <3>3. scanned(text)[n + 1] = scanned(text)[n]
      BY <2>2, <3>1, <3>2, PlainChar DEF Outer
    <3>4. \A k \in 0..n + 1 : k \in 0..n \/ k = n + 1
      BY <2>2
    <3>5. n \in 0..n
      BY <2>2
    <3> HIDE DEF n
    <3>6. QED
      BY <3>2, <3>3, <3>4, <3>5
  <2>4. Scans(t \o <<c>>, ds)
    BY <2>2, <2>3
  <2> HIDE DEF Scans
  <2>5. <<t \o <<c>>, ds>> \in X
    BY <2>1, <2>2, <2>4
  <2>6. QED
    BY <2>5 DEF t, ds
<1>3. \A p \in X, o \in JsonObjects : <<p[1] \o o, Append(p[2], o)>> \in X
  <2> SUFFICES ASSUME NEW p \in X, NEW o \in JsonObjects
               PROVE  <<p[1] \o o, Append(p[2], o)>> \in X
    OBVIOUS
  <2> DEFINE t == p[1]
             ds == p[2]
             n == Len(t)
             m == n + Len(o)
  <2>0. o \in Texts
    <3>1. <<"open">> \in Texts /\ <<"close">> \in Texts
      BY OneIsText DEF Chars
    <3>2. PICK b \in Texts : o = <<"open">> \o (b \o <<"close">>)
      BY DEF JsonObjects, Bodies
    <3>3. QED
      BY <3>1, <3>2 DEF Texts
  <2>1. t \in Texts /\ ds \in Seq(Texts) /\ Scans(t, ds)
    OBVIOUS
  <2>2. /\ t \o o \in Texts /\ Len(t \o o) = m /\ n \in Nat /\ m \in Nat /\ n <= m
        /\ Append(ds, o) \in Seq(Texts)
    BY <2>0, <2>1 DEF Texts
  <2> HIDE DEF t, ds
  <2>3. ASSUME NEW text \in Texts, At(text, 0, t \o o)
        PROVE  /\ Outer(scanned(text)[m])
               /\ scanned(text)[m].found = Append(ds, o)
               /\ \A k \in 0..m : scanned(text)[k].depth = 0 => ~scanned(text)[k].string
    <3>1. At(text, 0, t) /\ At(text, n, o)
      <4>1. At(text, 0, t) /\ At(text, 0 + n, o)
        BY <2>0, <2>1, <2>3, AtConcat
      <4>2. 0 + n = n
        BY <2>2
      <4>3. QED
        BY <4>1, <4>2
    <3>2. /\ Outer(scanned(text)[n]) /\ scanned(text)[n].found = ds
          /\ \A k \in 0..n : scanned(text)[k].depth = 0 => ~scanned(text)[k].string
      BY <2>1, <3>1
    <3>3. /\ Outer(scanned(text)[m])
          /\ scanned(text)[m].found = Append(ds, o)
          /\ \A k \in n..m : scanned(text)[k].depth = 0 => ~scanned(text)[k].string
      BY <2>2, <3>1, <3>2, ObjectIsFound
    <3>4. \A k \in 0..m : k \in 0..n \/ k \in n..m
      BY <2>2
    <3>5. QED
      BY <3>2, <3>3, <3>4
  <2>4. Scans(t \o o, Append(ds, o))
    BY <2>2, <2>3
  <2> HIDE DEF Scans
  <2>5. <<t \o o, Append(ds, o)>> \in X
    BY <2>1, <2>2, <2>4
  <2>6. QED
    BY <2>5 DEF t, ds
<1>4. StreamClosed(X) /\ X \in SUBSET (Texts \X Seq(Texts))
  <2>1. X \in SUBSET (Texts \X Seq(Texts))
    OBVIOUS
  <2> HIDE DEF X
  <2>2. QED
    BY <1>1, <1>2, <1>3, <2>1 DEF StreamClosed
<1>5. <<T, os>> \in X
  <2> HIDE DEF X
  <2> QED
    BY <1>4 DEF Streams
<1>6. T \in Texts /\ Scans(T, os)
  <2> HIDE DEF Scans
  <2> QED
    BY <1>5
<1>7. At(T, 0, T) /\ Len(T) \in 0..Len(T)
  BY <1>6 DEF At, Texts
<1>8. QED
  BY <1>6, <1>7 DEF QuotesInside, scan

(* However a stream of objects is cut into parts that fit in the buffer,    *)
(* the worker dispatches each of them once, whole and in order.             *)
THEOREM ObjectsAreReceived ==
    ASSUME NEW T, NEW os, <<T, os>> \in Streams, NEW parts \in Seq(Texts), NEW cut,
           CutInto(T, parts, cut), Fit(T, parts, cut)
    PROVE  Received(parts) = os
BY StreamIsScanned, CutsDoNotMatter

(* The grammar is closed under its own rules.                               *)
LEMMA GrammarClosed ==
    StringClosed(StringBodies) /\ BodyClosed(Bodies) /\ StreamClosed(Streams)
<1>1. \A c \in Chars : <<c>> \in Texts /\ <<"escape", c>> \in Texts
  BY DEF Texts, Chars
<1>2. \A t \in Texts, u \in Texts : t \o u \in Texts
  BY DEF Texts
<1>3. <<>> \in Texts /\ <<>> \in Seq(Texts)
  BY DEF Texts
<1>4. StringClosed(StringBodies)
  <2>1. <<>> \in StringBodies
    BY <1>3 DEF StringBodies, StringClosed
  <2>2. ASSUME NEW s \in StringBodies, NEW c \in Chars \ {"quote", "escape"}
        PROVE  s \o <<c>> \in StringBodies
    BY <1>1, <1>2 DEF StringBodies, StringClosed
  <2>3. ASSUME NEW s \in StringBodies, NEW c \in Chars PROVE s \o <<"escape", c>> \in StringBodies
    BY <1>1, <1>2 DEF StringBodies, StringClosed
  <2>4. QED
    BY <2>1, <2>2, <2>3 DEF StringClosed
<1>5. BodyClosed(Bodies)
  <2>1. <<>> \in Bodies
    BY <1>3 DEF Bodies, BodyClosed
  <2>2. ASSUME NEW b \in Bodies, NEW c \in Chars \ {"quote", "open", "close"}
        PROVE  b \o <<c>> \in Bodies
    BY <1>1, <1>2 DEF Bodies, BodyClosed
  <2>3. ASSUME NEW b \in Bodies, NEW s \in StringBodies
        PROVE  b \o (<<"quote">> \o (s \o <<"quote">>)) \in Bodies
    <3>1. <<"quote">> \in Texts /\ s \in Texts /\ b \in Texts
      BY <1>1 DEF Chars, StringBodies, Bodies
    <3>2. b \o (<<"quote">> \o (s \o <<"quote">>)) \in Texts
      BY <1>2, <3>1
    <3>3. QED
      BY <3>2 DEF Bodies, BodyClosed
  <2>4. ASSUME NEW b \in Bodies, NEW d \in Bodies
        PROVE  b \o (<<"open">> \o (d \o <<"close">>)) \in Bodies
    <3>1. <<"open">> \in Texts /\ <<"close">> \in Texts /\ d \in Texts /\ b \in Texts
      BY <1>1 DEF Chars, Bodies
    <3>2. b \o (<<"open">> \o (d \o <<"close">>)) \in Texts
      BY <1>2, <3>1
    <3>3. QED
      BY <3>2 DEF Bodies, BodyClosed
  <2>5. QED
    BY <2>1, <2>2, <2>3, <2>4 DEF BodyClosed
<1>6. StreamClosed(Streams)
  <2>1. <<<<>>, <<>>>> \in Streams
    BY <1>3 DEF Streams, StreamClosed
  <2>2. ASSUME NEW p \in Streams, NEW c \in Chars \ {"quote", "open", "close"}
        PROVE  <<p[1] \o <<c>>, p[2]>> \in Streams
    <3>1. p \in Texts \X Seq(Texts) /\ p[1] \o <<c>> \in Texts
      BY <1>1, <1>2 DEF Streams
    <3>2. <<p[1] \o <<c>>, p[2]>> \in Texts \X Seq(Texts)
      BY <3>1
    <3>3. QED
      BY <3>2 DEF Streams, StreamClosed
  <2>3. ASSUME NEW p \in Streams, NEW o \in JsonObjects
        PROVE  <<p[1] \o o, Append(p[2], o)>> \in Streams
    <3>1. o \in Texts
      <4>1. PICK b \in Texts : o = <<"open">> \o (b \o <<"close">>)
        BY DEF JsonObjects, Bodies
      <4>2. QED
        BY <1>1, <1>2, <4>1 DEF Chars
    <3>2. p \in Texts \X Seq(Texts) /\ p[1] \o o \in Texts
      BY <1>2, <3>1 DEF Streams
    <3>3. Append(p[2], o) \in Seq(Texts)
      <4>1. p[2] \in Seq(Texts)
        BY <3>2
      <4>2. QED
        BY <3>1, <4>1
    <3>4. <<p[1] \o o, Append(p[2], o)>> \in Texts \X Seq(Texts)
      BY <3>2, <3>3
    <3>5. QED
      BY <3>4 DEF Streams, StreamClosed
  <2>4. QED
    BY <2>1, <2>2, <2>3 DEF StreamClosed
<1>7. QED
  BY <1>4, <1>5, <1>6

(* A text of that length is the tuple of its characters; so is what is put  *)
(* together from tuples.                                                    *)
LEMMA TupleOf ==
    ASSUME NEW t \in Texts
    PROVE  /\ Len(t) = 2 => t = <<t[1], t[2]>>
           /\ Len(t) = 3 => t = <<t[1], t[2], t[3]>>
           /\ Len(t) = 4 => t = <<t[1], t[2], t[3], t[4]>>
           /\ Len(t) = 5 => t = <<t[1], t[2], t[3], t[4], t[5]>>
           /\ Len(t) = 6 => t = <<t[1], t[2], t[3], t[4], t[5], t[6]>>
           /\ Len(t) = 7 => t = <<t[1], t[2], t[3], t[4], t[5], t[6], t[7]>>
BY DEF Texts

LEMMA PutTogether ==
    /\ <<"quote">> \o (<<"close">> \o <<"quote">>) = <<"quote", "close", "quote">>
    /\ <<"quote">> \o (<<"open">> \o <<"quote">>) = <<"quote", "open", "quote">>
    /\ <<"quote">> \o (<<"escape", "quote", "close">> \o <<"quote">>)
           = <<"quote", "escape", "quote", "close", "quote">>
    /\ <<"quote">> \o (<<"escape", "escape">> \o <<"quote">>)
           = <<"quote", "escape", "escape", "quote">>
    /\ <<"open">> \o (<<>> \o <<"close">>) = <<"open", "close">>
    /\ <<"open">> \o (<<"x">> \o <<"close">>) = <<"open", "x", "close">>
    /\ <<"open">> \o (<<"quote", "close", "quote">> \o <<"close">>)
           = <<"open", "quote", "close", "quote", "close">>
    /\ <<"open">> \o (<<"quote", "open", "quote", "x">> \o <<"close">>)
           = <<"open", "quote", "open", "quote", "x", "close">>
    /\ <<"open">> \o (<<"quote", "escape", "quote", "close", "quote">> \o <<"close">>)
           = <<"open", "quote", "escape", "quote", "close", "quote", "close">>
    /\ <<"open">> \o (<<"quote", "escape", "escape", "quote">> \o <<"close">>)
           = <<"open", "quote", "escape", "escape", "quote", "close">>
    /\ <<"open">> \o (<<"open", "x", "close", "open", "close">> \o <<"close">>)
           = <<"open", "open", "x", "close", "open", "close", "close">>
    /\ <<"escape", "quote">> \o <<"close">> = <<"escape", "quote", "close">>
    /\ <<"quote", "open", "quote">> \o <<"x">> = <<"quote", "open", "quote", "x">>
    /\ <<"open", "x", "close">> \o <<"open", "close">>
           = <<"open", "x", "close", "open", "close">>
<1>1. <<"quote">> \o (<<"close">> \o <<"quote">>) = <<"quote", "close", "quote">>
  <2> DEFINE t == <<"quote">> \o (<<"close">> \o <<"quote">>)
  <2>1. t \in Texts /\ Len(t) = 3
    BY DEF Texts, Chars
  <2>2. /\ t[1] = "quote" /\ t[2] = "close" /\ t[3] = "quote"
    BY DEF Texts, Chars
  <2> HIDE DEF t
  <2>3. t = <<"quote", "close", "quote">>
    BY <2>1, <2>2, TupleOf
  <2>4. QED
    BY <2>3 DEF t
<1>2. <<"quote">> \o (<<"open">> \o <<"quote">>) = <<"quote", "open", "quote">>
  <2> DEFINE t == <<"quote">> \o (<<"open">> \o <<"quote">>)
  <2>1. t \in Texts /\ Len(t) = 3
    BY DEF Texts, Chars
  <2>2. /\ t[1] = "quote" /\ t[2] = "open" /\ t[3] = "quote"
    BY DEF Texts, Chars
  <2> HIDE DEF t
  <2>3. t = <<"quote", "open", "quote">>
    BY <2>1, <2>2, TupleOf
  <2>4. QED
    BY <2>3 DEF t
<1>3. <<"quote">> \o (<<"escape", "quote", "close">> \o <<"quote">>)
         = <<"quote", "escape", "quote", "close", "quote">>
  <2> DEFINE t == <<"quote">> \o (<<"escape", "quote", "close">> \o <<"quote">>)
  <2>1. t \in Texts /\ Len(t) = 5
    BY DEF Texts, Chars
  <2>2. /\ t[1] = "quote" /\ t[2] = "escape" /\ t[3] = "quote" /\ t[4] = "close" /\ t[5] = "quote"
    BY DEF Texts, Chars
  <2> HIDE DEF t
  <2>3. t = <<"quote", "escape", "quote", "close", "quote">>
    BY <2>1, <2>2, TupleOf
  <2>4. QED
    BY <2>3 DEF t
<1>4. <<"quote">> \o (<<"escape", "escape">> \o <<"quote">>)
         = <<"quote", "escape", "escape", "quote">>
  <2> DEFINE t == <<"quote">> \o (<<"escape", "escape">> \o <<"quote">>)
  <2>1. t \in Texts /\ Len(t) = 4
    BY DEF Texts, Chars
  <2>2. /\ t[1] = "quote" /\ t[2] = "escape" /\ t[3] = "escape" /\ t[4] = "quote"
    BY DEF Texts, Chars
  <2> HIDE DEF t
  <2>3. t = <<"quote", "escape", "escape", "quote">>
    BY <2>1, <2>2, TupleOf
  <2>4. QED
    BY <2>3 DEF t
<1>5. <<"open">> \o (<<>> \o <<"close">>) = <<"open", "close">>
  <2> DEFINE t == <<"open">> \o (<<>> \o <<"close">>)
  <2>1. t \in Texts /\ Len(t) = 2
    BY DEF Texts, Chars
  <2>2. /\ t[1] = "open" /\ t[2] = "close"
    BY DEF Texts, Chars
  <2> HIDE DEF t
  <2>3. t = <<"open", "close">>
    BY <2>1, <2>2, TupleOf
  <2>4. QED
    BY <2>3 DEF t
<1>6. <<"open">> \o (<<"x">> \o <<"close">>) = <<"open", "x", "close">>
  <2> DEFINE t == <<"open">> \o (<<"x">> \o <<"close">>)
  <2>1. t \in Texts /\ Len(t) = 3
    BY DEF Texts, Chars
  <2>2. /\ t[1] = "open" /\ t[2] = "x" /\ t[3] = "close"
    BY DEF Texts, Chars
  <2> HIDE DEF t
  <2>3. t = <<"open", "x", "close">>
    BY <2>1, <2>2, TupleOf
  <2>4. QED
    BY <2>3 DEF t
<1>7. <<"open">> \o (<<"quote", "close", "quote">> \o <<"close">>)
         = <<"open", "quote", "close", "quote", "close">>
  <2> DEFINE t == <<"open">> \o (<<"quote", "close", "quote">> \o <<"close">>)
  <2>1. t \in Texts /\ Len(t) = 5
    BY DEF Texts, Chars
  <2>2. /\ t[1] = "open" /\ t[2] = "quote" /\ t[3] = "close" /\ t[4] = "quote" /\ t[5] = "close"
    BY DEF Texts, Chars
  <2> HIDE DEF t
  <2>3. t = <<"open", "quote", "close", "quote", "close">>
    BY <2>1, <2>2, TupleOf
  <2>4. QED
    BY <2>3 DEF t
<1>8. <<"open">> \o (<<"quote", "open", "quote", "x">> \o <<"close">>)
         = <<"open", "quote", "open", "quote", "x", "close">>
  <2> DEFINE t == <<"open">> \o (<<"quote", "open", "quote", "x">> \o <<"close">>)
  <2>1. t \in Texts /\ Len(t) = 6
    BY DEF Texts, Chars
  <2>2. /\ t[1] = "open" /\ t[2] = "quote" /\ t[3] = "open" /\ t[4] = "quote" /\ t[5] = "x"
        /\ t[6] = "close"
    BY DEF Texts, Chars
  <2> HIDE DEF t
  <2>3. t = <<"open", "quote", "open", "quote", "x", "close">>
    BY <2>1, <2>2, TupleOf
  <2>4. QED
    BY <2>3 DEF t
<1>9. <<"open">> \o (<<"quote", "escape", "quote", "close", "quote">> \o <<"close">>)
         = <<"open", "quote", "escape", "quote", "close", "quote", "close">>
  <2> DEFINE t == <<"open">> \o (<<"quote", "escape", "quote", "close", "quote">> \o <<"close">>)
  <2>1. t \in Texts /\ Len(t) = 7
    BY DEF Texts, Chars
  <2>2. /\ t[1] = "open" /\ t[2] = "quote" /\ t[3] = "escape" /\ t[4] = "quote" /\ t[5] = "close"
        /\ t[6] = "quote" /\ t[7] = "close"
    BY DEF Texts, Chars
  <2> HIDE DEF t
  <2>3. t = <<"open", "quote", "escape", "quote", "close", "quote", "close">>
    BY <2>1, <2>2, TupleOf
  <2>4. QED
    BY <2>3 DEF t
<1>10. <<"open">> \o (<<"quote", "escape", "escape", "quote">> \o <<"close">>)
         = <<"open", "quote", "escape", "escape", "quote", "close">>
  <2> DEFINE t == <<"open">> \o (<<"quote", "escape", "escape", "quote">> \o <<"close">>)
  <2>1. t \in Texts /\ Len(t) = 6
    BY DEF Texts, Chars
  <2>2. /\ t[1] = "open" /\ t[2] = "quote" /\ t[3] = "escape" /\ t[4] = "escape" /\ t[5] = "quote"
        /\ t[6] = "close"
    BY DEF Texts, Chars
  <2> HIDE DEF t
  <2>3. t = <<"open", "quote", "escape", "escape", "quote", "close">>
    BY <2>1, <2>2, TupleOf
  <2>4. QED
    BY <2>3 DEF t
<1>11. <<"open">> \o (<<"open", "x", "close", "open", "close">> \o <<"close">>)
         = <<"open", "open", "x", "close", "open", "close", "close">>
  <2> DEFINE t == <<"open">> \o (<<"open", "x", "close", "open", "close">> \o <<"close">>)
  <2>1. t \in Texts /\ Len(t) = 7
    BY DEF Texts, Chars
  <2>2. /\ t[1] = "open" /\ t[2] = "open" /\ t[3] = "x" /\ t[4] = "close" /\ t[5] = "open"
        /\ t[6] = "close" /\ t[7] = "close"
    BY DEF Texts, Chars
  <2> HIDE DEF t
  <2>3. t = <<"open", "open", "x", "close", "open", "close", "close">>
    BY <2>1, <2>2, TupleOf
  <2>4. QED
    BY <2>3 DEF t
<1>12. <<"escape", "quote">> \o <<"close">> = <<"escape", "quote", "close">>
  <2> DEFINE t == <<"escape", "quote">> \o <<"close">>
  <2>1. t \in Texts /\ Len(t) = 3
    BY DEF Texts, Chars
  <2>2. /\ t[1] = "escape" /\ t[2] = "quote" /\ t[3] = "close"
    BY DEF Texts, Chars
  <2> HIDE DEF t
  <2>3. t = <<"escape", "quote", "close">>
    BY <2>1, <2>2, TupleOf
  <2>4. QED
    BY <2>3 DEF t
<1>13. <<"quote", "open", "quote">> \o <<"x">> = <<"quote", "open", "quote", "x">>
  <2> DEFINE t == <<"quote", "open", "quote">> \o <<"x">>
  <2>1. t \in Texts /\ Len(t) = 4
    BY DEF Texts, Chars
  <2>2. /\ t[1] = "quote" /\ t[2] = "open" /\ t[3] = "quote" /\ t[4] = "x"
    BY DEF Texts, Chars
  <2> HIDE DEF t
  <2>3. t = <<"quote", "open", "quote", "x">>
    BY <2>1, <2>2, TupleOf
  <2>4. QED
    BY <2>3 DEF t
<1>14. <<"open", "x", "close">> \o <<"open", "close">> = <<"open", "x", "close", "open", "close">>
  <2> DEFINE t == <<"open", "x", "close">> \o <<"open", "close">>
  <2>1. t \in Texts /\ Len(t) = 5
    BY DEF Texts, Chars
  <2>2. /\ t[1] = "open" /\ t[2] = "x" /\ t[3] = "close" /\ t[4] = "open" /\ t[5] = "close"
    BY DEF Texts, Chars
  <2> HIDE DEF t
  <2>3. t = <<"open", "x", "close", "open", "close">>
    BY <2>1, <2>2, TupleOf
  <2>4. QED
    BY <2>3 DEF t
<1>15. QED
  BY <1>1, <1>2, <1>3, <1>4, <1>5, <1>6, <1>7, <1>8, <1>9, <1>10, <1>11, <1>12, <1>13, <1>14, Zenon

(* The objects of the runs.                                                 *)
LEMMA ObjectsAreJson == Objects \subseteq {o \in JsonObjects : o \in Texts /\ Len(o) <= 7}
<1>1. /\ \A c \in Chars \ {"quote", "escape"} : <<c>> \in StringBodies
      /\ <<"escape", "quote", "close">> \in StringBodies
      /\ <<"escape", "escape">> \in StringBodies
  <2>1. <<>> \in StringBodies
    BY GrammarClosed DEF StringClosed
  <2>2. ASSUME NEW c \in Chars \ {"quote", "escape"} PROVE <<c>> \in StringBodies
    <3>1. <<>> \o <<c>> \in StringBodies
      BY <2>1, GrammarClosed DEF StringClosed
    <3>2. <<>> \o <<c>> = <<c>>
      OBVIOUS
    <3>3. QED
      BY <3>1, <3>2
  <2>3. ASSUME NEW c \in Chars PROVE <<"escape", c>> \in StringBodies
    <3>1. <<>> \o <<"escape", c>> \in StringBodies
      BY <2>1, GrammarClosed DEF StringClosed
    <3>2. <<>> \o <<"escape", c>> = <<"escape", c>>
      OBVIOUS
    <3>3. QED
      BY <3>1, <3>2
  <2>4. <<"escape", "quote", "close">> \in StringBodies
    <3>1. <<"escape", "quote">> \o <<"close">> \in StringBodies
      BY <2>3, GrammarClosed DEF StringClosed, Chars
    <3>2. <<"escape", "quote">> \o <<"close">> = <<"escape", "quote", "close">>
      BY PutTogether, Zenon
    <3>3. QED
      BY <3>1, <3>2
  <2>5. QED
    BY <2>2, <2>3, <2>4 DEF Chars
<1>2. <<>> \in Bodies
  BY GrammarClosed DEF BodyClosed
<1>3. ASSUME NEW s \in StringBodies
      PROVE  <<"quote">> \o (s \o <<"quote">>) \in Bodies
  <2>1. <<>> \o (<<"quote">> \o (s \o <<"quote">>)) \in Bodies
    BY <1>2, GrammarClosed DEF BodyClosed
  <2>2. s \in Texts
    BY DEF StringBodies
  <2>3. <<"quote">> \o (s \o <<"quote">>) \in Texts
    BY <2>2, OneIsText DEF Texts, Chars
  <2>4. QED
    BY <2>1, <2>3, ConcatEmptySeq DEF Texts
<1>4. <<"x">> \in Bodies
  <2>1. <<>> \o <<"x">> \in Bodies
    BY <1>2, GrammarClosed DEF BodyClosed, Chars
  <2>2. <<>> \o <<"x">> = <<"x">>
    OBVIOUS
  <2>3. QED
    BY <2>1, <2>2
<1>5. <<"quote", "close", "quote">> \in Bodies
  <2>1. <<"quote">> \o (<<"close">> \o <<"quote">>) = <<"quote", "close", "quote">>
    BY PutTogether, Zenon
  <2>2. <<"close">> \in StringBodies
    BY <1>1 DEF Chars
  <2>3. QED
    BY <1>3, <2>1, <2>2
<1>6. <<"quote", "open", "quote", "x">> \in Bodies
  <2>1. <<"quote">> \o (<<"open">> \o <<"quote">>) = <<"quote", "open", "quote">>
    BY PutTogether, Zenon
  <2>2. <<"open">> \in StringBodies
    BY <1>1 DEF Chars
  <2>3. <<"quote", "open", "quote">> \in Bodies
    BY <1>3, <2>1, <2>2
  <2>4. <<"quote", "open", "quote">> \o <<"x">> \in Bodies
    BY <2>3, GrammarClosed DEF BodyClosed, Chars
  <2>5. <<"quote", "open", "quote">> \o <<"x">> = <<"quote", "open", "quote", "x">>
    BY PutTogether, Zenon
  <2>6. QED
    BY <2>4, <2>5
<1>7. <<"quote", "escape", "quote", "close", "quote">> \in Bodies
  <2>1. <<"quote">> \o (<<"escape", "quote", "close">> \o <<"quote">>)
            = <<"quote", "escape", "quote", "close", "quote">>
    BY PutTogether, Zenon
  <2>2. QED
    BY <1>1, <1>3, <2>1
<1>8. <<"quote", "escape", "escape", "quote">> \in Bodies
  <2>1. <<"quote">> \o (<<"escape", "escape">> \o <<"quote">>)
            = <<"quote", "escape", "escape", "quote">>
    BY PutTogether, Zenon
  <2>2. QED
    BY <1>1, <1>3, <2>1
<1>9. <<"open", "x", "close", "open", "close">> \in Bodies
  <2>1. <<>> \o (<<"open">> \o (<<"x">> \o <<"close">>)) = <<"open", "x", "close">>
    <3>1. <<"open">> \o (<<"x">> \o <<"close">>) = <<"open", "x", "close">>
      BY PutTogether, Zenon
    <3>2. <<>> \o <<"open", "x", "close">> = <<"open", "x", "close">>
      OBVIOUS
    <3>3. QED
      BY <3>1, <3>2
  <2>2. <<"open", "x", "close">> \in Bodies
    BY <1>2, <1>4, <2>1, GrammarClosed DEF BodyClosed
  <2>3. <<"open", "x", "close">> \o (<<"open">> \o (<<>> \o <<"close">>))
            = <<"open", "x", "close", "open", "close">>
    <3>1. <<"open">> \o (<<>> \o <<"close">>) = <<"open", "close">>
      BY PutTogether, Zenon
    <3>2. <<"open", "x", "close">> \o <<"open", "close">>
              = <<"open", "x", "close", "open", "close">>
      BY PutTogether, Zenon
    <3>3. QED
      BY <3>1, <3>2
  <2>4. QED
    BY <1>2, <2>2, <2>3, GrammarClosed DEF BodyClosed
<1>10. \A b \in Bodies : <<"open">> \o (b \o <<"close">>) \in JsonObjects
  BY DEF JsonObjects
<1>11. /\ <<"open">> \o (<<>> \o <<"close">>) = <<"open", "close">>
       /\ <<"open">> \o (<<"quote", "close", "quote">> \o <<"close">>)
              = <<"open", "quote", "close", "quote", "close">>
       /\ <<"open">> \o (<<"quote", "open", "quote", "x">> \o <<"close">>)
              = <<"open", "quote", "open", "quote", "x", "close">>
       /\ <<"open">> \o (<<"quote", "escape", "quote", "close", "quote">> \o <<"close">>)
              = <<"open", "quote", "escape", "quote", "close", "quote", "close">>
       /\ <<"open">> \o (<<"quote", "escape", "escape", "quote">> \o <<"close">>)
              = <<"open", "quote", "escape", "escape", "quote", "close">>
       /\ <<"open">> \o (<<"open", "x", "close", "open", "close">> \o <<"close">>)
              = <<"open", "open", "x", "close", "open", "close", "close">>
  BY PutTogether, Zenon
<1>12. /\ <<"open", "close">> \in JsonObjects
       /\ <<"open", "quote", "close", "quote", "close">> \in JsonObjects
       /\ <<"open", "quote", "open", "quote", "x", "close">> \in JsonObjects
       /\ <<"open", "quote", "escape", "quote", "close", "quote", "close">> \in JsonObjects
       /\ <<"open", "quote", "escape", "escape", "quote", "close">> \in JsonObjects
       /\ <<"open", "open", "x", "close", "open", "close", "close">> \in JsonObjects
  BY <1>2, <1>5, <1>6, <1>7, <1>8, <1>9, <1>10, <1>11, Zenon
<1>13. \A o \in Objects : o \in JsonObjects
  BY <1>12, Zenon DEF Objects
<1> DEFINE Short == {o \in Texts : Len(o) <= 7}
<1>14. <<"open", "close">> \in Short
  BY DEF Texts, Chars
<1>15. <<"open", "quote", "close", "quote", "close">> \in Short
  BY DEF Texts, Chars
<1>16. <<"open", "quote", "open", "quote", "x", "close">> \in Short
  BY DEF Texts, Chars
<1>17. <<"open", "quote", "escape", "quote", "close", "quote", "close">> \in Short
  BY DEF Texts, Chars
<1>18. <<"open", "quote", "escape", "escape", "quote", "close">> \in Short
  BY DEF Texts, Chars
<1>19. <<"open", "open", "x", "close", "open", "close", "close">> \in Short
  BY DEF Texts, Chars
<1> HIDE DEF Short
<1>20. \A o \in Objects : o \in Short
  BY <1>14, <1>15, <1>16, <1>17, <1>18, <1>19, Zenon DEF Objects
<1>21. QED
  BY <1>13, <1>20 DEF Short

LEMMA TwoAreAStream ==
    ASSUME NEW one \in JsonObjects, NEW two \in JsonObjects, one \in Texts, two \in Texts,
           NEW blank \in {<<>>, <<"x">>}
    PROVE  <<one \o blank \o two, <<one, two>>>> \in Streams
<1>1. <<one, <<one>>>> \in Streams
  <2>1. <<<<>> \o one, Append(<<>>, one)>> \in Streams
    <3> DEFINE p == <<<<>>, <<>>>>
    <3>1. p \in Streams /\ p[1] = <<>> /\ p[2] = <<>>
      BY GrammarClosed DEF StreamClosed
    <3> HIDE DEF p
    <3>2. <<p[1] \o one, Append(p[2], one)>> \in Streams
      BY <3>1, GrammarClosed DEF StreamClosed
    <3>3. QED
      BY <3>1, <3>2
  <2>2. <<>> \o one = one
    BY ConcatEmptySeq DEF Texts
  <2>3. Append(<<>>, one) = <<one>>
    OBVIOUS
  <2>4. QED
    BY <2>1, <2>2, <2>3
<1>2. <<one \o blank, <<one>>>> \in Streams
  <2>1. CASE blank = <<>>
    <3>1. one \o <<>> = one
      BY ConcatEmptySeq DEF Texts
    <3>2. QED
      BY <1>1, <2>1, <3>1
  <2>2. CASE blank = <<"x">>
    <3> DEFINE p == <<one, <<one>>>>
    <3>1. p \in Streams /\ p[1] = one /\ p[2] = <<one>>
      BY <1>1
    <3> HIDE DEF p
    <3>2. "x" \in Chars \ {"quote", "open", "close"}
      BY DEF Chars
    <3>3. <<p[1] \o <<"x">>, p[2]>> \in Streams
      BY <3>1, <3>2, GrammarClosed DEF StreamClosed
    <3>4. QED
      BY <2>2, <3>1, <3>3
  <2>3. QED
    BY <2>1, <2>2
<1> DEFINE q == <<one \o blank, <<one>>>>
<1>3. q \in Streams /\ q[1] = one \o blank /\ q[2] = <<one>>
  BY <1>2
<1> HIDE DEF q
<1>4. <<q[1] \o two, Append(q[2], two)>> \in Streams
  BY <1>3, GrammarClosed DEF StreamClosed
<1>5. Append(<<one>>, two) = <<one, two>>
  <2> DEFINE t == Append(<<one>>, two)
  <2>1. t \in Seq(Texts) /\ Len(t) = 2 /\ t[1] = one /\ t[2] = two
    OBVIOUS
  <2> HIDE DEF t
  <2>2. t = <<t[1], t[2]>>
    BY <2>1
  <2>3. QED
    BY <2>1, <2>2 DEF t
<1>6. QED
  BY <1>3, <1>4, <1>5

LEMMA ThreeParts ==
    ASSUME NEW T \in Texts, Len(T) < AccumMax, NEW j \in 0..Len(T), NEW i \in 0..j
    PROVE  /\ Parts(T, i, j) \in Seq(Texts)
           /\ \E cut : CutInto(T, Parts(T, i, j), cut) /\ Fit(T, Parts(T, i, j), cut)
<1> DEFINE N == Len(T)
           a == SubSeq(T, 1, i)
           b == SubSeq(T, i + 1, j)
           c == SubSeq(T, j + 1, N)
           parts == <<a, b, c>>
           cut == [k \in 0..3 |-> IF k = 0 THEN 0 ELSE IF k = 1 THEN i ELSE IF k = 2 THEN j ELSE N]
<1>1. N \in Nat /\ i \in 0..N /\ j \in Nat /\ i \in Nat /\ i <= j /\ j <= N
  BY DEF Texts
<1>2. a \in Texts /\ b \in Texts /\ c \in Texts
  BY <1>1 DEF Texts
<1>3. Parts(T, i, j) = parts
  BY DEF Parts
<1> HIDE DEF a, b, c, N
<1>4. parts \in Seq(Texts) /\ Len(parts) = 3 /\ parts[1] = a /\ parts[2] = b /\ parts[3] = c
  BY <1>2
<1>5. cut \in [0..3 -> 0..N] /\ cut[0] = 0 /\ cut[1] = i /\ cut[2] = j /\ cut[3] = N
  BY <1>1
<1> HIDE DEF parts, cut
<1>6. ASSUME NEW k \in 1..3
      PROVE  cut[k - 1] <= cut[k] /\ parts[k] = SubSeq(T, cut[k - 1] + 1, cut[k])
  <2>1. /\ a = SubSeq(T, 0 + 1, i) /\ b = SubSeq(T, i + 1, j) /\ c = SubSeq(T, j + 1, N)
    BY DEF a, b, c, N
  <2>2. CASE k = 1
    <3>1. k - 1 = 0
      BY <2>2
    <3>2. QED
      BY <1>1, <1>4, <1>5, <2>1, <2>2, <3>1, SMTT(30)
  <2>3. CASE k = 2
    <3>1. k - 1 = 1
      BY <2>3
    <3>2. QED
      BY <1>1, <1>4, <1>5, <2>1, <2>3, <3>1
  <2>4. CASE k = 3
    <3>1. k - 1 = 2
      BY <2>4
    <3>2. QED
      BY <1>1, <1>4, <1>5, <2>1, <2>4, <3>1
  <2>5. QED
    BY <2>2, <2>3, <2>4
<1>7. CutInto(T, parts, cut)
  BY <1>4, <1>5, <1>6 DEF CutInto, N
<1>8. ASSUME NEW k \in 1..3 PROVE cut[k] - scanned(T)[cut[k - 1]].consumed < AccumMax
  <2>1. cut[k - 1] \in 0..N /\ cut[k] \in 0..N
    BY <1>5
  <2>2. scanned(T)[cut[k - 1]].consumed \in Nat
    BY <2>1, ScanIsSound DEF ScanSound, Locals, N
  <2>3. N < AccumMax /\ AccumMax \in Nat
    BY JsonAssumption DEF N
  <2>4. QED
    BY <1>1, <2>1, <2>2, <2>3, SMTT(30)
<1>9. Fit(T, parts, cut)
  BY <1>4, <1>8 DEF Fit
<1>10. QED
  BY <1>3, <1>4, <1>7, <1>9

(* In particular for the objects and parts a run checks.                    *)
LEMMA CutObjectsAreReceived ==
    ASSUME NEW one \in Objects, NEW two \in Objects, NEW blank \in {<<>>, <<"x">>},
           NEW j \in 0..Len(one \o blank \o two), NEW i \in 0..j
    PROVE  Received(Parts(one \o blank \o two, i, j)) = <<one, two>>
<1> DEFINE T == one \o blank \o two
<1>1. /\ one \in JsonObjects /\ one \in Texts /\ Len(one) <= 7
      /\ two \in JsonObjects /\ two \in Texts /\ Len(two) <= 7
  BY ObjectsAreJson
<1>2. blank \in Texts /\ Len(blank) <= 1
  <2>1. <<>> \in Texts /\ Len(<<>>) <= 1
    BY DEF Texts
  <2>2. <<"x">> \in Texts /\ Len(<<"x">>) <= 1
    BY DEF Texts, Chars
  <2>3. QED
    BY <2>1, <2>2, Zenon
<1>3. T \in Texts /\ Len(T) < AccumMax
  BY <1>1, <1>2, JsonAssumption DEF Texts
<1>4. <<T, <<one, two>>>> \in Streams
  BY <1>1, TwoAreAStream
<1> HIDE DEF T
<1>5. QED
  BY <1>3, <1>4, ThreeParts, ObjectsAreReceived DEF T

(* However two events are cut into three parts, each is dispatched once,    *)
(* whole and in order.                                                      *)
THEOREM ChatEventsAreWhole == Spec => []EventsAreWhole
<1>1. EventsAreWhole
  BY CutObjectsAreReceived DEF EventsAreWhole
<1>2. QED
  BY <1>1, PTL
=============================================================================
