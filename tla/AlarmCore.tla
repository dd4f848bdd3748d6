------------------------------ MODULE AlarmCore ------------------------------
(***************************************************************************)
(* The alert session of emergency_call_alarm (alarm/core.c and alarm/app.c).*)
(*                                                                         *)
(* One task, alarm_app, takes events from a bounded queue and otherwise    *)
(* ticks; it alone writes the session.  Everything else only posts events: *)
(* the SOS interrupt, the ASR UART callback, the IMS and SMS callbacks and *)
(* the cloud task, which first replaces the contact table.  The modem is   *)
(* the environment: a call it accepted is reported ringing, answered and   *)
(* released at any later moment, also after the session has moved on.      *)
(*                                                                         *)
(* start_next_call rereads the table for every contact it tries, so each   *)
(* try is a step of its own (pc = "dial") and the callbacks run between    *)
(* two tries.  A tick is the sequence confirm, call, stop, poll, recover.  *)
(***************************************************************************)
EXTENDS Integers, Sequences

CONSTANTS
    Contacts,       \* the persons that can be in a contact table
    Tables,         \* the contact tables the store can publish
    ContactMax,     \* ALARM_CONTACT_MAX
    MsgqDepth,      \* ALARM_MSGQ_DEPTH
    LoopWait,       \* ALARM_LOOP_WAIT_MS, the timeout of msgq_wait
    CallTimeout,    \* ALARM_CALL_TIMEOUT_MS
    CallStopWait,   \* ALARM_CALL_STOP_WAIT_MS
    ButtonConfirm,  \* ALARM_BUTTON_CONFIRM_MS
    BatteryPoll,    \* ALARM_BATTERY_POLL_MS
    FailedRecover,  \* ALARM_FAILED_RECOVER_MS
    SmsEnabled,     \* CONFIG_QOSA_SMS_FUNC is defined
    MaxTriggers,    \* bound: SOS edges and voice triggers in a behaviour
    MaxUpdates      \* bound: contact tables the cloud publishes in a behaviour

ASSUME ContactsAssumption ==
    /\ ContactMax \in Nat \ {0}
    /\ Tables # {}
    /\ \A t \in Tables : t \in Seq(Contacts) /\ Len(t) \in 1..ContactMax

ASSUME TimingAssumption ==
    /\ LoopWait \in Nat \ {0}
    /\ CallTimeout \in Nat \ {0}
    /\ CallStopWait \in Nat \ {0}
    /\ ButtonConfirm \in Nat \ {0}
    /\ BatteryPoll \in Nat \ {0}
    /\ FailedRecover \in Nat \ {0}

ASSUME BoundsAssumption ==
    /\ MsgqDepth \in Nat \ {0}
    /\ SmsEnabled \in BOOLEAN
    /\ MaxTriggers \in Nat
    /\ MaxUpdates \in Nat

VARIABLES
    session,   \* ctx->session, written by the alarm task only
    out,       \* what the status LED and the buzzer show
    pc,        \* where the alarm task is
    resume,    \* where it goes on after start_next_call returns
    queue,     \* ctx->msgq
    table,     \* the contact table alarm_get_contacts returns
    line,      \* the newest call handed to the modem
    held,      \* earlier calls the modem still has, by status
    sms,       \* SMS submitted whose sms_send_cb has not run
    triggers,  \* triggers posted so far
    updates,   \* tables published so far
    roster,    \* history: the table the SMS of this session went to
    dialled,   \* history: the contacts tried in this session, in order
    lost       \* history: some CALL_DISCONNECTED was dropped at a full queue

vars == <<session, out, pc, resume, queue, table, line, held, sms,
          triggers, updates, roster, dialled, lost>>

modem   == <<line, held>>
budget  == <<triggers, updates>>
history == <<roster, dialled>>

States == {"IDLE", "TRIGGER_CONFIRM", "ALERT_PENDING", "CALLING",
           "CALL_STOPPING", "CONNECTED", "FAILED"}

Events == {"VOICE_TRIGGER", "SOS_EDGE", "CALL_RING", "CALL_CONNECTED",
           "CALL_DISCONNECTED", "SMS_RESULT", "LOW_BATTERY",
           "CONTACTS_UPDATED"}

TickParts == {"call", "stop", "poll", "recover"}

CallStatus == {"dialing", "ringing", "up"}

Session ==
    [state : States, active : BOOLEAN, call_connected : BOOLEAN,
     button_confirm_pending : BOOLEAN, current_contact_index : Nat,
     total_contacts : Nat, button_confirm_remaining_ms : Nat,
     call_remaining_ms : Nat, stop_wait_remaining_ms : Nat,
     battery_poll_remaining_ms : Nat, failed_recover_remaining_ms : Nat]

Leds == {"OFF", "BREATH", "FAST", "SOLID_ON"}

-----------------------------------------------------------------------------
(* Definitions named ..._Wrong are faulty variants of the definition they   *)
(* precede.  Nothing uses them: a property is shown to depend on the code   *)
(* by putting the variant in the place of the original.                     *)

(* Falls silent while it waits for the stop of a call.                      *)
feedback_apply_state_Wrong(o, st) ==
    [led |-> CASE st = "IDLE" -> "BREATH"
               [] st \in {"ALERT_PENDING", "CALLING", "CALL_STOPPING"} -> "FAST"
               [] st = "CONNECTED" -> "SOLID_ON"
               [] st = "FAILED" -> "OFF"
               [] OTHER -> o.led,
     buzzer |-> CASE st \in {"IDLE", "CONNECTED", "CALL_STOPPING"} -> FALSE
                  [] st = "TRIGGER_CONFIRM" -> o.buzzer
                  [] OTHER -> TRUE]

(* The feedback a state switches on; TRIGGER_CONFIRM leaves it as it was.   *)
feedback_apply_state(o, st) ==
    [led |-> CASE st = "IDLE" -> "BREATH"
               [] st \in {"ALERT_PENDING", "CALLING", "CALL_STOPPING"} -> "FAST"
               [] st = "CONNECTED" -> "SOLID_ON"
               [] st = "FAILED" -> "OFF"
               [] OTHER -> o.led,
     buzzer |-> CASE st \in {"IDLE", "CONNECTED"} -> FALSE
                  [] st = "TRIGGER_CONFIRM" -> o.buzzer
                  [] OTHER -> TRUE]

(* The session becomes ses in state st; feedback runs only on a change.     *)
set_state(ses, st) ==
    /\ session' = [ses EXCEPT !.state = st]
    /\ out' = IF st = session.state THEN out ELSE feedback_apply_state(out, st)

(* One period of a countdown that has not reached its end.                  *)
Running(ms) == ms > LoopWait

(* Off by one: the queue takes one event more than it has room for.         *)
alarm_post_event_Wrong(e) ==
    IF Len(queue) <= MsgqDepth
    THEN /\ queue' = Append(queue, e)
         /\ UNCHANGED lost
    ELSE /\ queue' = queue
         /\ lost' = IF e = "CALL_DISCONNECTED" THEN TRUE ELSE lost

(* alarm_post_event never waits: a full queue drops the event.              *)
alarm_post_event(e) ==
    IF Len(queue) < MsgqDepth
    THEN /\ queue' = Append(queue, e)
         /\ UNCHANGED lost
    ELSE /\ queue' = queue
         /\ lost' = IF e = "CALL_DISCONNECTED" THEN TRUE ELSE lost

Init ==
    /\ session = [state |-> "IDLE", active |-> FALSE, call_connected |-> FALSE,
                  button_confirm_pending |-> FALSE, current_contact_index |-> 0,
                  total_contacts |-> 0, button_confirm_remaining_ms |-> 0,
                  call_remaining_ms |-> 0, stop_wait_remaining_ms |-> 0,
                  battery_poll_remaining_ms |-> BatteryPoll,
                  failed_recover_remaining_ms |-> 0]
    /\ out = [led |-> "BREATH", buzzer |-> FALSE]
    /\ pc = "wait" /\ resume = "wait"
    /\ queue = <<>>
    /\ table \in Tables
    /\ line = "none"
    /\ held = [st \in CallStatus |-> 0]
    /\ sms = 0
    /\ triggers = 0 /\ updates = 0
    /\ roster = <<>> /\ dialled = <<>>
    /\ lost = FALSE

-----------------------------------------------------------------------------
(* Starting, rotating and failing                                           *)

(* Keeps the index the previous session ended at.                           *)
begin_alert_Wrong(ses, then) ==
    IF ses.active
    THEN /\ session' = ses
         /\ pc' = then
         /\ UNCHANGED <<out, resume, sms, history>>
    ELSE /\ set_state([ses EXCEPT !.active = TRUE, !.call_connected = FALSE,
                                  !.button_confirm_pending = FALSE,
                                  !.total_contacts = Len(table),
                                  !.call_remaining_ms = 0,
                                  !.stop_wait_remaining_ms = 0],
                      "ALERT_PENDING")
         /\ sms' = sms
         /\ roster' = table
         /\ dialled' = <<>>
         /\ pc' = "dial"
         /\ resume' = then

(* begin_alert, up to its call of start_next_call.  The fan-out submits one *)
(* SMS per contact; n of them are accepted and will be confirmed.           *)
begin_alert(ses, then) ==
    IF ses.active
    THEN /\ session' = ses
         /\ pc' = then
         /\ UNCHANGED <<out, resume, sms, history>>
    ELSE /\ set_state([ses EXCEPT !.active = TRUE, !.call_connected = FALSE,
                                  !.button_confirm_pending = FALSE,
                                  !.current_contact_index = 0,
                                  !.total_contacts = Len(table),
                                  !.call_remaining_ms = 0,
                                  !.stop_wait_remaining_ms = 0],
                      "ALERT_PENDING")
         /\ \E n \in 0..Len(table) : /\ n > 0 => SmsEnabled
                                     /\ sms' = sms + n
         /\ roster' = table
         /\ dialled' = <<>>
         /\ pc' = "dial"
         /\ resume' = then

(* The next contact of the rotation is due: start_next_call follows.        *)
Rotate(ses, then) ==
    /\ session' = [ses EXCEPT !.current_contact_index = @ + 1,
                              !.stop_wait_remaining_ms = 0]
    /\ pc' = "dial"
    /\ resume' = then

(* Forgets to arm the countdown that leads out of FAILED.                   *)
fail_session_Wrong(ses) ==
    set_state([ses EXCEPT !.active = FALSE, !.call_connected = FALSE,
                          !.button_confirm_pending = FALSE,
                          !.call_remaining_ms = 0,
                          !.stop_wait_remaining_ms = 0],
              "FAILED")

fail_session(ses) ==
    set_state([ses EXCEPT !.active = FALSE, !.call_connected = FALSE,
                          !.button_confirm_pending = FALSE,
                          !.call_remaining_ms = 0,
                          !.stop_wait_remaining_ms = 0,
                          !.failed_recover_remaining_ms = FailedRecover],
              "FAILED")

(* The modem takes the call; the call it had until now becomes an old one.  *)
PlaceCall ==
    /\ line' = "dialing"
    /\ held' = IF line = "none" THEN held ELSE [held EXCEPT ![line] = @ + 1]

(* Gives up one contact early.                                              *)
start_next_call_Wrong ==
    LET idx == session.current_contact_index
        ses == [session EXCEPT !.total_contacts = Len(table)]
    IN /\ pc = "dial"
       /\ \/ /\ idx + 1 >= Len(table)
             /\ fail_session(ses)
             /\ pc' = resume
             /\ UNCHANGED <<modem, dialled>>
          \/ /\ idx + 1 < Len(table)
             /\ dialled' = Append(dialled, table[idx + 1])
             /\ set_state([ses EXCEPT !.call_remaining_ms = CallTimeout], "CALLING")
             /\ PlaceCall
             /\ pc' = resume
       /\ UNCHANGED <<resume, queue, table, sms, budget, roster, lost>>

(* One try of start_next_call.  A refused call leaves pc at "dial", which   *)
(* is the recursive call of the code.                                       *)
start_next_call ==
    LET idx == session.current_contact_index
        ses == [session EXCEPT !.total_contacts = Len(table)]
    IN /\ pc = "dial"
       /\ \/ /\ idx >= Len(table)
             /\ fail_session(ses)
             /\ pc' = resume
             /\ UNCHANGED <<modem, dialled>>
          \/ /\ idx < Len(table)
             /\ dialled' = Append(dialled, table[idx + 1])
             /\ \/ /\ set_state([ses EXCEPT !.current_contact_index = @ + 1],
                                "CALLING")
                   /\ UNCHANGED <<modem, pc>>
                \/ /\ set_state([ses EXCEPT !.call_remaining_ms = CallTimeout,
                                            !.stop_wait_remaining_ms = 0],
                                "CALLING")
                   /\ PlaceCall
                   /\ pc' = resume
       /\ UNCHANGED <<resume, queue, table, sms, budget, roster, lost>>

-----------------------------------------------------------------------------
(* alarm_core_handle_event: one action per event type                       *)

(* The alarm task takes event e off the queue.                              *)
Receive(e) ==
    /\ pc = "wait"
    /\ queue # <<>>
    /\ Head(queue) = e
    /\ queue' = Tail(queue)
    /\ UNCHANGED <<table, modem, budget, lost>>

HandleVoiceTrigger ==
    /\ Receive("VOICE_TRIGGER")
    /\ begin_alert(session, "wait")

HandleSosEdge ==
    /\ Receive("SOS_EDGE")
    /\ IF session.active \/ session.button_confirm_pending
       THEN UNCHANGED <<session, out>>
       ELSE set_state([session EXCEPT !.button_confirm_pending = TRUE,
                                      !.button_confirm_remaining_ms = ButtonConfirm],
                      "TRIGGER_CONFIRM")
    /\ UNCHANGED <<pc, resume, sms, history>>

(* Takes the report of a call also when no alert is active.                 *)
HandleConnected_Wrong ==
    /\ Receive("CALL_CONNECTED")
    /\ set_state([session EXCEPT !.call_connected = TRUE,
                                 !.call_remaining_ms = 0,
                                 !.stop_wait_remaining_ms = 0],
                 "CONNECTED")
    /\ UNCHANGED <<pc, resume, sms, history>>

HandleConnected ==
    /\ Receive("CALL_CONNECTED")
    /\ IF session.active
       THEN set_state([session EXCEPT !.call_connected = TRUE,
                                      !.call_remaining_ms = 0,
                                      !.stop_wait_remaining_ms = 0],
                      "CONNECTED")
       ELSE UNCHANGED <<session, out>>
    /\ UNCHANGED <<pc, resume, sms, history>>

(* A late report closes the confirm window, too.                            *)
HandleDisconnected ==
    /\ Receive("CALL_DISCONNECTED")
    /\ \/ /\ ~session.active
          /\ set_state(session, "IDLE")
          /\ UNCHANGED <<pc, resume>>
       \/ /\ session.active /\ session.call_connected
          /\ set_state([session EXCEPT !.active = FALSE,
                                       !.call_connected = FALSE], "IDLE")
          /\ UNCHANGED <<pc, resume>>
       \/ /\ session.active /\ ~session.call_connected
          /\ Rotate(session, "wait")
          /\ UNCHANGED out
    /\ UNCHANGED <<sms, history>>

HandleLowBattery ==
    /\ Receive("LOW_BATTERY")
    /\ out' = [out EXCEPT !.buzzer = TRUE]
    /\ UNCHANGED <<session, pc, resume, sms, history>>

HandleContactsUpdated ==
    /\ Receive("CONTACTS_UPDATED")
    /\ session' = IF session.active THEN session
                  ELSE [session EXCEPT !.total_contacts = Len(table),
                                       !.current_contact_index = 0]
    /\ UNCHANGED <<out, pc, resume, sms, history>>

(* CALL_RING and SMS_RESULT are only logged.                                *)
HandleLogged ==
    /\ \E e \in {"CALL_RING", "SMS_RESULT"} : Receive(e)
    /\ UNCHANGED <<session, out, pc, resume, sms, history>>

HandleEvent ==
    \/ HandleVoiceTrigger \/ HandleSosEdge
    \/ HandleConnected    \/ HandleDisconnected
    \/ HandleLowBattery   \/ HandleContactsUpdated \/ HandleLogged

-----------------------------------------------------------------------------
(* alarm_core_tick: msgq_wait timed out, so the queue was empty             *)

TickConfirm ==
    LET left == session.button_confirm_remaining_ms
    IN /\ pc = "wait"
       /\ queue = <<>>
       /\ \/ /\ ~session.button_confirm_pending
             /\ pc' = "call"
             /\ UNCHANGED <<session, out, resume, sms, history>>
          \/ /\ session.button_confirm_pending
             /\ Running(left)
             /\ session' = [session EXCEPT
                              !.button_confirm_remaining_ms = left - LoopWait]
             /\ pc' = "call"
             /\ UNCHANGED <<out, resume, sms, history>>
          \/ /\ session.button_confirm_pending
             /\ ~Running(left)
             /\ begin_alert([session EXCEPT !.button_confirm_pending = FALSE,
                                            !.button_confirm_remaining_ms = 0],
                            "call")
       /\ UNCHANGED <<queue, table, modem, budget, lost>>

Dialling ==
    session.active /\ session.state = "CALLING" /\ ~session.call_connected

TickCall ==
    LET left == session.call_remaining_ms
        stopping == [session EXCEPT !.call_remaining_ms = 0,
                                    !.stop_wait_remaining_ms = CallStopWait,
                                    !.state = "CALL_STOPPING"]
    IN /\ pc = "call"
       /\ \/ /\ ~Dialling
             /\ pc' = "stop"
             /\ UNCHANGED <<session, out, resume>>
          \/ /\ Dialling
             /\ Running(left)
             /\ session' = [session EXCEPT !.call_remaining_ms = left - LoopWait]
             /\ pc' = "stop"
             /\ UNCHANGED <<out, resume>>
          \/ /\ Dialling
             /\ ~Running(left)
             /\ out' = feedback_apply_state(out, "CALL_STOPPING")
             /\ \/ /\ session' = stopping      \* service_stop_call() == 0
                   /\ pc' = "stop"
                   /\ UNCHANGED resume
                \/ Rotate(stopping, "stop")    \* service_stop_call() != 0
       /\ UNCHANGED <<queue, table, modem, sms, budget, history, lost>>

(* No fallback for a stop the modem never confirms.                         *)
AwaitingStop_Wrong == FALSE

AwaitingStop ==
    /\ session.active /\ session.state = "CALL_STOPPING"
    /\ ~session.call_connected
    /\ session.stop_wait_remaining_ms > 0

TickStop ==
    LET left == session.stop_wait_remaining_ms
    IN /\ pc = "stop"
       /\ \/ /\ ~AwaitingStop
             /\ pc' = "poll"
             /\ UNCHANGED <<session, resume>>
          \/ /\ AwaitingStop
             /\ Running(left)
             /\ session' = [session EXCEPT !.stop_wait_remaining_ms = left - LoopWait]
             /\ pc' = "poll"
             /\ UNCHANGED resume
          \/ /\ AwaitingStop
             /\ ~Running(left)
             /\ Rotate(session, "poll")
       /\ UNCHANGED <<out, queue, table, modem, sms, budget, history, lost>>

TickPoll ==
    LET left == session.battery_poll_remaining_ms
    IN /\ pc = "poll"
       /\ pc' = "recover"
       /\ \/ /\ Running(left)
             /\ session' = [session EXCEPT !.battery_poll_remaining_ms = left - LoopWait]
             /\ UNCHANGED <<queue, lost>>
          \/ /\ ~Running(left)
             /\ session' = [session EXCEPT !.battery_poll_remaining_ms = BatteryPoll]
             /\ \/ UNCHANGED <<queue, lost>>
                \/ alarm_post_event("LOW_BATTERY")
       /\ UNCHANGED <<out, resume, table, modem, sms, budget, history>>

Recovering ==
    session.state = "FAILED" /\ session.failed_recover_remaining_ms > 0

TickRecover ==
    LET left == session.failed_recover_remaining_ms
    IN /\ pc = "recover"
       /\ pc' = "wait"
       /\ \/ /\ ~Recovering
             /\ UNCHANGED <<session, out>>
          \/ /\ Recovering
             /\ Running(left)
             /\ session' = [session EXCEPT !.failed_recover_remaining_ms = left - LoopWait]
             /\ UNCHANGED out
          \/ /\ Recovering
             /\ ~Running(left)
             /\ set_state([session EXCEPT !.failed_recover_remaining_ms = 0,
                                          !.current_contact_index = 0,
                                          !.total_contacts = 0],
                          "IDLE")
       /\ UNCHANGED <<resume, queue, table, modem, sms, budget, history, lost>>

Task ==
    \/ HandleEvent \/ start_next_call
    \/ TickConfirm \/ TickCall \/ TickStop \/ TickPoll \/ TickRecover

-----------------------------------------------------------------------------
(* What the other tasks and the interrupts do                               *)

core == <<session, out, pc, resume>>

(* sos_isr and asr_uart_cb                                                  *)
Trigger ==
    /\ triggers < MaxTriggers
    /\ triggers' = triggers + 1
    /\ \E e \in {"SOS_EDGE", "VOICE_TRIGGER"} : alarm_post_event(e)
    /\ UNCHANGED <<core, table, modem, sms, updates, history>>

(* The cloud task stores a downloaded table, then announces it.             *)
PublishContacts ==
    /\ updates < MaxUpdates
    /\ updates' = updates + 1
    /\ table' \in Tables
    /\ alarm_post_event("CONTACTS_UPDATED")
    /\ UNCHANGED <<core, modem, sms, triggers, history>>

SmsReport ==
    /\ sms > 0
    /\ sms' = sms - 1
    /\ alarm_post_event("SMS_RESULT")
    /\ UNCHANGED <<core, table, modem, budget, history>>

(* The newest call, or an older one, goes from status a to status b.        *)
LineMoves(a, b) ==
    /\ line = a
    /\ line' = b
    /\ UNCHANGED held

HeldMoves(a, b) ==
    /\ held[a] > 0
    /\ held' = IF b = "none" THEN [held EXCEPT ![a] = @ - 1]
               ELSE [held EXCEPT ![a] = @ - 1, ![b] = @ + 1]
    /\ UNCHANGED line

(* ims_event_cb, once for each report of the modem                          *)
ims_event_cb(e) ==
    /\ alarm_post_event(e)
    /\ UNCHANGED <<core, table, sms, budget, history>>

CallRings ==
    /\ LineMoves("dialing", "ringing") \/ HeldMoves("dialing", "ringing")
    /\ ims_event_cb("CALL_RING")

CallAnswered ==
    /\ \E a \in {"dialing", "ringing"} : LineMoves(a, "up") \/ HeldMoves(a, "up")
    /\ ims_event_cb("CALL_CONNECTED")

LineReleased ==
    /\ \E a \in CallStatus : LineMoves(a, "none")
    /\ ims_event_cb("CALL_DISCONNECTED")

HeldReleased ==
    /\ \E a \in CallStatus : HeldMoves(a, "none")
    /\ ims_event_cb("CALL_DISCONNECTED")

Environment ==
    \/ Trigger \/ PublishContacts \/ SmsReport
    \/ CallRings \/ CallAnswered \/ LineReleased \/ HeldReleased

Next == Task \/ Environment

Spec == Init /\ [][Next]_vars

(* The alarm task is scheduled, and the network ends every call some time.  *)
Fairness == WF_vars(Task) /\ WF_vars(LineReleased) /\ WF_vars(HeldReleased)

FairSpec == Spec /\ Fairness
=============================================================================
