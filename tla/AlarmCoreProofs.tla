--------------------------- MODULE AlarmCoreProofs ---------------------------
(* What AlarmCoreProperties claims of AlarmCore, proved for every table,    *)
(* queue depth and duration.                                                *)
EXTENDS AlarmCoreProperties, TLAPS

-----------------------------------------------------------------------------
(* The pieces the actions are made of                                       *)

(* Index and countdowns are naturals and may be set to any natural.         *)
LEMMA SessionFields ==
    ASSUME NEW ses \in Session
    PROVE  /\ ses.current_contact_index \in Nat
           /\ ses.button_confirm_remaining_ms \in Nat
           /\ ses.call_remaining_ms \in Nat
           /\ ses.stop_wait_remaining_ms \in Nat
           /\ ses.battery_poll_remaining_ms \in Nat
           /\ ses.failed_recover_remaining_ms \in Nat
BY DEF Session

(* Setting one number of a session gives a session.                         *)
LEMMA SessionUpdate ==
    ASSUME NEW ses \in Session, NEW n \in Nat
    PROVE  /\ [ses EXCEPT !.current_contact_index = n] \in Session
           /\ [ses EXCEPT !.total_contacts = n] \in Session
           /\ [ses EXCEPT !.button_confirm_remaining_ms = n] \in Session
           /\ [ses EXCEPT !.call_remaining_ms = n] \in Session
           /\ [ses EXCEPT !.stop_wait_remaining_ms = n] \in Session
           /\ [ses EXCEPT !.battery_poll_remaining_ms = n] \in Session
           /\ [ses EXCEPT !.failed_recover_remaining_ms = n] \in Session
BY DEF Session

(* A running countdown has more than one period left.                       *)
LEMMA Countdown ==
    ASSUME NEW ms \in Nat, Running(ms)
    PROVE  ms - LoopWait \in Nat /\ ms - LoopWait > 0
BY TimingAssumption DEF Running

(* Posting keeps the queue a queue of its bounded length.                   *)
LEMMA PostType ==
    ASSUME TypeOK, NEW e \in Events, alarm_post_event(e)
    PROVE  /\ queue' \in Seq(Events) /\ Len(queue') <= MsgqDepth
           /\ lost' \in BOOLEAN
<1>1. queue \in Seq(Events) /\ Len(queue) \in Nat /\ Len(queue) <= MsgqDepth
  BY DEF TypeOK
<1>2. CASE Len(queue) < MsgqDepth
  <2>1. queue' = Append(queue, e) /\ lost' = lost
    BY <1>2 DEF alarm_post_event
  <2>2. Append(queue, e) \in Seq(Events) /\ Len(Append(queue, e)) = Len(queue) + 1
    BY <1>1
  <2>3. lost' \in BOOLEAN
    BY <2>1 DEF TypeOK
  <2>4. QED
    BY <1>1, <1>2, <2>1, <2>2, <2>3, BoundsAssumption
<1>3. CASE ~(Len(queue) < MsgqDepth)
  BY <1>1, <1>3 DEF alarm_post_event, TypeOK
<1>4. QED
  BY <1>2, <1>3

(* So does receiving.                                                       *)
LEMMA ReceiveType ==
    ASSUME TypeOK, NEW e, Receive(e)
    PROVE  queue' \in Seq(Events) /\ Len(queue') <= MsgqDepth
BY BoundsAssumption DEF TypeOK, Receive

(* The feedback of every state is a setting of LED and buzzer.              *)
LEMMA FeedbackType ==
    ASSUME NEW o \in [led : Leds, buzzer : BOOLEAN], NEW st \in States
    PROVE  feedback_apply_state(o, st) \in [led : Leds, buzzer : BOOLEAN]
BY DEF feedback_apply_state, Leds, States

(* set_state keeps a session a session.                                     *)
LEMMA SetStateType ==
    ASSUME TypeOK, NEW ses \in Session, NEW st \in States, set_state(ses, st)
    PROVE  session' \in Session /\ out' \in [led : Leds, buzzer : BOOLEAN]
<1>1. out' \in [led : Leds, buzzer : BOOLEAN]
  BY FeedbackType DEF set_state, TypeOK
<1>2. session' \in Session
  BY DEF set_state, Session
<1>3. QED
  BY <1>1, <1>2

(* begin_alert keeps the types, with any contact table.                     *)
LEMMA BeginAlertType ==
    ASSUME TypeOK, NEW ses \in Session, NEW then \in {"wait"} \cup TickParts,
           begin_alert(ses, then)
    PROVE  /\ session' \in Session
           /\ out' \in [led : Leds, buzzer : BOOLEAN]
           /\ pc' \in {"wait", "dial"} \cup TickParts
           /\ resume' \in {"wait"} \cup TickParts
           /\ sms' \in Nat
           /\ roster' \in Seq(Contacts) /\ dialled' \in Seq(Contacts)
<1>1. Len(table) \in Nat /\ table \in Seq(Contacts)
  BY ContactsAssumption DEF TypeOK
<1>2. CASE ses.active
  BY <1>2 DEF begin_alert, TypeOK, history
<1>3. CASE ~ses.active
  <2> DEFINE new == [ses EXCEPT !.active = TRUE, !.call_connected = FALSE,
                                !.button_confirm_pending = FALSE,
                                !.current_contact_index = 0,
                                !.total_contacts = Len(table),
                                !.call_remaining_ms = 0,
                                !.stop_wait_remaining_ms = 0]
  <2>1. new \in Session
    BY <1>1 DEF Session
  <2>2. set_state(new, "ALERT_PENDING")
    BY <1>3 DEF begin_alert
  <2>3. session' \in Session /\ out' \in [led : Leds, buzzer : BOOLEAN]
    BY <2>1, <2>2, SetStateType DEF States
  <2>4. QED
    BY <1>1, <1>3, <2>3 DEF begin_alert, TypeOK
<1>4. QED
  BY <1>2, <1>3

(* A session whose next contact is due is a session.                        *)
LEMMA RotateType ==
    ASSUME NEW ses \in Session, NEW then \in {"wait"} \cup TickParts,
           Rotate(ses, then)
    PROVE  /\ session' \in Session
           /\ pc' \in {"wait", "dial"} \cup TickParts
           /\ resume' \in {"wait"} \cup TickParts
<1> DEFINE n == ses.current_contact_index + 1
<1>1. n \in Nat
  BY SessionFields
<1>2. [ses EXCEPT !.current_contact_index = n, !.stop_wait_remaining_ms = 0] \in Session
  BY <1>1 DEF Session
<1>3. QED
  BY <1>2 DEF Rotate

(* One try of start_next_call keeps the types.                              *)
LEMMA StartNextCallType == TypeOK /\ start_next_call => TypeOK'
<1> SUFFICES ASSUME TypeOK, start_next_call PROVE TypeOK'
  OBVIOUS
<1> DEFINE idx == session.current_contact_index
           ses == [session EXCEPT !.total_contacts = Len(table)]
<1>1. /\ Len(table) \in Nat /\ table \in Seq(Contacts)
      /\ ses \in Session /\ idx \in Nat
  <2>1. Len(table) \in Nat /\ table \in Seq(Contacts)
    BY ContactsAssumption DEF TypeOK
  <2>2. QED
    BY <2>1, SessionFields, SessionUpdate DEF TypeOK
<1>2. /\ resume' = resume /\ queue' = queue /\ table' = table /\ sms' = sms
      /\ triggers' = triggers /\ updates' = updates /\ roster' = roster
      /\ lost' = lost
  BY DEF start_next_call, budget
<1>3. CASE idx >= Len(table)
  <2>1. /\ fail_session(ses) /\ pc' = resume
        /\ line' = line /\ held' = held /\ dialled' = dialled
    BY <1>1, <1>3 DEF start_next_call, modem
  <2> DEFINE new == [ses EXCEPT !.active = FALSE, !.call_connected = FALSE,
                                !.button_confirm_pending = FALSE,
                                !.call_remaining_ms = 0,
                                !.stop_wait_remaining_ms = 0,
                                !.failed_recover_remaining_ms = FailedRecover]
  <2>2. new \in Session
    BY <1>1, TimingAssumption DEF Session
  <2>3. set_state(new, "FAILED")
    BY <2>1 DEF fail_session
  <2>4. session' \in Session /\ out' \in [led : Leds, buzzer : BOOLEAN]
    BY <2>2, <2>3, SetStateType DEF States
  <2>5. QED
    BY <1>2, <2>1, <2>4 DEF TypeOK
<1>4. CASE idx < Len(table)
  <2>1. dialled' = Append(dialled, table[idx + 1])
    BY <1>1, <1>4 DEF start_next_call
  <2>2. dialled' \in Seq(Contacts)
    BY <1>1, <1>4, <2>1 DEF TypeOK
  <2>3. CASE /\ set_state([ses EXCEPT !.current_contact_index = @ + 1], "CALLING")
             /\ line' = line /\ held' = held /\ pc' = pc
    <3>1. [ses EXCEPT !.current_contact_index = @ + 1] \in Session
      <4> DEFINE n == ses.current_contact_index + 1
      <4>1. n \in Nat
        BY <1>1, SessionFields
      <4>2. [ses EXCEPT !.current_contact_index = n] \in Session
        BY <1>1, <4>1, SessionUpdate
      <4>3. QED
        BY <4>2
    <3>2. session' \in Session /\ out' \in [led : Leds, buzzer : BOOLEAN]
      BY <2>3, <3>1, SetStateType DEF States
    <3>3. QED
      BY <1>2, <2>2, <2>3, <3>2 DEF TypeOK
  <2>4. CASE /\ set_state([ses EXCEPT !.call_remaining_ms = CallTimeout,
                                      !.stop_wait_remaining_ms = 0], "CALLING")
             /\ PlaceCall /\ pc' = resume
    <3>1. [ses EXCEPT !.call_remaining_ms = CallTimeout,
                      !.stop_wait_remaining_ms = 0] \in Session
      BY <1>1, TimingAssumption DEF Session
    <3>2. session' \in Session /\ out' \in [led : Leds, buzzer : BOOLEAN]
      BY <2>4, <3>1, SetStateType DEF States
    <3>3. line' \in {"none"} \cup CallStatus /\ held' \in [CallStatus -> Nat]
      BY <2>4 DEF PlaceCall, TypeOK, CallStatus
    <3>4. QED
      BY <1>2, <2>2, <2>4, <3>2, <3>3 DEF TypeOK
  <2>5. QED
    BY <1>1, <1>4, <2>3, <2>4 DEF start_next_call, modem
<1>5. QED
  BY <1>1, <1>3, <1>4

(* Handling an event keeps the types.                                       *)
LEMMA HandleEventType == TypeOK /\ HandleEvent => TypeOK'
<1> SUFFICES ASSUME TypeOK, HandleEvent PROVE TypeOK'
  OBVIOUS
<1> DEFINE Kept == /\ table' = table /\ line' = line /\ held' = held
                   /\ triggers' = triggers /\ updates' = updates /\ lost' = lost
                   /\ queue' \in Seq(Events) /\ Len(queue') <= MsgqDepth
<1>1. ASSUME NEW e, Receive(e) PROVE Kept
  BY <1>1, ReceiveType DEF Receive, modem, budget
<1>2. Len(table) \in Nat
  BY ContactsAssumption DEF TypeOK
<1>3. CASE HandleVoiceTrigger
  <2>1. Kept /\ begin_alert(session, "wait")
    BY <1>1, <1>3 DEF HandleVoiceTrigger
  <2>2. QED
    BY <2>1, BeginAlertType DEF TypeOK
<1>4. CASE HandleSosEdge
  <2>1. Kept /\ UNCHANGED <<pc, resume, sms, history>>
    BY <1>1, <1>4 DEF HandleSosEdge
  <2>2. [session EXCEPT !.button_confirm_pending = TRUE,
                        !.button_confirm_remaining_ms = ButtonConfirm] \in Session
    BY TimingAssumption DEF TypeOK, Session
  <2>3. session' \in Session /\ out' \in [led : Leds, buzzer : BOOLEAN]
    BY <1>4, <2>2, SetStateType DEF HandleSosEdge, TypeOK, States
  <2>4. QED
    BY <2>1, <2>3 DEF TypeOK, history
<1>5. CASE HandleConnected
  <2>1. Kept /\ UNCHANGED <<pc, resume, sms, history>>
    BY <1>1, <1>5 DEF HandleConnected
  <2>2. [session EXCEPT !.call_connected = TRUE, !.call_remaining_ms = 0,
                        !.stop_wait_remaining_ms = 0] \in Session
    BY DEF TypeOK, Session
  <2>3. session' \in Session /\ out' \in [led : Leds, buzzer : BOOLEAN]
    BY <1>5, <2>2, SetStateType DEF HandleConnected, TypeOK, States
  <2>4. QED
    BY <2>1, <2>3 DEF TypeOK, history
<1>6. CASE HandleDisconnected
  <2>1. Kept /\ UNCHANGED <<sms, history>>
    BY <1>1, <1>6 DEF HandleDisconnected
  <2>2. CASE /\ set_state(session, "IDLE") /\ UNCHANGED <<pc, resume>>
    <3>1. session' \in Session /\ out' \in [led : Leds, buzzer : BOOLEAN]
      BY <2>2, SetStateType DEF TypeOK, States
    <3>2. QED
      BY <2>1, <2>2, <3>1 DEF TypeOK, history
  <2>3. CASE /\ set_state([session EXCEPT !.active = FALSE,
                                          !.call_connected = FALSE], "IDLE")
             /\ UNCHANGED <<pc, resume>>
    <3>1. [session EXCEPT !.active = FALSE, !.call_connected = FALSE] \in Session
      BY DEF TypeOK, Session
    <3>2. session' \in Session /\ out' \in [led : Leds, buzzer : BOOLEAN]
      BY <2>3, <3>1, SetStateType DEF States
    <3>3. QED
      BY <2>1, <2>3, <3>2 DEF TypeOK, history
  <2>4. CASE Rotate(session, "wait") /\ UNCHANGED out
    BY <2>1, <2>4, RotateType DEF TypeOK, history
  <2>5. QED
    BY <1>6, <2>2, <2>3, <2>4 DEF HandleDisconnected
<1>7. CASE HandleLowBattery
  <2>1. Kept /\ UNCHANGED <<session, pc, resume, sms, history>>
    BY <1>1, <1>7 DEF HandleLowBattery
  <2>2. out' \in [led : Leds, buzzer : BOOLEAN]
    BY <1>7 DEF HandleLowBattery, TypeOK
  <2>3. QED
    BY <2>1, <2>2 DEF TypeOK, history
<1>8. CASE HandleContactsUpdated
  <2>1. Kept /\ UNCHANGED <<out, pc, resume, sms, history>>
    BY <1>1, <1>8 DEF HandleContactsUpdated
  <2>2. session' \in Session
    BY <1>2, <1>8 DEF HandleContactsUpdated, TypeOK, Session
  <2>3. QED
    BY <2>1, <2>2 DEF TypeOK, history
<1>9. CASE HandleLogged
  <2>1. Kept /\ UNCHANGED <<session, out, pc, resume, sms, history>>
    BY <1>1, <1>9 DEF HandleLogged
  <2>2. QED
    BY <2>1 DEF TypeOK, history
<1>10. QED
  BY <1>3, <1>4, <1>5, <1>6, <1>7, <1>8, <1>9 DEF HandleEvent

(* Ticking keeps the types.                                                 *)
LEMMA TickType ==
    TypeOK /\ (TickConfirm \/ TickCall \/ TickStop \/ TickPoll \/ TickRecover)
        => TypeOK'
<1> SUFFICES ASSUME TypeOK,
                    TickConfirm \/ TickCall \/ TickStop \/ TickPoll \/ TickRecover
             PROVE  TypeOK'
  OBVIOUS
<1> USE TimingAssumption
<1>1. CASE TickConfirm
  <2>1. UNCHANGED <<queue, table, modem, budget, lost>>
    BY <1>1 DEF TickConfirm
  <2>2. CASE pc' = "call" /\ UNCHANGED <<session, out, resume, sms, history>>
    BY <2>1, <2>2 DEF TypeOK, modem, budget, history, TickParts
  <2>3. CASE /\ Running(session.button_confirm_remaining_ms)
             /\ session' = [session EXCEPT !.button_confirm_remaining_ms =
                              session.button_confirm_remaining_ms - LoopWait]
             /\ pc' = "call" /\ UNCHANGED <<out, resume, sms, history>>
    <3>1. session' \in Session
      BY <2>3, SessionFields, SessionUpdate, Countdown DEF TypeOK
    <3>2. QED
      BY <2>1, <2>3, <3>1 DEF TypeOK, modem, budget, history, TickParts
  <2>4. CASE begin_alert([session EXCEPT !.button_confirm_pending = FALSE,
                                         !.button_confirm_remaining_ms = 0], "call")
    <3>1. [session EXCEPT !.button_confirm_pending = FALSE,
                          !.button_confirm_remaining_ms = 0] \in Session
      BY DEF TypeOK, Session
    <3>2. QED
      BY <2>1, <2>4, <3>1, BeginAlertType DEF TypeOK, modem, budget, TickParts
  <2>5. QED
    BY <1>1, <2>2, <2>3, <2>4 DEF TickConfirm
<1>2. CASE TickCall
  <2> DEFINE stopping == [session EXCEPT !.call_remaining_ms = 0,
                                         !.stop_wait_remaining_ms = CallStopWait,
                                         !.state = "CALL_STOPPING"]
  <2>1. UNCHANGED <<queue, table, modem, sms, budget, history, lost>>
    BY <1>2 DEF TickCall
  <2>2. stopping \in Session
    BY DEF TypeOK, Session, States
  <2>3. feedback_apply_state(out, "CALL_STOPPING") \in [led : Leds, buzzer : BOOLEAN]
    BY FeedbackType DEF TypeOK, States
  <2>4. CASE pc' = "stop" /\ UNCHANGED <<session, out, resume>>
    BY <2>1, <2>4 DEF TypeOK, modem, budget, history, TickParts
  <2>5. CASE /\ Running(session.call_remaining_ms)
             /\ session' = [session EXCEPT !.call_remaining_ms =
                              session.call_remaining_ms - LoopWait]
             /\ pc' = "stop" /\ UNCHANGED <<out, resume>>
    <3>1. session' \in Session
      BY <2>5, SessionFields, SessionUpdate, Countdown DEF TypeOK
    <3>2. QED
      BY <2>1, <2>5, <3>1 DEF TypeOK, modem, budget, history, TickParts
  <2>6. CASE /\ out' = feedback_apply_state(out, "CALL_STOPPING")
             /\ session' = stopping /\ pc' = "stop" /\ UNCHANGED resume
    BY <2>1, <2>2, <2>3, <2>6 DEF TypeOK, modem, budget, history, TickParts
  <2>7. CASE /\ out' = feedback_apply_state(out, "CALL_STOPPING")
             /\ Rotate(stopping, "stop")
    <3>1. /\ session' \in Session /\ pc' \in {"wait", "dial"} \cup TickParts
          /\ resume' \in {"wait"} \cup TickParts
      BY <2>2, <2>7, RotateType DEF TickParts
    <3>2. QED
      BY <2>1, <2>3, <2>7, <3>1 DEF TypeOK, modem, budget, history
  <2>8. QED
    BY <1>2, <2>4, <2>5, <2>6, <2>7 DEF TickCall
<1>3. CASE TickStop
  <2>1. UNCHANGED <<out, queue, table, modem, sms, budget, history, lost>>
    BY <1>3 DEF TickStop
  <2>2. CASE pc' = "poll" /\ UNCHANGED <<session, resume>>
    BY <2>1, <2>2 DEF TypeOK, modem, budget, history, TickParts
  <2>3. CASE /\ Running(session.stop_wait_remaining_ms)
             /\ session' = [session EXCEPT !.stop_wait_remaining_ms =
                              session.stop_wait_remaining_ms - LoopWait]
             /\ pc' = "poll" /\ UNCHANGED resume
    <3>1. session' \in Session
      BY <2>3, SessionFields, SessionUpdate, Countdown DEF TypeOK
    <3>2. QED
      BY <2>1, <2>3, <3>1 DEF TypeOK, modem, budget, history, TickParts
  <2>4. CASE Rotate(session, "poll")
    <3>1. /\ session' \in Session /\ pc' \in {"wait", "dial"} \cup TickParts
          /\ resume' \in {"wait"} \cup TickParts
      BY <2>4, RotateType DEF TickParts, TypeOK
    <3>2. QED
      BY <2>1, <3>1 DEF TypeOK, modem, budget, history
  <2>5. QED
    BY <1>3, <2>2, <2>3, <2>4 DEF TickStop
<1>4. CASE TickPoll
  <2>1. /\ pc' = "recover"
        /\ UNCHANGED <<out, resume, table, modem, sms, budget, history>>
    BY <1>4 DEF TickPoll
  <2>2. session' \in Session
    <3> DEFINE left == session.battery_poll_remaining_ms
    <3>1. left \in Nat /\ BatteryPoll \in Nat
      BY SessionFields DEF TypeOK
    <3>2. CASE Running(left)
      <4>1. session' = [session EXCEPT !.battery_poll_remaining_ms = left - LoopWait]
        BY <1>4, <3>2 DEF TickPoll
      <4>2. left - LoopWait \in Nat
        BY <3>1, <3>2, Countdown
      <4>3. session \in Session
        BY DEF TypeOK
      <4> HIDE DEF left
      <4>4. QED
        BY <4>1, <4>2, <4>3, SessionUpdate
    <3>3. CASE ~Running(left)
      <4>1. session' = [session EXCEPT !.battery_poll_remaining_ms = BatteryPoll]
        BY <1>4, <3>3 DEF TickPoll
      <4>2. session \in Session
        BY DEF TypeOK
      <4>3. QED
        BY <3>1, <4>1, <4>2, SessionUpdate
    <3>4. QED
      BY <3>2, <3>3
  <2>3. /\ queue' \in Seq(Events) /\ Len(queue') <= MsgqDepth
        /\ lost' \in BOOLEAN
    <3>1. CASE UNCHANGED <<queue, lost>>
      BY <3>1 DEF TypeOK
    <3>2. CASE alarm_post_event("LOW_BATTERY")
      BY <3>2, PostType DEF Events
    <3>3. QED
      BY <1>4, <3>1, <3>2 DEF TickPoll
  <2>4. QED
    BY <2>1, <2>2, <2>3 DEF TypeOK, modem, budget, history, TickParts
<1>5. CASE TickRecover
  <2>1. /\ pc' = "wait"
        /\ UNCHANGED <<resume, queue, table, modem, sms, budget, history, lost>>
    BY <1>5 DEF TickRecover
  <2>2. session' \in Session /\ out' \in [led : Leds, buzzer : BOOLEAN]
    <3>1. CASE UNCHANGED <<session, out>>
      BY <3>1 DEF TypeOK
    <3>2. CASE /\ Running(session.failed_recover_remaining_ms)
               /\ session' = [session EXCEPT !.failed_recover_remaining_ms =
                                session.failed_recover_remaining_ms - LoopWait]
               /\ UNCHANGED out
      BY <3>2, SessionFields, SessionUpdate, Countdown DEF TypeOK
    <3>3. CASE set_state([session EXCEPT !.failed_recover_remaining_ms = 0,
                                         !.current_contact_index = 0,
                                         !.total_contacts = 0], "IDLE")
      <4>1. [session EXCEPT !.failed_recover_remaining_ms = 0,
                            !.current_contact_index = 0,
                            !.total_contacts = 0] \in Session
        BY DEF TypeOK, Session
      <4>2. QED
        BY <3>3, <4>1, SetStateType DEF States
    <3>4. QED
      BY <1>5, <3>1, <3>2, <3>3 DEF TickRecover
  <2>3. QED
    BY <2>1, <2>2 DEF TypeOK, modem, budget, history
<1>6. QED
  BY <1>1, <1>2, <1>3, <1>4, <1>5

(* What interrupts, callbacks and the modem do keeps the types.             *)
LEMMA EnvironmentType == TypeOK /\ Environment => TypeOK'
<1> SUFFICES ASSUME TypeOK, Environment PROVE TypeOK'
  OBVIOUS
<1> USE DEF core, modem, budget, history
<1>1. CASE Trigger
  <2>1. /\ UNCHANGED <<core, table, modem, sms, updates, history>>
        /\ triggers' \in Nat
    BY <1>1 DEF Trigger, TypeOK
  <2>2. PICK e \in {"SOS_EDGE", "VOICE_TRIGGER"} : alarm_post_event(e)
    BY <1>1 DEF Trigger
  <2>3. e \in Events
    BY DEF Events
  <2>4. QED
    BY <2>1, <2>2, <2>3, PostType DEF TypeOK
<1>2. CASE PublishContacts
  <2>1. "CONTACTS_UPDATED" \in Events /\ alarm_post_event("CONTACTS_UPDATED")
    BY <1>2 DEF PublishContacts, Events
  <2>2. QED
    BY <1>2, <2>1, PostType DEF PublishContacts, TypeOK
<1>3. CASE SmsReport
  <2>1. "SMS_RESULT" \in Events /\ alarm_post_event("SMS_RESULT")
    BY <1>3 DEF SmsReport, Events
  <2>2. QED
    BY <1>3, <2>1, PostType DEF SmsReport, TypeOK
<1>4. ASSUME NEW e \in Events, NEW a \in CallStatus, NEW b \in {"none"} \cup CallStatus,
             ims_event_cb(e), LineMoves(a, b) \/ HeldMoves(a, b)
      PROVE  TypeOK'
  <2>1. line' \in {"none"} \cup CallStatus /\ held' \in [CallStatus -> Nat]
    BY <1>4, SMTT(30) DEF LineMoves, HeldMoves, TypeOK, CallStatus
  <2>2. alarm_post_event(e) /\ UNCHANGED <<core, table, sms, budget, history>>
    BY <1>4 DEF ims_event_cb
  <2>3. QED
    BY <2>1, <2>2, PostType DEF TypeOK
<1>5. CASE CallRings
  BY <1>4, <1>5 DEF CallRings, Events, CallStatus
<1>6. CASE CallAnswered
  BY <1>4, <1>6 DEF CallAnswered, Events, CallStatus
<1>7. CASE LineReleased
  BY <1>4, <1>7 DEF LineReleased, Events, CallStatus
<1>8. CASE HeldReleased
  BY <1>4, <1>8 DEF HeldReleased, Events, CallStatus
<1>9. QED
  BY <1>1, <1>2, <1>3, <1>5, <1>6, <1>7, <1>8 DEF Environment

(* The initial state is well typed.                                         *)
LEMMA TypeInit == Init => TypeOK
<1> SUFFICES ASSUME Init PROVE TypeOK
  OBVIOUS
<1>1. session \in Session
  BY TimingAssumption DEF Init, Session, States
<1>2. QED
  <2>1. queue \in Seq(Events) /\ Len(queue) <= MsgqDepth
    BY BoundsAssumption DEF Init
  <2>2. roster \in Seq(Contacts) /\ dialled \in Seq(Contacts)
    BY DEF Init
  <2>3. out \in [led : Leds, buzzer : BOOLEAN]
    BY DEF Init, Leds
  <2>4. line \in {"none"} \cup CallStatus /\ held \in [CallStatus -> Nat]
    BY DEF Init
  <2>5. QED
    BY <1>1, <2>1, <2>2, <2>3, <2>4 DEF Init, TypeOK

(* Every reachable state of AlarmCore is well typed, for every table, queue *)
(* depth and duration the assumptions allow.                                *)
THEOREM TypeCorrect == Spec => []TypeOK
<1>1. TypeOK /\ [Next]_vars => TypeOK'
  <2> SUFFICES ASSUME TypeOK, [Next]_vars PROVE TypeOK'
    OBVIOUS
  <2>1. CASE Task
    BY <2>1, HandleEventType, StartNextCallType, TickType DEF Task
  <2>2. CASE Environment
    BY <2>2, EnvironmentType
  <2>3. CASE UNCHANGED vars
    BY <2>3 DEF vars, TypeOK
  <2>4. QED
    BY <2>1, <2>2, <2>3 DEF Next
<1>2. QED
  BY TypeInit, <1>1, PTL DEF Spec

-----------------------------------------------------------------------------
(* Flags and countdowns                                                     *)

(* start_next_call runs only inside an alert nobody has answered yet.       *)
DialsInAlert ==
    pc = "dial" => /\ session.active /\ ~session.call_connected
                   /\ session.state \in Alerting

(* The inductive invariant: TimersArmed needs FlagsMatchState to know that  *)
(* a countdown it relies on is not cancelled, and both need DialsInAlert    *)
(* for the steps start_next_call takes on behalf of another handler.        *)
SessionInv == TypeOK /\ FlagsMatchState /\ TimersArmed /\ DialsInAlert

(* A refused trigger changes nothing; an accepted one is due to dial.       *)
LEMMA BeginAlertInv ==
    ASSUME SessionInv, NEW ses \in Session, NEW then \in {"wait", "call"},
           begin_alert(ses, then),
           ses.state = session.state, ses.active = session.active,
           ses.active => ses = session, pc # "dial"
    PROVE  FlagsMatchState' /\ TimersArmed' /\ DialsInAlert'
<1>1. CASE ses.active
  BY <1>1 DEF SessionInv, begin_alert, FlagsMatchState, TimersArmed, DialsInAlert
<1>2. CASE ~ses.active
  <2>1. /\ session'.state = "ALERT_PENDING" /\ session'.active
        /\ ~session'.call_connected /\ ~session'.button_confirm_pending
        /\ pc' = "dial"
    BY <1>2 DEF begin_alert, set_state, Session
  <2>2. QED
    BY <2>1 DEF FlagsMatchState, TimersArmed, DialsInAlert, Alerting
<1>3. QED
  BY <1>1, <1>2

(* Moving on to the next contact is due to dial.                            *)
LEMMA RotateInv ==
    ASSUME SessionInv, NEW ses \in Session, NEW then, Rotate(ses, then),
           ses.active, ~ses.call_connected, ~ses.button_confirm_pending,
           ses.state \in Alerting
    PROVE  FlagsMatchState' /\ TimersArmed' /\ DialsInAlert'
<1>1. /\ session'.state = ses.state /\ session'.active = ses.active
      /\ session'.call_connected = ses.call_connected
      /\ session'.button_confirm_pending = ses.button_confirm_pending
      /\ pc' = "dial"
  BY DEF Rotate, Session
<1>2. QED
  BY <1>1 DEF FlagsMatchState, TimersArmed, DialsInAlert, Alerting

(* A try arms the call countdown, or fails and arms the recovery.           *)
LEMMA StartNextCallInv ==
    SessionInv /\ start_next_call => FlagsMatchState' /\ TimersArmed' /\ DialsInAlert'
<1> SUFFICES ASSUME SessionInv, start_next_call
             PROVE  FlagsMatchState' /\ TimersArmed' /\ DialsInAlert'
  OBVIOUS
<1> USE DEF SessionInv
<1> DEFINE idx == session.current_contact_index
<1>1. /\ Len(table) \in Nat /\ idx \in Nat /\ pc = "dial"
      /\ session.active /\ ~session.call_connected
      /\ ~session.button_confirm_pending
  BY ContactsAssumption, SessionFields
     DEF TypeOK, start_next_call, DialsInAlert, FlagsMatchState
<1>2. CASE idx >= Len(table)
  <2>1. /\ session'.state = "FAILED" /\ ~session'.active
        /\ ~session'.call_connected /\ ~session'.button_confirm_pending
        /\ session'.failed_recover_remaining_ms = FailedRecover
    <3> DEFINE ses == [session EXCEPT !.total_contacts = Len(table)]
    <3>1. fail_session(ses)
      BY <1>1, <1>2 DEF start_next_call
    <3>2. ses \in Session
      BY <1>1 DEF TypeOK, Session
    <3> HIDE DEF ses
    <3>3. QED
      BY <3>1, <3>2 DEF fail_session, set_state, Session
  <2>2. pc' = resume /\ resume # "dial"
    BY <1>1, <1>2 DEF start_next_call, TypeOK, TickParts
  <2>3. QED
    BY <2>1, <2>2, TimingAssumption
       DEF FlagsMatchState, TimersArmed, DialsInAlert, Alerting
<1>3. CASE idx < Len(table)
  <2> DEFINE ses == [session EXCEPT !.total_contacts = Len(table)]
             next == [ses EXCEPT !.current_contact_index = @ + 1]
             call == [ses EXCEPT !.call_remaining_ms = CallTimeout,
                                 !.stop_wait_remaining_ms = 0]
  <2>1. /\ ses \in Session /\ ses.active = session.active
        /\ ses.call_connected = session.call_connected
        /\ ses.button_confirm_pending = session.button_confirm_pending
        /\ ses.current_contact_index = idx /\ ses.total_contacts = Len(table)
    BY <1>1 DEF TypeOK, Session
  <2>2. \/ set_state(next, "CALLING") /\ pc' = "dial"
        \/ set_state(call, "CALLING")
    BY <1>1, <1>3 DEF start_next_call
  <2> HIDE DEF ses
  <2>3. CASE set_state(next, "CALLING") /\ pc' = "dial"
    <3>1. /\ session'.state = "CALLING" /\ session'.active
          /\ ~session'.call_connected /\ ~session'.button_confirm_pending
      BY <1>1, <2>1, <2>3 DEF set_state, Session
    <3>2. QED
      BY <2>3, <3>1 DEF FlagsMatchState, TimersArmed, DialsInAlert, Alerting
  <2>4. CASE set_state(call, "CALLING")
    <3>1. /\ session'.state = "CALLING" /\ session'.active
          /\ ~session'.call_connected /\ ~session'.button_confirm_pending
          /\ session'.call_remaining_ms = CallTimeout
          /\ session'.current_contact_index = idx
          /\ session'.total_contacts = Len(table)
      BY <1>1, <2>1, <2>4 DEF set_state, Session
    <3>2. QED
      BY <1>3, <3>1, TimingAssumption
         DEF FlagsMatchState, TimersArmed, DialsInAlert, Alerting
  <2>5. QED
    BY <2>2, <2>3, <2>4
<1>4. QED
  BY <1>1, <1>2, <1>3

(* No event, however late it is handled, breaks the session.                *)
LEMMA HandleEventInv ==
    SessionInv /\ HandleEvent => FlagsMatchState' /\ TimersArmed' /\ DialsInAlert'
<1> SUFFICES ASSUME SessionInv, HandleEvent
             PROVE  FlagsMatchState' /\ TimersArmed' /\ DialsInAlert'
  OBVIOUS
<1> USE DEF SessionInv
<1>1. session \in Session /\ pc = "wait"
  BY DEF TypeOK, HandleEvent, HandleVoiceTrigger, HandleSosEdge, HandleConnected,
         HandleDisconnected, HandleLowBattery, HandleContactsUpdated, HandleLogged,
         Receive
<1>2. CASE HandleVoiceTrigger
  BY <1>1, <1>2, BeginAlertInv DEF HandleVoiceTrigger
<1>3. CASE HandleSosEdge
  <2>1. CASE session.active \/ session.button_confirm_pending
    BY <1>1, <1>3, <2>1
       DEF HandleSosEdge, FlagsMatchState, TimersArmed, DialsInAlert
  <2>2. CASE ~(session.active \/ session.button_confirm_pending)
    <3>1. /\ session'.state = "TRIGGER_CONFIRM" /\ ~session'.active
          /\ session'.button_confirm_pending
          /\ session'.call_connected = session.call_connected
          /\ session'.button_confirm_remaining_ms = ButtonConfirm
          /\ pc' = "wait"
      BY <1>1, <1>3, <2>2 DEF HandleSosEdge, set_state, Session
    <3>2. QED
      BY <2>2, <3>1, TimingAssumption
         DEF FlagsMatchState, TimersArmed, DialsInAlert, Alerting
  <2>3. QED
    BY <2>1, <2>2
<1>4. CASE HandleConnected
  <2>1. CASE ~session.active
    BY <1>1, <1>4, <2>1
       DEF HandleConnected, FlagsMatchState, TimersArmed, DialsInAlert
  <2>2. CASE session.active
    <3>1. /\ session'.state = "CONNECTED" /\ session'.active
          /\ session'.call_connected
          /\ session'.button_confirm_pending = session.button_confirm_pending
          /\ session'.current_contact_index = session.current_contact_index
          /\ session'.total_contacts = session.total_contacts
          /\ pc' = "wait"
      BY <1>1, <1>4, <2>2 DEF HandleConnected, set_state, Session
    <3>2. QED
      BY <1>1, <2>2, <3>1
         DEF FlagsMatchState, TimersArmed, DialsInAlert, Alerting
  <2>3. QED
    BY <2>1, <2>2
<1>5. CASE HandleDisconnected
  <2>1. CASE ~session.active
    <3>1. /\ session'.state = "IDLE" /\ ~session'.active
          /\ session'.call_connected = session.call_connected
          /\ session'.button_confirm_pending = session.button_confirm_pending
          /\ session'.button_confirm_remaining_ms = session.button_confirm_remaining_ms
          /\ pc' = "wait"
      BY <1>1, <1>5, <2>1 DEF HandleDisconnected, set_state, Session
    <3>2. QED
      BY <1>1, <2>1, <3>1
         DEF FlagsMatchState, TimersArmed, DialsInAlert, Alerting
  <2>2. CASE session.active /\ session.call_connected
    <3>1. /\ session'.state = "IDLE" /\ ~session'.active
          /\ ~session'.call_connected
          /\ session'.button_confirm_pending = session.button_confirm_pending
          /\ pc' = "wait"
      BY <1>1, <1>5, <2>2 DEF HandleDisconnected, set_state, Session
    <3>2. QED
      BY <1>1, <2>2, <3>1
         DEF FlagsMatchState, TimersArmed, DialsInAlert, Alerting
  <2>3. CASE session.active /\ ~session.call_connected
    <3>1. Rotate(session, "wait")
      BY <1>5, <2>3 DEF HandleDisconnected
    <3>2. session.state \in Alerting /\ ~session.button_confirm_pending
      BY <2>3 DEF FlagsMatchState
    <3>3. QED
      BY <1>1, <2>3, <3>1, <3>2, RotateInv
  <2>4. QED
    BY <2>1, <2>2, <2>3
<1>6. CASE HandleContactsUpdated
  <2>1. /\ session'.state = session.state /\ session'.active = session.active
        /\ session'.call_connected = session.call_connected
        /\ session'.button_confirm_pending = session.button_confirm_pending
        /\ session'.button_confirm_remaining_ms = session.button_confirm_remaining_ms
        /\ session'.call_remaining_ms = session.call_remaining_ms
        /\ session'.stop_wait_remaining_ms = session.stop_wait_remaining_ms
        /\ session'.failed_recover_remaining_ms = session.failed_recover_remaining_ms
        /\ session.active => session' = session
        /\ pc' = pc
    BY <1>1, <1>6 DEF HandleContactsUpdated, Session
  <2>2. QED
    BY <1>1, <2>1 DEF FlagsMatchState, TimersArmed, DialsInAlert
<1>7. CASE HandleLowBattery \/ HandleLogged
  BY <1>1, <1>7 DEF HandleLowBattery, HandleLogged, FlagsMatchState, TimersArmed,
                    DialsInAlert
<1>8. QED
  BY <1>2, <1>3, <1>4, <1>5, <1>6, <1>7 DEF HandleEvent

(* The end of the confirm window starts an alert.                           *)
LEMMA TickConfirmInv ==
    SessionInv /\ TickConfirm => FlagsMatchState' /\ TimersArmed' /\ DialsInAlert'
<1> SUFFICES ASSUME SessionInv, TickConfirm
             PROVE  FlagsMatchState' /\ TimersArmed' /\ DialsInAlert'
  OBVIOUS
<1> USE DEF SessionInv
<1> DEFINE left == session.button_confirm_remaining_ms
<1>1. session \in Session /\ pc = "wait" /\ left \in Nat
  BY SessionFields DEF TypeOK, TickConfirm
<1>2. CASE ~session.button_confirm_pending
  BY <1>1, <1>2 DEF TickConfirm, FlagsMatchState, TimersArmed, DialsInAlert, history
<1>3. CASE session.button_confirm_pending /\ Running(left)
  <2>1. /\ session' = [session EXCEPT !.button_confirm_remaining_ms = left - LoopWait]
        /\ pc' = "call"
    BY <1>3 DEF TickConfirm
  <2>2. left - LoopWait > 0
    BY <1>1, <1>3, Countdown
  <2>3. QED
    BY <1>1, <1>3, <2>1, <2>2
       DEF FlagsMatchState, TimersArmed, DialsInAlert, Session
<1>4. CASE session.button_confirm_pending /\ ~Running(left)
  <2> DEFINE ses == [session EXCEPT !.button_confirm_pending = FALSE,
                                    !.button_confirm_remaining_ms = 0]
  <2>1. begin_alert(ses, "call")
    BY <1>4 DEF TickConfirm
  <2>2. /\ ses \in Session /\ ses.state = session.state
        /\ ses.active = session.active /\ ~session.active
    BY <1>1, <1>4 DEF Session, FlagsMatchState
  <2>3. QED
    BY <1>1, <2>1, <2>2, BeginAlertInv
<1>5. QED
  BY <1>2, <1>3, <1>4

(* The end of the call countdown arms the stop countdown, or moves on.      *)
LEMMA TickCallInv ==
    SessionInv /\ TickCall => FlagsMatchState' /\ TimersArmed' /\ DialsInAlert'
<1> SUFFICES ASSUME SessionInv, TickCall
             PROVE  FlagsMatchState' /\ TimersArmed' /\ DialsInAlert'
  OBVIOUS
<1> USE DEF SessionInv
<1> DEFINE left == session.call_remaining_ms
           stopping == [session EXCEPT !.call_remaining_ms = 0,
                                       !.stop_wait_remaining_ms = CallStopWait,
                                       !.state = "CALL_STOPPING"]
<1>1. session \in Session /\ pc = "call" /\ left \in Nat
  BY SessionFields DEF TypeOK, TickCall
<1>2. CASE ~Dialling
  BY <1>1, <1>2 DEF TickCall, FlagsMatchState, TimersArmed, DialsInAlert
<1>3. CASE Dialling /\ Running(left)
  <2>1. session' = [session EXCEPT !.call_remaining_ms = left - LoopWait] /\ pc' = "stop"
    BY <1>3 DEF TickCall
  <2>2. left - LoopWait > 0
    BY <1>1, <1>3, Countdown
  <2>3. QED
    BY <1>1, <1>3, <2>1, <2>2
       DEF FlagsMatchState, TimersArmed, DialsInAlert, Session
<1>4. CASE Dialling /\ ~Running(left)
  <2>1. /\ stopping \in Session /\ stopping.state = "CALL_STOPPING"
        /\ stopping.active /\ ~stopping.call_connected
        /\ ~stopping.button_confirm_pending
        /\ stopping.stop_wait_remaining_ms = CallStopWait
        /\ stopping.current_contact_index = session.current_contact_index
        /\ stopping.total_contacts = session.total_contacts
    BY <1>1, <1>4, TimingAssumption
       DEF Session, States, Dialling, FlagsMatchState
  <2>2. \/ session' = stopping /\ pc' = "stop"
        \/ Rotate(stopping, "stop")
    BY <1>4 DEF TickCall
  <2> HIDE DEF stopping
  <2>3. CASE session' = stopping /\ pc' = "stop"
    BY <1>1, <1>4, <2>1, <2>3, TimingAssumption
       DEF FlagsMatchState, TimersArmed, DialsInAlert, Dialling, Alerting
  <2>4. CASE Rotate(stopping, "stop")
    BY <2>1, <2>4, RotateInv DEF Alerting
  <2>5. QED
    BY <2>2, <2>3, <2>4
<1>5. QED
  BY <1>2, <1>3, <1>4

(* The end of the stop countdown moves on.                                  *)
LEMMA TickStopInv ==
    SessionInv /\ TickStop => FlagsMatchState' /\ TimersArmed' /\ DialsInAlert'
<1> SUFFICES ASSUME SessionInv, TickStop
             PROVE  FlagsMatchState' /\ TimersArmed' /\ DialsInAlert'
  OBVIOUS
<1> USE DEF SessionInv
<1> DEFINE left == session.stop_wait_remaining_ms
<1>1. session \in Session /\ pc = "stop" /\ left \in Nat
  BY SessionFields DEF TypeOK, TickStop
<1>2. CASE ~AwaitingStop
  BY <1>1, <1>2 DEF TickStop, FlagsMatchState, TimersArmed, DialsInAlert
<1>3. CASE AwaitingStop /\ Running(left)
  <2>1. session' = [session EXCEPT !.stop_wait_remaining_ms = left - LoopWait] /\ pc' = "poll"
    BY <1>3 DEF TickStop
  <2>2. left - LoopWait > 0
    BY <1>1, <1>3, Countdown
  <2>3. QED
    BY <1>1, <1>3, <2>1, <2>2
       DEF FlagsMatchState, TimersArmed, DialsInAlert, Session
<1>4. CASE AwaitingStop /\ ~Running(left)
  <2>1. Rotate(session, "poll")
    BY <1>4 DEF TickStop
  <2>2. /\ session.active /\ ~session.call_connected
        /\ ~session.button_confirm_pending /\ session.state \in Alerting
    BY <1>4 DEF AwaitingStop, FlagsMatchState, Alerting
  <2>3. QED
    BY <1>1, <2>1, <2>2, RotateInv
<1>5. QED
  BY <1>2, <1>3, <1>4

(* The last two parts of a tick touch no flag, and of the countdowns the    *)
(* others rely on only the one of the failed state.                         *)
LEMMA TickPollInv ==
    SessionInv /\ TickPoll => FlagsMatchState' /\ TimersArmed' /\ DialsInAlert'
<1> SUFFICES ASSUME SessionInv, TickPoll
             PROVE  FlagsMatchState' /\ TimersArmed' /\ DialsInAlert'
  OBVIOUS
<1>1. session \in Session /\ pc = "poll" /\ pc' = "recover"
  BY DEF SessionInv, TypeOK, TickPoll
<1>2. PICK n : session' = [session EXCEPT !.battery_poll_remaining_ms = n]
  BY DEF TickPoll
<1>3. QED
  BY <1>1, <1>2 DEF SessionInv, FlagsMatchState, TimersArmed, DialsInAlert, Session

(* The end of the failure countdown leaves FAILED.                          *)
LEMMA TickRecoverInv ==
    SessionInv /\ TickRecover => FlagsMatchState' /\ TimersArmed' /\ DialsInAlert'
<1> SUFFICES ASSUME SessionInv, TickRecover
             PROVE  FlagsMatchState' /\ TimersArmed' /\ DialsInAlert'
  OBVIOUS
<1> USE DEF SessionInv
<1> DEFINE left == session.failed_recover_remaining_ms
<1>1. session \in Session /\ pc = "recover" /\ pc' = "wait" /\ left \in Nat
  BY SessionFields DEF TypeOK, TickRecover
<1>2. CASE ~Recovering
  BY <1>1, <1>2 DEF TickRecover, FlagsMatchState, TimersArmed, DialsInAlert
<1>3. CASE Recovering /\ Running(left)
  <2>1. session' = [session EXCEPT !.failed_recover_remaining_ms = left - LoopWait]
    BY <1>3 DEF TickRecover
  <2>2. left - LoopWait > 0
    BY <1>1, <1>3, Countdown
  <2>3. QED
    BY <1>1, <2>1, <2>2 DEF FlagsMatchState, TimersArmed, DialsInAlert, Session
<1>4. CASE Recovering /\ ~Running(left)
  <2>1. /\ session'.state = "IDLE"
        /\ session'.active = session.active
        /\ session'.call_connected = session.call_connected
        /\ session'.button_confirm_pending = session.button_confirm_pending
        /\ session'.button_confirm_remaining_ms = session.button_confirm_remaining_ms
    BY <1>1, <1>4 DEF TickRecover, set_state, Session
  <2>2. ~session.active /\ ~session.call_connected
    BY <1>4 DEF Recovering, FlagsMatchState, Alerting
  <2>3. QED
    BY <1>1, <2>1, <2>2 DEF FlagsMatchState, TimersArmed, DialsInAlert, Alerting
<1>5. QED
  BY <1>2, <1>3, <1>4

(* Every step keeps the inductive invariant.                                *)
LEMMA SessionInvInductive == SessionInv /\ [Next]_vars => SessionInv'
<1> SUFFICES ASSUME SessionInv, [Next]_vars PROVE SessionInv'
  OBVIOUS
<1>1. TypeOK'
  BY HandleEventType, StartNextCallType, TickType, EnvironmentType
     DEF SessionInv, Next, Task, vars, TypeOK
<1>2. CASE Task
  BY <1>1, <1>2, HandleEventInv, StartNextCallInv, TickConfirmInv, TickCallInv,
     TickStopInv, TickPollInv, TickRecoverInv DEF SessionInv, Task
<1>3. CASE Environment \/ UNCHANGED vars
  <2>1. session' = session /\ pc' = pc
    BY <1>3 DEF Environment, Trigger, PublishContacts, SmsReport, CallRings,
                CallAnswered, LineReleased, HeldReleased, ims_event_cb, core, vars
  <2>2. QED
    BY <1>1, <2>1 DEF SessionInv, FlagsMatchState, TimersArmed, DialsInAlert
<1>4. QED
  BY <1>2, <1>3 DEF Next

(* alarm_core_init establishes it.                                          *)
LEMMA SessionInvInit == Init => SessionInv
<1> SUFFICES ASSUME Init PROVE SessionInv
  OBVIOUS
<1>1. TypeOK
  BY TypeInit
<1>2. FlagsMatchState /\ TimersArmed /\ DialsInAlert
  BY DEF Init, FlagsMatchState, TimersArmed, DialsInAlert, Alerting
<1>3. QED
  BY <1>1, <1>2 DEF SessionInv

(* In every reachable state the flags of the session agree with its state,  *)
(* and every state that waits has its countdown armed: no late, lost or     *)
(* repeated report of the modem leaves the session in a state it cannot     *)
(* leave by itself, except a conversation.                                  *)
THEOREM SessionKeepsConsistent == Spec => []SessionConsistent
<1>1. SessionInv => SessionConsistent
  BY DEF SessionInv, SessionConsistent
<1>2. QED
  BY <1>1, SessionInvInit, SessionInvInductive, PTL DEF Spec

-----------------------------------------------------------------------------
(* What the LED and the buzzer show                                         *)

(* The feedback is a function of the state alone, except for the buzzer of  *)
(* IDLE and CONNECTED, which a low battery may sound, and for               *)
(* TRIGGER_CONFIRM, which shows whatever it follows.                        *)
ShowsState ==
    /\ session.state \in Alerting => out = [led |-> "FAST", buzzer |-> TRUE]
    /\ session.state = "IDLE" => out.led = "BREATH"
    /\ session.state = "FAILED" => out = [led |-> "OFF", buzzer |-> TRUE]

(* A set state is shown, whatever was shown before.                         *)
LEMMA SetStateShows ==
    ASSUME ShowsState, NEW ses \in Session, NEW st \in States, set_state(ses, st)
    PROVE  ShowsState'
<1>1. session'.state = st
  BY DEF set_state, Session
<1>2. CASE st = session.state
  BY <1>1, <1>2 DEF set_state, ShowsState
<1>3. CASE st # session.state
  <2>1. out' = feedback_apply_state(out, st)
    BY <1>3 DEF set_state
  <2>2. QED
    BY <1>1, <2>1 DEF feedback_apply_state, ShowsState, Alerting
<1>4. QED
  BY <1>2, <1>3

(* A state that is kept goes on being shown, also with a low battery.       *)
LEMMA SameStateShows ==
    ASSUME ShowsState, out \in [led : Leds, buzzer : BOOLEAN],
           session'.state = session.state,
           out' = out \/ out' = [out EXCEPT !.buzzer = TRUE]
    PROVE  ShowsState'
BY DEF ShowsState

(* Starting an alert is shown; a refused start shows nothing new.           *)
LEMMA BeginAlertShows ==
    ASSUME TypeOK, ShowsState, NEW ses \in Session, NEW then, begin_alert(ses, then),
           ses.state = session.state
    PROVE  ShowsState'
<1>1. CASE ses.active
  BY <1>1, SameStateShows DEF begin_alert, TypeOK
<1>2. CASE ~ses.active
  <2> DEFINE new == [ses EXCEPT !.active = TRUE, !.call_connected = FALSE,
                                !.button_confirm_pending = FALSE,
                                !.current_contact_index = 0,
                                !.total_contacts = Len(table),
                                !.call_remaining_ms = 0,
                                !.stop_wait_remaining_ms = 0]
  <2>1. Len(table) \in Nat
    BY ContactsAssumption DEF TypeOK
  <2>2. new \in Session
    BY <2>1 DEF Session
  <2>3. set_state(new, "ALERT_PENDING")
    BY <1>2 DEF begin_alert
  <2>4. QED
    BY <2>2, <2>3, SetStateShows DEF States
<1>3. QED
  BY <1>1, <1>2

(* A try of start_next_call shows CALLING or FAILED.                        *)
LEMMA StartNextCallShows ==
    ASSUME TypeOK, ShowsState, start_next_call
    PROVE  ShowsState'
<1> DEFINE idx == session.current_contact_index
           ses == [session EXCEPT !.total_contacts = Len(table)]
           failed == [ses EXCEPT !.active = FALSE, !.call_connected = FALSE,
                                 !.button_confirm_pending = FALSE,
                                 !.call_remaining_ms = 0,
                                 !.stop_wait_remaining_ms = 0,
                                 !.failed_recover_remaining_ms = FailedRecover]
           next == [ses EXCEPT !.current_contact_index = @ + 1]
           call == [ses EXCEPT !.call_remaining_ms = CallTimeout,
                               !.stop_wait_remaining_ms = 0]
<1>1. ses \in Session
  <2>1. Len(table) \in Nat /\ session \in Session
    BY ContactsAssumption DEF TypeOK
  <2>2. QED
    BY <2>1, SessionUpdate
<1>2. \/ set_state(failed, "FAILED")
      \/ set_state(next, "CALLING")
      \/ set_state(call, "CALLING")
  BY DEF start_next_call, fail_session
<1>3. failed \in Session /\ call \in Session
  <2> HIDE DEF ses
  <2>1. QED
    BY <1>1, TimingAssumption DEF Session
<1>4. next \in Session
  <2> HIDE DEF ses
  <2>1. ses.current_contact_index + 1 \in Nat
    BY <1>1, SessionFields
  <2>2. QED
    BY <1>1, <2>1, SessionUpdate
<1>5. QED
  BY <1>2, <1>3, <1>4, SetStateShows DEF States

(* No event leaves the LED behind the state.                                *)
LEMMA HandleEventShows ==
    ASSUME TypeOK, ShowsState, HandleEvent
    PROVE  ShowsState'
<1>1. session \in Session /\ out \in [led : Leds, buzzer : BOOLEAN]
  BY DEF TypeOK
<1>2. CASE HandleVoiceTrigger
  BY <1>1, <1>2, BeginAlertShows DEF HandleVoiceTrigger
<1>3. CASE HandleSosEdge
  <2>1. [session EXCEPT !.button_confirm_pending = TRUE,
                        !.button_confirm_remaining_ms = ButtonConfirm] \in Session
    BY <1>1, TimingAssumption DEF Session
  <2>2. QED
    BY <1>1, <1>3, <2>1, SetStateShows, SameStateShows DEF HandleSosEdge, States
<1>4. CASE HandleConnected
  <2>1. [session EXCEPT !.call_connected = TRUE, !.call_remaining_ms = 0,
                        !.stop_wait_remaining_ms = 0] \in Session
    BY <1>1 DEF Session
  <2>2. QED
    BY <1>1, <1>4, <2>1, SetStateShows, SameStateShows DEF HandleConnected, States
<1>5. CASE HandleDisconnected
  <2>1. [session EXCEPT !.active = FALSE, !.call_connected = FALSE] \in Session
    BY <1>1 DEF Session
  <2>2. CASE Rotate(session, "wait") /\ UNCHANGED out
    <3>1. session'.state = session.state
      BY <1>1, <2>2 DEF Rotate, Session
    <3>2. QED
      BY <1>1, <2>2, <3>1, SameStateShows
  <2>3. QED
    BY <1>1, <1>5, <2>1, <2>2, SetStateShows DEF HandleDisconnected, States
<1>6. CASE HandleContactsUpdated
  <2>1. session'.state = session.state /\ out' = out
    BY <1>1, <1>6 DEF HandleContactsUpdated, Session
  <2>2. QED
    BY <1>1, <2>1, SameStateShows
<1>7. CASE HandleLowBattery \/ HandleLogged
  BY <1>1, <1>7, SameStateShows DEF HandleLowBattery, HandleLogged
<1>8. QED
  BY <1>2, <1>3, <1>4, <1>5, <1>6, <1>7 DEF HandleEvent

(* Nor does a tick.                                                         *)
LEMMA TickShows ==
    ASSUME TypeOK, ShowsState,
           TickConfirm \/ TickCall \/ TickStop \/ TickPoll \/ TickRecover
    PROVE  ShowsState'
<1>1. session \in Session /\ out \in [led : Leds, buzzer : BOOLEAN]
  BY DEF TypeOK
<1>2. CASE TickConfirm
  <2> DEFINE ses == [session EXCEPT !.button_confirm_pending = FALSE,
                                    !.button_confirm_remaining_ms = 0]
  <2>1. \/ session'.state = session.state /\ out' = out
        \/ begin_alert(ses, "call")
    BY <1>1, <1>2 DEF TickConfirm, Session
  <2>2. ses \in Session /\ ses.state = session.state
    BY <1>1 DEF Session
  <2>3. QED
    BY <1>1, <2>1, <2>2, SameStateShows, BeginAlertShows
<1>3. CASE TickCall
  <2>1. \/ session'.state = session.state /\ out' = out
        \/ /\ session'.state = "CALL_STOPPING"
           /\ out' = feedback_apply_state(out, "CALL_STOPPING")
    BY <1>1, <1>3 DEF TickCall, Rotate, Session
  <2>2. CASE /\ session'.state = "CALL_STOPPING"
             /\ out' = feedback_apply_state(out, "CALL_STOPPING")
    BY <2>2 DEF ShowsState, feedback_apply_state
  <2>3. QED
    BY <1>1, <2>1, <2>2, SameStateShows
<1>4. CASE TickStop
  <2>1. session'.state = session.state /\ out' = out
    BY <1>1, <1>4 DEF TickStop, Rotate, Session
  <2>2. QED
    BY <1>1, <2>1, SameStateShows
<1>5. CASE TickPoll
  <2>1. session'.state = session.state /\ out' = out
    BY <1>1, <1>5 DEF TickPoll, Session
  <2>2. QED
    BY <1>1, <2>1, SameStateShows
<1>6. CASE TickRecover
  <2> DEFINE ses == [session EXCEPT !.failed_recover_remaining_ms = 0,
                                    !.current_contact_index = 0,
                                    !.total_contacts = 0]
  <2>1. ses \in Session
    BY <1>1 DEF Session
  <2>2. \/ session'.state = session.state /\ out' = out
        \/ set_state(ses, "IDLE")
    BY <1>1, <1>6 DEF TickRecover, Session
  <2>3. QED
    BY <1>1, <2>1, <2>2, SameStateShows, SetStateShows DEF States
<1>7. QED
  BY <1>2, <1>3, <1>4, <1>5, <1>6

(* In every reachable state the LED and the buzzer show the state: however  *)
(* an alert goes on it is seen and heard until it is answered, and a failed *)
(* one stays loud with its LED off.                                         *)
THEOREM IndicatorsFollowState == Spec => []IndicatorsShowAlert
<1>1. Init => ShowsState
  BY DEF Init, ShowsState, Alerting
<1>2. TypeOK /\ ShowsState /\ [Next]_vars => ShowsState'
  <2> SUFFICES ASSUME TypeOK, ShowsState, [Next]_vars PROVE ShowsState'
    OBVIOUS
  <2>1. CASE Task
    BY <2>1, HandleEventShows, StartNextCallShows, TickShows DEF Task
  <2>2. CASE Environment \/ UNCHANGED vars
    <3>1. session' = session /\ out' = out
      BY <2>2 DEF Environment, Trigger, PublishContacts, SmsReport, CallRings,
                  CallAnswered, LineReleased, HeldReleased, ims_event_cb, core, vars
    <3>2. QED
      BY <3>1 DEF ShowsState
  <2>3. QED
    BY <2>1, <2>2 DEF Next
<1>3. SessionInv /\ ShowsState => IndicatorsShowAlert
  BY DEF SessionInv, FlagsMatchState, ShowsState, IndicatorsShowAlert, Alerting
<1>4. SessionInv => TypeOK
  BY DEF SessionInv
<1>5. QED
  BY <1>1, <1>2, <1>3, <1>4, SessionInvInit, SessionInvInductive, PTL DEF Spec

-----------------------------------------------------------------------------
(* The contacts that are called                                             *)

(* What RotationFollowsRoster rests on: the table of a running alert is the *)
(* one it started with.                                                     *)
FollowsRoster == RotationFollowsRoster /\ (session.active => roster = table)

(* The inductive invariant: SessionInv says when a try can be due and that  *)
(* no alert runs in FAILED.                                                 *)
RosterInv == SessionInv /\ (updates = 0 => FollowsRoster)

(* A step that tries nobody, starts no alert, does not move the index of a  *)
(* running alert and fails none is not noticed.                             *)
LEMMA RosterUnseen ==
    ASSUME FollowsRoster, UNCHANGED <<history, table>>,
           session'.active => /\ session.active
                              /\ session'.current_contact_index
                                     = session.current_contact_index
                              /\ pc # "dial" /\ pc' # "dial",
           session'.state = "FAILED" => session.state = "FAILED"
    PROVE  FollowsRoster'
BY DEF FollowsRoster, RotationFollowsRoster, history

(* A new alert has called nobody.                                           *)
LEMMA BeginAlertRoster ==
    ASSUME SessionInv, FollowsRoster, NEW ses \in Session, NEW then,
           begin_alert(ses, then), then # "dial", pc # "dial", table' = table,
           ses.state = session.state, ses.active = session.active,
           ses.active => ses = session
    PROVE  FollowsRoster'
<1>1. CASE ses.active
  BY <1>1, RosterUnseen DEF begin_alert
<1>2. CASE ~ses.active
  <2>1. /\ roster' = table /\ dialled' = <<>> /\ pc' = "dial"
        /\ session'.state = "ALERT_PENDING"
        /\ session'.current_contact_index = 0
    BY <1>2 DEF begin_alert, set_state, Session
  <2>2. Len(<<>>) = 0 /\ Len(table) \in Nat
    BY ContactsAssumption DEF SessionInv, TypeOK
  <2>3. QED
    BY <2>1, <2>2 DEF FollowsRoster, RotationFollowsRoster
<1>3. QED
  BY <1>1, <1>2

(* Going on to the next contact leaves the tried ones one behind the index. *)
LEMMA RotateRoster ==
    ASSUME FollowsRoster, NEW ses \in Session, NEW then, Rotate(ses, then),
           pc # "dial", UNCHANGED <<history, table>>,
           session.active, ses.state # "FAILED",
           ses.current_contact_index = session.current_contact_index
    PROVE  FollowsRoster'
<1>1. /\ session'.state = ses.state /\ pc' = "dial"
      /\ session'.current_contact_index = session.current_contact_index + 1
  BY DEF Rotate, Session
<1>2. Len(dialled) = session.current_contact_index + 1
  BY DEF FollowsRoster, RotationFollowsRoster
<1>3. QED
  BY <1>1, <1>2 DEF FollowsRoster, RotationFollowsRoster, history

(* A try calls the contact the index names in the table the SMS went to,    *)
(* and the session fails when that table has no such contact.               *)
LEMMA StartNextCallRoster ==
    ASSUME SessionInv, FollowsRoster, start_next_call
    PROVE  FollowsRoster'
<1> DEFINE idx == session.current_contact_index
           ses == [session EXCEPT !.total_contacts = Len(table)]
<1>1. /\ table \in Seq(Contacts) /\ Len(table) \in Nat /\ idx \in Nat /\ pc = "dial"
      /\ dialled \in Seq(Contacts) /\ resume # "dial"
      /\ session \in Session /\ session.active
      /\ table' = table /\ roster' = roster
  BY ContactsAssumption, SessionFields
     DEF SessionInv, TypeOK, start_next_call, DialsInAlert, TickParts
<1>2. ses \in Session /\ ses.active /\ ses.current_contact_index = idx
  BY <1>1 DEF Session
<1>3. roster = table /\ Len(dialled) = idx
  BY <1>1 DEF FollowsRoster, RotationFollowsRoster
<1>4. CASE idx >= Len(table)
  <2>1. fail_session(ses) /\ pc' = resume /\ dialled' = dialled
    BY <1>1, <1>4 DEF start_next_call
  <2> HIDE DEF ses
  <2>2. session'.state = "FAILED" /\ ~session'.active
    BY <1>2, <2>1 DEF fail_session, set_state, Session
  <2>3. QED
    BY <1>1, <1>3, <1>4, <2>1, <2>2 DEF FollowsRoster, RotationFollowsRoster
<1>5. CASE idx < Len(table)
  <2>1. dialled' = Append(dialled, table[idx + 1])
    BY <1>1, <1>5 DEF start_next_call
  <2>2. /\ Len(dialled') = idx + 1
        /\ \A i \in 1..idx + 1 : dialled'[i] = roster[i]
    <3>1. table[idx + 1] \in Contacts
      BY <1>1, <1>5
    <3>2. \A i \in 1..idx : dialled[i] = roster[i]
      BY <1>3 DEF FollowsRoster, RotationFollowsRoster
    <3>3. /\ Len(dialled') = idx + 1
          /\ dialled'[idx + 1] = table[idx + 1]
          /\ \A i \in 1..idx : dialled'[i] = dialled[i]
      BY <1>1, <1>3, <2>1, <3>1, SMTT(30)
    <3>4. \A i \in 1..idx + 1 : i \in 1..idx \/ i = idx + 1
      BY <1>1
    <3>5. QED
      BY <1>3, <3>2, <3>3, <3>4
  <2> DEFINE next == [ses EXCEPT !.current_contact_index = @ + 1]
             call == [ses EXCEPT !.call_remaining_ms = CallTimeout,
                                 !.stop_wait_remaining_ms = 0]
  <2>3. \/ set_state(next, "CALLING") /\ pc' = pc
        \/ set_state(call, "CALLING") /\ pc' = resume
    BY <1>1, <1>5 DEF start_next_call
  <2> HIDE DEF ses
  <2>4. /\ session'.state = "CALLING"
        /\ \/ session'.current_contact_index = idx + 1 /\ pc' = "dial"
           \/ session'.current_contact_index = idx /\ pc' # "dial"
    BY <1>1, <1>2, <2>3, ZenonT(60) DEF set_state, Session
  <2>5. QED
    BY <1>1, <1>3, <1>5, <2>2, <2>4 DEF FollowsRoster, RotationFollowsRoster
<1>6. QED
  BY <1>1, <1>4, <1>5

(* No event makes the rotation skip or repeat a contact.                    *)
LEMMA HandleEventRoster ==
    ASSUME SessionInv, FollowsRoster, HandleEvent
    PROVE  FollowsRoster'
<1>1. session \in Session /\ pc = "wait" /\ table' = table
  BY DEF SessionInv, TypeOK, HandleEvent, HandleVoiceTrigger, HandleSosEdge,
         HandleConnected, HandleDisconnected, HandleLowBattery,
         HandleContactsUpdated, HandleLogged, Receive
<1>2. CASE HandleVoiceTrigger
  BY <1>1, <1>2, BeginAlertRoster DEF HandleVoiceTrigger
<1>3. CASE HandleSosEdge
  <2>1. /\ session'.active = session.active
        /\ session'.current_contact_index = session.current_contact_index
        /\ session'.state \in {session.state, "TRIGGER_CONFIRM"}
        /\ pc' = pc /\ UNCHANGED history
    BY <1>1, <1>3 DEF HandleSosEdge, set_state, Session
  <2>2. QED
    BY <1>1, <2>1, RosterUnseen
<1>4. CASE HandleConnected
  <2>1. /\ session'.active = session.active
        /\ session'.current_contact_index = session.current_contact_index
        /\ session'.state \in {session.state, "CONNECTED"}
        /\ pc' = pc /\ UNCHANGED history
    BY <1>1, <1>4 DEF HandleConnected, set_state, Session
  <2>2. QED
    BY <1>1, <2>1, RosterUnseen
<1>5. CASE HandleDisconnected
  <2>1. CASE session.active /\ ~session.call_connected
    <3>1. Rotate(session, "wait") /\ UNCHANGED history
      BY <1>5, <2>1 DEF HandleDisconnected
    <3>2. session.state # "FAILED"
      BY <2>1 DEF SessionInv, FlagsMatchState, Alerting
    <3>3. QED
      BY <1>1, <2>1, <3>1, <3>2, RotateRoster
  <2>2. CASE ~(session.active /\ ~session.call_connected)
    <3>1. ~session'.active /\ session'.state = "IDLE" /\ UNCHANGED history
      BY <1>1, <1>5, <2>2 DEF HandleDisconnected, set_state, Session
    <3>2. QED
      BY <1>1, <3>1, RosterUnseen
  <2>3. QED
    BY <2>1, <2>2
<1>6. CASE HandleContactsUpdated
  <2>1. /\ session'.state = session.state /\ session'.active = session.active
        /\ session.active => session' = session
        /\ pc' = pc /\ UNCHANGED history
    BY <1>1, <1>6 DEF HandleContactsUpdated, Session
  <2>2. QED
    BY <1>1, <2>1, RosterUnseen
<1>7. CASE HandleLowBattery \/ HandleLogged
  BY <1>1, <1>7, RosterUnseen DEF HandleLowBattery, HandleLogged
<1>8. QED
  BY <1>2, <1>3, <1>4, <1>5, <1>6, <1>7 DEF HandleEvent

(* Nor does a tick.                                                         *)
LEMMA TickRoster ==
    ASSUME SessionInv, FollowsRoster,
           TickConfirm \/ TickCall \/ TickStop \/ TickPoll \/ TickRecover
    PROVE  FollowsRoster'
<1>1. session \in Session /\ pc # "dial" /\ table' = table
  BY DEF SessionInv, TypeOK, TickConfirm, TickCall, TickStop, TickPoll, TickRecover
<1> DEFINE Unmoved == /\ session'.state = session.state
                      /\ session'.active = session.active
                      /\ session'.current_contact_index
                             = session.current_contact_index
                      /\ pc' # "dial" /\ UNCHANGED history
<1>2. CASE Unmoved
  BY <1>1, <1>2, RosterUnseen
<1>3. CASE TickConfirm
  <2> DEFINE ses == [session EXCEPT !.button_confirm_pending = FALSE,
                                    !.button_confirm_remaining_ms = 0]
  <2>1. \/ Unmoved
        \/ begin_alert(ses, "call") /\ session.button_confirm_pending
    BY <1>1, <1>3 DEF TickConfirm, Session
  <2>2. CASE begin_alert(ses, "call") /\ session.button_confirm_pending
    <3>1. /\ ses \in Session /\ ses.state = session.state
          /\ ses.active = session.active /\ ~session.active
      BY <1>1, <2>2 DEF Session, SessionInv, FlagsMatchState
    <3>2. QED
      BY <1>1, <2>2, <3>1, BeginAlertRoster
  <2>3. QED
    BY <1>2, <2>1, <2>2
<1>4. CASE TickCall
  <2> DEFINE stopping == [session EXCEPT !.call_remaining_ms = 0,
                                         !.stop_wait_remaining_ms = CallStopWait,
                                         !.state = "CALL_STOPPING"]
  <2>1. /\ stopping \in Session /\ stopping.state = "CALL_STOPPING"
        /\ stopping.active = session.active
        /\ stopping.current_contact_index = session.current_contact_index
    BY <1>1, TimingAssumption DEF Session, States
  <2>2. /\ UNCHANGED history
        /\ \/ Unmoved
           \/ session' = stopping /\ pc' = "stop"
           \/ Dialling /\ Rotate(stopping, "stop")
    BY <1>1, <1>4 DEF TickCall, Session
  <2> HIDE DEF stopping
  <2>3. QED
    BY <1>1, <1>2, <2>1, <2>2, RosterUnseen, RotateRoster DEF Dialling
<1>5. CASE TickStop
  <2>1. /\ UNCHANGED history
        /\ \/ Unmoved
           \/ AwaitingStop /\ Rotate(session, "poll")
    BY <1>1, <1>5 DEF TickStop, Session
  <2>2. QED
    BY <1>1, <1>2, <2>1, RotateRoster DEF AwaitingStop
<1>6. CASE TickPoll
  <2>1. Unmoved
    BY <1>1, <1>6 DEF TickPoll, Session
  <2>2. QED
    BY <1>2, <2>1
<1>7. CASE TickRecover
  <2>1. \/ Unmoved
        \/ /\ Recovering /\ session'.state = "IDLE"
           /\ session'.active = session.active /\ UNCHANGED history
    BY <1>1, <1>7 DEF TickRecover, set_state, Session
  <2>2. Recovering => ~session.active
    BY DEF Recovering, SessionInv, FlagsMatchState, Alerting
  <2>3. QED
    BY <1>1, <1>2, <2>1, <2>2, RosterUnseen
<1>8. QED
  BY <1>3, <1>4, <1>5, <1>6, <1>7

(* While the table is not replaced, the contacts called in an alert are     *)
(* those its SMS went to, in that order, none left out and none twice, and  *)
(* it fails only after the last of them: whatever the modem refuses, drops  *)
(* or reports late, and however many SOS events come in.                    *)
THEOREM SessionCallsRoster == Spec => []RosterKept
<1>1. Init => RosterInv
  <2> SUFFICES ASSUME Init PROVE RosterInv
    OBVIOUS
  <2>1. FollowsRoster
    BY DEF Init, FollowsRoster, RotationFollowsRoster
  <2>2. QED
    BY <2>1, SessionInvInit DEF RosterInv
<1>2. RosterInv /\ [Next]_vars => RosterInv'
  <2> SUFFICES ASSUME RosterInv, [Next]_vars PROVE RosterInv'
    OBVIOUS
  <2>1. SessionInv /\ SessionInv'
    BY SessionInvInductive DEF RosterInv
  <2> SUFFICES ASSUME updates' = 0 PROVE FollowsRoster'
    BY <2>1 DEF RosterInv
  <2>2. CASE Task
    <3>1. updates' = updates
      BY <2>2 DEF Task, HandleEvent, HandleVoiceTrigger, HandleSosEdge, HandleConnected,
                  HandleDisconnected, HandleLowBattery, HandleContactsUpdated,
                  HandleLogged, Receive, start_next_call, TickConfirm, TickCall,
                  TickStop, TickPoll, TickRecover, budget
    <3>2. FollowsRoster
      BY <3>1 DEF RosterInv
    <3>3. QED
      BY <2>1, <2>2, <3>2, HandleEventRoster, StartNextCallRoster, TickRoster DEF Task
  <2>3. CASE Environment \/ UNCHANGED vars
    <3>1. ~PublishContacts
      BY <2>1 DEF PublishContacts, SessionInv, TypeOK
    <3>2. UNCHANGED <<session, pc, roster, dialled, table, updates>>
      BY <2>3, <3>1 DEF Environment, Trigger, SmsReport, CallRings, CallAnswered,
                        LineReleased, HeldReleased, ims_event_cb, core, history,
                        budget, vars
    <3>3. QED
      BY <3>2 DEF RosterInv, FollowsRoster, RotationFollowsRoster
  <2>4. QED
    BY <2>2, <2>3 DEF Next
<1>3. RosterInv => RosterKept
  BY DEF RosterInv, FollowsRoster, RosterKept
<1>4. QED
  BY <1>1, <1>2, <1>3, PTL DEF Spec

-----------------------------------------------------------------------------
(* The session implements AlertRotation                                     *)

(* What the refinement mapping shows in the states of a session.            *)
LEMMA Mapping ==
    ASSUME SessionInv
    PROVE  /\ session.call_connected => Phase = "talking"
           /\ session.active /\ ~session.call_connected => Phase = "alerting"
           /\ session.state = "FAILED" => Phase = "failed"
           /\ ~session.active /\ session.state # "FAILED" => Phase = "quiet"
           /\ ~session.active => Tried = 0
           /\ session.active => session.call_connected \/ session.state \in Alerting
           /\ session.active => Tried = session.current_contact_index
                                           + (IF pc = "dial" THEN 0 ELSE 1)
BY DEF SessionInv, FlagsMatchState, Alerting, Phase, Tried

(* The same one step later.                                                 *)
LEMMA MappingNext ==
    ASSUME SessionInv'
    PROVE  /\ session'.call_connected => Phase' = "talking"
           /\ session'.active /\ ~session'.call_connected => Phase' = "alerting"
           /\ session'.state = "FAILED" => Phase' = "failed"
           /\ ~session'.active /\ session'.state # "FAILED" => Phase' = "quiet"
           /\ ~session'.active => Tried' = 0
           /\ session'.active => Tried' = session'.current_contact_index
                                             + (IF pc' = "dial" THEN 0 ELSE 1)
BY DEF SessionInv, FlagsMatchState, Alerting, Phase, Tried

(* A step that leaves flags, index and table alone is not seen.             *)
LEMMA Unseen ==
    ASSUME SessionInv, SessionInv', table' = table, pc # "dial", pc' # "dial",
           session'.state = session.state
               \/ (~session.active /\ ~session'.active
                     /\ session.state # "FAILED" /\ session'.state # "FAILED"),
           session'.active = session.active,
           session'.call_connected = session.call_connected,
           session.active => session'.current_contact_index
                                 = session.current_contact_index
    PROVE  UNCHANGED <<Phase, Tried, table>>
BY DEF SessionInv, FlagsMatchState, Alerting, Phase, Tried

(* Starting an alert raises it; begin_alert during an alert does nothing.   *)
LEMMA BeginAlertRaises ==
    ASSUME SessionInv, SessionInv', NEW ses \in Session, NEW then \in {"wait", "call"},
           begin_alert(ses, then), pc # "dial", table' = table,
           ses.state = session.state, ses.active = session.active,
           ses.active => ses = session
    PROVE  Rotation!Raise \/ UNCHANGED <<Phase, Tried, table>>
<1>1. CASE ses.active
  <2>1. session' = session /\ pc' # "dial"
    BY <1>1 DEF begin_alert
  <2>2. QED
    BY <2>1 DEF Phase, Tried
<1>2. CASE ~ses.active
  <2>1. /\ session'.state = "ALERT_PENDING" /\ session'.active
        /\ ~session'.call_connected /\ session'.current_contact_index = 0
        /\ pc' = "dial"
    BY <1>2 DEF begin_alert, set_state, Session
  <2>2. Phase' = "alerting" /\ Tried' = 0
    BY <2>1, MappingNext
  <2>3. Phase \in {"quiet", "failed"}
    BY <1>2, Mapping
  <2>4. QED
    BY <2>2, <2>3 DEF Rotation!Raise
<1>3. QED
  BY <1>1, <1>2

(* Going on to the next contact is not seen: the try follows.               *)
LEMMA RotateUnseen ==
    ASSUME SessionInv, SessionInv', NEW ses \in Session, NEW then,
           Rotate(ses, then), pc # "dial", table' = table,
           session.active, ~session.call_connected,
           ses.active, ~ses.call_connected,
           ses.current_contact_index = session.current_contact_index
    PROVE  UNCHANGED <<Phase, Tried, table>>
<1> DEFINE idx == session.current_contact_index
<1>1. /\ session'.active /\ ~session'.call_connected
      /\ session'.current_contact_index = idx + 1 /\ pc' = "dial" /\ idx \in Nat
  <2>1. ses.current_contact_index \in Nat
    BY SessionFields
  <2>2. QED
    BY <2>1 DEF Rotate, Session
<1>2. Phase' = "alerting" /\ Tried' = idx + 1
  BY <1>1, MappingNext
<1>3. Phase = "alerting" /\ Tried = idx + 1
  BY Mapping
<1>4. QED
  BY <1>2, <1>3

(* One try of start_next_call is a try, or gives up.                        *)
LEMMA StartNextCallTries ==
    ASSUME SessionInv, SessionInv', start_next_call
    PROVE  Rotation!Try \/ Rotation!GiveUp
<1> DEFINE idx == session.current_contact_index
           ses == [session EXCEPT !.total_contacts = Len(table)]
<1>1. /\ Len(table) \in Nat /\ idx \in Nat /\ pc = "dial" /\ table' = table
      /\ session \in Session /\ session.active /\ ~session.call_connected
  BY ContactsAssumption, SessionFields
     DEF SessionInv, TypeOK, start_next_call, DialsInAlert
<1>2. Phase = "alerting" /\ Tried = idx
  BY <1>1, Mapping
<1>3. /\ ses \in Session /\ ses.active = session.active
      /\ ses.call_connected = session.call_connected
      /\ ses.current_contact_index = idx
  BY <1>1 DEF Session
<1>4. CASE idx >= Len(table)
  <2>1. fail_session(ses)
    BY <1>1, <1>4 DEF start_next_call
  <2>2. session'.state = "FAILED" /\ ~session'.active
    <3> HIDE DEF ses
    <3>1. QED
      BY <1>3, <2>1 DEF fail_session, set_state, Session
  <2>3. Phase' = "failed" /\ Tried' = 0
    BY <2>2, MappingNext
  <2>4. QED
    BY <1>1, <1>2, <1>4, <2>3 DEF Rotation!GiveUp
<1>5. CASE idx < Len(table)
  <2> DEFINE next == [ses EXCEPT !.current_contact_index = @ + 1]
             call == [ses EXCEPT !.call_remaining_ms = CallTimeout,
                                 !.stop_wait_remaining_ms = 0]
  <2>1. \/ set_state(next, "CALLING") /\ pc' = pc
        \/ set_state(call, "CALLING") /\ pc' = resume
    BY <1>1, <1>5 DEF start_next_call
  <2>2. resume # "dial"
    BY DEF SessionInv, TypeOK, TickParts
  <2> HIDE DEF ses
  <2>3. /\ session'.active /\ ~session'.call_connected
        /\ \/ session'.current_contact_index = idx + 1 /\ pc' = "dial"
           \/ session'.current_contact_index = idx /\ pc' # "dial"
    <3>1. CASE set_state(next, "CALLING") /\ pc' = pc
      BY <1>1, <1>3, <3>1 DEF set_state, Session
    <3>2. CASE set_state(call, "CALLING") /\ pc' = resume
      BY <1>1, <1>3, <2>2, <3>2 DEF set_state, Session
    <3>3. QED
      BY <2>1, <3>1, <3>2
  <2>4. Phase' = "alerting" /\ Tried' = idx + 1
    BY <1>1, <2>3, MappingNext
  <2>5. QED
    BY <1>1, <1>2, <1>5, <2>4 DEF Rotation!Try
<1>6. QED
  BY <1>1, <1>4, <1>5

(* Every event handler is a step of the rotation or none.                   *)
LEMMA HandleEventMaps ==
    ASSUME SessionInv, SessionInv', HandleEvent
    PROVE  [Rotation!Next]_(Rotation!vars)
<1> SUFFICES Rotation!Next \/ UNCHANGED <<Phase, Tried, table>>
  BY DEF Rotation!vars
<1>1. /\ session \in Session /\ pc = "wait" /\ table' = table
      /\ session.current_contact_index \in Nat
  BY SessionFields
     DEF SessionInv, TypeOK, HandleEvent, HandleVoiceTrigger, HandleSosEdge,
         HandleConnected, HandleDisconnected, HandleLowBattery,
         HandleContactsUpdated, HandleLogged, Receive
<1>2. CASE HandleVoiceTrigger
  BY <1>1, <1>2, BeginAlertRaises DEF HandleVoiceTrigger, Rotation!Next
<1>3. CASE HandleSosEdge
  <2>1. CASE session.active \/ session.button_confirm_pending
    BY <1>1, <1>3, <2>1 DEF HandleSosEdge, Phase, Tried
  <2>2. CASE ~(session.active \/ session.button_confirm_pending)
    <3>1. session'.state = "TRIGGER_CONFIRM" /\ ~session'.active
      BY <1>1, <1>3, <2>2 DEF HandleSosEdge, set_state, Session
    <3>2. Phase' = "quiet" /\ Tried' = 0
      BY <3>1, MappingNext
    <3>3. Phase \in {"quiet", "failed"} /\ Tried = 0
      BY <2>2, Mapping
    <3>4. QED
      BY <1>1, <3>2, <3>3 DEF Rotation!Next, Rotation!Settle
  <2>3. QED
    BY <2>1, <2>2
<1>4. CASE HandleConnected
  <2>1. CASE ~session.active
    BY <1>1, <1>4, <2>1 DEF HandleConnected, Phase, Tried
  <2>2. CASE session.active
    <3>1. /\ session'.active /\ session'.call_connected /\ pc' = pc
          /\ session'.current_contact_index = session.current_contact_index
      BY <1>1, <1>4, <2>2 DEF HandleConnected, set_state, Session
    <3>2. Phase' = "talking" /\ Tried' = session.current_contact_index + 1
      BY <1>1, <3>1, MappingNext
    <3>3. Phase \in {"alerting", "talking"} /\ Tried = session.current_contact_index + 1
      BY <1>1, <2>2, Mapping
    <3>4. QED
      BY <1>1, <3>2, <3>3 DEF Rotation!Next, Rotation!Answer
  <2>3. QED
    BY <2>1, <2>2
<1>5. CASE HandleDisconnected
  <2>1. CASE ~session.active
    <3>1. session'.state = "IDLE" /\ ~session'.active
      BY <1>1, <1>5, <2>1 DEF HandleDisconnected, set_state, Session
    <3>2. Phase' = "quiet" /\ Tried' = 0
      BY <3>1, MappingNext
    <3>3. Phase \in {"quiet", "failed"} /\ Tried = 0
      BY <2>1, Mapping
    <3>4. QED
      BY <1>1, <3>2, <3>3 DEF Rotation!Next, Rotation!Settle
  <2>2. CASE session.active /\ session.call_connected
    <3>1. session'.state = "IDLE" /\ ~session'.active
      BY <1>1, <1>5, <2>2 DEF HandleDisconnected, set_state, Session
    <3>2. Phase' = "quiet" /\ Tried' = 0 /\ Phase = "talking"
      BY <2>2, <3>1, Mapping, MappingNext
    <3>3. QED
      BY <1>1, <3>2 DEF Rotation!Next, Rotation!HangUp
  <2>3. CASE session.active /\ ~session.call_connected
    BY <1>1, <1>5, <2>3, RotateUnseen DEF HandleDisconnected
  <2>4. QED
    BY <2>1, <2>2, <2>3
<1>6. CASE HandleContactsUpdated
  <2>1. /\ session'.state = session.state /\ session'.active = session.active
        /\ session'.call_connected = session.call_connected
        /\ session.active => session' = session
        /\ pc' = pc
    BY <1>1, <1>6 DEF HandleContactsUpdated, Session
  <2>2. QED
    BY <1>1, <2>1 DEF Phase, Tried
<1>7. CASE HandleLowBattery \/ HandleLogged
  BY <1>1, <1>7 DEF HandleLowBattery, HandleLogged, Phase, Tried
<1>8. QED
  BY <1>2, <1>3, <1>4, <1>5, <1>6, <1>7 DEF HandleEvent

(* A countdown that runs is not seen.                                       *)
LEMMA CountdownUnseen ==
    ASSUME session \in Session, NEW n, pc # "dial", pc' # "dial", table' = table,
           \/ session' = session
           \/ session' = [session EXCEPT !.button_confirm_remaining_ms = n]
           \/ session' = [session EXCEPT !.call_remaining_ms = n]
           \/ session' = [session EXCEPT !.stop_wait_remaining_ms = n]
           \/ session' = [session EXCEPT !.battery_poll_remaining_ms = n]
           \/ session' = [session EXCEPT !.failed_recover_remaining_ms = n]
    PROVE  UNCHANGED <<Phase, Tried, table>>
<1>1. /\ session'.state = session.state /\ session'.active = session.active
      /\ session'.call_connected = session.call_connected
      /\ session'.current_contact_index = session.current_contact_index
  BY DEF Session
<1>2. QED
  BY <1>1 DEF Phase, Tried

(* So is every part of a tick.                                              *)
LEMMA TickMaps ==
    ASSUME SessionInv, SessionInv',
           TickConfirm \/ TickCall \/ TickStop \/ TickPoll \/ TickRecover
    PROVE  [Rotation!Next]_(Rotation!vars)
<1> SUFFICES Rotation!Next \/ UNCHANGED <<Phase, Tried, table>>
  BY DEF Rotation!vars
<1>1. session \in Session /\ pc # "dial" /\ table' = table
  BY DEF SessionInv, TypeOK, TickConfirm, TickCall, TickStop, TickPoll, TickRecover
<1>2. CASE TickConfirm
  <2> DEFINE ses == [session EXCEPT !.button_confirm_pending = FALSE,
                                    !.button_confirm_remaining_ms = 0]
             n == session.button_confirm_remaining_ms - LoopWait
  <2>1. \/ session' = session /\ pc' = "call"
        \/ /\ session' = [session EXCEPT !.button_confirm_remaining_ms = n]
           /\ pc' = "call"
        \/ begin_alert(ses, "call") /\ session.button_confirm_pending
    BY <1>2 DEF TickConfirm
  <2>2. CASE begin_alert(ses, "call") /\ session.button_confirm_pending
    <3>1. /\ ses \in Session /\ ses.state = session.state
          /\ ses.active = session.active /\ ~session.active
      BY <1>1, <2>2 DEF Session, SessionInv, FlagsMatchState
    <3>2. QED
      BY <1>1, <2>2, <3>1, BeginAlertRaises DEF Rotation!Next
  <2>3. QED
    BY <1>1, <2>1, <2>2, CountdownUnseen
<1>3. CASE TickCall
  <2> DEFINE stopping == [session EXCEPT !.call_remaining_ms = 0,
                                         !.stop_wait_remaining_ms = CallStopWait,
                                         !.state = "CALL_STOPPING"]
             n == session.call_remaining_ms - LoopWait
  <2>1. \/ session' = session /\ pc' = "stop"
        \/ session' = [session EXCEPT !.call_remaining_ms = n] /\ pc' = "stop"
        \/ Dialling /\ session' = stopping /\ pc' = "stop"
        \/ Dialling /\ Rotate(stopping, "stop")
    BY <1>3 DEF TickCall
  <2>2. ASSUME Dialling
        PROVE  /\ session.active /\ ~session.call_connected
               /\ session.state = "CALLING"
               /\ stopping \in Session
               /\ stopping.active /\ ~stopping.call_connected
               /\ stopping.current_contact_index = session.current_contact_index
    BY <1>1, <2>2, TimingAssumption DEF Session, States, Dialling
  <2> HIDE DEF stopping
  <2>3. CASE Dialling /\ session' = stopping /\ pc' = "stop"
    BY <1>1, <2>2, <2>3, Mapping, MappingNext
  <2>4. CASE Dialling /\ Rotate(stopping, "stop")
    BY <1>1, <2>2, <2>4, RotateUnseen
  <2>5. QED
    BY <1>1, <2>1, <2>3, <2>4, CountdownUnseen
<1>4. CASE TickStop
  <2> DEFINE n == session.stop_wait_remaining_ms - LoopWait
  <2>1. \/ session' = session /\ pc' = "poll"
        \/ session' = [session EXCEPT !.stop_wait_remaining_ms = n] /\ pc' = "poll"
        \/ AwaitingStop /\ Rotate(session, "poll")
    BY <1>4 DEF TickStop
  <2>2. QED
    BY <1>1, <2>1, RotateUnseen, CountdownUnseen DEF AwaitingStop
<1>5. CASE TickPoll
  <2>1. PICK n : session' = [session EXCEPT !.battery_poll_remaining_ms = n]
    BY <1>5 DEF TickPoll
  <2>2. pc' # "dial"
    BY <1>5 DEF TickPoll
  <2>3. QED
    BY <1>1, <2>1, <2>2, CountdownUnseen
<1>6. CASE TickRecover
  <2> DEFINE n == session.failed_recover_remaining_ms - LoopWait
  <2>1. pc' # "dial"
    BY <1>6 DEF TickRecover
  <2>2. CASE ~(Recovering /\ ~Running(session.failed_recover_remaining_ms))
    BY <1>1, <1>6, <2>1, <2>2, CountdownUnseen DEF TickRecover
  <2>3. CASE Recovering /\ ~Running(session.failed_recover_remaining_ms)
    <3>1. session.state = "FAILED" /\ ~session.active
      BY <2>3 DEF Recovering, SessionInv, FlagsMatchState, Alerting
    <3>2. session'.state = "IDLE" /\ session'.active = session.active
      BY <1>1, <1>6, <2>3 DEF TickRecover, set_state, Session
    <3>3. Phase = "failed" /\ Tried = 0 /\ Phase' = "quiet" /\ Tried' = 0
      BY <3>1, <3>2, Mapping, MappingNext
    <3>4. QED
      BY <1>1, <3>3 DEF Rotation!Next, Rotation!Settle
  <2>4. QED
    BY <2>2, <2>3
<1>7. QED
  BY <1>2, <1>3, <1>4, <1>5, <1>6

(* Nothing the environment does is more than a new table.                   *)
LEMMA EnvironmentMaps ==
    ASSUME SessionInv, Environment \/ UNCHANGED vars
    PROVE  [Rotation!Next]_(Rotation!vars)
<1>1. session' = session /\ pc' = pc
  BY DEF Environment, Trigger, PublishContacts, SmsReport, CallRings, CallAnswered,
         LineReleased, HeldReleased, ims_event_cb, core, vars
<1>2. UNCHANGED <<Phase, Tried>>
  BY <1>1 DEF Phase, Tried
<1>3. table' = table \/ table' \in Tables
  BY DEF Environment, Trigger, PublishContacts, SmsReport, CallRings, CallAnswered,
         LineReleased, HeldReleased, ims_event_cb, core, vars
<1>4. QED
  BY <1>2, <1>3 DEF Rotation!Next, Rotation!Replace, Rotation!vars

(* The alert session implements AlertRotation, for every table, queue depth *)
(* and duration: contacts are tried one by one from the first of the table, *)
(* a conversation needs a call made in this alert, and an alert fails only  *)
(* when the live table has no contact left.                                 *)
THEOREM SessionImplementsRotation == Spec => ImplementsRotation
<1>1. Init => Rotation!Init
  BY DEF Init, Rotation!Init, Phase, Tried
<1>2. SessionInv /\ SessionInv' /\ [Next]_vars => [Rotation!Next]_(Rotation!vars)
  <2> SUFFICES ASSUME SessionInv, SessionInv', [Next]_vars
               PROVE  [Rotation!Next]_(Rotation!vars)
    OBVIOUS
  <2>1. CASE HandleEvent
    BY <2>1, HandleEventMaps
  <2>2. CASE start_next_call
    BY <2>2, StartNextCallTries DEF Rotation!Next
  <2>3. CASE TickConfirm \/ TickCall \/ TickStop \/ TickPoll \/ TickRecover
    BY <2>3, TickMaps
  <2>4. CASE Environment \/ UNCHANGED vars
    BY <2>4, EnvironmentMaps
  <2>5. QED
    BY <2>1, <2>2, <2>3, <2>4 DEF Next, Task
<1>3. QED
  BY <1>1, <1>2, SessionInvInit, SessionInvInductive, PTL
     DEF Spec, ImplementsRotation, Rotation!Spec
=============================================================================
