------------------------- MODULE AlarmCoreProperties -------------------------
(* What is claimed of AlarmCore: invariants, steps, liveness, refinement.   *)
EXTENDS AlarmCore

(* Every variable has its type; the queue never exceeds ALARM_MSGQ_DEPTH.   *)
TypeOK ==
    /\ session \in Session
    /\ out \in [led : Leds, buzzer : BOOLEAN]
    /\ pc \in {"wait", "dial"} \cup TickParts
    /\ resume \in {"wait"} \cup TickParts
    /\ queue \in Seq(Events) /\ Len(queue) <= MsgqDepth
    /\ table \in Tables
    /\ line \in {"none"} \cup CallStatus
    /\ held \in [CallStatus -> Nat]
    /\ sms \in Nat /\ triggers \in Nat /\ updates \in Nat
    /\ roster \in Seq(Contacts) /\ dialled \in Seq(Contacts)
    /\ lost \in BOOLEAN

Alerting == {"ALERT_PENDING", "CALLING", "CALL_STOPPING"}

(* The flags of the session agree with its state, whatever report arrives   *)
(* late: it is active exactly in the states of an alert, connected exactly  *)
(* in CONNECTED, and no confirm window is open during an alert.  Every      *)
(* handler of core.c tests the flags and shows the state.                   *)
FlagsMatchState ==
    /\ session.active <=> session.state \in Alerting \cup {"CONNECTED"}
    /\ session.call_connected <=> session.state = "CONNECTED"
    /\ session.button_confirm_pending => ~session.active
    /\ session.state = "TRIGGER_CONFIRM" => session.button_confirm_pending

(* Between two steps of the loop no state waits for something that only a   *)
(* report of the modem would end, except a conversation: an open confirm    *)
(* window, a dialled call, a requested stop and the failed state all have a *)
(* countdown running, and a dialled index names a contact of the table read *)
(* when it was dialled.                                                     *)
TimersArmed ==
    pc # "dial" =>
        /\ session.button_confirm_pending => session.button_confirm_remaining_ms > 0
        /\ session.state # "ALERT_PENDING"
        /\ session.state = "CALLING" => session.call_remaining_ms > 0
        /\ session.state = "CALL_STOPPING" => session.stop_wait_remaining_ms > 0
        /\ session.state = "FAILED" => session.failed_recover_remaining_ms > 0
        /\ session.active => session.current_contact_index < session.total_contacts

(* In every reachable state the flags of the session agree with its state,  *)
(* and every state that waits has its countdown armed: no late, lost or     *)
(* repeated report of the modem leaves the session in a state it cannot     *)
(* leave by itself, except a conversation (core.c:164-343).                 *)
SessionConsistent == FlagsMatchState /\ TimersArmed

(* The contacts called in a session are those its SMS went to, in that      *)
(* order, none left out and none twice, and the session fails only after    *)
(* the last of them.  The comment at core.c:231 says the table is not       *)
(* swapped during an alert so that index and contact stay aligned.          *)
RotationFollowsRoster ==
    /\ Len(dialled) <= Len(roster)
    /\ \A i \in 1..Len(dialled) : dialled[i] = roster[i]
    /\ session.active => Len(dialled) = session.current_contact_index
                                          + (IF pc = "dial" THEN 0 ELSE 1)
    /\ session.state = "FAILED" => Len(dialled) = Len(roster)

(* While no table has been published, that is what happens: late reports,   *)
(* dropped events and refused calls leave no contact out (core.c:56-91).    *)
RosterKept == updates = 0 => RotationFollowsRoster

(* README_zh.md:108-109: from the trigger until somebody answers the LED      *)
(* blinks fast and the buzzer sounds, and an idle device breathes, however  *)
(* the session got there; a failed one stays loud with its LED off.         *)
IndicatorsShowAlert ==
    /\ session.active /\ ~session.call_connected
           => out = [led |-> "FAST", buzzer |-> TRUE]
    /\ session.state = "IDLE" => out.led = "BREATH"
    /\ session.state = "FAILED" => out = [led |-> "OFF", buzzer |-> TRUE]

(* core.c:211: a disconnect before an answer means that the current contact *)
(* failed, so when it moves the rotation on from a dialled contact, the     *)
(* modem no longer has the call to that contact.                            *)
DisconnectIsOfCurrentCall ==
    [][ HandleDisconnected /\ session.state = "CALLING" => line = "none" ]_vars

(* A pressed SOS button and every alert lead to an answered call or to the  *)
(* failed state, even if every report of the modem is late or dropped at a  *)
(* full queue, and also when a late disconnect shows IDLE meanwhile         *)
(* (core.c:199 changes the state, not the window): the tick alone drives    *)
(* the confirm window and the rotation.                                     *)
AlertResolves ==
    (session.button_confirm_pending \/ (session.active /\ ~session.call_connected))
        ~> (session.call_connected \/ session.state = "FAILED")

(* A conversation ends the session unless a CALL_DISCONNECTED was dropped   *)
(* at a full queue: CONNECTED has no countdown, so that is the only way to  *)
(* stay in it for ever.                                                     *)
TalkEnds == session.call_connected ~> (~session.call_connected \/ lost)

-----------------------------------------------------------------------------
Phase ==
    CASE session.call_connected -> "talking"
      [] session.active /\ ~session.call_connected -> "alerting"
      [] session.state = "FAILED" -> "failed"
      [] OTHER -> "quiet"

Tried ==
    IF ~session.active THEN 0
    ELSE session.current_contact_index + (IF pc = "dial" THEN 0 ELSE 1)

Rotation == INSTANCE AlertRotation WITH phase <- Phase, tried <- Tried

(* The session implements AlertRotation: contacts are tried one by one from *)
(* the first of the table, a conversation needs a call made in this alert,  *)
(* and an alert fails only when the live table has no contact left to try.  *)
ImplementsRotation == Rotation!Spec
=============================================================================
