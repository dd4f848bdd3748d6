----------------------------- MODULE CloudChannel -----------------------------
(***************************************************************************)
(* The cloud channel of emergency_call_alarm (alarm/cloud/mqtt_client.c).  *)
(*                                                                         *)
(* One task opens an MQTT link, connects, subscribes and takes messages,   *)
(* always in answer to an event that the callback of the MQTT client put   *)
(* into a bounded queue; a full queue drops the event.  When an event says *)
(* that the link is down the task closes it, sleeps, empties the queue and *)
(* starts again.  The MQTT client is the environment: it answers each      *)
(* request it accepted once, and can lose the link at any moment.  It      *)
(* reports a close the task asked for within the sleep that follows        *)
(* (ALARM_MQTT_RETRY_DELAY_S, 30 s).                                       *)
(***************************************************************************)
EXTENDS Integers, Sequences

CONSTANTS
    MsgqDepth,   \* ALARM_MQTT_MSGQ_DEPTH
    Inflight     \* publications the MQTT client accepts before it answers one

ASSUME DepthAssumption == MsgqDepth \in Nat \ {0} /\ Inflight \in Nat

VARIABLES
    task,      \* where cloud_task is
    msgq,      \* g_cloud_ctx.msgq
    link,      \* the MQTT client: the link, and the request it is busy with
    sub,       \* the MQTT client: the subscription
    pubs,      \* the MQTT client: publications it has not answered
    closing,   \* the MQTT client has not reported the close it was asked for
    lost       \* history: the report of a lost link was dropped

client == <<link, sub, pubs, closing>>
vars   == <<task, msgq, client, lost>>

Msgs == {"OPEN_OK", "OPEN_FAILED", "CONNECT_OK", "CONNECT_FAILED",
         "SUBACK_OK", "SUBACK_FAILED", "NEW_MESSAGE", "PUBLISH", "DOWN"}

(* The answers cloud_dispatch returns -1 for.                               *)
Failures == {"OPEN_FAILED", "CONNECT_FAILED", "DOWN"}

Init ==
    /\ task = "drain"
    /\ msgq = <<>>
    /\ link = "closed" /\ sub = "none" /\ pubs = 0 /\ closing = FALSE
    /\ lost = FALSE

-----------------------------------------------------------------------------
(* cloud_task                                                               *)

(* Empties the queue only when the link was lost.                           *)
cloud_drain_msgq_Wrong ==
    /\ task = "drain"
    /\ task' = "open"
    /\ UNCHANGED <<msgq, client, lost>>

cloud_drain_msgq ==
    /\ task = "drain"
    /\ msgq' = <<>>
    /\ task' = "open"
    /\ UNCHANGED <<client, lost>>

(* The request is accepted, or a step of cloud_open fails.                  *)
cloud_open ==
    /\ task = "open"
    /\ \/ link' = "opening" /\ task' = "wait"
       \/ link' = link /\ task' = "close"
    /\ UNCHANGED <<msgq, sub, pubs, closing, lost>>

(* Takes the next event m off the queue.                                    *)
Next_msg(m) ==
    /\ task = "wait"
    /\ msgq # <<>>
    /\ Head(msgq) = m
    /\ msgq' = Tail(msgq)
    /\ UNCHANGED <<closing, lost>>

(* cloud_connect: no login information, or a refused request, is only logged*)
cloud_connect ==
    /\ Next_msg("OPEN_OK")
    /\ \/ link = "open" /\ link' = "connecting"
       \/ link' = link
    /\ UNCHANGED <<task, sub, pubs>>

cloud_subscribe ==
    /\ Next_msg("CONNECT_OK")
    /\ \/ link = "connected" /\ sub' = "asked"
       \/ sub' = sub
    /\ UNCHANGED <<task, link, pubs>>

(* cloud_publish_online and cloud_publish_ack; a refusal is only logged.    *)
cloud_publish ==
    /\ \E m \in {"SUBACK_OK", "NEW_MESSAGE"} : Next_msg(m)
    /\ \/ link = "connected" /\ pubs < Inflight /\ pubs' = pubs + 1
       \/ pubs' = pubs
    /\ UNCHANGED <<task, link, sub>>

(* The end of a publication, and a subscription that was refused.           *)
LogOnly ==
    /\ \E m \in {"SUBACK_FAILED", "PUBLISH"} : Next_msg(m)
    /\ UNCHANGED <<task, link, sub, pubs>>

(* Misses that the link is down.                                            *)
GoDown_Wrong ==
    /\ \E m \in Failures : /\ Next_msg(m)
                           /\ task' = IF m = "DOWN" THEN task ELSE "close"
    /\ UNCHANGED <<link, sub, pubs>>

GoDown ==
    /\ \E m \in Failures : Next_msg(m)
    /\ task' = "close"
    /\ UNCHANGED <<link, sub, pubs>>

(* qcm_mqtt_client_close, then qosa_task_sleep_sec                          *)
CloseLink ==
    /\ task = "close"
    /\ task' = "sleep"
    /\ link' = "closed" /\ sub' = "none" /\ pubs' = 0
    /\ closing' = (link # "closed")
    /\ UNCHANGED <<msgq, lost>>

Wake ==
    /\ task = "sleep"
    /\ ~closing
    /\ task' = "drain"
    /\ UNCHANGED <<msgq, client, lost>>

cloud_task ==
    \/ cloud_drain_msgq \/ cloud_open
    \/ cloud_connect \/ cloud_subscribe \/ cloud_publish \/ LogOnly \/ GoDown
    \/ CloseLink \/ Wake

-----------------------------------------------------------------------------
(* The MQTT client, which reports through cloud_event_cb                    *)

(* Off by one: takes one event more than there is room for.          *)
cloud_event_cb_Wrong(m) ==
    IF Len(msgq) <= MsgqDepth
    THEN msgq' = Append(msgq, m) /\ UNCHANGED lost
    ELSE msgq' = msgq /\ lost' = IF m = "DOWN" /\ ~closing THEN TRUE ELSE lost

cloud_event_cb(m) ==
    IF Len(msgq) < MsgqDepth
    THEN msgq' = Append(msgq, m) /\ UNCHANGED lost
    ELSE msgq' = msgq /\ lost' = IF m = "DOWN" /\ ~closing THEN TRUE ELSE lost

Opened ==
    /\ link = "opening"
    /\ \/ link' = "open" /\ cloud_event_cb("OPEN_OK")
       \/ link' = "closed" /\ cloud_event_cb("OPEN_FAILED")
    /\ UNCHANGED <<task, sub, pubs, closing>>

Connected ==
    /\ link = "connecting"
    /\ \/ link' = "connected" /\ cloud_event_cb("CONNECT_OK")
       \/ link' = "open" /\ cloud_event_cb("CONNECT_FAILED")
    /\ UNCHANGED <<task, sub, pubs, closing>>

Subscribed ==
    /\ sub = "asked"
    /\ \/ sub' = "acked" /\ cloud_event_cb("SUBACK_OK")
       \/ sub' = "none" /\ cloud_event_cb("SUBACK_FAILED")
    /\ UNCHANGED <<task, link, pubs, closing>>

Message ==
    /\ sub = "acked"
    /\ cloud_event_cb("NEW_MESSAGE")
    /\ UNCHANGED <<task, client>>

Published ==
    /\ pubs > 0
    /\ pubs' = pubs - 1
    /\ cloud_event_cb("PUBLISH")
    /\ UNCHANGED <<task, link, sub, closing>>

LinkLost ==
    /\ link \in {"open", "connecting", "connected"}
    /\ link' = "closed" /\ sub' = "none" /\ pubs' = 0
    /\ cloud_event_cb("DOWN")
    /\ UNCHANGED <<task, closing>>

CloseReported ==
    /\ closing
    /\ closing' = FALSE
    /\ cloud_event_cb("DOWN")
    /\ UNCHANGED <<task, link, sub, pubs>>

MqttClient ==
    \/ Opened \/ Connected \/ Subscribed \/ Message \/ Published
    \/ LinkLost \/ CloseReported

Next == cloud_task \/ MqttClient

Spec == Init /\ [][Next]_vars

(* The task is scheduled, and the client answers what it has accepted.      *)
Fairness ==
    /\ WF_vars(cloud_task)
    /\ WF_vars(Opened) /\ WF_vars(Connected) /\ WF_vars(Subscribed)
    /\ WF_vars(Published) /\ WF_vars(CloseReported)

FairSpec == Spec /\ Fairness
=============================================================================
