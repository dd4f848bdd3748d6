----------------------------- MODULE Loudspeaker -----------------------------
(***************************************************************************)
(* The MQTT service of cloud_loudspeaker (cloud_mqtt.c) and the task that  *)
(* plays its requests (cloud_loudspeaker.c).                               *)
(*                                                                         *)
(* The service makes one session after another.  A session creates a       *)
(* client of the SDK and answers the events its callback puts into a       *)
(* bounded queue; the events do not say which client they come from.  It   *)
(* waits no longer than a timeout for the next one, and sleeps longer and  *)
(* longer between sessions that fail.  The SDK is the environment: it has  *)
(* a few clients, answers what it accepted, reports a lost connection once *)
(* and may never report a close.  It takes back a client with the event    *)
(* that ends it.                                                           *)
(*                                                                         *)
(* Texts, topics and parameters are left out: a message is worth playing   *)
(* or it is not.                                                           *)
(***************************************************************************)
EXTENDS Integers, Sequences

CONSTANTS
    Clients,      \* the clients of the SDK
    None,         \* no client
    EvtDepth,     \* CLOUD_MQTT_EVT_QUEUE
    ReqDepth,     \* CLOUD_MQTT_REQ_QUEUE
    BackoffMin,   \* CLOUD_MQTT_BACKOFF_MIN
    BackoffMax,   \* CLOUD_MQTT_BACKOFF_MAX
    MaxMessages,  \* bound: publications the broker delivers
    MaxFails      \* bound: failed sessions in a row that are told apart

ASSUME LoudspeakerAssumption ==
    /\ None \notin Clients
    /\ {EvtDepth, ReqDepth, BackoffMin, BackoffMax} \subseteq Nat \ {0}
    /\ BackoffMin <= BackoffMax
    /\ {MaxMessages, MaxFails} \subseteq Nat

VARIABLES
    audio,    \* where the audio task is
    task,     \* where the MQTT task is
    session,  \* the locals of cloud_mqtt_session: id, ready, closing
    backoff,  \* the local of cloud_mqtt_task
    was,      \* g_session_was_ready
    evtq,     \* g_evt_q
    reqs,     \* requests in g_req_q
    client,   \* the SDK: the state of each client
    sent,     \* the broker: publications delivered
    asked,    \* the clients that were asked to close and are not free again
    fails     \* history: sessions in a row that were not ready

locals == <<session, backoff, was>>
sdk    == <<client, sent>>
vars   == <<audio, task, locals, evtq, reqs, sdk, asked, fails>>

Events == {"OPEN_OK", "OPEN_BAD", "CONNECT_OK", "CONNECT_BAD", "SUBACK_OK",
           "SUBACK_BAD", "NEW_MESSAGE", "STATE", "CLOSE"}

(* A client the SDK has an open or opening connection for.                  *)
Live == {c \in Clients : client[c] \notin {"free", "created"}}

NoSession == [id |-> None, ready |-> FALSE, closing |-> FALSE]

Init ==
    /\ audio = "welcome"
    /\ task = "off"
    /\ session = NoSession
    /\ backoff = BackoffMin
    /\ was = FALSE
    /\ evtq = <<>>
    /\ reqs = 0
    /\ client = [c \in Clients |-> "free"]
    /\ sent = 0
    /\ asked = {} /\ fails = 0

-----------------------------------------------------------------------------
(* The audio task: unir_audio_demo_process and cloud_mqtt_start             *)

(* A queue or the task could not be created: the audio task returns.        *)
cloud_mqtt_start ==
    /\ audio = "welcome"
    /\ \/ audio' = "wait" /\ task' = "start"
       \/ audio' = "ended" /\ UNCHANGED task
    /\ UNCHANGED <<locals, evtq, reqs, sdk, asked, fails>>

cloud_mqtt_wait_request ==
    /\ audio = "wait"
    /\ reqs > 0
    /\ reqs' = reqs - 1
    /\ audio' = "speak"
    /\ UNCHANGED <<task, locals, evtq, sdk, asked, fails>>

(* xf_tts_speak returns and the request is freed.                           *)
Spoken ==
    /\ audio = "speak"
    /\ audio' = "wait"
    /\ UNCHANGED <<task, locals, evtq, reqs, sdk, asked, fails>>

AudioTask == cloud_mqtt_start \/ cloud_mqtt_wait_request \/ Spoken

-----------------------------------------------------------------------------
(* The MQTT task                                                            *)

(* The session ends: cloud_mqtt_task takes up its backoff.                  *)
Return ==
    /\ task' = "sleep"
    /\ session' = NoSession
    /\ backoff' = IF was THEN BackoffMin ELSE backoff
    /\ fails' = IF was THEN 0 ELSE fails + (IF fails < MaxFails THEN 1 ELSE 0)
    /\ UNCHANGED was

cloud_mqtt_task_Wrong ==
    /\ task = "sleep"
    /\ task' = "start"
    /\ backoff' = IF was \/ backoff >= BackoffMax THEN backoff ELSE 2 * backoff
    /\ was' = FALSE
    /\ UNCHANGED <<audio, session, evtq, reqs, sdk, asked, fails>>

cloud_mqtt_task ==
    /\ task = "sleep"
    /\ task' = "start"
    /\ backoff' = IF was \/ backoff >= BackoffMax THEN backoff
                  ELSE IF 2 * backoff > BackoffMax THEN BackoffMax ELSE 2 * backoff
    /\ was' = FALSE
    /\ UNCHANGED <<audio, session, evtq, reqs, sdk, asked, fails>>

(* No client is left, or the new one cannot be initialised or opened: it    *)
(* keeps its id for good.                                                   *)
OpenSession ==
    /\ task = "start"
    /\ evtq' = <<>>
    /\ \/ /\ \A c \in Clients : client[c] # "free"
          /\ Return
          /\ UNCHANGED <<client, asked>>
       \/ \E c \in Clients :
              /\ client[c] = "free"
              /\ asked' = asked \ {c}
              /\ \/ /\ client' = [client EXCEPT ![c] = "created"]
                    /\ Return
                 \/ /\ client' = [client EXCEPT ![c] = "opening"]
                    /\ session' = [NoSession EXCEPT !.id = c]
                    /\ task' = "wait"
                    /\ UNCHANGED <<was, backoff, fails>>
    /\ UNCHANGED <<audio, reqs, sent>>

(* cloud_mqtt_request_close                                                 *)
RequestClose ==
    /\ session' = [session EXCEPT !.closing = TRUE]
    /\ asked' = asked \union {session.id}

Unchanged_wait == UNCHANGED <<audio, task, was, backoff, sent, fails>>

(* Nothing came for PHASE_TO, CLOSE_TO or IDLE_TICK.                        *)
Timeout_Wrong ==
    /\ task = "wait" /\ evtq = <<>> /\ ~session.ready
    /\ RequestClose /\ Unchanged_wait
    /\ UNCHANGED <<reqs, client, evtq>>

Timeout ==
    /\ task = "wait" /\ evtq = <<>>
    /\ \/ /\ session.closing
          /\ Return /\ UNCHANGED <<audio, sent, asked>>
       \/ /\ ~session.closing /\ ~session.ready
          /\ RequestClose /\ Unchanged_wait
    /\ UNCHANGED <<reqs, client, evtq>>

Take(e) ==
    /\ task = "wait" /\ evtq # <<>> /\ Head(evtq) = e
    /\ evtq' = Tail(evtq)

(* The client takes the next request in state s, or refuses it.             *)
Request(s, next) ==
    \/ /\ client[session.id] = s
       /\ client' = [client EXCEPT ![session.id] = next]
       /\ UNCHANGED <<session, asked>>
    \/ RequestClose /\ UNCHANGED client

HandleOpen ==
    \/ /\ Take("OPEN_OK")
       /\ Request("open", "connecting")
       /\ Unchanged_wait /\ UNCHANGED reqs
    \/ /\ Take("OPEN_BAD")
       /\ Return
       /\ UNCHANGED <<audio, reqs, sdk, asked>>

HandleConnect ==
    /\ Take("CONNECT_OK")
    /\ Request("connected", "subscribing")
    /\ Unchanged_wait /\ UNCHANGED reqs

HandleSuback ==
    /\ Take("SUBACK_OK")
    /\ session' = [session EXCEPT !.ready = TRUE]
    /\ was' = TRUE
    /\ UNCHANGED <<audio, task, backoff, reqs, sdk, asked, fails>>

(* A refused connection or subscription                                     *)
HandleRefusal ==
    /\ \E e \in {"CONNECT_BAD", "SUBACK_BAD"} : Take(e)
    /\ \/ ~session.closing /\ RequestClose
       \/ session.closing /\ UNCHANGED <<session, asked>>
    /\ Unchanged_wait /\ UNCHANGED <<reqs, client>>

(* The message could not be read, is for another topic or has no text; or   *)
(* it becomes a request, which is dropped when the queue is full.           *)
cloud_mqtt_handle_message_Wrong ==
    /\ Take("NEW_MESSAGE")
    /\ reqs' \in {reqs, reqs + 1}
    /\ Unchanged_wait /\ UNCHANGED <<session, client, asked>>

cloud_mqtt_handle_message ==
    /\ Take("NEW_MESSAGE")
    /\ reqs' \in {reqs} \union (IF reqs < ReqDepth THEN {reqs + 1} ELSE {})
    /\ Unchanged_wait /\ UNCHANGED <<session, client, asked>>

HandleEnd ==
    /\ \E e \in {"STATE", "CLOSE"} : Take(e)
    /\ Return
    /\ UNCHANGED <<audio, reqs, sdk, asked>>

cloud_mqtt_session ==
    \/ OpenSession \/ Timeout \/ HandleOpen \/ HandleConnect \/ HandleSuback
    \/ HandleRefusal \/ cloud_mqtt_handle_message \/ HandleEnd

MqttTask == cloud_mqtt_task \/ cloud_mqtt_session

-----------------------------------------------------------------------------
(* The MQTT client of the SDK                                               *)

(* The callback queues the event without waiting: a full queue drops it.    *)
cloud_mqtt_evt_cb(e) ==
    evtq' = IF Len(evtq) < EvtDepth THEN Append(evtq, e) ELSE evtq

Unchanged_cb == UNCHANGED <<audio, task, locals, reqs, asked, fails>>

(* The client comes to an end and tells with e.                             *)
Ends(c, e) ==
    /\ client' = [client EXCEPT ![c] = "free"]
    /\ cloud_mqtt_evt_cb(e)

Opened(c) ==
    /\ client[c] = "opening"
    /\ \/ client' = [client EXCEPT ![c] = "open"] /\ cloud_mqtt_evt_cb("OPEN_OK")
       \/ Ends(c, "OPEN_BAD")
    /\ UNCHANGED sent /\ Unchanged_cb

Connected(c) ==
    /\ client[c] = "connecting"
    /\ \/ client' = [client EXCEPT ![c] = "connected"] /\ cloud_mqtt_evt_cb("CONNECT_OK")
       \/ client' = [client EXCEPT ![c] = "open"] /\ cloud_mqtt_evt_cb("CONNECT_BAD")
    /\ UNCHANGED sent /\ Unchanged_cb

Subscribed(c) ==
    /\ client[c] = "subscribing"
    /\ \/ client' = [client EXCEPT ![c] = "on"] /\ cloud_mqtt_evt_cb("SUBACK_OK")
       \/ client' = [client EXCEPT ![c] = "connected"] /\ cloud_mqtt_evt_cb("SUBACK_BAD")
    /\ UNCHANGED sent /\ Unchanged_cb

Message(c) ==
    /\ client[c] = "on" /\ sent < MaxMessages
    /\ sent' = sent + 1
    /\ cloud_mqtt_evt_cb("NEW_MESSAGE")
    /\ UNCHANGED client /\ Unchanged_cb

LinkLost(c) ==
    /\ c \in Live /\ client[c] # "opening"
    /\ Ends(c, "STATE")
    /\ UNCHANGED sent /\ Unchanged_cb

CloseReported(c) ==
    /\ c \in Live /\ c \in asked
    /\ Ends(c, "CLOSE")
    /\ UNCHANGED sent /\ Unchanged_cb

Sdk == \E c \in Clients :
    \/ Opened(c) \/ Connected(c) \/ Subscribed(c) \/ Message(c)
    \/ LinkLost(c) \/ CloseReported(c)

Next == AudioTask \/ MqttTask \/ Sdk

Spec == Init /\ [][Next]_vars

(* Both tasks are scheduled, and xf_tts_speak returns.                      *)
Fairness == WF_vars(AudioTask) /\ WF_vars(MqttTask)

FairSpec == Spec /\ Fairness
=============================================================================
