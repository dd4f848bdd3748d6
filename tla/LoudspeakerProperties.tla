------------------------ MODULE LoudspeakerProperties ------------------------
(* What is claimed of Loudspeaker.                                          *)
EXTENDS Loudspeaker

ClientStates == {"free", "created", "opening", "open", "connecting",
                 "connected", "subscribing", "on"}

(* Every variable has its type, and no queue exceeds its depth              *)
(* (cloud_mqtt.c:501, 563).                                                 *)
TypeOK ==
    /\ audio \in {"welcome", "wait", "speak", "ended"}
    /\ task \in {"off", "start", "wait", "sleep"}
    /\ session \in [id : Clients \union {None}, ready : BOOLEAN, closing : BOOLEAN]
    /\ backoff \in BackoffMin..BackoffMax
    /\ was \in BOOLEAN
    /\ evtq \in Seq(Events) /\ Len(evtq) <= EvtDepth
    /\ reqs \in 0..ReqDepth
    /\ client \in [Clients -> ClientStates]
    /\ sent \in 0..MaxMessages
    /\ asked \subseteq Clients /\ fails \in 0..MaxFails

(* 2^n: n doublings of 1.                                                   *)
Power2[n \in 0..MaxFails] == IF n = 0 THEN 1 ELSE 2 * Power2[n - 1]

(* The sleep after the n-th failure in a row is 2^(n-1) times the shortest, *)
(* up to the longest; a session that was subscribed, however late and       *)
(* whatever closed it, starts again at the shortest (cloud_mqtt.c:741-756). *)
SleepFollowsFailures ==
    task = "sleep" /\ fails < MaxFails =>
        LET d == BackoffMin * Power2[IF fails = 0 THEN 0 ELSE fails - 1]
        IN  backoff = IF d < BackoffMax THEN d ELSE BackoffMax

Setup == task = "wait" /\ ~session.ready

(* A session that is not subscribed does not wait forever: it comes to a    *)
(* subscription or returns, even when the SDK answers nothing and when      *)
(* answers meant for an older client arrive.  Every event starts the wait   *)
(* anew: that the events end, answers and messages, is assumed, the         *)
(* messages by MaxMessages (cloud_mqtt.c:620-636).                          *)
SetupEnds == Setup ~> ~Setup
=============================================================================
