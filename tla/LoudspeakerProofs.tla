-------------------------- MODULE LoudspeakerProofs --------------------------
(***************************************************************************)
(* What is proved of Loudspeaker for every number of clients, every depth  *)
(* of the queues and every pair of shortest and longest sleep: its type    *)
(* invariant, and that the sleep between sessions follows the failures.    *)
(***************************************************************************)
EXTENDS LoudspeakerProperties, WellFoundedInduction, TLAPS

SessionType == [id : Clients \union {None}, ready : BOOLEAN, closing : BOOLEAN]
ClientType  == [Clients -> ClientStates]

(* The parts of the type invariant, by who writes them.                     *)
Audio    == audio \in {"welcome", "wait", "speak", "ended"} /\ reqs \in 0..ReqDepth
Sessions == session \in SessionType /\ asked \subseteq Clients
Sleeps   == /\ task \in {"off", "start", "wait", "sleep"}
            /\ was \in BOOLEAN
            /\ backoff \in BackoffMin..BackoffMax /\ fails \in 0..MaxFails
Queue    == evtq \in Seq(Events) /\ Len(evtq) <= EvtDepth
Sdks     == client \in ClientType /\ sent \in 0..MaxMessages

LEMMA TypeParts == TypeOK <=> Audio /\ Sessions /\ Sleeps /\ Queue /\ Sdks
BY DEF TypeOK, Audio, Sessions, Sleeps, Queue, Sdks, SessionType, ClientType

(* The MQTT task is not there before the audio task has started it.         *)
StartedOnce == audio = "welcome" => task = "off"

(* A session that waits for an event has a client, so that only clients     *)
(* are asked to close and only they take requests.                          *)
SessionHasClient == task = "wait" => session.id \in Clients

(* The sleep after n failures, the first not counted.                       *)
Slept(n) == IF BackoffMin * Power2[n] < BackoffMax THEN BackoffMin * Power2[n] ELSE BackoffMax

(* While a session runs, the backoff is already that of its failure; the    *)
(* task doubles it after the sleep, unless the session had been subscribed. *)
BackoffGrows ==
    /\ task \in {"off", "start"} => ~was
    /\ task # "sleep" /\ fails < MaxFails => backoff = Slept(fails)
    /\ task = "sleep" /\ was => fails = 0 /\ backoff = BackoffMin
    /\ task = "sleep" /\ ~was /\ fails < MaxFails => fails > 0 /\ backoff = Slept(fails - 1)

LoudInv == TypeOK /\ StartedOnce /\ SessionHasClient /\ BackoffGrows

-----------------------------------------------------------------------------
(* Powers of two.  Induction over numbers is by the set of the numbers of   *)
(* which the statement holds.                                               *)

LEMMA NatSetInduction ==
    ASSUME NEW S, 0 \in S, \A n \in Nat : n \in S => n + 1 \in S
    PROVE  \A n \in Nat : n \in S
<1> DEFINE R == OpToRel(<, Nat)
           T == Nat \ S
<1>1. IsWellFoundedOn(R, Nat)
  BY NatLessThanWellFounded, Zenon
<1>2. ASSUME T # {} PROVE FALSE
  <2>1. T \subseteq Nat
    OBVIOUS
  <2>2. PICK x \in T : \A y \in T : ~(<<y, x>> \in R)
    <3> HIDE DEF T, R
    <3> QED
      BY <1>1, <1>2, <2>1, WFMin
  <2>3. x \in Nat /\ x # 0
    OBVIOUS
  <2>4. x - 1 \in Nat /\ x - 1 < x /\ (x - 1) + 1 = x
    BY <2>3
  <2>5. <<x - 1, x>> \in R
    BY <2>3, <2>4, Zenon DEF OpToRel
  <2>6. x - 1 \in S
    BY <2>2, <2>4, <2>5
  <2>7. QED
    BY <2>3, <2>4, <2>6
<1>3. QED
  BY <1>2

(* f[i] is 2^i up to n.                                                     *)
Doubles(n, f) == f = [i \in 0..n |-> IF i = 0 THEN 1 ELSE 2 * f[i - 1]]

LEMMA PowersExist == \A n \in Nat : \E f \in [0..n -> Nat] : Doubles(n, f)
<1> DEFINE S == {n \in Nat : \E f \in [0..n -> Nat] : Doubles(n, f)}
<1>1. 0 \in S
  <2> DEFINE f == [i \in 0..0 |-> 1]
  <2>1. f \in [0..0 -> Nat] /\ \A i \in 0..0 : i = 0
    OBVIOUS
  <2>2. f = [i \in 0..0 |-> IF i = 0 THEN 1 ELSE 2 * f[i - 1]]
    BY <2>1
  <2>3. QED
    BY <2>1, <2>2 DEF Doubles
<1>2. ASSUME NEW n \in Nat, n \in S PROVE n + 1 \in S
  <2>1. PICK f \in [0..n -> Nat] : Doubles(n, f)
    BY <1>2
  <2>2. \A i \in 0..n : f[i] = IF i = 0 THEN 1 ELSE 2 * f[i - 1]
    BY <2>1 DEF Doubles
  <2> DEFINE g == [i \in 0..(n + 1) |-> IF i = n + 1 THEN 2 * f[n] ELSE f[i]]
  <2>3. \A i \in 0..(n + 1) : i # n + 1 => i \in 0..n
    OBVIOUS
  <2>4. g \in [0..(n + 1) -> Nat]
    BY <2>3
  <2>5. ASSUME NEW i \in 0..(n + 1) PROVE g[i] = IF i = 0 THEN 1 ELSE 2 * g[i - 1]
    <3>1. i # n + 1 /\ i # 0 => i \in 0..n /\ i - 1 \in 0..n /\ i - 1 # n + 1
      OBVIOUS
    <3>2. n + 1 # 0 /\ (n + 1) - 1 = n /\ n \in 0..n /\ n # n + 1 /\ 0 \in 0..n
      OBVIOUS
    <3>3. QED
      BY <2>2, <3>1, <3>2
  <2>6. Doubles(n + 1, g)
    BY <2>5 DEF Doubles
  <2>7. QED
    <3> HIDE DEF g
    <3> QED
      BY <2>4, <2>6, SMTT(30)
<1>3. QED
  <2> HIDE DEF S
  <2>1. \A n \in Nat : n \in S
    BY <1>1, <1>2, NatSetInduction
  <2>2. QED
    BY <2>1 DEF S

LEMMA PowersDouble ==
    /\ Power2[0] = 1
    /\ \A n \in 0..MaxFails : Power2[n] \in Nat
    /\ \A n \in 0..MaxFails : n + 1 \in 0..MaxFails => Power2[n + 1] = 2 * Power2[n]
<1>1. MaxFails \in Nat
  BY LoudspeakerAssumption
<1>2. PICK f \in [0..MaxFails -> Nat] : Doubles(MaxFails, f)
  BY <1>1, PowersExist
<1>3. Power2 = CHOOSE g : Doubles(MaxFails, g)
  BY DEF Power2, Doubles
<1>4. Doubles(MaxFails, Power2)
  BY <1>2, <1>3
<1>5. \A i \in 0..MaxFails : Power2[i] = IF i = 0 THEN 1 ELSE 2 * Power2[i - 1]
  BY <1>4 DEF Doubles
<1> DEFINE S == {n \in Nat : n <= MaxFails => Power2[n] \in Nat}
<1>6. 0 \in S
  BY <1>1, <1>5
<1>7. ASSUME NEW n \in Nat, n \in S PROVE n + 1 \in S
  <2> SUFFICES ASSUME n + 1 <= MaxFails PROVE Power2[n + 1] \in Nat
    OBVIOUS
  <2>1. n + 1 \in 0..MaxFails /\ n + 1 # 0 /\ (n + 1) - 1 = n /\ n <= MaxFails
    BY <1>1
  <2>2. QED
    BY <1>5, <1>7, <2>1
<1>8. \A n \in Nat : n \in S
  <2> HIDE DEF S
  <2> QED
    BY <1>6, <1>7, NatSetInduction
<1>9. ASSUME NEW n \in 0..MaxFails, n + 1 \in 0..MaxFails PROVE Power2[n + 1] = 2 * Power2[n]
  <2>1. n + 1 # 0 /\ (n + 1) - 1 = n
    OBVIOUS
  <2>2. QED
    BY <1>5, <1>9, <2>1
<1>10. QED
  BY <1>1, <1>5, <1>8, <1>9

-----------------------------------------------------------------------------
(* What the helpers return                                                  *)

LEMMA Sizes ==
    /\ EvtDepth \in Nat /\ EvtDepth > 0 /\ ReqDepth \in Nat /\ ReqDepth > 0
    /\ BackoffMin \in Nat /\ BackoffMin > 0 /\ BackoffMax \in Nat /\ BackoffMin <= BackoffMax
    /\ MaxMessages \in Nat /\ MaxFails \in Nat
BY LoudspeakerAssumption

(* The sleep at least doubles once more, up to the longest.                 *)
LEMMA SleptDoubles ==
    ASSUME NEW n \in 0..MaxFails, n + 1 \in 0..MaxFails
    PROVE  Slept(n + 1) = IF Slept(n) >= BackoffMax THEN Slept(n)
                          ELSE IF 2 * Slept(n) > BackoffMax THEN BackoffMax ELSE 2 * Slept(n)
<1> DEFINE p == Power2[n]
           a == BackoffMin * p
<1>1. p \in Nat /\ Power2[n + 1] = 2 * p
  BY PowersDouble
<1>2. BackoffMin * (2 * p) = 2 * a /\ a \in Nat
  BY <1>1, Sizes
<1>3. Slept(n + 1) = IF 2 * a < BackoffMax THEN 2 * a ELSE BackoffMax
  BY <1>1, <1>2 DEF Slept
<1>4. Slept(n) = IF a < BackoffMax THEN a ELSE BackoffMax
  BY DEF Slept
<1> HIDE DEF p, a
<1>5. QED
  BY <1>2, <1>3, <1>4, Sizes

LEMMA FirstSleep == Slept(0) = BackoffMin
<1>1. BackoffMin * 1 = BackoffMin
  BY Sizes
<1>2. QED
  BY <1>1, PowersDouble, Sizes DEF Slept

LEMMA SessionGoes ==
    /\ NoSession \in SessionType
    /\ \A c \in Clients : [NoSession EXCEPT !.id = c] \in SessionType
    /\ session \in SessionType => /\ [session EXCEPT !.closing = TRUE] \in SessionType
                                  /\ [session EXCEPT !.ready = TRUE] \in SessionType
BY DEF SessionType, NoSession

LEMMA ClientGoes ==
    ASSUME client \in ClientType, NEW c \in Clients, NEW s \in ClientStates
    PROVE  [client EXCEPT ![c] = s] \in ClientType
BY Zenon DEF ClientType

LEMMA TakeFits == ASSUME Queue, NEW e, Take(e) PROVE Queue'
<1>1. evtq \in Seq(Events) /\ evtq # <<>> /\ evtq' = Tail(evtq)
  BY DEF Queue, Take
<1>2. evtq' \in Seq(Events) /\ Len(evtq') = Len(evtq) - 1
  BY <1>1
<1>3. QED
  BY <1>1, <1>2, Sizes DEF Queue

(* A full queue drops the event.                                            *)
LEMMA CallbackFits == ASSUME Queue, NEW e \in Events, cloud_mqtt_evt_cb(e) PROVE Queue'
<1>1. CASE Len(evtq) < EvtDepth
  <2>1. evtq' = Append(evtq, e)
    BY <1>1 DEF cloud_mqtt_evt_cb
  <2>2. QED
    BY <1>1, <2>1, Sizes DEF Queue
<1>2. CASE ~(Len(evtq) < EvtDepth)
  BY <1>2 DEF Queue, cloud_mqtt_evt_cb
<1>3. QED
  BY <1>1, <1>2

(* A session that returns takes up the sleep of its failure.                *)
LEMMA Returns ==
    ASSUME Sleeps, BackoffGrows, task # "sleep", Return
    PROVE  Sleeps' /\ BackoffGrows'
<1> USE Sizes
<1>1. CASE was
  BY <1>1 DEF Sleeps, BackoffGrows, Return
<1>2. CASE ~was
  <2>1. fails' = (IF fails < MaxFails THEN fails + 1 ELSE fails) /\ backoff' = backoff
        /\ was' = was /\ task' = "sleep"
    BY <1>2 DEF Return, Sleeps
  <2>2. fails' < MaxFails => fails < MaxFails /\ fails' > 0 /\ fails' - 1 = fails
    BY <2>1 DEF Sleeps
  <2>3. fails' < MaxFails => backoff' = Slept(fails' - 1)
    BY <2>1, <2>2 DEF BackoffGrows
  <2>4. Sleeps'
    BY <2>1 DEF Sleeps
  <2>5. BackoffGrows'
    BY <1>2, <2>1, <2>2, <2>3 DEF BackoffGrows, Slept
  <2>6. QED
    BY <2>4, <2>5
<1>3. QED
  BY <1>1, <1>2 DEF Sleeps

-----------------------------------------------------------------------------
(* Each step keeps its part of the invariant.                               *)

LEMMA AudioKept == LoudInv /\ Next => (Audio /\ StartedOnce)'
<1> SUFFICES ASSUME LoudInv, Next PROVE (Audio /\ StartedOnce)'
  OBVIOUS
<1> USE TypeParts, Sizes
    DEF LoudInv, Audio, StartedOnce, sdk, locals, Unchanged_wait, Unchanged_cb
<1>1. CASE cloud_mqtt_start
  BY <1>1 DEF cloud_mqtt_start
<1>2. CASE cloud_mqtt_wait_request
  BY <1>2 DEF cloud_mqtt_wait_request
<1>3. CASE Spoken
  BY <1>3 DEF Spoken
<1>4. CASE cloud_mqtt_task
  BY <1>4 DEF cloud_mqtt_task
<1>5. CASE OpenSession
  BY <1>5 DEF OpenSession
<1>6. CASE Timeout
  BY <1>6 DEF Timeout
<1>7. CASE HandleOpen
  BY <1>7 DEF HandleOpen, Take
<1>8. CASE HandleConnect
  BY <1>8 DEF HandleConnect, Take
<1>9. CASE HandleSuback
  BY <1>9 DEF HandleSuback, Take
<1>10. CASE HandleRefusal
  BY <1>10 DEF HandleRefusal, Take
<1>11. CASE cloud_mqtt_handle_message
  BY <1>11 DEF cloud_mqtt_handle_message, Take
<1>12. CASE HandleEnd
  BY <1>12 DEF HandleEnd, Take
<1>13. ASSUME NEW c \in Clients,
             Opened(c) \/ Connected(c) \/ Subscribed(c) \/ Message(c)
             \/ LinkLost(c) \/ CloseReported(c)
       PROVE  (Audio /\ StartedOnce)'
  BY <1>13
     DEF Opened, Connected, Subscribed, Message, LinkLost, CloseReported
<1>14. QED
  BY <1>1, <1>2, <1>3, <1>4, <1>5, <1>6, <1>7, <1>8, <1>9, <1>10, <1>11, <1>12, <1>13
     DEF Next, AudioTask, MqttTask, cloud_mqtt_session, Sdk

LEMMA SessionsKept == LoudInv /\ Next => (Sessions /\ SessionHasClient)'
<1> SUFFICES ASSUME LoudInv, Next PROVE (Sessions /\ SessionHasClient)'
  OBVIOUS
<1> USE TypeParts
    DEF LoudInv, Sessions, SessionHasClient, sdk, locals, Unchanged_wait, Unchanged_cb
<1>1. CASE cloud_mqtt_start
  BY <1>1 DEF cloud_mqtt_start
<1>2. CASE cloud_mqtt_wait_request
  BY <1>2 DEF cloud_mqtt_wait_request
<1>3. CASE Spoken
  BY <1>3 DEF Spoken
<1>4. CASE cloud_mqtt_task
  BY <1>4 DEF cloud_mqtt_task
<1>5. CASE OpenSession
  <2>1. CASE Return /\ UNCHANGED asked
    BY <2>1, SessionGoes DEF Return
  <2>2. ASSUME NEW c \in Clients, asked' = asked \ {c}, Return
        PROVE  (Sessions /\ SessionHasClient)'
    BY <2>2, SessionGoes DEF Return
  <2>3. ASSUME NEW c \in Clients, asked' = asked \ {c},
               session' = [NoSession EXCEPT !.id = c]
        PROVE  (Sessions /\ SessionHasClient)'
    BY <2>3, SessionGoes DEF NoSession
  <2>4. QED
    BY <1>5, <2>1, <2>2, <2>3 DEF OpenSession
<1>6. CASE Timeout
  BY <1>6, SessionGoes DEF Timeout, Return, RequestClose, SessionType
<1>7. CASE HandleOpen
  BY <1>7, SessionGoes DEF HandleOpen, Take, Request, Return, RequestClose, SessionType
<1>8. CASE HandleConnect
  BY <1>8, SessionGoes DEF HandleConnect, Take, Request, RequestClose, SessionType
<1>9. CASE HandleSuback
  BY <1>9, SessionGoes DEF HandleSuback, Take, SessionType
<1>10. CASE HandleRefusal
  BY <1>10, SessionGoes DEF HandleRefusal, Take, RequestClose, SessionType
<1>11. CASE cloud_mqtt_handle_message
  BY <1>11 DEF cloud_mqtt_handle_message
<1>12. CASE HandleEnd
  BY <1>12, SessionGoes DEF HandleEnd, Return
<1>13. ASSUME NEW c \in Clients,
             Opened(c) \/ Connected(c) \/ Subscribed(c) \/ Message(c)
             \/ LinkLost(c) \/ CloseReported(c)
       PROVE  (Sessions /\ SessionHasClient)'
  BY <1>13
     DEF Opened, Connected, Subscribed, Message, LinkLost, CloseReported
<1>14. QED
  BY <1>1, <1>2, <1>3, <1>4, <1>5, <1>6, <1>7, <1>8, <1>9, <1>10, <1>11, <1>12, <1>13
     DEF Next, AudioTask, MqttTask, cloud_mqtt_session, Sdk

LEMMA SleepsKept == LoudInv /\ Next => (Sleeps /\ BackoffGrows)'
<1> SUFFICES ASSUME LoudInv, Next PROVE (Sleeps /\ BackoffGrows)'
  OBVIOUS
<1>0. Sleeps /\ BackoffGrows
  BY TypeParts DEF LoudInv
<1> USE <1>0, Sizes DEF sdk, locals, Unchanged_wait, Unchanged_cb
<1>1. CASE cloud_mqtt_start
  <2>1. UNCHANGED <<was, backoff, fails>> /\ task' \in {task, "start"}
    BY <1>1 DEF cloud_mqtt_start
  <2>2. QED
    BY <1>1, <2>1 DEF LoudInv, StartedOnce, cloud_mqtt_start, Sleeps, BackoffGrows, Slept
<1>2. CASE cloud_mqtt_wait_request
  BY <1>2 DEF cloud_mqtt_wait_request, Sleeps, BackoffGrows, Slept
<1>3. CASE Spoken
  BY <1>3 DEF Spoken, Sleeps, BackoffGrows, Slept
<1>4. CASE cloud_mqtt_task
  <2>1. CASE was
    BY <1>4, <2>1, FirstSleep DEF cloud_mqtt_task, Sleeps, BackoffGrows, Slept
  <2>2. CASE ~was
    <3>1. task' = "start" /\ was' = FALSE /\ fails' = fails
          /\ backoff' = IF backoff >= BackoffMax THEN backoff
                        ELSE IF 2 * backoff > BackoffMax THEN BackoffMax ELSE 2 * backoff
      BY <1>4, <2>2 DEF cloud_mqtt_task
    <3>2. Sleeps'
      <4>1. task' \in {"off", "start", "wait", "sleep"} /\ was' \in BOOLEAN
        BY <3>1, Zenon
      <4>2. backoff' \in BackoffMin..BackoffMax /\ fails' \in 0..MaxFails
        BY <3>1 DEF Sleeps
      <4>3. QED
        BY <4>1, <4>2 DEF Sleeps
    <3>3. ASSUME fails < MaxFails PROVE backoff' = Slept(fails)
      <4>1. /\ fails - 1 \in 0..MaxFails /\ fails \in 0..MaxFails
            /\ backoff = Slept(fails - 1) /\ fails - 1 + 1 = fails
        BY <1>4, <2>2, <3>3 DEF cloud_mqtt_task, BackoffGrows, Sleeps
      <4>2. QED
        BY <3>1, <4>1, SleptDoubles
    <3>4. QED
      BY <3>1, <3>2, <3>3 DEF BackoffGrows, Slept
  <2>3. QED
    BY <2>1, <2>2 DEF Sleeps
<1>5. CASE OpenSession
  <2>1. CASE Return
    BY <1>5, <2>1, Returns DEF OpenSession
  <2>2. CASE task' = "wait" /\ UNCHANGED <<was, backoff, fails>>
    BY <1>5, <2>2 DEF OpenSession, Sleeps, BackoffGrows, Slept
  <2>3. QED
    BY <1>5, <2>1, <2>2 DEF OpenSession
<1>6. CASE Timeout
  <2>1. CASE Return
    BY <1>6, <2>1, Returns DEF Timeout
  <2>2. CASE Unchanged_wait
    BY <1>6, <2>2 DEF Sleeps, BackoffGrows, Slept
  <2>3. QED
    BY <1>6, <2>1, <2>2 DEF Timeout
<1>7. CASE HandleOpen
  <2>1. CASE Return
    BY <1>7, <2>1, Returns DEF HandleOpen, Take
  <2>2. CASE Unchanged_wait
    BY <1>7, <2>2 DEF Sleeps, BackoffGrows, Slept
  <2>3. QED
    BY <1>7, <2>1, <2>2 DEF HandleOpen
<1>8. CASE HandleConnect
  BY <1>8 DEF HandleConnect, Sleeps, BackoffGrows, Slept
<1>9. CASE HandleSuback
  BY <1>9 DEF HandleSuback, Take, Sleeps, BackoffGrows, Slept
<1>10. CASE HandleRefusal
  BY <1>10 DEF HandleRefusal, Sleeps, BackoffGrows, Slept
<1>11. CASE cloud_mqtt_handle_message
  BY <1>11 DEF cloud_mqtt_handle_message, Sleeps, BackoffGrows, Slept
<1>12. CASE HandleEnd
  BY <1>12, Returns DEF HandleEnd, Take
<1>13. ASSUME NEW c \in Clients,
             Opened(c) \/ Connected(c) \/ Subscribed(c) \/ Message(c)
             \/ LinkLost(c) \/ CloseReported(c)
       PROVE  (Sleeps /\ BackoffGrows)'
  BY <1>13
     DEF Opened, Connected, Subscribed, Message, LinkLost, CloseReported, Sleeps,
         BackoffGrows, Slept
<1>14. QED
  BY <1>1, <1>2, <1>3, <1>4, <1>5, <1>6, <1>7, <1>8, <1>9, <1>10, <1>11, <1>12, <1>13
     DEF Next, AudioTask, MqttTask, cloud_mqtt_session, Sdk

LEMMA QueueKept == LoudInv /\ Next => Queue'
<1> SUFFICES ASSUME LoudInv, Next PROVE Queue'
  OBVIOUS
<1> USE TypeParts, Sizes DEF LoudInv, Unchanged_wait
<1>1. CASE cloud_mqtt_start
  BY <1>1 DEF cloud_mqtt_start, Queue
<1>2. CASE cloud_mqtt_wait_request
  BY <1>2 DEF cloud_mqtt_wait_request, Queue
<1>3. CASE Spoken
  BY <1>3 DEF Spoken, Queue
<1>4. CASE cloud_mqtt_task
  BY <1>4 DEF cloud_mqtt_task, Queue
<1>5. CASE OpenSession
  BY <1>5 DEF OpenSession, Queue
<1>6. CASE Timeout
  BY <1>6 DEF Timeout, Queue
<1>7. CASE HandleOpen
  BY <1>7, TakeFits DEF HandleOpen
<1>8. CASE HandleConnect
  BY <1>8, TakeFits DEF HandleConnect
<1>9. CASE HandleSuback
  BY <1>9, TakeFits DEF HandleSuback
<1>10. CASE HandleRefusal
  BY <1>10, TakeFits DEF HandleRefusal
<1>11. CASE cloud_mqtt_handle_message
  BY <1>11, TakeFits DEF cloud_mqtt_handle_message
<1>12. CASE HandleEnd
  BY <1>12, TakeFits DEF HandleEnd
<1>13. ASSUME NEW c \in Clients,
             Opened(c) \/ Connected(c) \/ Subscribed(c) \/ Message(c)
             \/ LinkLost(c) \/ CloseReported(c)
       PROVE  Queue'
  <2>1. \E e \in Events : cloud_mqtt_evt_cb(e)
    BY <1>13 DEF Opened, Connected, Subscribed, Message, LinkLost, CloseReported, Ends, Events
  <2>2. QED
    BY <2>1, CallbackFits
<1>14. QED
  BY <1>1, <1>2, <1>3, <1>4, <1>5, <1>6, <1>7, <1>8, <1>9, <1>10, <1>11, <1>12, <1>13
     DEF Next, AudioTask, MqttTask, cloud_mqtt_session, Sdk

LEMMA SdksKept == LoudInv /\ Next => Sdks'
<1> SUFFICES ASSUME LoudInv, Next PROVE Sdks'
  OBVIOUS
<1> USE TypeParts, Sizes DEF LoudInv, sdk, Unchanged_wait
<1>1. CASE cloud_mqtt_start
  BY <1>1 DEF cloud_mqtt_start, Sdks
<1>2. CASE cloud_mqtt_wait_request
  BY <1>2 DEF cloud_mqtt_wait_request, Sdks
<1>3. CASE Spoken
  BY <1>3 DEF Spoken, Sdks
<1>4. CASE cloud_mqtt_task
  BY <1>4 DEF cloud_mqtt_task, Sdks
<1>5. CASE OpenSession
  <2>1. client \in ClientType /\ sent' = sent
    BY <1>5 DEF OpenSession, Sdks
  <2>2. client' \in ClientType
    BY <1>5, <2>1, ClientGoes, ZenonT(60) DEF OpenSession, ClientStates
  <2>3. QED
    BY <2>1, <2>2 DEF Sdks
<1>6. CASE Timeout
  BY <1>6 DEF Timeout, Sdks
<1>7. CASE HandleOpen
  <2>1. session.id \in Clients /\ client \in ClientType
    BY <1>7 DEF HandleOpen, Take, SessionHasClient, Sdks
  <2>2. QED
    BY <1>7, <2>1, ClientGoes DEF HandleOpen, Request, Sdks, ClientStates
<1>8. CASE HandleConnect
  <2>1. session.id \in Clients /\ client \in ClientType
    BY <1>8 DEF HandleConnect, Take, SessionHasClient, Sdks
  <2>2. QED
    BY <1>8, <2>1, ClientGoes DEF HandleConnect, Request, Sdks, ClientStates
<1>9. CASE HandleSuback
  BY <1>9 DEF HandleSuback, Sdks
<1>10. CASE HandleRefusal
  BY <1>10 DEF HandleRefusal, Sdks
<1>11. CASE cloud_mqtt_handle_message
  BY <1>11 DEF cloud_mqtt_handle_message, Sdks
<1>12. CASE HandleEnd
  BY <1>12 DEF HandleEnd, Sdks
<1>13. ASSUME NEW c \in Clients,
             Opened(c) \/ Connected(c) \/ Subscribed(c) \/ Message(c)
             \/ LinkLost(c) \/ CloseReported(c)
       PROVE  Sdks'
  <2>1. client \in ClientType
    BY DEF Sdks
  <2>2. client' \in ClientType
    BY <1>13, <2>1, ClientGoes
       DEF Opened, Connected, Subscribed, Message, LinkLost, CloseReported, Ends, ClientStates
  <2>3. sent' \in 0..MaxMessages
    BY <1>13 DEF Opened, Connected, Subscribed, Message, LinkLost, CloseReported, Sdks
  <2>4. QED
    BY <2>2, <2>3 DEF Sdks
<1>14. QED
  BY <1>1, <1>2, <1>3, <1>4, <1>5, <1>6, <1>7, <1>8, <1>9, <1>10, <1>11, <1>12, <1>13
     DEF Next, AudioTask, MqttTask, cloud_mqtt_session, Sdk

LEMMA LoudInvInit == Init => LoudInv
<1> SUFFICES ASSUME Init PROVE LoudInv
  OBVIOUS
<1> USE Sizes DEF Init
<1>1. Sessions /\ Audio
  BY SessionGoes DEF Sessions, Audio
<1>2. Queue
  BY DEF Queue
<1>3. Sleeps
  <2>1. task \in {"off", "start", "wait", "sleep"} /\ was \in BOOLEAN
    BY Zenon
  <2>2. backoff \in BackoffMin..BackoffMax /\ fails \in 0..MaxFails
    OBVIOUS
  <2>3. QED
    BY <2>1, <2>2 DEF Sleeps
<1>4. Sdks
  BY DEF Sdks, ClientType, ClientStates
<1>5. StartedOnce /\ SessionHasClient /\ BackoffGrows
  BY FirstSleep DEF SessionHasClient, BackoffGrows, StartedOnce
<1>6. QED
  BY <1>1, <1>2, <1>3, <1>4, <1>5, TypeParts DEF LoudInv

LEMMA LoudInvInductive == LoudInv /\ [Next]_vars => LoudInv'
<1>1. TypeOK' <=> (Audio /\ Sessions /\ Sleeps /\ Queue /\ Sdks)'
  BY TypeParts, PTL
<1>2. LoudInv /\ Next => LoudInv'
  BY <1>1, AudioKept, SessionsKept, SleepsKept, QueueKept, SdksKept DEF LoudInv
<1>3. LoudInv /\ UNCHANGED vars => LoudInv'
  BY DEF LoudInv, vars, locals, sdk, TypeOK, StartedOnce, SessionHasClient, BackoffGrows, Slept
<1>4. QED
  BY <1>2, <1>3

-----------------------------------------------------------------------------
(* Every variable has its type: however late the events of an older client  *)
(* come, both queues keep within their depths, only clients are asked to    *)
(* close, and the backoff stays within its bounds (cloud_mqtt.c:501, 563).  *)
THEOREM LoudspeakerTypeCorrect == Spec => []TypeOK
<1>1. LoudInv => TypeOK
  BY DEF LoudInv
<1>2. QED
  BY <1>1, LoudInvInit, LoudInvInductive, PTL DEF Spec

(* Whatever ended the sessions before and in whichever order events and     *)
(* timeouts came, the sleep is the shortest one doubled for every failure   *)
(* after the first, up to the longest; a session that was subscribed starts *)
(* again at the shortest (cloud_mqtt.c:741-756).                            *)
THEOREM SleepGrowsWithFailures == Spec => []SleepFollowsFailures
<1>1. LoudInv => SleepFollowsFailures
  <2> SUFFICES ASSUME LoudInv, task = "sleep", fails < MaxFails
               PROVE  backoff = Slept(IF fails = 0 THEN 0 ELSE fails - 1)
    BY DEF SleepFollowsFailures, Slept
  <2>1. was \in BOOLEAN
    BY DEF LoudInv, TypeOK
  <2>2. CASE was
    BY <2>2, FirstSleep DEF LoudInv, BackoffGrows
  <2>3. CASE ~was
    BY <2>3, Sizes DEF LoudInv, BackoffGrows, TypeOK
  <2>4. QED
    BY <2>1, <2>2, <2>3
<1>2. QED
  BY <1>1, LoudInvInit, LoudInvInductive, PTL DEF Spec
=============================================================================
