-------------------------- MODULE CloudChannelProofs --------------------------
(* What CloudChannelProperties claims of CloudChannel, proved for every     *)
(* depth of the queue, and why a lost link is noticed.                      *)
EXTENDS CloudChannelProperties, TLAPS

(* Posting an event keeps the queue a queue of its bounded length.          *)
LEMMA PostType ==
    ASSUME TypeOK, NEW m \in Msgs, cloud_event_cb(m)
    PROVE  /\ msgq' \in Seq(Msgs) /\ Len(msgq') <= MsgqDepth
           /\ lost' \in BOOLEAN
<1>1. msgq \in Seq(Msgs) /\ Len(msgq) \in Nat /\ Len(msgq) <= MsgqDepth
  BY DEF TypeOK
<1>2. CASE Len(msgq) < MsgqDepth
  <2>1. msgq' = Append(msgq, m) /\ lost' = lost
    BY <1>2 DEF cloud_event_cb
  <2>2. Append(msgq, m) \in Seq(Msgs) /\ Len(Append(msgq, m)) = Len(msgq) + 1
    BY <1>1
  <2>3. lost' \in BOOLEAN
    BY <2>1 DEF TypeOK
  <2>4. QED
    BY <1>1, <1>2, <2>1, <2>2, <2>3, DepthAssumption
<1>3. CASE ~(Len(msgq) < MsgqDepth)
  BY <1>1, <1>3 DEF cloud_event_cb, TypeOK
<1>4. QED
  BY <1>2, <1>3

(* So does taking one.                                                      *)
LEMMA ReceiveType ==
    ASSUME TypeOK, NEW m, Next_msg(m)
    PROVE  msgq' \in Seq(Msgs) /\ Len(msgq') <= MsgqDepth
<1>1. msgq \in Seq(Msgs) /\ msgq # <<>> /\ Len(msgq) <= MsgqDepth
  BY DEF TypeOK, Next_msg
<1>2. Tail(msgq) \in Seq(Msgs) /\ Len(Tail(msgq)) = Len(msgq) - 1
  BY <1>1
<1>3. QED
  BY <1>1, <1>2, DepthAssumption DEF Next_msg

(* Unless the task works with a link there is none, and nothing of it is    *)
(* left; when the task opens the next one, not even an event.               *)
Quiet ==
    /\ task \in {"drain", "open", "sleep"} => link = "closed" /\ sub = "none" /\ pubs = 0
    /\ closing => task = "sleep"
    /\ task = "open" => msgq = <<>>

ChannelInv == TypeOK /\ Quiet

(* The channel starts without a link.                                       *)
LEMMA ChannelInvInit == Init => ChannelInv
<1> SUFFICES ASSUME Init PROVE ChannelInv
  OBVIOUS
<1>1. msgq \in Seq(Msgs) /\ Len(msgq) <= MsgqDepth
  BY DepthAssumption DEF Init
<1>2. pubs \in 0..Inflight
  BY DepthAssumption DEF Init
<1>3. closing = FALSE /\ lost = FALSE
  BY DEF Init
<1>4. TypeOK
  BY <1>1, <1>2, <1>3 DEF Init, TypeOK, Links
<1>5. Quiet
  BY <1>3 DEF Init, Quiet
<1>6. QED
  BY <1>4, <1>5 DEF ChannelInv

(* The steps of the task keep the invariant.                                *)
LEMMA TaskInv == ASSUME ChannelInv, cloud_task PROVE ChannelInv'
<1> USE DEF ChannelInv
<1>1. msgq' \in Seq(Msgs) /\ Len(msgq') <= MsgqDepth
  <2>1. CASE cloud_drain_msgq
    <3>1. msgq' = <<>>
      BY <2>1 DEF cloud_drain_msgq
    <3>2. QED
      BY <3>1, DepthAssumption
  <2>2. CASE cloud_open \/ CloseLink \/ Wake
    BY <2>2 DEF cloud_open, CloseLink, Wake, TypeOK
  <2>3. CASE cloud_connect \/ cloud_subscribe \/ cloud_publish \/ LogOnly \/ GoDown
    BY <2>3, ReceiveType
       DEF cloud_connect, cloud_subscribe, cloud_publish, LogOnly, GoDown
  <2>4. QED
    BY <2>1, <2>2, <2>3 DEF cloud_task
<1>2. TypeOK'
  <2>1. CASE cloud_drain_msgq \/ cloud_open \/ Wake
    BY <1>1, <2>1 DEF cloud_drain_msgq, cloud_open, Wake, TypeOK, Links, client
  <2>2. CASE CloseLink
    BY <1>1, <2>2, DepthAssumption DEF CloseLink, TypeOK, Links
  <2>3. CASE cloud_connect \/ cloud_subscribe \/ LogOnly \/ GoDown
    BY <1>1, <2>3 DEF cloud_connect, cloud_subscribe, LogOnly, GoDown, Next_msg,
                      TypeOK, Links
  <2>4. CASE cloud_publish
    <3>1. pubs' \in 0..Inflight
      BY <2>4, DepthAssumption DEF cloud_publish, TypeOK
    <3>2. QED
      BY <1>1, <2>4, <3>1 DEF cloud_publish, Next_msg, TypeOK
  <2>5. QED
    BY <2>1, <2>2, <2>3, <2>4 DEF cloud_task
<1>3. Quiet'
  BY DEF cloud_task, cloud_drain_msgq, cloud_open, cloud_connect, cloud_subscribe,
         cloud_publish, LogOnly, GoDown, CloseLink, Wake, Next_msg, Quiet, client
<1>4. QED
  BY <1>2, <1>3

(* The MQTT client reports only while the task works with a link, or sleeps *)
(* after it asked for the close.                                            *)
LEMMA ClientInv == ASSUME ChannelInv, MqttClient PROVE ChannelInv'
<1> USE DEF ChannelInv
<1>1. /\ msgq' \in Seq(Msgs) /\ Len(msgq') <= MsgqDepth
      /\ lost' \in BOOLEAN
  BY PostType DEF MqttClient, Opened, Connected, Subscribed, Message, Published,
                  LinkLost, CloseReported, Msgs
<1>2. task' = task
  BY DEF MqttClient, Opened, Connected, Subscribed, Message, Published, LinkLost,
         CloseReported
<1>3. pubs' \in 0..Inflight
  BY DepthAssumption
     DEF MqttClient, Opened, Connected, Subscribed, Message, Published, LinkLost,
         CloseReported, client, TypeOK
<1>4. TypeOK'
  BY <1>1, <1>2, <1>3, ZenonT(60)
     DEF MqttClient, Opened, Connected, Subscribed, Message, Published, LinkLost,
         CloseReported, client, TypeOK, Links
<1>5. task \in {"wait", "close", "sleep"}
  BY DEF MqttClient, Opened, Connected, Subscribed, Message, Published, LinkLost,
         CloseReported, Quiet, TypeOK
<1>6. Quiet'
  BY <1>2, <1>5
     DEF MqttClient, Opened, Connected, Subscribed, Message, Published, LinkLost,
         CloseReported, client, Quiet, TypeOK
<1>7. QED
  BY <1>4, <1>6

(* Every step keeps the inductive invariant.                                *)
LEMMA ChannelInvInductive == ChannelInv /\ [Next]_vars => ChannelInv'
<1> SUFFICES ASSUME ChannelInv, [Next]_vars PROVE ChannelInv'
  OBVIOUS
<1>1. CASE Next
  BY <1>1, TaskInv, ClientInv DEF Next
<1>2. CASE UNCHANGED vars
  BY <1>2 DEF vars, client, ChannelInv, TypeOK, Quiet
<1>3. QED
  BY <1>1, <1>2

(* A new link is opened only when nothing of the old one is left, neither   *)
(* in the MQTT client nor in the queue, for every depth of the queue.       *)
THEOREM ChannelOpensClean == Spec => OpensClean
<1>1. ChannelInv /\ [Next]_vars
        => [cloud_open => link = "closed" /\ sub = "none" /\ ~closing
                            /\ msgq = <<>>]_vars
  BY DEF ChannelInv, Quiet, cloud_open, TypeOK
<1>2. QED
  BY <1>1, ChannelInvInit, ChannelInvInductive, PTL DEF Spec, OpensClean

(* Every variable of the channel keeps its type, and its queue the bound,   *)
(* for every depth of the queue (mqtt_client.c:135-140).                    *)
THEOREM ChannelTypeCorrect == Spec => []TypeOK
<1>1. ChannelInv => TypeOK
  BY DEF ChannelInv
<1>2. QED
  BY <1>1, ChannelInvInit, ChannelInvInductive, PTL DEF Spec

-----------------------------------------------------------------------------
(* What RetriesUnlessDropped rests on                                       *)

(* A client that opens a link has nothing else to report.                   *)
OpensAlone ==
    link = "opening" => task = "wait" /\ msgq = <<>> /\ sub = "none" /\ pubs = 0

Tells(q) == \E i \in 1..Len(q) : q[i] \in Failures

(* A task that waits for the next event while the link is down will find    *)
(* out: an event that says so is in the queue, unless it was dropped there. *)
LossNoticed == task = "wait" /\ link = "closed" /\ ~lost => Tells(msgq)

NoticeInv == ChannelInv /\ OpensAlone /\ LossNoticed

(* An event at the end of the queue leaves those before it in their places. *)
LEMMA AppendTells ==
    ASSUME NEW q \in Seq(Msgs), NEW m \in Msgs
    PROVE  /\ Tells(q) => Tells(Append(q, m))
           /\ m \in Failures => Tells(Append(q, m))
<1> DEFINE n == Append(q, m)
<1>1. Len(n) = Len(q) + 1 /\ n[Len(q) + 1] = m /\ \A i \in 1..Len(q) : n[i] = q[i]
  OBVIOUS
<1>2. Len(q) \in Nat
  OBVIOUS
<1> HIDE DEF n
<1>3. QED
  BY <1>1, <1>2 DEF Tells

(* So does taking the first one, unless that is the one.                    *)
LEMMA TailTells ==
    ASSUME NEW q \in Seq(Msgs), q # <<>>, Tells(q), Head(q) \notin Failures
    PROVE  Tells(Tail(q))
<1>1. PICK i \in 1..Len(q) : q[i] \in Failures
  BY DEF Tells
<1>2. i # 1
  BY <1>1
<1>3. i - 1 \in 1..Len(Tail(q)) /\ Tail(q)[i - 1] = q[i]
  BY <1>2
<1>4. QED
  BY <1>1, <1>3 DEF Tells

LEMMA NoticeInvInit == Init => NoticeInv
BY ChannelInvInit DEF Init, NoticeInv, OpensAlone, LossNoticed

LEMMA NoticeInvTask == ASSUME NoticeInv, cloud_task PROVE (OpensAlone /\ LossNoticed)'
<1> USE DEF NoticeInv, ChannelInv
<1>1. CASE cloud_drain_msgq \/ CloseLink \/ Wake
  BY <1>1 DEF cloud_drain_msgq, CloseLink, Wake, client, OpensAlone, LossNoticed
<1>2. CASE cloud_open
  BY <1>2 DEF cloud_open, OpensAlone, LossNoticed, Quiet
<1>3. CASE GoDown
  BY <1>3 DEF GoDown, Next_msg, OpensAlone, LossNoticed
<1>4. CASE cloud_connect \/ cloud_subscribe \/ cloud_publish \/ LogOnly
  <2>1. PICK m : Next_msg(m) /\ m \notin Failures
    BY <1>4 DEF cloud_connect, cloud_subscribe, cloud_publish, LogOnly, Failures
  <2>2. msgq \in Seq(Msgs) /\ msgq # <<>> /\ Head(msgq) = m
        /\ msgq' = Tail(msgq) /\ lost' = lost
    BY <2>1 DEF Next_msg, TypeOK
  <2>3. task' = task /\ link' \in {link, "connecting"}
    BY <1>4 DEF cloud_connect, cloud_subscribe, cloud_publish, LogOnly
  <2>4. link # "opening"
    BY <2>2 DEF OpensAlone
  <2>5. LossNoticed'
    BY <2>1, <2>2, <2>3, TailTells DEF LossNoticed
  <2>6. QED
    BY <2>3, <2>4, <2>5 DEF OpensAlone
<1>5. QED
  BY <1>1, <1>2, <1>3, <1>4 DEF cloud_task

(* The client posts the event that ends a link, or records that it could    *)
(* not; every other event leaves what is queued.                            *)
LEMMA NoticeInvClient == ASSUME NoticeInv, MqttClient PROVE (OpensAlone /\ LossNoticed)'
<1> USE DEF NoticeInv, ChannelInv
<1>1. task' = task /\ msgq \in Seq(Msgs)
  BY DEF MqttClient, Opened, Connected, Subscribed, Message, Published, LinkLost,
         CloseReported, TypeOK
<1>2. ASSUME NEW m \in Msgs, cloud_event_cb(m)
      PROVE  /\ Tells(msgq) => Tells(msgq')
             /\ lost => lost'
             /\ Len(msgq) < MsgqDepth /\ m \in Failures => Tells(msgq')
             /\ m = "DOWN" /\ ~closing => Tells(msgq') \/ lost'
  BY <1>1, <1>2, AppendTells DEF cloud_event_cb, Failures
<1>3. CASE Opened
  <2>1. msgq = <<>> /\ Len(msgq) < MsgqDepth
    BY <1>3, DepthAssumption DEF Opened, OpensAlone
  <2>2. CASE link' = "open"
    BY <2>2 DEF OpensAlone, LossNoticed
  <2>3. CASE link' = "closed" /\ cloud_event_cb("OPEN_FAILED")
    <3>1. Tells(msgq')
      BY <1>2, <2>1, <2>3 DEF Msgs, Failures
    <3>2. QED
      BY <2>3, <3>1 DEF OpensAlone, LossNoticed
  <2>4. QED
    BY <1>3, <2>2, <2>3 DEF Opened
<1>4. CASE LinkLost
  <2>1. link' = "closed" /\ cloud_event_cb("DOWN")
    BY <1>4 DEF LinkLost
  <2>2. task = "wait" => ~closing
    BY DEF Quiet
  <2>3. QED
    BY <1>1, <1>2, <2>1, <2>2 DEF OpensAlone, LossNoticed, Msgs
<1>5. CASE Connected
  BY <1>5 DEF Connected, OpensAlone, LossNoticed
<1>6. CASE Subscribed \/ Message \/ Published
  <2>1. /\ link' = link /\ link # "opening"
        /\ \E m \in Msgs : cloud_event_cb(m)
    BY <1>6 DEF Subscribed, Message, Published, client, Msgs, OpensAlone
  <2>2. QED
    BY <1>1, <1>2, <2>1 DEF OpensAlone, LossNoticed
<1>7. CASE CloseReported
  BY <1>1, <1>7 DEF CloseReported, Quiet, OpensAlone, LossNoticed
<1>8. QED
  BY <1>3, <1>4, <1>5, <1>6, <1>7 DEF MqttClient

LEMMA NoticeInvInductive == NoticeInv /\ [Next]_vars => NoticeInv'
<1> SUFFICES ASSUME NoticeInv, [Next]_vars PROVE NoticeInv'
  OBVIOUS
<1>1. ChannelInv'
  BY ChannelInvInductive DEF NoticeInv
<1>2. CASE Next
  BY <1>1, <1>2, NoticeInvTask, NoticeInvClient DEF Next, NoticeInv
<1>3. CASE UNCHANGED vars
  BY <1>1, <1>3 DEF vars, client, NoticeInv, OpensAlone, LossNoticed
<1>4. QED
  BY <1>2, <1>3

(* Whatever its depth, the queue never leaves the task waiting over a link  *)
(* that is down with nothing to tell it so, except by dropping the report   *)
(* (mqtt_client.c:135): an answer to an open is never dropped.              *)
THEOREM ChannelNoticesLoss == Spec => []LossNoticed
<1>1. NoticeInv => LossNoticed
  BY DEF NoticeInv
<1>2. QED
  BY <1>1, NoticeInvInit, NoticeInvInductive, PTL DEF Spec
=============================================================================
