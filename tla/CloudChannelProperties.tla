------------------------ MODULE CloudChannelProperties ------------------------
(* What is claimed of CloudChannel.                                         *)
EXTENDS CloudChannel

Links == {"closed", "opening", "open", "connecting", "connected"}

(* Every variable has its type; the queue never exceeds its depth.          *)
TypeOK ==
    /\ task \in {"drain", "open", "wait", "close", "sleep"}
    /\ msgq \in Seq(Msgs) /\ Len(msgq) <= MsgqDepth
    /\ link \in Links
    /\ sub \in {"none", "asked", "acked"}
    /\ pubs \in 0..Inflight
    /\ closing \in BOOLEAN /\ lost \in BOOLEAN

(* A link is opened only after the last one is closed for good and nothing  *)
(* it reported is left in the queue: no answer of an old link is taken for  *)
(* one of the new link (mqtt_client.c:576).                                 *)
OpensClean ==
    [][ cloud_open => /\ link = "closed" /\ sub = "none" /\ ~closing
                      /\ msgq = <<>> ]_vars

(* After a link is closed the task tries again, unless the report of the    *)
(* loss was dropped at a full queue: it waits for events without a timeout. *)
RetriesUnlessDropped == (link = "closed") ~> (task = "open" \/ lost)
=============================================================================
