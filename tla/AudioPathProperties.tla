------------------------- MODULE AudioPathProperties -------------------------
(* What is claimed of AudioPath.                                             *)
EXTENDS AudioPath

(* Every variable has its type; the queue holds no more than its depth and   *)
(* the downlink no more than its array held (coze_audio_task.c:544, 705).    *)
TypeOK ==
    /\ flags \in [active : BOOLEAN, ptt : BOOLEAN, playing : BOOLEAN, open : BOOLEAN]
    /\ mode \in Modes /\ player \in BOOLEAN /\ capture \in BOOLEAN
    /\ queue \in 0..QueueDepth
    /\ timer \in [window : 0..DropWindow, cool : 0..Cooldown]
    /\ link \in BOOLEAN /\ busy \in BOOLEAN
    /\ core \in Flushing \union {"idle", "started", "failed", "stopping", "released"}
    /\ worker \in {"idle", "push", "drained", "closed"}
    /\ up \in {"top", "built", "checked", "reopen"}
    /\ dn \in [pc : {"wait", "idling", "took", "hold", "play", "start", "write"},
               held : 0..Prebuffer, idle : BOOLEAN]
    /\ residue \in Nat
    /\ sent \in [complete : BOOLEAN, appends : Nat]

(* After an interruption, as long as the drop window is open, no more is     *)
(* played than the frames the downlink had taken from the queue before: a    *)
(* frame that reaches the queue between the drain and the window is dropped  *)
(* when it is taken (coze_audio_task.c:527-541, 755-788).                    *)
BoundedResidue == coze_audio_drop_window_active => residue <= Prebuffer

(* Once complete is sent the uplink sends at most the one frame that passed  *)
(* its second look before the button was released (coze_audio_task.c:383).   *)
OneTrailingAppend == sent.complete => sent.appends <= 1

(* The loudspeaker does not stay muted, even when the cloud reports speech   *)
(* again and again: nothing to clear means no new window (:750-753, 770).    *)
(* What could keep it muted is a player opened anew by ever new sessions.    *)
MuteEnds == []<>(~coze_audio_drop_window_active \/ core = "started")

Stopped == ~flags.active /\ ~link

(* A player that the downlink opened again while the session was being       *)
(* stopped is closed when no frame comes for a second (:500-517).            *)
StopReleasesPlayer == Stopped ~> (~Stopped \/ ~player)

(* coze_audio_task.c:383-388: no append after complete.                      *)
NoAppendAfterComplete == sent.complete => sent.appends = 0
=============================================================================
