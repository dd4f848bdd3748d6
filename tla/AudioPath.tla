------------------------------ MODULE AudioPath ------------------------------
(***************************************************************************)
(* The audio of voice_chatbot: network/coze_audio_task.c, the streams it   *)
(* opens and closes (audio/audio_player.c, audio/audio_capture.c) and what *)
(* network/coze_protocol.c makes of the messages about it.                 *)
(*                                                                         *)
(* Four tasks share flags, a queue and two streams without a lock.  The    *)
(* core task starts and stops a session and handles the talk button, the   *)
(* worker handles the messages of the cloud, the uplink sends what the     *)
(* microphone hears and the downlink plays what the cloud says.  A step    *)
(* ends where another task can get in between two accesses that matter.    *)
(*                                                                         *)
(* Frames are all alike.  Time passes in units of the barge-in cooldown,   *)
(* and only the two deadlines of a flush see it pass; every other wait may *)
(* end at any time.                                                        *)
(***************************************************************************)
EXTENDS Integers

CONSTANTS
    QueueDepth,   \* CHATBOT_DOWNLINK_QUEUE_DEPTH
    Prebuffer,    \* CHATBOT_DOWNLINK_PREBUFFER_FRAMES
    DropWindow,   \* CHATBOT_BARGEIN_DROP_WINDOW_MS, in units of the cooldown
    Cooldown      \* CHATBOT_BARGEIN_FLUSH_COOLDOWN_MS, in the same units

ASSUME AudioAssumption == {QueueDepth, Prebuffer, DropWindow, Cooldown} \subseteq Nat \ {0}

VARIABLES
    flags,   \* g_audio_active, g_ptt_pressed, g_downlink_playing, g_player_open
    mode,    \* g_session_mode
    player,  \* the player stream is open
    capture, \* the capture stream is open
    queue,   \* frames in g_downlink_queue
    timer,   \* what is left of the drop window and of the cooldown
    link,    \* the websocket is open
    busy,    \* s_chat_busy
    core,    \* where the core task is
    worker,  \* where the worker is
    up,      \* where the uplink is
    dn,      \* where the downlink is, the frames it holds, and idle_before
    residue, \* history: frames written to the player while the drop window is open
    sent     \* history: complete was the last word of the button, and appends since

streams == <<player, capture>>
tasks   == <<core, worker, up, dn>>
vars    == <<flags, mode, streams, queue, timer, link, busy, tasks, residue, sent>>

Modes == {"VOICE", "BUTTON"}

(* Where a task is inside coze_audio_flush_downlink.                        *)
Flushing == {"drained", "closed", "flushed"}

Init ==
    /\ flags = [active |-> FALSE, ptt |-> FALSE, playing |-> FALSE, open |-> FALSE]
    /\ mode = "VOICE"
    /\ player = FALSE /\ capture = FALSE
    /\ queue = 0
    /\ timer = [window |-> 0, cool |-> 0]
    /\ link = FALSE /\ busy = FALSE
    /\ core = "idle"
    /\ worker = "idle"
    /\ up = "top"
    /\ dn = [pc |-> "wait", held |-> 0, idle |-> TRUE]
    /\ residue = 0
    /\ sent = [complete |-> FALSE, appends |-> 0]

coze_audio_drop_window_active == timer.window > 0

-----------------------------------------------------------------------------
(* coze_audio_flush_downlink, of a task that is at pc and goes on to next   *)

(* Flushes also when there is nothing to clear.                              *)
DrainQueue_Wrong(next) ==
    \/ timer.cool > 0 /\ next = "flushed" /\ UNCHANGED queue
    \/ timer.cool = 0 /\ queue' = 0 /\ next = "drained"

(* Returns at once in the cooldown; otherwise empties the queue, and returns *)
(* when there was nothing to clear.                                          *)
DrainQueue(next) ==
    \/ timer.cool > 0 /\ next = "flushed" /\ UNCHANGED queue
    \/ /\ timer.cool = 0 /\ queue' = 0
       /\ next = IF queue = 0 /\ ~flags.open THEN "flushed" ELSE "drained"

ClosePlayer ==
    /\ player' = IF flags.open THEN FALSE ELSE player
    /\ flags' = [flags EXCEPT !.open = FALSE]

SetWindow ==
    /\ flags' = [flags EXCEPT !.playing = FALSE]
    /\ timer' = [window |-> DropWindow, cool |-> Cooldown]
    /\ residue' = 0

-----------------------------------------------------------------------------
(* The core task                                                             *)

Connect ==
    /\ core = "idle" /\ ~link /\ link' = TRUE
    /\ UNCHANGED <<flags, mode, streams, queue, timer, busy, tasks, residue, sent>>

(* coze_session_on_connected: resets the flags of the button and opens the   *)
(* streams, which may fail.                                                  *)
StartStreams ==
    /\ core = "idle"
    /\ \E m \in Modes, ok \in BOOLEAN :
         /\ mode' = m
         /\ flags' = [flags EXCEPT !.ptt = FALSE]
         /\ capture' \in {capture, TRUE}
         /\ player' = IF ok THEN TRUE ELSE player
         /\ ok => capture'
         /\ core' = IF ok THEN "started" ELSE "failed"
    /\ sent' = [complete |-> FALSE, appends |-> 0]
    /\ UNCHANGED <<queue, timer, link, busy, worker, up, dn, residue>>

SetActive ==
    /\ core = "started" /\ core' = "idle"
    /\ flags' = [flags EXCEPT !.active = TRUE, !.open = TRUE]
    /\ UNCHANGED <<mode, streams, queue, timer, link, busy, worker, up, dn, residue, sent>>

(* coze_session_stop: the flags, then the streams and the websocket;         *)
(* s_chat_busy stays.                                                        *)
ClearFlags ==
    /\ core \in {"idle", "failed"} /\ core' = "stopping"
    /\ flags' = [active |-> FALSE, ptt |-> FALSE, playing |-> FALSE, open |-> FALSE]
    /\ timer' = [window |-> 0, cool |-> 0] /\ residue' = 0
    /\ UNCHANGED <<mode, streams, queue, link, busy, worker, up, dn, sent>>

CloseStreams ==
    /\ core = "stopping" /\ core' = "idle"
    /\ player' = FALSE /\ capture' = FALSE /\ link' = FALSE
    /\ UNCHANGED <<flags, mode, queue, timer, busy, worker, up, dn, residue, sent>>

(* coze_audio_set_ptt_pressed(QOSA_TRUE)                                     *)
Press ==
    /\ core = "idle" /\ flags.active /\ mode = "BUTTON"
    /\ \E next \in Flushing :
         /\ core' = next
         /\ \/ /\ ~flags.ptt /\ (busy \/ flags.playing) /\ DrainQueue(next)
            \/ /\ flags.ptt \/ (~busy /\ ~flags.playing)
               /\ next = "flushed" /\ UNCHANGED queue
    /\ UNCHANGED <<flags, mode, streams, timer, link, busy, worker, up, dn, residue, sent>>

PressCloses ==
    /\ core = "drained" /\ core' = "closed"
    /\ ClosePlayer
    /\ UNCHANGED <<mode, capture, queue, timer, link, busy, worker, up, dn, residue, sent>>

PressSets ==
    /\ core = "closed" /\ core' = "flushed"
    /\ SetWindow
    /\ UNCHANGED <<mode, streams, queue, link, busy, worker, up, dn, sent>>

(* The cancel, if any, changes nothing here; its report clears s_chat_busy.  *)
PressTalks ==
    /\ core = "flushed" /\ core' = "idle"
    /\ flags' = [flags EXCEPT !.ptt = TRUE]
    /\ sent' = [complete |-> FALSE, appends |-> 0]
    /\ UNCHANGED <<mode, streams, queue, timer, link, busy, worker, up, dn, residue>>

(* Leaves g_ptt_pressed as it is.                                            *)
Release_Wrong ==
    /\ core = "idle" /\ flags.active /\ mode = "BUTTON"
    /\ core' = "released"
    /\ UNCHANGED <<flags, mode, streams, queue, timer, link, busy, worker, up, dn, residue, sent>>

Release ==
    /\ core = "idle" /\ flags.active /\ mode = "BUTTON"
    /\ core' = "released"
    /\ flags' = [flags EXCEPT !.ptt = FALSE]
    /\ UNCHANGED <<mode, streams, queue, timer, link, busy, worker, up, dn, residue, sent>>

(* coze_session_send_audio_complete                                          *)
Complete ==
    /\ core = "released" /\ core' = "idle"
    /\ sent' = [complete |-> TRUE, appends |-> 0]
    /\ UNCHANGED <<flags, mode, streams, queue, timer, link, busy, worker, up, dn, residue>>

CoreGoesOn ==
    \/ SetActive \/ CloseStreams \/ (core = "failed" /\ ClearFlags)
    \/ PressCloses \/ PressSets \/ PressTalks \/ Complete

-----------------------------------------------------------------------------
(* The worker: coze_protocol_dispatch_downlink                               *)

(* coze_audio_downlink_push, up to the check of the drop window.             *)
AudioDelta ==
    /\ worker = "idle" /\ link /\ ~coze_audio_drop_window_active
    /\ worker' = "push"
    /\ UNCHANGED <<flags, mode, streams, queue, timer, link, busy, core, up, dn, residue, sent>>

Push ==
    /\ worker = "push" /\ worker' = "idle"
    /\ queue' = IF queue < QueueDepth THEN queue + 1 ELSE queue
    /\ UNCHANGED <<flags, mode, streams, timer, link, busy, core, up, dn, residue, sent>>

(* The cloud reports speech in VOICE mode only.                              *)
SpeechStarted ==
    /\ worker = "idle" /\ link /\ mode = "VOICE"
    /\ \E next \in Flushing :
         DrainQueue(next) /\ worker' = IF next = "flushed" THEN "idle" ELSE next
    /\ UNCHANGED <<flags, mode, streams, timer, link, busy, core, up, dn, residue, sent>>

SpeechCloses ==
    /\ worker = "drained" /\ worker' = "closed"
    /\ ClosePlayer
    /\ UNCHANGED <<mode, capture, queue, timer, link, busy, core, up, dn, residue, sent>>

SpeechSets ==
    /\ worker = "closed" /\ worker' = "idle"
    /\ SetWindow
    /\ UNCHANGED <<mode, streams, queue, link, busy, core, up, dn, sent>>

(* conversation.chat.created, and .completed, .failed or .canceled.          *)
TurnBegins ==
    /\ worker = "idle" /\ link
    /\ busy' = TRUE
    /\ UNCHANGED <<flags, mode, streams, queue, timer, link, tasks, residue, sent>>

TurnEnds ==
    /\ worker = "idle" /\ link /\ busy
    /\ busy' = FALSE
    /\ UNCHANGED <<flags, mode, streams, queue, timer, link, tasks, residue, sent>>

WorkerGoesOn == Push \/ SpeechCloses \/ SpeechSets

-----------------------------------------------------------------------------
(* uplink_task_process                                                       *)

(* A whole frame was read, and is to be sent.                                *)
BuildFrame ==
    /\ up = "top" /\ flags.active /\ capture /\ (mode = "VOICE" \/ flags.ptt)
    /\ up' = "built"
    /\ UNCHANGED <<flags, mode, streams, queue, timer, link, busy, core, worker, dn, residue, sent>>

(* The second look at g_ptt_pressed.                                         *)
CheckFrame ==
    /\ up = "built"
    /\ up' = IF mode = "BUTTON" /\ ~flags.ptt THEN "top" ELSE "checked"
    /\ UNCHANGED <<flags, mode, streams, queue, timer, link, busy, core, worker, dn, residue, sent>>

SendFrame ==
    /\ up = "checked" /\ up' = "top"
    /\ sent' = IF sent.complete THEN [sent EXCEPT !.appends = @ + 1] ELSE sent
    /\ UNCHANGED <<flags, mode, streams, queue, timer, link, busy, core, worker, dn, residue>>

(* No data for a while: the stream is closed, and opened again 20 ms later.  *)
CloseStalled ==
    /\ up = "top" /\ flags.active /\ up' = "reopen"
    /\ capture' = FALSE
    /\ UNCHANGED <<flags, mode, player, queue, timer, link, busy, core, worker, dn, residue, sent>>

Reopen ==
    /\ up = "reopen" /\ up' = "top"
    /\ capture' \in {capture, TRUE}
    /\ UNCHANGED <<flags, mode, player, queue, timer, link, busy, core, worker, dn, residue, sent>>

Uplink == BuildFrame \/ CheckFrame \/ SendFrame \/ CloseStalled \/ Reopen

-----------------------------------------------------------------------------
(* downlink_task_process                                                     *)

TakeFrame ==
    /\ dn.pc = "wait" /\ queue > 0
    /\ queue' = queue - 1 /\ dn' = [dn EXCEPT !.pc = "took"]
    /\ UNCHANGED <<flags, mode, streams, timer, link, busy, core, worker, up, residue, sent>>

(* Leaves the player open after the last frame.                              *)
CloseIdle_Wrong ==
    /\ dn.pc = "wait" /\ queue = 0 /\ ~dn.idle
    /\ dn' = [dn EXCEPT !.pc = "idling"]
    /\ flags' = [flags EXCEPT !.playing = FALSE]
    /\ UNCHANGED <<mode, streams, queue, timer, link, busy, core, worker, up, residue, sent>>

(* A second without a frame.                                                 *)
CloseIdle ==
    /\ dn.pc = "wait" /\ queue = 0 /\ ~dn.idle
    /\ dn' = [dn EXCEPT !.pc = "idling"]
    /\ flags' = [flags EXCEPT !.playing = FALSE]
    /\ player' = FALSE
    /\ UNCHANGED <<mode, capture, queue, timer, link, busy, core, worker, up, residue, sent>>

SetIdle ==
    /\ dn.pc = "idling" /\ dn' = [dn EXCEPT !.pc = "wait", !.idle = TRUE]
    /\ flags' = [flags EXCEPT !.open = FALSE]
    /\ UNCHANGED <<mode, streams, queue, timer, link, busy, core, worker, up, residue, sent>>

(* Holds the frame back, or plays it; does not look at the drop window.      *)
GateFrame_Wrong ==
    /\ dn.pc = "took"
    /\ dn' = [dn EXCEPT !.pc = IF dn.idle THEN "hold" ELSE "play", !.held = 1]
    /\ flags' = [flags EXCEPT !.playing = IF dn.idle THEN @ ELSE TRUE]
    /\ UNCHANGED <<mode, streams, queue, timer, link, busy, core, worker, up, residue, sent>>

(* A frame of an inactive session waits here, for 5 s at most.               *)
GateFrame ==
    /\ dn.pc = "took"
    /\ \/ /\ coze_audio_drop_window_active
          /\ dn' = [dn EXCEPT !.pc = "wait"] /\ UNCHANGED flags
       \/ /\ ~coze_audio_drop_window_active /\ dn.idle
          /\ dn' = [dn EXCEPT !.pc = "hold", !.held = 1] /\ UNCHANGED flags
       \/ /\ ~coze_audio_drop_window_active /\ ~dn.idle
          /\ dn' = [dn EXCEPT !.pc = "play", !.held = 1]
          /\ flags' = [flags EXCEPT !.playing = TRUE]
    /\ UNCHANGED <<mode, streams, queue, timer, link, busy, core, worker, up, residue, sent>>

(* Collects one frame more than the array holds.                             *)
HoldFrame_Wrong ==
    /\ dn.pc = "hold" /\ dn.held <= Prebuffer /\ queue > 0
    /\ queue' = queue - 1 /\ dn' = [dn EXCEPT !.held = @ + 1]
    /\ UNCHANGED <<flags, mode, streams, timer, link, busy, core, worker, up, residue, sent>>

HoldFrame ==
    /\ dn.pc = "hold" /\ dn.held < Prebuffer /\ queue > 0
    /\ queue' = queue - 1 /\ dn' = [dn EXCEPT !.held = @ + 1]
    /\ UNCHANGED <<flags, mode, streams, timer, link, busy, core, worker, up, residue, sent>>

EndHold ==
    /\ dn.pc = "hold"
    /\ dn' = [dn EXCEPT !.pc = "play", !.idle = FALSE]
    /\ flags' = [flags EXCEPT !.playing = TRUE]
    /\ UNCHANGED <<mode, streams, queue, timer, link, busy, core, worker, up, residue, sent>>

(* downlink_play_one_frame for every frame held: drops it when the session   *)
(* is not active, opens the player, which may fail, and writes.              *)
CheckActive ==
    /\ dn.pc = "play" /\ dn.held > 0
    /\ dn' = IF flags.active THEN [dn EXCEPT !.pc = "start"] ELSE [dn EXCEPT !.held = @ - 1]
    /\ UNCHANGED <<flags, mode, streams, queue, timer, link, busy, core, worker, up, residue, sent>>

StartPlayer ==
    /\ dn.pc = "start"
    /\ \/ /\ player' = TRUE /\ flags' = [flags EXCEPT !.open = TRUE]
          /\ dn' = [dn EXCEPT !.pc = "write"]
       \/ /\ ~player /\ dn' = [dn EXCEPT !.pc = "play", !.held = @ - 1]
          /\ UNCHANGED <<player, flags>>
    /\ UNCHANGED <<mode, capture, queue, timer, link, busy, core, worker, up, residue, sent>>

WriteFrame ==
    /\ dn.pc = "write" /\ dn' = [dn EXCEPT !.pc = "play", !.held = @ - 1]
    /\ residue' = IF player /\ timer.window > 0 THEN residue + 1 ELSE residue
    /\ UNCHANGED <<flags, mode, streams, queue, timer, link, busy, core, worker, up, sent>>

EndPlay ==
    /\ dn.pc = "play" /\ dn.held = 0 /\ dn' = [dn EXCEPT !.pc = "wait"]
    /\ UNCHANGED <<flags, mode, streams, queue, timer, link, busy, core, worker, up, residue, sent>>

Downlink ==
    \/ TakeFrame \/ CloseIdle \/ SetIdle \/ GateFrame \/ HoldFrame \/ EndHold
    \/ CheckActive \/ StartPlayer \/ WriteFrame \/ EndPlay

-----------------------------------------------------------------------------
(* The system tick reaches the two deadlines.                                *)
Less(n) == IF n > 0 THEN n - 1 ELSE 0

Elapse ==
    /\ timer.window > 0 \/ timer.cool > 0
    /\ timer' = [window |-> Less(timer.window), cool |-> Less(timer.cool)]
    /\ residue' = IF timer'.window = 0 THEN 0 ELSE residue
    /\ UNCHANGED <<flags, mode, streams, queue, link, busy, tasks, sent>>

Next ==
    \/ Connect \/ StartStreams \/ ClearFlags \/ Press \/ Release \/ CoreGoesOn
    \/ AudioDelta \/ SpeechStarted \/ TurnBegins \/ TurnEnds \/ WorkerGoesOn
    \/ Uplink \/ Downlink \/ Elapse

Spec == Init /\ [][Next]_vars

(* The tasks go on and time passes; nothing makes the user or the cloud act. *)
FairSpec ==
    /\ Spec
    /\ WF_vars(CoreGoesOn) /\ WF_vars(WorkerGoesOn)
    /\ WF_vars(Downlink) /\ WF_vars(Elapse)
=============================================================================
