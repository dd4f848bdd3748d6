--------------------------- MODULE AudioPathProofs ---------------------------
(***************************************************************************)
(* What is proved of AudioPath for every depth of the queue, every number  *)
(* of frames held back and every drop window: its type invariant, how much *)
(* is still played after an interruption, how much is still sent after the *)
(* button was released, and that someone is left to close the player.      *)
(***************************************************************************)
EXTENDS AudioPathProperties, TLAPS

(* The parts of the type invariant: what is on or off, and what is counted  *)
(* or is a place in a task.                                                 *)
FlagsType == [active : BOOLEAN, ptt : BOOLEAN, playing : BOOLEAN, open : BOOLEAN]

Switches ==
    /\ flags \in FlagsType /\ mode \in Modes
    /\ player \in BOOLEAN /\ capture \in BOOLEAN /\ link \in BOOLEAN /\ busy \in BOOLEAN

Counts ==
    /\ queue \in 0..QueueDepth
    /\ timer \in [window : 0..DropWindow, cool : 0..Cooldown]
    /\ core \in Flushing \union {"idle", "started", "failed", "stopping", "released"}
    /\ worker \in {"idle", "push", "drained", "closed"}
    /\ up \in {"top", "built", "checked", "reopen"}
    /\ dn \in [pc : {"wait", "idling", "took", "hold", "play", "start", "write"},
               held : 0..Prebuffer, idle : BOOLEAN]
    /\ residue \in Nat
    /\ sent \in [complete : BOOLEAN, appends : Nat]

LEMMA TypeParts == TypeOK <=> Switches /\ Counts
BY DEF TypeOK, Switches, Counts, FlagsType

LEMMA FlagGoes ==
    ASSUME flags \in FlagsType, NEW b \in BOOLEAN
    PROVE  /\ [flags EXCEPT !.active = b] \in FlagsType
           /\ [flags EXCEPT !.ptt = b] \in FlagsType
           /\ [flags EXCEPT !.playing = b] \in FlagsType
           /\ [flags EXCEPT !.open = b] \in FlagsType
BY Zenon DEF FlagsType

(* The downlink holds frames from the gate to the last write, and no more   *)
(* than the prebuffer takes.                                                *)
HeldFits ==
    /\ dn.pc \in {"wait", "idling", "took"} => dn.held = 0
    /\ dn.pc \in {"hold", "start", "write"} => dn.held > 0

(* What was played in the window and what the downlink may still hold back. *)
StillHeld == IF dn.pc = "hold" THEN Prebuffer ELSE dn.held

ResidueFits == timer.window > 0 => residue + StillHeld <= Prebuffer

(* From the release on, the session is one of the button, which is up.      *)
ReleaseHolds == core = "released" \/ sent.complete => ~flags.ptt /\ mode = "BUTTON"

(* What was sent after complete and the frame that passed its second look.  *)
TrailFits ==
    sent.complete => /\ sent.appends <= 1
                     /\ up = "checked" => sent.appends = 0

(* The steps of the core task and of the worker.                            *)
CoreSteps   == Connect \/ StartStreams \/ ClearFlags \/ Press \/ Release \/ CoreGoesOn
WorkerSteps == AudioDelta \/ SpeechStarted \/ TurnBegins \/ TurnEnds \/ WorkerGoesOn

AudioInv == TypeOK /\ HeldFits /\ ResidueFits /\ ReleaseHolds /\ TrailFits

-----------------------------------------------------------------------------
(* Each step keeps the types.                                               *)

LEMMA CoreSwitches == AudioInv /\ CoreSteps => Switches'
<1> SUFFICES ASSUME AudioInv, CoreSteps PROVE Switches'
  OBVIOUS
<1> USE TypeParts, FlagGoes DEF AudioInv, Switches, streams, tasks
<1>1. CASE Connect
  BY <1>1 DEF Connect
<1>2. CASE StartStreams
  BY <1>2 DEF StartStreams
<1>3. CASE SetActive
  <2>1. [flags EXCEPT !.active = TRUE, !.open = TRUE] \in FlagsType
    BY ZenonT(60) DEF FlagsType
  <2>2. QED
    BY <1>3, <2>1 DEF SetActive
<1>4. CASE ClearFlags
  <2>1. [active |-> FALSE, ptt |-> FALSE, playing |-> FALSE, open |-> FALSE] \in FlagsType
    BY DEF FlagsType
  <2>2. QED
    BY <1>4, <2>1 DEF ClearFlags
<1>5. CASE CloseStreams
  BY <1>5 DEF CloseStreams
<1>6. CASE Press
  BY <1>6 DEF Press, DrainQueue, Flushing
<1>7. CASE PressCloses
  BY <1>7 DEF PressCloses, ClosePlayer
<1>8. CASE PressSets
  BY <1>8 DEF PressSets, SetWindow
<1>9. CASE PressTalks
  BY <1>9 DEF PressTalks
<1>10. CASE Release
  BY <1>10 DEF Release
<1>11. CASE Complete
  BY <1>11 DEF Complete
<1>12. QED
  BY <1>1, <1>2, <1>3, <1>4, <1>5, <1>6, <1>7, <1>8, <1>9, <1>10, <1>11
     DEF CoreSteps, CoreGoesOn

LEMMA CoreCounts == AudioInv /\ CoreSteps => Counts'
<1> SUFFICES ASSUME AudioInv, CoreSteps PROVE Counts'
  OBVIOUS
<1> USE AudioAssumption DEF AudioInv, TypeOK, Counts, HeldFits, Modes, Flushing, streams, tasks
<1>1. CASE Connect
  BY <1>1 DEF Connect
<1>2. CASE StartStreams
  BY <1>2 DEF StartStreams
<1>3. CASE SetActive
  BY <1>3 DEF SetActive
<1>4. CASE ClearFlags
  BY <1>4 DEF ClearFlags
<1>5. CASE CloseStreams
  BY <1>5 DEF CloseStreams
<1>6. CASE Press
  BY <1>6 DEF Press, DrainQueue, Flushing
<1>7. CASE PressCloses
  BY <1>7 DEF PressCloses, ClosePlayer
<1>8. CASE PressSets
  BY <1>8 DEF PressSets, SetWindow
<1>9. CASE PressTalks
  BY <1>9 DEF PressTalks
<1>10. CASE Release
  BY <1>10 DEF Release
<1>11. CASE Complete
  BY <1>11 DEF Complete
<1>12. QED
  BY <1>1, <1>2, <1>3, <1>4, <1>5, <1>6, <1>7, <1>8, <1>9, <1>10, <1>11
     DEF CoreSteps, CoreGoesOn

LEMMA WorkerSwitches == AudioInv /\ WorkerSteps => Switches'
<1> SUFFICES ASSUME AudioInv, WorkerSteps PROVE Switches'
  OBVIOUS
<1> USE TypeParts, FlagGoes DEF AudioInv, Switches, streams, tasks
<1>1. CASE AudioDelta
  BY <1>1 DEF AudioDelta, coze_audio_drop_window_active
<1>2. CASE Push
  BY <1>2 DEF Push
<1>3. CASE SpeechStarted
  BY <1>3 DEF SpeechStarted, DrainQueue, Flushing
<1>4. CASE SpeechCloses
  BY <1>4 DEF SpeechCloses, ClosePlayer
<1>5. CASE SpeechSets
  BY <1>5 DEF SpeechSets, SetWindow
<1>6. CASE TurnBegins
  BY <1>6 DEF TurnBegins
<1>7. CASE TurnEnds
  BY <1>7 DEF TurnEnds
<1>8. QED
  BY <1>1, <1>2, <1>3, <1>4, <1>5, <1>6, <1>7
     DEF WorkerSteps, WorkerGoesOn

LEMMA WorkerCounts == AudioInv /\ WorkerSteps => Counts'
<1> SUFFICES ASSUME AudioInv, WorkerSteps PROVE Counts'
  OBVIOUS
<1> USE AudioAssumption DEF AudioInv, TypeOK, Counts, HeldFits, Modes, Flushing, streams, tasks
<1>1. CASE AudioDelta
  BY <1>1 DEF AudioDelta, coze_audio_drop_window_active
<1>2. CASE Push
  BY <1>2 DEF Push
<1>3. CASE SpeechStarted
  BY <1>3 DEF SpeechStarted, DrainQueue, Flushing
<1>4. CASE SpeechCloses
  BY <1>4 DEF SpeechCloses, ClosePlayer
<1>5. CASE SpeechSets
  BY <1>5 DEF SpeechSets, SetWindow
<1>6. CASE TurnBegins
  BY <1>6 DEF TurnBegins
<1>7. CASE TurnEnds
  BY <1>7 DEF TurnEnds
<1>8. QED
  BY <1>1, <1>2, <1>3, <1>4, <1>5, <1>6, <1>7
     DEF WorkerSteps, WorkerGoesOn

LEMMA UplinkSwitches == AudioInv /\ Uplink => Switches'
<1> SUFFICES ASSUME AudioInv, Uplink PROVE Switches'
  OBVIOUS
<1> USE TypeParts, FlagGoes DEF AudioInv, Switches, streams, tasks
<1>1. CASE BuildFrame
  BY <1>1 DEF BuildFrame
<1>2. CASE CheckFrame
  BY <1>2 DEF CheckFrame
<1>3. CASE SendFrame
  BY <1>3 DEF SendFrame
<1>4. CASE CloseStalled
  BY <1>4 DEF CloseStalled
<1>5. CASE Reopen
  BY <1>5 DEF Reopen
<1>6. QED
  BY <1>1, <1>2, <1>3, <1>4, <1>5
     DEF Uplink

LEMMA UplinkCounts == AudioInv /\ Uplink => Counts'
<1> SUFFICES ASSUME AudioInv, Uplink PROVE Counts'
  OBVIOUS
<1> USE AudioAssumption DEF AudioInv, TypeOK, Counts, HeldFits, Modes, Flushing, streams, tasks
<1>1. CASE BuildFrame
  BY <1>1 DEF BuildFrame
<1>2. CASE CheckFrame
  BY <1>2 DEF CheckFrame
<1>3. CASE SendFrame
  BY <1>3 DEF SendFrame
<1>4. CASE CloseStalled
  BY <1>4 DEF CloseStalled
<1>5. CASE Reopen
  BY <1>5 DEF Reopen
<1>6. QED
  BY <1>1, <1>2, <1>3, <1>4, <1>5
     DEF Uplink

LEMMA DownlinkSwitches == AudioInv /\ Downlink => Switches'
<1> SUFFICES ASSUME AudioInv, Downlink PROVE Switches'
  OBVIOUS
<1> USE TypeParts, FlagGoes DEF AudioInv, Switches, streams, tasks
<1>1. CASE TakeFrame
  BY <1>1 DEF TakeFrame
<1>2. CASE CloseIdle
  BY <1>2 DEF CloseIdle
<1>3. CASE SetIdle
  BY <1>3 DEF SetIdle
<1>4. CASE GateFrame
  BY <1>4 DEF GateFrame, coze_audio_drop_window_active
<1>5. CASE HoldFrame
  BY <1>5 DEF HoldFrame
<1>6. CASE EndHold
  BY <1>6 DEF EndHold
<1>7. CASE CheckActive
  BY <1>7 DEF CheckActive
<1>8. CASE StartPlayer
  BY <1>8 DEF StartPlayer
<1>9. CASE WriteFrame
  BY <1>9 DEF WriteFrame
<1>10. CASE EndPlay
  BY <1>10 DEF EndPlay
<1>11. QED
  BY <1>1, <1>2, <1>3, <1>4, <1>5, <1>6, <1>7, <1>8, <1>9, <1>10
     DEF Downlink

LEMMA DownlinkCounts == AudioInv /\ Downlink => Counts'
<1> SUFFICES ASSUME AudioInv, Downlink PROVE Counts'
  OBVIOUS
<1> USE AudioAssumption DEF AudioInv, TypeOK, Counts, HeldFits, Modes, Flushing, streams, tasks
<1>1. CASE TakeFrame
  BY <1>1 DEF TakeFrame
<1>2. CASE CloseIdle
  BY <1>2 DEF CloseIdle
<1>3. CASE SetIdle
  BY <1>3, ZenonT(60) DEF SetIdle
<1>4. CASE GateFrame
  <2>1. 1 \in 0..Prebuffer
    OBVIOUS
  <2>2. dn' \in {[dn EXCEPT !.pc = "wait"], [dn EXCEPT !.pc = "hold", !.held = 1],
                [dn EXCEPT !.pc = "play", !.held = 1]}
    BY <1>4 DEF GateFrame
  <2>3. QED
    BY <1>4, <2>1, <2>2, ZenonT(60) DEF GateFrame
<1>5. CASE HoldFrame
  BY <1>5 DEF HoldFrame
<1>6. CASE EndHold
  BY <1>6, ZenonT(60) DEF EndHold
<1>7. CASE CheckActive
  BY <1>7 DEF CheckActive
<1>8. CASE StartPlayer
  <2>1. dn.held - 1 \in 0..Prebuffer
    BY <1>8 DEF StartPlayer
  <2>2. dn' \in {[dn EXCEPT !.pc = "write"], [dn EXCEPT !.pc = "play", !.held = @ - 1]}
    BY <1>8 DEF StartPlayer
  <2>3. QED
    BY <1>8, <2>1, <2>2, ZenonT(60) DEF StartPlayer
<1>9. CASE WriteFrame
  <2>1. dn.held - 1 \in 0..Prebuffer
    BY <1>9 DEF WriteFrame
  <2>2. dn' \in [pc : {"play"}, held : 0..Prebuffer, idle : BOOLEAN]
    BY <1>9, <2>1 DEF WriteFrame
  <2>3. residue' \in Nat
    BY <1>9 DEF WriteFrame
  <2>4. QED
    BY <1>9, <2>2, <2>3 DEF WriteFrame
<1>10. CASE EndPlay
  BY <1>10 DEF EndPlay
<1>11. QED
  BY <1>1, <1>2, <1>3, <1>4, <1>5, <1>6, <1>7, <1>8, <1>9, <1>10
     DEF Downlink

LEMMA ElapseSwitches == AudioInv /\ Elapse => Switches'
<1> SUFFICES ASSUME AudioInv, Elapse PROVE Switches'
  OBVIOUS
<1> USE TypeParts, FlagGoes DEF AudioInv, Switches, streams, tasks
<1>1. CASE Elapse
  BY <1>1 DEF Elapse, Less
<1>2. QED
  BY <1>1
     DEF Elapse

LEMMA ElapseCounts == AudioInv /\ Elapse => Counts'
<1> SUFFICES ASSUME AudioInv, Elapse PROVE Counts'
  OBVIOUS
<1> USE AudioAssumption DEF AudioInv, TypeOK, Counts, HeldFits, Modes, Flushing, streams, tasks
<1>1. CASE Elapse
  BY <1>1 DEF Elapse, Less
<1>2. QED
  BY <1>1
     DEF Elapse

-----------------------------------------------------------------------------
(* Each step keeps what the downlink may still play.                        *)

LEMMA CorePlay == AudioInv /\ CoreSteps => HeldFits' /\ ResidueFits'
<1> SUFFICES ASSUME AudioInv, CoreSteps PROVE HeldFits' /\ ResidueFits'
  OBVIOUS
<1> USE AudioAssumption DEF AudioInv, TypeOK, HeldFits, ResidueFits, StillHeld, streams, tasks
<1>1. CASE Connect
  BY <1>1 DEF Connect
<1>2. CASE StartStreams
  BY <1>2 DEF StartStreams
<1>3. CASE SetActive
  BY <1>3 DEF SetActive
<1>4. CASE ClearFlags
  BY <1>4 DEF ClearFlags
<1>5. CASE CloseStreams
  BY <1>5 DEF CloseStreams
<1>6. CASE Press
  BY <1>6 DEF Press, DrainQueue, Flushing
<1>7. CASE PressCloses
  BY <1>7 DEF PressCloses, ClosePlayer
<1>8. CASE PressSets
  BY <1>8 DEF PressSets, SetWindow
<1>9. CASE PressTalks
  BY <1>9 DEF PressTalks
<1>10. CASE Release
  BY <1>10 DEF Release
<1>11. CASE Complete
  BY <1>11 DEF Complete
<1>12. QED
  BY <1>1, <1>2, <1>3, <1>4, <1>5, <1>6, <1>7, <1>8, <1>9, <1>10, <1>11
     DEF CoreSteps, CoreGoesOn

LEMMA WorkerPlay == AudioInv /\ WorkerSteps => HeldFits' /\ ResidueFits'
<1> SUFFICES ASSUME AudioInv, WorkerSteps PROVE HeldFits' /\ ResidueFits'
  OBVIOUS
<1> USE AudioAssumption DEF AudioInv, TypeOK, HeldFits, ResidueFits, StillHeld, streams, tasks
<1>1. CASE AudioDelta
  BY <1>1 DEF AudioDelta, coze_audio_drop_window_active
<1>2. CASE Push
  BY <1>2 DEF Push
<1>3. CASE SpeechStarted
  BY <1>3 DEF SpeechStarted, DrainQueue, Flushing
<1>4. CASE SpeechCloses
  BY <1>4 DEF SpeechCloses, ClosePlayer
<1>5. CASE SpeechSets
  BY <1>5 DEF SpeechSets, SetWindow
<1>6. CASE TurnBegins
  BY <1>6 DEF TurnBegins
<1>7. CASE TurnEnds
  BY <1>7 DEF TurnEnds
<1>8. QED
  BY <1>1, <1>2, <1>3, <1>4, <1>5, <1>6, <1>7
     DEF WorkerSteps, WorkerGoesOn

LEMMA UplinkPlay == AudioInv /\ Uplink => HeldFits' /\ ResidueFits'
<1> SUFFICES ASSUME AudioInv, Uplink PROVE HeldFits' /\ ResidueFits'
  OBVIOUS
<1> USE AudioAssumption DEF AudioInv, TypeOK, HeldFits, ResidueFits, StillHeld, streams, tasks
<1>1. CASE BuildFrame
  BY <1>1 DEF BuildFrame
<1>2. CASE CheckFrame
  BY <1>2 DEF CheckFrame
<1>3. CASE SendFrame
  BY <1>3 DEF SendFrame
<1>4. CASE CloseStalled
  BY <1>4 DEF CloseStalled
<1>5. CASE Reopen
  BY <1>5 DEF Reopen
<1>6. QED
  BY <1>1, <1>2, <1>3, <1>4, <1>5
     DEF Uplink

LEMMA DownlinkPlay == AudioInv /\ Downlink => HeldFits' /\ ResidueFits'
<1> SUFFICES ASSUME AudioInv, Downlink PROVE HeldFits' /\ ResidueFits'
  OBVIOUS
<1> USE AudioAssumption DEF AudioInv, TypeOK, HeldFits, ResidueFits, StillHeld, streams, tasks
<1>1. CASE TakeFrame
  BY <1>1 DEF TakeFrame
<1>2. CASE CloseIdle
  BY <1>2 DEF CloseIdle
<1>3. CASE SetIdle
  BY <1>3 DEF SetIdle
<1>4. CASE GateFrame
  <2>1. CASE coze_audio_drop_window_active
    BY <1>4, <2>1 DEF GateFrame
  <2>2. CASE ~coze_audio_drop_window_active
    <3>1. UNCHANGED timer /\ ~(timer'.window > 0)
      BY <1>4, <2>2 DEF GateFrame, coze_audio_drop_window_active
    <3>2. dn'.pc \in {"hold", "play"} /\ dn'.held = 1
      BY <1>4, <2>2 DEF GateFrame
    <3>3. QED
      BY <3>1, <3>2
  <2>3. QED
    BY <2>1, <2>2
<1>5. CASE HoldFrame
  BY <1>5 DEF HoldFrame
<1>6. CASE EndHold
  BY <1>6 DEF EndHold
<1>7. CASE CheckActive
  BY <1>7 DEF CheckActive
<1>8. CASE StartPlayer
  <2>1. UNCHANGED <<timer, residue>> /\ dn.pc = "start" /\ dn.held > 0
    BY <1>8 DEF StartPlayer
  <2>2. CASE dn' = [dn EXCEPT !.pc = "write"]
    BY <2>1, <2>2
  <2>3. CASE dn' = [dn EXCEPT !.pc = "play", !.held = @ - 1]
    BY <2>1, <2>3
  <2>4. QED
    BY <1>8, <2>2, <2>3 DEF StartPlayer
<1>9. CASE WriteFrame
  BY <1>9 DEF WriteFrame
<1>10. CASE EndPlay
  BY <1>10 DEF EndPlay
<1>11. QED
  BY <1>1, <1>2, <1>3, <1>4, <1>5, <1>6, <1>7, <1>8, <1>9, <1>10
     DEF Downlink

LEMMA ElapsePlay == AudioInv /\ Elapse => HeldFits' /\ ResidueFits'
<1> SUFFICES ASSUME AudioInv, Elapse PROVE HeldFits' /\ ResidueFits'
  OBVIOUS
<1> USE AudioAssumption DEF AudioInv, TypeOK, HeldFits, ResidueFits, StillHeld, streams, tasks
<1>1. CASE Elapse
  BY <1>1 DEF Elapse, Less
<1>2. QED
  BY <1>1
     DEF Elapse

-----------------------------------------------------------------------------
(* Each step keeps what the button means to the uplink.                     *)

LEMMA CoreTalk == AudioInv /\ CoreSteps => ReleaseHolds' /\ TrailFits'
<1> SUFFICES ASSUME AudioInv, CoreSteps PROVE ReleaseHolds' /\ TrailFits'
  OBVIOUS
<1> USE AudioAssumption DEF AudioInv, TypeOK, ReleaseHolds, TrailFits, Modes, streams, tasks
<1>1. CASE Connect
  BY <1>1 DEF Connect
<1>2. CASE StartStreams
  BY <1>2 DEF StartStreams
<1>3. CASE SetActive
  BY <1>3 DEF SetActive
<1>4. CASE ClearFlags
  BY <1>4 DEF ClearFlags
<1>5. CASE CloseStreams
  BY <1>5 DEF CloseStreams
<1>6. CASE Press
  BY <1>6 DEF Press, DrainQueue, Flushing
<1>7. CASE PressCloses
  BY <1>7 DEF PressCloses, ClosePlayer
<1>8. CASE PressSets
  BY <1>8 DEF PressSets, SetWindow
<1>9. CASE PressTalks
  BY <1>9 DEF PressTalks
<1>10. CASE Release
  BY <1>10 DEF Release
<1>11. CASE Complete
  BY <1>11 DEF Complete
<1>12. QED
  BY <1>1, <1>2, <1>3, <1>4, <1>5, <1>6, <1>7, <1>8, <1>9, <1>10, <1>11
     DEF CoreSteps, CoreGoesOn

LEMMA WorkerTalk == AudioInv /\ WorkerSteps => ReleaseHolds' /\ TrailFits'
<1> SUFFICES ASSUME AudioInv, WorkerSteps PROVE ReleaseHolds' /\ TrailFits'
  OBVIOUS
<1> USE AudioAssumption DEF AudioInv, TypeOK, ReleaseHolds, TrailFits, Modes, streams, tasks
<1>1. CASE AudioDelta
  BY <1>1 DEF AudioDelta, coze_audio_drop_window_active
<1>2. CASE Push
  BY <1>2 DEF Push
<1>3. CASE SpeechStarted
  BY <1>3 DEF SpeechStarted, DrainQueue, Flushing
<1>4. CASE SpeechCloses
  BY <1>4 DEF SpeechCloses, ClosePlayer
<1>5. CASE SpeechSets
  BY <1>5 DEF SpeechSets, SetWindow
<1>6. CASE TurnBegins
  BY <1>6 DEF TurnBegins
<1>7. CASE TurnEnds
  BY <1>7 DEF TurnEnds
<1>8. QED
  BY <1>1, <1>2, <1>3, <1>4, <1>5, <1>6, <1>7
     DEF WorkerSteps, WorkerGoesOn

LEMMA UplinkTalk == AudioInv /\ Uplink => ReleaseHolds' /\ TrailFits'
<1> SUFFICES ASSUME AudioInv, Uplink PROVE ReleaseHolds' /\ TrailFits'
  OBVIOUS
<1> USE AudioAssumption DEF AudioInv, TypeOK, ReleaseHolds, TrailFits, Modes, streams, tasks
<1>1. CASE BuildFrame
  BY <1>1 DEF BuildFrame
<1>2. CASE CheckFrame
  BY <1>2 DEF CheckFrame
<1>3. CASE SendFrame
  BY <1>3 DEF SendFrame
<1>4. CASE CloseStalled
  BY <1>4 DEF CloseStalled
<1>5. CASE Reopen
  BY <1>5 DEF Reopen
<1>6. QED
  BY <1>1, <1>2, <1>3, <1>4, <1>5
     DEF Uplink

LEMMA DownlinkTalk == AudioInv /\ Downlink => ReleaseHolds' /\ TrailFits'
<1> SUFFICES ASSUME AudioInv, Downlink PROVE ReleaseHolds' /\ TrailFits'
  OBVIOUS
<1> USE AudioAssumption DEF AudioInv, TypeOK, ReleaseHolds, TrailFits, Modes, streams, tasks
<1>1. CASE TakeFrame
  BY <1>1 DEF TakeFrame
<1>2. CASE CloseIdle
  BY <1>2 DEF CloseIdle
<1>3. CASE SetIdle
  BY <1>3 DEF SetIdle
<1>4. CASE GateFrame
  BY <1>4 DEF GateFrame, coze_audio_drop_window_active
<1>5. CASE HoldFrame
  BY <1>5 DEF HoldFrame
<1>6. CASE EndHold
  BY <1>6 DEF EndHold
<1>7. CASE CheckActive
  BY <1>7 DEF CheckActive
<1>8. CASE StartPlayer
  BY <1>8 DEF StartPlayer
<1>9. CASE WriteFrame
  BY <1>9 DEF WriteFrame
<1>10. CASE EndPlay
  BY <1>10 DEF EndPlay
<1>11. QED
  BY <1>1, <1>2, <1>3, <1>4, <1>5, <1>6, <1>7, <1>8, <1>9, <1>10
     DEF Downlink

LEMMA ElapseTalk == AudioInv /\ Elapse => ReleaseHolds' /\ TrailFits'
<1> SUFFICES ASSUME AudioInv, Elapse PROVE ReleaseHolds' /\ TrailFits'
  OBVIOUS
<1> USE AudioAssumption DEF AudioInv, TypeOK, ReleaseHolds, TrailFits, Modes, streams, tasks
<1>1. CASE Elapse
  BY <1>1 DEF Elapse, Less
<1>2. QED
  BY <1>1
     DEF Elapse

-----------------------------------------------------------------------------
LEMMA AudioInvInit == Init => AudioInv
<1> SUFFICES ASSUME Init PROVE AudioInv
  OBVIOUS
<1>1. Switches
  BY DEF Init, Switches, FlagsType, Modes
<1>2. 0 \in 0..QueueDepth /\ 0 \in 0..DropWindow /\ 0 \in 0..Cooldown /\ 0 \in 0..Prebuffer
  BY AudioAssumption
<1>3. Counts
  BY <1>2 DEF Init, Counts
<1>4. HeldFits /\ ResidueFits /\ ReleaseHolds /\ TrailFits
  BY DEF Init, HeldFits, ResidueFits, ReleaseHolds, TrailFits
<1>5. QED
  BY <1>1, <1>3, <1>4, TypeParts DEF AudioInv

LEMMA AudioInvStep == AudioInv /\ [Next]_vars => AudioInv'
<1>1. AudioInv /\ Next => TypeOK'
  <2>1. AudioInv /\ Next => Switches'
    BY CoreSwitches, WorkerSwitches, UplinkSwitches, DownlinkSwitches, ElapseSwitches
       DEF Next, CoreSteps, WorkerSteps
  <2>2. AudioInv /\ Next => Counts'
    BY CoreCounts, WorkerCounts, UplinkCounts, DownlinkCounts, ElapseCounts
       DEF Next, CoreSteps, WorkerSteps
  <2>3. QED
    BY <2>1, <2>2 DEF TypeOK, Switches, Counts, FlagsType
<1>2. AudioInv /\ Next => HeldFits' /\ ResidueFits'
  BY CorePlay, WorkerPlay, UplinkPlay, DownlinkPlay, ElapsePlay
       DEF Next, CoreSteps, WorkerSteps
<1>3. AudioInv /\ Next => ReleaseHolds' /\ TrailFits'
  BY CoreTalk, WorkerTalk, UplinkTalk, DownlinkTalk, ElapseTalk
       DEF Next, CoreSteps, WorkerSteps
<1>4. AudioInv /\ UNCHANGED vars => AudioInv'
  BY DEF AudioInv, vars, streams, tasks, TypeOK, HeldFits, ResidueFits, StillHeld, ReleaseHolds,
         TrailFits
<1>5. QED
  BY <1>1, <1>2, <1>3, <1>4 DEF AudioInv

-----------------------------------------------------------------------------
(* The four tasks keep every variable in its type, the queue and the array  *)
(* of held frames included.                                                 *)
THEOREM AudioTypeCorrect == Spec => []TypeOK
<1>1. AudioInv => TypeOK
  BY DEF AudioInv
<1>2. QED
  BY <1>1, AudioInvInit, AudioInvStep, PTL DEF Spec

(* After an interruption no more is played than the downlink had taken,     *)
(* whatever the size of the prebuffer and however the tasks interleave.     *)
THEOREM ResidueIsBounded == Spec => []BoundedResidue
<1>1. AudioInv => BoundedResidue
  BY AudioAssumption
     DEF AudioInv, TypeOK, ResidueFits, StillHeld, BoundedResidue, coze_audio_drop_window_active
<1>2. QED
  BY <1>1, AudioInvInit, AudioInvStep, PTL DEF Spec

(* After complete the uplink sends at most one frame, in every session.     *)
THEOREM AtMostOneTrails == Spec => []OneTrailingAppend
<1>1. AudioInv => OneTrailingAppend
  BY DEF AudioInv, TrailFits, OneTrailingAppend
<1>2. QED
  BY <1>1, AudioInvInit, AudioInvStep, PTL DEF Spec

(* A player that is open outside a session always has someone left to close *)
(* it: the core task, which starts or stops a session, or the downlink,     *)
(* which has played since it last found nothing (coze_audio_task.c:452,     *)
(* 500-517, 626-652).                                                       *)
PlayerHasCloser ==
    player => flags.active \/ core \in {"started", "failed", "stopping"} \/ ~dn.idle

(* The downlink plays only while it remembers to close, and between closing *)
(* the player and forgetting it only the core task can open it again.       *)
ClosesAgain ==
    /\ dn.pc \in {"play", "start", "write"} => ~dn.idle
    /\ dn.pc = "idling" /\ player => flags.active \/ core \in {"started", "failed", "stopping"}
    /\ flags.active => core \notin {"stopping"}
    /\ core \in {"started", "failed", "stopping", "idle"} \/ flags.active

LEMMA CoreCloses ==
    TypeOK /\ PlayerHasCloser /\ ClosesAgain /\ CoreSteps => PlayerHasCloser' /\ ClosesAgain'
<1> SUFFICES ASSUME TypeOK, PlayerHasCloser, ClosesAgain, CoreSteps
             PROVE  PlayerHasCloser' /\ ClosesAgain'
  OBVIOUS
<1> USE DEF TypeOK, PlayerHasCloser, ClosesAgain, Flushing, streams, tasks
<1>1. CASE Connect
  BY <1>1 DEF Connect
<1>2. CASE StartStreams
  BY <1>2 DEF StartStreams
<1>3. CASE SetActive
  BY <1>3 DEF SetActive
<1>4. CASE ClearFlags
  BY <1>4 DEF ClearFlags
<1>5. CASE CloseStreams
  BY <1>5 DEF CloseStreams
<1>6. CASE Press
  BY <1>6 DEF Press
<1>7. CASE PressCloses
  BY <1>7 DEF PressCloses, ClosePlayer
<1>8. CASE PressSets
  BY <1>8 DEF PressSets, SetWindow
<1>9. CASE PressTalks
  BY <1>9 DEF PressTalks
<1>10. CASE Release
  BY <1>10 DEF Release
<1>11. CASE Complete
  BY <1>11 DEF Complete
<1>12. QED
  BY <1>1, <1>2, <1>3, <1>4, <1>5, <1>6, <1>7, <1>8, <1>9, <1>10, <1>11
     DEF CoreSteps, CoreGoesOn

LEMMA OtherCloses ==
    TypeOK /\ PlayerHasCloser /\ ClosesAgain /\ (WorkerSteps \/ Uplink \/ Elapse)
        => PlayerHasCloser' /\ ClosesAgain'
<1> SUFFICES ASSUME TypeOK, PlayerHasCloser, ClosesAgain, WorkerSteps \/ Uplink \/ Elapse
             PROVE  PlayerHasCloser' /\ ClosesAgain'
  OBVIOUS
<1>1. core' = core /\ dn' = dn /\ flags'.active = flags.active /\ (player' => player)
  <2> USE DEF TypeOK, streams, tasks
  <2>1. CASE WorkerSteps
    <3>1. CASE SpeechCloses
      BY <3>1 DEF SpeechCloses, ClosePlayer
    <3>2. CASE SpeechSets
      BY <3>2 DEF SpeechSets, SetWindow
    <3>3. CASE ~SpeechCloses /\ ~SpeechSets
      <4>1. UNCHANGED <<core, dn, flags, player>>
        BY <2>1, <3>3 DEF WorkerSteps, AudioDelta, SpeechStarted, TurnBegins, TurnEnds,
                          WorkerGoesOn, Push
      <4>2. QED
        BY <4>1
    <3>4. QED
      BY <3>1, <3>2, <3>3
  <2>2. CASE Uplink
    <3>1. UNCHANGED <<core, dn, flags, player>>
      BY <2>2 DEF Uplink, BuildFrame, CheckFrame, SendFrame, CloseStalled, Reopen
    <3>2. QED
      BY <3>1
  <2>3. CASE Elapse
    BY <2>3 DEF Elapse
  <2>4. QED
    BY <2>1, <2>2, <2>3
<1>2. QED
  BY <1>1 DEF PlayerHasCloser, ClosesAgain

LEMMA DownlinkCloses ==
    TypeOK /\ PlayerHasCloser /\ ClosesAgain /\ Downlink => PlayerHasCloser' /\ ClosesAgain'
<1> SUFFICES ASSUME TypeOK, PlayerHasCloser, ClosesAgain, Downlink
             PROVE  PlayerHasCloser' /\ ClosesAgain'
  OBVIOUS
<1> USE DEF TypeOK, PlayerHasCloser, ClosesAgain, streams, tasks
<1>1. CASE TakeFrame
  BY <1>1 DEF TakeFrame
<1>2. CASE CloseIdle
  BY <1>2 DEF CloseIdle
<1>3. CASE SetIdle
  BY <1>3 DEF SetIdle
<1>4. CASE GateFrame
  BY <1>4, ZenonT(60) DEF GateFrame
<1>5. CASE HoldFrame
  BY <1>5 DEF HoldFrame
<1>6. CASE EndHold
  BY <1>6 DEF EndHold
<1>7. CASE CheckActive
  BY <1>7 DEF CheckActive
<1>8. CASE StartPlayer
  BY <1>8, ZenonT(60) DEF StartPlayer
<1>9. CASE WriteFrame
  BY <1>9 DEF WriteFrame
<1>10. CASE EndPlay
  BY <1>10 DEF EndPlay
<1>11. QED
  BY <1>1, <1>2, <1>3, <1>4, <1>5, <1>6, <1>7, <1>8, <1>9, <1>10 DEF Downlink

(* However the downlink's open crosses the stop of a session, a player that *)
(* is open outside a session has a task left that closes it                 *)
(* (coze_audio_task.c:452, 500-517, 626-652).                               *)
THEOREM PlayerIsClosedAgain == Spec => []PlayerHasCloser
<1>1. Init => PlayerHasCloser /\ ClosesAgain
  BY DEF Init, PlayerHasCloser, ClosesAgain
<1>2. TypeOK /\ PlayerHasCloser /\ ClosesAgain /\ [Next]_vars => PlayerHasCloser' /\ ClosesAgain'
  <2>1. TypeOK /\ PlayerHasCloser /\ ClosesAgain /\ UNCHANGED vars
            => PlayerHasCloser' /\ ClosesAgain'
    BY DEF PlayerHasCloser, ClosesAgain, vars, streams, tasks
  <2>2. QED
    BY <2>1, CoreCloses, OtherCloses, DownlinkCloses DEF Next, CoreSteps, WorkerSteps
<1>3. QED
  BY <1>1, <1>2, AudioTypeCorrect, PTL DEF Spec
=============================================================================
