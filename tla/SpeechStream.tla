----------------------------- MODULE SpeechStream -----------------------------
(***************************************************************************)
(* xf_tts_speak of cloud_loudspeaker (xf_tts.c): a text is sent over a     *)
(* websocket and the sound that comes back is played while it is received. *)
(*                                                                         *)
(* One task speaks one clip after another.  What it reads from the         *)
(* websocket is decoded, gathered in a small block, copied to a ring       *)
(* buffer and pumped to the playback stream, which takes as much as it     *)
(* likes.  The websocket's callback only sets two flags, which do not say  *)
(* which connection they are about.  The server and the playback driver    *)
(* are the environment.                                                    *)
(*                                                                         *)
(* A clip is the units 1, 2, 3, ... and END or ERR; a unit stands for some *)
(* bytes of sound.  Every wait of the code is a loop of a bounded number   *)
(* of short waits: here any short wait may end at any time, and the bounds *)
(* are constants.                                                          *)
(***************************************************************************)
EXTENDS Integers, Sequences

CONSTANTS
    RingCap,    \* unir_tts_parser_t.ring_cap
    OutCap,     \* the size of unir_tts_parser_t.out
    Chunk,      \* UNIR_TTS_RX_CHUNK
    OpenTries,  \* waits for the websocket to open (80)
    RecvTries,  \* UNIR_TTS_STREAM_TIMEOUT / 10
    PumpTries,  \* waits for the driver to take the rest (24000)
    CloseTries, \* waits for the websocket to close (50)
    MaxUnits,   \* bound: units of a clip
    MaxClips    \* bound: clips spoken

ASSUME SpeechAssumption ==
    /\ {OutCap, Chunk, OpenTries, RecvTries, PumpTries, CloseTries} \subseteq Nat \ {0}
    /\ RingCap \in Nat /\ RingCap >= Chunk + OutCap
    /\ {MaxUnits, MaxClips} \subseteq Nat

VARIABLES
    pc,       \* where the task is in xf_tts_speak
    tries,    \* short waits left
    flag,     \* g_tts_open_state, g_tts_closed
    was,      \* was_closed
    emptied,  \* emptied
    rx,       \* what is read and not yet decoded
    out,      \* p->out
    parser,   \* p->done, p->err
    ring,     \* p->ring with its head, tail and cnt
    open,     \* the streams that are open: p->stream and p->rec; p->ring is allocated
    ws,       \* the SDK: the connection, and what it received that was not read
    late,     \* the SDK: answers of earlier connections that are still to come
    clips,    \* clips started
    played,   \* history: the last unit the driver took
    sent      \* history: units sent, whether the clip is over, units when closed was set,
              \* whether the time to receive it ran out

task == <<pc, tries, was, emptied, rx, out, parser, ring, open>>
vars == <<task, flag, ws, late, clips, played, sent>>

(* The end of a clip: status 2, or a code other than 0.                     *)
END == 0
ERR == -1
Marks == {END, ERR}

Receiving == {"recv", "drain", "read", "feed", "check", "flush", "tail"}

NoRing == [head |-> 0, tail |-> 0, cnt |-> 0, data |-> [i \in 0..RingCap-1 |-> 0]]

NothingSent == [units |-> 0, over |-> FALSE, atClose |-> 0, timedOut |-> FALSE]

Init ==
    /\ pc = "idle" /\ tries = 0
    /\ flag = [open |-> "pending", closed |-> FALSE]
    /\ was = FALSE /\ emptied = FALSE
    /\ rx = <<>> /\ out = <<>>
    /\ parser = [done |-> FALSE, err |-> FALSE]
    /\ ring = NoRing
    /\ open = {}
    /\ ws = [state |-> "none", buf |-> <<>>]
    /\ late = {}
    /\ clips = 0 /\ played = 0
    /\ sent = NothingSent

-----------------------------------------------------------------------------
(* xf_tts_speak: before the websocket                                       *)

(* The text, the network, the time, the URL or the memory is missing: the   *)
(* call returns.  Otherwise p is cleared, the flags are reset, and the      *)
(* websocket is asked to open, which may be refused.                        *)
Speak ==
    /\ pc = "idle" /\ clips < MaxClips
    /\ clips' = clips + 1
    /\ \/ /\ pc' = "exit"
          /\ UNCHANGED <<out, parser, ring, flag, ws, tries>>
       \/ /\ out' = <<>> /\ ring' = NoRing
          /\ parser' = [done |-> FALSE, err |-> FALSE]
          /\ flag' = [open |-> "pending", closed |-> FALSE]
          /\ \/ /\ pc' = "open" /\ tries' = OpenTries
                /\ ws' = [state |-> "opening", buf |-> <<>>]
             \/ pc' = "exit" /\ UNCHANGED <<ws, tries>>
    /\ played' = 0 /\ sent' = NothingSent
    /\ UNCHANGED <<was, emptied, rx, open, late>>

(* One wait for the websocket to open.                                      *)
WaitOpen ==
    /\ pc = "open" /\ flag.open = "pending" /\ tries > 0
    /\ tries' = tries - 1
    /\ UNCHANGED <<pc, was, emptied, rx, out, parser, ring, open>>
    /\ UNCHANGED <<flag, ws, late, clips, played, sent>>

(* What the SDK still has to tell of the connection.                        *)
Leftover == CASE ws.state = "opening" -> {"OPEN", "CLOSE"}
              [] ws.state = "open"    -> {"CLOSE"}
              [] OTHER                -> {}

(* The connection is given up but not closed: its answer may still come.    *)
OpenFails ==
    /\ pc = "open" /\ flag.open # "opened"
    /\ flag.open = "pending" => tries = 0
    /\ pc' = "exit"
    /\ late' = late \union Leftover
    /\ ws' = [state |-> "none", buf |-> <<>>]
    /\ UNCHANGED <<tries, was, emptied, rx, out, parser, ring, open>>
    /\ UNCHANGED <<flag, clips, played, sent>>

(* unir_tts_stream_open, once the request is sent: a request that cannot be *)
(* sent, no memory for the ring, or a stream that cannot be opened; the     *)
(* record stream may be missing.                                            *)
unir_tts_stream_open ==
    /\ pc = "open" /\ flag.open = "opened"
    /\ \/ ws.state = "open" /\ pc' = "recv" /\ tries' = RecvTries
          /\ open' \in {{"ring", "rec", "stream"}, {"ring", "stream"}}
       \/ pc' = "close" /\ UNCHANGED tries
          /\ open' \in {{}, {"ring"}, {"ring", "rec"}}
    /\ UNCHANGED <<was, emptied, rx, out, parser, ring>>
    /\ UNCHANGED <<flag, ws, late, clips, played, sent>>

-----------------------------------------------------------------------------
(* The ring buffer                                                          *)

Room == RingCap - ring.cnt

(* unir_tts_ring_put and unir_tts_out_flush: the block goes to the ring, or *)
(* is lost after an error.  The code would wait for room first; the ring    *)
(* never lacks it, see TypeOK.                                              *)
Flushed(block) ==
    IF parser.err THEN ring
    ELSE [ring EXCEPT !.head = (ring.head + Len(block)) % RingCap,
                      !.cnt = ring.cnt + Len(block),
                      !.data = [i \in 0..RingCap-1 |->
                          LET k == (i - ring.head) % RingCap
                          IN  IF k < Len(block) THEN block[k + 1] ELSE ring.data[i]]]

(* unir_tts_pump: the driver takes k units, and may then fail.              *)
unir_tts_pump_Wrong(k, fails) ==
    /\ k <= ring.cnt /\ (parser.err => k = 0 /\ ~fails) /\ (fails => k < ring.cnt)
    /\ ring' = [ring EXCEPT !.tail = ring.head, !.cnt = 0]
    /\ played' = IF k = 0 THEN played ELSE ring.data[(ring.tail + k - 1) % RingCap]

unir_tts_pump(k, fails) ==
    /\ k <= ring.cnt /\ (parser.err => k = 0 /\ ~fails) /\ (fails => k < ring.cnt)
    /\ ring' = [ring EXCEPT !.tail = (ring.tail + k) % RingCap, !.cnt = ring.cnt - k]
    /\ played' = IF k = 0 THEN played ELSE ring.data[(ring.tail + k - 1) % RingCap]

Unchanged_env == UNCHANGED <<flag, ws, late, clips, sent>>

-----------------------------------------------------------------------------
(* xf_tts_speak: receive and play                                           *)

(* One wait of the receive loop; the flag is looked at before the websocket.*)
Recv ==
    /\ pc = "recv" /\ tries > 0
    /\ tries' = tries - 1
    /\ was' = flag.closed
    /\ pc' = "drain"
    /\ UNCHANGED <<emptied, rx, out, parser, ring, open, played>> /\ Unchanged_env

RecvTimeout ==
    /\ pc = "recv" /\ tries = 0
    /\ pc' = "flush"
    /\ sent' = [sent EXCEPT !.timedOut = TRUE]
    /\ UNCHANGED <<tries, was, emptied, rx, out, parser, ring, open, played>>
    /\ UNCHANGED <<flag, ws, late, clips>>

(* unir_tts_drain pumps, then reads when the ring has room for all it could *)
(* get.                                                                     *)
DrainPump ==
    /\ pc = "drain"
    /\ \E k \in 0..RingCap, fails \in BOOLEAN :
          /\ unir_tts_pump(k, fails)
          /\ parser' = [parser EXCEPT !.err = parser.err \/ fails]
    /\ pc' = "read"
    /\ UNCHANGED <<tries, was, emptied, rx, out, open>> /\ Unchanged_env

NearlyFull_Wrong == Room < Chunk

NearlyFull == Room < Chunk + OutCap

ReadFull ==
    /\ pc = "read" /\ NearlyFull
    /\ emptied' = FALSE /\ pc' = "check"
    /\ UNCHANGED <<tries, was, rx, out, parser, ring, open, played>> /\ Unchanged_env

ReadNone ==
    /\ pc = "read" /\ ~NearlyFull /\ ws.buf = <<>>
    /\ emptied' = TRUE /\ pc' = "check"
    /\ UNCHANGED <<tries, was, rx, out, parser, ring, open, played>> /\ Unchanged_env

Read ==
    /\ pc = "read" /\ ~NearlyFull
    /\ \E got \in 1..Chunk :
          /\ got <= Len(ws.buf)
          /\ rx' = SubSeq(ws.buf, 1, got)
          /\ ws' = [ws EXCEPT !.buf = SubSeq(ws.buf, got + 1, Len(ws.buf))]
    /\ pc' = "feed"
    /\ UNCHANGED <<tries, was, emptied, out, parser, ring, open, played>>
    /\ UNCHANGED <<flag, late, clips, sent>>

(* unir_tts_feed_byte, for each thing read in turn; a full block is flushed.*)
Feed ==
    /\ pc = "feed" /\ rx # <<>>
    /\ rx' = Tail(rx)
    /\ IF Head(rx) \in Marks
       THEN /\ parser' = [parser EXCEPT !.done = parser.done \/ Head(rx) = END,
                                        !.err = parser.err \/ Head(rx) = ERR]
            /\ UNCHANGED <<out, ring>>
       ELSE LET block == Append(out, Head(rx))
            IN  /\ out' = IF Len(block) < OutCap THEN block ELSE <<>>
                /\ ring' = IF Len(block) < OutCap THEN ring ELSE Flushed(block)
                /\ UNCHANGED parser
    /\ UNCHANGED <<pc, tries, was, emptied, open, played>> /\ Unchanged_env

Fed ==
    /\ pc = "feed" /\ rx = <<>>
    /\ pc' = "drain"
    /\ UNCHANGED <<tries, was, emptied, rx, out, parser, ring, open, played>>
    /\ Unchanged_env

(* The receive loop pumps once more and sees whether it is over.            *)
Check ==
    /\ pc = "check"
    /\ \E k \in 0..RingCap, fails \in BOOLEAN :
          /\ unir_tts_pump(k, fails)
          /\ parser' = [parser EXCEPT !.err = parser.err \/ fails]
    /\ pc' = IF parser'.done \/ parser'.err \/ (was /\ emptied)
             THEN "flush" ELSE "recv"
    /\ was' = FALSE /\ emptied' = FALSE
    /\ UNCHANGED <<tries, rx, out, open>> /\ Unchanged_env

(* What is left in the block goes to the ring as well.                      *)
unir_tts_out_flush_Wrong ==
    /\ pc = "flush"
    /\ pc' = "tail" /\ tries' = PumpTries
    /\ UNCHANGED <<was, emptied, rx, out, parser, ring, open, played>> /\ Unchanged_env

unir_tts_out_flush ==
    /\ pc = "flush"
    /\ ring' = Flushed(out)
    /\ out' = <<>>
    /\ pc' = "tail" /\ tries' = PumpTries
    /\ UNCHANGED <<was, emptied, rx, parser, open, played>> /\ Unchanged_env

(* Feeds the driver until the ring is empty, for a while.                   *)
PumpTail ==
    /\ pc = "tail" /\ ring.cnt > 0 /\ ~parser.err /\ tries > 0
    /\ tries' = tries - 1
    /\ \E k \in 0..RingCap, fails \in BOOLEAN :
          /\ unir_tts_pump(k, fails)
          /\ parser' = [parser EXCEPT !.err = fails]
    /\ UNCHANGED <<pc, was, emptied, rx, out, open>> /\ Unchanged_env

TailEnds ==
    /\ pc = "tail"
    /\ ring.cnt = 0 \/ parser.err \/ tries = 0
    /\ pc' = "close"
    /\ UNCHANGED <<tries, was, emptied, rx, out, parser, ring, open, played>>
    /\ Unchanged_env

-----------------------------------------------------------------------------
(* xf_tts_speak: the end                                                    *)

CloseWs ==
    /\ pc = "close"
    /\ late' = late \union Leftover
    /\ ws' = [state |-> "none", buf |-> <<>>]
    /\ pc' = "closing" /\ tries' = CloseTries
    /\ UNCHANGED <<was, emptied, rx, out, parser, ring, open, played>>
    /\ UNCHANGED <<flag, clips, sent>>

WaitClosed ==
    /\ pc = "closing" /\ ~flag.closed /\ tries > 0
    /\ tries' = tries - 1
    /\ UNCHANGED <<pc, was, emptied, rx, out, parser, ring, open, played>>
    /\ Unchanged_env

Closed ==
    /\ pc = "closing" /\ (flag.closed \/ tries = 0)
    /\ pc' = "exit"
    /\ UNCHANGED <<tries, was, emptied, rx, out, parser, ring, open, played>>
    /\ Unchanged_env

unir_tts_stream_close_Wrong ==
    /\ pc = "exit"
    /\ open' = IF "stream" \in open THEN {} ELSE open \ {"ring"}
    /\ pc' = "idle"
    /\ UNCHANGED <<tries, was, emptied, rx, out, parser, ring, played>> /\ Unchanged_env

unir_tts_stream_close ==
    /\ pc = "exit"
    /\ open' = {}
    /\ pc' = "idle"
    /\ UNCHANGED <<tries, was, emptied, rx, out, parser, ring, played>> /\ Unchanged_env

xf_tts_speak ==
    \/ WaitOpen \/ OpenFails \/ unir_tts_stream_open
    \/ Recv \/ RecvTimeout \/ DrainPump \/ ReadFull \/ ReadNone \/ Read \/ Feed \/ Fed
    \/ Check \/ unir_tts_out_flush \/ PumpTail \/ TailEnds
    \/ CloseWs \/ WaitClosed \/ Closed \/ unir_tts_stream_close

-----------------------------------------------------------------------------
(* unir_tts_ws_cb, the websocket and the server                             *)

SetOpen(ok) == flag' = [flag EXCEPT !.open = IF ok THEN "opened" ELSE "failed"]

(* g_tts_closed is set; the units that had arrived by then are remembered.  *)
SetClosed ==
    /\ flag' = [flag EXCEPT !.closed = TRUE]
    /\ sent' = IF flag.closed THEN sent ELSE [sent EXCEPT !.atClose = sent.units]

WsOpened ==
    /\ ws.state = "opening"
    /\ \E ok \in BOOLEAN :
          /\ ws' = [ws EXCEPT !.state = IF ok THEN "open" ELSE "none"]
          /\ SetOpen(ok)
    /\ UNCHANGED <<task, late, clips, played, sent>>

(* What was received can still be read.                                     *)
WsClosed ==
    /\ ws.state = "open"
    /\ ws' = [ws EXCEPT !.state = "none"]
    /\ SetClosed
    /\ UNCHANGED <<task, late, clips, played>>

Late ==
    /\ \/ "OPEN" \in late /\ late' = late \ {"OPEN"} /\ UNCHANGED sent
          /\ \E ok \in BOOLEAN : SetOpen(ok)
       \/ "CLOSE" \in late /\ late' = late \ {"CLOSE", "OPEN"} /\ SetClosed
    /\ UNCHANGED <<task, ws, clips, played>>

(* The server answers the request: the next unit, or the end of the clip.   *)
Arrives ==
    /\ ws.state = "open" /\ pc \in Receiving /\ ~sent.over
    /\ \/ /\ sent.units < MaxUnits
          /\ sent' = [sent EXCEPT !.units = sent.units + 1]
          /\ ws' = [ws EXCEPT !.buf = Append(ws.buf, sent.units + 1)]
       \/ \E m \in Marks :
             /\ sent' = [sent EXCEPT !.over = TRUE]
             /\ ws' = [ws EXCEPT !.buf = Append(ws.buf, m)]
    /\ UNCHANGED <<task, flag, late, clips, played>>

Environment == WsOpened \/ WsClosed \/ Late \/ Arrives

Next == Speak \/ xf_tts_speak \/ Environment

Spec == Init /\ [][Next]_vars
=============================================================================
