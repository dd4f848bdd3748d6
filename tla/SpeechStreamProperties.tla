------------------------ MODULE SpeechStreamProperties ------------------------
(* What is claimed of SpeechStream.                                          *)
EXTENDS SpeechStream

Units == 1..MaxUnits

(* Every variable has its type.  The ring never holds more than its size:    *)
(* the wait for room of unir_tts_ring_put, "only a safety net"               *)
(* (xf_tts.c:476), is never entered, and nothing unread is overwritten.      *)
TypeOK ==
    /\ pc \in Receiving \union {"idle", "open", "close", "closing", "exit"}
    /\ tries \in Nat
    /\ flag \in [open : {"pending", "opened", "failed"}, closed : BOOLEAN]
    /\ was \in BOOLEAN /\ emptied \in BOOLEAN
    /\ rx \in Seq(Units \union Marks) /\ Len(rx) <= Chunk
    /\ out \in Seq(Units) /\ Len(out) < OutCap
    /\ parser \in [done : BOOLEAN, err : BOOLEAN]
    /\ ring \in [head : 0..RingCap-1, tail : 0..RingCap-1, cnt : 0..RingCap,
                 data : [0..RingCap-1 -> Units \union {0}]]
    /\ open \subseteq {"ring", "rec", "stream"}
    /\ ws \in [state : {"none", "opening", "open"}, buf : Seq(Units \union Marks)]
    /\ late \subseteq {"OPEN", "CLOSE"}
    /\ clips \in 0..MaxClips /\ played \in 0..MaxUnits
    /\ sent \in [units : 0..MaxUnits, over : BOOLEAN, atClose : 0..MaxUnits,
                 timedOut : BOOLEAN]

(* The units decoded so far: the driver took them or they wait for it.       *)
Decoded == played + ring.cnt + Len(out)

(* The n-th thing of a clip is its unit n, or the mark after the last unit.  *)
IsNth(x, n) == IF n <= sent.units THEN x = n ELSE x \in Marks

InOrder ==
    /\ \A i \in 1..ring.cnt : ring.data[(ring.tail + i - 1) % RingCap] = played + i
    /\ \A i \in 1..Len(out) : out[i] = played + ring.cnt + i
    /\ \A i \in 1..Len(rx) : IsNth(rx[i], Decoded + i)
    /\ \A i \in 1..Len(ws.buf) : IsNth(ws.buf[i], Decoded + Len(rx) + i)
    /\ Decoded + Len(rx) + Len(ws.buf) =
           sent.units + (IF sent.over /\ ~parser.done THEN 1 ELSE 0)

(* What the driver took, what is in the ring, in the block, being decoded    *)
(* and unread, one after the other, are the units 1, 2, 3, ... that were     *)
(* sent, and the mark after them: no gap, no repetition, no other order,     *)
(* wherever the ring wraps and however little the driver takes               *)
(* (xf_tts.c:438-469, 496-521).                                              *)
NoGap == pc \in Receiving /\ ~parser.err => InOrder

(* A clip that ends without an error and without running out of time, be it *)
(* to receive or to empty the ring, was given to the driver to its last     *)
(* unit if its end was received.  If not, a websocket was closed, and the   *)
(* driver got all that had arrived when g_tts_closed was set, through block *)
(* and ring.  What arrives later is lost: the flag names no connection, and *)
(* the late close of an earlier one cuts a clip that is still being sent    *)
(* (xf_tts.c:706-709, 1011-1032).                                           *)
PlayedToTheEnd ==
    [][ /\ pc = "tail" /\ pc' = "close"
        /\ ~parser.err /\ ~sent.timedOut
        /\ ring.cnt = 0 \/ tries > 0
        => played >= (IF parser.done THEN sent.units ELSE sent.atClose) ]_vars

(* Whatever failed on the way, a call leaves no stream and no memory behind, *)
(* which clearing p would lose (xf_tts.c:937, 1047-1048).                    *)
NothingHeld == pc = "idle" => open = {}
=============================================================================
