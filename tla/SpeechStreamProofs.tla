-------------------------- MODULE SpeechStreamProofs --------------------------
(***************************************************************************)
(* What is proved of SpeechStream for every size of the ring, of the block *)
(* and of what is read at once, and every bound of the waits: its type     *)
(* invariant, which holds the bound of the ring; that no clip leaves       *)
(* anything open; that no unit of a clip is lost, repeated or out of order *)
(* on its way to the driver; and what the driver got of a clip that ended  *)
(* without an error and within the time limits.                            *)
(***************************************************************************)
EXTENDS SpeechStreamProperties, TLAPS

(* The parts of the type invariant.                                         *)
FlagType   == [open : {"pending", "opened", "failed"}, closed : BOOLEAN]
ParserType == [done : BOOLEAN, err : BOOLEAN]
RingType   == [head : 0..RingCap-1, tail : 0..RingCap-1, cnt : 0..RingCap,
               data : [0..RingCap-1 -> Units \union {0}]]
WsType     == [state : {"none", "opening", "open"}, buf : Seq(Units \union Marks)]
SentType   == [units : 0..MaxUnits, over : BOOLEAN, atClose : 0..MaxUnits,
               timedOut : BOOLEAN]

Places ==
    /\ pc \in Receiving \union {"idle", "open", "close", "closing", "exit"}
    /\ tries \in Nat
    /\ open \subseteq {"ring", "rec", "stream"}
    /\ late \subseteq {"OPEN", "CLOSE"}
    /\ clips \in 0..MaxClips

Switches ==
    /\ was \in BOOLEAN /\ emptied \in BOOLEAN
    /\ flag \in FlagType /\ parser \in ParserType

Wire ==
    /\ ws \in WsType /\ sent \in SentType
    /\ rx \in Seq(Units \union Marks) /\ Len(rx) <= Chunk

Sound ==
    /\ out \in Seq(Units) /\ Len(out) < OutCap
    /\ ring \in RingType /\ played \in 0..MaxUnits

LEMMA TypeParts == TypeOK <=> Places /\ Switches /\ Wire /\ Sound
BY DEF TypeOK, Places, Switches, Wire, Sound, FlagType, ParserType, RingType, WsType,
       SentType

(* The ring has room for all that was read and not put into it yet: this is *)
(* why the look at the room before a read is enough.                        *)
Fits == ring.cnt + Len(out) + Len(rx) <= RingCap

(* Nothing is open before the streams are opened.                           *)
HeldLate == pc \in {"idle", "open"} => open = {}

SpeechInv == TypeOK /\ Fits /\ HeldLate

-----------------------------------------------------------------------------
(* The ring                                                                 *)

LEMMA Sizes ==
    /\ RingCap \in Nat /\ OutCap \in Nat /\ Chunk \in Nat
    /\ RingCap > 0 /\ OutCap > 0 /\ Chunk > 0 /\ RingCap >= Chunk + OutCap
    /\ MaxUnits \in Nat /\ MaxClips \in Nat
BY SpeechAssumption

LEMMA Wraps == ASSUME NEW a \in Int PROVE a % RingCap \in 0..RingCap-1
BY Sizes

(* Every slot of the ring holds a unit or nothing.                          *)
LEMMA Slots == \A r \in RingType, i \in Int : r.data[i % RingCap] \in 0..MaxUnits
<1> TAKE r \in RingType, i \in Int
<1>1. r.data \in [0..RingCap-1 -> Units \union {0}]
  BY DEF RingType
<1>2. r.data[i % RingCap] \in Units \union {0}
  BY <1>1, Wraps
<1>3. QED
  BY <1>2, Sizes DEF Units

(* A pump that takes no more than there is leaves a ring with so much less. *)
LEMMA Pumped ==
    ASSUME ring \in RingType, NEW k \in 0..RingCap, k <= ring.cnt
    PROVE  LET r == [ring EXCEPT !.tail = (ring.tail + k) % RingCap,
                                 !.cnt = ring.cnt - k]
           IN  r \in RingType /\ r.cnt <= ring.cnt
<1>1. ring.tail \in Nat /\ ring.cnt \in 0..RingCap
  BY Sizes DEF RingType
<1>2. (ring.tail + k) % RingCap \in 0..RingCap-1
  BY <1>1, Wraps, Sizes
<1>3. ring.cnt - k \in 0..RingCap /\ ring.cnt - k <= ring.cnt
  BY <1>1, Sizes
<1> DEFINE t == (ring.tail + k) % RingCap
           n == ring.cnt - k
<1>4. t \in 0..RingCap-1 /\ n \in 0..RingCap /\ n <= ring.cnt
  BY <1>2, <1>3
<1> HIDE DEF t, n
<1>5. [ring EXCEPT !.tail = t, !.cnt = n] \in RingType
  BY <1>4 DEF RingType
<1>6. [ring EXCEPT !.tail = t, !.cnt = n].cnt = n
  BY DEF RingType
<1>7. QED
  BY <1>4, <1>5, <1>6 DEF t, n

(* A block that fits is added to what the ring holds.                       *)
LEMMA FlushedFits ==
    ASSUME ring \in RingType, NEW block \in Seq(Units), ring.cnt + Len(block) <= RingCap
    PROVE  Flushed(block) \in RingType /\ Flushed(block).cnt <= ring.cnt + Len(block)
<1>1. ring.head \in 0..RingCap-1 /\ ring.head \in Nat /\ ring.cnt \in 0..RingCap
  BY Sizes DEF RingType
<1>2. Len(block) \in Nat
  OBVIOUS
<1> DEFINE h == (ring.head + Len(block)) % RingCap
           n == ring.cnt + Len(block)
           d == [i \in 0..RingCap-1 |->
                    LET k == (i - ring.head) % RingCap
                    IN  IF k < Len(block) THEN block[k + 1] ELSE ring.data[i]]
<1>3. h \in 0..RingCap-1
  BY <1>1, <1>2, Wraps, Sizes
<1>4. n \in 0..RingCap
  BY <1>1, <1>2, Sizes
<1>5. d \in [0..RingCap-1 -> Units \union {0}]
  <2>1. ASSUME NEW i \in 0..RingCap-1
        PROVE  LET k == (i - ring.head) % RingCap
               IN  (IF k < Len(block) THEN block[k + 1] ELSE ring.data[i])
                      \in Units \union {0}
    <3>1. (i - ring.head) % RingCap \in 0..RingCap-1
      BY <1>1, Wraps, Sizes, SMTT(30)
    <3> DEFINE k == (i - ring.head) % RingCap
    <3>2. k \in Nat
      BY <3>1, Sizes
    <3> HIDE DEF k
    <3>3. k < Len(block) => block[k + 1] \in Units
      BY <3>2, <1>2
    <3>4. ring.data[i] \in Units \union {0}
      BY DEF RingType
    <3>5. QED
      BY <3>3, <3>4 DEF k
  <2>2. QED
    BY <2>1
<1>6. Flushed(block) = IF parser.err THEN ring
                       ELSE [ring EXCEPT !.head = h, !.cnt = n, !.data = d]
  BY DEF Flushed
<1> HIDE DEF h, d
<1>7. [ring EXCEPT !.head = h, !.cnt = n, !.data = d] \in RingType
  BY <1>3, <1>4, <1>5 DEF RingType
<1>8. [ring EXCEPT !.head = h, !.cnt = n, !.data = d].cnt = n
  BY DEF RingType
<1>9. CASE parser.err
  BY <1>1, <1>2, <1>6, <1>9
<1>10. CASE ~parser.err
  BY <1>2, <1>4, <1>6, <1>7, <1>8, <1>10
<1>11. QED
  BY <1>9, <1>10

-----------------------------------------------------------------------------
(* Records                                                                  *)

LEMMA FlagGoes ==
    ASSUME flag \in FlagType
    PROVE  /\ [flag EXCEPT !.closed = TRUE] \in FlagType
           /\ \A ok \in BOOLEAN :
                 [flag EXCEPT !.open = IF ok THEN "opened" ELSE "failed"] \in FlagType
<1>1. [flag EXCEPT !.closed = TRUE] \in FlagType
  BY Zenon DEF FlagType
<1>2. ASSUME NEW ok \in BOOLEAN
      PROVE  [flag EXCEPT !.open = IF ok THEN "opened" ELSE "failed"] \in FlagType
  BY DEF FlagType
<1>3. QED
  BY <1>1, <1>2

LEMMA ParserGoes ==
    ASSUME parser \in ParserType, NEW a \in BOOLEAN, NEW b \in BOOLEAN
    PROVE  /\ [parser EXCEPT !.err = b] \in ParserType
           /\ [parser EXCEPT !.err = parser.err \/ b] \in ParserType
           /\ [parser EXCEPT !.done = parser.done \/ a, !.err = parser.err \/ b]
                 \in ParserType
<1>1. parser.err \in BOOLEAN /\ parser.done \in BOOLEAN
  BY DEF ParserType
<1> DEFINE e == parser.err \/ b
           d == parser.done \/ a
<1>2. e \in BOOLEAN /\ d \in BOOLEAN
  BY <1>1
<1> HIDE DEF e, d
<1>3. [parser EXCEPT !.err = b] \in ParserType
  BY Zenon DEF ParserType
<1>4. [parser EXCEPT !.err = e] \in ParserType
  BY <1>2, Zenon DEF ParserType
<1>5. [parser EXCEPT !.done = d, !.err = e] \in ParserType
  BY <1>2, Zenon DEF ParserType
<1>6. QED
  BY <1>3, <1>4, <1>5 DEF e, d

LEMMA WsGoes ==
    /\ [state |-> "none", buf |-> <<>>] \in WsType
    /\ [state |-> "opening", buf |-> <<>>] \in WsType
    /\ ws \in WsType => /\ ws.buf \in Seq(Units \union Marks)
                        /\ [ws EXCEPT !.state = "open"] \in WsType
                        /\ [ws EXCEPT !.state = "none"] \in WsType
                        /\ \A b \in Seq(Units \union Marks) : [ws EXCEPT !.buf = b] \in WsType
<1>1. <<>> \in Seq(Units \union Marks)
  OBVIOUS
<1>2. QED
  BY <1>1 DEF WsType

LEMMA SentGoes ==
    ASSUME sent \in SentType
    PROVE  /\ NothingSent \in SentType
           /\ sent.units \in 0..MaxUnits
           /\ [sent EXCEPT !.atClose = sent.units] \in SentType
           /\ [sent EXCEPT !.over = TRUE] \in SentType
           /\ [sent EXCEPT !.timedOut = TRUE] \in SentType
           /\ \A n \in 0..MaxUnits : [sent EXCEPT !.units = n] \in SentType
<1>1. 0 \in 0..MaxUnits
  BY Sizes
<1>2. sent.units \in 0..MaxUnits
  BY DEF SentType
<1>3. NothingSent \in SentType
  BY <1>1 DEF SentType, NothingSent
<1>4. [sent EXCEPT !.over = TRUE] \in SentType
  BY Zenon DEF SentType
<1>5. [sent EXCEPT !.timedOut = TRUE] \in SentType
  BY Zenon DEF SentType
<1>6. [sent EXCEPT !.atClose = sent.units] \in SentType
  BY <1>2 DEF SentType
<1>7. \A n \in 0..MaxUnits : [sent EXCEPT !.units = n] \in SentType
  BY DEF SentType
<1>8. QED
  BY <1>2, <1>3, <1>4, <1>5, <1>6, <1>7

-----------------------------------------------------------------------------
(* Each step keeps the invariant.                                           *)

LEMMA PlacesStay == SpeechInv /\ Next => Places'
<1> SUFFICES ASSUME SpeechInv, Next PROVE Places'
  OBVIOUS
<1> USE TypeParts DEF SpeechInv, Places, Unchanged_env, task, Receiving
<1>1. CASE Speak
  BY <1>1, Sizes, SpeechAssumption DEF Speak
<1>2. CASE WaitOpen
  BY <1>2 DEF WaitOpen
<1>3. CASE OpenFails
  BY <1>3 DEF OpenFails, Leftover
<1>4. CASE unir_tts_stream_open
  BY <1>4, SpeechAssumption DEF unir_tts_stream_open
<1>5. CASE Recv
  BY <1>5 DEF Recv
<1>6. CASE RecvTimeout
  BY <1>6 DEF RecvTimeout
<1>7. CASE DrainPump
  BY <1>7 DEF DrainPump
<1>8. CASE ReadFull
  BY <1>8 DEF ReadFull
<1>9. CASE ReadNone
  BY <1>9 DEF ReadNone
<1>10. CASE Read
  BY <1>10 DEF Read
<1>11. CASE Feed
  BY <1>11 DEF Feed
<1>12. CASE Fed
  BY <1>12 DEF Fed
<1>13. CASE Check
  BY <1>13 DEF Check
<1>14. CASE unir_tts_out_flush
  BY <1>14, SpeechAssumption DEF unir_tts_out_flush
<1>15. CASE PumpTail
  BY <1>15 DEF PumpTail
<1>16. CASE TailEnds
  BY <1>16 DEF TailEnds
<1>17. CASE CloseWs
  BY <1>17, SpeechAssumption DEF CloseWs, Leftover
<1>18. CASE WaitClosed
  BY <1>18 DEF WaitClosed
<1>19. CASE Closed
  BY <1>19 DEF Closed
<1>20. CASE unir_tts_stream_close
  BY <1>20 DEF unir_tts_stream_close
<1>21. CASE WsOpened
  BY <1>21 DEF WsOpened
<1>22. CASE WsClosed
  BY <1>22 DEF WsClosed
<1>23. CASE Late
  BY <1>23 DEF Late
<1>24. CASE Arrives
  BY <1>24 DEF Arrives
<1>25. QED
  BY <1>1, <1>2, <1>3, <1>4, <1>5, <1>6, <1>7, <1>8, <1>9, <1>10, <1>11, <1>12, <1>13, <1>14,
     <1>15, <1>16, <1>17, <1>18, <1>19, <1>20, <1>21, <1>22, <1>23, <1>24
     DEF Next, xf_tts_speak, Environment

LEMMA SwitchesStay == SpeechInv /\ Next => Switches'
<1> SUFFICES ASSUME SpeechInv, Next PROVE Switches'
  OBVIOUS
<1> USE TypeParts, FlagGoes, ParserGoes DEF SpeechInv, Switches, Unchanged_env, task
<1>1. CASE Speak
  <2>1. [done |-> FALSE, err |-> FALSE] \in ParserType
    BY DEF ParserType
  <2>2. [open |-> "pending", closed |-> FALSE] \in FlagType
    BY DEF FlagType
  <2>3. QED
    BY <1>1, <2>1, <2>2 DEF Speak
<1>2. CASE WaitOpen
  BY <1>2 DEF WaitOpen
<1>3. CASE OpenFails
  BY <1>3 DEF OpenFails
<1>4. CASE unir_tts_stream_open
  BY <1>4 DEF unir_tts_stream_open
<1>5. CASE Recv
  <2>1. flag.closed \in BOOLEAN
    BY DEF FlagType
  <2>2. QED
    BY <1>5, <2>1 DEF Recv
<1>6. CASE RecvTimeout
  BY <1>6 DEF RecvTimeout
<1>7. CASE DrainPump
  BY <1>7 DEF DrainPump
<1>8. CASE ReadFull
  BY <1>8 DEF ReadFull
<1>9. CASE ReadNone
  BY <1>9 DEF ReadNone
<1>10. CASE Read
  BY <1>10 DEF Read
<1>11. CASE Feed
  BY <1>11 DEF Feed
<1>12. CASE Fed
  BY <1>12 DEF Fed
<1>13. CASE Check
  BY <1>13 DEF Check
<1>14. CASE unir_tts_out_flush
  BY <1>14 DEF unir_tts_out_flush
<1>15. CASE PumpTail
  BY <1>15 DEF PumpTail
<1>16. CASE TailEnds
  BY <1>16 DEF TailEnds
<1>17. CASE CloseWs
  BY <1>17 DEF CloseWs
<1>18. CASE WaitClosed
  BY <1>18 DEF WaitClosed
<1>19. CASE Closed
  BY <1>19 DEF Closed
<1>20. CASE unir_tts_stream_close
  BY <1>20 DEF unir_tts_stream_close
<1>21. CASE WsOpened
  BY <1>21 DEF WsOpened, SetOpen
<1>22. CASE WsClosed
  BY <1>22 DEF WsClosed, SetClosed
<1>23. CASE Late
  BY <1>23 DEF Late, SetOpen, SetClosed
<1>24. CASE Arrives
  BY <1>24 DEF Arrives
<1>25. QED
  BY <1>1, <1>2, <1>3, <1>4, <1>5, <1>6, <1>7, <1>8, <1>9, <1>10, <1>11, <1>12, <1>13, <1>14,
     <1>15, <1>16, <1>17, <1>18, <1>19, <1>20, <1>21, <1>22, <1>23, <1>24
     DEF Next, xf_tts_speak, Environment

LEMMA WireStays == SpeechInv /\ Next => Wire'
<1> SUFFICES ASSUME SpeechInv, Next PROVE Wire'
  OBVIOUS
<1> USE TypeParts, WsGoes, SentGoes DEF SpeechInv, Wire, Unchanged_env, task
<1>1. CASE Speak
  BY <1>1 DEF Speak
<1>2. CASE WaitOpen
  BY <1>2 DEF WaitOpen
<1>3. CASE OpenFails
  BY <1>3 DEF OpenFails
<1>4. CASE unir_tts_stream_open
  BY <1>4 DEF unir_tts_stream_open
<1>5. CASE Recv
  BY <1>5 DEF Recv
<1>6. CASE RecvTimeout
  BY <1>6 DEF RecvTimeout
<1>7. CASE DrainPump
  BY <1>7 DEF DrainPump
<1>8. CASE ReadFull
  BY <1>8 DEF ReadFull
<1>9. CASE ReadNone
  BY <1>9 DEF ReadNone
<1>10. CASE Read
  <2>1. PICK got \in 1..Chunk :
            /\ got <= Len(ws.buf)
            /\ rx' = SubSeq(ws.buf, 1, got)
            /\ ws' = [ws EXCEPT !.buf = SubSeq(ws.buf, got + 1, Len(ws.buf))]
    BY <1>10 DEF Read
  <2>2. got \in Nat /\ got <= Chunk
    BY Sizes
  <2>3. SubSeq(ws.buf, 1, got) \in Seq(Units \union Marks)
    BY <2>1, <2>2
  <2>4. Len(SubSeq(ws.buf, 1, got)) = got
    BY <2>1, <2>2
  <2>5. SubSeq(ws.buf, got + 1, Len(ws.buf)) \in Seq(Units \union Marks)
    BY <2>1, <2>2
  <2>6. sent' = sent
    BY <1>10 DEF Read
  <2>7. QED
    BY <2>1, <2>2, <2>3, <2>4, <2>5, <2>6
<1>11. CASE Feed
  <2>1. rx' \in Seq(Units \union Marks) /\ Len(rx') <= Chunk
    BY <1>11, Sizes DEF Feed
  <2>2. UNCHANGED <<ws, sent>>
    BY <1>11 DEF Feed
  <2>3. QED
    BY <2>1, <2>2
<1>12. CASE Fed
  BY <1>12 DEF Fed
<1>13. CASE Check
  BY <1>13 DEF Check
<1>14. CASE unir_tts_out_flush
  BY <1>14 DEF unir_tts_out_flush
<1>15. CASE PumpTail
  BY <1>15 DEF PumpTail
<1>16. CASE TailEnds
  BY <1>16 DEF TailEnds
<1>17. CASE CloseWs
  BY <1>17 DEF CloseWs
<1>18. CASE WaitClosed
  BY <1>18 DEF WaitClosed
<1>19. CASE Closed
  BY <1>19 DEF Closed
<1>20. CASE unir_tts_stream_close
  BY <1>20 DEF unir_tts_stream_close
<1>21. CASE WsOpened
  BY <1>21 DEF WsOpened
<1>22. CASE WsClosed
  BY <1>22 DEF WsClosed, SetClosed
<1>23. CASE Late
  BY <1>23 DEF Late, SetClosed
<1>24. CASE Arrives
  <2>1. ASSUME NEW u \in Units \union Marks
        PROVE  [ws EXCEPT !.buf = Append(ws.buf, u)] \in WsType
    <3>1. Append(ws.buf, u) \in Seq(Units \union Marks)
      BY WsGoes
    <3>2. QED
      BY <3>1, WsGoes
  <2>2. rx' = rx
    BY <1>24 DEF Arrives, task
  <2>3. CASE /\ sent.units < MaxUnits
             /\ sent' = [sent EXCEPT !.units = sent.units + 1]
             /\ ws' = [ws EXCEPT !.buf = Append(ws.buf, sent.units + 1)]
    <3>1. sent.units + 1 \in 0..MaxUnits /\ sent.units + 1 \in Units
      BY <2>3, Sizes, SMTT(30) DEF Units
    <3>2. QED
      BY <2>1, <2>2, <2>3, <3>1
  <2>4. CASE \E m \in Marks : /\ sent' = [sent EXCEPT !.over = TRUE]
                              /\ ws' = [ws EXCEPT !.buf = Append(ws.buf, m)]
    BY <2>1, <2>2, <2>4
  <2>5. QED
    BY <1>24, <2>3, <2>4 DEF Arrives
<1>25. QED
  BY <1>1, <1>2, <1>3, <1>4, <1>5, <1>6, <1>7, <1>8, <1>9, <1>10, <1>11, <1>12, <1>13, <1>14,
     <1>15, <1>16, <1>17, <1>18, <1>19, <1>20, <1>21, <1>22, <1>23, <1>24
     DEF Next, xf_tts_speak, Environment

LEMMA Lens ==
    SpeechInv => /\ Len(out) \in Nat /\ Len(rx) \in Nat /\ ring.cnt \in Nat
                 /\ Len(rx) <= Chunk /\ Len(out) < OutCap
                 /\ ring.cnt + Len(out) + Len(rx) <= RingCap
<1>1. ring \in RingType => ring.cnt \in Nat
  BY Sizes DEF RingType
<1>2. QED
  BY <1>1, TypeParts DEF SpeechInv, Sound, Wire, Fits

(* The look at the room before a read covers all that the read can bring.   *)
LEMMA SoundStays == SpeechInv /\ Next => (Sound /\ Fits)'
<1> SUFFICES ASSUME SpeechInv, Next PROVE (Sound /\ Fits)'
  OBVIOUS
<1> USE TypeParts DEF SpeechInv, Sound, Fits, Unchanged_env, task
<1>1. CASE Speak
  <2>1. NoRing \in RingType /\ NoRing.cnt = 0
    BY Sizes DEF NoRing, RingType
  <2>2. <<>> \in Seq(Units) /\ Len(<<>>) = 0
    OBVIOUS
  <2>3. played' \in 0..MaxUnits /\ rx' = rx
    BY <1>1, Sizes DEF Speak
  <2>4. CASE UNCHANGED <<out, ring>>
    BY <2>3, <2>4
  <2>5. CASE out' = <<>> /\ ring' = NoRing
    <3>1. ring'.cnt + Len(out') + Len(rx') = Len(rx)
      BY <2>1, <2>2, <2>3, <2>5, Lens
    <3>2. QED
      BY <2>1, <2>2, <2>3, <2>5, <3>1, Lens, Sizes, SMTT(30)
  <2>6. QED
    BY <1>1, <2>4, <2>5 DEF Speak
<1>2. CASE WaitOpen
  BY <1>2 DEF WaitOpen
<1>3. CASE OpenFails
  BY <1>3 DEF OpenFails
<1>4. CASE unir_tts_stream_open
  BY <1>4 DEF unir_tts_stream_open
<1>5. CASE Recv
  BY <1>5 DEF Recv
<1>6. CASE RecvTimeout
  BY <1>6 DEF RecvTimeout
<1>7. CASE DrainPump
  <2>1. PICK k \in 0..RingCap, fails \in BOOLEAN : unir_tts_pump(k, fails)
    BY <1>7 DEF DrainPump
  <2>2. ring' \in RingType /\ ring'.cnt <= ring.cnt
    BY <2>1, Pumped DEF unir_tts_pump
  <2>3. ring.tail + k - 1 \in Int
    BY Sizes DEF RingType
  <2>4. played' \in 0..MaxUnits
    BY <2>1, <2>3, Slots DEF unir_tts_pump
  <2>5. UNCHANGED <<out, rx>>
    BY <1>7 DEF DrainPump
  <2>6. out' \in Seq(Units) /\ Len(out') < OutCap /\ Len(out') = Len(out) /\ Len(rx') = Len(rx)
    BY <2>5
  <2>7. ring'.cnt \in Nat
    BY <2>2, Sizes DEF RingType
  <2>8. ring'.cnt + Len(out') + Len(rx') <= RingCap
    BY <2>2, <2>6, <2>7, Lens, Sizes, SMTT(30)
  <2>9. QED
    BY <2>2, <2>4, <2>6, <2>8
<1>8. CASE ReadFull
  BY <1>8 DEF ReadFull
<1>9. CASE ReadNone
  BY <1>9 DEF ReadNone
<1>10. CASE Read
  <2>1. PICK got \in 1..Chunk :
            /\ got <= Len(ws.buf)
            /\ rx' = SubSeq(ws.buf, 1, got)
    BY <1>10 DEF Read
  <2>2. got \in Nat /\ got <= Chunk /\ ws.buf \in Seq(Units \union Marks)
    BY Sizes, WsGoes DEF Wire
  <2>3. Len(rx') = got
    BY <2>1, <2>2
  <2>4. RingCap - ring.cnt >= Chunk + OutCap
    BY <1>10, Sizes, Lens, SMTT(30) DEF Read, NearlyFull, Room
  <2>5. UNCHANGED <<ring, out, played>>
    BY <1>10 DEF Read
  <2>6. ring.cnt + Len(out) + got <= RingCap
    BY <2>2, <2>4, Lens, Sizes, SMTT(30)
  <2>7. QED
    BY <2>3, <2>5, <2>6
<1>11. CASE Feed
  <2>1. rx # <<>> /\ rx' = Tail(rx) /\ played' = played
    BY <1>11 DEF Feed
  <2>2. Len(rx') = Len(rx) - 1 /\ Len(rx) > 0
    BY <2>1 DEF Wire
  <2>3. CASE UNCHANGED <<out, ring>>
    <3>1. ring'.cnt + Len(out') + Len(rx') <= RingCap
      BY <2>2, <2>3, Lens, Sizes, SMTT(30)
    <3>2. QED
      BY <2>1, <2>3, <3>1
  <2>4. CASE Head(rx) \notin Marks
    <3> DEFINE block == Append(out, Head(rx))
    <3>1. Head(rx) \in Units
      BY <2>1, <2>4 DEF Wire
    <3>2. block \in Seq(Units) /\ Len(block) = Len(out) + 1
      BY <3>1
    <3>3. /\ out' = IF Len(block) < OutCap THEN block ELSE <<>>
          /\ ring' = IF Len(block) < OutCap THEN ring ELSE Flushed(block)
      BY <1>11, <2>4 DEF Feed
    <3>4. ring.cnt + Len(block) + Len(rx') <= RingCap
      BY <2>2, <3>2, Lens, SMTT(30)
    <3> HIDE DEF block
    <3>5. CASE Len(block) < OutCap
      <4>1. out' = block /\ ring' = ring
        BY <3>3, <3>5
      <4>2. QED
        BY <2>1, <3>2, <3>4, <3>5, <4>1
    <3>6. CASE ~(Len(block) < OutCap)
      <4>1. out' = <<>> /\ ring' = Flushed(block)
        BY <3>3, <3>6
      <4>2. Len(rx') \in Nat /\ Len(block) \in Nat
        BY <2>2, <3>2, Lens
      <4>3. ring.cnt + Len(block) <= RingCap
        BY <3>4, <4>2, Lens, Sizes, SMTT(30)
      <4>4. Flushed(block) \in RingType /\ Flushed(block).cnt <= ring.cnt + Len(block)
        BY <3>2, <4>3, FlushedFits
      <4>5. Flushed(block).cnt \in Nat
        BY <4>4, Sizes DEF RingType
      <4>6. out' \in Seq(Units) /\ Len(out') = 0
        BY <4>1
      <4>7. ring'.cnt + Len(out') + Len(rx') <= RingCap
        <5>1. Len(out') = 0 /\ ring' = Flushed(block)
          BY <4>1, <4>6
        <5> DEFINE n == Flushed(block).cnt
                   b == Len(block)
                   r == Len(rx')
        <5>2. /\ n \in Nat /\ b \in Nat /\ r \in Nat
              /\ n <= ring.cnt + b /\ ring.cnt + b + r <= RingCap
          BY <3>4, <4>2, <4>4, <4>5
        <5> HIDE DEF n, b, r
        <5>3. n + 0 + r <= RingCap
          BY <5>2, Lens, Sizes, SMTT(30)
        <5>4. QED
          BY <5>1, <5>3 DEF n, r
      <4>8. QED
        BY <2>1, <4>1, <4>4, <4>6, <4>7, Sizes
    <3>7. QED
      BY <3>5, <3>6
  <2>5. QED
    BY <1>11, <2>3, <2>4 DEF Feed
<1>12. CASE Fed
  BY <1>12 DEF Fed
<1>13. CASE Check
  <2>1. PICK k \in 0..RingCap, fails \in BOOLEAN : unir_tts_pump(k, fails)
    BY <1>13 DEF Check
  <2>2. ring' \in RingType /\ ring'.cnt <= ring.cnt
    BY <2>1, Pumped DEF unir_tts_pump
  <2>3. ring.tail + k - 1 \in Int
    BY Sizes DEF RingType
  <2>4. played' \in 0..MaxUnits
    BY <2>1, <2>3, Slots DEF unir_tts_pump
  <2>5. UNCHANGED <<out, rx>>
    BY <1>13 DEF Check
  <2>6. out' \in Seq(Units) /\ Len(out') < OutCap /\ Len(out') = Len(out) /\ Len(rx') = Len(rx)
    BY <2>5
  <2>7. ring'.cnt \in Nat
    BY <2>2, Sizes DEF RingType
  <2>8. ring'.cnt + Len(out') + Len(rx') <= RingCap
    BY <2>2, <2>6, <2>7, Lens, Sizes, SMTT(30)
  <2>9. QED
    BY <2>2, <2>4, <2>6, <2>8
<1>14. CASE unir_tts_out_flush
  <2>1. /\ ring' = Flushed(out) /\ out' = <<>>
        /\ UNCHANGED <<rx, played>>
    BY <1>14 DEF unir_tts_out_flush
  <2>2. ring.cnt + Len(out) <= RingCap
    BY Lens, Sizes
  <2>3. Flushed(out) \in RingType /\ Flushed(out).cnt <= ring.cnt + Len(out)
    BY <2>2, FlushedFits
  <2>4. Flushed(out).cnt \in Nat
    BY <2>3, Sizes DEF RingType
  <2>5. out' \in Seq(Units) /\ Len(out') = 0
    BY <2>1
  <2>6. ring'.cnt + Len(out') + Len(rx') <= RingCap
    BY <2>1, <2>3, <2>4, <2>5, Lens, Sizes, SMTT(30)
  <2>7. QED
    BY <2>1, <2>3, <2>5, <2>6, Sizes
<1>15. CASE PumpTail
  <2>1. PICK k \in 0..RingCap, fails \in BOOLEAN : unir_tts_pump(k, fails)
    BY <1>15 DEF PumpTail
  <2>2. ring' \in RingType /\ ring'.cnt <= ring.cnt
    BY <2>1, Pumped DEF unir_tts_pump
  <2>3. ring.tail + k - 1 \in Int
    BY Sizes DEF RingType
  <2>4. played' \in 0..MaxUnits
    BY <2>1, <2>3, Slots DEF unir_tts_pump
  <2>5. UNCHANGED <<out, rx>>
    BY <1>15 DEF PumpTail
  <2>6. out' \in Seq(Units) /\ Len(out') < OutCap /\ Len(out') = Len(out) /\ Len(rx') = Len(rx)
    BY <2>5
  <2>7. ring'.cnt \in Nat
    BY <2>2, Sizes DEF RingType
  <2>8. ring'.cnt + Len(out') + Len(rx') <= RingCap
    BY <2>2, <2>6, <2>7, Lens, Sizes, SMTT(30)
  <2>9. QED
    BY <2>2, <2>4, <2>6, <2>8
<1>16. CASE TailEnds
  BY <1>16 DEF TailEnds
<1>17. CASE CloseWs
  BY <1>17 DEF CloseWs
<1>18. CASE WaitClosed
  BY <1>18 DEF WaitClosed
<1>19. CASE Closed
  BY <1>19 DEF Closed
<1>20. CASE unir_tts_stream_close
  BY <1>20 DEF unir_tts_stream_close
<1>21. CASE WsOpened
  BY <1>21 DEF WsOpened
<1>22. CASE WsClosed
  BY <1>22 DEF WsClosed
<1>23. CASE Late
  BY <1>23 DEF Late
<1>24. CASE Arrives
  BY <1>24 DEF Arrives
<1>25. QED
  BY <1>1, <1>2, <1>3, <1>4, <1>5, <1>6, <1>7, <1>8, <1>9, <1>10, <1>11, <1>12, <1>13, <1>14,
     <1>15, <1>16, <1>17, <1>18, <1>19, <1>20, <1>21, <1>22, <1>23, <1>24
     DEF Next, xf_tts_speak, Environment

LEMMA HeldStays == SpeechInv /\ Next => HeldLate'
<1> SUFFICES ASSUME SpeechInv, Next PROVE HeldLate'
  OBVIOUS
<1> USE DEF SpeechInv, HeldLate, Unchanged_env, task, Receiving
<1>1. CASE Speak
  BY <1>1 DEF Speak
<1>2. CASE WaitOpen
  BY <1>2 DEF WaitOpen
<1>3. CASE OpenFails
  BY <1>3 DEF OpenFails
<1>4. CASE unir_tts_stream_open
  BY <1>4 DEF unir_tts_stream_open
<1>5. CASE Recv
  BY <1>5 DEF Recv
<1>6. CASE RecvTimeout
  BY <1>6 DEF RecvTimeout
<1>7. CASE DrainPump
  BY <1>7 DEF DrainPump
<1>8. CASE ReadFull
  BY <1>8 DEF ReadFull
<1>9. CASE ReadNone
  BY <1>9 DEF ReadNone
<1>10. CASE Read
  BY <1>10 DEF Read
<1>11. CASE Feed
  BY <1>11 DEF Feed
<1>12. CASE Fed
  BY <1>12 DEF Fed
<1>13. CASE Check
  BY <1>13 DEF Check
<1>14. CASE unir_tts_out_flush
  BY <1>14 DEF unir_tts_out_flush
<1>15. CASE PumpTail
  BY <1>15 DEF PumpTail
<1>16. CASE TailEnds
  BY <1>16 DEF TailEnds
<1>17. CASE CloseWs
  BY <1>17 DEF CloseWs
<1>18. CASE WaitClosed
  BY <1>18 DEF WaitClosed
<1>19. CASE Closed
  BY <1>19 DEF Closed
<1>20. CASE unir_tts_stream_close
  BY <1>20 DEF unir_tts_stream_close
<1>21. CASE WsOpened
  BY <1>21 DEF WsOpened
<1>22. CASE WsClosed
  BY <1>22 DEF WsClosed
<1>23. CASE Late
  BY <1>23 DEF Late
<1>24. CASE Arrives
  BY <1>24 DEF Arrives
<1>25. QED
  BY <1>1, <1>2, <1>3, <1>4, <1>5, <1>6, <1>7, <1>8, <1>9, <1>10, <1>11, <1>12, <1>13, <1>14,
     <1>15, <1>16, <1>17, <1>18, <1>19, <1>20, <1>21, <1>22, <1>23, <1>24
     DEF Next, xf_tts_speak, Environment

(* At the start nothing is read, open or held.                              *)
LEMMA SpeechInvInit == Init => SpeechInv
<1> SUFFICES ASSUME Init PROVE SpeechInv
  OBVIOUS
<1>1. NoRing \in RingType /\ NoRing.cnt = 0
  BY Sizes DEF NoRing, RingType
<1>2. rx \in Seq(Units \union Marks) /\ out \in Seq(Units) /\ Len(rx) = 0 /\ Len(out) = 0
  BY DEF Init
<1>3. NothingSent \in SentType
  BY Sizes DEF NothingSent, SentType
<1>4. Places
  BY Sizes DEF Init, Places
<1>5. Switches
  BY DEF Init, Switches, FlagType, ParserType
<1>6. Wire
  BY <1>2, <1>3, WsGoes, Sizes DEF Init, Wire
<1>7. Sound
  BY <1>1, <1>2, Sizes DEF Init, Sound
<1>8. Fits
  BY <1>1, <1>2, Sizes DEF Init, Fits
<1>9. QED
  BY <1>4, <1>5, <1>6, <1>7, <1>8, TypeParts DEF SpeechInv, HeldLate, Init

(* Every step keeps the inductive invariant.                                *)
LEMMA SpeechInvInductive == SpeechInv /\ [Next]_vars => SpeechInv'
<1> SUFFICES ASSUME SpeechInv, [Next]_vars PROVE SpeechInv'
  OBVIOUS
<1>1. CASE Next
  <2>1. (Places /\ Switches /\ Wire /\ Sound)' => TypeOK'
    BY TypeParts, PTL
  <2>2. QED
    BY <1>1, <2>1, PlacesStay, SwitchesStay, WireStays, SoundStays, HeldStays
       DEF SpeechInv
<1>2. CASE UNCHANGED vars
  BY <1>2 DEF vars, task, SpeechInv, TypeOK, Fits, HeldLate
<1>3. QED
  BY <1>1, <1>2

(* Every variable keeps its type; above all, the ring never overflows,      *)
(* whatever its size and those of the block and of a read, as long as it    *)
(* has room for one of each (xf_tts.c:438-469).                             *)
THEOREM SpeechTypeCorrect == Spec => []TypeOK
<1>1. SpeechInv => TypeOK
  BY DEF SpeechInv
<1>2. QED
  BY <1>1, SpeechInvInit, SpeechInvInductive, PTL DEF Spec

(* Between two calls no stream is open and no ring is allocated, wherever   *)
(* the call before failed (xf_tts.c:937, 1047-1048).                        *)
THEOREM SpeechHoldsNothing == Spec => []NothingHeld
<1>1. SpeechInv => NothingHeld
  BY DEF SpeechInv, HeldLate, NothingHeld
<1>2. QED
  BY <1>1, SpeechInvInit, SpeechInvInductive, PTL DEF Spec

-----------------------------------------------------------------------------
(* Going round the ring                                                     *)

(* Less than one turn from a slot wraps at most once.                       *)
LEMMA Around ==
    ASSUME NEW t \in 0..RingCap-1, NEW x \in 0..RingCap
    PROVE  (t + x) % RingCap = IF t + x < RingCap THEN t + x ELSE t + x - RingCap
<1>1. t \in Int /\ x \in Int /\ t >= 0 /\ t < RingCap /\ x >= 0 /\ x <= RingCap
  BY Sizes
<1>2. ASSUME NEW a \in Int, 0 <= a, a < RingCap PROVE a % RingCap = a
  BY <1>2, Sizes, SMTT(30)
<1>3. ASSUME NEW a \in Int, RingCap <= a, a < 2 * RingCap
      PROVE  a % RingCap = a - RingCap
  BY <1>3, Sizes, SMTT(30)
<1>4. CASE t + x < RingCap
  BY <1>1, <1>2, <1>4, Sizes
<1>5. CASE ~(t + x < RingCap)
  <2>1. t + x \in Int /\ RingCap <= t + x /\ t + x < 2 * RingCap
    BY <1>1, <1>5, Sizes
  <2>2. QED
    BY <1>1, <1>3, <1>5, <2>1, Sizes
<1>6. QED
  BY <1>4, <1>5

(* Two ways in a row are one.                                               *)
LEMMA Onward ==
    ASSUME NEW t \in 0..RingCap-1, NEW k \in Nat, NEW x \in Nat, k + x <= RingCap
    PROVE  (((t + k) % RingCap) + x) % RingCap = (t + k + x) % RingCap
<1> DEFINE u == (t + k) % RingCap
<1>1. /\ k \in 0..RingCap /\ x \in 0..RingCap /\ k + x \in 0..RingCap
      /\ t \in Int /\ RingCap \in Int
  BY Sizes
<1>2. u \in 0..RingCap-1
  BY <1>1, Wraps
<1>3. u = IF t + k < RingCap THEN t + k ELSE t + k - RingCap
  BY <1>1, Around
<1>4. (u + x) % RingCap = IF u + x < RingCap THEN u + x ELSE u + x - RingCap
  BY <1>1, <1>2, Around
<1>5. (t + (k + x)) % RingCap
          = IF t + (k + x) < RingCap THEN t + (k + x) ELSE t + (k + x) - RingCap
  BY <1>1, Around
<1>6. t + (k + x) = t + k + x
  BY <1>1
<1> HIDE DEF u
<1>7. (u + x) % RingCap = (t + k + x) % RingCap
  <2>1. u \in Int
    BY <1>1, <1>2
  <2>2. (IF u + x < RingCap THEN u + x ELSE u + x - RingCap)
          = IF t + (k + x) < RingCap THEN t + (k + x) ELSE t + (k + x) - RingCap
    BY <1>1, <1>2, <1>3, <2>1
  <2>3. QED
    BY <1>4, <1>5, <1>6, <2>2
<1>8. QED
  BY <1>7 DEF u

(* The way from one slot to another is the difference of their distances.   *)
LEMMA Back ==
    ASSUME NEW t \in 0..RingCap-1, NEW c \in 0..RingCap, NEW x \in 0..RingCap-1
    PROVE  (((t + x) % RingCap) - ((t + c) % RingCap)) % RingCap
               = IF x >= c THEN x - c ELSE x - c + RingCap
<1> DEFINE a == (t + x) % RingCap
           b == (t + c) % RingCap
           d == a - b
<1>1. /\ t \in Int /\ c \in Int /\ x \in Int /\ RingCap \in Int /\ x \in 0..RingCap
      /\ 0 <= t /\ t < RingCap /\ 0 <= c /\ c <= RingCap /\ 0 <= x /\ x < RingCap
  BY Sizes
<1>2. a \in 0..RingCap-1 /\ b \in 0..RingCap-1
  BY <1>1, Wraps
<1>3. a = IF t + x < RingCap THEN t + x ELSE t + x - RingCap
  BY <1>1, Around
<1>4. b = IF t + c < RingCap THEN t + c ELSE t + c - RingCap
  BY <1>1, Around
<1> HIDE DEF a, b
<1>5. a \in Int /\ b \in Int /\ d \in Int /\ -RingCap < d /\ d < RingCap
  BY <1>1, <1>2
<1>6. \/ d >= 0 /\ d = IF x >= c THEN x - c ELSE x - c + RingCap
      \/ d < 0 /\ d + RingCap = IF x >= c THEN x - c ELSE x - c + RingCap
  BY <1>1, <1>2, <1>3, <1>4, <1>5
<1> HIDE DEF d
<1>7. ASSUME NEW e \in Int, 0 <= e, e < RingCap PROVE e % RingCap = e
  BY <1>7, Sizes, SMTT(30)
<1>8. ASSUME NEW e \in Int, -RingCap < e, e < 0 PROVE e % RingCap = e + RingCap
  BY <1>8, Sizes, SMTT(30)
<1>9. d % RingCap = IF x >= c THEN x - c ELSE x - c + RingCap
  <2>1. CASE d >= 0
    BY <1>5, <1>6, <1>7, <2>1
  <2>2. CASE d < 0
    BY <1>5, <1>6, <1>8, <2>2
  <2>3. QED
    BY <1>5, <2>1, <2>2
<1>10. QED
  BY <1>9 DEF a, b, d

(* A ring holds, from its tail to its head, the units after the p-th.       *)
Holds(r, p) ==
    /\ r.head = (r.tail + r.cnt) % RingCap
    /\ \A i \in 1..r.cnt : r.data[(r.tail + i - 1) % RingCap] = p + i

(* Taking k units from it leaves those after the k-th.                      *)
LEMMA PumpedHolds ==
    ASSUME ring \in RingType, played \in Nat, Holds(ring, played),
           NEW k \in 0..RingCap, NEW fails \in BOOLEAN, unir_tts_pump(k, fails)
    PROVE  Holds(ring', played') /\ played' + ring'.cnt = played + ring.cnt
<1> DEFINE t == ring.tail
           c == ring.cnt
<1>1. /\ t \in 0..RingCap-1 /\ c \in 0..RingCap /\ k <= c
      /\ k \in Nat /\ c \in Nat /\ t \in Nat /\ RingCap \in Nat /\ c <= RingCap
  BY Sizes DEF RingType, unir_tts_pump
<1>2. /\ ring'.tail = (t + k) % RingCap /\ ring'.cnt = c - k
      /\ ring'.data = ring.data /\ ring'.head = ring.head
      /\ played' = IF k = 0 THEN played ELSE ring.data[(t + k - 1) % RingCap]
  BY DEF RingType, unir_tts_pump
<1>3. /\ ring.head = (t + c) % RingCap
      /\ \A i \in 1..c : ring.data[(t + i - 1) % RingCap] = played + i
  BY DEF Holds
<1> HIDE DEF t, c
<1>4. played' = played + k
  <2>1. CASE k = 0
    BY <1>2, <2>1
  <2>2. CASE k # 0
    <3>1. k \in 1..c
      BY <1>1, <2>2
    <3>2. QED
      BY <1>2, <1>3, <2>2, <3>1
  <2>3. QED
    BY <2>1, <2>2
<1>5. ring'.head = (ring'.tail + ring'.cnt) % RingCap
  <2>1. c - k \in Nat /\ k + (c - k) <= RingCap /\ t + k + (c - k) = t + c
    BY <1>1
  <2>2. (((t + k) % RingCap) + (c - k)) % RingCap = (t + k + (c - k)) % RingCap
    BY <1>1, <2>1, Onward
  <2>3. QED
    BY <1>2, <1>3, <2>1, <2>2
<1>6. ASSUME NEW i \in 1..(c - k)
      PROVE  ring'.data[(ring'.tail + i - 1) % RingCap] = played' + i
  <2>1. /\ i - 1 \in Nat /\ k + (i - 1) <= RingCap /\ k + i \in 1..c
        /\ t + k + (i - 1) = t + (k + i) - 1 /\ i \in Int
    BY <1>1
  <2>2. (((t + k) % RingCap) + (i - 1)) % RingCap = (t + k + (i - 1)) % RingCap
    BY <1>1, <2>1, Onward
  <2>3. (t + k) % RingCap \in Int
    BY <1>1, Wraps
  <2>4. ((t + k) % RingCap) + (i - 1) = ((t + k) % RingCap) + i - 1
    BY <2>1, <2>3
  <2>5. ring.data[(t + (k + i) - 1) % RingCap] = played + (k + i)
    BY <1>3, <2>1
  <2>6. played + (k + i) = played + k + i
    BY <1>1, <2>1
  <2>7. QED
    BY <1>2, <1>4, <2>1, <2>2, <2>4, <2>5, <2>6
<1>7. played' + ring'.cnt = played + c
  BY <1>1, <1>2, <1>4
<1>8. QED
  BY <1>2, <1>5, <1>6, <1>7 DEF Holds, c

(* Adding the next units to it leaves it with them.                         *)
LEMMA FlushedHolds ==
    ASSUME ring \in RingType, ~parser.err, Holds(ring, played), played \in Nat,
           NEW block \in Seq(Units), ring.cnt + Len(block) <= RingCap,
           \A i \in 1..Len(block) : block[i] = played + ring.cnt + i
    PROVE  /\ Holds(Flushed(block), played)
           /\ Flushed(block).cnt = ring.cnt + Len(block)
<1> DEFINE t == ring.tail
           c == ring.cnt
           h == (ring.head + Len(block)) % RingCap
           n == c + Len(block)
           d == [i \in 0..RingCap-1 |->
                    LET k == (i - ring.head) % RingCap
                    IN  IF k < Len(block) THEN block[k + 1] ELSE ring.data[i]]
           r == [ring EXCEPT !.head = h, !.cnt = n, !.data = d]
<1>1. /\ t \in 0..RingCap-1 /\ c \in 0..RingCap
      /\ c \in Nat /\ t \in Nat /\ RingCap \in Nat /\ Len(block) \in Nat
      /\ c + Len(block) <= RingCap
  BY Sizes DEF RingType
<1>2. Flushed(block) = r
  BY DEF Flushed
<1>3. /\ ring.head = (t + c) % RingCap
      /\ \A i \in 1..c : ring.data[(t + i - 1) % RingCap] = played + i
  BY DEF Holds
<1>4. r.head = h /\ r.cnt = n /\ r.data = d /\ r.tail = t
  <2> HIDE DEF h, n, d
  <2>1. QED
    BY DEF RingType
<1>5. h = (t + n) % RingCap
  <2>1. (((t + c) % RingCap) + Len(block)) % RingCap = (t + c + Len(block)) % RingCap
    BY <1>1, Onward
  <2>2. t + c + Len(block) = t + n
    BY <1>1
  <2>3. QED
    BY <1>3, <2>1, <2>2
<1>6. ASSUME NEW j \in 1..n
      PROVE  d[(t + j - 1) % RingCap] = played + j
  <2> DEFINE s == (t + j - 1) % RingCap
             k == (s - ring.head) % RingCap
  <2>1. /\ j \in Int /\ j >= 1 /\ j <= c + Len(block) /\ j - 1 \in 0..RingCap-1
        /\ t + (j - 1) = t + j - 1
    BY <1>1
  <2>2. s \in 0..RingCap-1
    <3>1. t + j - 1 \in Int
      BY <1>1, <2>1
    <3>2. QED
      BY <3>1, Wraps
  <2>3. d[s] = IF k < Len(block) THEN block[k + 1] ELSE ring.data[s]
    BY <2>2
  <2>4. k = IF j - 1 >= c THEN j - 1 - c ELSE j - 1 - c + RingCap
    <3>1. (((t + (j - 1)) % RingCap) - ((t + c) % RingCap)) % RingCap
              = IF j - 1 >= c THEN j - 1 - c ELSE j - 1 - c + RingCap
      BY <1>1, <2>1, Back, ZenonT(60)
    <3>2. QED
      BY <1>3, <2>1, <3>1
  <2> HIDE DEF d, k
  <2>5. CASE j <= c
    <3>1. ~(k < Len(block)) /\ j \in 1..c
      BY <1>1, <2>1, <2>4, <2>5
    <3>2. QED
      BY <1>3, <2>3, <3>1
  <2>6. CASE j > c
    <3>1. /\ k = j - 1 - c /\ k < Len(block) /\ k + 1 \in 1..Len(block)
          /\ c + (k + 1) = j
      <4>1. j - 1 >= c /\ j - 1 - c \in Nat
        BY <1>1, <2>1, <2>6
      <4>2. k = j - 1 - c
        BY <2>4, <4>1
      <4>3. QED
        BY <1>1, <2>1, <4>1, <4>2, SMTT(30)
    <3>2. block[k + 1] = played + c + (k + 1)
      BY <3>1
    <3>3. played + c + (k + 1) = played + j
      BY <1>1, <2>1, <3>1, SMTT(30)
    <3>4. QED
      BY <2>3, <3>1, <3>2, <3>3
  <2>7. QED
    BY <1>1, <2>1, <2>5, <2>6
<1> HIDE DEF h, d, r
<1>7. QED
  BY <1>2, <1>4, <1>5, <1>6 DEF Holds

-----------------------------------------------------------------------------
(* The clip                                                                 *)

Hearing == Receiving \union {"open"}

(* InOrder with what makes it inductive: the end of the clip is decoded     *)
(* after all its units.                                                     *)
Clip ==
    /\ InOrder
    /\ parser.done => sent.over /\ Decoded = sent.units

(* From the moment the websocket is asked to open the clip is in order, or  *)
(* an error was seen.                                                       *)
Heard == pc \in Hearing /\ ~parser.err => Clip

(* The ring is closed, and nothing is left undecoded when it is pumped.     *)
Closes == ring.head = (ring.tail + ring.cnt) % RingCap

AllFed == rx # <<>> => pc = "feed"

(* The inductive invariant of the clip.                                     *)
ClipInv == SpeechInv /\ Heard /\ Closes /\ AllFed

LEMMA Counts ==
    SpeechInv => /\ played \in Nat /\ sent.units \in Nat /\ sent.atClose \in Nat
                 /\ Len(ws.buf) \in Nat /\ Len(rx) \in Nat /\ Len(out) \in Nat
                 /\ ring.cnt \in Nat /\ ring \in RingType /\ Decoded \in Nat
                 /\ ws.buf \in Seq(Units \union Marks)
                 /\ rx \in Seq(Units \union Marks) /\ out \in Seq(Units)
                 /\ parser \in ParserType /\ sent \in SentType /\ ws \in WsType
<1> SUFFICES ASSUME SpeechInv
             PROVE  /\ played \in Nat /\ sent.units \in Nat /\ sent.atClose \in Nat
                    /\ Len(ws.buf) \in Nat /\ Len(rx) \in Nat /\ Len(out) \in Nat
                    /\ ring.cnt \in Nat /\ ring \in RingType /\ Decoded \in Nat
                    /\ ws.buf \in Seq(Units \union Marks)
                    /\ rx \in Seq(Units \union Marks) /\ out \in Seq(Units)
                    /\ parser \in ParserType /\ sent \in SentType /\ ws \in WsType
  OBVIOUS
<1>1. Switches /\ Wire /\ Sound
  BY TypeParts DEF SpeechInv
<1>2. /\ rx \in Seq(Units \union Marks) /\ ws \in WsType /\ sent \in SentType
      /\ parser \in ParserType
      /\ out \in Seq(Units) /\ ring \in RingType /\ played \in 0..MaxUnits
  BY <1>1 DEF Switches, Wire, Sound
<1>3. ws.buf \in Seq(Units \union Marks)
  BY <1>2, WsGoes
<1>4. sent.units \in 0..MaxUnits /\ sent.atClose \in 0..MaxUnits
  BY <1>2 DEF SentType
<1>5. ring.cnt \in 0..RingCap
  BY <1>2 DEF RingType
<1>6. Len(rx) \in Nat /\ Len(out) \in Nat /\ Len(ws.buf) \in Nat
  BY <1>2, <1>3
<1>7. played \in Nat /\ sent.units \in Nat /\ sent.atClose \in Nat /\ ring.cnt \in Nat
  BY <1>2, <1>4, <1>5, Sizes
<1>8. QED
  BY <1>2, <1>3, <1>6, <1>7 DEF Decoded

(* What a ring holds, in the words of InOrder.                              *)
LEMMA HoldsInOrder == Closes /\ InOrder => Holds(ring, played)
BY DEF Closes, InOrder, Holds

(* A step that touches neither the clip nor its places keeps it.            *)
LEMMA ClipUnseen ==
    ASSUME Clip, UNCHANGED <<rx, out, ring, played, parser>>, ws'.buf = ws.buf,
           sent'.units = sent.units, sent'.over = sent.over
    PROVE  Clip'
BY DEF Clip, InOrder, IsNth, Decoded

(* Nor does the driver, however much it takes.                              *)
LEMMA PumpKeeps ==
    ASSUME SpeechInv, Closes, Clip,
           NEW k \in 0..RingCap, NEW fails \in BOOLEAN, unir_tts_pump(k, fails),
           UNCHANGED <<rx, out, ws, sent>>, parser'.done = parser.done
    PROVE  Clip' /\ Closes'
<1>1. Holds(ring', played') /\ played' + ring'.cnt = played + ring.cnt
  BY Counts, HoldsInOrder, PumpedHolds DEF Clip
<1>2. Decoded' = Decoded
  BY <1>1 DEF Decoded
<1>3. Closes'
  BY <1>1 DEF Holds, Closes
<1>4. InOrder'
  <2>1. \A i \in 1..ring'.cnt :
            ring'.data[(ring'.tail + i - 1) % RingCap] = played' + i
    BY <1>1 DEF Holds
  <2>2. \A i \in 1..Len(out) : out[i] = played' + ring'.cnt + i
    BY <1>1 DEF Clip, InOrder
  <2>3. QED
    BY <1>2, <2>1, <2>2 DEF Clip, InOrder, IsNth
<1>5. QED
  BY <1>2, <1>3, <1>4 DEF Clip

(* A pump leaves the ring closed also after an error.                       *)
LEMMA PumpCloses ==
    ASSUME SpeechInv, Closes,
           NEW k \in 0..RingCap, NEW fails \in BOOLEAN, unir_tts_pump(k, fails)
    PROVE  Closes'
<1> DEFINE t == ring.tail
           c == ring.cnt
<1>1. /\ t \in 0..RingCap-1 /\ k \in Nat /\ c - k \in Nat
      /\ k + (c - k) <= RingCap /\ t + k + (c - k) = t + c
  <2>1. t \in 0..RingCap-1 /\ c \in 0..RingCap /\ k <= c
    BY Counts DEF RingType, unir_tts_pump
  <2> HIDE DEF t, c
  <2>2. QED
    BY <2>1, Sizes
<1>2. /\ ring'.tail = (t + k) % RingCap /\ ring'.cnt = c - k
      /\ ring'.head = ring.head
  BY Counts DEF RingType, unir_tts_pump
<1> HIDE DEF t, c
<1>3. (((t + k) % RingCap) + (c - k)) % RingCap = (t + k + (c - k)) % RingCap
  BY <1>1, Onward
<1>4. QED
  BY <1>1, <1>2, <1>3 DEF Closes, t, c

(* So does a flush, of whatever fits.                                       *)
LEMMA FlushCloses ==
    ASSUME SpeechInv, Closes, NEW block \in Seq(Units), ring.cnt + Len(block) <= RingCap,
           ring' = Flushed(block)
    PROVE  Closes'
<1> DEFINE t == ring.tail
           c == ring.cnt
           d == [i \in 0..RingCap-1 |->
                    LET k == (i - ring.head) % RingCap
                    IN  IF k < Len(block) THEN block[k + 1] ELSE ring.data[i]]
           h == (ring.head + Len(block)) % RingCap
           n == c + Len(block)
<1>1. CASE parser.err
  BY <1>1 DEF Flushed, Closes
<1>2. CASE ~parser.err
  <2>1. /\ t \in 0..RingCap-1 /\ t \in Nat /\ c \in Nat /\ Len(block) \in Nat
    BY Counts, Sizes DEF RingType
  <2>2. ring' = [ring EXCEPT !.head = h, !.cnt = n, !.data = d]
    BY <1>2 DEF Flushed
  <2>3. ring'.head = h /\ ring'.cnt = n /\ ring'.tail = t
    <3> HIDE DEF h, n, d
    <3>1. QED
      BY <2>2, Counts DEF RingType
  <2>4. (((t + c) % RingCap) + Len(block)) % RingCap = (t + c + Len(block)) % RingCap
    BY <2>1, Onward
  <2>5. t + c + Len(block) = t + n
    BY <2>1
  <2>6. QED
    BY <2>3, <2>4, <2>5 DEF Closes
<1>3. QED
  BY <1>1, <1>2

(* Decoding a unit into a block with room, or into a full one that goes to  *)
(* the ring, and flushing what is left: the units stay where they belong.   *)
LEMMA FlushKeeps ==
    ASSUME SpeechInv, Closes, InOrder, ~parser.err,
           NEW block \in Seq(Units), ring.cnt + Len(block) <= RingCap,
           \A i \in 1..Len(block) : block[i] = played + ring.cnt + i,
           ring' = Flushed(block), out' = <<>>, played' = played
    PROVE  /\ \A i \in 1..ring'.cnt :
                 ring'.data[(ring'.tail + i - 1) % RingCap] = played' + i
           /\ \A i \in 1..Len(out') : out'[i] = played' + ring'.cnt + i
           /\ Decoded' = played + ring.cnt + Len(block)
<1>1. /\ Holds(Flushed(block), played)
      /\ Flushed(block).cnt = ring.cnt + Len(block)
  BY Counts, HoldsInOrder, FlushedHolds
<1>2. Len(out') = 0 /\ Len(block) \in Nat
  OBVIOUS
<1>3. Decoded' = played + ring.cnt + Len(block)
  BY <1>1, <1>2, Counts DEF Decoded
<1>4. QED
  BY <1>1, <1>2, <1>3 DEF Holds

(* Reading moves a part of what is unread to what is being decoded.         *)
LEMMA ReadKeeps ==
    ASSUME SpeechInv, Clip, rx = <<>>,
           NEW got \in 1..Chunk, got <= Len(ws.buf), rx' = SubSeq(ws.buf, 1, got),
           ws' = [ws EXCEPT !.buf = SubSeq(ws.buf, got + 1, Len(ws.buf))],
           UNCHANGED <<out, ring, played, parser, sent>>
    PROVE  Clip'
<1> DEFINE b == ws.buf
           m == Len(ws.buf)
<1>1. /\ b \in Seq(Units \union Marks) /\ m \in Nat /\ got \in Nat /\ got >= 1
      /\ Decoded \in Nat /\ Len(rx) = 0
  BY Counts, Sizes, SMTT(30)
<1>2. ws'.buf = SubSeq(b, got + 1, m)
  BY Counts DEF WsType
<1>3. Decoded' = Decoded
  BY DEF Decoded
<1>4. /\ Len(rx') = got /\ Len(ws'.buf) = m - got
      /\ \A i \in 1..got : rx'[i] = b[i]
      /\ \A i \in 1..(m - got) : ws'.buf[i] = b[got + i]
  <2>1. Len(rx') = got /\ \A i \in 1..got : rx'[i] = b[i]
    BY <1>1, SMTT(30)
  <2>2. Len(SubSeq(b, got + 1, m)) = m - got
    BY <1>1
  <2>3. \A i \in 1..(m - got) : SubSeq(b, got + 1, m)[i] = b[got + i]
    BY <1>1, SMTT(30)
  <2>4. QED
    BY <1>2, <2>1, <2>2, <2>3
<1>5. /\ \A i \in 1..m : IsNth(b[i], Decoded + 0 + i)
      /\ Decoded + 0 + m = sent.units + (IF sent.over /\ ~parser.done THEN 1 ELSE 0)
  BY <1>1 DEF Clip, InOrder
<1>6. \A i \in 1..got : IsNth(rx'[i], Decoded + i)
  <2> TAKE i \in 1..got
  <2>1. i \in 1..m /\ Decoded + 0 + i = Decoded + i
    BY <1>1
  <2>2. QED
    BY <1>4, <1>5, <2>1
<1>7. \A i \in 1..(m - got) : IsNth(ws'.buf[i], Decoded + got + i)
  <2> TAKE i \in 1..(m - got)
  <2>1. got + i \in 1..m /\ Decoded + 0 + (got + i) = Decoded + got + i
    BY <1>1, SMTT(30)
  <2>2. QED
    BY <1>4, <1>5, <2>1
<1>8. Decoded + got + (m - got) = Decoded + 0 + m
  BY <1>1
<1> HIDE DEF b, m
<1>9. InOrder'
  BY <1>3, <1>4, <1>5, <1>6, <1>7, <1>8 DEF InOrder, Clip, IsNth
<1>10. QED
  BY <1>3, <1>9 DEF Clip

(* The server sends the next unit, or the mark after the last.              *)
LEMMA ArrivesKeeps ==
    ASSUME SpeechInv, Clip, Arrives
    PROVE  Clip'
<1> DEFINE b == ws.buf
           m == Len(ws.buf)
           l == Len(rx)
           d == Decoded
           u == sent.units
<1>1. /\ b \in Seq(Units \union Marks) /\ m \in Nat /\ d \in Nat
      /\ l \in Nat /\ u \in Nat
  BY Counts
<1>2. UNCHANGED <<rx, out, ring, played, parser>> /\ ~sent.over
  BY DEF Arrives, task
<1>3. /\ \A i \in 1..l : IsNth(rx[i], d + i)
      /\ \A i \in 1..m : IsNth(b[i], d + l + i)
      /\ d + l + m = u + (IF sent.over /\ ~parser.done THEN 1 ELSE 0)
      /\ parser.done => sent.over
  BY DEF Clip, InOrder
<1>4. PICK x \in Units \union Marks :
            /\ ws' = [ws EXCEPT !.buf = Append(b, x)]
            /\ \/ /\ x = sent.units + 1
                  /\ sent' = [sent EXCEPT !.units = sent.units + 1]
               \/ x \in Marks /\ sent' = [sent EXCEPT !.over = TRUE]
  <2>1. sent.units < MaxUnits => sent.units + 1 \in Units
    BY <1>1, Sizes DEF Units
  <2>2. QED
    BY <2>1 DEF Arrives
<1>5. ws'.buf = Append(b, x)
  BY <1>4, Counts DEF WsType
<1>6. \/ /\ sent'.units = u + 1 /\ x = u + 1 /\ sent'.over = sent.over
      \/ sent'.units = u /\ x \in Marks /\ sent'.over
  BY <1>4, Counts DEF SentType
<1>7. Decoded' = d
  BY <1>2 DEF Decoded
<1> HIDE DEF b, m, l, d, u
<1>8. /\ Len(ws'.buf) = m + 1 /\ ws'.buf[m + 1] = x
      /\ \A i \in 1..m : ws'.buf[i] = b[i]
  BY <1>1, <1>5 DEF m, b
<1>9. ~parser.done /\ d + l + m = u
  <2>1. ~parser.done
    BY <1>2, <1>3
  <2>2. d + l + m = u + 0
    BY <1>2, <1>3
  <2>3. QED
    BY <1>1, <2>1, <2>2
<1>10. \A i \in 1..l : IF d + i <= sent'.units THEN rx[i] = d + i ELSE rx[i] \in Marks
  <2> TAKE i \in 1..l
  <2>1. d + i <= u /\ d + i <= u + 1
    BY <1>1, <1>9
  <2>2. rx[i] = d + i
    BY <1>3, <2>1 DEF IsNth, u
  <2>3. d + i <= sent'.units
    BY <1>6, <2>1
  <2>4. QED
    BY <2>2, <2>3
<1>11. \A i \in 1..(m + 1) : IF d + l + i <= sent'.units THEN ws'.buf[i] = d + l + i
                             ELSE ws'.buf[i] \in Marks
  <2> TAKE i \in 1..(m + 1)
  <2>1. CASE i \in 1..m
    <3>1. d + l + i <= u /\ d + l + i <= u + 1
      BY <1>1, <1>9, <2>1
    <3>2. b[i] = d + l + i
      BY <1>3, <2>1, <3>1 DEF IsNth, u
    <3>3. d + l + i <= sent'.units
      BY <1>6, <3>1
    <3>4. QED
      BY <1>8, <2>1, <3>2, <3>3
  <2>2. CASE i = m + 1
    <3>1. d + l + i = u + 1 /\ ~(u + 1 <= u) /\ u + 1 <= u + 1
      BY <1>1, <1>9, <2>2
    <3>2. ws'.buf[i] = x
      BY <1>8, <2>2
    <3>3. QED
      BY <1>6, <3>1, <3>2
  <2>3. QED
    BY <1>1, <2>1, <2>2
<1>12. d + l + (m + 1) = sent'.units + (IF sent'.over /\ ~parser.done THEN 1 ELSE 0)
  <2>1. d + l + (m + 1) = u + 1 /\ u + 1 + 0 = u + 1
    BY <1>1, <1>9
  <2>2. QED
    BY <1>2, <1>6, <1>9, <2>1
<1>13. InOrder'
  <2>1. /\ \A i \in 1..ring.cnt : ring.data[(ring.tail + i - 1) % RingCap] = played + i
        /\ \A i \in 1..Len(out) : out[i] = played + ring.cnt + i
    BY DEF Clip, InOrder
  <2>2. Len(rx') = l
    BY <1>2 DEF l
  <2>3. \A i \in 1..Len(rx') : IsNth(rx[i], Decoded + i)'
    BY <1>2, <1>7, <1>10, <2>2 DEF IsNth
  <2>4. \A i \in 1..Len(ws'.buf) : IsNth(ws.buf[i], Decoded + Len(rx) + i)'
    BY <1>7, <1>8, <1>11, <2>2 DEF IsNth
  <2>5. Decoded' + Len(rx') + Len(ws'.buf)
            = sent'.units + (IF sent'.over /\ ~parser'.done THEN 1 ELSE 0)
    BY <1>2, <1>7, <1>8, <1>12, <2>2
  <2>6. QED
    BY <1>2, <2>1, <2>3, <2>4, <2>5 DEF InOrder
<1>14. QED
  BY <1>2, <1>9, <1>13 DEF Clip

(* Decoding the mark: all units before it are decoded, and nothing is left. *)
LEMMA FeedMarkKeeps ==
    ASSUME SpeechInv, Clip, Feed, ~parser'.err, Head(rx) \in Marks
    PROVE  Clip'
<1> DEFINE b == ws.buf
           m == Len(ws.buf)
           l == Len(rx)
           d == Decoded
           u == sent.units
<1>1. /\ m \in Nat /\ d \in Nat /\ l \in Nat /\ u \in Nat
      /\ rx \in Seq(Units \union Marks)
  BY Counts
<1>2. /\ rx # <<>> /\ rx' = Tail(rx) /\ UNCHANGED <<out, ring, played, ws, sent>>
      /\ parser' = [parser EXCEPT !.done = parser.done \/ Head(rx) = END,
                                  !.err = parser.err \/ Head(rx) = ERR]
  BY DEF Feed, Unchanged_env
<1>3. l > 0 /\ Head(rx) = rx[1] /\ Len(rx') = l - 1
  BY <1>1, <1>2
<1>4. Head(rx) = END /\ parser'.done
  <2>1. parser'.err = (parser.err \/ Head(rx) = ERR)
    BY <1>2, Counts DEF ParserType
  <2>2. parser'.done = (parser.done \/ Head(rx) = END)
    BY <1>2, Counts DEF ParserType
  <2>3. QED
    BY <2>1, <2>2 DEF Marks
<1>5. /\ \A i \in 1..l : IsNth(rx[i], d + i)
      /\ d + l + m = u + (IF sent.over /\ ~parser.done THEN 1 ELSE 0)
  BY DEF Clip, InOrder
<1>6. Decoded' = d
  BY <1>2 DEF Decoded
<1> HIDE DEF b, m, l, d, u
<1>7. ~(d + 1 <= u)
  <2> SUFFICES ASSUME d + 1 <= u PROVE FALSE
    OBVIOUS
  <2>1. 1 \in 1..l
    BY <1>1, <1>3
  <2>2. rx[1] = d + 1
    BY <1>5, <2>1 DEF IsNth, u
  <2>3. QED
    BY <1>1, <1>3, <1>4, <2>2 DEF END
<1>8. sent.over /\ ~parser.done
  <2>1. d + l + m # u + 0
    BY <1>1, <1>3, <1>7
  <2>2. QED
    BY <1>5, <2>1
<1>9. d + l + m = u + 1
  BY <1>5, <1>8
<1>10. l = 1 /\ m = 0 /\ d = u
  BY <1>1, <1>3, <1>7, <1>9
<1>11. Len(rx') = 0 /\ Len(ws'.buf) = 0 /\ Decoded' = sent'.units /\ sent'.over
  BY <1>2, <1>3, <1>6, <1>8, <1>10 DEF m, u
<1>12. InOrder'
  <2>1. /\ \A i \in 1..ring.cnt : ring.data[(ring.tail + i - 1) % RingCap] = played + i
        /\ \A i \in 1..Len(out) : out[i] = played + ring.cnt + i
    BY DEF Clip, InOrder
  <2>2. Decoded' + 0 + 0 = sent'.units + 0
    BY <1>1, <1>6, <1>11
  <2>3. \A i \in 1..0 : FALSE
    OBVIOUS
  <2>4. QED
    BY <1>2, <1>4, <1>11, <2>1, <2>2, <2>3 DEF InOrder
<1>13. QED
  BY <1>11, <1>12 DEF Clip

(* Decoding a unit: it is the next of the clip, and the block it completes  *)
(* goes to the ring.                                                        *)
LEMMA FeedUnitKeeps ==
    ASSUME SpeechInv, Closes, Clip, Feed, ~parser.err, Head(rx) \notin Marks
    PROVE  Clip'
<1> DEFINE b == ws.buf
           m == Len(ws.buf)
           l == Len(rx)
           d == Decoded
           u == sent.units
           block == Append(out, Head(rx))
<1>1. /\ m \in Nat /\ d \in Nat /\ l \in Nat /\ u \in Nat
      /\ rx \in Seq(Units \union Marks) /\ out \in Seq(Units) /\ Len(out) \in Nat
      /\ ring.cnt \in Nat /\ played \in Nat
  BY Counts
<1>2. /\ rx # <<>> /\ rx' = Tail(rx) /\ UNCHANGED <<parser, played, ws, sent>>
      /\ out' = IF Len(block) < OutCap THEN block ELSE <<>>
      /\ ring' = IF Len(block) < OutCap THEN ring ELSE Flushed(block)
  BY DEF Feed, Unchanged_env
<1>3. /\ l > 0 /\ Head(rx) = rx[1] /\ Head(rx) \in Units /\ Len(rx') = l - 1
      /\ \A i \in 1..(l - 1) : rx'[i] = rx[i + 1]
  BY <1>1, <1>2
<1>4. /\ \A i \in 1..l : IsNth(rx[i], d + i)
      /\ \A i \in 1..m : IsNth(b[i], d + l + i)
      /\ d + l + m = u + (IF sent.over /\ ~parser.done THEN 1 ELSE 0)
      /\ parser.done => d = u
  BY DEF Clip, InOrder
<1>5. d = played + ring.cnt + Len(out)
  BY DEF Decoded
<1> HIDE DEF b, m, l, d, u
<1>6. d + 1 <= u /\ Head(rx) = d + 1
  <2>1. 1 \in 1..l
    BY <1>1, <1>3
  <2>2. IsNth(Head(rx), d + 1)
    BY <1>3, <1>4, <2>1
  <2>3. QED
    BY <2>2 DEF IsNth, u
<1>7. ~parser.done
  BY <1>1, <1>4, <1>6
<1>8. /\ block \in Seq(Units) /\ Len(block) = Len(out) + 1
      /\ \A i \in 1..Len(out) : block[i] = out[i]
      /\ block[Len(out) + 1] = d + 1
  BY <1>1, <1>3, <1>6
<1>9. \A i \in 1..Len(block) : block[i] = played + ring.cnt + i
  <2> HIDE DEF block
  <2> TAKE i \in 1..Len(block)
  <2>1. CASE i \in 1..Len(out)
    BY <1>8, <2>1 DEF Clip, InOrder
  <2>2. CASE i = Len(out) + 1
    <3>1. d + 1 = played + ring.cnt + (Len(out) + 1)
      BY <1>1, <1>5, SMTT(30)
    <3>2. QED
      BY <1>8, <2>2, <3>1
  <2>3. QED
    BY <1>1, <1>8, <2>1, <2>2
<1> HIDE DEF block
<1>10. /\ \A i \in 1..ring'.cnt :
             ring'.data[(ring'.tail + i - 1) % RingCap] = played' + i
       /\ \A i \in 1..Len(out') : out'[i] = played' + ring'.cnt + i
       /\ Decoded' = d + 1
  <2>1. played + ring.cnt + Len(block) = d + 1
    <3>1. played + ring.cnt + (Len(out) + 1) = d + 1
      BY <1>1, <1>5, SMTT(30)
    <3>2. QED
      BY <1>8, <3>1
  <2>2. CASE Len(block) < OutCap
    <3>1. out' = block /\ ring' = ring /\ played' = played
      BY <1>2, <2>2
    <3>2. Decoded' = d + 1
      BY <2>1, <3>1 DEF Decoded
    <3>3. QED
      BY <1>9, <3>1, <3>2 DEF Clip, InOrder
  <2>3. CASE ~(Len(block) < OutCap)
    <3>1. out' = <<>> /\ ring' = Flushed(block) /\ played' = played
      BY <1>2, <2>3
    <3>2. ring.cnt + Len(block) <= RingCap
      <4>1. ring.cnt + Len(out) + l <= RingCap
        BY Lens DEF l
      <4>2. QED
        BY <1>1, <1>3, <1>8, <4>1, Sizes
    <3>3. InOrder
      BY DEF Clip
    <3>4. QED
      BY <1>8, <1>9, <2>1, <3>1, <3>2, <3>3, FlushKeeps
  <2>4. QED
    BY <2>2, <2>3
<1>11. \A i \in 1..(l - 1) : IsNth(rx'[i], d + 1 + i)
  <2> TAKE i \in 1..(l - 1)
  <2>1. i + 1 \in 1..l /\ d + (i + 1) = d + 1 + i
    BY <1>1
  <2>2. QED
    BY <1>3, <1>4, <2>1
<1>12. \A i \in 1..m : IsNth(b[i], d + 1 + (l - 1) + i)
  <2>1. \A i \in 1..m : d + 1 + (l - 1) + i = d + l + i
    BY <1>1
  <2>2. QED
    BY <1>4, <2>1
<1>13. d + 1 + (l - 1) + m = u + (IF sent.over /\ ~parser.done THEN 1 ELSE 0)
  <2>1. d + 1 + (l - 1) + m = d + l + m
    BY <1>1
  <2>2. QED
    BY <1>4, <2>1
<1>14. InOrder'
  BY <1>2, <1>3, <1>10, <1>11, <1>12, <1>13 DEF InOrder, IsNth, b, m, u
<1>15. QED
  BY <1>2, <1>7, <1>14 DEF Clip

(* What is left in the block goes to the ring.                              *)
LEMMA FlushStepKeeps ==
    ASSUME SpeechInv, Closes, Clip, ~parser.err, unir_tts_out_flush
    PROVE  Clip'
<1>1. /\ ring' = Flushed(out) /\ out' = <<>>
      /\ UNCHANGED <<rx, parser, played, ws, sent>>
  BY DEF unir_tts_out_flush, Unchanged_env
<1>2. out \in Seq(Units) /\ ring.cnt + Len(out) <= RingCap
  BY Lens, Counts, Sizes, SMTT(30)
<1>3. /\ \A i \in 1..ring'.cnt :
            ring'.data[(ring'.tail + i - 1) % RingCap] = played' + i
      /\ \A i \in 1..Len(out') : out'[i] = played' + ring'.cnt + i
      /\ Decoded' = Decoded
  BY <1>1, <1>2, FlushKeeps DEF Clip, InOrder, Decoded
<1>4. InOrder'
  BY <1>1, <1>3 DEF Clip, InOrder, IsNth
<1>5. QED
  BY <1>1, <1>3, <1>4 DEF Clip
(* Speaking starts from nothing.                                            *)
LEMMA SpeakStarts ==
    ASSUME SpeechInv, Closes, AllFed, Speak
    PROVE  (pc' = "open" => Clip') /\ Closes'
<1>1. Len(<<>>) = 0 /\ rx = <<>> /\ rx' = rx /\ played' = 0 /\ sent' = NothingSent
  BY DEF Speak, AllFed
<1>2. CASE UNCHANGED <<ring, out, parser, ws>> /\ pc' = "exit"
  BY <1>2 DEF Closes
<1>3. CASE /\ out' = <<>> /\ ring' = NoRing
           /\ parser' = [done |-> FALSE, err |-> FALSE]
           /\ pc' = "open" => ws' = [state |-> "opening", buf |-> <<>>]
  <2>1. /\ ring'.cnt = 0 /\ ring'.tail = 0 /\ ring'.head = 0 /\ sent'.units = 0
        /\ ~sent'.over /\ ~parser'.done
    BY <1>1, <1>3 DEF NoRing, NothingSent
  <2>2. (0 + 0) % RingCap = 0
    <3>1. 0 \in 0..RingCap-1 /\ 0 \in 0..RingCap
      BY Sizes
    <3>2. (0 + 0) % RingCap = IF 0 + 0 < RingCap THEN 0 + 0 ELSE 0 + 0 - RingCap
      BY <3>1, Around
    <3>3. QED
      BY <3>2, Sizes
  <2>3. Closes'
    BY <2>1, <2>2 DEF Closes
  <2>4. Decoded' = 0
    BY <1>1, <1>3, <2>1 DEF Decoded
  <2>5. \A i \in 1..0 : FALSE
    OBVIOUS
  <2>6. pc' = "open" => InOrder'
    BY <1>1, <1>3, <2>1, <2>4, <2>5 DEF InOrder
  <2>7. QED
    BY <2>1, <2>3, <2>6 DEF Clip
<1>4. QED
  BY <1>2, <1>3 DEF Speak

(* Every step keeps the clip and the ring.                                  *)
LEMMA ClipInvInductive == ClipInv /\ [Next]_vars => ClipInv'
<1> SUFFICES ASSUME ClipInv, [Next]_vars PROVE ClipInv'
  OBVIOUS
<1>1. SpeechInv /\ SpeechInv' /\ Heard /\ Closes /\ AllFed
  BY SpeechInvInductive DEF ClipInv
<1>2. CASE UNCHANGED vars
  <2>1. UNCHANGED <<rx, out, ring, played, parser, ws, sent, pc>>
    BY <1>2 DEF vars, task
  <2>2. Clip => Clip'
    BY <2>1, ClipUnseen
  <2>3. QED
    BY <1>1, <2>1, <2>2 DEF Heard, Closes, AllFed, ClipInv
<1>3. CASE \/ WaitOpen \/ unir_tts_stream_open \/ Recv \/ RecvTimeout
           \/ ReadFull \/ ReadNone \/ Fed
  <2>1. /\ UNCHANGED <<rx, out, ring, played, parser, ws>>
        /\ sent'.units = sent.units /\ sent'.over = sent.over
        /\ pc \in Hearing
        /\ rx # <<>> => pc # "feed" \/ pc' = "feed"
    BY <1>1, <1>3, Counts DEF WaitOpen, unir_tts_stream_open, Recv, RecvTimeout, ReadFull,
                              ReadNone, Fed, Unchanged_env, Hearing, Receiving, SentType
  <2>2. Clip => Clip'
    BY <2>1, ClipUnseen
  <2>3. QED
    BY <1>1, <2>1, <2>2 DEF Heard, Closes, AllFed, ClipInv
<1>4. CASE OpenFails \/ TailEnds \/ CloseWs \/ WaitClosed \/ Closed
           \/ unir_tts_stream_close
  <2>1. /\ UNCHANGED <<rx, ring>>
        /\ pc # "feed" /\ pc' \in {"exit", "close", "closing", "idle"}
    BY <1>4 DEF OpenFails, TailEnds, CloseWs, WaitClosed, Closed,
                unir_tts_stream_close, Unchanged_env
  <2>2. QED
    BY <1>1, <2>1 DEF Heard, Closes, AllFed, ClipInv, Hearing, Receiving
<1>5. CASE WsOpened \/ WsClosed \/ Late
  <2>1. /\ UNCHANGED <<rx, out, ring, played, parser, pc>>
        /\ ws'.buf = ws.buf /\ sent'.units = sent.units /\ sent'.over = sent.over
    BY <1>1, <1>5, Counts DEF WsOpened, WsClosed, Late, SetClosed, task, WsType, SentType
  <2>2. QED
    BY <1>1, <2>1, ClipUnseen DEF Heard, Closes, AllFed, ClipInv
<1>6. CASE Arrives
  <2>1. UNCHANGED <<rx, ring, parser, pc>>
    BY <1>6 DEF Arrives, task
  <2>2. QED
    BY <1>1, <1>6, <2>1, ArrivesKeeps DEF Heard, Closes, AllFed, ClipInv
<1>7. CASE DrainPump \/ Check \/ PumpTail
  <2>1. PICK k \in 0..RingCap, fails \in BOOLEAN :
            /\ unir_tts_pump(k, fails)
            /\ \/ parser' = [parser EXCEPT !.err = parser.err \/ fails]
               \/ ~parser.err /\ parser' = [parser EXCEPT !.err = fails]
    BY <1>7 DEF DrainPump, Check, PumpTail
  <2>2. /\ UNCHANGED <<rx, out, ws, sent>> /\ pc \in Hearing
        /\ pc # "feed"
    BY <1>7 DEF DrainPump, Check, PumpTail, Unchanged_env, Hearing, Receiving
  <2>3. parser'.done = parser.done /\ (~parser'.err => ~parser.err)
    BY <1>1, <2>1, Counts DEF ParserType
  <2>4. Closes'
    BY <1>1, <2>1, PumpCloses
  <2>5. ~parser'.err => Clip'
    BY <1>1, <2>1, <2>2, <2>3, PumpKeeps DEF Heard
  <2>6. QED
    BY <1>1, <2>2, <2>4, <2>5 DEF Heard, AllFed, ClipInv
<1>8. CASE Read
  <2>1. PICK got \in 1..Chunk :
            /\ got <= Len(ws.buf)
            /\ rx' = SubSeq(ws.buf, 1, got)
            /\ ws' = [ws EXCEPT !.buf = SubSeq(ws.buf, got + 1, Len(ws.buf))]
    BY <1>8 DEF Read
  <2>2. /\ UNCHANGED <<out, ring, played, parser, sent>> /\ pc \in Hearing
        /\ pc = "read" /\ pc' = "feed"
    BY <1>8 DEF Read, Hearing, Receiving
  <2>3. rx = <<>>
    BY <1>1, <2>2 DEF AllFed
  <2>4. Clip => Clip'
    BY <1>1, <2>1, <2>2, <2>3, ReadKeeps
  <2>5. QED
    BY <1>1, <2>2, <2>4 DEF Heard, Closes, AllFed, ClipInv
<1>9. CASE Feed
  <2>1. pc = "feed" /\ pc' = pc /\ pc \in Hearing
    BY <1>9 DEF Feed, Hearing, Receiving
  <2>2. CASE Head(rx) \in Marks
    <3>1. /\ UNCHANGED <<out, ring>>
          /\ parser' = [parser EXCEPT !.done = parser.done \/ Head(rx) = END,
                                      !.err = parser.err \/ Head(rx) = ERR]
      BY <1>9, <2>2 DEF Feed
    <3>2. ~parser'.err => ~parser.err
      BY <1>1, <3>1, Counts DEF ParserType
    <3>3. ~parser'.err => Clip'
      BY <1>1, <1>9, <2>1, <2>2, <3>2, FeedMarkKeeps DEF Heard
    <3>4. QED
      BY <1>1, <2>1, <3>1, <3>3 DEF Heard, Closes, AllFed, ClipInv
  <2>3. CASE Head(rx) \notin Marks
    <3> DEFINE block == Append(out, Head(rx))
    <3>1. /\ parser' = parser
          /\ ring' = IF Len(block) < OutCap THEN ring ELSE Flushed(block)
      BY <1>9, <2>3 DEF Feed
    <3>2. ~parser'.err => Clip'
      BY <1>1, <1>9, <2>1, <2>3, <3>1, FeedUnitKeeps DEF Heard
    <3>3. block \in Seq(Units) /\ ring.cnt + Len(block) <= RingCap
      <4>1. rx # <<>>
        BY <1>9 DEF Feed
      <4>2. Head(rx) \in Units /\ Len(rx) > 0
        BY <1>1, <2>3, <4>1, Counts
      <4>3. block \in Seq(Units) /\ Len(block) = Len(out) + 1
        BY <1>1, <4>2, Counts
      <4>4. ring.cnt + (Len(out) + 1) <= RingCap
        BY <1>1, <4>2, Lens, Sizes
      <4>5. QED
        BY <4>3, <4>4
    <3> HIDE DEF block
    <3>4. Closes'
      <4>1. CASE Len(block) < OutCap
        BY <1>1, <3>1, <4>1 DEF Closes
      <4>2. CASE ~(Len(block) < OutCap)
        BY <1>1, <3>1, <3>3, <4>2, FlushCloses
      <4>3. QED
        BY <4>1, <4>2
    <3>5. QED
      BY <1>1, <2>1, <3>2, <3>4 DEF Heard, AllFed, ClipInv
  <2>4. QED
    BY <2>2, <2>3
<1>10. CASE unir_tts_out_flush
  <2>1. /\ ring' = Flushed(out) /\ UNCHANGED <<rx, parser>>
        /\ pc = "flush" /\ pc \in Hearing
    BY <1>10 DEF unir_tts_out_flush, Unchanged_env, Hearing, Receiving
  <2>2. out \in Seq(Units) /\ ring.cnt + Len(out) <= RingCap
    BY <1>1, Lens, Counts, Sizes, SMTT(30)
  <2>3. Closes'
    BY <1>1, <2>1, <2>2, FlushCloses
  <2>4. ~parser'.err => Clip'
    BY <1>1, <1>10, <2>1, FlushStepKeeps DEF Heard
  <2>5. QED
    BY <1>1, <2>1, <2>3, <2>4 DEF Heard, AllFed, ClipInv
<1>11. CASE Speak
  <2>1. pc' \in {"open", "exit"} /\ pc = "idle" /\ rx' = rx
    BY <1>11 DEF Speak
  <2>2. QED
    BY <1>1, <1>11, <2>1, SpeakStarts
       DEF Heard, AllFed, ClipInv, Hearing, Receiving
<1>12. QED
  BY <1>2, <1>3, <1>4, <1>5, <1>6, <1>7, <1>8, <1>9, <1>10, <1>11
     DEF Next, xf_tts_speak, Environment

LEMMA ClipInvInit == Init => ClipInv
<1> SUFFICES ASSUME Init PROVE ClipInv
  OBVIOUS
<1>1. Closes
  <2>1. 0 \in 0..RingCap-1 /\ 0 \in 0..RingCap
    BY Sizes
  <2>2. (0 + 0) % RingCap = IF 0 + 0 < RingCap THEN 0 + 0 ELSE 0 + 0 - RingCap
    BY <2>1, Around
  <2>3. (0 + 0) % RingCap = 0
    BY <2>2, Sizes
  <2>4. ring.head = 0 /\ ring.tail = 0 /\ ring.cnt = 0
    BY DEF Init, NoRing
  <2>5. QED
    BY <2>3, <2>4 DEF Closes
<1>2. Heard /\ AllFed
  BY DEF Init, Heard, AllFed, Hearing, Receiving
<1>3. QED
  BY <1>1, <1>2, SpeechInvInit DEF ClipInv

(* While a clip is received and no error was seen, what the driver took,    *)
(* what the ring and the block hold and what is still to be decoded are the *)
(* units that were sent, in order, none missing and none twice: for every   *)
(* size of the ring that has room for a block and a read, and however       *)
(* little the driver takes at a time.                                       *)
THEOREM SpeechLosesNothing == Spec => []NoGap
<1>1. ClipInv => NoGap
  BY DEF ClipInv, Heard, Clip, NoGap, Hearing
<1>2. QED
  BY <1>1, ClipInvInit, ClipInvInductive, PTL DEF Spec

-----------------------------------------------------------------------------
(* The end of a clip                                                        *)

(* The flag is looked at before the websocket is found empty, and what had  *)
(* arrived when the flag was set is not more than what has arrived now.     *)
CloseSeen ==
    /\ sent.atClose <= sent.units
    /\ was => pc \in {"drain", "read", "feed", "check"} /\ flag.closed
    /\ emptied => pc = "check"
    /\ was /\ emptied /\ ~parser.err => Decoded >= sent.atClose

(* A step that touches none of this keeps it.                               *)
LEMMA CloseUnseen ==
    ASSUME CloseSeen,
           was' = was, emptied' = emptied,
           was => pc' \in {"drain", "read", "feed", "check"} /\ flag'.closed,
           emptied => pc' = "check",
           sent'.atClose <= sent'.units,
           was /\ emptied => /\ sent'.atClose = sent.atClose
                             /\ parser' = parser /\ Decoded' = Decoded
    PROVE  CloseSeen'
BY DEF CloseSeen

LEMMA CloseSeenInductive == ClipInv /\ CloseSeen /\ [Next]_vars => CloseSeen'
<1> SUFFICES ASSUME ClipInv, CloseSeen, [Next]_vars PROVE CloseSeen'
  OBVIOUS
<1>1. SpeechInv
  BY DEF ClipInv
<1>2. CASE UNCHANGED vars
  BY <1>2 DEF vars, task, CloseSeen, Decoded
<1>3. CASE Speak
  <2>1. pc = "idle" /\ was' = was /\ emptied' = emptied /\ sent' = NothingSent
    BY <1>3 DEF Speak
  <2>2. ~was' /\ ~emptied' /\ sent'.atClose <= sent'.units
    BY <2>1 DEF CloseSeen, NothingSent
  <2>3. QED
    BY <2>2 DEF CloseSeen
<1>4. CASE \/ WaitOpen \/ OpenFails \/ unir_tts_stream_open \/ RecvTimeout
           \/ unir_tts_out_flush \/ PumpTail \/ TailEnds \/ CloseWs \/ WaitClosed
           \/ Closed \/ unir_tts_stream_close
  <2>1. /\ pc \notin {"drain", "read", "feed", "check"}
        /\ UNCHANGED <<was, emptied>>
        /\ sent'.atClose = sent.atClose /\ sent'.units = sent.units
    BY <1>1, <1>4, Counts
       DEF WaitOpen, OpenFails, unir_tts_stream_open, RecvTimeout, unir_tts_out_flush,
           PumpTail, TailEnds, CloseWs, WaitClosed, Closed, unir_tts_stream_close,
           Unchanged_env, SentType
  <2>2. ~was' /\ ~emptied'
    BY <2>1 DEF CloseSeen
  <2>3. QED
    BY <2>1, <2>2 DEF CloseSeen
<1>5. CASE Recv
  <2>1. /\ was' = flag.closed /\ UNCHANGED <<flag, emptied, sent>>
        /\ pc = "recv" /\ pc' = "drain"
    BY <1>5 DEF Recv, Unchanged_env
  <2>2. QED
    BY <2>1 DEF CloseSeen
<1>6. CASE DrainPump \/ Read \/ Feed \/ Fed
  <2>1. /\ pc \in {"drain", "read", "feed"} /\ pc' \in {"read", "feed", "drain"}
        /\ UNCHANGED <<flag, was, emptied, sent>>
    BY <1>6 DEF DrainPump, Read, Feed, Fed, Unchanged_env
  <2>2. QED
    BY <2>1 DEF CloseSeen
<1>7. CASE ReadFull
  <2>1. ~emptied' /\ UNCHANGED <<flag, was, sent>> /\ pc' = "check"
    BY <1>7 DEF ReadFull, Unchanged_env
  <2>2. QED
    BY <2>1 DEF CloseSeen
<1>8. CASE ReadNone
  <2>1. /\ UNCHANGED <<rx, out, parser, ring, played, flag, was, sent>>
        /\ pc = "read" /\ pc' = "check" /\ ws.buf = <<>> /\ Len(<<>>) = 0
    BY <1>8 DEF ReadNone, Unchanged_env
  <2>2. rx = <<>>
    BY <2>1 DEF ClipInv, AllFed
  <2>3. ~parser.err => Decoded >= sent.units
    <3>1. ~parser.err => Decoded + 0 + 0
              = sent.units + (IF sent.over /\ ~parser.done THEN 1 ELSE 0)
      BY <2>1, <2>2 DEF ClipInv, Heard, Clip, InOrder, Hearing, Receiving
    <3>2. QED
      BY <1>1, <3>1, Counts
  <2>4. ~parser'.err => Decoded' >= sent'.atClose
    BY <1>1, <2>1, <2>3, Counts DEF CloseSeen, Decoded
  <2>5. QED
    BY <2>1, <2>4 DEF CloseSeen
<1>9. CASE Check
  <2>1. ~was' /\ ~emptied' /\ sent' = sent
    BY <1>9 DEF Check, Unchanged_env
  <2>2. QED
    BY <2>1 DEF CloseSeen
<1>10. CASE WsOpened \/ WsClosed \/ Late
  <2>1. /\ UNCHANGED <<pc, was, emptied, parser, out, ring, played>>
        /\ flag.closed => flag'.closed /\ sent' = sent
        /\ sent' = sent \/ sent' = [sent EXCEPT !.atClose = sent.units]
    <3>1. flag \in FlagType
      BY <1>1, TypeParts DEF SpeechInv, Switches
    <3>2. \A ok \in BOOLEAN : SetOpen(ok) => flag'.closed = flag.closed
      BY <3>1 DEF SetOpen, FlagType
    <3>3. SetClosed => /\ flag'.closed
                       /\ flag.closed => sent' = sent
                       /\ sent' = sent \/ sent' = [sent EXCEPT !.atClose = sent.units]
      BY <3>1 DEF SetClosed, FlagType
    <3>4. QED
      BY <1>10, <3>2, <3>3 DEF WsOpened, WsClosed, Late, task
  <2>2. Decoded' = Decoded
    BY <2>1 DEF Decoded
  <2>3. sent'.atClose <= sent'.units
    BY <1>1, <2>1, Counts, SMTT(30) DEF CloseSeen, SentType
  <2>4. QED
    BY <2>1, <2>2, <2>3, CloseUnseen DEF CloseSeen
<1>11. CASE Arrives
  <2>1. /\ UNCHANGED <<pc, was, emptied, parser, out, ring, played, flag>>
        /\ \/ sent' = [sent EXCEPT !.units = sent.units + 1]
           \/ sent' = [sent EXCEPT !.over = TRUE]
    BY <1>11 DEF Arrives, task
  <2>2. Decoded' = Decoded
    BY <2>1 DEF Decoded
  <2>3. sent'.atClose = sent.atClose /\ sent.units <= sent'.units
    <3>1. CASE sent' = [sent EXCEPT !.units = sent.units + 1]
      BY <1>1, <3>1, Counts DEF SentType
    <3>2. CASE sent' = [sent EXCEPT !.over = TRUE]
      BY <1>1, <3>2, Counts DEF SentType
    <3>3. QED
      BY <2>1, <3>1, <3>2
  <2>4. sent'.atClose <= sent'.units
    <3>1. sent'.units \in Nat
      BY <1>1, <2>1, Counts, SMTT(30) DEF SentType
    <3>2. QED
      BY <1>1, <2>3, <3>1, Counts DEF CloseSeen
  <2>5. QED
    BY <2>1, <2>2, <2>3, <2>4, CloseUnseen DEF CloseSeen
<1>12. QED
  BY <1>2, <1>3, <1>4, <1>5, <1>6, <1>7, <1>8, <1>9, <1>10, <1>11
     DEF Next, xf_tts_speak, Environment

(* Once the receive loop is left without an error and within its time, and  *)
(* the end of the clip was not decoded, a websocket was closed, and what    *)
(* had arrived by then is decoded.  The block is flushed before the tail.   *)
Ending ==
    /\ /\ pc \in {"flush", "tail"} /\ ~parser.err /\ ~parser.done /\ ~sent.timedOut
       => flag.closed /\ Decoded >= sent.atClose
    /\ pc = "tail" => out = <<>>

(* A step that neither leaves the loop nor brings sound keeps it.           *)
LEMMA EndingUnseen ==
    ASSUME Ending, UNCHANGED <<pc, parser, out, ring, played>>,
           sent'.timedOut = sent.timedOut,
           flag.closed => flag'.closed /\ sent'.atClose = sent.atClose
    PROVE  Ending'
BY DEF Ending, Decoded

(* What the pump takes was decoded already.                                 *)
LEMMA PumpDecodes ==
    ASSUME SpeechInv, Closes, Clip,
           NEW k \in 0..RingCap, NEW fails \in BOOLEAN, unir_tts_pump(k, fails),
           out' = out
    PROVE  Decoded' = Decoded
<1>1. played' + ring'.cnt = played + ring.cnt
  BY Counts, HoldsInOrder, PumpedHolds DEF Clip
<1>2. QED
  BY <1>1 DEF Decoded

(* The loop is left when all of the clip was decoded, or when a websocket   *)
(* was seen to be closed before ours was found empty.                       *)
LEMMA CheckEnds ==
    ASSUME ClipInv, CloseSeen, Check, ~parser'.err, ~parser'.done, pc' = "flush"
    PROVE  flag'.closed /\ Decoded' >= sent'.atClose
<1>1. SpeechInv /\ Closes /\ pc = "check" /\ UNCHANGED <<flag, sent, out>>
  BY DEF ClipInv, Check, Unchanged_env
<1>2. PICK k \in 0..RingCap, fails \in BOOLEAN :
          /\ unir_tts_pump(k, fails)
          /\ parser' = [parser EXCEPT !.err = parser.err \/ fails]
  BY DEF Check
<1>3. ~parser.err /\ parser'.done = parser.done
  BY <1>1, <1>2, Counts DEF ParserType
<1>4. Clip
  BY <1>1, <1>3 DEF ClipInv, Heard, Hearing, Receiving
<1>5. Decoded' = Decoded
  BY <1>1, <1>2, <1>4, PumpDecodes
<1>6. was /\ emptied
  BY DEF Check
<1>7. QED
  BY <1>1, <1>3, <1>5, <1>6 DEF CloseSeen

LEMMA EndingInductive == ClipInv /\ CloseSeen /\ Ending /\ [Next]_vars => Ending'
<1> SUFFICES ASSUME ClipInv, CloseSeen, Ending, [Next]_vars PROVE Ending'
  OBVIOUS
<1>1. SpeechInv /\ Closes
  BY DEF ClipInv
<1>2. CASE UNCHANGED vars
  BY <1>2 DEF vars, task, Ending, Decoded
<1>3. CASE \/ Speak \/ WaitOpen \/ OpenFails \/ unir_tts_stream_open \/ Recv
           \/ DrainPump \/ ReadFull \/ ReadNone \/ Read \/ Feed \/ Fed
           \/ TailEnds \/ CloseWs \/ WaitClosed \/ Closed \/ unir_tts_stream_close
  <2>1. pc' \notin {"flush", "tail"}
    BY <1>3 DEF Speak, WaitOpen, OpenFails, unir_tts_stream_open, Recv, DrainPump,
                ReadFull, ReadNone, Read, Feed, Fed, TailEnds, CloseWs, WaitClosed,
                Closed, unir_tts_stream_close
  <2>2. QED
    BY <2>1 DEF Ending
<1>4. CASE RecvTimeout
  <2>1. sent'.timedOut /\ pc' = "flush"
    BY <1>1, <1>4, Counts DEF RecvTimeout, SentType
  <2>2. QED
    BY <2>1 DEF Ending
<1>5. CASE Check
  <2>1. pc' \in {"flush", "recv"}
    BY <1>5 DEF Check
  <2>2. QED
    BY <1>5, <2>1, CheckEnds DEF Ending
<1>6. CASE unir_tts_out_flush
  <2>1. /\ pc = "flush" /\ pc' = "tail" /\ ring' = Flushed(out) /\ out' = <<>>
        /\ UNCHANGED <<parser, played, flag, sent>>
    BY <1>6 DEF unir_tts_out_flush, Unchanged_env
  <2>2. ~parser.err => Decoded' = Decoded
    <3> SUFFICES ASSUME ~parser.err PROVE Decoded' = Decoded
      OBVIOUS
    <3>1. Clip
      BY <2>1 DEF ClipInv, Heard, Hearing, Receiving
    <3>2. out \in Seq(Units) /\ ring.cnt + Len(out) <= RingCap
      BY <1>1, Lens, Counts, Sizes, SMTT(30)
    <3>3. QED
      BY <1>1, <2>1, <3>1, <3>2, FlushKeeps DEF Clip, InOrder, Decoded
  <2>3. QED
    BY <2>1, <2>2 DEF Ending
<1>7. CASE PumpTail
  <2>1. /\ pc = "tail" /\ pc' = pc /\ ~parser.err
        /\ UNCHANGED <<out, flag, sent>>
    BY <1>7 DEF PumpTail, Unchanged_env
  <2>2. PICK k \in 0..RingCap, fails \in BOOLEAN :
            /\ unir_tts_pump(k, fails)
            /\ parser' = [parser EXCEPT !.err = fails]
    BY <1>7 DEF PumpTail
  <2>3. parser'.done = parser.done
    BY <1>1, <2>2, Counts DEF ParserType
  <2>4. Clip
    BY <2>1 DEF ClipInv, Heard, Hearing, Receiving
  <2>5. Decoded' = Decoded
    BY <1>1, <2>1, <2>2, <2>4, PumpDecodes
  <2>6. QED
    BY <2>1, <2>3, <2>5 DEF Ending
<1>8. CASE WsOpened \/ WsClosed \/ Late
  <2>1. UNCHANGED <<pc, parser, out, ring, played>>
    BY <1>8 DEF WsOpened, WsClosed, Late, task
  <2>2. flag \in FlagType
    BY <1>1, TypeParts DEF SpeechInv, Switches
  <2>3. \A ok \in BOOLEAN : SetOpen(ok) => flag'.closed = flag.closed
    BY <2>2 DEF SetOpen, FlagType
  <2>4. ASSUME SetClosed
        PROVE  /\ flag'.closed /\ sent'.timedOut = sent.timedOut
               /\ flag.closed => sent' = sent
    BY <1>1, <2>2, <2>4, Counts DEF SetClosed, FlagType, SentType
  <2>5. /\ sent'.timedOut = sent.timedOut
        /\ flag.closed => flag'.closed /\ sent'.atClose = sent.atClose
    <3>1. CASE SetClosed
      BY <2>4, <3>1
    <3>2. CASE sent' = sent /\ \E ok \in BOOLEAN : SetOpen(ok)
      BY <2>3, <3>2
    <3>3. QED
      BY <1>8, <3>1, <3>2 DEF WsOpened, WsClosed, Late
  <2>6. QED
    BY <2>1, <2>5, EndingUnseen
<1>9. CASE Arrives
  <2>1. UNCHANGED <<pc, parser, out, ring, played, flag>>
    BY <1>9 DEF Arrives, task
  <2>2. sent'.timedOut = sent.timedOut /\ sent'.atClose = sent.atClose
    BY <1>1, <1>9, Counts DEF Arrives, SentType
  <2>3. QED
    BY <2>1, <2>2, EndingUnseen
<1>10. QED
  BY <1>2, <1>3, <1>4, <1>5, <1>6, <1>7, <1>8, <1>9
     DEF Next, xf_tts_speak, Environment

(* A clip that ends without an error and within both time limits was taken  *)
(* by the driver to its last unit if its end was decoded, and otherwise to  *)
(* what had arrived when a websocket was closed: for every size of the ring *)
(* and the block, and every number of waits.                                *)
THEOREM SpeechPlaysToTheEnd == Spec => PlayedToTheEnd
<1> DEFINE Played ==
        /\ pc = "tail" /\ pc' = "close"
        /\ ~parser.err /\ ~sent.timedOut
        /\ ring.cnt = 0 \/ tries > 0
        => played >= (IF parser.done THEN sent.units ELSE sent.atClose)
<1>1. ClipInv /\ CloseSeen /\ Ending /\ [Next]_vars => [Played]_vars
  <2> SUFFICES ASSUME ClipInv, Ending, Next, pc = "tail", pc' = "close",
                      ~parser.err, ~sent.timedOut, ring.cnt = 0 \/ tries > 0
               PROVE  played >= (IF parser.done THEN sent.units ELSE sent.atClose)
    BY DEF vars, task
  <2>1. SpeechInv
    BY DEF ClipInv
  <2>2. TailEnds
    BY DEF Next, xf_tts_speak, Environment, Speak, WaitOpen, OpenFails,
           unir_tts_stream_open, Recv, RecvTimeout, DrainPump, ReadFull, ReadNone, Read,
           Feed, Fed, Check, unir_tts_out_flush, PumpTail, CloseWs, WaitClosed, Closed,
           unir_tts_stream_close, WsOpened, WsClosed, Late, Arrives, task
  <2>3. ring.cnt = 0 /\ Len(out) = 0
    BY <2>2 DEF TailEnds, Ending
  <2>4. Decoded = played
    BY <2>1, <2>3, Counts DEF Decoded
  <2>5. CASE parser.done
    <3>1. Clip
      BY DEF ClipInv, Heard, Hearing, Receiving
    <3>2. QED
      BY <2>1, <2>4, <2>5, <3>1, Counts DEF Clip
  <2>6. CASE ~parser.done
    BY <2>4, <2>6 DEF Ending
  <2>7. QED
    BY <2>5, <2>6
<1>2. Init => CloseSeen /\ Ending
  BY DEF Init, CloseSeen, Ending, NothingSent
<1>3. QED
  BY <1>1, <1>2, ClipInvInit, ClipInvInductive, CloseSeenInductive, EndingInductive, PTL
     DEF Spec, PlayedToTheEnd
=============================================================================
