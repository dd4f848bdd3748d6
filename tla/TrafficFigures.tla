--------------------------- MODULE TrafficFigures ---------------------------
(***************************************************************************)
(* The traffic of the current day, week and month in 4g_donlg (usb_net.c): *)
(* every second the status task reads the counter of the data call and     *)
(* the clock and subtracts a baseline that moves with the calendar.        *)
(*                                                                         *)
(* A reading has the counter, the day and whether the clock is valid.  A   *)
(* calendar of weeks and months of PeriodDays keeps what matters: they     *)
(* begin with a day, not with one another.                                 *)
(***************************************************************************)
EXTENDS Integers, Sequences, SequencesExt

LOCAL PeriodDays == [today |-> 1, week |-> 2, month |-> 3]

Days   == 0 .. 3   \* bound
Totals == 0 .. 2   \* bound

Periods == {"today", "week", "month"}

(* The calendar keys; an unset clock gives the key 0 for each.              *)
calendar_keys(r) ==
    [p \in Periods |-> IF r.valid THEN 1 + r.day \div PeriodDays[p] ELSE 0]

(* Nothing was read yet: no baseline is valid.                              *)
NoMeter == [started |-> FALSE, last |-> 0, key |-> [p \in Periods |-> 0],
            base |-> [p \in Periods |-> 0]]

calculate_bytes_Wrong(m, r) ==
    LET keys == calendar_keys(r)
        turned(p) == r.valid /\ m.key[p] # keys[p]
    IN  IF ~m.started
        THEN [started |-> TRUE, last |-> r.total, key |-> keys, base |-> [p \in Periods |-> r.total]]
        ELSE [m EXCEPT !.last = r.total,
                       !.key  = [p \in Periods |-> IF turned(p) THEN keys[p] ELSE m.key[p]],
                       !.base = [p \in Periods |-> IF turned(p) THEN r.total ELSE m.base[p]]]

(* The first reading, and one below the last, set all baselines; a period   *)
(* whose key changed sets its own.                                          *)
calculate_bytes(m, r) ==
    LET keys == calendar_keys(r)
        turned(p) == r.valid /\ m.key[p] # keys[p]
    IN  IF ~m.started \/ r.total < m.last
        THEN [started |-> TRUE, last |-> r.total, key |-> keys, base |-> [p \in Periods |-> r.total]]
        ELSE [m EXCEPT !.last = r.total,
                       !.key  = [p \in Periods |-> IF turned(p) THEN keys[p] ELSE m.key[p]],
                       !.base = [p \in Periods |-> IF turned(p) THEN r.total ELSE m.base[p]]]

(* What the readings so far made of a meter that was never read.            *)
MeterAfter(s) ==
    LET m[i \in 0 .. Len(s)] == IF i = 0 THEN NoMeter ELSE calculate_bytes(m[i - 1], s[i])
    IN  m[Len(s)]

(* What the status shows for a period after the last reading.               *)
Figure(m, p) == IF m.last < m.base[p] THEN 0 ELSE m.last - m.base[p]

-----------------------------------------------------------------------------
(* Reference definition                                                     *)

Readings(n, clock) ==
    {s \in BoundedSeq([total : Totals, day : Days, valid : {TRUE, clock}], n) : s # <<>>}

(* A period or the counter starts with reading i.                           *)
Starts(s, p, i) ==
    \/ i = 1
    \/ s[i].total < s[i - 1].total
    \/ calendar_keys(s[i])[p] # calendar_keys(s[i - 1])[p]

CountedSinceStart(s, p) ==
    LET start == CHOOSE i \in DOMAIN s :
                    Starts(s, p, i) /\ \A j \in i + 1 .. Len(s) : ~Starts(s, p, j)
    IN  s[Len(s)].total - s[start].total
=============================================================================
