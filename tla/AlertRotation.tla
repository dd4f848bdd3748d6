---------------------------- MODULE AlertRotation ----------------------------
(***************************************************************************)
(* What the emergency_call_alarm session promises, without timers, queues  *)
(* or call states.  Once raised, an alert tries the contacts of the table  *)
(* one after the other, from the first; it is over when somebody who was   *)
(* called has talked, or it fails, and it fails only when there is no      *)
(* contact left in the table to try.  The table may be replaced meanwhile. *)
(***************************************************************************)
EXTENDS Integers, Sequences

CONSTANT Tables    \* the contact tables there are, none of them empty

VARIABLES
    phase,   \* "quiet", "alerting", "talking" or "failed"
    tried,   \* how many contacts of the table this alert has tried
    table    \* the contact table

vars == <<phase, tried, table>>

Init ==
    /\ phase = "quiet"
    /\ tried = 0
    /\ table \in Tables

Raise ==
    /\ phase \in {"quiet", "failed"}
    /\ phase' = "alerting"
    /\ tried' = 0
    /\ UNCHANGED table

Try ==
    /\ phase = "alerting"
    /\ tried < Len(table)
    /\ tried' = tried + 1
    /\ UNCHANGED <<phase, table>>

Answer ==
    /\ phase = "alerting"
    /\ tried > 0
    /\ phase' = "talking"
    /\ UNCHANGED <<tried, table>>

HangUp ==
    /\ phase = "talking"
    /\ phase' = "quiet"
    /\ tried' = 0
    /\ UNCHANGED table

GiveUp ==
    /\ phase = "alerting"
    /\ tried >= Len(table)
    /\ phase' = "failed"
    /\ tried' = 0
    /\ UNCHANGED table

Settle ==
    /\ phase = "failed"
    /\ phase' = "quiet"
    /\ UNCHANGED <<tried, table>>

Replace ==
    /\ table' \in Tables
    /\ UNCHANGED <<phase, tried>>

Next == Raise \/ Try \/ Answer \/ HangUp \/ GiveUp \/ Settle \/ Replace

Spec == Init /\ [][Next]_vars
=============================================================================
