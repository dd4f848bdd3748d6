--------------------------- MODULE ContactRegister ---------------------------
(* What contact_store.c promises: one contact table, replaced as a whole,   *)
(* that can be saved, and a start that comes up with the saved table or     *)
(* with the factory contacts.  AlarmCore sees the store like this.          *)
CONSTANTS Lists, Defaults

VARIABLES
    table,   \* the table in force
    saved    \* the saved table, <<>> if none was ever saved

vars == <<table, saved>>

Init ==
    /\ saved \in Lists \cup {<<>>}
    /\ table \in {Defaults, saved} \ {<<>>}

Replace ==
    /\ table' \in Lists
    /\ UNCHANGED saved

Save ==
    /\ saved' = table
    /\ UNCHANGED table

Start ==
    /\ table' \in {Defaults, saved} \ {<<>>}
    /\ UNCHANGED saved

Next == Replace \/ Save \/ Start

Spec == Init /\ [][Next]_vars
=============================================================================
