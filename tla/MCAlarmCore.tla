----------------------------- MODULE MCAlarmCore -----------------------------
(* AlarmCore with its properties, for TLC.                                  *)
EXTENDS AlarmCoreProperties

CONSTANTS c1, c2, c3

MCContacts == {c1, c2, c3}

(* A table of both contacts and a shorter one: a replacement can reorder    *)
(* the rotation and can leave the index of the session past the end.        *)
MCTables == {<<c1, c2>>, <<c2>>}

(* Tables that are never replaced.                                          *)
OneTable == {<<c1, c2>>}
=============================================================================
