---------------------------- MODULE MCContactStore ----------------------------
(* ContactStore with its properties, for TLC.                               *)
EXTENDS ContactStoreProperties

CONSTANTS c1, c2, c3

MCContacts == {c1, c2, c3}

(* Lists of both lengths, none a prefix of another.                         *)
MCLists == {<<c1, c2>>, <<c3>>}

MCDefaults == <<c2, c1>>
=============================================================================
