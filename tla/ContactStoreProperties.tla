------------------------ MODULE ContactStoreProperties ------------------------
(* What is claimed of ContactStore.                                         *)
EXTENDS ContactStore

(* Every variable has its type; no count exceeds ALARM_CONTACT_MAX.         *)
TypeOK ==
    /\ g_contacts \in [0..1 -> [Slots -> Contacts \cup {blank}]]
    /\ g_counts \in [0..1 -> 0..ContactMax]
    /\ g_active_idx \in 0..1
    /\ nv \in Lists \cup {<<>>} /\ kept \in Lists \cup {<<>>}
    /\ loaded \in BOOLEAN /\ midway \in BOOLEAN
    /\ wpc \in {"idle", "clear", "copy", "count", "flip", "persist",
                "ack0", "ack1"}
    /\ list \in Lists \cup {<<>>}
    /\ slot \in 0..ContactMax
    /\ rpc \in {"idle", "count", "use"}
    /\ idx \in 0..1
    /\ count \in 0..ContactMax
    /\ seen \in Seq(Contacts \cup {blank})
    /\ begun \in Nat
    /\ budget \in [{"updates", "gets", "restarts"} -> Nat]

(* What the reader has got so far is the beginning of the table that was in *)
(* force when it read g_active_idx.                                         *)
ReadsSnapshot ==
    rpc # "idle" =>
        /\ rpc = "use" => count = Len(snapshot)
        /\ Len(seen) <= Len(snapshot)
        /\ \A i \in 1..Len(seen) : seen[i] = snapshot[i]

(* A reader needs no lock as long as the download in progress when it got   *)
(* the pointer and those that begin until it has finished are one at most.  *)
OneDownloadIsSafe ==
    (IF midway THEN begun = 0 ELSE begun <= 1) => ReadsSnapshot

(* A list acknowledged as persisted is in force again after a power loss at *)
(* any later step, unless a later download replaced the record or the       *)
(* record cannot be read (cloud_publish_ack after alarm_contact_store_init).*)
AckedSurvivesRestart ==
    [][ Restart /\ kept # <<>> /\ loaded' => Active' = kept ]_vars

-----------------------------------------------------------------------------
Register == INSTANCE ContactRegister WITH table <- Active, saved <- nv

(* The two buffers and the NV record implement ContactRegister: whatever    *)
(* step of an update is next, alarm_contact_store_get gives one whole list, *)
(* and what is saved is the table in force.                                 *)
ImplementsRegister == Register!Spec
=============================================================================
