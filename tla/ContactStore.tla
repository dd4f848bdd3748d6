----------------------------- MODULE ContactStore -----------------------------
(***************************************************************************)
(* The contact table of emergency_call_alarm: two buffers in RAM, of which *)
(* readers use the active one without a lock, and one NV record            *)
(* (alarm/cloud/contact_store.c), with the download that replaces them     *)
(* (cloud_handle_contacts_payload in alarm/cloud/mqtt_client.c).           *)
(*                                                                         *)
(* The writer is the cloud task, the only caller of                        *)
(* alarm_contact_store_update, so its mutex is never contended.  The       *)
(* reader is the alarm task: alarm_contact_store_get gives it a pointer    *)
(* into a buffer, through which begin_alert reads one contact after the    *)
(* other while the writer goes on.  Copying one contact is one step, and   *)
(* stores take effect in program order.  A power loss at any step keeps    *)
(* the NV record only; the NV driver replaces it as a whole or not at all. *)
(***************************************************************************)
EXTENDS Integers, Sequences

CONSTANTS
    Contacts,     \* the contacts there are
    blank,        \* a zeroed contact
    ContactMax,   \* ALARM_CONTACT_MAX
    Lists,        \* the contact lists that pass alarm_contacts_parse_json
    Defaults,     \* the factory contacts ALARM_CONTACT_1.. of alarm_config.h
    MaxUpdates,   \* bound: downloads in a behaviour
    MaxGets,      \* bound: calls of alarm_contact_store_get in a behaviour
    MaxRestarts   \* bound: power losses in a behaviour

ASSUME StoreAssumption ==
    /\ ContactMax \in Nat \ {0}
    /\ blank \notin Contacts
    /\ \A l \in Lists : l \in Seq(Contacts) /\ Len(l) \in 1..ContactMax
    /\ Defaults \in Seq(Contacts) /\ Len(Defaults) = ContactMax
    /\ {MaxUpdates, MaxGets, MaxRestarts} \subseteq Nat

VARIABLES
    g_contacts, g_counts, g_active_idx,   \* as in the code
    nv,        \* the NV record; <<>> when there is none
    loaded,    \* the last start could read the NV record, if there is one
    wpc,       \* where the writer is in the download
    list,      \* the contact list it was given
    slot,      \* contacts cleared or copied so far
    kept,      \* history: the list last acknowledged with persisted = 1,
               \* <<>> from the next download on
    rpc,       \* where the reader is
    idx,       \* the buffer alarm_contact_store_get gave it
    count,     \* the count it gave it
    seen,      \* the contacts it has read through the pointer
    snapshot,  \* history: the table in force when it read g_active_idx
    begun,     \* history: downloads that began writing since then
    midway,    \* history: one was writing at that moment
    budget     \* what is left of the three bounds

memory  == <<g_contacts, g_counts, g_active_idx>>
writer  == <<wpc, list, slot, kept>>
reader  == <<rpc, idx, count, seen, snapshot, midway>>
vars    == <<memory, nv, loaded, writer, reader, begun, budget>>

Slots == 1..ContactMax

(* A buffer that holds list l, the remaining contacts zeroed.               *)
Filled(l) == [i \in Slots |-> IF i <= Len(l) THEN l[i] ELSE blank]

Table(contacts, counts, i) == [k \in 1..counts[i] |-> contacts[i][k]]

(* The table alarm_contact_store_get would give now.                        *)
Active == Table(g_contacts, g_counts, g_active_idx)

standby == 1 - g_active_idx

(* Writing the standby buffer, before it becomes the active one.            *)
Writing == wpc \in {"clear", "copy", "count", "flip"}

Spend(what) ==
    /\ budget[what] > 0
    /\ budget' = [budget EXCEPT ![what] = @ - 1]

-----------------------------------------------------------------------------
(* alarm_contact_store_init, before any other task runs                     *)

(* What nv_read_contacts finds.                                             *)
Found(record, readable) == IF readable THEN record ELSE <<>>

(* RAM is zeroed and the defaults are loaded; a record that was found goes  *)
(* to the standby buffer, which becomes the active one.                     *)
BootContacts(found) == [i \in 0..1 |-> Filled(IF i = 0 THEN Defaults ELSE found)]

BootCounts(found) == [i \in 0..1 |-> Len(IF i = 0 THEN Defaults ELSE found)]

BootIdx(found) == IF found = <<>> THEN 0 ELSE 1

Idle ==
    /\ wpc' = "idle" /\ list' = <<>> /\ slot' = 0
    /\ rpc' = "idle" /\ idx' = 0 /\ count' = 0
    /\ seen' = <<>> /\ snapshot' = <<>>
    /\ begun' = 0 /\ midway' = FALSE

Init ==
    /\ nv \in Lists \cup {<<>>}
    /\ loaded \in BOOLEAN
    /\ g_contacts = BootContacts(Found(nv, loaded))
    /\ g_counts = BootCounts(Found(nv, loaded))
    /\ g_active_idx = BootIdx(Found(nv, loaded))
    /\ wpc = "idle" /\ list = <<>> /\ slot = 0 /\ kept = <<>>
    /\ rpc = "idle" /\ idx = 0 /\ count = 0 /\ seen = <<>>
    /\ snapshot = <<>> /\ begun = 0 /\ midway = FALSE
    /\ budget = [updates |-> MaxUpdates, gets |-> MaxGets,
                 restarts |-> MaxRestarts]

(* Power is lost at any step, and the device starts again.                  *)
Restart ==
    /\ Spend("restarts")
    /\ loaded' \in BOOLEAN
    /\ g_contacts' = BootContacts(Found(nv, loaded'))
    /\ g_counts' = BootCounts(Found(nv, loaded'))
    /\ g_active_idx' = BootIdx(Found(nv, loaded'))
    /\ Idle
    /\ UNCHANGED <<nv, kept>>

-----------------------------------------------------------------------------
(* A download: publish_to_standby, nv_write_contacts, acknowledgement       *)

Download(l) ==
    /\ wpc = "idle"
    /\ Spend("updates")
    /\ wpc' = "clear"
    /\ list' = l
    /\ slot' = 0
    /\ begun' = IF rpc = "idle" THEN begun ELSE begun + 1
    /\ UNCHANGED <<memory, nv, loaded, kept, reader>>

(* One more contact of the standby buffer is done, out of n.                *)
Advance(contact, n, next) ==
    /\ g_contacts' = [g_contacts EXCEPT ![standby][slot + 1] = contact]
    /\ IF slot + 1 = n
       THEN wpc' = next /\ slot' = 0
       ELSE wpc' = wpc /\ slot' = slot + 1
    /\ UNCHANGED <<g_counts, g_active_idx, nv, loaded, list, kept, reader,
                   begun, budget>>

ClearContact ==
    /\ wpc = "clear"
    /\ Advance(blank, ContactMax, "copy")

(* Copies over the buffer the readers have.                                 *)
CopyContact_Wrong ==
    /\ wpc = "copy"
    /\ g_contacts' = [g_contacts EXCEPT ![g_active_idx][slot + 1] = list[slot + 1]]
    /\ IF slot + 1 = Len(list)
       THEN wpc' = "count" /\ slot' = 0
       ELSE wpc' = wpc /\ slot' = slot + 1
    /\ UNCHANGED <<g_counts, g_active_idx, nv, loaded, list, kept, reader,
                   begun, budget>>

CopyContact ==
    /\ wpc = "copy"
    /\ Advance(list[slot + 1], Len(list), "count")

(* Off by one.                                                              *)
SetCount_Wrong ==
    /\ wpc = "count"
    /\ g_counts' = [g_counts EXCEPT ![standby] = Len(list) + 1]
    /\ wpc' = "flip"
    /\ UNCHANGED <<g_contacts, g_active_idx, nv, loaded, list, slot, kept,
                   reader, begun, budget>>

SetCount ==
    /\ wpc = "count"
    /\ g_counts' = [g_counts EXCEPT ![standby] = Len(list)]
    /\ wpc' = "flip"
    /\ UNCHANGED <<g_contacts, g_active_idx, nv, loaded, list, slot, kept,
                   reader, begun, budget>>

Flip ==
    /\ wpc = "flip"
    /\ g_active_idx' = standby
    /\ wpc' = "persist"
    /\ UNCHANGED <<g_contacts, g_counts, nv, loaded, list, slot, kept, reader,
                   begun, budget>>

(* Reports a failed write as a success.                                     *)
Persist_Wrong ==
    /\ wpc = "persist"
    /\ \/ nv' = list /\ kept' = <<>>
       \/ UNCHANGED <<nv, kept>>
    /\ wpc' = "ack0"
    /\ UNCHANGED <<memory, loaded, list, slot, reader, begun, budget>>

(* alarm_contact_store_update returns 0, or 1 if the write failed.          *)
Persist ==
    /\ wpc = "persist"
    /\ \/ nv' = list /\ kept' = <<>> /\ wpc' = "ack0"
       \/ wpc' = "ack1" /\ UNCHANGED <<nv, kept>>
    /\ UNCHANGED <<memory, loaded, list, slot, reader, begun, budget>>

(* cloud_publish_ack tells the cloud whether the list was persisted.        *)
Acknowledge ==
    /\ wpc \in {"ack0", "ack1"}
    /\ wpc' = "idle"
    /\ kept' = IF wpc = "ack0" THEN list ELSE kept
    /\ UNCHANGED <<memory, nv, loaded, list, slot, reader, begun, budget>>

-----------------------------------------------------------------------------
(* alarm_contact_store_get and the use of the pointer it returns            *)

GetIndex ==
    /\ rpc = "idle"
    /\ Spend("gets")
    /\ rpc' = "count"
    /\ idx' = g_active_idx
    /\ count' = 0
    /\ seen' = <<>>
    /\ snapshot' = Active
    /\ begun' = 0
    /\ midway' = Writing
    /\ UNCHANGED <<memory, nv, loaded, writer>>

GetCount ==
    /\ rpc = "count"
    /\ rpc' = "use"
    /\ count' = g_counts[idx]
    /\ UNCHANGED <<memory, nv, loaded, writer, idx, seen, snapshot, midway,
                   begun, budget>>

ReadContact ==
    /\ rpc = "use"
    /\ Len(seen) < count
    /\ seen' = Append(seen, g_contacts[idx][Len(seen) + 1])
    /\ UNCHANGED <<memory, nv, loaded, writer, rpc, idx, count, snapshot,
                   midway, begun, budget>>

Release ==
    /\ rpc = "use"
    /\ rpc' = "idle"
    /\ UNCHANGED <<memory, nv, loaded, writer, idx, count, seen, snapshot,
                   midway, begun, budget>>

Next ==
    \/ Restart
    \/ \E l \in Lists : Download(l)
    \/ ClearContact \/ CopyContact \/ SetCount \/ Flip \/ Persist \/ Acknowledge
    \/ GetIndex \/ GetCount \/ ReadContact \/ Release

Spec == Init /\ [][Next]_vars
=============================================================================
