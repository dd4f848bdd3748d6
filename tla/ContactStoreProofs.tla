-------------------------- MODULE ContactStoreProofs --------------------------
(* What ContactStoreProperties claims of ContactStore, proved for every set *)
(* of lists, every ContactMax and any number of downloads and restarts.     *)
EXTENDS ContactStoreProperties, TLAPS

-----------------------------------------------------------------------------
(* Buffers and tables                                                       *)

(* A list that parsed is a sequence that fits into a buffer.                *)
LEMMA ListFits ==
    ASSUME NEW l \in Lists \cup {Defaults}
    PROVE  /\ l \in Seq(Contacts) /\ Len(l) \in Slots
           /\ DOMAIN l = 1..Len(l)
           /\ \A i \in 1..Len(l) : l[i] \in Contacts
           /\ l # <<>>
BY StoreAssumption DEF Slots

(* A buffer with the contacts and the count of a list gives that list.      *)
LEMMA TableOfList ==
    ASSUME NEW l \in Lists \cup {Defaults}, NEW contacts, NEW counts, NEW i,
           counts[i] = Len(l),
           \A k \in 1..Len(l) : contacts[i][k] = l[k]
    PROVE  Table(contacts, counts, i) = l
<1>1. l \in Seq(Contacts) /\ DOMAIN l = 1..Len(l)
  BY ListFits
<1>2. l = [k \in 1..Len(l) |-> l[k]]
  BY <1>1
<1>3. QED
  BY <1>2 DEF Table

(* Filling a buffer with a list, or with nothing, gives a buffer.           *)
LEMMA FilledBuffer ==
    ASSUME NEW l \in Lists \cup {Defaults, <<>>}
    PROVE  /\ Filled(l) \in [Slots -> Contacts \cup {blank}]
           /\ \A k \in 1..Len(l) : Filled(l)[k] = l[k]
           /\ Len(l) \in 0..ContactMax
<1>1. CASE l = <<>>
  BY <1>1, StoreAssumption DEF Filled, Slots
<1>2. CASE l \in Lists \cup {Defaults}
  <2>1. Len(l) \in Slots /\ \A k \in 1..Len(l) : l[k] \in Contacts
    BY <1>2, ListFits
  <2>2. QED
    BY <2>1, StoreAssumption DEF Filled, Slots
<1>3. QED
  BY <1>1, <1>2

(* After a start the table in force is what was found, or the defaults, and *)
(* the memory is well typed.                                                *)
LEMMA BootTable ==
    ASSUME NEW f \in Lists \cup {<<>>}
    PROVE  /\ Table(BootContacts(f), BootCounts(f), BootIdx(f))
                = IF f = <<>> THEN Defaults ELSE f
           /\ BootContacts(f) \in [0..1 -> [Slots -> Contacts \cup {blank}]]
           /\ BootCounts(f) \in [0..1 -> 0..ContactMax]
           /\ BootIdx(f) \in 0..1
<1>1. /\ Filled(f) \in [Slots -> Contacts \cup {blank}]
      /\ Filled(Defaults) \in [Slots -> Contacts \cup {blank}]
      /\ Len(f) \in 0..ContactMax /\ Len(Defaults) \in 0..ContactMax
  BY FilledBuffer
<1>2. /\ BootContacts(f) \in [0..1 -> [Slots -> Contacts \cup {blank}]]
      /\ BootCounts(f) \in [0..1 -> 0..ContactMax]
      /\ BootIdx(f) \in 0..1
  BY <1>1 DEF BootContacts, BootCounts, BootIdx
<1>3. CASE f = <<>>
  <2>1. BootCounts(f)[0] = Len(Defaults) /\ BootContacts(f)[0] = Filled(Defaults)
    BY DEF BootCounts, BootContacts
  <2>2. \A k \in 1..Len(Defaults) : BootContacts(f)[0][k] = Defaults[k]
    BY <2>1, FilledBuffer
  <2>3. QED
    BY <1>2, <1>3, <2>1, <2>2, TableOfList DEF BootIdx
<1>4. CASE f # <<>>
  <2>1. BootCounts(f)[1] = Len(f) /\ BootContacts(f)[1] = Filled(f)
    BY DEF BootCounts, BootContacts
  <2>2. \A k \in 1..Len(f) : BootContacts(f)[1][k] = f[k]
    BY <2>1, FilledBuffer
  <2>3. QED
    BY <1>2, <1>4, <2>1, <2>2, TableOfList DEF BootIdx
<1>5. QED
  BY <1>2, <1>3, <1>4

-----------------------------------------------------------------------------
(* The inductive invariant                                                  *)

(* How much of the list is in the standby buffer, how far it got, and what  *)
(* an acknowledged record is.                                               *)
WriterInv ==
    /\ Active \in Lists \cup {Defaults}
    /\ wpc # "idle" => list \in Lists
    /\ wpc = "clear" => slot < ContactMax
    /\ wpc = "copy" => /\ slot < Len(list)
                       /\ \A k \in 1..slot : g_contacts[standby][k] = list[k]
    /\ wpc \in {"count", "flip"} =>
           \A k \in 1..Len(list) : g_contacts[standby][k] = list[k]
    /\ wpc = "flip" => g_counts[standby] = Len(list)
    /\ wpc = "persist" => Active = list
    /\ wpc = "ack0" => nv = list
    /\ kept # <<>> => nv = kept

(* With no download since the pointer was taken it is the active buffer;    *)
(* with one, it is the buffer that download does not write.                 *)
Held ==
    /\ ~midway /\ begun = 0 => idx = g_active_idx /\ ~Writing
    /\ (midway /\ begun = 0) \/ (~midway /\ begun = 1)
           => (idx = g_active_idx <=> Writing)

ReaderInv ==
    rpc # "idle" /\ (IF midway THEN begun = 0 ELSE begun <= 1) =>
        /\ Held
        /\ Table(g_contacts, g_counts, idx) = snapshot
        /\ snapshot \in Lists \cup {Defaults}
        /\ ReadsSnapshot

StoreInv == TypeOK /\ WriterInv /\ ReaderInv

(* A start establishes the invariant, at first and after a power loss.      *)
LEMMA StoreInvInit == Init => StoreInv
<1> SUFFICES ASSUME Init PROVE StoreInv
  OBVIOUS
<1> DEFINE f == Found(nv, loaded)
<1>1. f \in Lists \cup {<<>>}
  BY DEF Init, Found
<1>2. TypeOK
  <2>1. budget \in [{"updates", "gets", "restarts"} -> Nat]
    BY StoreAssumption DEF Init
  <2>2. 0 \in 0..ContactMax
    BY StoreAssumption
  <2>3. /\ g_contacts \in [0..1 -> [Slots -> Contacts \cup {blank}]]
        /\ g_counts \in [0..1 -> 0..ContactMax]
        /\ g_active_idx \in 0..1
    BY <1>1, BootTable DEF Init
  <2>4. seen \in Seq(Contacts \cup {blank}) /\ begun \in Nat /\ idx \in 0..1
    BY DEF Init
  <2>5. /\ slot \in 0..ContactMax /\ count \in 0..ContactMax
        /\ loaded \in BOOLEAN /\ midway \in BOOLEAN
        /\ nv \in Lists \cup {<<>>} /\ kept \in Lists \cup {<<>>}
        /\ list \in Lists \cup {<<>>} /\ rpc = "idle" /\ wpc = "idle"
    BY <2>2 DEF Init
  <2>6. QED
    BY <2>1, <2>3, <2>4, <2>5 DEF TypeOK
<1>3. WriterInv
  <2>1. Active = IF f = <<>> THEN Defaults ELSE f
    BY <1>1, BootTable DEF Init, Active
  <2>2. QED
    BY <1>1, <2>1 DEF Init, WriterInv
<1>4. ReaderInv
  BY DEF Init, ReaderInv
<1>5. QED
  BY <1>2, <1>3, <1>4 DEF StoreInv

(* A power loss at any step comes back to it.                               *)
LEMMA RestartInv == ASSUME StoreInv, Restart PROVE StoreInv'
<1> DEFINE f == Found(nv, loaded')
<1>1. f \in Lists \cup {<<>>}
  BY DEF Restart, Found, StoreInv, TypeOK
<1>2. TypeOK'
  <2>1. budget' \in [{"updates", "gets", "restarts"} -> Nat]
    BY DEF Restart, Spend, StoreInv, TypeOK
  <2>2. 0 \in 0..ContactMax
    BY StoreAssumption
  <2>3. /\ g_contacts' \in [0..1 -> [Slots -> Contacts \cup {blank}]]
        /\ g_counts' \in [0..1 -> 0..ContactMax]
        /\ g_active_idx' \in 0..1
    BY <1>1, BootTable DEF Restart
  <2>4. seen' \in Seq(Contacts \cup {blank}) /\ begun' \in Nat /\ idx' \in 0..1
    BY DEF Restart, Idle
  <2>5. /\ slot' \in 0..ContactMax /\ count' \in 0..ContactMax
        /\ loaded' \in BOOLEAN /\ midway' \in BOOLEAN
        /\ nv' \in Lists \cup {<<>>} /\ kept' \in Lists \cup {<<>>}
        /\ list' \in Lists \cup {<<>>} /\ rpc' = "idle" /\ wpc' = "idle"
    BY <2>2 DEF Restart, Idle, StoreInv, TypeOK
  <2>6. QED
    BY <2>1, <2>3, <2>4, <2>5 DEF TypeOK
<1>3. WriterInv'
  <2>1. Active' = IF f = <<>> THEN Defaults ELSE f
    BY <1>1, BootTable DEF Restart, Active
  <2>2. QED
    BY <1>1, <2>1 DEF Restart, Idle, StoreInv, WriterInv
<1>4. ReaderInv'
  BY DEF Restart, Idle, ReaderInv
<1>5. QED
  BY <1>2, <1>3, <1>4 DEF StoreInv

-----------------------------------------------------------------------------
(* The steps of a download                                                  *)

(* The standby buffer is the other one.                                     *)
LEMMA StandbyBuffer ==
    ASSUME StoreInv
    PROVE  /\ standby \in 0..1 /\ standby # g_active_idx
           /\ \A i \in 0..1 : i # standby => i = g_active_idx
BY DEF standby, StoreInv, TypeOK

(* A download leaves a reader within the promise only if it is the first.   *)
LEMMA DownloadInv ==
    ASSUME StoreInv, NEW l \in Lists, Download(l) PROVE StoreInv'
<1> USE DEF StoreInv
<1>1. TypeOK'
  <2>1. budget' \in [{"updates", "gets", "restarts"} -> Nat]
    BY DEF Download, Spend, TypeOK
  <2>2. 0 \in 0..ContactMax
    BY StoreAssumption
  <2>3. QED
    BY <2>1, <2>2 DEF Download, TypeOK, memory, reader
<1>2. Active' = Active
  BY DEF Download, Active, memory
<1>3. WriterInv'
  BY <1>2, StoreAssumption DEF Download, WriterInv
<1>4. ReaderInv'
  <2> SUFFICES ASSUME rpc' # "idle",
                      IF midway' THEN begun' = 0 ELSE begun' <= 1
               PROVE  ReaderInv'
    BY DEF ReaderInv
  <2>1. /\ rpc' = rpc /\ rpc # "idle" /\ midway' = midway /\ idx' = idx
        /\ begun' = begun + 1 /\ begun \in Nat /\ wpc = "idle" /\ Writing'
    BY DEF Download, reader, TypeOK, Writing
  <2>2. ~midway /\ begun = 0
    BY <2>1
  <2>3. idx = g_active_idx
    BY <2>1, <2>2 DEF ReaderInv, Held
  <2>4. Held'
    BY <2>1, <2>2, <2>3 DEF Held, Download, memory
  <2>5. Table(g_contacts, g_counts, idx)' = Table(g_contacts, g_counts, idx)
    BY DEF Download, memory, reader, Table
  <2>6. QED
    BY <2>1, <2>2, <2>4, <2>5 DEF Download, reader, ReaderInv, ReadsSnapshot
<1>5. QED
  BY <1>1, <1>3, <1>4

(* Writing the standby buffer does not touch a table a reader may rely on.  *)
LEMMA StandbyWrite ==
    ASSUME StoreInv, Writing, Writing', begun' = begun, UNCHANGED reader,
           g_active_idx' = g_active_idx,
           g_contacts'[g_active_idx] = g_contacts[g_active_idx],
           g_counts'[g_active_idx] = g_counts[g_active_idx]
    PROVE  ReaderInv' /\ Active' = Active
<1> USE DEF StoreInv
<1>1. Active' = Active
  BY DEF Active, Table
<1>2. ReaderInv'
  <2> SUFFICES ASSUME rpc' # "idle",
                      IF midway' THEN begun' = 0 ELSE begun' <= 1
               PROVE  ReaderInv'
    BY DEF ReaderInv
  <2>1. /\ rpc' = rpc /\ rpc # "idle" /\ midway' = midway /\ idx' = idx
        /\ count' = count /\ seen' = seen /\ snapshot' = snapshot
        /\ begun \in Nat
    BY DEF reader, TypeOK
  <2>2. Held
    BY <2>1 DEF ReaderInv
  <2>3. idx = g_active_idx
    BY <2>1, <2>2 DEF Held, TypeOK
  <2>4. Held'
    BY <2>1, <2>2 DEF Held
  <2>5. Table(g_contacts, g_counts, idx)' = Table(g_contacts, g_counts, idx)
    BY <2>1, <2>3 DEF Table
  <2>6. QED
    BY <2>1, <2>4, <2>5 DEF ReaderInv, ReadsSnapshot
<1>3. QED
  BY <1>1, <1>2

(* Clearing and copying one contact advances the standby buffer only.       *)
LEMMA FillInv ==
    ASSUME StoreInv, ClearContact \/ CopyContact PROVE StoreInv'
<1> USE DEF StoreInv
<1>1. /\ standby \in 0..1 /\ standby # g_active_idx
      /\ slot \in Nat /\ list \in Lists /\ Len(list) \in Slots
  BY StandbyBuffer, ListFits, StoreAssumption, SMTT(30)
     DEF TypeOK, WriterInv, ClearContact, CopyContact
<1>2. slot + 1 \in Slots
  BY <1>1, StoreAssumption DEF ClearContact, CopyContact, WriterInv, Slots
<1>3. PICK contact \in Contacts \cup {blank} :
          g_contacts' = [g_contacts EXCEPT ![standby][slot + 1] = contact]
  <2>1. CASE ClearContact
    BY <2>1 DEF ClearContact, Advance
  <2>2. CASE CopyContact
    <3>1. slot + 1 \in 1..Len(list)
      BY <1>1, <2>2 DEF CopyContact, WriterInv, Slots
    <3>2. list[slot + 1] \in Contacts
      BY <1>1, <3>1, ListFits
    <3>3. QED
      BY <2>2, <3>2 DEF CopyContact, Advance
  <2>3. QED
    BY <2>1, <2>2
<1>4. /\ UNCHANGED <<g_counts, g_active_idx, nv, loaded, list, kept, reader,
                     begun, budget>>
      /\ Writing /\ Writing'
  BY DEF ClearContact, CopyContact, Advance, Writing
<1>5. g_contacts' \in [0..1 -> [Slots -> Contacts \cup {blank}]]
  BY <1>1, <1>2, <1>3 DEF TypeOK
<1>6. g_contacts'[g_active_idx] = g_contacts[g_active_idx]
  BY <1>1, <1>3 DEF TypeOK
<1>7. ReaderInv' /\ Active' = Active
  BY <1>4, <1>6, StandbyWrite
<1>8. \A k \in 1..ContactMax :
          g_contacts'[standby][k] = IF k = slot + 1
                                    THEN (IF wpc = "copy" THEN list[k] ELSE blank)
                                    ELSE g_contacts[standby][k]
  BY <1>1, <1>2, ZenonT(60) DEF ClearContact, CopyContact, Advance, TypeOK, Slots
<1>9. /\ slot' \in 0..ContactMax
      /\ wpc' \in {"clear", "copy", "count"}
  BY <1>1, <1>2, StoreAssumption DEF ClearContact, CopyContact, Advance, Slots
<1>10. TypeOK'
  BY <1>4, <1>5, <1>9 DEF TypeOK, reader
<1>11. standby' = standby
  BY <1>4 DEF standby
<1>12. WriterInv'
  <2>1. CASE ClearContact
    <3>1. CASE slot + 1 = ContactMax
      BY <1>1, <1>4, <1>7, <2>1, <3>1 DEF WriterInv, ClearContact, Advance, Slots
    <3>2. CASE slot + 1 # ContactMax
      BY <1>1, <1>2, <1>4, <1>7, <2>1, <3>2, StoreAssumption
         DEF WriterInv, ClearContact, Advance, Slots
    <3>3. QED
      BY <3>1, <3>2
  <2>2. CASE CopyContact
    <3>1. wpc = "copy" /\ slot < Len(list)
          /\ \A k \in 1..slot : g_contacts[standby][k] = list[k]
      BY <2>2 DEF CopyContact, WriterInv
    <3>2. \A k \in 1..(slot + 1) : g_contacts'[standby][k] = list[k]
      BY <1>1, <1>2, <1>8, <3>1, StoreAssumption DEF Slots
    <3>3. CASE slot + 1 = Len(list)
      BY <1>4, <1>7, <1>11, <2>2, <3>2, <3>3 DEF WriterInv, CopyContact, Advance
    <3>4. CASE slot + 1 # Len(list)
      BY <1>1, <1>4, <1>7, <1>11, <2>2, <3>1, <3>2, <3>4
         DEF WriterInv, CopyContact, Advance, Slots
    <3>5. QED
      BY <3>3, <3>4
  <2>3. QED
    BY <2>1, <2>2
<1>13. QED
  BY <1>7, <1>10, <1>12

(* Setting the count completes the standby buffer.                          *)
LEMMA SetCountInv == ASSUME StoreInv, SetCount PROVE StoreInv'
<1> USE DEF StoreInv
<1>1. /\ standby \in 0..1 /\ standby # g_active_idx /\ standby' = standby
      /\ list \in Lists /\ Len(list) \in 0..ContactMax
  BY StandbyBuffer, ListFits, StoreAssumption
     DEF TypeOK, WriterInv, SetCount, standby, Slots
<1>2. /\ UNCHANGED <<g_contacts, g_active_idx, nv, loaded, list, slot, kept,
                     reader, begun, budget>>
      /\ Writing /\ Writing' /\ wpc' = "flip"
  BY DEF SetCount, Writing
<1>3. g_counts' \in [0..1 -> 0..ContactMax] /\ g_counts'[standby] = Len(list)
  BY <1>1 DEF SetCount, TypeOK
<1>4. g_counts'[g_active_idx] = g_counts[g_active_idx]
  BY <1>1 DEF SetCount, TypeOK
<1>5. TypeOK'
  BY <1>2, <1>3 DEF TypeOK, reader
<1>6. ReaderInv' /\ Active' = Active
  BY <1>2, <1>4, StandbyWrite
<1>7. WriterInv'
  BY <1>1, <1>2, <1>3, <1>6 DEF WriterInv, SetCount
<1>8. QED
  BY <1>5, <1>6, <1>7

(* After the flip the table in force is the list, whole.                    *)
LEMMA FlipPublishes ==
    ASSUME StoreInv, Flip PROVE Active' = list /\ list \in Lists
<1>1. list \in Lists
  BY DEF StoreInv, WriterInv, Flip
<1>2. /\ g_counts[standby] = Len(list)
      /\ \A k \in 1..Len(list) : g_contacts[standby][k] = list[k]
  BY DEF StoreInv, WriterInv, Flip
<1>3. Table(g_contacts, g_counts, standby) = list
  BY <1>1, <1>2, TableOfList
<1>4. QED
  BY <1>1, <1>3 DEF Flip, Active

(* The flip leaves the buffer of an earlier reader as it was.               *)
LEMMA FlipInv == ASSUME StoreInv, Flip PROVE StoreInv'
<1> USE DEF StoreInv
<1>1. /\ standby \in 0..1 /\ standby # g_active_idx
      /\ \A i \in 0..1 : i # standby => i = g_active_idx
  BY StandbyBuffer
<1>2. /\ UNCHANGED <<g_contacts, g_counts, nv, loaded, list, slot, kept,
                     reader, begun, budget>>
      /\ Writing /\ ~Writing' /\ wpc' = "persist" /\ g_active_idx' = standby
  BY DEF Flip, Writing
<1>3. TypeOK'
  BY <1>1, <1>2 DEF TypeOK, reader
<1>4. WriterInv'
  BY <1>2, FlipPublishes DEF WriterInv
<1>5. ReaderInv'
  <2> SUFFICES ASSUME rpc' # "idle",
                      IF midway' THEN begun' = 0 ELSE begun' <= 1
               PROVE  ReaderInv'
    BY DEF ReaderInv
  <2>1. /\ rpc # "idle" /\ midway' = midway /\ idx' = idx /\ begun' = begun
        /\ count' = count /\ seen' = seen /\ snapshot' = snapshot /\ rpc' = rpc
        /\ begun \in Nat /\ idx \in 0..1
        /\ (IF midway THEN begun = 0 ELSE begun <= 1)
    BY <1>2 DEF reader, TypeOK
  <2>2. Held
    BY <2>1 DEF ReaderInv
  <2>3. idx = g_active_idx /\ ~(~midway /\ begun = 0)
    BY <1>2, <2>1, <2>2 DEF Held, TypeOK
  <2>4. Held'
    BY <1>1, <1>2, <2>1, <2>3 DEF Held
  <2>5. Table(g_contacts, g_counts, idx)' = Table(g_contacts, g_counts, idx)
    BY <1>2, <2>1 DEF Table
  <2>6. QED
    BY <2>1, <2>4, <2>5 DEF ReaderInv, ReadsSnapshot
<1>6. QED
  BY <1>3, <1>4, <1>5

(* What is written to NV is the table in force.                             *)
LEMMA PersistInv == ASSUME StoreInv, Persist PROVE StoreInv'
<1> USE DEF StoreInv
<1>1. /\ UNCHANGED <<memory, loaded, list, slot, reader, begun, budget>>
      /\ wpc' \in {"ack0", "ack1"} /\ ~Writing /\ ~Writing'
      /\ list \in Lists
  BY DEF Persist, Writing, WriterInv
<1>2. TypeOK'
  BY <1>1 DEF Persist, TypeOK, memory, reader
<1>3. Active' = Active
  BY <1>1 DEF Active, memory
<1>4. WriterInv'
  BY <1>1, <1>3 DEF Persist, WriterInv
<1>5. ReaderInv'
  BY <1>1 DEF ReaderInv, Held, ReadsSnapshot, Table, memory, reader
<1>6. QED
  BY <1>2, <1>4, <1>5

(* What is acknowledged as persisted is in the record.                      *)
LEMMA AcknowledgeInv == ASSUME StoreInv, Acknowledge PROVE StoreInv'
<1> USE DEF StoreInv
<1>1. /\ UNCHANGED <<memory, nv, loaded, list, slot, reader, begun, budget>>
      /\ wpc' = "idle" /\ ~Writing /\ ~Writing'
      /\ kept' \in {list, kept} /\ (kept' # kept => wpc = "ack0" /\ nv = list)
  BY DEF Acknowledge, Writing, WriterInv
<1>2. TypeOK'
  BY <1>1 DEF TypeOK, memory, reader
<1>3. Active' = Active
  BY <1>1 DEF Active, memory
<1>4. WriterInv'
  BY <1>1, <1>3 DEF Acknowledge, WriterInv
<1>5. ReaderInv'
  BY <1>1 DEF ReaderInv, Held, ReadsSnapshot, Table, memory, reader
<1>6. QED
  BY <1>2, <1>4, <1>5

-----------------------------------------------------------------------------
(* The steps of a reader                                                    *)

(* The table read at g_active_idx is a whole list.                          *)
LEMMA GetIndexInv == ASSUME StoreInv, GetIndex PROVE StoreInv'
<1> USE DEF StoreInv
<1>1. UNCHANGED <<memory, nv, loaded, writer>>
  BY DEF GetIndex
<1>2. TypeOK'
  <2>1. budget' \in [{"updates", "gets", "restarts"} -> Nat]
    BY DEF GetIndex, Spend, TypeOK
  <2>2. 0 \in 0..ContactMax /\ Writing \in BOOLEAN
    BY StoreAssumption DEF Writing
  <2>3. seen' \in Seq(Contacts \cup {blank})
    BY DEF GetIndex
  <2>4. QED
    BY <1>1, <2>1, <2>2, <2>3 DEF GetIndex, TypeOK, memory, writer
<1>3. WriterInv'
  BY <1>1 DEF WriterInv, Active, Table, standby, memory, writer
<1>4. ReaderInv'
  <2>1. /\ idx' = g_active_idx /\ g_active_idx' = g_active_idx /\ begun' = 0
        /\ midway' = Writing /\ Writing' = Writing /\ seen' = <<>>
        /\ rpc' = "count" /\ snapshot' = Active
    BY <1>1 DEF GetIndex, memory, writer, Writing
  <2>2. Held'
    BY <2>1 DEF Held
  <2>3. Table(g_contacts, g_counts, idx)' = snapshot'
    BY <1>1, <2>1 DEF Active, Table, memory
  <2>4. snapshot' \in Lists \cup {Defaults}
    BY <2>1 DEF WriterInv
  <2>5. Len(seen') = 0 /\ Len(snapshot') \in Nat
    BY <2>1, <2>4, ListFits, StoreAssumption DEF Slots
  <2>6. ReadsSnapshot'
    BY <2>1, <2>5 DEF ReadsSnapshot
  <2>7. QED
    BY <2>2, <2>3, <2>4, <2>6 DEF ReaderInv
<1>5. QED
  BY <1>2, <1>3, <1>4

(* A held table has the length its count says.                              *)
LEMMA TableLength ==
    ASSUME NEW contacts, NEW counts, NEW i, counts[i] \in Nat
    PROVE  Len(Table(contacts, counts, i)) = counts[i]
BY DEF Table

(* The count is the length of the table the reader holds.                   *)
LEMMA GetCountInv == ASSUME StoreInv, GetCount PROVE StoreInv'
<1> USE DEF StoreInv
<1>1. /\ UNCHANGED <<memory, nv, loaded, writer, idx, seen, snapshot, midway,
                     begun, budget>>
      /\ rpc = "count" /\ rpc' = "use" /\ count' = g_counts[idx]
  BY DEF GetCount
<1>2. g_counts[idx] \in 0..ContactMax /\ g_counts[idx] \in Nat
  BY StoreAssumption DEF TypeOK
<1>3. TypeOK'
  BY <1>1, <1>2 DEF TypeOK, memory, writer
<1>4. WriterInv'
  BY <1>1 DEF WriterInv, Active, Table, standby, memory, writer
<1>5. ReaderInv'
  <2>1. Len(Table(g_contacts, g_counts, idx)) = g_counts[idx]
    BY <1>2, TableLength
  <2>2. Held' <=> Held
    BY <1>1 DEF Held, Writing, memory, writer
  <2>3. QED
    BY <1>1, <2>1, <2>2 DEF ReaderInv, ReadsSnapshot, Table, memory
<1>6. QED
  BY <1>3, <1>4, <1>5

(* A contact is read from the table the reader holds.                       *)
LEMMA ReadContactInv == ASSUME StoreInv, ReadContact PROVE StoreInv'
<1> USE DEF StoreInv
<1> DEFINE n == Len(seen) + 1
<1>1. /\ UNCHANGED <<memory, nv, loaded, writer, rpc, idx, count, snapshot,
                     midway, begun, budget>>
      /\ rpc = "use" /\ Len(seen) < count
      /\ seen' = Append(seen, g_contacts[idx][n])
  BY DEF ReadContact
<1>2. seen \in Seq(Contacts \cup {blank}) /\ Len(seen) \in Nat
  BY DEF TypeOK
<1>3. n \in 1..count /\ n \in Slots
  BY <1>1, <1>2, StoreAssumption, SMTT(30) DEF TypeOK, Slots
<1>4. g_contacts[idx][n] \in Contacts \cup {blank}
  BY <1>3 DEF TypeOK
<1>5. TypeOK'
  <2>1. seen' \in Seq(Contacts \cup {blank})
    BY <1>1, <1>2, <1>4
  <2>2. QED
    BY <1>1, <2>1 DEF TypeOK, memory, writer
<1>6. WriterInv'
  BY <1>1 DEF WriterInv, Active, Table, standby, memory, writer
<1>7. ReaderInv'
  <2> SUFFICES ASSUME IF midway' THEN begun' = 0 ELSE begun' <= 1
               PROVE  /\ Held' /\ Table(g_contacts, g_counts, idx)' = snapshot'
                      /\ snapshot' \in Lists \cup {Defaults} /\ ReadsSnapshot'
    BY DEF ReaderInv
  <2>1. /\ Held /\ Table(g_contacts, g_counts, idx) = snapshot
        /\ snapshot \in Lists \cup {Defaults} /\ ReadsSnapshot
    BY <1>1 DEF ReaderInv
  <2>2. Held'
    BY <1>1, <2>1 DEF Held, Writing, memory, writer
  <2>3. Table(g_contacts, g_counts, idx)' = snapshot'
    BY <1>1, <2>1 DEF Table, memory
  <2>4. g_counts[idx] \in Nat
    BY StoreAssumption DEF TypeOK
  <2>5. count = Len(snapshot) /\ Len(snapshot) = g_counts[idx]
    BY <1>1, <2>1, <2>4, TableLength DEF ReadsSnapshot
  <2>6. snapshot[n] = g_contacts[idx][n]
    BY <1>3, <2>1, <2>5 DEF Table
  <2>7. /\ Len(seen') = n
        /\ \A i \in 1..n : seen'[i] = IF i = n THEN g_contacts[idx][n] ELSE seen[i]
    BY <1>1, <1>2, <1>4
  <2>8. ReadsSnapshot'
    BY <1>1, <1>2, <1>3, <2>1, <2>5, <2>6, <2>7 DEF ReadsSnapshot
  <2>9. QED
    BY <1>1, <2>1, <2>2, <2>3, <2>8
<1>8. QED
  BY <1>5, <1>6, <1>7

(* A reader that is done relies on nothing.                                 *)
LEMMA ReleaseInv == ASSUME StoreInv, Release PROVE StoreInv'
<1> USE DEF StoreInv
<1>1. /\ UNCHANGED <<memory, nv, loaded, writer, idx, count, seen, snapshot,
                     midway, begun, budget>>
      /\ rpc' = "idle"
  BY DEF Release
<1>2. TypeOK'
  BY <1>1 DEF TypeOK, memory, writer
<1>3. WriterInv'
  BY <1>1 DEF WriterInv, Active, Table, standby, memory, writer
<1>4. QED
  BY <1>1, <1>2, <1>3 DEF ReaderInv

-----------------------------------------------------------------------------
(* The theorems                                                             *)

(* Every step keeps the inductive invariant.                                *)
LEMMA StoreInvInductive == StoreInv /\ [Next]_vars => StoreInv'
<1> SUFFICES ASSUME StoreInv, [Next]_vars PROVE StoreInv'
  OBVIOUS
<1>1. CASE Next
  BY <1>1, RestartInv, DownloadInv, FillInv, SetCountInv, FlipInv, PersistInv,
     AcknowledgeInv, GetIndexInv, GetCountInv, ReadContactInv, ReleaseInv DEF Next
<1>2. CASE UNCHANGED vars
  <2>1. TypeOK'
    BY <1>2 DEF StoreInv, TypeOK, vars, memory, writer, reader
  <2>2. WriterInv'
    BY <1>2 DEF StoreInv, WriterInv, Active, Table, standby, vars, memory, writer
  <2>3. ReaderInv'
    BY <1>2 DEF StoreInv, ReaderInv, ReadsSnapshot, Held, Writing, Table, vars,
                memory, writer, reader
  <2>4. QED
    BY <2>1, <2>2, <2>3 DEF StoreInv
<1>3. QED
  BY <1>1, <1>2

(* Types are kept for ever, whatever the store does.                        *)
THEOREM StoreTypeCorrect == Spec => []TypeOK
<1>1. StoreInv => TypeOK
  BY DEF StoreInv
<1>2. QED
  BY <1>1, StoreInvInit, StoreInvInductive, PTL DEF Spec

(* A reader that holds a pointer while one download is written, however the *)
(* two are interleaved, reads exactly the table it asked for.               *)
THEOREM ReadersSafe == Spec => []OneDownloadIsSafe
<1>1. StoreInv => OneDownloadIsSafe
  BY DEF StoreInv, ReaderInv, OneDownloadIsSafe, ReadsSnapshot
<1>2. QED
  BY <1>1, StoreInvInit, StoreInvInductive, PTL DEF Spec

(* A list acknowledged as persisted is in force after every later start     *)
(* that can read the record, unless a later download replaced the record.   *)
THEOREM AcknowledgedListSurvives == Spec => AckedSurvivesRestart
<1>1. StoreInv /\ [Next]_vars
        => [Restart /\ kept # <<>> /\ loaded' => Active' = kept]_vars
  <2> SUFFICES ASSUME StoreInv, Restart, kept # <<>>, loaded'
               PROVE  Active' = kept
    OBVIOUS
  <2>1. nv = kept /\ kept \in Lists
    BY DEF StoreInv, WriterInv, TypeOK
  <2>2. Found(nv, loaded') = kept
    BY <2>1 DEF Found
  <2>3. QED
    BY <2>1, <2>2, BootTable DEF Restart, Active
<1>2. QED
  BY <1>1, StoreInvInit, StoreInvInductive, PTL DEF Spec, AckedSurvivesRestart

(* The two buffers and the NV record implement one table that is replaced   *)
(* as a whole and saved after it is in force: a power loss between the two  *)
(* brings back the saved table, never a mixture.                            *)
THEOREM StoreImplementsRegister == Spec => ImplementsRegister
<1>1. Init => Register!Init
  <2> SUFFICES ASSUME Init PROVE Register!Init
    OBVIOUS
  <2> DEFINE f == Found(nv, loaded)
  <2>1. f \in {nv, <<>>} /\ nv \in Lists \cup {<<>>}
    BY DEF Init, Found
  <2>2. Active = IF f = <<>> THEN Defaults ELSE f
    BY <2>1, BootTable DEF Init, Active
  <2>3. Defaults # <<>>
    BY ListFits
  <2>4. QED
    BY <2>1, <2>2, <2>3 DEF Register!Init
<1>2. StoreInv /\ [Next]_vars => [Register!Next]_(Register!vars)
  <2> SUFFICES ASSUME StoreInv, [Next]_vars
               PROVE  [Register!Next]_(Register!vars)
    OBVIOUS
  <2> USE DEF Register!Next, Register!vars
  <2>1. CASE Restart
    <3> DEFINE f == Found(nv, loaded')
    <3>1. f \in {nv, <<>>} /\ nv \in Lists \cup {<<>>} /\ nv' = nv
      BY <2>1 DEF Restart, Found, StoreInv, TypeOK
    <3>2. Active' = IF f = <<>> THEN Defaults ELSE f
      BY <2>1, <3>1, BootTable DEF Restart, Active
    <3>3. Defaults # <<>>
      BY ListFits
    <3>4. QED
      BY <3>1, <3>2, <3>3 DEF Register!Start
  <2>2. CASE ClearContact \/ CopyContact
    <3>1. standby # g_active_idx
      BY StandbyBuffer
    <3>2. g_contacts'[g_active_idx] = g_contacts[g_active_idx]
      BY <2>2, <3>1 DEF ClearContact, CopyContact, Advance, StoreInv, TypeOK
    <3>3. UNCHANGED <<g_counts, g_active_idx, nv>>
      BY <2>2 DEF ClearContact, CopyContact, Advance
    <3>4. QED
      BY <3>2, <3>3 DEF Active, Table
  <2>3. CASE SetCount
    <3>1. standby # g_active_idx
      BY StandbyBuffer
    <3>2. g_counts'[g_active_idx] = g_counts[g_active_idx]
      BY <2>3, <3>1 DEF SetCount, StoreInv, TypeOK
    <3>3. UNCHANGED <<g_contacts, g_active_idx, nv>>
      BY <2>3 DEF SetCount
    <3>4. QED
      BY <3>2, <3>3 DEF Active, Table
  <2>4. CASE Flip
    BY <2>4, FlipPublishes DEF Register!Replace, Flip
  <2>5. CASE Persist
    <3>1. Active = list /\ Active' = Active
      BY <2>5 DEF Persist, StoreInv, WriterInv, Active, memory
    <3>2. QED
      BY <2>5, <3>1 DEF Persist, Register!Save
  <2>6. CASE \/ \E l \in Lists : Download(l)
             \/ Acknowledge \/ GetIndex \/ GetCount \/ ReadContact \/ Release
             \/ UNCHANGED vars
    <3>1. UNCHANGED <<memory, nv>>
      BY <2>6 DEF Download, Acknowledge, GetIndex, GetCount, ReadContact, Release,
                  vars
    <3>2. QED
      BY <3>1 DEF Active, memory
  <2>7. QED
    BY <2>1, <2>2, <2>3, <2>4, <2>5, <2>6 DEF Next
<1>3. QED
  BY <1>1, <1>2, StoreInvInit, StoreInvInductive, PTL
     DEF Spec, ImplementsRegister, Register!Spec
=============================================================================
