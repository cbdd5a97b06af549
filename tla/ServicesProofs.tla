--------------------------- MODULE ServicesProofs ---------------------------
(***************************************************************************)
(* Proofs about the DNC registry, for any sources, providers and requests; *)
(* about the archive, for any number of rows, files and archivers; and     *)
(* that the run over these two, the calls, the consents and the publisher  *)
(* has its invariants for every value of their constants.                  *)
(***************************************************************************)
EXTENDS MCServices, CallExchangeProofs, AuditPublisherProofs

-----------------------------------------------------------------------------
(* The DNC registry *)

Expiries == {"never", "later", "past"}
ProviderStatuses == {"active", "inactive", "syncing", "error"}

\* What a goroutine holds between its read and its save.
CopiesOK ==
    /\ dpc \in [DncReqs -> {"idle", "delete", "save", "syncStart", "syncEnd", "provSave"}]
    /\ drow \in [DncReqs -> Nat]
    /\ dexp \in [DncReqs -> Expiries]
    /\ dst \in [DncReqs -> ProviderStatuses \union {"none"}]
    /\ staleSave \subseteq Providers
    /\ \A r \in DncReqs :
          /\ dpc[r] = "syncStart" => dst[r] = "syncing"
          /\ dpc[r] = "syncEnd" => dst[r] \in {"active", "error"}
          /\ dpc[r] = "provSave" => dst[r] \in ProviderStatuses
          /\ dpc[r] \in {"syncStart", "syncEnd", "provSave"} => \E p \in Providers : dprov[r] = {p}

\* An entry that someone is updating is not one whose addition still stands,
\* and a soft-deleted row was released.
UpdatesAnnounced ==
    /\ \A r \in DncReqs : dpc[r] = "save" => \A s \in dsrc[r] : asked[s] = "none"
    /\ \A s \in Sources : entry[s] = "deleted" => s \in released

DncInv == DncTypeOK /\ CopiesOK /\ UpdatesAnnounced /\ SuppressedAsAsked /\ SyncingHasCause

LEMMA DncInitial == DncInit => DncInv
BY DncAssumption DEF DncInit, DncInv, DncTypeOK, CopiesOK, UpdatesAnnounced, SuppressedAsAsked, SyncingHasCause,
   Expiries, ProviderStatuses
-----------------------------------------------------------------------------
\* An insert-or-update keeps the types of the rows, gives every entry it saves
\* the expiry asked for, makes it live unless it was soft-deleted, and leaves
\* the others alone.
LEMMA SaveEntriesKeeps ==
    ASSUME DncTypeOK, NEW S \in SUBSET Sources, NEW e \in Expiries, SaveEntries(S, e)
    PROVE  /\ entry' \in [Sources -> {"none", "live", "deleted"}]
           /\ expiresAt' \in [Sources -> Expiries]
           /\ rowNo' \in [Sources -> Nat]
           /\ \A s \in Sources : entry'[s] = "deleted" <=> entry[s] = "deleted"
           /\ \A s \in S : expiresAt'[s] = e /\ entry'[s] # "none"
           /\ \A s \in Sources \ S : expiresAt'[s] = expiresAt[s] /\ entry'[s] = entry[s]
BY DEF DncTypeOK, SaveEntries, Expiries

LEMMA ForgetKeeps ==
    ASSUME DncTypeOK, NEW S \in SUBSET Sources, Forget(S)
    PROVE  /\ asked' \in [Sources -> {"none", "never", "later"}]
           /\ \A s \in S : asked'[s] = "none"
           /\ \A s \in Sources \ S : asked'[s] = asked[s]
BY DEF DncTypeOK, Forget

LEMMA SoftDeleteKeeps ==
    ASSUME DncTypeOK, NEW S \in SUBSET Sources, SoftDelete(S)
    PROVE  /\ entry' \in [Sources -> {"none", "live", "deleted"}]
           /\ released' \subseteq Sources
           /\ released \subseteq released'
           /\ \A s \in Sources : entry[s] = "deleted" => entry'[s] = "deleted"
           /\ \A s \in Sources : s \notin released' => entry'[s] = entry[s]
           /\ UNCHANGED <<expiresAt, rowNo>>
BY DEF DncTypeOK, SoftDelete
-----------------------------------------------------------------------------
\* The operations on entries leave the providers and their copies alone.
LEMMA ProvidersUntouched ==
    ASSUME DncInv, UNCHANGED <<provStatus, dpc, dncLocal, provPast>>
    PROVE  CopiesOK' /\ SyncingHasCause'
BY DEF DncInv, CopiesOK, SyncingHasCause, dncLocal, provPast

\* The request of a goroutine that works on entries begins or ends.
LEMMA EntryRequest ==
    ASSUME DncInv, NEW r \in DncReqs, dpc[r] \in {"idle", "delete", "save"},
           NEW pc \in {"idle", "delete", "save"}, dpc' = [dpc EXCEPT ![r] = pc],
           NEW n \in Nat, drow' = [drow EXCEPT ![r] = n],
           NEW x \in Expiries, dexp' = [dexp EXCEPT ![r] = x],
           dprov' = dprov \/ dprov' = [dprov EXCEPT ![r] = {}],
           dst' = dst \/ dst' = [dst EXCEPT ![r] = "none"],
           UNCHANGED <<provStatus, provPast>>
    PROVE  CopiesOK' /\ SyncingHasCause' /\ dprov' \in [DncReqs -> SUBSET Providers]
<1> USE DEF provPast
<1>1. \A q \in DncReqs \ {r} : dpc'[q] = dpc[q] /\ dst'[q] = dst[q] /\ dprov'[q] = dprov[q]
  BY DEF DncInv, DncTypeOK, CopiesOK
<1>2. dpc'[r] = pc /\ drow' \in [DncReqs -> Nat] /\ dexp' \in [DncReqs -> Expiries]
      /\ dpc' \in [DncReqs -> {"idle", "delete", "save", "syncStart", "syncEnd", "provSave"}]
  BY DEF DncInv, CopiesOK
<1>3. dst' \in [DncReqs -> ProviderStatuses \union {"none"}]
  BY DEF DncInv, CopiesOK
<1>4. dprov' \in [DncReqs -> SUBSET Providers]
  BY DEF DncInv, DncTypeOK
<1>5. CopiesOK'
  BY <1>1, <1>2, <1>3 DEF DncInv, CopiesOK
<1>6. SyncingHasCause'
  BY <1>1, <1>2 DEF DncInv, SyncingHasCause
<1> QED
  BY <1>4, <1>5, <1>6

LEMMA FinishKeeps ==
    ASSUME DncInv, NEW r \in DncReqs, dpc[r] \in {"delete", "save"}, DncFinish(r), UNCHANGED <<provStatus, provPast>>
    PROVE  /\ CopiesOK' /\ SyncingHasCause'
           /\ dprov' \in [DncReqs -> SUBSET Providers]
           /\ dsrc' \in [DncReqs -> SUBSET Sources]
           /\ dpc'[r] = "idle"
           /\ \A q \in DncReqs \ {r} : dpc'[q] = dpc[q] /\ dsrc'[q] = dsrc[q]
<1>1. CopiesOK' /\ SyncingHasCause' /\ dprov' \in [DncReqs -> SUBSET Providers]
  BY EntryRequest DEF DncFinish, Expiries
<1> QED
  BY <1>1 DEF DncFinish, DncInv, DncTypeOK, CopiesOK

\* A bulk change of the entries in S whose additions no longer stand.
LEMMA BulkKeeps ==
    ASSUME DncInv, NEW S \in SUBSET Sources, Forget(S),
           UNCHANGED <<provStatus, dpc, dncLocal, provPast>>,
           entry' \in [Sources -> {"none", "live", "deleted"}],
           expiresAt' \in [Sources -> Expiries],
           rowNo' \in [Sources -> Nat],
           released' \subseteq Sources, released \subseteq released',
           \A s \in Sources : entry'[s] = "deleted" => entry[s] = "deleted" \/ s \in released',
           \A s \in Sources \ S : expiresAt'[s] = expiresAt[s] /\ (s \notin released' => entry'[s] = entry[s])
    PROVE  DncInv'
<1>1. /\ asked' \in [Sources -> {"none", "never", "later"}]
      /\ \A s \in S : asked'[s] = "none"
      /\ \A s \in Sources \ S : asked'[s] = asked[s]
  BY ForgetKeeps DEF DncInv
<1>2. CopiesOK' /\ SyncingHasCause'
  BY ProvidersUntouched
<1>3. DncTypeOK'
  BY <1>1 DEF DncInv, DncTypeOK, dncLocal, provPast, Expiries
<1>4. UpdatesAnnounced'
  BY <1>1 DEF DncInv, DncTypeOK, UpdatesAnnounced, dncLocal
<1>5. SuppressedAsAsked'
  <2> SUFFICES ASSUME NEW s \in Sources, asked'[s] # "none", s \notin released'
               PROVE  \/ entry'[s] = "live" /\ (asked'[s] = "never" => expiresAt'[s] = "never")
                      \/ asked'[s] = "later" /\ expiresAt'[s] = "past"
    BY DEF SuppressedAsAsked
  <2>1. s \in Sources \ S /\ asked'[s] = asked[s] /\ s \notin released
    BY <1>1
  <2> QED
    BY <2>1 DEF DncInv, SuppressedAsAsked
<1> QED
  BY <1>2, <1>3, <1>4, <1>5 DEF DncInv
-----------------------------------------------------------------------------
LEMMA EntryStepKeeps ==
    ASSUME DncInv, EntryStep
    PROVE  DncInv'
<1> USE DncAssumption
<1>0. DncTypeOK /\ CopiesOK
  BY DEF DncInv
<1>1. CASE CleanupExpired
  <2>1. /\ entry' = [s \in Sources |-> IF entry[s] = "live" /\ expiresAt[s] = "past" THEN "none" ELSE entry[s]]
        /\ UNCHANGED <<expiresAt, rowNo, provStatus, dpc, dncLocal, dops, entryPast, provPast>>
    BY <1>1 DEF CleanupExpired
  <2>2. CopiesOK' /\ SyncingHasCause'
    BY <2>1, ProvidersUntouched
  <2>3. DncTypeOK'
    BY <2>1 DEF DncInv, DncTypeOK, dncLocal, provPast, entryPast
  <2>4. UpdatesAnnounced'
    BY <2>1 DEF DncInv, UpdatesAnnounced, dncLocal, entryPast
  <2>5. SuppressedAsAsked'
    <3> SUFFICES ASSUME NEW s \in Sources, asked[s] # "none", s \notin released
                 PROVE  \/ entry'[s] = "live" /\ (asked[s] = "never" => expiresAt[s] = "never")
                        \/ asked[s] = "later" /\ expiresAt[s] = "past"
      BY <2>1 DEF SuppressedAsAsked, entryPast
    <3>1. \/ entry[s] = "live" /\ (asked[s] = "never" => expiresAt[s] = "never")
          \/ asked[s] = "later" /\ expiresAt[s] = "past"
      BY DEF DncInv, SuppressedAsAsked
    <3>2. asked[s] \in {"never", "later"}
      BY <1>0 DEF DncTypeOK
    <3> QED
      BY <2>1, <3>1, <3>2
  <2> QED
    BY <2>2, <2>3, <2>4, <2>5 DEF DncInv
<1>2. ASSUME NEW s \in Sources, AddToSuppressionList(s) PROVE DncInv'
  <2>1. PICK e \in {"never", "later"} :
          /\ SaveEntries({s}, e)
          /\ asked' = [asked EXCEPT ![s] = IF UpdatesUnderWay(s) = {} THEN e ELSE "none"]
    BY <1>2 DEF AddToSuppressionList
  <2>2. UNCHANGED <<provStatus, dpc, dncLocal, released, provPast>>
    BY <1>2 DEF AddToSuppressionList
  <2>3. /\ entry' \in [Sources -> {"none", "live", "deleted"}]
        /\ expiresAt' \in [Sources -> Expiries]
        /\ rowNo' \in [Sources -> Nat]
        /\ \A t \in Sources : entry'[t] = "deleted" <=> entry[t] = "deleted"
        /\ \A t \in {s} : expiresAt'[t] = e /\ entry'[t] # "none"
        /\ \A t \in Sources \ {s} : expiresAt'[t] = expiresAt[t] /\ entry'[t] = entry[t]
    BY <1>0, <2>1, SaveEntriesKeeps DEF Expiries
  <2>4. CopiesOK' /\ SyncingHasCause'
    BY <2>2, ProvidersUntouched
  <2>5. asked' \in [Sources -> {"none", "never", "later"}]
    BY <1>0, <2>1 DEF DncTypeOK
  <2>6. DncTypeOK'
    BY <1>0, <2>2, <2>3, <2>5 DEF DncTypeOK, dncLocal, provPast, Expiries
  <2>7. UpdatesAnnounced'
    <3>1. ASSUME NEW r \in DncReqs, dpc'[r] = "save", NEW t \in dsrc'[r] PROVE asked'[t] = "none"
      <4>1. dpc[r] = "save" /\ t \in dsrc[r] /\ t \in Sources
        BY <1>0, <2>2, <3>1 DEF dncLocal, DncTypeOK
      <4>2. asked[t] = "none"
        BY <4>1 DEF DncInv, UpdatesAnnounced
      <4>3. t = s => UpdatesUnderWay(s) # {}
        BY <4>1 DEF UpdatesUnderWay
      <4> QED
        BY <1>0, <2>1, <4>1, <4>2, <4>3 DEF DncTypeOK
    <3>2. \A t \in Sources : entry'[t] = "deleted" => t \in released'
      BY <2>2, <2>3 DEF DncInv, UpdatesAnnounced
    <3> QED
      BY <3>1, <3>2 DEF UpdatesAnnounced
  <2>8. SuppressedAsAsked'
    <3> SUFFICES ASSUME NEW t \in Sources, asked'[t] # "none", t \notin released'
                 PROVE  \/ entry'[t] = "live" /\ (asked'[t] = "never" => expiresAt'[t] = "never")
                        \/ asked'[t] = "later" /\ expiresAt'[t] = "past"
      BY DEF SuppressedAsAsked
    <3>1. CASE t = s
      <4>1. entry'[t] # "deleted" /\ entry'[t] # "none"
        BY <2>2, <2>3, <3>1 DEF DncInv, UpdatesAnnounced
      <4>2. entry'[t] = "live"
        BY <2>3, <4>1
      <4>3. asked'[t] = e /\ expiresAt'[t] = e
        BY <1>0, <2>1, <2>3, <3>1 DEF DncTypeOK
      <4> QED
        BY <4>2, <4>3
    <3>2. CASE t # s
      <4>1. asked'[t] = asked[t] /\ expiresAt'[t] = expiresAt[t] /\ entry'[t] = entry[t] /\ t \notin released
        BY <1>0, <2>1, <2>2, <2>3, <3>2 DEF DncTypeOK
      <4> QED
        BY <4>1 DEF DncInv, SuppressedAsAsked
    <3> QED
      BY <3>1, <3>2
  <2> QED
    BY <2>4, <2>6, <2>7, <2>8 DEF DncInv
<1>3. ASSUME NEW s \in Sources, EntryExpires(s) PROVE DncInv'
  <2>1. /\ expiresAt[s] = "later"
        /\ expiresAt' = [expiresAt EXCEPT ![s] = "past"]
        /\ UNCHANGED <<entry, rowNo, provStatus, dpc, dncLocal, dops, entryPast, provPast>>
    BY <1>3 DEF EntryExpires
  <2>2. CopiesOK' /\ SyncingHasCause'
    BY <2>1, ProvidersUntouched
  <2>3. DncTypeOK'
    BY <1>0, <2>1 DEF DncTypeOK, dncLocal, provPast, entryPast
  <2>4. UpdatesAnnounced'
    BY <2>1 DEF DncInv, UpdatesAnnounced, dncLocal, entryPast
  <2>5. SuppressedAsAsked'
    BY <1>0, <2>1 DEF DncInv, DncTypeOK, SuppressedAsAsked, entryPast
  <2> QED
    BY <2>2, <2>3, <2>4, <2>5 DEF DncInv
<1>4. ASSUME NEW S \in SUBSET Sources, BulkInsert(S) \/ Upsert(S) PROVE DncInv'
  <2>1. PICK e \in {"never", "later"} : SaveEntries(S, e)
    BY <1>4 DEF BulkInsert, Upsert
  <2>2. Forget(S) /\ UNCHANGED <<provStatus, dpc, dncLocal, released, provPast>>
    BY <1>4 DEF BulkInsert, Upsert
  <2>3. /\ entry' \in [Sources -> {"none", "live", "deleted"}]
        /\ expiresAt' \in [Sources -> Expiries]
        /\ rowNo' \in [Sources -> Nat]
        /\ \A t \in Sources : entry'[t] = "deleted" <=> entry[t] = "deleted"
        /\ \A t \in Sources \ S : expiresAt'[t] = expiresAt[t] /\ entry'[t] = entry[t]
    BY <1>0, <2>1, SaveEntriesKeeps DEF Expiries
  <2>4. released' \subseteq Sources /\ released \subseteq released'
    BY <1>0, <2>2 DEF DncTypeOK
  <2> QED
    BY <2>2, <2>3, <2>4, BulkKeeps
<1>5. ASSUME NEW S \in SUBSET Sources, BulkUpdate(S) PROVE DncInv'
  <2>1. PICK e \in {"never", "later"} : expiresAt' = [s \in Sources |-> IF s \in S THEN e ELSE expiresAt[s]]
    BY <1>5 DEF BulkUpdate
  <2>2. Forget(S) /\ UNCHANGED <<entry, rowNo, provStatus, dpc, dncLocal, released, provPast>>
    BY <1>5 DEF BulkUpdate
  <2>3. expiresAt' \in [Sources -> Expiries] /\ \A t \in Sources \ S : expiresAt'[t] = expiresAt[t]
    BY <1>0, <2>1 DEF DncTypeOK, Expiries
  <2>4. /\ entry' \in [Sources -> {"none", "live", "deleted"}] /\ rowNo' \in [Sources -> Nat]
        /\ released' \subseteq Sources /\ released \subseteq released'
    BY <1>0, <2>2 DEF DncTypeOK
  <2>5. UNCHANGED <<provStatus, dpc, dncLocal, provPast>> /\ entry' = entry
    BY <2>2
  <2> QED
    BY <2>2, <2>3, <2>4, <2>5, BulkKeeps
<1>6. ASSUME NEW S \in SUBSET Sources, BulkDelete(S) PROVE DncInv'
  <2>1. SoftDelete(S) /\ Forget(S) /\ UNCHANGED <<provStatus, dpc, dncLocal, provPast>>
    BY <1>6 DEF BulkDelete
  <2>2. /\ entry' \in [Sources -> {"none", "live", "deleted"}]
        /\ released' \subseteq Sources
        /\ released \subseteq released'
        /\ \A s \in Sources : s \notin released' => entry'[s] = entry[s]
        /\ UNCHANGED <<expiresAt, rowNo>>
    BY <1>0, <2>1, SoftDeleteKeeps
  <2>3. expiresAt' \in [Sources -> Expiries] /\ rowNo' \in [Sources -> Nat]
    BY <1>0, <2>2 DEF DncTypeOK, Expiries
  <2>4. \A s \in Sources : entry'[s] = "deleted" => entry[s] = "deleted" \/ s \in released'
    BY <2>2
  <2>5. \A s \in Sources \ S : expiresAt'[s] = expiresAt[s] /\ (s \notin released' => entry'[s] = entry[s])
    BY <2>2
  <2> QED
    BY <2>1, <2>2, <2>3, <2>4, <2>5, BulkKeeps
<1>7. ASSUME NEW r \in DncReqs, RemoveFromSuppressionList(r) PROVE DncInv'
  <2>1. /\ dpc[r] = "idle" /\ dpc' = [dpc EXCEPT ![r] = "delete"]
        /\ dsrc' = [dsrc EXCEPT ![r] = {InternalList}]
        /\ drow' = [drow EXCEPT ![r] = rowNo[InternalList]]
        /\ UNCHANGED <<entryRows, provStatus, dexp, dprov, dst, entryPast, provPast>>
    BY <1>7 DEF RemoveFromSuppressionList
  <2>2. rowNo[InternalList] \in Nat /\ dexp[r] \in Expiries /\ dexp' = [dexp EXCEPT ![r] = dexp[r]]
    BY <1>0, <2>1 DEF DncTypeOK, CopiesOK
  <2>3. CopiesOK' /\ SyncingHasCause'
    BY <2>1, <2>2, EntryRequest
  <2>4. DncTypeOK'
    BY <1>0, <2>1 DEF DncTypeOK, entryRows, provPast, entryPast
  <2>5. UpdatesAnnounced' /\ SuppressedAsAsked'
    BY <1>0, <2>1 DEF DncInv, CopiesOK, DncTypeOK, UpdatesAnnounced, SuppressedAsAsked, entryRows, entryPast
  <2> QED
    BY <2>3, <2>4, <2>5 DEF DncInv
<1>8. ASSUME NEW r \in DncReqs, DeleteEntry(r) PROVE DncInv'
  <2> DEFINE S == {s \in dsrc[r] : rowNo[s] = drow[r]}
  <2>1. dpc[r] = "delete" /\ SoftDelete(S) /\ Forget(dsrc[r]) /\ DncFinish(r) /\ UNCHANGED <<provStatus, dops, provPast>>
    BY <1>8 DEF DeleteEntry
  <2>2. S \in SUBSET Sources /\ dsrc[r] \in SUBSET Sources
    BY <1>0 DEF DncTypeOK
  <2>3. /\ entry' \in [Sources -> {"none", "live", "deleted"}]
        /\ released' \subseteq Sources
        /\ released \subseteq released'
        /\ \A s \in Sources : s \notin released' => entry'[s] = entry[s]
        /\ UNCHANGED <<expiresAt, rowNo>>
    BY <1>0, <2>1, <2>2, SoftDeleteKeeps
  <2>4. /\ CopiesOK' /\ SyncingHasCause'
        /\ dprov' \in [DncReqs -> SUBSET Providers]
        /\ dsrc' \in [DncReqs -> SUBSET Sources]
        /\ dpc'[r] = "idle"
        /\ \A q \in DncReqs \ {r} : dpc'[q] = dpc[q] /\ dsrc'[q] = dsrc[q]
    BY <2>1, FinishKeeps
  <2>5. /\ asked' \in [Sources -> {"none", "never", "later"}]
        /\ \A s \in dsrc[r] : asked'[s] = "none"
        /\ \A s \in Sources \ dsrc[r] : asked'[s] = asked[s]
    BY <1>0, <2>1, <2>2, ForgetKeeps
  <2>6. DncTypeOK'
    BY <1>0, <2>1, <2>3, <2>4, <2>5 DEF DncTypeOK, provPast
  <2>7. UpdatesAnnounced' /\ SuppressedAsAsked'
    BY <1>0, <2>2, <2>3, <2>4, <2>5 DEF DncInv, DncTypeOK, UpdatesAnnounced, SuppressedAsAsked
  <2> QED
    BY <2>4, <2>6, <2>7 DEF DncInv
<1>9. ASSUME NEW r \in DncReqs, SaveUpdate(r) PROVE DncInv'
  <2>1. dpc[r] = "save" /\ SaveEntries(dsrc[r], dexp[r]) /\ DncFinish(r) /\ UNCHANGED <<provStatus, dops, entryPast, provPast>>
    BY <1>9 DEF SaveUpdate
  <2>2. dsrc[r] \in SUBSET Sources /\ dexp[r] \in Expiries
    BY <1>0 DEF DncTypeOK, CopiesOK
  <2>3. /\ entry' \in [Sources -> {"none", "live", "deleted"}]
        /\ expiresAt' \in [Sources -> Expiries]
        /\ rowNo' \in [Sources -> Nat]
        /\ \A t \in Sources : entry'[t] = "deleted" <=> entry[t] = "deleted"
        /\ \A t \in Sources \ dsrc[r] : expiresAt'[t] = expiresAt[t] /\ entry'[t] = entry[t]
    BY <1>0, <2>1, <2>2, SaveEntriesKeeps
  <2>4. /\ CopiesOK' /\ SyncingHasCause'
        /\ dprov' \in [DncReqs -> SUBSET Providers]
        /\ dsrc' \in [DncReqs -> SUBSET Sources]
        /\ dpc'[r] = "idle"
        /\ \A q \in DncReqs \ {r} : dpc'[q] = dpc[q] /\ dsrc'[q] = dsrc[q]
    BY <2>1, FinishKeeps
  <2>5. asked' = asked /\ released' = released /\ \A s \in dsrc[r] : asked[s] = "none"
    BY <2>1 DEF DncInv, UpdatesAnnounced, entryPast
  <2>6. DncTypeOK'
    BY <1>0, <2>1, <2>3, <2>4, <2>5 DEF DncTypeOK, provPast, Expiries
  <2>7. UpdatesAnnounced' /\ SuppressedAsAsked'
    BY <1>0, <2>2, <2>3, <2>4, <2>5 DEF DncInv, DncTypeOK, UpdatesAnnounced, SuppressedAsAsked
  <2> QED
    BY <2>4, <2>6, <2>7 DEF DncInv
<1>10. ASSUME NEW r \in DncReqs, EntryStoreFails(r) PROVE DncInv'
  <2>1. dpc[r] \in {"delete", "save"} /\ DncFinish(r) /\ UNCHANGED <<entryRows, provStatus, dops, entryPast, provPast>>
    BY <1>10 DEF EntryStoreFails
  <2>2. /\ CopiesOK' /\ SyncingHasCause'
        /\ dprov' \in [DncReqs -> SUBSET Providers]
        /\ dsrc' \in [DncReqs -> SUBSET Sources]
        /\ dpc'[r] = "idle"
        /\ \A q \in DncReqs \ {r} : dpc'[q] = dpc[q] /\ dsrc'[q] = dsrc[q]
    BY <2>1, FinishKeeps
  <2>3. DncTypeOK'
    BY <1>0, <2>1, <2>2 DEF DncTypeOK, provPast, entryPast, entryRows
  <2>4. UpdatesAnnounced' /\ SuppressedAsAsked'
    BY <2>1, <2>2 DEF DncInv, UpdatesAnnounced, SuppressedAsAsked, entryPast, entryRows
  <2> QED
    BY <2>2, <2>3, <2>4 DEF DncInv
<1>11. ASSUME NEW r \in DncReqs, NEW s \in Sources, UpdateSuppressionEntry(r, s) PROVE DncInv'
  <2>1. /\ dpc[r] = "idle" /\ dpc' = [dpc EXCEPT ![r] = "save"]
        /\ dsrc' = [dsrc EXCEPT ![r] = {s}]
        /\ drow' = [drow EXCEPT ![r] = rowNo[s]]
        /\ Forget({s})
        /\ UNCHANGED <<entryRows, provStatus, dprov, dst, released, provPast>>
    BY <1>11 DEF UpdateSuppressionEntry
  <2>2. PICK e \in {expiresAt[s], "later"} : dexp' = [dexp EXCEPT ![r] = e]
    BY <1>11 DEF UpdateSuppressionEntry
  <2>3. rowNo[s] \in Nat /\ e \in Expiries
    BY <1>0, <2>2 DEF DncTypeOK, Expiries
  <2>4. CopiesOK' /\ SyncingHasCause'
    BY <2>1, <2>2, <2>3, EntryRequest
  <2>5. /\ asked' \in [Sources -> {"none", "never", "later"}]
        /\ asked'[s] = "none"
        /\ \A t \in Sources \ {s} : asked'[t] = asked[t]
    BY <1>0, <2>1, ForgetKeeps
  <2>6. DncTypeOK'
    BY <1>0, <2>1, <2>5 DEF DncTypeOK, entryRows, provPast
  <2>7. \A q \in DncReqs \ {r} : dpc'[q] = dpc[q] /\ dsrc'[q] = dsrc[q]
    BY <1>0, <2>1 DEF DncTypeOK, CopiesOK
  <2>8. dsrc'[r] = {s}
    BY <1>0, <2>1 DEF DncTypeOK
  <2>9. UpdatesAnnounced'
    BY <1>0, <2>1, <2>5, <2>7, <2>8 DEF DncInv, DncTypeOK, UpdatesAnnounced, entryRows
  <2>10. SuppressedAsAsked'
    BY <1>0, <2>1, <2>5 DEF DncInv, DncTypeOK, SuppressedAsAsked, entryRows
  <2> QED
    BY <2>4, <2>6, <2>9, <2>10 DEF DncInv
<1> QED
  BY <1>1, <1>2, <1>3, <1>4, <1>5, <1>6, <1>7, <1>8, <1>9, <1>10, <1>11 DEF EntryStep

\* A sync or an edit of a provider: r's copy moves on from pc, to be saved
\* later or not, and r leaves no cause behind.
LEMMA ProviderStepKeeps ==
    ASSUME DncInv, ProviderStep
    PROVE  DncInv'
<1>0. DncTypeOK /\ CopiesOK
  BY DEF DncInv
<1>1. UNCHANGED <<entryRows, entryPast>>
  BY DEF ProviderStep, RecordSyncStart, RecordSyncEnd, RecordSyncEndFails, SaveProvider, SyncSingleProvider, UpdateProvider
<1>2. PICK r \in DncReqs :
        \/ RecordSyncStart(r) \/ RecordSyncEnd(r) \/ RecordSyncEndFails(r) \/ SaveProvider(r)
        \/ \E p \in Providers : SyncSingleProvider(r, p) \/ UpdateProvider(r, p)
  BY DEF ProviderStep
<1> USE DEF Expiries, ProviderStatuses
<1>3. /\ dpc[r] # "save" /\ dpc'[r] # "save"
      /\ dpc' \in [DncReqs -> {"idle", "delete", "save", "syncStart", "syncEnd", "provSave"}]
      /\ dsrc' \in [DncReqs -> SUBSET Sources]
      /\ drow' \in [DncReqs -> Nat]
      /\ dexp' \in [DncReqs -> Expiries]
      /\ \A q \in DncReqs \ {r} : dpc'[q] = dpc[q] /\ dsrc'[q] = dsrc[q] /\ dst'[q] = dst[q] /\ dprov'[q] = dprov[q]
  <2>0. dpc[r] # "save"
    BY <1>2 DEF RecordSyncStart, RecordSyncEnd, RecordSyncEndFails, SaveProvider, SyncSingleProvider, UpdateProvider
  <2>1. CASE DncFinish(r)
    BY <1>0, <2>0, <2>1 DEF DncFinish, DncTypeOK, CopiesOK
  <2>2. CASE RecordSyncStart(r) \/ \E p \in Providers : SyncSingleProvider(r, p) \/ UpdateProvider(r, p)
    BY <1>0, <2>2 DEF RecordSyncStart, SyncSingleProvider, UpdateProvider, DncTypeOK, CopiesOK
  <2> QED
    BY <1>2, <2>1, <2>2 DEF RecordSyncEnd, RecordSyncEndFails, SaveProvider
<1>4. UpdatesAnnounced' /\ SuppressedAsAsked'
  BY <1>1, <1>3 DEF DncInv, UpdatesAnnounced, SuppressedAsAsked, entryRows, entryPast
<1>5. CASE \E p \in Providers : SyncSingleProvider(r, p) \/ UpdateProvider(r, p)
  <2>1. PICK p \in Providers : SyncSingleProvider(r, p) \/ UpdateProvider(r, p)
    BY <1>5
  <2>2. /\ dpc[r] = "idle" /\ dprov' = [dprov EXCEPT ![r] = {p}]
        /\ UNCHANGED <<provStatus, provPast>>
    BY <2>1 DEF SyncSingleProvider, UpdateProvider
  <2>3. dst' \in [DncReqs -> ProviderStatuses] \/ dst' \in [DncReqs -> ProviderStatuses \union {"none"}]
    BY <1>0, <2>1 DEF SyncSingleProvider, UpdateProvider, DncTypeOK, CopiesOK
  <2>4. \/ dpc'[r] = "syncStart" /\ dst'[r] = "syncing"
        \/ dpc'[r] = "provSave" /\ dst'[r] \in ProviderStatuses
    BY <1>0, <2>1 DEF SyncSingleProvider, UpdateProvider, DncTypeOK, CopiesOK
  <2>5. DncTypeOK'
    BY <1>0, <1>1, <1>3, <2>2 DEF DncTypeOK, entryRows, entryPast, provPast
  <2>6. CopiesOK'
    BY <1>0, <1>3, <2>2, <2>3, <2>4 DEF DncTypeOK, CopiesOK, provPast
  <2>7. SyncingHasCause'
    BY <1>3, <2>2 DEF DncInv, SyncingHasCause, provPast
  <2> QED
    BY <1>4, <2>5, <2>6, <2>7 DEF DncInv
<1>6. CASE RecordSyncStart(r)
  <2>1. /\ dpc[r] = "syncStart" /\ (StoreStatus(r) \/ UNCHANGED provStatus)
        /\ dst' = [dst EXCEPT ![r] = SyncResult(r)]
        /\ dpc' = [dpc EXCEPT ![r] = "syncEnd"]
        /\ UNCHANGED <<dprov, provPast>>
    BY <1>6 DEF RecordSyncStart
  <2>2. PICK p \in Providers : dprov[r] = {p}
    BY <1>0, <2>1 DEF CopiesOK
  <2>3. SyncResult(r) \in {"active", "error"}
    BY DEF SyncResult
  <2>4. dst' \in [DncReqs -> ProviderStatuses \union {"none"}] /\ dst'[r] = SyncResult(r) /\ dpc'[r] = "syncEnd"
    BY <1>0, <2>1, <2>3 DEF CopiesOK
  <2>5. /\ provStatus' \in [Providers -> ProviderStatuses]
        /\ \A q \in Providers \ {p} : provStatus'[q] = provStatus[q]
    BY <1>0, <2>1, <2>2 DEF CopiesOK, DncTypeOK, StoreStatus
  <2>6. DncTypeOK'
    BY <1>0, <1>1, <1>3, <2>1, <2>5 DEF DncTypeOK, entryRows, entryPast, provPast
  <2>7. CopiesOK'
    BY <1>0, <1>3, <2>1, <2>2, <2>3, <2>4 DEF CopiesOK, provPast
  <2>8. SyncingHasCause'
    BY <1>3, <2>1, <2>2, <2>4, <2>5 DEF DncInv, SyncingHasCause, provPast
  <2> QED
    BY <1>4, <2>6, <2>7, <2>8 DEF DncInv
<1>7. CASE RecordSyncEnd(r) \/ RecordSyncEndFails(r) \/ SaveProvider(r)
  <2>1. /\ dpc[r] \in {"syncEnd", "provSave"} /\ DncFinish(r)
        /\ StoreStatus(r) \/ (UNCHANGED provStatus /\ faulted' = faulted \union dprov[r])
        /\ dpc[r] = "provSave" /\ dst[r] = "syncing" => staleSave' = staleSave \union dprov[r]
        /\ faulted' \in {faulted, faulted \union dprov[r]}
        /\ staleSave' \in {staleSave, staleSave \union dprov[r]}
    BY <1>7 DEF RecordSyncEnd, RecordSyncEndFails, SaveProvider, provPast
  <2>2. PICK p \in Providers : dprov[r] = {p}
    BY <1>0, <2>1 DEF CopiesOK
  <2>3. /\ dst' \in [DncReqs -> ProviderStatuses \union {"none"}]
        /\ dprov' \in [DncReqs -> SUBSET Providers]
        /\ dpc'[r] = "idle"
    BY <1>0, <2>1 DEF CopiesOK, DncTypeOK, DncFinish
  <2>4. /\ provStatus' \in [Providers -> ProviderStatuses]
        /\ \A q \in Providers \ {p} : provStatus'[q] = provStatus[q]
    BY <1>0, <2>1, <2>2 DEF CopiesOK, DncTypeOK, StoreStatus
  <2>5. provStatus'[p] = "syncing" => p \in faulted' \union staleSave'
    BY <1>0, <2>1, <2>2 DEF CopiesOK, StoreStatus
  <2>6. DncTypeOK'
    BY <1>0, <1>1, <1>3, <2>1, <2>2, <2>3, <2>4 DEF DncTypeOK, entryRows, entryPast
  <2>7. CopiesOK'
    BY <1>0, <1>3, <2>1, <2>2, <2>3 DEF CopiesOK
  <2>8. SyncingHasCause'
    <3> SUFFICES ASSUME NEW x \in Providers, provStatus'[x] = "syncing", x # p
                 PROVE  \/ \E q \in DncReqs : dprov'[q] = {x} /\ dpc'[q] = "syncEnd"
                        \/ x \in faulted' \union staleSave'
      BY <2>5 DEF SyncingHasCause
    <3>1. \/ \E q \in DncReqs : dprov[q] = {x} /\ dpc[q] = "syncEnd"
          \/ x \in faulted \union staleSave
      BY <2>4 DEF DncInv, SyncingHasCause
    <3>2. \A q \in DncReqs : dprov[q] = {x} => q # r
      BY <2>2
    <3> QED
      BY <1>3, <2>1, <3>1, <3>2
  <2> QED
    BY <1>4, <2>6, <2>7, <2>8 DEF DncInv
<1> QED
  BY <1>2, <1>5, <1>6, <1>7

\* The process stops; a sync it takes along is a fault of its provider.
LEMMA CrashKeeps ==
    ASSUME DncInv, DncCrash
    PROVE  DncInv'
<1> DEFINE dying == {q \in DncReqs : dpc[q] \in {"syncStart", "syncEnd"}}
<1>0. DncTypeOK /\ CopiesOK
  BY DEF DncInv
<1>1. /\ faulted' = faulted \union UNION {dprov[r] : r \in dying}
      /\ dpc' = [r \in DncReqs |-> "idle"]
      /\ dsrc' = [r \in DncReqs |-> {}]
      /\ drow' = [r \in DncReqs |-> 0]
      /\ dexp' = [r \in DncReqs |-> "never"]
      /\ dprov' = [r \in DncReqs |-> {}]
      /\ dst' = [r \in DncReqs |-> "none"]
      /\ UNCHANGED <<entry, expiresAt, rowNo, provStatus, asked, released, staleSave>>
  BY DEF DncCrash, entryRows, entryPast
<1>2. faulted' \subseteq Providers
  BY <1>0, <1>1 DEF DncTypeOK
<1>3. DncTypeOK'
  BY <1>0, <1>1, <1>2 DEF DncTypeOK
<1>4. CopiesOK'
  BY <1>0, <1>1 DEF CopiesOK, Expiries
<1>5. UpdatesAnnounced' /\ SuppressedAsAsked'
  BY <1>1 DEF DncInv, UpdatesAnnounced, SuppressedAsAsked
<1>6. SyncingHasCause'
  <2> SUFFICES ASSUME NEW p \in Providers, provStatus[p] = "syncing"
               PROVE  p \in faulted' \union staleSave'
    BY <1>1 DEF SyncingHasCause
  <2>1. CASE p \in faulted \union staleSave
    BY <1>1, <2>1
  <2>2. ASSUME NEW r \in DncReqs, dprov[r] = {p}, dpc[r] = "syncEnd" PROVE p \in faulted'
    <3>1. r \in dying
      BY <2>2
    <3> HIDE DEF dying
    <3>2. p \in UNION {dprov[q] : q \in dying}
      BY <2>2, <3>1
    <3> QED
      BY <1>1, <3>2
  <2> QED
    BY <2>1, <2>2 DEF DncInv, SyncingHasCause
<1> QED
  BY <1>3, <1>4, <1>5, <1>6 DEF DncInv

LEMMA DncInductive == DncInv /\ [DncNext]_dncVars => DncInv'
<1> SUFFICES ASSUME DncInv, [DncNext]_dncVars
             PROVE  DncInv'
  OBVIOUS
<1>1. CASE DncNext
  BY <1>1, EntryStepKeeps, ProviderStepKeeps, CrashKeeps DEF DncNext
<1>2. CASE UNCHANGED dncVars
  BY <1>2 DEF dncVars, entryRows, dncLocal, entryPast, provPast, DncInv, DncTypeOK, CopiesOK, UpdatesAnnounced,
     SuppressedAsAsked, SyncingHasCause
<1> QED
  BY <1>1, <1>2

LEMMA DncInvariant == DncSpec => []DncInv
BY DncInitial, DncInductive, PTL DEF DncSpec

\* Rows, statuses and the copies requests hold keep their types.
THEOREM DncTypeCorrect == DncSpec => []DncTypeOK
BY DncInvariant, PTL DEF DncInv

\* A number whose addition was acknowledged stays suppressed as long as was
\* asked, through every interleaving of saves, bulk changes, cleanups,
\* failures and restarts, unless its row was removed.
THEOREM AdditionHolds == DncSpec => []SuppressedAsAsked
BY DncInvariant, PTL DEF DncInv

\* A provider is left in "syncing" only by a lost last save, a crash, or an
\* edit saved from a copy read during a sync.
THEOREM SyncingExplained == DncSpec => []SyncingHasCause
BY DncInvariant, PTL DEF DncInv

\* No step brings a soft-deleted row back: the conflict clause of a save never
\* writes deleted_at, not even when the number is added again.
LEMMA DeletedStays ==
    ASSUME DncInv, [DncNext]_dncVars
    PROVE  \A s \in Sources : entry[s] = "deleted" => entry'[s] = "deleted"
<1> DEFINE Kept == \A s \in Sources : entry[s] = "deleted" => entry'[s] = "deleted"
<1>0. DncTypeOK /\ CopiesOK
  BY DEF DncInv
<1>1. ASSUME NEW S \in SUBSET Sources, NEW e \in Expiries, SaveEntries(S, e) PROVE Kept
  BY <1>0, <1>1, SaveEntriesKeeps
<1>2. ASSUME NEW S \in SUBSET Sources, SoftDelete(S) PROVE Kept
  BY <1>0, <1>2, SoftDeleteKeeps
<1>3. ASSUME UNCHANGED entry PROVE Kept
  BY <1>3
<1>4. ASSUME CleanupExpired PROVE Kept
  BY <1>4 DEF CleanupExpired
<1>5. ASSUME NEW s \in Sources, AddToSuppressionList(s) PROVE Kept
  BY <1>1, <1>5 DEF AddToSuppressionList, Expiries
<1>6. ASSUME NEW S \in SUBSET Sources, BulkInsert(S) \/ Upsert(S) PROVE Kept
  BY <1>1, <1>6 DEF BulkInsert, Upsert, Expiries
<1>7. ASSUME NEW S \in SUBSET Sources, BulkDelete(S) PROVE Kept
  BY <1>2, <1>7 DEF BulkDelete
<1>8. ASSUME NEW r \in DncReqs, DeleteEntry(r) PROVE Kept
  <2>1. {s \in dsrc[r] : rowNo[s] = drow[r]} \in SUBSET Sources
    BY <1>0 DEF DncTypeOK
  <2> QED
    BY <1>2, <1>8, <2>1 DEF DeleteEntry
<1>9. ASSUME NEW r \in DncReqs, SaveUpdate(r) PROVE Kept
  <2>1. dsrc[r] \in SUBSET Sources /\ dexp[r] \in Expiries
    BY <1>0 DEF DncTypeOK, CopiesOK
  <2> QED
    BY <1>1, <1>9, <2>1 DEF SaveUpdate
<1>10. ASSUME ProviderStep \/ DncCrash \/ UNCHANGED dncVars PROVE Kept
  <2>1. UNCHANGED entry
    BY <1>10 DEF ProviderStep, RecordSyncStart, RecordSyncEnd, RecordSyncEndFails, SaveProvider, SyncSingleProvider,
       UpdateProvider, DncCrash, dncVars, entryRows
  <2> QED
    BY <2>1, <1>3
<1>11. ASSUME NEW s \in Sources, EntryExpires(s) PROVE Kept
  BY <1>3, <1>11 DEF EntryExpires
<1>12. ASSUME NEW S \in SUBSET Sources, BulkUpdate(S) PROVE Kept
  BY <1>3, <1>12 DEF BulkUpdate
<1>13. ASSUME NEW r \in DncReqs,
             \/ RemoveFromSuppressionList(r) \/ EntryStoreFails(r)
             \/ \E s \in Sources : UpdateSuppressionEntry(r, s)
      PROVE  Kept
  BY <1>3, <1>13 DEF RemoveFromSuppressionList, EntryStoreFails, UpdateSuppressionEntry, entryRows
<1> HIDE DEF Kept
<1>14. EntryStep => Kept
  BY <1>4, <1>5, <1>6, <1>7, <1>8, <1>9, <1>11, <1>12, <1>13 DEF EntryStep
<1>15. EntryStep \/ ProviderStep \/ DncCrash \/ UNCHANGED dncVars
  BY DEF DncNext
<1>16. Kept
  BY <1>10, <1>14, <1>15
<1> QED
  BY <1>16 DEF Kept

\* A delete that ends, with the row it read replaced meanwhile, deletes nothing.
LEMMA ReplacedRowStays ==
    ASSUME DncInv, [DncNext]_dncVars, NEW r \in DncReqs, NEW s \in dsrc[r],
           dpc[r] = "delete", dpc'[r] = "idle", rowNo[s] # drow[r]
    PROVE  entry'[s] = entry[s]
<1>0. s \in Sources /\ dpc \in [DncReqs -> {"idle", "delete", "save", "syncStart", "syncEnd", "provSave"}]
  BY DEF DncInv, DncTypeOK, CopiesOK
<1>1. dpc' # dpc
  OBVIOUS
<1>2. CASE UNCHANGED entry
  BY <1>2
<1>3. ASSUME NEW q \in DncReqs, SaveUpdate(q) PROVE FALSE
  BY <1>0, <1>3 DEF SaveUpdate, DncFinish
<1>4. ASSUME NEW q \in DncReqs, DeleteEntry(q) PROVE entry'[s] = entry[s]
  <2>1. q = r
    BY <1>0, <1>4 DEF DeleteEntry, DncFinish
  <2> QED
    BY <1>0, <1>4, <2>1 DEF DeleteEntry, SoftDelete
<1>5. ASSUME NEW q \in DncReqs,
             \/ RemoveFromSuppressionList(q) \/ EntryStoreFails(q)
             \/ \E t \in Sources : UpdateSuppressionEntry(q, t)
      PROVE  entry' = entry
  BY <1>5 DEF RemoveFromSuppressionList, EntryStoreFails, UpdateSuppressionEntry, entryRows
<1>6. ASSUME ProviderStep \/ DncCrash \/ UNCHANGED dncVars PROVE entry' = entry
  BY <1>6 DEF ProviderStep, RecordSyncStart, RecordSyncEnd, RecordSyncEndFails, SaveProvider, SyncSingleProvider,
     UpdateProvider, DncCrash, dncVars, entryRows
<1>7. ASSUME \/ CleanupExpired
             \/ \E t \in Sources : AddToSuppressionList(t) \/ EntryExpires(t)
             \/ \E S \in SUBSET Sources : BulkInsert(S) \/ Upsert(S) \/ BulkUpdate(S) \/ BulkDelete(S)
      PROVE  dpc' = dpc
  BY <1>7 DEF CleanupExpired, AddToSuppressionList, EntryExpires, BulkInsert, Upsert, BulkUpdate, BulkDelete
<1> QED
  BY <1>1, <1>2, <1>3, <1>4, <1>5, <1>6, <1>7 DEF DncNext, EntryStep

\* A request that ends late leaves a removed entry removed, and a row inserted
\* in place of the one it read alone, however requests, bulk changes, cleanups
\* and restarts interleave.
THEOREM LateRequestsAreHarmless == DncSpec => LateRequestsKeepRows
<1> DEFINE Kept == \A r \in DncReqs : \A s \in dsrc[r] :
                      (dpc[r] \in {"delete", "save"} /\ dpc'[r] = "idle") =>
                          /\ entry[s] = "deleted" => entry'[s] = "deleted"
                          /\ (dpc[r] = "delete" /\ rowNo[s] # drow[r]) => entry'[s] = entry[s]
<1>1. ASSUME DncInv, [DncNext]_dncVars PROVE Kept
  <2>1. \A r \in DncReqs : dsrc[r] \subseteq Sources
    BY <1>1 DEF DncInv, DncTypeOK
  <2>2. \A s \in Sources : entry[s] = "deleted" => entry'[s] = "deleted"
    BY <1>1, DeletedStays
  <2> QED
    BY <1>1, <2>1, <2>2, ReplacedRowStays
<1>2. DncInv /\ [DncNext]_dncVars => [Kept]_dncVars
  BY <1>1
<1> QED
  BY <1>2, DncInvariant, PTL DEF DncSpec, LateRequestsKeepRows

-----------------------------------------------------------------------------
(* The archive *)

\* Archivers between the upload of their file and the end of their batch.
Uploaded(a) == apc[a] \in {"manifest", "mark"}

\* An archiver only has an archive once its file is uploaded; it then holds
\* what the file holds, unless retention was faster.
BatchesOK ==
    /\ \A a \in Archivers : apc[a] \in {"idle", "more"} => abatch[a] = {}
    /\ \A a \in Archivers :
          IF Uploaded(a)
          THEN /\ aid[a] \in usedIds
               /\ aid[a] \in deleted \/ parquet[aid[a]] = abatch[a]
               /\ apc[a] = "mark" => aid[a] \in deleted \union manifests
          ELSE aid[a] = NoArchive

\* A manifest goes after its file, and ids are never used again.
DeletionOrdered ==
    /\ dropping # NoArchive => dropping \in deleted
    /\ \A e \in AuditRows : archivedAs[e] # NoArchive => archivedAs[e] \in usedIds

\* An event in a file is marked or about to be, or known not to be; one an
\* archiver will upload next is in no file, and no two hold the same.
FilesAccounted ==
    /\ \A i \in ArchiveIds : \A e \in parquet[i] :
          \/ archivedAs[e] # NoArchive
          \/ e \in unmarked
          \/ \E a \in Archivers : Uploaded(a) /\ e \in abatch[a]
    /\ \A a \in Archivers, i \in ArchiveIds : apc[a] = "file" => abatch[a] \intersect parquet[i] \subseteq unmarked
    /\ \A a, b \in Archivers : a # b => abatch[a] \intersect abatch[b] \subseteq unmarked

ArchiveInv ==
    ArchiveTypeOK /\ BatchesOK /\ DeletionOrdered /\ FilesAccounted /\ MarkedIsStored /\ ArchivedTwiceHasCause

LEMMA ArchiveInitial == ArchiveInit => ArchiveInv
<1> SUFFICES ASSUME ArchiveInit PROVE ArchiveInv
  OBVIOUS
<1>1. 0 \in 0 .. NEvents /\ 0 \in 0 .. 0
  BY ArchiveAssumption
<1>2. ArchiveTypeOK
  BY <1>1 DEF ArchiveInit, ArchiveTypeOK
<1>3. BatchesOK /\ DeletionOrdered
  BY DEF ArchiveInit, BatchesOK, DeletionOrdered, Uploaded
<1>4. FilesAccounted /\ MarkedIsStored /\ ArchivedTwiceHasCause
  BY DEF ArchiveInit, FilesAccounted, MarkedIsStored, ArchivedTwiceHasCause
<1> QED
  BY <1>2, <1>3, <1>4 DEF ArchiveInv
-----------------------------------------------------------------------------
\* The rows GetExpiredEvents returns are rows of the table that are not marked.
LEMMA OldestUnmarked ==
    ASSUME ArchiveTypeOK
    PROVE  /\ OldestBatch \subseteq AuditRows
           /\ \A e \in OldestBatch : archivedAs[e] = NoArchive
<1>1. 1 .. aged \subseteq AuditRows
  BY ArchiveAssumption DEF ArchiveTypeOK, AuditRows
<1> QED
  BY <1>1 DEF OldestBatch, ExpiredEvents

\* An archiver without a file begins a batch, or one that ends leaves no
\* unmarked event behind.
LEMMA ArchiverEnds ==
    ASSUME ArchiveInv, NEW a \in Archivers,
           NEW pc \in {"idle", "more"}, apc' = [apc EXCEPT ![a] = pc],
           abatch' = [abatch EXCEPT ![a] = {}],
           aid' = [aid EXCEPT ![a] = NoArchive],
           UNCHANGED <<parquet, manifests, aged, retired, deleter, usedIds, deleted>>,
           archivedAs' \in [AuditRows -> ArchiveIds \union {NoArchive}],
           unmarked \subseteq unmarked', unmarked' \subseteq AuditRows,
           \A e \in AuditRows : archivedAs[e] # NoArchive => archivedAs'[e] # NoArchive,
           \A e \in AuditRows : archivedAs'[e] # archivedAs[e] => apc[a] = "mark" /\ e \in abatch[a] /\ archivedAs'[e] = aid[a],
           Uploaded(a) => \A e \in abatch[a] : archivedAs'[e] # NoArchive \/ e \in unmarked'
    PROVE  ArchiveInv'
<1> USE DEF deleter
<1>0. ArchiveTypeOK /\ BatchesOK /\ DeletionOrdered /\ FilesAccounted /\ MarkedIsStored /\ ArchivedTwiceHasCause
  BY DEF ArchiveInv
<1>1. ArchiveTypeOK'
  BY <1>0 DEF ArchiveTypeOK
<1>2. /\ apc'[a] = pc /\ abatch'[a] = {} /\ aid'[a] = NoArchive
      /\ \A b \in Archivers \ {a} : apc'[b] = apc[b] /\ abatch'[b] = abatch[b] /\ aid'[b] = aid[b]
  BY <1>0 DEF ArchiveTypeOK
<1>3. BatchesOK'
  BY <1>0, <1>2 DEF BatchesOK, Uploaded
<1>4. DeletionOrdered'
  BY <1>0 DEF DeletionOrdered, BatchesOK, Uploaded
<1>5. FilesAccounted'
  <2>1. ASSUME NEW i \in ArchiveIds, NEW e \in parquet'[i]
        PROVE  \/ archivedAs'[e] # NoArchive
               \/ e \in unmarked'
               \/ \E b \in Archivers : Uploaded(b)' /\ e \in abatch'[b]
    <3>1. e \in parquet[i] /\ e \in AuditRows
      BY <1>0, <2>1 DEF ArchiveTypeOK
    <3>2. CASE archivedAs[e] # NoArchive \/ e \in unmarked
      BY <3>1, <3>2
    <3>3. ASSUME NEW b \in Archivers, Uploaded(b), e \in abatch[b]
          PROVE  \/ archivedAs'[e] # NoArchive
                 \/ e \in unmarked'
                 \/ \E c \in Archivers : Uploaded(c)' /\ e \in abatch'[c]
      <4>1. CASE b = a
        BY <3>3, <4>1
      <4>2. CASE b # a
        BY <1>2, <3>3, <4>2 DEF Uploaded
      <4> QED
        BY <4>1, <4>2
    <3> QED
      BY <1>0, <3>1, <3>2, <3>3 DEF FilesAccounted
  <2>2. \A b \in Archivers, i \in ArchiveIds : apc'[b] = "file" => abatch'[b] \intersect parquet'[i] \subseteq unmarked'
    BY <1>0, <1>2 DEF FilesAccounted
  <2>3. \A b, c \in Archivers : b # c => abatch'[b] \intersect abatch'[c] \subseteq unmarked'
    BY <1>0, <1>2 DEF FilesAccounted
  <2> QED
    BY <2>1, <2>2, <2>3 DEF FilesAccounted
<1>6. MarkedIsStored'
  <2> SUFFICES ASSUME NEW e \in AuditRows, archivedAs'[e] # NoArchive
               PROVE  \/ archivedAs'[e] \in deleted
                      \/ e \in parquet[archivedAs'[e]] /\ archivedAs'[e] \in manifests
    BY DEF MarkedIsStored
  <2>1. CASE archivedAs'[e] = archivedAs[e]
    BY <1>0, <2>1 DEF MarkedIsStored
  <2>2. CASE archivedAs'[e] # archivedAs[e]
    BY <1>0, <2>2 DEF BatchesOK, Uploaded
  <2> QED
    BY <2>1, <2>2
<1>7. ArchivedTwiceHasCause'
  BY <1>0 DEF ArchivedTwiceHasCause
<1> QED
  BY <1>1, <1>3, <1>4, <1>5, <1>6, <1>7 DEF ArchiveInv

LEMMA ArchiverStepKeeps ==
    ASSUME ArchiveInv, NEW a \in Archivers,
           \/ FetchBatch(a) \/ UploadFile(a) \/ UploadManifest(a)
           \/ markEventsAsArchived(a) \/ MarkFails(a) \/ ArchiverFails(a)
    PROVE  ArchiveInv'
<1>0. ArchiveTypeOK /\ BatchesOK /\ DeletionOrdered /\ FilesAccounted /\ MarkedIsStored /\ ArchivedTwiceHasCause
  BY DEF ArchiveInv
<1>1. CASE FetchBatch(a)
  <2>1. CASE OldestBatch = {}
    <3>1. /\ apc[a] = "more" /\ ArchiverReturns(a)
          /\ UNCHANGED <<archivedAs, parquet, manifests, aged, retired, deleter, usedIds, deleted, unmarked>>
      BY <1>1, <2>1 DEF FetchBatch, archiveStore
    <3>2. /\ archivedAs' \in [AuditRows -> ArchiveIds \union {NoArchive}]
          /\ unmarked' \subseteq AuditRows /\ ~Uploaded(a)
      BY <1>0, <3>1 DEF ArchiveTypeOK, Uploaded
    <3> QED
      BY <3>1, <3>2, ArchiverEnds DEF ArchiverReturns
  <2>2. CASE OldestBatch # {}
    <3> DEFINE B == OldestBatch
               others == UNION {abatch[b] : b \in Archivers \ {a}}
    <3>1. /\ apc[a] \in {"idle", "more"}
          /\ apc' = [apc EXCEPT ![a] = "file"]
          /\ abatch' = [abatch EXCEPT ![a] = B]
          /\ unmarked' = unmarked \union (B \intersect others)
          /\ UNCHANGED <<aid, archivedAs, parquet, manifests, aged, retired, deleter, usedIds, deleted>>
      BY <1>1, <2>2 DEF FetchBatch, archiveStore
    <3>2. B \subseteq AuditRows /\ \A e \in B : archivedAs[e] = NoArchive
      BY <1>0, OldestUnmarked
    <3>3. \A b \in Archivers \ {a} : abatch[b] \subseteq others
      OBVIOUS
    <3> HIDE DEF B, others
    <3>4. /\ apc'[a] = "file" /\ abatch'[a] = B
          /\ \A b \in Archivers \ {a} : apc'[b] = apc[b] /\ abatch'[b] = abatch[b]
          /\ unmarked \subseteq unmarked' /\ unmarked' \subseteq AuditRows
      BY <1>0, <3>1, <3>2 DEF ArchiveTypeOK
    <3>5. ArchiveTypeOK'
      BY <1>0, <3>1, <3>2, <3>4 DEF ArchiveTypeOK, deleter
    <3>6. BatchesOK' /\ DeletionOrdered'
      BY <1>0, <3>1, <3>4 DEF BatchesOK, DeletionOrdered, Uploaded, deleter
    <3>7. MarkedIsStored' /\ ArchivedTwiceHasCause'
      BY <1>0, <3>1, <3>4 DEF MarkedIsStored, ArchivedTwiceHasCause
    <3>8. \A i \in ArchiveIds : \A e \in parquet[i] :
            archivedAs[e] # NoArchive \/ e \in unmarked \/ \E b \in Archivers \ {a} : Uploaded(b) /\ e \in abatch[b]
      BY <1>0, <3>1 DEF FilesAccounted, Uploaded
    <3>9. FilesAccounted'
      <4>1. \A i \in ArchiveIds : \A e \in parquet'[i] :
              archivedAs'[e] # NoArchive \/ e \in unmarked' \/ \E b \in Archivers : Uploaded(b)' /\ e \in abatch'[b]
        BY <3>1, <3>4, <3>8 DEF Uploaded
      <4>2. \A i \in ArchiveIds : B \intersect parquet[i] \subseteq unmarked'
        BY <3>1, <3>2, <3>3, <3>8
      <4>3. \A b \in Archivers, i \in ArchiveIds : apc'[b] = "file" => abatch'[b] \intersect parquet'[i] \subseteq unmarked'
        BY <1>0, <3>1, <3>4, <4>2 DEF FilesAccounted
      <4>4. \A b, c \in Archivers : b # c => abatch'[b] \intersect abatch'[c] \subseteq unmarked'
        BY <1>0, <3>1, <3>3, <3>4 DEF FilesAccounted
      <4> QED
        BY <4>1, <4>3, <4>4 DEF FilesAccounted
    <3> QED
      BY <3>5, <3>6, <3>7, <3>9 DEF ArchiveInv
  <2> QED
    BY <2>1, <2>2
<1>2. CASE UploadFile(a)
  <2>1. PICK i \in ArchiveIds \ usedIds :
          /\ usedIds' = usedIds \union {i}
          /\ aid' = [aid EXCEPT ![a] = i]
          /\ parquet' = [parquet EXCEPT ![i] = abatch[a]]
    BY <1>2 DEF UploadFile
  <2>2. /\ apc[a] = "file" /\ apc' = [apc EXCEPT ![a] = "manifest"]
        /\ UNCHANGED <<archivedAs, manifests, aged, retired, abatch, deleter, deleted, unmarked>>
    BY <1>2 DEF UploadFile
  <2>3. /\ parquet'[i] = abatch[a] /\ aid'[a] = i /\ apc'[a] = "manifest" /\ i \in ArchiveIds /\ i # NoArchive
        /\ \A j \in ArchiveIds \ {i} : parquet'[j] = parquet[j]
        /\ \A b \in Archivers \ {a} : apc'[b] = apc[b] /\ aid'[b] = aid[b]
    BY <1>0, <2>1, <2>2, ArchiveAssumption DEF ArchiveTypeOK
  <2>4. ArchiveTypeOK'
    BY <1>0, <2>1, <2>2 DEF ArchiveTypeOK, deleter
  <2>5. BatchesOK'
    <3>1. \A b \in Archivers : apc'[b] \in {"idle", "more"} => abatch'[b] = {}
      BY <1>0, <2>2, <2>3 DEF BatchesOK
    <3>2. ASSUME NEW b \in Archivers, b # a, Uploaded(b)
          PROVE  aid[b] \in usedIds /\ aid[b] # i /\ aid[b] \in ArchiveIds
      BY <1>0, <2>1, <3>2 DEF BatchesOK, ArchiveTypeOK
    <3> QED
      BY <1>0, <2>1, <2>2, <2>3, <3>1, <3>2 DEF BatchesOK, Uploaded
  <2>6. DeletionOrdered'
    BY <1>0, <2>1, <2>2 DEF DeletionOrdered, deleter
  <2>7. MarkedIsStored'
    <3>1. \A e \in AuditRows : archivedAs[e] # NoArchive => archivedAs[e] # i /\ archivedAs[e] \in ArchiveIds
      BY <1>0, <2>1 DEF DeletionOrdered, ArchiveTypeOK
    <3> QED
      BY <1>0, <2>2, <2>3, <3>1 DEF MarkedIsStored
  <2>8. \A j \in ArchiveIds : abatch[a] \intersect parquet[j] \subseteq unmarked
    BY <1>0, <2>2 DEF FilesAccounted
  <2>9. ArchivedTwiceHasCause'
    BY <1>0, <2>2, <2>3, <2>8 DEF ArchivedTwiceHasCause
  <2>10. FilesAccounted'
    <3>1. ASSUME NEW j \in ArchiveIds, NEW e \in parquet'[j]
          PROVE  archivedAs'[e] # NoArchive \/ e \in unmarked' \/ \E b \in Archivers : Uploaded(b)' /\ e \in abatch'[b]
      <4>1. CASE j = i
        BY <2>2, <2>3, <3>1, <4>1 DEF Uploaded
      <4>2. CASE j # i
        <5>1. archivedAs[e] # NoArchive \/ e \in unmarked \/ \E b \in Archivers : Uploaded(b) /\ e \in abatch[b]
          BY <1>0, <2>3, <3>1, <4>2 DEF FilesAccounted
        <5>2. \A b \in Archivers : Uploaded(b) => Uploaded(b)'
          BY <2>2, <2>3 DEF Uploaded
        <5> QED
          BY <2>2, <5>1, <5>2
      <4> QED
        BY <4>1, <4>2
    <3>2. ASSUME NEW b \in Archivers, NEW j \in ArchiveIds, apc'[b] = "file"
          PROVE  abatch'[b] \intersect parquet'[j] \subseteq unmarked'
      <4>1. b # a /\ apc[b] = "file"
        BY <2>3, <3>2
      <4> QED
        BY <1>0, <2>2, <2>3, <4>1 DEF FilesAccounted
    <3>3. \A b, c \in Archivers : b # c => abatch'[b] \intersect abatch'[c] \subseteq unmarked'
      BY <1>0, <2>2 DEF FilesAccounted
    <3> QED
      BY <3>1, <3>2, <3>3 DEF FilesAccounted
  <2> QED
    BY <2>4, <2>5, <2>6, <2>7, <2>9, <2>10 DEF ArchiveInv
<1>3. CASE UploadManifest(a)
  <2>1. /\ apc[a] = "manifest" /\ manifests' = manifests \union {aid[a]}
        /\ apc' = [apc EXCEPT ![a] = "mark"]
        /\ UNCHANGED <<archivedAs, parquet, aged, retired, abatch, aid, deleter, usedIds, deleted, unmarked>>
    BY <1>3 DEF UploadManifest
  <2>2. apc'[a] = "mark" /\ \A b \in Archivers \ {a} : apc'[b] = apc[b]
    BY <1>0, <2>1 DEF ArchiveTypeOK
  <2>3. ArchiveTypeOK'
    BY <1>0, <2>1 DEF ArchiveTypeOK, BatchesOK, Uploaded, deleter
  <2>4. BatchesOK'
    BY <1>0, <2>1, <2>2 DEF BatchesOK, Uploaded
  <2>5. \A b \in Archivers : Uploaded(b)' <=> Uploaded(b)
    BY <2>1, <2>2 DEF Uploaded
  <2>6. FilesAccounted'
    BY <1>0, <2>1, <2>2, <2>5 DEF FilesAccounted
  <2>7. DeletionOrdered' /\ MarkedIsStored' /\ ArchivedTwiceHasCause'
    BY <1>0, <2>1 DEF DeletionOrdered, MarkedIsStored, ArchivedTwiceHasCause, deleter
  <2> QED
    BY <2>3, <2>4, <2>6, <2>7 DEF ArchiveInv
<1>4. CASE markEventsAsArchived(a)
  <2>1. /\ apc[a] = "mark" /\ NextBatch(a)
        /\ archivedAs' = [e \in AuditRows |-> IF e \in abatch[a] THEN aid[a] ELSE archivedAs[e]]
        /\ UNCHANGED <<parquet, manifests, aged, retired, deleter, usedIds, deleted, unmarked>>
    BY <1>4 DEF markEventsAsArchived
  <2>2. aid[a] \in ArchiveIds /\ aid[a] # NoArchive /\ abatch[a] \subseteq AuditRows
    BY <1>0, <2>1, ArchiveAssumption DEF ArchiveTypeOK, BatchesOK, Uploaded
  <2>3. PICK pc \in {"idle", "more"} :
          apc' = [apc EXCEPT ![a] = pc] /\ abatch' = [abatch EXCEPT ![a] = {}] /\ aid' = [aid EXCEPT ![a] = NoArchive]
    BY <2>1 DEF NextBatch, ArchiverReturns
  <2>4. archivedAs' \in [AuditRows -> ArchiveIds \union {NoArchive}] /\ unmarked' \subseteq AuditRows
    BY <1>0, <2>1, <2>2 DEF ArchiveTypeOK
  <2>5. /\ \A e \in AuditRows : archivedAs[e] # NoArchive => archivedAs'[e] # NoArchive
        /\ \A e \in AuditRows : archivedAs'[e] # archivedAs[e] => apc[a] = "mark" /\ e \in abatch[a] /\ archivedAs'[e] = aid[a]
        /\ \A e \in abatch[a] : archivedAs'[e] # NoArchive \/ e \in unmarked'
    BY <2>1, <2>2
  <2> QED
    BY <2>1, <2>3, <2>4, <2>5, ArchiverEnds
<1>5. CASE MarkFails(a)
  <2>1. /\ apc[a] = "mark" /\ NextBatch(a) /\ unmarked' = unmarked \union abatch[a]
        /\ UNCHANGED <<archivedAs, parquet, manifests, aged, retired, deleter, usedIds, deleted>>
    BY <1>5 DEF MarkFails, archiveStore
  <2>2. PICK pc \in {"idle", "more"} :
          apc' = [apc EXCEPT ![a] = pc] /\ abatch' = [abatch EXCEPT ![a] = {}] /\ aid' = [aid EXCEPT ![a] = NoArchive]
    BY <2>1 DEF NextBatch, ArchiverReturns
  <2>3. archivedAs' \in [AuditRows -> ArchiveIds \union {NoArchive}] /\ unmarked' \subseteq AuditRows
    BY <1>0, <2>1 DEF ArchiveTypeOK
  <2> QED
    BY <2>1, <2>2, <2>3, ArchiverEnds
<1>6. CASE ArchiverFails(a)
  <2>1. /\ unmarked' = IF aid[a] # NoArchive THEN unmarked \union abatch[a] ELSE unmarked
        /\ ArchiverReturns(a)
        /\ UNCHANGED <<archivedAs, parquet, manifests, aged, retired, deleter, usedIds, deleted>>
    BY <1>6 DEF ArchiverFails, archiveStore
  <2>2. archivedAs' \in [AuditRows -> ArchiveIds \union {NoArchive}] /\ unmarked' \subseteq AuditRows /\ unmarked \subseteq unmarked'
    BY <1>0, <2>1 DEF ArchiveTypeOK
  <2>3. Uploaded(a) => aid[a] # NoArchive
    BY <1>0, ArchiveAssumption DEF BatchesOK, ArchiveTypeOK
  <2> QED
    BY <2>1, <2>2, <2>3, ArchiverEnds DEF ArchiverReturns
<1> QED
  BY <1>1, <1>2, <1>3, <1>4, <1>5, <1>6

\* Retention only takes files away, and remembers which.
LEMMA RetentionKeeps ==
    ASSUME ArchiveInv,
           \/ Age \/ DeleteExpiredArchives \/ DeleteManifest \/ DeleterStops
           \/ \E i \in ArchiveIds : DeleteFile(i) \/ LifecycleExpires(i)
    PROVE  ArchiveInv'
<1>0. ArchiveTypeOK /\ BatchesOK /\ DeletionOrdered /\ FilesAccounted /\ MarkedIsStored /\ ArchivedTwiceHasCause
  BY DEF ArchiveInv
<1>1. CASE Age \/ DeleteExpiredArchives \/ DeleterStops
  <2>1. UNCHANGED <<archivedAs, parquet, manifests, apc, abatch, aid, usedIds, deleted, unmarked>> /\ dropping' \in {dropping, NoArchive}
    BY <1>1 DEF Age, DeleteExpiredArchives, DeleterStops, archiveStore, deleter
  <2>2. aged' \in 0 .. NEvents /\ retired' \in 0 .. aged'
    <3>1. CASE Age
      BY <1>0, <3>1, ArchiveAssumption DEF Age, ArchiveTypeOK
    <3>2. CASE UNCHANGED <<aged, retired>>
      BY <1>0, <3>2 DEF ArchiveTypeOK
    <3> QED
      BY <1>1, <3>1, <3>2 DEF DeleteExpiredArchives, DeleterStops
  <2>3. listing' \subseteq ArchiveIds
    BY <1>0, <1>1 DEF Age, DeleteExpiredArchives, DeleterStops, deleter, ArchiveTypeOK, ExpiredArchives
  <2>4. ArchiveTypeOK'
    BY <1>0, <2>1, <2>2, <2>3 DEF ArchiveTypeOK
  <2>5. BatchesOK' /\ DeletionOrdered' /\ FilesAccounted' /\ MarkedIsStored' /\ ArchivedTwiceHasCause'
    BY <1>0, <2>1 DEF BatchesOK, DeletionOrdered, FilesAccounted, MarkedIsStored, ArchivedTwiceHasCause, Uploaded
  <2> QED
    BY <2>4, <2>5 DEF ArchiveInv
<1>2. CASE DeleteManifest
  <2>1. /\ dropping # NoArchive /\ manifests' \in {manifests, manifests \ {dropping}} /\ dropping' = NoArchive
        /\ UNCHANGED <<archivedAs, parquet, aged, retired, apc, abatch, aid, listing, usedIds, deleted, unmarked>>
    BY <1>2 DEF DeleteManifest
  <2>2. dropping \in deleted
    BY <1>0, <2>1 DEF DeletionOrdered
  <2>3. ArchiveTypeOK' /\ DeletionOrdered' /\ FilesAccounted' /\ ArchivedTwiceHasCause'
    BY <1>0, <2>1 DEF ArchiveTypeOK, DeletionOrdered, FilesAccounted, ArchivedTwiceHasCause, Uploaded
  <2>4. BatchesOK'
    BY <1>0, <2>1, <2>2 DEF BatchesOK, Uploaded
  <2>5. MarkedIsStored'
    BY <1>0, <2>1, <2>2 DEF MarkedIsStored
  <2> QED
    BY <2>3, <2>4, <2>5 DEF ArchiveInv
<1>3. ASSUME NEW i \in ArchiveIds, DeleteFile(i) \/ LifecycleExpires(i) PROVE ArchiveInv'
  <2>1. /\ UNCHANGED <<archivedAs, manifests, aged, retired, apc, abatch, aid, usedIds, unmarked>>
        /\ listing' \subseteq listing
        /\ \/ parquet' = [parquet EXCEPT ![i] = {}] /\ deleted' = deleted \union {i} /\ dropping' \in {dropping, i}
           \/ UNCHANGED <<parquet, deleted, dropping>>
    BY <1>3 DEF DeleteFile, LifecycleExpires, deleter
  <2>2. /\ \A j \in ArchiveIds : parquet'[j] \subseteq parquet[j] /\ (j \notin deleted' => parquet'[j] = parquet[j])
        /\ deleted \subseteq deleted' /\ deleted' \subseteq ArchiveIds
        /\ parquet' \in [ArchiveIds -> SUBSET AuditRows]
    BY <1>0, <2>1 DEF ArchiveTypeOK
  <2>3. ArchiveTypeOK'
    BY <1>0, <2>1, <2>2 DEF ArchiveTypeOK
  <2>4. DeletionOrdered'
    BY <1>0, <2>1 DEF DeletionOrdered
  <2>5. BatchesOK'
    <3>1. \A b \in Archivers : Uploaded(b) => aid[b] \in ArchiveIds
      BY <1>0 DEF BatchesOK, ArchiveTypeOK
    <3> QED
      BY <1>0, <2>1, <2>2, <3>1 DEF BatchesOK, Uploaded
  <2>6. MarkedIsStored'
    <3>1. \A e \in AuditRows : archivedAs[e] # NoArchive => archivedAs[e] \in ArchiveIds
      BY <1>0 DEF ArchiveTypeOK
    <3> QED
      BY <1>0, <2>1, <2>2, <3>1 DEF MarkedIsStored
  <2>7. ArchivedTwiceHasCause' /\ FilesAccounted'
    BY <1>0, <2>1, <2>2 DEF ArchivedTwiceHasCause, FilesAccounted, Uploaded
  <2> QED
    BY <2>3, <2>4, <2>5, <2>6, <2>7 DEF ArchiveInv
<1> QED
  BY <1>1, <1>2, <1>3

LEMMA ArchiveInductive == ArchiveInv /\ [ArchiveNext]_archiveVars => ArchiveInv'
<1> SUFFICES ASSUME ArchiveInv, [ArchiveNext]_archiveVars
             PROVE  ArchiveInv'
  OBVIOUS
<1>1. CASE ArchiveNext
  BY <1>1, ArchiverStepKeeps, RetentionKeeps DEF ArchiveNext
<1>2. CASE UNCHANGED archiveVars
  BY <1>2 DEF archiveVars, archiveStore, deleter, ArchiveInv, ArchiveTypeOK, BatchesOK, DeletionOrdered, FilesAccounted,
     MarkedIsStored, ArchivedTwiceHasCause, Uploaded
<1> QED
  BY <1>1, <1>2

LEMMA ArchiveInvariant == ArchiveSpec => []ArchiveInv
BY ArchiveInitial, ArchiveInductive, PTL DEF ArchiveSpec

\* Rows, files, batches and counters keep their types.
THEOREM ArchiveTypeCorrect == ArchiveSpec => []ArchiveTypeOK
BY ArchiveInvariant, PTL DEF ArchiveInv

\* A row is marked only after file and manifest are both in S3, so whatever
\* fails or stops between the three steps, a marked event is stored until
\* retention deletes it; a second archiver cannot spoil it.
THEOREM MarkedEventsAreStored == ArchiveSpec => []MarkedIsStored
BY ArchiveInvariant, PTL DEF ArchiveInv

\* Two archives share an event only after a mark was lost or two archivers read
\* the same rows.
THEOREM DuplicatesExplained == ArchiveSpec => []ArchivedTwiceHasCause
BY ArchiveInvariant, PTL DEF ArchiveInv

-----------------------------------------------------------------------------
(* The run: a behaviour steps the components of its profile, and the others  *)
(* rest                                                                      *)

ServicesInv ==
    /\ ExchangeInv /\ (profile = "consents" => barred = {})
    /\ DncInv /\ ArchiveInv /\ PubInv

\* A number with one consent in force, granted before the behaviour begins.
LEMMA InForceInitial ==
    ASSUME ConsentInForce
    PROVE  RevocationInv
<1>1. PICK c \in Consumers, a \in Aggregates :
          /\ consumers = {c}
          /\ owner = [b \in Aggregates |-> IF b = a THEN c ELSE NoConsumer]
          /\ currentVersion = [b \in Aggregates |-> IF b = a THEN 1 ELSE 0]
          /\ versions = [b \in Aggregates |-> [n \in Numbers |-> IF b = a /\ n = 1 THEN "active" ELSE "none"]]
  BY ServicesAssumption DEF ConsentInForce
<1>2. /\ lapsed = FALSE /\ cops = 0 /\ alone = {} /\ withdrawn = {} /\ overtaken = FALSE
      /\ cpc = [r \in ConsentReqs |-> "idle"] /\ cfor = [r \in ConsentReqs |-> NoConsumer]
      /\ cagg = [r \in ConsentReqs |-> {}] /\ cver = [r \in ConsentReqs |-> 0] /\ cnew = [r \in ConsentReqs |-> <<>>]
  BY DEF ConsentInForce
<1>3. c # NoConsumer /\ 1 \in Numbers /\ 1 \in 0 .. MaxVersion /\ 0 \in 0 .. MaxVersion /\ 0 \in 0 .. MaxConsentOps
  BY ConsentAssumption DEF Numbers
<1>4. "active" \in VersionStatus
  BY DEF VersionStatus, Granted
<1>5. ConsentTypeOK
  BY <1>1, <1>2, <1>3, <1>4 DEF ConsentTypeOK
<1>6. CopiesStored /\ RowsTogether
  BY <1>1, <1>2, <1>3 DEF CopiesStored, RowsTogether, Saving
<1>7. PointerHasVersion
  BY <1>1, <1>3, <1>4 DEF PointerHasVersion
<1>8. AloneOK /\ OneConsent /\ WithdrawnOK
  BY <1>1, <1>2, <1>3 DEF AloneOK, OneConsent, WithdrawnOK, Numbers
<1> QED
  BY <1>5, <1>6, <1>7, <1>8 DEF RevocationInv, HistoryInv

LEMMA ServicesInitial ==
    ASSUME ServicesInit
    PROVE  ServicesInv
<1>1. RevocationInv
  BY RevocationInitial, InForceInitial DEF ServicesInit
<1>2. CallInit /\ DncInit /\ ArchiveInit /\ PubInit
  BY DEF ServicesInit
<1>3. barred = {} /\ BarredOK
  BY <1>2 DEF CallInit, BarredOK, RevokedIsNotRouted
<1> QED
  BY <1>1, <1>2, <1>3, CallInitial, DncInitial, ArchiveInitial, PubInitial DEF ServicesInv, ExchangeInv

LEMMA ServicesStep ==
    ASSUME ServicesInv, [ServicesNext]_serviceVars
    PROVE  ServicesInv'
<1>1. [DncNext]_dncVars
  BY DEF ServicesNext, serviceVars, stores, DncNext
<1>2. [ArchiveNext]_archiveVars
  BY DEF ServicesNext, serviceVars, stores
<1>3. [PubNext]_pubVars
  <2>1. Subscriptions => PubNext
    BY DEF Subscriptions, PubNext
  <2> QED
    BY <2>1 DEF ServicesNext, serviceVars
<1>4. DncInv' /\ ArchiveInv' /\ PubInv'
  BY <1>1, <1>2, <1>3, DncInductive, ArchiveInductive, PubStep DEF ServicesInv
<1>5. [ExchangeNext]_<<callVars, consentVars>>
  <2>1. CASE profile = "calls" /\ CallNext /\ UNCHANGED consentVars
    BY <2>1 DEF ExchangeNext
  <2>2. CASE profile = "consents" /\ ConsentNext /\ UNCHANGED callVars
    <3>1. barred = {} /\ barred' = {}
      BY <2>2 DEF ServicesInv, callVars
    <3> QED
      BY <2>2, <3>1 DEF ExchangeNext, ConsentMoves, callVars
  <2>3. CASE profile = "composed" /\ Composed
    BY <2>3 DEF Composed, ExchangeNext, CallNext, BidStep, RoutingStep
  <2>4. CASE UNCHANGED <<callVars, consentVars>>
    BY <2>4
  <2> QED
    BY <2>1, <2>2, <2>3, <2>4 DEF ServicesNext, serviceVars
<1>6. ExchangeInv'
  BY <1>5, ExchangeInductive DEF ServicesInv
<1>7. profile' = profile /\ (profile = "consents" => barred' = {})
  BY DEF ServicesInv, ServicesNext, serviceVars, callVars
<1> QED
  BY <1>4, <1>6, <1>7 DEF ServicesInv

LEMMA ServicesInvariant == ServicesSpec => []ServicesInv
<1>1. ServicesInit => ServicesInv
  BY ServicesInitial
<1>2. ServicesInv /\ [ServicesNext]_serviceVars => ServicesInv'
  BY ServicesStep
<1> QED
  BY <1>1, <1>2, PTL DEF ServicesSpec

\* Calls, consents, suppression entries, archive and publisher keep the types
\* of all their rows, copies, queues and batches, also where RouteCall reads
\* the consents that change under it, and also when a consent is in force from
\* the start.
THEOREM ServicesTypesCorrect == ServicesSpec => []TypesOK
<1>1. CallInv /\ BidTypeOK => CallTypeOK
  BY CallTypes DEF ExchangeCalls
<1>2. ServicesInv => TypesOK
  BY <1>1 DEF ServicesInv, ExchangeInv, RevocationInv, HistoryInv, DncInv, ArchiveInv, PubInv, TypesOK
<1> QED
  BY <1>2, ServicesInvariant, PTL

\* What the run checks of the calls, consents, entries, files and deliveries
\* holds of its specification for every value of the constants: the proofs
\* above are about each component's own initial state, this one also about the
\* number with a consent in force, and about the profiles' bounds.
THEOREM ServicesSafe ==
    ServicesSpec => [](/\ PointerHasVersion /\ UncontestedRevocationHolds
                       /\ ClaimedOnce /\ OneBuyerNamed
                       /\ EndedRowMeansEndedLeg /\ RevokedIsNotRouted
                       /\ SuppressedAsAsked /\ SyncingHasCause
                       /\ MarkedIsStored /\ ArchivedTwiceHasCause
                       /\ DeliveredAsSubscribed)
<1>1. CallInv => ClaimedOnce /\ OneBuyerNamed
  BY OneBuyerFollows DEF CallInv, RowsOK, RowOK, ClaimedOnce
<1>2. CallInv => EndedRowMeansEndedLeg
  BY DEF CallInv, WorldTypeOK, RowsOK, RowOK, EndedRowMeansEndedLeg
<1>3. RevocationInv => PointerHasVersion /\ UncontestedRevocationHolds
  BY RevocationAnswers DEF RevocationInv, HistoryInv
<1>4. ExchangeInv => CallInv /\ RevocationInv /\ RevokedIsNotRouted
  BY DEF ExchangeInv, BarredOK
<1>5. DncInv => SuppressedAsAsked /\ SyncingHasCause
  BY DEF DncInv
<1>6. ArchiveInv => MarkedIsStored /\ ArchivedTwiceHasCause
  BY DEF ArchiveInv
<1>7. PubInv => DeliveredAsSubscribed
  BY DeliveryFollows
<1>8. ServicesInv => ExchangeInv /\ DncInv /\ ArchiveInv /\ PubInv
  BY DEF ServicesInv
<1> QED
  BY <1>1, <1>2, <1>3, <1>4, <1>5, <1>6, <1>7, <1>8, ServicesInvariant, PTL
=============================================================================
