---------------------------- MODULE DncRegistry ----------------------------
(***************************************************************************)
(* The Do Not Call registry: the suppression entries of one phone number   *)
(* (one row per list source, soft-deleted) and the providers they are      *)
(* synchronised from, as the DNC service and its two repositories write    *)
(* them.  Entries and providers are read, changed in memory and saved by   *)
(* an INSERT ... ON CONFLICT DO UPDATE that writes only the columns it     *)
(* lists: not deleted_at of an entry, not last_sync_at of a provider.      *)
(***************************************************************************)
EXTENDS Naturals

CONSTANTS
    Sources, InternalList,  \* list sources, and the one the service may remove from
    Providers, Internal,    \* provider rows, and those of type internal
    DncReqs,                \* request and sync goroutines
    MaxDncOps               \* bound: operations started in a behaviour

ASSUME DncAssumption ==
    /\ InternalList \in Sources /\ Internal \subseteq Providers
    /\ MaxDncOps \in Nat

VARIABLES
    entry,       \* dnc_entries by source: "none" (no row), "live", "deleted"
    expiresAt,   \* the row's expires_at: "never" (NULL), "later", "past"
    rowNo,       \* the row's id: 0 for none, else counted up by every insert
    provStatus,  \* dnc_providers.status (every provider is enabled)
    dpc,         \* where each goroutine is
    dsrc, drow,  \* the sources of the entries it read, and their ids
    dexp,        \* the expiry its copy of the entry will be saved with
    dprov, dst,  \* the provider it works on and the status of its copy
    dops,        \* operations started (bounded)
    asked,       \* history: expiry of the last acknowledged add, "none" when an
                 \* update, a removal or a bulk change of the entry came since
    released,    \* history: sources whose row was ever soft-deleted
    faulted,     \* history: providers one of whose saves failed, or whose sync
                 \* died with the process
    staleSave    \* history: providers saved from a copy read as syncing

entryRows == <<entry, expiresAt, rowNo>>
dncLocal == <<dsrc, drow, dexp, dprov, dst>>
entryPast == <<asked, released>>
provPast == <<faulted, staleSave>>
dncVars == <<entryRows, provStatus, dpc, dncLocal, dops, entryPast, provPast>>

DncInit ==
    /\ entry = [s \in Sources |-> "none"]
    /\ expiresAt = [s \in Sources |-> "never"]
    /\ rowNo = [s \in Sources |-> 0]
    /\ provStatus = [p \in Providers |-> "active"]
    /\ dpc = [r \in DncReqs |-> "idle"]
    /\ dsrc = [r \in DncReqs |-> {}]
    /\ drow = [r \in DncReqs |-> 0]
    /\ dexp = [r \in DncReqs |-> "never"]
    /\ dprov = [r \in DncReqs |-> {}]
    /\ dst = [r \in DncReqs |-> "none"]
    /\ dops = 0
    /\ asked = [s \in Sources |-> "none"]
    /\ released = {} /\ faulted = {} /\ staleSave = {}

DncStart == dops < MaxDncOps /\ dops' = dops + 1

DncFinish(r) ==
    /\ dpc' = [dpc EXCEPT ![r] = "idle"]
    /\ dsrc' = [dsrc EXCEPT ![r] = {}]
    /\ drow' = [drow EXCEPT ![r] = 0]
    /\ dexp' = [dexp EXCEPT ![r] = "never"]
    /\ dprov' = [dprov EXCEPT ![r] = {}]
    /\ dst' = [dst EXCEPT ![r] = "none"]
-----------------------------------------------------------------------------
(* Suppression entries                                                      *)

\* FindByPhone and IsActive: rows that are not soft-deleted and not expired.
FindActiveByPhone == {s \in Sources : entry[s] = "live" /\ expiresAt[s] # "past"}

\* Save and Upsert: a row is inserted, or the conflicting row of the same
\* number and source gets the new expiry and keeps its id and deleted_at.
SaveEntries(S, e) ==
    /\ entry' = [s \in Sources |-> IF s \in S /\ entry[s] = "none" THEN "live" ELSE entry[s]]
    /\ rowNo' = [s \in Sources |-> IF s \in S /\ entry[s] = "none" THEN rowNo[s] + 1 ELSE rowNo[s]]
    /\ expiresAt' = [s \in Sources |-> IF s \in S THEN e ELSE expiresAt[s]]

\* Delete and BulkDelete: soft, and only of rows that are live.
SoftDelete(S) ==
    /\ entry' = [s \in Sources |-> IF s \in S /\ entry[s] = "live" THEN "deleted" ELSE entry[s]]
    /\ released' = released \union {s \in S : entry[s] = "live"}
    /\ UNCHANGED <<expiresAt, rowNo>>

UpdatesUnderWay(s) == {r \in DncReqs : s \in dsrc[r] /\ dpc[r] = "save"}

Forget(S) == asked' = [s \in Sources |-> IF s \in S THEN "none" ELSE asked[s]]

AddToSuppressionList(s) ==
    /\ DncStart
    /\ \E e \in {"never", "later"} :
          /\ SaveEntries({s}, e)
          /\ asked' = [asked EXCEPT ![s] = IF UpdatesUnderWay(s) = {} THEN e ELSE "none"]
    /\ UNCHANGED <<provStatus, dpc, dncLocal, released, provPast>>

\* RemoveFromSuppressionList reads the entries of the number; the active one
\* of the internal list is then deleted by its id.
RemoveFromSuppressionList(r) ==
    /\ dpc[r] = "idle"
    /\ DncStart
    /\ InternalList \in FindActiveByPhone
    /\ dpc' = [dpc EXCEPT ![r] = "delete"]
    /\ dsrc' = [dsrc EXCEPT ![r] = {InternalList}]
    /\ drow' = [drow EXCEPT ![r] = rowNo[InternalList]]
    /\ UNCHANGED <<entryRows, provStatus, dexp, dprov, dst, entryPast, provPast>>

DeleteEntry(r) ==
    /\ dpc[r] = "delete"
    /\ SoftDelete({s \in dsrc[r] : rowNo[s] = drow[r]})
    /\ Forget(dsrc[r])
    /\ DncFinish(r)
    /\ UNCHANGED <<provStatus, dops, provPast>>

\* UpdateSuppressionEntry reads a live entry by id, changes its copy (a new
\* expiry, or only notes and reason) and saves the copy.
UpdateSuppressionEntry(r, s) ==
    /\ dpc[r] = "idle"
    /\ DncStart
    /\ entry[s] = "live"
    /\ dpc' = [dpc EXCEPT ![r] = "save"]
    /\ dsrc' = [dsrc EXCEPT ![r] = {s}]
    /\ drow' = [drow EXCEPT ![r] = rowNo[s]]
    /\ \E e \in {expiresAt[s], "later"} : dexp' = [dexp EXCEPT ![r] = e]
    /\ Forget({s})
    /\ UNCHANGED <<entryRows, provStatus, dprov, dst, released, provPast>>

\* Mutant: the save writes the copy's deleted_at, too.
SaveUpdate_Revives(r) ==
    /\ dpc[r] = "save"
    /\ entry' = [s \in Sources |-> IF s \in dsrc[r] THEN "live" ELSE entry[s]]
    /\ expiresAt' = [s \in Sources |-> IF s \in dsrc[r] THEN dexp[r] ELSE expiresAt[s]]
    /\ DncFinish(r)
    /\ UNCHANGED <<rowNo, provStatus, dops, entryPast, provPast>>

\* The copy is saved; a row that was cleaned up meanwhile is inserted again.
SaveUpdate(r) ==
    /\ dpc[r] = "save"
    /\ SaveEntries(dsrc[r], dexp[r])
    /\ DncFinish(r)
    /\ UNCHANGED <<provStatus, dops, entryPast, provPast>>

\* A failed statement changes nothing and ends the request.
EntryStoreFails(r) ==
    /\ dpc[r] \in {"delete", "save"}
    /\ DncFinish(r)
    /\ UNCHANGED <<entryRows, provStatus, dops, entryPast, provPast>>

\* BulkInsert copies rows in one transaction that any conflict aborts.
BulkInsert(S) ==
    /\ DncStart
    /\ S # {} /\ \A s \in S : entry[s] = "none"
    /\ \E e \in {"never", "later"} : SaveEntries(S, e)
    /\ Forget(S)
    /\ UNCHANGED <<provStatus, dpc, dncLocal, released, provPast>>

Upsert(S) ==
    /\ DncStart
    /\ S # {}
    /\ \E e \in {"never", "later"} : SaveEntries(S, e)
    /\ Forget(S)
    /\ UNCHANGED <<provStatus, dpc, dncLocal, released, provPast>>

BulkUpdate(S) ==
    /\ DncStart
    /\ S # {} /\ \A s \in S : entry[s] = "live"
    /\ \E e \in {"never", "later"} :
          expiresAt' = [s \in Sources |-> IF s \in S THEN e ELSE expiresAt[s]]
    /\ Forget(S)
    /\ UNCHANGED <<entry, rowNo, provStatus, dpc, dncLocal, released, provPast>>

BulkDelete(S) ==
    /\ DncStart
    /\ S # {}
    /\ SoftDelete(S)
    /\ Forget(S)
    /\ UNCHANGED <<provStatus, dpc, dncLocal, provPast>>

\* Mutant: every row with an expiry is removed.
CleanupExpired_AnyExpiry ==
    /\ entry' = [s \in Sources |-> IF entry[s] = "live" /\ expiresAt[s] # "never" THEN "none" ELSE entry[s]]
    /\ UNCHANGED <<expiresAt, rowNo, provStatus, dpc, dncLocal, dops, entryPast, provPast>>

\* CleanupExpired removes rows that expired and were not soft-deleted.
CleanupExpired ==
    /\ \E s \in Sources : entry[s] = "live" /\ expiresAt[s] = "past"
    /\ entry' = [s \in Sources |-> IF entry[s] = "live" /\ expiresAt[s] = "past" THEN "none" ELSE entry[s]]
    /\ UNCHANGED <<expiresAt, rowNo, provStatus, dpc, dncLocal, dops, entryPast, provPast>>

EntryExpires(s) ==
    /\ entry[s] # "none" /\ expiresAt[s] = "later"
    /\ expiresAt' = [expiresAt EXCEPT ![s] = "past"]
    /\ UNCHANGED <<entry, rowNo, provStatus, dpc, dncLocal, dops, entryPast, provPast>>
-----------------------------------------------------------------------------
(* Providers                                                                *)

\* Save of a provider: of what a sync changes, only the status is written to
\* an existing row.  last_sync_at stays NULL, so NeedsSync asks for no more
\* than a status other than syncing.
NeedsSync(st) == st # "syncing"

\* SyncWithProviders (the active ones) and SyncWithProvider (any, by id).
SyncSingleProvider(r, p) ==
    /\ dpc[r] = "idle"
    /\ DncStart
    /\ NeedsSync(provStatus[p])
    /\ dpc' = [dpc EXCEPT ![r] = "syncStart"]
    /\ dprov' = [dprov EXCEPT ![r] = {p}]
    /\ dst' = [dst EXCEPT ![r] = "syncing"]
    /\ UNCHANGED <<entryRows, provStatus, dsrc, drow, dexp, entryPast, provPast>>

StoreStatus(r) ==
    provStatus' = [p \in Providers |-> IF p \in dprov[r] THEN dst[r] ELSE provStatus[p]]

\* What the sync of the provider's type returns: only internal is implemented.
SyncResult(r) == IF dprov[r] \subseteq Internal THEN "active" ELSE "error"

\* The first save; its error is logged and the sync goes on.
RecordSyncStart(r) ==
    /\ dpc[r] = "syncStart"
    /\ StoreStatus(r) \/ UNCHANGED provStatus
    /\ dst' = [dst EXCEPT ![r] = SyncResult(r)]
    /\ dpc' = [dpc EXCEPT ![r] = "syncEnd"]
    /\ UNCHANGED <<entryRows, dsrc, drow, dexp, dprov, dops, entryPast, provPast>>

\* Mutant: the last save is left out.
RecordSyncEnd_NotSaved(r) ==
    /\ dpc[r] = "syncEnd"
    /\ DncFinish(r)
    /\ UNCHANGED <<entryRows, provStatus, dops, entryPast, provPast>>

RecordSyncEnd(r) ==
    /\ dpc[r] = "syncEnd"
    /\ StoreStatus(r)
    /\ DncFinish(r)
    /\ UNCHANGED <<entryRows, dops, entryPast, provPast>>

\* The last save fails: its error is logged too.
RecordSyncEndFails(r) ==
    /\ dpc[r] = "syncEnd"
    /\ faulted' = faulted \union dprov[r]
    /\ DncFinish(r)
    /\ UNCHANGED <<entryRows, provStatus, dops, entryPast, staleSave>>

\* UpdateProvider reads the provider, may switch it on or off, and saves it.
UpdateProvider(r, p) ==
    /\ dpc[r] = "idle"
    /\ DncStart
    /\ \E st \in {provStatus[p], "active", "inactive"} : dst' = [dst EXCEPT ![r] = st]
    /\ dpc' = [dpc EXCEPT ![r] = "provSave"]
    /\ dprov' = [dprov EXCEPT ![r] = {p}]
    /\ UNCHANGED <<entryRows, provStatus, dsrc, drow, dexp, entryPast, provPast>>

SaveProvider(r) ==
    /\ dpc[r] = "provSave"
    /\ StoreStatus(r)
    /\ staleSave' = IF dst[r] = "syncing" THEN staleSave \union dprov[r] ELSE staleSave
    /\ DncFinish(r)
    /\ UNCHANGED <<entryRows, dops, entryPast, faulted>>

\* The process stops: goroutines are gone, rows stay.
DncCrash ==
    /\ \E r \in DncReqs : dpc[r] # "idle"
    /\ faulted' = faulted \union UNION {dprov[r] : r \in {q \in DncReqs : dpc[q] \in {"syncStart", "syncEnd"}}}
    /\ dpc' = [r \in DncReqs |-> "idle"]
    /\ dsrc' = [r \in DncReqs |-> {}]
    /\ drow' = [r \in DncReqs |-> 0]
    /\ dexp' = [r \in DncReqs |-> "never"]
    /\ dprov' = [r \in DncReqs |-> {}]
    /\ dst' = [r \in DncReqs |-> "none"]
    /\ UNCHANGED <<entryRows, provStatus, dops, entryPast, staleSave>>
-----------------------------------------------------------------------------
EntryStep ==
    \/ CleanupExpired
    \/ \E s \in Sources : AddToSuppressionList(s) \/ EntryExpires(s)
    \/ \E S \in SUBSET Sources : BulkInsert(S) \/ Upsert(S) \/ BulkUpdate(S) \/ BulkDelete(S)
    \/ \E r \in DncReqs :
          \/ RemoveFromSuppressionList(r) \/ DeleteEntry(r) \/ SaveUpdate(r) \/ EntryStoreFails(r)
          \/ \E s \in Sources : UpdateSuppressionEntry(r, s)

ProviderStep ==
    \E r \in DncReqs :
        \/ RecordSyncStart(r) \/ RecordSyncEnd(r) \/ RecordSyncEndFails(r) \/ SaveProvider(r)
        \/ \E p \in Providers : SyncSingleProvider(r, p) \/ UpdateProvider(r, p)

DncNext == EntryStep \/ ProviderStep \/ DncCrash

DncSpec == DncInit /\ [][DncNext]_dncVars
-----------------------------------------------------------------------------
DncTypeOK ==
    /\ entry \in [Sources -> {"none", "live", "deleted"}]
    /\ expiresAt \in [Sources -> {"never", "later", "past"}]
    /\ rowNo \in [Sources -> Nat]
    /\ provStatus \in [Providers -> {"active", "inactive", "syncing", "error"}]
    /\ dsrc \in [DncReqs -> SUBSET Sources]
    /\ dprov \in [DncReqs -> SUBSET Providers]
    /\ asked \in [Sources -> {"none", "never", "later"}]
    /\ released \subseteq Sources /\ faulted \subseteq Providers

\* A number added to a list stays suppressed for as long as was asked: through
\* cleanups, expiries of other entries, failures and restarts, an entry whose
\* acknowledged addition was the last request to change it is live and has not
\* expired before its time, unless a row of that list was removed earlier: a
\* save does not bring a soft-deleted row back.
SuppressedAsAsked ==
    \A s \in Sources : (asked[s] # "none" /\ s \notin released) =>
        \/ entry[s] = "live" /\ (asked[s] = "never" => expiresAt[s] = "never")
        \/ asked[s] = "later" /\ expiresAt[s] = "past"

\* A request that ends late does no harm to what happened since it read its
\* row: the save of a copy read before a removal leaves the entry removed, and
\* a delete leaves alone a row that was inserted in place of the one it read.
LateRequestsKeepRows ==
    [][\A r \in DncReqs : \A s \in dsrc[r] :
          (dpc[r] \in {"delete", "save"} /\ dpc'[r] = "idle") =>
              /\ entry[s] = "deleted" => entry'[s] = "deleted"
              /\ (dpc[r] = "delete" /\ rowNo[s] # drow[r]) => entry'[s] = entry[s]]_dncVars

\* A provider shown as syncing is being synced, or a sync of it lost its last
\* save or its process, or UpdateProvider saved a copy it read during a sync.
\* Such a provider is skipped by every later sync.
SyncingHasCause ==
    \A p \in Providers : provStatus[p] = "syncing" =>
        \/ \E r \in DncReqs : dprov[r] = {p} /\ dpc[r] = "syncEnd"
        \/ p \in faulted \union staleSave
=============================================================================
