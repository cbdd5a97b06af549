---------------------------- MODULE AuditArchive ----------------------------
(***************************************************************************)
(* Archival of audit events to S3 (internal/infrastructure/archive, run by *)
(* cmd/archiver): ArchiveEvents takes old events batch by batch, uploads a *)
(* file and then its manifest, and marks the rows; DeleteExpiredArchives   *)
(* removes archives whose retention is over.  S3 and the database share no *)
(* transaction, every upload, update and deletion may fail or be the last  *)
(* thing a process does, and nothing keeps two archivers from running.     *)
(*                                                                         *)
(* Events are numbered in the order of their timestamps.  Reading archives *)
(* back (query, verify, restore) always fails, at parseParquetFile, and    *)
(* changes nothing.                                                        *)
(***************************************************************************)
EXTENDS Integers, FiniteSets, FiniteSetsExt

CONSTANTS
    NEvents,            \* bound: audit events in the table
    ArchiveIds, NoArchive,  \* uuid.New (bounds the archives made), and NULL
    Archivers,          \* processes running ArchiveEvents
    ArchiveBatchSize

ASSUME ArchiveAssumption ==
    /\ NEvents \in Nat /\ ArchiveBatchSize \in Nat \ {0}
    /\ NoArchive \notin ArchiveIds

AuditRows == 1 .. NEvents

VARIABLES
    archivedAs,   \* archived and archive_id of each row
    parquet,      \* S3: events of each archive's file, {} for no file
    manifests,    \* S3: archives with a manifest
    aged,         \* events up to this one are old enough to be archived
    retired,      \* events up to this one are past their retention
    apc, abatch,  \* where each archiver is, and the events it read
    aid,          \* the archive it makes
    listing,      \* archives DeleteExpiredArchives still has to look at
    dropping,     \* the archive it deletes: its file is gone
    usedIds,      \* history: archive ids handed out
    deleted,      \* history: archives whose file was deleted
    unmarked      \* history: events in a file whose rows were not marked with it,
                  \* or read by two archivers at once

archiveStore == <<archivedAs, parquet, manifests>>
deleter == <<listing, dropping>>
archiveVars == <<archiveStore, aged, retired, apc, abatch, aid, deleter, usedIds, deleted, unmarked>>

ArchiveInit ==
    /\ archivedAs = [e \in AuditRows |-> NoArchive]
    /\ parquet = [i \in ArchiveIds |-> {}]
    /\ manifests = {}
    /\ aged = 0 /\ retired = 0
    /\ apc = [a \in Archivers |-> "idle"]
    /\ abatch = [a \in Archivers |-> {}]
    /\ aid = [a \in Archivers |-> NoArchive]
    /\ listing = {} /\ dropping = NoArchive
    /\ usedIds = {} /\ deleted = {} /\ unmarked = {}

\* Time passes: an event reaches the age of archival, or of deletion.
Age ==
    /\ \/ aged < NEvents /\ aged' = aged + 1 /\ UNCHANGED retired
       \/ retired < aged /\ retired' = retired + 1 /\ UNCHANGED aged
    /\ UNCHANGED <<archiveStore, apc, abatch, aid, deleter, usedIds, deleted, unmarked>>
-----------------------------------------------------------------------------
(* ArchiveEvents                                                            *)

\* Mutant: archived rows are read again.
ExpiredEvents_AnyRow == 1 .. aged

\* GetExpiredEvents: the oldest rows not marked archived, at most a batch.
ExpiredEvents == {e \in 1 .. aged : archivedAs[e] = NoArchive}
OldestBatch ==
    {e \in ExpiredEvents : Cardinality({f \in ExpiredEvents : f < e}) < ArchiveBatchSize}

ArchiverReturns(a) ==
    /\ apc' = [apc EXCEPT ![a] = "idle"]
    /\ abatch' = [abatch EXCEPT ![a] = {}]
    /\ aid' = [aid EXCEPT ![a] = NoArchive]

FetchBatch(a) ==
    /\ apc[a] \in {"idle", "more"}
    /\ IF OldestBatch = {}
       THEN apc[a] = "more" /\ ArchiverReturns(a) /\ UNCHANGED unmarked
       ELSE /\ apc' = [apc EXCEPT ![a] = "file"]
            /\ abatch' = [abatch EXCEPT ![a] = OldestBatch]
            /\ unmarked' = unmarked \union (OldestBatch \intersect UNION {abatch[b] : b \in Archivers \ {a}})
            /\ UNCHANGED aid
    /\ UNCHANGED <<archiveStore, aged, retired, deleter, usedIds, deleted>>

\* ArchiveBatch: a fresh id, and the file under the day of its first event.
UploadFile(a) ==
    /\ apc[a] = "file"
    /\ \E i \in ArchiveIds \ usedIds :
          /\ usedIds' = usedIds \union {i}
          /\ aid' = [aid EXCEPT ![a] = i]
          /\ parquet' = [parquet EXCEPT ![i] = abatch[a]]
    /\ apc' = [apc EXCEPT ![a] = "manifest"]
    /\ UNCHANGED <<archivedAs, manifests, aged, retired, abatch, deleter, deleted, unmarked>>

\* Mutant: an error of the manifest's upload is ignored.
UploadManifest_ErrorIgnored(a) ==
    /\ apc[a] = "manifest"
    /\ apc' = [apc EXCEPT ![a] = "mark"]
    /\ UNCHANGED <<archiveStore, aged, retired, abatch, aid, deleter, usedIds, deleted, unmarked>>

UploadManifest(a) ==
    /\ apc[a] = "manifest"
    /\ manifests' = manifests \union {aid[a]}
    /\ apc' = [apc EXCEPT ![a] = "mark"]
    /\ UNCHANGED <<archivedAs, parquet, aged, retired, abatch, aid, deleter, usedIds, deleted, unmarked>>

\* After the rows were marked, or failed to be, a full batch asks for another.
NextBatch(a) ==
    IF Cardinality(abatch[a]) < ArchiveBatchSize THEN ArchiverReturns(a)
    ELSE /\ apc' = [apc EXCEPT ![a] = "more"]
         /\ abatch' = [abatch EXCEPT ![a] = {}]
         /\ aid' = [aid EXCEPT ![a] = NoArchive]

markEventsAsArchived(a) ==
    /\ apc[a] = "mark"
    /\ archivedAs' = [e \in AuditRows |-> IF e \in abatch[a] THEN aid[a] ELSE archivedAs[e]]
    /\ NextBatch(a)
    /\ UNCHANGED <<parquet, manifests, aged, retired, deleter, usedIds, deleted, unmarked>>

\* The update is rolled back: the error is logged and the loop goes on.
MarkFails(a) ==
    /\ apc[a] = "mark"
    /\ unmarked' = unmarked \union abatch[a]
    /\ NextBatch(a)
    /\ UNCHANGED <<archiveStore, aged, retired, deleter, usedIds, deleted>>

\* An upload fails, which ends ArchiveEvents, or the process stops.  What was
\* uploaded before stays.
ArchiverFails(a) ==
    /\ apc[a] # "idle"
    /\ unmarked' = IF aid[a] # NoArchive THEN unmarked \union abatch[a] ELSE unmarked
    /\ ArchiverReturns(a)
    /\ UNCHANGED <<archiveStore, aged, retired, deleter, usedIds, deleted>>
-----------------------------------------------------------------------------
(* DeleteExpiredArchives                                                    *)

\* ListArchives up to the cutoff: by the timestamp of the first event.
ExpiredArchives == {i \in ArchiveIds : parquet[i] # {} /\ Min(parquet[i]) <= retired}

DeleteExpiredArchives ==
    /\ listing = {} /\ dropping = NoArchive
    /\ ExpiredArchives # {}
    /\ listing' = ExpiredArchives
    /\ UNCHANGED <<archiveStore, aged, retired, apc, abatch, aid, dropping, usedIds, deleted, unmarked>>

\* An archive without a manifest is skipped (no manifest holds a legal hold).
DeleteFile(i) ==
    /\ i \in listing /\ dropping = NoArchive
    /\ listing' = listing \ {i}
    /\ IF i \in manifests
       THEN /\ parquet' = [parquet EXCEPT ![i] = {}]
            /\ dropping' = i
            /\ deleted' = deleted \union {i}
       ELSE UNCHANGED <<parquet, dropping, deleted>>
    /\ UNCHANGED <<archivedAs, manifests, aged, retired, apc, abatch, aid, usedIds, unmarked>>

\* The manifest follows, unless its deletion fails.
DeleteManifest ==
    /\ dropping # NoArchive
    /\ manifests' \in {manifests, manifests \ {dropping}}
    /\ dropping' = NoArchive
    /\ UNCHANGED <<archivedAs, parquet, aged, retired, apc, abatch, aid, listing, usedIds, deleted, unmarked>>

DeleterStops ==
    /\ listing # {} \/ dropping # NoArchive
    /\ listing' = {} /\ dropping' = NoArchive
    /\ UNCHANGED <<archiveStore, aged, retired, apc, abatch, aid, usedIds, deleted, unmarked>>
\* The bucket's lifecycle rule expires a file RetentionDays after its upload;
\* manifests are outside the prefix of the rule.
LifecycleExpires(i) ==
    /\ i \in ExpiredArchives
    /\ parquet' = [parquet EXCEPT ![i] = {}]
    /\ deleted' = deleted \union {i}
    /\ UNCHANGED <<archivedAs, manifests, aged, retired, apc, abatch, aid, deleter, usedIds, unmarked>>
-----------------------------------------------------------------------------
ArchiveNext ==
    \/ Age
    \/ \E a \in Archivers :
          \/ FetchBatch(a) \/ UploadFile(a) \/ UploadManifest(a)
          \/ markEventsAsArchived(a) \/ MarkFails(a) \/ ArchiverFails(a)
    \/ DeleteExpiredArchives \/ DeleteManifest \/ DeleterStops
    \/ \E i \in ArchiveIds : DeleteFile(i) \/ LifecycleExpires(i)

ArchiveSpec == ArchiveInit /\ [][ArchiveNext]_archiveVars
-----------------------------------------------------------------------------
ArchiveTypeOK ==
    /\ archivedAs \in [AuditRows -> ArchiveIds \union {NoArchive}]
    /\ parquet \in [ArchiveIds -> SUBSET AuditRows]
    /\ manifests \subseteq ArchiveIds /\ usedIds \subseteq ArchiveIds /\ deleted \subseteq ArchiveIds
    /\ aged \in 0 .. NEvents /\ retired \in 0 .. aged
    /\ apc \in [Archivers -> {"idle", "more", "file", "manifest", "mark"}]
    /\ abatch \in [Archivers -> SUBSET AuditRows]
    /\ aid \in [Archivers -> ArchiveIds \union {NoArchive}]
    /\ listing \subseteq ArchiveIds /\ dropping \in ArchiveIds \union {NoArchive}
    /\ unmarked \subseteq AuditRows

\* An event marked archived is in the file of the archive its row names, and
\* that archive has its manifest, unless retention deleted it: no failure or
\* restart between the two uploads and the update, and no second archiver,
\* marks an event that S3 does not hold.
MarkedIsStored ==
    \A e \in AuditRows : archivedAs[e] # NoArchive =>
        \/ archivedAs[e] \in deleted
        \/ e \in parquet[archivedAs[e]] /\ archivedAs[e] \in manifests

\* An event is in two archives only when one of them was never marked, or when
\* two archivers had read it: otherwise the rows partition the archives.
ArchivedTwiceHasCause ==
    \A i, j \in ArchiveIds : i # j => parquet[i] \intersect parquet[j] \subseteq unmarked
=============================================================================
