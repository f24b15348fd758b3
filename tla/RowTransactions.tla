-------------------------- MODULE RowTransactions --------------------------
(***************************************************************************)
(* The transactions of the server, statement by statement.  Requests and   *)
(* background jobs of one or more servers each run a transaction, numbered *)
(* in the order they begin.                                                *)
(***************************************************************************)
EXTENDS RowStatements

Bump == ChangeLocationLeaseVersion("add", 1)
Unfenced(l) == {LocationID("EQ", l), LocationDeletionRequestedAt("IsNil", Null)}
EntriesOf(l) == {EntryLocationId("EQ", l)}
LiveLeasesOf(l, now) == {LeaseStorageLocationId("EQ", l), LeaseExpiresAt("GT", now)}
DeadLeasesOf(l, now) == {LeaseStorageLocationId("EQ", l), LeaseExpiresAt("LTE", now)}
TheRow(rows) == CHOOSE row \in rows : TRUE

----------------------------------------------------------------------------
(* acquireReaderOnce                                                         *)

Direct(job) == job.direct
Classify(row, direct) ==
  CASE row.deletionRequestedAt # Null -> "unavailable"
    [] row.deletionRequestedAt = Null /\ row.mergedAt # Null -> "storage"
    [] row.deletionRequestedAt = Null /\ row.mergedAt = Null ->
         IF row.partsDeletedAt # Null \/ (direct /\ row.partCount # 1)
         THEN "unavailable" ELSE "parts"

AcquireReader(p) == \E e \in Entry, direct \in BOOLEAN :
  Begin(p, [kind |-> "acquire", entry |-> e, direct |-> direct], "acquire", <<>>)

AcquireEntry(p) ==
  At(p, "acquire") /\
  LET did == QueryEntry(p, {EntryID("EQ", proc[p].job.entry)}) IN
  IF did.result = {} THEN Does(p, did, "rollback")
  ELSE Keeps(p, did, "acquire.location", [location |-> TheRow(did.result).locationId])

AcquireLocation(p) ==
  At(p, "acquire.location") /\
  LET did == QueryLocation(p, {LocationID("EQ", proc[p].reg.location)})
      row == TheRow(did.result)
      scope == Classify(row, proc[p].job.direct)
      mergeable == row.partCount >= 2 /\ row.materializationUnsupportedAt = Null
  IN IF did.result = {} \/ scope = "unavailable" THEN Does(p, did, "rollback")
     ELSE Keeps(p, did, IF scope = "parts" /\ mergeable THEN "acquire.lock" ELSE "acquire.create",
                [scope |-> scope])

\* Fault: a reader of parts is inserted without the lock on its location.
AcquireUnlocked(p) == At(p, "acquire.lock") /\ Step(p, Goto(proc[p], "acquire.create"))
AcquireLock(p) ==
  At(p, "acquire.lock") /\
  LET did == UpdateLocation(p,
         Unfenced(proc[p].reg.location) \cup {LocationMergedAt("IsNil", Null),
                                              LocationPartsDeletedAt("IsNil", Null)},
         Bump)
  IN Does(p, did, IF did.result = {} THEN "rollback" ELSE "acquire.create")

AcquireCreate(p) ==
  Inserts(p, "acquire.create", "lease") /\
  LET did == CreateLease(p, LeaseValues(proc[p].reg.location, proc[p].reg.scope, clock + Lasts))
  IN Does(p, did, IF did.result THEN "commit" ELSE "rollback")

RenewReader(p) == \E d \in Lease :
  Begin(p, [kind |-> "renew", lease |-> d], "renew", <<>>)
RenewUpdate(p) ==
  At(p, "renew") /\
  Does(p, UpdateLease(p, {LeaseID("EQ", proc[p].job.lease), LeaseExpiresAt("GT", clock)},
         ChangeLeaseExpiresAt("set", clock + Lasts)), "commit")

ReleaseReaders(p) == \E ids \in (SUBSET Lease) \ {{}} :
  Begin(p, [kind |-> "release", leases |-> ids], "release", <<>>)
ReleaseDelete(p) ==
  At(p, "release") /\
  Does(p, DeleteLease(p, {LeaseID("In", proc[p].job.leases)}), "commit")

PurgeExpiredReaderLeases(p) == Begin(p, [kind |-> "sweep"], "sweep", <<>>)
SweepDelete(p) ==
  At(p, "sweep") /\
  Does(p, DeleteLease(p, {LeaseExpiresAt("LTE", clock)}), "commit")

----------------------------------------------------------------------------
(* fenceDetachedLocation, on the location in reg.location.                   *)

Returned(p) == IF proc[p].job.kind = "complete" THEN "complete.blocks" ELSE "commit"

ActiveMaterialization(row, now) ==
  IF row.mergeLeaseToken # Null
  THEN row.mergeLeaseExpiresAt # Null /\ row.mergeLeaseExpiresAt > now
  ELSE /\ row.mergedAt = Null /\ row.materializationUnsupportedAt = Null
       /\ row.mergeStartedAt # Null /\ row.mergeStartedAt > now - Lasts

FenceLock(p) ==
  At(p, "fence.lock") /\
  LET did == UpdateLocation(p, {LocationID("EQ", proc[p].reg.location)}, Bump)
  IN Does(p, did, IF did.result = {} THEN Returned(p) ELSE "fence.entries")

FenceEntries(p) ==
  At(p, "fence.entries") /\
  LET did == ExistEntry(p, EntriesOf(proc[p].reg.location))
  IN Does(p, did, IF did.result THEN Returned(p) ELSE "fence.location")

FenceLocation(p) ==
  At(p, "fence.location") /\
  LET did == QueryLocation(p, {LocationID("EQ", proc[p].reg.location)})
      row == TheRow(did.result)
  IN IF did.result = {} THEN Does(p, did, Returned(p))
     ELSE Keeps(p, did, IF row.deletionRequestedAt = Null THEN "fence.mark" ELSE "fence.leases",
                [row |-> row, now |-> clock])

FenceMark(p) ==
  At(p, "fence.mark") /\
  LET reg == proc[p].reg
      did == UpdateOneLocation(p, reg.location,
                               ChangeLocationDeletionRequestedAt("set", reg.now))
  IN Keeps(p, did, IF did.result THEN "fence.leases" ELSE "rollback",
           [row |-> [reg.row EXCEPT !.deletionRequestedAt = reg.now]])

FenceLeases(p) ==
  At(p, "fence.leases") /\
  Does(p, DeleteLease(p, DeadLeasesOf(proc[p].reg.location, proc[p].reg.now)), "fence.readers")

FenceReaders(p) ==
  At(p, "fence.readers") /\
  LET reg == proc[p].reg
      did == ExistLease(p, LiveLeasesOf(reg.location, reg.now))
      kept == \/ did.result \/ ActiveMaterialization(reg.row, reg.now)
              \/ reg.now < reg.row.deletionRequestedAt + Lasts
  IN Does(p, did, IF kept THEN Returned(p) ELSE "fence.enqueue")

FenceEnqueue(p) ==
  Inserts(p, "fence.enqueue", "deletion") /\
  LET did == CreateDeletion(p, DeletionValues(proc[p].reg.row.folderName, clock))
  IN Does(p, did, IF did.result THEN "fence.delete" ELSE "rollback")

FenceDelete(p) ==
  At(p, "fence.delete") /\
  LET did == DeleteOneLocation(p, proc[p].reg.location)
  IN Does(p, did, IF did.result # {} THEN Returned(p) ELSE "rollback")

FenceDetachedLocation(p) ==
  \/ FenceLock(p) \/ FenceEntries(p) \/ FenceLocation(p) \/ FenceMark(p)
  \/ FenceLeases(p) \/ FenceReaders(p) \/ FenceEnqueue(p) \/ FenceDelete(p)

----------------------------------------------------------------------------
(* The requests that end in the fence.                                       *)

Observed(l) == db[<<"location", l>>]
Exists(l) == Observed(l) # Absent

PurgeDanglingCacheEntry(p) == \E e \in Entry, l \in Location :
  /\ Exists(l)
  /\ Begin(p, [kind |-> "purge", entry |-> e], "purge", [location |-> l])
PurgeEntry(p) ==
  At(p, "purge") /\
  LET did == DeleteEntry(p, {EntryID("EQ", proc[p].job.entry)} \cup EntriesOf(proc[p].reg.location))
  IN Does(p, did, IF did.result # {} THEN "fence.lock" ELSE "commit")

\* A column that has the value of an earlier observation, which may be NULL.
Same(clause) == {IF q[3] = Null THEN <<q[1], "IsNil", Null>> ELSE q : q \in clause}
ObservedRepresentation(row) ==
  {Same(LocationMergeStartedAt("EQ", row.mergeStartedAt)),
   Same(LocationMergeLeaseToken("EQ", row.mergeLeaseToken)),
   Same(LocationMergeLeaseExpiresAt("EQ", row.mergeLeaseExpiresAt)),
   Same(LocationMergedAt("EQ", row.mergedAt)),
   Same(LocationMaterializationUnsupportedAt("EQ", row.materializationUnsupportedAt)),
   Same(LocationPartsDeletedAt("EQ", row.partsDeletedAt))}

PurgeDanglingCacheEntryIfUnchanged(p) == \E e \in Entry, l \in Location :
  /\ Exists(l) /\ ~ActiveMaterialization(Observed(l), clock)
  /\ Begin(p, [kind |-> "purgeIf", entry |-> e], "purgeIf",
           [location |-> l, row |-> Observed(l)])
PurgeIfClaim(p) ==
  At(p, "purgeIf") /\
  LET row == proc[p].reg.row
      did == UpdateLocation(p,
         Unfenced(row.id) \cup ObservedRepresentation(row)
           \cup {LocationFolderName("EQ", row.folderName), LocationPartCount("EQ", row.partCount),
                 LocationLeaseVersion("EQ", row.leaseVersion)},
         Bump)
  IN Does(p, did, IF did.result = {} THEN "commit" ELSE "purgeIf.entry")
PurgeIfEntry(p) ==
  At(p, "purgeIf.entry") /\
  LET did == DeleteEntry(p, {EntryID("EQ", proc[p].job.entry)} \cup EntriesOf(proc[p].reg.location))
  IN Does(p, did, IF did.result # {} THEN "fence.entries" ELSE "commit")

RequestLocationDeletion(p) == \E l \in Location, requireOrphan \in BOOLEAN :
  /\ Exists(l)
  /\ Begin(p, [kind |-> "request", orphan |-> requireOrphan],
           IF requireOrphan THEN "request.orphan" ELSE "request.detach", [location |-> l])
RequestOrphan(p) ==
  At(p, "request.orphan") /\
  LET did == ExistEntry(p, EntriesOf(proc[p].reg.location))
  IN Does(p, did, IF did.result THEN "commit" ELSE "fence.lock")
DetachCacheEntries(p) ==
  At(p, "request.detach") /\
  Does(p, DeleteEntry(p, EntriesOf(proc[p].reg.location)),
       IF proc[p].job.kind = "request" THEN "fence.lock" ELSE "fence.entries")

RequestCapacityEviction(p) == \E l \in Location :
  /\ Exists(l)
  /\ Begin(p, [kind |-> "evict", row |-> Observed(l)], "evict", [location |-> l])
EvictClaim(p) ==
  At(p, "evict") /\
  LET row == proc[p].job.row
      did == UpdateLocation(p,
         Unfenced(row.id) \cup {LocationLeaseVersion("EQ", row.leaseVersion),
                                LocationSizeBytes("NotNil", Null),
                                LocationRecencyAt("EQ", row.recencyAt),
                                Same(LocationLastDownloadedAt("EQ", row.lastDownloadedAt))},
         Bump)
  IN Does(p, did, IF did.result = {} THEN "commit" ELSE "evict.get")
EvictGet(p) ==
  At(p, "evict.get") /\
  LET did == QueryLocation(p, {LocationID("EQ", proc[p].reg.location)}) IN
  Keeps(p, did, IF did.result = {} THEN "rollback" ELSE "evict.readers", [now |-> clock])
EvictReaders(p) ==
  At(p, "evict.readers") /\
  LET did == ExistLease(p, LiveLeasesOf(proc[p].reg.location, proc[p].reg.now))
  IN Does(p, did, IF did.result THEN "commit" ELSE "request.detach")

RequestExpiredLocationDeletion(p) == \E l \in Location, cutoff \in 1..clock :
  /\ Exists(l)
  /\ Begin(p, [kind |-> "expire", cutoff |-> cutoff], "expire", [location |-> l])
ExpireLock(p) ==
  At(p, "expire") /\
  LET did == UpdateLocation(p, Unfenced(proc[p].reg.location), Bump)
  IN Does(p, did, IF did.result = {} THEN "commit" ELSE "expire.location")
ExpireLocation(p) ==
  At(p, "expire.location") /\
  LET did == QueryLocation(p, {LocationID("EQ", proc[p].reg.location)})
      used == TheRow(did.result).lastDownloadedAt
  IN Keeps(p, did, IF did.result = {} THEN "rollback"
                   ELSE IF used # Null /\ used >= proc[p].job.cutoff THEN "commit"
                   ELSE "expire.entries", [now |-> clock])
ExpireEntries(p) ==
  At(p, "expire.entries") /\
  LET did == ExistEntry(p, EntriesOf(proc[p].reg.location))
  IN Does(p, did, IF did.result THEN "expire.recent" ELSE "commit")
ExpireRecent(p) ==
  At(p, "expire.recent") /\
  LET did == ExistEntry(p, EntriesOf(proc[p].reg.location)
                      \cup {EntryUpdatedAt("GTE", proc[p].job.cutoff)})
  IN Does(p, did, IF did.result THEN "commit" ELSE "expire.readers")
ExpireReaders(p) ==
  At(p, "expire.readers") /\
  LET did == ExistLease(p, LiveLeasesOf(proc[p].reg.location, proc[p].reg.now))
  IN Does(p, did, IF did.result THEN "commit" ELSE "request.detach")

----------------------------------------------------------------------------
(* Merging: the materialization lease and the claim of the parts.            *)

PartsLeases == {LeaseScope("EQ", "parts")}

ClaimPartsDeletion(p) == \E l \in Location :
  Exists(l) /\ Begin(p, [kind |-> "claim"], "claim", [location |-> l])
ClaimLock(p) ==
  At(p, "claim") /\
  LET did == UpdateLocation(p,
         Unfenced(proc[p].reg.location) \cup {LocationMergedAt("NotNil", Null),
                                              LocationPartsDeletedAt("IsNil", Null)},
         Bump)
  IN Does(p, did, IF did.result = {} THEN "commit" ELSE "claim.location")
ClaimLocation(p) ==
  At(p, "claim.location") /\
  LET did == QueryLocation(p, {LocationID("EQ", proc[p].reg.location)}) IN
  IF did.result = {} THEN Does(p, did, "rollback")
  ELSE Keeps(p, did, "claim.leases", [row |-> TheRow(did.result), now |-> clock])
ClaimLeases(p) ==
  At(p, "claim.leases") /\
  Does(p, DeleteLease(p, PartsLeases \cup DeadLeasesOf(proc[p].reg.location, proc[p].reg.now)),
       "claim.readers")
ClaimReaders(p) ==
  At(p, "claim.readers") /\
  LET did == ExistLease(p, PartsLeases \cup LiveLeasesOf(proc[p].reg.location, proc[p].reg.now))
  IN Does(p, did, IF did.result THEN "commit" ELSE "claim.enqueue")
ClaimEnqueue(p) ==
  Inserts(p, "claim.enqueue", "deletion") /\
  LET did == CreateDeletion(p, DeletionValues(<<proc[p].reg.row.folderName[1], "parts">>, clock))
  IN Does(p, did, IF did.result THEN "claim.mark" ELSE "rollback")
ClaimMark(p) ==
  At(p, "claim.mark") /\
  LET did == UpdateOneLocation(p, proc[p].reg.location,
            ChangeLocationPartsDeletedAt("set", proc[p].reg.now))
  IN Does(p, did, IF did.result THEN "commit" ELSE "rollback")

AcquireMaterialization(p) == \E l \in Location :
  Exists(l) /\ Begin(p, [kind |-> "merge"], "merge", [location |-> l])
MergeLock(p) ==
  At(p, "merge") /\
  LET did == UpdateLocation(p, Unfenced(proc[p].reg.location), Bump)
  IN Does(p, did, IF did.result = {} THEN "rollback" ELSE "merge.location")
MergeLocation(p) ==
  At(p, "merge.location") /\
  LET did == QueryLocation(p, {LocationID("EQ", proc[p].reg.location)})
      refused == \A row \in did.result :
                   \/ row.partCount < 2 \/ row.mergedAt # Null
                   \/ row.materializationUnsupportedAt # Null \/ row.partsDeletedAt # Null
                   \/ ActiveMaterialization(row, clock)
  IN Keeps(p, did, IF refused THEN "rollback" ELSE "merge.lease", [now |-> clock])
MergeLease(p) ==
  At(p, "merge.lease") /\
  LET did == UpdateOneLocation(p, proc[p].reg.location,
            (ChangeLocationMergeStartedAt("set", proc[p].reg.now) ++
             ChangeLocationMergeLeaseToken("set", p) ++
             ChangeLocationMergeLeaseExpiresAt("set", proc[p].reg.now + Lasts)))
  IN Does(p, did, IF did.result THEN "commit" ELSE "rollback")

NoMergeLease == (ChangeLocationMergeLeaseToken("clear", Null) ++
                 ChangeLocationMergeLeaseExpiresAt("clear", Null))
NoMerge == NoMergeLease ++ ChangeLocationMergeStartedAt("clear", Null)
Ended(how, now) ==
  CASE how = "finish" -> NoMergeLease ++ ChangeLocationMergedAt("set", now)
    [] how = "unsupported" ->
         NoMerge ++ ChangeLocationMaterializationUnsupportedAt("set", now)
    [] how = "release" -> NoMerge
    [] how = "extend" -> ChangeLocationMergeLeaseExpiresAt("set", now + Lasts)

\* Finish, mark as unsupported, release and renew the lease of a merge by its token.
EndMaterialization(p) == \E l \in Location, how \in {"finish", "unsupported", "release", "extend"} :
  /\ Exists(l) /\ Observed(l).mergeLeaseToken # Null
  /\ Begin(p, [kind |-> "merged", how |-> how, token |-> Observed(l).mergeLeaseToken],
           "merged", [location |-> l])
MergeEnds(p) ==
  At(p, "merged") /\ LET job == proc[p].job IN
  Does(p, UpdateLocation(p,
         {LocationID("EQ", proc[p].reg.location), LocationMergeLeaseToken("EQ", job.token),
          LocationMergedAt("IsNil", Null)}
           \cup (IF job.how = "release" THEN {}
                 ELSE {LocationMergeLeaseExpiresAt("GT", clock)}),
         Ended(job.how, clock)), "commit")

----------------------------------------------------------------------------
(* Sizes, recency and the backfill of a server that starts.                  *)

TouchStorageLocationIfStale(p) == \E l \in Location :
  Exists(l) /\ Begin(p, [kind |-> "touch"], "touch", [location |-> l])
TouchUpdate(p) ==
  At(p, "touch") /\
  Does(p, UpdateLocation(p,
         {LocationID("EQ", proc[p].reg.location),
          Or(LocationLastDownloadedAt("IsNil", Null),
             LocationLastDownloadedAt("LT", clock - Lasts + 1))},
         (ChangeLocationLastDownloadedAt("set", clock) ++ ChangeLocationRecencyAt("set", clock))),
       "commit")

RecordSize(p) == \E l \in Location :
  Exists(l) /\ Begin(p, [kind |-> "size"], "size", [location |-> l])
SizeUpdate(p) ==
  At(p, "size") /\
  Does(p, UpdateLocation(p,
         Unfenced(proc[p].reg.location) \cup {LocationSizeBytes("IsNil", Null)},
         ChangeLocationSizeBytes("set", 1)), "commit")

\* The backfill also repairs what an older binary touched, which leaves recencyAt alone.
Backfill(p) == Begin(p, [kind |-> "backfill"], "backfill", <<>>)
Recency(store, r) ==
  LET used == store[r].lastDownloadedAt
      saved == {store[e].updatedAt : e \in Children(store, "entry", r)}
  IN IF used # Null THEN used
     ELSE IF saved = {} THEN 0 ELSE CHOOSE t \in saved : \A o \in saved : o <= t
Stale(row) == \/ row.recencyAt = 0
              \/ row.lastDownloadedAt # Null /\ row.recencyAt < row.lastDownloadedAt
BackfillUpdate(p) ==
  At(p, "backfill") /\
  LET stale == {id \in Location : Exists(id) /\ Stale(Current(p)[<<"location", id>>])} IN
  Does(p, UpdateEach(p, "location",
                     {LocationDeletionRequestedAt("IsNil", Null), LocationID("In", stale)},
                     [r \in {"location"} \X stale |->
                        ChangeLocationRecencyAt("set", Recency(Current(p), r))]), "commit")

----------------------------------------------------------------------------
(* Uploads: created, active, completed, abandoned; folders nobody owns.      *)

SameTuple(row) == {EntryKey("EQ", row.key), EntryVersion("EQ", row.version),
                   EntryScope("EQ", row.scope), EntryRepoId("EQ", row.repoId)}

CreateUploadRecord(p) == Begin(p, [kind |-> "upload"], "upload", <<>>)
UploadInsert(p) ==
  Inserts(p, "upload", "upload") /\
  LET id == FreeID("upload")
      did == CreateUpload(p, id, UploadValues(Tuple, Folder(id), clock))
  IN Does(p, did, IF did.result THEN "commit" ELSE "rollback")

SomeUpload(u) == db[<<"upload", u>>] # Absent

UploadObject(p) == \E u \in Upload :
  SomeUpload(u) /\ Begin(p, [kind |-> "part", upload |-> u], "part", <<>>)
PartUpdate(p) ==
  At(p, "part") /\
  LET did == UpdateOneUpload(p, proc[p].job.upload,
                             ChangeUploadLastPartUploadedAt("set", clock) ++
                             ChangeUploadFinishedPartUploadCount("add", 1) ++
                             ChangeUploadCommittedPartCount("set", 1))
  IN Does(p, did, IF did.result THEN "commit" ELSE "rollback")

Inactive(cutoff) ==
  {UploadCreatedAt("LT", cutoff),
   Or(UploadLastPartUploadedAt("IsNil", Null), UploadLastPartUploadedAt("LT", cutoff))}

\* deleteUpload, and DeleteIfInactive with a cutoff.
AbandonUpload(p) == \E u \in Upload, idle \in BOOLEAN :
  /\ SomeUpload(u)
  /\ Begin(p, [kind |-> "abandon", upload |-> u, idle |-> idle, cutoff |-> clock],
           "abandon", <<>>)
AbandonDelete(p) ==
  At(p, "abandon") /\
  LET job == proc[p].job
      did == DeleteUpload(p, {UploadID("EQ", job.upload)}
                               \cup (IF job.idle THEN Inactive(job.cutoff) ELSE {}))
  IN Does(p, did, IF did.result = {} THEN "rollback" ELSE "abandon.enqueue")
\* Fault: only the blocks are handed to the outbox, as after a completion.
AbandonBlocks(p) ==
  Inserts(p, "abandon.enqueue", "deletion") /\
  LET did == CreateDeletion(p, DeletionValues(<<proc[p].job.upload, "blocks">>, clock))
  IN Does(p, did, IF did.result THEN "commit" ELSE "rollback")
AbandonEnqueue(p) ==
  Inserts(p, "abandon.enqueue", "deletion") /\
  LET did == CreateDeletion(p, DeletionValues(Folder(proc[p].job.upload), clock))
  IN Does(p, did, IF did.result THEN "commit" ELSE "rollback")

CompleteUploadRecord(p) == \E u \in Upload :
  /\ SomeUpload(u)
  /\ Begin(p, [kind |-> "complete", upload |-> u], "complete",
           [upload |-> db[<<"upload", u>>], now |-> clock])
CompleteCreate(p) ==
  Inserts(p, "complete", "location") /\
  LET reg == proc[p].reg
      did == CreateLocation(p, LocationValues(reg.upload.folderName, 2, 1, reg.now))
  IN Keeps(p, did, IF did.result THEN "complete.entry" ELSE "rollback", [new |-> did.id])
CompleteEntry(p) ==
  At(p, "complete.entry") /\
  LET did == QueryEntry(p, SameTuple(proc[p].reg.upload)) IN
  CASE did.result = {} -> Does(p, did, "complete.insert")
    [] did.result # {} /\ did.result = {TheRow(did.result)} ->
         Keeps(p, did, "complete.update", [entry |-> TheRow(did.result)])
    [] OTHER -> Does(p, did, "rollback")
\* Fault: an entry that is gone is taken for an updated one.
CompleteUpdateAny(p) ==
  At(p, "complete.update") /\
  LET reg == proc[p].reg
      did == UpdateOneEntry(p, reg.entry.id, (ChangeEntryUpdatedAt("set", reg.now) ++
                                              ChangeEntryLocation("set", reg.new)))
  IN Keeps(p, did, "fence.lock", [location |-> reg.entry.locationId])
CompleteUpdate(p) ==
  At(p, "complete.update") /\
  LET reg == proc[p].reg
      did == UpdateOneEntry(p, reg.entry.id, (ChangeEntryUpdatedAt("set", reg.now) ++
                                              ChangeEntryLocation("set", reg.new)))
  IN Keeps(p, did, IF did.result THEN "fence.lock" ELSE "rollback",
           [location |-> reg.entry.locationId])
CompleteInsert(p) ==
  Inserts(p, "complete.insert", "entry") /\
  LET did == CreateEntry(p, EntryValues(proc[p].reg.upload, proc[p].reg.now, proc[p].reg.new))
  IN Does(p, did, IF did.result THEN "complete.blocks" ELSE "rollback")
CompleteBlocks(p) ==
  Inserts(p, "complete.blocks", "deletion") /\
  LET blocks == <<proc[p].reg.upload.folderName[1], "blocks">>
      did == CreateDeletion(p, DeletionValues(blocks, clock))
  IN Does(p, did, IF did.result THEN "complete.delete" ELSE "rollback")
\* Fault: an upload that another completion took is not noticed.
CompleteDeleteAny(p) ==
  At(p, "complete.delete") /\
  Does(p, DeleteOneUpload(p, proc[p].job.upload), "commit")
CompleteDelete(p) ==
  At(p, "complete.delete") /\
  LET did == DeleteOneUpload(p, proc[p].job.upload)
  IN Does(p, did, IF did.result # {} THEN "commit" ELSE "rollback")

\* A folder of the storage that no row owned when it was listed.
InFolder(exact, below) == {Or(exact, below)}
ClaimOrphanedStorageFolder(p) == \E u \in Upload :
  /\ <<"upload", u>> \in issued
  /\ Begin(p, [kind |-> "orphan", folder |-> u], "orphan", <<>>)
OrphanUploads(p) ==
  At(p, "orphan") /\
  LET folder == proc[p].job.folder
      did == ExistUpload(p, InFolder(UploadFolderName("EQ", Folder(folder)),
                                  UploadFolderName("HasPrefix", folder)))
  IN Does(p, did, IF did.result THEN "commit" ELSE "orphan.locations")
OrphanLocations(p) ==
  At(p, "orphan.locations") /\
  LET folder == proc[p].job.folder
      did == ExistLocation(p, InFolder(LocationFolderName("EQ", Folder(folder)),
                                    LocationFolderName("HasPrefix", folder)))
  IN Does(p, did, IF did.result THEN "commit" ELSE "orphan.deletions")
OrphanDeletions(p) ==
  At(p, "orphan.deletions") /\
  LET folder == proc[p].job.folder
      did == ExistDeletion(p, InFolder(DeletionFolderName("EQ", Folder(folder)),
                                    DeletionFolderName("HasPrefix", folder)))
  IN Does(p, did, IF did.result THEN "commit" ELSE "orphan.enqueue")
OrphanEnqueue(p) ==
  Inserts(p, "orphan.enqueue", "deletion") /\
  LET did == CreateDeletion(p, DeletionValues(Folder(proc[p].job.folder), clock))
  IN Does(p, did, IF did.result THEN "commit" ELSE "rollback")

\* Process: the folder of a task was deleted, or its deletion failed.
ProcessDeletion(p) == \E t \in Deletion, deleted \in BOOLEAN :
  /\ db[<<"deletion", t>>] # Absent
  /\ Begin(p, [kind |-> "process", task |-> t],
           IF deleted THEN "process.done" ELSE "process.failed", <<>>)
ProcessDone(p) ==
  At(p, "process.done") /\ Does(p, DeleteOneDeletion(p, proc[p].job.task), "commit")
ProcessFailed(p) ==
  At(p, "process.failed") /\
  Does(p, UpdateOneDeletion(p, proc[p].job.task,
            (ChangeDeletionAttemptCount("add", 1) ++ ChangeDeletionLastAttemptedAt("set", clock) ++
             ChangeDeletionLastError("set", "failed"))), "commit")

----------------------------------------------------------------------------

Requests(p) ==
  \/ AcquireReader(p) \/ RenewReader(p) \/ ReleaseReaders(p) \/ PurgeExpiredReaderLeases(p)
  \/ PurgeDanglingCacheEntry(p) \/ PurgeDanglingCacheEntryIfUnchanged(p)
  \/ RequestLocationDeletion(p) \/ RequestCapacityEviction(p)
  \/ RequestExpiredLocationDeletion(p) \/ ClaimPartsDeletion(p)
  \/ AcquireMaterialization(p) \/ EndMaterialization(p)
  \/ TouchStorageLocationIfStale(p) \/ RecordSize(p) \/ Backfill(p)
  \/ CreateUploadRecord(p) \/ UploadObject(p) \/ AbandonUpload(p)
  \/ CompleteUploadRecord(p) \/ ClaimOrphanedStorageFolder(p) \/ ProcessDeletion(p)

Readers(p) == \/ AcquireEntry(p) \/ AcquireLocation(p) \/ AcquireLock(p) \/ AcquireCreate(p)
              \/ RenewUpdate(p) \/ ReleaseDelete(p) \/ SweepDelete(p)
Removals(p) == \/ FenceDetachedLocation(p)
               \/ PurgeEntry(p) \/ PurgeIfClaim(p) \/ PurgeIfEntry(p)
               \/ RequestOrphan(p) \/ DetachCacheEntries(p)
               \/ EvictClaim(p) \/ EvictGet(p) \/ EvictReaders(p)
               \/ ExpireLock(p) \/ ExpireLocation(p) \/ ExpireEntries(p)
               \/ ExpireRecent(p) \/ ExpireReaders(p)
Merges(p) == \/ ClaimLock(p) \/ ClaimLocation(p) \/ ClaimLeases(p) \/ ClaimReaders(p)
             \/ ClaimEnqueue(p) \/ ClaimMark(p)
             \/ MergeLock(p) \/ MergeLocation(p) \/ MergeLease(p) \/ MergeEnds(p)
Records(p) == \/ TouchUpdate(p) \/ SizeUpdate(p) \/ BackfillUpdate(p)
              \/ UploadInsert(p) \/ PartUpdate(p) \/ AbandonDelete(p) \/ AbandonEnqueue(p)
              \/ ProcessDone(p) \/ ProcessFailed(p)
Completion(p) == \/ CompleteCreate(p) \/ CompleteEntry(p) \/ CompleteUpdate(p)
                 \/ CompleteInsert(p) \/ CompleteBlocks(p) \/ CompleteDelete(p)
Orphans(p) == \/ OrphanUploads(p) \/ OrphanLocations(p) \/ OrphanDeletions(p)
              \/ OrphanEnqueue(p)
Statement(p) == Readers(p) \/ Removals(p) \/ Merges(p) \/ Records(p) \/ Completion(p) \/ Orphans(p)
Ends(p) == Commit(p) \/ Rollback(p) \/ BreakDeadlock(p)

Done == /\ jobs = MaxJobs /\ \A p \in Process : ~Active(p)
        /\ UNCHANGED vars

Next == \/ Tick \/ Done
        \/ \E p \in Process : Requests(p) \/ Statement(p) \/ Ends(p) \/ Fail(p)

----------------------------------------------------------------------------
(* Properties.                                                               *)

Live(store, d) == store[d] # Absent /\ store[d].expiresAt > clock
PartsReaders(store, l) ==
  {d \in RowsOf("lease") : /\ Live(store, d) /\ store[d].scope = "parts"
                           /\ store[d].storageLocationId = l}

\* What is committed is consistent whatever the transactions interleave: keys and
\* foreign keys hold, a tuple has one entry, an entry never leads to a fenced
\* location, the parts of a location are claimed only when no reader of parts lives,
\* no folder in the outbox belongs to an upload or a location, and the recency is
\* never older than the last download.  (Under MySQL parts may be claimed beside a
\* reader: the claim looks for readers in its snapshot, where a lease has expired that
\* was renewed in time by a statement that commits after the snapshot was taken.)
RowsInv ==
  /\ Consistent(db)
  /\ \A e \in RowsOf("entry") : db[e] # Absent =>
       /\ db[<<"location", db[e].locationId>>].deletionRequestedAt = Null
       /\ Matching(db, "entry", SameTuple(db[e])) = {e}
  /\ \A l \in Location : (engine # "mysql" /\ Exists(l) /\ Observed(l).partsDeletedAt # Null)
                            => PartsReaders(db, l) = {}
  /\ \A l \in Location : (Exists(l) /\ Observed(l).lastDownloadedAt # Null)
                            => Observed(l).recencyAt >= Observed(l).lastDownloadedAt
  /\ \A t \in RowsOf("deletion") : db[t] # Absent /\ db[t].folderName[2] = "" =>
       \A r \in RowsOf("upload") \cup RowsOf("location") :
         db[r] # Absent => db[r].folderName # db[t].folderName

\* A folder that a row owns is still owned by a row, or waits in the outbox, after
\* every commit: no transaction that interleaves or fails forgets a folder.
FoldersKept == [][Owned(db) \subseteq Owned(db') \cup Queued(db')]_vars

\* What an eviction, an expiry and a claim of parts have looked at stays true until they
\* commit: while one of them holds the row of a location, no reader of its parts is
\* admitted unless those parts will never be merged, and an eviction fences a location
\* only with the recency that made it the candidate.
Mergeable(row) == row.partCount >= 2 /\ row.materializationUnsupportedAt = Null
Admits(p, l) ==
  \E d \in RowsOf("lease") \cap DOMAIN proc[p].writes :
    /\ db[d] = Absent /\ proc[p].writes[d] # Absent
    /\ proc[p].writes[d].scope = "parts" /\ proc[p].writes[d].storageLocationId = l
Removes(p, l) == /\ Active(p) /\ proc[p].job.kind \in {"evict", "expire", "claim"}
                 /\ <<"location", l>> \in DOMAIN proc[p].writes
Fences(l) == Exists(l) /\ Observed(l).deletionRequestedAt = Null
               /\ db'[<<"location", l>>] # Absent
               /\ db'[<<"location", l>>].deletionRequestedAt # Null
LooksOnce ==
  [][\A p \in Process, l \in Location : Commit(p) =>
       /\ (Admits(p, l) /\ Mergeable(Observed(l))) => \A q \in Process : ~Removes(q, l)
       /\ (proc[p].job.kind = "evict" /\ Fences(l))
            => Observed(l).recencyAt = proc[p].job.row.recencyAt]_vars

\* Under SQLite and PostgreSQL a completion that succeeds leaves an entry that leads to
\* its location: it never reports an archive as saved that no lookup finds.  (Under MySQL
\* it may: the update of an entry that was purged meanwhile changes no row, but the row
\* is read back from the snapshot and taken for updated.)
CompletionServed ==
  [][\A p \in Process :
       (engine # "mysql" /\ Commit(p) /\ proc[p].job.kind = "complete") =>
       \E e \in RowsOf("entry") : db'[e] # Absent /\ db'[e].locationId = proc[p].reg.new]_vars
=============================================================================
