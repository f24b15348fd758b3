----------------------------- MODULE RowContents -----------------------------
(***************************************************************************)
(* What the tables hold between transactions: the contents that servers    *)
(* may find when they start, and that no transaction spoils.               *)
(***************************************************************************)
EXTENDS RowTransactions

\* Folders have a root of their own, drawn with the id of an upload; those of uploads
\* and locations are whole, the outbox also has parts of them.
Part == {"", "blocks", "parts"}
Whole == Upload \X {""}
Folders == Upload \X Part
UploadOf(folder) == <<"upload", folder[1]>>
KeyOf(row) == <<row.key, row.version, row.scope, row.repoId>>

EntryOK(row) ==
  /\ DOMAIN row = DOMAIN NewEntry
  /\ row.id \in Entry /\ row.locationId \in Location /\ row.updatedAt \in Nat
  /\ row.key # Null /\ row.version # Null /\ row.scope # Null /\ row.repoId # Null
\* Only what can be merged has a merge lease or was merged, and only merged parts are
\* claimed; a location without a size or without downloads is fine.
LocationOK(row) ==
  /\ DOMAIN row = DOMAIN NewLocation
  /\ row.id \in Location /\ row.partCount \in Nat /\ row.leaseVersion \in Nat
  /\ row.folderName \in Whole
  /\ row.recencyAt \in Nat
  /\ row.lastDownloadedAt # Null =>
       row.lastDownloadedAt \in Nat /\ row.recencyAt >= row.lastDownloadedAt
  /\ row.mergeLeaseToken # Null => Mergeable(row) /\ row.mergedAt = Null
  /\ row.mergedAt # Null => Mergeable(row)
  /\ row.partsDeletedAt # Null => row.mergedAt # Null
LeaseOK(row) ==
  /\ DOMAIN row = DOMAIN NewLease
  /\ row.id \in Lease /\ row.storageLocationId \in Location
  /\ row.scope # Null /\ row.expiresAt \in Nat
DeletionOK(row) ==
  /\ DOMAIN row = DOMAIN NewDeletion
  /\ row.id \in Deletion /\ row.createdAt # Null /\ row.attemptCount \in Nat
  /\ row.folderName \in Folders
UploadOK(row) ==
  /\ DOMAIN row = DOMAIN NewUpload
  /\ row.id \in Upload /\ row.folderName = Folder(row.id)
  /\ row.key # Null /\ row.version # Null /\ row.scope # Null /\ row.repoId # Null
  /\ row.createdAt # Null /\ row.startedPartUploadCount # Null
  /\ row.finishedPartUploadCount \in Nat
  /\ row.tupleHash = [key |-> row.key, version |-> row.version,
                      scope |-> row.scope, repoId |-> row.repoId]
RowOK(r, row) ==
  /\ row.id = r[2]
  /\ r[1] = "entry" => EntryOK(row)
  /\ r[1] = "location" => LocationOK(row)
  /\ r[1] = "lease" => LeaseOK(row)
  /\ r[1] = "deletion" => DeletionOK(row)
  /\ r[1] = "upload" => UploadOK(row)

----------------------------------------------------------------------------
(* Between rows.                                                             *)

Owners == RowsOf("upload") \cup RowsOf("location")
LocationOf(row) == <<"location", row.locationId>>
LeasedBy(row) == <<"location", row.storageLocationId>>
PartsLease(store, d, l) ==
  store[d] # Absent /\ store[d].scope = "parts" /\ LeasedBy(store[d]) = l

Typed(store) == /\ DOMAIN store = Rows
                /\ \A r \in Rows : store[r] # Absent => RowOK(r, store[r])
\* An entry leads to a location that is not fenced, a lease to a location.
Linked(store) ==
  \A e \in RowsOf("entry") : store[e] # Absent =>
    /\ store[LocationOf(store[e])] # Absent
    /\ store[LocationOf(store[e])].deletionRequestedAt = Null
Leased(store) ==
  \A d \in RowsOf("lease") : store[d] # Absent => store[LeasedBy(store[d])] # Absent
\* A tuple has one entry and one upload, a location one entry.
OneEntry(store) ==
  \A e, f \in RowsOf("entry") : store[e] # Absent /\ store[f] # Absent /\ e # f =>
    /\ KeyOf(store[e]) # KeyOf(store[f])
    /\ store[e].locationId # store[f].locationId
OneUpload(store) ==
  \A u, v \in RowsOf("upload") : store[u] # Absent /\ store[v] # Absent /\ u # v =>
    KeyOf(store[u]) # KeyOf(store[v])
\* A folder has one owner (but for two rows of a pair), and none in the outbox (but
\* for the spared).
OneOwner(store, pair) ==
  \A r, x \in Owners :
    store[r] # Absent /\ store[x] # Absent /\ r # x /\ ~({r, x} \subseteq pair)
      => store[r].folderName # store[x].folderName
QueueFree(store, spared) ==
  \A t \in RowsOf("deletion"), r \in Owners \ spared :
    store[t] # Absent /\ store[r] # Absent /\ store[t].folderName[2] = ""
      => store[t].folderName # store[r].folderName
\* Claimed parts have no reader.
Unread(store, l) == \A d \in RowsOf("lease") : ~PartsLease(store, d, l)
Claimed(store) ==
  \A l \in RowsOf("location") :
    store[l] # Absent /\ store[l].partsDeletedAt # Null => Unread(store, l)

Timely(store, now) ==
  \A d \in RowsOf("lease") : store[d] # Absent => store[d].expiresAt <= now + Lasts
Known(store, rows) ==
  \A r \in Rows : store[r] # Absent =>
    /\ r \in rows
    /\ r \in Owners \cup RowsOf("deletion") => UploadOf(store[r].folderName) \in rows

\* Uploads of an older release, which have no hash of their tuple, have ended.
ASSUME StoresAssumption ==
  \A store \in Stores :
    /\ Typed(store) /\ Linked(store) /\ Leased(store) /\ OneEntry(store) /\ OneUpload(store)
    /\ OneOwner(store, {}) /\ QueueFree(store, {}) /\ Claimed(store)
    /\ Timely(store, 1) /\ Known(store, Issued(store))
ASSUME BoundsAssumption == MaxJobs \in Nat /\ Lasts \in Nat /\ MaxClock \in Nat
ASSUME TextAssumption ==
  /\ Null \notin {"parts", "storage", "failed", "key", "version", "scope", "repo"}
  /\ Null # Tuple /\ Null \notin Folders
=============================================================================
