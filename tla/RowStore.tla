------------------------------ MODULE RowStore ------------------------------
(***************************************************************************)
(* The rows of the server's database as the generated entity code (ent)   *)
(* sees them: five tables, their columns, the predicates a WHERE clause    *)
(* is built from, the changes a mutation collects, and what a statement    *)
(* does with both.  A WHERE clause is a set of clauses that must all hold, *)
(* a clause a set of alternatives; a mutation maps columns to changes, one *)
(* of each column, as everywhere in this program.                          *)
(***************************************************************************)
EXTENDS Integers

CONSTANTS Entry,      \* ids of cache_entries
          Location,   \* ids of storage_locations
          Lease,      \* ids of storage_reader_leases
          Deletion,   \* ids of storage_deletions, the outbox
          Upload,     \* ids of uploads
          Null        \* the NULL of a column

ASSUME NullAssumption ==
  Null \notin Nat \cup Entry \cup Location \cup Lease \cup Deletion \cup Upload

\* No row: a record that no table has.
Absent == [columns |-> {}]

\* What a map becomes when parts of it are written.
written ++ map ==
  [x \in DOMAIN written \cup DOMAIN map |->
     IF x \in DOMAIN written THEN written[x] ELSE map[x]]

Ids == [entry |-> Entry, location |-> Location, lease |-> Lease,
        deletion |-> Deletion, upload |-> Upload]
Tables == DOMAIN Ids
RowsOf(table) == {table} \X Ids[table]
Rows == UNION {RowsOf(t) : t \in Tables}

----------------------------------------------------------------------------
(* A row as an insert leaves it: the columns the builder sets, the defaults  *)
(* of the others; the columns a builder must set are Null in "required".     *)

NewEntry == [id |-> Null, key |-> Null, version |-> Null, scope |-> Null, repoId |-> Null,
             updatedAt |-> Null, locationId |-> Null]
NewLocation == [id |-> Null, folderName |-> Null, partCount |-> Null, sizeBytes |-> Null,
                leaseVersion |-> 0, deletionRequestedAt |-> Null, mergeStartedAt |-> Null,
                mergeLeaseToken |-> Null, mergeLeaseExpiresAt |-> Null, mergedAt |-> Null,
                materializationUnsupportedAt |-> Null, partsDeletedAt |-> Null,
                lastDownloadedAt |-> Null, recencyAt |-> 0]
NewLease == [id |-> Null, storageLocationId |-> Null, scope |-> Null, expiresAt |-> Null]
NewDeletion == [id |-> Null, folderName |-> Null, createdAt |-> Null, attemptCount |-> 0,
                lastAttemptedAt |-> Null, lastError |-> Null]
NewUpload == [id |-> Null, key |-> Null, version |-> Null, scope |-> Null, repoId |-> Null,
              createdAt |-> Null, lastPartUploadedAt |-> Null, startedPartUploadCount |-> 0,
              finishedPartUploadCount |-> 0, folderName |-> Null, committedPartCount |-> Null,
              tupleHash |-> Null]
New == [entry |-> NewEntry, location |-> NewLocation, lease |-> NewLease,
        deletion |-> NewDeletion, upload |-> NewUpload]

EntryRequired == DOMAIN NewEntry
LocationRequired == {"id", "folderName", "partCount", "leaseVersion", "recencyAt"}
LeaseRequired == DOMAIN NewLease
DeletionRequired == {"id", "folderName", "createdAt", "attemptCount"}
UploadRequired == DOMAIN NewUpload \ {"lastPartUploadedAt", "committedPartCount", "tupleHash"}
Required == [entry |-> EntryRequired, location |-> LocationRequired, lease |-> LeaseRequired,
             deletion |-> DeletionRequired, upload |-> UploadRequired]

----------------------------------------------------------------------------
(* Predicates, one operator per column, and their meaning.                   *)

Where(column, op, value) == {<<column, op, value>>}
Or(a, b) == a \cup b

EntryID(op, v) == Where("id", op, v)
EntryKey(op, v) == Where("key", op, v)
EntryVersion(op, v) == Where("version", op, v)
EntryScope(op, v) == Where("scope", op, v)
EntryRepoId(op, v) == Where("repoId", op, v)
EntryUpdatedAt(op, v) == Where("updatedAt", op, v)
EntryLocationId(op, v) == Where("locationId", op, v)

LocationID(op, v) == Where("id", op, v)
LocationFolderName(op, v) == Where("folderName", op, v)
LocationPartCount(op, v) == Where("partCount", op, v)
LocationSizeBytes(op, v) == Where("sizeBytes", op, v)
LocationLeaseVersion(op, v) == Where("leaseVersion", op, v)
LocationDeletionRequestedAt(op, v) == Where("deletionRequestedAt", op, v)
LocationMergeStartedAt(op, v) == Where("mergeStartedAt", op, v)
LocationMergeLeaseToken(op, v) == Where("mergeLeaseToken", op, v)
LocationMergeLeaseExpiresAt(op, v) == Where("mergeLeaseExpiresAt", op, v)
LocationMergedAt(op, v) == Where("mergedAt", op, v)
LocationMaterializationUnsupportedAt(op, v) == Where("materializationUnsupportedAt", op, v)
LocationPartsDeletedAt(op, v) == Where("partsDeletedAt", op, v)
LocationLastDownloadedAt(op, v) == Where("lastDownloadedAt", op, v)
LocationRecencyAt(op, v) == Where("recencyAt", op, v)

LeaseID(op, v) == Where("id", op, v)
LeaseStorageLocationId(op, v) == Where("storageLocationId", op, v)
LeaseScope(op, v) == Where("scope", op, v)
LeaseExpiresAt(op, v) == Where("expiresAt", op, v)

DeletionID(op, v) == Where("id", op, v)
DeletionFolderName(op, v) == Where("folderName", op, v)

UploadID(op, v) == Where("id", op, v)
UploadCreatedAt(op, v) == Where("createdAt", op, v)
UploadLastPartUploadedAt(op, v) == Where("lastPartUploadedAt", op, v)
UploadFolderName(op, v) == Where("folderName", op, v)

\* A folder is a pair: its root and the part of it that is meant ("" is all of it).
HasPrefix(folder, root) == folder[1] = root /\ folder[2] # ""

\* A comparison with NULL never holds.
Holds(q, row) ==
  LET x == row[q[1]]
      op == q[2]
      v == q[3]
  IN IF x = Null THEN op = "IsNil"
     ELSE CASE op = "IsNil" -> FALSE
            [] op = "NotNil" -> TRUE
            [] op = "EQ" -> x = v
            [] op = "NEQ" -> x # v
            [] op = "In" -> x \in v
            [] op = "GT" -> x > v
            [] op = "GTE" -> x >= v
            [] op = "LT" -> x < v
            [] op = "LTE" -> x <= v
            [] OTHER -> HasPrefix(x, v)

Matching(store, table, where) ==
  {r \in RowsOf(table) :
     /\ store[r] # Absent
     /\ \A clause \in where : \E q \in clause : Holds(q, store[r])}

----------------------------------------------------------------------------
(* Changes, one operator per column: how is "set", "add" or "clear".         *)

Change(how, value) == [how |-> how, value |-> value]

ChangeEntryKey(how, v) == [key |-> Change(how, v)]
ChangeEntryVersion(how, v) == [version |-> Change(how, v)]
ChangeEntryScope(how, v) == [scope |-> Change(how, v)]
ChangeEntryRepoId(how, v) == [repoId |-> Change(how, v)]
ChangeEntryUpdatedAt(how, v) == [updatedAt |-> Change(how, v)]
ChangeEntryLocation(how, v) == [locationId |-> Change(how, v)]

ChangeLocationFolderName(how, v) == [folderName |-> Change(how, v)]
ChangeLocationPartCount(how, v) == [partCount |-> Change(how, v)]
ChangeLocationSizeBytes(how, v) == [sizeBytes |-> Change(how, v)]
ChangeLocationLeaseVersion(how, v) == [leaseVersion |-> Change(how, v)]
ChangeLocationDeletionRequestedAt(how, v) == [deletionRequestedAt |-> Change(how, v)]
ChangeLocationMergeStartedAt(how, v) == [mergeStartedAt |-> Change(how, v)]
ChangeLocationMergeLeaseToken(how, v) == [mergeLeaseToken |-> Change(how, v)]
ChangeLocationMergeLeaseExpiresAt(how, v) == [mergeLeaseExpiresAt |-> Change(how, v)]
ChangeLocationMergedAt(how, v) == [mergedAt |-> Change(how, v)]
ChangeLocationMaterializationUnsupportedAt(how, v) ==
  [materializationUnsupportedAt |-> Change(how, v)]
ChangeLocationPartsDeletedAt(how, v) == [partsDeletedAt |-> Change(how, v)]
ChangeLocationLastDownloadedAt(how, v) == [lastDownloadedAt |-> Change(how, v)]
ChangeLocationRecencyAt(how, v) == [recencyAt |-> Change(how, v)]

ChangeLeaseStorageLocationId(how, v) == [storageLocationId |-> Change(how, v)]
ChangeLeaseScope(how, v) == [scope |-> Change(how, v)]
ChangeLeaseExpiresAt(how, v) == [expiresAt |-> Change(how, v)]

ChangeDeletionFolderName(how, v) == [folderName |-> Change(how, v)]
ChangeDeletionCreatedAt(how, v) == [createdAt |-> Change(how, v)]
ChangeDeletionAttemptCount(how, v) == [attemptCount |-> Change(how, v)]
ChangeDeletionLastAttemptedAt(how, v) == [lastAttemptedAt |-> Change(how, v)]
ChangeDeletionLastError(how, v) == [lastError |-> Change(how, v)]

ChangeUploadKey(how, v) == [key |-> Change(how, v)]
ChangeUploadVersion(how, v) == [version |-> Change(how, v)]
ChangeUploadScope(how, v) == [scope |-> Change(how, v)]
ChangeUploadRepoId(how, v) == [repoId |-> Change(how, v)]
ChangeUploadCreatedAt(how, v) == [createdAt |-> Change(how, v)]
ChangeUploadLastPartUploadedAt(how, v) == [lastPartUploadedAt |-> Change(how, v)]
ChangeUploadFinishedPartUploadCount(how, v) == [finishedPartUploadCount |-> Change(how, v)]
ChangeUploadFolderName(how, v) == [folderName |-> Change(how, v)]
ChangeUploadCommittedPartCount(how, v) == [committedPartCount |-> Change(how, v)]
ChangeUploadTupleHash(how, v) == [tupleHash |-> Change(how, v)]

Changed(row, changes) ==
  [column \in DOMAIN row |->
     IF column \notin DOMAIN changes THEN row[column]
     ELSE LET x == row[column]
              c == changes[column]
          IN CASE c.how = "set" -> c.value
               [] c.how = "add" -> c.value + (IF x = Null THEN 0 ELSE x)
               [] OTHER -> Null]

\* The row an insert of a table makes, and whether its builder accepts it.
Inserted(table, id, changes) == [Changed(New[table], changes) EXCEPT !.id = id]
Valid(table, row) == \A column \in Required[table] : row[column] # Null

----------------------------------------------------------------------------
(* The schema: foreign keys to storage_locations and the unique index.       *)

Parent(r, row) == CASE r[1] = "entry" -> {<<"location", row.locationId>>}
                    [] r[1] = "lease" -> {<<"location", row.storageLocationId>>}
                    [] OTHER -> {}
Children(store, table, r) ==
  {c \in RowsOf(table) : store[c] # Absent /\ r \in Parent(c, store[c])}
Cascade(store, rows) == UNION {Children(store, "entry", r) : r \in rows}
Restricted(store, rows) == \E r \in rows : Children(store, "lease", r) # {}
Duplicates(store, r, row) ==
  IF r[1] = "upload" /\ row.tupleHash # Null
  THEN {d \in RowsOf("upload") \ {r} : store[d] # Absent /\ store[d].tupleHash = row.tupleHash}
  ELSE {}
Consistent(store) ==
  \A r \in Rows : store[r] # Absent =>
    /\ Valid(r[1], store[r])
    /\ \A parent \in Parent(r, store[r]) : store[parent] # Absent
    /\ Duplicates(store, r, store[r]) = {}
=============================================================================
