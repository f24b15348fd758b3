----------------------------- MODULE MCDatabase -----------------------------
(* A small instance of Database.                                             *)
EXTENDS Database, TLC

Empty == [r \in Rows |-> Absent]
Location1 == [NewLocation EXCEPT !.id = "l1", !.folderName = Folder("u1"), !.partCount = 2,
                                 !.sizeBytes = 1, !.recencyAt = 1]
Merged1 == [Location1 EXCEPT !.mergedAt = 1]
Others1 ==
  {[Location1 EXCEPT !.mergeStartedAt = 1, !.mergeLeaseToken = 0, !.mergeLeaseExpiresAt = 2],
   [Location1 EXCEPT !.partCount = 1, !.sizeBytes = Null, !.recencyAt = 0]}
Entry1 == [NewEntry EXCEPT !.id = "e1", !.key = Tuple.key, !.version = Tuple.version,
                           !.scope = Tuple.scope, !.repoId = Tuple.repoId, !.updatedAt = 0,
                           !.locationId = "l1"]
Upload1(u) == [NewUpload EXCEPT !.id = u, !.key = Tuple.key, !.version = Tuple.version,
                                !.scope = Tuple.scope, !.repoId = Tuple.repoId, !.createdAt = 0,
                                !.folderName = Folder(u), !.tupleHash = Tuple]
Lease1 == [NewLease EXCEPT !.id = "d1", !.storageLocationId = "l1", !.scope = "parts",
                           !.expiresAt = 2]

Saved(row) == (<<"location", "l1">> :> row) @@ (<<"entry", "e1">> :> Entry1) @@ Empty
MCStores ==
  {(<<"upload", "u1">> :> Upload1("u1")) @@ Empty}
  \cup {(<<"upload", "u2">> :> Upload1("u2")) @@ Saved(row) : row \in {Location1, Merged1}}
  \cup {Saved(row) : row \in Others1}
  \cup {(<<"lease", "d1">> :> Lease1) @@ Saved(row) : row \in {Location1, Merged1}}
  \cup {(<<"location", "l1">> :> [Location1 EXCEPT !.deletionRequestedAt = 0]) @@ Empty}
MCKinds == {"acquire", "renew", "release", "sweep", "purge", "purgeIf", "request", "evict",
            "expire", "claim", "merge", "merged", "touch", "size", "backfill", "upload", "part",
            "abandon", "complete", "orphan", "process"}
=============================================================================
