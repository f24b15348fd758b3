-------------------------- MODULE StorageLifecycle --------------------------
(***************************************************************************)
(* The storage lifecycle of the cache server                               *)
(* (internal/storagelifecycle/service.go), with the parts of the cache     *)
(* service that drive it: downloads holding reader leases, presigned       *)
(* direct downloads, background materialization, the probe that purges     *)
(* dangling entries, and the outbox that deletes folders.                  *)
(*                                                                         *)
(* A location is one StorageLocation row together with the storage folder  *)
(* of the same name: folder/parts/i (partObjects) and folder/merged        *)
(* (mergedObjects).  Folder names are never reused, so neither are         *)
(* locations.                                                              *)
(*                                                                         *)
(* Time.  Every deadline is kept as the time left until it: expiresAt      *)
(* becomes "left" = max(expiresAt - now, 0), and Tick lowers all of them   *)
(* together.  The code only ever compares a deadline with now, so nothing  *)
(* else about the clock matters and no bound on time is needed.  One clock *)
(* serves all replicas.                                                    *)
(*                                                                         *)
(* Transactions.  Every transaction that writes a location row takes its   *)
(* row lock first (the leaseVersion update) and is one atomic step, with   *)
(* two exceptions where the code runs unlocked or the database decides     *)
(* late: a reader lease is inserted from an earlier unlocked read          *)
(* (AcquireRead, then InsertLease), and the deletion of a row is decided   *)
(* before the foreign key of the reader leases is checked (BeginFinalize,  *)
(* then CommitFinalize or AbortFinalize).                                  *)
(***************************************************************************)
EXTENDS Naturals

CONSTANTS
  Location,     \* storage locations, each with a folder of its own
  MultiPart,    \* the locations finalized with partCount >= 2
  Entry,        \* cache entry identities (one per key, version, scope, repo)
  Reader,       \* downloads, each owning at most one reader lease
  Composer,     \* background materializations; also their lease tokens
  Prober,       \* cache lookups that validate a representation
  Worker,       \* outbox deletion workers
  None,
  ReaderLeaseDuration,
  DirectDownloadLeaseDuration,
  DirectDownloadTTL,
  DeletionGracePeriod,
  MaterializationLeaseDuration

(* durationOrDefault replaces every duration that is not positive, and a   *)
(* presigned URL lives no longer than the lease taken for it.              *)
ASSUME DurationAssumption ==
  /\ ReaderLeaseDuration \in Nat \ {0}
  /\ DirectDownloadLeaseDuration \in Nat \ {0}
  /\ DirectDownloadTTL \in Nat \ {0}
  /\ DeletionGracePeriod \in Nat \ {0}
  /\ MaterializationLeaseDuration \in Nat \ {0}
  /\ DirectDownloadTTL <= DirectDownloadLeaseDuration

ASSUME SetAssumption ==
  /\ MultiPart \subseteq Location
  /\ None \notin Location \cup Entry \cup Composer

VARIABLES
  \* database
  entry,          \* cache entry -> the location it references, or None
  rows,           \* locations that have a row
  used,           \* locations ever created
  fenced,         \* rows with deletionRequestedAt set
  graceLeft,      \* time left of the deletion grace
  holder,         \* mergeLeaseToken
  mergeLeft,      \* time left of the materialization lease
  merged,         \* rows with mergedAt set
  unsupported,    \* rows with materializationUnsupportedAt set
  partsDeleted,   \* rows with partsDeletedAt set
  lease,          \* the StorageReaderLease row of each reader
  tasks,          \* StorageDeletion outbox
  finalizing,     \* rows a transaction has locked to delete them
  \* object storage
  partObjects,    \* folders whose part objects exist
  mergedObjects,  \* folders whose merged object exists
  lost,           \* folders from which an object vanished outside the server
  \* processes
  reader, composer, prober, worker

dbVars     == <<entry, rows, used, fenced, graceLeft, holder, mergeLeft,
                merged, unsupported, partsDeleted, lease, tasks, finalizing>>
objectVars == <<partObjects, mergedObjects, lost>>
procVars   == <<reader, composer, prober, worker>>
vars       == <<dbVars, objectVars, procVars>>

Scope == {"parts", "storage"}
Task  == Location \X {"folder", "parts"}

Lease == [loc: Location \cup {None}, scope: Scope, left: Nat]
NoLease == [loc |-> None, scope |-> "parts", left |-> 0]

(* A download in progress: the snapshot it read, whether it must lock the  *)
(* row, and the life left of the URL it signed.                            *)
ReaderState ==
  [pc: {"idle", "read", "streaming", "direct", "signed", "url", "closing",
        "dead"},
   loc: Location \cup {None}, scope: Scope, direct: BOOLEAN, locks: BOOLEAN,
   urlLeft: Nat]
ComposerState ==
  [pc: {"idle", "composing", "cancelled", "composed", "refused", "failed"},
   loc: Location \cup {None}]
(* A lookup: the row as observed, and whether its version has moved since. *)
ProberState ==
  [pc: {"idle", "observed", "missing"}, entry: Entry \cup {None},
   loc: Location \cup {None}, holder: Composer \cup {None}, merged: BOOLEAN,
   unsupported: BOOLEAN, partsDeleted: BOOLEAN, moved: BOOLEAN]
WorkerState ==
  [pc: {"idle", "read", "deleted"}, loc: Location \cup {None},
   part: {"folder", "parts"}]

IdleReader   == [pc |-> "idle", loc |-> None, scope |-> "parts",
                 direct |-> FALSE, locks |-> FALSE, urlLeft |-> 0]
IdleComposer == [pc |-> "idle", loc |-> None]
IdleProber   == [pc |-> "idle", entry |-> None, loc |-> None,
                 holder |-> None, merged |-> FALSE, unsupported |-> FALSE,
                 partsDeleted |-> FALSE, moved |-> FALSE]
IdleWorker   == [pc |-> "idle", loc |-> None, part |-> "folder"]

-----------------------------------------------------------------------------
(* Type invariant. *)

TypeOK ==
  /\ entry \in [Entry -> Location \cup {None}]
  /\ rows \subseteq Location
  /\ used \subseteq Location
  /\ fenced \subseteq Location
  /\ graceLeft \in [Location -> Nat]
  /\ holder \in [Location -> Composer \cup {None}]
  /\ mergeLeft \in [Location -> Nat]
  /\ merged \subseteq Location
  /\ unsupported \subseteq Location
  /\ partsDeleted \subseteq Location
  /\ lease \in [Reader -> Lease]
  /\ tasks \subseteq Task
  /\ finalizing \subseteq Location
  /\ partObjects \subseteq Location
  /\ mergedObjects \subseteq Location
  /\ lost \subseteq Location
  /\ reader \in [Reader -> ReaderState]
  /\ composer \in [Composer -> ComposerState]
  /\ prober \in [Prober -> ProberState]
  /\ worker \in [Worker -> WorkerState]

Init ==
  /\ entry = [e \in Entry |-> None]
  /\ rows = {} /\ used = {} /\ fenced = {}
  /\ graceLeft = [l \in Location |-> 0]
  /\ holder = [l \in Location |-> None]
  /\ mergeLeft = [l \in Location |-> 0]
  /\ merged = {} /\ unsupported = {} /\ partsDeleted = {}
  /\ lease = [r \in Reader |-> NoLease]
  /\ tasks = {} /\ finalizing = {}
  /\ partObjects = {} /\ mergedObjects = {} /\ lost = {}
  /\ reader = [r \in Reader |-> IdleReader]
  /\ composer = [c \in Composer |-> IdleComposer]
  /\ prober = [o \in Prober |-> IdleProber]
  /\ worker = [w \in Worker |-> IdleWorker]

-----------------------------------------------------------------------------
(* What transactions read. *)

Attached(l) == \E e \in Entry : entry[e] = l
HasActiveReader(l) == \E r \in Reader : lease[r].loc = l /\ lease[r].left > 0

(* activeMaterialization.  The legacy clause (a merge started by a version *)
(* without lease tokens) needs rows this code never writes.                *)
ActiveMaterialization(l) == holder[l] # None /\ mergeLeft[l] > 0

(* Writable by a transaction that must first take the row lock. *)
Lockable(l) == l \in rows /\ l \notin finalizing

(* AddLeaseVersion(1).  The version is only ever compared with the copy in *)
(* an earlier observation, so it is kept as "has it moved since".          *)
Bumped(l) ==
  [o \in Prober |-> IF prober[o].loc = l
                      THEN [prober[o] EXCEPT !.moved = TRUE]
                      ELSE prober[o]]
Bump(l) == prober' = Bumped(l)

(* The lease table without the expired leases of l that satisfy P. *)
WithoutExpired(l, scopes) ==
  [r \in Reader |-> IF /\ lease[r].loc = l
                       /\ lease[r].left = 0
                       /\ lease[r].scope \in scopes
                      THEN NoLease ELSE lease[r]]

Detach(l) == [e \in Entry |-> IF entry[e] = l THEN None ELSE entry[e]]

(* Fault: the grace period starts again with every request. *)
FenceAnew(l) ==
  IF \E e \in Entry : entry'[e] = l
    THEN UNCHANGED <<fenced, graceLeft, lease>>
    ELSE /\ fenced' = fenced \cup {l}
         /\ graceLeft' = [graceLeft EXCEPT ![l] = DeletionGracePeriod]
         /\ lease' = WithoutExpired(l, Scope)

(* fenceDetachedLocation up to its decision to finalize, after the caller  *)
(* has set entry': a location that still has entries is left alone.        *)
FenceDetachedLocation(l) ==
  IF \E e \in Entry : entry'[e] = l
    THEN UNCHANGED <<fenced, graceLeft, lease>>
    ELSE /\ fenced' = fenced \cup {l}
         /\ graceLeft' = IF l \in fenced THEN graceLeft
                         ELSE [graceLeft EXCEPT ![l] = DeletionGracePeriod]
         /\ lease' = WithoutExpired(l, Scope)

(* Fault: a materialization does not pin its location. *)
FinalizableWhileMerging(l) ==
  l \in fenced /\ graceLeft[l] = 0 /\ ~HasActiveReader(l)

(* The condition on which fenceDetachedLocation goes on to delete the row. *)
Finalizable(l) ==
  /\ l \in fenced
  /\ graceLeft[l] = 0
  /\ ~HasActiveReader(l)
  /\ ~ActiveMaterialization(l)

-----------------------------------------------------------------------------
(* Publishing, and deleting what is published. *)

(* completeUploadRecord: a new location, created with its finished parts,  *)
(* takes over the entry; the location it replaces is fenced in the same    *)
(* transaction.                                                            *)
Publish(e, l) ==
  /\ l \notin used
  /\ entry[e] # None => Lockable(entry[e])
  /\ entry' = [entry EXCEPT ![e] = l]
  /\ rows' = rows \cup {l}
  /\ used' = used \cup {l}
  /\ partObjects' = partObjects \cup {l}
  /\ IF entry[e] = None
       THEN UNCHANGED <<fenced, graceLeft, lease, prober>>
       ELSE FenceDetachedLocation(entry[e]) /\ Bump(entry[e])
  /\ UNCHANGED <<holder, mergeLeft, merged, unsupported, partsDeleted, tasks,
                 finalizing, mergedObjects, lost, reader, composer, worker>>

(* The management API deletes an entry and fences what it referenced. *)
DeleteCacheEntry(e) ==
  /\ entry[e] # None
  /\ Lockable(entry[e])
  /\ entry' = [entry EXCEPT ![e] = None]
  /\ FenceDetachedLocation(entry[e])
  /\ Bump(entry[e])
  /\ UNCHANGED <<rows, used, holder, mergeLeft, merged, unsupported,
                 partsDeleted, tasks, finalizing, objectVars, reader, composer,
                 worker>>

(* RequestLocationDeletion, short of finalizing: called by the management  *)
(* API (deleteCacheEntries) and by the cleanup jobs (requireOrphan).       *)
RequestLocationDeletion(l, deleteCacheEntries) ==
  /\ Lockable(l)
  /\ ~Finalizable(l)
  /\ deleteCacheEntries \/ ~Attached(l)
  /\ entry' = Detach(l)
  /\ FenceDetachedLocation(l)
  /\ Bump(l)
  /\ UNCHANGED <<rows, used, holder, mergeLeft, merged, unsupported,
                 partsDeleted, tasks, finalizing, objectVars, reader, composer,
                 worker>>

(* RequestExpiredLocationDeletion.  Which locations are past retention is  *)
(* not modelled; an attempt that finds a reader, a recent use or no entry  *)
(* still commits its version bump.                                         *)
RequestExpiredLocationDeletion(l) ==
  /\ Lockable(l)
  /\ l \notin fenced
  /\ Bump(l)
  /\ \/ /\ Attached(l)
        /\ ~HasActiveReader(l)
        /\ entry' = Detach(l)
        /\ FenceDetachedLocation(l)
     \/ UNCHANGED <<entry, fenced, graceLeft, lease>>
  /\ UNCHANGED <<rows, used, holder, mergeLeft, merged, unsupported,
                 partsDeleted, tasks, finalizing, objectVars, reader, composer,
                 worker>>

(* RequestCapacityEviction of a candidate whose observation is current.    *)
(* An active reader pins it; the version bump is committed all the same.   *)
RequestCapacityEviction(l) ==
  /\ Lockable(l)
  /\ l \notin fenced
  /\ Bump(l)
  /\ IF HasActiveReader(l)
       THEN UNCHANGED <<entry, fenced, graceLeft, lease>>
       ELSE /\ entry' = Detach(l)
            /\ FenceDetachedLocation(l)
  /\ UNCHANGED <<rows, used, holder, mergeLeft, merged, unsupported,
                 partsDeleted, tasks, finalizing, objectVars, reader, composer,
                 worker>>

(* A later attempt (RunPendingStorageLocations, or any other request) that *)
(* finds the location finalizable decides to delete its row.  The expired  *)
(* leases it removes are invisible to every other operation, so they go    *)
(* here and stay gone if the transaction is rolled back.                   *)
BeginFinalize(l) ==
  /\ Lockable(l)
  /\ Finalizable(l)
  /\ ~Attached(l)
  /\ finalizing' = finalizing \cup {l}
  /\ lease' = WithoutExpired(l, Scope)
  /\ Bump(l)
  /\ UNCHANGED <<entry, rows, used, fenced, graceLeft, holder, mergeLeft,
                 merged, unsupported, partsDeleted, tasks, objectVars, reader,
                 composer, worker>>

(* The row is deleted and its folder enqueued, in one transaction, unless  *)
(* the foreign key still finds a reader lease (ON DELETE RESTRICT).        *)
CommitFinalize(l) ==
  /\ l \in finalizing
  /\ \A r \in Reader : lease[r].loc # l
  /\ finalizing' = finalizing \ {l}
  /\ tasks' = tasks \cup {<<l, "folder">>}
  /\ rows' = rows \ {l}
  /\ entry' = Detach(l)
  /\ fenced' = fenced \ {l}
  /\ holder' = [holder EXCEPT ![l] = None]
  /\ mergeLeft' = [mergeLeft EXCEPT ![l] = 0]
  /\ merged' = merged \ {l}
  /\ unsupported' = unsupported \ {l}
  /\ partsDeleted' = partsDeleted \ {l}
  /\ UNCHANGED <<used, graceLeft, lease, objectVars, procVars>>

AbortFinalize(l) ==
  /\ l \in finalizing
  /\ \E r \in Reader : lease[r].loc = l
  /\ finalizing' = finalizing \ {l}
  /\ UNCHANGED <<entry, rows, used, fenced, graceLeft, holder, mergeLeft,
                 merged, unsupported, partsDeleted, lease, tasks, objectVars,
                 procVars>>

(* The rows whose parts cleanup claims.  Fault: also those not merged yet. *)
PartsClaimableUnmerged(l) == l \notin partsDeleted
PartsClaimable(l) == l \in merged \ partsDeleted

(* Fault: the leases of the other scope are counted. *)
HasStorageReader(l) ==
  \E r \in Reader :
    lease[r].loc = l /\ lease[r].scope = "storage" /\ lease[r].left > 0
HasPartReader(l) ==
  \E r \in Reader :
    lease[r].loc = l /\ lease[r].scope = "parts" /\ lease[r].left > 0

(* The claim and its outbox row.  Fault: no row. *)
PartsTask(l) == <<l, "parts">>
ClaimWithoutTask(l) == partsDeleted' = partsDeleted \cup {l} /\ UNCHANGED tasks
Claim(l) == /\ partsDeleted' = partsDeleted \cup {l}
            /\ tasks' = tasks \cup {PartsTask(l)}

(* ClaimPartsDeletion: once merged, the parts go as soon as no part reader *)
(* holds an unexpired lease; there is no grace period here.                *)
ClaimPartsDeletion(l) ==
  /\ Lockable(l)
  /\ l \notin fenced
  /\ PartsClaimable(l)
  /\ lease' = WithoutExpired(l, {"parts"})
  /\ Bump(l)
  /\ IF HasPartReader(l) THEN UNCHANGED <<tasks, partsDeleted>> ELSE Claim(l)
  /\ UNCHANGED <<entry, rows, used, fenced, graceLeft, holder, mergeLeft,
                 merged, unsupported, finalizing, objectVars, reader, composer,
                 worker>>

-----------------------------------------------------------------------------
(* Downloads. *)

(* acquireReaderOnce up to the lease: the entry, its location and the      *)
(* scope classifyReaderLocation gives it.  Nothing is locked, so the       *)
(* snapshot may be stale when the lease is inserted.  (Reading the entry   *)
(* and then the location is one step: a location seen unfenced was still   *)
(* attached when it was read.)                                             *)
AcquireRead(r, e, direct) ==
  /\ reader[r].pc = "idle"
  /\ lease[r] = NoLease
  /\ entry[e] # None
  /\ LET l == entry[e]
         scope == IF l \in merged THEN "storage" ELSE "parts"
     IN /\ l \in rows \ fenced
        /\ l \in merged \/ l \notin partsDeleted
        /\ direct => l \in merged \/ l \notin MultiPart
        /\ reader' = [reader EXCEPT ![r] =
             [pc |-> "read", loc |-> l, scope |-> scope, direct |-> direct,
              locks |-> scope = "parts" /\ l \in MultiPart \ unsupported,
              urlLeft |-> 0]]
  /\ UNCHANGED <<dbVars, objectVars, composer, prober, worker>>

(* Fault: the row is not revalidated under its lock. *)
CanInsertStaleLease(r) == reader[r].loc \in rows

(* Part readers of a location that could still be merged revalidate the    *)
(* row under its lock; the others rely on the foreign key alone.           *)
CanInsertLease(r) ==
  LET l == reader[r].loc IN
  IF reader[r].locks
    THEN Lockable(l) /\ l \notin fenced \cup merged \cup partsDeleted
    ELSE l \in rows

InsertLease(r) ==
  /\ reader[r].pc = "read"
  /\ CanInsertLease(r)
  /\ lease' = [lease EXCEPT ![r] =
       [loc |-> reader[r].loc, scope |-> reader[r].scope,
        left |-> IF reader[r].direct THEN DirectDownloadLeaseDuration
                 ELSE ReaderLeaseDuration]]
  /\ reader' = [reader EXCEPT ![r].pc =
       IF reader[r].direct THEN "direct" ELSE "streaming"]
  /\ IF reader[r].locks THEN Bump(reader[r].loc) ELSE UNCHANGED prober
  /\ UNCHANGED <<entry, rows, used, fenced, graceLeft, holder, mergeLeft,
                 merged, unsupported, partsDeleted, tasks, finalizing,
                 objectVars, composer, worker>>

(* The attempt is rolled back; AcquireReader retries or gives up. *)
RetryAcquire(r) ==
  /\ reader[r].pc = "read"
  /\ ~CanInsertLease(r)
  /\ reader[r].loc \notin finalizing
  /\ reader' = [reader EXCEPT ![r] = IdleReader]
  /\ UNCHANGED <<dbVars, objectVars, composer, prober, worker>>

(* The renewal loop of leasedReadCloser: a lease that is gone or expired   *)
(* is lost, and the stream is closed.                                      *)
RenewReader(r) ==
  /\ reader[r].pc = "streaming"
  /\ IF lease[r].left > 0
       THEN /\ lease' = [lease EXCEPT ![r].left = ReaderLeaseDuration]
            /\ UNCHANGED reader
       ELSE /\ reader' = [reader EXCEPT ![r].pc = "closing"]
            /\ UNCHANGED lease
  /\ UNCHANGED <<entry, rows, used, fenced, graceLeft, holder, mergeLeft,
                 merged, unsupported, partsDeleted, tasks, finalizing,
                 objectVars, composer, prober, worker>>

(* Close (or a failed open) hands the lease to the releaser. *)
CloseReader(r) ==
  /\ reader[r].pc = "streaming"
  /\ reader' = [reader EXCEPT ![r].pc = "closing"]
  /\ UNCHANGED <<dbVars, objectVars, composer, prober, worker>>

ReleaseReader(r) ==
  /\ reader[r].pc = "closing"
  /\ lease' = [lease EXCEPT ![r] = NoLease]
  /\ reader' = [reader EXCEPT ![r] = IdleReader]
  /\ UNCHANGED <<entry, rows, used, fenced, graceLeft, holder, mergeLeft,
                 merged, unsupported, partsDeleted, tasks, finalizing,
                 objectVars, composer, prober, worker>>

(* CreateDownloadURL: the URL works for the TTL from now on, whether or    *)
(* not the lease survives until it is extended.                            *)
SignURL(r) ==
  /\ reader[r].pc = "direct"
  /\ reader' = [reader EXCEPT ![r].pc = "signed",
                              ![r].urlLeft = DirectDownloadTTL]
  /\ UNCHANGED <<dbVars, objectVars, composer, prober, worker>>

(* Fault: the URL is handed out on the strength of the first lease. *)
HandOutURL(r) ==
  /\ reader[r].pc = "signed"
  /\ reader' = [reader EXCEPT ![r].pc = "url"]
  /\ UNCHANGED <<dbVars, objectVars, composer, prober, worker>>

(* ExtendDirectReader: only then is the URL handed out.  A lost lease is   *)
(* released and the URL dropped.                                           *)
ExtendDirectReader(r) ==
  /\ reader[r].pc = "signed"
  /\ IF lease[r].left > 0
       THEN /\ lease' = [lease EXCEPT ![r].left = DirectDownloadLeaseDuration]
            /\ reader' = [reader EXCEPT ![r].pc = "url"]
       ELSE /\ reader' = [reader EXCEPT ![r].pc = "closing",
                                        ![r].urlLeft = 0]
            /\ UNCHANGED lease
  /\ UNCHANGED <<entry, rows, used, fenced, graceLeft, holder, mergeLeft,
                 merged, unsupported, partsDeleted, tasks, finalizing,
                 objectVars, composer, prober, worker>>

(* The process dies with its lease row behind it. *)
CrashReader(r) ==
  /\ reader[r].pc \in {"read", "streaming", "direct", "signed", "closing"}
  /\ reader' = [reader EXCEPT ![r] = [IdleReader EXCEPT !.pc = "dead"]]
  /\ UNCHANGED <<dbVars, objectVars, composer, prober, worker>>

(* A dead reader, or a client whose URL has run out, starts afresh once    *)
(* the row it left has been purged.                                        *)
RestartReader(r) ==
  /\ reader[r].pc \in {"dead", "url"}
  /\ reader[r].urlLeft = 0
  /\ lease[r] = NoLease
  /\ reader' = [reader EXCEPT ![r] = IdleReader]
  /\ UNCHANGED <<dbVars, objectVars, composer, prober, worker>>

PurgeExpiredReaderLeases ==
  /\ \E r \in Reader : lease[r].loc # None /\ lease[r].left = 0
  /\ lease' = [r \in Reader |-> IF lease[r].left = 0 THEN NoLease
                                                     ELSE lease[r]]
  /\ UNCHANGED <<entry, rows, used, fenced, graceLeft, holder, mergeLeft,
                 merged, unsupported, partsDeleted, tasks, finalizing,
                 objectVars, procVars>>

-----------------------------------------------------------------------------
(* Background materialization. *)

(* AcquireMaterialization; a refused attempt is rolled back and leaves     *)
(* nothing.  The lease token is the composer.                              *)
AcquireMaterialization(c, l) ==
  /\ composer[c].pc = "idle"
  /\ Lockable(l)
  /\ l \notin fenced
  /\ l \in MultiPart \ (merged \cup unsupported \cup partsDeleted)
  /\ ~ActiveMaterialization(l)
  /\ holder' = [holder EXCEPT ![l] = c]
  /\ mergeLeft' = [mergeLeft EXCEPT ![l] = MaterializationLeaseDuration]
  /\ composer' = [composer EXCEPT ![c] = [pc |-> "composing", loc |-> l]]
  /\ Bump(l)
  /\ UNCHANGED <<entry, rows, used, fenced, graceLeft, merged, unsupported,
                 partsDeleted, lease, tasks, finalizing, objectVars, reader,
                 worker>>

(* Fault: whoever composed may finish, whatever became of its lease. *)
AnyoneOwnsMaterialization(c, l) == Lockable(l) /\ l \notin merged

(* The token guard shared by Renew, Finish and MarkUnsupported. *)
OwnsMaterialization(c, l) ==
  /\ Lockable(l)
  /\ holder[l] = c
  /\ mergeLeft[l] > 0
  /\ l \notin merged

(* RenewMaterialization, from the goroutine beside ComposeObjects.  The    *)
(* new expiry outdates observations like a version bump does.  A lost      *)
(* lease cancels the composition, which may still complete.                *)
RenewMaterialization(c) ==
  /\ composer[c].pc = "composing"
  /\ LET l == composer[c].loc IN
     IF OwnsMaterialization(c, l)
       THEN /\ mergeLeft' =
                 [mergeLeft EXCEPT ![l] = MaterializationLeaseDuration]
            /\ Bump(l)
            /\ UNCHANGED composer
       ELSE /\ composer' = [composer EXCEPT ![c].pc = "cancelled"]
            /\ UNCHANGED <<mergeLeft, prober>>
  /\ UNCHANGED <<entry, rows, used, fenced, graceLeft, holder, merged,
                 unsupported, partsDeleted, lease, tasks, finalizing,
                 objectVars, reader, worker>>

(* ComposeObjects writes folder/merged from every part, and can only do so *)
(* while the parts are there; a composer that stalled may do so long after *)
(* its lease ran out.                                                      *)
ComposeObjects(c) ==
  /\ composer[c].pc \in {"composing", "cancelled"}
  /\ composer[c].loc \in partObjects
  /\ mergedObjects' = mergedObjects \cup {composer[c].loc}
  /\ composer' = [composer EXCEPT ![c].pc =
       IF composer[c].pc = "composing" THEN "composed" ELSE "failed"]
  /\ UNCHANGED <<dbVars, partObjects, lost, reader, prober, worker>>

(* The composition fails, or the storage cannot compose these parts. *)
ComposeFails(c) ==
  /\ composer[c].pc \in {"composing", "cancelled"}
  /\ \E pc \in {"refused", "failed"} :
       /\ pc = "refused" => composer[c].pc = "composing"
       /\ composer' = [composer EXCEPT ![c].pc = pc]
  /\ UNCHANGED <<dbVars, objectVars, reader, prober, worker>>

FinishMaterialization(c) ==
  /\ composer[c].pc = "composed"
  /\ LET l == composer[c].loc IN
     IF OwnsMaterialization(c, l)
       THEN /\ merged' = merged \cup {l}
            /\ holder' = [holder EXCEPT ![l] = None]
            /\ mergeLeft' = [mergeLeft EXCEPT ![l] = 0]
            /\ composer' = [composer EXCEPT ![c] = IdleComposer]
       ELSE /\ composer' = [composer EXCEPT ![c].pc = "failed"]
            /\ UNCHANGED <<merged, holder, mergeLeft>>
  /\ UNCHANGED <<entry, rows, used, fenced, graceLeft, unsupported,
                 partsDeleted, lease, tasks, finalizing, objectVars, reader,
                 prober, worker>>

MarkMaterializationUnsupported(c) ==
  /\ composer[c].pc = "refused"
  /\ LET l == composer[c].loc IN
     IF OwnsMaterialization(c, l)
       THEN /\ unsupported' = unsupported \cup {l}
            /\ holder' = [holder EXCEPT ![l] = None]
            /\ mergeLeft' = [mergeLeft EXCEPT ![l] = 0]
            /\ composer' = [composer EXCEPT ![c] = IdleComposer]
       ELSE /\ composer' = [composer EXCEPT ![c].pc = "failed"]
            /\ UNCHANGED <<unsupported, holder, mergeLeft>>
  /\ UNCHANGED <<entry, rows, used, fenced, graceLeft, merged, partsDeleted,
                 lease, tasks, finalizing, objectVars, reader, prober, worker>>

(* ReleaseMaterialization clears the lease only if the token is still its  *)
(* own, expired or not.                                                    *)
ReleaseMaterialization(c) ==
  /\ composer[c].pc = "failed"
  /\ LET l == composer[c].loc IN
     /\ l \notin finalizing
     /\ IF l \in rows \ merged /\ holder[l] = c
          THEN /\ holder' = [holder EXCEPT ![l] = None]
               /\ mergeLeft' = [mergeLeft EXCEPT ![l] = 0]
          ELSE UNCHANGED <<holder, mergeLeft>>
  /\ composer' = [composer EXCEPT ![c] = IdleComposer]
  /\ UNCHANGED <<entry, rows, used, fenced, graceLeft, merged, unsupported,
                 partsDeleted, lease, tasks, finalizing, objectVars, reader,
                 prober, worker>>

(* The process dies; its lease is left to expire. *)
CrashComposer(c) ==
  /\ composer[c].pc # "idle"
  /\ composer' = [composer EXCEPT ![c] = IdleComposer]
  /\ UNCHANGED <<dbVars, objectVars, reader, prober, worker>>

-----------------------------------------------------------------------------
(* The lookup that validates a representation and purges a dangling entry  *)
(* (GetCacheEntryWithDownloadURL with PurgeDanglingCacheEntryIfUnchanged;  *)
(* storage reconciliation purges the same way).                            *)

ObserveLocation(o, e) ==
  /\ prober[o].pc = "idle"
  /\ entry[e] # None
  /\ entry[e] \in rows \ fenced
  /\ LET l == entry[e] IN
     prober' = [prober EXCEPT ![o] =
       [pc |-> "observed", entry |-> e, loc |-> l, holder |-> holder[l],
        merged |-> l \in merged, unsupported |-> l \in unsupported,
        partsDeleted |-> l \in partsDeleted, moved |-> FALSE]]
  /\ UNCHANGED <<dbVars, objectVars, reader, composer, worker>>

(* representationObjectName of the observed row, then ObjectExists. *)
RepresentationFound(o) ==
  LET l == prober[o].loc IN
  IF prober[o].merged THEN l \in mergedObjects
                      ELSE ~prober[o].partsDeleted /\ l \in partObjects

ProbeRepresentation(o) ==
  /\ prober[o].pc = "observed"
  /\ prober' = [prober EXCEPT ![o] =
       IF RepresentationFound(o) THEN IdleProber
                                 ELSE [prober[o] EXCEPT !.pc = "missing"]]
  /\ UNCHANGED <<dbVars, objectVars, reader, composer, worker>>

(* Fault: the row is updated whatever it has become since the observation. *)
StillUnfenced(o) == Lockable(prober[o].loc) /\ prober[o].loc \notin fenced

(* The conditional update: the row, its version and every representation   *)
(* column are as they were observed.                                       *)
Unchanged(o) ==
  LET l == prober[o].loc IN
  /\ Lockable(l)
  /\ l \notin fenced
  /\ ~prober[o].moved
  /\ prober[o].holder = holder[l]
  /\ prober[o].merged = (l \in merged)
  /\ prober[o].unsupported = (l \in unsupported)
  /\ prober[o].partsDeleted = (l \in partsDeleted)

PurgeDanglingCacheEntryIfUnchanged(o) ==
  LET l == prober[o].loc
      e == prober[o].entry
  IN
  /\ prober[o].pc = "missing"
  /\ l \notin finalizing
  /\ IF Unchanged(o) /\ ~ActiveMaterialization(l)
       THEN /\ prober' = [Bumped(l) EXCEPT ![o] = IdleProber]
            /\ IF entry[e] = l
                 THEN /\ entry' = [entry EXCEPT ![e] = None]
                      /\ FenceDetachedLocation(l)
                 ELSE UNCHANGED <<entry, fenced, graceLeft, lease>>
       ELSE /\ prober' = [prober EXCEPT ![o] = IdleProber]
            /\ UNCHANGED <<entry, fenced, graceLeft, lease>>
  /\ UNCHANGED <<rows, used, holder, mergeLeft, merged, unsupported,
                 partsDeleted, tasks, finalizing, objectVars, reader, composer,
                 worker>>

-----------------------------------------------------------------------------
(* The outbox. *)

(* storageoutbox.Process: a worker reads a task, deletes the folder, then  *)
(* deletes the task.  Two workers may hold the same task, and a task is    *)
(* retried from the start after a failure or a crash.                      *)
ReadTask(w) ==
  /\ worker[w].pc = "idle"
  /\ \E t \in tasks :
       worker' = [worker EXCEPT ![w] =
                    [pc |-> "read", loc |-> t[1], part |-> t[2]]]
  /\ UNCHANGED <<dbVars, objectVars, reader, composer, prober>>

DeleteFolder(w) ==
  /\ worker[w].pc = "read"
  /\ partObjects' = partObjects \ {worker[w].loc}
  /\ mergedObjects' = IF worker[w].part = "folder"
                        THEN mergedObjects \ {worker[w].loc}
                        ELSE mergedObjects
  /\ worker' = [worker EXCEPT ![w].pc = "deleted"]
  /\ UNCHANGED <<dbVars, lost, reader, composer, prober>>

CompleteTask(w) ==
  /\ worker[w].pc = "deleted"
  /\ tasks' = tasks \ {<<worker[w].loc, worker[w].part>>}
  /\ worker' = [worker EXCEPT ![w] = IdleWorker]
  /\ UNCHANGED <<entry, rows, used, fenced, graceLeft, holder, mergeLeft,
                 merged, unsupported, partsDeleted, lease, finalizing,
                 objectVars, reader, composer, prober>>

AbandonTask(w) ==
  /\ worker[w].pc # "idle"
  /\ worker' = [worker EXCEPT ![w] = IdleWorker]
  /\ UNCHANGED <<dbVars, objectVars, reader, composer, prober>>

-----------------------------------------------------------------------------
(* The environment. *)

(* Something outside the server removes objects of a folder. *)
LoseObjects(l) ==
  /\ l \in used \ lost
  /\ lost' = lost \cup {l}
  /\ \/ /\ l \in partObjects
        /\ partObjects' = partObjects \ {l}
        /\ UNCHANGED mergedObjects
     \/ /\ l \in mergedObjects
        /\ mergedObjects' = mergedObjects \ {l}
        /\ UNCHANGED partObjects
  /\ UNCHANGED <<dbVars, procVars>>

Less(n) == IF n > 0 THEN n - 1 ELSE 0

TimeIsRunning ==
  \/ \E l \in Location : graceLeft[l] > 0 \/ mergeLeft[l] > 0
  \/ \E r \in Reader : lease[r].left > 0 \/ reader[r].urlLeft > 0

Tick ==
  /\ TimeIsRunning
  /\ graceLeft' = [l \in Location |-> Less(graceLeft[l])]
  /\ mergeLeft' = [l \in Location |-> Less(mergeLeft[l])]
  /\ lease' = [r \in Reader |-> [lease[r] EXCEPT !.left = Less(@)]]
  /\ reader' = [r \in Reader |-> [reader[r] EXCEPT !.urlLeft = Less(@)]]
  /\ UNCHANGED <<entry, rows, used, fenced, holder, merged, unsupported,
                 partsDeleted, tasks, finalizing, objectVars, composer,
                 prober, worker>>

-----------------------------------------------------------------------------

LocationStep ==
  \/ \E e \in Entry, l \in Location : Publish(e, l)
  \/ \E e \in Entry : DeleteCacheEntry(e)
  \/ \E l \in Location :
       \/ \E deleteCacheEntries \in BOOLEAN :
            RequestLocationDeletion(l, deleteCacheEntries)
       \/ RequestExpiredLocationDeletion(l)
       \/ RequestCapacityEviction(l)
       \/ BeginFinalize(l)
       \/ CommitFinalize(l)
       \/ AbortFinalize(l)
       \/ ClaimPartsDeletion(l)
       \/ LoseObjects(l)

ReaderStep ==
  \/ PurgeExpiredReaderLeases
  \/ \E r \in Reader :
       \/ \E e \in Entry, direct \in BOOLEAN : AcquireRead(r, e, direct)
       \/ InsertLease(r)
       \/ RetryAcquire(r)
       \/ RenewReader(r)
       \/ CloseReader(r)
       \/ ReleaseReader(r)
       \/ SignURL(r)
       \/ ExtendDirectReader(r)
       \/ CrashReader(r)
       \/ RestartReader(r)

ComposerStep ==
  \E c \in Composer :
    \/ \E l \in Location : AcquireMaterialization(c, l)
    \/ RenewMaterialization(c)
    \/ ComposeObjects(c)
    \/ ComposeFails(c)
    \/ FinishMaterialization(c)
    \/ MarkMaterializationUnsupported(c)
    \/ ReleaseMaterialization(c)
    \/ CrashComposer(c)

ProberStep ==
  \E o \in Prober :
    \/ \E e \in Entry : ObserveLocation(o, e)
    \/ ProbeRepresentation(o)
    \/ PurgeDanglingCacheEntryIfUnchanged(o)

WorkerStep ==
  \E w \in Worker :
    \/ ReadTask(w)
    \/ DeleteFolder(w)
    \/ CompleteTask(w)
    \/ AbandonTask(w)

Next ==
  \/ LocationStep
  \/ ReaderStep
  \/ ComposerStep
  \/ ProberStep
  \/ WorkerStep
  \/ Tick

Spec == Init /\ [][Next]_vars

-----------------------------------------------------------------------------
(* Safety. *)

(* The objects behind one scope of a location, unless they were removed by *)
(* something other than the server.                                        *)
Readable(l, scope) ==
  \/ l \in lost
  \/ IF scope = "storage" THEN l \in mergedObjects ELSE l \in partObjects

(* The server never deletes objects under an unexpired reader lease: a     *)
(* download (acquireReaderOnce, RenewReader) keeps its representation      *)
(* although its lease was inserted from a stale read, and whatever fencing,*)
(* merging, parts claiming and folder deletion happen meanwhile.           *)
ReadersSafe ==
  \A r \in Reader :
    lease[r].left > 0 => Readable(lease[r].loc, lease[r].scope)

(* A presigned URL that was handed out works until it expires: nothing the *)
(* server does deletes its object first (SignURL, ExtendDirectReader).     *)
IssuedUrlSafe ==
  \A r \in Reader :
    reader[r].pc = "url" /\ reader[r].urlLeft > 0
      => Readable(reader[r].loc, reader[r].scope)

(* A cache entry a client can match always references an unfenced row      *)
(* whose current representation is in storage: no window in Publish, merge *)
(* completion or parts deletion leaves a hit that cannot be served.        *)
EntriesServable ==
  \A e \in Entry :
    LET l == entry[e] IN
    l # None => /\ l \in rows \ fenced
                /\ Readable(l, IF l \in merged THEN "storage" ELSE "parts")

(* While a composer owns an unexpired materialization lease its sources    *)
(* stay in storage, even after the location was replaced and fenced.       *)
ComposerSourcesSafe ==
  \A c \in Composer :
    composer[c].pc = "composing" /\ OwnsMaterialization(c, composer[c].loc)
      => Readable(composer[c].loc, "parts")

(* Nothing the server does deletes objects under an unexpired lease, of a  *)
(* reader or of a composer, whichever of them raced with which.            *)
LeasedObjectsSafe == ReadersSafe /\ ComposerSourcesSafe

(* An unexpired materialization lease is given up by its own composer      *)
(* alone: not by a replacement that fences and finalizes its location, nor *)
(* by another composer's acquire, finish or release.                       *)
MergeLeaseKept ==
  [][\A l \in Location :
       holder[l] # None /\ mergeLeft[l] > 0 /\ holder'[l] # holder[l]
       => /\ composer[holder[l]].loc = l
          /\ composer'[holder[l]].pc = "idle"]_vars

(* A merge has one outcome.  A stalled composer whose lease was taken over *)
(* must not mark unsupported what another merges: readers that saw         *)
(* materializationUnsupportedAt skip the row lock and rely on parts never  *)
(* being claimed.                                                          *)
OutcomeDecidedOnce == merged \cap unsupported = {}

(* A lookup detaches an entry only if its objects really vanished: a probe *)
(* that raced with a merge, a parts deletion or a replacement never purges *)
(* a good entry (PurgeDanglingCacheEntryIfUnchanged).                      *)
PurgeOnlyDangling ==
  [][\A o \in Prober, e \in Entry :
       /\ prober[o].pc = "missing" /\ prober'[o].pc = "idle"
       /\ entry[e] = prober[o].loc /\ entry'[e] = None
       => prober[o].loc \in lost]_vars

-----------------------------------------------------------------------------
(* The inductive invariant behind the safety properties. *)

(* A merge is of several parts, has one outcome, and comes before the      *)
(* deletion of the parts; a merge lease is on an undecided row, and not    *)
(* live on one that is being deleted.                                      *)
RowInv ==
  /\ rows \subseteq used
  /\ fenced \cup merged \cup unsupported \cup finalizing \subseteq rows
  /\ partsDeleted \subseteq merged
  /\ merged \subseteq MultiPart
  /\ OutcomeDecidedOnce
  /\ \A l \in Location :
       /\ holder[l] # None
            => l \in (rows \cap MultiPart) \ (merged \cup unsupported)
       /\ l \in finalizing => ~ActiveMaterialization(l)

(* Fencing commits together with the detachment of the last entry. *)
EntryInv == \A e \in Entry : entry[e] # None => entry[e] \in rows \ fenced

(* Leases reference rows; a live lease on parts holds their deletion off,  *)
(* a lease on the merged object is on a merged row.                        *)
LeaseInv ==
  \A r \in Reader :
    /\ lease[r].loc # None => lease[r].loc \in rows
    /\ lease[r].loc = None => lease[r] = NoLease
    /\ lease[r].left > 0 /\ lease[r].scope = "parts"
         => lease[r].loc \notin partsDeleted
    /\ lease[r].loc # None /\ lease[r].scope = "storage"
         => lease[r].loc \in merged

(* What a stale snapshot still guarantees when its lease is inserted: a    *)
(* merge is never undone, and an acquisition that skips the row lock is of *)
(* a location that will never be merged.                                   *)
SnapshotInv ==
  \A r \in Reader :
    LET l == reader[r].loc IN
    reader[r].pc = "read" =>
      /\ l \in used
      /\ l \in rows /\ reader[r].scope = "storage" => l \in merged
      /\ l \in rows /\ reader[r].scope = "parts" /\ ~reader[r].locks
           => l \in unsupported \/ l \notin MultiPart

(* A task is pending in the outbox or in the hands of a worker. *)
Pending(l, part) ==
  \/ <<l, part>> \in tasks
  \/ \E w \in Worker : /\ worker[w].pc # "idle"
                       /\ worker[w].loc = l
                       /\ worker[w].part = part

(* Folders are deleted after their rows, parts after they were claimed. *)
TaskInv ==
  \A l \in Location :
    /\ Pending(l, "folder") => l \in used \ rows
    /\ Pending(l, "parts") => l \in used /\ (l \in rows => l \in partsDeleted)

(* A row has the objects its columns say it has. *)
ObjectInv ==
  \A l \in rows : /\ l \in merged => Readable(l, "storage")
                  /\ l \notin partsDeleted => Readable(l, "parts")

(* What a composer has composed is there as long as the row is. *)
ComposerInv ==
  \A c \in Composer :
    /\ composer[c].pc # "idle" => composer[c].loc \in used
    /\ composer[c].pc = "composed" /\ composer[c].loc \in rows
         => Readable(composer[c].loc, "storage")

(* A reader that took a lease knows what it is on, and the lease of an     *)
(* issued URL outlives the URL.                                            *)
UrlInv ==
  \A r \in Reader :
    /\ /\ reader[r].pc \in {"streaming", "direct", "signed", "url"}
       /\ lease[r].left > 0
       => /\ lease[r].loc = reader[r].loc
          /\ lease[r].scope = reader[r].scope
    /\ reader[r].pc = "signed" => reader[r].urlLeft <= DirectDownloadTTL
    /\ reader[r].pc = "url" => reader[r].urlLeft <= lease[r].left

(* An observed representation can only be superseded, and one found        *)
(* missing that was not superseded was lost.                               *)
ProberInv ==
  \A o \in Prober :
    LET l == prober[o].loc IN
    prober[o].pc # "idle" =>
      /\ l \in used
      /\ l \in rows => /\ prober[o].merged => l \in merged
                       /\ prober[o].partsDeleted => l \in partsDeleted
      /\ /\ prober[o].pc = "missing"
         /\ l \in rows
         /\ prober[o].merged = (l \in merged)
         /\ prober[o].partsDeleted = (l \in partsDeleted)
         => l \in lost

(* All of it holds in every reachable state and is preserved by each step. *)
LifecycleInv ==
  /\ TypeOK
  /\ RowInv
  /\ EntryInv
  /\ LeaseInv
  /\ SnapshotInv
  /\ TaskInv
  /\ ObjectInv
  /\ ComposerInv
  /\ UrlInv
  /\ ProberInv

-----------------------------------------------------------------------------
(* Liveness. *)

(* Cleanup jobs, deletion workers and the clock keep going; downloads,     *)
(* requests and compositions end.  Deleting a folder may fail any number   *)
(* of times but not for ever.                                              *)
Fairness ==
  /\ WF_vars(Tick)
  /\ WF_vars(PurgeExpiredReaderLeases)
  /\ \A l \in Location :
       /\ WF_vars(BeginFinalize(l))
       /\ WF_vars(CommitFinalize(l))
       /\ WF_vars(AbortFinalize(l))
       /\ WF_vars(ClaimPartsDeletion(l))
  /\ \A r \in Reader :
       /\ WF_vars(InsertLease(r))
       /\ WF_vars(RetryAcquire(r))
       /\ WF_vars(CloseReader(r))
       /\ WF_vars(ReleaseReader(r))
       /\ WF_vars(SignURL(r))
       /\ WF_vars(ExtendDirectReader(r))
  /\ \A c \in Composer :
       /\ WF_vars(ComposeObjects(c) \/ ComposeFails(c))
       /\ WF_vars(FinishMaterialization(c))
       /\ WF_vars(MarkMaterializationUnsupported(c))
       /\ WF_vars(ReleaseMaterialization(c))
  /\ \A w \in Worker :
       /\ WF_vars(ReadTask(w))
       /\ SF_vars(DeleteFolder(w))
       /\ SF_vars(CompleteTask(w))

FairSpec == Spec /\ Fairness

(* A fenced location is eventually gone, row, parts and outbox task,       *)
(* whatever readers, composers and aborted attempts delay it.              *)
FencedReclaimed ==
  \A l \in Location :
    l \in fenced ~> l \notin rows \cup partObjects /\ <<l, "folder">> \notin tasks

(* Once merged, the duplicate copy in parts is eventually deleted.         *)
MergedPartsReclaimed ==
  \A l \in Location : l \in merged ~> l \notin partObjects

(* Storage that nothing refers to is always given back, on both ways.      *)
StorageReclaimed == FencedReclaimed /\ MergedPartsReclaimed
=============================================================================
