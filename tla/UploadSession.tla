---------------------------- MODULE UploadSession ----------------------------
(***************************************************************************)
(* Upload sessions (internal/cache/service.go, upload_activity.go and      *)
(* internal/uploadsession), from the reservation of a key to its finalized *)
(* location, and the cleanup of what they leave behind: idle sessions, the *)
(* folders given up through the outbox, and orphaned folders               *)
(* (internal/cleanup/orphaned_storage.go).                                 *)
(*                                                                         *)
(* All sessions are of one tuple (key, version, scope, repo): every query  *)
(* is by tuple, by id or by folder, so tuples do not interact.  A session  *)
(* and its folder have the same name (FolderName is the upload id).        *)
(*                                                                         *)
(* Requests are clients.  A request reads the Upload row first and writes  *)
(* objects and rows later, without holding a lock in between; any number   *)
(* of requests of one session may overlap.  A transaction is one step,     *)
(* except that completeUploadRecord reads the entry of the tuple before it *)
(* locks anything (ReadExistingEntry, then CompleteUploadRecord).          *)
(*                                                                         *)
(* idle is the time since the later of createdAt and lastPartUploadedAt;   *)
(* what is beyond CleanupIdleTimeout is not told apart.                    *)
(***************************************************************************)
EXTENDS Naturals, Sequences, FiniteSets

CONSTANTS
  Upload,       \* session ids, each with a folder of its own
  Location,     \* ids of storage locations and of the entries made with them
  Client,       \* requests in progress
  Worker,       \* outbox deletion workers
  Claimer,      \* orphaned storage jobs
  Block,        \* block ids; also the data uploaded under them
  BlockList,    \* the block lists clients commit
  Whole,        \* the data of an object uploaded without blocks
  None,
  MaxBlockListEntries,
  HeartbeatInterval,
  TakeoverIdleTimeout,
  CleanupIdleTimeout,
  MaxFinished   \* bound on finishedPartUploadCount

ASSUME TimeoutAssumption ==
  /\ HeartbeatInterval \in Nat \ {0}
  /\ TakeoverIdleTimeout \in Nat
  /\ CleanupIdleTimeout \in Nat
  /\ HeartbeatInterval <= TakeoverIdleTimeout
  /\ TakeoverIdleTimeout <= CleanupIdleTimeout

(* Commit refuses lists over the limit and does nothing for an empty one.  *)
ASSUME BlockAssumption ==
  /\ MaxBlockListEntries \in Nat \ {0}
  /\ MaxFinished \in Nat
  /\ BlockList \subseteq {list \in Seq(Block) :
                            Len(list) \in 1..MaxBlockListEntries}
  /\ Whole \notin Block
  /\ None \notin Upload \cup Location \cup Block \cup {Whole}

VARIABLES
  \* database
  uploads,      \* sessions that have a row
  used,         \* session ids ever drawn
  idle,         \* time since the last activity of a session
  finished,     \* finishedPartUploadCount
  committed,    \* committedPartCount
  created,      \* location ids ever drawn
  folderOf,     \* the folder of each location row, or None
  partCount,    \* partCount of each location
  index,        \* the part boundaries recorded when it was finalized
  entryAt,      \* the location each cache entry references, or None
  tasks,        \* StorageDeletion outbox
  \* object storage
  blocks,       \* blocks in folder/blocks
  parts,        \* the data in folder/parts/i, or None
  \* processes
  client, worker, claimer

rowVars     == <<uploads, used, idle, finished, committed>>
entryVars   == <<created, folderOf, partCount, index, entryAt>>
objectVars  == <<blocks, parts>>
vars        == <<rowVars, entryVars, tasks, objectVars, client, worker,
                 claimer>>

PartIndex == 0 .. MaxBlockListEntries - 1
Data  == Block \cup {Whole, None}
Parts == [PartIndex -> Data]
NoParts == [i \in PartIndex |-> None]

Task == Upload \X {"folder", "blocks"}

(* A request: what it does, its snapshot of the Upload row, how far it has *)
(* come.  "active" is inside withUploadActivity; "cancelled" the same with *)
(* a cancelled context, where storage may still complete one call.         *)
ClientState ==
  [pc: {"idle", "find", "found", "insert", "begun", "active", "cancelled",
        "done", "rejected", "entryRead"},
   op: {"none", "create", "part", "block", "commit", "complete"},
   up: Upload \cup {None}, block: Block \cup {None},
   list: BlockList \cup {<<>>}, next: Nat, finished: Nat, committed: Nat,
   sizes: Parts, entry: Location \cup {None}]
IdleClient ==
  [pc |-> "idle", op |-> "none", up |-> None, block |-> None, list |-> <<>>,
   next |-> 0, finished |-> 0, committed |-> 0, sizes |-> NoParts,
   entry |-> None]

WorkerState == [pc: {"idle", "read", "deleted"}, up: Upload \cup {None},
                part: {"folder", "blocks"}]
IdleWorker == [pc |-> "idle", up |-> None, part |-> "folder"]

(* An orphan claim and the number of the query it makes next; after the    *)
(* last query it enqueues the folder.                                      *)
ClaimerState == [at: 0..4, up: Upload \cup {None}]
IdleClaimer == [at |-> 0, up |-> None]

TypeOK ==
  /\ uploads \subseteq Upload
  /\ used \subseteq Upload
  /\ idle \in [Upload -> 0 .. CleanupIdleTimeout + 1]
  /\ finished \in [Upload -> Nat]
  /\ committed \in [Upload -> 0..MaxBlockListEntries]
  /\ created \subseteq Location
  /\ folderOf \in [Location -> Upload \cup {None}]
  /\ partCount \in [Location -> 0..MaxBlockListEntries]
  /\ index \in [Location -> Parts]
  /\ entryAt \in [Location -> Location \cup {None}]
  /\ tasks \subseteq Task
  /\ blocks \in [Upload -> SUBSET Block]
  /\ parts \in [Upload -> Parts]
  /\ client \in [Client -> ClientState]
  /\ worker \in [Worker -> WorkerState]
  /\ claimer \in [Claimer -> ClaimerState]

Init ==
  /\ uploads = {} /\ used = {} /\ created = {} /\ tasks = {}
  /\ idle = [u \in Upload |-> 0]
  /\ finished = [u \in Upload |-> 0]
  /\ committed = [u \in Upload |-> 0]
  /\ folderOf = [l \in Location |-> None]
  /\ partCount = [l \in Location |-> 0]
  /\ index = [l \in Location |-> NoParts]
  /\ entryAt = [l \in Location |-> None]
  /\ blocks = [u \in Upload |-> {}]
  /\ parts = [u \in Upload |-> NoParts]
  /\ client = [c \in Client |-> IdleClient]
  /\ worker = [w \in Worker |-> IdleWorker]
  /\ claimer = [k \in Claimer |-> IdleClaimer]

Entries == {e \in Location : entryAt[e] # None}
Located(u) == \E l \in Location : folderOf[l] = u
Attached(l) == \E e \in Location : entryAt[e] = l

Become(c, state) == client' = [client EXCEPT ![c] = state]
Go(c, pc) == client' = [client EXCEPT ![c].pc = pc]
Return(c) == Become(c, IdleClient)

(* A request fails, is cancelled, or dies with its process.                *)
GiveUp(c) ==
  /\ client[c].pc # "idle"
  /\ Return(c)
  /\ UNCHANGED <<rowVars, entryVars, tasks, objectVars, worker, claimer>>

-----------------------------------------------------------------------------
(* Giving a session up. *)

(* Fault: a session nothing was uploaded to is never idle. *)
InactiveOnceUploaded(u, timeout) ==
  u \in uploads /\ idle[u] > timeout /\ finished[u] > 0
Inactive(u, timeout) == u \in uploads /\ idle[u] > timeout

(* The row goes and its folder is enqueued, in one transaction.            *)
DropUpload(u) ==
  /\ uploads' = uploads \ {u}
  /\ tasks' = tasks \cup {<<u, "folder">>}

(* RunUploads, the cleanup of idle sessions.                               *)
RunUploads(u) ==
  /\ Inactive(u, CleanupIdleTimeout)
  /\ DropUpload(u)
  /\ UNCHANGED <<used, idle, finished, committed, entryVars, objectVars,
                 client, worker, claimer>>

-----------------------------------------------------------------------------
(* CreateUpload.  Whether a live entry exists is only advice (the check    *)
(* fails open), so a reservation may always be tried.                      *)

BeginCreate(c) ==
  /\ client[c].pc = "idle"
  /\ Become(c, [IdleClient EXCEPT !.pc = "find", !.op = "create"])
  /\ UNCHANGED <<rowVars, entryVars, tasks, objectVars, worker, claimer>>

FirstUploadByTuple(c) ==
  /\ client[c].pc = "find"
  /\ \/ uploads = {} /\ Go(c, "insert")
     \/ \E u \in uploads :
          client' = [client EXCEPT ![c].pc = "found", ![c].up = u]
  /\ UNCHANGED <<rowVars, entryVars, tasks, objectVars, worker, claimer>>

(* DeleteIfInactive of the session found; one that is still there is       *)
(* somebody else's (ErrUploadAlreadyExists).                               *)
TakeOver(c) ==
  LET u == client[c].up IN
  /\ client[c].pc = "found"
  /\ IF Inactive(u, TakeoverIdleTimeout)
       THEN DropUpload(u) /\ Go(c, "find")
       ELSE /\ IF u \in uploads THEN Return(c) ELSE Go(c, "find")
            /\ UNCHANGED <<uploads, tasks>>
  /\ UNCHANGED <<used, idle, finished, committed, entryVars, objectVars,
                 worker, claimer>>

(* tupleHash is unique: an insert that comes second starts over.           *)
CreateUploadRecord(c) ==
  /\ client[c].pc = "insert"
  /\ IF uploads = {}
       THEN \E u \in Upload \ used :
              /\ uploads' = {u}
              /\ used' = used \cup {u}
              /\ idle' = [idle EXCEPT ![u] = 0]
              /\ Return(c)
       ELSE Go(c, "find") /\ UNCHANGED <<uploads, used, idle>>
  /\ UNCHANGED <<finished, committed, entryVars, tasks, objectVars, worker,
                 claimer>>

-----------------------------------------------------------------------------
(* Requests on a session: the snapshot of its row, then the activity.      *)

Begin(c, request) ==
  /\ client[c].pc = "idle"
  /\ request.up \in uploads
  /\ Become(c, [request EXCEPT !.pc = "begun"])
  /\ UNCHANGED <<rowVars, entryVars, tasks, objectVars, worker, claimer>>

UploadPart(c, u) == Begin(c, [IdleClient EXCEPT !.op = "part", !.up = u])
UploadBlock(c, u, b) ==
  Begin(c, [IdleClient EXCEPT !.op = "block", !.up = u, !.block = b])
PrepareBlockListCommit(c, u, list) ==
  Begin(c, [IdleClient EXCEPT !.op = "commit", !.up = u, !.list = list])
CompleteUpload(c, u) ==
  Begin(c, [IdleClient EXCEPT !.op = "complete", !.up = u,
              !.finished = finished[u], !.committed = committed[u]])

NothingUploaded(c) == client[c].op = "complete" /\ client[c].finished = 0

(* Fault: the activity starts without touching the row. *)
TouchNothing(u) == UNCHANGED idle
Touched(u) == idle' = [idle EXCEPT ![u] = 0]

(* withUploadActivity begins: a session that is gone is not found.         *)
TouchUploadActivity(c) ==
  LET u == client[c].up IN
  /\ client[c].pc = "begun"
  /\ ~NothingUploaded(c)
  /\ IF u \in uploads THEN Touched(u) /\ Go(c, "active")
                      ELSE UNCHANGED idle /\ Return(c)
  /\ UNCHANGED <<uploads, used, finished, committed, entryVars, tasks,
                 objectVars, worker, claimer>>

(* renewUploadActivity: a heartbeat that fails, for want of the row or of  *)
(* the database, cancels the operation.                                    *)
RenewUploadActivity(c) ==
  LET u == client[c].up IN
  /\ client[c].pc = "active"
  /\ \/ u \in uploads /\ idle' = [idle EXCEPT ![u] = 0] /\ UNCHANGED client
     \/ UNCHANGED idle /\ Go(c, "cancelled")
  /\ UNCHANGED <<uploads, used, finished, committed, entryVars, tasks,
                 objectVars, worker, claimer>>

Acting(c) == client[c].pc \in {"active", "cancelled"}

(* An object write that completes, too late if the context was cancelled.  *)
UploadStream(c) ==
  LET u == client[c].up IN
  /\ Acting(c)
  /\ \/ /\ client[c].op = "part"
        /\ parts' = [parts EXCEPT ![u][0] = Whole]
        /\ UNCHANGED blocks
     \/ /\ client[c].op = "block"
        /\ blocks' = [blocks EXCEPT ![u] = @ \cup {client[c].block}]
        /\ UNCHANGED parts
  /\ IF client[c].pc = "active" THEN Go(c, "done") ELSE Return(c)
  /\ UNCHANGED <<rowVars, entryVars, tasks, worker, claimer>>

(* One CopyObject of a block list; a missing block fails the commit.       *)
CopyObject(c) ==
  LET u == client[c].up
      i == client[c].next
  IN
  /\ Acting(c)
  /\ client[c].op = "commit"
  /\ IF client[c].list[i + 1] \in blocks[u]
       THEN /\ parts' = [parts EXCEPT ![u][i] = client[c].list[i + 1]]
            /\ IF client[c].pc = "cancelled" THEN Return(c)
               ELSE client' = [client EXCEPT
                      ![c].next = i + 1,
                      ![c].pc = IF i + 1 = Len(client[c].list) THEN "done"
                                                               ELSE "active"]
       ELSE Return(c) /\ UNCHANGED parts
  /\ UNCHANGED <<rowVars, entryVars, tasks, blocks, worker, claimer>>

(* Fault: the part is added to the committed ones. *)
AddedPart(u) == committed[u] + 1
CommittedPart(u) == 1

(* uploadObject records the finished upload; UploadPart commits one part.  *)
MarkUploadFinished(c) ==
  LET u == client[c].up IN
  /\ client[c].pc = "done"
  /\ client[c].op \in {"part", "block"}
  /\ finished[u] < MaxFinished
  /\ IF u \in uploads
       THEN /\ idle' = [idle EXCEPT ![u] = 0]
            /\ finished' = [finished EXCEPT ![u] = @ + 1]
            /\ committed' = IF client[c].op = "part"
                              THEN [committed EXCEPT ![u] = CommittedPart(u)]
                              ELSE committed
       ELSE UNCHANGED <<idle, finished, committed>>
  /\ Return(c)
  /\ UNCHANGED <<uploads, used, entryVars, tasks, objectVars, worker, claimer>>

RecordBlockList(c) ==
  LET u == client[c].up IN
  /\ client[c].pc = "done"
  /\ client[c].op = "commit"
  /\ committed' = IF u \in uploads
                    THEN [committed EXCEPT ![u] = Len(client[c].list)]
                    ELSE committed
  /\ Return(c)
  /\ UNCHANGED <<uploads, used, idle, finished, entryVars, tasks, objectVars,
                 worker, claimer>>

-----------------------------------------------------------------------------
(* CompleteUpload. *)

(* The validation of the snapshot's part count against the folder.         *)
ValidateParts(c) ==
  LET u == client[c].up
      n == client[c].committed
  IN
  /\ client[c].pc = "active"
  /\ client[c].op = "complete"
  /\ IF /\ n \in 1 .. client[c].finished
        /\ \A i \in 0 .. n - 1 : parts[u][i] # None
       THEN client' = [client EXCEPT ![c].pc = "done", ![c].sizes = parts[u]]
       ELSE Go(c, "rejected")
  /\ UNCHANGED <<rowVars, entryVars, tasks, objectVars, worker, claimer>>

(* deleteUploadBestEffort: a session without valid parts is given up.      *)
RejectUpload(c) ==
  LET u == client[c].up IN
  /\ \/ client[c].pc = "rejected"
     \/ client[c].pc = "begun" /\ NothingUploaded(c)
  /\ IF u \in uploads THEN DropUpload(u) ELSE UNCHANGED <<uploads, tasks>>
  /\ Return(c)
  /\ UNCHANGED <<used, idle, finished, committed, entryVars, objectVars,
                 worker, claimer>>

(* completeUploadRecord reads the entry of the tuple, before any lock; two *)
(* of them would be an error.                                              *)
ReadExistingEntry(c) ==
  /\ client[c].pc = "done"
  /\ client[c].op = "complete"
  /\ \/ /\ Entries = {}
        /\ Go(c, "entryRead")
     \/ \E e \in Location :
          /\ Entries = {e}
          /\ client' = [client EXCEPT ![c].pc = "entryRead", ![c].entry = e]
  /\ UNCHANGED <<rowVars, entryVars, tasks, objectVars, worker, claimer>>

(* Fault: the deletion of the Upload row is not required to find it. *)
AnyUpload(c) == TRUE
StillOwnsUpload(c) == client[c].up \in uploads

(* Fault: the whole folder is enqueued. *)
FolderTask(u) == <<u, "folder">>
BlocksTask(u) == <<u, "blocks">>

(* The rest of the transaction: the location is created, the entry moved   *)
(* to it or created, the blocks enqueued and the Upload row deleted; it is *)
(* rolled back if the entry or the row is gone.                            *)
CompleteUploadRecord(c) ==
  LET u == client[c].up
      e == client[c].entry
  IN
  /\ client[c].pc = "entryRead"
  /\ IF StillOwnsUpload(c) /\ (e # None => entryAt[e] # None)
       THEN \E l \in Location \ created :
              /\ created' = created \cup {l}
              /\ folderOf' = [folderOf EXCEPT ![l] = u]
              /\ partCount' = [partCount EXCEPT ![l] = client[c].committed]
              /\ index' = [index EXCEPT ![l] = client[c].sizes]
              /\ entryAt' = [entryAt EXCEPT ![IF e = None THEN l ELSE e] = l]
              /\ tasks' = tasks \cup {BlocksTask(u)}
              /\ uploads' = uploads \ {u}
       ELSE UNCHANGED <<entryVars, tasks, uploads>>
  /\ Return(c)
  /\ UNCHANGED <<used, idle, finished, committed, objectVars, worker, claimer>>

-----------------------------------------------------------------------------
(* What the storage lifecycle does to a finalized location (see            *)
(* StorageLifecycle for how, and for merging, which is left out here).     *)

DetachEntry(e) ==
  /\ entryAt[e] # None
  /\ entryAt' = [entryAt EXCEPT ![e] = None]
  /\ UNCHANGED <<rowVars, created, folderOf, partCount, index, tasks,
                 objectVars, client, worker, claimer>>

FinalizeLocation(l) ==
  /\ folderOf[l] # None
  /\ ~Attached(l)
  /\ folderOf' = [folderOf EXCEPT ![l] = None]
  /\ tasks' = tasks \cup {<<folderOf[l], "folder">>}
  /\ UNCHANGED <<rowVars, created, partCount, index, entryAt, objectVars,
                 client, worker, claimer>>

-----------------------------------------------------------------------------
(* The outbox.  Duplicate rows for one folder are one task.                *)

ReadTask(w) ==
  /\ worker[w].pc = "idle"
  /\ \E t \in tasks :
       worker' = [worker EXCEPT ![w] =
                    [pc |-> "read", up |-> t[1], part |-> t[2]]]
  /\ UNCHANGED <<rowVars, entryVars, tasks, objectVars, client, claimer>>

DeleteFolder(w) ==
  LET u == worker[w].up IN
  /\ worker[w].pc = "read"
  /\ blocks' = [blocks EXCEPT ![u] = {}]
  /\ parts' = IF worker[w].part = "folder"
                THEN [parts EXCEPT ![u] = NoParts] ELSE parts
  /\ worker' = [worker EXCEPT ![w].pc = "deleted"]
  /\ UNCHANGED <<rowVars, entryVars, tasks, client, claimer>>

CompleteTask(w) ==
  /\ worker[w].pc = "deleted"
  /\ tasks' = tasks \ {<<worker[w].up, worker[w].part>>}
  /\ worker' = [worker EXCEPT ![w] = IdleWorker]
  /\ UNCHANGED <<rowVars, entryVars, objectVars, client, claimer>>

AbandonTask(w) ==
  /\ worker[w].pc # "idle"
  /\ worker' = [worker EXCEPT ![w] = IdleWorker]
  /\ UNCHANGED <<rowVars, entryVars, tasks, objectVars, client, claimer>>

-----------------------------------------------------------------------------
(* Orphaned storage.  The age of a folder is left out: it only puts the    *)
(* claim off.  The queries of a claim see the rows as they are at the time *)
(* of each, and their order follows the life of a folder.                  *)

(* Fault: only finalized parts are seen. *)
HasParts(u) == parts[u] # NoParts
HasObjects(u) == parts[u] # NoParts \/ blocks[u] # {}

(* Fault: the locations are queried before the uploads. *)
LocationsFirst(n) == <<"location", "upload", "deletion">>[n]
Query(n) == <<"upload", "location", "deletion">>[n]

Referenced(kind, u) ==
  \/ kind = "upload" /\ u \in uploads
  \/ kind = "location" /\ Located(u)
  \/ kind = "deletion" /\ \E t \in tasks : t[1] = u

(* A folder without references when its batch was looked up, reinspected.  *)
InspectFolder(k, u) ==
  /\ claimer[k].at = 0
  /\ HasObjects(u)
  /\ claimer' = [claimer EXCEPT ![k] = [at |-> 1, up |-> u]]
  /\ UNCHANGED <<rowVars, entryVars, tasks, objectVars, client, worker>>

RecheckReferences(k) ==
  /\ claimer[k].at \in 1..3
  /\ claimer' = [claimer EXCEPT ![k] =
       IF Referenced(Query(claimer[k].at), claimer[k].up)
         THEN IdleClaimer ELSE [claimer[k] EXCEPT !.at = @ + 1]]
  /\ UNCHANGED <<rowVars, entryVars, tasks, objectVars, client, worker>>

ClaimOrphanedStorageFolder(k) ==
  /\ claimer[k].at = 4
  /\ tasks' = tasks \cup {<<claimer[k].up, "folder">>}
  /\ claimer' = [claimer EXCEPT ![k] = IdleClaimer]
  /\ UNCHANGED <<rowVars, entryVars, objectVars, client, worker>>

-----------------------------------------------------------------------------
(* Time passes; a running activity sends its heartbeats on time, for one   *)
(* that fails cancels it.                                                  *)
Tick ==
  /\ \E u \in uploads : idle[u] <= CleanupIdleTimeout
  /\ \A c \in Client :
       client[c].pc = "active" /\ client[c].up \in uploads
         => idle[client[c].up] < HeartbeatInterval
  /\ idle' = [u \in Upload |-> IF u \in uploads /\ idle[u] <= CleanupIdleTimeout
                                 THEN idle[u] + 1 ELSE idle[u]]
  /\ UNCHANGED <<uploads, used, finished, committed, entryVars, tasks,
                 objectVars, client, worker, claimer>>

CreateStep(c) ==
  \/ BeginCreate(c)
  \/ FirstUploadByTuple(c)
  \/ TakeOver(c)
  \/ CreateUploadRecord(c)

BeginStep(c) ==
  \E u \in Upload :
    \/ UploadPart(c, u)
    \/ \E b \in Block : UploadBlock(c, u, b)
    \/ \E list \in BlockList : PrepareBlockListCommit(c, u, list)
    \/ CompleteUpload(c, u)

ActivityStep(c) ==
  \/ TouchUploadActivity(c)
  \/ RenewUploadActivity(c)
  \/ UploadStream(c)
  \/ CopyObject(c)
  \/ MarkUploadFinished(c)
  \/ RecordBlockList(c)

CompleteStep(c) ==
  \/ ValidateParts(c)
  \/ RejectUpload(c)
  \/ ReadExistingEntry(c)
  \/ CompleteUploadRecord(c)

ClientStep(c) ==
  \/ CreateStep(c)
  \/ BeginStep(c)
  \/ ActivityStep(c)
  \/ CompleteStep(c)
  \/ GiveUp(c)

CleanupStep ==
  \/ \E u \in Upload : RunUploads(u)
  \/ \E l \in Location : DetachEntry(l) \/ FinalizeLocation(l)
  \/ \E w \in Worker :
       ReadTask(w) \/ DeleteFolder(w) \/ CompleteTask(w) \/ AbandonTask(w)
  \/ \E k \in Claimer :
       \/ \E u \in Upload : InspectFolder(k, u)
       \/ RecheckReferences(k)
       \/ ClaimOrphanedStorageFolder(k)

Next ==
  \/ \E c \in Client : ClientStep(c)
  \/ CleanupStep
  \/ Tick

Spec == Init /\ [][Next]_vars

-----------------------------------------------------------------------------
(* Safety. *)

(* A task is in the outbox or in the hands of a worker. *)
Pending(u, part) ==
  \/ <<u, part>> \in tasks
  \/ \E w \in Worker : /\ worker[w].pc # "idle"
                       /\ worker[w].up = u
                       /\ worker[w].part = part

FolderTasksUnowned ==
  \A u \in Upload : Pending(u, "folder") => u \notin uploads /\ ~Located(u)

(* Two requests completing one session make one location of its folder,    *)
(* and it is no session any more: StorageLifecycle takes folders to be     *)
(* those of their locations alone.                                         *)
OneOwnerPerFolder ==
  \A l \in Location :
    folderOf[l] # None =>
      /\ folderOf[l] \notin uploads
      /\ \A m \in Location : folderOf[m] = folderOf[l] => m = l

(* No index makes the entry of a tuple unique, completeUploadRecord must.  *)
OneEntryPerTuple == \A d, e \in Entries : d = e

(* Every part of a finalized location is in storage. *)
FinalizedComplete ==
  \A l \in Location :
    folderOf[l] # None =>
      /\ partCount[l] > 0
      /\ \A i \in 0 .. partCount[l] - 1 : parts[folderOf[l]][i] # None

(* Whatever takeovers, rejections, completions and orphan claims race, the *)
(* deletion of a folder is never pending while a session or a location     *)
(* owns it, and no outbox worker takes a part of a published location      *)
(* (DeleteIfInactive, deleteUpload, claimOrphanedStorageFolder, Process).  *)
OwnedFoldersKept == FolderTasksUnowned /\ FinalizedComplete

(* A session has the parts it says are committed, so a client that saw its *)
(* commit succeed can complete it.                                         *)
CommittedStored ==
  \A u \in uploads : \A i \in 0 .. committed[u] - 1 : parts[u][i] # None

-----------------------------------------------------------------------------
(* Why it holds: what requests and jobs know of rows they do not lock.     *)

(* A request at a step of its operation; past its snapshot it has a        *)
(* session of those drawn.                                                 *)
RequestOK(r, drawn) ==
  /\ r.pc \notin {"idle", "find", "insert"} => r.up \in drawn
  /\ r.pc \in {"find", "found", "insert"} => r.op = "create"
  /\ r.pc \in {"begun", "active", "cancelled", "done"}
       => r.op \in {"part", "block", "commit", "complete"}
  /\ r.pc \in {"rejected", "entryRead"} => r.op = "complete"
  /\ r.op = "block" => r.block # None
  /\ r.op = "commit" => /\ r.list \in BlockList
                        /\ IF r.pc = "done" THEN r.next = Len(r.list)
                                            ELSE r.next < Len(r.list)
  /\ r.committed <= MaxBlockListEntries
  /\ r.op = "complete" /\ r.pc \in {"done", "entryRead"} => r.committed > 0

RequestInv == \A c \in Client : RequestOK(client[c], used)

(* Session ids are drawn once, the tuple has one session, and a folder is  *)
(* empty until its id is drawn.                                            *)
RowInv ==
  /\ uploads \subseteq used
  /\ \A u, v \in uploads : u = v
  /\ \A u \in Upload \ used :
       committed[u] = 0 /\ parts[u] = NoParts /\ blocks[u] = {}

OwnerInv ==
  /\ OneOwnerPerFolder
  /\ \A l \in Location : folderOf[l] # None => folderOf[l] \in used

TaskInv ==
  /\ FolderTasksUnowned
  /\ \A u \in Upload : Pending(u, "folder") => u \in used

(* What the queries of an orphan claim have excluded stays excluded: a     *)
(* folder goes from its session to its location and to nothing after that. *)
ClaimInv ==
  \A k \in Claimer :
    /\ claimer[k].at >= 1 => claimer[k].up \in used
    /\ claimer[k].at >= 2 => claimer[k].up \notin uploads
    /\ claimer[k].at >= 3 => ~Located(claimer[k].up)

(* A request that may still finalize the session has seen the only entry.  *)
EntryInv ==
  /\ OneEntryPerTuple
  /\ \A c \in Client :
       client[c].pc = "entryRead" /\ client[c].up \in uploads
         => Entries \subseteq {client[c].entry}

(* How many parts of its session a request has seen or put in storage.     *)
Secured(r) ==
  CASE r.op = "part" /\ r.pc = "done" -> 1
    [] r.op = "commit" -> r.next
    [] r.op = "complete" /\ r.pc \in {"done", "entryRead"} -> r.committed
    [] OTHER -> 0

StoredInv ==
  /\ CommittedStored
  /\ FinalizedComplete
  /\ \A c \in Client :
       client[c].pc # "idle" /\ client[c].up \in uploads
         => \A i \in 0 .. Secured(client[c]) - 1 :
              parts[client[c].up][i] # None

HeartbeatInv ==
  \A c \in Client :
    client[c].pc = "active" /\ client[c].up \in uploads
      => idle[client[c].up] <= HeartbeatInterval

(* What UploadSession guarantees of the rows and the parts of sessions,    *)
(* however requests, takeovers and completions overlap, and why.           *)
SessionInv ==
  /\ TypeOK /\ RequestInv /\ RowInv /\ OwnerInv /\ TaskInv
  /\ ClaimInv /\ EntryInv /\ StoredInv /\ HeartbeatInv

(* A session with a running operation ends only by being completed or      *)
(* rejected by a request of its own, never as idle (withUploadActivity).   *)
ActiveNotTakenOver ==
  [][\A c \in Client, u \in Upload :
       /\ client[c].pc = "active" /\ client[c].up = u
       /\ u \in uploads \ uploads'
       => \E d \in Client : /\ client[d].op = "complete"
                            /\ client[d].up = u
                            /\ client'[d] # client[d]]_vars

(* partIndexCache "keeps immutable finalized-part boundaries": the parts   *)
(* of a finalized location are those its index was computed from.          *)
FinalizedBoundariesKept ==
  \A l \in Location :
    folderOf[l] # None /\ partCount[l] >= 2 =>
      \A i \in 0 .. partCount[l] - 1 : parts[folderOf[l]][i] = index[l][i]

-----------------------------------------------------------------------------
(* Liveness. *)

(* Requests and jobs go on; the clock runs.  A deletion may fail any       *)
(* number of times but not for ever, and an orphan claim may be put off by *)
(* a folder that is referenced at that time.                               *)
Fairness ==
  /\ WF_vars(Tick)
  /\ \A c \in Client : WF_vars(ActivityStep(c) \/ GiveUp(c))
  /\ \A u \in Upload : WF_vars(RunUploads(u))
  /\ \A w \in Worker :
       /\ WF_vars(ReadTask(w))
       /\ SF_vars(DeleteFolder(w))
       /\ SF_vars(CompleteTask(w))
  /\ \A k \in Claimer :
       /\ \A u \in Upload : SF_vars(InspectFolder(k, u))
       /\ WF_vars(RecheckReferences(k))
       /\ WF_vars(ClaimOrphanedStorageFolder(k))

FairSpec == Spec /\ Fairness

(* A folder nothing owns any more is eventually empty for good, although   *)
(* requests that were running when it was given up write into it late.     *)
UnownedReclaimed ==
  \A u \in Upload :
    u \in used /\ u \notin uploads /\ ~Located(u)
      ~> [](blocks[u] = {} /\ parts[u] = NoParts)

(* A session its clients have left does not hold its tuple for ever. *)
AbandonedSessionsEnd ==
  \A u \in Upload :
    <>[](\A c \in Client : client[c].up # u) => <>[](u \notin uploads)
=============================================================================
