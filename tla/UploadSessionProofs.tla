------------------------- MODULE UploadSessionProofs -------------------------
(***************************************************************************)
(* Proofs about UploadSession, for every number of sessions, locations,    *)
(* requests, outbox workers and orphaned storage jobs, and all timeouts.   *)
(***************************************************************************)
EXTENDS UploadSession, TLAPS

USE DEF rowVars, entryVars, objectVars

-----------------------------------------------------------------------------
(* Types.  What a request knows of its session belongs to its type: an     *)
(* operation that is past its snapshot has a session, a commit has a list. *)

LEMMA IdleTypes ==
  /\ NoParts \in Parts
  /\ IdleClient \in ClientState
  /\ RequestOK(IdleClient, {})
  /\ IdleWorker \in WorkerState
  /\ IdleClaimer \in ClaimerState
BY BlockAssumption
   DEF NoParts, Parts, Data, IdleClient, IdleWorker, IdleClaimer, ClientState,
       WorkerState, ClaimerState, RequestOK

LEMMA BlockLists ==
  /\ 0 \in PartIndex
  /\ BlockList \subseteq Seq(Block)
  /\ \A list \in BlockList : Len(list) \in 1 .. MaxBlockListEntries
  /\ \A u \in Upload : u # None
  /\ \A b \in Block : b # None
  /\ Whole # None /\ Whole \in Data /\ None \in Data
BY BlockAssumption DEF PartIndex, Data

(* More ids drawn never hurt a request.                                    *)
LEMMA DrawnGrows ==
  ASSUME NEW r, NEW S, NEW T, S \subseteq T, RequestOK(r, S)
  PROVE  RequestOK(r, T)
BY DEF RequestOK

(* A step that moves one request keeps the types of the others.            *)
LEMMA BecomeType ==
  ASSUME TypeOK, RequestInv, used \subseteq used', NEW c \in Client,
         NEW state \in ClientState, RequestOK(state, used'), Become(c, state)
  PROVE  client' \in [Client -> ClientState] /\ RequestInv'
<1>1. client' \in [Client -> ClientState]
  BY DEF TypeOK, Become
<1>2. ASSUME NEW d \in Client PROVE RequestOK(client'[d], used')
  <2>1. CASE d = c
    BY <2>1 DEF TypeOK, Become
  <2>2. CASE d # c
    <3>1. client'[d] = client[d] /\ RequestOK(client[d], used)
      BY <2>2 DEF TypeOK, Become, RequestInv
    <3> QED
      BY <3>1, DrawnGrows
  <2> QED
    BY <2>1, <2>2
<1> QED
  BY <1>1, <1>2 DEF RequestInv

LEMMA ReturnType ==
  ASSUME TypeOK, RequestInv, used \subseteq used', NEW c \in Client, Return(c)
  PROVE  client' \in [Client -> ClientState] /\ RequestInv'
<1>1. RequestOK(IdleClient, used')
  BY IdleTypes, DrawnGrows
<1> QED
  BY <1>1, IdleTypes, BecomeType DEF Return

LEMMA SameClientType ==
  ASSUME TypeOK, RequestInv, used \subseteq used', UNCHANGED client
  PROVE  client' \in [Client -> ClientState] /\ RequestInv'
BY DrawnGrows DEF TypeOK, RequestInv

(* The updates requests make of themselves.                                *)
LEMMA ClientUpdate ==
  ASSUME NEW s \in ClientState,
         NEW pc \in {"idle", "find", "found", "insert", "begun", "active",
                     "cancelled", "done", "rejected", "entryRead"}
  PROVE  /\ [s EXCEPT !.pc = pc] \in ClientState
         /\ \A u \in Upload : [s EXCEPT !.pc = pc, !.up = u] \in ClientState
         /\ \A n \in Nat : [s EXCEPT !.next = n, !.pc = pc] \in ClientState
         /\ \A sizes \in Parts :
              [s EXCEPT !.pc = pc, !.sizes = sizes] \in ClientState
         /\ \A e \in Location \cup {None} :
              [s EXCEPT !.pc = pc, !.entry = e] \in ClientState
<1>1. [s EXCEPT !.pc = pc] \in ClientState
  BY DEF ClientState
<1>2. \A u \in Upload : [s EXCEPT !.pc = pc, !.up = u] \in ClientState
  BY DEF ClientState
<1>3. \A n \in Nat : [s EXCEPT !.next = n, !.pc = pc] \in ClientState
  BY DEF ClientState
<1>4. \A sizes \in Parts :
        [s EXCEPT !.pc = pc, !.sizes = sizes] \in ClientState
  BY DEF ClientState
<1>5. \A e \in Location \cup {None} :
        [s EXCEPT !.pc = pc, !.entry = e] \in ClientState
  BY DEF ClientState
<1> QED
  BY <1>1, <1>2, <1>3, <1>4, <1>5

(* Steps that only move on: nothing more is demanded of a request.         *)
LEMMA GoType ==
  ASSUME TypeOK, RequestInv, used \subseteq used', NEW c \in Client,
         NEW pc \in {"find", "insert", "begun", "active", "cancelled", "done",
                     "rejected", "entryRead"},
         \A s \in ClientState :
           s = client[c] => RequestOK([s EXCEPT !.pc = pc], used'),
         Go(c, pc)
  PROVE  client' \in [Client -> ClientState] /\ RequestInv'
<1>1. client[c] \in ClientState
  BY DEF TypeOK
<1>2. [client[c] EXCEPT !.pc = pc] \in ClientState
  <2>1. \A s \in ClientState : [s EXCEPT !.pc = pc] \in ClientState
    BY DEF ClientState
  <2> QED
    BY <1>1, <2>1
<1>3. Become(c, [client[c] EXCEPT !.pc = pc])
  BY DEF TypeOK, Go, Become
<1> QED
  BY <1>1, <1>2, <1>3, BecomeType

ClientTyped == client \in [Client -> ClientState] /\ RequestInv

LEMMA CreateStepClient ==
  ASSUME TypeOK, RequestInv, uploads \subseteq used,
         NEW c \in Client, CreateStep(c)
  PROVE  ClientTyped'
<1> USE DEF ClientTyped
<1>0. PICK s \in ClientState : s = client[c] /\ RequestOK(s, used)
  BY DEF TypeOK, RequestInv
<1>1. CASE BeginCreate(c)
  <2>1. [IdleClient EXCEPT !.pc = "find", !.op = "create"] \in ClientState
    BY IdleTypes DEF ClientState
  <2>2. RequestOK([IdleClient EXCEPT !.pc = "find", !.op = "create"], used')
    BY BlockAssumption DEF RequestOK, IdleClient
  <2> QED
    BY <1>1, <2>1, <2>2, BecomeType DEF BeginCreate
<1>2. CASE FirstUploadByTuple(c)
  <2>1. CASE Go(c, "insert")
    <3>1. RequestOK([s EXCEPT !.pc = "insert"], used')
      BY <1>0, <1>2 DEF FirstUploadByTuple, RequestOK, ClientState
    <3> QED
      BY <1>0, <1>2, <2>1, <3>1, GoType DEF FirstUploadByTuple
  <2>2. ASSUME NEW u \in uploads,
               client' = [client EXCEPT ![c].pc = "found", ![c].up = u]
        PROVE  ClientTyped'
    <3>1. [s EXCEPT !.pc = "found", !.up = u] \in ClientState
      BY ClientUpdate, IdleTypes DEF TypeOK
    <3>2. RequestOK([s EXCEPT !.pc = "found", !.up = u], used')
      BY <1>0, <1>2 DEF FirstUploadByTuple, RequestOK, ClientState
    <3>3. Become(c, [s EXCEPT !.pc = "found", !.up = u])
      BY <1>0, <2>2 DEF Become, TypeOK
    <3> QED
      BY <1>2, <3>1, <3>2, <3>3, BecomeType DEF FirstUploadByTuple
  <2> QED
    BY <1>2, <2>1, <2>2 DEF FirstUploadByTuple
<1>3. CASE TakeOver(c)
  <2>1. RequestOK([s EXCEPT !.pc = "find"], used')
    BY <1>0, <1>3 DEF TakeOver, RequestOK, ClientState
  <2> QED
    BY <1>0, <1>3, <2>1, GoType, ReturnType DEF TakeOver
<1>4. CASE CreateUploadRecord(c)
  <2>1. RequestOK([s EXCEPT !.pc = "find"], used')
    BY <1>0, <1>4 DEF CreateUploadRecord, RequestOK, ClientState
  <2>2. used \subseteq used'
    BY <1>4 DEF CreateUploadRecord
  <2> QED
    BY <1>0, <1>4, <2>1, <2>2, GoType, ReturnType DEF CreateUploadRecord
<1> QED
  BY <1>1, <1>2, <1>3, <1>4 DEF CreateStep

LEMMA BeginStepClient ==
  ASSUME TypeOK, RequestInv, uploads \subseteq used,
         NEW c \in Client, BeginStep(c)
  PROVE  ClientTyped'
<1> USE DEF ClientTyped
<1>0. ASSUME NEW r \in ClientState, Begin(c, r),
             r.op \in {"part", "block", "commit", "complete"},
             r.op = "block" => r.block # None,
             r.op = "commit" => r.list \in BlockList /\ r.next = 0,
             r.committed <= MaxBlockListEntries
      PROVE  ClientTyped'
  <2>1. [r EXCEPT !.pc = "begun"] \in ClientState
    BY ClientUpdate
  <2>2. RequestOK([r EXCEPT !.pc = "begun"], used')
    BY <1>0, BlockLists DEF Begin, RequestOK, ClientState
  <2> QED
    BY <1>0, <2>1, <2>2, BecomeType DEF Begin
<1>1. ASSUME NEW u \in Upload, UploadPart(c, u) PROVE ClientTyped'
  <2>1. PICK r : r = [IdleClient EXCEPT !.op = "part", !.up = u]
    OBVIOUS
  <2>2. r \in ClientState /\ r.op = "part" /\ r.committed = 0
    BY <2>1, IdleTypes DEF ClientState, IdleClient
  <2>3. Begin(c, r)
    BY <1>1, <2>1, Zenon DEF UploadPart
  <2> QED
    BY <1>0, <2>2, <2>3, BlockAssumption
<1>2. ASSUME NEW u \in Upload, NEW b \in Block, UploadBlock(c, u, b)
      PROVE  ClientTyped'
  <2>1. PICK r : r = [IdleClient EXCEPT !.op = "block", !.up = u, !.block = b]
    OBVIOUS
  <2>2. r \in ClientState
    BY <2>1, IdleTypes DEF ClientState
  <2>3. r.op = "block" /\ r.block = b /\ r.committed = 0
    BY <2>1 DEF IdleClient
  <2>4. Begin(c, r)
    BY <1>2, <2>1, Zenon DEF UploadBlock
  <2> QED
    BY <1>0, <2>2, <2>3, <2>4, BlockAssumption, BlockLists
<1>3. ASSUME NEW u \in Upload, NEW list \in BlockList,
             PrepareBlockListCommit(c, u, list)
      PROVE  ClientTyped'
  <2>1. PICK r : r = [IdleClient EXCEPT !.op = "commit", !.up = u, !.list = list]
    OBVIOUS
  <2>2. r \in ClientState
    BY <2>1, IdleTypes DEF ClientState
  <2>3. r.op = "commit" /\ r.list = list /\ r.next = 0 /\ r.committed = 0
    BY <2>1 DEF IdleClient
  <2>4. Begin(c, r)
    BY <1>3, <2>1, Zenon DEF PrepareBlockListCommit
  <2> QED
    BY <1>0, <2>2, <2>3, <2>4, BlockAssumption
<1>4. ASSUME NEW u \in Upload, CompleteUpload(c, u) PROVE ClientTyped'
  <2>1. PICK r : r = [IdleClient EXCEPT !.op = "complete", !.up = u,
                       !.finished = finished[u], !.committed = committed[u]]
    OBVIOUS
  <2>2. finished[u] \in Nat /\ committed[u] \in 0 .. MaxBlockListEntries
    BY DEF TypeOK
  <2>3. r \in ClientState
    <3>1. ASSUME NEW s \in ClientState, NEW m \in Nat, NEW n \in Nat
          PROVE  [s EXCEPT !.op = "complete", !.up = u, !.finished = m,
                           !.committed = n] \in ClientState
      BY DEF ClientState
    <3>2. committed[u] \in Nat
      BY <2>2
    <3> QED
      BY <2>1, <2>2, <3>1, <3>2, IdleTypes
  <2>4. r.op = "complete" /\ r.committed = committed[u]
    BY <2>1 DEF IdleClient
  <2>5. Begin(c, r)
    BY <1>4, <2>1, Zenon DEF CompleteUpload
  <2> QED
    BY <1>0, <2>2, <2>3, <2>4, <2>5, BlockAssumption
<1> QED
  BY <1>1, <1>2, <1>3, <1>4 DEF BeginStep

LEMMA ActivityStepClient ==
  ASSUME TypeOK, RequestInv, NEW c \in Client, ActivityStep(c)
  PROVE  ClientTyped'
<1> USE DEF ClientTyped
<1>0. PICK s \in ClientState : s = client[c] /\ RequestOK(s, used)
  BY DEF TypeOK, RequestInv
<1>1. CASE TouchUploadActivity(c)
  <2>1. RequestOK([s EXCEPT !.pc = "active"], used')
    BY <1>0, <1>1 DEF TouchUploadActivity, RequestOK, ClientState
  <2> QED
    BY <1>0, <1>1, <2>1, GoType, ReturnType DEF TouchUploadActivity
<1>2. CASE RenewUploadActivity(c)
  <2>1. RequestOK([s EXCEPT !.pc = "cancelled"], used')
    BY <1>0, <1>2 DEF RenewUploadActivity, RequestOK, ClientState
  <2> QED
    BY <1>0, <1>2, <2>1, GoType, SameClientType DEF RenewUploadActivity
<1>3. CASE UploadStream(c)
  <2>1. RequestOK([s EXCEPT !.pc = "done"], used')
    BY <1>0, <1>3 DEF UploadStream, Acting, RequestOK, ClientState
  <2> QED
    BY <1>0, <1>3, <2>1, GoType, ReturnType DEF UploadStream
<1>4. CASE CopyObject(c)
  <2>1. CASE Return(c)
    BY <1>4, <2>1, ReturnType DEF CopyObject
  <2>2. ASSUME NEW i \in Nat, i = s.next, s.pc = "active",
               NEW pc \in {"active", "done"},
               pc = IF i + 1 = Len(s.list) THEN "done" ELSE "active",
               client' = [client EXCEPT ![c].next = i + 1, ![c].pc = pc]
        PROVE  ClientTyped'
    <3>1. [s EXCEPT !.next = i + 1, !.pc = pc] \in ClientState
      <4>1. i + 1 \in Nat
        OBVIOUS
      <4> QED
        BY <4>1, ClientUpdate
    <3>2. s.op = "commit" /\ used' = used
      BY <1>0, <1>4 DEF CopyObject
    <3>3. RequestOK([s EXCEPT !.next = i + 1, !.pc = pc], used')
      BY <1>0, <2>2, <3>2, BlockLists DEF RequestOK, ClientState
    <3>4. Become(c, [s EXCEPT !.next = i + 1, !.pc = pc])
      BY <1>0, <2>2 DEF Become, TypeOK
    <3> QED
      BY <3>1, <3>2, <3>3, <3>4, BecomeType
  <2>3. s.next \in Nat
    BY DEF ClientState
  <2> QED
    BY <1>0, <1>4, <2>1, <2>2, <2>3 DEF CopyObject, Acting
<1>5. CASE MarkUploadFinished(c)
  BY <1>5, ReturnType DEF MarkUploadFinished
<1>6. CASE RecordBlockList(c)
  BY <1>6, ReturnType DEF RecordBlockList
<1> QED
  BY <1>1, <1>2, <1>3, <1>4, <1>5, <1>6 DEF ActivityStep

LEMMA CompleteStepClient ==
  ASSUME TypeOK, RequestInv, NEW c \in Client, CompleteStep(c)
  PROVE  ClientTyped'
<1> USE DEF ClientTyped
<1>0. PICK s \in ClientState : s = client[c] /\ RequestOK(s, used)
  BY DEF TypeOK, RequestInv
<1>1. CASE ValidateParts(c)
  <2>1. CASE Go(c, "rejected")
    <3>1. RequestOK([s EXCEPT !.pc = "rejected"], used')
      BY <1>0, <1>1 DEF ValidateParts, RequestOK, ClientState
    <3> QED
      BY <1>0, <1>1, <2>1, <3>1, GoType DEF ValidateParts
  <2>2. CASE /\ s.committed \in 1 .. s.finished
             /\ client' = [client EXCEPT ![c].pc = "done",
                                         ![c].sizes = parts[s.up]]
    <3>1. s.up \in Upload
      BY <1>0, <1>1 DEF ValidateParts, RequestOK, TypeOK
    <3>2. [s EXCEPT !.pc = "done", !.sizes = parts[s.up]] \in ClientState
      BY <3>1, ClientUpdate DEF TypeOK
    <3>3. RequestOK([s EXCEPT !.pc = "done", !.sizes = parts[s.up]], used')
      BY <1>0, <1>1, <2>2 DEF ValidateParts, RequestOK, ClientState
    <3>4. Become(c, [s EXCEPT !.pc = "done", !.sizes = parts[s.up]])
      BY <1>0, <2>2 DEF Become, TypeOK
    <3> QED
      BY <1>1, <3>2, <3>3, <3>4, BecomeType DEF ValidateParts
  <2> QED
    BY <1>0, <1>1, <2>1, <2>2 DEF ValidateParts
<1>2. CASE RejectUpload(c)
  BY <1>2, ReturnType DEF RejectUpload
<1>3. CASE ReadExistingEntry(c)
  <2>1. ASSUME NEW e \in Location \cup {None},
               client' = [client EXCEPT ![c].pc = "entryRead", ![c].entry = e]
        PROVE  ClientTyped'
    <3>1. [s EXCEPT !.pc = "entryRead", !.entry = e] \in ClientState
      BY ClientUpdate
    <3>2. RequestOK([s EXCEPT !.pc = "entryRead", !.entry = e], used')
      BY <1>0, <1>3 DEF ReadExistingEntry, RequestOK, ClientState
    <3>3. Become(c, [s EXCEPT !.pc = "entryRead", !.entry = e])
      BY <1>0, <2>1 DEF Become, TypeOK
    <3> QED
      BY <1>3, <3>1, <3>2, <3>3, BecomeType DEF ReadExistingEntry
  <2>2. CASE Go(c, "entryRead")
    <3>1. RequestOK([s EXCEPT !.pc = "entryRead"], used')
      BY <1>0, <1>3 DEF ReadExistingEntry, RequestOK, ClientState
    <3> QED
      BY <1>0, <1>3, <2>2, <3>1, GoType DEF ReadExistingEntry
  <2> QED
    BY <1>3, <2>1, <2>2 DEF ReadExistingEntry
<1>4. CASE CompleteUploadRecord(c)
  BY <1>4, ReturnType DEF CompleteUploadRecord
<1> QED
  BY <1>1, <1>2, <1>3, <1>4 DEF CompleteStep

(* The rows, tasks and objects a request writes keep their types.          *)
LEMMA RequestStepType ==
  ASSUME TypeOK, RequestInv, NEW c \in Client, ClientStep(c), ClientTyped'
  PROVE  TypeOK'
<1>0. client' \in [Client -> ClientState]
  BY DEF ClientTyped
<1>1. CASE UNCHANGED <<rowVars, entryVars, tasks, objectVars, worker, claimer>>
  BY <1>0, <1>1 DEF TypeOK
<1>2. CASE TakeOver(c)
  BY <1>0, <1>2 DEF TakeOver, DropUpload, Inactive, TypeOK, Task
<1>3. CASE CreateUploadRecord(c)
  BY <1>0, <1>3, TimeoutAssumption DEF CreateUploadRecord, TypeOK
<1>4. CASE TouchUploadActivity(c)
  BY <1>0, <1>4, TimeoutAssumption DEF TouchUploadActivity, Touched, TypeOK
<1>5. CASE RenewUploadActivity(c)
  BY <1>0, <1>5, TimeoutAssumption DEF RenewUploadActivity, TypeOK
<1>6. CASE UploadStream(c)
  <2>1. PICK u : u = client[c].up
    OBVIOUS
  <2>2. parts' \in [Upload -> Parts]
    <3>1. \A p \in Parts : [p EXCEPT ![0] = Whole] \in Parts
      BY BlockLists DEF Parts
    <3> QED
      BY <1>6, <2>1, <3>1 DEF UploadStream, TypeOK
  <2>3. blocks' \in [Upload -> SUBSET Block]
    <3>1. client[c].op = "block" => client[c].block \in Block
      BY DEF RequestInv, RequestOK, TypeOK, ClientState
    <3> QED
      BY <1>6, <2>1, <3>1 DEF UploadStream, TypeOK
  <2> QED
    BY <1>0, <1>6, <2>2, <2>3 DEF UploadStream, TypeOK
<1>7. CASE CopyObject(c)
  <2>1. PICK u \in Upload : u = client[c].up
    BY <1>7 DEF CopyObject, Acting, RequestInv, RequestOK, TypeOK
  <2>2. PICK b : b = client[c].list[client[c].next + 1]
    OBVIOUS
  <2>3. PICK i : i = client[c].next
    OBVIOUS
  <2>4. b \in blocks[u] => b \in Data
    BY DEF TypeOK, Data
  <2>5. ASSUME b \in blocks[u] PROVE [parts[u] EXCEPT ![i] = b] \in Parts
    BY <2>4, <2>5 DEF Parts, TypeOK
  <2>6. parts' \in [Upload -> Parts]
    BY <1>7, <2>1, <2>2, <2>3, <2>5 DEF CopyObject, TypeOK
  <2> QED
    BY <1>0, <1>7, <2>6 DEF CopyObject, TypeOK
<1>8. CASE MarkUploadFinished(c)
  <2>1. idle' \in [Upload -> 0 .. CleanupIdleTimeout + 1]
    BY <1>8, TimeoutAssumption DEF MarkUploadFinished, TypeOK
  <2>2. finished' \in [Upload -> Nat]
    BY <1>8 DEF MarkUploadFinished, TypeOK
  <2>3. committed' \in [Upload -> 0 .. MaxBlockListEntries]
    <3>1. CommittedPart(client[c].up) \in 0 .. MaxBlockListEntries
      BY BlockAssumption DEF CommittedPart
    <3>2. \/ committed' = committed
          \/ committed' = [committed EXCEPT ![client[c].up] =
                                         CommittedPart(client[c].up)]
      BY <1>8, Zenon DEF MarkUploadFinished
    <3> QED
      BY <3>1, <3>2 DEF TypeOK
  <2> QED
    BY <1>0, <1>8, <2>1, <2>2, <2>3 DEF MarkUploadFinished, TypeOK
<1>9. CASE RecordBlockList(c)
  <2>1. Len(client[c].list) \in 0 .. MaxBlockListEntries
    BY <1>9, BlockLists DEF RecordBlockList, RequestInv, RequestOK
  <2> QED
    BY <1>0, <1>9, <2>1 DEF RecordBlockList, TypeOK
<1>10. CASE RejectUpload(c)
  BY <1>0, <1>10 DEF RejectUpload, DropUpload, TypeOK, Task
<1>11. CASE CompleteUploadRecord(c)
  <2>1. /\ client[c].up \in Upload
        /\ client[c].committed \in 0 .. MaxBlockListEntries
        /\ client[c].sizes \in Parts
        /\ client[c].entry \in Location \cup {None}
    <3>1. PICK s \in ClientState :
            s = client[c] /\ RequestOK(s, used) /\ s.pc = "entryRead"
      BY <1>11 DEF CompleteUploadRecord, RequestInv, TypeOK
    <3>2. s.up \in Upload
      BY <3>1 DEF RequestOK, TypeOK
    <3>3. s.committed \in 0 .. MaxBlockListEntries
      BY <3>1, BlockAssumption DEF RequestOK, ClientState
    <3> QED
      BY <3>1, <3>2, <3>3 DEF ClientState
  <2> QED
    BY <1>0, <1>11, <2>1
       DEF CompleteUploadRecord, TypeOK, Task, BlocksTask
<1> QED
  BY <1>1, <1>2, <1>3, <1>4, <1>5, <1>6, <1>7, <1>8, <1>9, <1>10, <1>11
     DEF ClientStep, CreateStep, BeginStep, ActivityStep, CompleteStep, GiveUp,
         BeginCreate, FirstUploadByTuple, UploadPart, UploadBlock,
         PrepareBlockListCommit, CompleteUpload, Begin, ValidateParts,
         ReadExistingEntry

LEMMA CleanupStepType ==
  ASSUME TypeOK, ClaimInv, CleanupStep
  PROVE  TypeOK'
<1>1. ASSUME NEW u \in Upload, RunUploads(u) PROVE TypeOK'
  BY <1>1 DEF RunUploads, DropUpload, TypeOK, Task
<1>2. ASSUME NEW l \in Location, DetachEntry(l) PROVE TypeOK'
  BY <1>2 DEF DetachEntry, TypeOK
<1>3. ASSUME NEW l \in Location, FinalizeLocation(l) PROVE TypeOK'
  BY <1>3 DEF FinalizeLocation, TypeOK, Task
<1>4. ASSUME NEW w \in Worker, ReadTask(w) PROVE TypeOK'
  <2>1. \A t \in Task : [pc |-> "read", up |-> t[1], part |-> t[2]]
                          \in WorkerState
    BY DEF WorkerState, Task
  <2> QED
    BY <1>4, <2>1 DEF ReadTask, TypeOK
<1>5. ASSUME NEW w \in Worker, DeleteFolder(w) PROVE TypeOK'
  <2>1. \A s \in WorkerState : [s EXCEPT !.pc = "deleted"] \in WorkerState
    BY DEF WorkerState
  <2>2. worker' \in [Worker -> WorkerState]
    BY <1>5, <2>1 DEF DeleteFolder, TypeOK
  <2>3. /\ blocks' \in [Upload -> SUBSET Block]
        /\ parts' \in [Upload -> Parts]
    BY <1>5, IdleTypes DEF DeleteFolder, TypeOK
  <2> QED
    BY <1>5, <2>2, <2>3 DEF DeleteFolder, TypeOK
<1>6. ASSUME NEW w \in Worker, CompleteTask(w) \/ AbandonTask(w) PROVE TypeOK'
  BY <1>6, IdleTypes DEF CompleteTask, AbandonTask, TypeOK
<1>7. ASSUME NEW k \in Claimer, NEW u \in Upload, InspectFolder(k, u)
      PROVE  TypeOK'
  BY <1>7 DEF InspectFolder, TypeOK, ClaimerState
<1>8. ASSUME NEW k \in Claimer, RecheckReferences(k) PROVE TypeOK'
  <2>1. \A s \in ClaimerState :
          s.at \in 1..3 => [s EXCEPT !.at = @ + 1] \in ClaimerState
    BY DEF ClaimerState
  <2> QED
    BY <1>8, <2>1, IdleTypes DEF RecheckReferences, TypeOK
<1>9. ASSUME NEW k \in Claimer, ClaimOrphanedStorageFolder(k) PROVE TypeOK'
  <2>1. claimer[k].up \in Upload
    BY <1>9 DEF ClaimOrphanedStorageFolder, ClaimInv, TypeOK
  <2> QED
    BY <1>9, <2>1, IdleTypes DEF ClaimOrphanedStorageFolder, TypeOK, Task
<1> QED
  BY <1>1, <1>2, <1>3, <1>4, <1>5, <1>6, <1>7, <1>8, <1>9 DEF CleanupStep

LEMMA TickType ==
  ASSUME TypeOK, Tick
  PROVE  TypeOK'
<1>1. idle' \in [Upload -> 0 .. CleanupIdleTimeout + 1]
  BY TimeoutAssumption DEF Tick, TypeOK
<1> QED
  BY <1>1 DEF Tick, TypeOK

LEMMA StepType == SessionInv /\ [Next]_vars => TypeOK' /\ RequestInv'
<1> SUFFICES ASSUME SessionInv, [Next]_vars PROVE TypeOK' /\ RequestInv'
  OBVIOUS
<1>0. TypeOK /\ RequestInv /\ ClaimInv /\ uploads \subseteq used
  BY DEF SessionInv, RowInv
<1>1. ASSUME NEW c \in Client, ClientStep(c) PROVE TypeOK' /\ RequestInv'
  <2>1. CASE GiveUp(c)
    BY <1>0, <1>1, <2>1, ReturnType, RequestStepType DEF GiveUp, ClientTyped
  <2> QED
    BY <1>0, <1>1, <2>1, CreateStepClient, BeginStepClient, ActivityStepClient,
       CompleteStepClient, RequestStepType DEF ClientStep, ClientTyped
<1>2. ASSUME CleanupStep \/ Tick \/ UNCHANGED vars
      PROVE  client' = client /\ used' = used
  BY <1>2
     DEF CleanupStep, Tick, vars, RunUploads, DetachEntry, FinalizeLocation,
         ReadTask, DeleteFolder, CompleteTask, AbandonTask, InspectFolder,
         RecheckReferences, ClaimOrphanedStorageFolder
<1>3. CASE CleanupStep
  BY <1>0, <1>2, <1>3, CleanupStepType, SameClientType
<1>4. CASE Tick
  BY <1>0, <1>2, <1>4, TickType, SameClientType
<1>5. CASE UNCHANGED vars
  BY <1>0, <1>2, <1>5, SameClientType DEF vars, TypeOK
<1> QED
  BY <1>1, <1>3, <1>4, <1>5 DEF Next

-----------------------------------------------------------------------------
(* What the steps share: the kinds of changes to the rows.                 *)

RowsKept == UNCHANGED <<uploads, used, entryVars, tasks>>

(* A session is given up: as idle, taken over or rejected.                 *)
SessionDropped ==
  \E u \in uploads : DropUpload(u) /\ UNCHANGED <<used, entryVars>>

SessionCreated ==
  /\ uploads = {}
  /\ \E u \in Upload \ used : uploads' = {u} /\ used' = used \cup {u}
  /\ UNCHANGED <<entryVars, tasks>>

(* A session becomes a location, at the entry a request has seen.          *)
SessionPublished ==
  \E c \in Client, l \in Location \ created :
    /\ client[c].pc = "entryRead"
    /\ client[c].up \in uploads
    /\ client[c].entry # None => entryAt[client[c].entry] # None
    /\ folderOf' = [folderOf EXCEPT ![l] = client[c].up]
    /\ partCount' = [partCount EXCEPT ![l] = client[c].committed]
    /\ entryAt' = [entryAt EXCEPT ![IF client[c].entry = None
                                      THEN l ELSE client[c].entry] = l]
    /\ tasks' = tasks \cup {<<client[c].up, "blocks">>}
    /\ uploads' = uploads \ {client[c].up}
    /\ used' = used

EntryDetached ==
  \E e \in Location :
    /\ entryAt' = [entryAt EXCEPT ![e] = None]
    /\ UNCHANGED <<uploads, used, folderOf, partCount, tasks>>

LocationFinalized ==
  \E l \in Location :
    /\ folderOf[l] # None
    /\ folderOf' = [folderOf EXCEPT ![l] = None]
    /\ tasks' = tasks \cup {<<folderOf[l], "folder">>}
    /\ UNCHANGED <<uploads, used, partCount, entryAt>>

TaskCompleted ==
  /\ tasks' \subseteq tasks
  /\ UNCHANGED <<uploads, used, entryVars>>

FolderClaimed ==
  \E k \in Claimer :
    /\ claimer[k].at = 4
    /\ tasks' = tasks \cup {<<claimer[k].up, "folder">>}
    /\ UNCHANGED <<uploads, used, entryVars>>

RowStep ==
  \/ RowsKept \/ SessionDropped \/ SessionCreated \/ SessionPublished
  \/ EntryDetached \/ LocationFinalized \/ TaskCompleted \/ FolderClaimed

LEMMA ClientRowStep ==
  ASSUME NEW c \in Client, ClientStep(c)
  PROVE  RowStep
<1>1. CASE UNCHANGED <<rowVars, entryVars, tasks>>
  BY <1>1 DEF RowStep, RowsKept
<1>2. CASE TakeOver(c)
  BY <1>2 DEF TakeOver, Inactive, RowStep, RowsKept, SessionDropped
<1>3. CASE CreateUploadRecord(c)
  BY <1>3 DEF CreateUploadRecord, RowStep, RowsKept, SessionCreated
<1>4. CASE TouchUploadActivity(c) \/ RenewUploadActivity(c)
             \/ MarkUploadFinished(c) \/ RecordBlockList(c)
  BY <1>4 DEF TouchUploadActivity, RenewUploadActivity, MarkUploadFinished,
              RecordBlockList, RowStep, RowsKept
<1>5. CASE RejectUpload(c)
  BY <1>5 DEF RejectUpload, RowStep, RowsKept, SessionDropped
<1>6. CASE CompleteUploadRecord(c)
  <2>1. CASE UNCHANGED <<entryVars, tasks, uploads>>
    BY <1>6, <2>1 DEF CompleteUploadRecord, RowStep, RowsKept
  <2>2. CASE ~UNCHANGED <<entryVars, tasks, uploads>>
    BY <1>6, <2>2
       DEF CompleteUploadRecord, StillOwnsUpload, BlocksTask, RowStep,
           SessionPublished
  <2> QED
    BY <2>1, <2>2
<1> QED
  BY <1>1, <1>2, <1>3, <1>4, <1>5, <1>6
     DEF ClientStep, CreateStep, BeginStep, ActivityStep, CompleteStep, GiveUp,
         BeginCreate, FirstUploadByTuple, UploadPart, UploadBlock,
         PrepareBlockListCommit, CompleteUpload, Begin, ValidateParts,
         ReadExistingEntry, UploadStream, CopyObject

LEMMA StepRowStep ==
  ASSUME [Next]_vars
  PROVE  RowStep
<1>1. CASE CleanupStep
  <2>1. ASSUME NEW u \in Upload, RunUploads(u) PROVE RowStep
    BY <2>1 DEF RunUploads, Inactive, RowStep, SessionDropped
  <2>2. ASSUME NEW l \in Location, DetachEntry(l) \/ FinalizeLocation(l)
        PROVE  RowStep
    BY <2>2 DEF DetachEntry, FinalizeLocation, RowStep, EntryDetached,
                LocationFinalized
  <2>3. ASSUME NEW w \in Worker, ReadTask(w) \/ DeleteFolder(w)
                 \/ CompleteTask(w) \/ AbandonTask(w)
        PROVE  RowStep
    BY <2>3 DEF ReadTask, DeleteFolder, CompleteTask, AbandonTask, RowStep,
                RowsKept, TaskCompleted
  <2>4. ASSUME NEW k \in Claimer, \/ \E u \in Upload : InspectFolder(k, u)
                                  \/ RecheckReferences(k)
                                  \/ ClaimOrphanedStorageFolder(k)
        PROVE  RowStep
    BY <2>4 DEF InspectFolder, RecheckReferences, ClaimOrphanedStorageFolder,
                RowStep, RowsKept, FolderClaimed
  <2> QED
    BY <1>1, <2>1, <2>2, <2>3, <2>4 DEF CleanupStep
<1>2. CASE Tick \/ UNCHANGED vars
  BY <1>2 DEF Tick, vars, RowStep, RowsKept
<1> QED
  BY <1>1, <1>2, ClientRowStep DEF Next

LEMMA OneClientMoves ==
  ASSUME TypeOK, NEW c \in Client, ClientStep(c), NEW d \in Client, d # c
  PROVE  client'[d] = client[d]
<1> USE DEF Go, Become, Return, TypeOK
<1>1. CASE CreateStep(c)
  BY <1>1 DEF CreateStep, BeginCreate, FirstUploadByTuple, TakeOver,
              CreateUploadRecord
<1>2. CASE BeginStep(c)
  BY <1>2 DEF BeginStep, UploadPart, UploadBlock, PrepareBlockListCommit,
              CompleteUpload, Begin
<1>3. CASE ActivityStep(c)
  BY <1>3 DEF ActivityStep, TouchUploadActivity, RenewUploadActivity,
              UploadStream, CopyObject, MarkUploadFinished, RecordBlockList
<1>4. CASE CompleteStep(c)
  BY <1>4 DEF CompleteStep, ValidateParts, RejectUpload, ReadExistingEntry,
              CompleteUploadRecord
<1>5. CASE GiveUp(c)
  BY <1>5 DEF GiveUp
<1> QED
  BY <1>1, <1>2, <1>3, <1>4, <1>5 DEF ClientStep

LEMMA ClientsStay ==
  ASSUME CleanupStep \/ Tick \/ UNCHANGED vars
  PROVE  client' = client
BY DEF CleanupStep, Tick, vars, RunUploads, DetachEntry, FinalizeLocation,
       ReadTask, DeleteFolder, CompleteTask, AbandonTask, InspectFolder,
       RecheckReferences, ClaimOrphanedStorageFolder

(* Only a pending deletion of its folder takes a part away, and nothing is *)
(* written to a folder whose id is not drawn.                              *)
FoldersStep ==
  \A u \in Upload :
    /\ u \in used \/ /\ parts'[u] \in {parts[u], NoParts}
                     /\ blocks'[u] \subseteq blocks[u]
    /\ u \in uploads \/ committed'[u] = committed[u]
    /\ \/ Pending(u, "folder")
       \/ \A i \in PartIndex : parts[u][i] # None => parts'[u][i] # None

LEMMA SameFolders ==
  ASSUME UNCHANGED <<objectVars, committed>>
  PROVE  FoldersStep
BY DEF FoldersStep

LEMMA ClientFoldersStep ==
  ASSUME TypeOK, RequestInv, NEW c \in Client, ClientStep(c)
  PROVE  FoldersStep
<1>1. CASE UploadStream(c)
  <2>1. client[c].up \in used
    BY <1>1 DEF UploadStream, Acting, RequestInv, RequestOK
  <2>2. /\ UNCHANGED committed
        /\ \/ parts' = [parts EXCEPT ![client[c].up][0] = Whole]
              /\ UNCHANGED blocks
           \/ blocks' = [blocks EXCEPT ![client[c].up] =
                                        @ \cup {client[c].block}]
              /\ UNCHANGED parts
    BY <1>1 DEF UploadStream
  <2>3. CASE parts' = parts
    BY <2>1, <2>2, <2>3 DEF FoldersStep, TypeOK
  <2>4. CASE /\ parts' = [parts EXCEPT ![client[c].up][0] = Whole]
             /\ UNCHANGED blocks
    <3>1. PICK v \in Upload : v = client[c].up
      BY <2>1 DEF TypeOK
    <3>2. \A u \in Upload : u # v => parts'[u] = parts[u]
      BY <2>4, <3>1 DEF TypeOK
    <3>3. parts'[v] = [parts[v] EXCEPT ![0] = Whole] /\ parts[v] \in Parts
      BY <2>4, <3>1 DEF TypeOK
    <3>4. \A i \in PartIndex : parts[v][i] # None => parts'[v][i] # None
      BY <3>3, BlockLists DEF Parts
    <3> QED
      BY <2>1, <2>2, <2>4, <3>1, <3>2, <3>4 DEF FoldersStep
  <2> QED
    BY <2>2, <2>3, <2>4
<1>2. CASE CopyObject(c)
  <2>1. client[c].up \in used /\ client[c].up \in Upload
    BY <1>2 DEF CopyObject, Acting, RequestInv, RequestOK, TypeOK
  <2>2. PICK u, b, i : /\ u = client[c].up
                       /\ b = client[c].list[client[c].next + 1]
                       /\ i = client[c].next
    OBVIOUS
  <2>3. b \in blocks[u] => b # None
    BY <2>1, <2>2, BlockLists DEF TypeOK
  <2>4. /\ UNCHANGED <<committed, blocks>>
        /\ \/ b \in blocks[u] /\ parts' = [parts EXCEPT ![u][i] = b]
           \/ UNCHANGED parts
    BY <1>2, <2>2 DEF CopyObject
  <2> QED
    BY <2>1, <2>2, <2>3, <2>4 DEF FoldersStep, TypeOK, Parts
<1>3. CASE MarkUploadFinished(c) \/ RecordBlockList(c)
  BY <1>3 DEF MarkUploadFinished, RecordBlockList, FoldersStep, TypeOK
<1>4. CASE UNCHANGED <<objectVars, committed>>
  BY <1>4, SameFolders
<1> QED
  BY <1>1, <1>2, <1>3, <1>4
     DEF ClientStep, CreateStep, BeginStep, ActivityStep, CompleteStep, GiveUp,
         BeginCreate, FirstUploadByTuple, TakeOver, CreateUploadRecord,
         UploadPart, UploadBlock, PrepareBlockListCommit, CompleteUpload,
         Begin, TouchUploadActivity, RenewUploadActivity, ValidateParts,
         RejectUpload, ReadExistingEntry, CompleteUploadRecord

LEMMA StepFoldersStep ==
  ASSUME TypeOK, RequestInv, [Next]_vars
  PROVE  FoldersStep
<1>1. ASSUME NEW w \in Worker, DeleteFolder(w) PROVE FoldersStep
  <2>1. \A u \in Upload :
          parts'[u] # parts[u] => parts'[u] = NoParts /\ Pending(u, "folder")
    BY <1>1 DEF DeleteFolder, TypeOK, Pending
  <2>2. \A u \in Upload : blocks'[u] \subseteq blocks[u]
    BY <1>1 DEF DeleteFolder, TypeOK
  <2> QED
    BY <1>1, <2>1, <2>2 DEF DeleteFolder, FoldersStep
<1>2. CASE CleanupStep /\ ~\E w \in Worker : DeleteFolder(w)
  BY <1>2, SameFolders
     DEF CleanupStep, RunUploads, DetachEntry, FinalizeLocation, ReadTask,
         CompleteTask, AbandonTask, InspectFolder, RecheckReferences,
         ClaimOrphanedStorageFolder
<1>3. CASE Tick \/ UNCHANGED vars
  BY <1>3, SameFolders DEF Tick, vars
<1> QED
  BY <1>1, <1>2, <1>3, ClientFoldersStep DEF Next

-----------------------------------------------------------------------------
(* Sessions, the folders they own and the deletion of folders.             *)

(* A session that is gone does not come back, and a folder is given to a   *)
(* location only by the session it was of.                                 *)
RowsMonotone ==
  /\ used \subseteq used'
  /\ \A u \in used : u \in uploads' => u \in uploads
  /\ \A l \in Location : \/ folderOf'[l] \in {folderOf[l], None}
                         \/ folderOf'[l] \in uploads \ uploads'

LEMMA RowStepMonotone ==
  ASSUME TypeOK, RowInv, RowStep
  PROVE  RowsMonotone
<1> USE DEF RowsMonotone
<1>1. CASE RowsKept \/ SessionDropped \/ TaskCompleted \/ FolderClaimed
  BY <1>1 DEF RowsKept, SessionDropped, DropUpload, TaskCompleted,
              FolderClaimed
<1>2. CASE SessionCreated
  BY <1>2 DEF SessionCreated
<1>3. CASE SessionPublished
  BY <1>3 DEF SessionPublished, TypeOK
<1>4. CASE EntryDetached \/ LocationFinalized
  BY <1>4 DEF EntryDetached, LocationFinalized, TypeOK
<1> QED
  BY <1>1, <1>2, <1>3, <1>4 DEF RowStep

LEMMA RowInvKept ==
  ASSUME TypeOK, RowInv, RowStep, FoldersStep
  PROVE  RowInv'
<1>1. uploads' \subseteq used' /\ \A u, v \in uploads' : u = v
  BY DEF RowInv, RowStep, RowsKept, SessionDropped, DropUpload, SessionCreated,
         SessionPublished, EntryDetached, LocationFinalized, TaskCompleted,
         FolderClaimed
<1>2. ASSUME NEW u \in Upload \ used'
      PROVE  committed'[u] = 0 /\ parts'[u] = NoParts /\ blocks'[u] = {}
  <2>1. u \notin used /\ u \notin uploads
    BY RowStepMonotone DEF RowsMonotone, RowInv
  <2> QED
    BY <2>1 DEF FoldersStep, RowInv
<1> QED
  BY <1>1, <1>2 DEF RowInv

LEMMA OwnerInvKept ==
  ASSUME TypeOK, RowInv, OwnerInv, RowStep
  PROVE  OwnerInv'
<1> USE DEF OwnerInv, OneOwnerPerFolder
<1>1. CASE RowsKept \/ SessionDropped \/ TaskCompleted \/ FolderClaimed
           \/ EntryDetached
  BY <1>1 DEF RowsKept, SessionDropped, DropUpload, TaskCompleted,
              FolderClaimed, EntryDetached
<1>2. CASE SessionCreated
  BY <1>2 DEF SessionCreated
<1>3. CASE SessionPublished
  BY <1>3 DEF SessionPublished, RowInv, TypeOK
<1>4. CASE LocationFinalized
  BY <1>4 DEF LocationFinalized, TypeOK
<1> QED
  BY <1>1, <1>2, <1>3, <1>4 DEF RowStep

(* Workers hold what they found in the outbox.                             *)
LEMMA WorkersHoldTasks ==
  ASSUME TypeOK, [Next]_vars, NEW u \in Upload, NEW w \in Worker,
         worker'[w].pc # "idle", worker'[w].up = u, worker'[w].part = "folder"
  PROVE  Pending(u, "folder")
<1>1. CASE worker'[w] = worker[w]
  BY <1>1 DEF Pending
<1>2. ASSUME NEW v \in Worker, ReadTask(v) PROVE Pending(u, "folder")
  BY <1>1, <1>2 DEF ReadTask, TypeOK, Task, Pending
<1>3. ASSUME NEW v \in Worker, DeleteFolder(v) PROVE Pending(u, "folder")
  <2>1. worker'[w] = IF w = v THEN [worker[v] EXCEPT !.pc = "deleted"]
                               ELSE worker[w]
    BY <1>3 DEF DeleteFolder, TypeOK
  <2> QED
    BY <1>1, <1>3, <2>1 DEF DeleteFolder, Pending, TypeOK, WorkerState
<1>4. ASSUME NEW v \in Worker, CompleteTask(v) \/ AbandonTask(v)
      PROVE  Pending(u, "folder")
  BY <1>1, <1>4 DEF CompleteTask, AbandonTask, TypeOK, IdleWorker
<1>5. ASSUME NEW c \in Client, ClientStep(c) PROVE worker' = worker
  BY <1>5
     DEF ClientStep, CreateStep, BeginStep, ActivityStep, CompleteStep, GiveUp,
         BeginCreate, FirstUploadByTuple, TakeOver, CreateUploadRecord,
         UploadPart, UploadBlock, PrepareBlockListCommit, CompleteUpload,
         Begin, TouchUploadActivity, RenewUploadActivity, UploadStream,
         CopyObject, MarkUploadFinished, RecordBlockList, ValidateParts,
         RejectUpload, ReadExistingEntry, CompleteUploadRecord
<1>6. CASE worker' = worker
  BY <1>1, <1>6
<1> QED
  BY <1>2, <1>3, <1>4, <1>5, <1>6
     DEF Next, CleanupStep, Tick, vars, RunUploads, DetachEntry,
         FinalizeLocation, InspectFolder, RecheckReferences,
         ClaimOrphanedStorageFolder

LEMMA TaskInvKept ==
  ASSUME TypeOK, RowInv, OwnerInv, TaskInv, ClaimInv, [Next]_vars
  PROVE  TaskInv'
<1>0. RowStep /\ RowsMonotone
  BY StepRowStep, RowStepMonotone
<1>1. SUFFICES ASSUME NEW u \in Upload, Pending(u, "folder")'
               PROVE  u \in used' /\ u \notin uploads' /\ ~Located(u)'
  BY DEF TaskInv, FolderTasksUnowned
<1>2. CASE Pending(u, "folder")
  <2>1. u \in used /\ u \notin uploads /\ ~Located(u)
    BY <1>2 DEF TaskInv, FolderTasksUnowned
  <2> QED
    BY <1>0, <2>1, BlockLists DEF RowsMonotone, Located
<1>3. CASE ~Pending(u, "folder")
  <2>1. <<u, "folder">> \in tasks' /\ <<u, "folder">> \notin tasks
    BY <1>1, <1>3, WorkersHoldTasks DEF Pending
  <2>2. CASE SessionDropped
    <3>1. u \in uploads
      BY <2>1, <2>2 DEF SessionDropped, DropUpload
    <3>2. u \notin uploads' /\ folderOf' = folderOf /\ used' = used
      BY <2>1, <2>2 DEF SessionDropped, DropUpload
    <3> QED
      BY <3>1, <3>2, BlockLists
         DEF RowInv, OwnerInv, OneOwnerPerFolder, Located
  <2>3. CASE LocationFinalized
    <3>1. PICK l \in Location :
            /\ folderOf[l] = u
            /\ folderOf' = [folderOf EXCEPT ![l] = None]
            /\ uploads' = uploads /\ used' = used
      BY <2>1, <2>3 DEF LocationFinalized
    <3>2. \A m \in Location : folderOf'[m] # u
      BY <3>1, BlockLists DEF OwnerInv, OneOwnerPerFolder, TypeOK
    <3> QED
      BY <3>1, <3>2, BlockLists DEF OwnerInv, OneOwnerPerFolder, Located
  <2>4. CASE FolderClaimed
    BY <2>1, <2>4 DEF FolderClaimed, ClaimInv, Located
  <2> QED
    BY <1>0, <2>1, <2>2, <2>3, <2>4
       DEF RowStep, RowsKept, SessionCreated, SessionPublished, EntryDetached,
           TaskCompleted
<1> QED
  BY <1>2, <1>3

LEMMA ClaimInvKept ==
  ASSUME TypeOK, RowInv, OwnerInv, ClaimInv, [Next]_vars
  PROVE  ClaimInv'
<1>0. RowsMonotone
  BY StepRowStep, RowStepMonotone
<1>1. SUFFICES ASSUME NEW k \in Claimer
               PROVE  /\ claimer'[k].at >= 1 => claimer'[k].up \in used'
                      /\ claimer'[k].at >= 2 => claimer'[k].up \notin uploads'
                      /\ claimer'[k].at >= 3 =>
                           \A l \in Location : folderOf'[l] # claimer'[k].up
  BY DEF ClaimInv, Located
<1>2. claimer[k].at \in 0..4
  BY DEF TypeOK, ClaimerState
<1>3. CASE claimer'[k] = claimer[k]
  BY <1>0, <1>2, <1>3, BlockLists DEF RowsMonotone, ClaimInv, Located, TypeOK
<1>4. ASSUME NEW u \in Upload, InspectFolder(k, u)
      PROVE  claimer'[k].at = 1 /\ claimer'[k].up \in used'
  BY <1>4 DEF InspectFolder, HasObjects, RowInv, TypeOK
<1>5. ASSUME RecheckReferences(k), claimer'[k] # IdleClaimer
      PROVE  /\ claimer[k].at \in 1..3
             /\ claimer'[k].at = claimer[k].at + 1
             /\ claimer'[k].up = claimer[k].up
             /\ claimer[k].at = 1 => claimer[k].up \notin uploads
             /\ claimer[k].at = 2 => ~Located(claimer[k].up)
             /\ UNCHANGED <<uploads, used, folderOf>>
  <2>1. /\ claimer[k].at \in 1..3
        /\ claimer'[k] = [claimer[k] EXCEPT !.at = @ + 1]
        /\ ~Referenced(Query(claimer[k].at), claimer[k].up)
        /\ UNCHANGED <<uploads, used, folderOf>>
    BY <1>5 DEF RecheckReferences, TypeOK
  <2>2. claimer[k].at = 1 => claimer[k].up \notin uploads
    BY <2>1 DEF Referenced, Query
  <2>3. claimer[k].at = 2 => ~Located(claimer[k].up)
    BY <2>1 DEF Referenced, Query
  <2> QED
    BY <2>1, <2>2, <2>3 DEF TypeOK, ClaimerState
<1>6. CASE claimer'[k] = IdleClaimer
  BY <1>6 DEF IdleClaimer
<1>7. ASSUME NEW j \in Claimer, ClaimOrphanedStorageFolder(j), j = k
      PROVE  claimer'[k] = IdleClaimer
  BY <1>7 DEF ClaimOrphanedStorageFolder, TypeOK
<1>8. ASSUME NEW j \in Claimer, j # k,
             \/ \E u \in Upload : InspectFolder(j, u)
             \/ RecheckReferences(j)
             \/ ClaimOrphanedStorageFolder(j)
      PROVE  claimer'[k] = claimer[k]
  BY <1>8 DEF InspectFolder, RecheckReferences, ClaimOrphanedStorageFolder,
              TypeOK
<1>9. ASSUME NEW c \in Client, ClientStep(c) PROVE claimer' = claimer
  BY <1>9
     DEF ClientStep, CreateStep, BeginStep, ActivityStep, CompleteStep, GiveUp,
         BeginCreate, FirstUploadByTuple, TakeOver, CreateUploadRecord,
         UploadPart, UploadBlock, PrepareBlockListCommit, CompleteUpload,
         Begin, TouchUploadActivity, RenewUploadActivity, UploadStream,
         CopyObject, MarkUploadFinished, RecordBlockList, ValidateParts,
         RejectUpload, ReadExistingEntry, CompleteUploadRecord
<1>10. CASE \E u \in Upload : InspectFolder(k, u)
  BY <1>4, <1>10
<1>11. CASE RecheckReferences(k)
  BY <1>2, <1>5, <1>6, <1>11 DEF ClaimInv, Located
<1> QED
  BY <1>3, <1>6, <1>7, <1>8, <1>9, <1>10, <1>11
     DEF Next, CleanupStep, Tick, vars, RunUploads, DetachEntry,
         FinalizeLocation, ReadTask, DeleteFolder, CompleteTask, AbandonTask

-----------------------------------------------------------------------------
(* Where a step leaves the request that takes it.                          *)

LEMMA ReturnValue ==
  ASSUME TypeOK, NEW c \in Client, Return(c)
  PROVE  client'[c].pc = "idle"
BY DEF Return, Become, IdleClient, TypeOK

LEMMA GoValue ==
  ASSUME TypeOK, NEW c \in Client, NEW pc, Go(c, pc)
  PROVE  /\ client'[c].pc = pc
         /\ client'[c].op = client[c].op
         /\ client'[c].up = client[c].up
         /\ client'[c].next = client[c].next
         /\ client'[c].committed = client[c].committed
         /\ client'[c].entry = client[c].entry
<1>1. client'[c] = [client[c] EXCEPT !.pc = pc]
  BY DEF Go, TypeOK
<1>2. PICK s \in ClientState : s = client[c]
  BY DEF TypeOK
<1> QED
  BY <1>1, <1>2 DEF ClientState

LEMMA CreateStepValue ==
  ASSUME TypeOK, RequestInv, NEW c \in Client, CreateStep(c)
  PROVE  client'[c].pc \in {"idle", "find", "found", "insert"}
<1>1. CASE BeginCreate(c)
  BY <1>1 DEF BeginCreate, Become, IdleClient, TypeOK
<1>2. CASE FirstUploadByTuple(c)
  <2>1. ASSUME NEW u,
               client' = [client EXCEPT ![c].pc = "found", ![c].up = u]
        PROVE  client'[c].pc = "found"
    <3>1. PICK s \in ClientState : s = client[c]
      BY DEF TypeOK
    <3>2. client'[c] = [s EXCEPT !.pc = "found", !.up = u]
      BY <2>1, <3>1 DEF TypeOK
    <3> QED
      BY <3>2 DEF ClientState
  <2> QED
    BY <1>2, <2>1, GoValue DEF FirstUploadByTuple
<1>3. CASE TakeOver(c)
  BY <1>3, GoValue, ReturnValue DEF TakeOver
<1>4. CASE CreateUploadRecord(c)
  BY <1>4, GoValue, ReturnValue DEF CreateUploadRecord
<1> QED
  BY <1>1, <1>2, <1>3, <1>4 DEF CreateStep

LEMMA BeginStepValue ==
  ASSUME TypeOK, NEW c \in Client, BeginStep(c)
  PROVE  client'[c].pc = "begun" /\ client'[c].next = 0
<1>1. ASSUME NEW r \in ClientState, Begin(c, r), r.next = 0
      PROVE  client'[c].pc = "begun" /\ client'[c].next = 0
  BY <1>1 DEF Begin, Become, TypeOK, ClientState
<1>2. ASSUME NEW u \in Upload, UploadPart(c, u)
      PROVE  client'[c].pc = "begun" /\ client'[c].next = 0
  BY <1>2 DEF UploadPart, Begin, Become, IdleClient, TypeOK
<1>3. ASSUME NEW u \in Upload, NEW b \in Block, UploadBlock(c, u, b)
      PROVE  client'[c].pc = "begun" /\ client'[c].next = 0
  BY <1>3 DEF UploadBlock, Begin, Become, IdleClient, TypeOK
<1>4. ASSUME NEW u \in Upload, NEW list \in BlockList,
             PrepareBlockListCommit(c, u, list)
      PROVE  client'[c].pc = "begun" /\ client'[c].next = 0
  BY <1>4 DEF PrepareBlockListCommit, Begin, Become, IdleClient, TypeOK
<1>5. ASSUME NEW u \in Upload, CompleteUpload(c, u)
      PROVE  client'[c].pc = "begun" /\ client'[c].next = 0
  BY <1>5 DEF CompleteUpload, Begin, Become, IdleClient, TypeOK
<1> QED
  BY <1>2, <1>3, <1>4, <1>5 DEF BeginStep

LEMMA CopyObjectValue ==
  ASSUME TypeOK, NEW c \in Client, CopyObject(c)
  PROVE  \/ client'[c].pc = "idle"
         \/ /\ client[c].pc = "active"
            /\ client'[c].pc \in {"done", "active"}
            /\ client'[c].op = client[c].op
            /\ client'[c].up = client[c].up
            /\ client'[c].next = client[c].next + 1
            /\ client[c].list[client[c].next + 1] \in blocks[client[c].up]
            /\ parts' = [parts EXCEPT ![client[c].up][client[c].next] =
                                 client[c].list[client[c].next + 1]]
<1>1. CASE Return(c)
  BY <1>1, ReturnValue
<1>2. ASSUME NEW n, NEW pc,
             client' = [client EXCEPT ![c].next = n, ![c].pc = pc]
      PROVE  /\ client'[c].pc = pc
             /\ client'[c].op = client[c].op
             /\ client'[c].up = client[c].up
             /\ client'[c].next = n
  <2>1. PICK s \in ClientState : s = client[c]
    BY DEF TypeOK
  <2>2. client'[c] = [s EXCEPT !.next = n, !.pc = pc]
    BY <1>2, <2>1 DEF TypeOK
  <2> QED
    BY <2>1, <2>2 DEF ClientState
<1>3. CASE ~Return(c)
  <2>1. /\ client[c].pc = "active"
        /\ client[c].list[client[c].next + 1] \in blocks[client[c].up]
        /\ parts' = [parts EXCEPT ![client[c].up][client[c].next] =
                             client[c].list[client[c].next + 1]]
    BY <1>3 DEF CopyObject, Acting
  <2>2. PICK pc \in {"done", "active"} :
          client' = [client EXCEPT ![c].next = client[c].next + 1, ![c].pc = pc]
    BY <1>3 DEF CopyObject, Acting
  <2>3. PICK n : n = client[c].next + 1
    OBVIOUS
  <2>4. client' = [client EXCEPT ![c].next = n, ![c].pc = pc]
    BY <2>2, <2>3, Zenon
  <2> QED
    BY <1>2, <2>1, <2>3, <2>4
<1> QED
  BY <1>1, <1>3

LEMMA ValidatePartsValue ==
  ASSUME TypeOK, NEW c \in Client, ValidateParts(c)
  PROVE  /\ client'[c].op = client[c].op
         /\ client'[c].up = client[c].up
         /\ client'[c].committed = client[c].committed
         /\ \/ client'[c].pc = "rejected"
            \/ /\ client'[c].pc = "done"
               /\ \A i \in 0 .. client[c].committed - 1 :
                    parts[client[c].up][i] # None
<1>1. CASE Go(c, "rejected")
  BY <1>1, GoValue
<1>2. ASSUME NEW sizes,
             client' = [client EXCEPT ![c].pc = "done", ![c].sizes = sizes]
      PROVE  /\ client'[c].op = client[c].op
             /\ client'[c].up = client[c].up
             /\ client'[c].committed = client[c].committed
             /\ client'[c].pc = "done"
  <2>1. PICK s \in ClientState : s = client[c]
    BY DEF TypeOK
  <2>2. client'[c] = [s EXCEPT !.pc = "done", !.sizes = sizes]
    BY <1>2, <2>1 DEF TypeOK
  <2> QED
    BY <2>1, <2>2 DEF ClientState
<1> QED
  BY <1>1, <1>2 DEF ValidateParts

LEMMA ReadExistingEntryValue ==
  ASSUME TypeOK, NEW c \in Client, ReadExistingEntry(c)
  PROVE  /\ client'[c].op = client[c].op
         /\ client'[c].up = client[c].up
         /\ client'[c].committed = client[c].committed
         /\ client'[c].pc = "entryRead"
         /\ Entries \subseteq {client'[c].entry}
<1>1. CASE Entries = {} /\ Go(c, "entryRead")
  BY <1>1, GoValue
<1>2. ASSUME NEW e \in Location, Entries = {e},
             client' = [client EXCEPT ![c].pc = "entryRead", ![c].entry = e]
      PROVE  /\ client'[c].op = client[c].op
             /\ client'[c].up = client[c].up
             /\ client'[c].committed = client[c].committed
             /\ client'[c].pc = "entryRead"
             /\ client'[c].entry = e
  <2>1. PICK s \in ClientState : s = client[c]
    BY DEF TypeOK
  <2>2. client'[c] = [s EXCEPT !.pc = "entryRead", !.entry = e]
    BY <1>2, <2>1 DEF TypeOK
  <2> QED
    BY <2>1, <2>2 DEF ClientState
<1> QED
  BY <1>1, <1>2 DEF ReadExistingEntry

-----------------------------------------------------------------------------
(* One entry for the tuple.                                                *)

LEMMA EntryReadStep ==
  ASSUME TypeOK, RequestInv, NEW c \in Client, ClientStep(c),
         client'[c].pc = "entryRead"
  PROVE  client'[c] = client[c] \/ ReadExistingEntry(c)
<1>1. CASE CreateStep(c)
  BY <1>1, CreateStepValue
<1>2. CASE BeginStep(c)
  BY <1>2, BeginStepValue
<1>3. CASE ActivityStep(c)
  <2>1. CASE RenewUploadActivity(c)
    <3>1. client'[c] = client[c] \/ client'[c].pc = "cancelled"
      BY <2>1, GoValue DEF RenewUploadActivity
    <3> QED
      BY <3>1
  <2>2. CASE TouchUploadActivity(c) \/ UploadStream(c)
    <3>1. client'[c].pc \in {"idle", "active", "done"}
      BY <2>2, GoValue, ReturnValue DEF TouchUploadActivity, UploadStream
    <3> QED
      BY <3>1
  <2>3. CASE CopyObject(c)
    BY <2>3, CopyObjectValue
  <2>4. CASE MarkUploadFinished(c) \/ RecordBlockList(c)
    BY <2>4, ReturnValue DEF MarkUploadFinished, RecordBlockList
  <2> QED
    BY <1>3, <2>1, <2>2, <2>3, <2>4 DEF ActivityStep
<1>4. CASE CompleteStep(c)
  BY <1>4, ReturnValue, ValidatePartsValue
     DEF CompleteStep, RejectUpload, CompleteUploadRecord
<1>5. CASE GiveUp(c)
  BY <1>5, ReturnValue DEF GiveUp
<1> QED
  BY <1>1, <1>2, <1>3, <1>4, <1>5 DEF ClientStep

LEMMA EntryInvKept ==
  ASSUME TypeOK, RequestInv, RowInv, EntryInv, [Next]_vars
  PROVE  EntryInv'
<1>0. RowStep /\ RowsMonotone
  BY StepRowStep, RowStepMonotone
<1>1. SessionPublished \/ Entries' \subseteq Entries
  BY <1>0, BlockAssumption
     DEF RowStep, RowsKept, SessionDropped, SessionCreated, EntryDetached,
         LocationFinalized, TaskCompleted, FolderClaimed, Entries, TypeOK
<1>2. OneEntryPerTuple'
  <2>1. CASE Entries' \subseteq Entries
    BY <2>1 DEF EntryInv, OneEntryPerTuple
  <2>2. CASE SessionPublished
    <3>1. PICK c \in Client, l \in Location :
            /\ client[c].pc = "entryRead"
            /\ client[c].up \in uploads
            /\ entryAt' = [entryAt EXCEPT ![IF client[c].entry = None
                                              THEN l ELSE client[c].entry] = l]
      BY <2>2 DEF SessionPublished
    <3>2. Entries \subseteq {client[c].entry} /\ None \notin Entries
      BY <3>1, BlockAssumption DEF EntryInv, Entries
    <3>3. CASE client[c].entry = None
      <4>1. Entries = {} /\ Entries' \subseteq {l}
        BY <3>1, <3>2, <3>3 DEF Entries, TypeOK
      <4> QED
        BY <4>1 DEF OneEntryPerTuple
    <3>4. CASE client[c].entry # None
      <4>1. Entries' \subseteq {client[c].entry}
        BY <3>1, <3>2, <3>4 DEF Entries, TypeOK
      <4> QED
        BY <4>1 DEF OneEntryPerTuple
    <3> QED
      BY <3>3, <3>4
  <2> QED
    BY <1>1, <2>1, <2>2
<1>3. ASSUME NEW c \in Client,
             client'[c].pc = "entryRead", client'[c].up \in uploads'
      PROVE  Entries' \subseteq {client'[c].entry}
  <2>1. CASE client'[c] = client[c]
    <3>1. client[c].pc = "entryRead" /\ client[c].up \in uploads
      BY <1>0, <1>3, <2>1 DEF RowsMonotone, RequestInv, RequestOK
    <3>2. ~SessionPublished
      BY <1>3, <2>1, <3>1 DEF SessionPublished, RowInv
    <3> QED
      BY <1>1, <2>1, <3>1, <3>2 DEF EntryInv
  <2>2. CASE ReadExistingEntry(c)
    <3>1. Entries' = Entries
      BY <2>2 DEF ReadExistingEntry, Entries
    <3>2. Entries \subseteq {client'[c].entry}
      BY <2>2, ReadExistingEntryValue
    <3> QED
      BY <3>1, <3>2
  <2> QED
    BY <1>3, <2>1, <2>2, EntryReadStep, OneClientMoves, ClientsStay DEF Next
<1> QED
  BY <1>2, <1>3 DEF EntryInv

-----------------------------------------------------------------------------
(* Parts in storage.                                                       *)

LEMMA SecuredType ==
  ASSUME TypeOK, RequestInv, NEW c \in Client
  PROVE  Secured(client[c]) \in 0 .. MaxBlockListEntries
<1>1. PICK s \in ClientState : s = client[c] /\ RequestOK(s, used)
  BY DEF TypeOK, RequestInv
<1>2. s.op = "commit" => s.next \in 0 .. MaxBlockListEntries
  BY <1>1, BlockLists, BlockAssumption DEF RequestOK, ClientState
<1>3. s.committed \in 0 .. MaxBlockListEntries
  BY <1>1, BlockAssumption DEF RequestOK, ClientState
<1> QED
  BY <1>1, <1>2, <1>3, BlockAssumption DEF Secured

(* A request relies on a part only if it did, or has just seen or put it.  *)
LEMMA SecuredStep ==
  ASSUME TypeOK, RequestInv, uploads \subseteq used, NEW c \in Client,
         ClientStep(c), client'[c].pc # "idle",
         NEW i \in 0 .. Secured(client'[c]) - 1
  PROVE  /\ client[c].pc # "idle"
         /\ client'[c].up = client[c].up
         /\ \/ i \in 0 .. Secured(client[c]) - 1
            \/ parts'[client[c].up][i] # None
<1>0. RequestOK(client[c], used) /\ client[c].next \in Nat
  BY DEF TypeOK, RequestInv, ClientState
<1>1. PICK s, t : s = client[c] /\ t = client'[c] /\ i \in 0 .. Secured(t) - 1
  OBVIOUS
<1>2. CASE CreateStep(c)
  <2>1. t.op = "create"
    BY <1>1, <1>2, CreateStepClient, CreateStepValue
       DEF ClientTyped, RequestInv, RequestOK
  <2> QED
    BY <1>1, <2>1 DEF Secured
<1>3. CASE BeginStep(c)
  BY <1>1, <1>3, BeginStepValue DEF Secured
<1>4. CASE TouchUploadActivity(c) \/ RenewUploadActivity(c)
  <2>1. \/ t = s /\ s.pc = "active"
        \/ /\ s.pc \in {"begun", "active"} /\ t.pc \in {"active", "cancelled"}
           /\ t.op = s.op /\ t.up = s.up /\ t.next = s.next
    BY <1>1, <1>4, GoValue, ReturnValue
       DEF TouchUploadActivity, RenewUploadActivity
  <2> QED
    BY <1>1, <2>1 DEF Secured
<1>5. CASE UploadStream(c)
  <2>1. t.pc = "done" /\ s.pc = "active" /\ t.op = s.op /\ t.up = s.up
    BY <1>1, <1>5, GoValue, ReturnValue DEF UploadStream, Acting
  <2>2. CASE s.op = "block"
    BY <1>1, <2>1, <2>2 DEF Secured
  <2>3. CASE s.op = "part"
    <3>1. i = 0
      BY <1>1, <2>1, <2>3 DEF Secured
    <3>2. s.up \in Upload /\ parts' = [parts EXCEPT ![s.up][0] = Whole]
      BY <1>0, <1>1, <1>5, <2>1, <2>3 DEF UploadStream, RequestOK, TypeOK
    <3>3. parts'[s.up][0] = Whole
      BY <3>2, BlockLists DEF TypeOK, Parts
    <3> QED
      BY <1>1, <2>1, <3>1, <3>3, BlockLists
  <2> QED
    BY <1>1, <1>5, <2>2, <2>3 DEF UploadStream
<1>6. CASE CopyObject(c)
  <2>1. PICK n, b : n = s.next /\ b = s.list[s.next + 1]
    OBVIOUS
  <2>2. /\ s.pc = "active" /\ t.pc \in {"done", "active"}
        /\ t.op = s.op /\ t.up = s.up /\ t.next = n + 1
        /\ b \in blocks[s.up]
        /\ parts' = [parts EXCEPT ![s.up][n] = b]
    BY <1>1, <1>6, <2>1, CopyObjectValue
  <2>3. s.op = "commit"
    BY <1>1, <1>6 DEF CopyObject
  <2>4. Secured(t) = n + 1 /\ Secured(s) = n /\ n \in Nat
    BY <1>0, <1>1, <2>1, <2>2, <2>3 DEF Secured
  <2>5. s.up \in Upload /\ b # None /\ n \in PartIndex
    <3>1. s.up \in Upload
      BY <1>0, <1>1, <2>2 DEF RequestOK, TypeOK
    <3>2. n < Len(s.list) /\ s.list \in BlockList
      BY <1>0, <1>1, <2>1, <2>2, <2>3 DEF RequestOK
    <3>3. n \in PartIndex
      BY <2>4, <3>2, BlockLists, BlockAssumption DEF PartIndex
    <3> QED
      BY <2>2, <3>1, <3>3, BlockLists DEF TypeOK
  <2>6. parts'[s.up][n] = b
    BY <2>2, <2>5 DEF TypeOK, Parts
  <2> QED
    BY <1>1, <2>2, <2>4, <2>5, <2>6
<1>7. CASE MarkUploadFinished(c) \/ RecordBlockList(c) \/ GiveUp(c)
           \/ RejectUpload(c) \/ CompleteUploadRecord(c)
  BY <1>7, ReturnValue DEF MarkUploadFinished, RecordBlockList, GiveUp,
                           RejectUpload, CompleteUploadRecord
<1>8. CASE ValidateParts(c)
  <2>1. parts' = parts /\ s.pc = "active" /\ s.op = "complete"
    BY <1>1, <1>8 DEF ValidateParts
  <2> QED
    BY <1>1, <1>8, <2>1, ValidatePartsValue DEF Secured
<1>9. CASE ReadExistingEntry(c)
  <2>1. s.op = "complete" /\ s.pc = "done"
    BY <1>1, <1>9 DEF ReadExistingEntry
  <2> QED
    BY <1>1, <1>9, <2>1, ReadExistingEntryValue DEF Secured
<1> QED
  BY <1>2, <1>3, <1>4, <1>5, <1>6, <1>7, <1>8, <1>9
     DEF ClientStep, ActivityStep, CompleteStep

(* The count of committed parts is that of a request that has put them.    *)
LEMMA CommittedStep ==
  ASSUME TypeOK, RequestInv, [Next]_vars, NEW u \in Upload,
         committed'[u] # committed[u]
  PROVE  \E c \in Client : /\ client[c].pc = "done"
                           /\ client[c].up = u
                           /\ committed'[u] = Secured(client[c])
<1>1. PICK c \in Client : MarkUploadFinished(c) \/ RecordBlockList(c)
  <2>1. CASE UNCHANGED committed
    BY <2>1
  <2>2. CASE CleanupStep \/ Tick \/ UNCHANGED vars
    BY <2>1, <2>2
       DEF CleanupStep, Tick, vars, RunUploads, DetachEntry, FinalizeLocation,
           ReadTask, DeleteFolder, CompleteTask, AbandonTask, InspectFolder,
           RecheckReferences, ClaimOrphanedStorageFolder
  <2> QED
    BY <2>1, <2>2, ZenonT(60)
       DEF Next, ClientStep, CreateStep, BeginStep, ActivityStep, CompleteStep,
           GiveUp, BeginCreate, FirstUploadByTuple, TakeOver,
           CreateUploadRecord, UploadPart, UploadBlock, PrepareBlockListCommit,
           CompleteUpload, Begin, TouchUploadActivity, RenewUploadActivity,
           UploadStream, CopyObject, ValidateParts, RejectUpload,
           ReadExistingEntry, CompleteUploadRecord
<1>2. RequestOK(client[c], used)
  BY DEF RequestInv
<1>3. CASE MarkUploadFinished(c)
  BY <1>3 DEF MarkUploadFinished, CommittedPart, Secured, TypeOK
<1>4. CASE RecordBlockList(c)
  BY <1>2, <1>4 DEF RecordBlockList, RequestOK, Secured, TypeOK
<1> QED
  BY <1>1, <1>3, <1>4

LEMMA StoredInvKept ==
  ASSUME SessionInv, [Next]_vars
  PROVE  StoredInv'
<1> USE DEF SessionInv
<1>0. /\ RowStep /\ RowsMonotone /\ FoldersStep
  BY StepRowStep, RowStepMonotone, StepFoldersStep
<1>1. ASSUME NEW u \in Upload, u \in uploads \/ Located(u),
             NEW i \in PartIndex, parts[u][i] # None
      PROVE  parts'[u][i] # None
  BY <1>0, <1>1 DEF FoldersStep, TaskInv, FolderTasksUnowned
<1>2. \A n \in 0 .. MaxBlockListEntries : 0 .. n - 1 \subseteq PartIndex
  BY BlockAssumption DEF PartIndex
<1>3. ASSUME NEW c \in Client, client[c].pc # "idle", client[c].up \in uploads,
             NEW i \in 0 .. Secured(client[c]) - 1
      PROVE  parts[client[c].up][i] # None /\ parts'[client[c].up][i] # None
  <2>1. i \in PartIndex
    BY <1>2, SecuredType
  <2>2. parts[client[c].up][i] # None
    BY <1>3 DEF StoredInv
  <2>3. client[c].up \in Upload
    BY <1>3 DEF TypeOK
  <2> QED
    BY <1>1, <1>3, <2>1, <2>2, <2>3
<1>4. ASSUME NEW u \in uploads', NEW i \in 0 .. committed'[u] - 1
      PROVE  parts'[u][i] # None
  <2>1. u \in Upload /\ u \in used'
    BY StepType, RowInvKept, <1>0 DEF RowInv, TypeOK
  <2>2. CASE u \notin uploads
    <3>1. u \notin used
      BY <1>0, <1>4, <2>2 DEF RowsMonotone
    <3>2. committed'[u] = 0
      BY <1>0, <2>1, <2>2, <3>1 DEF FoldersStep, RowInv
    <3> QED
      BY <1>4, <3>2
  <2>3. CASE u \in uploads /\ committed'[u] = committed[u]
    <3>1. parts[u][i] # None /\ i \in PartIndex
      BY <1>2, <1>4, <2>1, <2>3 DEF StoredInv, CommittedStored, TypeOK
    <3> QED
      BY <1>1, <2>1, <2>3, <3>1
  <2>4. CASE u \in uploads /\ committed'[u] # committed[u]
    BY <1>3, <1>4, <2>1, <2>4, CommittedStep
  <2> QED
    BY <2>2, <2>3, <2>4
<1>5. ASSUME NEW l \in Location, folderOf'[l] # None
      PROVE  /\ partCount'[l] > 0
             /\ \A i \in 0 .. partCount'[l] - 1 : parts'[folderOf'[l]][i] # None
  <2>1. CASE folderOf'[l] = folderOf[l] /\ partCount'[l] = partCount[l]
    <3>1. /\ partCount[l] > 0
          /\ \A i \in 0 .. partCount[l] - 1 : parts[folderOf[l]][i] # None
      BY <1>5, <2>1 DEF StoredInv, FinalizedComplete
    <3>2. folderOf[l] \in Upload /\ Located(folderOf[l])
      BY <1>5, <2>1 DEF TypeOK, Located
    <3>3. partCount[l] \in 0 .. MaxBlockListEntries
      BY DEF TypeOK
    <3> QED
      BY <1>1, <1>2, <2>1, <3>1, <3>2, <3>3
  <2>2. ASSUME SessionPublished, ~(folderOf'[l] = folderOf[l]
                                     /\ partCount'[l] = partCount[l])
        PROVE  /\ partCount'[l] > 0
               /\ \A i \in 0 .. partCount'[l] - 1 :
                    parts'[folderOf'[l]][i] # None
    <3>1. PICK c \in Client :
            /\ client[c].pc = "entryRead"
            /\ client[c].up \in uploads
            /\ folderOf'[l] = client[c].up
            /\ partCount'[l] = client[c].committed
      BY <2>2 DEF SessionPublished, TypeOK
    <3>2. Secured(client[c]) = client[c].committed /\ client[c].committed > 0
      BY <3>1 DEF RequestInv, RequestOK, Secured
    <3> QED
      BY <1>3, <3>1, <3>2
  <2> QED
    BY <1>0, <1>5, <2>1, <2>2
       DEF RowStep, RowsKept, SessionDropped, SessionCreated, EntryDetached,
           LocationFinalized, TaskCompleted, FolderClaimed, TypeOK
<1>6. ASSUME NEW c \in Client, client'[c].pc # "idle", client'[c].up \in uploads',
             NEW i \in 0 .. Secured(client'[c]) - 1
      PROVE  parts'[client'[c].up][i] # None
  <2>1. CASE client'[c] = client[c]
    <3>1. client[c].pc # "idle" /\ client[c].up \in uploads'
            /\ i \in 0 .. Secured(client[c]) - 1
      BY <1>6, <2>1
    <3>2. client[c].pc \notin {"find", "insert"}
      BY <3>1 DEF Secured, RequestInv, RequestOK
    <3>3. client[c].up \in uploads
      BY <1>0, <3>1, <3>2 DEF RowsMonotone, RequestInv, RequestOK
    <3> QED
      BY <1>3, <2>1, <3>1, <3>3
  <2>2. CASE ClientStep(c)
    <3>1. /\ client[c].pc # "idle"
          /\ client'[c].up = client[c].up
          /\ \/ i \in 0 .. Secured(client[c]) - 1
             \/ parts'[client[c].up][i] # None
      BY <1>6, <2>2, SecuredStep DEF RowInv
    <3>2. ASSUME i \in 0 .. Secured(client[c]) - 1
          PROVE  client[c].up \in uploads
      <4>1. client[c].pc \notin {"find", "insert"}
        BY <3>2 DEF Secured, RequestInv, RequestOK
      <4> QED
        BY <1>0, <1>6, <3>1, <4>1 DEF RowsMonotone, RequestInv, RequestOK
    <3> QED
      BY <1>3, <3>1, <3>2
  <2> QED
    BY <2>1, <2>2, OneClientMoves, ClientsStay DEF Next
<1> QED
  BY <1>4, <1>5, <1>6 DEF StoredInv, CommittedStored, FinalizedComplete

-----------------------------------------------------------------------------
(* Heartbeats. *)

LEMMA HeartbeatInvKept ==
  ASSUME SessionInv, [Next]_vars
  PROVE  HeartbeatInv'
<1> USE DEF SessionInv
<1>0. RowsMonotone
  BY StepRowStep, RowStepMonotone
<1>1. SUFFICES ASSUME NEW c \in Client,
                      client'[c].pc = "active", client'[c].up \in uploads'
               PROVE  idle'[client'[c].up] <= HeartbeatInterval
  BY DEF HeartbeatInv
<1>2. PICK u : u = client'[c].up
  OBVIOUS
<1>3. CASE client'[c] = client[c]
  <2>1. client[c].pc = "active" /\ client[c].up = u
    BY <1>1, <1>2, <1>3
  <2>2. u \in uploads /\ u \in used /\ u \in Upload
    BY <1>0, <1>1, <1>2, <2>1 DEF RowsMonotone, RequestInv, RequestOK, TypeOK
  <2>3. idle[u] <= HeartbeatInterval
    BY <2>1, <2>2 DEF HeartbeatInv
  <2>4. idle[u] \in Nat
    BY <2>2 DEF TypeOK
  <2>5. CASE idle'[u] = idle[u] \/ idle'[u] = 0
    BY <1>2, <2>3, <2>4, <2>5, TimeoutAssumption
  <2>6. CASE Tick
    <3>1. idle[u] < HeartbeatInterval
      BY <2>1, <2>2, <2>6 DEF Tick
    <3>2. idle'[u] = idle[u] + 1 \/ idle'[u] = idle[u]
      BY <2>2, <2>6 DEF Tick
    <3> QED
      BY <1>2, <2>4, <3>1, <3>2, TimeoutAssumption
  <2>7. ASSUME NEW d \in Client, ClientStep(d)
        PROVE  idle'[u] = idle[u] \/ idle'[u] = 0
    <3>1. idle' = idle \/ \E v \in Upload : idle' = [idle EXCEPT ![v] = 0]
      BY <2>7
         DEF ClientStep, CreateStep, BeginStep, ActivityStep, CompleteStep,
             GiveUp, BeginCreate, FirstUploadByTuple, TakeOver,
             CreateUploadRecord, UploadPart, UploadBlock,
             PrepareBlockListCommit, CompleteUpload, Begin,
             TouchUploadActivity, Touched, RenewUploadActivity, UploadStream,
             CopyObject, MarkUploadFinished, RecordBlockList, ValidateParts,
             RejectUpload, ReadExistingEntry, CompleteUploadRecord, TypeOK
    <3> QED
      BY <2>2, <3>1 DEF TypeOK
  <2>8. ASSUME CleanupStep \/ UNCHANGED vars PROVE idle' = idle
    BY <2>8
       DEF CleanupStep, vars, RunUploads, DetachEntry, FinalizeLocation,
           ReadTask, DeleteFolder, CompleteTask, AbandonTask, InspectFolder,
           RecheckReferences, ClaimOrphanedStorageFolder
  <2> QED
    BY <2>5, <2>6, <2>7, <2>8 DEF Next
<1>4. CASE ClientStep(c) /\ client'[c] # client[c]
  <2>1. TouchUploadActivity(c) \/ CopyObject(c)
    <3>1. CASE CreateStep(c) \/ BeginStep(c)
      BY <1>1, <3>1, CreateStepValue, BeginStepValue
    <3>2. CASE RenewUploadActivity(c)
      <4>1. client'[c] = client[c] \/ client'[c].pc = "cancelled"
        BY <3>2, GoValue DEF RenewUploadActivity
      <4> QED
        BY <1>1, <1>4, <4>1
    <3>3. CASE UploadStream(c) \/ MarkUploadFinished(c) \/ RecordBlockList(c)
      <4>1. client'[c].pc \in {"idle", "done"}
        BY <3>3, GoValue, ReturnValue
           DEF UploadStream, MarkUploadFinished, RecordBlockList
      <4> QED
        BY <1>1, <4>1
    <3>4. CASE CompleteStep(c) \/ GiveUp(c)
      BY <1>1, <3>4, ReturnValue, ValidatePartsValue, ReadExistingEntryValue
         DEF CompleteStep, RejectUpload, CompleteUploadRecord, GiveUp
    <3> QED
      BY <1>4, <3>1, <3>2, <3>3, <3>4 DEF ClientStep, ActivityStep
  <2>2. CASE TouchUploadActivity(c)
    <3>1. client'[c].up = client[c].up /\ client[c].up \in Upload
            /\ idle' = [idle EXCEPT ![client[c].up] = 0]
      BY <1>1, <2>2, GoValue, ReturnValue
         DEF TouchUploadActivity, Touched, TypeOK
    <3> QED
      BY <3>1, TimeoutAssumption DEF TypeOK
  <2>3. CASE CopyObject(c)
    <3>1. /\ client[c].pc = "active" /\ client'[c].up = client[c].up
          /\ idle' = idle /\ uploads' = uploads
      BY <1>1, <2>3, CopyObjectValue DEF CopyObject
    <3> QED
      BY <1>1, <3>1 DEF HeartbeatInv
  <2> QED
    BY <2>1, <2>2, <2>3
<1> QED
  BY <1>3, <1>4, OneClientMoves, ClientsStay DEF Next

-----------------------------------------------------------------------------
(* The results. *)

LEMMA InitSession == Init => SessionInv
<1> SUFFICES ASSUME Init PROVE SessionInv
  OBVIOUS
<1>1. \A c \in Client : client[c].pc = "idle" /\ RequestOK(client[c], used)
  BY IdleTypes DEF Init, IdleClient
<1>2. TypeOK /\ RequestInv
  BY <1>1, IdleTypes, TimeoutAssumption, BlockAssumption
     DEF Init, TypeOK, RequestInv
<1>3. RowInv /\ OwnerInv
  BY DEF Init, RowInv, OwnerInv, OneOwnerPerFolder
<1>4. TaskInv /\ ClaimInv
  BY DEF Init, TaskInv, FolderTasksUnowned, Pending, ClaimInv, IdleWorker,
         IdleClaimer
<1>5. EntryInv /\ StoredInv /\ HeartbeatInv
  BY <1>1 DEF Init, EntryInv, OneEntryPerTuple, Entries, StoredInv,
              CommittedStored, FinalizedComplete, HeartbeatInv
<1> QED
  BY <1>2, <1>3, <1>4, <1>5 DEF SessionInv

LEMMA StepSession == SessionInv /\ [Next]_vars => SessionInv'
<1> SUFFICES ASSUME SessionInv, [Next]_vars PROVE SessionInv'
  OBVIOUS
<1>1. /\ TypeOK /\ RequestInv /\ RowInv /\ OwnerInv /\ TaskInv /\ ClaimInv
      /\ EntryInv
  BY DEF SessionInv
<1>2. RowStep /\ FoldersStep
  BY <1>1, StepRowStep, StepFoldersStep
<1>3. TypeOK' /\ RequestInv'
  BY StepType
<1>4. RowInv' /\ OwnerInv'
  BY <1>1, <1>2, RowInvKept, OwnerInvKept
<1>5. TaskInv' /\ ClaimInv' /\ EntryInv'
  BY <1>1, TaskInvKept, ClaimInvKept, EntryInvKept
<1>6. StoredInv' /\ HeartbeatInv'
  BY StoredInvKept, HeartbeatInvKept
<1> QED
  BY <1>3, <1>4, <1>5, <1>6 DEF SessionInv

(* However requests, takeovers, completions, the outbox and orphan claims  *)
(* interleave, the rows of sessions and locations agree with each other    *)
(* and with the parts in storage (CreateUpload, withUploadActivity,        *)
(* completeUploadRecord, claimOrphanedStorageFolder).                      *)
THEOREM SessionsAreSafe == Spec => []SessionInv
  BY InitSession, StepSession, PTL DEF Spec

(* The deletion of a folder is never pending while a session or a location *)
(* owns it, and every published location keeps its parts.                  *)
THEOREM OwnedFoldersAreKept == Spec => []OwnedFoldersKept
<1>1. SessionInv => OwnedFoldersKept
  BY DEF SessionInv, TaskInv, StoredInv, OwnedFoldersKept
<1> QED
  BY <1>1, SessionsAreSafe, PTL

(* A tuple never gets a second entry, although completeUploadRecord looks  *)
(* for the first one without a lock.                                       *)
THEOREM EntriesAreUnique == Spec => []OneEntryPerTuple
<1>1. SessionInv => OneEntryPerTuple
  BY DEF SessionInv, EntryInv
<1> QED
  BY <1>1, SessionsAreSafe, PTL

(* A session with a running operation is not taken for idle: it ends only  *)
(* by a completion or rejection of its own (withUploadActivity).           *)
THEOREM ActiveIsNotTakenOver == Spec => ActiveNotTakenOver
<1> DEFINE Ended(c, u) ==
      \E d \in Client : /\ client[d].op = "complete"
                        /\ client[d].up = u
                        /\ client'[d] # client[d]
<1>1. ASSUME SessionInv, [Next]_vars, NEW c \in Client, NEW u \in Upload,
             client[c].pc = "active", client[c].up = u, u \in uploads \ uploads'
      PROVE  Ended(c, u)
  <2>1. idle[u] <= HeartbeatInterval /\ idle[u] \in Nat
    BY <1>1 DEF SessionInv, HeartbeatInv, TypeOK
  <2>2. ~Inactive(u, TakeoverIdleTimeout) /\ ~Inactive(u, CleanupIdleTimeout)
    BY <2>1, TimeoutAssumption DEF Inactive
  <2>3. ~CleanupStep
    BY <1>1, <2>2
       DEF CleanupStep, RunUploads, DropUpload, DetachEntry, FinalizeLocation,
           ReadTask, DeleteFolder, CompleteTask, AbandonTask, InspectFolder,
           RecheckReferences, ClaimOrphanedStorageFolder
  <2>4. PICK d \in Client : ClientStep(d)
    BY <1>1, <2>3 DEF Next, Tick, vars
  <2>5. RejectUpload(d) \/ CompleteUploadRecord(d)
    BY <1>1, <2>2, <2>4
       DEF ClientStep, CreateStep, BeginStep, ActivityStep, CompleteStep,
           GiveUp, BeginCreate, FirstUploadByTuple, TakeOver, DropUpload,
           CreateUploadRecord, UploadPart, UploadBlock, PrepareBlockListCommit,
           CompleteUpload, Begin, TouchUploadActivity, RenewUploadActivity,
           UploadStream, CopyObject, MarkUploadFinished, RecordBlockList,
           ValidateParts, ReadExistingEntry
  <2>6. client[d].up = u /\ client[d].pc # "idle"
    BY <1>1, <2>5 DEF RejectUpload, DropUpload, CompleteUploadRecord
  <2>7. client[d].op = "complete"
    BY <1>1, <2>5 DEF RejectUpload, CompleteUploadRecord, NothingUploaded,
                      SessionInv, RequestInv, RequestOK
  <2>8. client'[d].pc = "idle"
    BY <1>1, <2>5, ReturnValue DEF RejectUpload, CompleteUploadRecord, SessionInv
  <2> QED
    BY <2>6, <2>7, <2>8
<1>2. SessionInv /\ [Next]_vars =>
        [\A c \in Client, u \in Upload :
           /\ client[c].pc = "active" /\ client[c].up = u
           /\ u \in uploads \ uploads'
           => \E d \in Client : /\ client[d].op = "complete"
                                /\ client[d].up = u
                                /\ client'[d] # client[d]]_vars
  BY <1>1
<1> QED
  BY <1>2, SessionsAreSafe, PTL DEF Spec, ActiveNotTakenOver
=============================================================================
