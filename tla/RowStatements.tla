--------------------------- MODULE RowStatements ---------------------------
(***************************************************************************)
(* What the program gets when it runs the statements of the generated     *)
(* entity code in transactions, under the three engines it runs on: SQLite *)
(* through a single connection, PostgreSQL reading what is committed,      *)
(* MySQL reading from a snapshot.  A statement sees the writes of its own  *)
(* transaction, waits for rows that another one wrote, and may fail, which *)
(* rolls the transaction back.                                             *)
(***************************************************************************)
EXTENDS RowStore, DatabaseEngine

CONSTANTS Engine,     \* the engines considered
          Kinds,      \* the transactions considered
          Stores,     \* what the tables may hold at first
          Lasts,      \* how long a lease, a grace or a staleness bound lasts on the clock
          MaxJobs,    \* bound: transactions begun
          MaxClock    \* bound: the clock

VARIABLES db, clock, jobs,
          issued,     \* the rows that were ever committed, and the uploads that folders are
                      \* named after: their ids, drawn at random, are never drawn again
          proc        \* of each process: its transaction, where it is in it, what it read,
                      \* its uncommitted writes, its snapshot, the parent rows its inserts
                      \* hold, and the processes it waits for
vars == <<engine, db, clock, jobs, issued, proc>>

Process == 1..MaxJobs
Tuple == [key |-> "key", version |-> "version", scope |-> "scope", repoId |-> "repo"]
Folder(r) == <<r, "">>

Idle == [pc |-> "idle", job |-> Null, reg |-> <<>>, writes |-> <<>>, snap |-> Null,
         shared |-> {}, waits |-> {}]

Owned(store) == {store[r].folderName : r \in {x \in RowsOf("upload") \cup RowsOf("location")
                                                 : store[x] # Absent}}
Queued(store) == {store[t].folderName : t \in {x \in RowsOf("deletion") : store[x] # Absent}}
Issued(store) == {r \in Rows : store[r] # Absent}
                   \cup {<<"upload", folder[1]>> : folder \in Owned(store)}

Init == /\ engine \in Engine
        /\ db \in Stores
        /\ clock = 1
        /\ jobs = 0
        /\ issued = Issued(db)
        /\ proc = [p \in Process |-> Idle]

----------------------------------------------------------------------------
(* Statements: what each makes of the process, its result, and whom it waits *)
(* for.  A process that need not wait goes on as the code does with the      *)
(* result, and may keep something for later.                                 *)

At(p, pc) == proc[p].pc = pc
Goto(s, pc) == [s EXCEPT !.pc = pc]
Keep(s, reg) == [s EXCEPT !.reg = reg ++ @]
Step(p, s) == /\ proc' = [proc EXCEPT ![p] = s]
              /\ UNCHANGED <<engine, db, clock, jobs, issued>>

Current(p) == proc[p].writes ++ db
Snapshot(p) == IF engine = "mysql" /\ proc[p].snap # Null THEN proc[p].snap ELSE db
View(p) == proc[p].writes ++ Snapshot(p)
Looked(p) == IF engine = "mysql" THEN [proc[p] EXCEPT !.snap = Snapshot(p)] ELSE proc[p]

Goes(p, did, s) ==
  Step(p, IF did.waits = {} THEN [s EXCEPT !.waits = {}]
          ELSE [proc[p] EXCEPT !.waits = did.waits])
Does(p, did, pc) == Goes(p, did, Goto(did.state, pc))
Keeps(p, did, pc, reg) == Goes(p, did, Keep(Goto(did.state, pc), reg))

Read(p, result) == [state |-> Looked(p), result |-> result, waits |-> {}]
Query(p, table, where) == Read(p, {View(p)[r] : r \in Matching(View(p), table, where)})
Exist(p, table, where) == Read(p, Matching(View(p), table, where) # {})

\* Who holds rows a statement must lock: their writers, and those that hold a parent
\* row by an insert, from a delete and, under MySQL, from an update too.
Others(p) == Process \ {p}
Writers(p, rows) == {q \in Others(p) : DOMAIN proc[q].writes \cap rows # {}}
Deleters(p, rows) ==
  {q \in Others(p) : \E r \in rows \cap DOMAIN proc[q].writes : proc[q].writes[r] = Absent}
Sharers(p, rows) == {q \in Others(p) : proc[q].shared \cap rows # {}}
Updating(p, rows) == Writers(p, rows) \cup (IF engine = "mysql" THEN Sharers(p, rows) ELSE {})
Deleting(p, rows) == Writers(p, rows) \cup Sharers(p, rows)
Inserting(p, r, row) ==
  LET parents == Parent(r, row)
      twins == UNION {Duplicates(proc[q].writes ++ db, r, row) : q \in Process}
               \cup Duplicates(db, r, row)
  IN Writers(p, twins)
       \cup (IF engine = "mysql" THEN Writers(p, parents) ELSE Deleters(p, parents))

Written(p, writes) == [proc[p] EXCEPT !.writes = writes ++ @]

UpdateEach(p, table, where, changes) ==
  LET rows == Matching(Current(p), table, where)
      new == [r \in rows |-> Changed(Current(p)[r], changes[r])]
  IN [state |-> Written(p, new), result |-> rows, waits |-> Updating(p, rows)]
Update(p, table, where, changes) ==
  UpdateEach(p, table, where, [r \in RowsOf(table) |-> changes])

\* UpdateOneID reads the row back afterwards, from the view: under MySQL it finds the
\* row of its snapshot although another transaction has deleted it and nothing was
\* updated.
UpdateOne(p, table, id, changes) ==
  LET where == {Where("id", "EQ", id)}
      did == Update(p, table, where, changes)
  IN [did EXCEPT !.result = @ # {} \/ Matching(View(p), table, where) # {}]

\* A delete that a lease forbids fails; its caller treats it like one that found no row.
Delete(p, table, where) ==
  LET rows == Matching(Current(p), table, where)
      all == rows \cup Cascade(Current(p), rows)
  IN [state |-> Written(p, [r \in all |-> Absent]),
      result |-> IF Restricted(Current(p), rows) THEN {} ELSE rows,
      waits |-> Deleting(p, all)]

Create(p, table, id, changes) ==
  LET r == <<table, id>>
      row == Inserted(table, id, changes)
      fits == /\ Valid(table, row)
              /\ \A parent \in Parent(r, row) : Current(p)[parent] # Absent
              /\ Duplicates(Current(p), r, row) = {}
  IN [state |-> [Written(p, [x \in {r} |-> row]) EXCEPT !.shared = @ \cup Parent(r, row)],
      result |-> fits, waits |-> Inserting(p, r, row), id |-> id]

\* An insert takes an id of its own, drawn at random (the ids are a bound: there are enough
\* for MaxJobs transactions); an upload brings its id.
Free(table) ==
  {r \in RowsOf(table) \ issued : \A q \in Process : r \notin DOMAIN proc[q].writes}
FreeID(table) == (CHOOSE r \in Free(table) : TRUE)[2]
Inserts(p, pc, table) == At(p, pc) /\ Free(table) # {}
CreateNew(p, table, values) == Create(p, table, FreeID(table), values)

----------------------------------------------------------------------------
(* The statements of each table that the program runs.                       *)

QueryEntry(p, where) == Query(p, "entry", where)
QueryLocation(p, where) == Query(p, "location", where)
ExistEntry(p, where) == Exist(p, "entry", where)
ExistLocation(p, where) == Exist(p, "location", where)
ExistLease(p, where) == Exist(p, "lease", where)
ExistDeletion(p, where) == Exist(p, "deletion", where)
ExistUpload(p, where) == Exist(p, "upload", where)

UpdateLocation(p, where, changes) == Update(p, "location", where, changes)
UpdateLease(p, where, changes) == Update(p, "lease", where, changes)
UpdateOneLocation(p, id, changes) == UpdateOne(p, "location", id, changes)
UpdateOneEntry(p, id, changes) == UpdateOne(p, "entry", id, changes)
UpdateOneUpload(p, id, changes) == UpdateOne(p, "upload", id, changes)
UpdateOneDeletion(p, id, changes) == UpdateOne(p, "deletion", id, changes)

DeleteEntry(p, where) == Delete(p, "entry", where)
DeleteLease(p, where) == Delete(p, "lease", where)
DeleteUpload(p, where) == Delete(p, "upload", where)
DeleteOneUpload(p, id) == DeleteUpload(p, {UploadID("EQ", id)})
DeleteOneLocation(p, id) == Delete(p, "location", {LocationID("EQ", id)})
DeleteOneDeletion(p, id) == Delete(p, "deletion", {DeletionID("EQ", id)})

EntryValues(tuple, now, location) ==
  ChangeEntryKey("set", tuple.key) ++ ChangeEntryVersion("set", tuple.version) ++
  ChangeEntryScope("set", tuple.scope) ++ ChangeEntryRepoId("set", tuple.repoId) ++
  ChangeEntryUpdatedAt("set", now) ++ ChangeEntryLocation("set", location)
LocationValues(folder, parts, size, now) ==
  ChangeLocationFolderName("set", folder) ++ ChangeLocationPartCount("set", parts) ++
  ChangeLocationSizeBytes("set", size) ++ ChangeLocationRecencyAt("set", now)
LeaseValues(location, scope, until) ==
  ChangeLeaseStorageLocationId("set", location) ++ ChangeLeaseScope("set", scope) ++
  ChangeLeaseExpiresAt("set", until)
DeletionValues(folder, now) ==
  ChangeDeletionFolderName("set", folder) ++ ChangeDeletionCreatedAt("set", now)
UploadValues(tuple, folder, now) ==
  ChangeUploadKey("set", tuple.key) ++ ChangeUploadVersion("set", tuple.version) ++
  ChangeUploadScope("set", tuple.scope) ++ ChangeUploadRepoId("set", tuple.repoId) ++
  ChangeUploadTupleHash("set", tuple) ++ ChangeUploadFolderName("set", folder) ++
  ChangeUploadCommittedPartCount("set", 0) ++ ChangeUploadCreatedAt("set", now)

CreateEntry(p, values) == CreateNew(p, "entry", values)
CreateLocation(p, values) == CreateNew(p, "location", values)
CreateLease(p, values) == CreateNew(p, "lease", values)
CreateDeletion(p, values) == CreateNew(p, "deletion", values)
CreateUpload(p, id, values) == Create(p, "upload", id, values)

----------------------------------------------------------------------------
(* Transactions.                                                             *)

Active(p) == proc[p].pc # "idle"

\* SQLite has a single connection, which a transaction keeps until it ends.
Begin(p, job, pc, reg) ==
  /\ p = jobs + 1
  /\ job.kind \in Kinds
  /\ engine = "sqlite" => \A q \in Process : ~Active(q)
  /\ proc' = [proc EXCEPT ![p] = [Idle EXCEPT !.pc = pc, !.job = job, !.reg = reg]]
  /\ jobs' = jobs + 1
  /\ UNCHANGED <<engine, db, clock, issued>>

Commit(p) ==
  /\ At(p, "commit")
  /\ db' = Current(p)
  /\ issued' = issued \cup Issued(Current(p))
  /\ proc' = [proc EXCEPT ![p] = Idle]
  /\ UNCHANGED <<engine, clock, jobs>>

Rollback(p) == At(p, "rollback") /\ Step(p, Idle)

\* The connection or the context of the request ends: any statement may fail.
Fail(p) == Active(p) /\ Step(p, Idle)

\* The engine aborts one of two transactions that wait for each other.
BreakDeadlock(p) ==
  /\ \E q \in proc[p].waits : p \in proc[q].waits
  /\ Step(p, Idle)

Tick == /\ clock < MaxClock
        /\ clock' = clock + 1
        /\ UNCHANGED <<engine, db, jobs, issued, proc>>
=============================================================================
