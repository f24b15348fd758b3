--------------------------- MODULE StatementProofs ----------------------------
(***************************************************************************)
(* What one statement of a transaction does, for every number of           *)
(* transactions, every set of ids and every sound content of the tables:   *)
(* the invariant of DatabaseProofs, and that each statement which inserts  *)
(* nothing keeps it.                                                       *)
(*                                                                         *)
(* The invariant (Inv) says that the committed tables are sound, and what  *)
(* every open transaction would leave were it committed now (Would): rows  *)
(* of their kind that evolve as rows may (WritesInv), tables in which keys *)
(* and foreign keys hold, folders have one owner and claimed parts no      *)
(* reader, but for the pair, the spared and the pending rows of a request  *)
(* that is half done (WouldInv), and what the statements still to come     *)
(* rely on: locals, snapshot, locks (PlanInv).  Transactions write rows    *)
(* apart from each other, and to none whose child another one inserts      *)
(* (Held).                                                                 *)
(*                                                                         *)
(* First come rows, then what a statement makes of the tables that its     *)
(* transaction would leave (Mild...), then what it sees, and last one      *)
(* lemma per statement, grouped by what the statement writes: where X is   *)
(* an action of RowTransactions, XKeeps says that it keeps the invariant.  *)
(***************************************************************************)
EXTENDS Database, TLAPS

-----------------------------------------------------------------------------
(* The state is a record, so that what is said of a transaction s in a state g *)
(* mentions no variable.                                                     *)

Now == [db |-> db, clock |-> clock, issued |-> issued, engine |-> engine]

(* The committed tables.  Under MySQL parts may be claimed beside a reader.  *)
Committed(g) ==
  /\ Typed(g.db) /\ Linked(g.db) /\ Leased(g.db) /\ OneEntry(g.db) /\ OneUpload(g.db)
  /\ OneOwner(g.db, {}) /\ QueueFree(g.db, {}) /\ (g.engine # "mysql" => Claimed(g.db))
  /\ Timely(g.db, g.clock) /\ Known(g.db, g.issued)

(* What no update of a row changes, or changes back.                         *)
Evolves(r, old, new) ==
  /\ r[1] \in {"entry", "upload"} => KeyOf(new) = KeyOf(old)
  /\ r[1] = "location" =>
       /\ new.folderName = old.folderName /\ new.partCount = old.partCount
       /\ old.materializationUnsupportedAt # Null => new.materializationUnsupportedAt # Null
  /\ r[1] = "lease" => /\ new.storageLocationId = old.storageLocationId
                       /\ new.scope = old.scope /\ new.expiresAt >= old.expiresAt
  /\ r[1] = "deletion" => new.folderName = old.folderName

-----------------------------------------------------------------------------
(* Locks: what a transaction has written or whose parent it holds.           *)

Shape(s) ==
  /\ DOMAIN s = DOMAIN Idle
  /\ DOMAIN s.writes \subseteq Rows
  /\ \A r \in DOMAIN s.writes : s.writes[r] # Absent => "id" \in DOMAIN s.writes[r]
Fresh(g, s) ==
  s.pc # "rollback" =>
    \A r \in DOMAIN s.writes : g.db[r] = Absent /\ s.writes[r] # Absent => r \notin g.issued
Idles(s) == s.pc = "idle" => DOMAIN s.writes = {} /\ s.shared = {}

(* A row is written by one transaction at a time, and none deletes a row that *)
(* another one refers to.                                                    *)
Apart(s, t) ==
  /\ DOMAIN s.writes \cap DOMAIN t.writes = {}
  /\ \A r \in s.shared \cap DOMAIN t.writes : t.writes[r] # Absent

Held(g, pr) ==
  /\ DOMAIN pr = Process
  /\ \A p \in Process : Shape(pr[p]) /\ Fresh(g, pr[p]) /\ Idles(pr[p])
  /\ \A p, q \in Process : p # q => Apart(pr[p], pr[q])

-----------------------------------------------------------------------------
(* An open transaction, unless it is a completion whose upload was taken.    *)

Ours(s) == s.pc \notin {"idle", "rollback"}
UploadRow(s) == <<"upload", s.job.upload>>
NewRow(s) == <<"location", s.reg.new>>
Target(s) == <<"location", s.reg.location>>
Entitled(g, s) == s.job.kind = "complete" => g.db[UploadRow(s)] # Absent
Open(g, s) == Ours(s) /\ Entitled(g, s)
Would(g, s) == s.writes ++ g.db

Pair(s) == IF s.job.kind = "complete" /\ s.pc # "complete" THEN {UploadRow(s), NewRow(s)} ELSE {}
Spared(s) == IF s.pc = "fence.delete" THEN {Target(s)} ELSE {}
Pending(s) == IF s.pc = "abandon.enqueue" THEN {UploadRow(s)} ELSE {}

(* Its writes.                                                               *)
Puts(s, r) == r \in DOMAIN s.writes /\ s.writes[r] # Absent
Adds(g, s, r) == Puts(s, r) /\ g.db[r] = Absent
RowsOK(g, s) ==
  \A r \in DOMAIN s.writes : s.writes[r] # Absent =>
    RowOK(r, s.writes[r]) /\ (g.db[r] # Absent => Evolves(r, g.db[r], s.writes[r]))
EntriesOK(g, s) ==
  \A e \in RowsOf("entry") : Puts(s, e) =>
    /\ s.job.kind = "complete" /\ s.writes[e].locationId = s.reg.new
    /\ Adds(g, s, e) => KeyOf(s.writes[e]) = KeyOf(s.reg.upload)
(* Readers of parts are admitted to locations that are locked or never merged. *)
Admissible(g, s, l) == \/ Puts(s, l) /\ s.writes[l].mergedAt = Null
                       \/ (g.db[l] # Absent => ~Mergeable(g.db[l]))
InsertsOK(g, s) ==
  /\ \A l \in RowsOf("location") : Adds(g, s, l) => s.job.kind = "complete" /\ l = NewRow(s)
  /\ \A d \in RowsOf("lease") : Adds(g, s, d) =>
       LET l == LeasedBy(s.writes[d]) IN
       /\ s.job.kind = "acquire" /\ l \in s.shared
       /\ s.writes[d].scope = "parts" => Admissible(g, s, l)
  /\ \A r \in RowsOf("deletion") : Puts(s, r) => UploadOf(s.writes[r].folderName) \in g.issued
DropsOK(g, s) ==
  \A r \in Owners \ Pending(s) : r \in DOMAIN s.writes /\ s.writes[r] = Absent /\
    g.db[r] # Absent =>
    \E x \in Owners \cup RowsOf("deletion") :
      Puts(s, x) /\ s.writes[x].folderName = g.db[r].folderName

TimesOK(g, s) ==
  \A d \in RowsOf("lease") : Puts(s, d) => s.writes[d].expiresAt <= g.clock + Lasts

(* The requests and their local variables.                                   *)
AcquirePcs == {"acquire", "acquire.location", "acquire.lock", "acquire.create"}
CompletePcs == {"complete", "complete.entry", "complete.update", "complete.insert",
                "complete.blocks", "complete.delete"}
FencePcs == {"fence.entries", "fence.location", "fence.mark", "fence.leases",
             "fence.readers", "fence.enqueue", "fence.delete"}
EvictPcs == {"evict", "evict.get", "evict.readers"}
ClaimPcs == {"claim.location", "claim.leases", "claim.readers", "claim.enqueue", "claim.mark"}
OrphanPcs == {"orphan", "orphan.locations", "orphan.deletions", "orphan.enqueue"}
LockedPcs == FencePcs \cup ClaimPcs \cup
  {"purgeIf.entry", "evict.get", "evict.readers", "expire.location", "expire.entries",
   "expire.recent", "expire.readers", "merge.location", "merge.lease"}
\* Where nothing has been written yet.
FirstPcs == OrphanPcs \cup
  {"acquire", "acquire.location", "acquire.lock", "renew", "release", "sweep", "request.orphan",
   "purge", "purgeIf", "evict", "expire", "claim", "merge", "merged", "touch", "size",
   "backfill", "upload", "part", "abandon", "complete", "process.done", "process.failed"}
TargetPcs == LockedPcs \cup
  {"fence.lock", "request.orphan", "request.detach", "purge", "purgeIf", "evict", "expire",
   "claim", "merge", "merged", "touch", "size"}

KindsOK(s) ==
  /\ s.pc \in AcquirePcs => s.job.kind = "acquire"
  /\ s.pc \in CompletePcs => s.job.kind = "complete"
  /\ s.pc \in EvictPcs => s.job.kind = "evict"
  /\ s.pc \in OrphanPcs => s.job.kind = "orphan"
  /\ s.job.kind = "acquire" => s.pc \in AcquirePcs \cup {"commit"}
  /\ s.job.kind = "request" =>
       s.pc \in FencePcs \cup {"request.orphan", "request.detach", "fence.lock", "commit"}
  /\ s.job.kind = "complete" => s.pc \in CompletePcs \cup FencePcs \cup {"fence.lock", "commit"}
  /\ s.job.kind = "orphan" => s.pc \in OrphanPcs \cup {"commit"}
  /\ s.job.kind = "evict" => s.pc \in EvictPcs \cup FencePcs \cup {"request.detach", "commit"}

FirstOK(s) ==
  (s.pc \in FirstPcs \/ (s.pc = "request.detach" /\ s.job.kind = "request"))
    => DOMAIN s.writes = {}

(* What it sees: an old state of the tables, at least of what it asks for.   *)
OrphanRow(s) == <<"upload", s.job.folder>>
Sight(g, s, v) ==
  /\ DOMAIN v = Rows
  /\ Linked(v)
  /\ \A r \in Rows : v[r] # Absent => RowOK(r, v[r]) /\ r \in g.issued
  /\ \A r \in Rows : v[r] # Absent /\ g.db[r] # Absent => Evolves(r, v[r], g.db[r])
  /\ \A e \in RowsOf("entry") : g.db[e] # Absent /\ v[LocationOf(g.db[e])] # Absent =>
       v[e] # Absent /\ v[e].locationId = g.db[e].locationId
  /\ (s.pc \in TargetPcs /\ v[Target(s)] = Absent) => g.db[Target(s)] = Absent
  /\ (s.job.kind = "orphan" /\ v[OrphanRow(s)] = Absent) =>
       /\ g.db[OrphanRow(s)] = Absent
       /\ \A l \in RowsOf("location") :
            g.db[l] # Absent /\ g.db[l].folderName = Folder(s.job.folder) => v[l] # Absent
SnapOK(g, s) == g.engine = "mysql" /\ s.snap # Null => Sight(g, s, s.snap)

TargetOK(g, s) ==
  s.pc \in TargetPcs =>
    /\ "location" \in DOMAIN s.reg /\ s.reg.location \in Location /\ Target(s) \in g.issued
    /\ s.pc \in LockedPcs \/ (s.pc = "request.detach" /\ s.job.kind # "request") =>
         Puts(s, Target(s)) /\ g.db[Target(s)] # Absent

AcquireOK(g, s) ==
  /\ s.pc \in AcquirePcs \ {"acquire"} =>
       "location" \in DOMAIN s.reg /\ s.reg.location \in Location /\ Target(s) \in g.issued
  /\ s.pc \in {"acquire.lock", "acquire.create"} =>
       "scope" \in DOMAIN s.reg /\ s.reg.scope # Null
  /\ s.pc = "acquire.create" /\ s.reg.scope = "parts" => Admissible(g, s, Target(s))

NoEntries(store, l) ==
  \A e \in RowsOf("entry") : store[e] # Absent => LocationOf(store[e]) # l
FenceOK(g, s) ==
  /\ s.pc \in FencePcs \ {"fence.entries"} => NoEntries(Would(g, s), Target(s))
  /\ s.pc \in {"fence.mark", "fence.leases", "fence.readers", "fence.enqueue"} =>
       /\ {"row", "now"} \subseteq DOMAIN s.reg /\ s.reg.now \in Nat
       /\ DOMAIN s.reg.row = DOMAIN NewLocation
       /\ s.reg.row.folderName = s.writes[Target(s)].folderName
  /\ s.pc = "fence.delete" => \E t \in RowsOf("deletion") :
       Puts(s, t) /\ s.writes[t].folderName = s.writes[Target(s)].folderName

RequestOK(g, s) ==
  /\ s.pc = "purgeIf" => "row" \in DOMAIN s.reg /\ s.reg.row.id = s.reg.location
  /\ s.job.kind = "evict" =>
       /\ s.job.row.id = s.reg.location
       /\ \A l \in RowsOf("location") \cap DOMAIN s.writes :
            g.db[l] # Absent => g.db[l].recencyAt = s.job.row.recencyAt
  /\ s.pc = "merge.lease" =>
       /\ "now" \in DOMAIN s.reg /\ s.reg.now \in Nat
       /\ Mergeable(s.writes[Target(s)]) /\ s.writes[Target(s)].mergedAt = Null
  /\ s.pc = "merged" => s.job.how \in {"finish", "unsupported", "release", "extend"}

ClaimOK(g, s) ==
  /\ s.pc \in ClaimPcs => s.writes[Target(s)].mergedAt # Null
  /\ s.pc \in ClaimPcs \ {"claim.location"} =>
       /\ {"row", "now"} \subseteq DOMAIN s.reg /\ s.reg.now \in Nat
       /\ s.reg.row.folderName[1] \in Upload /\ UploadOf(s.reg.row.folderName) \in g.issued
  /\ s.pc = "claim.readers" /\ g.engine # "mysql" =>
       \A d \in RowsOf("lease") : PartsLease(Would(g, s), d, Target(s)) =>
         Would(g, s)[d].expiresAt > s.reg.now
  /\ s.pc \in {"claim.enqueue", "claim.mark"} /\ g.engine # "mysql" =>
       Unread(Would(g, s), Target(s))

UploadsOK(g, s) ==
  /\ s.pc \in {"part", "abandon", "abandon.enqueue"} =>
       s.job.upload \in Upload /\ UploadRow(s) \in g.issued
  /\ s.pc = "abandon.enqueue" =>
       /\ DOMAIN s.writes \cap Owners = {UploadRow(s)}
       /\ s.writes[UploadRow(s)] = Absent /\ g.db[UploadRow(s)] # Absent
  /\ s.job.kind = "orphan" =>
       s.job.folder \in Upload /\ OrphanRow(s) \in g.issued
  /\ s.pc \in OrphanPcs \ {"orphan"} =>
       /\ g.db[OrphanRow(s)] = Absent
       /\ g.engine = "mysql" /\ s.snap # Null => s.snap[OrphanRow(s)] = Absent
  /\ s.pc \in {"orphan.deletions", "orphan.enqueue"} => \A l \in RowsOf("location") :
       g.db[l] # Absent => g.db[l].folderName # Folder(s.job.folder)

(* A completion, also one whose upload was taken.                            *)
UploadTaken(g, s) ==
  Ours(s) /\ s.job.kind = "complete" =>
    /\ s.job.upload \in Upload /\ UploadRow(s) \in g.issued
    /\ s.pc \in CompletePcs \cup FencePcs \cup {"fence.lock", "commit"}
    /\ s.pc # "commit" => DOMAIN s.writes \cap RowsOf("upload") = {}
    /\ s.pc = "commit" => /\ UploadRow(s) \in DOMAIN s.writes
                          /\ s.writes[UploadRow(s)] = Absent /\ g.db[UploadRow(s)] # Absent

CompleteOK(g, s) ==
  s.job.kind = "complete" =>
    /\ {"upload", "now"} \subseteq DOMAIN s.reg /\ s.reg.now \in Nat
    /\ UploadOK(s.reg.upload) /\ s.reg.upload.id = s.job.upload
    /\ KeyOf(g.db[UploadRow(s)]) = KeyOf(s.reg.upload)
    /\ s.pc \in {"complete", "complete.entry"} => s.snap = Null
    /\ s.pc # "complete" =>
         /\ "new" \in DOMAIN s.reg /\ s.reg.new \in Location /\ Adds(g, s, NewRow(s))
         /\ s.writes[NewRow(s)].folderName = Folder(s.job.upload)
         /\ s.writes[NewRow(s)].deletionRequestedAt = Null
    /\ s.pc \in {"complete.entry", "complete.update", "complete.insert"} =>
         DOMAIN s.writes \cap RowsOf("entry") = {}
    /\ s.pc = "complete.update" =>
         /\ "entry" \in DOMAIN s.reg /\ EntryOK(s.reg.entry)
         /\ LocationOf(s.reg.entry) \in g.issued
         /\ g.engine = "mysql" /\ s.snap # Null => s.snap[LocationOf(s.reg.entry)] # Absent
    /\ s.pc = "complete.insert" => \A e \in RowsOf("entry") :
         g.db[e] # Absent => KeyOf(g.db[e]) # KeyOf(s.reg.upload)
    /\ g.engine # "mysql" /\ s.pc \in {"complete.blocks", "complete.delete", "commit", "fence.lock"}
                                   \cup FencePcs =>
         \E e \in RowsOf("entry") : Puts(s, e) /\ s.writes[e].locationId = s.reg.new

-----------------------------------------------------------------------------
(* The invariant.                                                            *)

(* Rows that are written are of their kind, and evolve as rows may.           *)
WritesInv(g, s) == /\ RowsOK(g, s) /\ EntriesOK(g, s) /\ InsertsOK(g, s) /\ DropsOK(g, s)
                  /\ TimesOK(g, s)
(* What it would leave is sound, but for rows of a request that is half done. *)
WouldInv(g, s) ==
  LET store == Would(g, s) IN
  /\ Linked(store) /\ Leased(store) /\ OneEntry(store) /\ OneUpload(store)
  /\ OneOwner(store, Pair(s)) /\ QueueFree(store, Spared(s))
  /\ g.engine # "mysql" => Claimed(store)
(* What the statements still to come rely on.                                *)
PlanInv(g, s) == /\ KindsOK(s) /\ FirstOK(s) /\ SnapOK(g, s) /\ TargetOK(g, s) /\ AcquireOK(g, s)
                 /\ FenceOK(g, s) /\ RequestOK(g, s) /\ ClaimOK(g, s) /\ UploadsOK(g, s)
                 /\ CompleteOK(g, s)
OpenInv(g, s) == Open(g, s) => WritesInv(g, s) /\ WouldInv(g, s) /\ PlanInv(g, s)

(* Two uploads that are begun are of two tuples.                             *)
Rivals(g, s, t) ==
  Open(g, s) /\ Open(g, t) => \A u, v \in RowsOf("upload") :
    Adds(g, s, u) /\ Adds(g, t, v) => KeyOf(s.writes[u]) # KeyOf(t.writes[v])

Inv(g, pr) ==
  /\ g.clock \in Nat /\ Committed(g) /\ Held(g, pr)
  /\ \A p \in Process : UploadTaken(g, pr[p]) /\ OpenInv(g, pr[p])
  /\ \A p, q \in Process : p # q => Rivals(g, pr[p], pr[q])

(* The inductive invariant of the database.                                  *)
TransactionInv == Inv(Now, proc)

-----------------------------------------------------------------------------
(* Rows, maps and columns.                                                   *)

\* A row is named by its table and its id, and tables have no row in common.
LEMMA RowFacts ==
  /\ Tables = {"entry", "location", "lease", "deletion", "upload"}
  /\ \A t \in Tables : RowsOf(t) \subseteq Rows
  /\ \A t \in Tables : \A r \in RowsOf(t) : r[1] = t /\ r[2] \in Ids[t] /\ r = <<t, r[2]>>
  /\ \A r \in Rows : r[1] \in Tables /\ r \in RowsOf(r[1])
  /\ \A i \in Entry : <<"entry", i>> \in RowsOf("entry")
  /\ \A i \in Location : <<"location", i>> \in RowsOf("location")
  /\ \A i \in Lease : <<"lease", i>> \in RowsOf("lease")
  /\ \A i \in Deletion : <<"deletion", i>> \in RowsOf("deletion")
  /\ \A i \in Upload : <<"upload", i>> \in RowsOf("upload")
  /\ Owners \subseteq Rows
<1>1. Tables = {"entry", "location", "lease", "deletion", "upload"}
  BY DEF Tables, Ids
<1>2. /\ Ids["entry"] = Entry /\ Ids["location"] = Location /\ Ids["lease"] = Lease
      /\ Ids["deletion"] = Deletion /\ Ids["upload"] = Upload
  BY DEF Ids
<1>3. \A t \in Tables : RowsOf(t) \subseteq Rows
  BY DEF Rows
<1>4. \A t \in Tables : \A r \in RowsOf(t) : r[1] = t /\ r[2] \in Ids[t] /\ r = <<t, r[2]>>
  BY DEF RowsOf
<1>5. \A r \in Rows : r[1] \in Tables /\ r \in RowsOf(r[1])
  BY <1>4 DEF Rows
<1>6. /\ \A i \in Entry : <<"entry", i>> \in RowsOf("entry")
      /\ \A i \in Location : <<"location", i>> \in RowsOf("location")
      /\ \A i \in Lease : <<"lease", i>> \in RowsOf("lease")
      /\ \A i \in Deletion : <<"deletion", i>> \in RowsOf("deletion")
      /\ \A i \in Upload : <<"upload", i>> \in RowsOf("upload")
  BY <1>2 DEF RowsOf
<1>7. Owners \subseteq Rows
  BY <1>1, <1>3 DEF Owners
<1> QED
  BY <1>1, <1>3, <1>4, <1>5, <1>6, <1>7

\* What Null is not.
LEMMA NullFacts ==
  /\ \A n \in Nat : n # Null
  /\ Null # "parts" /\ Null # "storage" /\ Null # "failed"
  /\ \A i \in Entry \cup Location \cup Lease \cup Deletion \cup Upload : i # Null
  /\ Tuple.key # Null /\ Tuple.version # Null /\ Tuple.scope # Null /\ Tuple.repoId # Null
  /\ Tuple # Null /\ \A f \in Folders : f # Null
BY NullAssumption, TextAssumption DEF Tuple

(* A map over another.                                                       *)
LEMMA OverFacts ==
  ASSUME NEW w, NEW map
  PROVE  /\ DOMAIN (w ++ map) = DOMAIN w \cup DOMAIN map
         /\ \A x \in DOMAIN w : (w ++ map)[x] = w[x]
         /\ \A x \in DOMAIN map : x \notin DOMAIN w => (w ++ map)[x] = map[x]
BY DEF ++

\* Changed sets the columns that are named and leaves the others.
LEMMA ChangedFacts ==
  ASSUME NEW row, NEW changes
  PROVE  /\ DOMAIN Changed(row, changes) = DOMAIN row
         /\ \A c \in DOMAIN row :
              c \notin DOMAIN changes => Changed(row, changes)[c] = row[c]
         /\ \A c \in DOMAIN row : c \in DOMAIN changes /\ changes[c].how = "set"
              => Changed(row, changes)[c] = changes[c].value
         /\ \A c \in DOMAIN row : c \in DOMAIN changes /\ changes[c].how = "add" /\ row[c] # Null
              => Changed(row, changes)[c] = changes[c].value + row[c]
         /\ \A c \in DOMAIN row : c \in DOMAIN changes /\ changes[c].how = "clear"
              => Changed(row, changes)[c] = Null
BY DEF Changed

\* What a statement matches are rows that satisfy each of its clauses.
LEMMA MatchingFacts ==
  ASSUME NEW store, NEW table, NEW where, NEW r
  PROVE  /\ r \in Matching(store, table, where) =>
              /\ r \in RowsOf(table) /\ store[r] # Absent
              /\ \A clause \in where : \E q \in clause : Holds(q, store[r])
         /\ r \in RowsOf(table) /\ store[r] # Absent
              /\ (\A clause \in where : \E q \in clause : Holds(q, store[r]))
              => r \in Matching(store, table, where)
BY DEF Matching

(* One comparison of a column.                                               *)
LEMMA WhereFacts ==
  ASSUME NEW column, NEW op, NEW value, NEW row
  PROVE  /\ (\E q \in Where(column, op, value) : Holds(q, row)) <=>
              Holds(<<column, op, value>>, row)
         /\ Holds(<<column, "EQ", value>>, row) <=> row[column] # Null /\ row[column] = value
         /\ Holds(<<column, "IsNil", value>>, row) <=> row[column] = Null
         /\ Holds(<<column, "NotNil", value>>, row) <=> row[column] # Null
         /\ Holds(<<column, "In", value>>, row) <=> row[column] # Null /\ row[column] \in value
         /\ Holds(<<column, "GT", value>>, row) <=> row[column] # Null /\ row[column] > value
         /\ Holds(<<column, "LTE", value>>, row) <=> row[column] # Null /\ row[column] <= value
         /\ Holds(<<column, "LT", value>>, row) <=> row[column] # Null /\ row[column] < value
<1>1. (\E q \in Where(column, op, value) : Holds(q, row)) <=> Holds(<<column, op, value>>, row)
  BY DEF Where
<1>2. Holds(<<column, "EQ", value>>, row) <=> row[column] # Null /\ row[column] = value
  BY DEF Holds
<1>3. Holds(<<column, "IsNil", value>>, row) <=> row[column] = Null
  BY DEF Holds
<1>4. Holds(<<column, "NotNil", value>>, row) <=> row[column] # Null
  BY DEF Holds
<1>5. Holds(<<column, "In", value>>, row) <=> row[column] # Null /\ row[column] \in value
  BY DEF Holds
<1>6. Holds(<<column, "GT", value>>, row) <=> row[column] # Null /\ row[column] > value
  BY DEF Holds
<1>7. Holds(<<column, "LTE", value>>, row) <=> row[column] # Null /\ row[column] <= value
  BY DEF Holds
<1>8. Holds(<<column, "LT", value>>, row) <=> row[column] # Null /\ row[column] < value
  BY DEF Holds
<1> QED
  BY <1>1, <1>2, <1>3, <1>4, <1>5, <1>6, <1>7, <1>8

-----------------------------------------------------------------------------
(* What the changes make of a row.                                           *)

LEMMA LocationColumns ==
  DOMAIN NewLocation = {"id", "folderName", "partCount", "sizeBytes", "leaseVersion",
     "deletionRequestedAt", "mergeStartedAt", "mergeLeaseToken", "mergeLeaseExpiresAt",
     "mergedAt", "materializationUnsupportedAt", "partsDeletedAt", "lastDownloadedAt",
     "recencyAt"}
BY DEF NewLocation

LEMMA LocationDomain ==
  ASSUME NEW row, LocationOK(row)
  PROVE  DOMAIN row = DOMAIN NewLocation
BY DEF LocationOK

(* Columns that no change names are as before.                               *)
LEMMA OtherColumns ==
  ASSUME NEW row, LocationOK(row), NEW changes
  PROVE  LET new == Changed(row, changes) IN
         /\ DOMAIN new = DOMAIN NewLocation
         /\ \A c \in DOMAIN NewLocation : c \notin DOMAIN changes => new[c] = row[c]
BY ChangedFacts, LocationDomain

LEMMA NamedColumn ==
  ASSUME NEW row, LocationOK(row), NEW changes,
         NEW c \in DOMAIN NewLocation, c \in DOMAIN changes
  PROVE  LET new == Changed(row, changes) IN
         /\ changes[c].how = "set" => new[c] = changes[c].value
         /\ changes[c].how = "clear" => new[c] = Null
         /\ changes[c].how = "add" /\ row[c] # Null => new[c] = changes[c].value + row[c]
BY ChangedFacts, LocationDomain

(* The columns that matter to others are as before.                          *)
Alike(old, new) ==
  /\ new.id = old.id /\ new.folderName = old.folderName /\ new.partCount = old.partCount
  /\ old.materializationUnsupportedAt # Null => new.materializationUnsupportedAt # Null
Still(old, new) ==
  /\ new.deletionRequestedAt = old.deletionRequestedAt
  /\ new.partsDeletedAt = old.partsDeletedAt /\ new.mergedAt = old.mergedAt

\* A location whose lease version is raised is a location, else as before.
LEMMA BumpRow ==
  ASSUME NEW row, LocationOK(row), NEW new, new = Changed(row, Bump)
  PROVE  /\ LocationOK(new) /\ Alike(row, new) /\ Still(row, new)
         /\ new.materializationUnsupportedAt = row.materializationUnsupportedAt
         /\ new.recencyAt = row.recencyAt
<1>1. DOMAIN Bump = {"leaseVersion"} /\ Bump["leaseVersion"] = [how |-> "add", value |-> 1]
  BY DEF Bump, ChangeLocationLeaseVersion, Change
<1>2. DOMAIN new = DOMAIN NewLocation /\ \A c \in DOMAIN NewLocation \ {"leaseVersion"} :
        new[c] = row[c]
  BY <1>1, OtherColumns
<1>3. new["leaseVersion"] \in Nat
  <2>1. row["leaseVersion"] \in Nat
    BY DEF LocationOK
  <2>2. new["leaseVersion"] = 1 + row["leaseVersion"]
    BY <1>1, <2>1, NamedColumn, NullFacts, LocationColumns
  <2> QED
    BY <2>1, <2>2
<1>4. /\ new.id = row.id /\ new.folderName = row.folderName /\ new.partCount = row.partCount
      /\ new.materializationUnsupportedAt = row.materializationUnsupportedAt
      /\ new.deletionRequestedAt = row.deletionRequestedAt
      /\ new.mergedAt = row.mergedAt /\ new.partsDeletedAt = row.partsDeletedAt
      /\ new.recencyAt = row.recencyAt /\ new.lastDownloadedAt = row.lastDownloadedAt
      /\ new.mergeLeaseToken = row.mergeLeaseToken
  BY <1>2, LocationColumns
<1>5. LocationOK(new)
  BY <1>2, <1>3, <1>4 DEF LocationOK, Mergeable
<1> QED
  BY <1>4, <1>5 DEF Alike, Still

\* A location that is fenced.
LEMMA FencedRow ==
  ASSUME NEW row, LocationOK(row), NEW v, NEW new,
         new = Changed(row, ChangeLocationDeletionRequestedAt("set", v))
  PROVE  /\ LocationOK(new) /\ Alike(row, new) /\ new.mergedAt = row.mergedAt
         /\ new.partsDeletedAt = row.partsDeletedAt
<1> DEFINE changes == ChangeLocationDeletionRequestedAt("set", v)
<1>1. /\ DOMAIN changes = {"deletionRequestedAt"}
      /\ changes["deletionRequestedAt"] = [how |-> "set", value |-> v]
  BY DEF ChangeLocationDeletionRequestedAt, Change
<1> HIDE DEF changes
<1>2. DOMAIN new = DOMAIN NewLocation /\ \A c \in DOMAIN NewLocation \ {"deletionRequestedAt"} :
        new[c] = row[c]
  BY <1>1, OtherColumns DEF changes
<1>3. new["deletionRequestedAt"] = v
  BY <1>1, NamedColumn, LocationColumns DEF changes
<1>4. /\ new.id = row.id /\ new.folderName = row.folderName
      /\ new.partCount = row.partCount /\ new.leaseVersion = row.leaseVersion
      /\ new.mergeLeaseToken = row.mergeLeaseToken /\ new.mergedAt = row.mergedAt
      /\ new.materializationUnsupportedAt = row.materializationUnsupportedAt /\
           new.partsDeletedAt = row.partsDeletedAt
      /\ new.lastDownloadedAt = row.lastDownloadedAt /\ new.recencyAt = row.recencyAt
  BY <1>2, LocationColumns
<1>5. LocationOK(new)
  BY <1>2, <1>3, <1>4, NullFacts DEF LocationOK, Mergeable
<1> QED
  BY <1>3, <1>4, <1>5 DEF Alike, Still

\* A merged location whose parts are claimed.
LEMMA ClaimedRow ==
  ASSUME NEW row, LocationOK(row), NEW v, row.mergedAt # Null, NEW new,
         new = Changed(row, ChangeLocationPartsDeletedAt("set", v))
  PROVE  /\ LocationOK(new) /\ Alike(row, new) /\ new.mergedAt = row.mergedAt
         /\ new.deletionRequestedAt = row.deletionRequestedAt
<1> DEFINE changes == ChangeLocationPartsDeletedAt("set", v)
<1>1. /\ DOMAIN changes = {"partsDeletedAt"}
      /\ changes["partsDeletedAt"] = [how |-> "set", value |-> v]
  BY DEF ChangeLocationPartsDeletedAt, Change
<1> HIDE DEF changes
<1>2. DOMAIN new = DOMAIN NewLocation /\ \A c \in DOMAIN NewLocation \ {"partsDeletedAt"} :
        new[c] = row[c]
  BY <1>1, OtherColumns DEF changes
<1>3. new["partsDeletedAt"] = v
  BY <1>1, NamedColumn, LocationColumns DEF changes
<1>4. /\ new.id = row.id /\ new.folderName = row.folderName
      /\ new.partCount = row.partCount /\ new.leaseVersion = row.leaseVersion
      /\ new.deletionRequestedAt = row.deletionRequestedAt /\
           new.mergeLeaseToken = row.mergeLeaseToken
      /\ new.mergedAt = row.mergedAt /\ new.materializationUnsupportedAt =
           row.materializationUnsupportedAt
      /\ new.lastDownloadedAt = row.lastDownloadedAt /\ new.recencyAt = row.recencyAt
  BY <1>2, LocationColumns
<1>5. LocationOK(new)
  BY <1>2, <1>3, <1>4, NullFacts DEF LocationOK, Mergeable
<1> QED
  BY <1>3, <1>4, <1>5 DEF Alike, Still

\* A location whose merge lease is taken.
LEMMA MergingRow ==
  ASSUME NEW row, LocationOK(row), NEW v, NEW t, NEW u,
         Mergeable(row), row.mergedAt = Null, NEW new,
         new = Changed(row, ChangeLocationMergeStartedAt("set",
           v) ++ ChangeLocationMergeLeaseToken("set", t) ++
           ChangeLocationMergeLeaseExpiresAt("set", u))
  PROVE  LocationOK(new) /\ Alike(row, new) /\ Still(row, new)
<1> DEFINE changes == ChangeLocationMergeStartedAt("set",
      v) ++ ChangeLocationMergeLeaseToken("set", t) ++
           ChangeLocationMergeLeaseExpiresAt("set", u)
<1>1. /\ DOMAIN changes = {"mergeStartedAt", "mergeLeaseToken", "mergeLeaseExpiresAt"}
      /\ changes["mergeStartedAt"] = [how |-> "set", value |-> v]
      /\ changes["mergeLeaseToken"] = [how |-> "set", value |-> t]
      /\ changes["mergeLeaseExpiresAt"] = [how |-> "set", value |-> u]
  BY DEF ++, ChangeLocationMergeStartedAt, ChangeLocationMergeLeaseToken,
     ChangeLocationMergeLeaseExpiresAt, Change
<1> HIDE DEF changes
<1>2. DOMAIN new = DOMAIN NewLocation /\
        \A c \in DOMAIN NewLocation \ {"mergeStartedAt", "mergeLeaseToken",
        "mergeLeaseExpiresAt"} : new[c] = row[c]
  BY <1>1, OtherColumns DEF changes
<1>3. new["mergeLeaseToken"] = t
  BY <1>1, NamedColumn, LocationColumns DEF changes
<1>4. /\ new.id = row.id /\ new.folderName = row.folderName
      /\ new.partCount = row.partCount /\ new.leaseVersion = row.leaseVersion
      /\ new.deletionRequestedAt = row.deletionRequestedAt /\ new.mergedAt = row.mergedAt
      /\ new.materializationUnsupportedAt = row.materializationUnsupportedAt /\
           new.partsDeletedAt = row.partsDeletedAt
      /\ new.lastDownloadedAt = row.lastDownloadedAt /\ new.recencyAt = row.recencyAt
  BY <1>2, LocationColumns
<1>5. LocationOK(new)
  BY <1>2, <1>3, <1>4, NullFacts DEF LocationOK, Mergeable
<1> QED
  BY <1>3, <1>4, <1>5 DEF Alike, Still

\* A location that is merged.
LEMMA FinishedRow ==
  ASSUME NEW row, LocationOK(row), NEW v,
         row.mergeLeaseToken # Null, row.mergedAt = Null, NEW new,
         new = Changed(row, NoMergeLease ++ ChangeLocationMergedAt("set", v))
  PROVE  /\ LocationOK(new) /\ Alike(row, new)
         /\ new.deletionRequestedAt = row.deletionRequestedAt
         /\ new.partsDeletedAt = row.partsDeletedAt
<1> DEFINE changes == NoMergeLease ++ ChangeLocationMergedAt("set", v)
<1>1. /\ DOMAIN changes = {"mergeLeaseToken", "mergeLeaseExpiresAt", "mergedAt"}
      /\ changes["mergeLeaseToken"].how = "clear"
      /\ changes["mergeLeaseExpiresAt"].how = "clear"
      /\ changes["mergedAt"] = [how |-> "set", value |-> v]
  BY DEF ++, ChangeLocationMergeLeaseToken, ChangeLocationMergeLeaseExpiresAt,
     ChangeLocationMergedAt, NoMergeLease, Change
<1> HIDE DEF changes
<1>2. DOMAIN new = DOMAIN NewLocation /\
        \A c \in DOMAIN NewLocation \ {"mergeLeaseToken", "mergeLeaseExpiresAt", "mergedAt"} :
        new[c] = row[c]
  BY <1>1, OtherColumns DEF changes
<1>3. /\ new["mergeLeaseToken"] = Null
      /\ new["mergedAt"] = v
  BY <1>1, NamedColumn, LocationColumns DEF changes
<1>4. /\ new.id = row.id /\ new.folderName = row.folderName
      /\ new.partCount = row.partCount /\ new.leaseVersion = row.leaseVersion
      /\ new.deletionRequestedAt = row.deletionRequestedAt /\
           new.materializationUnsupportedAt = row.materializationUnsupportedAt
      /\ new.partsDeletedAt = row.partsDeletedAt /\ new.lastDownloadedAt = row.lastDownloadedAt
      /\ new.recencyAt = row.recencyAt
  BY <1>2, LocationColumns
<1>5. LocationOK(new)
  BY <1>2, <1>3, <1>4, NullFacts DEF LocationOK, Mergeable
<1> QED
  BY <1>3, <1>4, <1>5 DEF Alike, Still

\* A location that can never be merged.
LEMMA UnsupportedRow ==
  ASSUME NEW row, LocationOK(row), NEW v, v # Null,
         row.mergeLeaseToken # Null, row.mergedAt = Null, NEW new,
         new = Changed(row, NoMerge ++ ChangeLocationMaterializationUnsupportedAt("set", v))
  PROVE  /\ LocationOK(new) /\ Alike(row, new)
         /\ new.deletionRequestedAt = row.deletionRequestedAt
         /\ new.partsDeletedAt = row.partsDeletedAt
<1> DEFINE changes == NoMerge ++ ChangeLocationMaterializationUnsupportedAt("set", v)
<1>1. /\ DOMAIN changes = {"mergeLeaseToken", "mergeLeaseExpiresAt", "mergeStartedAt",
           "materializationUnsupportedAt"}
      /\ changes["mergeLeaseToken"].how = "clear"
      /\ changes["mergeLeaseExpiresAt"].how = "clear"
      /\ changes["mergeStartedAt"].how = "clear"
      /\ changes["materializationUnsupportedAt"] = [how |-> "set", value |-> v]
  BY DEF ++, ChangeLocationMergeLeaseToken, ChangeLocationMergeLeaseExpiresAt,
     ChangeLocationMergeStartedAt, ChangeLocationMaterializationUnsupportedAt, NoMergeLease,
     NoMerge, Change
<1> HIDE DEF changes
<1>2. DOMAIN new = DOMAIN NewLocation /\
        \A c \in DOMAIN NewLocation \ {"mergeLeaseToken", "mergeLeaseExpiresAt",
        "mergeStartedAt", "materializationUnsupportedAt"} : new[c] = row[c]
  BY <1>1, OtherColumns DEF changes
<1>3. /\ new["mergeLeaseToken"] = Null
      /\ new["materializationUnsupportedAt"] = v
  BY <1>1, NamedColumn, LocationColumns DEF changes
<1>4. /\ new.id = row.id /\ new.folderName = row.folderName
      /\ new.partCount = row.partCount /\ new.leaseVersion = row.leaseVersion
      /\ new.deletionRequestedAt = row.deletionRequestedAt /\ new.mergedAt = row.mergedAt
      /\ new.partsDeletedAt = row.partsDeletedAt /\ new.lastDownloadedAt = row.lastDownloadedAt
      /\ new.recencyAt = row.recencyAt
  BY <1>2, LocationColumns
<1>5. LocationOK(new)
  BY <1>2, <1>3, <1>4, NullFacts DEF LocationOK, Mergeable
<1> QED
  BY <1>3, <1>4, <1>5 DEF Alike, Still

\* A location whose merge lease is given back.
LEMMA ReleasedRow ==
  ASSUME NEW row, LocationOK(row), NEW new,
         new = Changed(row, NoMerge)
  PROVE  /\ LocationOK(new) /\ Alike(row, new)
         /\ new.deletionRequestedAt = row.deletionRequestedAt
         /\ new.partsDeletedAt = row.partsDeletedAt
<1> DEFINE changes == NoMerge
<1>1. /\ DOMAIN changes = {"mergeLeaseToken", "mergeLeaseExpiresAt", "mergeStartedAt"}
      /\ changes["mergeLeaseToken"].how = "clear"
      /\ changes["mergeLeaseExpiresAt"].how = "clear"
      /\ changes["mergeStartedAt"].how = "clear"
  BY DEF ++, ChangeLocationMergeLeaseToken, ChangeLocationMergeLeaseExpiresAt,
     ChangeLocationMergeStartedAt, NoMergeLease, NoMerge, Change
<1> HIDE DEF changes
<1>2. DOMAIN new = DOMAIN NewLocation /\
        \A c \in DOMAIN NewLocation \ {"mergeLeaseToken", "mergeLeaseExpiresAt",
        "mergeStartedAt"} : new[c] = row[c]
  BY <1>1, OtherColumns DEF changes
<1>3. new["mergeLeaseToken"] = Null
  BY <1>1, NamedColumn, LocationColumns DEF changes
<1>4. /\ new.id = row.id /\ new.folderName = row.folderName
      /\ new.partCount = row.partCount /\ new.leaseVersion = row.leaseVersion
      /\ new.deletionRequestedAt = row.deletionRequestedAt /\ new.mergedAt = row.mergedAt
      /\ new.materializationUnsupportedAt = row.materializationUnsupportedAt /\
           new.partsDeletedAt = row.partsDeletedAt
      /\ new.lastDownloadedAt = row.lastDownloadedAt /\ new.recencyAt = row.recencyAt
  BY <1>2, LocationColumns
<1>5. LocationOK(new)
  BY <1>2, <1>3, <1>4, NullFacts DEF LocationOK, Mergeable
<1> QED
  BY <1>3, <1>4, <1>5 DEF Alike, Still

\* A location whose merge lease is extended.
LEMMA ExtendedRow ==
  ASSUME NEW row, LocationOK(row), NEW v, NEW new,
         new = Changed(row, ChangeLocationMergeLeaseExpiresAt("set", v))
  PROVE  /\ LocationOK(new) /\ Alike(row, new)
         /\ new.deletionRequestedAt = row.deletionRequestedAt
         /\ new.partsDeletedAt = row.partsDeletedAt
<1> DEFINE changes == ChangeLocationMergeLeaseExpiresAt("set", v)
<1>1. /\ DOMAIN changes = {"mergeLeaseExpiresAt"}
      /\ changes["mergeLeaseExpiresAt"] = [how |-> "set", value |-> v]
  BY DEF ChangeLocationMergeLeaseExpiresAt, Change
<1> HIDE DEF changes
<1>2. DOMAIN new = DOMAIN NewLocation /\ \A c \in DOMAIN NewLocation \ {"mergeLeaseExpiresAt"} :
        new[c] = row[c]
  BY <1>1, OtherColumns DEF changes
<1>4. /\ new.id = row.id /\ new.folderName = row.folderName
      /\ new.partCount = row.partCount /\ new.leaseVersion = row.leaseVersion
      /\ new.deletionRequestedAt = row.deletionRequestedAt /\
           new.mergeLeaseToken = row.mergeLeaseToken
      /\ new.mergedAt = row.mergedAt /\ new.materializationUnsupportedAt =
           row.materializationUnsupportedAt
      /\ new.partsDeletedAt = row.partsDeletedAt /\ new.lastDownloadedAt = row.lastDownloadedAt
      /\ new.recencyAt = row.recencyAt
  BY <1>2, LocationColumns
<1>5. LocationOK(new)
  BY <1>2, <1>4, NullFacts DEF LocationOK, Mergeable
<1> QED
  BY <1>4, <1>5 DEF Alike, Still

\* A location that is downloaded.
LEMMA TouchedRow ==
  ASSUME NEW row, LocationOK(row), NEW v \in Nat, NEW new,
         new = Changed(row, ChangeLocationLastDownloadedAt("set",
           v) ++ ChangeLocationRecencyAt("set", v))
  PROVE  LocationOK(new) /\ Alike(row, new) /\ Still(row, new)
<1> DEFINE changes == ChangeLocationLastDownloadedAt("set", v) ++ ChangeLocationRecencyAt("set", v)
<1>1. /\ DOMAIN changes = {"lastDownloadedAt", "recencyAt"}
      /\ changes["lastDownloadedAt"] = [how |-> "set", value |-> v]
      /\ changes["recencyAt"] = [how |-> "set", value |-> v]
  BY DEF ++, ChangeLocationLastDownloadedAt, ChangeLocationRecencyAt, Change
<1> HIDE DEF changes
<1>2. DOMAIN new = DOMAIN NewLocation /\
        \A c \in DOMAIN NewLocation \ {"lastDownloadedAt", "recencyAt"} : new[c] = row[c]
  BY <1>1, OtherColumns DEF changes
<1>3. /\ new["lastDownloadedAt"] = v
      /\ new["recencyAt"] = v
  BY <1>1, NamedColumn, LocationColumns DEF changes
<1>4. /\ new.id = row.id /\ new.folderName = row.folderName
      /\ new.partCount = row.partCount /\ new.leaseVersion = row.leaseVersion
      /\ new.deletionRequestedAt = row.deletionRequestedAt /\
           new.mergeLeaseToken = row.mergeLeaseToken
      /\ new.mergedAt = row.mergedAt /\ new.materializationUnsupportedAt =
           row.materializationUnsupportedAt
      /\ new.partsDeletedAt = row.partsDeletedAt
  BY <1>2, LocationColumns
<1>5. LocationOK(new)
  <2>1. new.recencyAt = v /\ v \in Nat /\ new.recencyAt \in Nat
    BY <1>3
  <2>2. new.lastDownloadedAt # Null => new.lastDownloadedAt = v
    BY <1>3, <1>4
  <2>3. new.lastDownloadedAt # Null => new.lastDownloadedAt \in Nat /\
          new.recencyAt >= new.lastDownloadedAt
    BY <2>1, <2>2
  <2> HIDE DEF changes
  <2> QED
    BY <1>2, <1>4, <2>1, <2>3 DEF LocationOK, Mergeable
<1> QED
  BY <1>3, <1>4, <1>5 DEF Alike, Still

\* A location whose size is known.
LEMMA SizedRow ==
  ASSUME NEW row, LocationOK(row), NEW v, NEW new,
         new = Changed(row, ChangeLocationSizeBytes("set", v))
  PROVE  LocationOK(new) /\ Alike(row, new) /\ Still(row, new)
<1> DEFINE changes == ChangeLocationSizeBytes("set", v)
<1>1. /\ DOMAIN changes = {"sizeBytes"}
      /\ changes["sizeBytes"] = [how |-> "set", value |-> v]
  BY DEF ChangeLocationSizeBytes, Change
<1> HIDE DEF changes
<1>2. DOMAIN new = DOMAIN NewLocation /\ \A c \in DOMAIN NewLocation \ {"sizeBytes"} :
        new[c] = row[c]
  BY <1>1, OtherColumns DEF changes
<1>4. /\ new.id = row.id /\ new.folderName = row.folderName
      /\ new.partCount = row.partCount /\ new.leaseVersion = row.leaseVersion
      /\ new.deletionRequestedAt = row.deletionRequestedAt /\
           new.mergeLeaseToken = row.mergeLeaseToken
      /\ new.mergedAt = row.mergedAt /\ new.materializationUnsupportedAt =
           row.materializationUnsupportedAt
      /\ new.partsDeletedAt = row.partsDeletedAt /\ new.lastDownloadedAt = row.lastDownloadedAt
      /\ new.recencyAt = row.recencyAt
  BY <1>2, LocationColumns
<1>5. LocationOK(new)
  BY <1>2, <1>4, NullFacts DEF LocationOK, Mergeable
<1> QED
  BY <1>4, <1>5 DEF Alike, Still

\* A location whose recency is brought up to date.
LEMMA RecentRow ==
  ASSUME NEW row, LocationOK(row), NEW v \in Nat,
         row.lastDownloadedAt # Null => v = row.lastDownloadedAt, NEW new,
         new = Changed(row, ChangeLocationRecencyAt("set", v))
  PROVE  LocationOK(new) /\ Alike(row, new) /\ Still(row, new)
<1> DEFINE changes == ChangeLocationRecencyAt("set", v)
<1>1. /\ DOMAIN changes = {"recencyAt"}
      /\ changes["recencyAt"] = [how |-> "set", value |-> v]
  BY DEF ChangeLocationRecencyAt, Change
<1> HIDE DEF changes
<1>2. DOMAIN new = DOMAIN NewLocation /\ \A c \in DOMAIN NewLocation \ {"recencyAt"} :
        new[c] = row[c]
  BY <1>1, OtherColumns DEF changes
<1>3. new["recencyAt"] = v
  BY <1>1, NamedColumn, LocationColumns DEF changes
<1>4. /\ new.id = row.id /\ new.folderName = row.folderName
      /\ new.partCount = row.partCount /\ new.leaseVersion = row.leaseVersion
      /\ new.deletionRequestedAt = row.deletionRequestedAt /\
           new.mergeLeaseToken = row.mergeLeaseToken
      /\ new.mergedAt = row.mergedAt /\ new.materializationUnsupportedAt =
           row.materializationUnsupportedAt
      /\ new.partsDeletedAt = row.partsDeletedAt /\ new.lastDownloadedAt = row.lastDownloadedAt
  BY <1>2, LocationColumns
<1>5. LocationOK(new)
  <2>1. new.recencyAt = v /\ v \in Nat /\ new.recencyAt \in Nat
    BY <1>3
  <2>2. new.lastDownloadedAt # Null => new.lastDownloadedAt = v
    BY <1>3, <1>4
  <2>3. new.lastDownloadedAt # Null => new.lastDownloadedAt \in Nat /\
          new.recencyAt >= new.lastDownloadedAt
    BY <2>1, <2>2
  <2> HIDE DEF changes
  <2> QED
    BY <1>2, <1>4, <2>1, <2>3 DEF LocationOK, Mergeable
<1> QED
  BY <1>3, <1>4, <1>5 DEF Alike, Still

-----------------------------------------------------------------------------
(* Rows of the other tables.                                                 *)

\* A lease that is renewed never ends earlier.
LEMMA RenewedRow ==
  ASSUME NEW row, LeaseOK(row), NEW v \in Nat, NEW new,
         new = Changed(row, ChangeLeaseExpiresAt("set", v))
  PROVE  /\ LeaseOK(new) /\ new.id = row.id /\ new.expiresAt = v
         /\ new.storageLocationId = row.storageLocationId /\ new.scope = row.scope
<1>1. DOMAIN row = {"id", "storageLocationId", "scope", "expiresAt"}
  BY DEF LeaseOK, NewLease
<1>2. /\ DOMAIN ChangeLeaseExpiresAt("set", v) = {"expiresAt"}
      /\ ChangeLeaseExpiresAt("set", v)["expiresAt"] = [how |-> "set", value |-> v]
  BY DEF ChangeLeaseExpiresAt, Change
<1>3. DOMAIN new = DOMAIN row /\ new.expiresAt = v
  BY <1>1, <1>2, ChangedFacts
<1>4. new.id = row.id /\ new.storageLocationId = row.storageLocationId /\ new.scope = row.scope
  BY <1>1, <1>2, ChangedFacts
<1> QED
  BY <1>3, <1>4 DEF LeaseOK

\* A task that failed keeps its folder.
LEMMA FailedRow ==
  ASSUME NEW row, DeletionOK(row), NEW v, NEW new,
         new = Changed(row, ChangeDeletionAttemptCount("add", 1)
                              ++ ChangeDeletionLastAttemptedAt("set", v)
                              ++ ChangeDeletionLastError("set", "failed"))
  PROVE  DeletionOK(new) /\ new.id = row.id /\ new.folderName = row.folderName
<1> DEFINE changes == ChangeDeletionAttemptCount("add", 1)
                        ++ ChangeDeletionLastAttemptedAt("set", v)
                        ++ ChangeDeletionLastError("set", "failed")
<1>1. DOMAIN row = {"id", "folderName", "createdAt", "attemptCount", "lastAttemptedAt", "lastError"}
  BY DEF DeletionOK, NewDeletion
<1>2. /\ DOMAIN changes = {"attemptCount", "lastAttemptedAt", "lastError"}
      /\ changes["attemptCount"] = [how |-> "add", value |-> 1]
  BY DEF ++, ChangeDeletionAttemptCount, ChangeDeletionLastAttemptedAt,
         ChangeDeletionLastError, Change
<1> HIDE DEF changes
<1>3. DOMAIN new = DOMAIN row
  BY ChangedFacts DEF changes
<1>4. new.id = row.id /\ new.folderName = row.folderName /\ new.createdAt = row.createdAt
  BY <1>1, <1>2, ChangedFacts DEF changes
<1>5. row.attemptCount \in Nat
  BY DEF DeletionOK
<1>6. new.attemptCount = 1 + row.attemptCount
  BY <1>1, <1>2, <1>5, ChangedFacts, NullFacts DEF changes
<1> QED
  BY <1>3, <1>4, <1>5, <1>6 DEF DeletionOK

\* An upload that counts a part keeps its tuple and its folder.
LEMMA PartRow ==
  ASSUME NEW row, UploadOK(row), NEW v, NEW new,
         new = Changed(row, ChangeUploadLastPartUploadedAt("set", v)
                              ++ ChangeUploadFinishedPartUploadCount("add", 1)
                              ++ ChangeUploadCommittedPartCount("set", 1))
  PROVE  UploadOK(new) /\ new.id = row.id /\ KeyOf(new) = KeyOf(row)
<1> DEFINE changes == ChangeUploadLastPartUploadedAt("set", v)
                        ++ ChangeUploadFinishedPartUploadCount("add", 1)
                        ++ ChangeUploadCommittedPartCount("set", 1)
<1>1. DOMAIN row = {"id", "key", "version", "scope", "repoId", "createdAt", "lastPartUploadedAt",
                    "startedPartUploadCount", "finishedPartUploadCount", "folderName",
                    "committedPartCount", "tupleHash"}
  BY DEF UploadOK, NewUpload
<1>2. /\ DOMAIN changes = {"lastPartUploadedAt", "finishedPartUploadCount", "committedPartCount"}
      /\ changes["finishedPartUploadCount"] = [how |-> "add", value |-> 1]
  BY DEF ++, ChangeUploadLastPartUploadedAt, ChangeUploadFinishedPartUploadCount,
         ChangeUploadCommittedPartCount, Change
<1> HIDE DEF changes
<1>3. DOMAIN new = DOMAIN row
  BY ChangedFacts DEF changes
<1>4. \A c \in DOMAIN row \ DOMAIN changes : new[c] = row[c]
  BY ChangedFacts DEF changes
<1>5. /\ new.id = row.id /\ new.key = row.key /\ new.version = row.version
      /\ new.scope = row.scope /\ new.repoId = row.repoId /\ new.createdAt = row.createdAt
      /\ new.startedPartUploadCount = row.startedPartUploadCount
      /\ new.folderName = row.folderName /\ new.tupleHash = row.tupleHash
  BY <1>1, <1>2, <1>4
<1>6. row.finishedPartUploadCount \in Nat
  BY DEF UploadOK
<1>7. new.finishedPartUploadCount = 1 + row.finishedPartUploadCount
  BY <1>1, <1>2, <1>6, ChangedFacts, NullFacts DEF changes
<1> QED
  BY <1>3, <1>5, <1>6, <1>7 DEF UploadOK, KeyOf

\* An entry that is led to another location keeps its tuple.
LEMMA LedRow ==
  ASSUME NEW row, EntryOK(row), NEW v \in Nat, NEW l \in Location, NEW new,
         new = Changed(row, ChangeEntryUpdatedAt("set", v) ++ ChangeEntryLocation("set", l))
  PROVE  EntryOK(new) /\ new.id = row.id /\ KeyOf(new) = KeyOf(row) /\ new.locationId = l
<1> DEFINE changes == ChangeEntryUpdatedAt("set", v) ++ ChangeEntryLocation("set", l)
<1>1. DOMAIN row = {"id", "key", "version", "scope", "repoId", "updatedAt", "locationId"}
  BY DEF EntryOK, NewEntry
<1>2. /\ DOMAIN changes = {"updatedAt", "locationId"}
      /\ changes["updatedAt"] = [how |-> "set", value |-> v]
      /\ changes["locationId"] = [how |-> "set", value |-> l]
  BY DEF ++, ChangeEntryUpdatedAt, ChangeEntryLocation, Change
<1> HIDE DEF changes
<1>3. DOMAIN new = DOMAIN row /\ \A c \in DOMAIN row \ DOMAIN changes : new[c] = row[c]
  BY ChangedFacts DEF changes
<1>4. new.updatedAt = v /\ new.locationId = l
  BY <1>1, <1>2, ChangedFacts DEF changes
<1>5. /\ new.id = row.id /\ new.key = row.key /\ new.version = row.version
      /\ new.scope = row.scope /\ new.repoId = row.repoId
  BY <1>1, <1>2, <1>3
<1> QED
  BY <1>3, <1>4, <1>5 DEF EntryOK, KeyOf

-----------------------------------------------------------------------------
(* Rows that are inserted.                                                   *)

LEMMA NewEntryRow ==
  ASSUME NEW id \in Entry, NEW tuple, NEW v \in Nat, NEW l \in Location,
         tuple.key # Null, tuple.version # Null, tuple.scope # Null, tuple.repoId # Null,
         NEW new, new = Inserted("entry", id, EntryValues(tuple, v, l))
  PROVE  EntryOK(new) /\ new.id = id /\ KeyOf(new) = KeyOf(tuple) /\ new.locationId = l
<1>0. new = [Changed(NewEntry, EntryValues(tuple, v, l)) EXCEPT !.id = id]
  BY DEF Inserted, New
<1> DEFINE changes == EntryValues(tuple, v, l)
<1>1. DOMAIN NewEntry = {"id", "key", "version", "scope", "repoId", "updatedAt", "locationId"}
  BY DEF NewEntry
<1>2. /\ DOMAIN changes = {"key", "version", "scope", "repoId", "updatedAt", "locationId"}
      /\ changes["key"] = [how |-> "set", value |-> tuple.key]
      /\ changes["version"] = [how |-> "set", value |-> tuple.version]
      /\ changes["scope"] = [how |-> "set", value |-> tuple.scope]
      /\ changes["repoId"] = [how |-> "set", value |-> tuple.repoId]
      /\ changes["updatedAt"] = [how |-> "set", value |-> v]
      /\ changes["locationId"] = [how |-> "set", value |-> l]
  BY DEF ++, EntryValues, ChangeEntryKey, ChangeEntryVersion, ChangeEntryScope,
         ChangeEntryRepoId, ChangeEntryUpdatedAt, ChangeEntryLocation, Change
<1> HIDE DEF changes
<1>3. /\ DOMAIN new = DOMAIN NewEntry /\ new.id = id
      /\ \A c \in DOMAIN NewEntry : c # "id" /\ c \notin DOMAIN changes => new[c] = NewEntry[c]
      /\ \A c \in DOMAIN NewEntry : c # "id" /\ c \in DOMAIN changes /\ changes[c].how = "set"
           => new[c] = changes[c].value
  <2> DEFINE old == Changed(NewEntry, changes)
  <2>1. /\ DOMAIN old = DOMAIN NewEntry
        /\ \A c \in DOMAIN NewEntry : c \notin DOMAIN changes => old[c] = NewEntry[c]
        /\ \A c \in DOMAIN NewEntry : c \in DOMAIN changes /\ changes[c].how = "set"
             => old[c] = changes[c].value
    BY ChangedFacts
  <2>2. new = [old EXCEPT !.id = id]
    BY <1>0 DEF changes
  <2>3. "id" \in DOMAIN NewEntry
    BY <1>1
  <2> HIDE DEF old
  <2> QED
    BY <2>1, <2>2, <2>3
<1>4. /\ DOMAIN new = DOMAIN NewEntry /\ new.id = id
      /\ new["key"] = tuple.key /\ new["version"] = tuple.version
      /\ new["scope"] = tuple.scope /\ new["repoId"] = tuple.repoId
      /\ new["updatedAt"] = v /\ new["locationId"] = l
  BY <1>1, <1>2, <1>3
<1> QED
  BY <1>4 DEF EntryOK, KeyOf

LEMMA LocationDefaults ==
  ASSUME NEW id \in Location, NEW folder, folder \in Whole, NEW parts \in Nat,
         NEW v \in Nat, NEW changes,
         DOMAIN changes = {"folderName", "partCount", "sizeBytes", "recencyAt"},
         changes["folderName"] = [how |-> "set", value |-> folder],
         changes["partCount"] = [how |-> "set", value |-> parts],
         changes["recencyAt"] = [how |-> "set", value |-> v],
         NEW old, old = Changed(NewLocation, changes), NEW new, new = [old EXCEPT !.id = id]
  PROVE  /\ LocationOK(new) /\ new.id = id /\ new.folderName = folder
         /\ new.deletionRequestedAt = Null /\ new.partsDeletedAt = Null
<1>1. /\ DOMAIN old = DOMAIN NewLocation
      /\ \A c \in DOMAIN NewLocation : c \notin DOMAIN changes => old[c] = NewLocation[c]
      /\ \A c \in DOMAIN NewLocation : c \in DOMAIN changes /\ changes[c].how = "set"
           => old[c] = changes[c].value
  BY ChangedFacts
<1>2. DOMAIN new = DOMAIN NewLocation /\ new.id = id
  BY <1>1, LocationColumns
<1>3. \A c \in DOMAIN NewLocation : c # "id" => new[c] = old[c]
  BY <1>1
<1>4. new["folderName"] = folder /\ new["partCount"] = parts /\ new["recencyAt"] = v
  BY <1>1, <1>3, LocationColumns
<1>5. /\ new["leaseVersion"] = NewLocation["leaseVersion"]
      /\ new["deletionRequestedAt"] = NewLocation["deletionRequestedAt"]
      /\ new["mergeLeaseToken"] = NewLocation["mergeLeaseToken"]
      /\ new["mergedAt"] = NewLocation["mergedAt"]
      /\ new["partsDeletedAt"] = NewLocation["partsDeletedAt"]
      /\ new["lastDownloadedAt"] = NewLocation["lastDownloadedAt"]
  BY <1>1, <1>3, LocationColumns
<1>6. /\ new["leaseVersion"] = 0 /\ new["deletionRequestedAt"] = Null
      /\ new["mergeLeaseToken"] = Null /\ new["mergedAt"] = Null
      /\ new["partsDeletedAt"] = Null /\ new["lastDownloadedAt"] = Null
  BY <1>5 DEF NewLocation
<1>7. new.partCount \in Nat /\ new.leaseVersion \in Nat /\ new.recencyAt \in Nat
  BY <1>4, <1>6
<1>8. LocationOK(new)
  BY <1>2, <1>4, <1>6, <1>7 DEF LocationOK
<1> QED
  BY <1>2, <1>4, <1>6, <1>8

LEMMA NewLocationRow ==
  ASSUME NEW id \in Location, NEW folder, folder \in Whole, NEW v \in Nat,
         NEW new, new = Inserted("location", id, LocationValues(folder, 2, 1, v))
  PROVE  /\ LocationOK(new) /\ new.id = id /\ new.folderName = folder
         /\ new.deletionRequestedAt = Null /\ new.partsDeletedAt = Null
<1> DEFINE changes == LocationValues(folder, 2, 1, v)
           old == Changed(NewLocation, changes)
<1>1. /\ DOMAIN changes = {"folderName", "partCount", "sizeBytes", "recencyAt"}
      /\ changes["folderName"] = [how |-> "set", value |-> folder]
      /\ changes["partCount"] = [how |-> "set", value |-> 2]
      /\ changes["recencyAt"] = [how |-> "set", value |-> v]
  BY DEF ++, LocationValues, ChangeLocationFolderName, ChangeLocationPartCount,
         ChangeLocationSizeBytes, ChangeLocationRecencyAt, Change
<1>2. new = [old EXCEPT !.id = id]
  BY DEF Inserted, New
<1> HIDE DEF changes
<1>3. old = Changed(NewLocation, changes)
  OBVIOUS
<1> HIDE DEF old
<1>4. 2 \in Nat
  OBVIOUS
<1> QED
  BY <1>1, <1>2, <1>3, <1>4, LocationDefaults

LEMMA NewLeaseRow ==
  ASSUME NEW id \in Lease, NEW l \in Location, NEW scope, scope # Null, NEW v \in Nat,
         NEW new, new = Inserted("lease", id, LeaseValues(l, scope, v))
  PROVE  /\ LeaseOK(new) /\ new.id = id /\ new.storageLocationId = l /\ new.scope = scope
         /\ new.expiresAt = v
<1>0. new = [Changed(NewLease, LeaseValues(l, scope, v)) EXCEPT !.id = id]
  BY DEF Inserted, New
<1> DEFINE changes == LeaseValues(l, scope, v)
<1>1. /\ DOMAIN NewLease = {"id", "storageLocationId", "scope", "expiresAt"}
  BY DEF NewLease
<1>2. /\ DOMAIN changes = {"storageLocationId", "scope", "expiresAt"}
      /\ changes["storageLocationId"] = [how |-> "set", value |-> l]
      /\ changes["scope"] = [how |-> "set", value |-> scope]
      /\ changes["expiresAt"] = [how |-> "set", value |-> v]
  BY DEF ++, LeaseValues, ChangeLeaseStorageLocationId, ChangeLeaseScope,
         ChangeLeaseExpiresAt, Change
<1> HIDE DEF changes
<1>3. /\ DOMAIN new = DOMAIN NewLease /\ new.id = id
      /\ \A c \in DOMAIN NewLease : c # "id" /\ c \notin DOMAIN changes => new[c] = NewLease[c]
      /\ \A c \in DOMAIN NewLease : c # "id" /\ c \in DOMAIN changes /\ changes[c].how = "set"
           => new[c] = changes[c].value
  <2> DEFINE old == Changed(NewLease, changes)
  <2>1. /\ DOMAIN old = DOMAIN NewLease
        /\ \A c \in DOMAIN NewLease : c \notin DOMAIN changes => old[c] = NewLease[c]
        /\ \A c \in DOMAIN NewLease : c \in DOMAIN changes /\ changes[c].how = "set"
             => old[c] = changes[c].value
    BY ChangedFacts
  <2>2. new = [old EXCEPT !.id = id]
    BY <1>0 DEF changes
  <2>3. "id" \in DOMAIN NewLease
    BY <1>1
  <2> HIDE DEF old
  <2> QED
    BY <2>1, <2>2, <2>3
<1>4. /\ DOMAIN new = DOMAIN NewLease /\ new.id = id
      /\ new["storageLocationId"] = l /\ new["scope"] = scope /\ new["expiresAt"] = v
  BY <1>1, <1>2, <1>3
<1> QED
  BY <1>1, <1>4 DEF LeaseOK

LEMMA NewDeletionRow ==
  ASSUME NEW id \in Deletion, NEW folder, folder \in Folders, NEW v \in Nat,
         NEW new, new = Inserted("deletion", id, DeletionValues(folder, v))
  PROVE  DeletionOK(new) /\ new.id = id /\ new.folderName = folder
<1>0. new = [Changed(NewDeletion, DeletionValues(folder, v)) EXCEPT !.id = id]
  BY DEF Inserted, New
<1> DEFINE changes == DeletionValues(folder, v)
<1>1. /\ DOMAIN NewDeletion =
           {"id", "folderName", "createdAt", "attemptCount", "lastAttemptedAt", "lastError"}
      /\ NewDeletion["attemptCount"] = 0
  BY DEF NewDeletion
<1>2. /\ DOMAIN changes = {"folderName", "createdAt"}
      /\ changes["folderName"] = [how |-> "set", value |-> folder]
      /\ changes["createdAt"] = [how |-> "set", value |-> v]
  BY DEF ++, DeletionValues, ChangeDeletionFolderName, ChangeDeletionCreatedAt, Change
<1> HIDE DEF changes
<1>3. /\ DOMAIN new = DOMAIN NewDeletion /\ new.id = id
      /\ \A c \in DOMAIN NewDeletion : c # "id" /\ c \notin DOMAIN changes =>
           new[c] = NewDeletion[c]
      /\ \A c \in DOMAIN NewDeletion : c # "id" /\ c \in DOMAIN changes /\ changes[c].how = "set"
           => new[c] = changes[c].value
  <2> DEFINE old == Changed(NewDeletion, changes)
  <2>1. /\ DOMAIN old = DOMAIN NewDeletion
        /\ \A c \in DOMAIN NewDeletion : c \notin DOMAIN changes => old[c] = NewDeletion[c]
        /\ \A c \in DOMAIN NewDeletion : c \in DOMAIN changes /\ changes[c].how = "set"
             => old[c] = changes[c].value
    BY ChangedFacts
  <2>2. new = [old EXCEPT !.id = id]
    BY <1>0 DEF changes
  <2>3. "id" \in DOMAIN NewDeletion
    BY <1>1
  <2> HIDE DEF old
  <2> QED
    BY <2>1, <2>2, <2>3
<1>4. /\ DOMAIN new = DOMAIN NewDeletion /\ new.id = id
      /\ new["folderName"] = folder /\ new["createdAt"] = v /\ new["attemptCount"] = 0
  BY <1>1, <1>2, <1>3
<1> QED
  BY <1>1, <1>4, NullFacts DEF DeletionOK

LEMMA NewUploadRow ==
  ASSUME NEW id \in Upload, NEW v \in Nat,
         NEW new, new = Inserted("upload", id, UploadValues(Tuple, Folder(id), v))
  PROVE  UploadOK(new) /\ new.id = id /\ new.tupleHash # Null
<1>0. new = [Changed(NewUpload, UploadValues(Tuple, Folder(id), v)) EXCEPT !.id = id]
  BY DEF Inserted, New
<1> DEFINE changes == UploadValues(Tuple, Folder(id), v)
<1>1. /\ DOMAIN NewUpload =
            {"id", "key", "version", "scope", "repoId", "createdAt", "lastPartUploadedAt",
             "startedPartUploadCount", "finishedPartUploadCount", "folderName",
             "committedPartCount", "tupleHash"}
      /\ NewUpload["startedPartUploadCount"] = 0
      /\ NewUpload["finishedPartUploadCount"] = 0
  BY DEF NewUpload
<1>2. DOMAIN changes = {"key", "version", "scope", "repoId", "tupleHash", "folderName",
                           "committedPartCount", "createdAt"}
  <2> DEFINE tuple == ChangeUploadKey("set", Tuple.key) ++ ChangeUploadVersion("set", Tuple.version)
                        ++ ChangeUploadScope("set", Tuple.scope)
                        ++ ChangeUploadRepoId("set", Tuple.repoId)
  <2>1. DOMAIN tuple = {"key", "version", "scope", "repoId"}
    BY DEF ++, ChangeUploadKey, ChangeUploadVersion, ChangeUploadScope, ChangeUploadRepoId, Change
  <2>2. changes = tuple ++ ChangeUploadTupleHash("set", Tuple)
                    ++ ChangeUploadFolderName("set", Folder(id))
                    ++ ChangeUploadCommittedPartCount("set", 0) ++ ChangeUploadCreatedAt("set", v)
    BY DEF UploadValues
  <2> HIDE DEF tuple, changes
  <2> QED
    BY <2>1, <2>2 DEF ++, ChangeUploadTupleHash, ChangeUploadFolderName,
         ChangeUploadCommittedPartCount, ChangeUploadCreatedAt, Change
<1>b. /\ changes["key"] = [how |-> "set", value |-> Tuple.key]
      /\ changes["version"] = [how |-> "set", value |-> Tuple.version]
      /\ changes["scope"] = [how |-> "set", value |-> Tuple.scope]
      /\ changes["repoId"] = [how |-> "set", value |-> Tuple.repoId]
      /\ changes["tupleHash"] = [how |-> "set", value |-> Tuple]
      /\ changes["folderName"] = [how |-> "set", value |-> Folder(id)]
      /\ changes["createdAt"] = [how |-> "set", value |-> v]
  <2> DEFINE tuple == ChangeUploadKey("set", Tuple.key) ++ ChangeUploadVersion("set", Tuple.version)
                        ++ ChangeUploadScope("set", Tuple.scope)
                        ++ ChangeUploadRepoId("set", Tuple.repoId)
  <2>1. /\ DOMAIN tuple = {"key", "version", "scope", "repoId"}
        /\ tuple["key"] = [how |-> "set", value |-> Tuple.key]
        /\ tuple["version"] = [how |-> "set", value |-> Tuple.version]
        /\ tuple["scope"] = [how |-> "set", value |-> Tuple.scope]
        /\ tuple["repoId"] = [how |-> "set", value |-> Tuple.repoId]
    BY DEF ++, ChangeUploadKey, ChangeUploadVersion, ChangeUploadScope, ChangeUploadRepoId, Change
  <2>2. changes = tuple ++ ChangeUploadTupleHash("set", Tuple)
                    ++ ChangeUploadFolderName("set", Folder(id))
                    ++ ChangeUploadCommittedPartCount("set", 0) ++ ChangeUploadCreatedAt("set", v)
    BY DEF UploadValues
  <2> HIDE DEF tuple, changes
  <2> QED
    BY <2>1, <2>2 DEF ++, ChangeUploadTupleHash, ChangeUploadFolderName,
         ChangeUploadCommittedPartCount, ChangeUploadCreatedAt, Change
<1> HIDE DEF changes
<1>3. /\ DOMAIN new = DOMAIN NewUpload /\ new.id = id
      /\ \A c \in DOMAIN NewUpload : c # "id" /\ c \notin DOMAIN changes => new[c] = NewUpload[c]
      /\ \A c \in DOMAIN NewUpload : c # "id" /\ c \in DOMAIN changes /\ changes[c].how = "set"
           => new[c] = changes[c].value
  <2> DEFINE old == Changed(NewUpload, changes)
  <2>1. /\ DOMAIN old = DOMAIN NewUpload
        /\ \A c \in DOMAIN NewUpload : c \notin DOMAIN changes => old[c] = NewUpload[c]
        /\ \A c \in DOMAIN NewUpload : c \in DOMAIN changes /\ changes[c].how = "set"
             => old[c] = changes[c].value
    BY ChangedFacts
  <2>2. new = [old EXCEPT !.id = id]
    BY <1>0 DEF changes
  <2>3. "id" \in DOMAIN NewUpload
    BY <1>1
  <2> HIDE DEF old
  <2> QED
    BY <2>1, <2>2, <2>3
<1>4. /\ DOMAIN new = DOMAIN NewUpload /\ new.id = id
      /\ new["key"] = Tuple.key /\ new["version"] = Tuple.version
      /\ new["scope"] = Tuple.scope /\ new["repoId"] = Tuple.repoId
      /\ new["tupleHash"] = Tuple /\ new["folderName"] = Folder(id) /\ new["createdAt"] = v
  BY <1>1, <1>2, <1>b, <1>3
<1>5. new["startedPartUploadCount"] = 0 /\ new["finishedPartUploadCount"] = 0
  BY <1>1, <1>2, <1>3
<1>6. Tuple = [key |-> Tuple.key, version |-> Tuple.version, scope |-> Tuple.scope,
               repoId |-> Tuple.repoId]
  BY DEF Tuple
<1> QED
  BY <1>1, <1>4, <1>5, <1>6, NullFacts DEF UploadOK

-----------------------------------------------------------------------------
(* What a transaction would commit.                                          *)

LEMMA WouldFacts ==
  ASSUME NEW g, NEW s
  PROVE  /\ DOMAIN Would(g, s) = DOMAIN s.writes \cup DOMAIN g.db
         /\ \A r \in DOMAIN s.writes : Would(g, s)[r] = s.writes[r]
         /\ \A r \in DOMAIN g.db : r \notin DOMAIN s.writes => Would(g, s)[r] = g.db[r]
BY OverFacts DEF Would

(* A map that was written over by another.                                   *)
Grown(map, new, old) ==
  /\ DOMAIN map = DOMAIN new \cup DOMAIN old
  /\ \A r \in DOMAIN new : map[r] = new[r]
  /\ \A r \in DOMAIN old : r \notin DOMAIN new => map[r] = old[r]

\* Where a map was written over by another.
LEMMA GrownFacts ==
  ASSUME NEW new, NEW old
  PROVE  Grown(new ++ old, new, old)
BY OverFacts DEF Grown

\* What the transaction would leave after it has written new beside its writes.
LEMMA WouldGrown ==
  ASSUME NEW g, NEW s
  PROVE  Grown(Would(g, s), s.writes, g.db)
BY GrownFacts DEF Would

(* What it would commit after it has written more.                           *)
LEMMA WouldMore ==
  ASSUME NEW g, NEW s, NEW t, NEW new, Grown(t.writes, new, s.writes)
  PROVE  Grown(Would(g, t), new, Would(g, s))
<1> DEFINE v == s.writes
           w == t.writes
           x == Would(g, s)
           y == Would(g, t)
<1>1. Grown(w, new, v) /\ Grown(x, v, g.db) /\ Grown(y, w, g.db)
  BY WouldGrown
<1> HIDE DEF v, w, x, y
<1>2. DOMAIN y = DOMAIN new \cup DOMAIN x
  BY <1>1 DEF Grown
<1>3. \A r \in DOMAIN new : y[r] = new[r]
  BY <1>1 DEF Grown
<1>4. ASSUME NEW r \in DOMAIN x, r \notin DOMAIN new
      PROVE  y[r] = x[r]
  <2>1. CASE r \in DOMAIN v
    BY <1>1, <1>4, <2>1 DEF Grown
  <2>2. CASE r \notin DOMAIN v
    <3>1. r \in DOMAIN g.db /\ r \notin DOMAIN w
      BY <1>1, <1>4, <2>2 DEF Grown
    <3> QED
      BY <1>1, <3>1, <2>2 DEF Grown
  <2> QED
    BY <2>1, <2>2
<1>5. Grown(y, new, x)
  BY <1>2, <1>3, <1>4 DEF Grown
<1> QED
  BY <1>5 DEF x, y

LEMMA RowKinds ==
  ASSUME NEW r, NEW row, RowOK(r, row)
  PROVE  /\ row.id = r[2]
         /\ r \in RowsOf("entry") => EntryOK(row)
         /\ r \in RowsOf("location") => LocationOK(row)
         /\ r \in RowsOf("lease") => LeaseOK(row)
         /\ r \in RowsOf("deletion") => DeletionOK(row)
         /\ r \in RowsOf("upload") => UploadOK(row) /\ row.folderName = Folder(r[2])
<1>1. /\ r \in RowsOf("entry") => r[1] = "entry"
      /\ r \in RowsOf("location") => r[1] = "location"
      /\ r \in RowsOf("lease") => r[1] = "lease"
      /\ r \in RowsOf("deletion") => r[1] = "deletion"
      /\ r \in RowsOf("upload") => r[1] = "upload"
  BY RowFacts
<1> QED
  BY <1>1 DEF RowOK, UploadOK

LEMMA KindsRow ==
  ASSUME NEW table \in Tables, NEW r \in RowsOf(table), NEW row, row.id = r[2],
         table = "entry" => EntryOK(row), table = "location" => LocationOK(row),
         table = "lease" => LeaseOK(row), table = "deletion" => DeletionOK(row),
         table = "upload" => UploadOK(row)
  PROVE  RowOK(r, row)
<1>1. r[1] = table
  BY RowFacts
<1> QED
  BY <1>1 DEF RowOK

(* Tables have no row in common.                                             *)
LEMMA TablesApart ==
  \A t, u \in Tables : \A r \in RowsOf(t) : r \in RowsOf(u) => t = u
BY RowFacts

\* Rows evolve within their table.
LEMMA EvolvesKinds ==
  ASSUME NEW r, NEW old, NEW new, Evolves(r, old, new)
  PROVE  /\ r \in RowsOf("entry") \/ r \in RowsOf("upload") => KeyOf(new) = KeyOf(old)
         /\ r \in RowsOf("location") =>
              /\ new.folderName = old.folderName /\ new.partCount = old.partCount
              /\ old.materializationUnsupportedAt # Null => new.materializationUnsupportedAt # Null
         /\ r \in RowsOf("lease") => /\ new.storageLocationId = old.storageLocationId
                                     /\ new.scope = old.scope /\ new.expiresAt >= old.expiresAt
         /\ r \in RowsOf("deletion") => new.folderName = old.folderName
<1>1. /\ r \in RowsOf("entry") => r[1] = "entry"
      /\ r \in RowsOf("location") => r[1] = "location"
      /\ r \in RowsOf("lease") => r[1] = "lease"
      /\ r \in RowsOf("deletion") => r[1] = "deletion"
      /\ r \in RowsOf("upload") => r[1] = "upload"
  BY RowFacts
<1> QED
  BY <1>1 DEF Evolves

\* A row evolves to itself,
LEMMA EvolvesSelf ==
  ASSUME NEW r, NEW row, RowOK(r, row)
  PROVE  Evolves(r, row, row)
<1>1. r[1] = "lease" => row.expiresAt \in Nat
  BY DEF RowOK, LeaseOK
<1>2. r[1] = "lease" => row.expiresAt >= row.expiresAt
  BY <1>1
<1> QED
  BY <1>2 DEF Evolves

\* and in two steps as in one.
LEMMA EvolvesOn ==
  ASSUME NEW r, NEW a, NEW b, NEW c, RowOK(r, a), RowOK(r, b), RowOK(r, c),
         Evolves(r, a, b), Evolves(r, b, c)
  PROVE  Evolves(r, a, c)
<1>1. r[1] = "lease" => a.expiresAt \in Nat /\ b.expiresAt \in Nat /\ c.expiresAt \in Nat
  BY DEF RowOK, LeaseOK
<1>2. r[1] = "lease" => c.expiresAt >= a.expiresAt
  BY <1>1 DEF Evolves
<1> QED
  BY <1>2 DEF Evolves

(* A location whose parts can never be merged stays so.                      *)
LEMMA EvolvesMergeable ==
  ASSUME NEW r \in RowsOf("location"), NEW old, NEW new, Evolves(r, old, new), Mergeable(new)
  PROVE  Mergeable(old)
BY EvolvesKinds DEF Mergeable

LEMMA MergedFacts ==
  ASSUME NEW row, LocationOK(row)
  PROVE  /\ row.mergedAt # Null => Mergeable(row)
         /\ row.partsDeletedAt # Null => row.mergedAt # Null
         /\ row.folderName \in Whole
BY DEF LocationOK

LEMMA TypedRow ==
  ASSUME NEW store, Typed(store), NEW r \in Rows, store[r] # Absent
  PROVE  RowOK(r, store[r])
BY DEF Typed

(* The rows that a row refers to.                                            *)
LEMMA Referred ==
  /\ \A row : EntryOK(row) => LocationOf(row) \in RowsOf("location")
  /\ \A row : LeaseOK(row) => LeasedBy(row) \in RowsOf("location")
  /\ \A f \in Folders : UploadOf(f) \in RowsOf("upload") /\ UploadOf(f)[2] = f[1]
  /\ \A f \in Whole : f \in Folders /\ f[2] = "" /\ f = Folder(f[1]) /\ f[1] \in Upload
  /\ \A i \in Upload : Folder(i) \in Whole /\ Folder(i)[1] = i
  /\ \A i, j \in Upload : Folder(i) = Folder(j) => i = j
<1>1. \A row : EntryOK(row) => LocationOf(row) \in RowsOf("location")
  BY RowFacts DEF EntryOK, LocationOf
<1>2. \A row : LeaseOK(row) => LeasedBy(row) \in RowsOf("location")
  BY RowFacts DEF LeaseOK, LeasedBy
<1>3. \A f \in Folders : UploadOf(f) \in RowsOf("upload") /\ UploadOf(f)[2] = f[1]
  BY RowFacts DEF Folders, UploadOf
<1>4. \A f \in Whole : f \in Folders /\ f[2] = "" /\ f = Folder(f[1]) /\ f[1] \in Upload
  <2>1. \A f \in Whole : f[1] \in Upload /\ f[2] = "" /\ f = <<f[1], f[2]>>
    <3> SUFFICES ASSUME NEW f \in Whole
                 PROVE  f[1] \in Upload /\ f[2] = "" /\ f = <<f[1], f[2]>>
      OBVIOUS
    <3>1. f \in Upload \X {""}
      BY DEF Whole
    <3>2. f[1] \in Upload
      BY <3>1
    <3>3. f[2] \in {""}
      BY <3>1
    <3>4. f = <<f[1], f[2]>>
      <4> DEFINE texts == {""}
      <4>1. f \in Upload \X texts
        BY <3>1
      <4> HIDE DEF texts
      <4> QED
        BY <4>1
    <3> QED
      BY <3>2, <3>3, <3>4
  <2>2. \A f \in Whole : f \in Folders
    BY DEF Whole, Folders, Part
  <2> QED
    BY <2>1, <2>2 DEF Folder
<1>5. \A i \in Upload : Folder(i) \in Whole /\ Folder(i)[1] = i
  BY DEF Whole, Folder
<1>6. \A i, j \in Upload : Folder(i) = Folder(j) => i = j
  BY <1>5
<1> QED
  BY <1>1, <1>2, <1>3, <1>4, <1>5, <1>6

-----------------------------------------------------------------------------
(* Statements that insert nothing and move no entry: rows change as they may, *)
(* a location is fenced or deleted only when nothing refers to it.           *)

Mild(S, N, T) ==
  /\ DOMAIN N \subseteq Rows
  /\ \A r \in DOMAIN N : S[r] # Absent
  /\ \A r \in DOMAIN N : N[r] # Absent =>
       RowOK(r, N[r]) /\ Evolves(r, S[r], N[r]) /\ r \notin RowsOf("entry")
  /\ \A l \in DOMAIN N \cap RowsOf("location") :
       /\ N[l] # Absent => N[l].deletionRequestedAt = S[l].deletionRequestedAt \/ NoEntries(T, l)
       /\ N[l] = Absent => /\ NoEntries(T, l)
                           /\ \A d \in RowsOf("lease") : T[d] # Absent => LeasedBy(T[d]) # l

\* A mild step keeps rows, links, leases, keys, owners and the outbox apart.
LEMMA MildRows ==
  ASSUME NEW S, NEW N, NEW T, Typed(S), Grown(T, N, S), Mild(S, N, T)
  PROVE  /\ Typed(T)
         /\ \A r \in Rows : T[r] # Absent => S[r] # Absent
         /\ \A e \in RowsOf("entry") : T[e] # Absent => T[e] = S[e]
         /\ \A u \in RowsOf("upload") : T[u] # Absent =>
              KeyOf(T[u]) = KeyOf(S[u]) /\ T[u].folderName = S[u].folderName
         /\ \A l \in RowsOf("location") : T[l] # Absent => T[l].folderName = S[l].folderName
         /\ \A d \in RowsOf("lease") : T[d] # Absent =>
              LeasedBy(T[d]) = LeasedBy(S[d]) /\ T[d].scope = S[d].scope
         /\ \A t \in RowsOf("deletion") : T[t] # Absent => T[t].folderName = S[t].folderName
<1>1. ASSUME NEW r \in Rows
      PROVE  \/ r \notin DOMAIN N /\ T[r] = S[r]
             \/ r \in DOMAIN N /\ T[r] = N[r]
  BY DEF Typed, Grown
<1>2. \A r \in Rows : T[r] # Absent => S[r] # Absent
  BY <1>1 DEF Mild
<1>3. Typed(T)
  <2>1. DOMAIN T = Rows
    BY DEF Typed, Grown, Mild
  <2>2. ASSUME NEW r \in Rows, T[r] # Absent
        PROVE  RowOK(r, T[r])
    BY <1>1, <2>2 DEF Typed, Mild
  <2> QED
    BY <2>1, <2>2 DEF Typed
<1>4. \A e \in RowsOf("entry") : T[e] # Absent => T[e] = S[e]
  BY <1>1, RowFacts DEF Mild
<1>5. \A r \in Rows : T[r] # Absent => T[r] = S[r] \/ Evolves(r, S[r], T[r])
  BY <1>1 DEF Mild
<1>6. \A t \in Tables : RowsOf(t) \subseteq Rows
  BY RowFacts
<1>7. /\ RowsOf("upload") \subseteq Rows /\ RowsOf("location") \subseteq Rows
      /\ RowsOf("lease") \subseteq Rows /\ RowsOf("deletion") \subseteq Rows
  BY RowFacts
<1>8. ASSUME NEW u \in RowsOf("upload"), T[u] # Absent
      PROVE  KeyOf(T[u]) = KeyOf(S[u]) /\ T[u].folderName = S[u].folderName
  <2>1. KeyOf(T[u]) = KeyOf(S[u])
    BY <1>5, <1>7, <1>8, EvolvesKinds
  <2>2. RowOK(u, T[u]) /\ RowOK(u, S[u])
    BY <1>2, <1>3, <1>7, <1>8 DEF Typed
  <2> QED
    BY <2>1, <2>2, RowKinds
<1>9. \A l \in RowsOf("location") : T[l] # Absent => T[l].folderName = S[l].folderName
  BY <1>5, <1>7, EvolvesKinds
<1>10. \A d \in RowsOf("lease") : T[d] # Absent =>
         LeasedBy(T[d]) = LeasedBy(S[d]) /\ T[d].scope = S[d].scope
  BY <1>5, <1>7, EvolvesKinds DEF LeasedBy
<1>11. \A t \in RowsOf("deletion") : T[t] # Absent => T[t].folderName = S[t].folderName
  BY <1>5, <1>7, EvolvesKinds
<1> QED
  BY <1>2, <1>3, <1>4, <1>8, <1>9, <1>10, <1>11

\* So what the transaction would leave is sound after a mild step.
LEMMA MildStore ==
  ASSUME NEW S, NEW N, NEW T, Typed(S), Grown(T, N, S), Mild(S, N, T), NEW pair, NEW spared
  PROVE  /\ Typed(T)
         /\ Linked(S) => Linked(T)
         /\ Leased(S) => Leased(T)
         /\ OneEntry(S) => OneEntry(T)
         /\ OneUpload(S) => OneUpload(T)
         /\ OneOwner(S, pair) => OneOwner(T, pair)
         /\ QueueFree(S, spared) => QueueFree(T, spared)
<1>1. ASSUME NEW r \in Rows
      PROVE  \/ r \notin DOMAIN N /\ T[r] = S[r]
             \/ r \in DOMAIN N /\ T[r] = N[r]
  BY DEF Typed, Grown
<1>2. \A t \in Tables : RowsOf(t) \subseteq Rows
  BY RowFacts
<1>3. /\ RowsOf("upload") \subseteq Rows /\ RowsOf("location") \subseteq Rows
      /\ RowsOf("lease") \subseteq Rows /\ RowsOf("deletion") \subseteq Rows
      /\ RowsOf("entry") \subseteq Rows
  BY RowFacts
<1>4. ASSUME Linked(S)
      PROVE  Linked(T)
  <2> SUFFICES ASSUME NEW e \in RowsOf("entry"), T[e] # Absent
               PROVE  /\ T[LocationOf(T[e])] # Absent
                      /\ T[LocationOf(T[e])].deletionRequestedAt = Null
    BY DEF Linked
  <2> DEFINE l == LocationOf(T[e])
  <2>1. T[e] = S[e] /\ S[e] # Absent
    BY MildRows, <1>3
  <2>2. S[l] # Absent /\ S[l].deletionRequestedAt = Null
    BY <1>4, <2>1 DEF Linked
  <2>3. RowOK(e, T[e])
    BY MildRows, <1>3, TypedRow
  <2>4. l \in RowsOf("location")
    BY <2>3, RowKinds, Referred
  <2>5. ~NoEntries(T, l)
    BY DEF NoEntries
  <2>6. CASE l \notin DOMAIN N
    BY <1>1, <1>3, <2>2, <2>4, <2>6
  <2>7. CASE l \in DOMAIN N
    <3>1. T[l] = N[l]
      BY <2>7 DEF Grown
    <3>2. N[l] # Absent /\ N[l].deletionRequestedAt = S[l].deletionRequestedAt
      BY <2>4, <2>5, <2>7 DEF Mild
    <3> QED
      BY <2>2, <3>1, <3>2
  <2> QED
    BY <2>6, <2>7
<1>5. ASSUME Leased(S)
      PROVE  Leased(T)
  <2> SUFFICES ASSUME NEW d \in RowsOf("lease"), T[d] # Absent
               PROVE  T[LeasedBy(T[d])] # Absent
    BY DEF Leased
  <2> DEFINE l == LeasedBy(T[d])
  <2>1. l = LeasedBy(S[d]) /\ S[d] # Absent
    BY MildRows, <1>3
  <2>2. S[l] # Absent
    BY <1>5, <2>1 DEF Leased
  <2>3. RowOK(d, T[d])
    BY MildRows, <1>3, TypedRow
  <2>4. l \in RowsOf("location")
    BY <2>3, RowKinds, Referred
  <2>6. CASE l \notin DOMAIN N
    BY <1>1, <1>3, <2>2, <2>4, <2>6
  <2>7. CASE l \in DOMAIN N
    <3>1. T[l] = N[l]
      BY <2>7 DEF Grown
    <3>2. N[l] # Absent
      BY <2>4, <2>7 DEF Mild
    <3> QED
      BY <3>1, <3>2
  <2> QED
    BY <2>6, <2>7
<1>6. OneEntry(S) => OneEntry(T)
  BY MildRows, <1>3 DEF OneEntry
<1>7. OneUpload(S) => OneUpload(T)
  BY MildRows, <1>3 DEF OneUpload
<1>8. \A r \in Owners : T[r] # Absent => S[r] # Absent /\ T[r].folderName = S[r].folderName
  BY MildRows, <1>3 DEF Owners
<1>9. OneOwner(S, pair) => OneOwner(T, pair)
  BY <1>8 DEF OneOwner
<1>10. \A t \in RowsOf("deletion") : T[t] # Absent =>
         S[t] # Absent /\ T[t].folderName = S[t].folderName
  BY MildRows, <1>3
<1>11. QueueFree(S, spared) => QueueFree(T, spared)
  BY <1>8, <1>10 DEF QueueFree
<1> QED
  BY MildRows, <1>4, <1>5, <1>6, <1>7, <1>9, <1>11

\* Claimed parts have no reader after a mild step.
LEMMA MildClaimed ==
  ASSUME NEW S, NEW N, NEW T, Typed(S), Grown(T, N, S), Mild(S, N, T), Claimed(S),
         \A l \in DOMAIN N \cap RowsOf("location") : N[l] # Absent =>
           N[l].partsDeletedAt = S[l].partsDeletedAt \/ Unread(T, l)
  PROVE  Claimed(T)
<1> SUFFICES ASSUME NEW l \in RowsOf("location"), T[l] # Absent, T[l].partsDeletedAt # Null
             PROVE  Unread(T, l)
  BY DEF Claimed
<1>1. l \in Rows /\ RowsOf("lease") \subseteq Rows
  BY RowFacts
<1>2. ASSUME Unread(S, l)
      PROVE  Unread(T, l)
  BY <1>1, <1>2, MildRows DEF Unread, PartsLease
<1>3. CASE l \notin DOMAIN N
  <2>1. T[l] = S[l]
    BY <1>1, <1>3 DEF Typed, Grown
  <2> QED
    BY <1>2, <2>1 DEF Claimed
<1>4. CASE l \in DOMAIN N
  <2>1. T[l] = N[l] /\ S[l] # Absent
    BY <1>4 DEF Grown, Mild
  <2>2. CASE N[l].partsDeletedAt = S[l].partsDeletedAt
    BY <1>2, <2>1, <2>2 DEF Claimed
  <2>3. CASE Unread(T, l)
    BY <2>3
  <2> QED
    BY <1>4, <2>1, <2>2, <2>3
<1> QED
  BY <1>3, <1>4

-----------------------------------------------------------------------------
(* What such a statement makes of a transaction.                             *)

Steady(s, t) ==
  /\ t.job = s.job
  /\ s.job.kind = "complete" => t.reg.new = s.reg.new /\ t.reg.upload = s.reg.upload

LEMMA TableRows ==
  /\ RowsOf("upload") \subseteq Rows /\ RowsOf("location") \subseteq Rows
  /\ RowsOf("lease") \subseteq Rows /\ RowsOf("deletion") \subseteq Rows
  /\ RowsOf("entry") \subseteq Rows /\ Owners \subseteq Rows
  /\ Owners = RowsOf("upload") \cup RowsOf("location")
BY RowFacts DEF Owners

LEMMA CommittedFacts ==
  ASSUME NEW g, Committed(g)
  PROVE  /\ Typed(g.db) /\ DOMAIN g.db = Rows /\ Known(g.db, g.issued)
         /\ \A r \in Rows : g.db[r] # Absent => RowOK(r, g.db[r]) /\ r \in g.issued
BY DEF Committed, Typed, Known

(* What it would commit has rows of their kind.                              *)
LEMMA WouldTyped ==
  ASSUME NEW g, NEW s, Committed(g), Shape(s), RowsOK(g, s)
  PROVE  /\ Typed(Would(g, s))
         /\ \A r \in Rows : \/ r \in DOMAIN s.writes /\ Would(g, s)[r] = s.writes[r]
                            \/ r \notin DOMAIN s.writes /\ Would(g, s)[r] = g.db[r]
         /\ \A r \in Rows : Would(g, s)[r] # Absent =>
              /\ RowOK(r, Would(g, s)[r])
              /\ g.db[r] # Absent => Evolves(r, g.db[r], Would(g, s)[r])
              /\ g.db[r] = Absent => Adds(g, s, r)
<1> DEFINE S == Would(g, s)
<1>0. Grown(S, s.writes, g.db)
  BY WouldGrown
<1> HIDE DEF S
<1>a. DOMAIN g.db = Rows /\ DOMAIN s.writes \subseteq Rows
  BY CommittedFacts DEF Shape
<1>1. DOMAIN S = Rows
  BY <1>0, <1>a DEF Grown
<1>2. \A r \in Rows : \/ r \in DOMAIN s.writes /\ S[r] = s.writes[r]
                      \/ r \notin DOMAIN s.writes /\ S[r] = g.db[r]
  BY <1>0, <1>a DEF Grown
<1>3. ASSUME NEW r \in Rows, S[r] # Absent
      PROVE  /\ RowOK(r, S[r])
             /\ g.db[r] # Absent => Evolves(r, g.db[r], S[r])
             /\ g.db[r] = Absent => Adds(g, s, r)
  <2>1. CASE r \in DOMAIN s.writes /\ S[r] = s.writes[r]
    BY <1>3, <2>1 DEF RowsOK, Adds, Puts
  <2>2. CASE S[r] = g.db[r]
    BY <1>3, <2>2, CommittedFacts, EvolvesSelf
  <2> QED
    BY <1>2, <2>1, <2>2
<1>4. Typed(S)
  BY <1>1, <1>3 DEF Typed
<1> QED
  BY <1>2, <1>3, <1>4 DEF S

\* The writes stay as they must be after a mild step.
LEMMA MildWrites ==
  ASSUME NEW g, NEW s, NEW t, NEW N, Committed(g), Shape(s), WritesInv(g, s),
         Grown(t.writes, N, s.writes), Mild(Would(g, s), N, Would(g, t)),
         Steady(s, t), t.shared = s.shared,
         s.job.kind = "acquire" => \A l \in DOMAIN N \cap RowsOf("location") :
           N[l] # Absent /\ N[l].mergedAt = Would(g, s)[l].mergedAt,
         \A d \in DOMAIN N \cap RowsOf("lease") : N[d] # Absent => N[d].expiresAt <= g.clock + Lasts
  PROVE  RowsOK(g, t) /\ EntriesOK(g, t) /\ InsertsOK(g, t) /\ TimesOK(g, t)
<1> DEFINE S == Would(g, s)
           v == s.writes
           w == t.writes
<1>1. Typed(S) /\ Grown(w, N, v) /\ Mild(S, N, Would(g, t)) /\ Grown(S, v, g.db)
  BY WouldTyped, WouldGrown DEF WritesInv
<1>2. ASSUME NEW r \in DOMAIN w
      PROVE  \/ r \in DOMAIN N /\ w[r] = N[r] /\ r \in Rows
             \/ r \notin DOMAIN N /\ r \in DOMAIN v /\ w[r] = v[r] /\ r \in Rows
  BY <1>1 DEF Grown, Mild, Shape
<1>3. ASSUME NEW r \in DOMAIN N
      PROVE  /\ r \in Rows /\ S[r] # Absent /\ RowOK(r, S[r])
             /\ g.db[r] # Absent => Evolves(r, g.db[r], S[r])
             /\ g.db[r] = Absent => Adds(g, s, r) /\ S[r] = v[r]
  <2>1. r \in Rows /\ S[r] # Absent
    BY <1>1 DEF Mild
  <2> QED
    BY <2>1, WouldTyped DEF WritesInv, Adds, Puts
<1>4. RowsOK(g, t)
  <2> SUFFICES ASSUME NEW r \in DOMAIN w, w[r] # Absent
               PROVE  RowOK(r, w[r]) /\ (g.db[r] # Absent => Evolves(r, g.db[r], w[r]))
    BY DEF RowsOK
  <2>1. CASE r \in DOMAIN N /\ w[r] = N[r]
    <3>1. RowOK(r, N[r]) /\ Evolves(r, S[r], N[r])
      BY <1>1, <2>1 DEF Mild
    <3>2. g.db[r] # Absent => RowOK(r, g.db[r])
      BY <1>3, <2>1, CommittedFacts
    <3> QED
      BY <1>3, <2>1, <3>1, <3>2, EvolvesOn
  <2>2. CASE r \notin DOMAIN N /\ r \in DOMAIN v /\ w[r] = v[r]
    BY <2>2 DEF WritesInv, RowsOK
  <2> QED
    BY <1>2, <2>1, <2>2
<1>5. ASSUME NEW e \in RowsOf("entry"), Puts(t, e)
      PROVE  Puts(s, e) /\ w[e] = v[e]
  <2>1. e \notin DOMAIN N
    BY <1>1, <1>5 DEF Mild, Puts, Grown
  <2> QED
    BY <1>5, <2>1, <1>2 DEF Puts
<1>6. EntriesOK(g, t)
  BY <1>5 DEF EntriesOK, Adds, WritesInv, Steady
<1>7. ASSUME NEW r \in Rows, Adds(g, t, r)
      PROVE  Adds(g, s, r)
  BY <1>2, <1>3, <1>7 DEF Adds, Puts
<1>8. InsertsOK(g, t)
  <2>1. ASSUME NEW l \in RowsOf("location"), Adds(g, t, l)
        PROVE  t.job.kind = "complete" /\ l = NewRow(t)
    BY <1>7, <2>1, TableRows DEF InsertsOK, WritesInv, Steady, NewRow
  <2>2. ASSUME NEW d \in RowsOf("lease"), Adds(g, t, d)
        PROVE  LET l == LeasedBy(t.writes[d]) IN
               /\ t.job.kind = "acquire" /\ l \in t.shared
               /\ t.writes[d].scope = "parts" => Admissible(g, t, l)
    <3> DEFINE l == LeasedBy(v[d])
    <3>1. Adds(g, s, d)
      BY <1>7, <2>2, TableRows
    <3>2. /\ s.job.kind = "acquire" /\ l \in s.shared
          /\ v[d].scope = "parts" => Admissible(g, s, l)
      BY <3>1 DEF InsertsOK, WritesInv
    <3>3. RowOK(d, v[d])
      BY <3>1 DEF RowsOK, WritesInv, Adds, Puts
    <3>4. LeasedBy(w[d]) = l /\ w[d].scope = v[d].scope
      <4>1. CASE d \in DOMAIN N /\ w[d] = N[d]
        <5>1. Evolves(d, S[d], N[d])
          BY <1>1, <2>2, <4>1 DEF Mild, Adds, Puts
        <5>2. S[d] = v[d]
          BY <1>1, <3>1 DEF Adds, Puts, Grown
        <5> QED
          BY <4>1, <5>1, <5>2, EvolvesKinds DEF LeasedBy
      <4>2. CASE w[d] = v[d]
        BY <4>2
      <4>3. d \in DOMAIN w
        BY <2>2 DEF Adds, Puts
      <4> QED
        BY <1>2, <4>1, <4>2, <4>3
    <3>5. l \in RowsOf("location")
      BY <3>3, RowKinds, Referred
    <3>6. ASSUME Admissible(g, s, l)
          PROVE  Admissible(g, t, l)
      <4>1. CASE Puts(s, l) /\ v[l].mergedAt = Null
        <5>1. CASE l \in DOMAIN N
          <6>1. w[l] = N[l] /\ N[l] # Absent /\ N[l].mergedAt = S[l].mergedAt
            BY <1>1, <3>2, <3>5, <5>1 DEF Grown
          <6>2. S[l] = v[l]
            BY <1>1, <4>1 DEF Puts, Grown
          <6>3. l \in DOMAIN w
            BY <1>1, <5>1 DEF Grown
          <6> QED
            BY <4>1, <6>1, <6>2, <6>3 DEF Admissible, Puts
        <5>2. CASE l \notin DOMAIN N
          BY <1>1, <4>1, <5>2 DEF Grown, Admissible, Puts
        <5> QED
          BY <5>1, <5>2
      <4>2. CASE g.db[l] # Absent => ~Mergeable(g.db[l])
        BY <4>2 DEF Admissible
      <4> QED
        BY <3>6, <4>1, <4>2 DEF Admissible
    <3> QED
      BY <3>2, <3>4, <3>6 DEF Steady
  <2>3. ASSUME NEW r \in RowsOf("deletion"), Puts(t, r)
        PROVE  UploadOf(t.writes[r].folderName) \in g.issued
    <3>1. CASE r \in DOMAIN N /\ w[r] = N[r]
      <4>1. Evolves(r, S[r], N[r])
        BY <1>1, <2>3, <3>1 DEF Mild, Puts
      <4>2. N[r].folderName = S[r].folderName
        BY <4>1, EvolvesKinds
      <4>3. CASE r \in DOMAIN v
        <5>1. S[r] = v[r] /\ Puts(s, r)
          BY <1>1, <1>3, <3>1, <4>3 DEF Puts, Grown
        <5> QED
          BY <3>1, <4>2, <5>1 DEF InsertsOK, WritesInv
      <4>4. CASE r \notin DOMAIN v
        <5>0. r \in DOMAIN g.db
          BY <1>3, <3>1, CommittedFacts
        <5>1. S[r] = g.db[r]
          BY <1>1, <4>4, <5>0 DEF Grown
        <5>2. UploadOf(g.db[r].folderName) \in g.issued
          BY <1>3, <3>1, <5>1, CommittedFacts DEF Known
        <5> QED
          BY <3>1, <4>2, <5>1, <5>2
      <4> QED
        BY <4>3, <4>4
    <3>2. CASE r \in DOMAIN v /\ w[r] = v[r]
      BY <2>3, <3>2 DEF InsertsOK, WritesInv, Puts
    <3>3. r \in DOMAIN w
      BY <2>3 DEF Puts
    <3> QED
      BY <1>2, <3>1, <3>2, <3>3
  <2> QED
    BY <2>1, <2>2, <2>3 DEF InsertsOK
<1>9. TimesOK(g, t)
  <2> SUFFICES ASSUME NEW d \in RowsOf("lease"), Puts(t, d)
               PROVE  w[d].expiresAt <= g.clock + Lasts
    BY DEF TimesOK
  <2>1. CASE d \in DOMAIN N /\ w[d] = N[d]
    BY <2>1 DEF Puts
  <2>2. CASE d \in DOMAIN v /\ w[d] = v[d]
    BY <2>2 DEF TimesOK, WritesInv, Puts
  <2>3. d \in DOMAIN w
    BY DEF Puts
  <2> QED
    BY <1>2, <2>1, <2>2, <2>3
<1> QED
  BY <1>4, <1>6, <1>8, <1>9

(* Where no owner and no task goes, every dropped folder is still accounted for. *)
LEMMA MildDrops ==
  ASSUME NEW g, NEW s, NEW t, NEW N, Committed(g), Shape(s), RowsOK(g, s), DropsOK(g, s),
         Grown(t.writes, N, s.writes), Mild(Would(g, s), N, Would(g, t)),
         \A r \in DOMAIN N \cap (Owners \cup RowsOf("deletion")) : N[r] # Absent,
         Pending(s) = {}
  PROVE  DropsOK(g, t)
<1> DEFINE S == Would(g, s)
           v == s.writes
           w == t.writes
<1>1. Grown(w, N, v) /\ Mild(S, N, Would(g, t)) /\ Grown(S, v, g.db)
  BY WouldGrown
<1> SUFFICES ASSUME NEW r \in Owners, r \in DOMAIN w, w[r] = Absent, g.db[r] # Absent
             PROVE  \E x \in Owners \cup RowsOf("deletion") :
                      Puts(t, x) /\ w[x].folderName = g.db[r].folderName
  BY DEF DropsOK
<1>2. r \in DOMAIN v /\ v[r] = Absent
  BY <1>1 DEF Grown
<1>3. PICK x \in Owners \cup RowsOf("deletion") : Puts(s, x) /\ v[x].folderName = g.db[r].folderName
  BY <1>2 DEF DropsOK
<1>4. Puts(t, x) /\ w[x].folderName = v[x].folderName
  <2>1. CASE x \in DOMAIN N
    <3>1. w[x] = N[x] /\ N[x] # Absent /\ x \in DOMAIN w /\ S[x] = v[x]
      BY <1>1, <1>3, <2>1 DEF Grown, Puts
    <3>2. RowOK(x, N[x]) /\ Evolves(x, S[x], N[x])
      BY <1>1, <2>1, <3>1 DEF Mild
    <3>3. RowOK(x, v[x])
      BY <1>3 DEF RowsOK, Puts
    <3>4. N[x].folderName = S[x].folderName
      BY <3>1, <3>2, <3>3, EvolvesKinds, RowKinds, TableRows
    <3> QED
      BY <3>1, <3>4 DEF Puts
  <2>2. CASE x \notin DOMAIN N
    BY <1>1, <1>3, <2>2 DEF Grown, Puts
  <2> QED
    BY <2>1, <2>2
<1> QED
  BY <1>3, <1>4

\* The outbox may spare more owners.
LEMMA QueueFreeMore ==
  ASSUME NEW store, NEW spared, QueueFree(store, {})
  PROVE  QueueFree(store, spared)
BY DEF QueueFree

\* A mild step keeps the writes of its transaction and what it would leave.
LEMMA MildKeeps ==
  ASSUME NEW g, NEW s, NEW t, NEW N, Committed(g), Shape(s), WritesInv(g, s), WouldInv(g, s),
         Grown(t.writes, N, s.writes), Mild(Would(g, s), N, Would(g, t)),
         Steady(s, t), t.shared = s.shared,
         s.job.kind = "acquire" => \A l \in DOMAIN N \cap RowsOf("location") :
           N[l] # Absent /\ N[l].mergedAt = Would(g, s)[l].mergedAt,
         \A d \in DOMAIN N \cap RowsOf("lease") : N[d] # Absent =>
           N[d].expiresAt <= g.clock + Lasts,
         \A l \in DOMAIN N \cap RowsOf("location") : (g.engine # "mysql" /\ N[l] # Absent) =>
           \/ N[l].partsDeletedAt = Would(g, s)[l].partsDeletedAt
           \/ Unread(Would(g, t), l),
         s.pc # "complete", t.pc # "complete", DropsOK(g, t),
         s.pc = "fence.delete" => QueueFree(Would(g, t), Spared(t))
  PROVE  WritesInv(g, t) /\ WouldInv(g, t)
<1> DEFINE S == Would(g, s)
           T == Would(g, t)
<1>1. Typed(S) /\ Grown(T, N, S) /\ Mild(S, N, T)
  BY WouldTyped, WouldMore DEF WritesInv
<1>2. WritesInv(g, t)
  BY MildWrites DEF WritesInv
<1>3. Pair(t) = Pair(s)
  BY DEF Pair, Steady, UploadRow, NewRow
<1>4. /\ Linked(S) /\ Leased(S) /\ OneEntry(S) /\ OneUpload(S)
      /\ OneOwner(S, Pair(s)) /\ QueueFree(S, Spared(s))
      /\ g.engine # "mysql" => Claimed(S)
  BY DEF WouldInv
<1>5. g.engine # "mysql" => \A l \in DOMAIN N \cap RowsOf("location") : N[l] # Absent =>
        N[l].partsDeletedAt = S[l].partsDeletedAt \/ Unread(T, l)
  OBVIOUS
<1>6. s.pc # "fence.delete" => Spared(s) = {}
  BY DEF Spared
<1> HIDE DEF S, T
<1>7. /\ Linked(T) /\ Leased(T) /\ OneEntry(T) /\ OneUpload(T)
      /\ OneOwner(T, Pair(s)) /\ QueueFree(T, Spared(s))
  BY <1>1, <1>4, MildStore
<1>8. g.engine # "mysql" => Claimed(T)
  BY <1>1, <1>4, <1>5, MildClaimed
<1>9. QueueFree(T, Spared(t))
  BY <1>6, <1>7, QueueFreeMore DEF T
<1> QED
  BY <1>2, <1>3, <1>7, <1>8, <1>9 DEF WouldInv, T

-----------------------------------------------------------------------------
(* A step of one process, the tables unchanged.                              *)

LEMMA RivalsTurn ==
  ASSUME NEW g, NEW s, NEW t, Rivals(g, s, t)
  PROVE  Rivals(g, t, s)
BY DEF Rivals

LEMMA StateFields ==
  /\ Now.db = db /\ Now.clock = clock /\ Now.issued = issued /\ Now.engine = engine
BY DEF Now

LEMMA NowKept ==
  ASSUME UNCHANGED <<engine, db, clock, issued>>
  PROVE  Now' = Now
BY DEF Now

\* If one process takes a step that keeps its own invariant, and its locks, all is kept.
LEMMA TurnKeeps ==
  ASSUME TransactionInv, NEW p \in Process, NEW t, Now' = Now,
         proc' = [proc EXCEPT ![p] = t],
         Shape(t), Fresh(Now, t), Idles(t), UploadTaken(Now, t), OpenInv(Now, t),
         \A q \in Process \ {p} : /\ Apart(t, proc[q]) /\ Apart(proc[q], t)
                                  /\ Rivals(Now, t, proc[q])
  PROVE  TransactionInv'
<1>1. Now' = Now /\ proc' = [proc EXCEPT ![p] = t]
  OBVIOUS
<1>2. DOMAIN proc = Process
  BY DEF TransactionInv, Inv, Held
<1>3. /\ DOMAIN proc' = Process /\ proc'[p] = t
      /\ \A q \in Process \ {p} : proc'[q] = proc[q]
  BY <1>1, <1>2
<1> DEFINE g == Now
           pr == proc'
<1>4. Held(g, pr)
  <2>1. \A q \in Process : Shape(pr[q]) /\ Fresh(g, pr[q]) /\ Idles(pr[q])
    BY <1>3 DEF TransactionInv, Inv, Held
  <2>2. \A q, r \in Process : q # r => Apart(pr[q], pr[r])
    BY <1>3 DEF TransactionInv, Inv, Held
  <2> QED
    BY <1>3, <2>1, <2>2 DEF Held
<1>5. \A q \in Process : UploadTaken(g, pr[q]) /\ OpenInv(g, pr[q])
  BY <1>3 DEF TransactionInv, Inv
<1>6. \A q, r \in Process : q # r => Rivals(g, pr[q], pr[r])
  BY <1>3, RivalsTurn DEF TransactionInv, Inv
<1>7. g.clock \in Nat /\ Committed(g)
  BY DEF TransactionInv, Inv
<1>8. Inv(g, pr)
  BY <1>4, <1>5, <1>6, <1>7 DEF Inv
<1> HIDE DEF g, pr
<1>9. Now' = g /\ proc' = pr
  BY <1>1 DEF g, pr
<1> QED
  BY <1>8, <1>9 DEF TransactionInv, Inv

LEMMA StepKeeps ==
  ASSUME TransactionInv, NEW p \in Process, NEW t, Step(p, t),
         Shape(t), Fresh(Now, t), Idles(t), UploadTaken(Now, t), OpenInv(Now, t),
         \A q \in Process \ {p} : /\ Apart(t, proc[q]) /\ Apart(proc[q], t)
                                  /\ Rivals(Now, t, proc[q])
  PROVE  TransactionInv'
<1>1. Now' = Now /\ proc' = [proc EXCEPT ![p] = t]
  BY NowKept DEF Step
<1> QED
  BY <1>1, TurnKeeps

(* What an invariant says of a process does not depend on whom it waits for. *)
Like(s, t) == /\ t.pc = s.pc /\ t.job = s.job /\ t.reg = s.reg /\ t.writes = s.writes
              /\ t.snap = s.snap /\ t.shared = s.shared

LEMMA LikeParts ==
  ASSUME NEW s, NEW t, Like(s, t)
  PROVE  /\ Ours(t) = Ours(s) /\ UploadRow(t) = UploadRow(s) /\ NewRow(t) = NewRow(s)
         /\ Target(t) = Target(s) /\ OrphanRow(t) = OrphanRow(s)
         /\ Pair(t) = Pair(s) /\ Spared(t) = Spared(s) /\ Pending(t) = Pending(s)
BY DEF Like, Ours, UploadRow, NewRow, Target, OrphanRow, Pair, Spared, Pending

LEMMA LikeWrites ==
  ASSUME NEW g, NEW s, NEW t, Like(s, t)
  PROVE  /\ Entitled(g, s) => Entitled(g, t)
         /\ Entitled(g, t) => Entitled(g, s)
         /\ Would(g, t) = Would(g, s)
         /\ \A r : Puts(t, r) <=> Puts(s, r)
         /\ \A r : Adds(g, t, r) <=> Adds(g, s, r)
         /\ \A l : Admissible(g, t, l) <=> Admissible(g, s, l)
BY LikeParts DEF Like, Entitled, Would, Puts, Adds, Admissible

LEMMA LikePlan ==
  ASSUME NEW g, NEW s, NEW t, Like(s, t), PlanInv(g, s)
  PROVE  PlanInv(g, t)
<1> USE LikeParts, LikeWrites DEF Like
<1>1. KindsOK(t) /\ FirstOK(t)
  BY DEF PlanInv, KindsOK, FirstOK
<1>2. SnapOK(g, t)
  <2>1. \A v : Sight(g, s, v) => Sight(g, t, v)
    BY DEF Sight
  <2> QED
    BY <2>1 DEF PlanInv, SnapOK
<1>3. TargetOK(g, t)
  BY DEF PlanInv, TargetOK
<1>4. AcquireOK(g, t)
  BY DEF PlanInv, AcquireOK
<1>5. FenceOK(g, t)
  BY DEF PlanInv, FenceOK
<1>6. RequestOK(g, t)
  BY DEF PlanInv, RequestOK
<1>7. ClaimOK(g, t)
  BY DEF PlanInv, ClaimOK
<1>8. UploadsOK(g, t)
  BY DEF PlanInv, UploadsOK
<1>9. CompleteOK(g, t)
  BY DEF PlanInv, CompleteOK
<1> QED
  BY <1>1, <1>2, <1>3, <1>4, <1>5, <1>6, <1>7, <1>8, <1>9 DEF PlanInv

\* A process that differs only in whom it waits for.
LEMMA LikeKeeps ==
  ASSUME NEW g, NEW s, NEW t, Like(s, t)
  PROVE  /\ Fresh(g, s) => Fresh(g, t)
         /\ Idles(s) => Idles(t)
         /\ UploadTaken(g, s) => UploadTaken(g, t)
         /\ OpenInv(g, s) => OpenInv(g, t)
<1>1. /\ Fresh(g, s) => Fresh(g, t)
      /\ Idles(s) => Idles(t)
  BY DEF Like, Fresh, Idles
<1>2. UploadTaken(g, s) => UploadTaken(g, t)
  BY LikeParts DEF Like, UploadTaken
<1>5. WritesInv(g, s) => WritesInv(g, t)
  <2> USE LikeParts, LikeWrites DEF Like
  <2>1. RowsOK(g, s) => RowsOK(g, t)
    BY DEF RowsOK
  <2>2. EntriesOK(g, s) => EntriesOK(g, t)
    BY DEF EntriesOK
  <2>3. InsertsOK(g, s) => InsertsOK(g, t)
    BY DEF InsertsOK
  <2>4. DropsOK(g, s) => DropsOK(g, t)
    BY DEF DropsOK
  <2>5. TimesOK(g, s) => TimesOK(g, t)
    BY DEF TimesOK
  <2> QED
    BY <2>1, <2>2, <2>3, <2>4, <2>5 DEF WritesInv
<1>6. WouldInv(g, s) => WouldInv(g, t)
  BY LikeParts, LikeWrites DEF WouldInv
<1>7. OpenInv(g, s) => OpenInv(g, t)
  BY <1>5, <1>6, LikePlan, LikeParts, LikeWrites DEF OpenInv, Open
<1> QED
  BY <1>1, <1>2, <1>7

LEMMA LikeOthers ==
  ASSUME NEW g, NEW s, NEW t, NEW q, Like(s, t), Apart(s, q), Apart(q, s), Rivals(g, s, q)
  PROVE  Apart(t, q) /\ Apart(q, t) /\ Rivals(g, t, q)
<1>1. Apart(t, q) /\ Apart(q, t)
  BY DEF Like, Apart
<1>2. Rivals(g, t, q)
  BY LikeParts, LikeWrites DEF Like, Rivals, Open
<1> QED
  BY <1>1, <1>2

-----------------------------------------------------------------------------
(* A statement that need not wait goes on with its state.                    *)

After(t, state, pc) ==
  /\ DOMAIN t = DOMAIN Idle /\ t.pc = pc /\ t.job = state.job
  /\ t.writes = state.writes /\ t.snap = state.snap /\ t.shared = state.shared

LEMMA IdleFields == DOMAIN Idle = {"pc", "job", "reg", "writes", "snap", "shared", "waits"}
BY DEF Idle

LEMMA ProcessFacts ==
  ASSUME TransactionInv, NEW p \in Process
  PROVE  /\ DOMAIN proc[p] = DOMAIN Idle /\ DOMAIN proc[p].writes \subseteq Rows
         /\ Shape(proc[p]) /\ Fresh(Now, proc[p]) /\ Idles(proc[p])
         /\ UploadTaken(Now, proc[p]) /\ OpenInv(Now, proc[p])
         /\ \A q \in Process \ {p} : /\ Apart(proc[p], proc[q]) /\ Apart(proc[q], proc[p])
                                     /\ Rivals(Now, proc[p], proc[q])
         /\ Committed(Now) /\ clock \in Nat
BY StateFields DEF TransactionInv, Inv, Held, Shape

\* A statement that has to wait changes nothing.
LEMMA WaitsKeep ==
  ASSUME TransactionInv, NEW p \in Process, NEW w, Step(p, [proc[p] EXCEPT !.waits = w])
  PROVE  TransactionInv'
<1> DEFINE s == proc[p]
           t == [s EXCEPT !.waits = w]
<1>1. DOMAIN s = DOMAIN Idle
  BY ProcessFacts
<1>2. Like(s, t) /\ DOMAIN t = DOMAIN Idle
  BY <1>1, IdleFields DEF Like
<1>3. t.writes = s.writes
  BY <1>2 DEF Like
<1>4. Step(p, t)
  OBVIOUS
<1> HIDE DEF t
<1>5. Shape(t)
  BY <1>2, <1>3, ProcessFacts DEF Shape
<1>6. Fresh(Now, t) /\ Idles(t) /\ UploadTaken(Now, t) /\ OpenInv(Now, t)
  BY <1>2, LikeKeeps, ProcessFacts
<1>7. \A q \in Process \ {p} : /\ Apart(t, proc[q]) /\ Apart(proc[q], t)
                               /\ Rivals(Now, t, proc[q])
  <2> SUFFICES ASSUME NEW q \in Process \ {p}
               PROVE  /\ Apart(t, proc[q]) /\ Apart(proc[q], t)
                      /\ Rivals(Now, t, proc[q])
    OBVIOUS
  <2>1. Apart(s, proc[q]) /\ Apart(proc[q], s) /\ Rivals(Now, s, proc[q])
    BY ProcessFacts
  <2> QED
    BY <1>2, <2>1, LikeOthers
<1> QED
  BY <1>4, <1>5, <1>6, <1>7, StepKeeps

LEMMA GoesFacts ==
  ASSUME TransactionInv, NEW p \in Process, NEW did, NEW s, DOMAIN s = DOMAIN Idle, Goes(p, did, s)
  PROVE  \/ TransactionInv'
         \/ /\ did.waits = {}
            /\ \E t : Step(p, t) /\ After(t, s, s.pc) /\ t.reg = s.reg
<1>1. CASE did.waits = {}
  <2> DEFINE t == [s EXCEPT !.waits = {}]
  <2>1. Step(p, t)
    BY <1>1 DEF Goes
  <2>2. After(t, s, s.pc) /\ t.reg = s.reg
    BY IdleFields DEF After
  <2> QED
    BY <1>1, <2>1, <2>2
<1>2. CASE did.waits # {}
  BY <1>2, WaitsKeep DEF Goes
<1> QED
  BY <1>1, <1>2

LEMMA DoesFacts ==
  ASSUME TransactionInv, NEW p \in Process, NEW did, NEW pc, DOMAIN did.state = DOMAIN Idle,
         Does(p, did, pc)
  PROVE  \/ TransactionInv'
         \/ /\ did.waits = {}
            /\ \E t : Step(p, t) /\ After(t, did.state, pc) /\ t.reg = did.state.reg
<1> DEFINE s == Goto(did.state, pc)
<1>1. /\ DOMAIN s = DOMAIN Idle /\ s.pc = pc /\ s.reg = did.state.reg /\ s.job = did.state.job
      /\ s.writes = did.state.writes /\ s.snap = did.state.snap /\ s.shared = did.state.shared
  BY IdleFields DEF Goto
<1>2. Goes(p, did, s)
  BY DEF Does
<1> HIDE DEF s
<1>3. ASSUME NEW t, After(t, s, s.pc), t.reg = s.reg
      PROVE  After(t, did.state, pc) /\ t.reg = did.state.reg
  BY <1>1, <1>3 DEF After
<1> QED
  BY <1>1, <1>2, <1>3, GoesFacts

\* A statement that read, and keeps what it read.
LEMMA KeepsFacts ==
  ASSUME TransactionInv, NEW p \in Process, NEW did, NEW pc, NEW reg,
         DOMAIN did.state = DOMAIN Idle, Keeps(p, did, pc, reg)
  PROVE  \/ TransactionInv'
         \/ /\ did.waits = {}
            /\ \E t : /\ Step(p, t) /\ After(t, did.state, pc)
                      /\ Grown(t.reg, reg, did.state.reg)
<1> DEFINE u == Goto(did.state, pc)
           s == Keep(u, reg)
<1>1. /\ DOMAIN u = DOMAIN Idle /\ u.pc = pc /\ u.reg = did.state.reg /\ u.job = did.state.job
      /\ u.writes = did.state.writes /\ u.snap = did.state.snap /\ u.shared = did.state.shared
  BY IdleFields DEF Goto
<1>2. Goes(p, did, s)
  BY DEF Keeps
<1> HIDE DEF u
<1>3. /\ DOMAIN s = DOMAIN Idle /\ s.pc = u.pc /\ s.reg = reg ++ u.reg /\ s.job = u.job
      /\ s.writes = u.writes /\ s.snap = u.snap /\ s.shared = u.shared
  BY <1>1, IdleFields DEF Keep
<1> HIDE DEF s
<1>4. ASSUME NEW t, After(t, s, s.pc), t.reg = s.reg
      PROVE  After(t, did.state, pc) /\ Grown(t.reg, reg, did.state.reg)
  <2>1. After(t, did.state, pc)
    BY <1>1, <1>3, <1>4 DEF After
  <2>2. Grown(t.reg, reg, did.state.reg)
    BY <1>1, <1>3, <1>4, GrownFacts
  <2> QED
    BY <2>1, <2>2
<1> QED
  BY <1>2, <1>3, <1>4, GoesFacts

-----------------------------------------------------------------------------
(* A step whose writes are all of rows that it sees.                         *)

Alone(p, rows) == \A q \in Process \ {p} : DOMAIN proc[q].writes \cap rows = {}

LEMMA WriteStep ==
  ASSUME TransactionInv, NEW p \in Process, NEW s, s = proc[p], NEW t, NEW N, Step(p, t),
         DOMAIN t = DOMAIN Idle, t.job = s.job, t.shared = s.shared, t.pc # "idle", Ours(s),
         Grown(t.writes, N, s.writes), DOMAIN N \subseteq Rows,
         \A r \in DOMAIN N : Would(Now, s)[r] # Absent,
         \A r \in DOMAIN N : N[r] # Absent /\ r \in RowsOf("upload") =>
           KeyOf(N[r]) = KeyOf(Would(Now, s)[r]),
         \A r \in DOMAIN N : N[r] # Absent => "id" \in DOMAIN N[r],
         Alone(p, DOMAIN N),
         \A q \in Process \ {p} : \A r \in proc[q].shared \cap DOMAIN N : N[r] # Absent,
         UploadTaken(Now, t), OpenInv(Now, t)
  PROVE  TransactionInv'
<1> DEFINE g == Now
           S == Would(g, s)
           v == s.writes
           w == t.writes
<1>1. /\ Grown(w, N, v) /\ Grown(S, v, g.db)
      /\ Shape(s) /\ Fresh(g, s) /\ UploadTaken(g, t) /\ OpenInv(g, t)
      /\ \A q \in Process \ {p} : /\ Apart(s, proc[q]) /\ Apart(proc[q], s)
                                  /\ Rivals(g, s, proc[q])
  BY WouldGrown, ProcessFacts
<1>2. /\ \A r \in DOMAIN N : S[r] # Absent
      /\ \A r \in DOMAIN N : N[r] # Absent /\ r \in RowsOf("upload") => KeyOf(N[r]) = KeyOf(S[r])
  OBVIOUS
<1> HIDE DEF S, v, w, g
<1>3. v = s.writes /\ w = t.writes
  BY DEF v, w
<1>3a. DOMAIN w = DOMAIN N \cup DOMAIN v
  BY <1>1 DEF Grown
<1>4. Shape(t)
  <2>1. DOMAIN w \subseteq Rows
    BY <1>1, <1>3, <1>3a DEF Shape
  <2>2. ASSUME NEW r \in DOMAIN w, w[r] # Absent
        PROVE  "id" \in DOMAIN w[r]
    <3>1. CASE r \in DOMAIN N
      BY <1>1, <2>2, <3>1 DEF Grown
    <3>2. CASE r \notin DOMAIN N
      <4>1. r \in DOMAIN v /\ w[r] = v[r]
        BY <1>1, <1>3a, <3>2 DEF Grown
      <4> QED
        BY <1>1, <1>3, <2>2, <4>1 DEF Shape
    <3> QED
      BY <3>1, <3>2
  <2> QED
    BY <1>3, <2>1, <2>2 DEF Shape
<1>5. DOMAIN g.db = Rows
  BY ProcessFacts, CommittedFacts DEF g
<1>6. ASSUME NEW r \in DOMAIN w, g.db[r] = Absent, w[r] # Absent
      PROVE  r \in DOMAIN v /\ v[r] # Absent /\ (r \in DOMAIN N \/ w[r] = v[r])
             /\ (r \in DOMAIN N => S[r] = v[r])
  <2>1. CASE r \in DOMAIN N
    <3>1. S[r] # Absent /\ r \in DOMAIN g.db
      BY <1>2, <1>5, <2>1
    <3>2. r \in DOMAIN v /\ S[r] = v[r]
      BY <1>1, <1>6, <3>1 DEF Grown
    <3> QED
      BY <2>1, <3>1, <3>2
  <2>2. CASE r \notin DOMAIN N
    <3>1. r \in DOMAIN v /\ w[r] = v[r]
      BY <1>1, <1>3a, <2>2 DEF Grown
    <3> QED
      BY <1>6, <2>2, <3>1
  <2> QED
    BY <2>1, <2>2
<1>7. Fresh(g, t)
  <2>1. s.pc # "rollback"
    BY DEF Ours
  <2> QED
    BY <1>1, <1>3, <1>6, <2>1 DEF Fresh
<1>8. Idles(t)
  BY DEF Idles
<1>9. \A q \in Process \ {p} : Apart(t, proc[q]) /\ Apart(proc[q], t)
  <2> SUFFICES ASSUME NEW q \in Process \ {p}
               PROVE  Apart(t, proc[q]) /\ Apart(proc[q], t)
    OBVIOUS
  <2>1. DOMAIN N \cap DOMAIN proc[q].writes = {}
    BY DEF Alone
  <2>2. DOMAIN w \cap DOMAIN proc[q].writes = {}
    BY <1>1, <1>3, <1>3a, <2>1 DEF Apart
  <2>3. \A r \in t.shared \cap DOMAIN proc[q].writes : proc[q].writes[r] # Absent
    BY <1>1 DEF Apart
  <2>4. ASSUME NEW r \in proc[q].shared \cap DOMAIN w
        PROVE  w[r] # Absent
    <3>1. CASE r \in DOMAIN N
      BY <1>1, <3>1 DEF Grown
    <3>2. CASE r \notin DOMAIN N
      <4>1. r \in DOMAIN v /\ w[r] = v[r]
        BY <1>1, <1>3a, <3>2 DEF Grown
      <4> QED
        BY <1>1, <1>3, <4>1 DEF Apart
    <3> QED
      BY <3>1, <3>2
  <2> QED
    BY <1>3, <2>2, <2>3, <2>4 DEF Apart
<1>10. \A q \in Process \ {p} : Rivals(g, t, proc[q])
  <2> SUFFICES ASSUME NEW q \in Process \ {p}, Open(g, t), Open(g, proc[q]),
                      NEW x \in RowsOf("upload"), NEW y \in RowsOf("upload"),
                      Adds(g, t, x), Adds(g, proc[q], y)
               PROVE  KeyOf(w[x]) # KeyOf(proc[q].writes[y])
    BY <1>3 DEF Rivals
  <2>1. x \in DOMAIN w /\ g.db[x] = Absent /\ w[x] # Absent
    BY <1>3 DEF Adds, Puts
  <2>2. Adds(g, s, x)
    BY <1>3, <1>6, <2>1 DEF Adds, Puts
  <2>3. KeyOf(w[x]) = KeyOf(v[x])
    <3>1. CASE x \in DOMAIN N
      <4>1. w[x] = N[x] /\ S[x] = v[x]
        BY <1>1, <1>6, <2>1, <3>1 DEF Grown
      <4> QED
        BY <1>2, <2>1, <3>1, <4>1
    <3>2. CASE x \notin DOMAIN N
      BY <1>6, <2>1, <3>2
    <3> QED
      BY <3>1, <3>2
  <2>4. Open(g, s)
    <3>1. Entitled(g, s)
      BY DEF Open, Entitled, UploadRow
    <3> QED
      BY <3>1 DEF Open
  <2>5. KeyOf(v[x]) # KeyOf(proc[q].writes[y])
    BY <1>1, <1>3, <2>2, <2>4 DEF Rivals
  <2> QED
    BY <2>3, <2>5
<1> QED
  BY <1>1, <1>4, <1>7, <1>8, <1>9, <1>10, StepKeeps DEF g

-----------------------------------------------------------------------------
(* The statements.                                                           *)

(* The state that a statement leaves: the process has written new, and reads on. *)
Wrote(did, s, N) ==
  /\ DOMAIN did.state = DOMAIN Idle /\ did.state.pc = s.pc /\ did.state.job = s.job
  /\ did.state.reg = s.reg /\ did.state.snap = s.snap /\ did.state.shared = s.shared
  /\ Grown(did.state.writes, N, s.writes)

\* What the transaction would leave is what its statements write to.
LEMMA CurrentWould ==
  ASSUME NEW p \in Process
  PROVE  Current(p) = Would(Now, proc[p])
BY StateFields DEF Current, Would

LEMMA WouldRows ==
  ASSUME TransactionInv, NEW p \in Process, NEW r \in Rows, Would(Now, proc[p])[r] # Absent
  PROVE  "id" \in DOMAIN Would(Now, proc[p])[r]
<1> DEFINE s == proc[p]
           S == Would(Now, s)
           d == Now.db
<1>1. Grown(S, s.writes, d)
  BY WouldGrown
<1>2. Shape(s) /\ Typed(d)
  BY ProcessFacts, CommittedFacts
<1>3. S[r] # Absent
  OBVIOUS
<1> SUFFICES "id" \in DOMAIN S[r]
  OBVIOUS
<1> HIDE DEF s, S, d
<1>4. CASE r \in DOMAIN s.writes
  BY <1>1, <1>2, <1>3, <1>4 DEF Grown, Shape
<1>5. CASE r \notin DOMAIN s.writes
  <2>1. S[r] = d[r]
    BY <1>1, <1>2, <1>5 DEF Grown, Typed
  <2>2. RowOK(r, S[r])
    BY <1>2, <1>3, <2>1 DEF Typed
  <2>3. r[1] \in {"entry", "location", "lease", "deletion", "upload"}
    BY RowFacts
  <2> QED
    BY <2>2, <2>3 DEF RowOK, EntryOK, LocationOK, LeaseOK, DeletionOK, UploadOK,
                      NewEntry, NewLocation, NewLease, NewDeletion, NewUpload
<1> QED
  BY <1>4, <1>5

LEMMA ChangedThere ==
  ASSUME NEW row, NEW changes, "id" \in DOMAIN row
  PROVE  Changed(row, changes) # Absent /\ "id" \in DOMAIN Changed(row, changes)
BY DEF Changed, Absent

\* What Written does to the state.
LEMMA WrittenFacts ==
  ASSUME TransactionInv, NEW p \in Process, NEW N, NEW did, did.state = Written(p, N)
  PROVE  Wrote(did, proc[p], N)
<1> DEFINE s == proc[p]
           w == did.state.writes
           t == did.state
<1>1. DOMAIN s = DOMAIN Idle
  BY ProcessFacts
<1>2. t = [s EXCEPT !.writes = N ++ @]
  BY DEF Written
<1> HIDE DEF s, t
<1>3. /\ DOMAIN t = DOMAIN Idle /\ t.pc = s.pc /\ t.job = s.job /\ t.reg = s.reg
      /\ t.snap = s.snap /\ t.shared = s.shared /\ t.writes = N ++ s.writes
  BY <1>1, <1>2, IdleFields
<1>4. Grown(t.writes, N, s.writes)
  BY <1>3, GrownFacts
<1> QED
  BY <1>3, <1>4 DEF Wrote, s, t

\* What Read does to the state.
LEMMA ReadFacts ==
  ASSUME TransactionInv, NEW p \in Process, NEW x, NEW did, did = Read(p, x)
  PROVE  /\ did.result = x /\ did.waits = {}
         /\ DOMAIN did.state = DOMAIN Idle /\ did.state.pc = proc[p].pc
         /\ did.state.job = proc[p].job /\ did.state.reg = proc[p].reg
         /\ did.state.writes = proc[p].writes /\ did.state.shared = proc[p].shared
         /\ did.state.snap = (IF engine = "mysql" THEN Snapshot(p) ELSE proc[p].snap)
<1> DEFINE s == proc[p]
           v == Snapshot(p)
           t == did.state
<1>1. DOMAIN s = DOMAIN Idle
  BY ProcessFacts
<1>2. t = (IF engine = "mysql" THEN [s EXCEPT !.snap = v] ELSE s)
  BY DEF Read, Looked
<1>3. did.result = x /\ did.waits = {}
  BY DEF Read
<1> HIDE DEF s, v, t
<1>4. /\ DOMAIN t = DOMAIN Idle /\ t.pc = s.pc /\ t.job = s.job /\ t.reg = s.reg
      /\ t.writes = s.writes /\ t.shared = s.shared
      /\ t.snap = (IF engine = "mysql" THEN v ELSE s.snap)
  BY <1>1, <1>2, IdleFields
<1> QED
  BY <1>3, <1>4 DEF s, v, t

LEMMA UpdatingFacts ==
  ASSUME NEW p \in Process, NEW rows, Updating(p, rows) = {}
  PROVE  Alone(p, rows)
BY DEF Updating, Writers, Others, Alone

LEMMA DeletingFacts ==
  ASSUME NEW p \in Process, NEW rows, Deleting(p, rows) = {}
  PROVE  Alone(p, rows) /\ \A q \in Process \ {p} : proc[q].shared \cap rows = {}
BY DEF Deleting, Writers, Sharers, Others, Alone

\* An update of each row that matches.
LEMMA UpdateEachFacts ==
  ASSUME TransactionInv, NEW p \in Process, NEW table \in Tables, NEW where, NEW changes,
         NEW did, did = UpdateEach(p, table, where, changes)
  PROVE  /\ did.result = Matching(Would(Now, proc[p]), table, where)
         /\ did.waits = {} => Alone(p, did.result)
         /\ \E N : /\ Wrote(did, proc[p], N) /\ DOMAIN N = did.result
                   /\ \A r \in DOMAIN N : /\ r \in RowsOf(table) /\ r \in Rows
                                          /\ Would(Now, proc[p])[r] # Absent
                                          /\ N[r] = Changed(Would(Now, proc[p])[r], changes[r])
                                          /\ N[r] # Absent /\ "id" \in DOMAIN N[r]
<1> DEFINE S == Current(p)
           rows == Matching(S, table, where)
           N == [r \in rows |-> Changed(S[r], changes[r])]
<1>1. did.result = rows /\ did.waits = Updating(p, rows) /\ did.state = Written(p, N)
  BY DEF UpdateEach
<1>2. S = Would(Now, proc[p])
  BY CurrentWould
<1>3. Wrote(did, proc[p], N)
  BY <1>1, WrittenFacts
<1>4. DOMAIN N = rows /\ \A r \in rows : N[r] = Changed(S[r], changes[r])
  OBVIOUS
<1>5. did.waits = {} => Alone(p, rows)
  BY <1>1, UpdatingFacts
<1> HIDE DEF S, rows, N
<1>6. ASSUME NEW r \in rows
      PROVE  r \in RowsOf(table) /\ r \in Rows /\ S[r] # Absent
  BY <1>6, MatchingFacts, RowFacts DEF rows
<1>7. ASSUME NEW r \in rows
      PROVE  N[r] # Absent /\ "id" \in DOMAIN N[r]
  <2>1. "id" \in DOMAIN S[r]
    BY <1>2, <1>6, <1>7, WouldRows
  <2> QED
    BY <1>4, <1>7, <2>1, ChangedThere
<1> QED
  BY <1>1, <1>2, <1>3, <1>4, <1>5, <1>6, <1>7 DEF rows

\* An update of all that match.
LEMMA UpdateFacts ==
  ASSUME TransactionInv, NEW p \in Process, NEW table \in Tables, NEW where, NEW changes,
         NEW did, did = Update(p, table, where, changes)
  PROVE  /\ did.result = Matching(Would(Now, proc[p]), table, where)
         /\ did.waits = {} => Alone(p, did.result)
         /\ \E N : /\ Wrote(did, proc[p], N) /\ DOMAIN N = did.result
                   /\ \A r \in DOMAIN N : /\ r \in RowsOf(table) /\ r \in Rows
                                          /\ Would(Now, proc[p])[r] # Absent
                                          /\ N[r] = Changed(Would(Now, proc[p])[r], changes)
                                          /\ N[r] # Absent /\ "id" \in DOMAIN N[r]
<1> DEFINE each == [r \in RowsOf(table) |-> changes]
           S == Would(Now, proc[p])
<1>1. did = UpdateEach(p, table, where, each)
  BY DEF Update
<1>2. \A r \in RowsOf(table) : each[r] = changes
  OBVIOUS
<1> HIDE DEF each, S
<1>3. /\ did.result = Matching(S, table, where)
      /\ did.waits = {} => Alone(p, did.result)
      /\ \E N : /\ Wrote(did, proc[p], N) /\ DOMAIN N = did.result
                /\ \A r \in DOMAIN N : /\ r \in RowsOf(table) /\ r \in Rows
                                       /\ S[r] # Absent /\ N[r] = Changed(S[r], each[r])
                                       /\ N[r] # Absent /\ "id" \in DOMAIN N[r]
  BY <1>1, UpdateEachFacts DEF S
<1>4. PICK N : /\ Wrote(did, proc[p], N) /\ DOMAIN N = did.result
               /\ \A r \in DOMAIN N : /\ r \in RowsOf(table) /\ r \in Rows
                                      /\ S[r] # Absent /\ N[r] = Changed(S[r], each[r])
                                      /\ N[r] # Absent /\ "id" \in DOMAIN N[r]
  BY <1>3
<1>5. \A r \in DOMAIN N : N[r] = Changed(S[r], changes)
  BY <1>2, <1>4
<1> QED
  BY <1>3, <1>4, <1>5 DEF S

ByID(id) == {Where("id", "EQ", id)}

\* An update of one row, which is read back.
LEMMA UpdateOneFacts ==
  ASSUME TransactionInv, NEW p \in Process, NEW table \in Tables, NEW id,
         NEW changes, NEW did, did = UpdateOne(p, table, id, changes)
  PROVE  /\ did.result <=> \/ Matching(Would(Now, proc[p]), table, ByID(id)) # {}
                          \/ Matching(View(p), table, ByID(id)) # {}
         /\ \E N : /\ Wrote(did, proc[p], N)
                   /\ DOMAIN N = Matching(Would(Now, proc[p]), table, ByID(id))
                   /\ did.waits = {} => Alone(p, DOMAIN N)
                   /\ \A r \in DOMAIN N : /\ r \in RowsOf(table) /\ r \in Rows
                                          /\ Would(Now, proc[p])[r] # Absent
                                          /\ N[r] = Changed(Would(Now, proc[p])[r], changes)
                                          /\ N[r] # Absent /\ "id" \in DOMAIN N[r]
<1> DEFINE old == Update(p, table, ByID(id), changes)
           seen == Matching(View(p), table, ByID(id))
<1>1. did = [old EXCEPT !.result = @ # {} \/ seen # {}]
  BY DEF UpdateOne, ByID
<1>2. DOMAIN old = {"state", "result", "waits"}
  BY DEF Update, UpdateEach
<1>3. old = Update(p, table, ByID(id), changes)
  OBVIOUS
<1> HIDE DEF old, seen
<1>4. did.result = (old.result # {} \/ seen # {}) /\ did.waits = old.waits /\ did.state = old.state
  BY <1>1, <1>2
<1>5. old.result = Matching(Would(Now, proc[p]), table, ByID(id))
  BY <1>3, UpdateFacts
<1>5a. old.waits = {} => Alone(p, old.result)
  BY <1>3, UpdateFacts
<1>6. PICK N : /\ Wrote(old, proc[p], N) /\ DOMAIN N = old.result
               /\ \A r \in DOMAIN N : /\ r \in RowsOf(table) /\ r \in Rows
                                      /\ Would(Now, proc[p])[r] # Absent
                                      /\ N[r] = Changed(Would(Now, proc[p])[r], changes)
                                      /\ N[r] # Absent /\ "id" \in DOMAIN N[r]
  BY <1>3, UpdateFacts
<1>7. Wrote(did, proc[p], N)
  BY <1>4, <1>6 DEF Wrote
<1>8. did.result <=> Matching(Would(Now, proc[p]), table, ByID(id)) # {} \/ seen # {}
  BY <1>4, <1>5
<1>9. did.waits = {} => Alone(p, DOMAIN N)
  BY <1>4, <1>5a, <1>6
<1> QED
  BY <1>5, <1>6, <1>7, <1>8, <1>9 DEF seen

(* What a delete removes.                                                    *)
Gone(store, table, where) ==
  Matching(store, table, where) \cup Cascade(store, Matching(store, table, where))

\* A delete, which fails where another row refers to one that it removes.
LEMMA DeleteFacts ==
  ASSUME TransactionInv, NEW p \in Process, NEW table \in Tables, NEW where,
         NEW did, did = Delete(p, table, where)
  PROVE  /\ did.result = (IF Restricted(Would(Now, proc[p]),
              Matching(Would(Now, proc[p]), table, where))
                          THEN {} ELSE Matching(Would(Now, proc[p]), table, where))
         /\ did.waits = {} => /\ Alone(p, Gone(Would(Now, proc[p]), table, where))
                              /\ \A q \in Process \ {p} :
                                   proc[q].shared \cap Gone(Would(Now, proc[p]), table, where) = {}
         /\ \E N : /\ Wrote(did, proc[p], N) /\ DOMAIN N = Gone(Would(Now, proc[p]), table, where)
                   /\ \A r \in DOMAIN N : N[r] = Absent
<1> DEFINE S == Current(p)
           rows == Matching(S, table, where)
           all == rows \cup Cascade(S, rows)
           N == [r \in all |-> Absent]
<1>1. S = Would(Now, proc[p])
  BY CurrentWould
<1>2. /\ did.result = (IF Restricted(S, rows) THEN {} ELSE rows)
      /\ did.waits = Deleting(p, all) /\ did.state = Written(p, N)
  BY DEF Delete
<1>3. Wrote(did, proc[p], N)
  BY <1>2, WrittenFacts
<1>4. DOMAIN N = all /\ \A r \in all : N[r] = Absent
  OBVIOUS
<1>5. all = Gone(S, table, where) /\ rows = Matching(S, table, where)
  BY DEF Gone
<1> HIDE DEF S, N, all, rows
<1>7. did.waits = {} => /\ Alone(p, all)
                        /\ \A q \in Process \ {p} : proc[q].shared \cap all = {}
  BY <1>2, DeletingFacts
<1> QED
  BY <1>1, <1>2, <1>3, <1>4, <1>5, <1>7

LEMMA GoneFacts ==
  ASSUME NEW store, NEW table \in Tables, NEW where
  PROVE  /\ \A r \in Matching(store, table, where) : r \in RowsOf(table)
         /\ \A r \in Gone(store, table, where) : r \in Rows /\ store[r] # Absent
         /\ \A r \in Gone(store, table, where) :
              \/ r \in Matching(store, table, where)
              \/ /\ r \in RowsOf("entry")
                 /\ \E x \in Matching(store, table, where) : x \in Parent(r, store[r])
<1> DEFINE rows == Matching(store, table, where)
<1>1. \A r \in rows : r \in RowsOf(table) /\ r \in Rows /\ store[r] # Absent
  BY MatchingFacts, RowFacts
<1> HIDE DEF rows
<1>2. \A r \in Cascade(store, rows) :
        /\ r \in RowsOf("entry") /\ r \in Rows /\ store[r] # Absent
        /\ \E x \in rows : x \in Parent(r, store[r])
  BY RowFacts DEF Cascade, Children
<1>3. \A r \in Gone(store, table, where) : r \in rows \/ r \in Cascade(store, rows)
  BY DEF Gone, rows
<1> QED
  BY <1>1, <1>2, <1>3 DEF rows

-----------------------------------------------------------------------------
(* What a transaction sees.                                                  *)

\* The committed tables are a sight of themselves,
LEMMA SightNow ==
  ASSUME NEW g, NEW s, Committed(g)
  PROVE  Sight(g, s, g.db)
<1> DEFINE d == g.db
<1>1. Typed(d) /\ Linked(d) /\ Known(d, g.issued)
  BY DEF Committed
<1>2. DOMAIN d = Rows /\ \A r \in Rows : d[r] # Absent => RowOK(r, d[r]) /\ r \in g.issued
  BY CommittedFacts
<1>3. \A r \in Rows : d[r] # Absent => Evolves(r, d[r], d[r])
  BY <1>2, EvolvesSelf
<1> QED
  BY <1>1, <1>2, <1>3 DEF Sight

\* and a sight remains one while the request stays on its location.
LEMMA SightOn ==
  ASSUME NEW g, NEW s, NEW t, NEW v, Sight(g, s, v), t.job = s.job,
         t.pc \in TargetPcs => s.pc \in TargetPcs /\ t.reg.location = s.reg.location
  PROVE  Sight(g, t, v)
<1>1. OrphanRow(t) = OrphanRow(s) /\
        (t.pc \in TargetPcs => s.pc \in TargetPcs /\ Target(t) = Target(s))
  BY DEF OrphanRow, Target
<1> QED
  BY <1>1 DEF Sight

LEMMA SnapKept ==
  ASSUME NEW g, NEW s, NEW t, SnapOK(g, s), t.job = s.job, t.snap = s.snap,
         t.pc \in TargetPcs => s.pc \in TargetPcs /\ t.reg.location = s.reg.location
  PROVE  SnapOK(g, t)
BY SightOn DEF SnapOK

LEMMA SnapRead ==
  ASSUME TransactionInv, NEW p \in Process, SnapOK(Now, proc[p]), NEW t, t.job = proc[p].job,
         t.snap = (IF engine = "mysql" THEN Snapshot(p) ELSE proc[p].snap),
         t.pc \in TargetPcs => proc[p].pc \in TargetPcs /\ t.reg.location = proc[p].reg.location
  PROVE  SnapOK(Now, t)
<1> DEFINE s == proc[p]
<1> SUFFICES ASSUME engine = "mysql", t.snap # Null
             PROVE  Sight(Now, t, t.snap)
  BY StateFields DEF SnapOK
<1>1. CASE s.snap # Null
  <2>1. t.snap = s.snap
    BY <1>1 DEF Snapshot
  <2>2. Sight(Now, s, s.snap)
    BY <1>1, StateFields DEF SnapOK
  <2> QED
    BY <2>1, <2>2, SightOn
<1>2. CASE s.snap = Null
  <2>1. t.snap = Now.db
    BY <1>2, StateFields DEF Snapshot
  <2> QED
    BY <2>1, ProcessFacts, SightNow
<1> QED
  BY <1>1, <1>2

LEMMA Seen ==
  ASSUME TransactionInv, NEW p \in Process, SnapOK(Now, proc[p])
  PROVE  /\ Sight(Now, proc[p], Snapshot(p))
         /\ Grown(View(p), proc[p].writes, Snapshot(p))
         /\ DOMAIN Snapshot(p) = Rows /\ DOMAIN View(p) = Rows
<1> DEFINE s == proc[p]
           v == Snapshot(p)
<1>1. Sight(Now, s, v)
  <2>1. CASE engine = "mysql" /\ s.snap # Null
    BY <2>1, StateFields DEF SnapOK, Snapshot
  <2>2. CASE ~(engine = "mysql" /\ s.snap # Null)
    <3>1. v = Now.db
      BY <2>2, StateFields DEF Snapshot
    <3> QED
      BY <3>1, ProcessFacts, SightNow
  <2> QED
    BY <2>1, <2>2
<1>2. Grown(View(p), s.writes, v)
  BY GrownFacts DEF View
<1>3. DOMAIN v = Rows
  BY <1>1 DEF Sight
<1>4. DOMAIN View(p) = Rows
  BY <1>2, <1>3, ProcessFacts DEF Grown
<1> QED
  BY <1>1, <1>2, <1>3, <1>4

\* A row that the transaction sees is its own, or was committed when it took its snapshot.
LEMMA SeenRow ==
  ASSUME TransactionInv, NEW p \in Process, SnapOK(Now, proc[p]), RowsOK(Now, proc[p]),
         NEW r \in Rows, View(p)[r] # Absent
  PROVE  /\ RowOK(r, View(p)[r])
         /\ \/ r \in issued /\ Snapshot(p)[r] # Absent /\ View(p)[r] = Snapshot(p)[r]
               /\ r \notin DOMAIN proc[p].writes
            \/ Puts(proc[p], r) /\ View(p)[r] = proc[p].writes[r]
<1> DEFINE s == proc[p]
           v == Snapshot(p)
           V == View(p)
<1>1. Sight(Now, s, v) /\ Grown(V, s.writes, v) /\ DOMAIN v = Rows
  BY Seen
<1>2. V[r] # Absent
  OBVIOUS
<1> SUFFICES /\ RowOK(r, V[r])
             /\ \/ r \in issued /\ v[r] # Absent /\ V[r] = v[r] /\ r \notin DOMAIN s.writes
                \/ Puts(s, r) /\ V[r] = s.writes[r]
  OBVIOUS
<1> HIDE DEF v, V
<1>3. CASE r \in DOMAIN s.writes
  <2>1. V[r] = s.writes[r]
    BY <1>1, <1>3 DEF Grown
  <2> QED
    BY <1>2, <1>3, <2>1 DEF RowsOK, Puts
<1>4. CASE r \notin DOMAIN s.writes
  <2>1. V[r] = v[r]
    BY <1>1, <1>4 DEF Grown
  <2> QED
    BY <1>1, <1>2, <1>4, <2>1, StateFields DEF Sight
<1> QED
  BY <1>3, <1>4

-----------------------------------------------------------------------------
(* Clauses.                                                                  *)

LEMMA Equal ==
  ASSUME NEW column, NEW value, value # Null, NEW row, row[column] = value
  PROVE  \E q \in Where(column, "EQ", value) : Holds(q, row)
<1>1. Holds(<<column, "EQ", value>>, row)
  BY WhereFacts
<1>2. <<column, "EQ", value>> \in Where(column, "EQ", value)
  BY DEF Where
<1> QED
  BY <1>1, <1>2

LEMMA Chosen ==
  ASSUME NEW store, NEW table, NEW where, NEW r \in Matching(store, table, where),
         NEW column, NEW op, NEW value, Where(column, op, value) \in where
  PROVE  Holds(<<column, op, value>>, store[r])
<1>1. \E q \in Where(column, op, value) : Holds(q, store[r])
  BY MatchingFacts
<1> QED
  BY <1>1, WhereFacts, ZenonT(60)

LEMMA ChosenEqual ==
  ASSUME NEW store, NEW table, NEW where, NEW r \in Matching(store, table, where),
         NEW column, NEW value, Where(column, "EQ", value) \in where
  PROVE  store[r][column] = value
<1> DEFINE row == store[r]
<1>1. Holds(<<column, "EQ", value>>, row)
  BY Chosen
<1> SUFFICES row[column] = value
  OBVIOUS
<1> HIDE DEF row
<1> QED
  BY <1>1, WhereFacts

LEMMA ChosenNil ==
  ASSUME NEW store, NEW table, NEW where, NEW r \in Matching(store, table, where),
         NEW column, NEW value, Where(column, "IsNil", value) \in where
  PROVE  store[r][column] = Null
<1> DEFINE row == store[r]
<1>1. Holds(<<column, "IsNil", value>>, row)
  BY Chosen
<1> SUFFICES row[column] = Null
  OBVIOUS
<1> HIDE DEF row
<1> QED
  BY <1>1, WhereFacts

LEMMA ChosenNotNil ==
  ASSUME NEW store, NEW table, NEW where, NEW r \in Matching(store, table, where),
         NEW column, NEW value, Where(column, "NotNil", value) \in where
  PROVE  store[r][column] # Null
<1> DEFINE row == store[r]
<1>1. Holds(<<column, "NotNil", value>>, row)
  BY Chosen
<1> SUFFICES row[column] # Null
  OBVIOUS
<1> HIDE DEF row
<1> QED
  BY <1>1, WhereFacts

LEMMA ChosenIn ==
  ASSUME NEW store, NEW table, NEW where, NEW r \in Matching(store, table, where),
         NEW column, NEW value, Where(column, "In", value) \in where
  PROVE  store[r][column] \in value
<1> DEFINE row == store[r]
<1>1. Holds(<<column, "In", value>>, row)
  BY Chosen
<1> SUFFICES row[column] \in value
  OBVIOUS
<1> HIDE DEF row
<1> QED
  BY <1>1, WhereFacts

LEMMA ChosenAfter ==
  ASSUME NEW store, NEW table, NEW where, NEW r \in Matching(store, table, where),
         NEW column, NEW value, Where(column, "GT", value) \in where
  PROVE  store[r][column] > value
<1> DEFINE row == store[r]
<1>1. Holds(<<column, "GT", value>>, row)
  BY Chosen
<1> SUFFICES row[column] > value
  OBVIOUS
<1> HIDE DEF row
<1> QED
  BY <1>1, WhereFacts

LEMMA ChosenBefore ==
  ASSUME NEW store, NEW table, NEW where, NEW r \in Matching(store, table, where),
         NEW column, NEW value, Where(column, "LTE", value) \in where
  PROVE  store[r][column] <= value
<1> DEFINE row == store[r]
<1>1. Holds(<<column, "LTE", value>>, row)
  BY Chosen
<1> SUFFICES row[column] <= value
  OBVIOUS
<1> HIDE DEF row
<1> QED
  BY <1>1, WhereFacts

LEMMA SelectedID ==
  ASSUME NEW store, NEW table \in Tables, NEW where, NEW id, Where("id", "EQ", id) \in where,
         NEW r \in Matching(store, table, where), RowOK(r, store[r])
  PROVE  r = <<table, id>>
<1>1. store[r]["id"] = id
  BY ChosenEqual
<1>2. store[r].id = r[2]
  BY DEF RowOK
<1>3. r = <<table, r[2]>>
  BY MatchingFacts, RowFacts
<1> QED
  BY <1>1, <1>2, <1>3

(* The row of a location by its id.                                          *)
LEMMA TheLocation ==
  ASSUME NEW store, \A r \in RowsOf("location") : store[r] # Absent => RowOK(r, store[r]),
         NEW l \in Location, NEW rows,
         rows = {store[r] : r \in Matching(store, "location", {LocationID("EQ", l)})}
  PROVE  /\ rows = {} <=> store[<<"location", l>>] = Absent
         /\ rows # {} => TheRow(rows) = store[<<"location", l>>]
<1> DEFINE x == <<"location", l>>
           where == {LocationID("EQ", l)}
<1>1. x \in RowsOf("location") /\ x[2] = l /\ l # Null /\ "location" \in Tables
  BY RowFacts, NullFacts
<1>2. Where("id", "EQ", l) \in where /\ \A clause \in where : clause = Where("id", "EQ", l)
  BY DEF LocationID
<1>3. ASSUME NEW r \in Matching(store, "location", where)
      PROVE  r = x /\ store[x] # Absent
  <2>1. r \in RowsOf("location") /\ store[r] # Absent
    BY MatchingFacts
  <2>2. r = x
    BY <1>1, <1>2, <2>1, SelectedID
  <2> QED
    BY <2>1, <2>2
<1>4. ASSUME store[x] # Absent
      PROVE  x \in Matching(store, "location", where)
  <2>1. store[x]["id"] = l
    BY <1>1, <1>4 DEF RowOK
  <2>2. \E q \in Where("id", "EQ", l) : Holds(q, store[x])
    BY <1>1, <2>1, Equal
  <2>3. \A clause \in where : \E q \in clause : Holds(q, store[x])
    BY <1>2, <2>2
  <2> QED
    BY <1>1, <1>4, <2>3, MatchingFacts
<1> HIDE DEF x, where
<1>5. rows = {store[r] : r \in Matching(store, "location", where)}
  BY DEF where
<1>6. rows = {} <=> store[x] = Absent
  BY <1>3, <1>4, <1>5
<1>7. rows # {} => rows = {store[x]}
  BY <1>3, <1>5
<1> QED
  BY <1>6, <1>7 DEF TheRow, x

-----------------------------------------------------------------------------
(* Statements that insert nothing, and what remains to be shown of each.     *)

LEMMA OpenBack ==
  ASSUME NEW g, NEW s, NEW t, t.job = s.job, Ours(s), Open(g, t)
  PROVE  Open(g, s)
BY DEF Open, Entitled, UploadRow

LEMMA OpenParts ==
  ASSUME TransactionInv, NEW p \in Process, Open(Now, proc[p])
  PROVE  /\ WritesInv(Now, proc[p]) /\ WouldInv(Now, proc[p]) /\ PlanInv(Now, proc[p])
         /\ RowsOK(Now, proc[p]) /\ SnapOK(Now, proc[p]) /\ DropsOK(Now, proc[p])
BY ProcessFacts DEF OpenInv, WritesInv, PlanInv

CompleteStays == CompletePcs \cup FencePcs \cup {"fence.lock", "rollback"}
LEMMA StaysFacts == "commit" \notin CompleteStays /\ "idle" \notin CompleteStays
BY DEF CompleteStays, CompletePcs, FencePcs

LEMMA TakenOn ==
  ASSUME NEW g, NEW s, NEW t, UploadTaken(g, s), t.job = s.job, Ours(s), s.pc # "commit",
         s.job.kind = "complete" => t.pc \in CompleteStays,
         s.job.kind = "complete" => DOMAIN t.writes \cap RowsOf("upload") = {}
  PROVE  UploadTaken(g, t)
<1> SUFFICES ASSUME Ours(t), t.job.kind = "complete"
             PROVE  /\ t.job.upload \in Upload /\ UploadRow(t) \in g.issued
                    /\ t.pc \in CompletePcs \cup FencePcs \cup {"fence.lock", "commit"}
                    /\ t.pc # "commit" /\ DOMAIN t.writes \cap RowsOf("upload") = {}
  BY DEF UploadTaken
<1>1. s.job.upload \in Upload /\ UploadRow(s) \in g.issued
  BY DEF UploadTaken
<1>2. t.job.upload \in Upload /\ UploadRow(t) \in g.issued
  BY <1>1 DEF UploadRow
<1>3. t.pc \in CompleteStays /\ t.pc # "rollback" /\ t.pc # "commit"
  BY StaysFacts DEF Ours
<1> QED
  BY <1>2, <1>3 DEF CompleteStays

WritePlan(s, t, N) ==
  (/\ Open(Now, s) /\ t.pc # "rollback" /\ t.job = s.job
   /\ t.snap = s.snap /\ t.shared = s.shared /\ Grown(t.writes, N, s.writes)
   /\ Grown(Would(Now, t), N, Would(Now, s)))
    => WritesInv(Now, t) /\ WouldInv(Now, t) /\ PlanInv(Now, t)

LEMMA WritesTo ==
  ASSUME TransactionInv, NEW p \in Process, NEW s, s = proc[p], NEW did, NEW N, NEW pc,
         NEW t, Step(p, t), Wrote(did, s, N), After(t, did.state, pc), Ours(s),
         s.pc \notin {"complete", "commit"}, pc \notin {"idle", "complete"},
         s.job.kind = "complete" => pc \in CompleteStays /\ DOMAIN N \cap RowsOf("upload") = {},
         \A r \in DOMAIN N : r \in Rows /\ Would(Now, s)[r] # Absent,
         \A r \in DOMAIN N : N[r] # Absent => "id" \in DOMAIN N[r],
         \A r \in DOMAIN N : N[r] # Absent /\ r \in RowsOf("upload") =>
           KeyOf(N[r]) = KeyOf(Would(Now, s)[r]),
         Alone(p, DOMAIN N),
         \A q \in Process \ {p} : \A r \in proc[q].shared \cap DOMAIN N : N[r] # Absent,
         WritePlan(s, t, N)
  PROVE  TransactionInv'
<1>1. /\ DOMAIN t = DOMAIN Idle /\ t.pc = pc /\ t.job = s.job
      /\ t.snap = s.snap /\ t.shared = s.shared /\ Grown(t.writes, N, s.writes)
  BY DEF Wrote, After
<1>2. Grown(Would(Now, t), N, Would(Now, s))
  BY <1>1, WouldMore
<1>3. UploadTaken(Now, s) /\ Shape(s)
  BY ProcessFacts
<1>4. s.job.kind = "complete" => DOMAIN t.writes \cap RowsOf("upload") = {}
  <2> SUFFICES ASSUME s.job.kind = "complete"
               PROVE  DOMAIN t.writes \cap RowsOf("upload") = {}
    OBVIOUS
  <2>1. DOMAIN s.writes \cap RowsOf("upload") = {}
    BY <1>3 DEF UploadTaken
  <2> QED
    BY <1>1, <2>1 DEF Grown
<1>5. UploadTaken(Now, t)
  BY <1>1, <1>3, <1>4, TakenOn
<1>6. OpenInv(Now, t)
  <2> SUFFICES ASSUME Open(Now, t)
               PROVE  WritesInv(Now, t) /\ WouldInv(Now, t) /\ PlanInv(Now, t)
    BY DEF OpenInv
  <2>1. Open(Now, s)
    BY <1>1, OpenBack
  <2>2. pc # "rollback"
    BY <1>1 DEF Open, Ours
  <2> QED
    BY <1>1, <1>2, <2>1, <2>2 DEF WritePlan
<1>7. DOMAIN N \subseteq Rows /\ \A r \in DOMAIN N : Would(Now, s)[r] # Absent
  OBVIOUS
<1> QED
  BY <1>1, <1>5, <1>6, <1>7, WriteStep

-----------------------------------------------------------------------------
(* Reads.                                                                    *)

\* A step that writes nothing keeps the writes and what they would leave.
LEMMA ReadKeeps ==
  ASSUME TransactionInv, NEW p \in Process, NEW s, s = proc[p], Open(Now, s), NEW t, Steady(s, t),
         t.writes = s.writes, t.shared = s.shared,
         s.pc \notin {"complete", "fence.delete", "abandon.enqueue"}, t.pc # "complete"
  PROVE  WritesInv(Now, t) /\ WouldInv(Now, t) /\ Would(Now, t) = Would(Now, s)
<1> DEFINE g == Now
           N == <<>>
           S == Would(g, s)
           T == Would(g, t)
<1>1. DOMAIN N = {}
  OBVIOUS
<1> HIDE DEF N
<1>2. Grown(t.writes, N, s.writes)
  BY <1>1 DEF Grown
<1>3. T = S
  BY DEF Would
<1>4. Mild(S, N, T)
  BY <1>1 DEF Mild
<1>5. WritesInv(g, s) /\ WouldInv(g, s) /\ RowsOK(g, s) /\ DropsOK(g, s)
  BY OpenParts
<1>6. Committed(g) /\ Shape(s)
  BY ProcessFacts
<1>7. Pending(s) = {}
  BY DEF Pending
<1>8. DropsOK(g, t)
  BY <1>1, <1>2, <1>4, <1>5, <1>6, <1>7, MildDrops
<1>9. s.pc # "complete" /\ s.pc # "fence.delete"
  OBVIOUS
<1>10. WritesInv(g, t) /\ WouldInv(g, t)
  BY <1>1, <1>2, <1>4, <1>5, <1>6, <1>8, <1>9, MildKeeps
<1> QED
  BY <1>3, <1>10

ReadPlan(p, s, t) ==
  (/\ Open(Now, s) /\ t.pc # "rollback" /\ t.job = s.job
   /\ t.writes = s.writes /\ t.shared = s.shared /\ SnapOK(Now, t)
   /\ Would(Now, t) = Would(Now, s)
   /\ t.snap = (IF engine = "mysql" THEN Snapshot(p) ELSE s.snap))
    => PlanInv(Now, t)

ReadRegs(s, t) ==
  Open(Now, s) /\ t.pc # "rollback" /\ t.job = s.job =>
    /\ s.job.kind = "complete" => t.reg.new = s.reg.new /\ t.reg.upload = s.reg.upload
    /\ t.pc \in TargetPcs => s.pc \in TargetPcs /\ t.reg.location = s.reg.location

\* A statement that reads and goes on to one whose plan is kept.
LEMMA ReadsTo ==
  ASSUME TransactionInv, NEW p \in Process, NEW s, s = proc[p], NEW x, NEW did, did = Read(p, x),
         NEW pc, NEW t, Step(p, t), After(t, did.state, pc), Ours(s),
         s.pc \notin {"complete", "fence.delete", "abandon.enqueue", "commit"},
         pc \notin {"idle", "complete"},
         s.job.kind = "complete" => pc \in CompleteStays,
         ReadRegs(s, t), ReadPlan(p, s, t)
  PROVE  TransactionInv'
<1>1. /\ did.result = x /\ did.waits = {}
      /\ DOMAIN did.state = DOMAIN Idle /\ did.state.job = s.job /\ did.state.reg = s.reg
      /\ did.state.writes = s.writes /\ did.state.shared = s.shared
      /\ did.state.snap = (IF engine = "mysql" THEN Snapshot(p) ELSE s.snap)
  BY ReadFacts
<1>2. /\ DOMAIN t = DOMAIN Idle /\ t.pc = pc /\ t.job = s.job
      /\ t.writes = s.writes /\ t.shared = s.shared
      /\ t.snap = (IF engine = "mysql" THEN Snapshot(p) ELSE s.snap)
  BY <1>1 DEF After
<1>3. UploadTaken(Now, t)
  <2>1. UploadTaken(Now, s)
    BY ProcessFacts
  <2>2. s.job.kind = "complete" => DOMAIN t.writes \cap RowsOf("upload") = {}
    BY <1>2, <2>1 DEF UploadTaken
  <2> QED
    BY <1>2, <2>1, <2>2, TakenOn
<1>4. OpenInv(Now, t)
  <2> SUFFICES ASSUME Open(Now, t)
               PROVE  WritesInv(Now, t) /\ WouldInv(Now, t) /\ PlanInv(Now, t)
    BY DEF OpenInv
  <2>1. Open(Now, s)
    BY <1>2, OpenBack
  <2>2. pc # "rollback"
    BY <1>2 DEF Open, Ours
  <2>3. /\ Steady(s, t)
        /\ t.pc \in TargetPcs => s.pc \in TargetPcs /\ t.reg.location = s.reg.location
    BY <1>2, <2>1, <2>2 DEF Steady, ReadRegs
  <2>4. WritesInv(Now, t) /\ WouldInv(Now, t) /\ Would(Now, t) = Would(Now, s)
    BY <1>2, <2>1, <2>3, ReadKeeps
  <2>5. SnapOK(Now, t)
    BY <1>2, <2>1, <2>3, OpenParts, SnapRead
  <2> QED
    BY <1>2, <2>1, <2>2, <2>4, <2>5 DEF ReadPlan
<1> DEFINE N == <<>>
<1>5. DOMAIN N = {}
  OBVIOUS
<1> HIDE DEF N
<1>6. Grown(t.writes, N, s.writes)
  BY <1>2, <1>5 DEF Grown
<1>7. /\ DOMAIN N \subseteq Rows /\ Alone(p, DOMAIN N)
      /\ \A r \in DOMAIN N : Would(Now, s)[r] # Absent
      /\ \A r \in DOMAIN N : N[r] # Absent => "id" \in DOMAIN N[r]
      /\ \A r \in DOMAIN N : N[r] # Absent /\ r \in RowsOf("upload") =>
           KeyOf(N[r]) = KeyOf(Would(Now, s)[r])
      /\ \A q \in Process \ {p} : \A r \in proc[q].shared \cap DOMAIN N : N[r] # Absent
  BY <1>5 DEF Alone
<1> QED
  BY <1>2, <1>3, <1>4, <1>6, <1>7, WriteStep

\* A statement that reads and rolls back.
LEMMA ReadRolls ==
  ASSUME TransactionInv, NEW p \in Process, NEW x, NEW did, did = Read(p, x),
         NEW t, Step(p, t), After(t, did.state, "rollback"), Ours(proc[p]),
         proc[p].pc \notin {"complete", "fence.delete", "abandon.enqueue", "commit"}
  PROVE  TransactionInv'
<1> DEFINE s == proc[p]
<1>1. /\ did.state.writes = s.writes /\ did.state.shared = s.shared /\ did.state.job = s.job
  BY ReadFacts
<1>2. /\ DOMAIN t = DOMAIN Idle /\ t.pc = "rollback" /\ t.job = s.job
      /\ t.writes = s.writes /\ t.shared = s.shared
  BY <1>1 DEF After
<1>3. UploadTaken(Now, t) /\ OpenInv(Now, t)
  BY <1>2 DEF UploadTaken, OpenInv, Open, Ours
<1> DEFINE N == <<>>
<1>5. DOMAIN N = {}
  OBVIOUS
<1> HIDE DEF N
<1>6. Grown(t.writes, N, s.writes)
  BY <1>2, <1>5 DEF Grown
<1>7. /\ DOMAIN N \subseteq Rows /\ Alone(p, DOMAIN N)
      /\ \A r \in DOMAIN N : Would(Now, s)[r] # Absent
      /\ \A r \in DOMAIN N : N[r] # Absent => "id" \in DOMAIN N[r]
      /\ \A r \in DOMAIN N : N[r] # Absent /\ r \in RowsOf("upload") =>
           KeyOf(N[r]) = KeyOf(Would(Now, s)[r])
      /\ \A q \in Process \ {p} : \A r \in proc[q].shared \cap DOMAIN N : N[r] # Absent
  BY <1>5 DEF Alone
<1> QED
  BY <1>2, <1>3, <1>6, <1>7, WriteStep

-----------------------------------------------------------------------------
(* What the plan of a request asks where.                                    *)

LEMMA JobRows ==
  ASSUME NEW s, NEW t, t.job = s.job
  PROVE  /\ UploadRow(t) = UploadRow(s) /\ OrphanRow(t) = OrphanRow(s)
         /\ t.reg.location = s.reg.location => Target(t) = Target(s)
         /\ t.reg.new = s.reg.new => NewRow(t) = NewRow(s)
BY DEF UploadRow, OrphanRow, Target, NewRow

LEMMA SamePuts ==
  ASSUME NEW g, NEW s, NEW t, t.writes = s.writes
  PROVE  /\ \A r : Puts(t, r) <=> Puts(s, r)
         /\ \A r : Adds(g, t, r) <=> Adds(g, s, r)
         /\ \A l : Admissible(g, t, l) <=> Admissible(g, s, l)
         /\ Would(g, t) = Would(g, s)
BY DEF Puts, Adds, Admissible, Would

LEMMA PlanParts ==
  ASSUME NEW g, NEW s, PlanInv(g, s)
  PROVE  /\ KindsOK(s) /\ FirstOK(s) /\ SnapOK(g, s) /\ TargetOK(g, s) /\ AcquireOK(g, s)
         /\ FenceOK(g, s) /\ RequestOK(g, s) /\ ClaimOK(g, s) /\ UploadsOK(g, s)
         /\ CompleteOK(g, s)
BY DEF PlanInv

(* Where a request ends.                                                     *)
EvictOK(g, s) ==
  s.job.kind = "evict" =>
    /\ s.job.row.id = s.reg.location
    /\ \A l \in RowsOf("location") \cap DOMAIN s.writes :
         g.db[l] # Absent => g.db[l].recencyAt = s.job.row.recencyAt

LEMMA PlanCommit ==
  ASSUME NEW g, NEW s, NEW t, PlanInv(g, s), t.job = s.job, t.pc = "commit", SnapOK(g, t),
         EvictOK(g, t), CompleteOK(g, t)
  PROVE  PlanInv(g, t)
<1> USE DEF AcquirePcs, CompletePcs, FencePcs, EvictPcs, ClaimPcs, OrphanPcs, LockedPcs,
      FirstPcs, TargetPcs
<1>1. KindsOK(t) /\ FirstOK(t)
  BY DEF KindsOK, FirstOK
<1>2. TargetOK(g, t) /\ AcquireOK(g, t) /\ FenceOK(g, t)
  BY DEF TargetOK, AcquireOK, FenceOK
<1>3. RequestOK(g, t) /\ ClaimOK(g, t)
  BY DEF RequestOK, ClaimOK, EvictOK
<1>4. UploadsOK(g, t)
  BY JobRows DEF UploadsOK, PlanInv
<1> QED
  BY <1>1, <1>2, <1>3, <1>4 DEF PlanInv

LEMMA CompleteOn ==
  ASSUME NEW g, NEW s, NEW t, CompleteOK(g, s), t.job = s.job,
         s.pc \in {"fence.lock", "complete.blocks", "complete.delete"} \cup FencePcs,
         t.pc \in {"fence.lock", "complete.blocks", "complete.delete", "commit"} \cup FencePcs,
         s.job.kind = "complete" =>
           /\ {"new", "upload", "now"} \subseteq DOMAIN t.reg /\ t.reg.now \in Nat
           /\ t.reg.new = s.reg.new /\ t.reg.upload = s.reg.upload,
         \A x \in RowsOf("entry") \cup {NewRow(s)} :
           Puts(s, x) => x \in DOMAIN t.writes /\ t.writes[x] = s.writes[x]
  PROVE  CompleteOK(g, t)
<1> SUFFICES ASSUME t.job.kind = "complete"
             PROVE  CompleteOK(g, t)
  BY DEF CompleteOK
<1> USE DEF FencePcs
<1>1. UploadRow(t) = UploadRow(s) /\ NewRow(t) = NewRow(s) /\ s.job.kind = "complete"
  BY JobRows
<1>2. /\ UploadOK(s.reg.upload) /\ s.reg.upload.id = s.job.upload
      /\ KeyOf(g.db[UploadRow(s)]) = KeyOf(s.reg.upload)
      /\ s.reg.new \in Location /\ Adds(g, s, NewRow(s))
      /\ s.writes[NewRow(s)].folderName = Folder(s.job.upload)
      /\ s.writes[NewRow(s)].deletionRequestedAt = Null
  BY <1>1 DEF CompleteOK
<1>3. g.engine # "mysql" =>
        \E e \in RowsOf("entry") : Puts(s, e) /\ s.writes[e].locationId = s.reg.new
  BY <1>1 DEF CompleteOK
<1>4. t.writes[NewRow(t)] = s.writes[NewRow(s)] /\ Adds(g, t, NewRow(t))
  BY <1>1, <1>2 DEF Adds, Puts
<1>5. g.engine # "mysql" =>
        \E e \in RowsOf("entry") : Puts(t, e) /\ t.writes[e].locationId = t.reg.new
  BY <1>1, <1>3 DEF Puts
<1>6. t.pc \notin {"complete", "complete.entry", "complete.update", "complete.insert"}
  OBVIOUS
<1> QED
  BY <1>1, <1>2, <1>4, <1>5, <1>6 DEF CompleteOK

LEMMA CompleteRead ==
  ASSUME NEW g, NEW s, NEW t, CompleteOK(g, s), t.job = s.job, t.writes = s.writes,
         s.pc \in {"fence.lock", "complete.blocks", "complete.delete"} \cup FencePcs,
         t.pc \in {"fence.lock", "complete.blocks", "complete.delete", "commit"} \cup FencePcs,
         s.job.kind = "complete" =>
           /\ DOMAIN s.reg \subseteq DOMAIN t.reg /\ t.reg.now \in Nat
           /\ t.reg.new = s.reg.new /\ t.reg.upload = s.reg.upload
  PROVE  CompleteOK(g, t)
<1>1. s.job.kind = "complete" => {"new", "upload", "now"} \subseteq DOMAIN s.reg
  BY DEF CompleteOK, FencePcs
<1>2. \A x : Puts(s, x) => x \in DOMAIN t.writes /\ t.writes[x] = s.writes[x]
  BY DEF Puts
<1> QED
  BY <1>1, <1>2, CompleteOn

LEMMA EvictOn ==
  ASSUME NEW g, NEW s, NEW t, RequestOK(g, s), t.job = s.job, t.reg.location = s.reg.location,
         DOMAIN t.writes \cap RowsOf("location") \subseteq DOMAIN s.writes
  PROVE  EvictOK(g, t)
BY DEF RequestOK, EvictOK

LEMMA RequestOther ==
  ASSUME NEW g, NEW t, EvictOK(g, t), t.pc \notin {"purgeIf", "merge.lease", "merged"}
  PROVE  RequestOK(g, t)
BY DEF RequestOK, EvictOK

LEMMA UploadsOther ==
  ASSUME NEW g, NEW s, NEW t, UploadsOK(g, s), t.job = s.job,
         t.pc \notin {"part", "abandon", "abandon.enqueue"} \cup OrphanPcs
  PROVE  UploadsOK(g, t)
BY JobRows DEF UploadsOK, OrphanPcs

(* Registers that are written beside those that stay.                        *)
LEMMA RegsKept ==
  ASSUME NEW g, NEW s, PlanInv(g, s), s.pc \in TargetPcs, NEW t, NEW reg,
         Grown(t.reg, reg, s.reg), {"location", "new", "upload"} \cap DOMAIN reg = {}
  PROVE  /\ t.reg.location = s.reg.location /\ DOMAIN s.reg \subseteq DOMAIN t.reg
         /\ "location" \in DOMAIN t.reg
         /\ s.job.kind = "complete" => t.reg.new = s.reg.new /\ t.reg.upload = s.reg.upload
<1>1. "location" \in DOMAIN s.reg
  BY PlanParts DEF TargetOK
<1>2. s.job.kind = "complete" => {"new", "upload"} \subseteq DOMAIN s.reg
  <2>1. s.pc # "complete"
    BY DEF TargetPcs, LockedPcs, FencePcs, ClaimPcs
  <2> QED
    BY <2>1, PlanParts DEF CompleteOK
<1> QED
  BY <1>1, <1>2 DEF Grown

-----------------------------------------------------------------------------
(* Statements that read, of the requests on a location.                      *)

LEMMA KindFacts ==
  ASSUME TransactionInv, NEW p \in Process, Ours(proc[p]),
         proc[p].pc \notin CompletePcs \cup FencePcs \cup {"fence.lock", "commit"}
  PROVE  proc[p].job.kind # "complete"
BY ProcessFacts DEF UploadTaken

(* What a statement moves to, and what it keeps.                             *)
Moves(p, did, pc, reg) ==
  Keeps(p, did, pc, reg) \/ (Does(p, did, pc) /\ DOMAIN reg = {})

LEMMA MovesFacts ==
  ASSUME TransactionInv, NEW p \in Process, NEW did, NEW pc, NEW reg,
         DOMAIN did.state = DOMAIN Idle, Moves(p, did, pc, reg)
  PROVE  \/ TransactionInv'
         \/ /\ did.waits = {}
            /\ \E t : /\ Step(p, t) /\ After(t, did.state, pc)
                      /\ Grown(t.reg, reg, did.state.reg)
<1>1. CASE Keeps(p, did, pc, reg)
  BY <1>1, KeepsFacts
<1>2. CASE Does(p, did, pc) /\ DOMAIN reg = {}
  <2>1. ASSUME NEW t, t.reg = did.state.reg
        PROVE  Grown(t.reg, reg, did.state.reg)
    BY <1>2, <2>1 DEF Grown
  <2> QED
    BY <1>2, <2>1, DoesFacts
<1> QED
  BY <1>1, <1>2 DEF Moves

LEMMA MovesNothing ==
  ASSUME NEW p, NEW did, NEW pc, Does(p, did, pc)
  PROVE  Moves(p, did, pc, <<>>) /\ DOMAIN <<>> = {}
<1>1. DOMAIN <<>> = {}
  OBVIOUS
<1> QED
  BY <1>1 DEF Moves

(* What a request on a location asks at pc, beside what it already knows.    *)
ReadAsks(s, t, pc, reg) ==
  /\ Open(Now, s) /\ PlanInv(Now, s) /\ RowsOK(Now, s)
  /\ t.pc = pc /\ t.job = s.job /\ t.writes = s.writes
  /\ Grown(t.reg, reg, s.reg) /\ t.reg.location = s.reg.location /\ Target(t) = Target(s)
  /\ Would(Now, t) = Would(Now, s)
ReadDuty(s, pc, reg) ==
  \A t : ReadAsks(s, t, pc, reg) =>
    /\ KindsOK(t) /\ FenceOK(Now, t) /\ ClaimOK(Now, t)
    /\ t.pc = "merge.lease" => RequestOK(Now, t)

(* Where a statement that reads may go on.                                   *)
Onward(s, pc) ==
  /\ pc \in (TargetPcs \ FirstPcs) \cup {"commit", "rollback", "complete.blocks"}
  /\ s.job.kind = "complete" => pc \in CompleteStays
  /\ pc = "complete.blocks" => s.job.kind = "complete"
  /\ pc = "request.detach" => s.job.kind # "request"
  /\ pc \in LockedPcs \cup {"request.detach"} => s.pc \in LockedPcs

\* The reads of a request on a location, but for what the next statement relies on.
LEMMA TargetReads ==
  ASSUME TransactionInv, NEW p \in Process, NEW s, s = proc[p], NEW x, NEW did, did = Read(p, x),
         NEW pc, NEW reg, Moves(p, did, pc, reg),
         s.pc \in TargetPcs \ {"fence.delete"},
         DOMAIN reg \subseteq {"row", "now"}, "now" \in DOMAIN reg => reg.now \in Nat,
         Onward(s, pc),
         pc \in TargetPcs => ReadDuty(s, pc, reg)
  PROVE  TransactionInv'
<1> USE DEF AcquirePcs, CompletePcs, FencePcs, EvictPcs, ClaimPcs, OrphanPcs, LockedPcs, FirstPcs,
            TargetPcs, Onward
<1>1. DOMAIN did.state = DOMAIN Idle /\ did.state.reg = s.reg /\ did.waits = {}
  BY ReadFacts
<1>2. Ours(s) /\ s.pc \notin {"complete", "fence.delete", "abandon.enqueue", "commit"}
  BY DEF Ours
<1>3. pc \notin {"idle", "complete"}
  OBVIOUS
<1>4. s.job.kind = "complete" => s.pc \in FencePcs \cup {"fence.lock"}
  BY <1>2, KindFacts
<1>5. ASSUME NEW t, Step(p, t), After(t, did.state, pc), Grown(t.reg, reg, s.reg)
      PROVE  TransactionInv'
  <2>1. CASE pc = "rollback"
    BY <1>2, <1>5, <2>1, ReadRolls
  <2>2. CASE pc # "rollback"
    <3>1. t.pc = pc
      BY <1>5 DEF After
    <3>2. {"location", "new", "upload"} \cap DOMAIN reg = {}
      OBVIOUS
    <3>3. ASSUME Open(Now, s)
          PROVE  /\ t.reg.location = s.reg.location /\ DOMAIN s.reg \subseteq DOMAIN t.reg
                 /\ "location" \in DOMAIN t.reg
                 /\ s.job.kind = "complete" => t.reg.new = s.reg.new /\ t.reg.upload = s.reg.upload
      <4>1. PlanInv(Now, s)
        BY <3>3, OpenParts
      <4>2. s.pc \in TargetPcs
        OBVIOUS
      <4> QED
        BY ONLY <1>5, <3>2, <4>1, <4>2, RegsKept
    <3>4. ReadRegs(s, t)
      BY <3>3 DEF ReadRegs
    <3>5. ReadPlan(p, s, t)
      <4> SUFFICES ASSUME Open(Now, s), t.job = s.job, t.writes = s.writes, SnapOK(Now, t),
                          Would(Now, t) = Would(Now, s)
                   PROVE  PlanInv(Now, t)
        BY DEF ReadPlan
      <4>1. PlanInv(Now, s) /\ RowsOK(Now, s)
        BY OpenParts
      <4>2. /\ KindsOK(s) /\ TargetOK(Now, s) /\ RequestOK(Now, s) /\ UploadsOK(Now, s)
            /\ CompleteOK(Now, s) /\ FirstOK(s)
        BY <4>1, PlanParts
      <4>3. Target(t) = Target(s)
        BY <3>3, JobRows
      <4>4. EvictOK(Now, t)
        BY <3>3, <4>2, EvictOn
      <4>5. CompleteOK(Now, t)
        <5>1. CASE s.job.kind # "complete"
          BY <5>1 DEF CompleteOK
        <5>2. CASE s.job.kind = "complete"
          <6>1. /\ DOMAIN s.reg \subseteq DOMAIN t.reg
                /\ t.reg.new = s.reg.new /\ t.reg.upload = s.reg.upload
            BY <3>3, <5>2
          <6>2. "now" \in DOMAIN s.reg /\ s.reg.now \in Nat
            BY <4>2, <5>2 DEF CompleteOK
          <6>3. t.reg.now \in Nat
            BY <1>5, <6>2 DEF Grown
          <6>4. s.pc \in {"fence.lock", "complete.blocks", "complete.delete"} \cup FencePcs
            BY <1>4, <5>2
          <6>5. t.pc \in CompletePcs \cup FencePcs \cup {"fence.lock", "commit"}
            BY <2>2, <3>1, <5>2 DEF CompleteStays
          <6>6. t.pc \in {"fence.lock", "complete.blocks", "complete.delete", "commit"} \cup
                  FencePcs
            BY <3>1, <6>5
          <6> HIDE DEF FencePcs
          <6> QED
            BY <4>2, <6>1, <6>3, <6>4, <6>6, CompleteRead
        <5> QED
          BY <5>1, <5>2
      <4>6. CASE pc = "commit"
        <5> HIDE DEF AcquirePcs, CompletePcs, FencePcs, EvictPcs, ClaimPcs, OrphanPcs, LockedPcs,
                     FirstPcs, TargetPcs
        <5> QED
          BY <3>1, <4>1, <4>4, <4>5, <4>6, PlanCommit
      <4>7. CASE pc # "commit"
        <5>1. KindsOK(t) /\ FenceOK(Now, t) /\ ClaimOK(Now, t)
          <6>1. CASE pc \in TargetPcs
            <7>1. ReadAsks(s, t, pc, reg)
              BY <1>5, <3>1, <3>3, <4>1, <4>3 DEF ReadAsks
            <7> QED
              BY <6>1, <7>1 DEF ReadDuty
          <6>2. CASE pc = "complete.blocks"
            BY <3>1, <6>2 DEF KindsOK, FenceOK, ClaimOK
          <6> QED
            BY <2>2, <4>7, <6>1, <6>2
        <5>2. FirstOK(t)
          BY <2>2, <3>1, <4>7 DEF FirstOK
        <5>3. TargetOK(Now, t)
          BY <2>2, <3>1, <3>3, <4>2, <4>3, <4>7, SamePuts DEF TargetOK
        <5>4. AcquireOK(Now, t)
          BY <2>2, <3>1, <4>7 DEF AcquireOK
        <5>5. RequestOK(Now, t)
          <6>1. CASE pc = "merge.lease"
            <7>1. ReadAsks(s, t, pc, reg)
              BY <1>5, <3>1, <3>3, <4>1, <4>3 DEF ReadAsks
            <7> QED
              BY <3>1, <6>1, <7>1 DEF ReadDuty
          <6>2. CASE pc # "merge.lease"
            BY <2>2, <3>1, <4>4, <6>2, RequestOther
          <6> QED
            BY <6>1, <6>2
        <5>6. UploadsOK(Now, t)
          BY <2>2, <3>1, <4>2, <4>7, UploadsOther
        <5> QED
          BY <4>5, <5>1, <5>2, <5>3, <5>4, <5>5, <5>6 DEF PlanInv
      <4> QED
        BY <4>6, <4>7
    <3>6. s.job.kind = "complete" => pc \in CompleteStays
      OBVIOUS
    <3> HIDE DEF AcquirePcs, CompletePcs, FencePcs, EvictPcs, ClaimPcs, OrphanPcs, LockedPcs,
                 FirstPcs, TargetPcs, Onward
    <3> QED
      BY <1>2, <1>3, <1>5, <3>4, <3>5, <3>6, ReadsTo
  <2> QED
    BY <2>1, <2>2
<1> QED
  BY <1>1, <1>5, MovesFacts

-----------------------------------------------------------------------------
(* What a request sees of its location.                                      *)

\* The location that a request holds is as it was when it was locked.
LEMMA TargetHeld ==
  ASSUME TransactionInv, NEW p \in Process, NEW s, s = proc[p], Open(Now, s),
         s.pc \in LockedPcs \/ (s.pc = "request.detach" /\ s.job.kind # "request")
  PROVE  /\ s.reg.location \in Location /\ Target(s) \in RowsOf("location") /\ Target(s) \in issued
         /\ Puts(s, Target(s)) /\ db[Target(s)] # Absent /\ LocationOK(s.writes[Target(s)])
         /\ UploadOf(s.writes[Target(s)].folderName) \in issued
<1> DEFINE l == Target(s)
           row == s.writes[l]
<1>1. s.pc \in TargetPcs
  BY DEF TargetPcs
<1>2. /\ s.reg.location \in Location /\ Target(s) \in issued
      /\ Puts(s, l) /\ db[l] # Absent
  BY <1>1, OpenParts, PlanParts, StateFields DEF TargetOK
<1>3. l \in RowsOf("location") /\ l \in Rows /\ l \in Owners
  BY <1>2, RowFacts, TableRows DEF Target
<1>4. RowOK(l, row) /\ Evolves(l, db[l], row)
  BY <1>2, OpenParts, StateFields DEF RowsOK, Puts
<1>5. LocationOK(row) /\ row.folderName = db[l].folderName
  BY <1>3, <1>4, RowKinds, EvolvesKinds
<1>6. UploadOf(db[l].folderName) \in issued
  BY <1>2, <1>3, ProcessFacts, CommittedFacts, StateFields DEF Known
<1> QED
  BY <1>2, <1>3, <1>5, <1>6

LEMMA TargetSeen ==
  ASSUME TransactionInv, NEW p \in Process, NEW s, s = proc[p], Open(Now, s),
         s.pc \in LockedPcs, NEW x,
         x = {View(p)[r] : r \in Matching(View(p), "location", {LocationID("EQ", s.reg.location)})}
  PROVE  /\ x # {} /\ TheRow(x) = s.writes[Target(s)] /\ x = {s.writes[Target(s)]}
<1> DEFINE l == s.reg.location
           V == View(p)
<1>1. SnapOK(Now, s) /\ RowsOK(Now, s)
  BY OpenParts
<1>2. ASSUME NEW r \in RowsOf("location"), V[r] # Absent
      PROVE  RowOK(r, V[r])
  BY <1>1, <1>2, SeenRow, TableRows
<1>3. l \in Location /\ Target(s) = <<"location", l>> /\ Puts(s, Target(s))
  BY TargetHeld DEF Target
<1>4. Grown(V, s.writes, Snapshot(p))
  BY <1>1, Seen
<1>5. V[Target(s)] = s.writes[Target(s)]
  BY <1>3, <1>4 DEF Grown, Puts
<1>6. V[Target(s)] # Absent
  BY <1>3, <1>5 DEF Puts
<1> HIDE DEF V
<1>7. x = {V[r] : r \in Matching(V, "location", {LocationID("EQ", l)})}
  BY DEF V
<1>8. x # {} /\ TheRow(x) = V[Target(s)]
  BY <1>2, <1>3, <1>6, <1>7, TheLocation, SMTT(60)
<1>9. ASSUME NEW r \in Matching(V, "location", {LocationID("EQ", l)})
      PROVE  r = Target(s)
  <2>1. r \in RowsOf("location") /\ V[r] # Absent
    BY MatchingFacts
  <2>2. RowOK(r, V[r])
    BY <1>2, <2>1
  <2>3. Where("id", "EQ", l) \in {LocationID("EQ", l)} /\ "location" \in Tables
    BY RowFacts DEF LocationID
  <2> QED
    BY <1>3, <2>2, <2>3, SelectedID
<1>10. x = {V[Target(s)]}
  BY <1>7, <1>8, <1>9
<1> QED
  BY <1>5, <1>8, <1>10

\* Where a request that holds its location sees no entry of it, there is none.
LEMMA NoEntriesSeen ==
  ASSUME TransactionInv, NEW p \in Process, NEW s, s = proc[p], Open(Now, s),
         s.pc \in LockedPcs,
         Matching(View(p), "entry", EntriesOf(s.reg.location)) = {}
  PROVE  NoEntries(Would(Now, s), Target(s))
<1> DEFINE l == s.reg.location
           where == EntriesOf(l)
           v == Snapshot(p)
           V == View(p)
           S == Would(Now, s)
<1>1. SnapOK(Now, s) /\ RowsOK(Now, s)
  BY OpenParts
<1>2. Sight(Now, s, v) /\ Grown(V, s.writes, v) /\ DOMAIN v = Rows
  BY <1>1, Seen
<1>3. Grown(S, s.writes, Now.db)
  BY WouldGrown
<1>4. /\ l \in Location /\ Target(s) = <<"location", l>>
      /\ Now.db[Target(s)] # Absent /\ s.pc \in TargetPcs
  BY TargetHeld, StateFields DEF Target, TargetPcs
<1>5. DOMAIN Now.db = Rows
  BY ProcessFacts, CommittedFacts
<1>6. l # Null
  BY <1>4, NullFacts
<1>7. \A clause \in where : clause = Where("locationId", "EQ", l)
  BY DEF EntriesOf, EntryLocationId
<1>8. \A r : r \notin Matching(V, "entry", where)
  OBVIOUS
<1> SUFFICES ASSUME NEW e \in RowsOf("entry"), S[e] # Absent, LocationOf(S[e]) = Target(s)
             PROVE  FALSE
  BY DEF NoEntries
<1> HIDE DEF v, V, S, where, l
<1>9. e \in Rows
  BY TableRows
<1>10. S[e].locationId = l
  BY <1>4 DEF LocationOf
<1>11. V[e] # Absent /\ V[e].locationId = l
  <2>1. CASE e \in DOMAIN s.writes
    BY <1>2, <1>3, <1>10, <2>1 DEF Grown
  <2>2. CASE e \notin DOMAIN s.writes
    <3>1. V[e] = v[e] /\ S[e] = Now.db[e]
      BY <1>2, <1>3, <1>5, <1>9, <2>2 DEF Grown
    <3>2. v[Target(s)] # Absent
      BY <1>2, <1>4 DEF Sight
    <3>3. LocationOf(Now.db[e]) = Target(s)
      BY <3>1
    <3>4. v[e] # Absent /\ v[e].locationId = Now.db[e].locationId
      BY <1>2, <3>1, <3>2, <3>3 DEF Sight
    <3> QED
      BY <1>10, <3>1, <3>4
  <2> QED
    BY <2>1, <2>2
<1>12. \E q \in Where("locationId", "EQ", l) : Holds(q, V[e])
  <2>1. V[e]["locationId"] = l
    BY <1>11
  <2> QED
    BY <1>6, <2>1, Equal
<1>13. \A clause \in where : \E q \in clause : Holds(q, V[e])
  BY <1>7, <1>12
<1>14. e \in Matching(V, "entry", where)
  BY <1>11, <1>13, MatchingFacts
<1> QED
  BY <1>8, <1>14

(* Under SQLite and PostgreSQL a transaction sees what it would commit.      *)
LEMMA SeesAll ==
  ASSUME TransactionInv, NEW p \in Process, engine # "mysql"
  PROVE  View(p) = Would(Now, proc[p])
BY StateFields DEF View, Snapshot, Would

LEMMA UnreadSeen ==
  ASSUME TransactionInv, NEW p \in Process, NEW s, s = proc[p], Open(Now, s),
         s.pc = "claim.readers",
         engine # "mysql",
         Matching(View(p), "lease", PartsLeases \cup LiveLeasesOf(s.reg.location, s.reg.now)) = {}
  PROVE  Unread(Would(Now, s), Target(s))
<1> DEFINE l == s.reg.location
           n == s.reg.now
           where == PartsLeases \cup LiveLeasesOf(l, n)
           S == Would(Now, s)
<1>1. S = View(p)
  BY SeesAll
<1>2. \A r : r \notin Matching(S, "lease", where)
  BY <1>1
<1>3. /\ \A d \in RowsOf("lease") : PartsLease(S, d, Target(s)) => S[d].expiresAt > n
  BY OpenParts, PlanParts, StateFields DEF ClaimOK
<1>4. l \in Location /\ Target(s) = <<"location", l>>
  BY TargetHeld DEF Target, LockedPcs, ClaimPcs
<1>5. \A clause \in where : \/ clause = Where("scope", "EQ", "parts")
                            \/ clause = Where("storageLocationId", "EQ", l)
                            \/ clause = Where("expiresAt", "GT", n)
  BY DEF PartsLeases, LiveLeasesOf, LeaseScope, LeaseStorageLocationId, LeaseExpiresAt
<1>6. l # Null /\ "parts" # Null
  BY <1>4, NullFacts
<1>7. Typed(S)
  BY ProcessFacts, OpenParts, WouldTyped
<1> SUFFICES ASSUME NEW d \in RowsOf("lease"), PartsLease(S, d, Target(s))
             PROVE  FALSE
  BY DEF Unread
<1> HIDE DEF S, where, l, n
<1>8. d \in Rows /\ S[d] # Absent /\ S[d].scope = "parts" /\ S[d].storageLocationId = l
  BY <1>4, TableRows DEF PartsLease, LeasedBy
<1>9. LeaseOK(S[d])
  BY <1>7, <1>8, TypedRow, RowKinds
<1>10. S[d].expiresAt > n /\ S[d].expiresAt # Null
  BY <1>3, <1>9, NullFacts DEF LeaseOK
<1>11. /\ \E q \in Where("scope", "EQ", "parts") : Holds(q, S[d])
       /\ \E q \in Where("storageLocationId", "EQ", l) : Holds(q, S[d])
  <2>1. S[d]["scope"] = "parts" /\ S[d]["storageLocationId"] = l
    BY <1>8
  <2> QED
    BY <1>6, <2>1, Equal
<1>12. \E q \in Where("expiresAt", "GT", n) : Holds(q, S[d])
  <2> DEFINE row == S[d]
  <2>1. row["expiresAt"] # Null /\ row["expiresAt"] > n
    BY <1>10
  <2> SUFFICES \E q \in Where("expiresAt", "GT", n) : Holds(q, row)
    OBVIOUS
  <2> HIDE DEF row
  <2>2. Holds(<<"expiresAt", "GT", n>>, row)
    BY <2>1, WhereFacts
  <2>3. <<"expiresAt", "GT", n>> \in Where("expiresAt", "GT", n)
    BY DEF Where
  <2> QED
    BY <2>2, <2>3
<1>13. \A clause \in where : \E q \in clause : Holds(q, S[d])
  BY <1>5, <1>11, <1>12
<1>14. d \in Matching(S, "lease", where)
  BY <1>8, <1>13, MatchingFacts
<1> QED
  BY <1>2, <1>14

-----------------------------------------------------------------------------
(* The statements that read.                                                 *)

LEMMA FenceEntriesKeeps ==
  ASSUME TransactionInv, NEW p \in Process, FenceEntries(p)
  PROVE  TransactionInv'
<1> DEFINE s == proc[p]
           where == EntriesOf(proc[p].reg.location)
           x == Matching(View(p), "entry", where) # {}
           did == Read(p, x)
<1>1. s.pc = "fence.entries"
  BY DEF FenceEntries, At
<1>2. Does(p, did, IF x THEN (IF s.job.kind = "complete" THEN "complete.blocks"
                                  ELSE "commit")
                       ELSE "fence.location")
  <2>1. ExistEntry(p, where) = did /\ did.result = x
    BY DEF ExistEntry, Exist, Read
  <2> QED
    BY <2>1 DEF FenceEntries, At, Returned
<1>3. s = proc[p] /\ did = Read(p, x)
  OBVIOUS
<1> USE DEF AcquirePcs, CompletePcs, FencePcs, EvictPcs, ClaimPcs, OrphanPcs, LockedPcs,
            FirstPcs, TargetPcs
<1> HIDE DEF s, where, x, did
<1>6. s.job.kind = "complete" \/ s.job.kind # "complete"
  OBVIOUS
<1>7. CASE x /\ s.job.kind = "complete"
  <2>1. Moves(p, did, "complete.blocks", <<>>)
    BY <1>2, <1>7, MovesNothing
  <2>2. Onward(s, "complete.blocks")
    BY <1>1, <1>6, <1>7 DEF Onward, CompleteStays
  <2>3. "complete.blocks" \notin TargetPcs
    OBVIOUS
  <2>4. s.pc \in TargetPcs \ {"fence.delete"}
    BY <1>1
  <2>5. DOMAIN <<>> \subseteq {"row", "now"} /\ "now" \notin DOMAIN <<>>
    OBVIOUS
  <2> HIDE DEF AcquirePcs, CompletePcs, FencePcs, EvictPcs, ClaimPcs, OrphanPcs, LockedPcs,
               FirstPcs, TargetPcs
  <2> QED
    BY <1>3, <2>1, <2>2, <2>3, <2>4, <2>5, TargetReads
<1>8. CASE x /\ s.job.kind # "complete"
  <2>1. Moves(p, did, "commit", <<>>)
    BY <1>2, <1>8, MovesNothing
  <2>2. Onward(s, "commit")
    BY <1>1, <1>6, <1>8 DEF Onward, CompleteStays
  <2>3. "commit" \notin TargetPcs
    OBVIOUS
  <2>4. s.pc \in TargetPcs \ {"fence.delete"}
    BY <1>1
  <2>5. DOMAIN <<>> \subseteq {"row", "now"} /\ "now" \notin DOMAIN <<>>
    OBVIOUS
  <2> HIDE DEF AcquirePcs, CompletePcs, FencePcs, EvictPcs, ClaimPcs, OrphanPcs, LockedPcs,
               FirstPcs, TargetPcs
  <2> QED
    BY <1>3, <2>1, <2>2, <2>3, <2>4, <2>5, TargetReads
<1>9. CASE ~x
  <2>1. Moves(p, did, "fence.location", <<>>)
    BY <1>2, <1>9, MovesNothing
  <2>2. Onward(s, "fence.location")
    BY <1>1, <1>6, <1>9 DEF Onward, CompleteStays
  <2>3. ReadDuty(s, "fence.location", <<>>)
    <3> SUFFICES ASSUME NEW t, ReadAsks(s, t, "fence.location", <<>>)
                 PROVE  /\ KindsOK(t) /\ FenceOK(Now, t) /\ ClaimOK(Now, t)
                        /\ t.pc = "merge.lease" => RequestOK(Now, t)
      BY DEF ReadDuty
    <3>1. /\ t.pc = "fence.location" /\ t.job = s.job /\ t.writes = s.writes /\
               Target(t) = Target(s)
          /\ Would(Now, t) = Would(Now, s)
      BY DEF ReadAsks
    <3>2. KindsOK(s) /\ FenceOK(Now, s) /\ ClaimOK(Now, s) /\ RequestOK(Now, s)
      BY PlanParts DEF ReadAsks
    <3>4. Open(Now, s) /\ s.pc \in LockedPcs
      BY <1>1 DEF ReadAsks
    <3>5. NoEntries(Would(Now, s), Target(s))
      BY <1>3, <1>9, <3>4, NoEntriesSeen DEF x, where
    <3>20. KindsOK(t)
      BY <1>1, <1>6, <3>1, <3>2 DEF KindsOK
    <3>21. FenceOK(Now, t)
      BY <3>1, <3>5 DEF FenceOK
    <3>22. ClaimOK(Now, t)
      BY <3>1 DEF ClaimOK
    <3> QED
      BY <3>1, <3>20, <3>21, <3>22
  <2>4. s.pc \in TargetPcs \ {"fence.delete"}
    BY <1>1
  <2>5. DOMAIN <<>> \subseteq {"row", "now"} /\ "now" \notin DOMAIN <<>>
    OBVIOUS
  <2> HIDE DEF AcquirePcs, CompletePcs, FencePcs, EvictPcs, ClaimPcs, OrphanPcs, LockedPcs,
               FirstPcs, TargetPcs
  <2> QED
    BY <1>3, <2>1, <2>2, <2>3, <2>4, <2>5, TargetReads
<1> QED
  BY <1>7, <1>8, <1>9, <1>6

LEMMA FenceLocationKeeps ==
  ASSUME TransactionInv, NEW p \in Process, FenceLocation(p)
  PROVE  TransactionInv'
<1> DEFINE s == proc[p]
           where == {LocationID("EQ", proc[p].reg.location)}
           x == {View(p)[r] : r \in Matching(View(p), "location", where)}
           did == Read(p, x)
           row == TheRow(x)
           reg == [row |-> row, now |-> clock]
<1>1. s.pc = "fence.location"
  BY DEF FenceLocation, At
<1>2. IF x = {} THEN Does(p, did, IF s.job.kind = "complete" THEN "complete.blocks" ELSE "commit")
      ELSE Keeps(p, did, IF row.deletionRequestedAt = Null THEN "fence.mark" ELSE "fence.leases",
        reg)
  <2>1. QueryLocation(p, where) = did /\ did.result = x
    BY DEF QueryLocation, Query, Read
  <2> QED
    BY <2>1 DEF FenceLocation, At, Returned
<1>3. s = proc[p] /\ did = Read(p, x)
  OBVIOUS
<1>4. DOMAIN reg \subseteq {"row", "now"} /\ ("now" \in DOMAIN reg => reg.now = clock)
  OBVIOUS
<1>5. clock \in Nat
  BY ProcessFacts
<1> USE DEF AcquirePcs, CompletePcs, FencePcs, EvictPcs, ClaimPcs, OrphanPcs, LockedPcs,
            FirstPcs, TargetPcs
<1> HIDE DEF s, where, x, did
<1>6. s.job.kind = "complete" \/ s.job.kind # "complete"
  OBVIOUS
<1> HIDE DEF row
<1>7. CASE x = {} /\ s.job.kind = "complete"
  <2>1. Moves(p, did, "complete.blocks", <<>>)
    BY <1>2, <1>7, MovesNothing
  <2>2. Onward(s, "complete.blocks")
    BY <1>1, <1>6, <1>7 DEF Onward, CompleteStays
  <2>3. "complete.blocks" \notin TargetPcs
    OBVIOUS
  <2>4. s.pc \in TargetPcs \ {"fence.delete"}
    BY <1>1
  <2>5. DOMAIN <<>> \subseteq {"row", "now"} /\ "now" \notin DOMAIN <<>>
    OBVIOUS
  <2> HIDE DEF AcquirePcs, CompletePcs, FencePcs, EvictPcs, ClaimPcs, OrphanPcs, LockedPcs,
               FirstPcs, TargetPcs
  <2> QED
    BY <1>3, <2>1, <2>2, <2>3, <2>4, <2>5, TargetReads
<1>8. CASE x = {} /\ s.job.kind # "complete"
  <2>1. Moves(p, did, "commit", <<>>)
    BY <1>2, <1>8, MovesNothing
  <2>2. Onward(s, "commit")
    BY <1>1, <1>6, <1>8 DEF Onward, CompleteStays
  <2>3. "commit" \notin TargetPcs
    OBVIOUS
  <2>4. s.pc \in TargetPcs \ {"fence.delete"}
    BY <1>1
  <2>5. DOMAIN <<>> \subseteq {"row", "now"} /\ "now" \notin DOMAIN <<>>
    OBVIOUS
  <2> HIDE DEF AcquirePcs, CompletePcs, FencePcs, EvictPcs, ClaimPcs, OrphanPcs, LockedPcs,
               FirstPcs, TargetPcs
  <2> QED
    BY <1>3, <2>1, <2>2, <2>3, <2>4, <2>5, TargetReads
<1>9. CASE x # {} /\ row.deletionRequestedAt = Null
  <2>1. Moves(p, did, "fence.mark", reg)
    BY <1>2, <1>9 DEF Moves
  <2>2. Onward(s, "fence.mark")
    BY <1>1, <1>6, <1>9 DEF Onward, CompleteStays
  <2>3. ReadDuty(s, "fence.mark", reg)
    <3> SUFFICES ASSUME NEW t, ReadAsks(s, t, "fence.mark", reg)
                 PROVE  /\ KindsOK(t) /\ FenceOK(Now, t) /\ ClaimOK(Now, t)
                        /\ t.pc = "merge.lease" => RequestOK(Now, t)
      BY DEF ReadDuty
    <3>1. /\ t.pc = "fence.mark" /\ t.job = s.job /\ t.writes = s.writes /\ Target(t) = Target(s)
          /\ Would(Now, t) = Would(Now, s)
      BY DEF ReadAsks
    <3>2. KindsOK(s) /\ FenceOK(Now, s) /\ ClaimOK(Now, s) /\ RequestOK(Now, s)
      BY PlanParts DEF ReadAsks
    <3>4. Open(Now, s) /\ s.pc \in LockedPcs
      BY <1>1 DEF ReadAsks
    <3>5. TheRow(x) = s.writes[Target(s)] /\ LocationOK(s.writes[Target(s)])
      BY <1>3, <3>4, TargetSeen, TargetHeld DEF x, where
    <3>6. {"row", "now"} \subseteq DOMAIN t.reg /\ t.reg.row = row /\ t.reg.now \in Nat
      BY <1>5 DEF ReadAsks, Grown
    <3>7. row = s.writes[Target(s)]
      BY <3>5 DEF row
    <3>8. DOMAIN row = DOMAIN NewLocation
      BY <3>5, <3>7 DEF LocationOK
    <3>20. KindsOK(t)
      BY <1>1, <1>6, <3>1, <3>2 DEF KindsOK
    <3>21. FenceOK(Now, t)
      BY <1>1, <3>1, <3>2, <3>6, <3>7, <3>8 DEF FenceOK
    <3>22. ClaimOK(Now, t)
      BY <3>1 DEF ClaimOK
    <3> QED
      BY <3>1, <3>20, <3>21, <3>22
  <2>4. s.pc \in TargetPcs \ {"fence.delete"}
    BY <1>1
  <2>5. DOMAIN reg \subseteq {"row", "now"} /\ ("now" \in DOMAIN reg => reg.now \in Nat)
    BY <1>4, <1>5
  <2> HIDE DEF reg
  <2> HIDE DEF AcquirePcs, CompletePcs, FencePcs, EvictPcs, ClaimPcs, OrphanPcs, LockedPcs,
               FirstPcs, TargetPcs
  <2> QED
    BY <1>3, <2>1, <2>2, <2>3, <2>4, <2>5, TargetReads
<1>10. CASE x # {} /\ row.deletionRequestedAt # Null
  <2>1. Moves(p, did, "fence.leases", reg)
    BY <1>2, <1>10 DEF Moves
  <2>2. Onward(s, "fence.leases")
    BY <1>1, <1>6, <1>10 DEF Onward, CompleteStays
  <2>3. ReadDuty(s, "fence.leases", reg)
    <3> SUFFICES ASSUME NEW t, ReadAsks(s, t, "fence.leases", reg)
                 PROVE  /\ KindsOK(t) /\ FenceOK(Now, t) /\ ClaimOK(Now, t)
                        /\ t.pc = "merge.lease" => RequestOK(Now, t)
      BY DEF ReadDuty
    <3>1. /\ t.pc = "fence.leases" /\ t.job = s.job /\ t.writes = s.writes /\ Target(t) = Target(s)
          /\ Would(Now, t) = Would(Now, s)
      BY DEF ReadAsks
    <3>2. KindsOK(s) /\ FenceOK(Now, s) /\ ClaimOK(Now, s) /\ RequestOK(Now, s)
      BY PlanParts DEF ReadAsks
    <3>4. Open(Now, s) /\ s.pc \in LockedPcs
      BY <1>1 DEF ReadAsks
    <3>5. TheRow(x) = s.writes[Target(s)] /\ LocationOK(s.writes[Target(s)])
      BY <1>3, <3>4, TargetSeen, TargetHeld DEF x, where
    <3>6. {"row", "now"} \subseteq DOMAIN t.reg /\ t.reg.row = row /\ t.reg.now \in Nat
      BY <1>5 DEF ReadAsks, Grown
    <3>7. row = s.writes[Target(s)]
      BY <3>5 DEF row
    <3>8. DOMAIN row = DOMAIN NewLocation
      BY <3>5, <3>7 DEF LocationOK
    <3>20. KindsOK(t)
      BY <1>1, <1>6, <3>1, <3>2 DEF KindsOK
    <3>21. FenceOK(Now, t)
      BY <1>1, <3>1, <3>2, <3>6, <3>7, <3>8 DEF FenceOK
    <3>22. ClaimOK(Now, t)
      BY <3>1 DEF ClaimOK
    <3> QED
      BY <3>1, <3>20, <3>21, <3>22
  <2>4. s.pc \in TargetPcs \ {"fence.delete"}
    BY <1>1
  <2>5. DOMAIN reg \subseteq {"row", "now"} /\ ("now" \in DOMAIN reg => reg.now \in Nat)
    BY <1>4, <1>5
  <2> HIDE DEF reg
  <2> HIDE DEF AcquirePcs, CompletePcs, FencePcs, EvictPcs, ClaimPcs, OrphanPcs, LockedPcs,
               FirstPcs, TargetPcs
  <2> QED
    BY <1>3, <2>1, <2>2, <2>3, <2>4, <2>5, TargetReads
<1> QED
  BY <1>7, <1>8, <1>9, <1>10, <1>6

LEMMA FenceReadersKeeps ==
  ASSUME TransactionInv, NEW p \in Process, FenceReaders(p)
  PROVE  TransactionInv'
<1> DEFINE s == proc[p]
           where == LiveLeasesOf(proc[p].reg.location, proc[p].reg.now)
           x == Matching(View(p), "lease", where) # {}
           did == Read(p, x)
           kept == \/ x \/ ActiveMaterialization(s.reg.row, s.reg.now)
                   \/ s.reg.now < s.reg.row.deletionRequestedAt + Lasts
<1>1. s.pc = "fence.readers"
  BY DEF FenceReaders, At
<1>2. Does(p, did, IF kept THEN (IF s.job.kind = "complete" THEN "complete.blocks"
                                     ELSE "commit")
                       ELSE "fence.enqueue")
  <2>1. ExistLease(p, where) = did /\ did.result = x
    BY DEF ExistLease, Exist, Read
  <2> QED
    BY <2>1 DEF FenceReaders, At, Returned
<1>3. s = proc[p] /\ did = Read(p, x)
  OBVIOUS
<1> USE DEF AcquirePcs, CompletePcs, FencePcs, EvictPcs, ClaimPcs, OrphanPcs, LockedPcs,
            FirstPcs, TargetPcs
<1> HIDE DEF s, where, x, did, kept
<1>6. s.job.kind = "complete" \/ s.job.kind # "complete"
  OBVIOUS
<1>7. CASE kept /\ s.job.kind = "complete"
  <2>1. Moves(p, did, "complete.blocks", <<>>)
    BY <1>2, <1>7, MovesNothing
  <2>2. Onward(s, "complete.blocks")
    BY <1>1, <1>6, <1>7 DEF Onward, CompleteStays
  <2>3. "complete.blocks" \notin TargetPcs
    OBVIOUS
  <2>4. s.pc \in TargetPcs \ {"fence.delete"}
    BY <1>1
  <2>5. DOMAIN <<>> \subseteq {"row", "now"} /\ "now" \notin DOMAIN <<>>
    OBVIOUS
  <2> HIDE DEF AcquirePcs, CompletePcs, FencePcs, EvictPcs, ClaimPcs, OrphanPcs, LockedPcs,
               FirstPcs, TargetPcs
  <2> QED
    BY <1>3, <2>1, <2>2, <2>3, <2>4, <2>5, TargetReads
<1>8. CASE kept /\ s.job.kind # "complete"
  <2>1. Moves(p, did, "commit", <<>>)
    BY <1>2, <1>8, MovesNothing
  <2>2. Onward(s, "commit")
    BY <1>1, <1>6, <1>8 DEF Onward, CompleteStays
  <2>3. "commit" \notin TargetPcs
    OBVIOUS
  <2>4. s.pc \in TargetPcs \ {"fence.delete"}
    BY <1>1
  <2>5. DOMAIN <<>> \subseteq {"row", "now"} /\ "now" \notin DOMAIN <<>>
    OBVIOUS
  <2> HIDE DEF AcquirePcs, CompletePcs, FencePcs, EvictPcs, ClaimPcs, OrphanPcs, LockedPcs,
               FirstPcs, TargetPcs
  <2> QED
    BY <1>3, <2>1, <2>2, <2>3, <2>4, <2>5, TargetReads
<1>9. CASE ~kept
  <2>1. Moves(p, did, "fence.enqueue", <<>>)
    BY <1>2, <1>9, MovesNothing
  <2>2. Onward(s, "fence.enqueue")
    BY <1>1, <1>6, <1>9 DEF Onward, CompleteStays
  <2>3. ReadDuty(s, "fence.enqueue", <<>>)
    <3> SUFFICES ASSUME NEW t, ReadAsks(s, t, "fence.enqueue", <<>>)
                 PROVE  /\ KindsOK(t) /\ FenceOK(Now, t) /\ ClaimOK(Now, t)
                        /\ t.pc = "merge.lease" => RequestOK(Now, t)
      BY DEF ReadDuty
    <3>1. /\ t.pc = "fence.enqueue" /\ t.job = s.job /\ t.writes = s.writes /\ Target(t) = Target(s)
          /\ Would(Now, t) = Would(Now, s)
      BY DEF ReadAsks
    <3>2. KindsOK(s) /\ FenceOK(Now, s) /\ ClaimOK(Now, s) /\ RequestOK(Now, s)
      BY PlanParts DEF ReadAsks
    <3>4. s.reg.row = t.reg.row /\ s.reg.now = t.reg.now /\ {"row", "now"} \subseteq DOMAIN t.reg
      BY <1>1, <3>2 DEF ReadAsks, Grown, FenceOK
    <3>20. KindsOK(t)
      BY <1>1, <1>6, <3>1, <3>2 DEF KindsOK
    <3>21. FenceOK(Now, t)
      BY <1>1, <3>1, <3>2, <3>4 DEF FenceOK
    <3>22. ClaimOK(Now, t)
      BY <3>1 DEF ClaimOK
    <3> QED
      BY <3>1, <3>20, <3>21, <3>22
  <2>4. s.pc \in TargetPcs \ {"fence.delete"}
    BY <1>1
  <2>5. DOMAIN <<>> \subseteq {"row", "now"} /\ "now" \notin DOMAIN <<>>
    OBVIOUS
  <2> HIDE DEF AcquirePcs, CompletePcs, FencePcs, EvictPcs, ClaimPcs, OrphanPcs, LockedPcs,
               FirstPcs, TargetPcs
  <2> QED
    BY <1>3, <2>1, <2>2, <2>3, <2>4, <2>5, TargetReads
<1> QED
  BY <1>7, <1>8, <1>9, <1>6

LEMMA RequestOrphanKeeps ==
  ASSUME TransactionInv, NEW p \in Process, RequestOrphan(p)
  PROVE  TransactionInv'
<1> DEFINE s == proc[p]
           where == EntriesOf(proc[p].reg.location)
           x == Matching(View(p), "entry", where) # {}
           did == Read(p, x)
<1>1. s.pc = "request.orphan"
  BY DEF RequestOrphan, At
<1>2. Does(p, did, IF x THEN "commit" ELSE "fence.lock")
  <2>1. ExistEntry(p, where) = did /\ did.result = x
    BY DEF ExistEntry, Exist, Read
  <2> QED
    BY <2>1 DEF RequestOrphan, At
<1>3. s = proc[p] /\ did = Read(p, x)
  OBVIOUS
<1> USE DEF AcquirePcs, CompletePcs, FencePcs, EvictPcs, ClaimPcs, OrphanPcs, LockedPcs,
            FirstPcs, TargetPcs
<1> HIDE DEF s, where, x, did
<1>6. s.job.kind # "complete"
  BY <1>1, <1>3, KindFacts DEF Ours
<1>7. CASE x
  <2>1. Moves(p, did, "commit", <<>>)
    BY <1>2, <1>7, MovesNothing
  <2>2. Onward(s, "commit")
    BY <1>1, <1>6, <1>7 DEF Onward, CompleteStays
  <2>3. "commit" \notin TargetPcs
    OBVIOUS
  <2>4. s.pc \in TargetPcs \ {"fence.delete"}
    BY <1>1
  <2>5. DOMAIN <<>> \subseteq {"row", "now"} /\ "now" \notin DOMAIN <<>>
    OBVIOUS
  <2> HIDE DEF AcquirePcs, CompletePcs, FencePcs, EvictPcs, ClaimPcs, OrphanPcs, LockedPcs,
               FirstPcs, TargetPcs
  <2> QED
    BY <1>3, <2>1, <2>2, <2>3, <2>4, <2>5, TargetReads
<1>8. CASE ~x
  <2>1. Moves(p, did, "fence.lock", <<>>)
    BY <1>2, <1>8, MovesNothing
  <2>2. Onward(s, "fence.lock")
    BY <1>1, <1>6, <1>8 DEF Onward, CompleteStays
  <2>3. ReadDuty(s, "fence.lock", <<>>)
    <3> SUFFICES ASSUME NEW t, ReadAsks(s, t, "fence.lock", <<>>)
                 PROVE  /\ KindsOK(t) /\ FenceOK(Now, t) /\ ClaimOK(Now, t)
                        /\ t.pc = "merge.lease" => RequestOK(Now, t)
      BY DEF ReadDuty
    <3>1. /\ t.pc = "fence.lock" /\ t.job = s.job /\ t.writes = s.writes /\ Target(t) = Target(s)
          /\ Would(Now, t) = Would(Now, s)
      BY DEF ReadAsks
    <3>2. KindsOK(s) /\ FenceOK(Now, s) /\ ClaimOK(Now, s) /\ RequestOK(Now, s)
      BY PlanParts DEF ReadAsks
    <3>20. KindsOK(t)
      BY <1>1, <1>6, <3>1, <3>2 DEF KindsOK
    <3>21. FenceOK(Now, t)
      BY <3>1 DEF FenceOK
    <3>22. ClaimOK(Now, t)
      BY <3>1 DEF ClaimOK
    <3> QED
      BY <3>1, <3>20, <3>21, <3>22
  <2>4. s.pc \in TargetPcs \ {"fence.delete"}
    BY <1>1
  <2>5. DOMAIN <<>> \subseteq {"row", "now"} /\ "now" \notin DOMAIN <<>>
    OBVIOUS
  <2> HIDE DEF AcquirePcs, CompletePcs, FencePcs, EvictPcs, ClaimPcs, OrphanPcs, LockedPcs,
               FirstPcs, TargetPcs
  <2> QED
    BY <1>3, <2>1, <2>2, <2>3, <2>4, <2>5, TargetReads
<1> QED
  BY <1>7, <1>8

LEMMA EvictGetKeeps ==
  ASSUME TransactionInv, NEW p \in Process, EvictGet(p)
  PROVE  TransactionInv'
<1> DEFINE s == proc[p]
           where == {LocationID("EQ", proc[p].reg.location)}
           x == {View(p)[r] : r \in Matching(View(p), "location", where)}
           did == Read(p, x)
           row == TheRow(x)
           reg == [now |-> clock]
<1>1. s.pc = "evict.get"
  BY DEF EvictGet, At
<1>2. Keeps(p, did, IF x = {} THEN "rollback" ELSE "evict.readers", reg)
  <2>1. QueryLocation(p, where) = did /\ did.result = x
    BY DEF QueryLocation, Query, Read
  <2> QED
    BY <2>1 DEF EvictGet, At
<1>3. s = proc[p] /\ did = Read(p, x)
  OBVIOUS
<1>4. DOMAIN reg \subseteq {"row", "now"} /\ ("now" \in DOMAIN reg => reg.now = clock)
  OBVIOUS
<1>5. clock \in Nat
  BY ProcessFacts
<1> USE DEF AcquirePcs, CompletePcs, FencePcs, EvictPcs, ClaimPcs, OrphanPcs, LockedPcs,
            FirstPcs, TargetPcs
<1> HIDE DEF s, where, x, did
<1>6. s.job.kind # "complete"
  BY <1>1, <1>3, KindFacts DEF Ours
<1> HIDE DEF row
<1>7. CASE x = {}
  <2>1. Moves(p, did, "rollback", reg)
    BY <1>2, <1>7 DEF Moves
  <2>2. Onward(s, "rollback")
    BY <1>1, <1>6, <1>7 DEF Onward, CompleteStays
  <2>3. "rollback" \notin TargetPcs
    OBVIOUS
  <2>4. s.pc \in TargetPcs \ {"fence.delete"}
    BY <1>1
  <2>5. DOMAIN reg \subseteq {"row", "now"} /\ ("now" \in DOMAIN reg => reg.now \in Nat)
    BY <1>4, <1>5
  <2> HIDE DEF reg
  <2> HIDE DEF AcquirePcs, CompletePcs, FencePcs, EvictPcs, ClaimPcs, OrphanPcs, LockedPcs,
               FirstPcs, TargetPcs
  <2> QED
    BY <1>3, <2>1, <2>2, <2>3, <2>4, <2>5, TargetReads
<1>8. CASE x # {}
  <2>1. Moves(p, did, "evict.readers", reg)
    BY <1>2, <1>8 DEF Moves
  <2>2. Onward(s, "evict.readers")
    BY <1>1, <1>6, <1>8 DEF Onward, CompleteStays
  <2>3. ReadDuty(s, "evict.readers", reg)
    <3> SUFFICES ASSUME NEW t, ReadAsks(s, t, "evict.readers", reg)
                 PROVE  /\ KindsOK(t) /\ FenceOK(Now, t) /\ ClaimOK(Now, t)
                        /\ t.pc = "merge.lease" => RequestOK(Now, t)
      BY DEF ReadDuty
    <3>1. /\ t.pc = "evict.readers" /\ t.job = s.job /\ t.writes = s.writes /\ Target(t) = Target(s)
          /\ Would(Now, t) = Would(Now, s)
      BY DEF ReadAsks
    <3>2. KindsOK(s) /\ FenceOK(Now, s) /\ ClaimOK(Now, s) /\ RequestOK(Now, s)
      BY PlanParts DEF ReadAsks
    <3>20. KindsOK(t)
      BY <1>1, <1>6, <3>1, <3>2 DEF KindsOK
    <3>21. FenceOK(Now, t)
      BY <3>1 DEF FenceOK
    <3>22. ClaimOK(Now, t)
      BY <3>1 DEF ClaimOK
    <3> QED
      BY <3>1, <3>20, <3>21, <3>22
  <2>4. s.pc \in TargetPcs \ {"fence.delete"}
    BY <1>1
  <2>5. DOMAIN reg \subseteq {"row", "now"} /\ ("now" \in DOMAIN reg => reg.now \in Nat)
    BY <1>4, <1>5
  <2> HIDE DEF reg
  <2> HIDE DEF AcquirePcs, CompletePcs, FencePcs, EvictPcs, ClaimPcs, OrphanPcs, LockedPcs,
               FirstPcs, TargetPcs
  <2> QED
    BY <1>3, <2>1, <2>2, <2>3, <2>4, <2>5, TargetReads
<1> QED
  BY <1>7, <1>8

LEMMA EvictReadersKeeps ==
  ASSUME TransactionInv, NEW p \in Process, EvictReaders(p)
  PROVE  TransactionInv'
<1> DEFINE s == proc[p]
           where == LiveLeasesOf(proc[p].reg.location, proc[p].reg.now)
           x == Matching(View(p), "lease", where) # {}
           did == Read(p, x)
<1>1. s.pc = "evict.readers"
  BY DEF EvictReaders, At
<1>2. Does(p, did, IF x THEN "commit" ELSE "request.detach")
  <2>1. ExistLease(p, where) = did /\ did.result = x
    BY DEF ExistLease, Exist, Read
  <2> QED
    BY <2>1 DEF EvictReaders, At
<1>3. s = proc[p] /\ did = Read(p, x)
  OBVIOUS
<1>5. KindsOK(proc[p])
  <2>1. Open(Now, proc[p])
    BY <1>1, KindFacts DEF Open, Ours, Entitled, CompletePcs, FencePcs
  <2> QED
    BY <2>1, OpenParts, PlanParts
<1> USE DEF AcquirePcs, CompletePcs, FencePcs, EvictPcs, ClaimPcs, OrphanPcs, LockedPcs,
            FirstPcs, TargetPcs
<1> HIDE DEF s, where, x, did
<1>6. s.job.kind # "complete"
  BY <1>1, <1>3, KindFacts DEF Ours
<1>7. CASE x
  <2>1. Moves(p, did, "commit", <<>>)
    BY <1>2, <1>7, MovesNothing
  <2>2. Onward(s, "commit")
    BY <1>1, <1>6, <1>7 DEF Onward, CompleteStays
  <2>3. "commit" \notin TargetPcs
    OBVIOUS
  <2>4. s.pc \in TargetPcs \ {"fence.delete"}
    BY <1>1
  <2>5. DOMAIN <<>> \subseteq {"row", "now"} /\ "now" \notin DOMAIN <<>>
    OBVIOUS
  <2> HIDE DEF AcquirePcs, CompletePcs, FencePcs, EvictPcs, ClaimPcs, OrphanPcs, LockedPcs,
               FirstPcs, TargetPcs
  <2> QED
    BY <1>3, <2>1, <2>2, <2>3, <2>4, <2>5, TargetReads
<1>8. CASE ~x
  <2>1. Moves(p, did, "request.detach", <<>>)
    BY <1>2, <1>8, MovesNothing
  <2>2. Onward(s, "request.detach")
    BY <1>1, <1>3, <1>5, <1>6 DEF KindsOK, Onward, CompleteStays
  <2>3. ReadDuty(s, "request.detach", <<>>)
    <3> SUFFICES ASSUME NEW t, ReadAsks(s, t, "request.detach", <<>>)
                 PROVE  /\ KindsOK(t) /\ FenceOK(Now, t) /\ ClaimOK(Now, t)
                        /\ t.pc = "merge.lease" => RequestOK(Now, t)
      BY DEF ReadDuty
    <3>1. /\ t.pc = "request.detach" /\ t.job = s.job /\ t.writes = s.writes /\
               Target(t) = Target(s)
          /\ Would(Now, t) = Would(Now, s)
      BY DEF ReadAsks
    <3>2. KindsOK(s) /\ FenceOK(Now, s) /\ ClaimOK(Now, s) /\ RequestOK(Now, s)
      BY PlanParts DEF ReadAsks
    <3>20. KindsOK(t)
      BY <1>1, <1>6, <3>1, <3>2 DEF KindsOK
    <3>21. FenceOK(Now, t)
      BY <3>1 DEF FenceOK
    <3>22. ClaimOK(Now, t)
      BY <3>1 DEF ClaimOK
    <3> QED
      BY <3>1, <3>20, <3>21, <3>22
  <2>4. s.pc \in TargetPcs \ {"fence.delete"}
    BY <1>1
  <2>5. DOMAIN <<>> \subseteq {"row", "now"} /\ "now" \notin DOMAIN <<>>
    OBVIOUS
  <2> HIDE DEF AcquirePcs, CompletePcs, FencePcs, EvictPcs, ClaimPcs, OrphanPcs, LockedPcs,
               FirstPcs, TargetPcs
  <2> QED
    BY <1>3, <2>1, <2>2, <2>3, <2>4, <2>5, TargetReads
<1> QED
  BY <1>7, <1>8

LEMMA ExpireLocationKeeps ==
  ASSUME TransactionInv, NEW p \in Process, ExpireLocation(p)
  PROVE  TransactionInv'
<1> DEFINE s == proc[p]
           where == {LocationID("EQ", proc[p].reg.location)}
           x == {View(p)[r] : r \in Matching(View(p), "location", where)}
           did == Read(p, x)
           row == TheRow(x)
           reg == [now |-> clock]
<1>1. s.pc = "expire.location"
  BY DEF ExpireLocation, At
<1>2. Keeps(p, did, IF x = {} THEN "rollback"
                  ELSE IF row.lastDownloadedAt # Null /\ row.lastDownloadedAt >= s.job.cutoff
                       THEN "commit" ELSE "expire.entries", reg)
  <2>1. QueryLocation(p, where) = did /\ did.result = x
    BY DEF QueryLocation, Query, Read
  <2> QED
    BY <2>1 DEF ExpireLocation, At
<1>3. s = proc[p] /\ did = Read(p, x)
  OBVIOUS
<1>4. DOMAIN reg \subseteq {"row", "now"} /\ ("now" \in DOMAIN reg => reg.now = clock)
  OBVIOUS
<1>5. clock \in Nat
  BY ProcessFacts
<1> USE DEF AcquirePcs, CompletePcs, FencePcs, EvictPcs, ClaimPcs, OrphanPcs, LockedPcs,
            FirstPcs, TargetPcs
<1> HIDE DEF s, where, x, did
<1>6. s.job.kind # "complete"
  BY <1>1, <1>3, KindFacts DEF Ours
<1> HIDE DEF row
<1>7. CASE x = {}
  <2>1. Moves(p, did, "rollback", reg)
    BY <1>2, <1>7 DEF Moves
  <2>2. Onward(s, "rollback")
    BY <1>1, <1>6, <1>7 DEF Onward, CompleteStays
  <2>3. "rollback" \notin TargetPcs
    OBVIOUS
  <2>4. s.pc \in TargetPcs \ {"fence.delete"}
    BY <1>1
  <2>5. DOMAIN reg \subseteq {"row", "now"} /\ ("now" \in DOMAIN reg => reg.now \in Nat)
    BY <1>4, <1>5
  <2> HIDE DEF reg
  <2> HIDE DEF AcquirePcs, CompletePcs, FencePcs, EvictPcs, ClaimPcs, OrphanPcs, LockedPcs,
               FirstPcs, TargetPcs
  <2> QED
    BY <1>3, <2>1, <2>2, <2>3, <2>4, <2>5, TargetReads
<1>8. CASE x # {} /\ (row.lastDownloadedAt # Null /\ row.lastDownloadedAt >= s.job.cutoff)
  <2>1. Moves(p, did, "commit", reg)
    BY <1>2, <1>8 DEF Moves
  <2>2. Onward(s, "commit")
    BY <1>1, <1>6, <1>8 DEF Onward, CompleteStays
  <2>3. "commit" \notin TargetPcs
    OBVIOUS
  <2>4. s.pc \in TargetPcs \ {"fence.delete"}
    BY <1>1
  <2>5. DOMAIN reg \subseteq {"row", "now"} /\ ("now" \in DOMAIN reg => reg.now \in Nat)
    BY <1>4, <1>5
  <2> HIDE DEF reg
  <2> HIDE DEF AcquirePcs, CompletePcs, FencePcs, EvictPcs, ClaimPcs, OrphanPcs, LockedPcs,
               FirstPcs, TargetPcs
  <2> QED
    BY <1>3, <2>1, <2>2, <2>3, <2>4, <2>5, TargetReads
<1>9. CASE x # {} /\ ~(row.lastDownloadedAt # Null /\ row.lastDownloadedAt >= s.job.cutoff)
  <2>1. Moves(p, did, "expire.entries", reg)
    BY <1>2, <1>9 DEF Moves
  <2>2. Onward(s, "expire.entries")
    BY <1>1, <1>6, <1>9 DEF Onward, CompleteStays
  <2>3. ReadDuty(s, "expire.entries", reg)
    <3> SUFFICES ASSUME NEW t, ReadAsks(s, t, "expire.entries", reg)
                 PROVE  /\ KindsOK(t) /\ FenceOK(Now, t) /\ ClaimOK(Now, t)
                        /\ t.pc = "merge.lease" => RequestOK(Now, t)
      BY DEF ReadDuty
    <3>1. /\ t.pc = "expire.entries" /\ t.job = s.job /\ t.writes = s.writes /\
               Target(t) = Target(s)
          /\ Would(Now, t) = Would(Now, s)
      BY DEF ReadAsks
    <3>2. KindsOK(s) /\ FenceOK(Now, s) /\ ClaimOK(Now, s) /\ RequestOK(Now, s)
      BY PlanParts DEF ReadAsks
    <3>20. KindsOK(t)
      BY <1>1, <1>6, <3>1, <3>2 DEF KindsOK
    <3>21. FenceOK(Now, t)
      BY <3>1 DEF FenceOK
    <3>22. ClaimOK(Now, t)
      BY <3>1 DEF ClaimOK
    <3> QED
      BY <3>1, <3>20, <3>21, <3>22
  <2>4. s.pc \in TargetPcs \ {"fence.delete"}
    BY <1>1
  <2>5. DOMAIN reg \subseteq {"row", "now"} /\ ("now" \in DOMAIN reg => reg.now \in Nat)
    BY <1>4, <1>5
  <2> HIDE DEF reg
  <2> HIDE DEF AcquirePcs, CompletePcs, FencePcs, EvictPcs, ClaimPcs, OrphanPcs, LockedPcs,
               FirstPcs, TargetPcs
  <2> QED
    BY <1>3, <2>1, <2>2, <2>3, <2>4, <2>5, TargetReads
<1> QED
  BY <1>7, <1>8, <1>9

LEMMA ExpireEntriesKeeps ==
  ASSUME TransactionInv, NEW p \in Process, ExpireEntries(p)
  PROVE  TransactionInv'
<1> DEFINE s == proc[p]
           where == EntriesOf(proc[p].reg.location)
           x == Matching(View(p), "entry", where) # {}
           did == Read(p, x)
<1>1. s.pc = "expire.entries"
  BY DEF ExpireEntries, At
<1>2. Does(p, did, IF x THEN "expire.recent" ELSE "commit")
  <2>1. ExistEntry(p, where) = did /\ did.result = x
    BY DEF ExistEntry, Exist, Read
  <2> QED
    BY <2>1 DEF ExpireEntries, At
<1>3. s = proc[p] /\ did = Read(p, x)
  OBVIOUS
<1> USE DEF AcquirePcs, CompletePcs, FencePcs, EvictPcs, ClaimPcs, OrphanPcs, LockedPcs,
            FirstPcs, TargetPcs
<1> HIDE DEF s, where, x, did
<1>6. s.job.kind # "complete"
  BY <1>1, <1>3, KindFacts DEF Ours
<1>7. CASE x
  <2>1. Moves(p, did, "expire.recent", <<>>)
    BY <1>2, <1>7, MovesNothing
  <2>2. Onward(s, "expire.recent")
    BY <1>1, <1>6, <1>7 DEF Onward, CompleteStays
  <2>3. ReadDuty(s, "expire.recent", <<>>)
    <3> SUFFICES ASSUME NEW t, ReadAsks(s, t, "expire.recent", <<>>)
                 PROVE  /\ KindsOK(t) /\ FenceOK(Now, t) /\ ClaimOK(Now, t)
                        /\ t.pc = "merge.lease" => RequestOK(Now, t)
      BY DEF ReadDuty
    <3>1. /\ t.pc = "expire.recent" /\ t.job = s.job /\ t.writes = s.writes /\ Target(t) = Target(s)
          /\ Would(Now, t) = Would(Now, s)
      BY DEF ReadAsks
    <3>2. KindsOK(s) /\ FenceOK(Now, s) /\ ClaimOK(Now, s) /\ RequestOK(Now, s)
      BY PlanParts DEF ReadAsks
    <3>20. KindsOK(t)
      BY <1>1, <1>6, <3>1, <3>2 DEF KindsOK
    <3>21. FenceOK(Now, t)
      BY <3>1 DEF FenceOK
    <3>22. ClaimOK(Now, t)
      BY <3>1 DEF ClaimOK
    <3> QED
      BY <3>1, <3>20, <3>21, <3>22
  <2>4. s.pc \in TargetPcs \ {"fence.delete"}
    BY <1>1
  <2>5. DOMAIN <<>> \subseteq {"row", "now"} /\ "now" \notin DOMAIN <<>>
    OBVIOUS
  <2> HIDE DEF AcquirePcs, CompletePcs, FencePcs, EvictPcs, ClaimPcs, OrphanPcs, LockedPcs,
               FirstPcs, TargetPcs
  <2> QED
    BY <1>3, <2>1, <2>2, <2>3, <2>4, <2>5, TargetReads
<1>8. CASE ~x
  <2>1. Moves(p, did, "commit", <<>>)
    BY <1>2, <1>8, MovesNothing
  <2>2. Onward(s, "commit")
    BY <1>1, <1>6, <1>8 DEF Onward, CompleteStays
  <2>3. "commit" \notin TargetPcs
    OBVIOUS
  <2>4. s.pc \in TargetPcs \ {"fence.delete"}
    BY <1>1
  <2>5. DOMAIN <<>> \subseteq {"row", "now"} /\ "now" \notin DOMAIN <<>>
    OBVIOUS
  <2> HIDE DEF AcquirePcs, CompletePcs, FencePcs, EvictPcs, ClaimPcs, OrphanPcs, LockedPcs,
               FirstPcs, TargetPcs
  <2> QED
    BY <1>3, <2>1, <2>2, <2>3, <2>4, <2>5, TargetReads
<1> QED
  BY <1>7, <1>8

LEMMA ExpireRecentKeeps ==
  ASSUME TransactionInv, NEW p \in Process, ExpireRecent(p)
  PROVE  TransactionInv'
<1> DEFINE s == proc[p]
           where == EntriesOf(proc[p].reg.location)
                      \cup {EntryUpdatedAt("GTE", proc[p].job.cutoff)}
           x == Matching(View(p), "entry", where) # {}
           did == Read(p, x)
<1>1. s.pc = "expire.recent"
  BY DEF ExpireRecent, At
<1>2. Does(p, did, IF x THEN "commit" ELSE "expire.readers")
  <2>1. ExistEntry(p, where) = did /\ did.result = x
    BY DEF ExistEntry, Exist, Read
  <2> QED
    BY <2>1 DEF ExpireRecent, At
<1>3. s = proc[p] /\ did = Read(p, x)
  OBVIOUS
<1> USE DEF AcquirePcs, CompletePcs, FencePcs, EvictPcs, ClaimPcs, OrphanPcs, LockedPcs,
            FirstPcs, TargetPcs
<1> HIDE DEF s, where, x, did
<1>6. s.job.kind # "complete"
  BY <1>1, <1>3, KindFacts DEF Ours
<1>7. CASE x
  <2>1. Moves(p, did, "commit", <<>>)
    BY <1>2, <1>7, MovesNothing
  <2>2. Onward(s, "commit")
    BY <1>1, <1>6, <1>7 DEF Onward, CompleteStays
  <2>3. "commit" \notin TargetPcs
    OBVIOUS
  <2>4. s.pc \in TargetPcs \ {"fence.delete"}
    BY <1>1
  <2>5. DOMAIN <<>> \subseteq {"row", "now"} /\ "now" \notin DOMAIN <<>>
    OBVIOUS
  <2> HIDE DEF AcquirePcs, CompletePcs, FencePcs, EvictPcs, ClaimPcs, OrphanPcs, LockedPcs,
               FirstPcs, TargetPcs
  <2> QED
    BY <1>3, <2>1, <2>2, <2>3, <2>4, <2>5, TargetReads
<1>8. CASE ~x
  <2>1. Moves(p, did, "expire.readers", <<>>)
    BY <1>2, <1>8, MovesNothing
  <2>2. Onward(s, "expire.readers")
    BY <1>1, <1>6, <1>8 DEF Onward, CompleteStays
  <2>3. ReadDuty(s, "expire.readers", <<>>)
    <3> SUFFICES ASSUME NEW t, ReadAsks(s, t, "expire.readers", <<>>)
                 PROVE  /\ KindsOK(t) /\ FenceOK(Now, t) /\ ClaimOK(Now, t)
                        /\ t.pc = "merge.lease" => RequestOK(Now, t)
      BY DEF ReadDuty
    <3>1. /\ t.pc = "expire.readers" /\ t.job = s.job /\ t.writes = s.writes /\
               Target(t) = Target(s)
          /\ Would(Now, t) = Would(Now, s)
      BY DEF ReadAsks
    <3>2. KindsOK(s) /\ FenceOK(Now, s) /\ ClaimOK(Now, s) /\ RequestOK(Now, s)
      BY PlanParts DEF ReadAsks
    <3>20. KindsOK(t)
      BY <1>1, <1>6, <3>1, <3>2 DEF KindsOK
    <3>21. FenceOK(Now, t)
      BY <3>1 DEF FenceOK
    <3>22. ClaimOK(Now, t)
      BY <3>1 DEF ClaimOK
    <3> QED
      BY <3>1, <3>20, <3>21, <3>22
  <2>4. s.pc \in TargetPcs \ {"fence.delete"}
    BY <1>1
  <2>5. DOMAIN <<>> \subseteq {"row", "now"} /\ "now" \notin DOMAIN <<>>
    OBVIOUS
  <2> HIDE DEF AcquirePcs, CompletePcs, FencePcs, EvictPcs, ClaimPcs, OrphanPcs, LockedPcs,
               FirstPcs, TargetPcs
  <2> QED
    BY <1>3, <2>1, <2>2, <2>3, <2>4, <2>5, TargetReads
<1> QED
  BY <1>7, <1>8

LEMMA ExpireReadersKeeps ==
  ASSUME TransactionInv, NEW p \in Process, ExpireReaders(p)
  PROVE  TransactionInv'
<1> DEFINE s == proc[p]
           where == LiveLeasesOf(proc[p].reg.location, proc[p].reg.now)
           x == Matching(View(p), "lease", where) # {}
           did == Read(p, x)
<1>1. s.pc = "expire.readers"
  BY DEF ExpireReaders, At
<1>2. Does(p, did, IF x THEN "commit" ELSE "request.detach")
  <2>1. ExistLease(p, where) = did /\ did.result = x
    BY DEF ExistLease, Exist, Read
  <2> QED
    BY <2>1 DEF ExpireReaders, At
<1>3. s = proc[p] /\ did = Read(p, x)
  OBVIOUS
<1>5. KindsOK(proc[p])
  <2>1. Open(Now, proc[p])
    BY <1>1, KindFacts DEF Open, Ours, Entitled, CompletePcs, FencePcs
  <2> QED
    BY <2>1, OpenParts, PlanParts
<1> USE DEF AcquirePcs, CompletePcs, FencePcs, EvictPcs, ClaimPcs, OrphanPcs, LockedPcs,
            FirstPcs, TargetPcs
<1> HIDE DEF s, where, x, did
<1>6. s.job.kind # "complete"
  BY <1>1, <1>3, KindFacts DEF Ours
<1>7. CASE x
  <2>1. Moves(p, did, "commit", <<>>)
    BY <1>2, <1>7, MovesNothing
  <2>2. Onward(s, "commit")
    BY <1>1, <1>6, <1>7 DEF Onward, CompleteStays
  <2>3. "commit" \notin TargetPcs
    OBVIOUS
  <2>4. s.pc \in TargetPcs \ {"fence.delete"}
    BY <1>1
  <2>5. DOMAIN <<>> \subseteq {"row", "now"} /\ "now" \notin DOMAIN <<>>
    OBVIOUS
  <2> HIDE DEF AcquirePcs, CompletePcs, FencePcs, EvictPcs, ClaimPcs, OrphanPcs, LockedPcs,
               FirstPcs, TargetPcs
  <2> QED
    BY <1>3, <2>1, <2>2, <2>3, <2>4, <2>5, TargetReads
<1>8. CASE ~x
  <2>1. Moves(p, did, "request.detach", <<>>)
    BY <1>2, <1>8, MovesNothing
  <2>2. Onward(s, "request.detach")
    BY <1>1, <1>3, <1>5, <1>6 DEF KindsOK, Onward, CompleteStays
  <2>3. ReadDuty(s, "request.detach", <<>>)
    <3> SUFFICES ASSUME NEW t, ReadAsks(s, t, "request.detach", <<>>)
                 PROVE  /\ KindsOK(t) /\ FenceOK(Now, t) /\ ClaimOK(Now, t)
                        /\ t.pc = "merge.lease" => RequestOK(Now, t)
      BY DEF ReadDuty
    <3>1. /\ t.pc = "request.detach" /\ t.job = s.job /\ t.writes = s.writes /\
               Target(t) = Target(s)
          /\ Would(Now, t) = Would(Now, s)
      BY DEF ReadAsks
    <3>2. KindsOK(s) /\ FenceOK(Now, s) /\ ClaimOK(Now, s) /\ RequestOK(Now, s)
      BY PlanParts DEF ReadAsks
    <3>20. KindsOK(t)
      BY <1>1, <1>6, <3>1, <3>2 DEF KindsOK
    <3>21. FenceOK(Now, t)
      BY <3>1 DEF FenceOK
    <3>22. ClaimOK(Now, t)
      BY <3>1 DEF ClaimOK
    <3> QED
      BY <3>1, <3>20, <3>21, <3>22
  <2>4. s.pc \in TargetPcs \ {"fence.delete"}
    BY <1>1
  <2>5. DOMAIN <<>> \subseteq {"row", "now"} /\ "now" \notin DOMAIN <<>>
    OBVIOUS
  <2> HIDE DEF AcquirePcs, CompletePcs, FencePcs, EvictPcs, ClaimPcs, OrphanPcs, LockedPcs,
               FirstPcs, TargetPcs
  <2> QED
    BY <1>3, <2>1, <2>2, <2>3, <2>4, <2>5, TargetReads
<1> QED
  BY <1>7, <1>8

LEMMA ClaimLocationKeeps ==
  ASSUME TransactionInv, NEW p \in Process, ClaimLocation(p)
  PROVE  TransactionInv'
<1> DEFINE s == proc[p]
           where == {LocationID("EQ", proc[p].reg.location)}
           x == {View(p)[r] : r \in Matching(View(p), "location", where)}
           did == Read(p, x)
           row == TheRow(x)
           reg == [row |-> row, now |-> clock]
<1>1. s.pc = "claim.location"
  BY DEF ClaimLocation, At
<1>2. IF x = {} THEN Does(p, did, "rollback") ELSE Keeps(p, did, "claim.leases", reg)
  <2>1. QueryLocation(p, where) = did /\ did.result = x
    BY DEF QueryLocation, Query, Read
  <2> QED
    BY <2>1 DEF ClaimLocation, At
<1>3. s = proc[p] /\ did = Read(p, x)
  OBVIOUS
<1>4. DOMAIN reg \subseteq {"row", "now"} /\ ("now" \in DOMAIN reg => reg.now = clock)
  OBVIOUS
<1>5. clock \in Nat
  BY ProcessFacts
<1> USE DEF AcquirePcs, CompletePcs, FencePcs, EvictPcs, ClaimPcs, OrphanPcs, LockedPcs,
            FirstPcs, TargetPcs
<1> HIDE DEF s, where, x, did
<1>6. s.job.kind # "complete"
  BY <1>1, <1>3, KindFacts DEF Ours
<1> HIDE DEF row
<1>7. CASE x = {}
  <2>1. Moves(p, did, "rollback", <<>>)
    BY <1>2, <1>7, MovesNothing
  <2>2. Onward(s, "rollback")
    BY <1>1, <1>6, <1>7 DEF Onward, CompleteStays
  <2>3. "rollback" \notin TargetPcs
    OBVIOUS
  <2>4. s.pc \in TargetPcs \ {"fence.delete"}
    BY <1>1
  <2>5. DOMAIN <<>> \subseteq {"row", "now"} /\ "now" \notin DOMAIN <<>>
    OBVIOUS
  <2> HIDE DEF AcquirePcs, CompletePcs, FencePcs, EvictPcs, ClaimPcs, OrphanPcs, LockedPcs,
               FirstPcs, TargetPcs
  <2> QED
    BY <1>3, <2>1, <2>2, <2>3, <2>4, <2>5, TargetReads
<1>8. CASE x # {}
  <2>1. Moves(p, did, "claim.leases", reg)
    BY <1>2, <1>8 DEF Moves
  <2>2. Onward(s, "claim.leases")
    BY <1>1, <1>6, <1>8 DEF Onward, CompleteStays
  <2>3. ReadDuty(s, "claim.leases", reg)
    <3> SUFFICES ASSUME NEW t, ReadAsks(s, t, "claim.leases", reg)
                 PROVE  /\ KindsOK(t) /\ FenceOK(Now, t) /\ ClaimOK(Now, t)
                        /\ t.pc = "merge.lease" => RequestOK(Now, t)
      BY DEF ReadDuty
    <3>1. /\ t.pc = "claim.leases" /\ t.job = s.job /\ t.writes = s.writes /\ Target(t) = Target(s)
          /\ Would(Now, t) = Would(Now, s)
      BY DEF ReadAsks
    <3>2. KindsOK(s) /\ FenceOK(Now, s) /\ ClaimOK(Now, s) /\ RequestOK(Now, s)
      BY PlanParts DEF ReadAsks
    <3>4. Open(Now, s) /\ s.pc \in LockedPcs
      BY <1>1 DEF ReadAsks
    <3>5. TheRow(x) = s.writes[Target(s)] /\ LocationOK(s.writes[Target(s)])
      BY <1>3, <3>4, TargetSeen, TargetHeld DEF x, where
    <3>6. {"row", "now"} \subseteq DOMAIN t.reg /\ t.reg.row = row /\ t.reg.now \in Nat
      BY <1>5 DEF ReadAsks, Grown
    <3>7. row = s.writes[Target(s)]
      BY <3>5 DEF row
    <3>8. row.folderName[1] \in Upload /\ UploadOf(row.folderName) \in Now.issued
      BY <1>3, <3>4, <3>5, <3>7, TargetHeld, Referred, StateFields DEF LocationOK
    <3>9. s.writes[Target(s)].mergedAt # Null
      BY <1>1, <3>2 DEF ClaimOK
    <3>20. KindsOK(t)
      BY <1>1, <1>6, <3>1, <3>2 DEF KindsOK
    <3>21. FenceOK(Now, t)
      BY <3>1 DEF FenceOK
    <3>22. ClaimOK(Now, t)
      BY <3>1, <3>6, <3>8, <3>9 DEF ClaimOK
    <3> QED
      BY <3>1, <3>20, <3>21, <3>22
  <2>4. s.pc \in TargetPcs \ {"fence.delete"}
    BY <1>1
  <2>5. DOMAIN reg \subseteq {"row", "now"} /\ ("now" \in DOMAIN reg => reg.now \in Nat)
    BY <1>4, <1>5
  <2> HIDE DEF reg
  <2> HIDE DEF AcquirePcs, CompletePcs, FencePcs, EvictPcs, ClaimPcs, OrphanPcs, LockedPcs,
               FirstPcs, TargetPcs
  <2> QED
    BY <1>3, <2>1, <2>2, <2>3, <2>4, <2>5, TargetReads
<1> QED
  BY <1>7, <1>8

LEMMA ClaimReadersKeeps ==
  ASSUME TransactionInv, NEW p \in Process, ClaimReaders(p)
  PROVE  TransactionInv'
<1> DEFINE s == proc[p]
           where == PartsLeases \cup LiveLeasesOf(proc[p].reg.location, proc[p].reg.now)
           x == Matching(View(p), "lease", where) # {}
           did == Read(p, x)
<1>1. s.pc = "claim.readers"
  BY DEF ClaimReaders, At
<1>2. Does(p, did, IF x THEN "commit" ELSE "claim.enqueue")
  <2>1. ExistLease(p, where) = did /\ did.result = x
    BY DEF ExistLease, Exist, Read
  <2> QED
    BY <2>1 DEF ClaimReaders, At
<1>3. s = proc[p] /\ did = Read(p, x)
  OBVIOUS
<1> USE DEF AcquirePcs, CompletePcs, FencePcs, EvictPcs, ClaimPcs, OrphanPcs, LockedPcs,
            FirstPcs, TargetPcs
<1> HIDE DEF s, where, x, did
<1>6. s.job.kind # "complete"
  BY <1>1, <1>3, KindFacts DEF Ours
<1>7. CASE x
  <2>1. Moves(p, did, "commit", <<>>)
    BY <1>2, <1>7, MovesNothing
  <2>2. Onward(s, "commit")
    BY <1>1, <1>6, <1>7 DEF Onward, CompleteStays
  <2>3. "commit" \notin TargetPcs
    OBVIOUS
  <2>4. s.pc \in TargetPcs \ {"fence.delete"}
    BY <1>1
  <2>5. DOMAIN <<>> \subseteq {"row", "now"} /\ "now" \notin DOMAIN <<>>
    OBVIOUS
  <2> HIDE DEF AcquirePcs, CompletePcs, FencePcs, EvictPcs, ClaimPcs, OrphanPcs, LockedPcs,
               FirstPcs, TargetPcs
  <2> QED
    BY <1>3, <2>1, <2>2, <2>3, <2>4, <2>5, TargetReads
<1>8. CASE ~x
  <2>1. Moves(p, did, "claim.enqueue", <<>>)
    BY <1>2, <1>8, MovesNothing
  <2>2. Onward(s, "claim.enqueue")
    BY <1>1, <1>6, <1>8 DEF Onward, CompleteStays
  <2>3. ReadDuty(s, "claim.enqueue", <<>>)
    <3> SUFFICES ASSUME NEW t, ReadAsks(s, t, "claim.enqueue", <<>>)
                 PROVE  /\ KindsOK(t) /\ FenceOK(Now, t) /\ ClaimOK(Now, t)
                        /\ t.pc = "merge.lease" => RequestOK(Now, t)
      BY DEF ReadDuty
    <3>1. /\ t.pc = "claim.enqueue" /\ t.job = s.job /\ t.writes = s.writes /\ Target(t) = Target(s)
          /\ Would(Now, t) = Would(Now, s)
      BY DEF ReadAsks
    <3>2. KindsOK(s) /\ FenceOK(Now, s) /\ ClaimOK(Now, s) /\ RequestOK(Now, s)
      BY PlanParts DEF ReadAsks
    <3>4. Open(Now, s) /\ s.pc \in LockedPcs
      BY <1>1 DEF ReadAsks
    <3>5. Now.engine # "mysql" => Unread(Would(Now, s), Target(s))
      BY <1>1, <1>3, <1>8, <3>4, UnreadSeen, StateFields DEF x, where
    <3>6. s.reg.row = t.reg.row /\ s.reg.now = t.reg.now /\ {"row", "now"} \subseteq DOMAIN t.reg
      BY <1>1, <3>2 DEF ReadAsks, Grown, ClaimOK
    <3>20. KindsOK(t)
      BY <1>1, <1>6, <3>1, <3>2 DEF KindsOK
    <3>21. FenceOK(Now, t)
      BY <3>1 DEF FenceOK
    <3>22. ClaimOK(Now, t)
      BY <1>1, <3>1, <3>2, <3>5, <3>6 DEF ClaimOK
    <3> QED
      BY <3>1, <3>20, <3>21, <3>22
  <2>4. s.pc \in TargetPcs \ {"fence.delete"}
    BY <1>1
  <2>5. DOMAIN <<>> \subseteq {"row", "now"} /\ "now" \notin DOMAIN <<>>
    OBVIOUS
  <2> HIDE DEF AcquirePcs, CompletePcs, FencePcs, EvictPcs, ClaimPcs, OrphanPcs, LockedPcs,
               FirstPcs, TargetPcs
  <2> QED
    BY <1>3, <2>1, <2>2, <2>3, <2>4, <2>5, TargetReads
<1> QED
  BY <1>7, <1>8

LEMMA MergeLocationKeeps ==
  ASSUME TransactionInv, NEW p \in Process, MergeLocation(p)
  PROVE  TransactionInv'
<1> DEFINE s == proc[p]
           where == {LocationID("EQ", proc[p].reg.location)}
           x == {View(p)[r] : r \in Matching(View(p), "location", where)}
           did == Read(p, x)
           refused == \A row \in x :
                        \/ row.partCount < 2 \/ row.mergedAt # Null
                        \/ row.materializationUnsupportedAt # Null \/ row.partsDeletedAt # Null
                        \/ ActiveMaterialization(row, clock)
           reg == [now |-> clock]
<1>1. s.pc = "merge.location"
  BY DEF MergeLocation, At
<1>2. Keeps(p, did, IF refused THEN "rollback" ELSE "merge.lease", reg)
  <2>1. QueryLocation(p, where) = did /\ did.result = x
    BY DEF QueryLocation, Query, Read
  <2> QED
    BY <2>1 DEF MergeLocation, At
<1>3. s = proc[p] /\ did = Read(p, x)
  OBVIOUS
<1>4. DOMAIN reg \subseteq {"row", "now"} /\ ("now" \in DOMAIN reg => reg.now = clock)
  OBVIOUS
<1>5. clock \in Nat
  BY ProcessFacts
<1> USE DEF AcquirePcs, CompletePcs, FencePcs, EvictPcs, ClaimPcs, OrphanPcs, LockedPcs,
            FirstPcs, TargetPcs
<1> HIDE DEF s, where, x, did, refused
<1>6. s.job.kind # "complete"
  BY <1>1, <1>3, KindFacts DEF Ours
<1>7. CASE refused
  <2>1. Moves(p, did, "rollback", reg)
    BY <1>2, <1>7 DEF Moves
  <2>2. Onward(s, "rollback")
    BY <1>1, <1>6, <1>7 DEF Onward, CompleteStays
  <2>3. "rollback" \notin TargetPcs
    OBVIOUS
  <2>4. s.pc \in TargetPcs \ {"fence.delete"}
    BY <1>1
  <2>5. DOMAIN reg \subseteq {"row", "now"} /\ ("now" \in DOMAIN reg => reg.now \in Nat)
    BY <1>4, <1>5
  <2> HIDE DEF reg
  <2> HIDE DEF AcquirePcs, CompletePcs, FencePcs, EvictPcs, ClaimPcs, OrphanPcs, LockedPcs,
               FirstPcs, TargetPcs
  <2> QED
    BY <1>3, <2>1, <2>2, <2>3, <2>4, <2>5, TargetReads
<1>8. CASE ~refused
  <2>1. Moves(p, did, "merge.lease", reg)
    BY <1>2, <1>8 DEF Moves
  <2>2. Onward(s, "merge.lease")
    BY <1>1, <1>6, <1>8 DEF Onward, CompleteStays
  <2>3. ReadDuty(s, "merge.lease", reg)
    <3> SUFFICES ASSUME NEW t, ReadAsks(s, t, "merge.lease", reg)
                 PROVE  /\ KindsOK(t) /\ FenceOK(Now, t) /\ ClaimOK(Now, t)
                        /\ t.pc = "merge.lease" => RequestOK(Now, t)
      BY DEF ReadDuty
    <3>1. /\ t.pc = "merge.lease" /\ t.job = s.job /\ t.writes = s.writes /\ Target(t) = Target(s)
          /\ Would(Now, t) = Would(Now, s)
      BY DEF ReadAsks
    <3>2. KindsOK(s) /\ FenceOK(Now, s) /\ ClaimOK(Now, s) /\ RequestOK(Now, s)
      BY PlanParts DEF ReadAsks
    <3>4. Open(Now, s) /\ s.pc \in LockedPcs
      BY <1>1 DEF ReadAsks
    <3>5. x = {s.writes[Target(s)]}
      BY <1>3, <3>4, TargetSeen, SMTT(30) DEF x, where
    <3>51. LocationOK(s.writes[Target(s)])
      BY <1>3, <3>4, TargetHeld
    <3>6. "now" \in DOMAIN t.reg /\ t.reg.now \in Nat
      BY <1>5 DEF ReadAsks, Grown
    <3>7. /\ Mergeable(s.writes[Target(s)]) /\ s.writes[Target(s)].mergedAt = Null
      <4> DEFINE old == s.writes[Target(s)]
      <4>1. /\ ~(old.partCount < 2) /\ old.mergedAt = Null
            /\ old.materializationUnsupportedAt = Null
        BY <1>8, <3>5 DEF refused
      <4>2. old.partCount \in Nat
        BY <3>51 DEF LocationOK
      <4> QED
        BY <4>1, <4>2 DEF Mergeable
    <3>20. KindsOK(t)
      BY <1>1, <1>6, <3>1, <3>2 DEF KindsOK
    <3>21. FenceOK(Now, t)
      BY <3>1 DEF FenceOK
    <3>22. ClaimOK(Now, t)
      BY <3>1 DEF ClaimOK
    <3>23. RequestOK(Now, t)
      BY <1>1, <3>1, <3>2, <3>6, <3>7 DEF RequestOK, KindsOK
    <3> QED
      BY <3>20, <3>21, <3>22, <3>23
  <2>4. s.pc \in TargetPcs \ {"fence.delete"}
    BY <1>1
  <2>5. DOMAIN reg \subseteq {"row", "now"} /\ ("now" \in DOMAIN reg => reg.now \in Nat)
    BY <1>4, <1>5
  <2> HIDE DEF reg
  <2> HIDE DEF AcquirePcs, CompletePcs, FencePcs, EvictPcs, ClaimPcs, OrphanPcs, LockedPcs,
               FirstPcs, TargetPcs
  <2> QED
    BY <1>3, <2>1, <2>2, <2>3, <2>4, <2>5, TargetReads
<1> QED
  BY <1>7, <1>8

-----------------------------------------------------------------------------
(* The reads of acquireReaderOnce and of the claim of an orphaned folder.    *)

OtherAsks(p, s, t, pc, reg) ==
  /\ Open(Now, s) /\ PlanInv(Now, s) /\ RowsOK(Now, s) /\ SnapOK(Now, s)
  /\ DOMAIN s.writes = {} /\ t.writes = s.writes
  /\ t.pc = pc /\ t.job = s.job /\ Grown(t.reg, reg, s.reg)
  /\ t.snap = (IF engine = "mysql" THEN Snapshot(p) ELSE s.snap)
OtherDuty(p, s, pc, reg) ==
  \A t : OtherAsks(p, s, t, pc, reg) => KindsOK(t) /\ AcquireOK(Now, t) /\ UploadsOK(Now, t)
OtherPcs == {"acquire", "acquire.location", "orphan", "orphan.locations", "orphan.deletions"}
OtherNext == {"acquire.location", "acquire.lock", "acquire.create", "orphan.locations",
              "orphan.deletions", "orphan.enqueue"}

LEMMA OtherReads ==
  ASSUME TransactionInv, NEW p \in Process, NEW s, s = proc[p], NEW x, NEW did, did = Read(p, x),
         NEW pc, NEW reg, Moves(p, did, pc, reg), s.pc \in OtherPcs,
         pc \in OtherNext \cup {"commit", "rollback"},
         pc \in OtherNext => OtherDuty(p, s, pc, reg)
  PROVE  TransactionInv'
<1> USE DEF AcquirePcs, CompletePcs, FencePcs, EvictPcs, ClaimPcs, OrphanPcs, LockedPcs, FirstPcs,
            TargetPcs, OtherPcs, OtherNext
<1>1. DOMAIN did.state = DOMAIN Idle /\ did.state.reg = s.reg /\ did.waits = {}
  BY ReadFacts
<1>2. Ours(s) /\ s.pc \notin {"complete", "fence.delete", "abandon.enqueue", "commit"}
  BY DEF Ours
<1>3. pc \notin {"idle", "complete"}
  OBVIOUS
<1>4. s.job.kind # "complete"
  BY <1>2, KindFacts
<1>5. ASSUME NEW t, Step(p, t), After(t, did.state, pc), Grown(t.reg, reg, s.reg)
      PROVE  TransactionInv'
  <2>1. CASE pc = "rollback"
    BY <1>2, <1>5, <2>1, ReadRolls
  <2>2. CASE pc # "rollback"
    <3>1. t.pc = pc
      BY <1>5 DEF After
    <3>2. ReadRegs(s, t)
      BY <1>4, <2>2, <3>1 DEF ReadRegs
    <3>3. ReadPlan(p, s, t)
      <4> SUFFICES ASSUME Open(Now, s), t.job = s.job, t.writes = s.writes, SnapOK(Now, t),
                          t.snap = (IF engine = "mysql" THEN Snapshot(p) ELSE s.snap)
                   PROVE  PlanInv(Now, t)
        BY DEF ReadPlan
      <4>1. PlanInv(Now, s) /\ RowsOK(Now, s) /\ SnapOK(Now, s)
        BY OpenParts
      <4>2. KindsOK(s) /\ FirstOK(s) /\ UploadsOK(Now, s)
        BY <4>1, PlanParts
      <4>3. DOMAIN s.writes = {} /\ s.job.kind \in {"acquire", "orphan"}
        BY <4>2 DEF FirstOK, KindsOK
      <4>4. EvictOK(Now, t) /\ CompleteOK(Now, t)
        BY <1>4, <4>3 DEF EvictOK, CompleteOK
      <4>5. CASE pc = "commit"
        <5> HIDE DEF AcquirePcs, CompletePcs, FencePcs, EvictPcs, ClaimPcs, OrphanPcs, LockedPcs,
                     FirstPcs, TargetPcs, OtherPcs, OtherNext
        <5> QED
          BY <3>1, <4>1, <4>4, <4>5, PlanCommit
      <4>6. CASE pc # "commit"
        <5>1. pc \in OtherNext
          BY <2>2, <4>6
        <5>2. KindsOK(t) /\ AcquireOK(Now, t) /\ UploadsOK(Now, t)
          <6>1. OtherAsks(p, s, t, pc, reg)
            BY <1>5, <3>1, <4>1, <4>3 DEF OtherAsks
          <6> HIDE DEF OtherNext
          <6> QED
            BY <5>1, <6>1 DEF OtherDuty
        <5>3. FirstOK(t)
          BY <4>3 DEF FirstOK
        <5>4. TargetOK(Now, t)
          BY <3>1, <5>1 DEF TargetOK
        <5>5. FenceOK(Now, t) /\ ClaimOK(Now, t)
          BY <3>1, <5>1 DEF FenceOK, ClaimOK
        <5>6. RequestOK(Now, t)
          BY <3>1, <4>4, <5>1, RequestOther
        <5> QED
          BY <4>4, <5>2, <5>3, <5>4, <5>5, <5>6 DEF PlanInv
      <4> QED
        BY <4>5, <4>6
    <3>4. s.job.kind = "complete" => pc \in CompleteStays
      BY <1>4
    <3> HIDE DEF AcquirePcs, CompletePcs, FencePcs, EvictPcs, ClaimPcs, OrphanPcs, LockedPcs,
                 FirstPcs, TargetPcs, OtherPcs, OtherNext
    <3> QED
      BY <1>2, <1>3, <1>5, <3>2, <3>3, <3>4, ReadsTo
  <2> QED
    BY <2>1, <2>2
<1> QED
  BY <1>1, <1>5, MovesFacts

(* A transaction that has written nothing sees its snapshot.                 *)
LEMMA SeesSnapshot ==
  ASSUME TransactionInv, NEW p \in Process, DOMAIN proc[p].writes = {}, SnapOK(Now, proc[p]),
         RowsOK(Now, proc[p])
  PROVE  /\ \A r \in Rows : View(p)[r] = Snapshot(p)[r]
         /\ Sight(Now, proc[p], Snapshot(p))
         /\ \A r \in Rows : View(p)[r] # Absent => RowOK(r, View(p)[r]) /\ r \in issued
<1> DEFINE v == Snapshot(p)
<1>1. Sight(Now, proc[p], v) /\ DOMAIN v = Rows
  BY Seen
<1>2. Grown(View(p), proc[p].writes, v)
  BY Seen
<1>3. \A r \in Rows : View(p)[r] = v[r]
  BY <1>1, <1>2 DEF Grown
<1>4. \A r \in Rows : v[r] # Absent => RowOK(r, v[r]) /\ r \in issued
  BY <1>1, StateFields DEF Sight
<1> QED
  BY <1>1, <1>3, <1>4

-----------------------------------------------------------------------------

\* The reads of acquireReaderOnce.
LEMMA AcquireEntryKeeps ==
  ASSUME TransactionInv, NEW p \in Process, AcquireEntry(p)
  PROVE  TransactionInv'
<1> DEFINE s == proc[p]
           where == {EntryID("EQ", proc[p].job.entry)}
           x == {View(p)[r] : r \in Matching(View(p), "entry", where)}
           did == Read(p, x)
           row == TheRow(x)
           reg == [location |-> row.locationId]
<1>1. s.pc = "acquire"
  BY DEF AcquireEntry, At
<1>2. IF x = {} THEN Does(p, did, "rollback") ELSE Keeps(p, did, "acquire.location", reg)
  <2>1. QueryEntry(p, where) = did /\ did.result = x
    BY DEF QueryEntry, Query, Read
  <2> QED
    BY <2>1 DEF AcquireEntry
<1>3. s = proc[p] /\ did = Read(p, x)
  OBVIOUS
<1>4. "location" \in DOMAIN reg /\ reg.location = row.locationId
  OBVIOUS
<1>5. s.pc \in OtherPcs
  BY <1>1 DEF OtherPcs
<1> HIDE DEF s, where, x, did, row, reg
<1>6. CASE x = {}
  <2>1. Moves(p, did, "rollback", <<>>)
    BY <1>2, <1>6, MovesNothing
  <2>2. "rollback" \notin OtherNext
    BY DEF OtherNext
  <2> QED
    BY <1>3, <1>5, <2>1, <2>2, OtherReads
<1>7. CASE x # {}
  <2>1. Moves(p, did, "acquire.location", reg)
    BY <1>2, <1>7 DEF Moves
  <2>2. OtherDuty(p, s, "acquire.location", reg)
    <3> SUFFICES ASSUME NEW t, OtherAsks(p, s, t, "acquire.location", reg)
                 PROVE  KindsOK(t) /\ AcquireOK(Now, t) /\ UploadsOK(Now, t)
      BY DEF OtherDuty
    <3> USE DEF AcquirePcs, CompletePcs, FencePcs, EvictPcs, ClaimPcs, OrphanPcs
    <3>1. KindsOK(s) /\ UploadsOK(Now, s) /\ t.pc = "acquire.location" /\ t.job = s.job
      BY PlanParts DEF OtherAsks
    <3>2. DOMAIN s.writes = {} /\ SnapOK(Now, s) /\ RowsOK(Now, s)
      BY DEF OtherAsks
    <3>3. PICK r \in Matching(View(p), "entry", where) : row = View(p)[r]
      BY <1>7 DEF TheRow, x, row
    <3>4. r \in RowsOf("entry") /\ r \in Rows /\ View(p)[r] # Absent
      BY MatchingFacts, TableRows
    <3> DEFINE v == Snapshot(p)
    <3>5. /\ Sight(Now, s, v) /\ row = v[r] /\ RowOK(r, row) /\ v[r] # Absent
      BY <1>3, <3>2, <3>3, <3>4, SeesSnapshot
    <3> HIDE DEF v
    <3>6. EntryOK(row)
      BY <3>4, <3>5, RowKinds
    <3>7. v[LocationOf(row)] # Absent
      BY <3>4, <3>5 DEF Sight, Linked
    <3>8. LocationOf(row) \in RowsOf("location") /\ row.locationId \in Location
      BY <3>6, Referred DEF EntryOK
    <3>9. LocationOf(row) \in Now.issued
      BY <3>5, <3>7, <3>8, TableRows DEF Sight
    <3>10. "location" \in DOMAIN t.reg /\ t.reg.location = row.locationId
      BY <1>4 DEF OtherAsks, Grown
    <3>11. Target(t) = LocationOf(row)
      BY <3>10 DEF Target, LocationOf
    <3>12. KindsOK(t)
      BY <1>1, <3>1 DEF KindsOK
    <3>13. AcquireOK(Now, t)
      BY <3>1, <3>8, <3>9, <3>10, <3>11 DEF AcquireOK
    <3>14. UploadsOK(Now, t)
      BY <3>1, UploadsOther
    <3> QED
      BY <3>12, <3>13, <3>14
  <2>3. "acquire.location" \in OtherNext
    BY DEF OtherNext
  <2> QED
    BY <1>3, <1>5, <2>1, <2>2, <2>3, OtherReads
<1> QED
  BY <1>6, <1>7

LEMMA AcquireLocationKeeps ==
  ASSUME TransactionInv, NEW p \in Process, AcquireLocation(p)
  PROVE  TransactionInv'
<1> DEFINE s == proc[p]
           l == s.reg.location
           x == {View(p)[r] : r \in Matching(View(p), "location", {LocationID("EQ", l)})}
           did == Read(p, x)
           row == TheRow(x)
           scope == Classify(row, s.job.direct)
           reg == [scope |-> scope]
           mergeable == row.partCount >= 2 /\ row.materializationUnsupportedAt = Null
<1>1. s.pc = "acquire.location"
  BY DEF AcquireLocation, At
<1>2. IF x = {} \/ scope = "unavailable" THEN Does(p, did, "rollback")
      ELSE Keeps(p, did, IF scope = "parts" /\ mergeable THEN "acquire.lock" ELSE "acquire.create",
                 reg)
  <2>1. QueryLocation(p, {LocationID("EQ", l)}) = did /\ did.result = x
    BY DEF QueryLocation, Query, Read
  <2> QED
    BY <2>1 DEF AcquireLocation
<1>3. s = proc[p] /\ did = Read(p, x)
  OBVIOUS
<1>4. DOMAIN reg = {"scope"} /\ reg.scope = scope
  OBVIOUS
<1>5. s.pc \in OtherPcs
  BY <1>1 DEF OtherPcs
<1>6. scope \in {"unavailable", "storage", "parts"}
  BY DEF Classify
<1> HIDE DEF s, l, x, did, row, reg, scope
<1>7. CASE x = {} \/ scope = "unavailable"
  <2>1. Moves(p, did, "rollback", <<>>)
    BY <1>2, <1>7, MovesNothing
  <2>2. "rollback" \notin OtherNext
    BY DEF OtherNext
  <2> QED
    BY <1>3, <1>5, <2>1, <2>2, OtherReads
<1>8. CASE x # {} /\ scope # "unavailable"
  <2>1. ASSUME NEW pc \in {"acquire.lock", "acquire.create"}, Moves(p, did, pc, reg),
               pc = "acquire.create" /\ scope = "parts" => ~mergeable
        PROVE  OtherDuty(p, s, pc, reg)
    <3> SUFFICES ASSUME NEW t, OtherAsks(p, s, t, pc, reg)
                 PROVE  KindsOK(t) /\ AcquireOK(Now, t) /\ UploadsOK(Now, t)
      BY DEF OtherDuty
    <3> USE DEF AcquirePcs, CompletePcs, FencePcs, EvictPcs, ClaimPcs, OrphanPcs
    <3>1. KindsOK(s) /\ UploadsOK(Now, s) /\ AcquireOK(Now, s) /\ t.pc = pc /\ t.job = s.job
      BY PlanParts DEF OtherAsks
    <3>2. DOMAIN s.writes = {} /\ SnapOK(Now, s) /\ RowsOK(Now, s)
      BY DEF OtherAsks
    <3>3. "location" \in DOMAIN s.reg /\ l \in Location /\ Target(s) \in Now.issued
      BY <1>1, <3>1 DEF AcquireOK, l
    <3>4. /\ "location" \in DOMAIN t.reg /\ t.reg.location = l
          /\ "scope" \in DOMAIN t.reg /\ t.reg.scope = scope
      BY <1>4, <3>3 DEF OtherAsks, Grown, l
    <3>5. Target(t) = Target(s) /\ Target(s) = <<"location", l>>
      BY <3>4 DEF Target, l
    <3>6. Target(s) \in RowsOf("location") /\ Target(s) \in Rows
      BY <3>3, <3>5, RowFacts
    <3> DEFINE v == Snapshot(p)
               V == View(p)
               a == Target(s)
    <3>7. /\ Sight(Now, s, v) /\ V[a] = v[a]
          /\ \A r \in Rows : V[r] # Absent => RowOK(r, V[r])
      BY <1>3, <3>2, <3>6, SeesSnapshot
    <3>8. x = {V[r] : r \in Matching(V, "location", {LocationID("EQ", l)})}
      BY DEF x
    <3> HIDE DEF v, V
    <3>9. row = V[a] /\ V[a] # Absent
      <4>1. \A r \in RowsOf("location") : V[r] # Absent => RowOK(r, V[r])
        BY <3>7, TableRows
      <4> QED
        BY <1>8, <3>3, <3>5, <3>8, <4>1, TheLocation DEF row
    <3>10. pc = "acquire.create" /\ scope = "parts" => Admissible(Now, t, Target(t))
      <4> SUFFICES ASSUME ~mergeable, Now.db[a] # Absent
                   PROVE  ~Mergeable(Now.db[a])
        BY <2>1, <3>5 DEF Admissible
      <4>1. Evolves(a, v[a], Now.db[a])
        BY <3>6, <3>7, <3>9 DEF Sight
      <4>2. ~Mergeable(v[a])
        BY <3>7, <3>9 DEF Mergeable
      <4> QED
        BY <3>6, <4>1, <4>2, EvolvesMergeable
    <3>11. scope # Null
      BY <1>6, <1>8, NullFacts
    <3>12. KindsOK(t)
      BY <1>1, <3>1 DEF KindsOK
    <3>13. AcquireOK(Now, t)
      BY <3>11, <2>1, <3>1, <3>3, <3>4, <3>5, <3>10 DEF AcquireOK
    <3>14. UploadsOK(Now, t)
      BY <3>1, UploadsOther
    <3> QED
      BY <3>12, <3>13, <3>14
  <2>2. {"acquire.lock", "acquire.create"} \subseteq OtherNext
    BY DEF OtherNext
  <2>3. CASE scope = "parts" /\ mergeable
    <3>1. Moves(p, did, "acquire.lock", reg)
      BY <1>2, <1>8, <2>3 DEF Moves
    <3>2. OtherDuty(p, s, "acquire.lock", reg)
      BY <2>1, <3>1
    <3> QED
      BY <1>3, <1>5, <2>2, <3>1, <3>2, OtherReads
  <2>4. CASE ~(scope = "parts" /\ mergeable)
    <3>1. Moves(p, did, "acquire.create", reg)
      BY <1>2, <1>8, <2>4 DEF Moves
    <3>2. OtherDuty(p, s, "acquire.create", reg)
      BY <2>1, <2>4, <3>1
    <3> QED
      BY <1>3, <1>5, <2>2, <3>1, <3>2, OtherReads
  <2> QED
    BY <2>3, <2>4
<1> QED
  BY <1>7, <1>8

-----------------------------------------------------------------------------
(* The claim of an orphaned folder looks for its owners.                     *)

\* What the claim of an orphaned folder sees of its owners.
LEMMA OrphanSees ==
  ASSUME TransactionInv, NEW p \in Process, NEW s, s = proc[p], Open(Now, s), s.pc \in OrphanPcs
  PROVE  /\ s.job.kind = "orphan" /\ s.job.folder \in Upload /\ DOMAIN s.writes = {}
         /\ KindsOK(s) /\ UploadsOK(Now, s) /\ OrphanRow(s) \in RowsOf("upload")
         /\ OrphanRow(s) = <<"upload", s.job.folder>>
         /\ s.pc # "orphan" => Snapshot(p)[OrphanRow(s)] = Absent
<1>1. KindsOK(s) /\ UploadsOK(Now, s) /\ FirstOK(s)
  BY OpenParts, PlanParts
<1>2. s.job.kind = "orphan" /\ s.job.folder \in Upload /\ DOMAIN s.writes = {}
  BY <1>1 DEF KindsOK, UploadsOK, FirstOK, FirstPcs
<1>3. OrphanRow(s) \in RowsOf("upload") /\ OrphanRow(s) = <<"upload", s.job.folder>>
  BY <1>2, RowFacts DEF OrphanRow
<1>4. s.pc # "orphan" => Snapshot(p)[OrphanRow(s)] = Absent
  BY <1>1, StateFields DEF UploadsOK, Snapshot
<1> QED
  BY <1>1, <1>2, <1>3, <1>4

(* A row with the folder is found.                                           *)
LEMMA InFolderFound ==
  ASSUME NEW store, NEW table, NEW column, NEW folder, NEW u,
         NEW r \in RowsOf(table), store[r] # Absent, store[r][column] = folder, folder # Null
  PROVE  Matching(store, table, InFolder(Where(column, "EQ", folder), u)) # {}
<1> DEFINE where == InFolder(Where(column, "EQ", folder), u)
<1>1. \A clause \in where : Where(column, "EQ", folder) \subseteq clause
  BY DEF InFolder, Or
<1>2. \E q \in Where(column, "EQ", folder) : Holds(q, store[r])
  BY Equal
<1>3. \A clause \in where : \E q \in clause : Holds(q, store[r])
  BY <1>1, <1>2
<1> HIDE DEF where
<1>4. r \in Matching(store, table, where)
  BY <1>3, MatchingFacts
<1> QED
  BY <1>4 DEF where

LEMMA OrphanUploadsKeeps ==
  ASSUME TransactionInv, NEW p \in Process, OrphanUploads(p)
  PROVE  TransactionInv'
<1> DEFINE s == proc[p]
           f == s.job.folder
           below == UploadFolderName("HasPrefix", f)
           where == InFolder(Where("folderName", "EQ", Folder(f)), below)
           x == Matching(View(p), "upload", where) # {}
           did == Read(p, x)
<1>1. s.pc = "orphan"
  BY DEF OrphanUploads, At
<1>2. Does(p, did, IF x THEN "commit" ELSE "orphan.locations")
  <2>1. ExistUpload(p, where) = did /\ did.result = x
    BY DEF ExistUpload, Exist, Read
  <2> QED
    BY <2>1 DEF OrphanUploads, UploadFolderName
<1>3. s = proc[p] /\ did = Read(p, x)
  OBVIOUS
<1>5. s.pc \in OtherPcs /\ s.pc \in OrphanPcs
  BY <1>1 DEF OtherPcs, OrphanPcs
<1> HIDE DEF s, f, below, where, x, did
<1>6. CASE x
  <2>1. Moves(p, did, "commit", <<>>)
    BY <1>2, <1>6, MovesNothing
  <2>2. "commit" \notin OtherNext
    BY DEF OtherNext
  <2> QED
    BY <1>3, <1>5, <2>1, <2>2, OtherReads
<1>7. CASE ~x
  <2>1. Moves(p, did, "orphan.locations", <<>>)
    BY <1>2, <1>7, MovesNothing
  <2>2. OtherDuty(p, s, "orphan.locations", <<>>)
    <3> SUFFICES ASSUME NEW t, OtherAsks(p, s, t, "orphan.locations", <<>>)
                 PROVE  KindsOK(t) /\ AcquireOK(Now, t) /\ UploadsOK(Now, t)
      BY DEF OtherDuty
    <3> USE DEF AcquirePcs, CompletePcs, FencePcs, EvictPcs, ClaimPcs, OrphanPcs
    <3> DEFINE r == OrphanRow(s)
               v == Snapshot(p)
               V == View(p)
    <3>1. /\ KindsOK(s) /\ UploadsOK(Now, s) /\ t.pc = "orphan.locations" /\ t.job = s.job
          /\ OrphanRow(t) = r /\ t.snap = (IF engine = "mysql" THEN v ELSE s.snap)
      BY PlanParts, JobRows DEF OtherAsks
    <3>2. DOMAIN s.writes = {} /\ SnapOK(Now, s) /\ RowsOK(Now, s)
      BY DEF OtherAsks
    <3>3. /\ s.job.kind = "orphan" /\ f \in Upload /\ r \in RowsOf("upload")
          /\ r = <<"upload", f>> /\ r \in Rows
      BY <1>3, <1>5, OrphanSees, TableRows DEF OtherAsks, f
    <3>4. Sight(Now, s, v) /\ V[r] = v[r] /\ (V[r] # Absent => RowOK(r, V[r]))
      BY <1>3, <3>2, <3>3, SeesSnapshot
    <3>5. ~x => Matching(V, "upload", where) = {}
      BY DEF x
    <3> HIDE DEF r, v, V
    <3>6. V[r] = Absent
      <4> SUFFICES ASSUME V[r] # Absent
                   PROVE  FALSE
        OBVIOUS
      <4>1. V[r].folderName = Folder(r[2]) /\ r[2] = f
        BY <3>3, <3>4, RowKinds
      <4>2. Folder(f) \in Folders /\ Folder(f) # Null
        BY <3>3, Referred, NullFacts
      <4>3. V[r]["folderName"] = Folder(f)
        BY <4>1
      <4>4. Matching(V, "upload", where) # {}
        BY <3>3, <4>2, <4>3, InFolderFound DEF where
      <4> QED
        BY <1>7, <3>5, <4>4
    <3>7. Now.db[r] = Absent
      BY <3>3, <3>4, <3>6 DEF Sight, r
    <3>8. KindsOK(t)
      BY <1>1, <3>1 DEF KindsOK
    <3>9. AcquireOK(Now, t)
      BY <3>1 DEF AcquireOK
    <3>10. UploadsOK(Now, t)
      BY <1>1, <3>1, <3>3, <3>4, <3>6, <3>7, StateFields DEF UploadsOK, f, r
    <3> QED
      BY <3>8, <3>9, <3>10
  <2>3. "orphan.locations" \in OtherNext
    BY DEF OtherNext
  <2> QED
    BY <1>3, <1>5, <2>1, <2>2, <2>3, OtherReads
<1> QED
  BY <1>6, <1>7

LEMMA OrphanLocationsKeeps ==
  ASSUME TransactionInv, NEW p \in Process, OrphanLocations(p)
  PROVE  TransactionInv'
<1> DEFINE s == proc[p]
           f == s.job.folder
           below == LocationFolderName("HasPrefix", f)
           where == InFolder(Where("folderName", "EQ", Folder(f)), below)
           x == Matching(View(p), "location", where) # {}
           did == Read(p, x)
<1>1. s.pc = "orphan.locations"
  BY DEF OrphanLocations, At
<1>2. Does(p, did, IF x THEN "commit" ELSE "orphan.deletions")
  <2>1. ExistLocation(p, where) = did /\ did.result = x
    BY DEF ExistLocation, Exist, Read
  <2> QED
    BY <2>1 DEF OrphanLocations, LocationFolderName
<1>3. s = proc[p] /\ did = Read(p, x)
  OBVIOUS
<1>5. s.pc \in OtherPcs /\ s.pc \in OrphanPcs
  BY <1>1 DEF OtherPcs, OrphanPcs
<1> HIDE DEF s, f, below, where, x, did
<1>6. CASE x
  <2>1. Moves(p, did, "commit", <<>>)
    BY <1>2, <1>6, MovesNothing
  <2>2. "commit" \notin OtherNext
    BY DEF OtherNext
  <2> QED
    BY <1>3, <1>5, <2>1, <2>2, OtherReads
<1>7. CASE ~x
  <2>1. Moves(p, did, "orphan.deletions", <<>>)
    BY <1>2, <1>7, MovesNothing
  <2>2. OtherDuty(p, s, "orphan.deletions", <<>>)
    <3> SUFFICES ASSUME NEW t, OtherAsks(p, s, t, "orphan.deletions", <<>>)
                 PROVE  KindsOK(t) /\ AcquireOK(Now, t) /\ UploadsOK(Now, t)
      BY DEF OtherDuty
    <3> USE DEF AcquirePcs, CompletePcs, FencePcs, EvictPcs, ClaimPcs, OrphanPcs
    <3> DEFINE r == OrphanRow(s)
               v == Snapshot(p)
               V == View(p)
    <3>1. /\ KindsOK(s) /\ UploadsOK(Now, s) /\ t.pc = "orphan.deletions" /\ t.job = s.job
          /\ OrphanRow(t) = r /\ t.snap = (IF engine = "mysql" THEN v ELSE s.snap)
      BY PlanParts, JobRows DEF OtherAsks
    <3>2. DOMAIN s.writes = {} /\ SnapOK(Now, s) /\ RowsOK(Now, s)
      BY DEF OtherAsks
    <3>3. /\ s.job.kind = "orphan" /\ f \in Upload /\ v[r] = Absent
      BY <1>1, <1>3, <1>5, OrphanSees DEF OtherAsks, f
    <3>4. /\ Sight(Now, s, v)
          /\ \A l \in Rows : V[l] = v[l]
      BY <1>3, <3>2, SeesSnapshot
    <3>5. ~x => Matching(V, "location", where) = {}
      BY DEF x
    <3> HIDE DEF r, v, V
    <3>6. ASSUME NEW l \in RowsOf("location"), Now.db[l] # Absent, Now.db[l].folderName = Folder(f)
          PROVE  FALSE
      <4>1. l \in Rows
        BY TableRows
      <4>2. v[l] # Absent
        BY <3>3, <3>4, <3>6 DEF Sight, r, f
      <4>3. Evolves(l, v[l], Now.db[l])
        BY <3>4, <3>6, <4>1, <4>2 DEF Sight
      <4>4. v[l].folderName = Folder(f)
        BY <3>6, <4>3, EvolvesKinds
      <4>5. Folder(f) \in Folders /\ Folder(f) # Null
        BY <3>3, Referred, NullFacts
      <4>6. V[l] # Absent /\ V[l]["folderName"] = Folder(f)
        BY <3>4, <4>1, <4>2, <4>4
      <4>7. Matching(V, "location", where) # {}
        BY <4>5, <4>6, InFolderFound DEF where
      <4> QED
        BY <1>7, <3>5, <4>7
    <3>7. Now.db[r] = Absent
      BY <1>1, <3>1 DEF UploadsOK, r
    <3>8. KindsOK(t)
      BY <1>1, <3>1 DEF KindsOK
    <3>9. AcquireOK(Now, t)
      BY <3>1 DEF AcquireOK
    <3>10. UploadsOK(Now, t)
      BY <1>1, <3>1, <3>3, <3>4, <3>6, <3>7, StateFields DEF UploadsOK, f, r
    <3> QED
      BY <3>8, <3>9, <3>10
  <2>3. "orphan.deletions" \in OtherNext
    BY DEF OtherNext
  <2> QED
    BY <1>3, <1>5, <2>1, <2>2, <2>3, OtherReads
<1> QED
  BY <1>6, <1>7

LEMMA OrphanDeletionsKeeps ==
  ASSUME TransactionInv, NEW p \in Process, OrphanDeletions(p)
  PROVE  TransactionInv'
<1> DEFINE s == proc[p]
           f == s.job.folder
           where == InFolder(DeletionFolderName("EQ", Folder(f)),
             DeletionFolderName("HasPrefix", f))
           x == Matching(View(p), "deletion", where) # {}
           did == Read(p, x)
<1>1. s.pc = "orphan.deletions"
  BY DEF OrphanDeletions, At
<1>2. Does(p, did, IF x THEN "commit" ELSE "orphan.enqueue")
  <2>1. ExistDeletion(p, where) = did /\ did.result = x
    BY DEF ExistDeletion, Exist, Read
  <2> QED
    BY <2>1 DEF OrphanDeletions
<1>3. s = proc[p] /\ did = Read(p, x)
  OBVIOUS
<1>5. s.pc \in OtherPcs /\ s.pc \in OrphanPcs
  BY <1>1 DEF OtherPcs, OrphanPcs
<1> HIDE DEF s, f, where, x, did
<1>6. CASE x
  <2>1. Moves(p, did, "commit", <<>>)
    BY <1>2, <1>6, MovesNothing
  <2>2. "commit" \notin OtherNext
    BY DEF OtherNext
  <2> QED
    BY <1>3, <1>5, <2>1, <2>2, OtherReads
<1>7. CASE ~x
  <2>1. Moves(p, did, "orphan.enqueue", <<>>)
    BY <1>2, <1>7, MovesNothing
  <2>2. OtherDuty(p, s, "orphan.enqueue", <<>>)
    <3> SUFFICES ASSUME NEW t, OtherAsks(p, s, t, "orphan.enqueue", <<>>)
                 PROVE  KindsOK(t) /\ AcquireOK(Now, t) /\ UploadsOK(Now, t)
      BY DEF OtherDuty
    <3> USE DEF AcquirePcs, CompletePcs, FencePcs, EvictPcs, ClaimPcs, OrphanPcs
    <3>1. /\ KindsOK(s) /\ UploadsOK(Now, s) /\ t.pc = "orphan.enqueue" /\ t.job = s.job
          /\ OrphanRow(t) = OrphanRow(s)
          /\ t.snap = (IF engine = "mysql" THEN Snapshot(p) ELSE s.snap)
      BY PlanParts, JobRows DEF OtherAsks
    <3>3. s.job.kind = "orphan" /\ Snapshot(p)[OrphanRow(s)] = Absent
      BY <1>1, <1>3, <1>5, OrphanSees DEF OtherAsks
    <3>8. KindsOK(t)
      BY <1>1, <3>1 DEF KindsOK
    <3>9. AcquireOK(Now, t)
      BY <3>1 DEF AcquireOK
    <3>10. UploadsOK(Now, t)
      BY <1>1, <3>1, <3>3, StateFields DEF UploadsOK
    <3> QED
      BY <3>8, <3>9, <3>10
  <2>3. "orphan.enqueue" \in OtherNext
    BY DEF OtherNext
  <2> QED
    BY <1>3, <1>5, <2>1, <2>2, <2>3, OtherReads
<1> QED
  BY <1>6, <1>7

-----------------------------------------------------------------------------
(* A completion looks for the entry of its tuple.                            *)

LEMMA CompletionKind ==
  ASSUME TransactionInv, NEW p \in Process, NEW s, s = proc[p], s.pc \in CompletePcs
  PROVE  s.job.kind = "complete" /\ Ours(s)
<1>1. Ours(s)
  BY DEF Ours, CompletePcs
<1>2. CASE s.job.kind # "complete"
  <2>1. Open(Now, s)
    BY <1>1, <1>2 DEF Open, Entitled
  <2>2. KindsOK(s)
    BY <2>1, OpenParts, PlanParts
  <2> QED
    BY <1>1, <2>2 DEF KindsOK
<1> QED
  BY <1>1, <1>2

\* The entry of a tuple is the one that is found.
LEMMA TupleFound ==
  ASSUME NEW store, NEW tuple, NEW e \in RowsOf("entry"), store[e] # Absent,
         KeyOf(store[e]) = KeyOf(tuple), tuple.key # Null, tuple.version # Null,
         tuple.scope # Null, tuple.repoId # Null
  PROVE  e \in Matching(store, "entry", SameTuple(tuple))
<1> DEFINE row == store[e]
<1>1. /\ row["key"] = tuple.key /\ row["version"] = tuple.version
      /\ row["scope"] = tuple.scope /\ row["repoId"] = tuple.repoId
  BY DEF KeyOf
<1>2. /\ \E q \in Where("key", "EQ", tuple.key) : Holds(q, row)
      /\ \E q \in Where("version", "EQ", tuple.version) : Holds(q, row)
      /\ \E q \in Where("scope", "EQ", tuple.scope) : Holds(q, row)
      /\ \E q \in Where("repoId", "EQ", tuple.repoId) : Holds(q, row)
  <2> HIDE DEF row
  <2> QED
    BY <1>1, Equal
<1>3. \A clause \in SameTuple(tuple) :
        \/ clause = Where("key", "EQ", tuple.key)
        \/ clause = Where("version", "EQ", tuple.version)
        \/ clause = Where("scope", "EQ", tuple.scope)
        \/ clause = Where("repoId", "EQ", tuple.repoId)
  BY DEF SameTuple, EntryKey, EntryVersion, EntryScope, EntryRepoId
<1>4. \A clause \in SameTuple(tuple) : \E q \in clause : Holds(q, row)
  <2> HIDE DEF row
  <2> QED
    BY <1>2, <1>3
<1> QED
  BY <1>4, MatchingFacts

LEMMA TupleChosen ==
  ASSUME NEW store, NEW tuple, NEW e \in Matching(store, "entry", SameTuple(tuple))
  PROVE  KeyOf(store[e]) = KeyOf(tuple)
<1>1. /\ Where("key", "EQ", tuple.key) \in SameTuple(tuple)
      /\ Where("version", "EQ", tuple.version) \in SameTuple(tuple)
      /\ Where("scope", "EQ", tuple.scope) \in SameTuple(tuple)
      /\ Where("repoId", "EQ", tuple.repoId) \in SameTuple(tuple)
  BY DEF SameTuple, EntryKey, EntryVersion, EntryScope, EntryRepoId
<1>2. /\ store[e]["key"] = tuple.key /\ store[e]["version"] = tuple.version
      /\ store[e]["scope"] = tuple.scope /\ store[e]["repoId"] = tuple.repoId
  <2>1. store[e]["key"] = tuple.key
    BY <1>1, ChosenEqual
  <2>2. store[e]["version"] = tuple.version
    BY <1>1, ChosenEqual
  <2>3. store[e]["scope"] = tuple.scope
    BY <1>1, ChosenEqual
  <2>4. store[e]["repoId"] = tuple.repoId
    BY <1>1, ChosenEqual
  <2> QED
    BY <2>1, <2>2, <2>3, <2>4
<1> QED
  BY <1>2 DEF KeyOf

LEMMA CompleteEntryKeeps ==
  ASSUME TransactionInv, NEW p \in Process, CompleteEntry(p)
  PROVE  TransactionInv'
<1> DEFINE s == proc[p]
           where == SameTuple(s.reg.upload)
           x == {View(p)[r] : r \in Matching(View(p), "entry", where)}
           did == Read(p, x)
           row == TheRow(x)
           reg == [entry |-> row]
<1>1. s.pc = "complete.entry"
  BY DEF CompleteEntry, At
<1>2. \/ x = {} /\ Does(p, did, "complete.insert")
      \/ x # {} /\ Keeps(p, did, "complete.update", reg)
      \/ Does(p, did, "rollback")
  <2>1. QueryEntry(p, where) = did /\ did.result = x
    BY DEF QueryEntry, Query, Read
  <2> QED
    BY <2>1 DEF CompleteEntry
<1>3. s = proc[p] /\ did = Read(p, x)
  OBVIOUS
<1>4. DOMAIN reg = {"entry"} /\ reg.entry = row
  OBVIOUS
<1> HIDE DEF s, where, x, did, row, reg
<1>5. s.job.kind = "complete" /\ Ours(s)
  BY <1>1, <1>3, CompletionKind DEF CompletePcs
<1>6. DOMAIN did.state = DOMAIN Idle /\ did.state.reg = s.reg
  BY <1>3, ReadFacts
<1>7. CASE Does(p, did, "rollback")
  <2>1. ASSUME NEW t, Step(p, t), After(t, did.state, "rollback")
        PROVE  TransactionInv'
    BY <1>1, <1>3, <1>5, <2>1, ReadRolls
  <2> QED
    BY <1>6, <1>7, <2>1, DoesFacts
(* What it sees.                                                             *)
<1>8. ASSUME Open(Now, s)
      PROVE  /\ CompleteOK(Now, s) /\ KindsOK(s) /\ UploadsOK(Now, s)
             /\ {"upload", "now", "new"} \subseteq DOMAIN s.reg
             /\ UploadOK(s.reg.upload) /\ s.snap = Null
             /\ DOMAIN s.writes \cap RowsOf("entry") = {}
             /\ Snapshot(p) = Now.db /\ \A e \in RowsOf("entry") : View(p)[e] = Now.db[e]
  <2>1. CompleteOK(Now, s) /\ KindsOK(s) /\ UploadsOK(Now, s)
    BY <1>3, <1>8, OpenParts, PlanParts
  <2>2. /\ {"upload", "now", "new"} \subseteq DOMAIN s.reg
        /\ UploadOK(s.reg.upload) /\ s.snap = Null
        /\ DOMAIN s.writes \cap RowsOf("entry") = {}
    BY <1>1, <1>5, <2>1 DEF CompleteOK
  <2>3. Snapshot(p) = Now.db
    BY <1>3, <2>2, StateFields DEF Snapshot
  <2>4. Grown(View(p), s.writes, Now.db) /\ DOMAIN Now.db = Rows
    BY <1>3, <1>8, <2>3, OpenParts, Seen
  <2>5. \A e \in RowsOf("entry") : View(p)[e] = Now.db[e]
    BY <2>2, <2>4, TableRows DEF Grown
  <2> QED
    BY <2>1, <2>2, <2>3, <2>5
<1>9. CASE x = {} /\ Does(p, did, "complete.insert")
  <2>1. ASSUME NEW t, Step(p, t), After(t, did.state, "complete.insert"), t.reg = s.reg
        PROVE  TransactionInv'
    <3>1. t.pc = "complete.insert"
      BY <2>1 DEF After
    <3>2. ReadRegs(s, t)
      BY <2>1, <3>1 DEF ReadRegs, TargetPcs, LockedPcs, FencePcs, ClaimPcs
    <3>3. ReadPlan(p, s, t)
      <4> SUFFICES ASSUME Open(Now, s), t.job = s.job, t.writes = s.writes, SnapOK(Now, t)
                   PROVE  PlanInv(Now, t)
        BY DEF ReadPlan
      <4> USE DEF AcquirePcs, CompletePcs, FencePcs, EvictPcs, ClaimPcs, OrphanPcs, LockedPcs,
                  FirstPcs, TargetPcs
      <4>1. \A e \in RowsOf("entry") : Now.db[e] # Absent => KeyOf(Now.db[e]) # KeyOf(s.reg.upload)
        <5> SUFFICES ASSUME NEW e \in RowsOf("entry"), Now.db[e] # Absent,
                            KeyOf(Now.db[e]) = KeyOf(s.reg.upload)
                     PROVE  FALSE
          OBVIOUS
        <5>1. View(p)[e] # Absent /\ KeyOf(View(p)[e]) = KeyOf(s.reg.upload)
          BY <1>8
        <5>2. e \in Matching(View(p), "entry", where)
          BY <1>8, <5>1, TupleFound DEF where, UploadOK
        <5> QED
          BY <1>9, <5>2 DEF x
      <4>2. CompleteOK(Now, t)
        BY <1>1, <1>8, <2>1, <3>1, <4>1, JobRows, SamePuts DEF CompleteOK
      <4>3. KindsOK(t) /\ FirstOK(t)
        BY <1>5, <3>1 DEF KindsOK, FirstOK
      <4>4. TargetOK(Now, t) /\ AcquireOK(Now, t) /\ FenceOK(Now, t) /\ ClaimOK(Now, t)
        BY <3>1 DEF TargetOK, AcquireOK, FenceOK, ClaimOK
      <4>5. RequestOK(Now, t)
        BY <1>5, <3>1 DEF RequestOK
      <4>6. UploadsOK(Now, t)
        BY <1>8, <3>1, UploadsOther
      <4> QED
        BY <4>2, <4>3, <4>4, <4>5, <4>6 DEF PlanInv
    <3>4. s.job.kind = "complete" => "complete.insert" \in CompleteStays
      BY DEF CompleteStays, CompletePcs
    <3>5. /\ "complete.insert" \notin {"idle", "complete"}
          /\ s.pc \notin {"complete", "fence.delete", "abandon.enqueue", "commit"}
      BY <1>1
    <3> QED
      BY <1>3, <1>5, <2>1, <3>2, <3>3, <3>4, <3>5, ReadsTo
  <2> QED
    BY <1>6, <1>9, <2>1, DoesFacts
<1>10. CASE x # {} /\ Keeps(p, did, "complete.update", reg)
  <2>1. ASSUME NEW t, Step(p, t), After(t, did.state, "complete.update"), Grown(t.reg, reg, s.reg)
        PROVE  TransactionInv'
    <3>1. t.pc = "complete.update"
      BY <2>1 DEF After
    <3>2. ReadRegs(s, t)
      BY <1>4, <1>8, <2>1, <3>1 DEF ReadRegs, TargetPcs, LockedPcs, FencePcs, ClaimPcs, Grown
    <3>3. ReadPlan(p, s, t)
      <4> SUFFICES ASSUME Open(Now, s), t.job = s.job, t.writes = s.writes, SnapOK(Now, t),
                          t.snap = (IF engine = "mysql" THEN Snapshot(p) ELSE s.snap)
                   PROVE  PlanInv(Now, t)
        BY DEF ReadPlan
      <4> USE DEF AcquirePcs, CompletePcs, FencePcs, EvictPcs, ClaimPcs, OrphanPcs, LockedPcs,
                  FirstPcs, TargetPcs
      <4>1. PICK e \in Matching(View(p), "entry", where) : row = View(p)[e]
        BY <1>10 DEF x, row, TheRow
      <4>2. e \in RowsOf("entry") /\ e \in Rows /\ row = Now.db[e] /\ Now.db[e] # Absent
        BY <1>8, <4>1, MatchingFacts, TableRows
      <4>3. RowOK(e, row) /\ Linked(Now.db) /\ Known(Now.db, Now.issued)
        BY <4>2, ProcessFacts, CommittedFacts DEF Committed
      <4>4. EntryOK(row) /\ LocationOf(row) \in RowsOf("location")
        BY <4>2, <4>3, RowKinds, Referred
      <4>5. Now.db[LocationOf(row)] # Absent /\ LocationOf(row) \in Now.issued
        BY <4>2, <4>3, <4>4, TableRows DEF Linked, Known
      <4>6. Now.engine = "mysql" /\ t.snap # Null => t.snap[LocationOf(row)] # Absent
        BY <1>8, <4>5, StateFields
      <4>7. /\ t.reg.entry = row /\ t.reg.upload = s.reg.upload /\ t.reg.new = s.reg.new
            /\ t.reg.now = s.reg.now /\ {"entry", "upload", "now", "new"} \subseteq DOMAIN t.reg
        BY <1>4, <1>8, <2>1 DEF Grown
      <4>8. CompleteOK(Now, t)
        <5> HIDE DEF AcquirePcs, FencePcs, EvictPcs, ClaimPcs, OrphanPcs, LockedPcs, FirstPcs,
              TargetPcs
        <5>1. "complete.update" \notin FencePcs
          BY DEF FencePcs
        <5> QED
          BY <1>1, <1>5, <1>8, <3>1, <4>4, <4>5, <4>6, <4>7, <5>1, JobRows, SamePuts DEF CompleteOK
      <4>9. KindsOK(t) /\ FirstOK(t)
        BY <1>5, <3>1 DEF KindsOK, FirstOK
      <4>10. TargetOK(Now, t) /\ AcquireOK(Now, t) /\ FenceOK(Now, t) /\ ClaimOK(Now, t)
        BY <3>1 DEF TargetOK, AcquireOK, FenceOK, ClaimOK
      <4>11. RequestOK(Now, t)
        BY <1>5, <3>1 DEF RequestOK
      <4>12. UploadsOK(Now, t)
        BY <1>8, <3>1, UploadsOther
      <4> QED
        BY <4>8, <4>9, <4>10, <4>11, <4>12 DEF PlanInv
    <3>4. s.job.kind = "complete" => "complete.update" \in CompleteStays
      BY DEF CompleteStays, CompletePcs
    <3>5. /\ "complete.update" \notin {"idle", "complete"}
          /\ s.pc \notin {"complete", "fence.delete", "abandon.enqueue", "commit"}
      BY <1>1
    <3> QED
      BY <1>3, <1>5, <2>1, <3>2, <3>3, <3>4, <3>5, ReadsTo
  <2> QED
    BY <1>6, <1>10, <2>1, KeepsFacts
<1> QED
  BY <1>2, <1>7, <1>9, <1>10

-----------------------------------------------------------------------------
(* Statements that update locations.                                         *)

Quiet(s, l, old, new) ==
  /\ LocationOK(new) /\ Alike(old, new)
  /\ new.deletionRequestedAt = old.deletionRequestedAt \/ NoEntries(Would(Now, s), l)
  /\ \/ new.partsDeletedAt = old.partsDeletedAt
     \/ engine = "mysql" \/ Unread(Would(Now, s), l)
  /\ s.job.kind = "acquire" => new.mergedAt = old.mergedAt
WriteAsks(s, t, N, pc, reg) ==
  /\ Open(Now, s) /\ PlanInv(Now, s) /\ RowsOK(Now, s) /\ SnapOK(Now, t)
  /\ t.pc = pc /\ t.job = s.job /\ t.snap = s.snap /\ t.shared = s.shared
  /\ Grown(t.writes, N, s.writes) /\ Grown(Would(Now, t), N, Would(Now, s))
  /\ Grown(t.reg, reg, s.reg)
QuietDuty(s, N) ==
  Open(Now, s) => \A l \in DOMAIN N : Quiet(s, l, Would(Now, s)[l], N[l])
PlanDuty(s, N, pc, reg) ==
  \A t : WriteAsks(s, t, N, pc, reg) => PlanInv(Now, t)

\* What an open transaction would leave is sound.
LEMMA WouldSound ==
  ASSUME TransactionInv, NEW p \in Process, NEW s, s = proc[p], Open(Now, s)
  PROVE  /\ Typed(Would(Now, s)) /\ Committed(Now) /\ Shape(s) /\ Fresh(Now, s)
         /\ \A r \in Rows : Would(Now, s)[r] # Absent => RowOK(r, Would(Now, s)[r])
         /\ DOMAIN s.writes = {} => \A r \in Rows : Would(Now, s)[r] = db[r]
<1>1. Committed(Now) /\ Shape(s) /\ Fresh(Now, s) /\ RowsOK(Now, s)
  BY ProcessFacts, OpenParts
<1>2. /\ Typed(Would(Now, s))
      /\ \A r \in Rows : \/ r \in DOMAIN s.writes /\ Would(Now, s)[r] = s.writes[r]
                         \/ r \notin DOMAIN s.writes /\ Would(Now, s)[r] = Now.db[r]
      /\ \A r \in Rows : Would(Now, s)[r] # Absent => RowOK(r, Would(Now, s)[r])
  BY <1>1, WouldTyped
<1>3. DOMAIN s.writes = {} => \A r \in Rows : Would(Now, s)[r] = db[r]
  BY <1>2, StateFields
<1> QED
  BY <1>1, <1>2, <1>3

LEMMA QuietMild ==
  ASSUME TransactionInv, NEW p \in Process, NEW s, s = proc[p], Open(Now, s), NEW t, NEW N,
         DOMAIN N \subseteq RowsOf("location"),
         \A l \in DOMAIN N : Would(Now, s)[l] # Absent /\ N[l] # Absent,
         QuietDuty(s, N), Grown(Would(Now, t), N, Would(Now, s))
  PROVE  /\ Mild(Would(Now, s), N, Would(Now, t))
         /\ \A l \in DOMAIN N \cap RowsOf("location") : (Now.engine # "mysql" /\ N[l] # Absent) =>
              \/ N[l].partsDeletedAt = Would(Now, s)[l].partsDeletedAt
              \/ Unread(Would(Now, t), l)
<1> DEFINE S == Would(Now, s)
           T == Would(Now, t)
<1>1. Typed(S) /\ \A r \in Rows : S[r] # Absent => RowOK(r, S[r])
  BY WouldSound
<1>2. \A l \in DOMAIN N : l \in RowsOf("location") /\ l \in Rows /\ S[l] # Absent /\ N[l] # Absent
  BY TableRows
<1>3. ASSUME NEW l \in DOMAIN N
      PROVE  /\ LocationOK(N[l]) /\ Alike(S[l], N[l])
             /\ N[l].deletionRequestedAt = S[l].deletionRequestedAt \/ NoEntries(S, l)
             /\ \/ N[l].partsDeletedAt = S[l].partsDeletedAt
                \/ Now.engine = "mysql" \/ Unread(S, l)
  BY StateFields DEF QuietDuty, Quiet
<1>4. Grown(T, N, S) /\ DOMAIN S = Rows
  BY <1>1 DEF Typed
<1> HIDE DEF S, T
<1>5. \A r \in Rows : r \notin RowsOf("location") => T[r] = S[r]
  BY <1>2, <1>4 DEF Grown
<1>6. /\ \A e \in RowsOf("entry") : T[e] = S[e]
      /\ \A e \in RowsOf("lease") : T[e] = S[e]
  BY <1>5, TableRows, TablesApart, RowFacts
<1>7. \A l : NoEntries(S, l) => NoEntries(T, l)
  BY <1>6 DEF NoEntries
<1>8. \A l : Unread(S, l) => Unread(T, l)
  BY <1>6 DEF Unread, PartsLease
<1>9. ASSUME NEW l \in DOMAIN N
      PROVE  RowOK(l, N[l]) /\ Evolves(l, S[l], N[l]) /\ l \notin RowsOf("entry")
  <2>1. l[1] = "location" /\ l \notin RowsOf("entry")
    BY <1>2, TablesApart, RowFacts
  <2>2. S[l].id = l[2]
    BY <1>1, <1>2 DEF RowOK
  <2>3. N[l].id = l[2]
    BY <1>3, <2>2 DEF Alike
  <2>4. RowOK(l, N[l])
    BY <1>3, <2>1, <2>3 DEF RowOK
  <2>5. Evolves(l, S[l], N[l])
    BY <1>3, <2>1 DEF Alike, Evolves
  <2> QED
    BY <2>1, <2>4, <2>5
<1>10. Mild(S, N, T)
  BY <1>2, <1>3, <1>7, <1>9 DEF Mild
<1>11. \A l \in DOMAIN N : Now.engine # "mysql" =>
         N[l].partsDeletedAt = S[l].partsDeletedAt \/ Unread(T, l)
  BY <1>3, <1>8
<1> QED
  BY <1>10, <1>11 DEF S, T

\* An update of locations that keeps what others rely on.
LEMMA LocationWrites ==
  ASSUME TransactionInv, NEW p \in Process, NEW s, s = proc[p], NEW did, NEW N, Wrote(did, s, N),
         DOMAIN N \subseteq RowsOf("location"), did.waits = {} => Alone(p, DOMAIN N),
         \A l \in DOMAIN N : Would(Now, s)[l] # Absent /\ N[l] # Absent /\ "id" \in DOMAIN N[l],
         QuietDuty(s, N),
         NEW pc, NEW reg, Moves(p, did, pc, reg),
         {"location", "new", "upload"} \cap DOMAIN reg = {},
         Ours(s), s.pc \notin {"complete", "commit", "fence.delete", "abandon.enqueue"},
         pc \notin {"idle", "complete"}, s.job.kind = "complete" => pc \in CompleteStays,
         pc \in TargetPcs => s.pc \in TargetPcs,
         pc # "rollback" => PlanDuty(s, N, pc, reg)
  PROVE  TransactionInv'
<1>1. DOMAIN did.state = DOMAIN Idle /\ did.state.reg = s.reg
  BY DEF Wrote
<1>2. \A l \in DOMAIN N : l \in RowsOf("location") /\ l \in Rows /\ l \notin RowsOf("upload")
  BY TableRows, TablesApart, RowFacts
<1>3. s.job.kind = "complete" => pc \in CompleteStays /\ DOMAIN N \cap RowsOf("upload") = {}
  BY <1>2
<1>4. ASSUME NEW t, Step(p, t), After(t, did.state, pc), Grown(t.reg, reg, s.reg), did.waits = {}
      PROVE  TransactionInv'
  <2>1. WritePlan(s, t, N)
    <3> SUFFICES ASSUME Open(Now, s), t.pc # "rollback", t.job = s.job, t.snap = s.snap,
                        t.shared = s.shared, Grown(t.writes, N, s.writes),
                        Grown(Would(Now, t), N, Would(Now, s))
                 PROVE  WritesInv(Now, t) /\ WouldInv(Now, t) /\ PlanInv(Now, t)
      BY DEF WritePlan
    <3>1. t.pc = pc
      BY <1>4 DEF After
    <3>2. /\ WritesInv(Now, s) /\ WouldInv(Now, s) /\ PlanInv(Now, s)
          /\ RowsOK(Now, s) /\ SnapOK(Now, s) /\ DropsOK(Now, s)
      BY OpenParts
    <3>3. Committed(Now) /\ Shape(s)
      BY ProcessFacts
    <3>4. /\ Mild(Would(Now, s), N, Would(Now, t))
          /\ \A l \in DOMAIN N \cap RowsOf("location") : (Now.engine # "mysql" /\ N[l] # Absent) =>
               \/ N[l].partsDeletedAt = Would(Now, s)[l].partsDeletedAt
               \/ Unread(Would(Now, t), l)
      BY QuietMild
    <3>5. s.job.kind = "complete" => t.reg.new = s.reg.new /\ t.reg.upload = s.reg.upload
      <4>1. s.job.kind = "complete" => {"new", "upload"} \subseteq DOMAIN s.reg
        BY <3>2, PlanParts DEF CompleteOK
      <4> QED
        BY <1>4, <4>1 DEF Grown
    <3>6. Steady(s, t)
      BY <3>5 DEF Steady
    <3>7. Pending(s) = {}
      BY DEF Pending
    <3>8. \A r \in DOMAIN N \cap (Owners \cup RowsOf("deletion")) : N[r] # Absent
      OBVIOUS
    <3>9. DropsOK(Now, t)
      BY <3>2, <3>3, <3>4, <3>7, <3>8, MildDrops
    <3>10. s.job.kind = "acquire" => \A l \in DOMAIN N \cap RowsOf("location") :
             N[l] # Absent /\ N[l].mergedAt = Would(Now, s)[l].mergedAt
      BY DEF QuietDuty, Quiet
    <3>11. \A d \in DOMAIN N \cap RowsOf("lease") : N[d] # Absent =>
             N[d].expiresAt <= Now.clock + Lasts
      BY <1>2, TablesApart, RowFacts
    <3>12. WritesInv(Now, t) /\ WouldInv(Now, t)
      BY <3>1, <3>2, <3>3, <3>4, <3>6, <3>9, <3>10, <3>11, MildKeeps
    <3>13. SnapOK(Now, t)
      <4>1. t.pc \in TargetPcs => s.pc \in TargetPcs /\ t.reg.location = s.reg.location
        <5> SUFFICES ASSUME s.pc \in TargetPcs
                     PROVE  t.reg.location = s.reg.location
          BY <3>1
        <5>1. "location" \in DOMAIN s.reg
          BY <3>2, PlanParts DEF TargetOK
        <5> QED
          BY <1>4, <5>1 DEF Grown
      <4> QED
        BY <3>2, <4>1, SnapKept
    <3>14. WriteAsks(s, t, N, pc, reg)
      BY <1>4, <3>1, <3>2, <3>13 DEF WriteAsks
    <3> QED
      BY <3>1, <3>12, <3>14 DEF PlanDuty
  <2>2. Alone(p, DOMAIN N)
    BY <1>4
  <2>3. \A r \in DOMAIN N : r \in Rows /\ Would(Now, s)[r] # Absent
    BY <1>2
  <2>4. \A r \in DOMAIN N : N[r] # Absent /\ r \in RowsOf("upload") =>
          KeyOf(N[r]) = KeyOf(Would(Now, s)[r])
    BY <1>2
  <2>5. \A q \in Process \ {p} : \A r \in proc[q].shared \cap DOMAIN N : N[r] # Absent
    OBVIOUS
  <2>6. \A r \in DOMAIN N : N[r] # Absent => "id" \in DOMAIN N[r]
    OBVIOUS
  <2>7. s.pc \notin {"complete", "commit"}
    OBVIOUS
  <2> QED
    BY <1>3, <1>4, <2>1, <2>2, <2>3, <2>4, <2>5, <2>6, <2>7, WritesTo
<1> QED
  BY <1>1, <1>4, MovesFacts

-----------------------------------------------------------------------------
(* Statements that write, of the requests on a location.                     *)

LEMMA TargetPlan ==
  ASSUME NEW g, NEW s, NEW t, PlanInv(g, s), SnapOK(g, t), t.job = s.job, s.pc \in TargetPcs,
         t.pc \in ((TargetPcs \ FirstPcs) \ {"request.detach"}) \cup {"complete.blocks"},
         "location" \in DOMAIN t.reg, t.reg.location = s.reg.location,
         t.pc \in LockedPcs => Puts(t, Target(t)) /\ g.db[Target(t)] # Absent,
         KindsOK(t), FenceOK(g, t), ClaimOK(g, t), EvictOK(g, t), CompleteOK(g, t),
         t.pc = "merge.lease" => RequestOK(g, t)
  PROVE  PlanInv(g, t)
<1> USE DEF AcquirePcs, CompletePcs, FencePcs, EvictPcs, ClaimPcs, OrphanPcs, LockedPcs,
            FirstPcs, TargetPcs
<1>1. TargetOK(g, s) /\ UploadsOK(g, s)
  BY PlanParts
<1>2. Target(t) = Target(s)
  BY JobRows
<1>3. FirstOK(t)
  BY DEF FirstOK
<1>4. TargetOK(g, t)
  BY <1>1, <1>2 DEF TargetOK
<1>5. AcquireOK(g, t)
  BY DEF AcquireOK
<1>6. RequestOK(g, t)
  BY RequestOther
<1>7. UploadsOK(g, t)
  BY <1>1, UploadsOther
<1> QED
  BY <1>3, <1>4, <1>5, <1>6, <1>7 DEF PlanInv

(* The location of a request was committed: it is not the one of its completion. *)
LEMMA TargetIssued ==
  ASSUME TransactionInv, NEW p \in Process, NEW s, s = proc[p], Open(Now, s), s.pc \in TargetPcs
  PROVE  /\ "location" \in DOMAIN s.reg /\ s.reg.location \in Location
         /\ Target(s) \in RowsOf("location") /\ Target(s) \in Rows /\ Target(s) \in issued
         /\ Target(s) # NewRow(s) \/ s.job.kind # "complete"
         /\ Would(Now, s)[Target(s)] # Absent => db[Target(s)] # Absent
<1>1. /\ "location" \in DOMAIN s.reg /\ s.reg.location \in Location /\ Target(s) \in issued
  BY OpenParts, PlanParts, StateFields DEF TargetOK
<1>2. Target(s) \in RowsOf("location") /\ Target(s) \in Rows
  BY <1>1, RowFacts, TableRows DEF Target
<1>3. s.pc \notin {"complete", "rollback"}
  BY DEF TargetPcs, LockedPcs, FencePcs, ClaimPcs
<1>4. \A r : Adds(Now, s, r) => r \notin issued
  BY <1>3, ProcessFacts, StateFields DEF Fresh, Adds, Puts
<1>5. s.job.kind = "complete" => Adds(Now, s, NewRow(s))
  BY <1>3, OpenParts, PlanParts DEF CompleteOK
<1>6. Would(Now, s)[Target(s)] # Absent => db[Target(s)] # Absent
  BY <1>1, <1>2, <1>4, OpenParts, ProcessFacts, WouldTyped, StateFields
<1> QED
  BY <1>1, <1>2, <1>4, <1>5, <1>6

TargetNext == {"commit", "rollback", "complete.blocks", "fence.entries", "fence.leases",
               "purgeIf.entry", "evict.get", "expire.location", "claim.location", "merge.location"}
RowDuty(s, N) ==
  Open(Now, s) => \A l \in DOMAIN N :
    /\ l = Target(s) /\ LocationOK(N[l]) /\ Alike(Would(Now, s)[l], N[l])
    /\ \/ N[l].deletionRequestedAt = Would(Now, s)[l].deletionRequestedAt
       \/ NoEntries(Would(Now, s), l)
    /\ \/ N[l].partsDeletedAt = Would(Now, s)[l].partsDeletedAt
       \/ engine = "mysql" \/ Unread(Would(Now, s), l)
    /\ s.job.kind = "evict" => db[l].recencyAt = s.job.row.recencyAt
LockDuty(s, N, pc) == Open(Now, s) /\ pc \in LockedPcs => Target(s) \in DOMAIN N
StepDuty(s, N, pc, reg) ==
  \A t : WriteAsks(s, t, N, pc, reg) /\ Target(t) = Target(s)
            => KindsOK(t) /\ FenceOK(Now, t) /\ ClaimOK(Now, t)

LEMMA TargetWrites ==
  ASSUME TransactionInv, NEW p \in Process, NEW s, s = proc[p], NEW did, NEW N, Wrote(did, s, N),
         DOMAIN N \subseteq RowsOf("location"), did.waits = {} => Alone(p, DOMAIN N),
         \A l \in DOMAIN N : Would(Now, s)[l] # Absent /\ N[l] # Absent /\ "id" \in DOMAIN N[l],
         NEW pc, NEW reg, Moves(p, did, pc, reg), DOMAIN reg \subseteq {"row"},
         s.pc \in TargetPcs \ {"fence.delete"}, pc \in TargetNext,
         s.job.kind = "complete" => pc \in CompleteStays,
         pc = "complete.blocks" => s.job.kind = "complete",
         RowDuty(s, N), LockDuty(s, N, pc), pc \in TargetPcs => StepDuty(s, N, pc, reg)
  PROVE  TransactionInv'
<1> USE DEF AcquirePcs, CompletePcs, FencePcs, EvictPcs, ClaimPcs, OrphanPcs, LockedPcs,
            FirstPcs, TargetPcs, TargetNext
<1>1. /\ Ours(s) /\ s.pc \notin {"complete", "commit", "fence.delete", "abandon.enqueue"}
      /\ pc \notin {"idle", "complete"}
  BY DEF Ours
<1>2. s.job.kind = "complete" => s.pc \in FencePcs \cup {"fence.lock"}
  BY <1>1, KindFacts
<1>3. {"location", "new", "upload"} \cap DOMAIN reg = {} /\ (pc \in TargetPcs => s.pc \in TargetPcs)
  OBVIOUS
<1>4. s.pc \in TargetPcs
  OBVIOUS
<1>5. QuietDuty(s, N)
  <2> SUFFICES ASSUME Open(Now, s), NEW l \in DOMAIN N
               PROVE  Quiet(s, l, Would(Now, s)[l], N[l])
    BY DEF QuietDuty
  <2>1. s.job.kind # "acquire"
    BY <1>4, OpenParts, PlanParts DEF KindsOK
  <2> QED
    BY <2>1 DEF Quiet, RowDuty
<1>6. pc # "rollback" => PlanDuty(s, N, pc, reg)
  <2> SUFFICES ASSUME pc # "rollback", NEW t, WriteAsks(s, t, N, pc, reg)
               PROVE  PlanInv(Now, t)
    BY DEF PlanDuty
  <2>1. /\ Open(Now, s) /\ PlanInv(Now, s) /\ RowsOK(Now, s) /\ SnapOK(Now, t)
        /\ t.pc = pc /\ t.job = s.job /\ Grown(t.writes, N, s.writes) /\ Grown(t.reg, reg, s.reg)
    BY DEF WriteAsks
  <2>2. /\ t.reg.location = s.reg.location /\ DOMAIN s.reg \subseteq DOMAIN t.reg
        /\ "location" \in DOMAIN t.reg
        /\ s.job.kind = "complete" => t.reg.new = s.reg.new /\ t.reg.upload = s.reg.upload
    <3> HIDE DEF AcquirePcs, CompletePcs, FencePcs, EvictPcs, ClaimPcs, OrphanPcs, LockedPcs,
                 FirstPcs, TargetPcs, TargetNext
    <3>1. {"location", "new", "upload"} \cap DOMAIN reg = {}
      OBVIOUS
    <3> QED
      BY <1>4, <2>1, <3>1, RegsKept
  <2>3. Target(t) = Target(s)
    BY <2>1, <2>2, JobRows
  <2>4. /\ KindsOK(s) /\ RequestOK(Now, s) /\ CompleteOK(Now, s)
    BY <2>1, PlanParts
  <2> HIDE DEF AcquirePcs, CompletePcs, FencePcs, EvictPcs, ClaimPcs, OrphanPcs, LockedPcs,
               FirstPcs, TargetPcs
  <2>5. \A l \in DOMAIN N : l = Target(s) /\
          (s.job.kind = "evict" => db[l].recencyAt = s.job.row.recencyAt)
    BY <2>1 DEF RowDuty
  <2>6. /\ Target(s) \in RowsOf("location") /\ Target(s) \in Rows
        /\ Target(s) # NewRow(s) \/ s.job.kind # "complete"
        /\ Would(Now, s)[Target(s)] # Absent => db[Target(s)] # Absent
    BY <1>4, <2>1, TargetIssued
  <2>7. EvictOK(Now, t)
    <3> SUFFICES ASSUME s.job.kind = "evict"
                 PROVE  /\ s.job.row.id = s.reg.location
                        /\ \A l \in RowsOf("location") \cap DOMAIN t.writes :
                             db[l] # Absent => db[l].recencyAt = s.job.row.recencyAt
      BY <2>1, <2>2, StateFields DEF EvictOK
    <3>1. /\ s.job.row.id = s.reg.location
          /\ \A l \in RowsOf("location") \cap DOMAIN s.writes :
               db[l] # Absent => db[l].recencyAt = s.job.row.recencyAt
      BY <2>4, StateFields DEF RequestOK
    <3>2. DOMAIN t.writes = DOMAIN N \cup DOMAIN s.writes
      BY <2>1 DEF Grown
    <3> QED
      BY <2>5, <3>1, <3>2
  <2>8. CompleteOK(Now, t)
    <3>1. CASE s.job.kind # "complete"
      BY <2>1, <3>1 DEF CompleteOK
    <3>2. CASE s.job.kind = "complete"
      <4>1. /\ {"new", "upload", "now"} \subseteq DOMAIN t.reg /\ t.reg.now \in Nat
            /\ t.reg.new = s.reg.new /\ t.reg.upload = s.reg.upload
        <5>1. {"upload", "now"} \subseteq DOMAIN s.reg /\ s.reg.now \in Nat
          BY <2>4, <3>2 DEF CompleteOK
        <5>2. "new" \in DOMAIN s.reg
          BY <1>1, <2>4, <3>2 DEF CompleteOK
        <5>3. t.reg.now = s.reg.now
          BY <2>1, <5>1 DEF Grown
        <5> QED
          BY <2>2, <3>2, <5>1, <5>2, <5>3
      <4>2. ASSUME NEW r \in RowsOf("entry") \cup {NewRow(s)}, Puts(s, r)
            PROVE  r \in DOMAIN t.writes /\ t.writes[r] = s.writes[r]
        <5>1. r \notin DOMAIN N
          BY <2>5, <2>6, <3>2, TablesApart, RowFacts
        <5> QED
          BY <2>1, <4>2, <5>1 DEF Grown, Puts
      <4>3. s.pc \in {"fence.lock", "complete.blocks", "complete.delete"} \cup FencePcs
        BY <1>2, <3>2
      <4>4. t.pc \in {"fence.lock", "complete.blocks", "complete.delete", "commit"} \cup FencePcs
        BY <2>1, <3>2 DEF CompleteStays, CompletePcs, FencePcs
      <4> QED
        BY <2>1, <2>4, <4>1, <4>2, <4>3, <4>4, CompleteOn
    <3> QED
      BY <3>1, <3>2
  <2>9. CASE pc = "commit"
    BY <2>1, <2>7, <2>8, <2>9, PlanCommit
  <2>10. CASE pc # "commit"
    <3>1. KindsOK(t) /\ FenceOK(Now, t) /\ ClaimOK(Now, t)
      <4>1. CASE pc \in TargetPcs
        BY <2>3, <4>1 DEF StepDuty
      <4>2. CASE pc = "complete.blocks"
        BY <2>1, <4>2 DEF KindsOK, FenceOK, ClaimOK, AcquirePcs, CompletePcs, FencePcs, EvictPcs,
                          ClaimPcs, OrphanPcs
      <4> QED
        BY <2>10, <4>1, <4>2 DEF AcquirePcs, CompletePcs, FencePcs, EvictPcs, ClaimPcs, OrphanPcs,
                                 LockedPcs, FirstPcs, TargetPcs
    <3>2. t.pc \in LockedPcs => Puts(t, Target(t)) /\ Now.db[Target(t)] # Absent
      <4> SUFFICES ASSUME pc \in LockedPcs
                   PROVE  Puts(t, Target(s)) /\ db[Target(s)] # Absent
        BY <2>1, <2>3, StateFields
      <4>1. Target(s) \in DOMAIN N
        BY <2>1 DEF LockDuty
      <4>2. N[Target(s)] # Absent /\ Would(Now, s)[Target(s)] # Absent
        BY <4>1
      <4>3. Puts(t, Target(s))
        BY <2>1, <4>1, <4>2 DEF Grown, Puts
      <4> QED
        BY <2>6, <4>2, <4>3
    <3>3. t.pc \in ((TargetPcs \ FirstPcs) \ {"request.detach"}) \cup {"complete.blocks"}
      BY <2>1, <2>10 DEF AcquirePcs, CompletePcs, FencePcs, EvictPcs, ClaimPcs, OrphanPcs,
                         LockedPcs, FirstPcs, TargetPcs
    <3>4. t.pc # "merge.lease"
      BY <2>1
    <3> HIDE DEF TargetNext
    <3> QED
      BY <1>4, <2>1, <2>2, <2>7, <2>8, <3>1, <3>2, <3>3, <3>4, TargetPlan
  <2> QED
    BY <2>9, <2>10
<1> HIDE DEF AcquirePcs, CompletePcs, FencePcs, EvictPcs, ClaimPcs, OrphanPcs, LockedPcs,
             FirstPcs, TargetPcs, TargetNext
<1> QED
  BY <1>1, <1>3, <1>5, <1>6, LocationWrites

-----------------------------------------------------------------------------
(* Statements that take the lock of a location.                              *)

BumpStep(from, to) ==
  \/ from = "fence.lock" /\ to = "fence.entries"
  \/ from = "purgeIf" /\ to = "purgeIf.entry"
  \/ from = "evict" /\ to = "evict.get"
  \/ from = "expire" /\ to = "expire.location"
  \/ from = "claim" /\ to = "claim.location"
  \/ from = "merge" /\ to = "merge.location"
BumpClauses(s, where, yes) ==
  Open(Now, s) =>
    /\ Where("id", "EQ", s.reg.location) \in where
    /\ yes = "claim.location" => Where("mergedAt", "NotNil", Null) \in where
    /\ s.job.kind = "evict" =>
         DOMAIN s.writes = {} /\ Where("recencyAt", "EQ", s.job.row.recencyAt) \in where

\* The clauses of a request match its location only.
LEMMA MatchingTarget ==
  ASSUME TransactionInv, NEW p \in Process, NEW s, s = proc[p], Open(Now, s),
         NEW where, Where("id", "EQ", s.reg.location) \in where,
         NEW l \in Matching(Would(Now, s), "location", where)
  PROVE  /\ l = Target(s) /\ l \in RowsOf("location") /\ Would(Now, s)[l] # Absent
         /\ LocationOK(Would(Now, s)[l])
<1>1. l \in RowsOf("location") /\ Would(Now, s)[l] # Absent
  BY MatchingFacts
<1>2. RowOK(l, Would(Now, s)[l])
  BY <1>1, WouldSound, TableRows
<1>3. l = <<"location", s.reg.location>>
  BY <1>2, SelectedID, RowFacts
<1>4. LocationOK(Would(Now, s)[l])
  BY <1>1, <1>2, RowKinds
<1> QED
  BY <1>1, <1>3, <1>4 DEF Target

\* Raising the lease version is how a location is locked.
LEMMA Bumps ==
  ASSUME TransactionInv, NEW p \in Process, NEW s, s = proc[p], NEW where,
         NEW did, did = Update(p, "location", where, Bump), NEW no, NEW yes,
         Does(p, did, IF did.result = {} THEN no ELSE yes),
         BumpStep(s.pc, yes), no \in {"commit", "rollback", "complete.blocks"},
         s.job.kind = "complete" => no \in CompleteStays /\ yes = "fence.entries",
         no = "complete.blocks" => s.job.kind = "complete",
         BumpClauses(s, where, yes)
  PROVE  TransactionInv'
<1> DEFINE rows == Matching(Would(Now, s), "location", where)
<1>1. did.result = rows /\ (did.waits = {} => Alone(p, rows))
  BY UpdateFacts, RowFacts
<1>2. PICK N : /\ Wrote(did, s, N) /\ DOMAIN N = rows
               /\ \A r \in DOMAIN N : /\ r \in RowsOf("location") /\ Would(Now, s)[r] # Absent
                                      /\ N[r] = Changed(Would(Now, s)[r], Bump)
                                      /\ N[r] # Absent /\ "id" \in DOMAIN N[r]
  BY <1>1, UpdateFacts, RowFacts
<1>3. ASSUME Open(Now, s), NEW l \in rows
      PROVE  /\ l = Target(s) /\ LocationOK(Would(Now, s)[l])
             /\ LocationOK(N[l]) /\ Alike(Would(Now, s)[l], N[l]) /\ Still(Would(Now, s)[l], N[l])
             /\ yes = "claim.location" => Would(Now, s)[l].mergedAt # Null
             /\ s.job.kind = "evict" => db[l].recencyAt = s.job.row.recencyAt
  <2>1. /\ Where("id", "EQ", s.reg.location) \in where
        /\ yes = "claim.location" => Where("mergedAt", "NotNil", Null) \in where
        /\ s.job.kind = "evict" =>
             DOMAIN s.writes = {} /\ Where("recencyAt", "EQ", s.job.row.recencyAt) \in where
    BY <1>3 DEF BumpClauses
  <2>2. /\ l = Target(s) /\ l \in RowsOf("location") /\ LocationOK(Would(Now, s)[l])
    BY <1>3, <2>1, MatchingTarget
  <2>3. N[l] = Changed(Would(Now, s)[l], Bump)
    BY <1>2, <1>3
  <2>4. LocationOK(N[l]) /\ Alike(Would(Now, s)[l], N[l]) /\ Still(Would(Now, s)[l], N[l])
    BY <2>2, <2>3, BumpRow
  <2>5. yes = "claim.location" => Would(Now, s)[l]["mergedAt"] # Null
    BY <1>3, <2>1, ChosenNotNil
  <2>6. s.job.kind = "evict" => Would(Now, s)[l]["recencyAt"] = s.job.row.recencyAt
    BY <1>3, <2>1, ChosenEqual
  <2>7. s.job.kind = "evict" => Would(Now, s)[l] = db[l]
    BY <1>3, <2>1, <2>2, WouldSound, TableRows
  <2> QED
    BY <2>2, <2>4, <2>5, <2>6, <2>7
<1> HIDE DEF rows
<1>4. RowDuty(s, N)
  BY <1>2, <1>3 DEF RowDuty, Still
<1>5. DOMAIN N \subseteq RowsOf("location") /\ (did.waits = {} => Alone(p, DOMAIN N))
  BY <1>1, <1>2
<1>6. \A l \in DOMAIN N : Would(Now, s)[l] # Absent /\ N[l] # Absent /\ "id" \in DOMAIN N[l]
  BY <1>2
<1>7. s.pc \in TargetPcs \ {"fence.delete"} /\ DOMAIN <<>> \subseteq {"row"}
  BY DEF BumpStep, TargetPcs
<1>8. CASE rows = {}
  <2>1. Moves(p, did, no, <<>>)
    BY <1>1, <1>8, MovesNothing
  <2>2. no \in TargetNext /\ no \notin TargetPcs /\ no \notin LockedPcs
    BY DEF TargetNext, TargetPcs, LockedPcs, FencePcs, ClaimPcs
  <2>3. LockDuty(s, N, no)
    BY <2>2 DEF LockDuty
  <2> QED
    BY <1>2, <1>4, <1>5, <1>6, <1>7, <2>1, <2>2, <2>3, TargetWrites
<1>9. CASE rows # {}
  <2>1. Moves(p, did, yes, <<>>)
    BY <1>1, <1>9, MovesNothing
  <2>2. yes \in TargetNext /\ yes # "complete.blocks"
    BY DEF BumpStep, TargetNext
  <2>3. LockDuty(s, N, yes)
    BY <1>2, <1>3, <1>9 DEF LockDuty
  <2>4. s.job.kind = "complete" => yes \in CompleteStays
    BY DEF CompleteStays, FencePcs
  <2>5. StepDuty(s, N, yes, <<>>)
    <3> SUFFICES ASSUME NEW t, WriteAsks(s, t, N, yes, <<>>), Target(t) = Target(s)
                 PROVE  KindsOK(t) /\ FenceOK(Now, t) /\ ClaimOK(Now, t)
      BY DEF StepDuty
    <3>1. Open(Now, s) /\ t.pc = yes /\ t.job = s.job /\ KindsOK(s) /\ Grown(t.writes, N, s.writes)
      BY PlanParts DEF WriteAsks
    <3>2. KindsOK(t)
      BY <3>1 DEF KindsOK, BumpStep, AcquirePcs, CompletePcs, FencePcs, EvictPcs, OrphanPcs
    <3>3. FenceOK(Now, t)
      BY <3>1 DEF FenceOK, BumpStep, FencePcs
    <3>4. ClaimOK(Now, t)
      <4>1. CASE yes # "claim.location"
        BY <3>1, <4>1 DEF ClaimOK, BumpStep, ClaimPcs
      <4>2. CASE yes = "claim.location"
        <5>1. Target(s) \in DOMAIN N /\ Target(s) \in rows
          BY <1>2, <1>3, <1>9, <3>1
        <5>2. N[Target(s)].mergedAt = Would(Now, s)[Target(s)].mergedAt
              /\ Would(Now, s)[Target(s)].mergedAt # Null
          BY <1>3, <3>1, <4>2, <5>1 DEF Still
        <5>3. t.writes[Target(s)].mergedAt # Null
          BY <3>1, <5>1, <5>2 DEF Grown
        <5> QED
          BY <3>1, <4>2, <5>3 DEF ClaimOK
      <4> QED
        BY <4>1, <4>2
    <3> QED
      BY <3>2, <3>3, <3>4
  <2> QED
    BY <1>2, <1>4, <1>5, <1>6, <1>7, <2>1, <2>2, <2>3, <2>4, <2>5, TargetWrites
<1> QED
  BY <1>8, <1>9

LEMMA FenceLockKeeps ==
  ASSUME TransactionInv, NEW p \in Process, FenceLock(p)
  PROVE  TransactionInv'
<1> DEFINE s == proc[p]
           where == {LocationID("EQ", proc[p].reg.location)}
           did == Update(p, "location", where, Bump)
           no == Returned(p)
<1>1. s.pc = "fence.lock"
  BY DEF FenceLock, At
<1>2. Does(p, did, IF did.result = {} THEN no ELSE "fence.entries")
  BY DEF FenceLock, UpdateLocation
<1>3. no = (IF s.job.kind = "complete" THEN "complete.blocks" ELSE "commit")
  BY DEF Returned
<1>4. Open(Now, s) => s.job.kind # "evict"
  BY <1>1, OpenParts, PlanParts DEF KindsOK, EvictPcs, FencePcs
<1>5. Where("id", "EQ", s.reg.location) \in where
  BY DEF LocationID
<1>6. s = proc[p] /\ did = Update(p, "location", where, Bump)
  OBVIOUS
<1> HIDE DEF s, where, did, no
<1>7. BumpClauses(s, where, "fence.entries")
  BY <1>4, <1>5 DEF BumpClauses
<1>8. BumpStep(s.pc, "fence.entries")
  BY <1>1 DEF BumpStep
<1>9. /\ no \in {"commit", "rollback", "complete.blocks"}
      /\ s.job.kind = "complete" => no \in CompleteStays
      /\ no = "complete.blocks" => s.job.kind = "complete"
  BY <1>3 DEF CompleteStays, CompletePcs
<1> QED
  BY <1>2, <1>6, <1>7, <1>8, <1>9, Bumps

LEMMA PurgeIfClaimKeeps ==
  ASSUME TransactionInv, NEW p \in Process, PurgeIfClaim(p)
  PROVE  TransactionInv'
<1> DEFINE s == proc[p]
           row == proc[p].reg.row
           where == Unfenced(row.id) \cup ObservedRepresentation(row)
             \cup {LocationFolderName("EQ", row.folderName), LocationPartCount("EQ", row.partCount),
                   LocationLeaseVersion("EQ", row.leaseVersion)}
           did == Update(p, "location", where, Bump)
<1>1. s.pc = "purgeIf"
  BY DEF PurgeIfClaim, At
<1>2. Does(p, did, IF did.result = {} THEN "commit" ELSE "purgeIf.entry")
  BY DEF PurgeIfClaim, UpdateLocation
<1>3. Where("id", "EQ", row.id) \in where
  BY DEF LocationID, Unfenced
<1>4. s = proc[p] /\ did = Update(p, "location", where, Bump)
  OBVIOUS
<1>5. Open(Now, s) => row.id = s.reg.location
  BY <1>1, OpenParts, PlanParts DEF RequestOK
<1> HIDE DEF s, where, did
<1>6. Ours(s) /\ s.job.kind # "complete"
  BY <1>1, <1>4, KindFacts DEF Ours, CompletePcs, FencePcs
<1>7. Open(Now, s) => s.job.kind # "evict"
  BY <1>1, <1>4, OpenParts, PlanParts DEF KindsOK, EvictPcs, FencePcs
<1>8. BumpClauses(s, where, "purgeIf.entry")
  BY <1>3, <1>5, <1>7 DEF BumpClauses
<1>9. BumpStep(s.pc, "purgeIf.entry")
  BY <1>1 DEF BumpStep
<1> QED
  BY <1>2, <1>4, <1>6, <1>8, <1>9, Bumps

LEMMA EvictClaimKeeps ==
  ASSUME TransactionInv, NEW p \in Process, EvictClaim(p)
  PROVE  TransactionInv'
<1> DEFINE s == proc[p]
           row == proc[p].job.row
           where == Unfenced(row.id) \cup {LocationLeaseVersion("EQ", row.leaseVersion),
                                LocationSizeBytes("NotNil", Null),
                                LocationRecencyAt("EQ", row.recencyAt),
                                Same(LocationLastDownloadedAt("EQ", row.lastDownloadedAt))}
           did == Update(p, "location", where, Bump)
<1>1. s.pc = "evict"
  BY DEF EvictClaim, At
<1>2. Does(p, did, IF did.result = {} THEN "commit" ELSE "evict.get")
  BY DEF EvictClaim, UpdateLocation
<1>3. Where("id", "EQ", row.id) \in where /\ Where("recencyAt", "EQ", row.recencyAt) \in where
  BY DEF LocationID, Unfenced, LocationRecencyAt
<1>4. s = proc[p] /\ did = Update(p, "location", where, Bump) /\ row = s.job.row
  OBVIOUS
<1> HIDE DEF s, row, where, did
<1>5. Open(Now, s) => (s.job.kind = "evict" => row.id = s.reg.location)
  BY <1>1, <1>4, OpenParts, PlanParts DEF RequestOK
<1>6. Ours(s) /\ s.job.kind # "complete"
  BY <1>1, <1>4, KindFacts DEF Ours, CompletePcs, FencePcs
<1>7. Open(Now, s) => s.job.kind = "evict" /\ DOMAIN s.writes = {}
  BY <1>1, <1>4, OpenParts, PlanParts DEF KindsOK, EvictPcs, FirstOK, FirstPcs
<1>8. BumpClauses(s, where, "evict.get")
  BY <1>3, <1>4, <1>5, <1>7 DEF BumpClauses
<1>9. BumpStep(s.pc, "evict.get")
  BY <1>1 DEF BumpStep
<1> QED
  BY <1>2, <1>4, <1>6, <1>8, <1>9, Bumps

LEMMA ExpireLockKeeps ==
  ASSUME TransactionInv, NEW p \in Process, ExpireLock(p)
  PROVE  TransactionInv'
<1> DEFINE s == proc[p]
           where == Unfenced(proc[p].reg.location)
           did == Update(p, "location", where, Bump)
<1>1. s.pc = "expire"
  BY DEF ExpireLock, At
<1>2. Does(p, did, IF did.result = {} THEN "commit" ELSE "expire.location")
  BY DEF ExpireLock, UpdateLocation
<1>3. Where("id", "EQ", s.reg.location) \in where
  BY DEF LocationID, Unfenced
<1>4. s = proc[p] /\ did = Update(p, "location", where, Bump)
  OBVIOUS
<1> HIDE DEF s, where, did
<1>5. Ours(s) /\ s.job.kind # "complete"
  BY <1>1, <1>4, KindFacts DEF Ours, CompletePcs, FencePcs
<1>6. Open(Now, s) => s.job.kind # "evict"
  BY <1>1, <1>4, OpenParts, PlanParts DEF KindsOK, EvictPcs, FencePcs
<1>7. BumpClauses(s, where, "expire.location")
  BY <1>3, <1>6 DEF BumpClauses
<1>8. BumpStep(s.pc, "expire.location")
  BY <1>1 DEF BumpStep
<1> QED
  BY <1>2, <1>4, <1>5, <1>7, <1>8, Bumps

LEMMA ClaimLockKeeps ==
  ASSUME TransactionInv, NEW p \in Process, ClaimLock(p)
  PROVE  TransactionInv'
<1> DEFINE s == proc[p]
           where == Unfenced(proc[p].reg.location) \cup
             {LocationMergedAt("NotNil", Null), LocationPartsDeletedAt("IsNil", Null)}
           did == Update(p, "location", where, Bump)
<1>1. s.pc = "claim"
  BY DEF ClaimLock, At
<1>2. Does(p, did, IF did.result = {} THEN "commit" ELSE "claim.location")
  BY DEF ClaimLock, UpdateLocation
<1>3. Where("id", "EQ", s.reg.location) \in where /\ Where("mergedAt", "NotNil", Null) \in where
  BY DEF LocationID, Unfenced, LocationMergedAt
<1>4. s = proc[p] /\ did = Update(p, "location", where, Bump)
  OBVIOUS
<1> HIDE DEF s, where, did
<1>5. Ours(s) /\ s.job.kind # "complete"
  BY <1>1, <1>4, KindFacts DEF Ours, CompletePcs, FencePcs
<1>6. Open(Now, s) => s.job.kind # "evict"
  BY <1>1, <1>4, OpenParts, PlanParts DEF KindsOK, EvictPcs, FencePcs
<1>7. BumpClauses(s, where, "claim.location")
  BY <1>3, <1>6 DEF BumpClauses
<1>8. BumpStep(s.pc, "claim.location")
  BY <1>1 DEF BumpStep
<1> QED
  BY <1>2, <1>4, <1>5, <1>7, <1>8, Bumps

LEMMA MergeLockKeeps ==
  ASSUME TransactionInv, NEW p \in Process, MergeLock(p)
  PROVE  TransactionInv'
<1> DEFINE s == proc[p]
           where == Unfenced(proc[p].reg.location)
           did == Update(p, "location", where, Bump)
<1>1. s.pc = "merge"
  BY DEF MergeLock, At
<1>2. Does(p, did, IF did.result = {} THEN "rollback" ELSE "merge.location")
  BY DEF MergeLock, UpdateLocation
<1>3. Where("id", "EQ", s.reg.location) \in where
  BY DEF LocationID, Unfenced
<1>4. s = proc[p] /\ did = Update(p, "location", where, Bump)
  OBVIOUS
<1> HIDE DEF s, where, did
<1>5. Ours(s) /\ s.job.kind # "complete"
  BY <1>1, <1>4, KindFacts DEF Ours, CompletePcs, FencePcs
<1>6. Open(Now, s) => s.job.kind # "evict"
  BY <1>1, <1>4, OpenParts, PlanParts DEF KindsOK, EvictPcs, FencePcs
<1>7. BumpClauses(s, where, "merge.location")
  BY <1>3, <1>6 DEF BumpClauses
<1>8. BumpStep(s.pc, "merge.location")
  BY <1>1 DEF BumpStep
<1> QED
  BY <1>2, <1>4, <1>5, <1>7, <1>8, Bumps

-----------------------------------------------------------------------------
(* Statements that change the target of a request and end it.                *)

LEMMA ChosenSet ==
  ASSUME NEW store, NEW table, NEW where, NEW r \in Matching(store, table, where),
         NEW column, NEW value, Where(column, "EQ", value) \in where
  PROVE  store[r][column] # Null
<1> DEFINE row == store[r]
<1>1. Holds(<<column, "EQ", value>>, row)
  BY Chosen
<1> SUFFICES row[column] # Null
  OBVIOUS
<1> HIDE DEF row
<1> QED
  BY <1>1, WhereFacts

ChangeDuty(s, where, changes) ==
  Open(Now, s) =>
    /\ Where("id", "EQ", s.reg.location) \in where
    /\ \A l \in Matching(Would(Now, s), "location", where) :
         LET old == Would(Now, s)[l]
             new == Changed(old, changes)
         IN LocationOK(old) =>
              /\ LocationOK(new) /\ Alike(old, new)
              /\ new.deletionRequestedAt = old.deletionRequestedAt
              /\ new.partsDeletedAt = old.partsDeletedAt

\* An update of the location of a request that commits next.
LEMMA TargetChanges ==
  ASSUME TransactionInv, NEW p \in Process, NEW s, s = proc[p], NEW where, NEW changes,
         NEW did, did = Update(p, "location", where, changes), Does(p, did, "commit"),
         s.pc \in {"touch", "size", "merged"}, ChangeDuty(s, where, changes)
  PROVE  TransactionInv'
<1> DEFINE rows == Matching(Would(Now, s), "location", where)
<1>1. did.result = rows /\ (did.waits = {} => Alone(p, rows))
  BY UpdateFacts, RowFacts
<1>2. PICK N : /\ Wrote(did, proc[p], N) /\ DOMAIN N = did.result
               /\ \A r \in DOMAIN N : /\ r \in RowsOf("location") /\ r \in Rows
                                      /\ Would(Now, proc[p])[r] # Absent
                                      /\ N[r] = Changed(Would(Now, proc[p])[r], changes)
                                      /\ N[r] # Absent /\ "id" \in DOMAIN N[r]
  <2>1. "location" \in Tables
    BY RowFacts
  <2> QED
    BY <2>1, UpdateFacts
<1>3. Ours(s) /\ s.job.kind # "complete"
  BY KindFacts DEF Ours, CompletePcs, FencePcs
<1>4. Open(Now, s) => s.job.kind # "evict"
  BY OpenParts, PlanParts DEF KindsOK, EvictPcs, FencePcs
<1>5. ASSUME Open(Now, s), NEW l \in rows
      PROVE  /\ l = Target(s) /\ LocationOK(N[l]) /\ Alike(Would(Now, s)[l], N[l])
             /\ N[l].deletionRequestedAt = Would(Now, s)[l].deletionRequestedAt
             /\ N[l].partsDeletedAt = Would(Now, s)[l].partsDeletedAt
  <2>1. Where("id", "EQ", s.reg.location) \in where
    BY <1>5 DEF ChangeDuty
  <2>2. l = Target(s) /\ LocationOK(Would(Now, s)[l])
    BY <1>5, <2>1, MatchingTarget
  <2>3. N[l] = Changed(Would(Now, s)[l], changes)
    BY <1>1, <1>2, <1>5
  <2> QED
    BY <1>5, <2>2, <2>3 DEF ChangeDuty
<1> HIDE DEF rows
<1>6. RowDuty(s, N)
  BY <1>1, <1>2, <1>4, <1>5 DEF RowDuty
<1>7. /\ DOMAIN N \subseteq RowsOf("location") /\ (did.waits = {} => Alone(p, DOMAIN N))
      /\ \A l \in DOMAIN N : Would(Now, s)[l] # Absent /\ N[l] # Absent /\ "id" \in DOMAIN N[l]
  BY <1>1, <1>2
<1>8. /\ s.pc \in TargetPcs \ {"fence.delete"} /\ "commit" \in TargetNext
      /\ "commit" \notin TargetPcs \cup LockedPcs /\ DOMAIN <<>> \subseteq {"row"}
  BY DEF TargetPcs, LockedPcs, FencePcs, ClaimPcs, TargetNext
<1>9. LockDuty(s, N, "commit")
  BY <1>8 DEF LockDuty
<1>10. Moves(p, did, "commit", <<>>)
  BY MovesNothing
<1> QED
  BY <1>2, <1>3, <1>6, <1>7, <1>8, <1>9, <1>10, TargetWrites

LEMMA TouchUpdateKeeps ==
  ASSUME TransactionInv, NEW p \in Process, TouchUpdate(p)
  PROVE  TransactionInv'
<1> DEFINE s == proc[p]
           where == {LocationID("EQ", proc[p].reg.location),
                     Or(LocationLastDownloadedAt("IsNil", Null),
                        LocationLastDownloadedAt("LT", clock - Lasts + 1))}
           changes == ChangeLocationLastDownloadedAt("set", clock)
                        ++ ChangeLocationRecencyAt("set", clock)
           did == Update(p, "location", where, changes)
<1>1. s.pc = "touch"
  BY DEF TouchUpdate, At
<1>2. Does(p, did, "commit")
  BY DEF TouchUpdate, UpdateLocation
<1>3. Where("id", "EQ", s.reg.location) \in where
  BY DEF LocationID
<1>4. ASSUME NEW old, LocationOK(old), NEW new, new = Changed(old, changes)
      PROVE  /\ LocationOK(new) /\ Alike(old, new) /\
                  new.deletionRequestedAt = old.deletionRequestedAt
             /\ new.partsDeletedAt = old.partsDeletedAt
  BY <1>4, ProcessFacts, TouchedRow DEF Still
<1>5. s = proc[p] /\ did = Update(p, "location", where, changes)
  OBVIOUS
<1> HIDE DEF s, where, changes, did
<1>6. ChangeDuty(s, where, changes)
  BY <1>3, <1>4 DEF ChangeDuty
<1> QED
  BY <1>1, <1>2, <1>5, <1>6, TargetChanges

LEMMA SizeUpdateKeeps ==
  ASSUME TransactionInv, NEW p \in Process, SizeUpdate(p)
  PROVE  TransactionInv'
<1> DEFINE s == proc[p]
           where == Unfenced(proc[p].reg.location) \cup {LocationSizeBytes("IsNil", Null)}
           changes == ChangeLocationSizeBytes("set", 1)
           did == Update(p, "location", where, changes)
<1>1. s.pc = "size"
  BY DEF SizeUpdate, At
<1>2. Does(p, did, "commit")
  BY DEF SizeUpdate, UpdateLocation
<1>3. Where("id", "EQ", s.reg.location) \in where
  BY DEF Unfenced, LocationID
<1>4. ASSUME NEW old, LocationOK(old), NEW new, new = Changed(old, changes)
      PROVE  /\ LocationOK(new) /\ Alike(old, new) /\
                  new.deletionRequestedAt = old.deletionRequestedAt
             /\ new.partsDeletedAt = old.partsDeletedAt
  BY <1>4, SizedRow DEF Still
<1>5. s = proc[p] /\ did = Update(p, "location", where, changes)
  OBVIOUS
<1> HIDE DEF s, where, changes, did
<1>6. ChangeDuty(s, where, changes)
  BY <1>3, <1>4 DEF ChangeDuty
<1> QED
  BY <1>1, <1>2, <1>5, <1>6, TargetChanges

LEMMA MergeEndsKeeps ==
  ASSUME TransactionInv, NEW p \in Process, MergeEnds(p)
  PROVE  TransactionInv'
<1> DEFINE s == proc[p]
           job == proc[p].job
           where == {LocationID("EQ", proc[p].reg.location),
             LocationMergeLeaseToken("EQ", job.token),
                     LocationMergedAt("IsNil", Null)}
                      \cup (IF job.how = "release" THEN {}
                            ELSE {LocationMergeLeaseExpiresAt("GT", clock)})
           changes == Ended(job.how, clock)
           did == Update(p, "location", where, changes)
<1>1. s.pc = "merged"
  BY DEF MergeEnds, At
<1>2. Does(p, did, "commit")
  BY DEF MergeEnds, UpdateLocation
<1>3. /\ Where("id", "EQ", s.reg.location) \in where /\ Where("mergedAt", "IsNil", Null) \in where
      /\ Where("mergeLeaseToken", "EQ", job.token) \in where
  BY DEF LocationID, LocationMergedAt, LocationMergeLeaseToken
<1>4. clock # Null
  BY ProcessFacts, NullFacts
<1>5. ASSUME NEW old, LocationOK(old), old.mergeLeaseToken # Null, old.mergedAt = Null,
             job.how \in {"finish", "unsupported", "release", "extend"},
             NEW new, new = Changed(old, changes)
      PROVE  /\ LocationOK(new) /\ Alike(old, new) /\
                  new.deletionRequestedAt = old.deletionRequestedAt
             /\ new.partsDeletedAt = old.partsDeletedAt
  <2>1. CASE job.how = "finish"
    BY <1>5, <2>1, FinishedRow DEF Ended
  <2>2. CASE job.how = "unsupported"
    BY <1>4, <1>5, <2>2, UnsupportedRow DEF Ended
  <2>3. CASE job.how = "release"
    BY <1>5, <2>3, ReleasedRow DEF Ended
  <2>4. CASE job.how = "extend"
    BY <1>5, <2>4, ExtendedRow DEF Ended
  <2> QED
    BY <1>5, <2>1, <2>2, <2>3, <2>4
<1>6. s = proc[p] /\ did = Update(p, "location", where, changes) /\ job = s.job
  OBVIOUS
<1> HIDE DEF s, job, where, changes, did
<1>7. Open(Now, s) => job.how \in {"finish", "unsupported", "release", "extend"}
  BY <1>1, <1>6, OpenParts, PlanParts DEF RequestOK
<1>8. ASSUME NEW l \in Matching(Would(Now, s), "location", where)
      PROVE  Would(Now, s)[l]["mergeLeaseToken"] # Null /\ Would(Now, s)[l]["mergedAt"] = Null
  BY <1>3, ChosenSet, ChosenNil
<1>9. ChangeDuty(s, where, changes)
  BY <1>3, <1>5, <1>7, <1>8 DEF ChangeDuty
<1> QED
  BY <1>1, <1>2, <1>6, <1>9, TargetChanges

-----------------------------------------------------------------------------
(* Statements that mark the location that a request has locked.              *)

MarkDuty(s, changes) ==
  Open(Now, s) =>
    LET old == Would(Now, s)[Target(s)]
        new == Changed(old, changes)
    IN LocationOK(old) =>
         /\ LocationOK(new) /\ Alike(old, new)
         /\ \/ new.deletionRequestedAt = old.deletionRequestedAt
            \/ NoEntries(Would(Now, s), Target(s))
         /\ \/ new.partsDeletedAt = old.partsDeletedAt
            \/ engine = "mysql" \/ Unread(Would(Now, s), Target(s))
MarkStep(s, reg) ==
  \A N : (Open(Now, s) => /\ DOMAIN N = {Target(s)}
                          /\ N[Target(s)].folderName = s.writes[Target(s)].folderName)
            => StepDuty(s, N, "fence.leases", reg)

LEMMA WouldPut ==
  ASSUME NEW s, NEW r, Puts(s, r)
  PROVE  Would(Now, s)[r] = s.writes[r] /\ Would(Now, s)[r] # Absent
<1>1. Grown(Would(Now, s), s.writes, Now.db)
  BY WouldGrown
<1> QED
  BY <1>1 DEF Grown, Puts

\* A mark on the location that the request has locked.
LEMMA MarksTarget ==
  ASSUME TransactionInv, NEW p \in Process, NEW s, s = proc[p], NEW changes,
         NEW did, did = UpdateOne(p, "location", s.reg.location, changes), NEW yes, NEW reg,
         Moves(p, did, IF did.result THEN yes ELSE "rollback", reg), DOMAIN reg \subseteq {"row"},
         s.pc \in {"fence.mark", "claim.mark", "merge.lease"}, yes \in {"fence.leases", "commit"},
         s.job.kind = "complete" => yes \in CompleteStays,
         MarkDuty(s, changes), yes = "fence.leases" => MarkStep(s, reg)
  PROVE  TransactionInv'
<1> DEFINE id == s.reg.location
           where == ByID(id)
           rows == Matching(Would(Now, s), "location", where)
<1>0. "location" \in Tables /\ did = UpdateOne(p, "location", id, changes)
  BY RowFacts
<1>1. where = {Where("id", "EQ", s.reg.location)}
  BY DEF ByID
<1> HIDE DEF id
<1>2. PICK N : /\ Wrote(did, proc[p], N)
               /\ DOMAIN N = Matching(Would(Now, proc[p]), "location", where)
               /\ did.waits = {} => Alone(p, DOMAIN N)
               /\ \A r \in DOMAIN N : /\ r \in RowsOf("location") /\ r \in Rows
                                      /\ Would(Now, proc[p])[r] # Absent
                                      /\ N[r] = Changed(Would(Now, proc[p])[r], changes)
                                      /\ N[r] # Absent /\ "id" \in DOMAIN N[r]
  BY <1>0, UpdateOneFacts
<1> HIDE DEF where
<1>3. /\ Wrote(did, s, N) /\ DOMAIN N = rows /\ (did.waits = {} => Alone(p, DOMAIN N))
      /\ \A r \in DOMAIN N : /\ r \in RowsOf("location") /\ Would(Now, s)[r] # Absent
                             /\ N[r] = Changed(Would(Now, s)[r], changes)
                             /\ N[r] # Absent /\ "id" \in DOMAIN N[r]
  BY <1>2
<1>4. s.pc \in LockedPcs /\ s.pc \in TargetPcs \ {"fence.delete"}
  BY DEF LockedPcs, FencePcs, ClaimPcs, TargetPcs
<1>5. ASSUME Open(Now, s)
      PROVE  /\ rows = {Target(s)} /\ LocationOK(Would(Now, s)[Target(s)])
             /\ Would(Now, s)[Target(s)] = s.writes[Target(s)]
             /\ s.job.kind = "evict" => db[Target(s)].recencyAt = s.job.row.recencyAt
  <2>1. /\ Target(s) \in RowsOf("location") /\ Puts(s, Target(s)) /\ db[Target(s)] # Absent
    BY <1>4, <1>5, TargetHeld
  <2>2. Would(Now, s)[Target(s)] = s.writes[Target(s)] /\ Would(Now, s)[Target(s)] # Absent
    BY <2>1, WouldPut
  <2>3. RowOK(Target(s), Would(Now, s)[Target(s)])
    BY <1>5, <2>1, <2>2, WouldSound, TableRows
  <2>4. LocationOK(Would(Now, s)[Target(s)])
    BY <2>1, <2>3, RowKinds
  <2>5. \A l \in rows : l = Target(s)
    BY <1>1, <1>5, MatchingTarget
  <2>6. Target(s) \in rows
    <3>1. Would(Now, s)[Target(s)]["id"] = s.reg.location /\ s.reg.location # Null
      <4>1. Target(s)[2] = s.reg.location
        BY DEF Target
      <4>2. s.reg.location \in Location
        BY <1>4, <1>5, TargetHeld
      <4> QED
        BY <2>3, <4>1, <4>2, NullFacts DEF RowOK
    <3>2. \E q \in Where("id", "EQ", s.reg.location) : Holds(q, Would(Now, s)[Target(s)])
      BY <3>1, Equal
    <3> QED
      BY <1>1, <2>1, <2>2, <3>2, MatchingFacts
  <2>7. s.job.kind = "evict" => db[Target(s)].recencyAt = s.job.row.recencyAt
    BY <1>5, <2>1, OpenParts, PlanParts, StateFields DEF RequestOK, Puts
  <2> QED
    BY <2>2, <2>4, <2>5, <2>6, <2>7
<1> HIDE DEF rows
<1>6. ASSUME Open(Now, s)
      PROVE  /\ DOMAIN N = {Target(s)} /\ LocationOK(N[Target(s)])
             /\ Alike(Would(Now, s)[Target(s)], N[Target(s)])
             /\ N[Target(s)].folderName = s.writes[Target(s)].folderName
             /\ \/ N[Target(s)].deletionRequestedAt = Would(Now, s)[Target(s)].deletionRequestedAt
                \/ NoEntries(Would(Now, s), Target(s))
             /\ \/ N[Target(s)].partsDeletedAt = Would(Now, s)[Target(s)].partsDeletedAt
                \/ engine = "mysql" \/ Unread(Would(Now, s), Target(s))
  <2>1. DOMAIN N = {Target(s)} /\ N[Target(s)] = Changed(Would(Now, s)[Target(s)], changes)
    BY <1>3, <1>5, <1>6
  <2>2. Alike(Would(Now, s)[Target(s)], N[Target(s)])
    BY <1>5, <1>6, <2>1 DEF MarkDuty
  <2> QED
    BY <1>5, <1>6, <2>1, <2>2 DEF MarkDuty, Alike
<1>7. RowDuty(s, N)
  BY <1>3, <1>5, <1>6 DEF RowDuty
<1>8. /\ DOMAIN N \subseteq RowsOf("location")
      /\ \A l \in DOMAIN N : Would(Now, s)[l] # Absent /\ N[l] # Absent /\ "id" \in DOMAIN N[l]
  BY <1>3
<1>9. CASE did.result
  <2>1. Moves(p, did, yes, reg)
    BY <1>9
  <2>2. yes \in TargetNext /\ yes # "complete.blocks" /\ (yes \in TargetPcs => yes = "fence.leases")
    BY DEF TargetNext, TargetPcs, LockedPcs, FencePcs, ClaimPcs
  <2>3. LockDuty(s, N, yes)
    BY <1>6 DEF LockDuty
  <2>4. yes \in TargetPcs => StepDuty(s, N, yes, reg)
    BY <1>6, <2>2 DEF MarkStep
  <2> QED
    BY <1>3, <1>4, <1>7, <1>8, <2>1, <2>2, <2>3, <2>4, TargetWrites
<1>10. CASE ~did.result
  <2>1. Moves(p, did, "rollback", reg)
    BY <1>10
  <2>2. /\ "rollback" \in TargetNext /\ "rollback" \notin TargetPcs /\ "rollback" \notin LockedPcs
        /\ "rollback" \in CompleteStays
    BY DEF TargetNext, TargetPcs, LockedPcs, FencePcs, ClaimPcs, CompleteStays
  <2>3. LockDuty(s, N, "rollback")
    BY <2>2 DEF LockDuty
  <2> QED
    BY <1>3, <1>4, <1>7, <1>8, <2>1, <2>2, <2>3, TargetWrites
<1> QED
  BY <1>9, <1>10

LEMMA FenceMarkKeeps ==
  ASSUME TransactionInv, NEW p \in Process, FenceMark(p)
  PROVE  TransactionInv'
<1> DEFINE s == proc[p]
           changes == ChangeLocationDeletionRequestedAt("set", s.reg.now)
           did == UpdateOne(p, "location", s.reg.location, changes)
           reg == [row |-> [s.reg.row EXCEPT !.deletionRequestedAt = s.reg.now]]
<1>1. s.pc = "fence.mark"
  BY DEF FenceMark, At
<1>2. Keeps(p, did, IF did.result THEN "fence.leases" ELSE "rollback", reg)
  BY DEF FenceMark, UpdateOneLocation
<1>3. \A old, new : LocationOK(old) /\ new = Changed(old, changes) =>
        LocationOK(new) /\ Alike(old, new) /\ new.partsDeletedAt = old.partsDeletedAt
  BY FencedRow
<1>4. DOMAIN reg = {"row"}
  OBVIOUS
<1>5. reg.row = [s.reg.row EXCEPT !.deletionRequestedAt = s.reg.now]
  OBVIOUS
<1>6. s = proc[p] /\ did = UpdateOne(p, "location", s.reg.location, changes)
  OBVIOUS
<1> HIDE DEF s, changes, did, reg
<1>7. Open(Now, s) => KindsOK(s) /\ FenceOK(Now, s)
  BY <1>6, OpenParts, PlanParts
<1>8. MarkDuty(s, changes)
  BY <1>1, <1>3, <1>7 DEF MarkDuty, FenceOK, FencePcs
<1>9. MarkStep(s, reg)
  <2> SUFFICES ASSUME NEW N, NEW t, WriteAsks(s, t, N, "fence.leases", reg), Target(t) = Target(s),
                      Open(Now, s) => /\ DOMAIN N = {Target(s)}
                                      /\ N[Target(s)].folderName = s.writes[Target(s)].folderName
               PROVE  KindsOK(t) /\ FenceOK(Now, t) /\ ClaimOK(Now, t)
    BY DEF MarkStep, StepDuty
  <2>1. /\ Open(Now, s) /\ t.pc = "fence.leases" /\ t.job = s.job /\ Grown(t.reg, reg, s.reg)
        /\ Grown(t.writes, N, s.writes) /\ Grown(Would(Now, t), N, Would(Now, s))
    BY DEF WriteAsks
  <2>2. DOMAIN N = {Target(s)} /\ N[Target(s)].folderName = s.writes[Target(s)].folderName
    BY <2>1
  <2>3. /\ NoEntries(Would(Now, s), Target(s)) /\ {"row", "now"} \subseteq DOMAIN s.reg
        /\ s.reg.now \in Nat /\ DOMAIN s.reg.row = DOMAIN NewLocation
        /\ s.reg.row.folderName = s.writes[Target(s)].folderName
    BY <1>1, <1>7, <2>1 DEF FenceOK, FencePcs
  <2>4. KindsOK(t)
    BY <1>1, <1>7, <2>1 DEF KindsOK, AcquirePcs, CompletePcs, FencePcs, EvictPcs, OrphanPcs
  <2>5. ClaimOK(Now, t)
    BY <2>1 DEF ClaimOK, ClaimPcs
  <2>6. NoEntries(Would(Now, t), Target(t))
    <3>1. Typed(Would(Now, s)) /\ Target(s) \in RowsOf("location")
      BY <1>1, <1>6, <2>1, WouldSound, TargetIssued DEF TargetPcs, LockedPcs, FencePcs
    <3>2. \A e \in RowsOf("entry") : e \in DOMAIN Would(Now, s) /\ e # Target(s)
      BY <3>1, TableRows, TablesApart, RowFacts DEF Typed
    <3>3. \A e \in RowsOf("entry") : Would(Now, t)[e] = Would(Now, s)[e]
      BY <2>1, <2>2, <3>2 DEF Grown
    <3> QED
      BY <2>3, <3>3 DEF NoEntries
  <2>7. t.reg.row = reg.row /\ "row" \in DOMAIN t.reg /\ "now" \in DOMAIN t.reg
        /\ t.reg.now = s.reg.now /\ t.writes[Target(s)] = N[Target(s)]
    BY <1>4, <2>1, <2>2, <2>3 DEF Grown
  <2>8. "folderName" \in DOMAIN s.reg.row
    BY <2>3, LocationColumns
  <2>9. DOMAIN reg.row = DOMAIN s.reg.row /\ reg.row.folderName = s.reg.row.folderName
    BY <1>5, <2>8
  <2>10. FenceOK(Now, t)
    BY <2>1, <2>2, <2>3, <2>6, <2>7, <2>9 DEF FenceOK
  <2> QED
    BY <2>4, <2>5, <2>10
<1>10. Moves(p, did, IF did.result THEN "fence.leases" ELSE "rollback", reg)
  BY <1>2 DEF Moves
<1>11. "fence.leases" \in CompleteStays
  BY DEF CompleteStays, FencePcs
<1> QED
  BY <1>1, <1>4, <1>6, <1>8, <1>9, <1>10, <1>11, MarksTarget

LEMMA ClaimMarkKeeps ==
  ASSUME TransactionInv, NEW p \in Process, ClaimMark(p)
  PROVE  TransactionInv'
<1> DEFINE s == proc[p]
           changes == ChangeLocationPartsDeletedAt("set", s.reg.now)
           did == UpdateOne(p, "location", s.reg.location, changes)
<1>1. s.pc = "claim.mark"
  BY DEF ClaimMark, At
<1>2. Does(p, did, IF did.result THEN "commit" ELSE "rollback")
  BY DEF ClaimMark, UpdateOneLocation
<1>3. \A old, new : LocationOK(old) /\ old.mergedAt # Null /\ new = Changed(old, changes) =>
        LocationOK(new) /\ Alike(old, new) /\ new.deletionRequestedAt = old.deletionRequestedAt
  BY ClaimedRow
<1>4. s = proc[p] /\ did = UpdateOne(p, "location", s.reg.location, changes)
  OBVIOUS
<1> HIDE DEF s, changes, did
<1>5. Ours(s) /\ s.job.kind # "complete"
  BY <1>1, <1>4, KindFacts DEF Ours, CompletePcs, FencePcs
<1>6. MarkDuty(s, changes)
  <2> SUFFICES ASSUME Open(Now, s)
               PROVE  /\ Would(Now, s)[Target(s)].mergedAt # Null
                      /\ engine = "mysql" \/ Unread(Would(Now, s), Target(s))
    BY <1>3 DEF MarkDuty
  <2>1. ClaimOK(Now, s)
    BY <1>4, OpenParts, PlanParts
  <2>2. Puts(s, Target(s)) /\ Would(Now, s)[Target(s)] = s.writes[Target(s)]
    BY <1>1, <1>4, TargetHeld, WouldPut DEF LockedPcs, ClaimPcs
  <2> QED
    BY <1>1, <2>1, <2>2, StateFields DEF ClaimOK, ClaimPcs
<1>7. Moves(p, did, IF did.result THEN "commit" ELSE "rollback", <<>>) /\
        DOMAIN <<>> \subseteq {"row"}
  BY <1>2, MovesNothing
<1> QED
  BY <1>1, <1>4, <1>5, <1>6, <1>7, MarksTarget

LEMMA MergeLeaseKeeps ==
  ASSUME TransactionInv, NEW p \in Process, MergeLease(p)
  PROVE  TransactionInv'
<1> DEFINE s == proc[p]
           changes == ChangeLocationMergeStartedAt("set", s.reg.now)
                        ++ ChangeLocationMergeLeaseToken("set", p)
                        ++ ChangeLocationMergeLeaseExpiresAt("set", s.reg.now + Lasts)
           did == UpdateOne(p, "location", s.reg.location, changes)
<1>1. s.pc = "merge.lease"
  BY DEF MergeLease, At
<1>2. Does(p, did, IF did.result THEN "commit" ELSE "rollback")
  BY DEF MergeLease, UpdateOneLocation
<1>3. \A old, new : (/\ LocationOK(old) /\ Mergeable(old) /\ old.mergedAt = Null
                     /\ new = Changed(old, changes)) =>
        LocationOK(new) /\ Alike(old, new) /\ Still(old, new)
  BY MergingRow
<1>4. s = proc[p] /\ did = UpdateOne(p, "location", s.reg.location, changes)
  OBVIOUS
<1> HIDE DEF s, changes, did
<1>5. Ours(s) /\ s.job.kind # "complete"
  BY <1>1, <1>4, KindFacts DEF Ours, CompletePcs, FencePcs
<1>6. MarkDuty(s, changes)
  <2> SUFFICES ASSUME Open(Now, s)
               PROVE  /\ Would(Now, s)[Target(s)].mergedAt = Null
                      /\ Mergeable(Would(Now, s)[Target(s)])
    BY <1>3 DEF MarkDuty, Still
  <2>1. RequestOK(Now, s)
    BY <1>4, OpenParts, PlanParts
  <2>2. Puts(s, Target(s)) /\ Would(Now, s)[Target(s)] = s.writes[Target(s)]
    BY <1>1, <1>4, TargetHeld, WouldPut DEF LockedPcs, ClaimPcs
  <2> QED
    BY <1>1, <2>1, <2>2 DEF RequestOK
<1>7. Moves(p, did, IF did.result THEN "commit" ELSE "rollback", <<>>) /\
        DOMAIN <<>> \subseteq {"row"}
  BY <1>2, MovesNothing
<1> QED
  BY <1>1, <1>4, <1>5, <1>6, <1>7, MarksTarget

-----------------------------------------------------------------------------
(* The lock of a reader of parts, and the backfill of the recency.           *)

LEMMA AcquireLockKeeps ==
  ASSUME TransactionInv, NEW p \in Process, AcquireLock(p)
  PROVE  TransactionInv'
<1> DEFINE s == proc[p]
           where == Unfenced(proc[p].reg.location) \cup {LocationMergedAt("IsNil", Null),
                                              LocationPartsDeletedAt("IsNil", Null)}
           did == Update(p, "location", where, Bump)
           rows == Matching(Would(Now, s), "location", where)
<1>1. s.pc = "acquire.lock"
  BY DEF AcquireLock, At
<1>2. Does(p, did, IF did.result = {} THEN "rollback" ELSE "acquire.create")
  BY DEF AcquireLock, UpdateLocation
<1>3. Where("id", "EQ", s.reg.location) \in where /\ Where("mergedAt", "IsNil", Null) \in where
  BY DEF LocationID, Unfenced, LocationMergedAt
<1>4. s = proc[p] /\ did = Update(p, "location", where, Bump)
  OBVIOUS
<1> HIDE DEF s, where, did
<1>5. did.result = rows /\ (did.waits = {} => Alone(p, rows))
  BY <1>4, UpdateFacts, RowFacts
<1>6. PICK N : /\ Wrote(did, s, N) /\ DOMAIN N = rows
               /\ \A r \in DOMAIN N : /\ r \in RowsOf("location") /\ Would(Now, s)[r] # Absent
                                      /\ N[r] = Changed(Would(Now, s)[r], Bump)
                                      /\ N[r] # Absent /\ "id" \in DOMAIN N[r]
  BY <1>4, <1>5, UpdateFacts, RowFacts
<1>7. ASSUME Open(Now, s), NEW l \in rows
      PROVE  /\ l = Target(s) /\ LocationOK(N[l]) /\ Alike(Would(Now, s)[l], N[l])
             /\ Still(Would(Now, s)[l], N[l]) /\ Would(Now, s)[l]["mergedAt"] = Null
  <2>1. l = Target(s) /\ LocationOK(Would(Now, s)[l])
    BY <1>3, <1>4, <1>7, MatchingTarget
  <2>2. N[l] = Changed(Would(Now, s)[l], Bump)
    BY <1>6, <1>7
  <2>3. Would(Now, s)[l]["mergedAt"] = Null
    BY <1>3, <1>7, ChosenNil
  <2> QED
    BY <2>1, <2>2, <2>3, BumpRow
<1> HIDE DEF rows
<1>8. QuietDuty(s, N)
  BY <1>6, <1>7 DEF QuietDuty, Quiet, Still
<1>9. /\ DOMAIN N \subseteq RowsOf("location") /\ (did.waits = {} => Alone(p, DOMAIN N))
      /\ \A l \in DOMAIN N : Would(Now, s)[l] # Absent /\ N[l] # Absent /\ "id" \in DOMAIN N[l]
  BY <1>5, <1>6
<1>10. Ours(s) /\ s.job.kind # "complete"
  BY <1>1, <1>4, KindFacts DEF Ours, CompletePcs, FencePcs
<1>11. s.pc \notin {"complete", "commit", "fence.delete", "abandon.enqueue"} /\ DOMAIN <<>> = {}
  BY <1>1
<1>12. CASE rows = {}
  <2>1. Moves(p, did, "rollback", <<>>)
    BY <1>2, <1>5, <1>12, MovesNothing
  <2>2. "rollback" \notin TargetPcs
    BY DEF TargetPcs, LockedPcs, FencePcs, ClaimPcs
  <2> QED
    BY <1>4, <1>6, <1>8, <1>9, <1>10, <1>11, <2>1, <2>2, LocationWrites
<1>13. CASE rows # {}
  <2>1. Moves(p, did, "acquire.create", <<>>)
    BY <1>2, <1>5, <1>13, MovesNothing
  <2>2. "acquire.create" \notin TargetPcs
    BY DEF TargetPcs, LockedPcs, FencePcs, ClaimPcs
  <2>3. PlanDuty(s, N, "acquire.create", <<>>)
    <3> SUFFICES ASSUME NEW t, WriteAsks(s, t, N, "acquire.create", <<>>)
                 PROVE  PlanInv(Now, t)
      BY DEF PlanDuty
    <3>1. /\ Open(Now, s) /\ PlanInv(Now, s) /\ SnapOK(Now, t) /\ t.pc = "acquire.create"
          /\ t.job = s.job /\ Grown(t.writes, N, s.writes) /\ Grown(t.reg, <<>>, s.reg)
      BY DEF WriteAsks
    <3>2. KindsOK(s) /\ AcquireOK(Now, s) /\ UploadsOK(Now, s)
      BY <3>1, PlanParts
    <3>3. s.job.kind = "acquire"
      BY <1>1, <3>2 DEF KindsOK, AcquirePcs
    <3>4. /\ {"location", "scope"} \subseteq DOMAIN s.reg /\ s.reg.location \in Location
          /\ Target(s) \in issued /\ s.reg.scope # Null
      BY <1>1, <3>2, StateFields DEF AcquireOK, AcquirePcs
    <3>5. /\ {"location", "scope"} \subseteq DOMAIN t.reg /\ t.reg.location = s.reg.location
          /\ t.reg.scope = s.reg.scope
      BY <3>1, <3>4 DEF Grown
    <3>6. Target(t) = Target(s)
      BY <3>5 DEF Target
    <3>7. Target(s) \in DOMAIN N /\ Target(s) \in rows
      BY <1>6, <1>7, <1>13, <3>1
    <3>8. N[Target(s)].mergedAt = Null /\ N[Target(s)] # Absent
      BY <1>6, <1>7, <3>1, <3>7 DEF Still
    <3>9. Admissible(Now, t, Target(t))
      BY <3>1, <3>6, <3>7, <3>8 DEF Admissible, Puts, Grown
    <3>10. KindsOK(t)
      BY <3>1, <3>3 DEF KindsOK, AcquirePcs, CompletePcs, EvictPcs, OrphanPcs
    <3>11. FirstOK(t) /\ TargetOK(Now, t)
      BY <3>1, <2>2 DEF FirstOK, FirstPcs, OrphanPcs, TargetOK
    <3>12. AcquireOK(Now, t)
      BY <3>1, <3>4, <3>5, <3>6, <3>9, StateFields DEF AcquireOK
    <3>13. FenceOK(Now, t) /\ ClaimOK(Now, t)
      BY <3>1 DEF FenceOK, ClaimOK, FencePcs, ClaimPcs
    <3>14. RequestOK(Now, t) /\ CompleteOK(Now, t)
      BY <3>1, <3>3 DEF RequestOK, CompleteOK
    <3>15. UploadsOK(Now, t)
      BY <3>1, <3>2, UploadsOther DEF OrphanPcs
    <3> QED
      BY <3>1, <3>10, <3>11, <3>12, <3>13, <3>14, <3>15 DEF PlanInv
  <2> QED
    BY <1>4, <1>6, <1>8, <1>9, <1>10, <1>11, <2>1, <2>2, <2>3, LocationWrites
<1> QED
  BY <1>12, <1>13

(* The recency of a location is that of its download or of its one entry.    *)
LEMMA RecencyFacts ==
  ASSUME NEW store, Typed(store), OneEntry(store), NEW l \in RowsOf("location"), store[l] # Absent
  PROVE  /\ Recency(store, l) \in Nat
         /\ store[l].lastDownloadedAt # Null => Recency(store, l) = store[l].lastDownloadedAt
<1> DEFINE used == store[l].lastDownloadedAt
           saved == {store[e].updatedAt : e \in Children(store, "entry", l)}
           found == CHOOSE t \in saved : \A o \in saved : o <= t
<1>1. Recency(store, l) = (IF used # Null THEN used ELSE IF saved = {} THEN 0 ELSE found)
  BY DEF Recency
<1>2. LocationOK(store[l])
  BY TypedRow, TableRows, RowKinds
<1>3. used # Null => used \in Nat
  BY <1>2 DEF LocationOK
<1>4. ASSUME NEW e \in Children(store, "entry", l)
      PROVE  /\ e \in RowsOf("entry") /\ store[e] # Absent /\ EntryOK(store[e])
             /\ LocationOf(store[e]) = l /\ store[e].updatedAt \in Nat
  <2>1. e \in RowsOf("entry") /\ store[e] # Absent /\ l \in Parent(e, store[e])
    BY DEF Children
  <2>2. EntryOK(store[e])
    BY <2>1, TypedRow, TableRows, RowKinds
  <2>3. e[1] = "entry"
    BY <2>1, RowFacts
  <2>4. l = LocationOf(store[e])
    BY <2>1, <2>3 DEF Parent, LocationOf
  <2> QED
    BY <2>1, <2>2, <2>4 DEF EntryOK
<1>5. \A e, f \in Children(store, "entry", l) : e = f
  BY <1>4 DEF OneEntry, LocationOf
<1>6. saved # {} => \E t \in saved : \A o \in saved : o <= t
  BY <1>4, <1>5
<1>7. saved # {} => found \in saved
  BY <1>6
<1>8. saved \subseteq Nat
  BY <1>4
<1> HIDE DEF used, saved, found
<1>9. CASE used # Null
  BY <1>1, <1>3, <1>9 DEF used
<1>10. CASE used = Null /\ saved = {}
  BY <1>1, <1>10 DEF used
<1>11. CASE used = Null /\ saved # {}
  <2>1. Recency(store, l) = found
    BY <1>1, <1>11
  <2> QED
    BY <1>7, <1>8, <1>11, <2>1 DEF used
<1> QED
  BY <1>9, <1>10, <1>11

LEMMA BackfillUpdateKeeps ==
  ASSUME TransactionInv, NEW p \in Process, BackfillUpdate(p)
  PROVE  TransactionInv'
<1> DEFINE s == proc[p]
           stale == {id \in Location : Exists(id) /\ Stale(Current(p)[<<"location", id>>])}
           where == {LocationDeletionRequestedAt("IsNil", Null), LocationID("In", stale)}
           changes == [r \in {"location"} \X stale |->
                         ChangeLocationRecencyAt("set", Recency(Current(p), r))]
           did == UpdateEach(p, "location", where, changes)
           rows == Matching(Would(Now, s), "location", where)
<1>1. s.pc = "backfill"
  BY DEF BackfillUpdate, At
<1>2. Does(p, did, "commit")
  BY DEF BackfillUpdate
<1>3. Where("id", "In", stale) \in where
  BY DEF LocationID
<1>4. s = proc[p] /\ did = UpdateEach(p, "location", where, changes) /\ "location" \in Tables
  BY RowFacts
<1>5. \A i \in stale : changes[<<"location", i>>]
                         = ChangeLocationRecencyAt("set", Recency(Would(Now, s), <<"location", i>>))
  BY CurrentWould
<1> HIDE DEF s, stale, where, changes, did, rows
<1>6. did.result = rows /\ (did.waits = {} => Alone(p, rows))
  BY <1>4, UpdateEachFacts DEF rows
<1>7. PICK N : /\ Wrote(did, proc[p], N) /\ DOMAIN N = did.result
               /\ \A r \in DOMAIN N : /\ r \in RowsOf("location") /\ r \in Rows
                                      /\ Would(Now, proc[p])[r] # Absent
                                      /\ N[r] = Changed(Would(Now, proc[p])[r], changes[r])
                                      /\ N[r] # Absent /\ "id" \in DOMAIN N[r]
  BY <1>4, UpdateEachFacts
<1>8. /\ Wrote(did, s, N) /\ DOMAIN N = rows
      /\ \A r \in DOMAIN N : /\ r \in RowsOf("location") /\ Would(Now, s)[r] # Absent
                             /\ N[r] = Changed(Would(Now, s)[r], changes[r])
                             /\ N[r] # Absent /\ "id" \in DOMAIN N[r]
  BY <1>4, <1>6, <1>7
<1>9. ASSUME Open(Now, s), NEW l \in rows
      PROVE  /\ LocationOK(N[l]) /\ Alike(Would(Now, s)[l], N[l]) /\ Still(Would(Now, s)[l], N[l])
  <2>1. Typed(Would(Now, s)) /\ OneEntry(Would(Now, s))
    BY <1>4, <1>9, WouldSound, OpenParts DEF WouldInv
  <2>2. l \in RowsOf("location") /\ Would(Now, s)[l] # Absent /\
          N[l] = Changed(Would(Now, s)[l], changes[l])
    BY <1>8, <1>9
  <2>3. RowOK(l, Would(Now, s)[l]) /\ LocationOK(Would(Now, s)[l])
    BY <2>1, <2>2, TypedRow, TableRows, RowKinds
  <2>4. Would(Now, s)[l]["id"] \in stale
    BY <1>3, <1>9, ChosenIn DEF rows
  <2>5. l = <<"location", Would(Now, s)[l].id>>
    BY <2>2, <2>3, RowFacts DEF RowOK
  <2>6. changes[l] = ChangeLocationRecencyAt("set", Recency(Would(Now, s), l))
    BY <1>5, <2>4, <2>5
  <2>7. /\ Recency(Would(Now, s), l) \in Nat
        /\ Would(Now, s)[l].lastDownloadedAt # Null =>
             Recency(Would(Now, s), l) = Would(Now, s)[l].lastDownloadedAt
    BY <2>1, <2>2, RecencyFacts
  <2> QED
    BY <2>2, <2>3, <2>6, <2>7, RecentRow
<1>10. QuietDuty(s, N)
  BY <1>8, <1>9 DEF QuietDuty, Quiet, Still
<1>11. /\ DOMAIN N \subseteq RowsOf("location") /\ (did.waits = {} => Alone(p, DOMAIN N))
       /\ \A l \in DOMAIN N : Would(Now, s)[l] # Absent /\ N[l] # Absent /\ "id" \in DOMAIN N[l]
  BY <1>6, <1>8
<1>12. Ours(s) /\ s.job.kind # "complete"
  BY <1>1, <1>4, KindFacts DEF Ours, CompletePcs, FencePcs
<1>13. s.pc \notin {"complete", "commit", "fence.delete", "abandon.enqueue"} /\ DOMAIN <<>> = {}
  BY <1>1
<1>14. "commit" \notin TargetPcs
  BY DEF TargetPcs, LockedPcs, FencePcs, ClaimPcs
<1>15. PlanDuty(s, N, "commit", <<>>)
  <2> SUFFICES ASSUME NEW t, WriteAsks(s, t, N, "commit", <<>>)
               PROVE  PlanInv(Now, t)
    BY DEF PlanDuty
  <2>1. /\ PlanInv(Now, s) /\ SnapOK(Now, t) /\ t.pc = "commit" /\ t.job = s.job
    BY DEF WriteAsks
  <2>2. s.job.kind # "evict"
    BY <1>1, <2>1, PlanParts DEF KindsOK, EvictPcs, FencePcs
  <2>3. EvictOK(Now, t) /\ CompleteOK(Now, t)
    BY <1>12, <2>1, <2>2 DEF EvictOK, CompleteOK
  <2> QED
    BY <2>1, <2>3, PlanCommit
<1>16. Moves(p, did, "commit", <<>>)
  BY <1>2, MovesNothing
<1>17. s = proc[p] /\ Wrote(did, s, N)
  BY <1>4, <1>8
<1> QED
  BY <1>10, <1>11, <1>12, <1>13, <1>14, <1>15, <1>16, <1>17, LocationWrites

-----------------------------------------------------------------------------
(* Statements that touch no location and insert nothing.                     *)

MildDuty(s, N) ==
  Open(Now, s) => \A r \in DOMAIN N : N[r] # Absent =>
    /\ RowOK(r, N[r]) /\ Evolves(r, Would(Now, s)[r], N[r]) /\ r \notin RowsOf("entry")
    /\ r \in RowsOf("lease") => N[r].expiresAt <= clock + Lasts
    /\ r \in RowsOf("upload") => KeyOf(N[r]) = KeyOf(Would(Now, s)[r])
Unshared(p, N) ==
  /\ Alone(p, DOMAIN N)
  /\ \A q \in Process \ {p} : \A r \in proc[q].shared \cap DOMAIN N : N[r] # Absent

\* A statement that writes to no location: what remains to be shown of it.
LEMMA PlainWrites ==
  ASSUME TransactionInv, NEW p \in Process, NEW s, s = proc[p], NEW did, NEW N, Wrote(did, s, N),
         did.waits = {} => Unshared(p, N),
         \A r \in DOMAIN N : r \in Rows /\ Would(Now, s)[r] # Absent /\ r \notin RowsOf("location"),
         \A r \in DOMAIN N : N[r] # Absent => "id" \in DOMAIN N[r],
         \A r \in DOMAIN N : r \in RowsOf("upload") \cup RowsOf("deletion") => N[r] # Absent,
         MildDuty(s, N),
         DOMAIN N \cap RowsOf("upload") = {} \/ (Ours(s) => Open(Now, s)),
         NEW pc, NEW reg, Moves(p, did, pc, reg),
         {"location", "new", "upload"} \cap DOMAIN reg = {},
         Ours(s), s.pc \notin {"complete", "commit", "fence.delete", "abandon.enqueue"},
         pc \notin {"idle", "complete"},
         s.job.kind = "complete" => pc \in CompleteStays /\ DOMAIN N \cap RowsOf("upload") = {},
         pc \in TargetPcs => s.pc \in TargetPcs,
         pc # "rollback" => PlanDuty(s, N, pc, reg)
  PROVE  TransactionInv'
<1>1. DOMAIN did.state = DOMAIN Idle /\ did.state.reg = s.reg
  BY DEF Wrote
<1>2. ASSUME NEW t, Step(p, t), After(t, did.state, pc), Grown(t.reg, reg, s.reg), did.waits = {}
      PROVE  TransactionInv'
  <2>1. WritePlan(s, t, N)
    <3> SUFFICES ASSUME Open(Now, s), t.pc # "rollback", t.job = s.job, t.snap = s.snap,
                        t.shared = s.shared, Grown(t.writes, N, s.writes),
                        Grown(Would(Now, t), N, Would(Now, s))
                 PROVE  WritesInv(Now, t) /\ WouldInv(Now, t) /\ PlanInv(Now, t)
      BY DEF WritePlan
    <3>1. t.pc = pc
      BY <1>2 DEF After
    <3>2. /\ WritesInv(Now, s) /\ WouldInv(Now, s) /\ PlanInv(Now, s)
          /\ RowsOK(Now, s) /\ SnapOK(Now, s) /\ DropsOK(Now, s)
      BY OpenParts
    <3>3. Committed(Now) /\ Shape(s)
      BY ProcessFacts
    <3>4. DOMAIN N \cap RowsOf("location") = {}
      OBVIOUS
    <3>5. Mild(Would(Now, s), N, Would(Now, t))
      BY <3>4 DEF Mild, MildDuty
    <3>6. s.job.kind = "complete" => t.reg.new = s.reg.new /\ t.reg.upload = s.reg.upload
      <4>1. s.job.kind = "complete" => {"new", "upload"} \subseteq DOMAIN s.reg
        BY <3>2, PlanParts DEF CompleteOK
      <4> QED
        BY <1>2, <4>1 DEF Grown
    <3>7. Steady(s, t)
      BY <3>6 DEF Steady
    <3>8. Pending(s) = {}
      BY DEF Pending
    <3>9. \A r \in DOMAIN N \cap (Owners \cup RowsOf("deletion")) : N[r] # Absent
      BY TableRows
    <3>10. DropsOK(Now, t)
      BY <3>2, <3>3, <3>5, <3>8, <3>9, MildDrops
    <3>11. /\ \A l \in DOMAIN N \cap RowsOf("location") :
                N[l] # Absent /\ N[l].mergedAt = Would(Now, s)[l].mergedAt
           /\ \A l \in DOMAIN N \cap RowsOf("location") : (Now.engine # "mysql" /\ N[l] # Absent) =>
                \/ N[l].partsDeletedAt = Would(Now, s)[l].partsDeletedAt
                \/ Unread(Would(Now, t), l)
      BY <3>4
    <3>12. \A d \in DOMAIN N \cap RowsOf("lease") : N[d] # Absent =>
             N[d].expiresAt <= Now.clock + Lasts
      BY StateFields DEF MildDuty
    <3>13. WritesInv(Now, t) /\ WouldInv(Now, t)
      BY <3>1, <3>2, <3>3, <3>5, <3>7, <3>10, <3>11, <3>12, MildKeeps
    <3>14. SnapOK(Now, t)
      <4>1. t.pc \in TargetPcs => s.pc \in TargetPcs /\ t.reg.location = s.reg.location
        <5> SUFFICES ASSUME s.pc \in TargetPcs
                     PROVE  t.reg.location = s.reg.location
          BY <3>1
        <5>1. "location" \in DOMAIN s.reg
          BY <3>2, PlanParts DEF TargetOK
        <5> QED
          BY <1>2, <5>1 DEF Grown
      <4> QED
        BY <3>2, <4>1, SnapKept
    <3>15. WriteAsks(s, t, N, pc, reg)
      BY <1>2, <3>1, <3>2, <3>14 DEF WriteAsks
    <3> QED
      BY <3>1, <3>13, <3>15 DEF PlanDuty
  <2>2. Alone(p, DOMAIN N) /\ \A q \in Process \ {p} : \A r \in proc[q].shared \cap DOMAIN N :
          N[r] # Absent
    BY <1>2 DEF Unshared
  <2>3. \A r \in DOMAIN N : r \in Rows /\ Would(Now, s)[r] # Absent
    OBVIOUS
  <2>4. \A r \in DOMAIN N : N[r] # Absent /\ r \in RowsOf("upload") =>
          KeyOf(N[r]) = KeyOf(Would(Now, s)[r])
    BY DEF MildDuty
  <2>5. \A r \in DOMAIN N : N[r] # Absent => "id" \in DOMAIN N[r]
    OBVIOUS
  <2>6. s.pc \notin {"complete", "commit"}
    OBVIOUS
  <2> QED
    BY <1>2, <2>1, <2>2, <2>3, <2>4, <2>5, <2>6, WritesTo
<1> QED
  BY <1>1, <1>2, MovesFacts

(* Statements that delete rows of a table that nothing refers to.            *)
LEMMA DeletedPlain ==
  ASSUME TransactionInv, NEW p \in Process, NEW table \in Tables, table # "location",
         NEW where, NEW did, did = Delete(p, table, where)
  PROVE  /\ did.result = Matching(Would(Now, proc[p]), table, where)
         /\ \E N : /\ Wrote(did, proc[p], N) /\ (did.waits = {} => Unshared(p, N))
                   /\ DOMAIN N = Matching(Would(Now, proc[p]), table, where)
                   /\ \A r \in DOMAIN N : /\ r \in RowsOf(table) /\ r \in Rows /\ N[r] = Absent
                                          /\ Would(Now, proc[p])[r] # Absent
                                          /\ r \notin RowsOf("location")
<1> DEFINE S == Would(Now, proc[p])
           rows == Matching(S, table, where)
<1>0. table \in Tables
  OBVIOUS
<1>1. /\ did.result = (IF Restricted(S, rows) THEN {} ELSE rows)
      /\ did.waits = {} => /\ Alone(p, Gone(S, table, where))
                           /\ \A q \in Process \ {p} : proc[q].shared \cap Gone(S, table,
                                where) = {}
  BY <1>0, DeleteFacts
<1>2. PICK N : /\ Wrote(did, proc[p], N) /\ DOMAIN N = Gone(Would(Now, proc[p]), table, where)
               /\ \A r \in DOMAIN N : N[r] = Absent
  BY <1>0, DeleteFacts
<1>3. /\ \A r \in Gone(S, table, where) : r \in Rows /\ S[r] # Absent
      /\ \A r \in rows : r \in RowsOf(table)
      /\ \A r \in Gone(S, table, where) :
           r \in rows \/ (r \in RowsOf("entry") /\ \E x \in rows : x \in Parent(r, S[r]))
  BY <1>0, GoneFacts
<1>4. \A r \in rows : r[1] = table
  BY <1>0, <1>3, RowFacts
<1>5. \A r, row : \A x \in Parent(r, row) : x[1] = "location"
  BY DEF Parent
<1>6. \A r \in Gone(S, table, where) : r \in rows
  BY <1>3, <1>4, <1>5
<1>7. \A x \in rows : Children(S, "lease", x) = {}
  BY <1>4, <1>5 DEF Children
<1>8. did.result = rows
  BY <1>1, <1>7 DEF Restricted
<1>9. DOMAIN N = rows
  BY <1>2, <1>6 DEF Gone
<1>10. did.waits = {} => Unshared(p, N)
  BY <1>1, <1>2 DEF Unshared
<1>11. \A r \in rows : r \notin RowsOf("location")
  BY <1>0, <1>3, TablesApart, RowFacts
<1>12. \A r \in rows : r \in Rows /\ S[r] # Absent
  BY <1>2, <1>3, <1>9
<1> HIDE DEF rows
<1>13. \A r \in DOMAIN N : /\ r \in RowsOf(table) /\ r \in Rows /\ N[r] = Absent
                           /\ S[r] # Absent /\ r \notin RowsOf("location")
  BY <1>2, <1>3, <1>9, <1>11, <1>12
<1> QED
  BY <1>2, <1>8, <1>9, <1>10, <1>13 DEF rows

(* Statements that delete leases or entries.                                 *)
LEMMA DeletedRows ==
  ASSUME TransactionInv, NEW p \in Process, NEW table \in {"entry", "lease"},
         NEW where, NEW did, did = Delete(p, table, where)
  PROVE  /\ did.result = Matching(Would(Now, proc[p]), table, where)
         /\ \E N : /\ Wrote(did, proc[p], N) /\ (did.waits = {} => Unshared(p, N))
                   /\ DOMAIN N = Matching(Would(Now, proc[p]), table, where)
                   /\ \A r \in DOMAIN N : /\ r \in RowsOf(table) /\ r \in Rows /\ N[r] = Absent
                                          /\ Would(Now, proc[p])[r] # Absent
                                          /\ r \notin RowsOf("location")
                                          /\ r \notin RowsOf("upload") \cup RowsOf("deletion")
<1>0. table \in Tables /\ table # "location"
  BY RowFacts
<1>1. did.result = Matching(Would(Now, proc[p]), table, where)
  BY <1>0, DeletedPlain
<1>2. PICK N : /\ Wrote(did, proc[p], N) /\ (did.waits = {} => Unshared(p, N))
               /\ DOMAIN N = Matching(Would(Now, proc[p]), table, where)
               /\ \A r \in DOMAIN N : /\ r \in RowsOf(table) /\ r \in Rows /\ N[r] = Absent
                                      /\ Would(Now, proc[p])[r] # Absent
                                      /\ r \notin RowsOf("location")
  BY <1>0, DeletedPlain
<1>3. \A r \in RowsOf(table) : r \notin RowsOf("upload") \cup RowsOf("deletion")
  BY <1>0, TablesApart, RowFacts
<1> QED
  BY <1>1, <1>2, <1>3

-----------------------------------------------------------------------------
(* Such statements that end their transaction.                               *)

LEMMA EndDuty ==
  ASSUME TransactionInv, NEW p \in Process, NEW s, s = proc[p], NEW N,
         \A r \in DOMAIN N : r \notin RowsOf("location"), Ours(s), s.pc # "commit",
         s.job.kind # "complete", NEW reg, "location" \notin DOMAIN reg
  PROVE  PlanDuty(s, N, "commit", reg)
<1> SUFFICES ASSUME NEW t, WriteAsks(s, t, N, "commit", reg)
             PROVE  PlanInv(Now, t)
  BY DEF PlanDuty
<1>1. /\ Open(Now, s) /\ PlanInv(Now, s) /\ SnapOK(Now, t)
      /\ t.pc = "commit" /\ t.job = s.job /\ Grown(t.writes, N, s.writes) /\
           Grown(t.reg, reg, s.reg)
  BY DEF WriteAsks
<1>2. KindsOK(s) /\ RequestOK(Now, s) /\ TargetOK(Now, s)
  BY <1>1, PlanParts
<1>3. EvictOK(Now, t)
  <2>1. CASE s.job.kind # "evict"
    BY <1>1, <2>1 DEF EvictOK
  <2>2. CASE s.job.kind = "evict"
    <3>1. s.pc \in TargetPcs
      BY <1>2, <2>2 DEF KindsOK, EvictPcs, FencePcs, TargetPcs, LockedPcs
    <3>2. "location" \in DOMAIN s.reg
      BY <1>2, <3>1 DEF TargetOK
    <3>3. t.reg.location = s.reg.location
      BY <1>1, <3>2 DEF Grown
    <3>4. DOMAIN t.writes \cap RowsOf("location") \subseteq DOMAIN s.writes
      BY <1>1 DEF Grown
    <3> QED
      BY <1>1, <1>2, <3>3, <3>4, EvictOn
  <2> QED
    BY <2>1, <2>2
<1>4. CompleteOK(Now, t)
  BY <1>1 DEF CompleteOK
<1> QED
  BY <1>1, <1>3, <1>4, PlanCommit

\* Such a statement, when it ends its transaction.
LEMMA PlainEnds ==
  ASSUME TransactionInv, NEW p \in Process, NEW s, s = proc[p], NEW did, NEW N, Wrote(did, s, N),
         did.waits = {} => Unshared(p, N),
         \A r \in DOMAIN N : r \in Rows /\ Would(Now, s)[r] # Absent /\ r \notin RowsOf("location"),
         \A r \in DOMAIN N : N[r] # Absent => "id" \in DOMAIN N[r],
         \A r \in DOMAIN N : r \in RowsOf("upload") \cup RowsOf("deletion") => N[r] # Absent,
         MildDuty(s, N), NEW pc \in {"commit", "rollback"}, Does(p, did, pc),
         s.pc \in {"renew", "release", "sweep", "part", "process.failed"}
  PROVE  TransactionInv'
<1>1. /\ Ours(s) /\ s.pc \notin {"complete", "commit", "fence.delete", "abandon.enqueue"}
      /\ pc \notin {"idle", "complete"} /\ s.pc # "commit"
  BY DEF Ours
<1>2. s.job.kind # "complete"
  BY <1>1, KindFacts DEF CompletePcs, FencePcs
<1>3. Open(Now, s)
  BY <1>1, <1>2 DEF Open, Entitled
<1>4. /\ pc # "rollback" => pc = "commit"
      /\ pc \notin TargetPcs
  BY DEF TargetPcs, LockedPcs, FencePcs, ClaimPcs
<1>5. {"location", "new", "upload"} \cap DOMAIN <<>> = {} /\ "location" \notin DOMAIN <<>>
  OBVIOUS
<1>6. PlanDuty(s, N, "commit", <<>>)
  BY <1>1, <1>2, <1>5, EndDuty
<1>7. pc # "rollback" => PlanDuty(s, N, pc, <<>>)
  BY <1>4, <1>6
<1>8. Moves(p, did, pc, <<>>)
  BY MovesNothing
<1> QED
  BY <1>1, <1>2, <1>3, <1>4, <1>5, <1>7, <1>8, PlainWrites

LEMMA LeasesDeleted ==
  ASSUME TransactionInv, NEW p \in Process, NEW where, NEW did, did = Delete(p, "lease", where),
         Does(p, did, "commit"), proc[p].pc \in {"release", "sweep"}
  PROVE  TransactionInv'
<1> DEFINE s == proc[p]
<1>1. "lease" \in {"entry", "lease"}
  OBVIOUS
<1>2. PICK N : /\ Wrote(did, proc[p], N) /\ (did.waits = {} => Unshared(p, N))
               /\ DOMAIN N = Matching(Would(Now, proc[p]), "lease", where)
               /\ \A r \in DOMAIN N : /\ r \in RowsOf("lease") /\ r \in Rows /\ N[r] = Absent
                                      /\ Would(Now, proc[p])[r] # Absent
                                      /\ r \notin RowsOf("location")
                                      /\ r \notin RowsOf("upload") \cup RowsOf("deletion")
  BY <1>1, DeletedRows
<1>3. s = proc[p]
  OBVIOUS
<1>4. MildDuty(s, N)
  BY <1>2 DEF MildDuty
<1> HIDE DEF s
<1> QED
  BY <1>2, <1>3, <1>4, PlainEnds

LEMMA ReleaseDeleteKeeps ==
  ASSUME TransactionInv, NEW p \in Process, ReleaseDelete(p)
  PROVE  TransactionInv'
<1>1. proc[p].pc = "release"
  BY DEF ReleaseDelete, At
<1>2. Does(p, Delete(p, "lease", {LeaseID("In", proc[p].job.leases)}), "commit")
  BY DEF ReleaseDelete, DeleteLease
<1> QED
  BY <1>1, <1>2, LeasesDeleted

LEMMA SweepDeleteKeeps ==
  ASSUME TransactionInv, NEW p \in Process, SweepDelete(p)
  PROVE  TransactionInv'
<1>1. proc[p].pc = "sweep"
  BY DEF SweepDelete, At
<1>2. Does(p, Delete(p, "lease", {LeaseExpiresAt("LTE", clock)}), "commit")
  BY DEF SweepDelete, DeleteLease
<1> QED
  BY <1>1, <1>2, LeasesDeleted

-----------------------------------------------------------------------------
(* Updates of a lease, an upload and a task.                                 *)

LEMMA RenewUpdateKeeps ==
  ASSUME TransactionInv, NEW p \in Process, RenewUpdate(p)
  PROVE  TransactionInv'
<1> DEFINE s == proc[p]
           where == {LeaseID("EQ", proc[p].job.lease), LeaseExpiresAt("GT", clock)}
           changes == ChangeLeaseExpiresAt("set", clock + Lasts)
           did == Update(p, "lease", where, changes)
<1>1. s.pc = "renew"
  BY DEF RenewUpdate, At
<1>2. Does(p, did, "commit")
  BY DEF RenewUpdate, UpdateLease
<1>3. s = proc[p] /\ did = Update(p, "lease", where, changes)
  OBVIOUS
<1>4. \A row : LeaseOK(row) =>
        LET new == Changed(row, changes) IN
        /\ LeaseOK(new) /\ new.id = row.id /\ new.expiresAt = clock + Lasts
        /\ new.storageLocationId = row.storageLocationId /\ new.scope = row.scope
  <2>1. clock + Lasts \in Nat
    BY ProcessFacts, BoundsAssumption
  <2> QED
    BY <2>1, RenewedRow
<1> HIDE DEF s, where, changes, did
<1>5. "lease" \in Tables
  BY RowFacts
<1>6. did.waits = {} => Alone(p, did.result)
  BY <1>3, <1>5, UpdateFacts
<1>7. PICK N : /\ Wrote(did, proc[p], N) /\ DOMAIN N = did.result
               /\ \A r \in DOMAIN N : /\ r \in RowsOf("lease") /\ r \in Rows
                                      /\ Would(Now, proc[p])[r] # Absent
                                      /\ N[r] = Changed(Would(Now, proc[p])[r], changes)
                                      /\ N[r] # Absent /\ "id" \in DOMAIN N[r]
  BY <1>3, <1>5, UpdateFacts
<1>8. \A r \in RowsOf("lease") : r[1] = "lease" /\ r \notin RowsOf("location")
                               /\ r \notin RowsOf("upload") \cup RowsOf("deletion")
                               /\ r \notin RowsOf("entry")
  BY <1>5, TablesApart, RowFacts
<1>9. did.waits = {} => Unshared(p, N)
  BY <1>6, <1>7 DEF Unshared
<1>10. MildDuty(s, N)
  <2> SUFFICES ASSUME Open(Now, s), NEW r \in DOMAIN N
               PROVE  /\ RowOK(r, N[r]) /\ Evolves(r, Would(Now, s)[r], N[r]) /\
                           r \notin RowsOf("entry")
                      /\ N[r].expiresAt <= clock + Lasts /\ r \notin RowsOf("upload")
    BY DEF MildDuty
  <2> DEFINE old == Would(Now, s)[r]
             new == N[r]
  <2>1. r \in RowsOf("lease") /\ r \in Rows /\ old # Absent /\ new = Changed(old, changes)
    BY <1>3, <1>7
  <2>2. PlanInv(Now, s)
    BY <1>3, OpenParts
  <2>3. DOMAIN s.writes = {}
    BY <1>1, <2>2, PlanParts DEF FirstOK, FirstPcs
  <2>4. old = db[r]
    BY <1>3, <2>1, <2>3, WouldSound
  <2>5. RowOK(r, old) /\ LeaseOK(old)
    BY <1>3, <2>1, WouldSound, RowKinds
  <2>6. old.expiresAt <= clock + Lasts
    BY <2>1, <2>4, ProcessFacts, StateFields DEF Committed, Timely
  <2> HIDE DEF old, new
  <2>7. /\ LeaseOK(new) /\ new.id = old.id /\ new.expiresAt = clock + Lasts
        /\ new.storageLocationId = old.storageLocationId /\ new.scope = old.scope
    BY <1>4, <2>1, <2>5
  <2>8. RowOK(r, new)
    BY <1>8, <2>1, <2>5, <2>7 DEF RowOK
  <2>9. Evolves(r, old, new)
    BY <1>8, <2>1, <2>6, <2>7 DEF Evolves
  <2>10. new.expiresAt <= clock + Lasts
    <3>1. clock + Lasts \in Nat
      BY ProcessFacts, BoundsAssumption
    <3> QED
      BY <2>7, <3>1
  <2> QED
    BY <1>8, <2>1, <2>8, <2>9, <2>10 DEF old, new
<1>11. \A r \in DOMAIN N : /\ r \in Rows /\ Would(Now, s)[r] # Absent /\ r \notin RowsOf("location")
                           /\ r \notin RowsOf("upload") \cup RowsOf("deletion")
                           /\ N[r] # Absent /\ "id" \in DOMAIN N[r]
  BY <1>3, <1>7, <1>8
<1> QED
  BY <1>1, <1>2, <1>3, <1>7, <1>9, <1>10, <1>11, PlainEnds

\* An update of one row by its id.
LEMMA OneChanged ==
  ASSUME TransactionInv, NEW p \in Process, NEW table \in {"upload", "deletion"}, NEW id,
         NEW changes,
         NEW did, did = UpdateOne(p, table, id, changes), NEW pc \in {"commit", "rollback"},
         Does(p, did, pc), proc[p].pc \in {"part", "process.failed"},
         \A r \in RowsOf(table) : \A row : RowOK(r, row) =>
           LET new == Changed(row, changes) IN
           /\ RowOK(r, new) /\ Evolves(r, row, new)
           /\ table = "upload" => KeyOf(new) = KeyOf(row)
  PROVE  TransactionInv'
<1>0. table \in Tables
  BY RowFacts
<1>1. PICK N : /\ Wrote(did, proc[p], N)
               /\ DOMAIN N = Matching(Would(Now, proc[p]), table, ByID(id))
               /\ did.waits = {} => Alone(p, DOMAIN N)
               /\ \A r \in DOMAIN N : /\ r \in RowsOf(table) /\ r \in Rows
                                      /\ Would(Now, proc[p])[r] # Absent
                                      /\ N[r] = Changed(Would(Now, proc[p])[r], changes)
                                      /\ N[r] # Absent /\ "id" \in DOMAIN N[r]
  BY <1>0, UpdateOneFacts
<1>2. \A r \in RowsOf(table) : /\ r \notin RowsOf("location") /\ r \notin RowsOf("entry")
                               /\ r \notin RowsOf("lease") /\ (r \in RowsOf("upload") =>
                                    table = "upload")
  BY <1>0, TablesApart, RowFacts
<1>3. did.waits = {} => Unshared(p, N)
  BY <1>1 DEF Unshared
<1>4. MildDuty(proc[p], N)
  <2> SUFFICES ASSUME Open(Now, proc[p]), NEW r \in DOMAIN N
               PROVE  /\ RowOK(r, N[r]) /\ Evolves(r, Would(Now, proc[p])[r], N[r])
                      /\ r \in RowsOf("upload") => KeyOf(N[r]) = KeyOf(Would(Now, proc[p])[r])
    BY <1>1, <1>2 DEF MildDuty
  <2> DEFINE old == Would(Now, proc[p])[r]
  <2>1. r \in RowsOf(table) /\ r \in Rows /\ old # Absent /\ N[r] = Changed(old, changes)
    BY <1>1
  <2>2. RowOK(r, old)
    BY <2>1, WouldSound
  <2> HIDE DEF old
  <2>3. /\ RowOK(r, N[r]) /\ Evolves(r, old, N[r])
        /\ table = "upload" => KeyOf(N[r]) = KeyOf(old)
    BY <2>1, <2>2
  <2> QED
    BY <1>2, <2>1, <2>3 DEF old
<1>5. \A r \in DOMAIN N : /\ r \in Rows /\ Would(Now, proc[p])[r] # Absent
                          /\ r \notin RowsOf("location")
                          /\ N[r] # Absent /\ "id" \in DOMAIN N[r]
  BY <1>1, <1>2
<1> QED
  BY <1>1, <1>3, <1>4, <1>5, PlainEnds

LEMMA PartUpdateKeeps ==
  ASSUME TransactionInv, NEW p \in Process, PartUpdate(p)
  PROVE  TransactionInv'
<1> DEFINE id == proc[p].job.upload
           changes == ChangeUploadLastPartUploadedAt("set", clock)
                        ++ ChangeUploadFinishedPartUploadCount("add", 1)
                        ++ ChangeUploadCommittedPartCount("set", 1)
           did == UpdateOne(p, "upload", id, changes)
           pc == IF did.result THEN "commit" ELSE "rollback"
<1>1. proc[p].pc = "part"
  BY DEF PartUpdate, At
<1>2. Does(p, did, pc)
  BY DEF PartUpdate, UpdateOneUpload
<1>3. did = UpdateOne(p, "upload", id, changes) /\ pc \in {"commit", "rollback"}
  OBVIOUS
<1>4. ASSUME NEW r \in RowsOf("upload"), NEW row, RowOK(r, row), NEW new,
             new = Changed(row, changes)
      PROVE  /\ RowOK(r, new) /\ Evolves(r, row, new) /\ KeyOf(new) = KeyOf(row)
  <2>1. UploadOK(row) /\ row.id = r[2] /\ r[1] = "upload"
    BY <1>4, RowKinds, RowFacts
  <2>2. UploadOK(new) /\ new.id = row.id /\ KeyOf(new) = KeyOf(row)
    BY <1>4, <2>1, PartRow
  <2> HIDE DEF changes
  <2> QED
    BY <2>1, <2>2 DEF RowOK, Evolves
<1> HIDE DEF id, changes, did, pc
<1>5. \A r \in RowsOf("upload") : \A row : RowOK(r, row) =>
        LET new == Changed(row, changes) IN
        /\ RowOK(r, new) /\ Evolves(r, row, new)
        /\ "upload" = "upload" => KeyOf(new) = KeyOf(row)
  BY <1>4
<1> QED
  BY <1>1, <1>2, <1>3, <1>5, OneChanged

LEMMA ProcessFailedKeeps ==
  ASSUME TransactionInv, NEW p \in Process, ProcessFailed(p)
  PROVE  TransactionInv'
<1> DEFINE id == proc[p].job.task
           changes == ChangeDeletionAttemptCount("add", 1)
                        ++ ChangeDeletionLastAttemptedAt("set", clock)
                        ++ ChangeDeletionLastError("set", "failed")
           did == UpdateOne(p, "deletion", id, changes)
<1>1. proc[p].pc = "process.failed"
  BY DEF ProcessFailed, At
<1>2. Does(p, did, "commit")
  BY DEF ProcessFailed, UpdateOneDeletion
<1>3. did = UpdateOne(p, "deletion", id, changes) /\ "commit" \in {"commit", "rollback"}
  OBVIOUS
<1>4. ASSUME NEW r \in RowsOf("deletion"), NEW row, RowOK(r, row), NEW new,
             new = Changed(row, changes)
      PROVE  RowOK(r, new) /\ Evolves(r, row, new)
  <2>1. DeletionOK(row) /\ row.id = r[2] /\ r[1] = "deletion"
    BY <1>4, RowKinds, RowFacts
  <2>2. DeletionOK(new) /\ new.id = row.id /\ new.folderName = row.folderName
    BY <1>4, <2>1, FailedRow
  <2> HIDE DEF changes
  <2> QED
    BY <2>1, <2>2 DEF RowOK, Evolves
<1> HIDE DEF id, changes, did
<1>5. \A r \in RowsOf("deletion") : \A row : RowOK(r, row) =>
        LET new == Changed(row, changes) IN
        /\ RowOK(r, new) /\ Evolves(r, row, new)
        /\ "deletion" = "upload" => KeyOf(new) = KeyOf(row)
  BY <1>4
<1> QED
  BY <1>1, <1>2, <1>3, <1>5, OneChanged

-----------------------------------------------------------------------------
(* Statements of the requests on a location that delete leases or entries.   *)

DeleteNext == {"commit", "fence.lock", "fence.entries", "fence.readers", "claim.readers"}
StaysLocked(s, pc) ==
  pc \in LockedPcs => \/ s.pc \in LockedPcs
                      \/ s.pc = "request.detach" /\ s.job.kind # "request"

\* A statement of a request that deletes leases or entries.
LEMMA TargetDeletes ==
  ASSUME TransactionInv, NEW p \in Process, NEW s, s = proc[p], NEW did, NEW N, Wrote(did, s, N),
         did.waits = {} => Unshared(p, N),
         \A r \in DOMAIN N : /\ r \in Rows /\ N[r] = Absent /\ Would(Now, s)[r] # Absent
                             /\ r \notin RowsOf("location")
                             /\ r \notin RowsOf("upload") \cup RowsOf("deletion"),
         NEW pc \in DeleteNext, NEW reg, DOMAIN reg = {}, Moves(p, did, pc, reg),
         s.pc \in TargetPcs \ {"fence.delete"},
         s.job.kind = "complete" => pc \in CompleteStays /\ DOMAIN N \cap RowsOf("entry") = {},
         StaysLocked(s, pc), pc \in TargetPcs => StepDuty(s, N, pc, reg)
  PROVE  TransactionInv'
<1> USE DEF AcquirePcs, CompletePcs, FencePcs, EvictPcs, ClaimPcs, OrphanPcs, LockedPcs,
            FirstPcs, TargetPcs, DeleteNext
<1>1. /\ Ours(s) /\ s.pc \notin {"complete", "commit", "fence.delete", "abandon.enqueue"}
      /\ pc \notin {"idle", "complete"}
  BY DEF Ours
<1>2. s.job.kind = "complete" => s.pc \in FencePcs \cup {"fence.lock"}
  BY <1>1, KindFacts
<1>3. {"location", "new", "upload"} \cap DOMAIN reg = {} /\ "location" \notin DOMAIN reg
  OBVIOUS
<1>4. s.pc \in TargetPcs /\ s.pc # "commit" /\ pc # "rollback"
  OBVIOUS
<1>5. MildDuty(s, N)
  BY DEF MildDuty
<1>6. PlanDuty(s, N, pc, reg)
  <2> SUFFICES ASSUME NEW t, WriteAsks(s, t, N, pc, reg)
               PROVE  PlanInv(Now, t)
    BY DEF PlanDuty
  <2>1. /\ Open(Now, s) /\ PlanInv(Now, s) /\ RowsOK(Now, s) /\ SnapOK(Now, t)
        /\ t.pc = pc /\ t.job = s.job /\ Grown(t.writes, N, s.writes) /\ Grown(t.reg, reg, s.reg)
    BY DEF WriteAsks
  <2> HIDE DEF AcquirePcs, CompletePcs, FencePcs, EvictPcs, ClaimPcs, OrphanPcs, LockedPcs,
               FirstPcs, TargetPcs, DeleteNext
  <2>2. /\ t.reg.location = s.reg.location /\ DOMAIN s.reg \subseteq DOMAIN t.reg
        /\ "location" \in DOMAIN t.reg
        /\ s.job.kind = "complete" => t.reg.new = s.reg.new /\ t.reg.upload = s.reg.upload
    BY <1>3, <1>4, <2>1, RegsKept
  <2>3. Target(t) = Target(s)
    BY <2>1, <2>2, JobRows
  <2>4. KindsOK(s) /\ RequestOK(Now, s) /\ CompleteOK(Now, s) /\ TargetOK(Now, s)
    BY <2>1, PlanParts
  <2>5. EvictOK(Now, t)
    <3>1. DOMAIN t.writes \cap RowsOf("location") \subseteq DOMAIN s.writes
      BY <2>1 DEF Grown
    <3> QED
      BY <2>1, <2>2, <2>4, <3>1, EvictOn
  <2>6. Target(s) \in RowsOf("location")
    BY <1>4, <2>1, TargetIssued
  <2>7. CompleteOK(Now, t)
    <3>1. CASE s.job.kind # "complete"
      BY <2>1, <3>1 DEF CompleteOK
    <3>2. CASE s.job.kind = "complete"
      <4>1. /\ {"new", "upload", "now"} \subseteq DOMAIN t.reg /\ t.reg.now \in Nat
            /\ t.reg.new = s.reg.new /\ t.reg.upload = s.reg.upload
        <5>1. {"upload", "now"} \subseteq DOMAIN s.reg /\ s.reg.now \in Nat
          BY <2>4, <3>2 DEF CompleteOK
        <5>2. "new" \in DOMAIN s.reg
          BY <1>1, <2>4, <3>2 DEF CompleteOK
        <5>3. t.reg.now = s.reg.now
          BY <2>1, <5>1 DEF Grown
        <5> QED
          BY <2>2, <3>2, <5>1, <5>2, <5>3
      <4>2. NewRow(s) \in RowsOf("location")
        <5>1. s.reg.new \in Location
          BY <1>1, <2>4, <3>2 DEF CompleteOK
        <5> QED
          BY <5>1, RowFacts DEF NewRow
      <4>3. ASSUME NEW r \in RowsOf("entry") \cup {NewRow(s)}, Puts(s, r)
            PROVE  r \in DOMAIN t.writes /\ t.writes[r] = s.writes[r]
        <5>1. r \notin DOMAIN N
          BY <3>2, <4>2
        <5> QED
          BY <2>1, <4>3, <5>1 DEF Grown, Puts
      <4>4. s.pc \in {"fence.lock", "complete.blocks", "complete.delete"} \cup FencePcs
        BY <1>2, <3>2
      <4>5. t.pc \in {"fence.lock", "complete.blocks", "complete.delete", "commit"} \cup FencePcs
        BY <2>1, <3>2 DEF CompleteStays, CompletePcs, FencePcs, DeleteNext
      <4> QED
        BY <2>1, <2>4, <4>1, <4>3, <4>4, <4>5, CompleteOn
    <3> QED
      BY <3>1, <3>2
  <2>8. CASE pc = "commit"
    BY <2>1, <2>5, <2>7, <2>8, PlanCommit
  <2>9. CASE pc # "commit"
    <3>1. pc \in TargetPcs
      BY <2>9 DEF LockedPcs, FencePcs, ClaimPcs, TargetPcs, DeleteNext
    <3>2. KindsOK(t) /\ FenceOK(Now, t) /\ ClaimOK(Now, t)
      BY <2>3, <3>1 DEF StepDuty
    <3>3. t.pc \in LockedPcs => Puts(t, Target(t)) /\ Now.db[Target(t)] # Absent
      <4> SUFFICES ASSUME pc \in LockedPcs
                   PROVE  Puts(t, Target(s)) /\ Now.db[Target(s)] # Absent
        BY <2>1, <2>3
      <4>1. Puts(s, Target(s)) /\ Now.db[Target(s)] # Absent
        BY <1>4, <2>4 DEF TargetOK, StaysLocked
      <4>2. Target(s) \notin DOMAIN N
        BY <2>6
      <4> QED
        BY <2>1, <4>1, <4>2 DEF Grown, Puts
    <3>4. t.pc \in ((TargetPcs \ FirstPcs) \ {"request.detach"}) \cup {"complete.blocks"}
      BY <2>1, <2>9 DEF AcquirePcs, CompletePcs, FencePcs, EvictPcs, ClaimPcs, OrphanPcs,
                        LockedPcs, FirstPcs, TargetPcs, DeleteNext
    <3>5. t.pc # "merge.lease"
      BY <2>1 DEF DeleteNext
    <3> QED
      BY <1>4, <2>1, <2>2, <2>5, <2>7, <3>2, <3>3, <3>4, <3>5, TargetPlan
  <2> QED
    BY <2>8, <2>9
<1>7. pc \in TargetPcs => s.pc \in TargetPcs
  OBVIOUS
<1>8. s.job.kind = "complete" => pc \in CompleteStays /\ DOMAIN N \cap RowsOf("upload") = {}
  OBVIOUS
<1>9. DOMAIN N \cap RowsOf("upload") = {} \/ (Ours(s) => Open(Now, s))
  OBVIOUS
<1> HIDE DEF AcquirePcs, CompletePcs, FencePcs, EvictPcs, ClaimPcs, OrphanPcs, LockedPcs,
             FirstPcs, TargetPcs, DeleteNext
<1>11. \A r \in DOMAIN N : r \in Rows /\ Would(Now, s)[r] # Absent /\ r \notin RowsOf("location")
  OBVIOUS
<1>12. /\ \A r \in DOMAIN N : N[r] # Absent => "id" \in DOMAIN N[r]
       /\ \A r \in DOMAIN N : r \in RowsOf("upload") \cup RowsOf("deletion") => N[r] # Absent
  OBVIOUS
<1> QED
  BY <1>1, <1>3, <1>5, <1>6, <1>7, <1>8, <1>9, <1>11, <1>12, PlainWrites

(* Those that detach a location from its entries.                            *)
LEMMA EntriesDeleted ==
  ASSUME TransactionInv, NEW p \in Process, NEW where, NEW did, did = Delete(p, "entry", where),
         NEW pc \in {"commit", "fence.lock", "fence.entries"}, Does(p, did, pc),
         \/ proc[p].pc = "purge" /\ pc \in {"fence.lock", "commit"}
         \/ proc[p].pc = "purgeIf.entry" /\ pc \in {"fence.entries", "commit"}
         \/ /\ proc[p].pc = "request.detach"
            /\ pc = (IF proc[p].job.kind = "request" THEN "fence.lock" ELSE "fence.entries")
  PROVE  TransactionInv'
<1> DEFINE s == proc[p]
<1>1. "entry" \in {"entry", "lease"} /\ s = proc[p]
  OBVIOUS
<1>2. PICK N : /\ Wrote(did, proc[p], N) /\ (did.waits = {} => Unshared(p, N))
               /\ DOMAIN N = Matching(Would(Now, proc[p]), "entry", where)
               /\ \A r \in DOMAIN N : /\ r \in RowsOf("entry") /\ r \in Rows /\ N[r] = Absent
                                      /\ Would(Now, proc[p])[r] # Absent
                                      /\ r \notin RowsOf("location")
                                      /\ r \notin RowsOf("upload") \cup RowsOf("deletion")
  BY <1>1, DeletedRows
<1>3. /\ \/ s.pc = "purge" /\ pc \in {"fence.lock", "commit"}
         \/ s.pc = "purgeIf.entry" /\ pc \in {"fence.entries", "commit"}
         \/ /\ s.pc = "request.detach"
            /\ pc = (IF s.job.kind = "request" THEN "fence.lock" ELSE "fence.entries")
      /\ Ours(s)
  BY DEF Ours
<1> HIDE DEF s
<1>4. s.job.kind # "complete"
  BY <1>1, <1>3, KindFacts DEF CompletePcs, FencePcs
<1>5. /\ s.pc \in TargetPcs \ {"fence.delete"} /\ pc \in DeleteNext /\ StaysLocked(s, pc)
  BY <1>3 DEF TargetPcs, LockedPcs, FencePcs, ClaimPcs, DeleteNext, StaysLocked
<1>6. StepDuty(s, N, pc, <<>>)
  <2> SUFFICES ASSUME NEW t, WriteAsks(s, t, N, pc, <<>>), Target(t) = Target(s)
               PROVE  KindsOK(t) /\ FenceOK(Now, t) /\ ClaimOK(Now, t)
    BY DEF StepDuty
  <2>1. t.pc = pc /\ t.job = s.job /\ KindsOK(s)
    BY PlanParts DEF WriteAsks
  <2>2. FenceOK(Now, t) /\ ClaimOK(Now, t)
    BY <2>1 DEF FenceOK, ClaimOK, FencePcs, ClaimPcs
  <2>3. KindsOK(t)
    BY <1>3, <2>1 DEF KindsOK, AcquirePcs, CompletePcs, FencePcs, EvictPcs, OrphanPcs
  <2> QED
    BY <2>2, <2>3
<1>7. Moves(p, did, pc, <<>>) /\ DOMAIN <<>> = {}
  BY MovesNothing
<1> QED
  BY <1>1, <1>2, <1>4, <1>5, <1>6, <1>7, TargetDeletes

LEMMA PurgeEntryKeeps ==
  ASSUME TransactionInv, NEW p \in Process, PurgeEntry(p)
  PROVE  TransactionInv'
<1> DEFINE where == {EntryID("EQ", proc[p].job.entry)} \cup EntriesOf(proc[p].reg.location)
           did == Delete(p, "entry", where)
           pc == IF did.result # {} THEN "fence.lock" ELSE "commit"
<1>1. proc[p].pc = "purge"
  BY DEF PurgeEntry, At
<1>2. Does(p, did, pc)
  BY DEF PurgeEntry, DeleteEntry
<1>3. did = Delete(p, "entry", where) /\ pc \in {"fence.lock", "commit"}
  OBVIOUS
<1> HIDE DEF where, did, pc
<1> QED
  BY <1>1, <1>2, <1>3, EntriesDeleted

LEMMA PurgeIfEntryKeeps ==
  ASSUME TransactionInv, NEW p \in Process, PurgeIfEntry(p)
  PROVE  TransactionInv'
<1> DEFINE where == {EntryID("EQ", proc[p].job.entry)} \cup EntriesOf(proc[p].reg.location)
           did == Delete(p, "entry", where)
           pc == IF did.result # {} THEN "fence.entries" ELSE "commit"
<1>1. proc[p].pc = "purgeIf.entry"
  BY DEF PurgeIfEntry, At
<1>2. Does(p, did, pc)
  BY DEF PurgeIfEntry, DeleteEntry
<1>3. did = Delete(p, "entry", where) /\ pc \in {"fence.entries", "commit"}
  OBVIOUS
<1> HIDE DEF where, did, pc
<1> QED
  BY <1>1, <1>2, <1>3, EntriesDeleted

LEMMA DetachCacheEntriesKeeps ==
  ASSUME TransactionInv, NEW p \in Process, DetachCacheEntries(p)
  PROVE  TransactionInv'
<1> DEFINE where == EntriesOf(proc[p].reg.location)
           did == Delete(p, "entry", where)
           pc == IF proc[p].job.kind = "request" THEN "fence.lock" ELSE "fence.entries"
<1>1. proc[p].pc = "request.detach"
  BY DEF DetachCacheEntries, At
<1>2. Does(p, did, pc)
  BY DEF DetachCacheEntries, DeleteEntry
<1>3. /\ did = Delete(p, "entry", where) /\ pc \in {"commit", "fence.lock", "fence.entries"}
      /\ pc = (IF proc[p].job.kind = "request" THEN "fence.lock" ELSE "fence.entries")
  OBVIOUS
<1> HIDE DEF where, did, pc
<1> QED
  BY <1>1, <1>2, <1>3, EntriesDeleted

-----------------------------------------------------------------------------
(* Statements that remove the expired leases of a location.                  *)

LEMMA HoldsEqual ==
  ASSUME NEW column, NEW value, NEW row, row[column] = value, value # Null
  PROVE  \E q \in Where(column, "EQ", value) : Holds(q, row)
BY WhereFacts, ZenonT(60)

LEMMA HoldsUpTo ==
  ASSUME NEW column, NEW value, NEW row, row[column] # Null,
         ~(\E q \in Where(column, "LTE", value) : Holds(q, row))
  PROVE  ~(row[column] <= value)
<1>1. Holds(<<column, "LTE", value>>, row) <=> row[column] # Null /\ row[column] <= value
  BY WhereFacts
<1>2. <<column, "LTE", value>> \in Where(column, "LTE", value)
  BY DEF Where
<1>3. ~Holds(<<column, "LTE", value>>, row)
  BY <1>2
<1> QED
  BY <1>1, <1>3

\* Only leases that have expired are removed.
LEMMA DeadDeleted ==
  ASSUME TransactionInv, NEW p \in Process, NEW where, NEW did, did = Delete(p, "lease", where),
         NEW pc \in {"fence.readers", "claim.readers"}, Does(p, did, pc),
         \/ proc[p].pc = "fence.leases" /\ pc = "fence.readers"
         \/ /\ proc[p].pc = "claim.leases" /\ pc = "claim.readers"
            /\ Where("scope", "EQ", "parts") \in where
            /\ where = PartsLeases \cup DeadLeasesOf(proc[p].reg.location, proc[p].reg.now)
  PROVE  TransactionInv'
<1> DEFINE s == proc[p]
<1>1. "lease" \in {"entry", "lease"} /\ s = proc[p]
  OBVIOUS
<1>2. PICK N : /\ Wrote(did, proc[p], N) /\ (did.waits = {} => Unshared(p, N))
               /\ DOMAIN N = Matching(Would(Now, proc[p]), "lease", where)
               /\ \A r \in DOMAIN N : /\ r \in RowsOf("lease") /\ r \in Rows /\ N[r] = Absent
                                      /\ Would(Now, proc[p])[r] # Absent
                                      /\ r \notin RowsOf("location")
                                      /\ r \notin RowsOf("upload") \cup RowsOf("deletion")
  BY <1>1, DeletedRows
<1>3. \/ s.pc = "fence.leases" /\ pc = "fence.readers"
      \/ s.pc = "claim.leases" /\ pc = "claim.readers"
  OBVIOUS
<1>3a. s.pc = "claim.leases" =>
         where = PartsLeases \cup DeadLeasesOf(s.reg.location, s.reg.now)
  OBVIOUS
<1>3b. DOMAIN N = Matching(Would(Now, s), "lease", where)
  BY <1>2
<1> HIDE DEF s
<1>4. Ours(s) /\ (s.pc = "claim.leases" => s.job.kind # "complete")
  <2>1. Ours(s)
    BY <1>3 DEF Ours
  <2> QED
    BY <1>1, <2>1, KindFacts DEF CompletePcs, FencePcs
<1>5. /\ s.pc \in TargetPcs \ {"fence.delete"} /\ pc \in DeleteNext /\ StaysLocked(s, pc)
  BY <1>3 DEF TargetPcs, LockedPcs, FencePcs, ClaimPcs, DeleteNext, StaysLocked
<1>6. s.job.kind = "complete" => pc \in CompleteStays /\ DOMAIN N \cap RowsOf("entry") = {}
  <2>1. \A r \in DOMAIN N : r \notin RowsOf("entry")
    BY <1>2, TablesApart, RowFacts
  <2> QED
    BY <1>3, <1>4, <2>1 DEF CompleteStays, FencePcs
<1>7. StepDuty(s, N, pc, <<>>)
  <2> SUFFICES ASSUME NEW t, WriteAsks(s, t, N, pc, <<>>), Target(t) = Target(s)
               PROVE  KindsOK(t) /\ FenceOK(Now, t) /\ ClaimOK(Now, t)
    BY DEF StepDuty
  <2> DEFINE none == <<>>
  <2>0. DOMAIN none = {}
    OBVIOUS
  <2>0a. WriteAsks(s, t, N, pc, none)
    OBVIOUS
  <2> HIDE DEF none
  <2>1. /\ t.pc = pc /\ t.job = s.job /\ Open(Now, s) /\ PlanInv(Now, s)
        /\ Grown(t.writes, N, s.writes) /\ Grown(Would(Now, t), N, Would(Now, s))
        /\ Grown(t.reg, none, s.reg)
    BY <2>0a DEF WriteAsks
  <2>2. KindsOK(s) /\ FenceOK(Now, s) /\ ClaimOK(Now, s) /\ TargetOK(Now, s)
    BY <2>1, PlanParts
  <2>3. KindsOK(t)
    BY <1>3, <2>1, <2>2 DEF KindsOK, AcquirePcs, CompletePcs, FencePcs, EvictPcs, OrphanPcs
  <2>4. /\ Target(s) \in RowsOf("location") /\ Puts(s, Target(s))
    <3>1. s.pc \in LockedPcs /\ s.pc \in TargetPcs
      BY <1>3 DEF LockedPcs, FencePcs, ClaimPcs, TargetPcs
    <3> QED
      BY <1>1, <2>1, <2>2, <3>1, TargetIssued DEF TargetOK
  <2>5. t.writes[Target(s)] = s.writes[Target(s)]
    BY <1>2, <2>1, <2>4 DEF Grown, Puts
  <2>6. \A c \in DOMAIN s.reg : c \in DOMAIN t.reg /\ t.reg[c] = s.reg[c]
    BY <2>0, <2>1 DEF Grown
  <2>7. /\ Typed(Would(Now, s))
        /\ \A r \in Rows : Would(Now, s)[r] # Absent => RowOK(r, Would(Now, s)[r])
    BY <1>1, <2>1, WouldSound
  <2>8. \A r \in Rows : \/ r \in DOMAIN N /\ Would(Now, t)[r] = Absent
                        \/ r \notin DOMAIN N /\ Would(Now, t)[r] = Would(Now, s)[r]
    BY <1>2, <2>1, <2>7 DEF Grown, Typed
  <2>9. CASE pc = "fence.readers"
    <3>1. NoEntries(Would(Now, s), Target(s))
      BY <1>3, <2>2, <2>9 DEF FenceOK, FencePcs
    <3>2. NoEntries(Would(Now, t), Target(s))
      BY <2>8, <3>1, TableRows DEF NoEntries
    <3>3. /\ {"row", "now"} \subseteq DOMAIN s.reg /\ s.reg.now \in Nat
          /\ DOMAIN s.reg.row = DOMAIN NewLocation
          /\ s.reg.row.folderName = s.writes[Target(s)].folderName
      BY <1>3, <2>2, <2>9 DEF FenceOK
    <3>4. /\ {"row", "now"} \subseteq DOMAIN t.reg /\ t.reg.now = s.reg.now /\ t.reg.row = s.reg.row
      BY <2>6, <3>3
    <3>5. FenceOK(Now, t)
      BY <2>1, <2>5, <2>9, <3>2, <3>3, <3>4 DEF FenceOK
    <3>6. ClaimOK(Now, t)
      BY <2>1, <2>9 DEF ClaimOK, ClaimPcs
    <3> QED
      BY <2>3, <3>5, <3>6
  <2>10. CASE pc = "claim.readers"
    <3>1. s.pc = "claim.leases" /\ t.pc = "claim.readers"
      BY <1>3, <2>1, <2>10
    <3>2. /\ s.writes[Target(s)].mergedAt # Null
          /\ {"row", "now"} \subseteq DOMAIN s.reg /\ s.reg.now \in Nat
          /\ s.reg.row.folderName[1] \in Upload /\ UploadOf(s.reg.row.folderName) \in Now.issued
      BY <2>2, <3>1 DEF ClaimOK, ClaimPcs
    <3>3. /\ {"row", "now"} \subseteq DOMAIN t.reg /\ t.reg.now = s.reg.now /\ t.reg.row = s.reg.row
      BY <2>6, <3>2
    <3>4. ASSUME NEW d \in RowsOf("lease"), PartsLease(Would(Now, t), d, Target(s))
          PROVE  Would(Now, t)[d].expiresAt > s.reg.now
      <4> DEFINE row == Would(Now, s)[d]
      <4>1. d \in Rows /\ Would(Now, t)[d] # Absent
        BY <3>4, TableRows DEF PartsLease
      <4>2. d \notin DOMAIN N /\ Would(Now, t)[d] = row /\ row # Absent
        BY <2>8, <4>1
      <4>3. LeaseOK(row) /\ RowOK(d, row)
        BY <2>7, <4>1, <4>2, RowKinds
      <4>4. row.scope = "parts" /\ row.storageLocationId = s.reg.location
        <5>1. row.scope = "parts" /\ LeasedBy(row) = Target(s)
          BY <3>4, <4>2 DEF PartsLease
        <5> QED
          BY <5>1 DEF LeasedBy, Target
      <4>5. row.storageLocationId # Null /\ row.scope # Null /\ row.expiresAt # Null
            /\ row.expiresAt \in Nat
        BY <4>3, NullFacts DEF LeaseOK
      <4>7. where = {Where("scope", "EQ", "parts"),
              Where("storageLocationId", "EQ", s.reg.location),
                     Where("expiresAt", "LTE", s.reg.now)}
        BY <1>3a, <3>1 DEF PartsLeases, DeadLeasesOf, LeaseScope, LeaseStorageLocationId,
           LeaseExpiresAt
      <4>8. ~(\A clause \in where : \E q \in clause : Holds(q, row))
        BY <1>3b, <4>2, MatchingFacts
      <4> HIDE DEF row
      <4>6. /\ \E q \in Where("scope", "EQ", "parts") : Holds(q, row)
            /\ \E q \in Where("storageLocationId", "EQ", s.reg.location) : Holds(q, row)
        <5>1. /\ row["scope"] = "parts" /\ row["storageLocationId"] = s.reg.location
              /\ "parts" # Null /\ s.reg.location # Null
          BY <4>4, <4>5
        <5> QED
          BY <5>1, HoldsEqual
      <4>9. ~(\E q \in Where("expiresAt", "LTE", s.reg.now) : Holds(q, row))
        BY <4>6, <4>7, <4>8
      <4>10. ~(row["expiresAt"] <= s.reg.now)
        <5>1. row["expiresAt"] # Null
          BY <4>5
        <5> QED
          BY <4>9, <5>1, HoldsUpTo
      <4> QED
        BY <3>2, <4>2, <4>5, <4>10
    <3>5. ClaimOK(Now, t)
      BY <2>5, <3>1, <3>2, <3>3, <3>4 DEF ClaimOK
    <3>6. FenceOK(Now, t)
      BY <3>1 DEF FenceOK, FencePcs
    <3> QED
      BY <2>3, <3>5, <3>6
  <2> QED
    BY <2>9, <2>10
<1>8. Moves(p, did, pc, <<>>) /\ DOMAIN <<>> = {}
  BY MovesNothing
<1> QED
  BY <1>1, <1>2, <1>5, <1>6, <1>7, <1>8, TargetDeletes

LEMMA FenceLeasesKeeps ==
  ASSUME TransactionInv, NEW p \in Process, FenceLeases(p)
  PROVE  TransactionInv'
<1> DEFINE where == DeadLeasesOf(proc[p].reg.location, proc[p].reg.now)
           did == Delete(p, "lease", where)
<1>1. proc[p].pc = "fence.leases"
  BY DEF FenceLeases, At
<1>2. Does(p, did, "fence.readers")
  BY DEF FenceLeases, DeleteLease
<1>3. did = Delete(p, "lease", where)
  OBVIOUS
<1> HIDE DEF where, did
<1> QED
  BY <1>1, <1>2, <1>3, DeadDeleted

LEMMA ClaimLeasesKeeps ==
  ASSUME TransactionInv, NEW p \in Process, ClaimLeases(p)
  PROVE  TransactionInv'
<1> DEFINE where == PartsLeases \cup DeadLeasesOf(proc[p].reg.location, proc[p].reg.now)
           did == Delete(p, "lease", where)
<1>1. proc[p].pc = "claim.leases"
  BY DEF ClaimLeases, At
<1>2. Does(p, did, "claim.readers")
  BY DEF ClaimLeases, DeleteLease
<1>3. /\ did = Delete(p, "lease", where) /\ Where("scope", "EQ", "parts") \in where
      /\ where = PartsLeases \cup DeadLeasesOf(proc[p].reg.location, proc[p].reg.now)
  BY DEF PartsLeases, LeaseScope
<1> HIDE DEF where, did
<1> QED
  BY <1>1, <1>2, <1>3, DeadDeleted

-----------------------------------------------------------------------------
(* Statements that delete an owner of a folder or a task of the outbox.      *)

Falls(s, t, N, pc) ==
  /\ Open(Now, s) /\ WritesInv(Now, s) /\ WouldInv(Now, s) /\ PlanInv(Now, s)
  /\ t.pc = pc /\ t.job = s.job
  /\ Grown(t.writes, N, s.writes) /\ Grown(Would(Now, t), N, Would(Now, s))
FallDuty(s, N, pc) ==
  \A t : Falls(s, t, N, pc) =>
    /\ DropsOK(Now, t)
    /\ s.pc = "fence.delete" => QueueFree(Would(Now, t), {})
    /\ \A l \in DOMAIN N \cap RowsOf("location") :
         /\ NoEntries(Would(Now, t), l)
         /\ \A d \in RowsOf("lease") : Would(Now, t)[d] # Absent => LeasedBy(Would(Now, t)[d]) # l

\* A delete of an owner whose folder is in the outbox, or of a task.
LEMMA OwnerDeletes ==
  ASSUME TransactionInv, NEW p \in Process, NEW s, s = proc[p], NEW did, NEW N, Wrote(did, s, N),
         did.waits = {} => Unshared(p, N),
         \A r \in DOMAIN N : r \in Rows /\ N[r] = Absent /\ Would(Now, s)[r] # Absent,
         NEW pc, NEW reg, DOMAIN reg = {}, Moves(p, did, pc, reg),
         s.pc \in {"process.done", "abandon", "fence.delete"},
         pc \notin {"idle", "complete", "fence.delete"}, pc \in TargetPcs => s.pc \in TargetPcs,
         s.job.kind = "complete" => pc \in CompleteStays /\ DOMAIN N \cap RowsOf("upload") = {},
         pc # "rollback" => FallDuty(s, N, pc) /\ PlanDuty(s, N, pc, reg)
  PROVE  TransactionInv'
<1>1. DOMAIN did.state = DOMAIN Idle /\ did.state.reg = s.reg
  BY DEF Wrote
<1>2. ASSUME NEW t, Step(p, t), After(t, did.state, pc), Grown(t.reg, reg, s.reg), did.waits = {}
      PROVE  TransactionInv'
  <2>0. Ours(s) /\ s.pc \notin {"complete", "commit"} /\ pc \notin {"idle", "complete"}
    BY DEF Ours
  <2>1. WritePlan(s, t, N)
    <3> SUFFICES ASSUME Open(Now, s), t.pc # "rollback", t.job = s.job, t.snap = s.snap,
                        t.shared = s.shared, Grown(t.writes, N, s.writes),
                        Grown(Would(Now, t), N, Would(Now, s))
                 PROVE  WritesInv(Now, t) /\ WouldInv(Now, t) /\ PlanInv(Now, t)
      BY DEF WritePlan
    <3>1. t.pc = pc /\ pc # "rollback"
      BY <1>2 DEF After
    <3>2. /\ WritesInv(Now, s) /\ WouldInv(Now, s) /\ PlanInv(Now, s)
          /\ RowsOK(Now, s) /\ SnapOK(Now, s) /\ DropsOK(Now, s)
      BY OpenParts
    <3>3. Committed(Now) /\ Shape(s)
      BY ProcessFacts
    <3>4. Falls(s, t, N, pc)
      BY <3>1, <3>2 DEF Falls
    <3>5. /\ DropsOK(Now, t)
          /\ s.pc = "fence.delete" => QueueFree(Would(Now, t), {})
          /\ \A l \in DOMAIN N \cap RowsOf("location") :
               /\ NoEntries(Would(Now, t), l)
               /\ \A d \in RowsOf("lease") :
                    Would(Now, t)[d] # Absent => LeasedBy(Would(Now, t)[d]) # l
      BY <3>1, <3>4 DEF FallDuty
    <3>6. Mild(Would(Now, s), N, Would(Now, t))
      BY <3>5 DEF Mild
    <3>7. s.job.kind = "complete" => t.reg.new = s.reg.new /\ t.reg.upload = s.reg.upload
      <4>1. s.job.kind = "complete" => {"new", "upload"} \subseteq DOMAIN s.reg
        BY <2>0, <3>2, PlanParts DEF CompleteOK
      <4> QED
        BY <1>2, <4>1 DEF Grown
    <3>8. Steady(s, t)
      BY <3>7 DEF Steady
    <3>9. s.job.kind # "acquire"
      BY <3>2, PlanParts DEF KindsOK, AcquirePcs
    <3>10. /\ \A d \in DOMAIN N \cap RowsOf("lease") :
                N[d] # Absent => N[d].expiresAt <= Now.clock + Lasts
           /\ \A l \in DOMAIN N \cap RowsOf("location") : (Now.engine # "mysql" /\ N[l] # Absent) =>
                \/ N[l].partsDeletedAt = Would(Now, s)[l].partsDeletedAt
                \/ Unread(Would(Now, t), l)
      OBVIOUS
    <3>11. Spared(t) = {}
      BY <3>1 DEF Spared
    <3>12. s.pc # "complete" /\ t.pc # "complete"
           /\ (s.pc = "fence.delete" => QueueFree(Would(Now, t), Spared(t)))
      BY <2>0, <3>1, <3>5, <3>11
    <3>13. WritesInv(Now, t) /\ WouldInv(Now, t)
      BY <3>2, <3>3, <3>5, <3>6, <3>8, <3>9, <3>10, <3>12, MildKeeps
    <3>14. SnapOK(Now, t)
      <4>1. t.pc \in TargetPcs => s.pc \in TargetPcs /\ t.reg.location = s.reg.location
        <5> SUFFICES ASSUME s.pc \in TargetPcs
                     PROVE  t.reg.location = s.reg.location
          BY <3>1
        <5>1. "location" \in DOMAIN s.reg
          BY <3>2, PlanParts DEF TargetOK
        <5> QED
          BY <1>2, <5>1 DEF Grown
      <4> QED
        BY <3>2, <4>1, SnapKept
    <3>15. WriteAsks(s, t, N, pc, reg)
      BY <1>2, <3>1, <3>2, <3>14 DEF WriteAsks
    <3> QED
      BY <3>1, <3>13, <3>15 DEF PlanDuty
  <2>2. Alone(p, DOMAIN N) /\ \A q \in Process \ {p} : \A r \in proc[q].shared \cap DOMAIN N :
          N[r] # Absent
    BY <1>2 DEF Unshared
  <2>3. \A r \in DOMAIN N : r \in Rows /\ Would(Now, s)[r] # Absent
    OBVIOUS
  <2>4. \A r \in DOMAIN N : N[r] # Absent /\ r \in RowsOf("upload") =>
          KeyOf(N[r]) = KeyOf(Would(Now, s)[r])
    OBVIOUS
  <2>5. \A r \in DOMAIN N : N[r] # Absent => "id" \in DOMAIN N[r]
    OBVIOUS
  <2> QED
    BY <1>2, <2>0, <2>1, <2>2, <2>3, <2>4, <2>5, WritesTo
<1> QED
  BY <1>1, <1>2, MovesFacts

-----------------------------------------------------------------------------
(* A deleted task leaves no folder behind: nothing else was written.         *)
LEMMA ProcessDoneKeeps ==
  ASSUME TransactionInv, NEW p \in Process, ProcessDone(p)
  PROVE  TransactionInv'
<1> DEFINE s == proc[p]
           where == {DeletionID("EQ", s.job.task)}
           did == DeleteOneDeletion(p, s.job.task)
<1>1. s.pc = "process.done" /\ Does(p, did, "commit")
  BY DEF ProcessDone, At
<1>2. did = Delete(p, "deletion", where) /\ "deletion" \in Tables /\ "deletion" # "location"
  BY RowFacts DEF DeleteOneDeletion
<1> HIDE DEF did, where
<1>3. PICK N : /\ Wrote(did, proc[p], N) /\ (did.waits = {} => Unshared(p, N))
               /\ DOMAIN N = Matching(Would(Now, proc[p]), "deletion", where)
               /\ \A r \in DOMAIN N : /\ r \in RowsOf("deletion") /\ r \in Rows /\ N[r] = Absent
                                      /\ Would(Now, proc[p])[r] # Absent
                                      /\ r \notin RowsOf("location")
  BY <1>2, DeletedPlain
<1>4. s = proc[p]
  OBVIOUS
<1>5. Moves(p, did, "commit", <<>>) /\ DOMAIN <<>> = {} /\ "location" \notin DOMAIN <<>>
  BY <1>1, MovesNothing
<1>6. Ours(s) /\ s.pc # "commit" /\ s.pc \in {"process.done", "abandon", "fence.delete"}
  BY <1>1 DEF Ours
<1> HIDE DEF s
<1>7. s.job.kind # "complete"
  BY <1>1, <1>4, <1>6, KindFacts DEF CompletePcs, FencePcs
<1>8. FallDuty(s, N, "commit")
  <2> SUFFICES ASSUME NEW t, Falls(s, t, N, "commit")
               PROVE  /\ DropsOK(Now, t)
                      /\ s.pc = "fence.delete" => QueueFree(Would(Now, t), {})
                      /\ \A l \in DOMAIN N \cap RowsOf("location") :
                           /\ NoEntries(Would(Now, t), l)
                           /\ \A d \in RowsOf("lease") :
                                Would(Now, t)[d] # Absent => LeasedBy(Would(Now, t)[d]) # l
    BY DEF FallDuty
  <2>1. FirstOK(s) /\ Grown(t.writes, N, s.writes)
    BY PlanParts DEF Falls
  <2>2. DOMAIN s.writes = {}
    BY <1>1, <2>1 DEF FirstOK, FirstPcs
  <2>3. \A r \in Owners : r \notin DOMAIN N
    BY <1>3, <1>4, TableRows, TablesApart, RowFacts
  <2>4. \A r \in Owners : r \notin DOMAIN t.writes
    BY <2>1, <2>2, <2>3 DEF Grown
  <2>5. DropsOK(Now, t)
    BY <2>4 DEF DropsOK
  <2> QED
    BY <1>1, <1>3, <2>5
<1>9. PlanDuty(s, N, "commit", <<>>)
  BY <1>3, <1>4, <1>5, <1>6, <1>7, EndDuty
<1>10. \A r \in DOMAIN N : r \in Rows /\ N[r] = Absent /\ Would(Now, s)[r] # Absent
  BY <1>3, <1>4
<1>11. Wrote(did, s, N) /\ (did.waits = {} => Unshared(p, N))
  BY <1>3, <1>4
<1>12. "commit" \notin TargetPcs
  BY DEF TargetPcs, LockedPcs, FencePcs, ClaimPcs
<1> QED
  BY <1>4, <1>5, <1>6, <1>7, <1>8, <1>9, <1>10, <1>11, <1>12, OwnerDeletes

(* An upload that is abandoned gives its folder to the outbox next.          *)
LEMMA AbandonDeleteKeeps ==
  ASSUME TransactionInv, NEW p \in Process, AbandonDelete(p)
  PROVE  TransactionInv'
<1> DEFINE s == proc[p]
           where == {UploadID("EQ", s.job.upload)}
                      \cup (IF s.job.idle THEN Inactive(s.job.cutoff) ELSE {})
           did == DeleteUpload(p, where)
           pc == IF did.result = {} THEN "rollback" ELSE "abandon.enqueue"
<1>1. s.pc = "abandon" /\ Does(p, did, pc)
  BY DEF AbandonDelete, At
<1>2. did = Delete(p, "upload", where) /\ "upload" \in Tables /\ "upload" # "location"
  BY RowFacts DEF DeleteUpload
<1>3. UploadID("EQ", s.job.upload) \in where
  OBVIOUS
<1>4. pc = (IF did.result = {} THEN "rollback" ELSE "abandon.enqueue")
  OBVIOUS
<1>5. s = proc[p]
  OBVIOUS
<1> HIDE DEF did, where, pc
<1>6. did.result = Matching(Would(Now, proc[p]), "upload", where)
  BY <1>2, DeletedPlain
<1>7. PICK N : /\ Wrote(did, proc[p], N) /\ (did.waits = {} => Unshared(p, N))
               /\ DOMAIN N = Matching(Would(Now, proc[p]), "upload", where)
               /\ \A r \in DOMAIN N : /\ r \in RowsOf("upload") /\ r \in Rows /\ N[r] = Absent
                                      /\ Would(Now, proc[p])[r] # Absent
                                      /\ r \notin RowsOf("location")
  BY <1>2, DeletedPlain
<1> HIDE DEF s
<1>8. Moves(p, did, pc, <<>>) /\ DOMAIN <<>> = {}
  BY <1>1, MovesNothing
<1>9. Ours(s) /\ s.pc # "commit" /\ s.pc \in {"process.done", "abandon", "fence.delete"}
  BY <1>1 DEF Ours
<1>10. s.job.kind # "complete"
  BY <1>1, <1>5, <1>9, KindFacts DEF CompletePcs, FencePcs
<1>11. Open(Now, s)
  BY <1>9, <1>10 DEF Open, Entitled
<1>12. DOMAIN s.writes = {}
  BY <1>1, <1>5, <1>11, OpenParts, PlanParts DEF FirstOK, FirstPcs
<1>13. \A r \in DOMAIN N : r = UploadRow(s) /\ db[r] # Absent
  <2> SUFFICES ASSUME NEW r \in DOMAIN N
               PROVE  r = UploadRow(s) /\ db[r] # Absent
    OBVIOUS
  <2> DEFINE row == Would(Now, s)[r]
  <2>1. r \in RowsOf("upload") /\ r \in Rows /\ row # Absent
    BY <1>5, <1>7
  <2>2. RowOK(r, row) /\ row = db[r]
    BY <1>5, <1>11, <1>12, <2>1, WouldSound
  <2>3. Where("id", "EQ", s.job.upload) \in where
    BY <1>3 DEF UploadID
  <2>4. r \in Matching(Would(Now, s), "upload", where) /\ "upload" \in Tables
    BY <1>5, <1>7, RowFacts
  <2>5. r = <<"upload", s.job.upload>>
    BY <2>2, <2>3, <2>4, SelectedID
  <2> QED
    BY <2>1, <2>2, <2>5 DEF UploadRow
<1>14. pc # "rollback" => pc = "abandon.enqueue" /\ DOMAIN N # {}
  BY <1>4, <1>6, <1>7
<1>15. \A r \in DOMAIN N : r \in Rows /\ N[r] = Absent /\ Would(Now, s)[r] # Absent
                           /\ r \in RowsOf("upload")
  BY <1>5, <1>7
<1>16. Wrote(did, s, N) /\ (did.waits = {} => Unshared(p, N))
  BY <1>5, <1>7
<1>17. ASSUME NEW t, pc # "rollback", t.job = s.job, Grown(t.writes, N, s.writes)
       PROVE  /\ UploadRow(t) = UploadRow(s) /\ db[UploadRow(s)] # Absent
              /\ DOMAIN t.writes = {UploadRow(s)} /\ t.writes[UploadRow(s)] = Absent
              /\ UploadRow(s) \in RowsOf("upload")
  <2>1. DOMAIN t.writes = DOMAIN N /\ \A r \in DOMAIN N : t.writes[r] = Absent
    BY <1>12, <1>15, <1>17 DEF Grown
  <2>2. UploadRow(s) \in DOMAIN N
    BY <1>13, <1>14, <1>17
  <2>3. DOMAIN N = {UploadRow(s)}
    BY <1>13, <2>2
  <2> QED
    BY <1>13, <1>15, <1>17, <2>1, <2>2, <2>3, JobRows
<1>18. pc # "rollback" => FallDuty(s, N, pc)
  <2> SUFFICES ASSUME pc # "rollback", NEW t, Falls(s, t, N, pc)
               PROVE  /\ DropsOK(Now, t)
                      /\ s.pc = "fence.delete" => QueueFree(Would(Now, t), {})
                      /\ \A l \in DOMAIN N \cap RowsOf("location") :
                           /\ NoEntries(Would(Now, t), l)
                           /\ \A d \in RowsOf("lease") :
                                Would(Now, t)[d] # Absent => LeasedBy(Would(Now, t)[d]) # l
    BY DEF FallDuty
  <2>1. /\ UploadRow(t) = UploadRow(s) /\ DOMAIN t.writes = {UploadRow(s)}
        /\ t.pc = "abandon.enqueue"
    BY <1>14, <1>17 DEF Falls
  <2>2. Pending(t) = {UploadRow(s)}
    BY <2>1 DEF Pending
  <2>3. DropsOK(Now, t)
    BY <2>1, <2>2 DEF DropsOK
  <2> QED
    BY <1>1, <1>5, <1>7, <2>3
<1>19. pc # "rollback" => PlanDuty(s, N, pc, <<>>)
  <2> SUFFICES ASSUME pc # "rollback", NEW t, WriteAsks(s, t, N, pc, <<>>)
               PROVE  PlanInv(Now, t)
    BY DEF PlanDuty
  <2>1. /\ PlanInv(Now, s) /\ SnapOK(Now, t) /\ t.pc = "abandon.enqueue" /\ t.job = s.job
        /\ Grown(t.writes, N, s.writes)
    BY <1>14 DEF WriteAsks
  <2>2. /\ UploadRow(t) = UploadRow(s) /\ db[UploadRow(s)] # Absent
        /\ DOMAIN t.writes = {UploadRow(s)} /\ t.writes[UploadRow(s)] = Absent
        /\ UploadRow(s) \in RowsOf("upload")
    BY <1>17, <2>1
  <2>3. KindsOK(s) /\ UploadsOK(Now, s) /\ RequestOK(Now, s)
    BY <2>1, PlanParts
  <2> USE DEF AcquirePcs, CompletePcs, FencePcs, EvictPcs, ClaimPcs, OrphanPcs, LockedPcs,
        FirstPcs, TargetPcs
  <2>4. s.job.kind \notin {"acquire", "request", "complete", "orphan", "evict"}
    BY <1>1, <2>3 DEF KindsOK
  <2>5. KindsOK(t) /\ FirstOK(t)
    BY <2>1, <2>4 DEF KindsOK, FirstOK
  <2>6. TargetOK(Now, t) /\ AcquireOK(Now, t) /\ FenceOK(Now, t)
    BY <2>1 DEF TargetOK, AcquireOK, FenceOK
  <2>7. RequestOK(Now, t) /\ ClaimOK(Now, t) /\ CompleteOK(Now, t)
    BY <2>1, <2>4 DEF RequestOK, ClaimOK, CompleteOK
  <2>8. UploadsOK(Now, t)
    <3>1. s.job.upload \in Upload /\ UploadRow(s) \in Now.issued
      BY <1>1, <2>3 DEF UploadsOK
    <3>2. DOMAIN t.writes \cap Owners = {UploadRow(t)}
      BY <2>2, TableRows
    <3> QED
      BY <2>1, <2>2, <2>4, <3>1, <3>2, StateFields DEF UploadsOK
  <2> QED
    BY <2>1, <2>5, <2>6, <2>7, <2>8 DEF PlanInv
<1>20. pc \notin {"idle", "complete", "fence.delete"} /\ pc \notin TargetPcs
  BY <1>4 DEF TargetPcs, LockedPcs, FencePcs, ClaimPcs
<1>21. \A r \in DOMAIN N : r \in Rows /\ N[r] = Absent /\ Would(Now, s)[r] # Absent
  BY <1>15
<1> QED
  BY <1>5, <1>8, <1>9, <1>10, <1>16, <1>18, <1>19, <1>20, <1>21, OwnerDeletes

-----------------------------------------------------------------------------
(* A fenced location that is deleted: nothing refers to it any more, and its  *)
(* folder waits in the outbox.                                               *)

(* What is deleted when no lease forbids it.                                 *)
LEMMA LocationGone ==
  ASSUME NEW S, NEW where, NEW l, l \in RowsOf("location"), NoEntries(S, l),
         \A e \in RowsOf("entry") : S[e] # Absent => EntryOK(S[e]),
         \A d \in RowsOf("lease") : S[d] # Absent => LeaseOK(S[d]),
         Matching(S, "location", where) = {l},
         ~Restricted(S, Matching(S, "location", where))
  PROVE  /\ Gone(S, "location", where) = {l}
         /\ \A d \in RowsOf("lease") : S[d] # Absent => LeasedBy(S[d]) # l
<1> DEFINE rows == Matching(S, "location", where)
<1>1. rows = {l}
  OBVIOUS
<1> HIDE DEF rows
<1>2. Children(S, "entry", l) = {}
  <2> SUFFICES ASSUME NEW e \in Children(S, "entry", l)
               PROVE  FALSE
    OBVIOUS
  <2>1. e \in RowsOf("entry") /\ S[e] # Absent /\ l \in Parent(e, S[e]) /\ e[1] = "entry"
    BY RowFacts DEF Children
  <2>2. l = LocationOf(S[e])
    BY <2>1 DEF Parent, LocationOf
  <2> QED
    BY <2>1, <2>2 DEF NoEntries
<1>3. Cascade(S, rows) = {}
  BY <1>1, <1>2 DEF Cascade
<1>4. Gone(S, "location", where) = {l}
  BY <1>1, <1>3 DEF Gone, rows
<1>5. Children(S, "lease", l) = {}
  BY <1>1 DEF Restricted, rows
<1>6. \A d \in RowsOf("lease") : S[d] # Absent => LeasedBy(S[d]) # l
  <2> SUFFICES ASSUME NEW d \in RowsOf("lease"), S[d] # Absent, LeasedBy(S[d]) = l
               PROVE  FALSE
    OBVIOUS
  <2>1. d[1] = "lease"
    BY RowFacts
  <2>2. l \in Parent(d, S[d])
    BY <2>1 DEF Parent, LeasedBy
  <2>3. d \in Children(S, "lease", l)
    BY <2>2 DEF Children
  <2> QED
    BY <1>5, <2>3
<1> QED
  BY <1>4, <1>6

-----------------------------------------------------------------------------
(* What an open transaction deletes there.                                   *)
LEMMA FencedGone ==
  ASSUME TransactionInv, NEW p \in Process, NEW s, s = proc[p], Open(Now, s), s.pc = "fence.delete",
         NEW where, Where("id", "EQ", s.reg.location) \in where,
         Matching(Would(Now, s), "location", where) # {},
         ~Restricted(Would(Now, s), Matching(Would(Now, s), "location", where))
  PROVE  /\ Gone(Would(Now, s), "location", where) = {Target(s)}
         /\ \A d \in RowsOf("lease") :
              Would(Now, s)[d] # Absent => LeasedBy(Would(Now, s)[d]) # Target(s)
         /\ NoEntries(Would(Now, s), Target(s))
         /\ Target(s) \in RowsOf("location") /\ Target(s) \in Rows
         /\ Puts(s, Target(s)) /\ db[Target(s)] # Absent
         /\ db[Target(s)].folderName = s.writes[Target(s)].folderName
         /\ \E d \in RowsOf("deletion") :
              Puts(s, d) /\ s.writes[d].folderName = s.writes[Target(s)].folderName
<1> DEFINE S == Would(Now, s)
           l == Target(s)
<1>1. /\ Typed(S) /\ \A r \in Rows : S[r] # Absent => RowOK(r, S[r])
  BY WouldSound
<1>2. PlanInv(Now, s) /\ RowsOK(Now, s)
  BY OpenParts
<1>3. TargetOK(Now, s) /\ FenceOK(Now, s)
  BY <1>2, PlanParts
<1>4. s.pc \in TargetPcs /\ s.pc \in LockedPcs /\ s.pc \in FencePcs \ {"fence.entries"}
  BY DEF TargetPcs, LockedPcs, FencePcs
<1>5. l \in RowsOf("location") /\ l \in Rows
  BY <1>4, TargetIssued
<1>6. Puts(s, l) /\ db[l] # Absent
  BY <1>3, <1>4, StateFields DEF TargetOK
<1>7. NoEntries(S, l)
  BY <1>3, <1>4 DEF FenceOK
<1>8. \E d \in RowsOf("deletion") : Puts(s, d) /\ s.writes[d].folderName = s.writes[l].folderName
  BY <1>3 DEF FenceOK
<1>9. Evolves(l, db[l], s.writes[l])
  BY <1>2, <1>6, StateFields DEF RowsOK, Puts
<1>10. db[l].folderName = s.writes[l].folderName
  BY <1>5, <1>9, EvolvesKinds
<1>11. Matching(S, "location", where) = {l}
  <2>1. ASSUME NEW r \in Matching(S, "location", where)
        PROVE  r = l
    <3>1. RowOK(r, S[r]) /\ "location" \in Tables
      BY <1>1, MatchingFacts, TableRows, RowFacts
    <3>2. r = <<"location", s.reg.location>>
      BY <3>1, SelectedID
    <3> QED
      BY <3>2 DEF Target
  <2> QED
    BY <2>1
<1>12. /\ \A e \in RowsOf("entry") : S[e] # Absent => EntryOK(S[e])
       /\ \A d \in RowsOf("lease") : S[d] # Absent => LeaseOK(S[d])
  BY <1>1, TableRows, RowKinds
<1>13. ~Restricted(S, Matching(S, "location", where))
  OBVIOUS
<1> HIDE DEF S, l
<1>14. /\ Gone(S, "location", where) = {l}
       /\ \A d \in RowsOf("lease") : S[d] # Absent => LeasedBy(S[d]) # l
  BY <1>5, <1>7, <1>11, <1>12, <1>13, LocationGone
<1> QED
  BY <1>5, <1>6, <1>7, <1>8, <1>10, <1>14 DEF S, l

\* What is left to show of a deleted location.
LEMMA FencedDuty ==
  ASSUME TransactionInv, NEW p \in Process, NEW s, s = proc[p], s.pc = "fence.delete",
         NEW N, NEW pc, NEW d \in RowsOf("deletion"),
         DOMAIN N = {Target(s)}, N[Target(s)] = Absent, Target(s) \in RowsOf("location"),
         Puts(s, d), s.writes[d].folderName = db[Target(s)].folderName,
         Puts(s, Target(s)), s.writes[Target(s)].folderName = db[Target(s)].folderName,
         NoEntries(Would(Now, s), Target(s)),
         \A e \in RowsOf("lease") :
           Would(Now, s)[e] # Absent => LeasedBy(Would(Now, s)[e]) # Target(s)
  PROVE  FallDuty(s, N, pc)
<1> DEFINE l == Target(s)
           S == Would(Now, s)
<1> SUFFICES ASSUME NEW t, Falls(s, t, N, pc)
             PROVE  /\ DropsOK(Now, t)
                    /\ s.pc = "fence.delete" => QueueFree(Would(Now, t), {})
                    /\ \A r \in DOMAIN N \cap RowsOf("location") :
                         /\ NoEntries(Would(Now, t), r)
                         /\ \A e \in RowsOf("lease") :
                              Would(Now, t)[e] # Absent => LeasedBy(Would(Now, t)[e]) # r
  BY DEF FallDuty
<1> DEFINE T == Would(Now, t)
<1>1. /\ WritesInv(Now, s) /\ WouldInv(Now, s) /\ Grown(t.writes, N, s.writes) /\ Grown(T, N, S)
      /\ Open(Now, s)
  BY DEF Falls
<1>2. Typed(S)
  BY <1>1, WouldSound
<1>3. \A r \in Rows : r # l => T[r] = S[r]
  BY <1>1, <1>2 DEF Grown, Typed
<1>4. T[l] = Absent
  BY <1>1 DEF Grown
<1>5. QueueFree(S, {l})
  BY <1>1 DEF WouldInv, Spared
<1>6. l \in RowsOf("location") /\ DOMAIN N = {l} /\ N[l] = Absent
  OBVIOUS
<1>7. \A r \in RowsOf("entry") \cup RowsOf("lease") \cup RowsOf("deletion") : r # l /\ r \in Rows
  BY <1>6, TableRows, TablesApart, RowFacts
<1>8. DropsOK(Now, s) /\ Pending(s) = {}
  BY <1>1 DEF WritesInv, Pending
<1> HIDE DEF S, T
<1>9. QueueFree(T, {})
  <2> SUFFICES ASSUME NEW x \in RowsOf("deletion"), NEW r \in Owners, T[x] # Absent, T[r] # Absent,
                      T[x].folderName[2] = ""
               PROVE  T[x].folderName # T[r].folderName
    BY DEF QueueFree
  <2>1. r # l /\ r \in Rows /\ x # l /\ x \in Rows
    BY <1>4, <1>7, TableRows
  <2>2. T[r] = S[r] /\ T[x] = S[x]
    BY <1>3, <2>1
  <2> QED
    BY <1>5, <2>1, <2>2 DEF QueueFree
<1>10. NoEntries(T, l) /\ \A e \in RowsOf("lease") : T[e] # Absent => LeasedBy(T[e]) # l
  BY <1>3, <1>7 DEF NoEntries, S
<1>11. DropsOK(Now, t)
  <2> SUFFICES ASSUME NEW r \in Owners, r \in DOMAIN t.writes, t.writes[r] = Absent, db[r] # Absent
               PROVE  \E x \in Owners \cup RowsOf("deletion") :
                        Puts(t, x) /\ t.writes[x].folderName = db[r].folderName
    BY StateFields DEF DropsOK
  <2>1. \A x : Puts(s, x) /\ x # l => Puts(t, x) /\ t.writes[x] = s.writes[x]
    BY <1>1, <1>6 DEF Grown, Puts
  <2>2. Puts(t, d) /\ t.writes[d] = s.writes[d]
    BY <1>7, <2>1
  <2>3. CASE r = l
    BY <2>2, <2>3
  <2>4. CASE r # l
    <3>1. r \in DOMAIN s.writes /\ s.writes[r] = Absent
      BY <1>1, <1>6, <2>4 DEF Grown
    <3>2. PICK x \in Owners \cup RowsOf("deletion") :
            Puts(s, x) /\ s.writes[x].folderName = db[r].folderName
      BY <1>8, <3>1, StateFields DEF DropsOK
    <3>3. CASE x = l
      BY <2>2, <3>2, <3>3
    <3>4. CASE x # l
      BY <2>1, <3>2, <3>4
    <3> QED
      BY <3>3, <3>4
  <2> QED
    BY <2>3, <2>4
<1> QED
  BY <1>6, <1>9, <1>10, <1>11 DEF T

LEMMA FencedPlan ==
  ASSUME TransactionInv, NEW p \in Process, NEW s, s = proc[p], s.pc = "fence.delete",
         NEW N, NEW pc, pc = Returned(p), NEW reg, DOMAIN reg = {},
         DOMAIN N = {Target(s)}, Puts(s, Target(s)), Target(s) \in RowsOf("location")
  PROVE  PlanDuty(s, N, pc, reg)
<1> SUFFICES ASSUME NEW t, WriteAsks(s, t, N, pc, reg)
             PROVE  PlanInv(Now, t)
  BY DEF PlanDuty
<1>1. /\ Open(Now, s) /\ PlanInv(Now, s) /\ SnapOK(Now, t)
      /\ t.pc = pc /\ t.job = s.job /\ Grown(t.writes, N, s.writes) /\ Grown(t.reg, reg, s.reg)
  BY DEF WriteAsks
<1>2. s.pc \in TargetPcs /\ s.pc \in FencePcs /\ s.pc # "complete"
  BY DEF TargetPcs, LockedPcs, FencePcs
<1>3. {"location", "new", "upload"} \cap DOMAIN reg = {}
  OBVIOUS
<1>4. /\ t.reg.location = s.reg.location /\ DOMAIN s.reg \subseteq DOMAIN t.reg
      /\ "location" \in DOMAIN t.reg
      /\ s.job.kind = "complete" => t.reg.new = s.reg.new /\ t.reg.upload = s.reg.upload
  BY ONLY <1>1, <1>2, <1>3, RegsKept
<1>5. KindsOK(s) /\ RequestOK(Now, s) /\ CompleteOK(Now, s)
  BY <1>1, PlanParts
<1>6. EvictOK(Now, t)
  <2>1. DOMAIN t.writes \cap RowsOf("location") \subseteq DOMAIN s.writes
    BY <1>1 DEF Grown, Puts
  <2> QED
    BY <1>1, <1>4, <1>5, <2>1, EvictOn
<1>7. \/ t.pc = "commit" /\ s.job.kind # "complete"
      \/ t.pc = "complete.blocks" /\ s.job.kind = "complete"
  BY <1>1 DEF Returned
<1>8. CompleteOK(Now, t)
  <2>1. CASE s.job.kind # "complete"
    BY <1>1, <2>1 DEF CompleteOK
  <2>2. CASE s.job.kind = "complete"
    <3>1. {"new", "upload", "now"} \subseteq DOMAIN s.reg /\ s.reg.now \in Nat /\
            s.reg.new \in Location
      BY <1>2, <1>5, <2>2 DEF CompleteOK
    <3>2. t.reg.now = s.reg.now
      BY <1>1, <3>1 DEF Grown
    <3>3. /\ {"new", "upload", "now"} \subseteq DOMAIN t.reg /\ t.reg.now \in Nat
          /\ t.reg.new = s.reg.new /\ t.reg.upload = s.reg.upload
      BY <1>4, <2>2, <3>1, <3>2
    <3>4. Target(s) # NewRow(s)
      BY <1>1, <1>2, <2>2, TargetIssued
    <3>5. ASSUME NEW r \in RowsOf("entry") \cup {NewRow(s)}, Puts(s, r)
          PROVE  r \in DOMAIN t.writes /\ t.writes[r] = s.writes[r]
      <4>1. r # Target(s)
        BY <3>4, TableRows, TablesApart, RowFacts
      <4> QED
        BY <1>1, <3>5, <4>1 DEF Grown, Puts
    <3>6. s.pc \in {"fence.lock", "complete.blocks", "complete.delete"} \cup FencePcs
      BY <1>2
    <3>7. t.pc \in {"fence.lock", "complete.blocks", "complete.delete", "commit"} \cup FencePcs
      BY <1>7
    <3> QED
      BY <1>1, <1>5, <3>3, <3>5, <3>6, <3>7, CompleteOn
  <2> QED
    BY <2>1, <2>2
<1>9. CASE t.pc = "commit"
  BY <1>1, <1>6, <1>8, <1>9, PlanCommit
<1>10. CASE t.pc = "complete.blocks"
  <2> USE DEF AcquirePcs, CompletePcs, FencePcs, EvictPcs, ClaimPcs, OrphanPcs, LockedPcs,
        FirstPcs, TargetPcs
  <2>1. KindsOK(t) /\ FenceOK(Now, t) /\ ClaimOK(Now, t) /\ t.pc \notin LockedPcs /\
          t.pc # "merge.lease"
    BY <1>1, <1>7, <1>10 DEF KindsOK, FenceOK, ClaimOK
  <2>2. t.pc \in ((TargetPcs \ FirstPcs) \ {"request.detach"}) \cup {"complete.blocks"}
    BY <1>10
  <2> HIDE DEF AcquirePcs, CompletePcs, FencePcs, EvictPcs, ClaimPcs, OrphanPcs, LockedPcs,
        FirstPcs, TargetPcs
  <2> QED
    BY <1>1, <1>2, <1>4, <1>6, <1>8, <2>1, <2>2, TargetPlan
<1> QED
  BY <1>7, <1>9, <1>10

LEMMA FenceDeleteKeeps ==
  ASSUME TransactionInv, NEW p \in Process, FenceDelete(p)
  PROVE  TransactionInv'
<1> DEFINE s == proc[p]
           where == {LocationID("EQ", s.reg.location)}
           did == DeleteOneLocation(p, s.reg.location)
           pc == IF did.result # {} THEN Returned(p) ELSE "rollback"
<1>1. s.pc = "fence.delete" /\ Does(p, did, pc)
  BY DEF FenceDelete, At
<1>2. did = Delete(p, "location", where) /\ "location" \in Tables
  BY RowFacts DEF DeleteOneLocation
<1>3. Where("id", "EQ", s.reg.location) \in where
  BY DEF LocationID
<1>4. pc = (IF did.result # {} THEN Returned(p) ELSE "rollback") /\ s = proc[p]
  OBVIOUS
<1> HIDE DEF did, where, pc
<1>5. /\ did.result = (IF Restricted(Would(Now, proc[p]),
           Matching(Would(Now, proc[p]), "location", where))
                       THEN {} ELSE Matching(Would(Now, proc[p]), "location", where))
      /\ did.waits = {} => /\ Alone(p, Gone(Would(Now, proc[p]), "location", where))
                           /\ \A q \in Process \ {p} :
                                proc[q].shared \cap Gone(Would(Now, proc[p]), "location",
                                  where) = {}
  BY <1>2, DeleteFacts
<1>6. PICK N : /\ Wrote(did, proc[p], N) /\ DOMAIN N = Gone(Would(Now, proc[p]), "location", where)
               /\ \A r \in DOMAIN N : N[r] = Absent
  BY <1>2, DeleteFacts
<1>7. /\ \A r \in Matching(Would(Now, proc[p]), "location", where) : r \in RowsOf("location")
      /\ \A r \in Gone(Would(Now, proc[p]), "location", where) :
           r \in Rows /\ Would(Now, proc[p])[r] # Absent
      /\ \A r \in Gone(Would(Now, proc[p]), "location", where) :
           r \in Matching(Would(Now, proc[p]), "location", where) \/ r \in RowsOf("entry")
  BY <1>2, GoneFacts
<1>8. did.waits = {} => Unshared(p, N)
  BY <1>5, <1>6 DEF Unshared
<1> HIDE DEF s
<1>9. \A r \in DOMAIN N : r \in Rows /\ N[r] = Absent /\ Would(Now, s)[r] # Absent
  BY <1>4, <1>6, <1>7
<1>10. DOMAIN N \cap RowsOf("upload") = {}
  BY <1>6, <1>7, TablesApart, RowFacts
<1>11. Moves(p, did, pc, <<>>) /\ DOMAIN <<>> = {}
  BY <1>1, MovesNothing
<1>12. /\ s.pc \in {"process.done", "abandon", "fence.delete"} /\ s.pc \in TargetPcs
       /\ pc \notin {"idle", "complete", "fence.delete"} /\ Ours(s)
  BY <1>1, <1>4 DEF Ours, Returned, TargetPcs, LockedPcs, FencePcs
<1>13. s.job.kind = "complete" => pc \in CompleteStays
  BY <1>4 DEF Returned, CompleteStays, CompletePcs
<1>14. ASSUME pc # "rollback", Open(Now, s)
       PROVE  /\ DOMAIN N = {Target(s)} /\ Target(s) \in RowsOf("location") /\ pc = Returned(p)
              /\ Puts(s, Target(s)) /\ s.writes[Target(s)].folderName = db[Target(s)].folderName
              /\ NoEntries(Would(Now, s), Target(s))
              /\ \A e \in RowsOf("lease") :
                   Would(Now, s)[e] # Absent => LeasedBy(Would(Now, s)[e]) # Target(s)
              /\ \E d \in RowsOf("deletion") :
                   Puts(s, d) /\ s.writes[d].folderName = db[Target(s)].folderName
  <2>1. /\ Matching(Would(Now, s), "location", where) # {} /\ pc = Returned(p)
        /\ ~Restricted(Would(Now, s), Matching(Would(Now, s), "location", where))
    BY <1>4, <1>5, <1>14
  <2>2. Where("id", "EQ", s.reg.location) \in where
    BY <1>3, <1>4
  <2>3. /\ Gone(Would(Now, s), "location", where) = {Target(s)}
        /\ \A d \in RowsOf("lease") :
             Would(Now, s)[d] # Absent => LeasedBy(Would(Now, s)[d]) # Target(s)
        /\ NoEntries(Would(Now, s), Target(s))
        /\ Target(s) \in RowsOf("location") /\ Puts(s, Target(s))
        /\ db[Target(s)].folderName = s.writes[Target(s)].folderName
        /\ \E d \in RowsOf("deletion") :
             Puts(s, d) /\ s.writes[d].folderName = s.writes[Target(s)].folderName
    BY <1>1, <1>4, <1>14, <2>1, <2>2, FencedGone
  <2> QED
    BY <1>4, <1>6, <2>1, <2>3
<1>15. pc # "rollback" => FallDuty(s, N, pc)
  <2>1. CASE ~Open(Now, s)
    BY <2>1 DEF FallDuty, Falls
  <2>2. ASSUME Open(Now, s), pc # "rollback"
        PROVE  FallDuty(s, N, pc)
    <3>1. PICK d \in RowsOf("deletion") :
            Puts(s, d) /\ s.writes[d].folderName = db[Target(s)].folderName
      BY <1>14, <2>2
    <3>2. N[Target(s)] = Absent
      BY <1>9, <1>14, <2>2
    <3> QED
      BY <1>1, <1>4, <1>14, <2>2, <3>1, <3>2, FencedDuty
  <2> QED
    BY <2>1, <2>2
<1>16. pc # "rollback" => PlanDuty(s, N, pc, <<>>)
  <2>1. CASE ~Open(Now, s)
    BY <2>1 DEF PlanDuty, WriteAsks
  <2>2. CASE Open(Now, s)
    BY <1>1, <1>4, <1>11, <1>14, <2>2, FencedPlan
  <2> QED
    BY <2>1, <2>2
<1>17. Wrote(did, s, N) /\ (did.waits = {} => Unshared(p, N))
  BY <1>4, <1>6, <1>8
<1> QED
  BY <1>4, <1>9, <1>10, <1>11, <1>12, <1>13, <1>15, <1>16, <1>17, OwnerDeletes

-----------------------------------------------------------------------------
(* The upload of a completion is deleted last.                               *)

LEMMA CompletedOpens ==
  ASSUME TransactionInv, NEW p \in Process, NEW s, s = proc[p], s.pc = "complete.delete",
         NEW t, NEW N, t.job = s.job, t.reg = s.reg, t.shared = s.shared, t.snap = s.snap,
         t.pc = "commit", Grown(t.writes, N, s.writes),
         s.job.kind = "complete", DOMAIN N = {UploadRow(s)}, N[UploadRow(s)] = Absent,
         db[UploadRow(s)] # Absent
  PROVE  UploadTaken(Now, t) /\ OpenInv(Now, t)
<1> DEFINE S == Would(Now, s)
           T == Would(Now, t)
           u == UploadRow(s)
<1>0. Ours(s) /\ Ours(t)
  BY DEF Ours
<1>1. Open(Now, s)
  BY <1>0, StateFields DEF Open, Entitled
<1>2. UploadTaken(Now, s) /\ Committed(Now) /\ Shape(s)
  BY ProcessFacts
<1>3. /\ s.job.upload \in Upload /\ u \in issued /\ DOMAIN s.writes \cap RowsOf("upload") = {}
  BY <1>0, <1>2, StateFields DEF UploadTaken
<1>4. u \in RowsOf("upload") /\ u \in Rows /\ u \in Owners
  BY <1>3, RowFacts, TableRows DEF UploadRow
<1>5. u \in DOMAIN t.writes /\ t.writes[u] = Absent
  BY DEF Grown
<1>6. UploadRow(t) = u
  BY JobRows
<1>7. UploadTaken(Now, t)
  BY <1>3, <1>5, <1>6, StateFields DEF UploadTaken
<1>8. /\ WritesInv(Now, s) /\ WouldInv(Now, s) /\ PlanInv(Now, s)
      /\ RowsOK(Now, s) /\ SnapOK(Now, s) /\ DropsOK(Now, s)
  BY <1>1, OpenParts
<1>9. CompleteOK(Now, s)
  BY <1>8, PlanParts
<1>10. /\ {"upload", "now", "new"} \subseteq DOMAIN s.reg /\ s.reg.now \in Nat
       /\ Adds(Now, s, NewRow(s)) /\ s.reg.new \in Location
       /\ s.writes[NewRow(s)].folderName = Folder(s.job.upload)
  BY <1>9 DEF CompleteOK
<1>11. NewRow(s) \in RowsOf("location") /\ NewRow(s) \in Owners
  BY <1>10, RowFacts, TableRows DEF NewRow
<1>12. Grown(T, N, S) /\ Typed(S)
  BY <1>1, WouldMore, WouldSound
<1>13. u \notin DOMAIN s.writes
  BY <1>3, <1>4
<1>14. S[u] = db[u]
  <2>1. Grown(S, s.writes, db) /\ DOMAIN db = Rows
    BY <1>2, WouldGrown, CommittedFacts, StateFields
  <2> HIDE DEF S
  <2> QED
    BY <1>4, <1>13, <2>1 DEF Grown
<1>15. Mild(S, N, T)
  <2>1. DOMAIN N \cap RowsOf("location") = {}
    BY <1>4, TablesApart, RowFacts
  <2> QED
    BY <1>4, <1>14, <2>1 DEF Mild
<1>16. db[u].folderName = Folder(s.job.upload)
  <2>1. RowOK(u, db[u])
    BY <1>2, <1>4, CommittedFacts, StateFields
  <2>2. db[u].folderName = Folder(u[2])
    BY <1>4, <2>1, RowKinds
  <2>3. u[2] = s.job.upload
    BY DEF UploadRow
  <2> QED
    BY <2>2, <2>3
<1>17. \A r \in DOMAIN N : r = u
  OBVIOUS
<1>18. Pending(s) = {}
  BY DEF Pending
<1> HIDE DEF S, T, u
<1>19. \A x : Puts(s, x) => Puts(t, x) /\ t.writes[x] = s.writes[x]
  <2> SUFFICES ASSUME NEW x, Puts(s, x)
               PROVE  Puts(t, x) /\ t.writes[x] = s.writes[x]
    OBVIOUS
  <2>1. x \in DOMAIN s.writes /\ x \notin DOMAIN N /\ s.writes[x] # Absent
    BY <1>13, <1>17 DEF Puts
  <2> QED
    BY <2>1 DEF Grown, Puts
<1>20. DropsOK(Now, t)
  <2> SUFFICES ASSUME NEW r \in Owners, r \in DOMAIN t.writes, t.writes[r] = Absent, db[r] # Absent
               PROVE  \E x \in Owners \cup RowsOf("deletion") :
                        Puts(t, x) /\ t.writes[x].folderName = db[r].folderName
    BY StateFields DEF DropsOK
  <2>1. CASE r = u
    <3>1. Puts(s, NewRow(s))
      BY <1>10 DEF Adds
    <3>2. Puts(t, NewRow(s)) /\ t.writes[NewRow(s)] = s.writes[NewRow(s)]
      BY <1>19, <3>1
    <3> QED
      BY <1>10, <1>11, <1>16, <2>1, <3>2
  <2>2. CASE r # u
    <3>1. r \in DOMAIN s.writes /\ s.writes[r] = Absent
      BY <1>17, <2>2 DEF Grown
    <3>2. PICK x \in Owners \cup RowsOf("deletion") :
            Puts(s, x) /\ s.writes[x].folderName = db[r].folderName
      BY <1>8, <1>18, <3>1, StateFields DEF DropsOK
    <3> QED
      BY <1>19, <3>2
  <2> QED
    BY <2>1, <2>2
<1>21. Steady(s, t)
  BY DEF Steady
<1>22. /\ s.pc # "complete" /\ t.pc # "complete" /\ s.pc # "fence.delete" /\ s.job.kind # "acquire"
       /\ t.pc # "commit" => FALSE
  OBVIOUS
<1>23. /\ DOMAIN N \cap RowsOf("location") = {} /\ DOMAIN N \cap RowsOf("lease") = {}
  BY <1>4, <1>17, TablesApart, RowFacts
<1>24. WritesInv(Now, t) /\ WouldInv(Now, t)
  BY <1>2, <1>8, <1>15, <1>20, <1>21, <1>22, <1>23, MildKeeps DEF S, T
<1>25. SnapOK(Now, t)
  <2>1. t.pc \notin TargetPcs
    BY DEF TargetPcs, LockedPcs, FencePcs, ClaimPcs
  <2> QED
    BY <1>8, <2>1, SnapKept
<1>26. CompleteOK(Now, t)
  <2>1. /\ {"new", "upload", "now"} \subseteq DOMAIN t.reg /\ t.reg.now \in Nat
        /\ t.reg.new = s.reg.new /\ t.reg.upload = s.reg.upload
    BY <1>10
  <2>2. \A x \in RowsOf("entry") \cup {NewRow(s)} :
          Puts(s, x) => x \in DOMAIN t.writes /\ t.writes[x] = s.writes[x]
    BY <1>19 DEF Puts
  <2>3. s.pc \in {"fence.lock", "complete.blocks", "complete.delete"} \cup FencePcs
    OBVIOUS
  <2>4. t.pc \in {"fence.lock", "complete.blocks", "complete.delete", "commit"} \cup FencePcs
    OBVIOUS
  <2> QED
    BY <1>9, <2>1, <2>2, <2>3, <2>4, CompleteOn
<1>27. EvictOK(Now, t)
  BY DEF EvictOK
<1>28. PlanInv(Now, t)
  BY <1>8, <1>25, <1>26, <1>27, PlanCommit
<1> QED
  BY <1>7, <1>24, <1>28 DEF OpenInv

LEMMA CompleteDeleteKeeps ==
  ASSUME TransactionInv, NEW p \in Process, CompleteDelete(p)
  PROVE  TransactionInv'
<1> DEFINE s == proc[p]
           where == {UploadID("EQ", s.job.upload)}
           did == DeleteOneUpload(p, s.job.upload)
           pc == IF did.result # {} THEN "commit" ELSE "rollback"
<1>1. s.pc = "complete.delete" /\ Does(p, did, pc)
  BY DEF CompleteDelete, At
<1>2. did = Delete(p, "upload", where) /\ "upload" \in Tables /\ "upload" # "location"
  BY RowFacts DEF DeleteOneUpload, DeleteUpload
<1>3. UploadID("EQ", s.job.upload) \in where
  OBVIOUS
<1>4. pc = (IF did.result # {} THEN "commit" ELSE "rollback") /\ s = proc[p]
  OBVIOUS
<1> HIDE DEF did, where, pc
<1>6. did.result = Matching(Would(Now, proc[p]), "upload", where)
  BY <1>2, DeletedPlain
<1>7. PICK N : /\ Wrote(did, proc[p], N) /\ (did.waits = {} => Unshared(p, N))
               /\ DOMAIN N = Matching(Would(Now, proc[p]), "upload", where)
               /\ \A r \in DOMAIN N : /\ r \in RowsOf("upload") /\ r \in Rows /\ N[r] = Absent
                                      /\ Would(Now, proc[p])[r] # Absent
                                      /\ r \notin RowsOf("location")
  BY <1>2, DeletedPlain
<1> HIDE DEF s
<1>8. DOMAIN did.state = DOMAIN Idle /\ did.state.reg = s.reg
  BY <1>4, <1>7 DEF Wrote
<1>9. Ours(s)
  BY <1>1 DEF Ours
<1>10. s.job.kind = "complete"
  <2> SUFFICES ASSUME s.job.kind # "complete"
               PROVE  FALSE
    OBVIOUS
  <2>1. Open(Now, s)
    BY <1>9 DEF Open, Entitled
  <2> QED
    BY <1>1, <1>4, <2>1, OpenParts, PlanParts DEF KindsOK, CompletePcs
<1>11. UploadTaken(Now, s) /\ Committed(Now) /\ Shape(s)
  BY <1>4, ProcessFacts
<1>12. DOMAIN s.writes \cap RowsOf("upload") = {}
  BY <1>1, <1>9, <1>10, <1>11 DEF UploadTaken
<1>13. \A r \in DOMAIN N : r = UploadRow(s) /\ db[r] # Absent
  <2> SUFFICES ASSUME NEW r \in DOMAIN N
               PROVE  r = UploadRow(s) /\ db[r] # Absent
    OBVIOUS
  <2> DEFINE row == Would(Now, s)[r]
             S == Would(Now, s)
  <2>1. r \in RowsOf("upload") /\ r \in Rows /\ row # Absent
    BY <1>4, <1>7
  <2>2. row = db[r]
    <3>1. Grown(S, s.writes, db) /\ DOMAIN db = Rows
      BY <1>11, WouldGrown, CommittedFacts, StateFields
    <3>2. r \notin DOMAIN s.writes
      BY <1>12, <2>1
    <3> HIDE DEF S
    <3>3. S[r] = db[r]
      BY <2>1, <3>1, <3>2 DEF Grown
    <3> QED
      BY <3>3 DEF S
  <2>3. RowOK(r, row)
    BY <1>11, <2>1, <2>2, CommittedFacts, StateFields
  <2>4. Where("id", "EQ", s.job.upload) \in where
    BY <1>3, <1>4 DEF UploadID
  <2>5. r \in Matching(Would(Now, s), "upload", where) /\ "upload" \in Tables
    BY <1>4, <1>7, RowFacts
  <2>6. r = <<"upload", s.job.upload>>
    BY <2>3, <2>4, <2>5, SelectedID
  <2> QED
    BY <2>1, <2>2, <2>6 DEF UploadRow
<1>14. ASSUME NEW t, Step(p, t), After(t, did.state, pc), t.reg = did.state.reg, did.waits = {}
       PROVE  TransactionInv'
  <2>1. /\ DOMAIN t = DOMAIN Idle /\ t.pc = pc /\ t.job = s.job /\ t.reg = s.reg
        /\ t.snap = s.snap /\ t.shared = s.shared /\ Grown(t.writes, N, s.writes)
    BY <1>4, <1>7, <1>14 DEF Wrote, After
  <2>2. UploadTaken(Now, t) /\ OpenInv(Now, t)
    <3>1. CASE pc = "rollback"
      BY <2>1, <3>1 DEF UploadTaken, OpenInv, Open, Ours
    <3>2. CASE pc # "rollback"
      <4>1. pc = "commit" /\ DOMAIN N # {}
        BY <1>4, <1>6, <1>7, <3>2
      <4>2. UploadRow(s) \in DOMAIN N /\ DOMAIN N = {UploadRow(s)} /\ db[UploadRow(s)] # Absent
        BY <1>13, <4>1
      <4>3. N[UploadRow(s)] = Absent
        BY <1>7, <4>2
      <4> QED
        BY <1>1, <1>4, <1>10, <2>1, <4>1, <4>2, <4>3, CompletedOpens
    <3> QED
      BY <3>1, <3>2
  <2>3. Unshared(p, N)
    BY <1>7, <1>14
  <2>4. Alone(p, DOMAIN N) /\ \A q \in Process \ {p} : \A r \in proc[q].shared \cap DOMAIN N :
          N[r] # Absent
    BY <2>3 DEF Unshared
  <2>5. /\ DOMAIN N \subseteq Rows /\ \A r \in DOMAIN N : Would(Now, s)[r] # Absent
        /\ \A r \in DOMAIN N : N[r] # Absent /\ r \in RowsOf("upload") =>
             KeyOf(N[r]) = KeyOf(Would(Now, s)[r])
        /\ \A r \in DOMAIN N : N[r] # Absent => "id" \in DOMAIN N[r]
    BY <1>4, <1>7
  <2>6. t.pc # "idle"
    BY <1>4, <2>1
  <2> QED
    BY <1>4, <1>9, <1>14, <2>1, <2>2, <2>4, <2>5, <2>6, WriteStep
<1> QED
  BY <1>1, <1>8, <1>14, DoesFacts
===============================================================================
