---------------------------- MODULE DatabaseProofs ----------------------------
(***************************************************************************)
(* What transactions keep that run beside each other on SQLite, PostgreSQL *)
(* and MySQL: the tables are consistent after every commit, no folder is   *)
(* forgotten, a reader and a removal never pass each other, and what a     *)
(* completion reports as saved is found.                                   *)
(*                                                                         *)
(* StatementProofs has the invariant and the statements that insert        *)
(* nothing.  Here are those that insert or lead an entry to its location,  *)
(* the begin of each transaction, and the commit: the tables that are      *)
(* committed are those that the transaction would leave (CommitCommitted), *)
(* and another open transaction is sound over the tables that both leave   *)
(* together (Meet...), row by row: two rows that only together would       *)
(* break a rule come from two transactions, which the locks and the unique *)
(* indexes keep apart (Cross...), and what the other one has read stays    *)
(* true (Beside...).                                                       *)
(***************************************************************************)
EXTENDS StatementProofs

-----------------------------------------------------------------------------
(* The entry of a completion is led to its location.                         *)

EntryLed(S, T, e, l) ==
  /\ e \in RowsOf("entry") /\ l \in RowsOf("location") /\ Typed(S) /\ DOMAIN T = Rows
  /\ \A r \in Rows : r # e => T[r] = S[r]
  /\ T[e] # Absent /\ RowOK(e, T[e]) /\ LocationOf(T[e]) = l
  /\ S[l] # Absent /\ S[l].deletionRequestedAt = Null
  /\ \A f \in RowsOf("entry") : f # e /\ S[f] # Absent =>
       KeyOf(S[f]) # KeyOf(T[e]) /\ LocationOf(S[f]) # l

\* Leading an entry to a location of its own keeps the tables sound.
LEMMA EntryPut ==
  ASSUME NEW S, NEW T, NEW e, NEW l, EntryLed(S, T, e, l), NEW pair, NEW spared
  PROVE  /\ Typed(T)
         /\ Linked(S) => Linked(T)
         /\ Leased(S) => Leased(T)
         /\ OneEntry(S) => OneEntry(T)
         /\ OneUpload(S) => OneUpload(T)
         /\ OneOwner(S, pair) => OneOwner(T, pair)
         /\ QueueFree(S, spared) => QueueFree(T, spared)
         /\ Claimed(S) => Claimed(T)
<1> USE DEF EntryLed
<1>1. \A r \in RowsOf("location") \cup RowsOf("lease") \cup RowsOf("deletion") \cup
        RowsOf("upload") :
        r # e /\ r \in Rows
  BY TableRows, TablesApart, RowFacts
<1>2. /\ \A r \in RowsOf("location") : T[r] = S[r]
      /\ \A r \in RowsOf("lease") : T[r] = S[r]
      /\ \A r \in RowsOf("deletion") : T[r] = S[r]
      /\ \A r \in RowsOf("upload") : T[r] = S[r]
  BY <1>1
<1>3. /\ \A r \in Owners : T[r] = S[r]
      /\ \A f \in RowsOf("entry") : f # e => T[f] = S[f]
  BY <1>2, TableRows
<1>4. Typed(T)
  BY DEF Typed
<1>5. \A f \in RowsOf("entry") : f # e /\ S[f] # Absent => LocationOf(S[f]) \in RowsOf("location")
  BY TableRows, TypedRow, RowKinds, Referred
<1>6. \A d \in RowsOf("lease") : S[d] # Absent => LeasedBy(S[d]) \in RowsOf("location")
  BY TableRows, TypedRow, RowKinds, Referred
<1>7. ASSUME Linked(S)
      PROVE  Linked(T)
  <2> SUFFICES ASSUME NEW f \in RowsOf("entry"), T[f] # Absent
               PROVE  /\ T[LocationOf(T[f])] # Absent
                      /\ T[LocationOf(T[f])].deletionRequestedAt = Null
    BY DEF Linked
  <2>1. CASE f = e
    BY <1>2, <2>1
  <2>2. CASE f # e
    <3>1. T[f] = S[f] /\ LocationOf(S[f]) \in RowsOf("location")
      BY <1>3, <1>5, <2>2
    <3> QED
      BY <1>2, <1>7, <3>1 DEF Linked
  <2> QED
    BY <2>1, <2>2
<1>8. Leased(S) => Leased(T)
  BY <1>2, <1>6 DEF Leased
<1>9. ASSUME OneEntry(S)
      PROVE  OneEntry(T)
  <2> SUFFICES ASSUME NEW f \in RowsOf("entry"), NEW h \in RowsOf("entry"),
                      T[f] # Absent, T[h] # Absent, f # h
               PROVE  KeyOf(T[f]) # KeyOf(T[h]) /\ T[f].locationId # T[h].locationId
    BY DEF OneEntry
  <2>1. \A x \in RowsOf("entry") : x # e /\ S[x] # Absent =>
          KeyOf(S[x]) # KeyOf(T[e]) /\ S[x].locationId # T[e].locationId
    BY DEF LocationOf
  <2>2. CASE f = e
    BY <1>3, <2>1, <2>2
  <2>3. CASE h = e
    BY <1>3, <2>1, <2>3
  <2>4. CASE f # e /\ h # e
    BY <1>3, <1>9, <2>4 DEF OneEntry
  <2> QED
    BY <2>2, <2>3, <2>4
<1>10. OneUpload(S) => OneUpload(T)
  BY <1>2 DEF OneUpload
<1>11. OneOwner(S, pair) => OneOwner(T, pair)
  BY <1>3 DEF OneOwner
<1>12. QueueFree(S, spared) => QueueFree(T, spared)
  <2>1. /\ \A t \in RowsOf("deletion") : T[t] = S[t]
        /\ \A r \in Owners \ spared : T[r] = S[r]
    BY <1>2, <1>3
  <2> QED
    BY ONLY <2>1, ZenonT(60) DEF QueueFree
<1>13. Claimed(S) => Claimed(T)
  BY <1>2 DEF Claimed, Unread, PartsLease
<1> QED
  BY <1>4, <1>7, <1>8, <1>9, <1>10, <1>11, <1>12, <1>13

\* The writes of a completion beside its entry.
LEMMA EntryWritten ==
  ASSUME NEW g, NEW s, NEW t, NEW N, NEW e \in RowsOf("entry"), Committed(g), Shape(s),
         WritesInv(g, s), Grown(t.writes, N, s.writes), \A r \in DOMAIN N : r = e,
         e \in DOMAIN N =>
           /\ RowOK(e, N[e]) /\ N[e].locationId = s.reg.new
           /\ g.db[e] # Absent => KeyOf(N[e]) = KeyOf(g.db[e])
           /\ g.db[e] = Absent => KeyOf(N[e]) = KeyOf(s.reg.upload),
         t.job = s.job, s.job.kind = "complete", t.reg.new = s.reg.new, t.reg.upload = s.reg.upload,
         s.shared \subseteq t.shared, Pending(s) = {}
  PROVE  WritesInv(g, t)
<1>1. \A r \in Rows : r # e =>
        /\ r \in DOMAIN t.writes <=> r \in DOMAIN s.writes
        /\ r \in DOMAIN s.writes => t.writes[r] = s.writes[r]
  BY DEF Grown
<1>2. \A r \in RowsOf("location") \cup RowsOf("lease") \cup RowsOf("deletion") \cup
        RowsOf("upload") :
        r # e /\ r \in Rows
  BY TableRows, TablesApart, RowFacts
<1>3. \A r \in RowsOf("location") \cup RowsOf("lease") \cup RowsOf("deletion") \cup
        RowsOf("upload") :
        /\ Puts(t, r) <=> Puts(s, r)
        /\ Adds(g, t, r) <=> Adds(g, s, r)
        /\ Puts(s, r) => t.writes[r] = s.writes[r]
        /\ r \in DOMAIN t.writes <=> r \in DOMAIN s.writes
        /\ r \in DOMAIN s.writes => t.writes[r] = s.writes[r]
  BY <1>1, <1>2 DEF Puts, Adds
<1>4. ASSUME NEW r \in DOMAIN t.writes
      PROVE  \/ r \notin DOMAIN N /\ r \in DOMAIN s.writes /\ t.writes[r] = s.writes[r]
             \/ r = e /\ e \in DOMAIN N /\ t.writes[r] = N[e]
  BY <1>4 DEF Grown
<1>5. RowsOK(g, t)
  <2> SUFFICES ASSUME NEW r \in DOMAIN t.writes, t.writes[r] # Absent
               PROVE  /\ RowOK(r, t.writes[r])
                      /\ g.db[r] # Absent => Evolves(r, g.db[r], t.writes[r])
    BY DEF RowsOK
  <2>1. CASE r \in DOMAIN s.writes /\ t.writes[r] = s.writes[r]
    BY <2>1 DEF WritesInv, RowsOK
  <2>2. CASE r = e /\ e \in DOMAIN N /\ t.writes[r] = N[e]
    <3>1. e[1] = "entry"
      BY RowFacts
    <3>2. g.db[e] # Absent => Evolves(e, g.db[e], N[e])
      BY <2>2, <3>1 DEF Evolves
    <3> QED
      BY <2>2, <3>2
  <2> QED
    BY <1>4, <2>1, <2>2
<1>6. EntriesOK(g, t)
  <2> SUFFICES ASSUME NEW f \in RowsOf("entry"), Puts(t, f)
               PROVE  /\ t.writes[f].locationId = t.reg.new
                      /\ Adds(g, t, f) => KeyOf(t.writes[f]) = KeyOf(t.reg.upload)
    BY DEF EntriesOK
  <2>0. f \in DOMAIN t.writes
    BY DEF Puts
  <2>1. CASE f \in DOMAIN s.writes /\ t.writes[f] = s.writes[f]
    BY <2>1 DEF WritesInv, EntriesOK, Puts, Adds
  <2>2. CASE f = e /\ e \in DOMAIN N /\ t.writes[f] = N[e]
    BY <2>2 DEF Adds
  <2> QED
    BY <1>4, <2>0, <2>1, <2>2
<1>7. InsertsOK(g, t)
  <2>1. \A l \in RowsOf("location") : Adds(g, t, l) => t.job.kind = "complete" /\ l = NewRow(t)
    BY <1>3 DEF WritesInv, InsertsOK, NewRow
  <2>2. \A d \in RowsOf("lease") : ~Adds(g, t, d)
    BY <1>3 DEF WritesInv, InsertsOK
  <2>3. \A r \in RowsOf("deletion") : Puts(t, r) => UploadOf(t.writes[r].folderName) \in g.issued
    BY <1>3 DEF WritesInv, InsertsOK
  <2> QED
    BY <2>1, <2>2, <2>3 DEF InsertsOK
<1>8. DropsOK(g, t)
  <2> SUFFICES ASSUME NEW r \in Owners, r \in DOMAIN t.writes, t.writes[r] = Absent,
                      g.db[r] # Absent
               PROVE  \E x \in Owners \cup RowsOf("deletion") :
                        Puts(t, x) /\ t.writes[x].folderName = g.db[r].folderName
    BY DEF DropsOK
  <2>1. r \in DOMAIN s.writes /\ s.writes[r] = Absent
    BY <1>3, TableRows
  <2>2. PICK x \in Owners \cup RowsOf("deletion") :
          Puts(s, x) /\ s.writes[x].folderName = g.db[r].folderName
    BY <2>1 DEF WritesInv, DropsOK
  <2>3. Puts(t, x) /\ t.writes[x] = s.writes[x]
    BY <1>3, <2>2, TableRows
  <2> QED
    BY <2>2, <2>3
<1>9. TimesOK(g, t)
  BY <1>3 DEF WritesInv, TimesOK
<1> QED
  BY <1>5, <1>6, <1>7, <1>8, <1>9 DEF WritesInv

-----------------------------------------------------------------------------
(* What an open completion knows.                                            *)
LEMMA CompletionFacts ==
  ASSUME TransactionInv, NEW p \in Process, NEW s, s = proc[p], Open(Now, s),
         s.job.kind = "complete", s.pc # "complete"
  PROVE  /\ {"upload", "now", "new"} \subseteq DOMAIN s.reg /\ s.reg.now \in Nat
         /\ UploadOK(s.reg.upload) /\ s.reg.new \in Location
         /\ NewRow(s) \in RowsOf("location") /\ NewRow(s) \in Rows
         /\ Puts(s, NewRow(s)) /\ db[NewRow(s)] = Absent
         /\ s.writes[NewRow(s)].deletionRequestedAt = Null
         /\ Would(Now, s)[NewRow(s)] = s.writes[NewRow(s)]
         /\ \A e \in RowsOf("entry") : db[e] # Absent => LocationOf(db[e]) # NewRow(s)
<1>1. CompleteOK(Now, s)
  BY OpenParts, PlanParts
<1>2. /\ {"upload", "now", "new"} \subseteq DOMAIN s.reg /\ s.reg.now \in Nat
      /\ UploadOK(s.reg.upload) /\ s.reg.new \in Location /\ Adds(Now, s, NewRow(s))
      /\ s.writes[NewRow(s)].deletionRequestedAt = Null
  BY <1>1 DEF CompleteOK
<1>3. NewRow(s) \in RowsOf("location") /\ NewRow(s) \in Rows
  BY <1>2, RowFacts, TableRows DEF NewRow
<1>4. Puts(s, NewRow(s)) /\ db[NewRow(s)] = Absent
  BY <1>2, StateFields DEF Adds
<1>5. Would(Now, s)[NewRow(s)] = s.writes[NewRow(s)]
  <2> DEFINE S == Would(Now, s)
  <2>1. Grown(S, s.writes, db)
    BY WouldGrown, StateFields
  <2> SUFFICES S[NewRow(s)] = s.writes[NewRow(s)]
    OBVIOUS
  <2> HIDE DEF S
  <2> QED
    BY <1>4, <2>1 DEF Grown, Puts
<1>6. Linked(db)
  BY ProcessFacts, StateFields DEF Committed
<1>7. \A e \in RowsOf("entry") : db[e] # Absent => LocationOf(db[e]) # NewRow(s)
  BY <1>4, <1>6 DEF Linked
<1> QED
  BY <1>2, <1>3, <1>4, <1>5, <1>7

(* A row that the transaction has not written is as it was committed.        *)
LEMMA Unwritten ==
  ASSUME TransactionInv, NEW p \in Process, NEW r \in Rows, r \notin DOMAIN proc[p].writes
  PROVE  Would(Now, proc[p])[r] = db[r]
<1> DEFINE S == Would(Now, proc[p])
<1>1. Grown(S, proc[p].writes, db) /\ DOMAIN db = Rows
  BY ProcessFacts, WouldGrown, CommittedFacts, StateFields
<1> SUFFICES S[r] = db[r]
  OBVIOUS
<1> HIDE DEF S
<1> QED
  BY <1>1 DEF Grown

\* What a completion would leave with the entry of its tuple.
LEMMA LedStores ==
  ASSUME TransactionInv, NEW p \in Process, NEW s, s = proc[p], Open(Now, s),
         s.job.kind = "complete", s.pc # "complete", DOMAIN s.writes \cap RowsOf("entry") = {},
         NEW t, NEW N, NEW e \in RowsOf("entry"), Grown(t.writes, N, s.writes),
         \A r \in DOMAIN N : r = e,
         e \in DOMAIN N =>
           /\ N[e] # Absent /\ RowOK(e, N[e]) /\ N[e].locationId = s.reg.new
           /\ \A f \in RowsOf("entry") : f # e /\ db[f] # Absent => KeyOf(db[f]) # KeyOf(N[e]),
         t.job = s.job, t.reg.new = s.reg.new, t.pc # "complete", t.pc # "fence.delete",
         s.pc # "fence.delete"
  PROVE  WouldInv(Now, t)
<1> DEFINE S == Would(Now, s)
           T == Would(Now, t)
           l == NewRow(s)
           pair == Pair(s)
           spared == Spared(s)
<1>1. Grown(T, N, S) /\ Typed(S)
  BY WouldMore, WouldSound
<1>2. /\ l \in RowsOf("location") /\ S[l] # Absent /\ S[l].deletionRequestedAt = Null
      /\ \A f \in RowsOf("entry") : db[f] # Absent => LocationOf(db[f]) # l
  BY CompletionFacts DEF Puts
<1>3. \A f \in RowsOf("entry") : S[f] = db[f]
  BY Unwritten, TableRows
<1>4. /\ Linked(S) /\ Leased(S) /\ OneEntry(S) /\ OneUpload(S)
      /\ OneOwner(S, pair) /\ QueueFree(S, spared)
      /\ Now.engine # "mysql" => Claimed(S)
  BY OpenParts DEF WouldInv
<1>5. Pair(t) = pair /\ Spared(t) = spared
  BY DEF Pair, Spared, UploadRow, NewRow
<1>6. LocationOf(N[e]) = l \/ e \notin DOMAIN N
  BY DEF LocationOf, NewRow
<1> HIDE DEF S, T, l, pair, spared
<1>7. CASE e \in DOMAIN N
  <2>1. T[e] = N[e]
    BY <1>1, <1>7 DEF Grown
  <2>2. T[e] # Absent /\ RowOK(e, T[e]) /\ LocationOf(T[e]) = l
    BY <1>6, <1>7, <2>1
  <2>3. \A r \in Rows : r # e => T[r] = S[r]
    BY <1>1 DEF Grown, Typed
  <2>4. DOMAIN T = Rows
    BY <1>1, TableRows DEF Grown, Typed
  <2>5. \A f \in RowsOf("entry") : f # e /\ S[f] # Absent =>
          KeyOf(S[f]) # KeyOf(T[e]) /\ LocationOf(S[f]) # l
    BY <1>2, <1>3, <1>7, <2>1
  <2>6a. Typed(S) /\ l \in RowsOf("location") /\ S[l] # Absent /\ S[l].deletionRequestedAt = Null
    BY <1>1, <1>2
  <2>6b. /\ Linked(S) => Linked(T)
         /\ Leased(S) => Leased(T)
         /\ OneEntry(S) => OneEntry(T)
         /\ OneUpload(S) => OneUpload(T)
         /\ OneOwner(S, pair) => OneOwner(T, pair)
         /\ QueueFree(S, spared) => QueueFree(T, spared)
         /\ Claimed(S) => Claimed(T)
    <3>1. EntryLed(S, T, e, l)
      BY <2>2, <2>3, <2>4, <2>5, <2>6a DEF EntryLed
    <3> QED
      BY <3>1, EntryPut
  <2>6. /\ Linked(T) /\ Leased(T) /\ OneEntry(T) /\ OneUpload(T)
        /\ OneOwner(T, pair) /\ QueueFree(T, spared)
        /\ Claimed(S) => Claimed(T)
    BY <1>4, <2>6b
  <2> QED
    BY <1>4, <1>5, <2>6 DEF WouldInv, T
<1>8. CASE e \notin DOMAIN N
  <2>1. \A r \in Rows : T[r] = S[r]
    BY <1>1, <1>8 DEF Grown, Typed
  <2>2. /\ Linked(T) /\ OneEntry(T) /\ OneUpload(T) /\ Leased(T)
    <3>1. \A f \in RowsOf("entry") : S[f] # Absent => LocationOf(S[f]) \in Rows
      BY <1>1, TableRows, TypedRow, RowKinds, Referred
    <3>2. \A d \in RowsOf("lease") : S[d] # Absent => LeasedBy(S[d]) \in Rows
      BY <1>1, TableRows, TypedRow, RowKinds, Referred
    <3>3. Linked(T)
      BY <1>4, <2>1, <3>1, TableRows DEF Linked
    <3>4. Leased(T)
      BY <1>4, <2>1, <3>2, TableRows DEF Leased
    <3>5. OneEntry(T) /\ OneUpload(T)
      BY <1>4, <2>1, TableRows DEF OneEntry, OneUpload
    <3> QED
      BY <3>3, <3>4, <3>5
  <2>3. OneOwner(T, pair)
    BY <1>4, <2>1, TableRows DEF OneOwner
  <2>4. \A r \in Owners : T[r] = S[r]
    BY <2>1, TableRows
  <2>5. \A r \in RowsOf("deletion") : T[r] = S[r]
    BY <2>1, TableRows
  <2>6. QueueFree(T, spared)
    <3> SUFFICES ASSUME NEW x \in RowsOf("deletion"), NEW r \in Owners \ spared,
                        T[x] # Absent, T[r] # Absent, T[x].folderName[2] = ""
                 PROVE  T[x].folderName # T[r].folderName
      BY DEF QueueFree
    <3>1. T[r] = S[r] /\ T[x] = S[x]
      BY <2>4, <2>5
    <3> QED
      BY <1>4, <3>1 DEF QueueFree
  <2>7. Claimed(S) => Claimed(T)
    <3>1. /\ \A d \in RowsOf("location") : T[d] = S[d]
          /\ \A d \in RowsOf("lease") : T[d] = S[d]
      BY <2>1, TableRows
    <3> QED
      BY <3>1 DEF Claimed, Unread, PartsLease
  <2> QED
    BY <1>4, <1>5, <2>2, <2>3, <2>6, <2>7 DEF WouldInv, T
<1> QED
  BY <1>7, <1>8

-----------------------------------------------------------------------------
(* The plan of a completion that goes on to fence the location it led away from. *)
LEMMA UpdatePlan ==
  ASSUME TransactionInv, NEW p \in Process, NEW s, s = proc[p], Open(Now, s),
         s.pc = "complete.update", s.job.kind = "complete", NEW t, t.job = s.job, t.snap = s.snap,
         t.pc = "fence.lock", NEW reg, reg = [location |-> s.reg.entry.locationId],
         Grown(t.reg, reg, s.reg), NEW N, Grown(t.writes, N, s.writes),
         \A r \in DOMAIN N : r \in RowsOf("entry"),
         engine # "mysql" => \E e \in DOMAIN N : N[e] # Absent /\ N[e].locationId = s.reg.new
  PROVE  PlanInv(Now, t)
<1>1. /\ KindsOK(s) /\ SnapOK(Now, s) /\ RequestOK(Now, s) /\ UploadsOK(Now, s)
      /\ CompleteOK(Now, s)
  BY OpenParts, PlanParts
<1>2. /\ {"upload", "now"} \subseteq DOMAIN s.reg /\ s.reg.now \in Nat
      /\ UploadOK(s.reg.upload) /\ s.reg.upload.id = s.job.upload
      /\ KeyOf(db[UploadRow(s)]) = KeyOf(s.reg.upload)
      /\ "new" \in DOMAIN s.reg /\ s.reg.new \in Location /\ Adds(Now, s, NewRow(s))
      /\ s.writes[NewRow(s)].folderName = Folder(s.job.upload)
      /\ s.writes[NewRow(s)].deletionRequestedAt = Null
      /\ "entry" \in DOMAIN s.reg /\ EntryOK(s.reg.entry)
      /\ LocationOf(s.reg.entry) \in issued
      /\ engine = "mysql" /\ s.snap # Null => s.snap[LocationOf(s.reg.entry)] # Absent
  BY <1>1, StateFields DEF CompleteOK
<1>3. /\ DOMAIN t.reg = DOMAIN s.reg \cup {"location"} /\ t.reg.location = s.reg.entry.locationId
      /\ t.reg.upload = s.reg.upload /\ t.reg.now = s.reg.now /\ t.reg.new = s.reg.new
  <2>1. DOMAIN reg = {"location"} /\ reg.location = s.reg.entry.locationId
    OBVIOUS
  <2> QED
    BY <1>2, <2>1 DEF Grown
<1>4. Target(t) = LocationOf(s.reg.entry) /\ t.reg.location \in Location
  BY <1>2, <1>3 DEF Target, LocationOf, EntryOK
<1>5. NewRow(t) = NewRow(s) /\ UploadRow(t) = UploadRow(s) /\ NewRow(s) \in RowsOf("location")
  BY <1>2, <1>3, RowFacts DEF NewRow, UploadRow
<1>6. Puts(t, NewRow(s)) /\ t.writes[NewRow(s)] = s.writes[NewRow(s)] /\ db[NewRow(s)] = Absent
  <2>1. NewRow(s) \notin DOMAIN N
    BY <1>5, TablesApart, RowFacts
  <2> QED
    BY <1>2, <2>1, StateFields DEF Adds, Puts, Grown
<1>7. KindsOK(t)
  BY DEF KindsOK, AcquirePcs, CompletePcs, EvictPcs, OrphanPcs, FencePcs
<1>8. FirstOK(t) /\ AcquireOK(Now, t) /\ FenceOK(Now, t) /\ ClaimOK(Now, t)
  BY DEF FirstOK, FirstPcs, OrphanPcs, AcquireOK, AcquirePcs, FenceOK, FencePcs, ClaimOK, ClaimPcs
<1>9. SnapOK(Now, t)
  <2> SUFFICES ASSUME engine = "mysql", s.snap # Null
               PROVE  Sight(Now, t, s.snap)
    BY StateFields DEF SnapOK
  <2>1. Sight(Now, s, s.snap)
    BY <1>1, StateFields DEF SnapOK
  <2>2. s.snap[Target(t)] # Absent
    BY <1>2, <1>4
  <2> HIDE DEF Target
  <2> QED
    BY <2>1, <2>2 DEF Sight
<1>10. TargetOK(Now, t)
  BY <1>2, <1>3, <1>4, StateFields DEF TargetOK, LockedPcs, FencePcs, ClaimPcs
<1>11. RequestOK(Now, t)
  BY DEF RequestOK
<1>12. UploadsOK(Now, t)
  BY <1>1, UploadsOther DEF OrphanPcs
<1>13. engine # "mysql" => \E e \in RowsOf("entry") :
         Puts(t, e) /\ t.writes[e].locationId = t.reg.new
  <2> SUFFICES ASSUME engine # "mysql"
               PROVE  \E e \in RowsOf("entry") : Puts(t, e) /\ t.writes[e].locationId = t.reg.new
    OBVIOUS
  <2>1. PICK e \in DOMAIN N : N[e] # Absent /\ N[e].locationId = s.reg.new
    OBVIOUS
  <2>2. e \in DOMAIN t.writes /\ t.writes[e] = N[e]
    BY <2>1 DEF Grown
  <2> QED
    BY <1>3, <2>1, <2>2 DEF Puts
<1>14. CompleteOK(Now, t)
  BY <1>2, <1>3, <1>5, <1>6, <1>13, StateFields DEF CompleteOK, Adds
<1> QED
  BY <1>7, <1>8, <1>9, <1>10, <1>11, <1>12, <1>14 DEF PlanInv

-----------------------------------------------------------------------------
(* The entry that was found, if it is still there, led to the new location.   *)
LEMMA LedEntry ==
  ASSUME TransactionInv, NEW p \in Process, NEW s, s = proc[p], Open(Now, s),
         s.pc = "complete.update", NEW e \in RowsOf("entry"), Would(Now, s)[e] # Absent,
         NEW row, row = Changed(Would(Now, s)[e],
                          ChangeEntryUpdatedAt("set", s.reg.now) ++ ChangeEntryLocation("set",
                            s.reg.new))
  PROVE  /\ s.job.kind = "complete" /\ Would(Now, s)[e] = db[e]
         /\ DOMAIN s.writes \cap RowsOf("entry") = {}
         /\ row # Absent /\ RowOK(e, row) /\ row.locationId = s.reg.new
         /\ KeyOf(row) = KeyOf(db[e])
         /\ \A f \in RowsOf("entry") : f # e /\ db[f] # Absent => KeyOf(db[f]) # KeyOf(row)
<1>1. s.job.kind = "complete" /\ CompleteOK(Now, s)
  BY OpenParts, PlanParts DEF KindsOK, CompletePcs
<1>2. /\ DOMAIN s.writes \cap RowsOf("entry") = {} /\ s.reg.now \in Nat /\ s.reg.new \in Location
  BY <1>1 DEF CompleteOK
<1>3. e \in Rows /\ e \notin DOMAIN s.writes
  BY <1>2, TableRows
<1>4. Would(Now, s)[e] = db[e]
  BY <1>3, Unwritten
<1>5. RowOK(e, db[e]) /\ e[1] = "entry" /\ OneEntry(db)
  <2>1. Committed(Now)
    BY ProcessFacts
  <2> QED
    BY <1>3, <1>4, <2>1, CommittedFacts, StateFields, RowFacts DEF Committed
<1>6. EntryOK(db[e])
  BY <1>5 DEF RowOK
<1>7. EntryOK(row) /\ row.id = db[e].id /\ KeyOf(row) = KeyOf(db[e]) /\ row.locationId = s.reg.new
  <2> DEFINE old == db[e]
  <2>1. EntryOK(old) /\ Would(Now, s)[e] = old
    BY <1>4, <1>6
  <2> SUFFICES EntryOK(row) /\ row.id = old.id /\ KeyOf(row) = KeyOf(old) /\
        row.locationId = s.reg.new
    OBVIOUS
  <2> HIDE DEF old
  <2> QED
    BY <1>2, <2>1, LedRow
<1>8. RowOK(e, row)
  BY <1>5, <1>7 DEF RowOK
<1>9. row # Absent
  <2>1. DOMAIN row = DOMAIN NewEntry
    BY <1>7 DEF EntryOK
  <2> QED
    BY <2>1 DEF NewEntry, Absent
<1>10. \A f \in RowsOf("entry") : f # e /\ db[f] # Absent => KeyOf(db[f]) # KeyOf(row)
  BY <1>4, <1>5, <1>7 DEF OneEntry
<1> QED
  BY <1>1, <1>2, <1>4, <1>7, <1>8, <1>9, <1>10

\* The entry that was found is updated.
LEMMA CompleteUpdateKeeps ==
  ASSUME TransactionInv, NEW p \in Process, CompleteUpdate(p)
  PROVE  TransactionInv'
<1> DEFINE s == proc[p]
           id == s.reg.entry.id
           e == <<"entry", id>>
           changes == ChangeEntryUpdatedAt("set", s.reg.now) ++ ChangeEntryLocation("set",
             s.reg.new)
           did == UpdateOne(p, "entry", id, changes)
           pc == IF did.result THEN "fence.lock" ELSE "rollback"
           reg == [location |-> s.reg.entry.locationId]
<1>1. s.pc = "complete.update"
  BY DEF CompleteUpdate, At
<1>2. Keeps(p, did, pc, reg)
  BY DEF CompleteUpdate, UpdateOneEntry
<1>3. /\ did = UpdateOne(p, "entry", id, changes) /\ "entry" \in Tables /\ s = proc[p]
      /\ e = <<"entry", s.reg.entry.id>> /\ reg = [location |-> s.reg.entry.locationId]
      /\ changes = ChangeEntryUpdatedAt("set", s.reg.now) ++ ChangeEntryLocation("set", s.reg.new)
      /\ pc \in {"fence.lock", "rollback"} /\ (pc = "fence.lock" => did.result)
  BY RowFacts
<1>4. DOMAIN reg = {"location"}
  OBVIOUS
<1> HIDE DEF did, changes, pc, id
<1>5. did.result <=> \/ Matching(Would(Now, proc[p]), "entry", ByID(id)) # {}
                     \/ Matching(View(p), "entry", ByID(id)) # {}
  BY <1>3, UpdateOneFacts
<1>6. PICK N : /\ Wrote(did, proc[p], N)
               /\ DOMAIN N = Matching(Would(Now, proc[p]), "entry", ByID(id))
               /\ did.waits = {} => Alone(p, DOMAIN N)
               /\ \A r \in DOMAIN N : /\ r \in RowsOf("entry") /\ r \in Rows
                                      /\ Would(Now, proc[p])[r] # Absent
                                      /\ N[r] = Changed(Would(Now, proc[p])[r], changes)
                                      /\ N[r] # Absent /\ "id" \in DOMAIN N[r]
  BY <1>3, UpdateOneFacts
<1> HIDE DEF s, reg, e
<1>7. Ours(s) /\ DOMAIN did.state = DOMAIN Idle
  BY <1>1, <1>6 DEF Ours, Wrote
<1>8. /\ UploadTaken(Now, s) /\ Committed(Now) /\ Shape(s)
  BY <1>3, ProcessFacts
<1>9. ASSUME Open(Now, s)
      PROVE  /\ \A r \in DOMAIN N : r = e
             /\ engine # "mysql" /\ did.result => DOMAIN N # {}
             /\ e \in RowsOf("entry")
  <2>1. Typed(Would(Now, s)) /\ \A r \in Rows : Would(Now, s)[r] # Absent =>
          RowOK(r, Would(Now, s)[r])
    BY <1>3, <1>9, WouldSound
  <2>2. \A r \in DOMAIN N : r = e
    <3> SUFFICES ASSUME NEW r \in DOMAIN N
                 PROVE  r = e
      OBVIOUS
    <3>1. r \in Matching(Would(Now, s), "entry", ByID(id)) /\ RowOK(r, Would(Now, s)[r])
      BY <1>3, <1>6, <2>1
    <3>2. Where("id", "EQ", id) \in ByID(id)
      BY DEF ByID
    <3>3. r = <<"entry", id>>
      BY <1>3, <3>1, <3>2, SelectedID
    <3> QED
      BY <3>3 DEF e
  <2>3. ASSUME engine # "mysql", did.result
        PROVE  DOMAIN N # {}
    <3>1. View(p) = Would(Now, s)
      BY <1>3, <2>3, StateFields DEF View, Snapshot, Would
    <3> QED
      BY <1>3, <1>5, <1>6, <2>3, <3>1
  <2>4. e \in RowsOf("entry")
    <3>1. s.job.kind = "complete" /\ CompleteOK(Now, s)
      BY <1>1, <1>3, <1>9, OpenParts, PlanParts DEF KindsOK, CompletePcs
    <3>2. s.reg.entry.id \in Entry
      BY <1>1, <3>1 DEF CompleteOK, EntryOK
    <3> QED
      BY <1>3, <3>2, RowFacts
  <2> QED
    BY <2>2, <2>3, <2>4
<1>10. ASSUME NEW t, Step(p, t), After(t, did.state, pc), Grown(t.reg, reg, s.reg), did.waits = {}
       PROVE  TransactionInv'
  <2>1. WritePlan(s, t, N)
    <3> SUFFICES ASSUME Open(Now, s), t.pc # "rollback", t.job = s.job, t.snap = s.snap,
                        t.shared = s.shared, Grown(t.writes, N, s.writes)
                 PROVE  WritesInv(Now, t) /\ WouldInv(Now, t) /\ PlanInv(Now, t)
      BY DEF WritePlan
    <3>1. t.pc = "fence.lock" /\ did.result
      BY <1>3, <1>10 DEF After
    <3>2. e \in RowsOf("entry") /\ \A r \in DOMAIN N : r = e
      BY <1>9
    <3>3. s.job.kind = "complete" /\ DOMAIN s.writes \cap RowsOf("entry") = {} /\ CompleteOK(Now, s)
      <4>1. s.job.kind = "complete" /\ CompleteOK(Now, s)
        BY <1>1, <1>3, OpenParts, PlanParts DEF KindsOK, CompletePcs
      <4> QED
        BY <1>1, <4>1 DEF CompleteOK
    <3>4. ASSUME e \in DOMAIN N
          PROVE  /\ N[e] # Absent /\ RowOK(e, N[e]) /\ N[e].locationId = s.reg.new
                 /\ KeyOf(N[e]) = KeyOf(db[e]) /\ db[e] # Absent
                 /\ \A f \in RowsOf("entry") : f # e /\ db[f] # Absent => KeyOf(db[f]) # KeyOf(N[e])
      <4> DEFINE row == N[e]
      <4>1. /\ Would(Now, s)[e] # Absent
            /\ row = Changed(Would(Now, s)[e],
                       ChangeEntryUpdatedAt("set", s.reg.now) ++ ChangeEntryLocation("set",
                         s.reg.new))
        BY <1>3, <1>6, <3>4
      <4> SUFFICES /\ row # Absent /\ RowOK(e, row) /\ row.locationId = s.reg.new
                   /\ KeyOf(row) = KeyOf(db[e]) /\ db[e] # Absent
                   /\ \A f \in RowsOf("entry") : f # e /\ db[f] # Absent =>
                        KeyOf(db[f]) # KeyOf(row)
        OBVIOUS
      <4>2. s = proc[p] /\ Open(Now, s) /\ s.pc = "complete.update"
        BY <1>1, <1>3
      <4> HIDE DEF row
      <4> QED
        BY <3>2, <4>1, <4>2, LedEntry, SMTT(30)
    <3>5. t.reg.new = s.reg.new /\ t.reg.upload = s.reg.upload
      <4>1. {"new", "upload"} \subseteq DOMAIN s.reg
        BY <1>1, <3>3 DEF CompleteOK
      <4> QED
        BY <1>4, <1>10, <4>1 DEF Grown
    <3>6. PlanInv(Now, t)
      <4>1. \A r \in DOMAIN N : r \in RowsOf("entry")
        BY <1>6
      <4>2. engine # "mysql" => \E f \in DOMAIN N : N[f] # Absent /\ N[f].locationId = s.reg.new
        BY <1>9, <3>1, <3>2, <3>4
      <4> QED
        BY <1>1, <1>3, <1>10, <3>1, <3>3, <4>1, <4>2, UpdatePlan
    <3>7. WouldInv(Now, t)
      BY <1>1, <1>3, <3>1, <3>2, <3>3, <3>4, <3>5, LedStores
    <3>8. WritesInv(Now, t)
      <4>1. WritesInv(Now, s) /\ Pending(s) = {}
        BY <1>1, <1>3, OpenParts DEF Pending
      <4>2. \A r \in DOMAIN N : r = e
        BY <3>2
      <4>3. e \in DOMAIN N => /\ RowOK(e, N[e]) /\ N[e].locationId = s.reg.new
                              /\ Now.db[e] # Absent => KeyOf(N[e]) = KeyOf(Now.db[e])
                              /\ Now.db[e] = Absent => KeyOf(N[e]) = KeyOf(s.reg.upload)
        BY <3>4, StateFields
      <4>4. s.shared \subseteq t.shared
        OBVIOUS
      <4> QED
        BY <1>8, <3>2, <3>3, <3>5, <4>1, <4>2, <4>3, <4>4, EntryWritten
    <3> QED
      BY <3>6, <3>7, <3>8
  <2>2. Alone(p, DOMAIN N) /\ \A q \in Process \ {p} : \A r \in proc[q].shared \cap DOMAIN N :
          N[r] # Absent
    BY <1>6, <1>10
  <2>3. /\ \A r \in DOMAIN N : r \in Rows /\ Would(Now, s)[r] # Absent
        /\ \A r \in DOMAIN N : N[r] # Absent => "id" \in DOMAIN N[r]
        /\ \A r \in DOMAIN N : r \notin RowsOf("upload")
    BY <1>3, <1>6, TablesApart, RowFacts
  <2>4. /\ \A r \in DOMAIN N : N[r] # Absent /\ r \in RowsOf("upload") =>
             KeyOf(N[r]) = KeyOf(Would(Now, s)[r])
        /\ DOMAIN N \cap RowsOf("upload") = {} /\ pc \in CompleteStays
    BY <1>3, <2>3 DEF CompleteStays
  <2>5. s.pc \notin {"complete", "commit"} /\ pc \notin {"idle", "complete"}
    BY <1>1, <1>3
  <2>6. Wrote(did, s, N)
    BY <1>3, <1>6
  <2> QED
    BY <1>3, <1>7, <1>10, <2>1, <2>2, <2>3, <2>4, <2>5, <2>6, WritesTo
<1>11. did.state.reg = s.reg
  BY <1>3, <1>6 DEF Wrote
<1> QED
  BY <1>2, <1>7, <1>10, <1>11, KeepsFacts

-----------------------------------------------------------------------------
(* Statements that insert a row.                                             *)

LEMMA FreeFacts ==
  ASSUME NEW table \in Tables, Free(table) # {}, NEW id, id = FreeID(table), NEW r,
         r = <<table, id>>
  PROVE  /\ r \in RowsOf(table) /\ r \in Rows /\ r[1] = table /\ r[2] = id /\ id \in Ids[table]
         /\ r \notin issued /\ \A q \in Process : r \notin DOMAIN proc[q].writes
<1>1. PICK x \in Free(table) : x = CHOOSE f \in Free(table) : TRUE
  OBVIOUS
<1>2. x \in RowsOf(table) /\ x \notin issued /\ \A q \in Process : x \notin DOMAIN proc[q].writes
  BY DEF Free
<1>3. x[1] = table /\ x[2] \in Ids[table] /\ x = <<table, x[2]>> /\ x \in Rows
  BY <1>2, RowFacts
<1>4. x[2] = id
  BY <1>1 DEF FreeID
<1>5. x = r
  BY <1>3, <1>4
<1> QED
  BY <1>2, <1>3, <1>5

(* An insert that went on: the row is added, and holds its parents.           *)
Added(did, s, r, row) ==
  /\ DOMAIN did.state = DOMAIN Idle /\ did.state.pc = s.pc /\ did.state.job = s.job
  /\ did.state.reg = s.reg /\ did.state.snap = s.snap
  /\ did.state.shared = s.shared \cup Parent(r, row)
  /\ \E N : DOMAIN N = {r} /\ N[r] = row /\ Grown(did.state.writes, N, s.writes)

\* An insert waits, fails, or adds its row.
LEMMA CreateFacts ==
  ASSUME TransactionInv, NEW p \in Process, NEW table \in Tables, NEW id, NEW values,
         NEW did, did = Create(p, table, id, values),
         NEW r, r = <<table, id>>, NEW row, row = Inserted(table, id, values)
  PROVE  /\ Added(did, proc[p], r, row) /\ did.id = id /\ did.waits = Inserting(p, r, row)
         /\ did.result =>
              /\ \A parent \in Parent(r, row) : Would(Now, proc[p])[parent] # Absent
              /\ Duplicates(Would(Now, proc[p]), r, row) = {}
<1> DEFINE N == [x \in {r} |-> row]
           more == Written(p, N)
<1>1. Current(p) = Would(Now, proc[p])
  BY CurrentWould
<1>2. /\ did.state = [more EXCEPT !.shared = @ \cup Parent(r, row)]
      /\ did.id = id /\ did.waits = Inserting(p, r, row)
      /\ did.result => /\ \A parent \in Parent(r, row) : Current(p)[parent] # Absent
                       /\ Duplicates(Current(p), r, row) = {}
  BY DEF Create
<1>3. DOMAIN N = {r} /\ N[r] = row
  OBVIOUS
<1>4. DOMAIN proc[p] = DOMAIN Idle
  BY ProcessFacts
<1>5. /\ DOMAIN more = DOMAIN Idle /\ more.pc = proc[p].pc /\ more.job = proc[p].job
      /\ more.reg = proc[p].reg /\ more.snap = proc[p].snap /\ more.shared = proc[p].shared
      /\ more.writes = N ++ proc[p].writes
  BY <1>4, IdleFields DEF Written
<1> HIDE DEF N, more
<1>6. /\ DOMAIN did.state = DOMAIN Idle /\ did.state.pc = proc[p].pc /\ did.state.job = proc[p].job
      /\ did.state.reg = proc[p].reg /\ did.state.snap = proc[p].snap
      /\ did.state.shared = proc[p].shared \cup Parent(r, row)
      /\ did.state.writes = N ++ proc[p].writes
  BY <1>2, <1>5, IdleFields
<1>7. Grown(did.state.writes, N, proc[p].writes)
  BY <1>6, GrownFacts
<1>8. Added(did, proc[p], r, row)
  BY <1>3, <1>6, <1>7 DEF Added
<1> QED
  BY <1>1, <1>2, <1>8

(* What an insert that need not wait knows of the others.                     *)
Twinless(p, row) ==
  \A q \in Process \ {p} : \A v \in RowsOf("upload") :
    Puts(proc[q], v) => row.tupleHash = Null \/ proc[q].writes[v].tupleHash # row.tupleHash

LEMMA InsertingFacts ==
  ASSUME TransactionInv, NEW p \in Process, NEW r, NEW row, Inserting(p, r, row) = {},
         \A q \in Process : r \notin DOMAIN proc[q].writes
  PROVE  /\ \A q \in Process \ {p} : \A x \in Parent(r, row) \cap DOMAIN proc[q].writes :
              proc[q].writes[x] # Absent
         /\ r[1] = "upload" => Twinless(p, row)
<1> DEFINE parents == Parent(r, row)
           twins == UNION {Duplicates(proc[q].writes ++ db, r, row) : q \in Process}
                      \cup Duplicates(db, r, row)
<1>1. /\ Writers(p, twins) = {}
      /\ (IF engine = "mysql" THEN Writers(p, parents) ELSE Deleters(p, parents)) = {}
  BY DEF Inserting
<1>2. \A q \in Process \ {p} : \A x \in parents \cap DOMAIN proc[q].writes :
        proc[q].writes[x] # Absent
  <2> HIDE DEF parents, twins
  <2>1. CASE engine = "mysql"
    BY <1>1, <2>1 DEF Writers, Others
  <2>2. CASE engine # "mysql"
    BY <1>1, <2>2 DEF Deleters, Others
  <2> QED
    BY <2>1, <2>2
<1>3. ASSUME r[1] = "upload", row.tupleHash # Null, NEW q \in Process \ {p},
             NEW v \in RowsOf("upload"), Puts(proc[q], v),
             proc[q].writes[v].tupleHash = row.tupleHash
      PROVE  FALSE
  <2> DEFINE store == proc[q].writes ++ db
             dups == Duplicates(store, r, row)
  <2>1. v \in DOMAIN proc[q].writes /\ proc[q].writes[v] # Absent /\ v # r
    BY <1>3 DEF Puts
  <2>1a. Grown(store, proc[q].writes, db)
    BY GrownFacts
  <2> HIDE DEF store
  <2>2. store[v] = proc[q].writes[v]
    BY <2>1, <2>1a DEF Grown
  <2>3. v \in dups
    BY <1>3, <2>1, <2>2 DEF Duplicates
  <2> HIDE DEF dups
  <2>4. v \in twins
    BY <2>3 DEF dups, store
  <2> HIDE DEF twins
  <2>5. q \in Writers(p, twins)
    BY <2>1, <2>4 DEF Writers, Others
  <2> QED
    BY <1>1, <2>5
<1>4. r[1] = "upload" => Twinless(p, row)
  BY <1>3 DEF Twinless
<1> QED
  BY <1>2, <1>4

-----------------------------------------------------------------------------
(* A row that nobody has, and that only this process writes.                 *)
Unclaimed(r) == /\ r \in Rows /\ r \notin issued
                /\ \A q \in Process : r \notin DOMAIN proc[q].writes
Unrivalled(p, r, row) ==
  r \in RowsOf("upload") => \A q \in Process \ {p} : \A v \in RowsOf("upload") :
    Open(Now, proc[q]) /\ Adds(Now, proc[q], v) => KeyOf(row) # KeyOf(proc[q].writes[v])
Unremoved(p, parents) ==
  \A q \in Process \ {p} : \A x \in parents \cap DOMAIN proc[q].writes : proc[q].writes[x] # Absent

\* A step that adds one row.
LEMMA InsertStep ==
  ASSUME TransactionInv, NEW p \in Process, NEW s, s = proc[p], NEW t, Step(p, t),
         DOMAIN t = DOMAIN Idle, t.job = s.job, t.pc # "idle", Ours(s),
         NEW r, NEW row, Unclaimed(r), row # Absent, "id" \in DOMAIN row,
         NEW N, DOMAIN N = {r}, N[r] = row, Grown(t.writes, N, s.writes),
         NEW parents, t.shared = s.shared \cup parents, Unremoved(p, parents),
         Unrivalled(p, r, row), UploadTaken(Now, t), OpenInv(Now, t)
  PROVE  TransactionInv'
<1> DEFINE g == Now
           v == s.writes
           w == t.writes
<1>1. /\ Shape(s) /\ Fresh(g, s)
      /\ \A q \in Process \ {p} : /\ Apart(s, proc[q]) /\ Apart(proc[q], s)
                                  /\ Rivals(g, s, proc[q])
  BY ProcessFacts
<1>2. /\ DOMAIN w = {r} \cup DOMAIN v /\ w[r] = row
      /\ \A x \in DOMAIN v : x # r => w[x] = v[x]
  BY DEF Grown
<1>3. r \notin DOMAIN v /\ r \in Rows /\ r \notin g.issued
  BY StateFields DEF Unclaimed
<1>4. Shape(t)
  BY <1>1, <1>2, <1>3 DEF Shape
<1>5. Fresh(g, t)
  <2>1. s.pc # "rollback"
    BY DEF Ours
  <2> QED
    BY <1>1, <1>2, <1>3, <2>1 DEF Fresh
<1>6. Idles(t)
  BY DEF Idles
<1>7. ASSUME NEW q \in Process \ {p}
      PROVE  Apart(t, proc[q]) /\ Apart(proc[q], t) /\ Rivals(g, t, proc[q])
  <2>1. r \notin DOMAIN proc[q].writes /\ Apart(s, proc[q]) /\ Apart(proc[q], s)
        /\ Rivals(g, s, proc[q])
    BY <1>1, <1>7 DEF Unclaimed
  <2>2. DOMAIN w \cap DOMAIN proc[q].writes = {}
    BY <1>2, <2>1 DEF Apart
  <2>3. \A x \in t.shared \cap DOMAIN proc[q].writes : proc[q].writes[x] # Absent
    BY <1>7, <2>1 DEF Apart, Unremoved
  <2>4. \A x \in proc[q].shared \cap DOMAIN w : w[x] # Absent
    BY <1>2, <2>1 DEF Apart
  <2>5. Rivals(g, t, proc[q])
    <3> SUFFICES ASSUME Open(g, t), Open(g, proc[q]),
                        NEW x \in RowsOf("upload"), NEW y \in RowsOf("upload"),
                        Adds(g, t, x), Adds(g, proc[q], y)
                 PROVE  KeyOf(w[x]) # KeyOf(proc[q].writes[y])
      BY DEF Rivals
    <3>1. CASE x = r
      BY <1>2, <1>7, <3>1 DEF Unrivalled
    <3>2. CASE x # r
      <4>1. Adds(g, s, x) /\ w[x] = v[x]
        BY <1>2, <3>2 DEF Adds, Puts
      <4>2. Open(g, s)
        <5>1. Entitled(g, s)
          BY DEF Open, Entitled, UploadRow
        <5> QED
          BY <5>1 DEF Open
      <4> QED
        BY <2>1, <4>1, <4>2 DEF Rivals
    <3> QED
      BY <3>1, <3>2
  <2> QED
    BY <2>2, <2>3, <2>4, <2>5 DEF Apart
<1> QED
  BY <1>4, <1>5, <1>6, <1>7, StepKeeps

(* What remains to be shown of an insert.                                    *)
InsertPlan(s, t, r, row) ==
  (/\ Open(Now, s) /\ t.pc # "rollback" /\ t.job = s.job /\ t.snap = s.snap
   /\ t.shared = s.shared \cup Parent(r, row)
   /\ \E N : DOMAIN N = {r} /\ N[r] = row /\ Grown(t.writes, N, s.writes))
    => WritesInv(Now, t) /\ WouldInv(Now, t) /\ PlanInv(Now, t)

LEMMA InsertsTo ==
  ASSUME TransactionInv, NEW p \in Process, NEW s, s = proc[p], NEW did, NEW r, NEW row,
         Added(did, s, r, row), did.waits = {}, did.waits = Inserting(p, r, row), Unclaimed(r),
         row # Absent, "id" \in DOMAIN row, NEW pc, NEW t, Step(p, t), After(t, did.state, pc),
         Ours(s), s.pc # "commit", pc # "idle",
         s.job.kind = "complete" => pc \in CompleteStays /\ r \notin RowsOf("upload"),
         Unrivalled(p, r, row), InsertPlan(s, t, r, row)
  PROVE  TransactionInv'
<1>1. /\ DOMAIN t = DOMAIN Idle /\ t.pc = pc /\ t.job = s.job /\ t.snap = s.snap
      /\ t.shared = s.shared \cup Parent(r, row)
      /\ \E N : DOMAIN N = {r} /\ N[r] = row /\ Grown(t.writes, N, s.writes)
  BY DEF After, Added
<1>2. PICK N : DOMAIN N = {r} /\ N[r] = row /\ Grown(t.writes, N, s.writes)
  BY <1>1
<1>3. Unremoved(p, Parent(r, row))
  <2>1. Inserting(p, r, row) = {} /\ \A q \in Process : r \notin DOMAIN proc[q].writes
    BY DEF Unclaimed
  <2> QED
    BY <2>1, InsertingFacts DEF Unremoved
<1>4. UploadTaken(Now, t)
  <2>1. UploadTaken(Now, s)
    BY ProcessFacts
  <2>2. s.job.kind = "complete" => DOMAIN t.writes \cap RowsOf("upload") = {}
    <3> SUFFICES ASSUME s.job.kind = "complete"
                 PROVE  DOMAIN t.writes \cap RowsOf("upload") = {}
      OBVIOUS
    <3>1. DOMAIN s.writes \cap RowsOf("upload") = {}
      BY <2>1 DEF UploadTaken
    <3> QED
      BY <1>2, <3>1 DEF Grown
  <2> QED
    BY <1>1, <2>1, <2>2, TakenOn
<1>5. OpenInv(Now, t)
  <2> SUFFICES ASSUME Open(Now, t)
               PROVE  WritesInv(Now, t) /\ WouldInv(Now, t) /\ PlanInv(Now, t)
    BY DEF OpenInv
  <2>1. Open(Now, s)
    BY <1>1, OpenBack
  <2>2. t.pc # "rollback"
    BY DEF Open, Ours
  <2> QED
    BY <1>1, <2>1, <2>2 DEF InsertPlan
<1> QED
  BY <1>1, <1>2, <1>3, <1>4, <1>5, InsertStep

(* An insert that fails.                                                     *)
LEMMA NoPlan ==
  ASSUME NEW s, NEW t, NEW r, NEW row, t.pc = "rollback"
  PROVE  InsertPlan(s, t, r, row)
BY DEF InsertPlan

-----------------------------------------------------------------------------
(* What a row that is not an entry must satisfy to be inserted.               *)
InsertDuty(g, s, t, r, row) ==
  /\ RowOK(r, row) /\ row # Absent
  /\ r \in RowsOf("location") => t.job.kind = "complete" /\ r = NewRow(t)
  /\ r \in RowsOf("lease") =>
       /\ t.job.kind = "acquire" /\ LeasedBy(row) \in t.shared
       /\ row.scope = "parts" => Admissible(g, t, LeasedBy(row))
       /\ row.expiresAt <= g.clock + Lasts
  /\ r \in RowsOf("deletion") => UploadOf(row.folderName) \in g.issued
  /\ \A x \in Pending(s) : g.db[x] # Absent =>
       r \in RowsOf("deletion") /\ row.folderName = g.db[x].folderName

\* The writes with the row.
LEMMA InsertWrites ==
  ASSUME NEW g, NEW s, NEW t, NEW r \in Rows, NEW row, NEW N, DOMAIN N = {r}, N[r] = row,
         Grown(t.writes, N, s.writes), WritesInv(g, s), r \notin RowsOf("entry"),
         r \notin DOMAIN s.writes, g.db[r] = Absent, t.job = s.job,
         DOMAIN s.writes = {} \/ Steady(s, t), s.shared \subseteq t.shared,
         InsertDuty(g, s, t, r, row)
  PROVE  WritesInv(g, t)
<1>1. /\ DOMAIN t.writes = DOMAIN s.writes \cup {r} /\ t.writes[r] = row
      /\ \A x \in DOMAIN s.writes : t.writes[x] = s.writes[x]
  BY DEF Grown
<1>2. /\ \A x : Puts(s, x) => Puts(t, x) /\ t.writes[x] = s.writes[x]
      /\ \A x : Adds(g, s, x) => Adds(g, t, x)
      /\ \A x : Puts(t, x) /\ x # r => Puts(s, x)
      /\ \A x : Adds(g, t, x) /\ x # r => Adds(g, s, x)
  BY <1>1 DEF Puts, Adds
<1>3. \A x \in DOMAIN s.writes : Steady(s, t)
  OBVIOUS
<1>4. RowsOK(g, t)
  BY <1>1 DEF WritesInv, RowsOK, InsertDuty
<1>5. EntriesOK(g, t)
  <2> SUFFICES ASSUME NEW e \in RowsOf("entry"), Puts(t, e)
               PROVE  /\ t.job.kind = "complete" /\ t.writes[e].locationId = t.reg.new
                      /\ Adds(g, t, e) => KeyOf(t.writes[e]) = KeyOf(t.reg.upload)
    BY DEF EntriesOK
  <2>1. Puts(s, e) /\ t.writes[e] = s.writes[e] /\ (Adds(g, t, e) => Adds(g, s, e)) /\
          e \in DOMAIN s.writes
    BY <1>2 DEF Puts
  <2>2. Steady(s, t)
    BY <1>3, <2>1
  <2> QED
    BY <2>1, <2>2 DEF WritesInv, EntriesOK, Steady
<1>6. InsertsOK(g, t)
  <2>1. ASSUME NEW l \in RowsOf("location"), Adds(g, t, l)
        PROVE  t.job.kind = "complete" /\ l = NewRow(t)
    <3>1. CASE l = r
      BY <3>1 DEF InsertDuty
    <3>2. CASE l # r
      <4>1. Adds(g, s, l) /\ l \in DOMAIN s.writes
        BY <1>2, <2>1, <3>2 DEF Adds, Puts
      <4>2. Steady(s, t) /\ s.job.kind = "complete" /\ l = NewRow(s)
        BY <1>3, <4>1 DEF WritesInv, InsertsOK
      <4> QED
        BY <4>2 DEF Steady, NewRow
    <3> QED
      BY <3>1, <3>2
  <2>2. ASSUME NEW d \in RowsOf("lease"), Adds(g, t, d)
        PROVE  /\ t.job.kind = "acquire" /\ LeasedBy(t.writes[d]) \in t.shared
               /\ t.writes[d].scope = "parts" => Admissible(g, t, LeasedBy(t.writes[d]))
    <3>1. CASE d = r
      BY <1>1, <3>1 DEF InsertDuty
    <3>2. CASE d # r
      <4>1. Adds(g, s, d) /\ t.writes[d] = s.writes[d]
        BY <1>2, <2>2, <3>2 DEF Adds
      <4>2. /\ s.job.kind = "acquire" /\ LeasedBy(s.writes[d]) \in s.shared
            /\ s.writes[d].scope = "parts" => Admissible(g, s, LeasedBy(s.writes[d]))
        BY <4>1 DEF WritesInv, InsertsOK
      <4>3. \A l : Admissible(g, s, l) => Admissible(g, t, l)
        BY <1>2 DEF Admissible
      <4> QED
        BY <4>1, <4>2, <4>3
    <3> QED
      BY <3>1, <3>2
  <2>3. ASSUME NEW x \in RowsOf("deletion"), Puts(t, x)
        PROVE  UploadOf(t.writes[x].folderName) \in g.issued
    BY <1>1, <1>2, <2>3 DEF WritesInv, InsertsOK, InsertDuty
  <2> QED
    BY <2>1, <2>2, <2>3 DEF InsertsOK
<1>7. DropsOK(g, t)
  <2> SUFFICES ASSUME NEW x \in Owners \ Pending(t), x \in DOMAIN t.writes, t.writes[x] = Absent,
                      g.db[x] # Absent
               PROVE  \E y \in Owners \cup RowsOf("deletion") :
                        Puts(t, y) /\ t.writes[y].folderName = g.db[x].folderName
    BY DEF DropsOK
  <2>1. x \in DOMAIN s.writes /\ s.writes[x] = Absent
    BY <1>1
  <2>2. CASE x \in Pending(s)
    <3>1. r \in RowsOf("deletion") /\ row.folderName = g.db[x].folderName /\ row # Absent
      BY <2>2 DEF InsertDuty
    <3> QED
      BY <1>1, <3>1 DEF Puts
  <2>3. CASE x \notin Pending(s)
    <3>1. PICK y \in Owners \cup RowsOf("deletion") :
            Puts(s, y) /\ s.writes[y].folderName = g.db[x].folderName
      BY <2>1, <2>3 DEF WritesInv, DropsOK
    <3> QED
      BY <1>2, <3>1
  <2> QED
    BY <2>2, <2>3
<1>8. TimesOK(g, t)
  BY <1>1, <1>2 DEF WritesInv, TimesOK, InsertDuty
<1> QED
  BY <1>4, <1>5, <1>6, <1>7, <1>8 DEF WritesInv

-----------------------------------------------------------------------------
(* The tables after a row that is not an entry was inserted.                 *)

RowAdded(S, T, r, row) ==
  /\ Typed(S) /\ DOMAIN T = Rows /\ r \in Rows /\ r \notin RowsOf("entry")
  /\ S[r] = Absent /\ T[r] = row /\ row # Absent /\ RowOK(r, row)
  /\ \A x \in Rows : x # r => T[x] = S[x]
LeaseFits(S, r, row) ==
  r \in RowsOf("lease") => /\ S[LeasedBy(row)] # Absent
                           /\ row.scope = "parts" => S[LeasedBy(row)].partsDeletedAt = Null
UploadFits(S, r, row) ==
  r \in RowsOf("upload") => \A u \in RowsOf("upload") : S[u] # Absent => KeyOf(S[u]) # KeyOf(row)
OwnerFits(S, r, row, pair) ==
  r \in Owners => \A o \in Owners : S[o] # Absent /\ ~({r, o} \subseteq pair) =>
    S[o].folderName # row.folderName
QueueFits(S, r, row, spared) ==
  /\ r \in Owners => \A x \in RowsOf("deletion") : S[x] # Absent =>
       S[x].folderName # row.folderName
  /\ r \in RowsOf("deletion") /\ row.folderName[2] = "" => \A o \in Owners \ spared :
       S[o] # Absent => S[o].folderName # row.folderName

\* The tables with the row.
LEMMA RowAddedFacts ==
  ASSUME NEW S, NEW T, NEW r, NEW row, RowAdded(S, T, r, row)
  PROVE  /\ Typed(T)
         /\ \A e \in RowsOf("entry") : T[e] = S[e]
         /\ \A x \in Rows : S[x] # Absent => T[x] = S[x]
         /\ \A x \in Rows : T[x] # Absent => x = r \/ T[x] = S[x]
         /\ \A e \in RowsOf("entry") : S[e] # Absent => LocationOf(S[e]) \in RowsOf("location")
         /\ \A d \in RowsOf("lease") : S[d] # Absent => LeasedBy(S[d]) \in RowsOf("location")
<1>1. Typed(T)
  BY DEF RowAdded, Typed
<1>2. \A e \in RowsOf("entry") : T[e] = S[e]
  BY TableRows DEF RowAdded
<1>3. \A x \in Rows : (S[x] # Absent => T[x] = S[x]) /\ (T[x] # Absent => x = r \/ T[x] = S[x])
  BY DEF RowAdded
<1>4. \A e \in RowsOf("entry") : S[e] # Absent => LocationOf(S[e]) \in RowsOf("location")
  <2>1. Typed(S)
    BY DEF RowAdded
  <2> QED
    BY <2>1, TableRows, TypedRow, RowKinds, Referred
<1>5. \A d \in RowsOf("lease") : S[d] # Absent => LeasedBy(S[d]) \in RowsOf("location")
  <2>1. Typed(S)
    BY DEF RowAdded
  <2> QED
    BY <2>1, TableRows, TypedRow, RowKinds, Referred
<1> QED
  BY <1>1, <1>2, <1>3, <1>4, <1>5

\* They are sound where the row fits.
LEMMA StoreAdded ==
  ASSUME NEW S, NEW T, NEW r, NEW row, RowAdded(S, T, r, row), NEW pair, NEW spared,
         Linked(S), Leased(S), OneEntry(S), OneUpload(S), OneOwner(S, {}) \/ OneOwner(S, pair),
         QueueFree(S, {}) \/ QueueFree(S, spared),
         LeaseFits(S, r, row), UploadFits(S, r, row), OwnerFits(S, r, row, pair),
         QueueFits(S, r, row, spared)
  PROVE  /\ Linked(T) /\ Leased(T) /\ OneEntry(T) /\ OneUpload(T)
         /\ OneOwner(T, pair) /\ QueueFree(T, spared)
<1> USE RowAddedFacts
<1>1. Linked(T)
  BY TableRows DEF Linked
<1>2. Leased(T)
  <2> SUFFICES ASSUME NEW d \in RowsOf("lease"), T[d] # Absent
               PROVE  T[LeasedBy(T[d])] # Absent
    BY DEF Leased
  <2>1. CASE d = r
    <3>1. S[LeasedBy(row)] # Absent /\ T[d] = row
      BY <2>1 DEF LeaseFits, RowAdded
    <3>2. LeasedBy(row) \in Rows
      BY <2>1, RowKinds, Referred, TableRows DEF RowAdded
    <3> QED
      BY <3>1, <3>2
  <2>2. CASE d # r
    <3>1. T[d] = S[d]
      BY <2>2, TableRows DEF RowAdded
    <3> QED
      BY <3>1, TableRows DEF Leased
  <2> QED
    BY <2>1, <2>2
<1>3. OneEntry(T)
  BY DEF OneEntry
<1>4. OneUpload(T)
  <2> SUFFICES ASSUME NEW u \in RowsOf("upload"), NEW v \in RowsOf("upload"),
                      T[u] # Absent, T[v] # Absent, u # v
               PROVE  KeyOf(T[u]) # KeyOf(T[v])
    BY DEF OneUpload
  <2>1. CASE u = r
    BY <2>1, TableRows DEF UploadFits, RowAdded
  <2>2. CASE v = r
    BY <2>2, TableRows DEF UploadFits, RowAdded
  <2>3. CASE u # r /\ v # r
    BY <2>3, TableRows DEF OneUpload, RowAdded
  <2> QED
    BY <2>1, <2>2, <2>3
<1>5. OneOwner(T, pair)
  <2> SUFFICES ASSUME NEW u \in Owners, NEW v \in Owners,
                      T[u] # Absent, T[v] # Absent, u # v, ~({u, v} \subseteq pair)
               PROVE  T[u].folderName # T[v].folderName
    BY DEF OneOwner
  <2>1. CASE u = r
    <3>1. T[v] = S[v] /\ T[u] = row
      BY <2>1, TableRows DEF RowAdded
    <3>2. S[v].folderName # row.folderName
      BY <2>1, <3>1 DEF OwnerFits
    <3> QED
      BY <3>1, <3>2
  <2>2. CASE v = r
    <3>1. T[u] = S[u] /\ T[v] = row
      BY <2>2, TableRows DEF RowAdded
    <3>2. ~({r, u} \subseteq pair)
      BY <2>2
    <3>3. S[u].folderName # row.folderName
      BY <2>2, <3>1, <3>2 DEF OwnerFits
    <3> QED
      BY <3>1, <3>3
  <2>3. CASE u # r /\ v # r
    <3>1. T[u] = S[u] /\ T[v] = S[v]
      BY <2>3, TableRows DEF RowAdded
    <3> QED
      BY <3>1 DEF OneOwner
  <2> QED
    BY <2>1, <2>2, <2>3
<1>6. QueueFree(T, spared)
  <2> SUFFICES ASSUME NEW x \in RowsOf("deletion"), NEW o \in Owners \ spared,
                      T[x] # Absent, T[o] # Absent, T[x].folderName[2] = ""
               PROVE  T[x].folderName # T[o].folderName
    BY DEF QueueFree
  <2>0. x \in Rows /\ o \in Rows /\ (x = r => o # r)
    <3>1. x \in Rows /\ o \in Rows /\ o \in RowsOf("upload") \cup RowsOf("location")
      BY TableRows
    <3>2. x[1] = "deletion" /\ o[1] # "deletion"
      BY <3>1, RowFacts
    <3> QED
      BY <3>1, <3>2
  <2>1. CASE x = r
    <3>1. T[x] = row /\ T[o] = S[o]
      BY <2>0, <2>1 DEF RowAdded
    <3> QED
      BY <2>1, <3>1 DEF QueueFits
  <2>2. CASE o = r
    <3>1. T[o] = row /\ T[x] = S[x]
      BY <2>0, <2>2 DEF RowAdded
    <3> QED
      BY <2>2, <3>1 DEF QueueFits
  <2>3. CASE x # r /\ o # r
    <3>1. T[x] = S[x] /\ T[o] = S[o]
      BY <2>0, <2>3 DEF RowAdded
    <3> QED
      BY <3>1, ZenonT(60) DEF QueueFree
  <2> QED
    BY <2>1, <2>2, <2>3
<1> QED
  BY <1>1, <1>2, <1>3, <1>4, <1>5, <1>6

\* Claimed parts have no reader beside it.
LEMMA ClaimedAdded ==
  ASSUME NEW S, NEW T, NEW r, NEW row, RowAdded(S, T, r, row), Claimed(S), Leased(S),
         LeaseFits(S, r, row),
         r \in RowsOf("location") => row.partsDeletedAt = Null
  PROVE  Claimed(T)
<1> SUFFICES ASSUME NEW l \in RowsOf("location"), T[l] # Absent, T[l].partsDeletedAt # Null,
                    NEW d \in RowsOf("lease"), PartsLease(T, d, l)
             PROVE  FALSE
  BY DEF Claimed, Unread
<1>1. l # r /\ T[l] = S[l]
  BY TableRows DEF RowAdded
<1>2. CASE d = r
  <2>1. T[d] = row /\ row.scope = "parts" /\ LeasedBy(row) = l
    BY <1>2 DEF PartsLease, RowAdded
  <2> QED
    BY <1>1, <1>2, <2>1 DEF LeaseFits
<1>3. CASE d # r
  <2>1. T[d] = S[d]
    BY <1>3, TableRows DEF RowAdded
  <2>2. PartsLease(S, d, l)
    BY <2>1 DEF PartsLease
  <2> QED
    BY <1>1, <2>2 DEF Claimed, Unread
<1> QED
  BY <1>2, <1>3

-----------------------------------------------------------------------------
(* What an insert of a row that is not an entry makes of an open transaction. *)
Fits(s, t, r, row) ==
  /\ InsertDuty(Now, s, t, r, row) /\ LeaseFits(Would(Now, s), r, row)
  /\ UploadFits(Would(Now, s), r, row) /\ OwnerFits(Would(Now, s), r, row, Pair(t))
  /\ QueueFits(Would(Now, s), r, row, Spared(t))
  /\ r \in RowsOf("location") => row.partsDeletedAt = Null

LEMMA UnclaimedFacts ==
  ASSUME TransactionInv, NEW p \in Process, NEW s, s = proc[p], NEW r, Unclaimed(r)
  PROVE  r \in Rows /\ db[r] = Absent /\ r \notin DOMAIN s.writes /\ Would(Now, s)[r] = Absent
<1>1. r \in Rows /\ r \notin issued /\ r \notin DOMAIN s.writes
  BY DEF Unclaimed
<1>2. db[r] = Absent
  <2>1. Committed(Now)
    BY ProcessFacts
  <2> QED
    BY <1>1, <2>1, CommittedFacts, StateFields
<1>3. Would(Now, s)[r] = db[r]
  BY <1>1, Unwritten
<1> QED
  BY <1>1, <1>2, <1>3

\* An insert keeps the invariant of its transaction.
LEMMA InsertKeeps ==
  ASSUME TransactionInv, NEW p \in Process, NEW s, s = proc[p], Open(Now, s), NEW t, NEW r, NEW row,
         Unclaimed(r), r \notin RowsOf("entry"), t.job = s.job, s.shared \subseteq t.shared,
         \E N : DOMAIN N = {r} /\ N[r] = row /\ Grown(t.writes, N, s.writes),
         DOMAIN s.writes = {} \/ Steady(s, t), Fits(s, t, r, row),
         Pair(s) = {} \/ Pair(s) = Pair(t), Spared(s) = {}
  PROVE  WritesInv(Now, t) /\ WouldInv(Now, t)
<1> DEFINE S == Would(Now, s)
           T == Would(Now, t)
           pair == Pair(t)
           spared == Spared(t)
<1>1. PICK N : DOMAIN N = {r} /\ N[r] = row /\ Grown(t.writes, N, s.writes)
  OBVIOUS
<1>2. r \in Rows /\ db[r] = Absent /\ r \notin DOMAIN s.writes /\ S[r] = Absent
  BY UnclaimedFacts
<1>3. InsertDuty(Now, s, t, r, row)
  BY DEF Fits
<1>4. WritesInv(Now, s) /\ WouldInv(Now, s)
  BY OpenParts
<1>5. WritesInv(Now, t)
  <2>1. Now.db[r] = Absent
    BY <1>2, StateFields
  <2> QED
    BY <1>1, <1>2, <1>3, <1>4, <2>1, InsertWrites
<1>6. Grown(T, N, S) /\ Typed(S)
  BY <1>1, WouldMore, WouldSound
<1>7. /\ Linked(S) /\ Leased(S) /\ OneEntry(S) /\ OneUpload(S)
      /\ OneOwner(S, {}) \/ OneOwner(S, pair)
      /\ QueueFree(S, {})
      /\ Now.engine # "mysql" => Claimed(S)
  BY <1>4 DEF WouldInv
<1>8. /\ LeaseFits(S, r, row) /\ UploadFits(S, r, row) /\ OwnerFits(S, r, row, pair)
      /\ QueueFits(S, r, row, spared) /\ (r \in RowsOf("location") => row.partsDeletedAt = Null)
  BY DEF Fits
<1> SUFFICES /\ Linked(T) /\ Leased(T) /\ OneEntry(T) /\ OneUpload(T)
             /\ OneOwner(T, pair) /\ QueueFree(T, spared)
             /\ Now.engine # "mysql" => Claimed(T)
  BY <1>5 DEF WouldInv
<1> HIDE DEF S, T, pair, spared
<1>9. RowAdded(S, T, r, row)
  <2>1. row # Absent /\ RowOK(r, row)
    BY <1>3 DEF InsertDuty
  <2> QED
    BY <1>1, <1>2, <1>6, <2>1 DEF RowAdded, Typed, Grown
<1>10. /\ Linked(T) /\ Leased(T) /\ OneEntry(T) /\ OneUpload(T)
       /\ OneOwner(T, pair) /\ QueueFree(T, spared)
  BY <1>7, <1>8, <1>9, StoreAdded
<1>11. Now.engine # "mysql" => Claimed(T)
  BY <1>7, <1>8, <1>9, ClaimedAdded
<1> QED
  BY <1>10, <1>11

(* The rows that an insert makes.                                            *)
LEMMA InsertedRow ==
  ASSUME NEW table \in Tables, NEW id, NEW values, NEW row, row = Inserted(table, id, values)
  PROVE  row # Absent /\ "id" \in DOMAIN row
<1> DEFINE base == New[table]
           old == Changed(base, values)
<1>1. "id" \in DOMAIN base
  BY RowFacts DEF New, NewEntry, NewLocation, NewLease, NewDeletion, NewUpload
<1>2. DOMAIN old = DOMAIN base
  BY ChangedFacts
<1>3. row = [old EXCEPT !.id = id]
  BY DEF Inserted
<1> HIDE DEF old, base
<1>4. DOMAIN row = DOMAIN old
  BY <1>3
<1>5. "id" \in DOMAIN row
  BY <1>1, <1>2, <1>4
<1>6. DOMAIN Absent = {"columns"} /\ "id" # "columns"
  BY DEF Absent
<1> QED
  BY <1>5, <1>6

-----------------------------------------------------------------------------

InsertAsks(s, t, pc, reg, r, row) ==
  /\ Open(Now, s) /\ t.pc = pc /\ t.job = s.job /\ t.snap = s.snap
  /\ t.shared = s.shared \cup Parent(r, row) /\ Grown(t.reg, reg, s.reg)
  /\ \E N : DOMAIN N = {r} /\ N[r] = row /\ Grown(t.writes, N, s.writes)
InsertGoal(s, pc, reg, r, row) ==
  \A t : InsertAsks(s, t, pc, reg, r, row) => WritesInv(Now, t) /\ WouldInv(Now, t) /\
    PlanInv(Now, t)

\* The step of a statement that inserts.
LEMMA InsertMoves ==
  ASSUME TransactionInv, NEW p \in Process, NEW s, s = proc[p], NEW table \in Tables,
         Free(table) # {}, NEW id, id = FreeID(table), NEW values, NEW did,
         did = Create(p, table, id, values), NEW r, r = <<table, id>>,
         NEW row, row = Inserted(table, id, values), NEW pc, NEW reg, Moves(p, did, pc, reg),
         Ours(s), s.pc # "commit", pc # "idle",
         s.job.kind = "complete" => pc \in CompleteStays /\ table # "upload",
         did.waits = {} => Unrivalled(p, r, row),
         pc # "rollback" => InsertGoal(s, pc, reg, r, row)
  PROVE  TransactionInv'
<1>1. Added(did, s, r, row) /\ did.waits = Inserting(p, r, row)
  BY CreateFacts
<1>2. Unclaimed(r) /\ r[1] = table
  BY FreeFacts DEF Unclaimed
<1>3. row # Absent /\ "id" \in DOMAIN row
  BY InsertedRow
<1>4. DOMAIN did.state = DOMAIN Idle /\ did.state.reg = s.reg
  BY <1>1 DEF Added
<1>5. s.job.kind = "complete" => pc \in CompleteStays /\ r \notin RowsOf("upload")
  BY <1>2, RowFacts
<1>6. ASSUME NEW t, Step(p, t), After(t, did.state, pc), Grown(t.reg, reg, did.state.reg),
             did.waits = {}
      PROVE  TransactionInv'
  <2>1. t.pc = pc /\ Grown(t.reg, reg, s.reg)
    BY <1>4, <1>6 DEF After
  <2>2. InsertPlan(s, t, r, row)
    <3>1. CASE pc = "rollback"
      BY <2>1, <3>1 DEF InsertPlan
    <3>2. CASE pc # "rollback"
      BY <2>1, <3>2 DEF InsertPlan, InsertGoal, InsertAsks
    <3> QED
      BY <3>1, <3>2
  <2> QED
    BY <1>1, <1>2, <1>3, <1>5, <1>6, <2>2, InsertsTo
<1> QED
  BY <1>4, <1>6, MovesFacts

-----------------------------------------------------------------------------
(* The parts of a location where a reader of parts is admitted are not claimed. *)
LEMMA AdmittedParts ==
  ASSUME TransactionInv, NEW p \in Process, NEW s, s = proc[p], Open(Now, s),
         s.job.kind = "acquire", NEW l \in RowsOf("location"), Would(Now, s)[l] # Absent,
           Admissible(Now, s, l)
  PROVE  Would(Now, s)[l].partsDeletedAt = Null
<1> DEFINE S == Would(Now, s)
           row == S[l]
<1>1. RowsOK(Now, s) /\ Committed(Now) /\ Shape(s) /\ l \in Rows
  BY OpenParts, ProcessFacts, TableRows
<1>2. /\ RowOK(l, row) /\ (db[l] # Absent => Evolves(l, db[l], row))
      /\ db[l] = Absent => Adds(Now, s, l)
      /\ l \in DOMAIN s.writes => row = s.writes[l]
      /\ l \notin DOMAIN s.writes => row = db[l]
  BY <1>1, WouldTyped, StateFields
<1>3. LocationOK(row)
  BY <1>2, RowKinds
<1>4. row # Absent
  OBVIOUS
<1> SUFFICES row.partsDeletedAt = Null
  OBVIOUS
<1> HIDE DEF row, S
<1>5. CASE Puts(s, l) /\ s.writes[l].mergedAt = Null
  BY <1>2, <1>3, <1>5, MergedFacts DEF Puts
<1>6. CASE ~(Puts(s, l) /\ s.writes[l].mergedAt = Null)
  <2>1. db[l] # Absent => ~Mergeable(db[l])
    BY <1>6, StateFields DEF Admissible
  <2>2. CASE db[l] # Absent
    BY <1>2, <1>3, <2>1, <2>2, EvolvesMergeable, MergedFacts
  <2>3. CASE db[l] = Absent
    <3>1. Adds(Now, s, l) /\ InsertsOK(Now, s)
      BY <1>2, <2>3, OpenParts DEF WritesInv
    <3> QED
      BY <3>1 DEF InsertsOK
  <2> QED
    BY <2>2, <2>3
<1> QED
  BY <1>5, <1>6

-----------------------------------------------------------------------------
(* A transaction that commits after an insert.                               *)
LEMMA InsertCommits ==
  ASSUME NEW g, NEW s, NEW t, PlanInv(g, s), t.job = s.job, t.snap = s.snap, t.pc = "commit",
         s.job.kind \notin {"complete", "evict"}
  PROVE  PlanInv(g, t)
<1>1. SnapOK(g, t)
  <2>1. SnapOK(g, s) /\ t.pc \notin TargetPcs
    BY PlanParts DEF TargetPcs, LockedPcs, FencePcs, ClaimPcs
  <2> QED
    BY <2>1, SnapKept
<1>2. EvictOK(g, t) /\ CompleteOK(g, t)
  BY DEF EvictOK, CompleteOK
<1> QED
  BY <1>1, <1>2, PlanCommit

LEMMA LeaseParents ==
  ASSUME NEW r, NEW row
  PROVE  /\ r[1] = "lease" => Parent(r, row) = {LeasedBy(row)}
         /\ r[1] = "entry" => Parent(r, row) = {LocationOf(row)}
         /\ r[1] \in {"location", "deletion", "upload"} => Parent(r, row) = {}
BY DEF Parent, LeasedBy, LocationOf

\* A reader lease is inserted.
LEMMA AcquireCreateKeeps ==
  ASSUME TransactionInv, NEW p \in Process, AcquireCreate(p)
  PROVE  TransactionInv'
<1> DEFINE s == proc[p]
           id == FreeID("lease")
           values == LeaseValues(s.reg.location, s.reg.scope, clock + Lasts)
           did == Create(p, "lease", id, values)
           r == <<"lease", id>>
           row == Inserted("lease", id, values)
           pc == IF did.result THEN "commit" ELSE "rollback"
           reg == <<>>
<1>1. s.pc = "acquire.create" /\ Free("lease") # {} /\ Does(p, did, pc)
  BY DEF AcquireCreate, Inserts, At, CreateLease, CreateNew
<1>2. Moves(p, did, pc, reg) /\ DOMAIN reg = {}
  BY <1>1, MovesNothing
<1>3. /\ s = proc[p] /\ id = FreeID("lease") /\ did = Create(p, "lease", id, values)
      /\ r = <<"lease", id>> /\ row = Inserted("lease", id, values) /\ "lease" \in Tables
      /\ values = LeaseValues(s.reg.location, s.reg.scope, clock + Lasts)
      /\ pc \in {"commit", "rollback"} /\ (pc = "commit" => did.result)
  BY RowFacts
<1> HIDE DEF s, id, values, did, r, row, pc, reg
<1>4. Ours(s)
  BY <1>1 DEF Ours
<1>5. s.job.kind # "complete"
  BY <1>1, <1>3, <1>4, KindFacts DEF CompletePcs, FencePcs
<1>6. Unclaimed(r) /\ r \in RowsOf("lease") /\ r[1] = "lease" /\ id \in Lease /\ r[2] = id
  BY <1>1, <1>3, FreeFacts DEF Unclaimed, Ids
<1>6a. r \notin RowsOf("upload") \cup RowsOf("entry") \cup RowsOf("location") \cup
         RowsOf("deletion")
  BY <1>6, RowFacts
<1>7. Unrivalled(p, r, row)
  BY <1>6a DEF Unrivalled
<1>8. ASSUME pc = "commit", NEW t, InsertAsks(s, t, pc, reg, r, row)
      PROVE  WritesInv(Now, t) /\ WouldInv(Now, t) /\ PlanInv(Now, t)
  <2>1. /\ Open(Now, s) /\ t.pc = "commit" /\ t.job = s.job /\ t.snap = s.snap
        /\ t.shared = s.shared \cup Parent(r, row)
        /\ \E N : DOMAIN N = {r} /\ N[r] = row /\ Grown(t.writes, N, s.writes)
    BY <1>8 DEF InsertAsks
  <2>2. KindsOK(s) /\ AcquireOK(Now, s) /\ PlanInv(Now, s)
    BY <1>3, <2>1, OpenParts, PlanParts
  <2>3. /\ s.job.kind = "acquire" /\ s.reg.location \in Location /\ s.reg.scope # Null
        /\ s.reg.scope = "parts" => Admissible(Now, s, Target(s))
    BY <1>1, <2>2 DEF KindsOK, AcquireOK, AcquirePcs
  <2>4. clock + Lasts \in Nat
    BY ProcessFacts, BoundsAssumption
  <2>5. /\ LeaseOK(row) /\ row.id = id /\ row.storageLocationId = s.reg.location
        /\ row.scope = s.reg.scope /\ row.expiresAt = clock + Lasts
    BY <1>3, <1>6, <2>3, <2>4, NewLeaseRow
  <2>6. LeasedBy(row) = Target(s) /\ Parent(r, row) = {LeasedBy(row)} /\
          Target(s) \in RowsOf("location")
    BY <1>6, <2>3, <2>5, LeaseParents, RowFacts DEF LeasedBy, Target
  <2>7. Would(Now, s)[Target(s)] # Absent
    BY <1>3, <1>8, <2>6, CreateFacts
  <2>8. RowOK(r, row) /\ row # Absent
    BY <1>3, <1>6, <2>5, KindsRow, InsertedRow
  <2>9. Steady(s, t) /\ Pair(s) = Pair(t) /\ Spared(s) = {} /\ Pending(s) = {}
    BY <1>1, <2>1, <2>3 DEF Steady, Pair, Spared, Pending
  <2>10. s.reg.scope = "parts" => Admissible(Now, t, Target(s))
    <3>1. PICK N : DOMAIN N = {r} /\ N[r] = row /\ Grown(t.writes, N, s.writes)
      BY <2>1
    <3>2. Target(s) # r
      BY <1>6a, <2>6
    <3>3. Puts(s, Target(s)) => Puts(t, Target(s)) /\ t.writes[Target(s)] = s.writes[Target(s)]
      BY <3>1, <3>2 DEF Puts, Grown
    <3> QED
      BY <2>3, <3>3 DEF Admissible
  <2>11. InsertDuty(Now, s, t, r, row)
    <3>1. t.job.kind = "acquire" /\ LeasedBy(row) \in t.shared
      BY <2>1, <2>3, <2>6
    <3>2. row.scope = "parts" => Admissible(Now, t, LeasedBy(row))
      BY <2>5, <2>6, <2>10
    <3>3. row.expiresAt <= Now.clock + Lasts
      BY <2>4, <2>5, StateFields
    <3> QED
      BY <1>6a, <2>8, <2>9, <3>1, <3>2, <3>3 DEF InsertDuty
  <2>12. LeaseFits(Would(Now, s), r, row)
    <3>1. row.scope = "parts" => Would(Now, s)[Target(s)].partsDeletedAt = Null
      BY <1>3, <2>1, <2>3, <2>5, <2>6, <2>7, AdmittedParts
    <3> QED
      BY <2>6, <2>7, <3>1 DEF LeaseFits
  <2>13. Fits(s, t, r, row)
    BY <1>6a, <2>11, <2>12, TableRows DEF Fits, UploadFits, OwnerFits, QueueFits
  <2>14. WritesInv(Now, t) /\ WouldInv(Now, t)
    BY <1>3, <1>6, <1>6a, <2>1, <2>9, <2>13, InsertKeeps
  <2>15. PlanInv(Now, t)
    BY <2>1, <2>2, <2>3, InsertCommits
  <2> QED
    BY <2>14, <2>15
<1>9. pc # "rollback" => InsertGoal(s, pc, reg, r, row)
  BY <1>3, <1>8 DEF InsertGoal
<1>10. s.pc # "commit" /\ pc # "idle"
  BY <1>1, <1>3
<1> QED
  BY <1>1, <1>2, <1>3, <1>4, <1>5, <1>7, <1>9, <1>10, InsertMoves

-----------------------------------------------------------------------------
(* A folder is put into the outbox.                                          *)

FolderDuty(s, next, folder) ==
  Open(Now, s) =>
    /\ folder \in Folders /\ UploadOf(folder) \in issued
    /\ \A x \in Pending(s) : db[x] # Absent => db[x].folderName = folder
    /\ folder[2] = "" => \A o \in Owners : Would(Now, s)[o] # Absent =>
         Would(Now, s)[o].folderName # folder \/ (next = "fence.delete" /\ o = Target(s))
SameReg(s, t) == DOMAIN t.reg = DOMAIN s.reg /\ \A x \in DOMAIN s.reg : t.reg[x] = s.reg[x]
EnqueueAsks(s, t, next, folder) ==
  /\ Open(Now, s) /\ PlanInv(Now, s) /\ t.pc = next /\ t.job = s.job /\ t.snap = s.snap
  /\ t.shared = s.shared /\ SameReg(s, t)
  /\ \E r \in RowsOf("deletion") : \E N :
       /\ Unclaimed(r) /\ DOMAIN N = {r} /\ N[r] # Absent /\ N[r].folderName = folder
       /\ Grown(t.writes, N, s.writes) /\ Grown(Would(Now, t), N, Would(Now, s))
EnqueueGoal(s, next, folder) ==
  \A t : EnqueueAsks(s, t, next, folder) => PlanInv(Now, t)

\* A task fits where no owner has its folder, or only one that is spared.
LEMMA DeletionFits ==
  ASSUME TransactionInv, NEW s, Open(Now, s), NEW t, t.job = s.job, NEW id \in Deletion, NEW folder,
         NEW r, r = <<"deletion", id>>, NEW row,
         row = Inserted("deletion", id, DeletionValues(folder, clock)),
         FolderDuty(s, t.pc, folder),
         t.pc = "fence.delete" => t.reg.location = s.reg.location
  PROVE  Fits(s, t, r, row) /\ row # Absent /\ row.folderName = folder
<1>1. folder \in Folders /\ UploadOf(folder) \in issued /\ clock \in Nat
  BY DEF FolderDuty, TransactionInv, Inv, Now
<1>2. DeletionOK(row) /\ row.id = id /\ row.folderName = folder
  BY <1>1, NewDeletionRow
<1>3. r \in RowsOf("deletion") /\ r[1] = "deletion" /\ r[2] = id /\ "deletion" \in Tables
  BY RowFacts
<1>4. r \notin RowsOf("upload") \cup RowsOf("entry") \cup RowsOf("location") \cup RowsOf("lease")
  BY <1>3, RowFacts
<1>5. RowOK(r, row) /\ row # Absent
  BY <1>2, <1>3, KindsRow, InsertedRow
<1>6. \A x \in Pending(s) : db[x] # Absent => folder = db[x].folderName
  BY DEF FolderDuty
<1>7. InsertDuty(Now, s, t, r, row)
  BY <1>1, <1>2, <1>3, <1>4, <1>5, <1>6, StateFields DEF InsertDuty
<1>8. QueueFits(Would(Now, s), r, row, Spared(t))
  <2> DEFINE S == Would(Now, s)
  <2> SUFFICES ASSUME folder[2] = "", NEW o \in Owners \ Spared(t), S[o] # Absent
               PROVE  S[o].folderName # folder
    BY <1>2, <1>4, TableRows DEF QueueFits
  <2>1. S[o].folderName # folder \/ (t.pc = "fence.delete" /\ o = Target(s))
    BY DEF FolderDuty
  <2> HIDE DEF S
  <2>2. ~(t.pc = "fence.delete" /\ o = Target(s))
    BY DEF Spared, Target
  <2> QED
    BY <2>1, <2>2
<1>9. Fits(s, t, r, row)
  BY <1>4, <1>7, <1>8, TableRows DEF Fits, LeaseFits, UploadFits, OwnerFits
<1> QED
  BY <1>2, <1>5, <1>9

\* An enqueue finds the folder in the outbox or inserts it.
LEMMA Enqueues ==
  ASSUME TransactionInv, NEW p \in Process, NEW s, s = proc[p], Free("deletion") # {}, NEW folder,
         NEW did, did = CreateDeletion(p, DeletionValues(folder, clock)),
         NEW pc, Does(p, did, pc), NEW next, pc \in {next, "rollback"},
         Ours(s), s.pc \notin {"commit", "complete", "fence.delete"},
         next \notin {"idle", "complete", "rollback"},
         s.job.kind = "complete" => next \in CompleteStays,
         next \in TargetPcs => s.pc \in TargetPcs,
         FolderDuty(s, next, folder), EnqueueGoal(s, next, folder)
  PROVE  TransactionInv'
<1> DEFINE id == FreeID("deletion")
           values == DeletionValues(folder, clock)
           r == <<"deletion", id>>
           row == Inserted("deletion", id, values)
           reg == <<>>
<1>2. Moves(p, did, pc, reg) /\ DOMAIN reg = {}
  BY MovesNothing
<1>3. /\ id = FreeID("deletion") /\ did = Create(p, "deletion", id, values)
      /\ r = <<"deletion", id>> /\ row = Inserted("deletion", id, values) /\ "deletion" \in Tables
      /\ values = DeletionValues(folder, clock)
  BY RowFacts DEF CreateDeletion, CreateNew
<1> HIDE DEF id, values, r, row, reg
<1>6. Unclaimed(r) /\ r \in RowsOf("deletion") /\ r[1] = "deletion" /\ id \in Deletion /\ r[2] = id
  BY <1>3, FreeFacts DEF Unclaimed, Ids
<1>6a. r \notin RowsOf("upload") \cup RowsOf("entry") \cup RowsOf("location") \cup RowsOf("lease")
  BY <1>6, RowFacts
<1>7. Unrivalled(p, r, row)
  BY <1>6a DEF Unrivalled
<1>8. ASSUME pc = next, NEW t, InsertAsks(s, t, pc, reg, r, row)
      PROVE  WritesInv(Now, t) /\ WouldInv(Now, t) /\ PlanInv(Now, t)
  <2>1. /\ Open(Now, s) /\ t.pc = next /\ t.job = s.job /\ t.snap = s.snap
        /\ t.shared = s.shared \cup Parent(r, row) /\ Grown(t.reg, reg, s.reg)
        /\ \E N : DOMAIN N = {r} /\ N[r] = row /\ Grown(t.writes, N, s.writes)
    BY <1>8 DEF InsertAsks
  <2>2. SameReg(s, t)
    BY <1>2, <2>1 DEF SameReg, Grown
  <2>3. t.shared = s.shared
    BY <1>6, <2>1, LeaseParents
  <2>4. PlanInv(Now, s) /\ KindsOK(s) /\ TargetOK(Now, s) /\ CompleteOK(Now, s)
    BY <2>1, OpenParts, PlanParts
  <2>5. Steady(s, t)
    <3>1. s.job.kind = "complete" => {"new", "upload"} \subseteq DOMAIN s.reg
      BY <2>4 DEF CompleteOK
    <3> QED
      BY <2>1, <2>2, <3>1 DEF Steady, SameReg
  <2>6. Pair(s) = Pair(t) /\ Spared(s) = {}
    <3>1. t.pc # "complete" /\ s.pc # "complete" /\ s.pc # "fence.delete"
      BY <2>1
    <3>2. s.job.kind = "complete" => t.reg.new = s.reg.new
      BY <2>5 DEF Steady
    <3> QED
      BY <2>1, <3>1, <3>2 DEF Pair, Spared, UploadRow, NewRow
  <2>7. t.pc = "fence.delete" => t.reg.location = s.reg.location
    <3>1. t.pc = "fence.delete" => s.pc \in TargetPcs
      BY <2>1 DEF TargetPcs, LockedPcs, FencePcs
    <3> QED
      BY <2>2, <2>4, <3>1 DEF TargetOK, SameReg
  <2>8. FolderDuty(s, t.pc, folder)
    BY <2>1
  <2>9. Fits(s, t, r, row) /\ row # Absent /\ row.folderName = folder
    BY <1>3, <1>6, <2>1, <2>7, <2>8, DeletionFits
  <2>10. s.shared \subseteq t.shared
    BY <2>3
  <2>11. WritesInv(Now, t) /\ WouldInv(Now, t)
    BY <1>6, <1>6a, <2>1, <2>5, <2>6, <2>9, <2>10, InsertKeeps
  <2>12. EnqueueAsks(s, t, next, folder)
    <3>1. PICK N : DOMAIN N = {r} /\ N[r] = row /\ Grown(t.writes, N, s.writes)
      BY <2>1
    <3>2. Grown(Would(Now, t), N, Would(Now, s))
      BY <3>1, WouldMore
    <3>3. /\ r \in RowsOf("deletion") /\ Unclaimed(r) /\ N[r] # Absent /\ N[r].folderName = folder
      BY <1>6, <2>9, <3>1
    <3> QED
      BY <2>1, <2>2, <2>3, <2>4, <3>1, <3>2, <3>3 DEF EnqueueAsks
  <2>13. PlanInv(Now, t)
    BY <2>12 DEF EnqueueGoal
  <2> QED
    BY <2>11, <2>13
<1>9. pc # "rollback" => InsertGoal(s, pc, reg, r, row)
  <2>1. pc # "rollback" => pc = next
    OBVIOUS
  <2> QED
    BY <1>8, <2>1 DEF InsertGoal
<1>10. s.pc # "commit" /\ pc # "idle" /\ "deletion" # "upload"
  OBVIOUS
<1>11. s.job.kind = "complete" => pc \in CompleteStays
  BY DEF CompleteStays
<1> QED
  BY <1>2, <1>3, <1>7, <1>9, <1>10, <1>11, InsertMoves

-----------------------------------------------------------------------------

LEMMA FolderFacts ==
  ASSUME NEW i \in Upload
  PROVE  /\ Folder(i) \in Folders /\ UploadOf(Folder(i)) = <<"upload", i>>
         /\ <<i, "blocks">> \in Folders /\ UploadOf(<<i, "blocks">>) = <<"upload", i>>
         /\ <<i, "parts">> \in Folders /\ UploadOf(<<i, "parts">>) = <<"upload", i>>
         /\ <<i, "blocks">>[2] # "" /\ <<i, "parts">>[2] # ""
BY DEF Folder, Folders, Part, UploadOf

(* An upload owns the folder of its id.                                      *)
LEMMA UploadFolder ==
  ASSUME NEW g, Committed(g), NEW u \in RowsOf("upload"), g.db[u] # Absent
  PROVE  g.db[u].folderName = Folder(u[2]) /\ u[2] \in Upload
BY TableRows, CommittedFacts, RowKinds, RowFacts DEF Ids

LEMMA CommitGoal ==
  ASSUME TransactionInv, NEW s, NEW folder, Ours(s), s.job.kind \notin {"complete", "evict"}
  PROVE  EnqueueGoal(s, "commit", folder)
<1> SUFFICES ASSUME NEW t, EnqueueAsks(s, t, "commit", folder)
             PROVE  PlanInv(Now, t)
  BY DEF EnqueueGoal
<1>1. PlanInv(Now, s) /\ t.job = s.job /\ t.snap = s.snap /\ t.pc = "commit"
  BY DEF EnqueueAsks
<1> QED
  BY <1>1, InsertCommits

\* The folder of an abandoned upload is put into the outbox.
LEMMA AbandonEnqueueKeeps ==
  ASSUME TransactionInv, NEW p \in Process, AbandonEnqueue(p)
  PROVE  TransactionInv'
<1> DEFINE s == proc[p]
           folder == Folder(s.job.upload)
           did == CreateDeletion(p, DeletionValues(folder, clock))
           pc == IF did.result THEN "commit" ELSE "rollback"
<1>1. s.pc = "abandon.enqueue" /\ Free("deletion") # {} /\ Does(p, did, pc)
  BY DEF AbandonEnqueue, Inserts, At
<1>2. s = proc[p] /\ did = CreateDeletion(p, DeletionValues(folder, clock)) /\
        pc \in {"commit", "rollback"}
      /\ folder = Folder(s.job.upload)
  OBVIOUS
<1> HIDE DEF s, folder, did, pc
<1>3. Ours(s)
  BY <1>1 DEF Ours
<1>4. s.job.kind # "complete"
  BY <1>1, <1>2, <1>3, KindFacts DEF CompletePcs, FencePcs
<1>5. s.job.kind # "evict"
  <2> SUFFICES ASSUME s.job.kind = "evict"
               PROVE  FALSE
    OBVIOUS
  <2>1. KindsOK(s)
    BY <1>2, <1>3, <1>4, OpenParts, PlanParts DEF Open, Entitled
  <2> QED
    BY <1>1, <2>1 DEF KindsOK, EvictPcs, FencePcs
<1>6. FolderDuty(s, "commit", folder)
  <2> SUFFICES ASSUME Open(Now, s)
               PROVE  /\ folder \in Folders /\ UploadOf(folder) \in issued
                      /\ \A x \in Pending(s) : db[x] # Absent => db[x].folderName = folder
                      /\ \A o \in Owners : Would(Now, s)[o] # Absent =>
                           Would(Now, s)[o].folderName # folder
    BY DEF FolderDuty
  <2>1. UploadsOK(Now, s) /\ Committed(Now)
    BY <1>2, OpenParts, PlanParts, ProcessFacts
  <2> DEFINE u == UploadRow(s)
             S == Would(Now, s)
  <2>2. /\ s.job.upload \in Upload /\ u \in issued /\ u = <<"upload", s.job.upload>>
        /\ DOMAIN s.writes \cap Owners = {u} /\ s.writes[u] = Absent /\ db[u] # Absent
    BY <1>1, <2>1, StateFields DEF UploadsOK, UploadRow
  <2>3. u \in RowsOf("upload") /\ u \in Owners
    BY <2>2, RowFacts, TableRows
  <2>4. db[u].folderName = folder
    BY <1>2, <2>1, <2>2, <2>3, UploadFolder, StateFields
  <2>5. Pending(s) = {u}
    BY <1>1 DEF Pending
  <2>6. ASSUME NEW o \in Owners, S[o] # Absent
        PROVE  S[o].folderName # folder
    <3>0. Grown(S, s.writes, db) /\ DOMAIN db = Rows /\ OneOwner(db, {}) /\ o \in Rows
      BY <2>1, WouldGrown, CommittedFacts, StateFields, TableRows DEF Committed
    <3> HIDE DEF S
    <3>1. o # u
      BY <2>2, <2>6, <3>0 DEF Grown
    <3>2. S[o] = db[o]
      BY <2>2, <3>0, <3>1 DEF Grown
    <3> QED
      BY <2>2, <2>3, <2>4, <2>6, <3>0, <3>1, <3>2 DEF OneOwner
  <2> QED
    BY <1>2, <2>2, <2>4, <2>5, <2>6, FolderFacts
<1>7. EnqueueGoal(s, "commit", folder)
  BY <1>3, <1>4, <1>5, CommitGoal
<1>8. /\ s.pc \notin {"commit", "complete", "fence.delete"}
      /\ "commit" \notin {"idle", "complete", "rollback"} /\ "commit" \notin TargetPcs
  BY <1>1 DEF TargetPcs, LockedPcs, FencePcs, ClaimPcs
<1> QED
  BY <1>1, <1>2, <1>3, <1>4, <1>6, <1>7, <1>8, Enqueues

\* So is a folder that nobody owns.
LEMMA OrphanEnqueueKeeps ==
  ASSUME TransactionInv, NEW p \in Process, OrphanEnqueue(p)
  PROVE  TransactionInv'
<1> DEFINE s == proc[p]
           folder == Folder(s.job.folder)
           did == CreateDeletion(p, DeletionValues(folder, clock))
           pc == IF did.result THEN "commit" ELSE "rollback"
<1>1. s.pc = "orphan.enqueue" /\ Free("deletion") # {} /\ Does(p, did, pc)
  BY DEF OrphanEnqueue, Inserts, At
<1>2. s = proc[p] /\ did = CreateDeletion(p, DeletionValues(folder, clock)) /\
        pc \in {"commit", "rollback"}
      /\ folder = Folder(s.job.folder)
  OBVIOUS
<1> HIDE DEF s, folder, did, pc
<1>3. Ours(s)
  BY <1>1 DEF Ours
<1>4. s.job.kind # "complete"
  BY <1>1, <1>2, <1>3, KindFacts DEF CompletePcs, FencePcs
<1>5. Open(Now, s) /\ s.job.kind = "orphan"
  <2>1. Open(Now, s)
    BY <1>3, <1>4 DEF Open, Entitled
  <2> QED
    BY <1>1, <1>2, <2>1, OpenParts, PlanParts DEF KindsOK, OrphanPcs
<1>6. FolderDuty(s, "commit", folder)
  <2>1. UploadsOK(Now, s) /\ FirstOK(s) /\ Committed(Now)
    BY <1>2, <1>5, OpenParts, PlanParts, ProcessFacts
  <2> DEFINE u == OrphanRow(s)
             S == Would(Now, s)
  <2>2. /\ s.job.folder \in Upload /\ u \in issued /\ u = <<"upload", s.job.folder>> /\
             db[u] = Absent
        /\ \A l \in RowsOf("location") : db[l] # Absent => db[l].folderName # folder
    BY <1>1, <1>2, <1>5, <2>1, StateFields DEF UploadsOK, OrphanRow, OrphanPcs
  <2>3. DOMAIN s.writes = {}
    BY <1>1, <2>1 DEF FirstOK, FirstPcs, OrphanPcs
  <2>4. \A o \in Rows : S[o] = db[o]
    BY <1>2, <2>3, Unwritten
  <2>5. ASSUME NEW o \in Owners, S[o] # Absent
        PROVE  S[o].folderName # folder
    <3>1. CASE o \in RowsOf("location")
      <4>1. S[o] = db[o]
        BY <2>4, TableRows
      <4> HIDE DEF S
      <4> QED
        BY <2>2, <2>5, <3>1, <4>1
    <3>2. CASE o \in RowsOf("upload")
      <4>1. S[o] = db[o]
        BY <2>4, TableRows
      <4>2. db[o].folderName = Folder(o[2]) /\ o[2] \in Upload
        BY <2>1, <2>5, <3>2, <4>1, UploadFolder, StateFields
      <4>3. o[2] # s.job.folder
        BY <2>2, <2>5, <3>2, <4>1, RowFacts
      <4> QED
        <5>1. Folder(o[2]) # folder
          BY <1>2, <4>3 DEF Folder
        <5> HIDE DEF S
        <5> QED
          BY <4>1, <4>2, <5>1
    <3> QED
      BY <3>1, <3>2, TableRows
  <2>6. Pending(s) = {}
    BY <1>1 DEF Pending
  <2>7. folder \in Folders /\ UploadOf(folder) \in issued
    BY <1>2, <2>2, FolderFacts
  <2> QED
    BY <2>5, <2>6, <2>7 DEF FolderDuty
<1>7. EnqueueGoal(s, "commit", folder)
  BY <1>3, <1>5, CommitGoal
<1>8. /\ s.pc \notin {"commit", "complete", "fence.delete"}
      /\ "commit" \notin {"idle", "complete", "rollback"} /\ "commit" \notin TargetPcs
  BY <1>1 DEF TargetPcs, LockedPcs, FencePcs, ClaimPcs
<1> QED
  BY <1>1, <1>2, <1>3, <1>4, <1>6, <1>7, <1>8, Enqueues

-----------------------------------------------------------------------------
(* What an enqueue leaves alone.                                             *)
EnqueueKeeps(s, t, folder) ==
  /\ \A x \in DOMAIN s.writes : x \in DOMAIN t.writes /\ t.writes[x] = s.writes[x]
  /\ \A x \in RowsOf("entry") \cup RowsOf("lease") \cup RowsOf("location") :
       /\ Would(Now, t)[x] = Would(Now, s)[x]
       /\ x \in DOMAIN t.writes => x \in DOMAIN s.writes
  /\ \E x \in RowsOf("deletion") : Puts(t, x) /\ t.writes[x].folderName = folder
  /\ s.job.kind = "complete" /\ CompleteOK(Now, s) /\ s.pc # "complete" =>
       /\ {"new", "upload", "now"} \subseteq DOMAIN t.reg /\ t.reg.now \in Nat
       /\ t.reg.new = s.reg.new /\ t.reg.upload = s.reg.upload

\* An enqueue changes nothing but the outbox.
LEMMA EnqueueKept ==
  ASSUME TransactionInv, NEW p \in Process, NEW s, s = proc[p], NEW t, NEW next, NEW folder,
         EnqueueAsks(s, t, next, folder)
  PROVE  EnqueueKeeps(s, t, folder)
<1> DEFINE S == Would(Now, s)
           T == Would(Now, t)
<1>0. PICK r \in RowsOf("deletion") : \E N :
        /\ Unclaimed(r) /\ DOMAIN N = {r} /\ N[r] # Absent /\ N[r].folderName = folder
        /\ Grown(t.writes, N, s.writes) /\ Grown(T, N, S)
  BY DEF EnqueueAsks
<1>1. PICK N :
        /\ Unclaimed(r) /\ DOMAIN N = {r} /\ N[r] # Absent /\ N[r].folderName = folder
        /\ Grown(t.writes, N, s.writes) /\ Grown(T, N, S)
  BY <1>0
<1>2. r \notin DOMAIN s.writes /\ SameReg(s, t)
  BY <1>1 DEF Unclaimed, EnqueueAsks
<1>3. Typed(S)
  BY WouldSound DEF EnqueueAsks
<1>4. \A x \in RowsOf("entry") \cup RowsOf("lease") \cup RowsOf("location") : x # r /\ x \in Rows
  BY <1>1, TableRows, RowFacts
<1> SUFFICES /\ \A x \in DOMAIN s.writes : x \in DOMAIN t.writes /\ t.writes[x] = s.writes[x]
             /\ \A x \in RowsOf("entry") \cup RowsOf("lease") \cup RowsOf("location") :
                  T[x] = S[x] /\ (x \in DOMAIN t.writes => x \in DOMAIN s.writes)
             /\ \E x \in RowsOf("deletion") : Puts(t, x) /\ t.writes[x].folderName = folder
             /\ s.job.kind = "complete" /\ CompleteOK(Now, s) /\ s.pc # "complete" =>
                  /\ {"new", "upload", "now"} \subseteq DOMAIN t.reg /\ t.reg.now \in Nat
                  /\ t.reg.new = s.reg.new /\ t.reg.upload = s.reg.upload
  BY DEF EnqueueKeeps
<1> HIDE DEF S, T
<1>5. \A x \in DOMAIN s.writes : x \in DOMAIN t.writes /\ t.writes[x] = s.writes[x]
  BY <1>1, <1>2 DEF Grown
<1>6. \A x \in RowsOf("entry") \cup RowsOf("lease") \cup RowsOf("location") :
        T[x] = S[x] /\ (x \in DOMAIN t.writes => x \in DOMAIN s.writes)
  BY <1>1, <1>3, <1>4 DEF Grown, Typed
<1>7. Puts(t, r) /\ t.writes[r].folderName = folder
  BY <1>1 DEF Puts, Grown
<1>8. s.job.kind = "complete" /\ CompleteOK(Now, s) /\ s.pc # "complete" =>
        /\ {"new", "upload", "now"} \subseteq DOMAIN t.reg /\ t.reg.now \in Nat
        /\ t.reg.new = s.reg.new /\ t.reg.upload = s.reg.upload
  BY <1>2 DEF CompleteOK, SameReg
<1> QED
  BY <1>1, <1>5, <1>6, <1>7, <1>8

\* The blocks of a completed upload are put into the outbox.
LEMMA CompleteBlocksKeeps ==
  ASSUME TransactionInv, NEW p \in Process, CompleteBlocks(p)
  PROVE  TransactionInv'
<1> DEFINE s == proc[p]
           folder == <<s.reg.upload.folderName[1], "blocks">>
           did == CreateDeletion(p, DeletionValues(folder, clock))
           pc == IF did.result THEN "complete.delete" ELSE "rollback"
<1>1. s.pc = "complete.blocks" /\ Free("deletion") # {} /\ Does(p, did, pc)
  BY DEF CompleteBlocks, Inserts, At
<1>2. /\ s = proc[p] /\ did = CreateDeletion(p, DeletionValues(folder, clock))
      /\ pc \in {"complete.delete", "rollback"} /\ folder = <<s.reg.upload.folderName[1], "blocks">>
  OBVIOUS
<1> HIDE DEF s, folder, did, pc
<1>3. Ours(s)
  BY <1>1 DEF Ours
<1>4. UploadTaken(Now, s)
  BY <1>2, ProcessFacts
<1>5. ASSUME Open(Now, s)
      PROVE  s.job.kind = "complete" /\ CompleteOK(Now, s)
  BY <1>1, <1>2, <1>5, OpenParts, PlanParts DEF KindsOK, CompletePcs
<1>6. FolderDuty(s, "complete.delete", folder)
  <2> SUFFICES ASSUME Open(Now, s)
               PROVE  /\ folder \in Folders /\ UploadOf(folder) \in issued
                      /\ \A x \in Pending(s) : db[x] # Absent => db[x].folderName = folder
                      /\ folder[2] # ""
    BY DEF FolderDuty
  <2>1. s.job.kind = "complete" /\ CompleteOK(Now, s)
    BY <1>5
  <2>2. s.reg.upload.folderName = Folder(s.job.upload) /\ s.job.upload \in Upload
        /\ UploadRow(s) \in issued
    BY <1>3, <1>4, <2>1, StateFields DEF CompleteOK, UploadOK, UploadTaken
  <2>3. folder = <<s.job.upload, "blocks">> /\ UploadRow(s) = <<"upload", s.job.upload>>
    <3>1. s.reg.upload.folderName[1] = s.job.upload
      BY <2>2, Referred
    <3> QED
      BY <1>2, <3>1 DEF UploadRow
  <2>4. Pending(s) = {}
    BY <1>1 DEF Pending
  <2> QED
    BY <2>2, <2>3, <2>4, FolderFacts
<1>7. EnqueueGoal(s, "complete.delete", folder)
  <2> SUFFICES ASSUME NEW t, EnqueueAsks(s, t, "complete.delete", folder)
               PROVE  PlanInv(Now, t)
    BY DEF EnqueueGoal
  <2>1. /\ Open(Now, s) /\ PlanInv(Now, s) /\ t.pc = "complete.delete" /\ t.job = s.job
        /\ t.snap = s.snap
    BY DEF EnqueueAsks
  <2>2. /\ KindsOK(s) /\ SnapOK(Now, s) /\ UploadsOK(Now, s) /\ CompleteOK(Now, s)
        /\ s.job.kind = "complete"
    BY <1>5, <2>1, PlanParts
  <2>3. KindsOK(t)
    BY <2>1, <2>2 DEF KindsOK, AcquirePcs, CompletePcs, EvictPcs, OrphanPcs
  <2>4. FirstOK(t) /\ AcquireOK(Now, t) /\ FenceOK(Now, t) /\ ClaimOK(Now, t) /\ TargetOK(Now, t)
    BY <2>1 DEF FirstOK, FirstPcs, OrphanPcs, AcquireOK, AcquirePcs, FenceOK, FencePcs, ClaimOK,
                ClaimPcs, TargetOK, TargetPcs, LockedPcs
  <2>5. SnapOK(Now, t)
    <3>1. t.pc \notin TargetPcs
      BY <2>1 DEF TargetPcs, LockedPcs, FencePcs, ClaimPcs
    <3> QED
      BY <2>1, <2>2, <3>1, SnapKept
  <2>6. RequestOK(Now, t)
    BY <2>1, <2>2 DEF RequestOK
  <2>7. UploadsOK(Now, t)
    BY <2>1, <2>2, UploadsOther DEF OrphanPcs
  <2>8. CompleteOK(Now, t)
    <3>1. /\ \A x \in DOMAIN s.writes : x \in DOMAIN t.writes /\ t.writes[x] = s.writes[x]
          /\ (s.job.kind = "complete" /\ CompleteOK(Now, s) /\ s.pc # "complete" =>
              /\ {"new", "upload", "now"} \subseteq DOMAIN t.reg /\ t.reg.now \in Nat
              /\ t.reg.new = s.reg.new /\ t.reg.upload = s.reg.upload)
      <4>1. s = proc[p]
        BY <1>2
      <4>2. EnqueueAsks(s, t, "complete.delete", folder)
        OBVIOUS
      <4>3. EnqueueKeeps(s, t, folder)
        BY <4>1, <4>2, EnqueueKept
      <4> QED
        BY <4>3 DEF EnqueueKeeps
    <3>2. \A x \in RowsOf("entry") \cup {NewRow(s)} :
            Puts(s, x) => x \in DOMAIN t.writes /\ t.writes[x] = s.writes[x]
      BY <3>1 DEF Puts
    <3>3. /\ {"new", "upload", "now"} \subseteq DOMAIN t.reg /\ t.reg.now \in Nat
          /\ t.reg.new = s.reg.new /\ t.reg.upload = s.reg.upload
      BY <1>1, <2>2, <3>1
    <3> QED
      BY <1>1, <2>1, <2>2, <3>2, <3>3, CompleteOn
  <2> QED
    BY <2>3, <2>4, <2>5, <2>6, <2>7, <2>8 DEF PlanInv
<1>8. /\ s.pc \notin {"commit", "complete", "fence.delete"}
      /\ "complete.delete" \notin {"idle", "complete", "rollback"}
      /\ "complete.delete" \notin TargetPcs /\ "complete.delete" \in CompleteStays
  BY <1>1 DEF TargetPcs, LockedPcs, FencePcs, ClaimPcs, CompleteStays, CompletePcs
<1> QED
  BY <1>1, <1>2, <1>3, <1>6, <1>7, <1>8, Enqueues

-----------------------------------------------------------------------------

\* What a request relies on after it has enqueued.
LEMMA TargetEnqueued ==
  ASSUME TransactionInv, NEW p \in Process, NEW s, s = proc[p], NEW t, NEW next, NEW folder,
         EnqueueAsks(s, t, next, folder), s.pc \in LockedPcs, s.pc # "fence.delete",
         next \in {"fence.delete", "claim.mark"},
         s.job.kind = "complete" => s.pc \in FencePcs /\ next = "fence.delete",
         KindsOK(t), FenceOK(Now, t), ClaimOK(Now, t)
  PROVE  PlanInv(Now, t)
<1>1. EnqueueKeeps(s, t, folder)
  BY EnqueueKept
<1>2. /\ \A x \in DOMAIN s.writes : x \in DOMAIN t.writes /\ t.writes[x] = s.writes[x]
      /\ \A x \in RowsOf("location") : x \in DOMAIN t.writes => x \in DOMAIN s.writes
  BY <1>1 DEF EnqueueKeeps
<1>3. s.job.kind = "complete" /\ CompleteOK(Now, s) /\ s.pc # "complete" =>
        /\ {"new", "upload", "now"} \subseteq DOMAIN t.reg /\ t.reg.now \in Nat
        /\ t.reg.new = s.reg.new /\ t.reg.upload = s.reg.upload
  BY <1>1 DEF EnqueueKeeps
<1>4. /\ PlanInv(Now, s) /\ t.pc = next /\ t.job = s.job /\ t.snap = s.snap /\ SameReg(s, t)
  BY DEF EnqueueAsks
<1>5. /\ TargetOK(Now, s) /\ RequestOK(Now, s) /\ SnapOK(Now, s) /\ CompleteOK(Now, s)
  BY <1>4, PlanParts
<1>6. s.pc \in TargetPcs
  BY DEF TargetPcs
<1>7. /\ "location" \in DOMAIN s.reg /\ Puts(s, Target(s)) /\ Now.db[Target(s)] # Absent
  BY <1>5, <1>6 DEF TargetOK
<1>8. "location" \in DOMAIN t.reg /\ t.reg.location = s.reg.location
  BY <1>4, <1>7 DEF SameReg
<1>9. Target(t) = Target(s)
  BY <1>8 DEF Target
<1>10. Puts(t, Target(t)) /\ Now.db[Target(t)] # Absent
  BY <1>2, <1>7, <1>9 DEF Puts
<1>11. SnapOK(Now, t)
  BY <1>4, <1>5, <1>6, <1>8, SnapKept
<1>12. EvictOK(Now, t)
  <2>1. DOMAIN t.writes \cap RowsOf("location") \subseteq DOMAIN s.writes
    BY <1>2
  <2> QED
    BY <1>4, <1>5, <1>8, <2>1, EvictOn
<1>13. CompleteOK(Now, t)
  <2>1. CASE s.job.kind = "complete"
    <3>1. s.pc \in FencePcs /\ t.pc = "fence.delete" /\ s.pc # "complete"
      BY <1>4, <2>1 DEF FencePcs
    <3>2. \A x \in RowsOf("entry") \cup {NewRow(s)} :
            Puts(s, x) => x \in DOMAIN t.writes /\ t.writes[x] = s.writes[x]
      BY <1>2 DEF Puts
    <3>3. "fence.delete" \in FencePcs
      BY DEF FencePcs
    <3>4. /\ {"new", "upload", "now"} \subseteq DOMAIN t.reg /\ t.reg.now \in Nat
          /\ t.reg.new = s.reg.new /\ t.reg.upload = s.reg.upload
      BY <1>3, <1>5, <2>1, <3>1
    <3> QED
      BY <1>4, <1>5, <3>1, <3>2, <3>3, <3>4, CompleteOn
  <2>2. CASE s.job.kind # "complete"
    BY <1>4, <2>2 DEF CompleteOK
  <2> QED
    BY <2>1, <2>2
<1>14. t.pc \in ((TargetPcs \ FirstPcs) \ {"request.detach"}) \cup {"complete.blocks"}
       /\ t.pc # "merge.lease"
  BY <1>4 DEF TargetPcs, LockedPcs, FencePcs, ClaimPcs, FirstPcs, OrphanPcs
<1> QED
  BY <1>4, <1>6, <1>8, <1>10, <1>11, <1>12, <1>13, <1>14, TargetPlan

\* The parts that are claimed are put into the outbox.
LEMMA ClaimEnqueueKeeps ==
  ASSUME TransactionInv, NEW p \in Process, ClaimEnqueue(p)
  PROVE  TransactionInv'
<1> DEFINE s == proc[p]
           folder == <<s.reg.row.folderName[1], "parts">>
           did == CreateDeletion(p, DeletionValues(folder, clock))
           pc == IF did.result THEN "claim.mark" ELSE "rollback"
<1>1. s.pc = "claim.enqueue" /\ Free("deletion") # {} /\ Does(p, did, pc)
  BY DEF ClaimEnqueue, Inserts, At
<1>2. /\ s = proc[p] /\ did = CreateDeletion(p, DeletionValues(folder, clock))
      /\ pc \in {"claim.mark", "rollback"} /\ folder = <<s.reg.row.folderName[1], "parts">>
  OBVIOUS
<1> HIDE DEF s, folder, did, pc
<1>3. Ours(s)
  BY <1>1 DEF Ours
<1>4. s.job.kind # "complete"
  BY <1>1, <1>2, <1>3, KindFacts DEF CompletePcs, FencePcs
<1>5. Open(Now, s)
  BY <1>3, <1>4 DEF Open, Entitled
<1>6. ClaimOK(Now, s) /\ KindsOK(s) /\ TargetOK(Now, s)
  BY <1>2, <1>5, OpenParts, PlanParts
<1>7. /\ "location" \in DOMAIN s.reg /\ Target(s) \in RowsOf("location")
      /\ Puts(s, Target(s)) /\ s.writes[Target(s)].mergedAt # Null
      /\ {"row", "now"} \subseteq DOMAIN s.reg /\ s.reg.now \in Nat
      /\ s.reg.row.folderName[1] \in Upload /\ UploadOf(s.reg.row.folderName) \in issued
      /\ engine # "mysql" => Unread(Would(Now, s), Target(s))
  BY <1>1, <1>6, StateFields, RowFacts DEF ClaimOK, ClaimPcs, TargetOK, TargetPcs, LockedPcs, Target
<1>8. FolderDuty(s, "claim.mark", folder)
  <2>1. Pending(s) = {}
    BY <1>1 DEF Pending
  <2>2. folder \in Folders /\ folder[2] # "" /\ UploadOf(folder) \in issued
    BY <1>2, <1>7, FolderFacts DEF UploadOf
  <2> QED
    BY <2>1, <2>2 DEF FolderDuty
<1>9. EnqueueGoal(s, "claim.mark", folder)
  <2> SUFFICES ASSUME NEW t, EnqueueAsks(s, t, "claim.mark", folder)
               PROVE  PlanInv(Now, t)
    BY DEF EnqueueGoal
  <2>1. /\ t.pc = "claim.mark" /\ t.job = s.job /\ SameReg(s, t)
    BY DEF EnqueueAsks
  <2>2. EnqueueKeeps(s, t, folder)
    <3>1. s = proc[p]
      BY <1>2
    <3> QED
      BY <3>1, EnqueueKept
  <2>3. t.reg.location = s.reg.location /\ t.reg.row = s.reg.row /\ t.reg.now = s.reg.now
        /\ {"row", "now"} \subseteq DOMAIN t.reg
    BY <1>7, <2>1 DEF SameReg
  <2>4. Target(t) = Target(s)
    BY <2>3 DEF Target
  <2>5. t.writes[Target(t)] = s.writes[Target(s)]
    BY <1>7, <2>2, <2>4 DEF EnqueueKeeps, Puts
  <2>6. \A d \in RowsOf("lease") : Would(Now, t)[d] = Would(Now, s)[d]
    BY <2>2 DEF EnqueueKeeps
  <2>7. ClaimOK(Now, t)
    <3> DEFINE S == Would(Now, s)
               T == Would(Now, t)
    <3>1. Now.engine # "mysql" => Unread(S, Target(s))
      BY <1>7, StateFields
    <3>2. \A d \in RowsOf("lease") : T[d] = S[d]
      BY <2>6
    <3> HIDE DEF S, T
    <3>3. Now.engine # "mysql" => Unread(T, Target(t))
      BY <2>4, <3>1, <3>2 DEF Unread, PartsLease
    <3>4. Now.engine # "mysql" => Unread(Would(Now, t), Target(t))
      BY <3>3 DEF T
    <3> HIDE DEF Target
    <3> QED
      BY <1>7, <2>1, <2>3, <2>5, <3>4, StateFields DEF ClaimOK
  <2>8. KindsOK(t)
    BY <1>1, <1>6, <2>1 DEF KindsOK, AcquirePcs, CompletePcs, EvictPcs, OrphanPcs, FencePcs
  <2>9. FenceOK(Now, t)
    BY <2>1 DEF FenceOK, FencePcs
  <2>10. s.pc \in LockedPcs /\ s.pc # "fence.delete"
    BY <1>1 DEF LockedPcs, ClaimPcs
  <2>11. s = proc[p]
    BY <1>2
  <2> QED
    BY <1>4, <2>7, <2>8, <2>9, <2>10, <2>11, TargetEnqueued
<1>10. /\ s.pc \notin {"commit", "complete", "fence.delete"}
       /\ "claim.mark" \notin {"idle", "complete", "rollback"}
  BY <1>1
<1>11. s = proc[p] /\ Free("deletion") # {} /\ Does(p, did, pc)
  BY <1>1, <1>2
<1>12. "claim.mark" \in TargetPcs => s.pc \in TargetPcs
  BY <1>1 DEF TargetPcs, LockedPcs, ClaimPcs
<1>13. s.job.kind = "complete" => "claim.mark" \in CompleteStays
  BY <1>4
<1>14. pc \in {"claim.mark", "rollback"} /\ did = CreateDeletion(p, DeletionValues(folder, clock))
  BY <1>2
<1> QED
  BY <1>3, <1>8, <1>9, <1>10, <1>11, <1>12, <1>13, <1>14, Enqueues, SMTT(60)

-----------------------------------------------------------------------------

\* So is the folder of a fenced location that has no reader.
LEMMA FenceEnqueueKeeps ==
  ASSUME TransactionInv, NEW p \in Process, FenceEnqueue(p)
  PROVE  TransactionInv'
<1> DEFINE s == proc[p]
           folder == s.reg.row.folderName
           did == CreateDeletion(p, DeletionValues(folder, clock))
           pc == IF did.result THEN "fence.delete" ELSE "rollback"
<1>1. s.pc = "fence.enqueue" /\ Free("deletion") # {} /\ Does(p, did, pc)
  BY DEF FenceEnqueue, Inserts, At
<1>2. /\ s = proc[p] /\ did = CreateDeletion(p, DeletionValues(folder, clock))
      /\ pc \in {"fence.delete", "rollback"} /\ folder = s.reg.row.folderName
  OBVIOUS
<1> HIDE DEF s, folder, did, pc
<1>3. Ours(s)
  BY <1>1 DEF Ours
<1>4. s.pc \in FencePcs /\ s.pc \in TargetPcs /\ s.pc \in LockedPcs
  BY <1>1 DEF FencePcs, TargetPcs, LockedPcs
<1>5. ASSUME Open(Now, s)
      PROVE  /\ "location" \in DOMAIN s.reg /\ Target(s) \in RowsOf("location")
             /\ Puts(s, Target(s)) /\ db[Target(s)] # Absent
             /\ folder = s.writes[Target(s)].folderName
             /\ NoEntries(Would(Now, s), Target(s)) /\ KindsOK(s)
  <2>1. FenceOK(Now, s) /\ KindsOK(s) /\ TargetOK(Now, s)
    BY <1>2, <1>5, OpenParts, PlanParts
  <2> QED
    BY <1>1, <1>2, <1>4, <2>1, StateFields, RowFacts DEF FenceOK, TargetOK, Target, FencePcs
<1>6. FolderDuty(s, "fence.delete", folder)
  <2> SUFFICES ASSUME Open(Now, s)
               PROVE  /\ folder \in Folders /\ UploadOf(folder) \in issued
                      /\ \A x \in Pending(s) : db[x] # Absent => db[x].folderName = folder
                      /\ \A o \in Owners : Would(Now, s)[o] # Absent =>
                           Would(Now, s)[o].folderName # folder \/ o = Target(s)
    BY DEF FolderDuty
  <2> DEFINE l == Target(s)
             S == Would(Now, s)
  <2>1. /\ l \in RowsOf("location") /\ l \in Owners /\ l \in Rows /\ Puts(s, l) /\ db[l] # Absent
        /\ folder = s.writes[l].folderName
    BY <1>5, TableRows
  <2>2. RowsOK(Now, s) /\ Committed(Now) /\ WouldInv(Now, s) /\ PlanInv(Now, s) /\ Shape(s)
    BY <1>2, OpenParts, ProcessFacts
  <2> HIDE DEF l
  <2>3. RowOK(l, s.writes[l]) /\ Evolves(l, db[l], s.writes[l])
    BY <2>1, <2>2, StateFields DEF RowsOK, Puts
  <2>4. folder \in Whole /\ folder = db[l].folderName
    <3>1. LocationOK(s.writes[l])
      BY <2>1, <2>3, RowKinds
    <3>2. s.writes[l].folderName \in Whole
      BY <3>1, MergedFacts
    <3>3. s.writes[l].folderName = db[l].folderName
      BY <2>1, <2>3, EvolvesKinds
    <3> QED
      BY <2>1, <3>2, <3>3
  <2>5. folder \in Folders
    BY <2>4, Referred
  <2>6. UploadOf(folder) \in issued
    BY <2>1, <2>2, <2>4, StateFields DEF Committed, Known
  <2>7. Pending(s) = {}
    BY <1>1 DEF Pending
  <2>8. OneOwner(S, Pair(s)) /\ S[l] = s.writes[l] /\ S[l] # Absent
    <3>1. OneOwner(S, Pair(s))
      BY <2>2 DEF WouldInv
    <3>2. S[l] = s.writes[l]
      <4>1. Grown(S, s.writes, db)
        BY WouldGrown, StateFields
      <4> HIDE DEF S
      <4> QED
        BY <2>1, <4>1 DEF Puts, Grown
    <3> QED
      BY <2>1, <3>1, <3>2 DEF Puts
  <2>9. l \notin Pair(s)
    <3>1. CASE s.job.kind = "complete"
      <4>1. Adds(Now, s, NewRow(s)) /\ UploadTaken(Now, s)
        BY <1>1, <1>2, <2>2, <3>1, PlanParts, ProcessFacts DEF CompleteOK
      <4>2. NewRow(s) # l
        BY <2>1, <4>1, StateFields DEF Adds
      <4>3. UploadRow(s) # l
        BY <2>1, RowFacts DEF UploadRow
      <4> QED
        BY <4>2, <4>3 DEF Pair
    <3>2. CASE s.job.kind # "complete"
      BY <3>2 DEF Pair
    <3> QED
      BY <3>1, <3>2
  <2>10. ASSUME NEW o \in Owners, S[o] # Absent, o # l
         PROVE  S[o].folderName # folder
    <3> HIDE DEF S
    <3>1. S[l].folderName = folder
      BY <2>1, <2>8
    <3> QED
      BY <2>1, <2>8, <2>9, <2>10, <3>1 DEF OneOwner
  <2> QED
    BY <2>5, <2>6, <2>7, <2>10 DEF l
<1>7. EnqueueGoal(s, "fence.delete", folder)
  <2> SUFFICES ASSUME NEW t, EnqueueAsks(s, t, "fence.delete", folder)
               PROVE  PlanInv(Now, t)
    BY DEF EnqueueGoal
  <2>1. /\ Open(Now, s) /\ t.pc = "fence.delete" /\ t.job = s.job /\ SameReg(s, t)
    BY DEF EnqueueAsks
  <2>2. EnqueueKeeps(s, t, folder)
    <3>1. s = proc[p]
      BY <1>2
    <3> QED
      BY <3>1, EnqueueKept
  <2>3. t.reg.location = s.reg.location
    BY <1>5, <2>1 DEF SameReg
  <2>4. Target(t) = Target(s)
    BY <2>3 DEF Target
  <2>5. t.writes[Target(t)] = s.writes[Target(s)]
    BY <1>5, <2>1, <2>2, <2>4 DEF EnqueueKeeps, Puts
  <2>6. \A e \in RowsOf("entry") : Would(Now, t)[e] = Would(Now, s)[e]
    BY <2>2 DEF EnqueueKeeps
  <2>7. FenceOK(Now, t)
    <3> DEFINE S == Would(Now, s)
               T == Would(Now, t)
    <3>1. NoEntries(S, Target(s)) /\ \A e \in RowsOf("entry") : T[e] = S[e]
      BY <1>5, <2>1, <2>6
    <3> HIDE DEF S, T
    <3>2. NoEntries(T, Target(t))
      BY <2>4, <3>1 DEF NoEntries
    <3>3. NoEntries(Would(Now, t), Target(t))
      BY <3>2 DEF T
    <3>4. \E x \in RowsOf("deletion") : Puts(t, x) /\ t.writes[x].folderName = folder
      BY <2>2 DEF EnqueueKeeps
    <3>5. folder = t.writes[Target(t)].folderName
      BY <1>5, <2>1, <2>5
    <3> QED
      BY <2>1, <3>3, <3>4, <3>5 DEF FenceOK
  <2>8. KindsOK(t)
    BY <1>1, <1>5, <2>1 DEF KindsOK, AcquirePcs, CompletePcs, EvictPcs, OrphanPcs, FencePcs
  <2>9. ClaimOK(Now, t)
    BY <2>1 DEF ClaimOK, ClaimPcs
  <2>10. s.pc \in LockedPcs /\ s.pc # "fence.delete"
    BY <1>1, <1>4
  <2>11. s = proc[p]
    BY <1>2
  <2>12. s.job.kind = "complete" => s.pc \in FencePcs /\ "fence.delete" = "fence.delete"
    BY <1>4
  <2> QED
    BY <2>7, <2>8, <2>9, <2>10, <2>11, <2>12, TargetEnqueued
<1>10. /\ s.pc \notin {"commit", "complete", "fence.delete"}
       /\ "fence.delete" \notin {"idle", "complete", "rollback"}
  BY <1>1
<1>11. s = proc[p] /\ Free("deletion") # {} /\ Does(p, did, pc)
  BY <1>1, <1>2
<1>12. "fence.delete" \in TargetPcs => s.pc \in TargetPcs
  BY <1>4
<1>13. s.job.kind = "complete" => "fence.delete" \in CompleteStays
  BY DEF CompleteStays, FencePcs
<1>14. pc \in {"fence.delete", "rollback"} /\ did = CreateDeletion(p, DeletionValues(folder, clock))
  BY <1>2
<1> QED
  BY <1>3, <1>6, <1>7, <1>10, <1>11, <1>12, <1>13, <1>14, Enqueues

-----------------------------------------------------------------------------
(* An upload begins.                                                         *)

\* The hash of a tuple tells tuples apart.
LEMMA HashKey ==
  ASSUME NEW a, NEW b, UploadOK(a), UploadOK(b), KeyOf(a) = KeyOf(b)
  PROVE  a.tupleHash = b.tupleHash
<1>1. /\ a.tupleHash = [key |-> a.key, version |-> a.version, scope |-> a.scope,
           repoId |-> a.repoId]
      /\ b.tupleHash = [key |-> b.key, version |-> b.version, scope |-> b.scope,
           repoId |-> b.repoId]
  BY DEF UploadOK
<1>2. a.key = b.key /\ a.version = b.version /\ a.scope = b.scope /\ a.repoId = b.repoId
  BY DEF KeyOf
<1> QED
  BY <1>1, <1>2

(* A folder that is named after a row that was never issued is nobody's.      *)
LEMMA NewFolder ==
  ASSUME NEW g, Committed(g), NEW id \in Upload, <<"upload", id>> \notin g.issued,
         NEW x \in Owners \cup RowsOf("deletion"), g.db[x] # Absent
  PROVE  g.db[x].folderName # Folder(id)
<1>1. x \in Rows /\ UploadOf(g.db[x].folderName) \in g.issued
  BY TableRows DEF Committed, Known
<1>2. UploadOf(Folder(id)) = <<"upload", id>>
  BY Referred DEF UploadOf
<1> QED
  BY <1>1, <1>2

\* A session of a tuple is inserted once.
LEMMA UploadInsertKeeps ==
  ASSUME TransactionInv, NEW p \in Process, UploadInsert(p)
  PROVE  TransactionInv'
<1> DEFINE s == proc[p]
           id == FreeID("upload")
           values == UploadValues(Tuple, Folder(id), clock)
           did == Create(p, "upload", id, values)
           r == <<"upload", id>>
           row == Inserted("upload", id, values)
           pc == IF did.result THEN "commit" ELSE "rollback"
           reg == <<>>
<1>1. s.pc = "upload" /\ Free("upload") # {} /\ Does(p, did, pc)
  BY DEF UploadInsert, Inserts, At, CreateUpload
<1>2. Moves(p, did, pc, reg) /\ DOMAIN reg = {}
  BY <1>1, MovesNothing
<1>3. /\ s = proc[p] /\ id = FreeID("upload") /\ did = Create(p, "upload", id, values)
      /\ r = <<"upload", id>> /\ row = Inserted("upload", id, values) /\ "upload" \in Tables
      /\ values = UploadValues(Tuple, Folder(id), clock)
      /\ pc \in {"commit", "rollback"} /\ (pc = "commit" => did.result)
  BY RowFacts
<1> HIDE DEF s, id, values, did, r, row, pc, reg
<1>4. Ours(s)
  BY <1>1 DEF Ours
<1>5. s.job.kind # "complete"
  BY <1>1, <1>3, <1>4, KindFacts DEF CompletePcs, FencePcs
<1>6. Unclaimed(r) /\ r \in RowsOf("upload") /\ r[1] = "upload" /\ id \in Upload /\ r[2] = id
  BY <1>1, <1>3, FreeFacts DEF Unclaimed, Ids
<1>6a. r \notin RowsOf("entry") \cup RowsOf("lease") \cup RowsOf("location") \cup RowsOf("deletion")
  BY <1>6, RowFacts
<1>6b. r \notin issued
  BY <1>6 DEF Unclaimed
<1>7. UploadOK(row) /\ row.id = id /\ row.tupleHash # Null /\ row.folderName = Folder(id)
  <2>1. clock \in Nat
    BY ProcessFacts
  <2>2. UploadOK(row) /\ row.id = id /\ row.tupleHash # Null
    BY <1>3, <1>6, <2>1, NewUploadRow
  <2> QED
    BY <2>2 DEF UploadOK
<1>8. RowOK(r, row) /\ row # Absent
  BY <1>3, <1>6, <1>7, KindsRow, InsertedRow
<1>9. ASSUME did.waits = {}
      PROVE  Unrivalled(p, r, row)
  <2>1. Inserting(p, r, row) = {}
    BY <1>3, <1>9, CreateFacts
  <2>2. Twinless(p, row)
    BY <1>6, <2>1, InsertingFacts DEF Unclaimed
  <2> SUFFICES ASSUME NEW q \in Process \ {p}, NEW v \in RowsOf("upload"), Open(Now, proc[q]),
                      Adds(Now, proc[q], v)
               PROVE  KeyOf(row) # KeyOf(proc[q].writes[v])
    BY DEF Unrivalled
  <2>3. Puts(proc[q], v)
    BY DEF Adds
  <2>4. RowOK(v, proc[q].writes[v])
    <3>1. RowsOK(Now, proc[q])
      BY OpenParts
    <3> QED
      BY <2>3, <3>1 DEF RowsOK, Puts
  <2>5. UploadOK(proc[q].writes[v])
    BY <2>4, RowKinds
  <2>6. proc[q].writes[v].tupleHash # row.tupleHash
    BY <1>7, <2>2, <2>3 DEF Twinless
  <2> QED
    BY <1>7, <2>5, <2>6, HashKey
<1>10. ASSUME pc = "commit", NEW t, InsertAsks(s, t, pc, reg, r, row)
       PROVE  WritesInv(Now, t) /\ WouldInv(Now, t) /\ PlanInv(Now, t)
  <2>1. /\ Open(Now, s) /\ t.pc = "commit" /\ t.job = s.job /\ t.snap = s.snap
        /\ t.shared = s.shared \cup Parent(r, row)
        /\ \E N : DOMAIN N = {r} /\ N[r] = row /\ Grown(t.writes, N, s.writes)
    BY <1>10 DEF InsertAsks
  <2>2. KindsOK(s) /\ FirstOK(s) /\ PlanInv(Now, s) /\ Committed(Now)
    BY <1>3, <2>1, OpenParts, PlanParts, ProcessFacts
  <2>3. DOMAIN s.writes = {}
    BY <1>1, <2>2 DEF FirstOK, FirstPcs
  <2> DEFINE S == Would(Now, s)
  <2>4. \A o \in Rows : S[o] = db[o]
    BY <1>3, <2>3, Unwritten
  <2> SUFFICES WritesInv(Now, t) /\ WouldInv(Now, t) /\ PlanInv(Now, t)
    OBVIOUS
  <2>5. UploadFits(S, r, row)
    <3>1. Duplicates(S, r, row) = {}
      BY <1>3, <1>10, <1>6, CreateFacts
    <3>1a. \A u \in RowsOf("upload") : S[u] # Absent => UploadOK(S[u]) /\ u # r
      <4> SUFFICES ASSUME NEW u \in RowsOf("upload"), S[u] # Absent
                   PROVE  UploadOK(S[u]) /\ u # r
        OBVIOUS
      <4>1. u \in Rows /\ S[u] = db[u]
        BY <2>4, TableRows
      <4> HIDE DEF S
      <4>2. RowOK(u, db[u]) /\ u \in issued
        BY <2>2, <4>1, CommittedFacts, StateFields
      <4> QED
        BY <1>6b, <4>1, <4>2, RowKinds
    <3> HIDE DEF S
    <3> SUFFICES ASSUME NEW u \in RowsOf("upload"), S[u] # Absent, KeyOf(S[u]) = KeyOf(row)
                 PROVE  FALSE
      BY DEF UploadFits
    <3>2. UploadOK(S[u]) /\ u # r
      BY <3>1a
    <3>3. S[u].tupleHash = row.tupleHash
      BY <1>7, <3>2, HashKey
    <3> QED
      BY <1>6, <1>7, <3>1, <3>2, <3>3 DEF Duplicates
  <2>6. \A x \in Owners \cup RowsOf("deletion") : S[x] # Absent => S[x].folderName # row.folderName
    <3> SUFFICES ASSUME NEW x \in Owners \cup RowsOf("deletion"), S[x] # Absent
                 PROVE  S[x].folderName # row.folderName
      OBVIOUS
    <3>1. S[x] = db[x]
      BY <2>4, TableRows
    <3> HIDE DEF S
    <3>2. db[x].folderName # Folder(id)
      BY <1>3, <1>6, <1>6b, <2>2, <3>1, NewFolder, StateFields
    <3> QED
      BY <1>7, <3>1, <3>2
  <2>7. Pair(s) = {} /\ Spared(s) = {} /\ Pending(s) = {}
    BY <1>1, <1>5 DEF Pair, Spared, Pending
  <2>8. InsertDuty(Now, s, t, r, row)
    BY <1>6a, <1>8, <2>7 DEF InsertDuty
  <2>9. Fits(s, t, r, row)
    <3>1. OwnerFits(S, r, row, Pair(t)) /\ QueueFits(S, r, row, Spared(t)) /\ LeaseFits(S, r, row)
      <4> HIDE DEF S
      <4> QED
        BY <1>6a, <2>6 DEF OwnerFits, QueueFits, LeaseFits
    <3> QED
      BY <1>6a, <2>5, <2>8, <3>1 DEF Fits
  <2>10. WritesInv(Now, t) /\ WouldInv(Now, t)
    <3>1. s = proc[p] /\ s.shared \subseteq t.shared
      BY <1>3, <2>1
    <3> HIDE DEF S
    <3> QED
      BY <1>6, <1>6a, <2>1, <2>3, <2>7, <2>9, <3>1, InsertKeeps
  <2>11. s.job.kind \notin {"complete", "evict"}
    BY <1>1, <1>5, <2>2 DEF KindsOK, EvictPcs, FencePcs
  <2>12. PlanInv(Now, t)
    BY <2>1, <2>2, <2>11, InsertCommits
  <2> QED
    BY <2>10, <2>12
<1>11. pc # "rollback" => InsertGoal(s, pc, reg, r, row)
  BY <1>3, <1>10 DEF InsertGoal
<1>12. s.pc # "commit" /\ pc # "idle"
  BY <1>1, <1>3
<1> QED
  BY <1>1, <1>2, <1>3, <1>4, <1>5, <1>9, <1>11, <1>12, InsertMoves, ZenonT(60)

-----------------------------------------------------------------------------
(* A completion begins.                                                      *)

Created(s, t, id, r, row) ==
  /\ \E reg : DOMAIN reg = {"new"} /\ reg["new"] = id /\ Grown(t.reg, reg, s.reg)
  /\ r = <<"location", id>>
  /\ \E N : DOMAIN N = {r} /\ N[r] = row /\ Grown(t.writes, N, s.writes)

(* The plan of a completion that has inserted its location.                  *)
LEMMA CreatePlan ==
  ASSUME TransactionInv, NEW p \in Process, NEW s, s = proc[p], Open(Now, s), s.pc = "complete",
         DOMAIN s.writes = {}, NEW t, t.job = s.job, t.snap = s.snap, t.pc = "complete.entry",
         NEW id \in Location, NEW r \in RowsOf("location"), NEW row, row # Absent,
         row.folderName = Folder(s.job.upload), row.deletionRequestedAt = Null, db[r] = Absent,
         Created(s, t, id, r, row)
  PROVE  PlanInv(Now, t)
<1> PICK N : DOMAIN N = {r} /\ N[r] = row /\ Grown(t.writes, N, s.writes)
  BY DEF Created
<1> PICK reg : DOMAIN reg = {"new"} /\ reg["new"] = id /\ Grown(t.reg, reg, s.reg)
  BY DEF Created
<1>0. r = <<"location", id>>
  BY DEF Created
<1>1. /\ KindsOK(s) /\ SnapOK(Now, s) /\ RequestOK(Now, s) /\ UploadsOK(Now, s)
      /\ CompleteOK(Now, s)
  BY OpenParts, PlanParts
<1>2. s.job.kind = "complete"
  BY <1>1 DEF KindsOK, CompletePcs
<1>3. /\ {"upload", "now"} \subseteq DOMAIN s.reg /\ s.reg.now \in Nat
      /\ UploadOK(s.reg.upload) /\ s.reg.upload.id = s.job.upload
      /\ KeyOf(db[UploadRow(s)]) = KeyOf(s.reg.upload) /\ s.snap = Null
  BY <1>1, <1>2, StateFields DEF CompleteOK
<1>4. /\ DOMAIN t.reg = DOMAIN s.reg \cup {"new"} /\ t.reg.new = id
      /\ t.reg.upload = s.reg.upload /\ t.reg.now = s.reg.now
  BY <1>3 DEF Grown
<1>5. NewRow(t) = r /\ UploadRow(t) = UploadRow(s)
  BY <1>0, <1>4 DEF NewRow, UploadRow
<1>6. Adds(Now, t, r) /\ t.writes[r] = row /\ DOMAIN t.writes = {r}
  BY StateFields DEF Adds, Puts, Grown
<1>7. DOMAIN t.writes \cap RowsOf("entry") = {}
  BY <1>6, TablesApart, RowFacts
<1>8. KindsOK(t)
  BY <1>2 DEF KindsOK, AcquirePcs, CompletePcs, EvictPcs, OrphanPcs, FencePcs
<1>9. FirstOK(t) /\ AcquireOK(Now, t) /\ FenceOK(Now, t) /\ ClaimOK(Now, t) /\ TargetOK(Now, t)
  BY DEF FirstOK, FirstPcs, OrphanPcs, AcquireOK, AcquirePcs, FenceOK, FencePcs, ClaimOK,
         ClaimPcs, TargetOK, TargetPcs, LockedPcs
<1>10. SnapOK(Now, t)
  BY <1>3 DEF SnapOK
<1>11. RequestOK(Now, t)
  BY <1>2 DEF RequestOK
<1>12. UploadsOK(Now, t)
  BY <1>1, UploadsOther DEF OrphanPcs
<1>13. CompleteOK(Now, t)
  BY <1>2, <1>3, <1>4, <1>5, <1>6, <1>7, StateFields DEF CompleteOK, FencePcs
<1> QED
  BY <1>8, <1>9, <1>10, <1>11, <1>12, <1>13 DEF PlanInv

\* A completion inserts its location.
LEMMA CompleteCreateKeeps ==
  ASSUME TransactionInv, NEW p \in Process, CompleteCreate(p)
  PROVE  TransactionInv'
<1> DEFINE s == proc[p]
           id == FreeID("location")
           folder == s.reg.upload.folderName
           now == s.reg.now
           values == LocationValues(folder, 2, 1, now)
           did == Create(p, "location", id, values)
           r == <<"location", id>>
           row == Inserted("location", id, values)
           pc == IF did.result THEN "complete.entry" ELSE "rollback"
           reg == [new |-> did.id]
<1>1. s.pc = "complete" /\ Free("location") # {} /\ Keeps(p, did, pc, reg)
  BY DEF CompleteCreate, Inserts, At, CreateLocation, CreateNew
<1>2. Moves(p, did, pc, reg)
  BY <1>1 DEF Moves
<1>3. /\ s = proc[p] /\ id = FreeID("location") /\ did = Create(p, "location", id, values)
      /\ r = <<"location", id>> /\ row = Inserted("location", id, values) /\ "location" \in Tables
      /\ values = LocationValues(folder, 2, 1, now) /\ folder = s.reg.upload.folderName
      /\ now = s.reg.now
      /\ pc \in {"complete.entry", "rollback"} /\ (pc = "complete.entry" => did.result)
      /\ DOMAIN reg = {"new"} /\ reg["new"] = did.id
  BY RowFacts
<1> HIDE DEF s, id, folder, now, values, did, r, row, pc, reg
<1>4. Ours(s)
  BY <1>1 DEF Ours
<1>6. Unclaimed(r) /\ r \in RowsOf("location") /\ r[1] = "location" /\ id \in Location /\ r[2] = id
  BY <1>1, <1>3, FreeFacts DEF Unclaimed, Ids
<1>6a. r \notin RowsOf("entry") \cup RowsOf("lease") \cup RowsOf("upload") \cup RowsOf("deletion")
  BY <1>6, RowFacts
<1>7. reg["new"] = id
  BY <1>3, CreateFacts
<1>9. Unrivalled(p, r, row)
  BY <1>6a DEF Unrivalled
<1>10. ASSUME pc = "complete.entry", NEW t, InsertAsks(s, t, pc, reg, r, row)
       PROVE  WritesInv(Now, t) /\ WouldInv(Now, t) /\ PlanInv(Now, t)
  <2>1. /\ Open(Now, s) /\ t.pc = "complete.entry" /\ t.job = s.job /\ t.snap = s.snap
        /\ t.shared = s.shared \cup Parent(r, row) /\ Grown(t.reg, reg, s.reg)
        /\ \E N : DOMAIN N = {r} /\ N[r] = row /\ Grown(t.writes, N, s.writes)
    BY <1>10 DEF InsertAsks
  <2>2. KindsOK(s) /\ FirstOK(s) /\ CompleteOK(Now, s) /\ Committed(Now) /\ UploadTaken(Now, s)
    BY <1>3, <2>1, OpenParts, PlanParts, ProcessFacts
  <2>3. DOMAIN s.writes = {} /\ s.job.kind = "complete"
    BY <1>1, <2>2 DEF FirstOK, FirstPcs, KindsOK, CompletePcs
  <2>3a. /\ s.job.upload \in Upload /\ folder = Folder(s.job.upload) /\ now \in Nat
         /\ db[UploadRow(s)] # Absent /\ folder \in Whole
    <3>1. s.job.upload \in Upload
      BY <1>4, <2>2, <2>3 DEF UploadTaken
    <3>2. folder = Folder(s.job.upload) /\ now \in Nat
      BY <1>3, <2>2, <2>3 DEF CompleteOK, UploadOK
    <3>3. db[UploadRow(s)] # Absent
      BY <2>1, <2>3, StateFields DEF Open, Entitled
    <3>4. folder \in Whole
      BY <3>1, <3>2, Referred
    <3> QED
      BY <3>1, <3>2, <3>3, <3>4
  <2>3b. /\ LocationOK(row) /\ row.id = id /\ row.folderName = folder
         /\ row.deletionRequestedAt = Null /\ row.partsDeletedAt = Null
    BY <1>3, <1>6, <2>3a, NewLocationRow
  <2>3c. RowOK(r, row) /\ row # Absent
    <3>1. row # Absent
      BY ONLY <1>3, InsertedRow
    <3>2. r[1] = "location" /\ r[2] = row.id
      BY <1>6, <2>3b
    <3> QED
      BY ONLY <2>3b, <3>1, <3>2 DEF RowOK
  <2> DEFINE S == Would(Now, s)
             u == UploadRow(s)
  <2>4. \A o \in Rows : S[o] = db[o]
    BY <1>3, <2>3, Unwritten
  <2> SUFFICES WritesInv(Now, t) /\ WouldInv(Now, t) /\ PlanInv(Now, t)
    OBVIOUS
  <2>5. u \in RowsOf("upload") /\ u \in Owners /\ u \in Rows /\ db[u] # Absent /\
          db[u].folderName = folder
    <3>1. u \in RowsOf("upload") /\ u[2] = s.job.upload
      BY <2>3a, RowFacts DEF UploadRow
    <3> HIDE DEF u
    <3>2. db[u] # Absent
      BY <2>3a DEF u
    <3> QED
      BY <2>2, <2>3a, <3>1, <3>2, UploadFolder, TableRows, StateFields
  <2>6. t.reg.new = id /\ NewRow(t) = r /\ Pair(t) = {u, r}
    <3>1. t.reg.new = id
      BY <1>3, <1>7, <2>1 DEF Grown
    <3>2. NewRow(t) = r
      BY <1>3, <3>1 DEF NewRow
    <3> QED
      BY <2>1, <2>3, <3>1, <3>2 DEF Pair, UploadRow
  <2>7. Pair(s) = {} /\ Spared(s) = {} /\ Pending(s) = {} /\ Spared(t) = {}
    BY <1>1, <2>1 DEF Pair, Spared, Pending
  <2> HIDE DEF u
  <2>8. InsertDuty(Now, s, t, r, row)
    BY <1>6a, <2>1, <2>3, <2>3c, <2>6, <2>7 DEF InsertDuty
  <2>9. OwnerFits(S, r, row, Pair(t))
    <3> SUFFICES ASSUME NEW o \in Owners, S[o] # Absent, ~({r, o} \subseteq Pair(t))
                 PROVE  S[o].folderName # row.folderName
      BY DEF OwnerFits
    <3>1. S[o] = db[o] /\ o # u
      BY <2>4, <2>6, TableRows
    <3>2. OneOwner(db, {})
      BY <2>2, StateFields DEF Committed
    <3> HIDE DEF S
    <3>3. db[o].folderName # db[u].folderName
      BY <2>5, <3>1, <3>2 DEF OneOwner
    <3> QED
      BY <2>3b, <2>5, <3>1, <3>3
  <2>10. QueueFits(S, r, row, Spared(t))
    <3> SUFFICES ASSUME NEW x \in RowsOf("deletion"), S[x] # Absent
                 PROVE  S[x].folderName # row.folderName
      BY <1>6a DEF QueueFits
    <3>1. S[x] = db[x]
      BY <2>4, TableRows
    <3>2. QueueFree(db, {})
      BY <2>2, StateFields DEF Committed
    <3> HIDE DEF S
    <3>3. db[x].folderName[2] = "" => db[x].folderName # db[u].folderName
      BY <2>5, <3>1, <3>2 DEF QueueFree
    <3>4. folder[2] = ""
      BY <2>3a DEF Folder
    <3> QED
      BY <2>3b, <2>5, <3>1, <3>3, <3>4
  <2>11. Fits(s, t, r, row)
    BY <1>6a, <2>3b, <2>8, <2>9, <2>10, TableRows DEF Fits, LeaseFits, UploadFits
  <2>12. WritesInv(Now, t) /\ WouldInv(Now, t)
    <3>1. s = proc[p] /\ s.shared \subseteq t.shared
      BY <1>3, <2>1
    <3> HIDE DEF S
    <3> QED
      BY <1>6, <1>6a, <2>1, <2>3, <2>7, <2>11, <3>1, InsertKeeps
  <2>13. PlanInv(Now, t)
    <3>1. /\ Open(Now, s) /\ s.pc = "complete" /\ DOMAIN s.writes = {} /\ t.job = s.job
          /\ t.snap = s.snap /\ t.pc = "complete.entry" /\ row # Absent
          /\ row.deletionRequestedAt = Null
      BY <1>1, <2>1, <2>3, <2>3b, <2>3c
    <3>1a. Created(s, t, id, r, row)
      BY <1>3, <1>7, <2>1 DEF Created
    <3>2. s = proc[p] /\ db[r] = Absent
      <4>1. s = proc[p]
        BY <1>3
      <4> QED
        BY <1>6, <4>1, UnclaimedFacts
    <3>3. row.folderName = Folder(s.job.upload)
      BY <2>3a, <2>3b
    <3> HIDE DEF S
    <3> QED
      BY <1>6, <3>1, <3>1a, <3>2, <3>3, CreatePlan
  <2> QED
    BY <2>12, <2>13
<1>11. pc # "rollback" => InsertGoal(s, pc, reg, r, row)
  BY <1>3, <1>10 DEF InsertGoal
<1>12. s.pc # "commit" /\ pc # "idle"
  BY <1>1, <1>3
<1>13. s.job.kind = "complete" => pc \in CompleteStays /\ "location" # "upload"
  BY <1>3 DEF CompleteStays, CompletePcs
<1> QED
  BY <1>1, <1>2, <1>3, <1>4, <1>9, <1>11, <1>12, <1>13, InsertMoves

-----------------------------------------------------------------------------
(* The entry of a tuple that had none.                                       *)

LEMMA InsertEntryPlan ==
  ASSUME TransactionInv, NEW p \in Process, NEW s, s = proc[p], Open(Now, s),
         s.pc = "complete.insert", NEW t, t.job = s.job, t.snap = s.snap, t.pc = "complete.blocks",
         SameReg(s, t), NEW r \in RowsOf("entry"), NEW row, row # Absent,
           row.locationId = s.reg.new,
         \E N : DOMAIN N = {r} /\ N[r] = row /\ Grown(t.writes, N, s.writes)
  PROVE  PlanInv(Now, t)
<1> PICK N : DOMAIN N = {r} /\ N[r] = row /\ Grown(t.writes, N, s.writes)
  OBVIOUS
<1>1. /\ KindsOK(s) /\ SnapOK(Now, s) /\ RequestOK(Now, s) /\ UploadsOK(Now, s)
      /\ CompleteOK(Now, s)
  BY OpenParts, PlanParts
<1>2. s.job.kind = "complete"
  BY <1>1 DEF KindsOK, CompletePcs
<1>3. /\ {"upload", "now"} \subseteq DOMAIN s.reg /\ s.reg.now \in Nat
      /\ UploadOK(s.reg.upload) /\ s.reg.upload.id = s.job.upload
      /\ KeyOf(db[UploadRow(s)]) = KeyOf(s.reg.upload)
      /\ "new" \in DOMAIN s.reg /\ s.reg.new \in Location /\ Adds(Now, s, NewRow(s))
      /\ s.writes[NewRow(s)].folderName = Folder(s.job.upload)
      /\ s.writes[NewRow(s)].deletionRequestedAt = Null
  BY <1>1, <1>2, StateFields DEF CompleteOK
<1>4. /\ DOMAIN t.reg = DOMAIN s.reg /\ t.reg.new = s.reg.new
      /\ t.reg.upload = s.reg.upload /\ t.reg.now = s.reg.now
  BY <1>3 DEF SameReg
<1>5. NewRow(t) = NewRow(s) /\ UploadRow(t) = UploadRow(s) /\ NewRow(s) \in RowsOf("location")
  BY <1>3, <1>4, RowFacts DEF NewRow, UploadRow
<1>6. Puts(t, NewRow(s)) /\ t.writes[NewRow(s)] = s.writes[NewRow(s)] /\ db[NewRow(s)] = Absent
  <2>1. NewRow(s) # r
    BY <1>5, TablesApart, RowFacts
  <2> QED
    BY <1>3, <2>1, StateFields DEF Adds, Puts, Grown
<1>7. Puts(t, r) /\ t.writes[r].locationId = t.reg.new
  BY <1>4 DEF Puts, Grown
<1>8. KindsOK(t)
  BY <1>2 DEF KindsOK, AcquirePcs, CompletePcs, EvictPcs, OrphanPcs, FencePcs
<1>9. FirstOK(t) /\ AcquireOK(Now, t) /\ FenceOK(Now, t) /\ ClaimOK(Now, t) /\ TargetOK(Now, t)
  BY DEF FirstOK, FirstPcs, OrphanPcs, AcquireOK, AcquirePcs, FenceOK, FencePcs, ClaimOK,
         ClaimPcs, TargetOK, TargetPcs, LockedPcs
<1>10. SnapOK(Now, t)
  <2>1. t.pc \notin TargetPcs
    BY DEF TargetPcs, LockedPcs, FencePcs, ClaimPcs
  <2> QED
    BY <1>1, <2>1, SnapKept
<1>11. RequestOK(Now, t)
  BY <1>2 DEF RequestOK
<1>12. UploadsOK(Now, t)
  BY <1>1, UploadsOther DEF OrphanPcs
<1>13. CompleteOK(Now, t)
  <2>1. \E e \in RowsOf("entry") : Puts(t, e) /\ t.writes[e].locationId = t.reg.new
    BY <1>7
  <2>2. Adds(Now, t, NewRow(t))
    BY <1>5, <1>6, StateFields DEF Adds
  <2> QED
    BY <1>2, <1>3, <1>4, <1>5, <1>6, <2>1, <2>2, StateFields DEF CompleteOK
<1> QED
  BY <1>8, <1>9, <1>10, <1>11, <1>12, <1>13 DEF PlanInv

\* The entry of the tuple is inserted.
LEMMA CompleteInsertKeeps ==
  ASSUME TransactionInv, NEW p \in Process, CompleteInsert(p)
  PROVE  TransactionInv'
<1> DEFINE s == proc[p]
           id == FreeID("entry")
           values == EntryValues(s.reg.upload, s.reg.now, s.reg.new)
           did == Create(p, "entry", id, values)
           r == <<"entry", id>>
           row == Inserted("entry", id, values)
           pc == IF did.result THEN "complete.blocks" ELSE "rollback"
           reg == <<>>
<1>1. s.pc = "complete.insert" /\ Free("entry") # {} /\ Does(p, did, pc)
  BY DEF CompleteInsert, Inserts, At, CreateEntry, CreateNew
<1>2. Moves(p, did, pc, reg) /\ DOMAIN reg = {}
  BY <1>1, MovesNothing
<1>3. /\ s = proc[p] /\ id = FreeID("entry") /\ did = Create(p, "entry", id, values)
      /\ r = <<"entry", id>> /\ row = Inserted("entry", id, values) /\ "entry" \in Tables
      /\ values = EntryValues(s.reg.upload, s.reg.now, s.reg.new)
      /\ pc \in {"complete.blocks", "rollback"}
  BY RowFacts
<1> HIDE DEF s, id, values, did, r, row, pc, reg
<1>4. Ours(s)
  BY <1>1 DEF Ours
<1>6. Unclaimed(r) /\ r \in RowsOf("entry") /\ r[1] = "entry" /\ id \in Entry /\ r[2] = id
  BY <1>1, <1>3, FreeFacts DEF Unclaimed, Ids
<1>6a. r \notin RowsOf("upload")
  BY <1>6, RowFacts
<1>9. Unrivalled(p, r, row)
  BY <1>6a DEF Unrivalled
<1>10. ASSUME pc = "complete.blocks", NEW t, InsertAsks(s, t, pc, reg, r, row)
       PROVE  WritesInv(Now, t) /\ WouldInv(Now, t) /\ PlanInv(Now, t)
  <2>1. /\ Open(Now, s) /\ t.pc = "complete.blocks" /\ t.job = s.job /\ t.snap = s.snap
        /\ t.shared = s.shared \cup Parent(r, row) /\ Grown(t.reg, reg, s.reg)
        /\ \E N : DOMAIN N = {r} /\ N[r] = row /\ Grown(t.writes, N, s.writes)
    BY <1>10 DEF InsertAsks
  <2>2. KindsOK(s) /\ CompleteOK(Now, s) /\ Committed(Now) /\ Shape(s) /\ WritesInv(Now, s)
    BY <1>3, <2>1, OpenParts, PlanParts, ProcessFacts
  <2>3. s.job.kind = "complete"
    BY <1>1, <2>2 DEF KindsOK, CompletePcs
  <2>4. /\ {"upload", "now", "new"} \subseteq DOMAIN s.reg /\ s.reg.now \in Nat
        /\ UploadOK(s.reg.upload) /\ s.reg.new \in Location
        /\ DOMAIN s.writes \cap RowsOf("entry") = {}
        /\ \A e \in RowsOf("entry") : db[e] # Absent => KeyOf(db[e]) # KeyOf(s.reg.upload)
    BY <1>1, <2>2, <2>3, StateFields DEF CompleteOK
  <2>5. /\ EntryOK(row) /\ row.id = id /\ KeyOf(row) = KeyOf(s.reg.upload)
        /\ row.locationId = s.reg.new
    <3>1. LET tuple == s.reg.upload IN
            tuple.key # Null /\ tuple.version # Null /\ tuple.scope # Null /\ tuple.repoId # Null
      BY <2>4 DEF UploadOK
    <3> QED
      BY <1>3, <1>6, <2>4, <3>1, NewEntryRow
  <2>6. RowOK(r, row) /\ row # Absent
    BY <1>3, <1>6, <2>5, KindsRow, InsertedRow
  <2>7. SameReg(s, t)
    BY <1>2, <2>1 DEF SameReg, Grown
  <2>8. t.reg.new = s.reg.new /\ t.reg.upload = s.reg.upload
    BY <2>4, <2>7 DEF SameReg
  <2>9. db[r] = Absent /\ s = proc[p]
    <3>1. s = proc[p]
      BY <1>3
    <3> QED
      BY <1>6, <3>1, UnclaimedFacts
  <2>10. PICK N : DOMAIN N = {r} /\ N[r] = row /\ Grown(t.writes, N, s.writes)
    BY <2>1
  <2>11. \A x \in DOMAIN N : x = r
    BY <2>10
  <2>12. WouldInv(Now, t)
    <3>1. r \in DOMAIN N =>
            /\ N[r] # Absent /\ RowOK(r, N[r]) /\ N[r].locationId = s.reg.new
            /\ \A f \in RowsOf("entry") : f # r /\ db[f] # Absent => KeyOf(db[f]) # KeyOf(N[r])
      BY <2>4, <2>5, <2>6, <2>10
    <3>2. s.pc # "complete" /\ s.pc # "fence.delete" /\ t.pc # "complete" /\ t.pc # "fence.delete"
      BY <1>1, <2>1
    <3> QED
      BY <1>6, <2>1, <2>3, <2>4, <2>8, <2>9, <2>10, <2>11, <3>1, <3>2, LedStores
  <2>13. WritesInv(Now, t)
    <3>1. Pending(s) = {} /\ s.shared \subseteq t.shared
      BY <1>1, <2>1 DEF Pending
    <3>2. r \in DOMAIN N => /\ RowOK(r, N[r]) /\ N[r].locationId = s.reg.new
                            /\ Now.db[r] # Absent => KeyOf(N[r]) = KeyOf(Now.db[r])
                            /\ Now.db[r] = Absent => KeyOf(N[r]) = KeyOf(s.reg.upload)
      BY <2>5, <2>6, <2>9, <2>10, StateFields
    <3> QED
      BY <1>6, <2>1, <2>2, <2>3, <2>8, <2>10, <2>11, <3>1, <3>2, EntryWritten
  <2>14. PlanInv(Now, t)
    BY <1>1, <1>6, <2>1, <2>5, <2>6, <2>7, <2>9, InsertEntryPlan
  <2> QED
    BY <2>12, <2>13, <2>14
<1>11. pc # "rollback" => InsertGoal(s, pc, reg, r, row)
  BY <1>3, <1>10 DEF InsertGoal
<1>12. s.pc # "commit" /\ pc # "idle"
  BY <1>1, <1>3
<1>13. s.job.kind = "complete" => pc \in CompleteStays /\ "entry" # "upload"
  BY <1>3 DEF CompleteStays, CompletePcs
<1> QED
  BY <1>1, <1>2, <1>3, <1>4, <1>9, <1>11, <1>12, <1>13, InsertMoves

-----------------------------------------------------------------------------
(* Transactions begin.                                                       *)

Begun(t, job, pc, reg) ==
  /\ DOMAIN t = DOMAIN Idle /\ t.pc = pc /\ t.job = job /\ t.reg = reg
  /\ DOMAIN t.writes = {} /\ t.snap = Null /\ t.shared = {}
Starts(job, pc) ==
  \/ /\ pc \in {"acquire", "renew", "release", "sweep", "purge", "purgeIf", "evict", "expire",
                "claim", "merge", "merged", "touch", "size", "backfill", "upload", "part",
                "abandon", "complete", "orphan"}
     /\ job.kind = pc
  \/ job.kind = "request" /\ pc \in {"request.orphan", "request.detach"}
  \/ job.kind = "process" /\ pc \in {"process.done", "process.failed"}
BeginDuty(job, pc, reg) ==
  \A t : Begun(t, job, pc, reg) => UploadTaken(Now, t) /\ (Open(Now, t) => PlanInv(Now, t))

LEMMA OneOwnerMore ==
  ASSUME NEW store, NEW pair, OneOwner(store, {})
  PROVE  OneOwner(store, pair)
BY DEF OneOwner

LEMMA BegunWrites ==
  ASSUME NEW g, Committed(g), NEW t, DOMAIN t.writes = {}
  PROVE  WritesInv(g, t) /\ WouldInv(g, t)
<1>1. WritesInv(g, t)
  BY DEF WritesInv, RowsOK, EntriesOK, InsertsOK, DropsOK, TimesOK, Adds, Puts
<1> DEFINE S == g.db
           T == Would(g, t)
           N == t.writes
<1>2. Grown(T, N, S) /\ Mild(S, N, T) /\ Typed(S)
  BY WouldGrown, CommittedFacts DEF Mild
<1>3. /\ Linked(S) /\ Leased(S) /\ OneEntry(S) /\ OneUpload(S)
      /\ OneOwner(S, Pair(t)) /\ QueueFree(S, Spared(t))
      /\ g.engine # "mysql" => Claimed(S)
  BY OneOwnerMore, QueueFreeMore DEF Committed
<1>3a. DOMAIN N = {}
  OBVIOUS
<1>3b. WouldInv(g, t) <=> /\ Linked(T) /\ Leased(T) /\ OneEntry(T) /\ OneUpload(T)
                          /\ OneOwner(T, Pair(t)) /\ QueueFree(T, Spared(t))
                          /\ g.engine # "mysql" => Claimed(T)
  BY DEF WouldInv
<1> HIDE DEF S, T, N
<1>4. WouldInv(g, t)
  <2>1. /\ Linked(T) /\ Leased(T) /\ OneEntry(T) /\ OneUpload(T)
        /\ OneOwner(T, Pair(t)) /\ QueueFree(T, Spared(t))
    BY <1>2, <1>3, MildStore
  <2>2. g.engine # "mysql" => Claimed(T)
    BY <1>2, <1>3, <1>3a, MildClaimed
  <2> QED
    BY <1>3b, <2>1, <2>2
<1> QED
  BY <1>1, <1>4

\* A transaction that begins keeps the invariant.
LEMMA Begins ==
  ASSUME TransactionInv, NEW p \in Process, NEW job, NEW pc, NEW reg, Begin(p, job, pc, reg),
         Starts(job, pc), BeginDuty(job, pc, reg)
  PROVE  TransactionInv'
<1> DEFINE t == [Idle EXCEPT !.pc = pc, !.job = job, !.reg = reg]
<1>1. Now' = Now /\ proc' = [proc EXCEPT ![p] = t]
  BY NowKept DEF Begin
<1>2. Begun(t, job, pc, reg)
  BY DEF Begun, Idle
<1> HIDE DEF t
<1>3. /\ DOMAIN t = DOMAIN Idle /\ t.pc = pc /\ t.job = job /\ DOMAIN t.writes = {} /\ t.shared = {}
  BY <1>2 DEF Begun
<1>4. pc # "idle"
  BY DEF Starts
<1>5. Shape(t) /\ Fresh(Now, t) /\ Idles(t)
  BY <1>3, <1>4 DEF Shape, Fresh, Idles
<1>6. UploadTaken(Now, t) /\ (Open(Now, t) => PlanInv(Now, t))
  BY <1>2 DEF BeginDuty
<1>7. OpenInv(Now, t)
  BY <1>3, <1>6, BegunWrites, ProcessFacts DEF OpenInv
<1>8. \A q \in Process \ {p} : /\ Apart(t, proc[q]) /\ Apart(proc[q], t)
                               /\ Rivals(Now, t, proc[q])
  BY <1>3 DEF Apart, Rivals, Adds, Puts
<1> QED
  BY <1>1, <1>5, <1>6, <1>7, <1>8, TurnKeeps

LEMMA BegunPlan ==
  ASSUME NEW t, NEW job, NEW pc, NEW reg, Begun(t, job, pc, reg), Starts(job, pc),
         pc \in TargetPcs =>
           "location" \in DOMAIN reg /\ reg.location \in Location /\
             <<"location", reg.location>> \in issued,
         RequestOK(Now, t), UploadsOK(Now, t), CompleteOK(Now, t)
  PROVE  PlanInv(Now, t)
<1>1. /\ t.pc = pc /\ t.job = job /\ t.reg = reg /\ DOMAIN t.writes = {} /\ t.snap = Null
  BY DEF Begun
<1>2. KindsOK(t)
  BY <1>1 DEF Starts, KindsOK, AcquirePcs, CompletePcs, EvictPcs, OrphanPcs, FencePcs
<1>3. FirstOK(t) /\ SnapOK(Now, t)
  BY <1>1 DEF FirstOK, SnapOK
<1>4. TargetOK(Now, t)
  <2>1. pc \notin LockedPcs /\ (pc = "request.detach" => job.kind = "request")
    BY DEF Starts, LockedPcs, FencePcs, ClaimPcs
  <2> QED
    BY <1>1, <2>1, StateFields DEF TargetOK, Target
<1>5. AcquireOK(Now, t) /\ FenceOK(Now, t) /\ ClaimOK(Now, t)
  <2>1. pc \notin AcquirePcs \ {"acquire"} /\ pc \notin FencePcs /\ pc \notin ClaimPcs
    BY DEF Starts, AcquirePcs, FencePcs, ClaimPcs
  <2>2. AcquireOK(Now, t)
    BY <1>1, <2>1 DEF AcquireOK, AcquirePcs
  <2>3. FenceOK(Now, t)
    BY <1>1, <2>1 DEF FenceOK, FencePcs
  <2>4. ClaimOK(Now, t)
    BY <1>1, <2>1 DEF ClaimOK, ClaimPcs
  <2> QED
    BY <2>2, <2>3, <2>4
<1> QED
  BY <1>2, <1>3, <1>4, <1>5 DEF PlanInv

-----------------------------------------------------------------------------
(* A location that exists.                                                   *)
LEMMA ExistsFacts ==
  ASSUME TransactionInv, NEW l \in Location, Exists(l)
  PROVE  /\ <<"location", l>> \in RowsOf("location") /\ <<"location", l>> \in issued
         /\ LocationOK(Observed(l)) /\ Observed(l).id = l
<1> DEFINE r == <<"location", l>>
<1>1. r \in RowsOf("location") /\ r \in Rows /\ r[2] = l
  BY RowFacts, TableRows
<1>2. Observed(l) = db[r] /\ db[r] # Absent
  BY DEF Exists, Observed
<1>3. Committed(Now)
  BY DEF TransactionInv, Inv
<1> HIDE DEF r
<1>4. RowOK(r, db[r]) /\ r \in issued
  BY <1>1, <1>2, <1>3, CommittedFacts, StateFields
<1>5. LocationOK(db[r]) /\ db[r].id = r[2]
  BY <1>1, <1>4, RowKinds
<1> QED
  BY <1>1, <1>2, <1>4, <1>5 DEF r

(* A request on a location that exists.                                      *)
LEMMA LocationBegins ==
  ASSUME TransactionInv, NEW p \in Process, NEW l \in Location, Exists(l),
         NEW job, NEW pc, NEW reg, Begin(p, job, pc, reg), Starts(job, pc), pc \in TargetPcs,
         "location" \in DOMAIN reg, reg.location = l,
         pc = "purgeIf" => "row" \in DOMAIN reg /\ reg.row = Observed(l),
         job.kind = "evict" => job.row = Observed(l),
         pc = "merged" => job.how \in {"finish", "unsupported", "release", "extend"}
  PROVE  TransactionInv'
<1>1. job.kind \notin {"complete", "orphan"} /\ pc \notin {"part", "abandon", "abandon.enqueue"}
      /\ pc \notin OrphanPcs /\ pc # "merge.lease"
  BY DEF Starts, TargetPcs, LockedPcs, FencePcs, ClaimPcs, OrphanPcs
<1>2. BeginDuty(job, pc, reg)
  <2> SUFFICES ASSUME NEW t, Begun(t, job, pc, reg)
               PROVE  UploadTaken(Now, t) /\ PlanInv(Now, t)
    BY DEF BeginDuty
  <2>1. t.pc = pc /\ t.job = job /\ t.reg = reg /\ DOMAIN t.writes = {}
    BY DEF Begun
  <2>2. UploadTaken(Now, t) /\ CompleteOK(Now, t)
    BY <1>1, <2>1 DEF UploadTaken, CompleteOK
  <2>3. UploadsOK(Now, t)
    BY <1>1, <2>1 DEF UploadsOK, OrphanPcs
  <2>4. RequestOK(Now, t)
    <3>1. Observed(l).id = l
      BY ExistsFacts
    <3> QED
      BY <1>1, <2>1, <3>1 DEF RequestOK
  <2>5. <<"location", reg.location>> \in issued /\ reg.location \in Location
    BY ExistsFacts
  <2> QED
    BY <2>2, <2>3, <2>4, <2>5, BegunPlan
<1> QED
  BY <1>2, Begins

(* A transaction that is about no location, upload or folder.                *)
LEMMA PlainBegins ==
  ASSUME TransactionInv, NEW p \in Process, NEW job, NEW pc, NEW reg, Begin(p, job, pc, reg),
         Starts(job, pc), pc \notin TargetPcs \cup {"part", "abandon", "complete", "orphan"}
  PROVE  TransactionInv'
<1>1. job.kind \notin {"complete", "orphan", "evict"} /\
        pc \notin {"part", "abandon", "abandon.enqueue"}
      /\ pc \notin OrphanPcs /\ pc \notin {"purgeIf", "merge.lease", "merged"}
  BY DEF Starts, TargetPcs, OrphanPcs
<1>2. BeginDuty(job, pc, reg)
  <2> SUFFICES ASSUME NEW t, Begun(t, job, pc, reg)
               PROVE  UploadTaken(Now, t) /\ PlanInv(Now, t)
    BY DEF BeginDuty
  <2>1. t.pc = pc /\ t.job = job
    BY DEF Begun
  <2>2. UploadTaken(Now, t) /\ CompleteOK(Now, t)
    BY <1>1, <2>1 DEF UploadTaken, CompleteOK
  <2>3. UploadsOK(Now, t)
    BY <1>1, <2>1 DEF UploadsOK, OrphanPcs
  <2>4. RequestOK(Now, t)
    BY <1>1, <2>1 DEF RequestOK
  <2> QED
    BY <2>2, <2>3, <2>4, BegunPlan
<1> QED
  BY <1>2, Begins

LEMMA PlainStarts ==
  ASSUME TransactionInv, NEW p \in Process,
         \/ AcquireReader(p) \/ RenewReader(p) \/ ReleaseReaders(p) \/ PurgeExpiredReaderLeases(p)
         \/ Backfill(p) \/ CreateUploadRecord(p) \/ ProcessDeletion(p)
  PROVE  TransactionInv'
<1>1. PICK job, pc, reg : /\ Begin(p, job, pc, reg) /\ Starts(job, pc)
                          /\ pc \in {"acquire", "renew", "release", "sweep", "backfill", "upload",
                                     "process.done", "process.failed"}
  <2>1. CASE AcquireReader(p)
    <3>1. PICK e \in Entry, direct \in BOOLEAN :
            Begin(p, [kind |-> "acquire", entry |-> e, direct |-> direct], "acquire", <<>>)
      BY <2>1 DEF AcquireReader
    <3>2. Starts([kind |-> "acquire", entry |-> e, direct |-> direct], "acquire")
      BY DEF Starts
    <3> QED
      BY <3>1, <3>2
  <2>2. CASE RenewReader(p)
    <3>1. PICK d \in Lease : Begin(p, [kind |-> "renew", lease |-> d], "renew", <<>>)
      BY <2>2 DEF RenewReader
    <3>2. Starts([kind |-> "renew", lease |-> d], "renew")
      BY DEF Starts
    <3> QED
      BY <3>1, <3>2
  <2>3. CASE ReleaseReaders(p)
    <3>1. PICK ids \in (SUBSET Lease) \ {{}} :
            Begin(p, [kind |-> "release", leases |-> ids], "release", <<>>)
      BY <2>3 DEF ReleaseReaders
    <3>2. Starts([kind |-> "release", leases |-> ids], "release")
      BY DEF Starts
    <3> QED
      BY <3>1, <3>2
  <2>4. CASE PurgeExpiredReaderLeases(p)
    <3>1. Begin(p, [kind |-> "sweep"], "sweep", <<>>)
      BY <2>4 DEF PurgeExpiredReaderLeases
    <3>2. Starts([kind |-> "sweep"], "sweep")
      BY DEF Starts
    <3> QED
      BY <3>1, <3>2
  <2>5. CASE Backfill(p)
    <3>1. Begin(p, [kind |-> "backfill"], "backfill", <<>>)
      BY <2>5 DEF Backfill
    <3>2. Starts([kind |-> "backfill"], "backfill")
      BY DEF Starts
    <3> QED
      BY <3>1, <3>2
  <2>6. CASE CreateUploadRecord(p)
    <3>1. Begin(p, [kind |-> "upload"], "upload", <<>>)
      BY <2>6 DEF CreateUploadRecord
    <3>2. Starts([kind |-> "upload"], "upload")
      BY DEF Starts
    <3> QED
      BY <3>1, <3>2
  <2>7. CASE ProcessDeletion(p)
    <3>1. PICK t \in Deletion, deleted \in BOOLEAN :
            Begin(p, [kind |-> "process", task |-> t],
                  IF deleted THEN "process.done" ELSE "process.failed", <<>>)
      BY <2>7 DEF ProcessDeletion
    <3> DEFINE job == [kind |-> "process", task |-> t]
               pc == IF deleted THEN "process.done" ELSE "process.failed"
    <3>2. Starts(job, pc) /\ pc \in {"process.done", "process.failed"}
      BY DEF Starts
    <3>3. Begin(p, job, pc, <<>>)
      BY <3>1
    <3> HIDE DEF job, pc
    <3> QED
      BY <3>2, <3>3
  <2> QED
    BY <2>1, <2>2, <2>3, <2>4, <2>5, <2>6, <2>7
<1>2. pc \notin TargetPcs \cup {"part", "abandon", "complete", "orphan"}
  BY <1>1 DEF TargetPcs, LockedPcs, FencePcs, ClaimPcs
<1> QED
  BY <1>1, <1>2, PlainBegins

-----------------------------------------------------------------------------

\* Every request on a location starts so.
LEMMA LocationStarts ==
  ASSUME TransactionInv, NEW p \in Process,
         \/ PurgeDanglingCacheEntry(p) \/ PurgeDanglingCacheEntryIfUnchanged(p)
         \/ RequestLocationDeletion(p) \/ RequestCapacityEviction(p)
         \/ RequestExpiredLocationDeletion(p) \/ ClaimPartsDeletion(p)
         \/ AcquireMaterialization(p) \/ EndMaterialization(p)
         \/ TouchStorageLocationIfStale(p) \/ RecordSize(p)
  PROVE  TransactionInv'
<1>1. CASE PurgeDanglingCacheEntry(p)
  <2>1. PICK e \in Entry, l \in Location :
          Exists(l) /\ Begin(p, [kind |-> "purge", entry |-> e],
                             "purge", [location |-> l])
    BY <1>1 DEF PurgeDanglingCacheEntry
  <2> DEFINE job == [kind |-> "purge", entry |-> e]
             pc == "purge"
             reg == [location |-> l]
  <2>2. Exists(l) /\ Begin(p, job, pc, reg)
    BY <2>1
  <2>3. Starts(job, pc) /\ pc \in TargetPcs
    BY DEF Starts, TargetPcs
  <2>4. /\ "location" \in DOMAIN reg /\ reg.location = l
        /\ pc = "purgeIf" => "row" \in DOMAIN reg /\ reg.row = Observed(l)
        /\ job.kind = "evict" => job.row = Observed(l)
        /\ pc = "merged" => job.how \in {"finish", "unsupported", "release", "extend"}
    OBVIOUS
  <2> HIDE DEF job, pc, reg
  <2> QED
    BY <2>2, <2>3, <2>4, LocationBegins
<1>2. CASE PurgeDanglingCacheEntryIfUnchanged(p)
  <2>1. PICK e \in Entry, l \in Location :
          Exists(l) /\ Begin(p, [kind |-> "purgeIf", entry |-> e],
                             "purgeIf", [location |-> l, row |-> Observed(l)])
    BY <1>2 DEF PurgeDanglingCacheEntryIfUnchanged
  <2> DEFINE job == [kind |-> "purgeIf", entry |-> e]
             pc == "purgeIf"
             reg == [location |-> l, row |-> Observed(l)]
  <2>2. Exists(l) /\ Begin(p, job, pc, reg)
    BY <2>1
  <2>3. Starts(job, pc) /\ pc \in TargetPcs
    BY DEF Starts, TargetPcs
  <2>4. /\ "location" \in DOMAIN reg /\ reg.location = l
        /\ pc = "purgeIf" => "row" \in DOMAIN reg /\ reg.row = Observed(l)
        /\ job.kind = "evict" => job.row = Observed(l)
        /\ pc = "merged" => job.how \in {"finish", "unsupported", "release", "extend"}
    OBVIOUS
  <2> HIDE DEF job, pc, reg
  <2> QED
    BY <2>2, <2>3, <2>4, LocationBegins
<1>3. CASE RequestCapacityEviction(p)
  <2>1. PICK l \in Location :
          Exists(l) /\ Begin(p, [kind |-> "evict", row |-> Observed(l)],
                             "evict", [location |-> l])
    BY <1>3 DEF RequestCapacityEviction
  <2> DEFINE job == [kind |-> "evict", row |-> Observed(l)]
             pc == "evict"
             reg == [location |-> l]
  <2>2. Exists(l) /\ Begin(p, job, pc, reg)
    BY <2>1
  <2>3. Starts(job, pc) /\ pc \in TargetPcs
    BY DEF Starts, TargetPcs
  <2>4. /\ "location" \in DOMAIN reg /\ reg.location = l
        /\ pc = "purgeIf" => "row" \in DOMAIN reg /\ reg.row = Observed(l)
        /\ job.kind = "evict" => job.row = Observed(l)
        /\ pc = "merged" => job.how \in {"finish", "unsupported", "release", "extend"}
    OBVIOUS
  <2> HIDE DEF job, pc, reg
  <2> QED
    BY <2>2, <2>3, <2>4, LocationBegins
<1>4. CASE RequestExpiredLocationDeletion(p)
  <2>1. PICK l \in Location, cutoff \in 1..clock :
          Exists(l) /\ Begin(p, [kind |-> "expire", cutoff |-> cutoff],
                             "expire", [location |-> l])
    BY <1>4 DEF RequestExpiredLocationDeletion
  <2> DEFINE job == [kind |-> "expire", cutoff |-> cutoff]
             pc == "expire"
             reg == [location |-> l]
  <2>2. Exists(l) /\ Begin(p, job, pc, reg)
    BY <2>1
  <2>3. Starts(job, pc) /\ pc \in TargetPcs
    BY DEF Starts, TargetPcs
  <2>4. /\ "location" \in DOMAIN reg /\ reg.location = l
        /\ pc = "purgeIf" => "row" \in DOMAIN reg /\ reg.row = Observed(l)
        /\ job.kind = "evict" => job.row = Observed(l)
        /\ pc = "merged" => job.how \in {"finish", "unsupported", "release", "extend"}
    OBVIOUS
  <2> HIDE DEF job, pc, reg
  <2> QED
    BY <2>2, <2>3, <2>4, LocationBegins
<1>5. CASE ClaimPartsDeletion(p)
  <2>1. PICK l \in Location :
          Exists(l) /\ Begin(p, [kind |-> "claim"],
                             "claim", [location |-> l])
    BY <1>5 DEF ClaimPartsDeletion
  <2> DEFINE job == [kind |-> "claim"]
             pc == "claim"
             reg == [location |-> l]
  <2>2. Exists(l) /\ Begin(p, job, pc, reg)
    BY <2>1
  <2>3. Starts(job, pc) /\ pc \in TargetPcs
    BY DEF Starts, TargetPcs
  <2>4. /\ "location" \in DOMAIN reg /\ reg.location = l
        /\ pc = "purgeIf" => "row" \in DOMAIN reg /\ reg.row = Observed(l)
        /\ job.kind = "evict" => job.row = Observed(l)
        /\ pc = "merged" => job.how \in {"finish", "unsupported", "release", "extend"}
    OBVIOUS
  <2> HIDE DEF job, pc, reg
  <2> QED
    BY <2>2, <2>3, <2>4, LocationBegins
<1>6. CASE AcquireMaterialization(p)
  <2>1. PICK l \in Location :
          Exists(l) /\ Begin(p, [kind |-> "merge"],
                             "merge", [location |-> l])
    BY <1>6 DEF AcquireMaterialization
  <2> DEFINE job == [kind |-> "merge"]
             pc == "merge"
             reg == [location |-> l]
  <2>2. Exists(l) /\ Begin(p, job, pc, reg)
    BY <2>1
  <2>3. Starts(job, pc) /\ pc \in TargetPcs
    BY DEF Starts, TargetPcs
  <2>4. /\ "location" \in DOMAIN reg /\ reg.location = l
        /\ pc = "purgeIf" => "row" \in DOMAIN reg /\ reg.row = Observed(l)
        /\ job.kind = "evict" => job.row = Observed(l)
        /\ pc = "merged" => job.how \in {"finish", "unsupported", "release", "extend"}
    OBVIOUS
  <2> HIDE DEF job, pc, reg
  <2> QED
    BY <2>2, <2>3, <2>4, LocationBegins
<1>7. CASE TouchStorageLocationIfStale(p)
  <2>1. PICK l \in Location :
          Exists(l) /\ Begin(p, [kind |-> "touch"],
                             "touch", [location |-> l])
    BY <1>7 DEF TouchStorageLocationIfStale
  <2> DEFINE job == [kind |-> "touch"]
             pc == "touch"
             reg == [location |-> l]
  <2>2. Exists(l) /\ Begin(p, job, pc, reg)
    BY <2>1
  <2>3. Starts(job, pc) /\ pc \in TargetPcs
    BY DEF Starts, TargetPcs
  <2>4. /\ "location" \in DOMAIN reg /\ reg.location = l
        /\ pc = "purgeIf" => "row" \in DOMAIN reg /\ reg.row = Observed(l)
        /\ job.kind = "evict" => job.row = Observed(l)
        /\ pc = "merged" => job.how \in {"finish", "unsupported", "release", "extend"}
    OBVIOUS
  <2> HIDE DEF job, pc, reg
  <2> QED
    BY <2>2, <2>3, <2>4, LocationBegins
<1>8. CASE RecordSize(p)
  <2>1. PICK l \in Location :
          Exists(l) /\ Begin(p, [kind |-> "size"],
                             "size", [location |-> l])
    BY <1>8 DEF RecordSize
  <2> DEFINE job == [kind |-> "size"]
             pc == "size"
             reg == [location |-> l]
  <2>2. Exists(l) /\ Begin(p, job, pc, reg)
    BY <2>1
  <2>3. Starts(job, pc) /\ pc \in TargetPcs
    BY DEF Starts, TargetPcs
  <2>4. /\ "location" \in DOMAIN reg /\ reg.location = l
        /\ pc = "purgeIf" => "row" \in DOMAIN reg /\ reg.row = Observed(l)
        /\ job.kind = "evict" => job.row = Observed(l)
        /\ pc = "merged" => job.how \in {"finish", "unsupported", "release", "extend"}
    OBVIOUS
  <2> HIDE DEF job, pc, reg
  <2> QED
    BY <2>2, <2>3, <2>4, LocationBegins
<1>9. CASE EndMaterialization(p)
  <2>1. PICK l \in Location, how \in {"finish", "unsupported", "release", "extend"} :
          Exists(l) /\ Begin(p, [kind |-> "merged", how |-> how,
                        token |-> Observed(l).mergeLeaseToken],
                             "merged", [location |-> l])
    BY <1>9 DEF EndMaterialization
  <2> DEFINE job == [kind |-> "merged", how |-> how,
                        token |-> Observed(l).mergeLeaseToken]
             pc == "merged"
             reg == [location |-> l]
  <2>2. Exists(l) /\ Begin(p, job, pc, reg)
    BY <2>1
  <2>3. Starts(job, pc) /\ pc \in TargetPcs
    BY DEF Starts, TargetPcs
  <2>4. /\ "location" \in DOMAIN reg /\ reg.location = l
        /\ pc = "purgeIf" => "row" \in DOMAIN reg /\ reg.row = Observed(l)
        /\ job.kind = "evict" => job.row = Observed(l)
        /\ pc = "merged" => job.how \in {"finish", "unsupported", "release", "extend"}
    OBVIOUS
  <2> HIDE DEF job, pc, reg
  <2> QED
    BY <2>2, <2>3, <2>4, LocationBegins
<1>10. CASE RequestLocationDeletion(p)
  <2>1. PICK l \in Location, orphan \in BOOLEAN :
          Exists(l) /\ Begin(p, [kind |-> "request", orphan |-> orphan],
                             IF orphan THEN "request.orphan" ELSE "request.detach",
                               [location |-> l])
    BY <1>10 DEF RequestLocationDeletion
  <2> DEFINE job == [kind |-> "request", orphan |-> orphan]
             pc == IF orphan THEN "request.orphan" ELSE "request.detach"
             reg == [location |-> l]
  <2>2. Exists(l) /\ Begin(p, job, pc, reg)
    BY <2>1
  <2>3. Starts(job, pc) /\ pc \in TargetPcs
    BY DEF Starts, TargetPcs
  <2>4. /\ "location" \in DOMAIN reg /\ reg.location = l
        /\ pc = "purgeIf" => "row" \in DOMAIN reg /\ reg.row = Observed(l)
        /\ job.kind = "evict" => job.row = Observed(l)
        /\ pc = "merged" => job.how \in {"finish", "unsupported", "release", "extend"}
    OBVIOUS
  <2> HIDE DEF job, pc, reg
  <2> QED
    BY <2>2, <2>3, <2>4, LocationBegins
<1> QED
  BY <1>1, <1>2, <1>3, <1>4, <1>5, <1>6, <1>7, <1>8, <1>9, <1>10

(* An upload that exists.                                                    *)
LEMMA SomeFacts ==
  ASSUME TransactionInv, NEW u \in Upload, SomeUpload(u)
  PROVE  /\ <<"upload", u>> \in issued /\ db[<<"upload", u>>] # Absent
         /\ UploadOK(db[<<"upload", u>>]) /\ db[<<"upload", u>>].id = u
<1> DEFINE r == <<"upload", u>>
<1>1. r \in RowsOf("upload") /\ r \in Rows /\ r[2] = u
  BY RowFacts, TableRows
<1>2. db[r] # Absent
  BY DEF SomeUpload
<1>3. Committed(Now)
  BY DEF TransactionInv, Inv
<1> HIDE DEF r
<1>4. RowOK(r, db[r]) /\ r \in issued
  BY <1>1, <1>2, <1>3, CommittedFacts, StateFields
<1>5. UploadOK(db[r]) /\ db[r].id = r[2]
  BY <1>1, <1>4, RowKinds
<1> QED
  BY <1>1, <1>2, <1>4, <1>5 DEF r

(* A transaction that is about an upload, or about a folder.                  *)
LEMMA UploadBegins ==
  ASSUME TransactionInv, NEW p \in Process, NEW u \in Upload, <<"upload", u>> \in issued,
         NEW job, NEW pc, NEW reg, Begin(p, job, pc, reg),
         \/ pc \in {"part", "abandon"} /\ job.kind = pc /\ job.upload = u
         \/ pc = "orphan" /\ job.kind = pc /\ job.folder = u
  PROVE  TransactionInv'
<1>1. Starts(job, pc) /\ pc \notin TargetPcs
  BY DEF Starts, TargetPcs, LockedPcs, FencePcs, ClaimPcs
<1>2. BeginDuty(job, pc, reg)
  <2> SUFFICES ASSUME NEW t, Begun(t, job, pc, reg)
               PROVE  UploadTaken(Now, t) /\ PlanInv(Now, t)
    BY DEF BeginDuty
  <2>1. t.pc = pc /\ t.job = job
    BY DEF Begun
  <2>2. UploadTaken(Now, t) /\ CompleteOK(Now, t)
    BY <2>1 DEF UploadTaken, CompleteOK
  <2>3. UploadsOK(Now, t)
    BY <2>1, StateFields DEF UploadsOK, OrphanPcs, UploadRow, OrphanRow
  <2>4. RequestOK(Now, t)
    BY <2>1 DEF RequestOK
  <2> QED
    BY <1>1, <2>2, <2>3, <2>4, BegunPlan
<1> QED
  BY <1>1, <1>2, Begins

\* A completion begins with its upload.
LEMMA CompletionBegins ==
  ASSUME TransactionInv, NEW p \in Process, CompleteUploadRecord(p)
  PROVE  TransactionInv'
<1>1. PICK u \in Upload :
        SomeUpload(u) /\ Begin(p, [kind |-> "complete", upload |-> u], "complete",
                               [upload |-> db[<<"upload", u>>], now |-> clock])
  BY DEF CompleteUploadRecord
<1> DEFINE job == [kind |-> "complete", upload |-> u]
           pc == "complete"
           reg == [upload |-> db[<<"upload", u>>], now |-> clock]
<1>2. Begin(p, job, pc, reg)
  BY <1>1
<1>3. Starts(job, pc) /\ pc \notin TargetPcs
  BY DEF Starts, TargetPcs, LockedPcs, FencePcs, ClaimPcs
<1>4. job.kind = "complete" /\ job.upload = u
  OBVIOUS
<1>5. /\ {"upload", "now"} \subseteq DOMAIN reg /\ reg.now = clock
      /\ reg.upload = db[<<"upload", u>>]
  OBVIOUS
<1>6. /\ <<"upload", u>> \in issued /\ UploadOK(db[<<"upload", u>>]) /\ db[<<"upload", u>>].id = u
      /\ clock \in Nat
  BY <1>1, SomeFacts, ProcessFacts
<1> HIDE DEF job, reg
<1>7. BeginDuty(job, pc, reg)
  <2> SUFFICES ASSUME NEW t, Begun(t, job, pc, reg)
               PROVE  UploadTaken(Now, t) /\ PlanInv(Now, t)
    BY DEF BeginDuty
  <2>1. /\ t.pc = "complete" /\ t.job = job /\ t.reg = reg /\ DOMAIN t.writes = {} /\ t.snap = Null
    BY DEF Begun
  <2>2. UploadRow(t) = <<"upload", u>>
    BY <1>4, <2>1 DEF UploadRow
  <2>3. UploadTaken(Now, t)
    BY <1>4, <1>6, <2>1, <2>2, StateFields DEF UploadTaken, CompletePcs
  <2>4. CompleteOK(Now, t)
    <3>1. KeyOf(Now.db[UploadRow(t)]) = KeyOf(t.reg.upload)
      BY <1>5, <2>1, <2>2, StateFields
    <3> QED
      BY <1>4, <1>5, <1>6, <2>1, <3>1 DEF CompleteOK, FencePcs
  <2>5. UploadsOK(Now, t) /\ RequestOK(Now, t)
    BY <1>4, <2>1 DEF UploadsOK, RequestOK, OrphanPcs
  <2> QED
    BY <1>3, <2>3, <2>4, <2>5, BegunPlan
<1> HIDE DEF pc
<1> QED
  BY <1>2, <1>3, <1>7, Begins

LEMMA RequestsKeep ==
  ASSUME TransactionInv, NEW p \in Process, Requests(p)
  PROVE  TransactionInv'
<1>1. CASE UploadObject(p)
  <2>1. PICK u \in Upload :
          SomeUpload(u) /\ Begin(p, [kind |-> "part", upload |-> u], "part", <<>>)
    BY <1>1 DEF UploadObject
  <2> DEFINE job == [kind |-> "part", upload |-> u]
             reg == <<>>
  <2>2. job.kind = "part" /\ job.upload = u /\ Begin(p, job, "part", reg) /\
          <<"upload", u>> \in issued
    BY <2>1, SomeFacts
  <2> HIDE DEF job, reg
  <2> QED
    BY <2>2, UploadBegins
<1>2. CASE AbandonUpload(p)
  <2>1. PICK u \in Upload, idle \in BOOLEAN :
          SomeUpload(u) /\ Begin(p, [kind |-> "abandon", upload |-> u, idle |-> idle,
                                     cutoff |-> clock], "abandon", <<>>)
    BY <1>2 DEF AbandonUpload
  <2> DEFINE job == [kind |-> "abandon", upload |-> u, idle |-> idle, cutoff |-> clock]
             reg == <<>>
  <2>2. /\ job.kind = "abandon" /\ job.upload = u /\ Begin(p, job, "abandon", reg)
        /\ <<"upload", u>> \in issued
    BY <2>1, SomeFacts
  <2> HIDE DEF job, reg
  <2> QED
    BY <2>2, UploadBegins
<1>3. CASE ClaimOrphanedStorageFolder(p)
  <2>1. PICK u \in Upload :
          <<"upload", u>> \in issued /\ Begin(p, [kind |-> "orphan", folder |-> u], "orphan", <<>>)
    BY <1>3 DEF ClaimOrphanedStorageFolder
  <2> DEFINE job == [kind |-> "orphan", folder |-> u]
             reg == <<>>
  <2>2. /\ job.kind = "orphan" /\ job.folder = u /\ Begin(p, job, "orphan", reg)
        /\ <<"upload", u>> \in issued
    BY <2>1
  <2> HIDE DEF job, reg
  <2> QED
    BY <2>2, UploadBegins
<1> QED
  BY <1>1, <1>2, <1>3, PlainStarts, LocationStarts, CompletionBegins DEF Requests

-----------------------------------------------------------------------------
(* Every statement keeps the invariant.                                      *)

LEMMA ReadersKeeps ==
  ASSUME TransactionInv, NEW p \in Process, Readers(p)
  PROVE  TransactionInv'
BY AcquireEntryKeeps, AcquireLocationKeeps, AcquireLockKeeps, AcquireCreateKeeps,
   RenewUpdateKeeps, ReleaseDeleteKeeps, SweepDeleteKeeps
   DEF Readers

LEMMA FenceDetachedLocationKeeps ==
  ASSUME TransactionInv, NEW p \in Process, FenceDetachedLocation(p)
  PROVE  TransactionInv'
BY FenceLockKeeps, FenceEntriesKeeps, FenceLocationKeeps, FenceMarkKeeps, FenceLeasesKeeps,
   FenceReadersKeeps, FenceEnqueueKeeps, FenceDeleteKeeps
   DEF FenceDetachedLocation

LEMMA RemovalsKeeps ==
  ASSUME TransactionInv, NEW p \in Process, Removals(p)
  PROVE  TransactionInv'
BY FenceDetachedLocationKeeps, PurgeEntryKeeps, PurgeIfClaimKeeps, PurgeIfEntryKeeps,
   RequestOrphanKeeps, DetachCacheEntriesKeeps, EvictClaimKeeps, EvictGetKeeps,
   EvictReadersKeeps, ExpireLockKeeps, ExpireLocationKeeps, ExpireEntriesKeeps,
   ExpireRecentKeeps, ExpireReadersKeeps
   DEF Removals

LEMMA MergesKeeps ==
  ASSUME TransactionInv, NEW p \in Process, Merges(p)
  PROVE  TransactionInv'
BY ClaimLockKeeps, ClaimLocationKeeps, ClaimLeasesKeeps, ClaimReadersKeeps, ClaimEnqueueKeeps,
   ClaimMarkKeeps, MergeLockKeeps, MergeLocationKeeps, MergeLeaseKeeps, MergeEndsKeeps
   DEF Merges

LEMMA RecordsKeeps ==
  ASSUME TransactionInv, NEW p \in Process, Records(p)
  PROVE  TransactionInv'
BY TouchUpdateKeeps, SizeUpdateKeeps, BackfillUpdateKeeps, UploadInsertKeeps, PartUpdateKeeps,
   AbandonDeleteKeeps, AbandonEnqueueKeeps, ProcessDoneKeeps, ProcessFailedKeeps
   DEF Records

LEMMA CompletionKeeps ==
  ASSUME TransactionInv, NEW p \in Process, Completion(p)
  PROVE  TransactionInv'
BY CompleteCreateKeeps, CompleteEntryKeeps, CompleteUpdateKeeps, CompleteInsertKeeps,
   CompleteBlocksKeeps, CompleteDeleteKeeps
   DEF Completion

LEMMA OrphansKeeps ==
  ASSUME TransactionInv, NEW p \in Process, Orphans(p)
  PROVE  TransactionInv'
BY OrphanUploadsKeeps, OrphanLocationsKeeps, OrphanDeletionsKeeps, OrphanEnqueueKeeps
   DEF Orphans

\* Every statement of every transaction.
LEMMA StatementKeeps ==
  ASSUME TransactionInv, NEW p \in Process, Statement(p)
  PROVE  TransactionInv'
BY ReadersKeeps, RemovalsKeeps, MergesKeeps, RecordsKeeps, CompletionKeeps, OrphansKeeps
   DEF Statement

(* A transaction that is rolled back leaves nothing.                          *)
LEMMA IdleKeeps ==
  ASSUME TransactionInv, NEW p \in Process, Step(p, Idle)
  PROVE  TransactionInv'
<1>1. /\ Idle.pc = "idle" /\ DOMAIN Idle.writes = {} /\ Idle.shared = {}
  BY DEF Idle
<1>2. Shape(Idle) /\ Fresh(Now, Idle) /\ Idles(Idle)
  BY <1>1 DEF Shape, Fresh, Idles
<1>3. UploadTaken(Now, Idle) /\ OpenInv(Now, Idle)
  BY <1>1 DEF UploadTaken, OpenInv, Open, Ours
<1>4. \A q \in Process \ {p} : /\ Apart(Idle, proc[q]) /\ Apart(proc[q], Idle)
                               /\ Rivals(Now, Idle, proc[q])
  BY <1>1 DEF Apart, Rivals, Adds, Puts
<1> QED
  BY <1>2, <1>3, <1>4, StepKeeps

\* A rollback leaves nothing.
LEMMA EndKeeps ==
  ASSUME TransactionInv, NEW p \in Process, Rollback(p) \/ Fail(p) \/ BreakDeadlock(p)
  PROVE  TransactionInv'
BY IdleKeeps DEF Rollback, Fail, BreakDeadlock

-----------------------------------------------------------------------------
(* The clock goes on.                                                        *)

Later(g, h) == /\ h.db = g.db /\ h.issued = g.issued /\ h.engine = g.engine
               /\ g.clock \in Nat /\ h.clock \in Nat /\ g.clock <= h.clock

LEMMA LaterTerms ==
  ASSUME NEW g, NEW h, Later(g, h), NEW s
  PROVE  /\ Would(h, s) = Would(g, s) /\ (Open(h, s) <=> Open(g, s))
         /\ \A r : Adds(h, s, r) <=> Adds(g, s, r)
         /\ \A l : Admissible(h, s, l) <=> Admissible(g, s, l)
BY DEF Later, Would, Open, Entitled, Adds, Admissible

LEMMA LaterWrites ==
  ASSUME NEW g, NEW h, Later(g, h), NEW s, WritesInv(g, s), RowsOK(g, s)
  PROVE  WritesInv(h, s)
<1>1. /\ h.db = g.db /\ h.issued = g.issued /\ h.engine = g.engine
      /\ g.clock \in Nat /\ h.clock \in Nat /\ g.clock <= h.clock
  BY DEF Later
<1>2. /\ \A r : Adds(h, s, r) <=> Adds(g, s, r)
      /\ \A l : Admissible(h, s, l) <=> Admissible(g, s, l)
  BY LaterTerms
<1>3. RowsOK(h, s) /\ DropsOK(h, s)
  BY <1>1 DEF WritesInv, RowsOK, DropsOK
<1>4. EntriesOK(h, s) /\ InsertsOK(h, s)
  BY <1>1, <1>2 DEF WritesInv, EntriesOK, InsertsOK
<1>5. TimesOK(h, s)
  <2> SUFFICES ASSUME NEW d \in RowsOf("lease"), Puts(s, d)
               PROVE  s.writes[d].expiresAt <= h.clock + Lasts
    BY DEF TimesOK
  <2>1. s.writes[d].expiresAt <= g.clock + Lasts
    BY DEF WritesInv, TimesOK
  <2>2. RowOK(d, s.writes[d])
    BY DEF RowsOK, Puts
  <2>3. s.writes[d].expiresAt \in Nat
    BY <2>2, RowKinds DEF LeaseOK
  <2> QED
    BY <1>1, <2>1, <2>3, BoundsAssumption
<1> QED
  BY <1>3, <1>4, <1>5 DEF WritesInv

LEMMA LaterPlan ==
  ASSUME NEW g, NEW h, Later(g, h), NEW s, PlanInv(g, s)
  PROVE  PlanInv(h, s)
<1>1. /\ h.db = g.db /\ h.issued = g.issued /\ h.engine = g.engine
  BY DEF Later
<1>2. /\ Would(h, s) = Would(g, s) /\ \A r : Adds(h, s, r) <=> Adds(g, s, r)
      /\ \A l : Admissible(h, s, l) <=> Admissible(g, s, l)
  BY LaterTerms
<1>3. /\ KindsOK(s) /\ FirstOK(s) /\ SnapOK(g, s) /\ TargetOK(g, s) /\ AcquireOK(g, s)
      /\ FenceOK(g, s) /\ RequestOK(g, s) /\ ClaimOK(g, s) /\ UploadsOK(g, s)
      /\ CompleteOK(g, s)
  BY PlanParts
<1>4. SnapOK(h, s)
  BY <1>1, <1>3 DEF SnapOK, Sight
<1>5. TargetOK(h, s) /\ AcquireOK(h, s)
  BY <1>1, <1>2, <1>3 DEF TargetOK, AcquireOK
<1>6. FenceOK(h, s)
  BY <1>1, <1>2, <1>3 DEF FenceOK
<1>7. RequestOK(h, s)
  BY <1>1, <1>3 DEF RequestOK
<1>8. ClaimOK(h, s)
  BY <1>1, <1>2, <1>3 DEF ClaimOK
<1>9. UploadsOK(h, s)
  BY <1>1, <1>3 DEF UploadsOK
<1>10. CompleteOK(h, s)
  BY <1>1, <1>2, <1>3 DEF CompleteOK
<1> QED
  BY <1>3, <1>4, <1>5, <1>6, <1>7, <1>8, <1>9, <1>10 DEF PlanInv

\* What held before the clock went on holds after it.
LEMMA LaterInv ==
  ASSUME NEW g, NEW h, Later(g, h), NEW pr, Inv(g, pr)
  PROVE  Inv(h, pr)
<1>1. /\ h.db = g.db /\ h.issued = g.issued /\ h.engine = g.engine
      /\ g.clock \in Nat /\ h.clock \in Nat /\ g.clock <= h.clock
  BY DEF Later
<1>2. Committed(h)
  <2>1. Committed(g)
    BY DEF Inv
  <2>2. Timely(h.db, h.clock)
    <3> SUFFICES ASSUME NEW d \in RowsOf("lease"), g.db[d] # Absent
                 PROVE  g.db[d].expiresAt <= h.clock + Lasts
      BY <1>1 DEF Timely
    <3>1. g.db[d].expiresAt <= g.clock + Lasts
      BY <2>1 DEF Committed, Timely
    <3>2. RowOK(d, g.db[d])
      BY <2>1, CommittedFacts, TableRows
    <3>3. g.db[d].expiresAt \in Nat
      BY <3>2, RowKinds DEF LeaseOK
    <3> QED
      BY <1>1, <3>1, <3>3, BoundsAssumption
  <2> QED
    BY <1>1, <2>1, <2>2 DEF Committed
<1>3. Held(h, pr)
  BY <1>1 DEF Inv, Held, Fresh
<1>4. ASSUME NEW p \in Process
      PROVE  UploadTaken(h, pr[p]) /\ OpenInv(h, pr[p])
  <2> DEFINE s == pr[p]
  <2>1. UploadTaken(g, s) /\ OpenInv(g, s)
    BY DEF Inv
  <2> SUFFICES UploadTaken(h, s) /\ OpenInv(h, s)
    OBVIOUS
  <2> HIDE DEF s
  <2>2. UploadTaken(h, s)
    BY <1>1, <2>1 DEF UploadTaken
  <2>3. ASSUME Open(h, s)
        PROVE  WritesInv(h, s) /\ WouldInv(h, s) /\ PlanInv(h, s)
    <3>1. WritesInv(g, s) /\ WouldInv(g, s) /\ PlanInv(g, s) /\ RowsOK(g, s)
      BY <2>1, <2>3, LaterTerms DEF OpenInv, WritesInv
    <3>2. WouldInv(h, s)
      BY <1>1, <3>1, LaterTerms DEF WouldInv
    <3> QED
      BY <3>1, <3>2, LaterWrites, LaterPlan
  <2> QED
    BY <2>2, <2>3 DEF OpenInv
<1>5. ASSUME NEW p \in Process, NEW q \in Process, p # q
      PROVE  Rivals(h, pr[p], pr[q])
  <2>1. Rivals(g, pr[p], pr[q])
    BY <1>5 DEF Inv
  <2> QED
    BY <2>1, LaterTerms DEF Rivals
<1> QED
  BY <1>1, <1>2, <1>3, <1>4, <1>5 DEF Inv

LEMMA TickKeeps ==
  ASSUME TransactionInv, Tick
  PROVE  TransactionInv'
<1>1. clock \in Nat
  BY DEF TransactionInv, Inv, Now
<1> DEFINE h == Now'
<1>2. Later(Now, h) /\ proc' = proc
  BY <1>1 DEF Later, Now, Tick
<1> HIDE DEF h
<1>3. Inv(h, proc)
  BY <1>2, LaterInv DEF TransactionInv
<1> QED
  BY <1>2, <1>3 DEF h, TransactionInv, Inv

-----------------------------------------------------------------------------
(* What an open transaction would bring.                                     *)

Sound(g, s) ==
  /\ Committed(g) /\ Shape(s) /\ Fresh(g, s) /\ UploadTaken(g, s) /\ Open(g, s)
  /\ WritesInv(g, s) /\ WouldInv(g, s) /\ PlanInv(g, s)

\* The invariant of an open transaction.
LEMMA SoundParts ==
  ASSUME NEW g, NEW s, Sound(g, s)
  PROVE  /\ Committed(g) /\ Shape(s) /\ Fresh(g, s) /\ UploadTaken(g, s) /\ Open(g, s)
         /\ RowsOK(g, s) /\ EntriesOK(g, s) /\ InsertsOK(g, s) /\ DropsOK(g, s) /\ TimesOK(g, s)
         /\ WouldInv(g, s) /\ PlanInv(g, s) /\ Ours(s) /\ Entitled(g, s)
         /\ KindsOK(s) /\ FirstOK(s) /\ CompleteOK(g, s) /\ DOMAIN s.writes \subseteq Rows
BY PlanParts DEF Sound, WritesInv, Open, Shape

LEMMA SoundWould ==
  ASSUME NEW g, NEW s, Sound(g, s)
  PROVE  LET store == Would(g, s) IN
         /\ Typed(store) /\ Linked(store) /\ Leased(store) /\ OneEntry(store) /\ OneUpload(store)
         /\ OneOwner(store, Pair(s)) /\ QueueFree(store, Spared(s))
         /\ g.engine # "mysql" => Claimed(store)
         /\ Grown(store, s.writes, g.db)
BY SoundParts, WouldTyped, WouldGrown DEF WouldInv

(* The upload of a completion is there, and names the folder of what it adds.  *)
Completes(g, s) ==
  /\ s.job.kind = "complete" /\ s.job.upload \in Upload
  /\ UploadRow(s) \in RowsOf("upload") /\ UploadRow(s) \in g.issued /\ g.db[UploadRow(s)] # Absent
  /\ UploadRow(s)[2] = s.job.upload /\ g.db[UploadRow(s)].folderName = Folder(s.job.upload)
  /\ KeyOf(g.db[UploadRow(s)]) = KeyOf(s.reg.upload)
  /\ s.pc # "complete" =>
       /\ NewRow(s) \in RowsOf("location") /\ Adds(g, s, NewRow(s))
       /\ s.writes[NewRow(s)].folderName = Folder(s.job.upload)

LEMMA CompletesFacts ==
  ASSUME NEW g, NEW s, Sound(g, s), s.job.kind = "complete"
  PROVE  Completes(g, s)
<1>1. /\ Committed(g) /\ UploadTaken(g, s) /\ Ours(s) /\ Entitled(g, s) /\ CompleteOK(g, s)
  BY SoundParts
<1>2. s.job.upload \in Upload /\ UploadRow(s) \in g.issued /\ g.db[UploadRow(s)] # Absent
  BY <1>1 DEF UploadTaken, Entitled
<1>3. UploadRow(s) \in RowsOf("upload") /\ UploadRow(s)[2] = s.job.upload
  BY <1>2, RowFacts DEF UploadRow
<1>4. g.db[UploadRow(s)].folderName = Folder(s.job.upload)
  BY <1>1, <1>2, <1>3, UploadFolder
<1>5. KeyOf(g.db[UploadRow(s)]) = KeyOf(s.reg.upload)
  BY <1>1 DEF CompleteOK
<1>6. ASSUME s.pc # "complete"
      PROVE  /\ NewRow(s) \in RowsOf("location") /\ Adds(g, s, NewRow(s))
             /\ s.writes[NewRow(s)].folderName = Folder(s.job.upload)
  <2>1. /\ s.reg.new \in Location /\ Adds(g, s, NewRow(s))
        /\ s.writes[NewRow(s)].folderName = Folder(s.job.upload)
    BY <1>1, <1>6 DEF CompleteOK
  <2>2. NewRow(s) \in RowsOf("location")
    BY <2>1, RowFacts DEF NewRow
  <2> QED
    BY <2>1, <2>2
<1> QED
  BY <1>2, <1>3, <1>4, <1>5, <1>6 DEF Completes

(* What it adds is new, and where it writes to what exists it keeps what lasts. *)
LEMMA NewFacts ==
  ASSUME NEW g, NEW s, Sound(g, s), NEW r \in DOMAIN s.writes, s.writes[r] # Absent
  PROVE  /\ r \in Rows /\ RowOK(r, s.writes[r])
         /\ g.db[r] # Absent => Evolves(r, g.db[r], s.writes[r])
         /\ g.db[r] = Absent => r \notin g.issued /\ Adds(g, s, r)
<1>1. RowsOK(g, s) /\ Fresh(g, s) /\ Ours(s) /\ DOMAIN s.writes \subseteq Rows
  BY SoundParts
<1>2. RowOK(r, s.writes[r]) /\ (g.db[r] # Absent => Evolves(r, g.db[r], s.writes[r]))
  BY <1>1 DEF RowsOK
<1>3. g.db[r] = Absent => r \notin g.issued /\ Adds(g, s, r)
  BY <1>1 DEF Fresh, Ours, Adds, Puts
<1> QED
  BY <1>1, <1>2, <1>3

LEMMA AddedLocation ==
  ASSUME NEW g, NEW s, Sound(g, s), NEW l \in RowsOf("location"), Adds(g, s, l)
  PROVE  /\ Completes(g, s) /\ l = NewRow(s) /\ s.pc # "complete"
         /\ s.writes[l].folderName = Folder(s.job.upload)
<1>1. s.job.kind = "complete" /\ l = NewRow(s)
  BY SoundParts DEF InsertsOK
<1>2. Completes(g, s)
  BY <1>1, CompletesFacts
<1>3. s.pc # "complete"
  BY SoundParts DEF FirstOK, FirstPcs, Adds, Puts
<1> QED
  BY <1>1, <1>2, <1>3 DEF Completes

LEMMA PutEntry ==
  ASSUME NEW g, NEW s, Sound(g, s), NEW e \in RowsOf("entry"), Puts(s, e)
  PROVE  /\ Completes(g, s) /\ s.pc # "complete" /\ LocationOf(s.writes[e]) = NewRow(s)
         /\ Adds(g, s, NewRow(s)) /\ NewRow(s) \in RowsOf("location")
         /\ NewRow(s) \in DOMAIN s.writes /\ NewRow(s) \notin g.issued
         /\ Adds(g, s, e) => KeyOf(s.writes[e]) = KeyOf(g.db[UploadRow(s)])
<1>1. /\ s.job.kind = "complete" /\ s.writes[e].locationId = s.reg.new
      /\ Adds(g, s, e) => KeyOf(s.writes[e]) = KeyOf(s.reg.upload)
  BY SoundParts DEF EntriesOK
<1>2. Completes(g, s)
  BY <1>1, CompletesFacts
<1>3. s.pc # "complete"
  BY SoundParts DEF FirstOK, FirstPcs, Puts
<1>4. LocationOf(s.writes[e]) = NewRow(s)
  BY <1>1 DEF LocationOf, NewRow
<1>5. Adds(g, s, NewRow(s)) /\ NewRow(s) \in RowsOf("location")
  BY <1>2, <1>3 DEF Completes
<1>6. NewRow(s) \in DOMAIN s.writes /\ s.writes[NewRow(s)] # Absent /\ g.db[NewRow(s)] = Absent
  BY <1>5 DEF Adds, Puts
<1>7. NewRow(s) \notin g.issued
  BY <1>6, NewFacts
<1> QED
  BY <1>1, <1>2, <1>3, <1>4, <1>5, <1>6, <1>7 DEF Completes

(* The folder of an owner that it adds.                                      *)
LEMMA NewOwner ==
  ASSUME NEW g, NEW s, Sound(g, s), NEW o \in Owners, Adds(g, s, o)
  PROVE  \/ /\ o \in RowsOf("upload") /\ s.writes[o].folderName = Folder(o[2]) /\ o[2] \in Upload
            /\ o = <<"upload", o[2]>> /\ o \notin g.issued
         \/ /\ o \in RowsOf("location") /\ Completes(g, s) /\ o = NewRow(s) /\ s.pc # "complete"
            /\ s.writes[o].folderName = Folder(s.job.upload)
<1>1. CASE o \in RowsOf("upload")
  <2>1. /\ o \in DOMAIN s.writes /\ s.writes[o] # Absent /\ g.db[o] = Absent
    BY DEF Adds, Puts
  <2>2. RowOK(o, s.writes[o]) /\ o \notin g.issued
    BY <2>1, NewFacts
  <2>3. s.writes[o].folderName = Folder(o[2]) /\ o = <<"upload", o[2]>> /\ o[2] \in Upload
    BY <1>1, <2>2, RowKinds, RowFacts DEF Ids
  <2> QED
    BY <1>1, <2>2, <2>3
<1>2. CASE o \in RowsOf("location")
  BY <1>2, AddedLocation
<1> QED
  BY <1>1, <1>2, TableRows

-----------------------------------------------------------------------------
(* A commit.                                                                 *)

Commits(g, h, s) ==
  /\ Sound(g, s) /\ s.pc = "commit" /\ g.clock \in Nat
  /\ h.db = Would(g, s) /\ h.issued = g.issued \cup Issued(h.db)
  /\ h.clock = g.clock /\ h.engine = g.engine

LEMMA CommitParts ==
  ASSUME NEW g, NEW h, NEW s, Commits(g, h, s)
  PROVE  /\ Sound(g, s) /\ s.pc = "commit" /\ h.db = Would(g, s)
         /\ h.issued = g.issued \cup Issued(h.db) /\ g.issued \subseteq h.issued
         /\ h.clock = g.clock /\ h.engine = g.engine /\ g.clock \in Nat
         /\ Committed(g) /\ Typed(h.db) /\ Linked(h.db)
BY SoundParts, SoundWould DEF Commits

\* What is committed are the rows that would be left.
LEMMA CommitRow ==
  ASSUME NEW g, NEW h, NEW s, Commits(g, h, s), NEW r \in Rows
  PROVE  /\ r \in DOMAIN s.writes => h.db[r] = s.writes[r]
         /\ r \notin DOMAIN s.writes => h.db[r] = g.db[r]
         /\ h.db[r] # Absent => RowOK(r, h.db[r]) /\ r \in h.issued
         /\ g.db[r] # Absent => RowOK(r, g.db[r]) /\ r \in g.issued
         /\ g.db[r] # Absent /\ h.db[r] # Absent => Evolves(r, g.db[r], h.db[r])
         /\ g.db[r] = Absent /\ h.db[r] # Absent => Adds(g, s, r) /\ r \notin g.issued
<1>1. /\ Sound(g, s) /\ h.db = Would(g, s) /\ h.issued = g.issued \cup Issued(h.db)
  BY CommitParts
<1>2. /\ Committed(g) /\ Shape(s) /\ RowsOK(g, s)
  BY <1>1, SoundParts
<1>3. /\ r \in DOMAIN s.writes => h.db[r] = s.writes[r]
      /\ r \notin DOMAIN s.writes => h.db[r] = g.db[r]
      /\ h.db[r] # Absent => /\ RowOK(r, h.db[r])
                             /\ g.db[r] # Absent => Evolves(r, g.db[r], h.db[r])
                             /\ g.db[r] = Absent => Adds(g, s, r)
  BY <1>1, <1>2, WouldTyped
<1>4. g.db[r] # Absent => RowOK(r, g.db[r]) /\ r \in g.issued
  BY <1>2, CommittedFacts
<1>5. h.db[r] # Absent => r \in h.issued
  BY <1>1 DEF Issued
<1>6. Adds(g, s, r) => r \notin g.issued
  BY <1>1, NewFacts DEF Adds, Puts
<1> QED
  BY <1>3, <1>4, <1>5, <1>6

LEMMA OwnerFolder ==
  ASSUME NEW g, NEW h, NEW s, Commits(g, h, s), NEW o \in Owners,
         g.db[o] # Absent, h.db[o] # Absent
  PROVE  h.db[o].folderName = g.db[o].folderName
<1>1. o \in Rows
  BY TableRows
<1>2. RowOK(o, g.db[o]) /\ RowOK(o, h.db[o]) /\ Evolves(o, g.db[o], h.db[o])
  BY <1>1, CommitRow
<1>3. CASE o \in RowsOf("upload")
  BY <1>2, <1>3, RowKinds
<1>4. CASE o \in RowsOf("location")
  BY <1>2, <1>4, EvolvesKinds
<1> QED
  BY <1>3, <1>4, TableRows

\* The committed tables are sound.
LEMMA CommitCommitted ==
  ASSUME NEW g, NEW h, NEW s, Commits(g, h, s)
  PROVE  Committed(h)
<1> DEFINE S == h.db
<1>1. /\ Sound(g, s) /\ s.pc = "commit" /\ S = Would(g, s)
      /\ h.issued = g.issued \cup Issued(S) /\ g.issued \subseteq h.issued
      /\ h.clock = g.clock /\ h.engine = g.engine /\ g.clock \in Nat
      /\ Committed(g)
  BY CommitParts
<1>2. /\ Typed(S) /\ Linked(S) /\ Leased(S) /\ OneEntry(S) /\ OneUpload(S)
      /\ OneOwner(S, Pair(s)) /\ QueueFree(S, Spared(s))
      /\ h.engine # "mysql" => Claimed(S)
  BY <1>1, SoundWould
<1>3. OneOwner(S, {})
  <2> SUFFICES ASSUME NEW r \in Owners, NEW x \in Owners, S[r] # Absent, S[x] # Absent, r # x
               PROVE  S[r].folderName # S[x].folderName
    BY DEF OneOwner
  <2>1. CASE {r, x} \subseteq Pair(s)
    <3>1. s.job.kind = "complete" /\ (r = UploadRow(s) \/ x = UploadRow(s))
      BY <2>1 DEF Pair
    <3>2. UploadRow(s) \in DOMAIN s.writes /\ s.writes[UploadRow(s)] = Absent
      BY <1>1, <3>1, SoundParts DEF UploadTaken
    <3>3. S[UploadRow(s)] = Absent
      BY <3>1, <3>2, TableRows, CommitRow
    <3> QED
      BY <3>1, <3>3
  <2>2. CASE ~({r, x} \subseteq Pair(s))
    BY <1>2, <2>2 DEF OneOwner
  <2> QED
    BY <2>1, <2>2
<1>4. QueueFree(S, {})
  BY <1>1, <1>2 DEF Spared
<1>5. Timely(S, h.clock)
  <2> SUFFICES ASSUME NEW d \in RowsOf("lease"), S[d] # Absent
               PROVE  S[d].expiresAt <= h.clock + Lasts
    BY DEF Timely
  <2>1. CASE d \in DOMAIN s.writes
    BY <1>1, <2>1, SoundParts, CommitRow, TableRows DEF TimesOK, Puts
  <2>2. CASE d \notin DOMAIN s.writes
    BY <1>1, <2>2, CommitRow, TableRows DEF Committed, Timely
  <2> QED
    BY <2>1, <2>2
<1>6. Known(S, h.issued)
  <2> SUFFICES ASSUME NEW r \in Rows, S[r] # Absent
               PROVE  /\ r \in h.issued
                      /\ r \in Owners \cup RowsOf("deletion")
                           => UploadOf(S[r].folderName) \in h.issued
    BY DEF Known
  <2>1. r \in h.issued
    BY CommitRow
  <2>2. CASE r \in Owners
    <3>1. S[r].folderName \in Owned(S)
      BY <2>2, TableRows DEF Owned
    <3>2. UploadOf(S[r].folderName) \in Issued(S)
      BY <3>1 DEF Issued, UploadOf
    <3> QED
      BY <1>1, <2>1, <3>2
  <2>3. CASE r \in RowsOf("deletion") /\ r \in DOMAIN s.writes
    BY <1>1, <2>1, <2>3, SoundParts, CommitRow DEF InsertsOK, Puts
  <2>4. CASE r \in RowsOf("deletion") /\ r \notin DOMAIN s.writes
    BY <1>1, <2>1, <2>4, CommitRow DEF Committed, Known
  <2> QED
    BY <2>1, <2>2, <2>3, <2>4
<1> HIDE DEF S
<1> QED
  BY <1>2, <1>3, <1>4, <1>5, <1>6 DEF Committed, S

-----------------------------------------------------------------------------
(* Another transaction beside the one that commits.                          *)

Beside(g, s, t) ==
  /\ Shape(t) /\ Fresh(g, t) /\ UploadTaken(g, t) /\ OpenInv(g, t)
  /\ Apart(s, t) /\ Apart(t, s) /\ Rivals(g, s, t)

LEMMA BesideParts ==
  ASSUME NEW g, NEW s, NEW t, Beside(g, s, t)
  PROVE  /\ Shape(t) /\ Fresh(g, t) /\ UploadTaken(g, t) /\ OpenInv(g, t)
         /\ Apart(s, t) /\ Apart(t, s) /\ Rivals(g, s, t)
         /\ DOMAIN t.writes \subseteq Rows
         /\ \A r \in DOMAIN t.writes : r \notin DOMAIN s.writes /\ r \in Rows
BY DEF Beside, Shape, Apart

(* What it has written is as it was.                                         *)
LEMMA BesideRow ==
  ASSUME NEW g, NEW h, NEW s, NEW t, Commits(g, h, s), Beside(g, s, t), NEW r \in DOMAIN t.writes
  PROVE  h.db[r] = g.db[r] /\ (Adds(h, t, r) <=> Adds(g, t, r)) /\ r \in Rows
BY BesideParts, CommitRow DEF Adds

LEMMA BesideAdds ==
  ASSUME NEW g, NEW h, NEW s, NEW t, Commits(g, h, s), Beside(g, s, t), NEW r
  PROVE  Adds(h, t, r) <=> Adds(g, t, r)
BY BesideRow DEF Adds, Puts

LEMMA BesideFresh ==
  ASSUME NEW g, NEW h, NEW s, NEW t, Commits(g, h, s), Beside(g, s, t)
  PROVE  Fresh(h, t)
<1> SUFFICES ASSUME t.pc # "rollback", NEW r \in DOMAIN t.writes,
                    h.db[r] = Absent, t.writes[r] # Absent, r \in h.issued
             PROVE  FALSE
  BY DEF Fresh
<1>1. r \in Rows /\ r \notin DOMAIN s.writes /\ g.db[r] = Absent
  BY BesideParts, BesideRow
<1>2. r \notin g.issued
  BY <1>1, BesideParts DEF Fresh
<1>3. r \in Issued(h.db)
  BY <1>2, CommitParts
<1>4. PICK f \in Owned(h.db) : r = <<"upload", f[1]>>
  BY <1>3 DEF Issued
<1>5. PICK o \in Owners : h.db[o] # Absent /\ f = h.db[o].folderName
  BY <1>4 DEF Owned, Owners
<1>6. r = UploadOf(h.db[o].folderName)
  BY <1>4, <1>5 DEF UploadOf
<1>9. \A i : UploadOf(Folder(i)) = <<"upload", i>>
  BY DEF UploadOf, Folder
<1>7. CASE g.db[o] # Absent
  <2>1. h.db[o].folderName = g.db[o].folderName
    BY <1>5, <1>7, OwnerFolder
  <2>2. UploadOf(g.db[o].folderName) \in g.issued
    BY <1>7, CommitParts, TableRows DEF Committed, Known
  <2> QED
    BY <1>2, <1>6, <2>1, <2>2
<1>8. CASE g.db[o] = Absent
  <2>1. Adds(g, s, o) /\ o \in Rows
    BY <1>5, <1>8, CommitRow, TableRows
  <2>2. o \in DOMAIN s.writes /\ h.db[o] = s.writes[o]
    BY <2>1, CommitRow DEF Adds, Puts
  <2>3. CASE o \in RowsOf("upload") /\ s.writes[o].folderName = Folder(o[2]) /\
          o = <<"upload", o[2]>>
    <3>1. r = o
      BY <1>6, <1>9, <2>2, <2>3
    <3> QED
      BY <1>1, <2>2, <3>1
  <2>4. CASE Completes(g, s) /\ s.writes[o].folderName = Folder(s.job.upload)
    <3>1. r = UploadRow(s)
      BY <1>6, <1>9, <2>2, <2>4 DEF UploadRow
    <3> QED
      BY <1>2, <2>4, <3>1 DEF Completes
  <2> QED
    BY <2>1, <2>3, <2>4, NewOwner, CommitParts
<1> QED
  BY <1>7, <1>8

LEMMA BesideUpload ==
  ASSUME NEW g, NEW h, NEW s, NEW t, Commits(g, h, s), Beside(g, s, t)
  PROVE  UploadTaken(h, t) /\ (Open(h, t) => Open(g, t) /\ Sound(g, t))
<1>1. UploadTaken(g, t) /\ g.issued \subseteq h.issued
  BY BesideParts, CommitParts
<1>2. UploadTaken(h, t)
  BY <1>1, BesideRow DEF UploadTaken
<1>3. ASSUME Open(h, t) PROVE Open(g, t)
  <2> SUFFICES ASSUME t.job.kind = "complete", g.db[UploadRow(t)] = Absent PROVE FALSE
    BY <1>3 DEF Open, Entitled
  <2>1. Ours(t) /\ h.db[UploadRow(t)] # Absent
    BY <1>3 DEF Open, Entitled
  <2>2. t.job.upload \in Upload /\ UploadRow(t) \in g.issued
    BY <1>1, <2>1 DEF UploadTaken
  <2>3. UploadRow(t) \in Rows
    BY <2>2, RowFacts, TableRows DEF UploadRow
  <2> QED
    BY <2>1, <2>2, <2>3, CommitRow
<1>4. Open(g, t) => Sound(g, t)
  BY BesideParts, CommitParts DEF Sound, OpenInv
<1> QED
  BY <1>2, <1>3, <1>4

(* Its readers are admitted as before.                                       *)
LEMMA BesideAdmissible ==
  ASSUME NEW g, NEW h, NEW s, NEW t, Commits(g, h, s), Beside(g, s, t),
         NEW l \in RowsOf("location"), l \in g.issued \/ l \in DOMAIN t.writes, Admissible(g, t, l)
  PROVE  Admissible(h, t, l)
<1> SUFFICES ASSUME g.db[l] # Absent => ~Mergeable(g.db[l]), h.db[l] # Absent
             PROVE  ~Mergeable(h.db[l])
  BY DEF Admissible
<1>1. CASE l \in DOMAIN t.writes
  BY <1>1, BesideRow
<1>2. CASE l \in g.issued
  <2>1. g.db[l] # Absent /\ Evolves(l, g.db[l], h.db[l])
    BY <1>2, CommitRow, TableRows
  <2> QED
    BY <2>1, EvolvesMergeable
<1> QED
  BY <1>1, <1>2

\* The writes of the other transaction are sound beside the commit.
LEMMA BesideWrites ==
  ASSUME NEW g, NEW h, NEW s, NEW t, Commits(g, h, s), Beside(g, s, t), Sound(g, t)
  PROVE  WritesInv(h, t)
<1>1. /\ RowsOK(g, t) /\ EntriesOK(g, t) /\ InsertsOK(g, t) /\ DropsOK(g, t) /\ TimesOK(g, t)
      /\ g.issued \subseteq h.issued /\ h.clock = g.clock
  BY SoundParts, CommitParts
<1>7. \A r \in DOMAIN t.writes : Would(g, t)[r] = t.writes[r]
  <2>1. Grown(Would(g, t), t.writes, g.db)
    BY WouldGrown
  <2> QED
    BY <2>1 DEF Grown
<1>2. RowsOK(h, t)
  BY <1>1, BesideRow DEF RowsOK
<1>3. EntriesOK(h, t)
  BY <1>1, BesideAdds DEF EntriesOK
<1>4. InsertsOK(h, t)
  <2>1. \A l \in RowsOf("location") : Adds(h, t, l) => t.job.kind = "complete" /\ l = NewRow(t)
    BY <1>1, BesideAdds DEF InsertsOK
  <2>2. ASSUME NEW d \in RowsOf("lease"), Adds(h, t, d)
        PROVE  LET l == LeasedBy(t.writes[d]) IN
               /\ t.job.kind = "acquire" /\ l \in t.shared
               /\ t.writes[d].scope = "parts" => Admissible(h, t, l)
    <3> DEFINE l == LeasedBy(t.writes[d])
    <3>1. Adds(g, t, d)
      BY <2>2, BesideAdds
    <3>2. /\ t.job.kind = "acquire" /\ l \in t.shared
          /\ t.writes[d].scope = "parts" => Admissible(g, t, l)
      BY <1>1, <3>1 DEF InsertsOK
    <3>3. d \in DOMAIN t.writes /\ t.writes[d] # Absent
      BY <3>1 DEF Adds, Puts
    <3>4. RowOK(d, t.writes[d])
      BY <1>1, <3>3 DEF RowsOK
    <3>5. l \in RowsOf("location")
      BY <3>4, RowKinds, Referred
    <3>6. Would(g, t)[l] # Absent
      <4>1. Leased(Would(g, t)) /\ Would(g, t)[d] = t.writes[d]
        <5>1. Leased(Would(g, t))
          BY SoundWould
        <5>2. Would(g, t)[d] = t.writes[d]
          BY <3>3, <1>7
        <5> QED
          BY <5>1, <5>2
      <4> QED
        BY <3>3, <4>1 DEF Leased
    <3>7. l \in DOMAIN t.writes \/ l \in g.issued
      BY <3>5, <3>6, SoundParts, WouldTyped, TableRows, CommitRow
    <3> HIDE DEF l
    <3>8. t.writes[d].scope = "parts" => Admissible(h, t, l)
      BY <3>2, <3>5, <3>7, BesideAdmissible
    <3> QED
      BY <3>2, <3>8 DEF l
  <2>3. \A r \in RowsOf("deletion") : Puts(t, r) => UploadOf(t.writes[r].folderName) \in h.issued
    BY <1>1 DEF InsertsOK
  <2> QED
    BY <2>1, <2>2, <2>3 DEF InsertsOK
<1>5. DropsOK(h, t)
  BY <1>1, BesideRow DEF DropsOK
<1>6. TimesOK(h, t)
  BY <1>1 DEF TimesOK
<1> QED
  BY <1>2, <1>3, <1>4, <1>5, <1>6 DEF WritesInv

-----------------------------------------------------------------------------
(* The tables G that two open transactions would leave together.             *)

Meet(g, s, t, G) ==
  /\ Sound(g, s) /\ Sound(g, t) /\ Apart(s, t) /\ Apart(t, s)
  /\ Rivals(g, s, t) /\ Rivals(g, t, s)
  /\ t.job.kind = "complete" => Would(g, s)[UploadRow(t)] # Absent
  /\ s.job.kind = "complete" => Would(g, t)[UploadRow(s)] # Absent
  /\ s.job.kind = "complete" /\ t.job.kind = "complete" => UploadRow(s) # UploadRow(t)
  /\ \A r \in Rows : /\ r \in DOMAIN s.writes => G[r] = s.writes[r]
                     /\ r \in DOMAIN t.writes => G[r] = t.writes[r]
                     /\ r \notin DOMAIN s.writes \cup DOMAIN t.writes => G[r] = g.db[r]

LEMMA MeetTurn ==
  ASSUME NEW g, NEW s, NEW t, NEW G, Meet(g, s, t, G)
  PROVE  Meet(g, t, s, G)
BY DEF Meet

\* Two open transactions, over what is committed.
LEMMA MeetParts ==
  ASSUME NEW g, NEW s, NEW t, NEW G, Meet(g, s, t, G)
  PROVE  /\ Sound(g, s) /\ Sound(g, t) /\ Apart(s, t) /\ Apart(t, s) /\ Rivals(g, s, t)
         /\ Committed(g)
         /\ t.job.kind = "complete" => Would(g, s)[UploadRow(t)] # Absent
         /\ s.job.kind = "complete" /\ t.job.kind = "complete" => UploadRow(s) # UploadRow(t)
BY SoundParts DEF Meet

LEMMA MeetRow ==
  ASSUME NEW g, NEW s, NEW t, NEW G, Meet(g, s, t, G), NEW r \in Rows
  PROVE  /\ r \in DOMAIN s.writes =>
              /\ r \notin DOMAIN t.writes /\ G[r] = s.writes[r] /\ Would(g, s)[r] = s.writes[r]
              /\ Would(g, t)[r] = g.db[r]
         /\ r \in DOMAIN t.writes =>
              /\ r \notin DOMAIN s.writes /\ G[r] = t.writes[r] /\ Would(g, t)[r] = t.writes[r]
              /\ Would(g, s)[r] = g.db[r]
         /\ r \notin DOMAIN s.writes => Would(g, s)[r] = g.db[r] /\ G[r] = Would(g, t)[r]
         /\ r \notin DOMAIN t.writes => Would(g, t)[r] = g.db[r] /\ G[r] = Would(g, s)[r]
<1>1. /\ r \in DOMAIN s.writes => r \notin DOMAIN t.writes /\ G[r] = s.writes[r]
      /\ r \in DOMAIN t.writes => r \notin DOMAIN s.writes /\ G[r] = t.writes[r]
      /\ r \notin DOMAIN s.writes \cup DOMAIN t.writes => G[r] = g.db[r]
  BY DEF Meet, Apart
<1>2. /\ Grown(Would(g, s), s.writes, g.db) /\ Grown(Would(g, t), t.writes, g.db)
      /\ DOMAIN g.db = Rows
  BY WouldGrown, MeetParts, CommittedFacts
<1>3. /\ r \in DOMAIN s.writes => Would(g, s)[r] = s.writes[r]
      /\ r \notin DOMAIN s.writes => Would(g, s)[r] = g.db[r]
  BY <1>2 DEF Grown
<1>4. /\ r \in DOMAIN t.writes => Would(g, t)[r] = t.writes[r]
      /\ r \notin DOMAIN t.writes => Would(g, t)[r] = g.db[r]
  BY <1>2 DEF Grown
<1> QED
  BY <1>1, <1>3, <1>4

(* What one of them has put, and how it lasts.                               *)
LEMMA MeetPut ==
  ASSUME NEW g, NEW s, NEW t, NEW G, Meet(g, s, t, G), NEW r \in Rows, r \in DOMAIN s.writes,
         G[r] # Absent
  PROVE  /\ RowOK(r, G[r]) /\ Puts(s, r) /\ s.writes[r] = G[r]
         /\ g.db[r] # Absent => Evolves(r, g.db[r], G[r]) /\ RowOK(r, g.db[r])
         /\ g.db[r] = Absent => Adds(g, s, r) /\ r \notin g.issued
BY MeetRow, MeetParts, NewFacts, CommittedFacts DEF Puts

\* Entries lead to locations.
LEMMA MeetLinked ==
  ASSUME NEW g, NEW s, NEW t, NEW G, Meet(g, s, t, G)
  PROVE  Linked(G)
<1> SUFFICES ASSUME NEW e \in RowsOf("entry"), G[e] # Absent
             PROVE  /\ G[LocationOf(G[e])] # Absent
                    /\ G[LocationOf(G[e])].deletionRequestedAt = Null
  BY DEF Linked
<1> DEFINE l == LocationOf(G[e])
<1>1. e \in Rows
  BY TableRows
<1>2. Meet(g, t, s, G)
  BY MeetTurn
<1>3. Linked(Would(g, s)) /\ Linked(Would(g, t))
  BY MeetParts, SoundWould
<1>4. Committed(g)
  BY MeetParts
<1>5. RowOK(e, G[e])
  <2>1. CASE e \in DOMAIN s.writes
    BY <1>1, <2>1, MeetPut
  <2>2. CASE e \in DOMAIN t.writes
    BY <1>1, <1>2, <2>2, MeetPut
  <2>3. CASE e \notin DOMAIN s.writes /\ e \notin DOMAIN t.writes
    BY <1>1, <1>4, <2>3, MeetRow, CommittedFacts
  <2> QED
    BY <2>1, <2>2, <2>3
<1>6. l \in RowsOf("location") /\ l \in Rows
  BY <1>5, RowKinds, Referred, TableRows
<1> HIDE DEF l
<1> SUFFICES G[l] # Absent /\ G[l].deletionRequestedAt = Null
  BY DEF l
<1>7. CASE e \in DOMAIN s.writes
  <2>1. Puts(s, e) /\ s.writes[e] = G[e]
    BY <1>1, <1>7, MeetPut
  <2>2. l = NewRow(s) /\ NewRow(s) \in DOMAIN s.writes
    BY <2>1, MeetParts, PutEntry DEF l
  <2>3. Would(g, s)[e] = G[e] /\ G[l] = Would(g, s)[l]
    BY <1>1, <1>6, <1>7, <2>2, MeetRow
  <2> QED
    BY <1>3, <2>3 DEF Linked, l
<1>8. CASE e \in DOMAIN t.writes
  <2>1. Puts(t, e) /\ t.writes[e] = G[e]
    BY <1>1, <1>2, <1>8, MeetPut
  <2>2. l = NewRow(t) /\ NewRow(t) \in DOMAIN t.writes
    BY <2>1, MeetParts, PutEntry DEF l
  <2>3. Would(g, t)[e] = G[e] /\ G[l] = Would(g, t)[l]
    BY <1>1, <1>6, <1>8, <2>2, MeetRow
  <2> QED
    BY <1>3, <2>3 DEF Linked, l
<1>9. CASE e \notin DOMAIN s.writes /\ e \notin DOMAIN t.writes
  <2>1. Would(g, s)[e] = G[e] /\ Would(g, t)[e] = G[e]
    BY <1>1, <1>9, MeetRow
  <2>2. G[l] = Would(g, s)[l] \/ G[l] = Would(g, t)[l]
    BY <1>6, MeetRow
  <2> QED
    BY <1>3, <2>1, <2>2 DEF Linked, l
<1> QED
  BY <1>7, <1>8, <1>9

(* A lease that one of them has put, of a location.                          *)
LEMMA MeetLease ==
  ASSUME NEW g, NEW s, NEW t, NEW G, Meet(g, s, t, G),
         NEW d \in RowsOf("lease"), d \in DOMAIN s.writes, G[d] # Absent
  PROVE  LeasedBy(G[d]) \in RowsOf("location") /\ G[LeasedBy(G[d])] # Absent
<1> DEFINE l == LeasedBy(G[d])
<1>1. d \in Rows
  BY TableRows
<1>2. /\ RowOK(d, G[d]) /\ Puts(s, d) /\ s.writes[d] = G[d]
      /\ g.db[d] # Absent => Evolves(d, g.db[d], G[d]) /\ RowOK(d, g.db[d])
      /\ g.db[d] = Absent => Adds(g, s, d)
  BY <1>1, MeetPut
<1>3. l \in RowsOf("location") /\ l \in Rows
  BY <1>2, RowKinds, Referred, TableRows
<1>4. Would(g, s)[d] = G[d] /\ Would(g, t)[d] = g.db[d]
  BY <1>1, <1>2, MeetRow
<1>5. Leased(Would(g, s)) /\ Leased(Would(g, t))
  BY MeetParts, SoundWould
<1>6. Would(g, s)[l] # Absent
  BY <1>4, <1>5 DEF Leased
<1>7. CASE l \notin DOMAIN t.writes
  BY <1>3, <1>6, <1>7, MeetRow
<1>8. CASE l \in DOMAIN t.writes /\ g.db[d] = Absent
  <2>1. l \in s.shared
    BY <1>2, <1>8, MeetParts, SoundParts DEF InsertsOK
  <2>2. t.writes[l] # Absent
    BY <1>8, <2>1, MeetParts DEF Apart
  <2> QED
    BY <1>3, <1>8, <2>2, MeetRow
<1>9. CASE l \in DOMAIN t.writes /\ g.db[d] # Absent
  <2>1. LeasedBy(g.db[d]) = l
    BY <1>2, <1>9, EvolvesKinds DEF LeasedBy
  <2>2. Would(g, t)[l] # Absent
    BY <1>4, <1>5, <1>9, <2>1 DEF Leased
  <2> QED
    BY <1>3, <1>9, <2>2, MeetRow
<1> QED
  BY <1>3, <1>7, <1>8, <1>9

\* Leases have locations.
LEMMA MeetLeased ==
  ASSUME NEW g, NEW s, NEW t, NEW G, Meet(g, s, t, G)
  PROVE  Leased(G)
<1> SUFFICES ASSUME NEW d \in RowsOf("lease"), G[d] # Absent
             PROVE  G[LeasedBy(G[d])] # Absent
  BY DEF Leased
<1>1. CASE d \in DOMAIN s.writes
  BY <1>1, MeetLease
<1>2. CASE d \in DOMAIN t.writes
  BY <1>2, MeetLease, MeetTurn
<1>3. CASE d \notin DOMAIN s.writes /\ d \notin DOMAIN t.writes
  <2> DEFINE l == LeasedBy(G[d])
  <2>1. d \in Rows /\ Committed(g)
    BY TableRows, MeetParts
  <2>2. Would(g, s)[d] = G[d] /\ Would(g, t)[d] = G[d] /\ G[d] = g.db[d]
    BY <1>3, <2>1, MeetRow
  <2>3. RowOK(d, G[d])
    BY <2>1, <2>2, CommittedFacts
  <2>4. l \in Rows
    BY <2>3, RowKinds, Referred, TableRows
  <2>5. Leased(Would(g, s)) /\ Leased(Would(g, t))
    BY MeetParts, SoundWould
  <2>6. Would(g, s)[l] # Absent /\ Would(g, t)[l] # Absent
    BY <2>2, <2>5 DEF Leased
  <2>7. G[l] = Would(g, s)[l] \/ G[l] = Would(g, t)[l]
    BY <2>4, MeetRow
  <2> QED
    BY <2>6, <2>7
<1> QED
  BY <1>1, <1>2, <1>3

-----------------------------------------------------------------------------
(* Between two rows, one from each.                                          *)

\* Two entries of two transactions have two tuples and two locations,
LEMMA CrossEntries ==
  ASSUME NEW g, NEW s, NEW t, NEW G, Meet(g, s, t, G),
         NEW e \in RowsOf("entry"), NEW f \in RowsOf("entry"), G[e] # Absent, G[f] # Absent,
         e \in DOMAIN s.writes, f \in DOMAIN t.writes
  PROVE  KeyOf(G[e]) # KeyOf(G[f]) /\ G[e].locationId # G[f].locationId
<1>1. e \in Rows /\ f \in Rows
  BY TableRows
<1>2. /\ Puts(s, e) /\ s.writes[e] = G[e]
      /\ g.db[e] # Absent => Evolves(e, g.db[e], G[e])
      /\ g.db[e] = Absent => Adds(g, s, e)
  BY <1>1, MeetPut
<1>3. Meet(g, t, s, G)
  BY MeetTurn
<1>4. /\ Puts(t, f) /\ t.writes[f] = G[f]
      /\ g.db[f] # Absent => Evolves(f, g.db[f], G[f])
      /\ g.db[f] = Absent => Adds(g, t, f)
  BY <1>1, <1>3, MeetPut
<1>5. /\ Sound(g, s) /\ Sound(g, t) /\ Committed(g) /\ Apart(s, t)
  BY MeetParts
<1>6. /\ Completes(g, s) /\ LocationOf(s.writes[e]) = NewRow(s) /\ NewRow(s) \in DOMAIN s.writes
      /\ Adds(g, s, e) => KeyOf(s.writes[e]) = KeyOf(g.db[UploadRow(s)])
  BY <1>2, <1>5, PutEntry
<1>7. /\ Completes(g, t) /\ LocationOf(t.writes[f]) = NewRow(t) /\ NewRow(t) \in DOMAIN t.writes
      /\ Adds(g, t, f) => KeyOf(t.writes[f]) = KeyOf(g.db[UploadRow(t)])
  BY <1>4, <1>5, PutEntry
<1>8. G[e].locationId # G[f].locationId
  BY <1>2, <1>4, <1>5, <1>6, <1>7 DEF LocationOf, Apart
<1>9. /\ OneEntry(Would(g, s)) /\ OneEntry(Would(g, t))
  BY <1>5, SoundWould
<1>10. e # f
  BY <1>5 DEF Apart
<1>11. CASE g.db[e] # Absent
  <2>1. Would(g, t)[e] = g.db[e] /\ Would(g, t)[f] = G[f]
    BY <1>1, <1>3, MeetRow
  <2>2. KeyOf(g.db[e]) # KeyOf(G[f])
    BY <1>9, <1>10, <1>11, <2>1 DEF OneEntry
  <2> QED
    BY <1>2, <1>8, <1>11, <2>2, EvolvesKinds
<1>12. CASE g.db[f] # Absent
  <2>1. Would(g, s)[f] = g.db[f] /\ Would(g, s)[e] = G[e]
    BY <1>1, MeetRow
  <2>2. KeyOf(G[e]) # KeyOf(g.db[f])
    BY <1>9, <1>10, <1>12, <2>1 DEF OneEntry
  <2> QED
    BY <1>4, <1>8, <1>12, <2>2, EvolvesKinds
<1>13. CASE g.db[e] = Absent /\ g.db[f] = Absent
  <2>1. KeyOf(G[e]) = KeyOf(g.db[UploadRow(s)]) /\ KeyOf(G[f]) = KeyOf(g.db[UploadRow(t)])
    BY <1>2, <1>4, <1>6, <1>7, <1>13
  <2>2. UploadRow(s) # UploadRow(t)
    BY <1>6, <1>7, MeetParts DEF Completes
  <2>3. KeyOf(g.db[UploadRow(s)]) # KeyOf(g.db[UploadRow(t)])
    BY <1>5, <1>6, <1>7, <2>2 DEF Completes, Committed, OneUpload
  <2> QED
    BY <1>8, <2>1, <2>3
<1> QED
  BY <1>11, <1>12, <1>13

\* two uploads two tuples.
LEMMA CrossUploads ==
  ASSUME NEW g, NEW s, NEW t, NEW G, Meet(g, s, t, G),
         NEW u \in RowsOf("upload"), NEW v \in RowsOf("upload"), G[u] # Absent, G[v] # Absent,
         u \in DOMAIN s.writes, v \in DOMAIN t.writes
  PROVE  KeyOf(G[u]) # KeyOf(G[v])
<1>1. u \in Rows /\ v \in Rows
  BY TableRows
<1>2. /\ s.writes[u] = G[u]
      /\ g.db[u] # Absent => Evolves(u, g.db[u], G[u])
      /\ g.db[u] = Absent => Adds(g, s, u)
  BY <1>1, MeetPut
<1>3. Meet(g, t, s, G)
  BY MeetTurn
<1>4. /\ t.writes[v] = G[v]
      /\ g.db[v] # Absent => Evolves(v, g.db[v], G[v])
      /\ g.db[v] = Absent => Adds(g, t, v)
  BY <1>1, <1>3, MeetPut
<1>5. /\ Sound(g, s) /\ Sound(g, t) /\ Rivals(g, s, t) /\ Apart(s, t)
  BY MeetParts
<1>6. /\ OneUpload(Would(g, s)) /\ OneUpload(Would(g, t))
  BY <1>5, SoundWould
<1>7. u # v
  BY <1>5 DEF Apart
<1>8. CASE g.db[u] # Absent
  <2>1. Would(g, t)[u] = g.db[u] /\ Would(g, t)[v] = G[v]
    BY <1>1, <1>3, MeetRow
  <2>2. KeyOf(g.db[u]) # KeyOf(G[v])
    BY <1>6, <1>7, <1>8, <2>1 DEF OneUpload
  <2> QED
    BY <1>2, <1>8, <2>2, EvolvesKinds
<1>9. CASE g.db[v] # Absent
  <2>1. Would(g, s)[v] = g.db[v] /\ Would(g, s)[u] = G[u]
    BY <1>1, MeetRow
  <2>2. KeyOf(G[u]) # KeyOf(g.db[v])
    BY <1>6, <1>7, <1>9, <2>1 DEF OneUpload
  <2> QED
    BY <1>4, <1>9, <2>2, EvolvesKinds
<1>10. CASE g.db[u] = Absent /\ g.db[v] = Absent
  <2>1. Open(g, s) /\ Open(g, t)
    BY <1>5, SoundParts
  <2> QED
    BY <1>2, <1>4, <1>5, <1>10, <2>1 DEF Rivals
<1> QED
  BY <1>8, <1>9, <1>10

(* Where both rows come from one, they are as that one has them.             *)
LEMMA MeetSides ==
  ASSUME NEW g, NEW s, NEW t, NEW G, Meet(g, s, t, G), NEW r \in Rows, NEW x \in Rows
  PROVE  \/ G[r] = Would(g, s)[r] /\ G[x] = Would(g, s)[x]
         \/ G[r] = Would(g, t)[r] /\ G[x] = Would(g, t)[x]
         \/ r \in DOMAIN s.writes /\ x \in DOMAIN t.writes
         \/ r \in DOMAIN t.writes /\ x \in DOMAIN s.writes
<1>1. /\ r \in DOMAIN s.writes => G[r] = Would(g, s)[r]
      /\ r \in DOMAIN t.writes => G[r] = Would(g, t)[r]
      /\ r \notin DOMAIN s.writes => G[r] = Would(g, t)[r]
      /\ r \notin DOMAIN t.writes => G[r] = Would(g, s)[r]
  BY MeetRow
<1>2. /\ x \in DOMAIN s.writes => G[x] = Would(g, s)[x]
      /\ x \in DOMAIN t.writes => G[x] = Would(g, t)[x]
      /\ x \notin DOMAIN s.writes => G[x] = Would(g, t)[x]
      /\ x \notin DOMAIN t.writes => G[x] = Would(g, s)[x]
  BY MeetRow
<1> QED
  BY <1>1, <1>2

\* So each tuple has one entry,
LEMMA MeetOneEntry ==
  ASSUME NEW g, NEW s, NEW t, NEW G, Meet(g, s, t, G)
  PROVE  OneEntry(G)
<1> SUFFICES ASSUME NEW e \in RowsOf("entry"), NEW f \in RowsOf("entry"),
                    G[e] # Absent, G[f] # Absent, e # f
             PROVE  KeyOf(G[e]) # KeyOf(G[f]) /\ G[e].locationId # G[f].locationId
  BY DEF OneEntry
<1>1. OneEntry(Would(g, s)) /\ OneEntry(Would(g, t))
  BY MeetParts, SoundWould
<1>2. \/ G[e] = Would(g, s)[e] /\ G[f] = Would(g, s)[f]
      \/ G[e] = Would(g, t)[e] /\ G[f] = Would(g, t)[f]
      \/ e \in DOMAIN s.writes /\ f \in DOMAIN t.writes
      \/ e \in DOMAIN t.writes /\ f \in DOMAIN s.writes
  BY MeetSides, TableRows
<1>3. CASE G[e] = Would(g, s)[e] /\ G[f] = Would(g, s)[f]
  BY <1>1, <1>3 DEF OneEntry
<1>4. CASE G[e] = Would(g, t)[e] /\ G[f] = Would(g, t)[f]
  BY <1>1, <1>4 DEF OneEntry
<1>5. CASE e \in DOMAIN s.writes /\ f \in DOMAIN t.writes
  BY <1>5, CrossEntries
<1>6. CASE e \in DOMAIN t.writes /\ f \in DOMAIN s.writes
  BY <1>6, CrossEntries, MeetTurn
<1> QED
  BY <1>2, <1>3, <1>4, <1>5, <1>6

\* and one upload.
LEMMA MeetOneUpload ==
  ASSUME NEW g, NEW s, NEW t, NEW G, Meet(g, s, t, G)
  PROVE  OneUpload(G)
<1> SUFFICES ASSUME NEW u \in RowsOf("upload"), NEW v \in RowsOf("upload"),
                    G[u] # Absent, G[v] # Absent, u # v
             PROVE  KeyOf(G[u]) # KeyOf(G[v])
  BY DEF OneUpload
<1>1. OneUpload(Would(g, s)) /\ OneUpload(Would(g, t))
  BY MeetParts, SoundWould
<1>2. \/ G[u] = Would(g, s)[u] /\ G[v] = Would(g, s)[v]
      \/ G[u] = Would(g, t)[u] /\ G[v] = Would(g, t)[v]
      \/ u \in DOMAIN s.writes /\ v \in DOMAIN t.writes
      \/ u \in DOMAIN t.writes /\ v \in DOMAIN s.writes
  BY MeetSides, TableRows
<1>3. CASE G[u] = Would(g, s)[u] /\ G[v] = Would(g, s)[v]
  BY <1>1, <1>3 DEF OneUpload
<1>4. CASE G[u] = Would(g, t)[u] /\ G[v] = Would(g, t)[v]
  BY <1>1, <1>4 DEF OneUpload
<1>5. CASE u \in DOMAIN s.writes /\ v \in DOMAIN t.writes
  BY <1>5, CrossUploads
<1>6. CASE u \in DOMAIN t.writes /\ v \in DOMAIN s.writes
  BY <1>6, CrossUploads, MeetTurn
<1> QED
  BY <1>2, <1>3, <1>4, <1>5, <1>6

-----------------------------------------------------------------------------
(* Two owners that are both new.                                             *)
LEMMA CrossOwners ==
  ASSUME NEW g, NEW s, NEW t, NEW G, Meet(g, s, t, G),
         NEW o \in Owners, NEW x \in Owners, Adds(g, s, o), Adds(g, t, x)
  PROVE  s.writes[o].folderName # t.writes[x].folderName
<1>1. Sound(g, s) /\ Sound(g, t) /\ Apart(s, t)
  BY MeetParts
<1>2. o # x
  BY <1>1 DEF Apart, Adds, Puts
<1>3. \/ /\ s.writes[o].folderName = Folder(o[2]) /\ o[2] \in Upload
         /\ o = <<"upload", o[2]>> /\ o \notin g.issued
      \/ /\ Completes(g, s) /\ s.writes[o].folderName = Folder(s.job.upload)
  BY <1>1, NewOwner
<1>4. \/ /\ t.writes[x].folderName = Folder(x[2]) /\ x[2] \in Upload
         /\ x = <<"upload", x[2]>> /\ x \notin g.issued
      \/ /\ Completes(g, t) /\ t.writes[x].folderName = Folder(t.job.upload)
  BY <1>1, NewOwner
<1>5. \A i, j : Folder(i) = Folder(j) => i = j
  BY DEF Folder
<1>6. CASE /\ s.writes[o].folderName = Folder(o[2]) /\ o = <<"upload", o[2]>> /\ o \notin g.issued
  <2>1. CASE t.writes[x].folderName = Folder(x[2]) /\ x = <<"upload", x[2]>>
    BY <1>2, <1>5, <1>6, <2>1
  <2>2. CASE Completes(g, t) /\ t.writes[x].folderName = Folder(t.job.upload)
    BY <1>5, <1>6, <2>2 DEF Completes, UploadRow
  <2> QED
    BY <1>4, <2>1, <2>2
<1>7. CASE Completes(g, s) /\ s.writes[o].folderName = Folder(s.job.upload)
  <2>1. CASE t.writes[x].folderName = Folder(x[2]) /\ x = <<"upload", x[2]>> /\ x \notin g.issued
    BY <1>5, <1>7, <2>1 DEF Completes, UploadRow
  <2>2. CASE Completes(g, t) /\ t.writes[x].folderName = Folder(t.job.upload)
    <3>1. UploadRow(s) # UploadRow(t)
      BY <1>7, <2>2, MeetParts DEF Completes
    <3> QED
      BY <1>5, <1>7, <2>2, <3>1 DEF UploadRow
  <2> QED
    BY <1>4, <2>1, <2>2
<1> QED
  BY <1>3, <1>6, <1>7

(* The folder of an owner that was there.                                    *)
LEMMA MeetFolder ==
  ASSUME NEW g, NEW s, NEW t, NEW G, Meet(g, s, t, G),
         NEW o \in Owners, o \in DOMAIN s.writes, G[o] # Absent, g.db[o] # Absent
  PROVE  G[o].folderName = g.db[o].folderName
<1>1. o \in Rows
  BY TableRows
<1>2. /\ RowOK(o, G[o]) /\ Evolves(o, g.db[o], G[o]) /\ RowOK(o, g.db[o])
  BY <1>1, MeetPut
<1>3. CASE o \in RowsOf("upload")
  BY <1>2, <1>3, RowKinds
<1>4. CASE o \in RowsOf("location")
  BY <1>2, <1>4, EvolvesKinds
<1> QED
  BY <1>3, <1>4, TableRows

\* Two owners have two folders.
LEMMA CrossOwner ==
  ASSUME NEW g, NEW s, NEW t, NEW G, Meet(g, s, t, G), NEW pair,
         OneOwner(Would(g, s), {}), OneOwner(Would(g, t), pair),
         NEW r \in Owners, NEW x \in Owners, G[r] # Absent, G[x] # Absent,
         ~({r, x} \subseteq pair), r \in DOMAIN s.writes, x \in DOMAIN t.writes
  PROVE  G[r].folderName # G[x].folderName
<1>1. r \in Rows /\ x \in Rows
  BY TableRows
<1>2. Meet(g, t, s, G)
  BY MeetTurn
<1>3. r # x
  BY MeetParts DEF Apart
<1>4. /\ s.writes[r] = G[r] /\ Would(g, s)[r] = G[r] /\ Would(g, t)[r] = g.db[r]
      /\ t.writes[x] = G[x] /\ Would(g, t)[x] = G[x] /\ Would(g, s)[x] = g.db[x]
  BY <1>1, MeetRow
<1>5. CASE g.db[r] # Absent
  <2>1. G[r].folderName = g.db[r].folderName
    BY <1>5, MeetFolder
  <2>2. g.db[r].folderName # G[x].folderName
    BY <1>3, <1>4, <1>5 DEF OneOwner
  <2> QED
    BY <2>1, <2>2
<1>6. CASE g.db[x] # Absent
  <2>1. G[x].folderName = g.db[x].folderName
    BY <1>2, <1>6, MeetFolder
  <2>2. G[r].folderName # g.db[x].folderName
    BY <1>3, <1>4, <1>6 DEF OneOwner
  <2> QED
    BY <2>1, <2>2
<1>7. CASE g.db[r] = Absent /\ g.db[x] = Absent
  <2>1. Adds(g, s, r) /\ Adds(g, t, x)
    BY <1>1, <1>2, <1>7, MeetPut
  <2> QED
    BY <1>4, <2>1, CrossOwners
<1> QED
  BY <1>5, <1>6, <1>7

\* So each folder has one owner.
LEMMA MeetOneOwner ==
  ASSUME NEW g, NEW s, NEW t, NEW G, Meet(g, s, t, G), NEW pair,
         OneOwner(Would(g, s), {}), OneOwner(Would(g, t), pair)
  PROVE  OneOwner(G, pair)
<1> SUFFICES ASSUME NEW r \in Owners, NEW x \in Owners, G[r] # Absent, G[x] # Absent, r # x,
                    ~({r, x} \subseteq pair)
             PROVE  G[r].folderName # G[x].folderName
  BY DEF OneOwner
<1>1. ~({x, r} \subseteq pair)
  OBVIOUS
<1>2. \/ G[r] = Would(g, s)[r] /\ G[x] = Would(g, s)[x]
      \/ G[r] = Would(g, t)[r] /\ G[x] = Would(g, t)[x]
      \/ r \in DOMAIN s.writes /\ x \in DOMAIN t.writes
      \/ r \in DOMAIN t.writes /\ x \in DOMAIN s.writes
  BY MeetSides, TableRows
<1>3. CASE G[r] = Would(g, s)[r] /\ G[x] = Would(g, s)[x]
  BY <1>3 DEF OneOwner
<1>4. CASE G[r] = Would(g, t)[r] /\ G[x] = Would(g, t)[x]
  BY <1>4 DEF OneOwner
<1>5. CASE r \in DOMAIN s.writes /\ x \in DOMAIN t.writes
  BY <1>5, CrossOwner
<1>6. CASE r \in DOMAIN t.writes /\ x \in DOMAIN s.writes
  <2>1. G[x].folderName # G[r].folderName
    BY <1>1, <1>6, CrossOwner
  <2> QED
    BY <2>1
<1> QED
  BY <1>2, <1>3, <1>4, <1>5, <1>6

-----------------------------------------------------------------------------
(* Uploads are never spared.                                                 *)
AllOf(folder) == folder[2] = ""
UploadsIn(rows) == \E u \in RowsOf("upload") : u \in rows

(* A task that one of them adds, for an owner that the other adds.           *)
LEMMA CrossTask ==
  ASSUME NEW g, NEW s, NEW t, NEW G, Meet(g, s, t, G), NEW spared,
         QueueFree(Would(g, s), spared), ~UploadsIn(spared),
         NEW d \in RowsOf("deletion"), NEW o \in Owners, Adds(g, s, d), Adds(g, t, o),
         AllOf(s.writes[d].folderName)
  PROVE  s.writes[d].folderName # t.writes[o].folderName
<1>1. Sound(g, s) /\ Sound(g, t)
  BY MeetParts
<1> SUFFICES ASSUME s.writes[d].folderName = t.writes[o].folderName
             PROVE  FALSE
  OBVIOUS
<1>2. UploadOf(s.writes[d].folderName) \in g.issued
  BY <1>1, SoundParts DEF InsertsOK, Adds
<1>3. \A i : UploadOf(Folder(i)) = <<"upload", i>>
  BY DEF UploadOf, Folder
<1>4. CASE /\ t.writes[o].folderName = Folder(o[2]) /\ o = <<"upload", o[2]>> /\ o \notin g.issued
  BY <1>2, <1>3, <1>4
<1>5. CASE Completes(g, t) /\ t.writes[o].folderName = Folder(t.job.upload)
  <2> DEFINE u == UploadRow(t)
  <2>1. /\ u \in RowsOf("upload") /\ u \notin spared /\ u \in Owners /\ u \in Rows
        /\ t.job.kind = "complete" /\ u[2] = t.job.upload
    BY <1>5, TableRows DEF Completes, UploadsIn
  <2>2. Would(g, s)[u] # Absent
    BY <2>1, MeetParts
  <2>3. RowOK(u, Would(g, s)[u])
    BY <1>1, <2>1, <2>2, SoundWould DEF Typed
  <2>4. Would(g, s)[u].folderName = Folder(t.job.upload)
    BY <2>1, <2>3, RowKinds
  <2>5. d \in DOMAIN s.writes /\ s.writes[d] # Absent /\ d \in Rows
    BY TableRows DEF Adds, Puts
  <2>6. Would(g, s)[d] = s.writes[d]
    BY <2>5, MeetRow
  <2>7. Would(g, s)[d].folderName # Would(g, s)[u].folderName
    BY <2>1, <2>2, <2>5, <2>6 DEF QueueFree, AllOf
  <2> QED
    BY <1>5, <2>4, <2>6, <2>7
<1>6. \/ /\ t.writes[o].folderName = Folder(o[2]) /\ o = <<"upload", o[2]>> /\ o \notin g.issued
      \/ Completes(g, t) /\ t.writes[o].folderName = Folder(t.job.upload)
  BY <1>1, NewOwner
<1> QED
  BY <1>4, <1>5, <1>6

\* The outbox of the one has no folder of an owner that the other adds.
LEMMA CrossQueue ==
  ASSUME NEW g, NEW s, NEW t, NEW G, Meet(g, s, t, G), NEW ours, NEW theirs,
         QueueFree(Would(g, s), ours), QueueFree(Would(g, t), theirs),
         ~UploadsIn(ours),
         NEW d \in RowsOf("deletion"), NEW o \in Owners, G[d] # Absent, G[o] # Absent,
         o \notin ours, o \notin theirs,
         d \in DOMAIN s.writes, o \in DOMAIN t.writes, AllOf(G[d].folderName)
  PROVE  G[d].folderName # G[o].folderName
<1>1. d \in Rows /\ o \in Rows
  BY TableRows
<1>2. Meet(g, t, s, G)
  BY MeetTurn
<1>3. /\ s.writes[d] = G[d] /\ Would(g, s)[d] = G[d] /\ Would(g, t)[d] = g.db[d]
      /\ t.writes[o] = G[o] /\ Would(g, t)[o] = G[o] /\ Would(g, s)[o] = g.db[o]
  BY <1>1, MeetRow
<1>4. CASE g.db[d] # Absent
  <2>1. G[d].folderName = g.db[d].folderName
    BY <1>1, <1>4, MeetPut, EvolvesKinds
  <2>2. g.db[d].folderName # G[o].folderName
    BY <1>3, <1>4, <2>1 DEF QueueFree, AllOf
  <2> QED
    BY <2>1, <2>2
<1>5. CASE g.db[o] # Absent
  <2>1. G[o].folderName = g.db[o].folderName
    BY <1>2, <1>5, MeetFolder
  <2>2. G[d].folderName # g.db[o].folderName
    BY <1>3, <1>5 DEF QueueFree, AllOf
  <2> QED
    BY <2>1, <2>2
<1>6. CASE g.db[d] = Absent /\ g.db[o] = Absent
  <2>1. Adds(g, s, d) /\ Adds(g, t, o)
    BY <1>1, <1>2, <1>6, MeetPut
  <2> QED
    BY <1>3, <2>1, CrossTask
<1> QED
  BY <1>4, <1>5, <1>6

\* So the outbox is free of owners.
LEMMA MeetQueueFree ==
  ASSUME NEW g, NEW s, NEW t, NEW G, Meet(g, s, t, G), NEW spared,
         QueueFree(Would(g, s), {}), QueueFree(Would(g, t), spared),
         ~UploadsIn(spared)
  PROVE  QueueFree(G, spared)
<1> SUFFICES ASSUME NEW d \in RowsOf("deletion"), NEW o \in Owners, o \notin spared,
                    G[d] # Absent, G[o] # Absent, AllOf(G[d].folderName)
             PROVE  G[d].folderName # G[o].folderName
  BY DEF QueueFree, AllOf
<1>1. \/ G[d] = Would(g, s)[d] /\ G[o] = Would(g, s)[o]
      \/ G[d] = Would(g, t)[d] /\ G[o] = Would(g, t)[o]
      \/ d \in DOMAIN s.writes /\ o \in DOMAIN t.writes
      \/ d \in DOMAIN t.writes /\ o \in DOMAIN s.writes
  BY MeetSides, TableRows
<1>2. CASE G[d] = Would(g, s)[d] /\ G[o] = Would(g, s)[o]
  BY <1>2 DEF QueueFree, AllOf
<1>3. CASE G[d] = Would(g, t)[d] /\ G[o] = Would(g, t)[o]
  BY <1>3 DEF QueueFree, AllOf
<1>4. CASE d \in DOMAIN s.writes /\ o \in DOMAIN t.writes
  <2>1. ~UploadsIn({}) /\ o \notin {}
    BY DEF UploadsIn
  <2> QED
    BY <1>4, <2>1, CrossQueue
<1>5. CASE d \in DOMAIN t.writes /\ o \in DOMAIN s.writes
  <2>1. Meet(g, t, s, G) /\ o \notin {}
    BY MeetTurn
  <2> QED
    BY <1>5, <2>1, CrossQueue
<1> QED
  BY <1>1, <1>2, <1>3, <1>4, <1>5

-----------------------------------------------------------------------------
(* Parts that one of them claims have no reader that the other admits.       *)
LEMMA CrossClaim ==
  ASSUME NEW g, NEW s, NEW t, NEW G, Meet(g, s, t, G), Claimed(Would(g, s)),
         NEW l \in RowsOf("location"), NEW d \in RowsOf("lease"),
         G[l] # Absent, G[l].partsDeletedAt # Null, PartsLease(G, d, l),
         l \in DOMAIN s.writes, d \in DOMAIN t.writes
  PROVE  FALSE
<1>1. l \in Rows /\ d \in Rows /\ Meet(g, t, s, G)
  BY TableRows, MeetTurn
<1>2. G[d] # Absent /\ G[d].scope = "parts" /\ LeasedBy(G[d]) = l
  BY DEF PartsLease
<1>3. /\ RowOK(l, G[l]) /\ s.writes[l] = G[l]
      /\ g.db[l] # Absent => Evolves(l, g.db[l], G[l])
  BY <1>1, MeetPut
<1>4. /\ RowOK(d, G[d]) /\ t.writes[d] = G[d]
      /\ g.db[d] # Absent => Evolves(d, g.db[d], G[d])
      /\ g.db[d] = Absent => Adds(g, t, d)
  BY <1>1, <1>2, MeetPut
<1>5. /\ Would(g, s)[l] = G[l] /\ Would(g, s)[d] = g.db[d]
      /\ Would(g, t)[l] = g.db[l] /\ Would(g, t)[d] = G[d]
  BY <1>1, MeetRow
<1>6. CASE g.db[d] # Absent
  <2>1. g.db[d].scope = "parts" /\ LeasedBy(g.db[d]) = l
    BY <1>2, <1>4, <1>6, EvolvesKinds DEF LeasedBy
  <2>2. PartsLease(Would(g, s), d, l)
    BY <1>5, <1>6, <2>1 DEF PartsLease
  <2> QED
    BY <1>5, <2>2 DEF Claimed, Unread
<1>7. CASE g.db[d] = Absent
  <2>1. Mergeable(G[l])
    BY <1>3, RowKinds, MergedFacts
  <2>2. Leased(Would(g, t))
    BY MeetParts, SoundWould
  <2>3. g.db[l] # Absent
    BY <1>2, <1>5, <2>2 DEF Leased
  <2>4. Mergeable(g.db[l])
    BY <1>3, <2>1, <2>3, EvolvesMergeable
  <2>5. InsertsOK(g, t)
    BY MeetParts, SoundParts
  <2>6. Adds(g, t, d) /\ t.writes[d] = G[d]
    BY <1>4, <1>7
  <2>7. t.writes[d].scope = "parts" => Admissible(g, t, LeasedBy(t.writes[d]))
    BY <2>5, <2>6 DEF InsertsOK
  <2>8. Admissible(g, t, l)
    BY <1>2, <2>6, <2>7
  <2>9. l \notin DOMAIN t.writes
    BY <1>1, MeetRow
  <2> QED
    BY <2>3, <2>4, <2>8, <2>9 DEF Admissible, Puts
<1> QED
  BY <1>6, <1>7

\* Claimed parts have no reader.
LEMMA MeetClaimed ==
  ASSUME NEW g, NEW s, NEW t, NEW G, Meet(g, s, t, G),
         Claimed(Would(g, s)), Claimed(Would(g, t))
  PROVE  Claimed(G)
<1> SUFFICES ASSUME NEW l \in RowsOf("location"), NEW d \in RowsOf("lease"),
                    G[l] # Absent, G[l].partsDeletedAt # Null, PartsLease(G, d, l)
             PROVE  FALSE
  BY DEF Claimed, Unread
<1>1. \/ G[l] = Would(g, s)[l] /\ G[d] = Would(g, s)[d]
      \/ G[l] = Would(g, t)[l] /\ G[d] = Would(g, t)[d]
      \/ l \in DOMAIN s.writes /\ d \in DOMAIN t.writes
      \/ l \in DOMAIN t.writes /\ d \in DOMAIN s.writes
  BY MeetSides, TableRows
<1>2. CASE G[l] = Would(g, s)[l] /\ G[d] = Would(g, s)[d]
  BY <1>2 DEF Claimed, Unread, PartsLease
<1>3. CASE G[l] = Would(g, t)[l] /\ G[d] = Would(g, t)[d]
  BY <1>3 DEF Claimed, Unread, PartsLease
<1>4. CASE l \in DOMAIN s.writes /\ d \in DOMAIN t.writes
  BY <1>4, CrossClaim
<1>5. CASE l \in DOMAIN t.writes /\ d \in DOMAIN s.writes
  BY <1>5, CrossClaim, MeetTurn
<1> QED
  BY <1>1, <1>2, <1>3, <1>4, <1>5

-----------------------------------------------------------------------------
(* A commit and an open transaction beside it.                               *)
LEMMA CommitMeets ==
  ASSUME NEW g, NEW h, NEW s, NEW t, Commits(g, h, s), Beside(g, s, t), Open(h, t)
  PROVE  Meet(g, s, t, Would(h, t))
<1> DEFINE G == Would(h, t)
<1>1. /\ Sound(g, s) /\ s.pc = "commit" /\ h.db = Would(g, s)
      /\ Committed(g) /\ Typed(h.db)
  BY CommitParts
<1>2. Sound(g, t) /\ Open(g, t)
  BY BesideUpload
<1>3. /\ Apart(s, t) /\ Apart(t, s) /\ Rivals(g, s, t) /\ Rivals(g, t, s)
  BY BesideParts, RivalsTurn
<1>4. t.job.kind = "complete" => Would(g, s)[UploadRow(t)] # Absent
  BY <1>1 DEF Open, Entitled
<1>5. ASSUME s.job.kind = "complete"
      PROVE  /\ Would(g, t)[UploadRow(s)] # Absent /\ h.db[UploadRow(s)] = Absent
  <2>1. /\ UploadRow(s) \in DOMAIN s.writes /\ s.writes[UploadRow(s)] = Absent
        /\ g.db[UploadRow(s)] # Absent
    BY <1>1, <1>5, SoundParts DEF UploadTaken
  <2>2. UploadRow(s) \in Rows
    BY <1>1, <2>1, SoundParts
  <2>3. UploadRow(s) \notin DOMAIN t.writes
    BY <1>3, <2>1 DEF Apart
  <2>4. Grown(Would(g, t), t.writes, g.db) /\ DOMAIN g.db = Rows
    BY <1>1, WouldGrown, CommittedFacts
  <2>5. Would(g, t)[UploadRow(s)] = g.db[UploadRow(s)]
    BY <2>2, <2>3, <2>4 DEF Grown
  <2>6. h.db[UploadRow(s)] = Absent
    BY <2>1, <2>2, CommitRow
  <2> QED
    BY <2>1, <2>5, <2>6
<1>6. s.job.kind = "complete" /\ t.job.kind = "complete" => UploadRow(s) # UploadRow(t)
  BY <1>1, <1>4, <1>5
<1>7. ASSUME NEW r \in Rows
      PROVE  /\ r \in DOMAIN s.writes => G[r] = s.writes[r]
             /\ r \in DOMAIN t.writes => G[r] = t.writes[r]
             /\ r \notin DOMAIN s.writes \cup DOMAIN t.writes => G[r] = g.db[r]
  <2>1. Grown(G, t.writes, h.db)
    BY WouldGrown
  <2>2. DOMAIN h.db = Rows
    BY <1>1 DEF Typed
  <2>3. /\ r \in DOMAIN t.writes => G[r] = t.writes[r]
        /\ r \notin DOMAIN t.writes => G[r] = h.db[r]
    BY <2>1, <2>2 DEF Grown
  <2>4. r \in DOMAIN s.writes => r \notin DOMAIN t.writes
    BY <1>3 DEF Apart
  <2> QED
    BY <2>3, <2>4, CommitRow
<1> HIDE DEF G
<1> QED
  BY <1>2, <1>1, <1>3, <1>4, <1>5, <1>6, <1>7 DEF Meet, G

\* What the other one would leave is sound beside the commit.
LEMMA BesideWould ==
  ASSUME NEW g, NEW h, NEW s, NEW t, Commits(g, h, s), Beside(g, s, t), Open(h, t)
  PROVE  WouldInv(h, t)
<1> DEFINE G == Would(h, t)
<1>1. Meet(g, s, t, G)
  BY CommitMeets
<1>2. h.db = Would(g, s) /\ h.engine = g.engine /\ Sound(g, s)
  BY CommitParts
<1>3. /\ OneOwner(h.db, {}) /\ QueueFree(h.db, {})
  BY CommitCommitted DEF Committed
<1>4. Sound(g, t)
  BY BesideUpload
<1>5. /\ OneOwner(Would(g, t), Pair(t)) /\ QueueFree(Would(g, t), Spared(t))
  BY <1>4, SoundWould
<1>6. h.engine # "mysql" => Claimed(Would(g, s)) /\ Claimed(Would(g, t))
  BY <1>2, <1>4, SoundWould
<1>7. ~UploadsIn(Spared(t))
  <2> SUFFICES ASSUME NEW u \in RowsOf("upload"), u = Target(t) PROVE FALSE
    BY DEF UploadsIn, Spared
  <2>1. u[1] = "upload"
    BY RowFacts
  <2> QED
    BY <2>1 DEF Target
<1> HIDE DEF G
<1>8. Linked(G) /\ Leased(G) /\ OneEntry(G) /\ OneUpload(G)
  BY <1>1, MeetLinked, MeetLeased, MeetOneEntry, MeetOneUpload
<1>9. OneOwner(G, Pair(t))
  BY <1>1, <1>2, <1>3, <1>5, MeetOneOwner
<1>10. QueueFree(G, Spared(t))
  BY <1>1, <1>2, <1>3, <1>5, <1>7, MeetQueueFree
<1>11. h.engine # "mysql" => Claimed(G)
  BY <1>1, <1>6, MeetClaimed
<1> QED
  BY <1>8, <1>9, <1>10, <1>11 DEF WouldInv, G

-----------------------------------------------------------------------------
(* What a transaction has read stays true beside a commit.                   *)

\* A row that has gone does not come back: ids are issued once.
LEMMA NoReturn ==
  ASSUME NEW g, NEW h, NEW s, Commits(g, h, s), NEW r \in Rows, r \in g.issued, g.db[r] = Absent
  PROVE  h.db[r] = Absent
BY CommitRow

(* A location of a folder whose upload has gone was there already.           *)
LEMMA OrphanLocation ==
  ASSUME NEW g, NEW h, NEW s, Commits(g, h, s), NEW folder, g.db[<<"upload", folder>>] = Absent,
         NEW l \in RowsOf("location"), h.db[l] # Absent, h.db[l].folderName = Folder(folder)
  PROVE  g.db[l] # Absent /\ g.db[l].folderName = Folder(folder)
<1>1. l \in Rows /\ l \in Owners /\ Sound(g, s)
  BY TableRows, CommitParts
<1>2. CASE g.db[l] # Absent
  BY <1>1, <1>2, OwnerFolder
<1>3. CASE g.db[l] = Absent
  <2>1. Adds(g, s, l) /\ h.db[l] = s.writes[l]
    BY <1>1, <1>3, CommitRow DEF Adds, Puts
  <2>2. Completes(g, s) /\ s.writes[l].folderName = Folder(s.job.upload)
    BY <1>1, <2>1, AddedLocation
  <2>3. s.job.upload = folder
    <3>1. \A i, j : Folder(i) = Folder(j) => i = j
      BY DEF Folder
    <3>2. Folder(s.job.upload) = Folder(folder)
      BY <2>1, <2>2
    <3> QED
      BY <3>1, <3>2
  <2>4. UploadRow(s) = <<"upload", folder>>
    BY <2>3 DEF UploadRow
  <2> QED
    BY <2>2, <2>4 DEF Completes
<1> QED
  BY <1>2, <1>3

\* Its snapshot is in sight.
LEMMA BesideSnap ==
  ASSUME NEW g, NEW h, NEW s, NEW t, Commits(g, h, s), Beside(g, s, t), Sound(g, t)
  PROVE  SnapOK(h, t)
<1> SUFFICES ASSUME h.engine = "mysql", t.snap # Null PROVE Sight(h, t, t.snap)
  BY DEF SnapOK
<1> DEFINE v == t.snap
<1>1. /\ SnapOK(g, t) /\ TargetOK(g, t) /\ UploadsOK(g, t) /\ g.engine = h.engine
      /\ g.issued \subseteq h.issued
  BY SoundParts, PlanParts, CommitParts
<1>2. Sight(g, t, v)
  BY <1>1 DEF SnapOK
<1> HIDE DEF v
<1>3. DOMAIN v = Rows /\ Linked(v)
  BY <1>2 DEF Sight
<1>4. \A r \in Rows : v[r] # Absent => RowOK(r, v[r]) /\ r \in h.issued
  BY <1>1, <1>2 DEF Sight
<1>5. ASSUME NEW r \in Rows, v[r] # Absent, h.db[r] # Absent
      PROVE  Evolves(r, v[r], h.db[r])
  <2>1. RowOK(r, v[r]) /\ r \in g.issued
    BY <1>2, <1>5 DEF Sight
  <2>2. /\ g.db[r] # Absent /\ RowOK(r, g.db[r]) /\ RowOK(r, h.db[r])
        /\ Evolves(r, g.db[r], h.db[r])
    BY <1>5, <2>1, CommitRow
  <2>3. Evolves(r, v[r], g.db[r])
    BY <1>2, <1>5, <2>2 DEF Sight
  <2> QED
    BY <2>1, <2>2, <2>3, EvolvesOn
<1>6. ASSUME NEW e \in RowsOf("entry"), h.db[e] # Absent, v[LocationOf(h.db[e])] # Absent
      PROVE  v[e] # Absent /\ v[e].locationId = h.db[e].locationId
  <2>1. e \in Rows /\ Sound(g, s)
    BY TableRows, CommitParts
  <2>2. CASE e \in DOMAIN s.writes
    <3>1. Puts(s, e) /\ h.db[e] = s.writes[e]
      BY <1>6, <2>1, <2>2, CommitRow DEF Puts
    <3>2. /\ LocationOf(h.db[e]) = NewRow(s) /\ NewRow(s) \in RowsOf("location")
          /\ NewRow(s) \notin g.issued
      BY <2>1, <3>1, PutEntry
    <3>3. NewRow(s) \in Rows
      BY <3>2, TableRows
    <3> QED
      BY <1>2, <1>6, <3>2, <3>3 DEF Sight
  <2>3. CASE e \notin DOMAIN s.writes
    <3>1. h.db[e] = g.db[e]
      BY <2>1, <2>3, CommitRow
    <3> QED
      BY <1>2, <1>6, <3>1 DEF Sight
  <2> QED
    BY <2>2, <2>3
<1>7. ASSUME t.pc \in TargetPcs, v[Target(t)] = Absent
      PROVE  h.db[Target(t)] = Absent
  <2>1. Target(t) \in g.issued /\ t.reg.location \in Location
    BY <1>1, <1>7 DEF TargetOK
  <2>2. Target(t) \in Rows
    BY <2>1, RowFacts, TableRows DEF Target
  <2>3. g.db[Target(t)] = Absent
    BY <1>2, <1>7 DEF Sight
  <2> QED
    BY <2>1, <2>2, <2>3, NoReturn
<1>8. ASSUME t.job.kind = "orphan", v[OrphanRow(t)] = Absent
      PROVE  /\ h.db[OrphanRow(t)] = Absent
             /\ \A l \in RowsOf("location") :
                  h.db[l] # Absent /\ h.db[l].folderName = Folder(t.job.folder) => v[l] # Absent
  <2>1. OrphanRow(t) \in g.issued /\ t.job.folder \in Upload
    BY <1>1, <1>8 DEF UploadsOK
  <2>2. OrphanRow(t) \in Rows
    BY <2>1, RowFacts, TableRows DEF OrphanRow
  <2>3. /\ g.db[OrphanRow(t)] = Absent
        /\ \A l \in RowsOf("location") :
             g.db[l] # Absent /\ g.db[l].folderName = Folder(t.job.folder) => v[l] # Absent
    BY <1>2, <1>8 DEF Sight
  <2>4. h.db[OrphanRow(t)] = Absent
    BY <2>1, <2>2, <2>3, NoReturn
  <2>5. ASSUME NEW l \in RowsOf("location"), h.db[l] # Absent,
               h.db[l].folderName = Folder(t.job.folder)
        PROVE  v[l] # Absent
    <3>1. g.db[<<"upload", t.job.folder>>] = Absent
      BY <2>3 DEF OrphanRow
    <3>2. g.db[l] # Absent /\ g.db[l].folderName = Folder(t.job.folder)
      BY <2>5, <3>1, OrphanLocation
    <3> QED
      BY <2>3, <3>2
  <2> QED
    BY <2>4, <2>5
<1>9. Sight(h, t, v)
  BY <1>3, <1>4, <1>5, <1>6, <1>7, <1>8 DEF Sight
<1> QED
  BY <1>9 DEF v

\* Its location is held.
LEMMA BesideTarget ==
  ASSUME NEW g, NEW h, NEW s, NEW t, Commits(g, h, s), Beside(g, s, t), Sound(g, t)
  PROVE  TargetOK(h, t) /\ AcquireOK(h, t)
<1>1. TargetOK(g, t) /\ AcquireOK(g, t) /\ g.issued \subseteq h.issued
  BY SoundParts, PlanParts, CommitParts
<1>2. TargetOK(h, t)
  <2> SUFFICES ASSUME t.pc \in TargetPcs
               PROVE  /\ "location" \in DOMAIN t.reg /\ t.reg.location \in Location
                      /\ Target(t) \in h.issued
                      /\ t.pc \in LockedPcs \/ (t.pc = "request.detach" /\ t.job.kind # "request")
                           => Puts(t, Target(t)) /\ h.db[Target(t)] # Absent
    BY DEF TargetOK
  <2>1. /\ "location" \in DOMAIN t.reg /\ t.reg.location \in Location /\ Target(t) \in h.issued
        /\ t.pc \in LockedPcs \/ (t.pc = "request.detach" /\ t.job.kind # "request")
             => Puts(t, Target(t)) /\ g.db[Target(t)] # Absent
    BY <1>1 DEF TargetOK
  <2>2. Puts(t, Target(t)) => h.db[Target(t)] = g.db[Target(t)]
    BY BesideRow DEF Puts
  <2> QED
    BY <2>1, <2>2
<1>3. AcquireOK(h, t)
  <2>1. /\ t.pc \in AcquirePcs \ {"acquire"} =>
             "location" \in DOMAIN t.reg /\ t.reg.location \in Location /\ Target(t) \in h.issued
        /\ t.pc \in {"acquire.lock", "acquire.create"} =>
             "scope" \in DOMAIN t.reg /\ t.reg.scope # Null
    BY <1>1 DEF AcquireOK
  <2>2. ASSUME t.pc = "acquire.create", t.reg.scope = "parts"
        PROVE  Admissible(h, t, Target(t))
    <3>1. Admissible(g, t, Target(t))
      BY <1>1, <2>2 DEF AcquireOK
    <3>2. t.reg.location \in Location /\ Target(t) \in g.issued
      BY <1>1, <2>2 DEF AcquireOK, AcquirePcs
    <3>3. Target(t) \in RowsOf("location")
      BY <3>2, RowFacts DEF Target
    <3> QED
      BY <3>1, <3>2, <3>3, BesideAdmissible
  <2> QED
    BY <2>1, <2>2 DEF AcquireOK
<1> QED
  BY <1>2, <1>3

-----------------------------------------------------------------------------
(* A location that is being fenced gets no entry, and one whose parts are     *)
(* being claimed no reader.                                                  *)

\* No entry leads to the location that it fences.
LEMMA BesideFence ==
  ASSUME NEW g, NEW h, NEW s, NEW t, Commits(g, h, s), Beside(g, s, t), Sound(g, t), Open(h, t)
  PROVE  FenceOK(h, t)
<1>1. FenceOK(g, t) /\ TargetOK(g, t)
  BY SoundParts, PlanParts
<1>2. ASSUME t.pc \in FencePcs \ {"fence.entries"}
      PROVE  NoEntries(Would(h, t), Target(t))
  <2> DEFINE G == Would(h, t)
  <2> SUFFICES ASSUME NEW e \in RowsOf("entry"), G[e] # Absent, LocationOf(G[e]) = Target(t)
               PROVE  FALSE
    BY DEF NoEntries
  <2>1. Meet(g, s, t, G)
    BY CommitMeets
  <2> HIDE DEF G
  <2>2. NoEntries(Would(g, t), Target(t))
    BY <1>1, <1>2 DEF FenceOK
  <2>3. Puts(t, Target(t))
    BY <1>1, <1>2 DEF TargetOK, TargetPcs, LockedPcs
  <2>4. e \in Rows
    BY TableRows
  <2>5. CASE e \in DOMAIN s.writes
    <3>1. Puts(s, e) /\ s.writes[e] = G[e]
      BY <2>1, <2>4, <2>5, MeetPut
    <3>2. LocationOf(G[e]) = NewRow(s) /\ NewRow(s) \in DOMAIN s.writes
      BY <3>1, CommitParts, PutEntry
    <3> QED
      BY <2>3, <3>2, BesideParts DEF Puts
  <2>6. CASE e \notin DOMAIN s.writes
    <3>1. G[e] = Would(g, t)[e]
      BY <2>1, <2>4, <2>6, MeetRow
    <3> QED
      BY <2>2, <3>1 DEF NoEntries
  <2> QED
    BY <2>5, <2>6
<1> QED
  BY <1>1, <1>2 DEF FenceOK

(* A lease of parts that appears beside a claim was there before.             *)
LEMMA ClaimedLease ==
  ASSUME NEW g, NEW h, NEW s, NEW t, Commits(g, h, s), Beside(g, s, t), Sound(g, t), Open(h, t),
         t.pc \in ClaimPcs, NEW d \in RowsOf("lease"), PartsLease(Would(h, t), d, Target(t))
  PROVE  /\ PartsLease(Would(g, t), d, Target(t))
         /\ Would(h, t)[d].expiresAt >= Would(g, t)[d].expiresAt
<1> DEFINE G == Would(h, t)
           l == Target(t)
<1>1. Meet(g, s, t, G) /\ Meet(g, t, s, G)
  BY CommitMeets, MeetTurn
<1>2. d \in Rows
  BY TableRows
<1>3. G[d] # Absent /\ G[d].scope = "parts" /\ LeasedBy(G[d]) = l
  BY DEF PartsLease
<1>4. /\ TargetOK(g, t) /\ ClaimOK(g, t) /\ RowsOK(g, t)
  BY SoundParts, PlanParts
<1>5. /\ t.reg.location \in Location /\ Puts(t, l) /\ g.db[l] # Absent
  BY <1>4 DEF TargetOK, TargetPcs, LockedPcs
<1>6. l \in RowsOf("location")
  BY <1>5, RowFacts DEF Target
<1>7. t.writes[l].mergedAt # Null
  BY <1>4 DEF ClaimOK
<1> HIDE DEF G, l
<1> SUFFICES PartsLease(Would(g, t), d, l) /\ G[d].expiresAt >= Would(g, t)[d].expiresAt
  BY DEF G, l
<1>8. CASE d \notin DOMAIN s.writes
  <2>1. G[d] = Would(g, t)[d]
    BY <1>1, <1>2, <1>8, MeetRow
  <2>2. RowOK(d, Would(g, t)[d])
    BY <1>2, <1>3, <2>1, SoundWould DEF Typed
  <2>3. Would(g, t)[d].expiresAt \in Nat
    BY <2>2, RowKinds DEF LeaseOK
  <2> QED
    BY <1>3, <2>1, <2>3 DEF PartsLease
<1>9. CASE d \in DOMAIN s.writes
  <2>1. /\ Would(g, t)[d] = g.db[d] /\ s.writes[d] = G[d]
        /\ g.db[d] # Absent => Evolves(d, g.db[d], G[d])
        /\ g.db[d] = Absent => Adds(g, s, d)
    BY <1>1, <1>2, <1>3, <1>9, MeetRow, MeetPut
  <2>2. CASE g.db[d] # Absent
    <3>1. /\ g.db[d].scope = "parts" /\ LeasedBy(g.db[d]) = l
          /\ G[d].expiresAt >= g.db[d].expiresAt
      BY <1>3, <2>1, <2>2, EvolvesKinds DEF LeasedBy
    <3> QED
      BY <2>1, <2>2, <3>1 DEF PartsLease
  <2>3. CASE g.db[d] = Absent
    <3>1. Adds(g, s, d) /\ InsertsOK(g, s)
      BY <2>1, <2>3, CommitParts, SoundParts
    <3>2. s.writes[d].scope = "parts" => Admissible(g, s, LeasedBy(s.writes[d]))
      BY <3>1 DEF InsertsOK
    <3>3. Admissible(g, s, l)
      BY <1>3, <2>1, <3>2
    <3>4. l \in DOMAIN t.writes /\ l \notin DOMAIN s.writes
      BY <1>5, BesideParts DEF Puts
    <3>5. ~Mergeable(g.db[l])
      BY <1>5, <3>3, <3>4 DEF Admissible, Puts
    <3>6. RowOK(l, t.writes[l]) /\ Evolves(l, g.db[l], t.writes[l])
      BY <1>4, <1>5 DEF RowsOK, Puts
    <3>7. Mergeable(t.writes[l])
      BY <1>6, <1>7, <3>6, RowKinds, MergedFacts
    <3> QED
      BY <1>6, <3>5, <3>6, <3>7, EvolvesMergeable
  <2> QED
    BY <2>2, <2>3
<1> QED
  BY <1>8, <1>9

\* No reader reads the parts that it claims.
LEMMA BesideClaim ==
  ASSUME NEW g, NEW h, NEW s, NEW t, Commits(g, h, s), Beside(g, s, t), Sound(g, t), Open(h, t)
  PROVE  ClaimOK(h, t)
<1>1. /\ ClaimOK(g, t) /\ g.issued \subseteq h.issued /\ h.engine = g.engine
  BY SoundParts, PlanParts, CommitParts
<1>2. ASSUME t.pc = "claim.readers", h.engine # "mysql", NEW d \in RowsOf("lease"),
             PartsLease(Would(h, t), d, Target(t))
      PROVE  Would(h, t)[d].expiresAt > t.reg.now
  <2>1. /\ PartsLease(Would(g, t), d, Target(t))
        /\ Would(h, t)[d].expiresAt >= Would(g, t)[d].expiresAt
    BY <1>2, ClaimedLease DEF ClaimPcs
  <2>2. Would(g, t)[d].expiresAt > t.reg.now
    BY <1>1, <1>2, <2>1 DEF ClaimOK
  <2>3. t.reg.now \in Nat
    BY <1>1, <1>2 DEF ClaimOK, ClaimPcs
  <2>4. d \in Rows /\ Would(g, t)[d] # Absent /\ Would(h, t)[d] # Absent
    BY <1>2, <2>1, TableRows DEF PartsLease
  <2>5. RowOK(d, Would(g, t)[d])
    BY <2>4, SoundWould DEF Typed
  <2>6. Would(g, t)[d].expiresAt \in Nat
    BY <2>5, RowKinds DEF LeaseOK
  <2>7. Meet(g, s, t, Would(h, t))
    BY CommitMeets
  <2>8. Would(h, t)[d].expiresAt \in Nat
    <3>1. CASE d \in DOMAIN s.writes
      <4>1. RowOK(d, Would(h, t)[d])
        BY <2>4, <2>7, <3>1, MeetPut
      <4> QED
        BY <4>1, RowKinds DEF LeaseOK
    <3>2. CASE d \notin DOMAIN s.writes
      <4>1. Would(h, t)[d] = Would(g, t)[d]
        BY <2>4, <2>7, <3>2, MeetRow
      <4> QED
        BY <2>6, <4>1
    <3> QED
      BY <3>1, <3>2
  <2> QED
    BY <2>1, <2>2, <2>3, <2>6, <2>8
<1>3. ASSUME t.pc \in {"claim.enqueue", "claim.mark"}, h.engine # "mysql"
      PROVE  Unread(Would(h, t), Target(t))
  <2> SUFFICES ASSUME NEW d \in RowsOf("lease"), PartsLease(Would(h, t), d, Target(t))
               PROVE  FALSE
    BY DEF Unread
  <2>1. PartsLease(Would(g, t), d, Target(t))
    BY <1>3, ClaimedLease DEF ClaimPcs
  <2> QED
    BY <1>1, <1>3, <2>1 DEF ClaimOK, Unread
<1>4. /\ t.pc \in ClaimPcs => t.writes[Target(t)].mergedAt # Null
      /\ t.pc \in ClaimPcs \ {"claim.location"} =>
           /\ {"row", "now"} \subseteq DOMAIN t.reg /\ t.reg.now \in Nat
           /\ t.reg.row.folderName[1] \in Upload /\ UploadOf(t.reg.row.folderName) \in h.issued
  BY <1>1 DEF ClaimOK
<1> QED
  BY <1>2, <1>3, <1>4 DEF ClaimOK

-----------------------------------------------------------------------------
(* The rest of what a transaction relies on.                                 *)

LEMMA BesideRequest ==
  ASSUME NEW g, NEW h, NEW s, NEW t, Commits(g, h, s), Beside(g, s, t), Sound(g, t)
  PROVE  RequestOK(h, t)
<1>1. RequestOK(g, t)
  BY SoundParts, PlanParts
<1>2. \A l \in DOMAIN t.writes : h.db[l] = g.db[l]
  BY BesideRow
<1> QED
  BY <1>1, <1>2 DEF RequestOK

LEMMA BesideUploads ==
  ASSUME NEW g, NEW h, NEW s, NEW t, Commits(g, h, s), Beside(g, s, t), Sound(g, t)
  PROVE  UploadsOK(h, t)
<1>1. /\ UploadsOK(g, t) /\ KindsOK(t) /\ g.issued \subseteq h.issued /\ h.engine = g.engine
  BY SoundParts, PlanParts, CommitParts
<1>2. t.pc \in {"part", "abandon", "abandon.enqueue"} =>
        t.job.upload \in Upload /\ UploadRow(t) \in h.issued
  BY <1>1 DEF UploadsOK
<1>3. t.pc = "abandon.enqueue" =>
        /\ DOMAIN t.writes \cap Owners = {UploadRow(t)}
        /\ t.writes[UploadRow(t)] = Absent /\ h.db[UploadRow(t)] # Absent
  <2> SUFFICES ASSUME t.pc = "abandon.enqueue" PROVE
        /\ DOMAIN t.writes \cap Owners = {UploadRow(t)}
        /\ t.writes[UploadRow(t)] = Absent /\ h.db[UploadRow(t)] # Absent
    OBVIOUS
  <2>1. /\ DOMAIN t.writes \cap Owners = {UploadRow(t)}
        /\ t.writes[UploadRow(t)] = Absent /\ g.db[UploadRow(t)] # Absent
    BY <1>1 DEF UploadsOK
  <2>2. UploadRow(t) \in DOMAIN t.writes
    BY <2>1
  <2>3. h.db[UploadRow(t)] = g.db[UploadRow(t)]
    BY <2>2, BesideRow
  <2> QED
    BY <2>1, <2>3
<1>4. t.job.kind = "orphan" => t.job.folder \in Upload /\ OrphanRow(t) \in h.issued
  BY <1>1 DEF UploadsOK
<1>5. ASSUME t.pc \in OrphanPcs \ {"orphan"}
      PROVE  /\ g.db[OrphanRow(t)] = Absent /\ h.db[OrphanRow(t)] = Absent
             /\ h.engine = "mysql" /\ t.snap # Null => t.snap[OrphanRow(t)] = Absent
  <2>1. /\ g.db[OrphanRow(t)] = Absent
        /\ h.engine = "mysql" /\ t.snap # Null => t.snap[OrphanRow(t)] = Absent
    BY <1>1, <1>5 DEF UploadsOK
  <2>2. t.job.kind = "orphan"
    BY <1>1, <1>5 DEF KindsOK
  <2>3. t.job.folder \in Upload /\ OrphanRow(t) \in g.issued
    BY <1>1, <2>2 DEF UploadsOK
  <2>4. OrphanRow(t) \in Rows
    BY <2>3, RowFacts, TableRows DEF OrphanRow
  <2> QED
    BY <2>1, <2>3, <2>4, NoReturn
<1>6. ASSUME t.pc \in {"orphan.deletions", "orphan.enqueue"}, NEW l \in RowsOf("location"),
             h.db[l] # Absent, h.db[l].folderName = Folder(t.job.folder)
      PROVE  FALSE
  <2>1. g.db[<<"upload", t.job.folder>>] = Absent
    BY <1>5, <1>6 DEF OrphanPcs, OrphanRow
  <2>2. g.db[l] # Absent /\ g.db[l].folderName = Folder(t.job.folder)
    BY <1>6, <2>1, OrphanLocation
  <2> QED
    BY <1>1, <1>6, <2>2 DEF UploadsOK
<1> QED
  BY <1>2, <1>3, <1>4, <1>5, <1>6 DEF UploadsOK

\* Its upload and its entry are its own.
LEMMA BesideComplete ==
  ASSUME NEW g, NEW h, NEW s, NEW t, Commits(g, h, s), Beside(g, s, t), Sound(g, t), Open(h, t)
  PROVE  CompleteOK(h, t)
<1> SUFFICES ASSUME t.job.kind = "complete" PROVE CompleteOK(h, t)
  BY DEF CompleteOK
<1> DEFINE u == UploadRow(t)
<1>1. /\ CompleteOK(g, t) /\ g.issued \subseteq h.issued /\ h.engine = g.engine
      /\ Sound(g, s) /\ Committed(g)
  BY SoundParts, PlanParts, CommitParts
<1>2. Completes(g, t)
  BY CompletesFacts
<1>3. u \in RowsOf("upload") /\ u \in Rows /\ g.db[u] # Absent /\ h.db[u] # Absent
  BY <1>2, TableRows DEF Completes, Open, Entitled
<1>4. KeyOf(h.db[u]) = KeyOf(t.reg.upload)
  <2>1. Evolves(u, g.db[u], h.db[u])
    BY <1>3, CommitRow
  <2>2. KeyOf(h.db[u]) = KeyOf(g.db[u])
    BY <1>3, <2>1, EvolvesKinds
  <2>3. KeyOf(g.db[u]) = KeyOf(t.reg.upload)
    BY <1>2 DEF Completes
  <2> QED
    BY <2>2, <2>3
<1>5. ASSUME t.pc = "complete.insert", NEW e \in RowsOf("entry"), h.db[e] # Absent
      PROVE  KeyOf(h.db[e]) # KeyOf(t.reg.upload)
  <2>1. e \in Rows
    BY TableRows
  <2>2. CASE g.db[e] # Absent
    <3>1. KeyOf(h.db[e]) = KeyOf(g.db[e])
      BY <1>5, <2>1, <2>2, CommitRow, EvolvesKinds
    <3>2. KeyOf(g.db[e]) # KeyOf(t.reg.upload)
      BY <1>1, <1>5, <2>2 DEF CompleteOK
    <3> QED
      BY <3>1, <3>2
  <2>3. CASE g.db[e] = Absent
    <3>1. Adds(g, s, e) /\ Puts(s, e) /\ h.db[e] = s.writes[e]
      BY <1>5, <2>1, <2>3, CommitRow DEF Adds, Puts
    <3>2. Completes(g, s) /\ KeyOf(h.db[e]) = KeyOf(g.db[UploadRow(s)])
      BY <1>1, <3>1, PutEntry
    <3>3. UploadRow(s) # u
      BY <3>2, CommitMeets, MeetParts DEF Completes
    <3>4. KeyOf(g.db[UploadRow(s)]) # KeyOf(g.db[u])
      BY <1>1, <1>3, <3>2, <3>3 DEF Completes, Committed, OneUpload
    <3> QED
      BY <1>2, <3>2, <3>4 DEF Completes
  <2> QED
    BY <2>2, <2>3
<1>6. Adds(h, t, NewRow(t)) <=> Adds(g, t, NewRow(t))
  BY BesideAdds
<1>7. LocationOf(t.reg.entry) \in g.issued => LocationOf(t.reg.entry) \in h.issued
  BY <1>1
<1> QED
  BY <1>1, <1>4, <1>5, <1>6, <1>7 DEF CompleteOK

\* All that the other transaction relies on.
LEMMA BesideOpen ==
  ASSUME NEW g, NEW h, NEW s, NEW t, Commits(g, h, s), Beside(g, s, t)
  PROVE  OpenInv(h, t)
<1> SUFFICES ASSUME Open(h, t) PROVE WritesInv(h, t) /\ WouldInv(h, t) /\ PlanInv(h, t)
  BY DEF OpenInv
<1>1. Sound(g, t)
  BY BesideUpload
<1>2. KindsOK(t) /\ FirstOK(t)
  BY <1>1, SoundParts
<1>3. PlanInv(h, t)
  BY <1>1, <1>2, BesideSnap, BesideTarget, BesideFence, BesideRequest, BesideClaim,
     BesideUploads, BesideComplete DEF PlanInv
<1> QED
  BY <1>1, <1>3, BesideWrites, BesideWould

-----------------------------------------------------------------------------
(* A commit keeps the invariant.                                             *)

LEMMA CommitBegins ==
  ASSUME TransactionInv, NEW p \in Process, Commit(p)
  PROVE  /\ Commits(Now, Now', proc[p])
         /\ \A q \in Process \ {p} : Beside(Now, proc[p], proc[q])
         /\ proc' = [proc EXCEPT ![p] = Idle]
<1> DEFINE s == proc[p]
           h == Now'
<1>1. s.pc = "commit"
  BY DEF Commit, At
<1>2. /\ Shape(s) /\ Fresh(Now, s) /\ UploadTaken(Now, s) /\ OpenInv(Now, s)
      /\ Committed(Now) /\ clock \in Nat
      /\ \A q \in Process \ {p} : /\ Apart(s, proc[q]) /\ Apart(proc[q], s)
                                  /\ Rivals(Now, s, proc[q])
  BY ProcessFacts
<1>3. Current(p) = Would(Now, s)
  BY CurrentWould
<1>4. /\ h.db = Would(Now, s) /\ h.issued = Now.issued \cup Issued(h.db)
      /\ h.clock = Now.clock /\ h.engine = Now.engine
      /\ proc' = [proc EXCEPT ![p] = Idle]
  BY <1>3 DEF Commit, Now
<1>5. \A q \in Process \ {p} : /\ Shape(proc[q]) /\ Fresh(Now, proc[q])
                               /\ UploadTaken(Now, proc[q]) /\ OpenInv(Now, proc[q])
  BY ProcessFacts
<1> HIDE DEF s, h
<1>6. Ours(s)
  BY <1>1 DEF Ours
<1>7. Entitled(Now, s)
  BY <1>1, <1>2, <1>6 DEF UploadTaken, Entitled
<1>8. Open(Now, s)
  BY <1>6, <1>7 DEF Open
<1>9. Sound(Now, s)
  BY <1>2, <1>8 DEF Sound, OpenInv
<1>10. Now.clock \in Nat
  BY <1>2, StateFields
<1>11. Commits(Now, h, s)
  BY <1>1, <1>4, <1>9, <1>10 DEF Commits
<1>12. \A q \in Process \ {p} : Beside(Now, s, proc[q])
  BY <1>2, <1>5 DEF Beside
<1> QED
  BY <1>4, <1>11, <1>12 DEF s, h

LEMMA IdleFacts ==
  ASSUME NEW h
  PROVE  /\ Shape(Idle) /\ Fresh(h, Idle) /\ Idles(Idle) /\ UploadTaken(h, Idle)
         /\ OpenInv(h, Idle) /\ ~Open(h, Idle)
         /\ \A t : Apart(Idle, t) /\ Apart(t, Idle)
<1>1. /\ Idle.pc = "idle" /\ DOMAIN Idle.writes = {} /\ Idle.shared = {}
  BY DEF Idle
<1> QED
  BY <1>1 DEF Shape, Fresh, Idles, UploadTaken, OpenInv, Open, Ours, Apart

\* A commit keeps the invariant.
LEMMA CommitKeeps ==
  ASSUME TransactionInv, NEW p \in Process, Commit(p)
  PROVE  TransactionInv'
<1> DEFINE h == Now'
           s == proc[p]
<1>1. /\ Commits(Now, h, s) /\ \A q \in Process \ {p} : Beside(Now, s, proc[q])
      /\ proc' = [proc EXCEPT ![p] = Idle]
  BY CommitBegins
<1>2. /\ DOMAIN proc = Process
      /\ \A q \in Process : Idles(proc[q])
      /\ \A q, r \in Process : q # r => Apart(proc[q], proc[r]) /\ Rivals(Now, proc[q], proc[r])
  BY DEF TransactionInv, Inv, Held
<1> HIDE DEF h, s
<1>3. /\ DOMAIN proc' = Process /\ proc'[p] = Idle
      /\ \A q \in Process \ {p} : proc'[q] = proc[q]
  BY <1>1, <1>2
<1>4. Committed(h) /\ h.clock \in Nat
  BY <1>1, CommitCommitted, CommitParts
<1>5. /\ Shape(Idle) /\ Fresh(h, Idle) /\ Idles(Idle) /\ UploadTaken(h, Idle)
      /\ OpenInv(h, Idle) /\ ~Open(h, Idle)
      /\ \A t : Apart(Idle, t) /\ Apart(t, Idle)
  BY IdleFacts
<1>6. \A q \in Process \ {p} : /\ Shape(proc[q]) /\ Fresh(h, proc[q]) /\ UploadTaken(h, proc[q])
                               /\ OpenInv(h, proc[q])
  BY <1>1, BesideParts, BesideFresh, BesideUpload, BesideOpen
<1>7. ASSUME NEW q \in Process, NEW r \in Process, q # r
      PROVE  Apart(proc'[q], proc'[r])
  BY <1>2, <1>3, <1>5, <1>7
<1>8. ASSUME NEW q \in Process, NEW r \in Process, q # r
      PROVE  Rivals(h, proc'[q], proc'[r])
  <2>1. CASE q = p \/ r = p
    BY <1>3, <1>5, <2>1 DEF Rivals
  <2>2. CASE q # p /\ r # p
    <3>1. /\ proc'[q] = proc[q] /\ proc'[r] = proc[r] /\ Rivals(Now, proc[q], proc[r])
      BY <1>2, <1>3, <1>8, <2>2
    <3>2. Beside(Now, s, proc[q]) /\ Beside(Now, s, proc[r])
      BY <1>1, <2>2
    <3>3. /\ Open(h, proc[q]) => Open(Now, proc[q])
          /\ Open(h, proc[r]) => Open(Now, proc[r])
      BY <1>1, <3>2, BesideUpload
    <3>4. /\ \A u : Adds(h, proc[q], u) <=> Adds(Now, proc[q], u)
          /\ \A u : Adds(h, proc[r], u) <=> Adds(Now, proc[r], u)
      BY <1>1, <3>2, BesideAdds
    <3> QED
      BY <3>1, <3>3, <3>4 DEF Rivals
  <2> QED
    BY <2>1, <2>2
<1>9. \A q \in Process : /\ Shape(proc'[q]) /\ Fresh(h, proc'[q]) /\ Idles(proc'[q])
                         /\ UploadTaken(h, proc'[q]) /\ OpenInv(h, proc'[q])
  BY <1>2, <1>3, <1>5, <1>6
<1>10. Inv(h, proc')
  BY <1>3, <1>4, <1>7, <1>8, <1>9 DEF Inv, Held
<1> QED
  BY <1>10 DEF h, TransactionInv

-----------------------------------------------------------------------------
(* Every step keeps the invariant.                                           *)

LEMMA StutterKeeps ==
  ASSUME TransactionInv, UNCHANGED rowVars, UNCHANGED engine
  PROVE  TransactionInv'
<1>1. Now' = Now /\ proc' = proc
  BY DEF Now, rowVars
<1> QED
  BY <1>1 DEF TransactionInv

\* So does every step.
LEMMA NextKeeps ==
  ASSUME TransactionInv, [DatabaseNext]_databaseVars
  PROVE  TransactionInv'
<1>1. CASE Tick
  BY <1>1, TickKeeps
<1>2. CASE Done
  BY <1>2, StutterKeeps DEF Done, rowVars, vars
<1>3. ASSUME NEW p \in Process, Requests(p) PROVE TransactionInv'
  BY <1>3, RequestsKeep
<1>4. ASSUME NEW p \in Process, Statement(p) PROVE TransactionInv'
  BY <1>4, StatementKeeps
<1>5. ASSUME NEW p \in Process, Ends(p) \/ Fail(p) PROVE TransactionInv'
  BY <1>5, CommitKeeps, EndKeeps DEF Ends
<1>6. Next => TransactionInv'
  BY <1>1, <1>2, <1>3, <1>4, <1>5 DEF Next
<1>7. CASE MigrationNext /\ UNCHANGED rowVars
  <2>1. engine' = engine
    BY <1>7 DEF MigrationNext, StartUp, OpenDatabase, AcquireMigrationLock, Inspect, RunStatement,
                BackfillRecency, CommitMigration, ReleaseLock, FailStatement, LoseLock, Restart
  <2> QED
    BY <1>7, <2>1, StutterKeeps
<1>8. CASE UNCHANGED databaseVars
  BY <1>8, StutterKeeps DEF databaseVars, rowVars
<1> QED
  BY <1>6, <1>7, <1>8 DEF DatabaseNext

-----------------------------------------------------------------------------
(* The invariant holds at first.                                             *)

LEMMA InitIdle ==
  ASSUME proc = [p \in Process |-> Idle], Committed(Now), clock \in Nat
  PROVE  TransactionInv
<1>1. \A p \in Process :
        /\ Shape(proc[p]) /\ Fresh(Now, proc[p]) /\ Idles(proc[p]) /\ UploadTaken(Now, proc[p])
        /\ OpenInv(Now, proc[p]) /\ ~Open(Now, proc[p])
        /\ \A t : Apart(proc[p], t)
  BY IdleFacts
<1>2. DOMAIN proc = Process
  OBVIOUS
<1>3. Held(Now, proc)
  BY <1>1, <1>2 DEF Held
<1>4. \A p, q \in Process : Rivals(Now, proc[p], proc[q])
  BY <1>1 DEF Rivals
<1>5. Now.clock \in Nat
  BY StateFields
<1> QED
  BY <1>1, <1>3, <1>4, <1>5 DEF TransactionInv, Inv

\* It holds when the servers start.
LEMMA InitHolds ==
  ASSUME DatabaseInit
  PROVE  TransactionInv
<1>1. CASE Init
  <2>1. /\ db \in Stores /\ clock = 1 /\ issued = Issued(db)
        /\ proc = [p \in Process |-> Idle]
    BY <1>1 DEF Init
  <2>2. /\ Typed(db) /\ Linked(db) /\ Leased(db) /\ OneEntry(db) /\ OneUpload(db)
        /\ OneOwner(db, {}) /\ QueueFree(db, {}) /\ Claimed(db)
        /\ Timely(db, clock) /\ Known(db, issued)
    BY <2>1, StoresAssumption
  <2>3. Committed(Now)
    BY <2>2, StateFields DEF Committed
  <2>4. clock \in Nat
    BY <2>1
  <2> QED
    BY <2>1, <2>3, <2>4, InitIdle
<1>2. CASE TransactionsEnded
  <2>1. /\ db = [r \in Rows |-> Absent] /\ clock = MaxClock
        /\ proc = [p \in Process |-> Idle]
    BY <1>2 DEF TransactionsEnded
  <2>2. DOMAIN db = Rows /\ \A r \in Rows : db[r] = Absent
    BY <2>1
  <2>3. Typed(db) /\ Known(db, issued)
    BY <2>2 DEF Typed, Known
  <2>4. /\ \A r \in RowsOf("entry") : db[r] = Absent
        /\ \A r \in RowsOf("lease") : db[r] = Absent
        /\ \A r \in RowsOf("upload") : db[r] = Absent
        /\ \A r \in RowsOf("location") : db[r] = Absent
        /\ \A r \in RowsOf("deletion") : db[r] = Absent
        /\ \A r \in Owners : db[r] = Absent
    BY <2>2, TableRows
  <2>5. Linked(db) /\ Leased(db) /\ OneEntry(db) /\ OneUpload(db)
    BY <2>4 DEF Linked, Leased, OneEntry, OneUpload
  <2>6. OneOwner(db, {}) /\ QueueFree(db, {})
    BY <2>4 DEF OneOwner, QueueFree
  <2>7. Claimed(db) /\ Timely(db, clock)
    BY <2>4 DEF Claimed, Timely
  <2>8. Committed(Now)
    BY <2>3, <2>5, <2>6, <2>7, StateFields DEF Committed
  <2>9. clock \in Nat
    BY <2>1, BoundsAssumption
  <2> QED
    BY <2>1, <2>8, <2>9, InitIdle
<1> QED
  BY <1>1, <1>2 DEF DatabaseInit

(* Whatever transactions run beside each other, on each of the three engines, *)
(* an open transaction would leave the tables as they must be: this is what a *)
(* commit relies on, and what the commit of another one does not spoil.      *)
THEOREM TransactionsSound == DatabaseSpec => []TransactionInv
<1>1. DatabaseInit => TransactionInv
  BY InitHolds
<1>2. TransactionInv /\ [DatabaseNext]_databaseVars => TransactionInv'
  BY NextKeeps
<1> QED
  BY <1>1, <1>2, PTL DEF DatabaseSpec

-----------------------------------------------------------------------------
(* What the tables hold.                                                     *)

LEMMA EntryValid ==
  ASSUME NEW row, EntryOK(row)
  PROVE  Valid("entry", row)
<1>1. DOMAIN NewEntry = {"id", "key", "version", "scope", "repoId", "updatedAt", "locationId"}
  BY DEF NewEntry
<1>2. Required["entry"] = DOMAIN NewEntry
  BY DEF Required, EntryRequired
<1> QED
  BY <1>1, <1>2, NullFacts DEF Valid, EntryOK

LEMMA LocationValid ==
  ASSUME NEW row, LocationOK(row)
  PROVE  Valid("location", row)
<1>1. Required["location"] = {"id", "folderName", "partCount", "leaseVersion", "recencyAt"}
  BY DEF Required, LocationRequired
<1>2. row.folderName \in Folders
  BY Referred DEF LocationOK
<1> QED
  BY <1>1, <1>2, NullFacts DEF Valid, LocationOK

LEMMA LeaseValid ==
  ASSUME NEW row, LeaseOK(row)
  PROVE  Valid("lease", row)
<1>1. DOMAIN NewLease = {"id", "storageLocationId", "scope", "expiresAt"}
  BY DEF NewLease
<1>2. Required["lease"] = DOMAIN NewLease
  BY DEF Required, LeaseRequired
<1> QED
  BY <1>1, <1>2, NullFacts DEF Valid, LeaseOK

LEMMA DeletionValid ==
  ASSUME NEW row, DeletionOK(row)
  PROVE  Valid("deletion", row)
<1>1. Required["deletion"] = {"id", "folderName", "createdAt", "attemptCount"}
  BY DEF Required, DeletionRequired
<1> QED
  BY <1>1, NullFacts DEF Valid, DeletionOK

LEMMA UploadValid ==
  ASSUME NEW row, UploadOK(row)
  PROVE  Valid("upload", row)
<1>1. DOMAIN NewUpload = {"id", "key", "version", "scope", "repoId", "createdAt",
        "lastPartUploadedAt", "startedPartUploadCount", "finishedPartUploadCount",
        "folderName", "committedPartCount", "tupleHash"}
  BY DEF NewUpload
<1>2. Required["upload"] = DOMAIN NewUpload \ {"lastPartUploadedAt", "committedPartCount",
                                               "tupleHash"}
  BY DEF Required, UploadRequired
<1>3. row.folderName \in Folders
  BY Referred, ZenonT(60) DEF UploadOK
<1>4. /\ row.id # Null /\ row.key # Null /\ row.version # Null /\ row.scope # Null
      /\ row.repoId # Null /\ row.createdAt # Null /\ row.startedPartUploadCount # Null
      /\ row.finishedPartUploadCount # Null /\ row.folderName # Null
  BY <1>3, NullFacts DEF UploadOK
<1> SUFFICES ASSUME NEW c \in Required["upload"] PROVE row[c] # Null
  BY DEF Valid
<1>5. c \in {"id", "key", "version", "scope", "repoId", "createdAt",
             "startedPartUploadCount", "finishedPartUploadCount", "folderName"}
  BY <1>1, <1>2
<1> HIDE DEF Required
<1> QED
  BY <1>4, <1>5

-----------------------------------------------------------------------------
(* The committed tables.                                                     *)

\* No unique index has a value twice.
LEMMA DuplicateFree ==
  ASSUME NEW store, Typed(store), OneUpload(store), NEW r \in Rows, store[r] # Absent
  PROVE  Duplicates(store, r, store[r]) = {}
<1> SUFFICES ASSUME r[1] = "upload", NEW d \in RowsOf("upload"), d # r, store[d] # Absent,
                    store[d].tupleHash = store[r].tupleHash
             PROVE  FALSE
  BY DEF Duplicates
<1>1. r \in RowsOf("upload") /\ d \in Rows
  BY RowFacts, TableRows
<1>2. UploadOK(store[r]) /\ UploadOK(store[d])
  BY <1>1, TypedRow, RowKinds
<1>3. /\ store[r].tupleHash = [key |-> store[r].key, version |-> store[r].version,
                               scope |-> store[r].scope, repoId |-> store[r].repoId]
      /\ store[d].tupleHash = [key |-> store[d].key, version |-> store[d].version,
                               scope |-> store[d].scope, repoId |-> store[d].repoId]
  BY <1>2 DEF UploadOK
<1>4. /\ store[r].key = store[d].key /\ store[r].version = store[d].version
      /\ store[r].scope = store[d].scope /\ store[r].repoId = store[d].repoId
  <2> DEFINE a == store[r]
             b == store[d]
  <2>1. /\ a.tupleHash.key = a.key /\ a.tupleHash.version = a.version
        /\ a.tupleHash.scope = a.scope /\ a.tupleHash.repoId = a.repoId
    BY <1>3
  <2>2. /\ b.tupleHash.key = b.key /\ b.tupleHash.version = b.version
        /\ b.tupleHash.scope = b.scope /\ b.tupleHash.repoId = b.repoId
    BY <1>3
  <2>3. b.tupleHash = a.tupleHash
    OBVIOUS
  <2> HIDE DEF a, b
  <2>4. a.key = b.key /\ a.version = b.version /\ a.scope = b.scope /\ a.repoId = b.repoId
    BY <2>1, <2>2, <2>3
  <2> QED
    BY <2>4 DEF a, b
<1>5. KeyOf(store[r]) = KeyOf(store[d])
  BY <1>4 DEF KeyOf
<1> QED
  BY <1>1, <1>5 DEF OneUpload

\* Sound tables are consistent as the database checks it.
LEMMA CommittedConsistent ==
  ASSUME NEW g, Committed(g)
  PROVE  Consistent(g.db)
<1> SUFFICES ASSUME NEW r \in Rows, g.db[r] # Absent
             PROVE  /\ Valid(r[1], g.db[r])
                    /\ \A parent \in Parent(r, g.db[r]) : g.db[parent] # Absent
                    /\ Duplicates(g.db, r, g.db[r]) = {}
  BY DEF Consistent
<1>1. RowOK(r, g.db[r])
  BY CommittedFacts
<1>2. r[1] \in Tables /\ r \in RowsOf(r[1])
  BY RowFacts
<1>3. Valid(r[1], g.db[r])
  BY <1>1, <1>2, RowFacts, EntryValid, LocationValid, LeaseValid, DeletionValid, UploadValid
     DEF RowOK
<1>4. ASSUME NEW parent \in Parent(r, g.db[r]) PROVE g.db[parent] # Absent
  <2>1. CASE r[1] = "entry"
    <3>1. parent = LocationOf(g.db[r]) /\ r \in RowsOf("entry")
      BY <1>2, <1>4, <2>1 DEF Parent, LocationOf
    <3> QED
      BY <3>1 DEF Committed, Linked
  <2>2. CASE r[1] = "lease"
    <3>1. parent = LeasedBy(g.db[r]) /\ r \in RowsOf("lease")
      BY <1>2, <1>4, <2>2 DEF Parent, LeasedBy
    <3> QED
      BY <3>1 DEF Committed, Leased
  <2>3. CASE r[1] # "entry" /\ r[1] # "lease"
    BY <1>4, <2>3 DEF Parent
  <2> QED
    BY <2>1, <2>2, <2>3
<1>5. Duplicates(g.db, r, g.db[r]) = {}
  BY DuplicateFree DEF Committed
<1> QED
  BY <1>3, <1>4, <1>5

(* The entry of a tuple is the one that a lookup of the tuple finds.          *)
LEMMA TupleMatches ==
  ASSUME NEW g, Committed(g), NEW e \in RowsOf("entry"), g.db[e] # Absent
  PROVE  Matching(g.db, "entry", SameTuple(g.db[e])) = {e}
<1> DEFINE row == g.db[e]
           where == SameTuple(row)
<1>1. EntryOK(row)
  BY CommittedFacts, RowKinds, TableRows
<1>2. /\ Where("key", "EQ", row.key) \in where /\ Where("version", "EQ", row.version) \in where
      /\ Where("scope", "EQ", row.scope) \in where
      /\ Where("repoId", "EQ", row.repoId) \in where
      /\ \A clause \in where : \/ clause = Where("key", "EQ", row.key)
                               \/ clause = Where("version", "EQ", row.version)
                               \/ clause = Where("scope", "EQ", row.scope)
                               \/ clause = Where("repoId", "EQ", row.repoId)
  BY DEF SameTuple, EntryKey, EntryVersion, EntryScope, EntryRepoId
<1>3. row.key # Null /\ row.version # Null /\ row.scope # Null /\ row.repoId # Null
  BY <1>1 DEF EntryOK
<1> HIDE DEF where
<1> SUFFICES Matching(g.db, "entry", where) = {e}
  BY DEF where
<1>4. e \in Matching(g.db, "entry", where)
  <2>1. /\ \E q \in Where("key", "EQ", row.key) : Holds(q, row)
        /\ \E q \in Where("version", "EQ", row.version) : Holds(q, row)
        /\ \E q \in Where("scope", "EQ", row.scope) : Holds(q, row)
        /\ \E q \in Where("repoId", "EQ", row.repoId) : Holds(q, row)
    BY <1>3, Equal
  <2>2. \A clause \in where : \E q \in clause : Holds(q, row)
    BY <1>2, <2>1
  <2> QED
    BY <2>2, MatchingFacts
<1>5. ASSUME NEW f \in Matching(g.db, "entry", where) PROVE f = e
  <2>1. f \in RowsOf("entry") /\ g.db[f] # Absent
    BY MatchingFacts
  <2>2. /\ g.db[f]["key"] = row.key /\ g.db[f]["version"] = row.version
        /\ g.db[f]["scope"] = row.scope /\ g.db[f]["repoId"] = row.repoId
    BY <1>2, ChosenEqual
  <2>3. KeyOf(g.db[f]) = KeyOf(g.db[e])
    BY <2>2 DEF KeyOf
  <2> QED
    BY <2>1, <2>3 DEF Committed, OneEntry
<1> QED
  BY <1>4, <1>5

\* The invariant gives RowsInv.
LEMMA SoundRows ==
  ASSUME TransactionInv
  PROVE  RowsInv
<1>1. /\ Committed(Now) /\ Now.db = db /\ Now.engine = engine
  BY StateFields DEF TransactionInv, Inv
<1>2. Consistent(db)
  BY <1>1, CommittedConsistent
<1>3. ASSUME NEW e \in RowsOf("entry"), db[e] # Absent
      PROVE  /\ db[<<"location", db[e].locationId>>].deletionRequestedAt = Null
             /\ Matching(db, "entry", SameTuple(db[e])) = {e}
  <2>1. db[LocationOf(db[e])].deletionRequestedAt = Null
    BY <1>1, <1>3 DEF Committed, Linked
  <2> QED
    BY <1>1, <1>3, <2>1, TupleMatches DEF LocationOf
<1>4. ASSUME NEW l \in Location, engine # "mysql", Exists(l), Observed(l).partsDeletedAt # Null
      PROVE  PartsReaders(db, l) = {}
  <2>1. <<"location", l>> \in RowsOf("location")
    BY RowFacts
  <2>2. Unread(db, <<"location", l>>)
    BY <1>1, <1>4, <2>1 DEF Committed, Claimed, Exists, Observed
  <2> QED
    BY <2>2 DEF Unread, PartsLease, PartsReaders, Live, LeasedBy
<1>5. ASSUME NEW l \in Location, Exists(l), Observed(l).lastDownloadedAt # Null
      PROVE  Observed(l).recencyAt >= Observed(l).lastDownloadedAt
  <2>1. <<"location", l>> \in RowsOf("location") /\ <<"location", l>> \in Rows
    BY RowFacts, TableRows
  <2>2. LocationOK(Observed(l))
    BY <1>1, <1>5, <2>1, CommittedFacts, RowKinds DEF Exists, Observed
  <2> QED
    BY <1>5, <2>2 DEF LocationOK
<1>6. ASSUME NEW t \in RowsOf("deletion"), db[t] # Absent, db[t].folderName[2] = "",
             NEW r \in RowsOf("upload") \cup RowsOf("location"), db[r] # Absent
      PROVE  db[r].folderName # db[t].folderName
  BY <1>1, <1>6 DEF Committed, QueueFree, Owners
<1> QED
  BY <1>2, <1>3, <1>4, <1>5, <1>6 DEF RowsInv

-----------------------------------------------------------------------------
(* Only a commit changes the tables.                                         *)

LEMMA KeptTables ==
  ASSUME NEW p
  PROVE  /\ \A did, s : Goes(p, did, s) => db' = db
         /\ \A did, pc : Does(p, did, pc) => db' = db
         /\ \A did, pc, reg : Keeps(p, did, pc, reg) => db' = db
         /\ \A job, pc, reg : Begin(p, job, pc, reg) => db' = db
<1>1. \A did, s : Goes(p, did, s) => db' = db
  BY DEF Goes, Step
<1> QED
  BY <1>1 DEF Does, Keeps, Begin

LEMMA ReadersWait ==
  ASSUME NEW p, Readers(p)
  PROVE  db' = db
BY KeptTables
   DEF Readers, AcquireEntry, AcquireLocation, AcquireLock, AcquireCreate, RenewUpdate,
       ReleaseDelete, SweepDelete

LEMMA FenceDetachedLocationWait ==
  ASSUME NEW p, FenceDetachedLocation(p)
  PROVE  db' = db
BY KeptTables
   DEF FenceDetachedLocation, FenceLock, FenceEntries, FenceLocation, FenceMark, FenceLeases,
       FenceReaders, FenceEnqueue, FenceDelete

LEMMA RemovalsWait ==
  ASSUME NEW p, Removals(p)
  PROVE  db' = db
BY KeptTables, FenceDetachedLocationWait
   DEF Removals, PurgeEntry, PurgeIfClaim, PurgeIfEntry, RequestOrphan, DetachCacheEntries,
       EvictClaim, EvictGet, EvictReaders, ExpireLock, ExpireLocation, ExpireEntries,
       ExpireRecent, ExpireReaders

LEMMA MergesWait ==
  ASSUME NEW p, Merges(p)
  PROVE  db' = db
BY KeptTables
   DEF Merges, ClaimLock, ClaimLocation, ClaimLeases, ClaimReaders, ClaimEnqueue, ClaimMark,
       MergeLock, MergeLocation, MergeLease, MergeEnds

LEMMA RecordsWait ==
  ASSUME NEW p, Records(p)
  PROVE  db' = db
BY KeptTables
   DEF Records, TouchUpdate, SizeUpdate, BackfillUpdate, UploadInsert, PartUpdate,
       AbandonDelete, AbandonEnqueue, ProcessDone, ProcessFailed

LEMMA CompletionWait ==
  ASSUME NEW p, Completion(p)
  PROVE  db' = db
BY KeptTables
   DEF Completion, CompleteCreate, CompleteEntry, CompleteUpdate, CompleteInsert,
       CompleteBlocks, CompleteDelete

LEMMA OrphansWait ==
  ASSUME NEW p, Orphans(p)
  PROVE  db' = db
BY KeptTables
   DEF Orphans, OrphanUploads, OrphanLocations, OrphanDeletions, OrphanEnqueue

LEMMA RequestsWait ==
  ASSUME NEW p, Requests(p)
  PROVE  db' = db
BY KeptTables
   DEF Requests, AcquireReader, RenewReader, ReleaseReaders, PurgeExpiredReaderLeases,
       PurgeDanglingCacheEntry, PurgeDanglingCacheEntryIfUnchanged, RequestLocationDeletion,
       RequestCapacityEviction, RequestExpiredLocationDeletion, ClaimPartsDeletion,
       AcquireMaterialization, EndMaterialization, TouchStorageLocationIfStale, RecordSize,
       Backfill, CreateUploadRecord, UploadObject, AbandonUpload, CompleteUploadRecord,
       ClaimOrphanedStorageFolder, ProcessDeletion

\* Nothing but a commit changes the tables.
LEMMA OnlyCommits ==
  ASSUME [DatabaseNext]_databaseVars
  PROVE  db' = db \/ \E p \in Process : Commit(p)
<1>1. CASE Tick \/ Done \/ UNCHANGED databaseVars \/ UNCHANGED rowVars
  BY <1>1 DEF Tick, Done, vars, databaseVars, rowVars
<1>2. ASSUME NEW p \in Process, Requests(p) \/ Statement(p) \/ Fail(p) PROVE db' = db
  BY <1>2, RequestsWait, ReadersWait, RemovalsWait, MergesWait, RecordsWait, CompletionWait,
     OrphansWait DEF Statement, Fail, Step
<1>3. ASSUME NEW p \in Process, Ends(p) PROVE db' = db \/ Commit(p)
  BY <1>3 DEF Ends, Rollback, BreakDeadlock, Step
<1> QED
  BY <1>1, <1>2, <1>3 DEF DatabaseNext, Next

-----------------------------------------------------------------------------
(* What a commit shows.                                                      *)

\* A commit keeps every folder owned or in the outbox.
LEMMA CommitFolders ==
  ASSUME NEW g, NEW h, NEW s, Commits(g, h, s)
  PROVE  Owned(g.db) \subseteq Owned(h.db) \cup Queued(h.db)
<1> SUFFICES ASSUME NEW r \in Owners, g.db[r] # Absent
             PROVE  g.db[r].folderName \in Owned(h.db) \cup Queued(h.db)
  BY DEF Owned, Owners
<1>1. /\ DropsOK(g, s) /\ s.pc = "commit" /\ r \in Rows
  BY CommitParts, SoundParts, TableRows
<1>2. CASE h.db[r] # Absent
  <2>1. h.db[r].folderName = g.db[r].folderName
    BY <1>2, OwnerFolder
  <2> QED
    BY <1>2, <2>1 DEF Owned, Owners
<1>3. CASE h.db[r] = Absent
  <2>1. r \in DOMAIN s.writes /\ s.writes[r] = Absent
    BY <1>1, <1>3, CommitRow
  <2>2. r \in Owners \ Pending(s)
    BY <1>1 DEF Pending
  <2>3. PICK x \in Owners \cup RowsOf("deletion") :
          Puts(s, x) /\ s.writes[x].folderName = g.db[r].folderName
    BY <1>1, <2>1, <2>2 DEF DropsOK
  <2>4. x \in DOMAIN s.writes /\ s.writes[x] # Absent /\ x \in Rows
    BY <2>3, TableRows DEF Puts
  <2>5. h.db[x] = s.writes[x]
    BY <2>4, CommitRow
  <2> QED
    BY <2>3, <2>4, <2>5 DEF Owned, Queued, Owners
<1> QED
  BY <1>2, <1>3

\* Every step does.
LEMMA FoldersStep ==
  ASSUME TransactionInv, [DatabaseNext]_databaseVars
  PROVE  Owned(db) \subseteq Owned(db') \cup Queued(db')
<1>1. CASE db' = db
  BY <1>1
<1>2. ASSUME NEW p \in Process, Commit(p)
      PROVE  Owned(db) \subseteq Owned(db') \cup Queued(db')
  <2> DEFINE h == Now'
  <2>1. Commits(Now, h, proc[p])
    BY <1>2, CommitBegins
  <2>2. Now.db = db /\ h.db = db'
    BY DEF Now
  <2> HIDE DEF h
  <2> QED
    BY <2>1, <2>2, CommitFolders
<1> QED
  BY <1>1, <1>2, OnlyCommits

(* A reader of parts that a commit admits.                                   *)
LEMMA AdmittedReader ==
  ASSUME NEW g, NEW h, NEW s, Commits(g, h, s), NEW l \in RowsOf("location"),
         NEW d \in RowsOf("lease"), Adds(g, s, d), s.writes[d].scope = "parts",
         LeasedBy(s.writes[d]) = l
  PROVE  /\ s.job.kind = "acquire"
         /\ l \in DOMAIN s.writes \/ (g.db[l] # Absent /\ ~Mergeable(g.db[l]))
<1>1. Sound(g, s) /\ InsertsOK(g, s)
  BY CommitParts, SoundParts
<1>2. /\ s.job.kind = "acquire"
      /\ s.writes[d].scope = "parts" => Admissible(g, s, LeasedBy(s.writes[d]))
  BY <1>1 DEF InsertsOK
<1>3. Admissible(g, s, l)
  BY <1>2
<1>4. h.db[l] # Absent
  <2>1. h.db[d] = s.writes[d] /\ h.db[d] # Absent
    BY TableRows, CommitRow DEF Adds, Puts
  <2>2. Leased(h.db)
    BY CommitCommitted DEF Committed
  <2> QED
    BY <2>1, <2>2 DEF Leased
<1>5. l \notin DOMAIN s.writes => g.db[l] # Absent
  BY <1>4, CommitRow, TableRows
<1> QED
  BY <1>2, <1>3, <1>5 DEF Admissible, Puts

\* A commit that admits a reader or evicts looked last.
LEMMA LooksStep ==
  ASSUME TransactionInv, [DatabaseNext]_databaseVars, NEW p \in Process, NEW l \in Location,
         Commit(p)
  PROVE  /\ (Admits(p, l) /\ Mergeable(Observed(l))) => \A q \in Process : ~Removes(q, l)
         /\ (proc[p].job.kind = "evict" /\ Fences(l))
              => Observed(l).recencyAt = proc[p].job.row.recencyAt
<1> DEFINE s == proc[p]
           h == Now'
           r == <<"location", l>>
<1>1. /\ Commits(Now, h, s) /\ \A q \in Process \ {p} : Beside(Now, s, proc[q])
  BY CommitBegins
<1>2. Now.db = db /\ h.db = db' /\ Observed(l) = db[r]
  BY DEF Now, Observed
<1>3. r \in RowsOf("location") /\ r \in Rows
  BY RowFacts, TableRows
<1>4. ASSUME Admits(p, l), Mergeable(Observed(l)), NEW q \in Process, Removes(q, l)
      PROVE  FALSE
  <2>1. PICK d \in RowsOf("lease") \cap DOMAIN s.writes :
          /\ db[d] = Absent /\ s.writes[d] # Absent
          /\ s.writes[d].scope = "parts" /\ s.writes[d].storageLocationId = l
    BY <1>4 DEF Admits
  <2>2. LeasedBy(s.writes[d]) = r
    BY <2>1 DEF LeasedBy
  <2>3. r \in DOMAIN proc[q].writes /\ proc[q].job.kind \in {"evict", "expire", "claim"}
    BY <1>4 DEF Removes
  <2> HIDE DEF s, h, r
  <2>4. d \in RowsOf("lease") /\ Adds(Now, s, d) /\ s.writes[d].scope = "parts"
    BY <1>2, <2>1 DEF Adds, Puts
  <2>5. /\ s.job.kind = "acquire"
        /\ r \in DOMAIN s.writes \/ (Now.db[r] # Absent /\ ~Mergeable(Now.db[r]))
    BY <1>1, <1>3, <2>2, <2>4, AdmittedReader
  <2>6. q # p
    BY <2>3, <2>5 DEF s
  <2>7. r \notin DOMAIN s.writes
    BY <1>1, <2>3, <2>6, BesideParts
  <2> QED
    BY <1>2, <1>4, <2>5, <2>7
<1>5. ASSUME s.job.kind = "evict", Fences(l)
      PROVE  Observed(l).recencyAt = s.job.row.recencyAt
  <2>1. /\ db[r] # Absent /\ db[r].deletionRequestedAt = Null
        /\ db'[r].deletionRequestedAt # Null
    BY <1>5 DEF Fences, Exists, Observed
  <2> HIDE DEF s, h, r
  <2>2. RequestOK(Now, s)
    BY <1>1, CommitParts, SoundParts, PlanParts
  <2>3. r \in DOMAIN s.writes
    BY <1>1, <1>2, <1>3, <2>1, CommitRow
  <2>4. Now.db[r].recencyAt = s.job.row.recencyAt
    BY <1>2, <1>3, <1>5, <2>1, <2>2, <2>3 DEF RequestOK
  <2> QED
    BY <1>2, <2>4
<1> QED
  BY <1>4, <1>5

\* A completion that commits has its entry.
LEMMA ServedStep ==
  ASSUME TransactionInv, [DatabaseNext]_databaseVars, NEW p \in Process,
         engine # "mysql", Commit(p), proc[p].job.kind = "complete"
  PROVE  \E e \in RowsOf("entry") : db'[e] # Absent /\ db'[e].locationId = proc[p].reg.new
<1> DEFINE s == proc[p]
           h == Now'
<1>1. Commits(Now, h, s)
  BY CommitBegins
<1>2. h.db = db' /\ Now.engine = engine /\ s.job.kind = "complete"
  BY DEF Now
<1> HIDE DEF s, h
<1> SUFFICES \E e \in RowsOf("entry") : db'[e] # Absent /\ db'[e].locationId = s.reg.new
  BY DEF s
<1>3. CompleteOK(Now, s) /\ s.pc = "commit"
  BY <1>1, CommitParts, SoundParts
<1>4. PICK e \in RowsOf("entry") : Puts(s, e) /\ s.writes[e].locationId = s.reg.new
  BY <1>2, <1>3 DEF CompleteOK
<1>5. db'[e] = s.writes[e]
  BY <1>1, <1>2, <1>4, CommitRow, TableRows DEF Puts
<1> QED
  BY <1>4, <1>5 DEF Puts

-----------------------------------------------------------------------------
(* The properties.                                                           *)

\* RowsInv: after every commit keys and foreign keys hold, a tuple has one entry, no
\* entry leads to a fenced location, claimed parts have no reader (but under MySQL), no
\* folder in the outbox has an owner and no recency is older than the last download,
\* however the transactions of internal/db interleave on any of the three engines.
THEOREM RowsConsistent == DatabaseSpec => []RowsInv
BY TransactionsSound, SoundRows, PTL

\* FoldersKept: a folder that an upload or a location owns is still owned, or waits in
\* the outbox, after every step: no commit, rollback or crash leaks a folder.
THEOREM FoldersNeverForgotten == DatabaseSpec => FoldersKept
<1>1. TransactionInv /\ [DatabaseNext]_databaseVars =>
        [Owned(db) \subseteq Owned(db') \cup Queued(db')]_vars
  BY FoldersStep
<1>2. DatabaseSpec => [][DatabaseNext]_databaseVars
  BY PTL DEF DatabaseSpec
<1> QED
  BY <1>1, <1>2, TransactionsSound, PTL DEF FoldersKept

\* LooksOnce: no reader of parts is admitted to a location while a removal of it is under
\* way, and an eviction fences a location only with the recency that it was chosen for.
THEOREM LooksLast == DatabaseSpec => LooksOnce
<1>1. TransactionInv /\ [DatabaseNext]_databaseVars =>
        [\A p \in Process, l \in Location : Commit(p) =>
           /\ (Admits(p, l) /\ Mergeable(Observed(l))) => \A q \in Process : ~Removes(q, l)
           /\ (proc[p].job.kind = "evict" /\ Fences(l))
                => Observed(l).recencyAt = proc[p].job.row.recencyAt]_vars
  BY LooksStep
<1>2. DatabaseSpec => [][DatabaseNext]_databaseVars
  BY PTL DEF DatabaseSpec
<1> QED
  BY <1>1, <1>2, TransactionsSound, PTL DEF LooksOnce

\* CompletionServed: under SQLite and PostgreSQL a completed upload leaves an entry that
\* leads to its location, whatever purges and completions run beside it.
THEOREM CompletionsServed == DatabaseSpec => CompletionServed
<1>1. TransactionInv /\ [DatabaseNext]_databaseVars =>
        [\A p \in Process :
           (engine # "mysql" /\ Commit(p) /\ proc[p].job.kind = "complete") =>
           \E e \in RowsOf("entry") : db'[e] # Absent /\ db'[e].locationId = proc[p].reg.new]_vars
  BY ServedStep
<1>2. DatabaseSpec => [][DatabaseNext]_databaseVars
  BY PTL DEF DatabaseSpec
<1> QED
  BY <1>1, <1>2, TransactionsSound, PTL DEF CompletionServed
===============================================================================
