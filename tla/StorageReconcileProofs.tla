------------------------ MODULE StorageReconcileProofs ------------------------
(***************************************************************************)
(* The reconciliation of sizes records true sizes, is complete when it     *)
(* says so, and purges only what could not be downloaded, for any number   *)
(* of locations, page size and limit, whatever goes on meanwhile.          *)
(***************************************************************************)
EXTENDS StorageReconcile, FiniteSetTheorems, TLAPS

-----------------------------------------------------------------------------
(* Numbers and sequences. *)

LEMMA NatMin ==
  ASSUME NEW S \in SUBSET Nat, S # {}
  PROVE  Min(S) \in S
<1>1. PICK x \in S : \A y \in S : ~(<<y, x>> \in OpToRel(<, Nat))
  BY NatLessThanWellFounded, WFMin
<1>2. \A y \in S : x <= y
  <2> SUFFICES ASSUME NEW y \in S PROVE x <= y
    OBVIOUS
  <2>1. ~(y < x)
    BY <1>1 DEF OpToRel
  <2> QED
    BY <2>1
<1> QED
  BY <1>2 DEF Min

LEMMA PartsCounted ==
  ASSUME NEW r \in Row, NEW listed, PartsOf(r) \subseteq listed
  PROVE  Cardinality(listed \cap PartsOf(r)) = r.partCount
<1>1. r.partCount \in Nat
  BY DEF Row
<1>2. listed \cap PartsOf(r) = 0 .. r.partCount - 1
  BY DEF PartsOf
<1>3. Cardinality(0 .. r.partCount - 1) = r.partCount
  BY <1>1, FS_Interval
<1> QED
  BY <1>2, <1>3, Zenon

LEMMA Bounds ==
  /\ Location \subseteq Nat \ {0}
  /\ MaxIndexedObjects \in Nat \ {0} /\ MaxLocationRechecks \in Nat \ {0}
  /\ PageSize \in Nat \ {0} /\ MaxVersion \in Nat /\ MaxFaults \in Nat
  BY ReconcileAssumption DEF ReconcileAssumption

(* A page is a sequence of locations that is not too long.                 *)
LEMMA PageType ==
  ASSUME NEW S \in SUBSET Location, NEW page \in SeqOf(S, PageSize)
  PROVE  page \in Seq(Location) /\ Len(page) <= PageSize
<1>1. PICK m \in 0 .. PageSize : page \in [1 .. m -> S]
  BY DEF SeqOf
<1>2. m \in Nat /\ m <= PageSize
  BY <1>1, Bounds
<1>3. page \in Seq(S) /\ Len(page) = m
  BY <1>1, <1>2
<1> QED
  BY <1>2, <1>3

(* The page has a head, and what is left of it is a page.                  *)
LEMMA PageParts ==
  ASSUME TypeOK, pass.page # <<>>
  PROVE  /\ Candidate \in Location
         /\ Tail(pass.page) \in Seq(Location)
         /\ Len(Tail(pass.page)) <= PageSize
<1>1. PICK page : page = pass.page
  OBVIOUS
<1>2. page \in Seq(Location) /\ Len(page) <= PageSize /\ page # <<>>
  BY <1>1 DEF TypeOK, Pass
<1>3. /\ Head(page) \in Location /\ Tail(page) \in Seq(Location)
      /\ Len(Tail(page)) = Len(page) - 1 /\ Len(page) \in Nat
  BY <1>2
<1>4. Len(Tail(page)) <= PageSize
  BY <1>2, <1>3, Bounds
<1> QED
  BY <1>1, <1>3, <1>4 DEF Candidate

-----------------------------------------------------------------------------
(* How rows and objects move, in whatever step.                            *)

Later(r, s) ==
  /\ s \in Row /\ RowOK(s)
  /\ s.partCount = r.partCount
  /\ r.merged => s.merged
  /\ s.at = "active" => r.at = "active"
  /\ s.size = Unknown => r.size = Unknown

LaterObjects(r, o, p) ==
  /\ p \in Objects
  /\ p.parts \subseteq o.parts
  /\ r.merged /\ p.merged => o.merged

Moved(l) == Later(row[l], row[l]') /\ LaterObjects(row[l], objects[l], objects[l]')

RowsMoved ==
  /\ row' \in [Location -> Row] /\ objects' \in [Location -> Objects]
  /\ \A l \in Location : Moved(l)

Rows == TypeOK /\ RowInv

LEMMA RowKept ==
  ASSUME Rows, NEW l \in Location
  PROVE  Later(row[l], row[l]) /\ LaterObjects(row[l], objects[l], objects[l])
  BY DEF Rows, TypeOK, RowInv, Later, LaterObjects

(* One row changes. *)
LEMMA OneRow ==
  ASSUME Rows, NEW l \in Location, NEW s, Later(row[l], s),
         row' = [row EXCEPT ![l] = s], UNCHANGED objects
  PROVE  RowsMoved
<1>1. s \in Row /\ row \in [Location -> Row] /\ objects \in [Location -> Objects]
  BY DEF Rows, TypeOK, Later
<1>2. row' \in [Location -> Row] /\ objects' \in [Location -> Objects]
  BY <1>1
<1>3. ASSUME NEW k \in Location PROVE Moved(k)
  <2>1. row[k]' = IF k = l THEN s ELSE row[k]
    BY <1>1
  <2>2. objects[k]' = objects[k]
    OBVIOUS
  <2>3. CASE k = l
    BY <2>1, <2>2, <2>3, RowKept, Zenon DEF Moved
  <2>4. CASE k # l
    BY <2>1, <2>2, <2>4, RowKept, Zenon DEF Moved
  <2> QED
    BY <2>3, <2>4
<1> QED
  BY <1>2, <1>3 DEF RowsMoved

LEMMA OneFolder ==
  ASSUME Rows, NEW l \in Location, NEW p, LaterObjects(row[l], objects[l], p),
         objects' = [objects EXCEPT ![l] = p], UNCHANGED row
  PROVE  RowsMoved
<1>1. p \in Objects /\ row \in [Location -> Row] /\ objects \in [Location -> Objects]
  BY DEF Rows, TypeOK, LaterObjects
<1>2. row' \in [Location -> Row] /\ objects' \in [Location -> Objects]
  BY <1>1
<1>3. ASSUME NEW k \in Location PROVE Moved(k)
  <2>1. objects[k]' = IF k = l THEN p ELSE objects[k]
    BY <1>1
  <2>2. row[k]' = row[k]
    OBVIOUS
  <2>3. CASE k = l
    BY <2>1, <2>2, <2>3, RowKept, Zenon DEF Moved
  <2>4. CASE k # l
    BY <2>1, <2>2, <2>4, RowKept, Zenon DEF Moved
  <2> QED
    BY <2>3, <2>4
<1> QED
  BY <1>2, <1>3 DEF RowsMoved

LEMMA NoneMoved ==
  ASSUME Rows, UNCHANGED <<row, objects>>
  PROVE  RowsMoved
<1>1. ASSUME NEW k \in Location PROVE Moved(k)
  BY RowKept, Zenon DEF Moved
<1>2. row' \in [Location -> Row] /\ objects' \in [Location -> Objects]
  BY DEF Rows, TypeOK
<1> QED
  BY <1>1, <1>2 DEF RowsMoved

(* The steps of the others: the pass stays as it is.                       *)
LEMMA LifecycleMoves ==
  ASSUME Rows, NEW l \in Location, LifecycleStep(l)
  PROVE  /\ RowsMoved /\ UNCHANGED <<pass, ready, faults>>
         /\ expired' \subseteq Location \X (1 .. MaxVersion)
<1>r. row[l] \in Row /\ RowOK(row[l]) /\ objects[l] \in Objects
  BY DEF Rows, TypeOK, RowInv
<1>v. MaxVersion \in Nat /\ expired \subseteq Location \X (1 .. MaxVersion)
  BY Bounds DEF Rows, TypeOK
<1>1. CASE AcquireMaterialization(l)
  <2> DEFINE s == [row[l] EXCEPT !.leaseVersion = @ + 1,
                                 !.lease = row[l].leaseVersion + 1]
  <2>1. row' = [row EXCEPT ![l] = s]
    BY <1>1 DEF AcquireMaterialization
  <2>2. Later(row[l], s)
    <3>0. /\ row[l].leaseVersion + 1 \in 0 .. MaxVersion
          /\ row[l].leaseVersion + 1 \in 0 .. MaxVersion + 2
      BY <1>1, <1>r, <1>v DEF AcquireMaterialization, Row
    <3>1. s \in Row
      BY <1>r, <3>0 DEF Row
    <3>2. RowOK(s)
      BY <1>1, <1>r, <1>v DEF AcquireMaterialization, Row, RowOK
    <3> QED
      BY <1>1, <1>r, <1>v, <3>1, <3>2 DEF AcquireMaterialization, Later, Row
  <2> QED
    BY <1>1, <1>v, <2>1, <2>2, OneRow DEF AcquireMaterialization
<1>2. CASE ComposeMergedObject(l)
  <2> DEFINE p == [objects[l] EXCEPT !.merged = TRUE]
  <2>1. objects' = [objects EXCEPT ![l] = p]
    BY <1>2 DEF ComposeMergedObject
  <2>2. LaterObjects(row[l], objects[l], p)
    BY <1>2, <1>r DEF ComposeMergedObject, LaterObjects, Objects, RowOK
  <2> QED
    BY <1>2, <1>v, <2>1, <2>2, OneFolder DEF ComposeMergedObject
<1>3. CASE FinishMaterialization(l)
  <2> DEFINE s == [row[l] EXCEPT !.merged = TRUE, !.lease = 0]
  <2>1. row' = [row EXCEPT ![l] = s]
    BY <1>3 DEF FinishMaterialization
  <2>2. Later(row[l], s)
    <3>0. 0 \in 0 .. MaxVersion
      BY <1>3, <1>r, <1>v DEF FinishMaterialization
    <3>1. s \in Row
      BY <1>r, <3>0 DEF Row
    <3>2. RowOK(s)
      BY <1>3, <1>r, <1>v DEF FinishMaterialization, Row, RowOK
    <3> QED
      BY <1>3, <1>r, <1>v, <3>1, <3>2 DEF FinishMaterialization, Later, Row
  <2> QED
    BY <1>3, <1>v, <2>1, <2>2, OneRow DEF FinishMaterialization
<1>4. CASE ReleaseMaterialization(l)
  <2> DEFINE s == [row[l] EXCEPT !.lease = 0]
  <2>1. row' = [row EXCEPT ![l] = s]
    BY <1>4 DEF ReleaseMaterialization
  <2>2. Later(row[l], s)
    <3>1. s \in Row
      BY <1>4, <1>r, <1>v DEF ReleaseMaterialization, Row, RowOK
    <3>2. RowOK(s)
      BY <1>4, <1>r, <1>v DEF ReleaseMaterialization, Row, RowOK
    <3> QED
      BY <1>4, <1>r, <1>v, <3>1, <3>2 DEF ReleaseMaterialization, Later, Row
  <2> QED
    BY <1>4, <1>v, <2>1, <2>2, OneRow DEF ReleaseMaterialization
<1>5. CASE LeaseExpires(l)
  <2>1. PICK lease \in {row[l].lease} \cup
                 (IF pass.page # <<>> /\ Head(pass.page) = l
                    THEN {pass.seen.lease} ELSE {}) :
          lease # 0 /\ expired' = expired \cup {<<l, lease>>}
    BY <1>5 DEF LeaseExpires
  <2>2. pass.seen \in Row
    BY DEF Rows, TypeOK, Pass
  <2>3. row[l].lease \in 0 .. MaxVersion /\ pass.seen.lease \in 0 .. MaxVersion
    BY <1>r, <2>2 DEF Row
  <2>4. lease \in 1 .. MaxVersion
    BY <2>1, <2>3, <1>v
  <2> QED
    BY <1>5, <1>v, <2>1, <2>4, NoneMoved DEF LeaseExpires
<1>6. CASE ClaimPartsDeletion(l)
  <2> DEFINE s == [row[l] EXCEPT !.partsDeleted = TRUE, !.leaseVersion = @ + 1]
  <2>1. row' = [row EXCEPT ![l] = s]
    BY <1>6 DEF ClaimPartsDeletion
  <2>2. Later(row[l], s)
    <3>0. row[l].leaseVersion + 1 \in 0 .. MaxVersion + 2
      BY <1>6, <1>r, <1>v DEF ClaimPartsDeletion, Row, RowOK
    <3>1. s \in Row
      BY <1>r, <3>0 DEF Row
    <3>2. RowOK(s)
      BY <1>6, <1>r, <1>v DEF ClaimPartsDeletion, Row, RowOK
    <3> QED
      BY <1>6, <1>r, <1>v, <3>1, <3>2 DEF ClaimPartsDeletion, Later, Row
  <2> QED
    BY <1>6, <1>v, <2>1, <2>2, OneRow DEF ClaimPartsDeletion
<1>7. CASE DeletePart(l)
  <2>1. PICK part \in objects[l].parts :
          objects' = [objects EXCEPT ![l].parts = @ \ {part}]
    BY <1>7 DEF DeletePart
  <2> DEFINE p == [objects[l] EXCEPT !.parts = @ \ {part}]
  <2>2. objects' = [objects EXCEPT ![l] = p]
    BY <2>1
  <2>3. LaterObjects(row[l], objects[l], p)
    BY <1>r DEF LaterObjects, Objects
  <2> QED
    BY <1>7, <1>v, <2>2, <2>3, OneFolder DEF DeletePart
<1>8. CASE RequestDeletion(l)
  <2> DEFINE s == [row[l] EXCEPT !.at = "fenced", !.entry = FALSE]
  <2>1. row' = [row EXCEPT ![l] = s]
    BY <1>8 DEF RequestDeletion
  <2>2. Later(row[l], s)
    <3>1. s \in Row
      BY <1>8, <1>r, <1>v DEF RequestDeletion, Row, RowOK
    <3>2. RowOK(s)
      BY <1>8, <1>r, <1>v DEF RequestDeletion, Row, RowOK
    <3> QED
      BY <1>8, <1>r, <1>v, <3>1, <3>2 DEF RequestDeletion, Later, Row
  <2> QED
    BY <1>8, <1>v, <2>1, <2>2, OneRow DEF RequestDeletion
<1>9. CASE DeleteLocation(l)
  <2> DEFINE s == [row[l] EXCEPT !.at = "none"]
             p == [parts |-> {}, merged |-> FALSE]
  <2>1. row' = [row EXCEPT ![l] = s] /\ objects' = [objects EXCEPT ![l] = p]
    BY <1>9 DEF DeleteLocation
  <2>2. Later(row[l], s)
    <3>1. s \in Row
      BY <1>9, <1>r, <1>v DEF DeleteLocation, Row, RowOK
    <3>2. RowOK(s)
      BY <1>9, <1>r, <1>v DEF DeleteLocation, Row, RowOK
    <3> QED
      BY <1>9, <1>r, <1>v, <3>1, <3>2 DEF DeleteLocation, Later, Row
  <2>3. LaterObjects(row[l], objects[l], p)
    BY <1>r DEF LaterObjects, Objects
  <2>4. row' \in [Location -> Row] /\ objects' \in [Location -> Objects]
    BY <2>1, <2>2, <2>3 DEF Rows, TypeOK, Later, LaterObjects
  <2>5. ASSUME NEW k \in Location PROVE Moved(k)
    <3>1. row[k]' = IF k = l THEN s ELSE row[k]
      BY <2>1 DEF Rows, TypeOK
    <3>2. objects[k]' = IF k = l THEN p ELSE objects[k]
      BY <2>1 DEF Rows, TypeOK
    <3> HIDE DEF s, p
    <3>3. CASE k = l
      BY <2>2, <2>3, <3>1, <3>2, <3>3, Zenon DEF Moved
    <3>4. CASE k # l
      BY <3>1, <3>2, <3>4, RowKept, Zenon DEF Moved
    <3> QED
      BY <3>3, <3>4
  <2> QED
    BY <1>9, <1>v, <2>4, <2>5 DEF DeleteLocation, RowsMoved
<1> QED
  BY <1>1, <1>2, <1>3, <1>4, <1>5, <1>6, <1>7, <1>8, <1>9
     DEF LifecycleStep

(* What every step keeps of the rows. *)
LEMMA RowsStay ==
  ASSUME Rows, RowsMoved
  PROVE  /\ RowInv' /\ SizesTrue'
         /\ \A l \in Location : Unsized(l)' => Unsized(l)
  BY DEF Rows, RowInv, RowsMoved, Moved, Later, RowOK, SizesTrue, Unsized

-----------------------------------------------------------------------------
(* How the pass moves. *)

PassOK == pass \in Pass /\ Len(pass.page) <= PageSize
PassInv == CandidateInv /\ SizeInv /\ ReasonInv /\ PurgedInv

LEMMA NewPassType == NewPass \in Pass /\ NewPass.page = <<>>
<1>1. NoRow \in Row
  BY Bounds DEF NoRow, Row
<1>2. /\ 0 \in 0 .. MaxLocationRechecks
      /\ 0 \in 0 .. MaxLocationRechecks - 1
      /\ <<>> \in Seq(Location) /\ "pages" \in Stage
  BY Bounds DEF Stage
<1> QED
  BY <1>1, <1>2 DEF NewPass, Pass

(* Between the candidates nothing is claimed of any. *)
LEMMA Outside ==
  ASSUME pass'.at \in {"pages", "count", "waiting", "done"}, ~pass'.purged
  PROVE  PassInv'
  BY DEF PassInv, CandidateInv, Inspecting, SizeInv, ReasonInv, PurgedInv

(* Nor of one that is to be read anew, except that what was purged is.     *)
LEMMA AtRefresh ==
  ASSUME pass'.at = "refresh", pass'.page # <<>>,
         pass'.purged => row'[Head(pass'.page)].at # "active"
  PROVE  PassInv'
  BY DEF PassInv, CandidateInv, Inspecting, SizeInv, ReasonInv, PurgedInv,
         Candidate

LEMMA Returned ==
  ASSUME TypeOK, pass.page # <<>>, NEW outcome, Return(outcome)
  PROVE  PassOK' /\ PassInv' /\ ~pass'.purged
<1>1. /\ Candidate \in Location /\ Tail(pass.page) \in Seq(Location)
      /\ Len(Tail(pass.page)) <= PageSize
  BY PageParts
<1>2. /\ pass'.at = IF Tail(pass.page) = <<>> THEN "pages" ELSE "refresh"
      /\ pass'.page = Tail(pass.page)
      /\ ~pass'.purged
  BY DEF Return, NextCandidate, NewPass
<1>3. pass' \in Pass
  <2>1. (pass.incomplete \/ outcome \in {"error", "deferred"}) \in BOOLEAN
    OBVIOUS
  <2>2. NewPass \in Pass
    BY NewPassType
  <2> QED
    BY <1>1, <2>1, <2>2 DEF Return, NextCandidate, Pass, Stage
<1>4. PassInv'
  <2>1. CASE Tail(pass.page) = <<>>
    BY <1>2, <2>1, Outside
  <2>2. CASE Tail(pass.page) # <<>>
    BY <1>2, <2>2, AtRefresh
  <2> QED
    BY <2>1, <2>2
<1> QED
  BY <1>1, <1>2, <1>3, <1>4 DEF PassOK

(* Another stage, the same candidate. *)
LEMMA Went ==
  ASSUME TypeOK, NEW stage \in Stage, Go(stage)
  PROVE  /\ PassOK' /\ pass'.at = stage
         /\ UNCHANGED <<pass.page, pass.seen, pass.part, pass.size,
                        pass.purged, Candidate>>
<1>1. pass \in Pass
  BY DEF TypeOK
<1>2. /\ pass' \in Pass /\ pass'.at = stage /\ pass'.page = pass.page
      /\ pass'.seen = pass.seen /\ pass'.part = pass.part
      /\ pass'.size = pass.size /\ pass'.purged = pass.purged
  BY <1>1 DEF Go, Pass
<1> QED
  BY <1>2 DEF TypeOK, PassOK, Candidate

(* The pass stays as it is while rows and objects move. *)
LEMMA Meanwhile ==
  ASSUME Rows, PassInv, RowsMoved, UNCHANGED pass
  PROVE  PassOK' /\ PassInv'
<1>1. PassOK'
  BY DEF Rows, TypeOK, PassOK
<1>2. ASSUME pass.page # <<>>
      PROVE  /\ Candidate \in Location
             /\ Later(row[Candidate], row'[Candidate])
             /\ LaterObjects(row[Candidate], objects[Candidate],
                             objects'[Candidate])
             /\ pass.seen \in Row /\ row[Candidate] \in Row
  BY <1>2, PageParts DEF Rows, TypeOK, RowsMoved, Moved, Pass
<1>3. UNCHANGED <<Candidate, Seen, Inspecting>>
  BY DEF Candidate, Seen, Inspecting
<1>4. CandidateInv'
  BY <1>2, <1>3 DEF PassInv, CandidateInv, Inspecting, Later
<1>5. SizeInv'
  BY <1>3 DEF PassInv, SizeInv
<1>6. ReasonInv'
  <2>1. CASE pass.at \in {"purge", "purgeEntry", "purgeOrphan"}
    <3>1. pass.page # <<>> /\ (Seen.merged => row[Candidate].merged)
      BY <2>1 DEF PassInv, CandidateInv, Inspecting
    <3>2. /\ objects'[Candidate].parts \subseteq objects[Candidate].parts
          /\ Seen.merged /\ objects'[Candidate].merged
               => objects[Candidate].merged
      BY <1>2, <3>1 DEF LaterObjects
    <3> QED
      BY <1>3, <2>1, <3>2 DEF PassInv, ReasonInv, Seen
  <2>2. CASE pass.at \notin {"purge", "purgeEntry", "purgeOrphan"}
    BY <1>3, <2>2 DEF PassInv, ReasonInv, Seen
  <2> QED
    BY <2>1, <2>2
<1>7. PurgedInv'
  BY <1>2, <1>3 DEF PassInv, PurgedInv, Later
<1> QED
  BY <1>1, <1>4, <1>5, <1>6, <1>7 DEF PassInv

-----------------------------------------------------------------------------
(* The steps of the pass. *)

Known == Rows /\ PassInv

LEMMA PassFacts ==
  ASSUME Known
  PROVE  /\ pass \in Pass /\ pass.seen \in Row
         /\ pass.at = "refresh" \/ Inspecting =>
              /\ pass.page # <<>> /\ Candidate \in Location
              /\ row[Candidate] \in Row
              /\ objects[Candidate] \in Objects
         /\ pass.at # "refresh" => ~pass.purged
<1>1. TypeOK /\ CandidateInv /\ PurgedInv
  BY DEF Known, Rows, PassInv
<1>2. pass.at = "refresh" \/ Inspecting =>
        /\ pass.page # <<>> /\ Candidate \in Location
  BY <1>1, PageParts DEF CandidateInv
<1> QED
  BY <1>1, <1>2 DEF TypeOK, Pass, PurgedInv

LEMMA QueryPageStep ==
  ASSUME Known, QueryPage
  PROVE  PassOK' /\ PassInv'
<1> DEFINE candidates == {l \in Location : Unsized(l) /\ l > pass.cursor}
<1>1. PICK page \in SeqOf(candidates, PageSize) :
        pass' = [pass EXCEPT !.page = page,
                  !.at = CASE page # <<>>                    -> "refresh"
                           [] page = <<>> /\ pass.incomplete -> "waiting"
                           [] OTHER                          -> "count"]
  BY DEF QueryPage
<1>2. page \in Seq(Location) /\ Len(page) <= PageSize
  <2>1. candidates \in SUBSET Location
    OBVIOUS
  <2> HIDE DEF candidates
  <2> QED
    BY <2>1, PageType
<1>3. pass \in Pass /\ ~pass.purged
  BY PassFacts DEF QueryPage
<1> HIDE DEF candidates
<1> DEFINE at == CASE page # <<>>                    -> "refresh"
                   [] page = <<>> /\ pass.incomplete -> "waiting"
                   [] OTHER                          -> "count"
<1>a. /\ page # <<>> => at = "refresh"
      /\ page = <<>> => at \in {"waiting", "count"}
  OBVIOUS
<1>b. pass' = [pass EXCEPT !.page = page, !.at = at]
  BY <1>1
<1> HIDE DEF at
<1>4. /\ pass'.page = page /\ pass'.purged = pass.purged
      /\ page # <<>> => pass'.at = "refresh"
      /\ page = <<>> => pass'.at \in {"waiting", "count"}
  BY <1>a, <1>b, <1>3 DEF Pass
<1>5. pass' \in Pass
  <2>1. at \in Stage
    BY <1>a DEF Stage
  <2> QED
    BY <1>b, <1>2, <1>3, <2>1 DEF Pass
<1>6. PassInv'
  <2>1. CASE page = <<>>
    BY <1>3, <1>4, <2>1, Outside
  <2>2. CASE page # <<>>
    BY <1>3, <1>4, <2>2, AtRefresh
  <2> QED
    BY <2>1, <2>2
<1> QED
  BY <1>2, <1>4, <1>5, <1>6 DEF PassOK

LEMMA RefreshStep ==
  ASSUME Known, Refresh
  PROVE  PassOK' /\ PassInv'
<1>1. /\ pass \in Pass /\ pass.page # <<>> /\ Candidate \in Location
      /\ row[Candidate] \in Row /\ TypeOK /\ pass.at = "refresh"
  BY PassFacts DEF Refresh, Known, Rows
<1>2. CASE \E outcome \in {"purged", "deferred", "resolved"} : Return(outcome)
  BY <1>1, <1>2, Returned
<1>3. CASE /\ pass.round \in 0 .. MaxLocationRechecks - 1 /\ Unsized(Candidate)
           /\ pass' = [pass EXCEPT !.at = Inspect(row[Candidate]),
                         !.seen = row[Candidate],
                         !.round = @ + 1, !.listings = 0]
  <2> DEFINE r == row[Candidate]
  <2>1. /\ pass'.at = Inspect(r) /\ pass'.seen = r
        /\ pass'.page = pass.page /\ pass'.purged = pass.purged
        /\ Candidate' = Candidate /\ row' = row /\ objects' = objects
    BY <1>1, <1>3 DEF Pass, Candidate, Refresh
  <2>2. Inspect(r) \in {"purge", "merged", "list"}
    BY DEF Inspect
  <2>3. pass.round + 1 \in 0 .. MaxLocationRechecks
        /\ 0 \in 0 .. MaxLocationRechecks - 1
    BY <1>3, Bounds
  <2>4. pass' \in Pass
    BY <1>1, <1>3, <2>2, <2>3 DEF Pass, Stage
  <2>5. ~pass.purged
    BY <1>1, <1>3 DEF Unsized, Known, PassInv, PurgedInv
  <2>6. CandidateInv'
    BY <1>1, <2>1 DEF CandidateInv, Inspecting, Seen
  <2>7. SizeInv'
    BY <2>1, <2>2 DEF SizeInv
  <2>8. ReasonInv'
    <3>1. r.partCount \in Nat
      BY <1>1 DEF Row
    <3>2. /\ Inspect(r) = "merged" => r.merged
          /\ Inspect(r) = "list" => ~r.merged
          /\ Inspect(r) = "purge" => \/ r.partCount < 1
                                     \/ ~r.merged /\ r.partsDeleted
      BY <3>1 DEF Inspect
    <3>3. r.partCount < 1 => r.partCount \notin 1 .. MaxIndexedObjects
      BY <3>1
    <3> HIDE DEF r
    <3> QED
      BY <2>1, <2>2, <3>2, <3>3 DEF ReasonInv, Seen
  <2>9. PurgedInv'
    BY <2>1, <2>5 DEF PurgedInv
  <2> QED
    BY <1>1, <2>1, <2>4, <2>6, <2>7, <2>8, <2>9 DEF PassOK, PassInv, TypeOK
<1>4. pass.round \in 0 .. MaxLocationRechecks
  BY <1>1 DEF Pass
<1> QED
  BY <1>2, <1>3, <1>4, Bounds DEF Refresh

(* Nothing is decided yet, or the purge is as good as decided. *)
LEMMA MissingStep ==
  ASSUME Known, Inspecting, Missing, UNCHANGED <<row, objects>>,
         \/ Seen.merged /\ ~objects[Candidate].merged
         \/ ~Seen.merged /\ pass.part \in PartsOf(Seen) \ objects[Candidate].parts
  PROVE  PassOK' /\ PassInv'
<1>1. TypeOK /\ pass.page # <<>> /\ ~pass.purged /\ pass.at # "refresh"
  BY PassFacts DEF Known, Rows, Inspecting
<1>2. CASE Return("deferred")
  BY <1>1, <1>2, Returned
<1>3. CASE Go("purge")
  <2>1. "purge" \in Stage
    BY DEF Stage
  <2>2. /\ PassOK' /\ pass'.at = "purge" /\ pass'.page = pass.page
        /\ pass'.seen = pass.seen /\ pass'.part = pass.part
        /\ pass'.purged = pass.purged /\ Candidate' = Candidate
    BY <1>1, <1>3, <2>1, Went
  <2>3. CandidateInv'
    BY <1>1, <2>2 DEF Known, PassInv, CandidateInv, Inspecting, Seen
  <2>4. SizeInv' /\ PurgedInv'
    BY <1>1, <2>2 DEF SizeInv, PurgedInv
  <2>5. ReasonInv'
    BY <2>2 DEF ReasonInv, Seen
  <2> QED
    BY <2>2, <2>3, <2>4, <2>5 DEF PassInv
<1> QED
  BY <1>2, <1>3 DEF Missing

LEMMA InspectMergedStep ==
  ASSUME Known, InspectMerged
  PROVE  PassOK' /\ PassInv'
<1>1. /\ pass.at = "merged" /\ Inspecting /\ Seen.merged
      /\ TypeOK /\ pass.page # <<>> /\ pass \in Pass /\ pass.seen \in Row
      /\ ~pass.purged
  BY PassFacts DEF InspectMerged, Inspecting, Known, Rows, PassInv, ReasonInv
<1>2. CASE pass' = [pass EXCEPT !.at = "record", !.size = Seen.partCount]
  <2>1. Seen.partCount \in Nat
    BY <1>1 DEF Seen, Row
  <2>2. pass' \in Pass
    BY <1>1, <1>2, <2>1 DEF Pass, Stage
  <2>3. /\ pass'.at = "record" /\ pass'.page = pass.page
        /\ pass'.seen = pass.seen /\ pass'.size = pass.seen.partCount
        /\ pass'.purged = pass.purged /\ Candidate' = Candidate
        /\ row' = row
    BY <1>1, <1>2 DEF Pass, Candidate, Seen, InspectMerged
  <2>4. CandidateInv'
    BY <1>1, <2>3 DEF Known, PassInv, CandidateInv, Inspecting, Seen
  <2>5. SizeInv' /\ PurgedInv' /\ ReasonInv'
    BY <1>1, <2>3 DEF SizeInv, PurgedInv, ReasonInv, Seen
  <2> QED
    BY <1>1, <2>2, <2>3, <2>4, <2>5 DEF PassInv, PassOK, TypeOK
<1>3. CASE ~objects[Candidate].merged /\ Missing
  BY <1>1, <1>3, MissingStep DEF InspectMerged
<1> QED
  BY <1>2, <1>3 DEF InspectMerged

LEMMA ListPartsStep ==
  ASSUME Known, ListParts
  PROVE  PassOK' /\ PassInv'
<1>1. /\ pass.at = "list" /\ Inspecting /\ ~Seen.merged
      /\ TypeOK /\ pass.page # <<>> /\ pass \in Pass /\ pass.seen \in Row
      /\ ~pass.purged /\ CandidateInv /\ row' = row /\ objects' = objects
  BY PassFacts DEF ListParts, Inspecting, Known, Rows, PassInv, ReasonInv
<1>2. CASE OverLimit(Seen) /\ Go("purge")
  <2>1. "purge" \in Stage
    BY DEF Stage
  <2>2. /\ PassOK' /\ pass'.at = "purge" /\ pass'.page = pass.page
        /\ pass'.seen = pass.seen /\ pass'.part = pass.part
        /\ pass'.purged = pass.purged /\ Candidate' = Candidate
    BY <1>1, <1>2, <2>1, Went
  <2>3. Seen.partCount \notin 1 .. MaxIndexedObjects
    BY <1>1, <1>2, Bounds DEF OverLimit, Seen, Row
  <2>4. CandidateInv'
    BY <1>1, <2>2 DEF CandidateInv, Inspecting, Seen
  <2>5. SizeInv' /\ PurgedInv' /\ ReasonInv'
    BY <1>1, <2>2, <2>3 DEF SizeInv, PurgedInv, ReasonInv, Seen
  <2> QED
    BY <2>2, <2>4, <2>5 DEF PassInv
<1>3. CASE \E listed \in SUBSET objects[Candidate].parts :
             /\ PartsOf(Seen) \subseteq listed
             /\ pass' = [pass EXCEPT !.at = "record",
                                     !.size = Cardinality(Counted(listed))]
  <2>1. PICK listed \in SUBSET objects[Candidate].parts :
             /\ PartsOf(Seen) \subseteq listed
             /\ pass' = [pass EXCEPT !.at = "record",
                                     !.size = Cardinality(Counted(listed))]
    BY <1>3
  <2>2. Cardinality(Counted(listed)) = Seen.partCount
    BY <1>1, <2>1, PartsCounted DEF Counted, Seen
  <2>3. Seen.partCount \in Nat
    BY <1>1 DEF Seen, Row
  <2>4. pass' = [pass EXCEPT !.at = "record", !.size = Seen.partCount]
    BY <2>1, <2>2
  <2>5. pass' \in Pass
    BY <1>1, <2>3, <2>4 DEF Pass, Stage
  <2>6. /\ pass'.at = "record" /\ pass'.page = pass.page
        /\ pass'.seen = pass.seen /\ pass'.size = pass.seen.partCount
        /\ pass'.purged = pass.purged /\ Candidate' = Candidate
    BY <1>1, <2>4 DEF Pass, Candidate, Seen
  <2>7. CandidateInv'
    BY <1>1, <2>6 DEF CandidateInv, Inspecting, Seen
  <2>8. SizeInv' /\ PurgedInv' /\ ReasonInv'
    BY <1>1, <2>6 DEF SizeInv, PurgedInv, ReasonInv, Seen
  <2> QED
    BY <1>1, <2>5, <2>6, <2>7, <2>8 DEF PassInv, PassOK, TypeOK
<1>4. CASE \E listed \in SUBSET objects[Candidate].parts :
             /\ ~(PartsOf(Seen) \subseteq listed)
             /\ pass' = [pass EXCEPT !.at = "confirm",
                                     !.part = Min(PartsOf(Seen) \ listed)]
  <2>1. PICK listed \in SUBSET objects[Candidate].parts :
             /\ ~(PartsOf(Seen) \subseteq listed)
             /\ pass' = [pass EXCEPT !.at = "confirm",
                                     !.part = Min(PartsOf(Seen) \ listed)]
    BY <1>4
  <2> DEFINE part == Min(PartsOf(Seen) \ listed)
  <2>2. part \in PartsOf(Seen)
    <3>1. PartsOf(Seen) \subseteq Nat
      BY <1>1 DEF PartsOf, Seen, Row
    <3> DEFINE S == PartsOf(Seen) \ listed
    <3>2. S \in SUBSET Nat /\ S # {} /\ S \subseteq PartsOf(Seen)
      BY <2>1, <3>1
    <3> HIDE DEF S
    <3>3. Min(S) \in S
      BY <3>2, NatMin
    <3> QED
      BY <3>2, <3>3 DEF S
  <2>3. part \in Nat
    BY <1>1, <2>2 DEF PartsOf, Seen, Row
  <2> HIDE DEF part
  <2>4. pass' = [pass EXCEPT !.at = "confirm", !.part = part]
    BY <2>1 DEF part
  <2>5. pass' \in Pass
    BY <1>1, <2>3, <2>4 DEF Pass, Stage
  <2>6. /\ pass'.at = "confirm" /\ pass'.page = pass.page
        /\ pass'.seen = pass.seen /\ pass'.part = part
        /\ pass'.purged = pass.purged /\ Candidate' = Candidate
    BY <1>1, <2>4 DEF Pass, Candidate
  <2>7. CandidateInv'
    BY <1>1, <2>6 DEF CandidateInv, Inspecting, Seen
  <2>8. SizeInv' /\ PurgedInv' /\ ReasonInv'
    BY <1>1, <2>2, <2>6 DEF SizeInv, PurgedInv, ReasonInv, Seen
  <2> QED
    BY <1>1, <2>5, <2>6, <2>7, <2>8 DEF PassInv, PassOK, TypeOK
<1> QED
  BY <1>2, <1>3, <1>4 DEF ListParts

LEMMA ConfirmMissingStep ==
  ASSUME Known, ConfirmMissing
  PROVE  PassOK' /\ PassInv'
<1>1. /\ pass.at = "confirm" /\ Inspecting /\ ~Seen.merged
      /\ pass.part \in PartsOf(Seen)
      /\ TypeOK /\ pass.page # <<>> /\ pass \in Pass /\ pass.seen \in Row
      /\ ~pass.purged /\ CandidateInv /\ row' = row /\ objects' = objects
  BY PassFacts DEF ConfirmMissing, Inspecting, Known, Rows, PassInv, ReasonInv
<1>2. CASE ~IsThere /\ Missing
  BY <1>1, <1>2, MissingStep DEF IsThere
<1>3. CASE Return("error")
  BY <1>1, <1>3, Returned
<1>4. CASE /\ pass.listings + 1 # MaxLocationRechecks
           /\ pass' = [pass EXCEPT !.at = "list", !.listings = @ + 1]
  <2>1. pass.listings + 1 \in 0 .. MaxLocationRechecks - 1
    BY <1>1, <1>4, Bounds, SMTT(30) DEF Pass
  <2>2. pass' \in Pass
    BY <1>1, <1>4, <2>1 DEF Pass, Stage
  <2>3. /\ pass'.at = "list" /\ pass'.page = pass.page
        /\ pass'.seen = pass.seen /\ pass'.purged = pass.purged
        /\ Candidate' = Candidate
    BY <1>1, <1>4 DEF Pass, Candidate
  <2>4. CandidateInv'
    BY <1>1, <2>3 DEF CandidateInv, Inspecting, Seen
  <2>5. SizeInv' /\ PurgedInv' /\ ReasonInv'
    BY <1>1, <2>3 DEF SizeInv, PurgedInv, ReasonInv, Seen
  <2> QED
    BY <1>1, <2>2, <2>3, <2>4, <2>5 DEF PassInv, PassOK, TypeOK
<1> QED
  BY <1>2, <1>3, <1>4 DEF ConfirmMissing

LEMMA InspectionFailsStep ==
  ASSUME Known, InspectionFails
  PROVE  PassOK' /\ PassInv'
<1>1. TypeOK /\ pass.page # <<>>
  BY PassFacts DEF InspectionFails, Inspecting, Known, Rows
<1> QED
  BY <1>1, Returned DEF InspectionFails

(* To read the candidate anew. *)
LEMMA RefreshAgain ==
  ASSUME Known, Inspecting, Go("refresh")
  PROVE  PassOK' /\ PassInv'
<1>1. TypeOK /\ pass.page # <<>> /\ ~pass.purged
  BY PassFacts DEF Inspecting, Known, Rows
<1>2. "refresh" \in Stage
  BY DEF Stage
<1>3. /\ PassOK' /\ pass'.at = "refresh" /\ pass'.page = pass.page
      /\ pass'.purged = pass.purged
  BY <1>1, <1>2, Went
<1> QED
  BY <1>1, <1>3, AtRefresh

(* The candidate's row is fenced, or was before: it is not active now.     *)
LEMMA PurgeDone ==
  ASSUME Known, Inspecting, row'[Candidate].at # "active",
         pass' = [pass EXCEPT !.at = "refresh", !.purged = TRUE]
  PROVE  PassOK' /\ PassInv'
<1>1. TypeOK /\ pass.page # <<>> /\ pass \in Pass
  BY PassFacts DEF Inspecting, Known, Rows
<1>2. pass' \in Pass
  BY <1>1 DEF Pass, Stage
<1>3. pass'.at = "refresh" /\ pass'.page = pass.page
  BY <1>1 DEF Pass
<1>4. PassInv'
  BY <1>1, <1>3, AtRefresh DEF Candidate
<1> QED
  BY <1>1, <1>2, <1>3, <1>4 DEF PassOK, TypeOK

LEMMA FenceMoves ==
  ASSUME Known, NEW l \in Location, row[l].at = "active", Fence(l),
         UNCHANGED objects
  PROVE  RowsMoved /\ row'[l].at # "active"
<1>1. /\ row[l] \in Row /\ RowOK(row[l]) /\ Rows /\ MaxVersion \in Nat
      /\ row \in [Location -> Row]
  BY Bounds DEF Known, Rows, TypeOK, RowInv
<1> DEFINE s == [row[l] EXCEPT !.at = "fenced", !.entry = FALSE,
                               !.leaseVersion = @ + 1]
<1>2. row' = [row EXCEPT ![l] = s]
  BY DEF Fence
<1>3. row[l].leaseVersion + 1 \in 0 .. MaxVersion + 2
  BY <1>1 DEF Row, RowOK
<1>4. s \in Row
  BY <1>1, <1>3 DEF Row
<1>5. RowOK(s)
  BY <1>1 DEF RowOK, Row
<1>6. Later(row[l], s)
  BY <1>1, <1>4, <1>5 DEF Later, Row
<1>7. row'[l] = s /\ s.at = "fenced"
  BY <1>1, <1>2 DEF Row
<1> QED
  BY <1>1, <1>2, <1>6, <1>7, OneRow

LEMMA RecordSizeStep ==
  ASSUME Known, RecordSize
  PROVE  RowsMoved /\ PassOK' /\ PassInv'
<1>1. /\ pass.at = "record" /\ Inspecting /\ Rows
      /\ TypeOK /\ pass.page # <<>> /\ pass \in Pass
      /\ Candidate \in Location /\ row[Candidate] \in Row
      /\ RowOK(row[Candidate])
      /\ pass.size = row[Candidate].partCount
  BY PassFacts DEF RecordSize, Inspecting, Known, Rows, PassInv, CandidateInv,
                   SizeInv, RowInv
<1>2. CASE /\ row' = [row EXCEPT ![Candidate].size = pass.size]
           /\ Return("updated")
  <2> DEFINE s == [row[Candidate] EXCEPT !.size = pass.size]
  <2>1. row' = [row EXCEPT ![Candidate] = s]
    BY <1>2
  <2>2. pass.size \in Nat /\ pass.size # Unknown
    BY <1>1 DEF Pass, Unknown
  <2>3. s \in Row
    BY <1>1, <2>2 DEF Row
  <2>4. RowOK(s)
    BY <1>1, <2>2 DEF RowOK, Row
  <2>5. Later(row[Candidate], s)
    BY <1>1, <2>2, <2>3, <2>4 DEF Later, Row
  <2>6. RowsMoved
    BY <1>1, <2>1, <2>5, OneRow DEF RecordSize
  <2> QED
    BY <1>1, <1>2, <2>6, Returned
<1>3. CASE Go("refresh") /\ UNCHANGED row
  BY <1>1, <1>3, RefreshAgain, NoneMoved DEF RecordSize
<1> QED
  BY <1>2, <1>3 DEF RecordSize

LEMMA QueryEntryStep ==
  ASSUME Known, QueryEntry
  PROVE  PassOK' /\ PassInv'
<1>1. /\ pass.at = "purge" /\ TypeOK /\ pass.page # <<>>
      /\ ~pass.purged /\ CandidateInv /\ ReasonInv
      /\ row' = row /\ objects' = objects
  BY PassFacts DEF QueryEntry, Inspecting, Known, Rows, PassInv
<1>2. PICK stage \in {"purgeEntry", "purgeOrphan"} : Go(stage)
  BY DEF QueryEntry
<1>3. stage \in Stage
  BY <1>2 DEF Stage
<1>4. /\ PassOK' /\ pass'.at = stage /\ pass'.page = pass.page
      /\ pass'.seen = pass.seen /\ pass'.part = pass.part
      /\ pass'.purged = pass.purged /\ Candidate' = Candidate
  BY <1>1, <1>2, <1>3, Went
<1>5. CandidateInv'
  BY <1>1, <1>2, <1>4 DEF CandidateInv, Inspecting, Seen
<1>6. SizeInv' /\ PurgedInv'
  BY <1>1, <1>2, <1>4 DEF SizeInv, PurgedInv
<1>7. ReasonInv'
  BY <1>1, <1>2, <1>4 DEF ReasonInv, Seen
<1> QED
  BY <1>4, <1>5, <1>6, <1>7 DEF PassInv

LEMMA PurgeStep ==
  ASSUME Known, PurgeDanglingCacheEntryIfUnchanged \/ PurgeOrphan
  PROVE  RowsMoved /\ PassOK' /\ PassInv'
<1>1. /\ Inspecting /\ Rows /\ TypeOK /\ Candidate \in Location
      /\ row[Candidate] \in Row /\ objects' = objects
  BY PassFacts DEF PurgeDanglingCacheEntryIfUnchanged, PurgeOrphan, Inspecting,
                   Known, Rows
<1>2. CASE Go("refresh") /\ UNCHANGED row
  BY <1>1, <1>2, RefreshAgain, NoneMoved
<1>3. CASE /\ row[Candidate].at = "active" /\ Fence(Candidate)
           /\ pass' = [pass EXCEPT !.at = "refresh", !.purged = TRUE]
  BY <1>1, <1>3, FenceMoves, PurgeDone
<1>4. CASE /\ row[Candidate].at # "active" /\ UNCHANGED row
           /\ pass' = [pass EXCEPT !.at = "refresh", !.purged = TRUE]
  BY <1>1, <1>4, NoneMoved, PurgeDone
<1> QED
  BY <1>2, <1>3, <1>4
     DEF PurgeDanglingCacheEntryIfUnchanged, PurgeOrphan, Unchanged

LEMMA AroundStep ==
  ASSUME Known, CountRemaining \/ QueryFails \/ NextAttempt
  PROVE  PassOK' /\ PassInv'
<1>1. TypeOK /\ pass \in Pass /\ (pass.at # "refresh" => ~pass.purged)
  BY PassFacts DEF Known, Rows
<1>2. CASE \E stage \in {"waiting", "done"} : Go(stage) /\ pass.at # "refresh"
  <2>1. PICK stage \in {"waiting", "done"} : Go(stage)
    BY <1>2
  <2>2. stage \in Stage
    BY <2>1 DEF Stage
  <2>3. PassOK' /\ pass'.at = stage /\ pass'.purged = pass.purged
    BY <1>1, <2>1, <2>2, Went
  <2> QED
    BY <1>1, <1>2, <2>1, <2>3, Outside
<1>3. CASE pass' = NewPass
  <2>1. pass' \in Pass /\ pass'.page = <<>> /\ pass'.at = "pages"
        /\ ~pass'.purged
    BY <1>3, NewPassType DEF NewPass
  <2>2. Len(pass'.page) <= PageSize
    BY <2>1, Bounds
  <2> QED
    BY <2>1, <2>2, Outside DEF PassOK
<1> QED
  BY <1>2, <1>3 DEF CountRemaining, QueryFails, NextAttempt

-----------------------------------------------------------------------------
(* Every step. *)

LEMMA PassMoves ==
  ASSUME Known, PassStep
  PROVE  /\ RowsMoved /\ PassOK' /\ PassInv' /\ expired' = expired
         /\ faults' \in 0 .. MaxFaults
<1>1. expired' = expired
  BY DEF PassStep, QueryPage, Refresh, InspectMerged, ListParts,
         ConfirmMissing, InspectionFails, RecordSize, QueryEntry,
         PurgeDanglingCacheEntryIfUnchanged, PurgeOrphan, CountRemaining,
         QueryFails, NextAttempt
<1>2. faults' = faults \/ Fault
  BY DEF PassStep, QueryPage, Refresh, InspectMerged, ListParts,
         ConfirmMissing, InspectionFails, RecordSize, QueryEntry,
         PurgeDanglingCacheEntryIfUnchanged, PurgeOrphan, CountRemaining,
         QueryFails, NextAttempt, NoFault
<1>3. faults' \in 0 .. MaxFaults
  BY <1>2, Bounds DEF Known, Rows, TypeOK, Fault
<1>4. UNCHANGED <<row, objects>> => RowsMoved
  BY NoneMoved DEF Known
<1>5. CASE QueryPage
  BY <1>1, <1>3, <1>4, <1>5, QueryPageStep DEF QueryPage
<1>6. CASE Refresh
  BY <1>1, <1>3, <1>4, <1>6, RefreshStep DEF Refresh
<1>7. CASE InspectMerged
  BY <1>1, <1>3, <1>4, <1>7, InspectMergedStep DEF InspectMerged
<1>8. CASE ListParts
  BY <1>1, <1>3, <1>4, <1>8, ListPartsStep DEF ListParts
<1>9. CASE ConfirmMissing
  BY <1>1, <1>3, <1>4, <1>9, ConfirmMissingStep DEF ConfirmMissing
<1>10. CASE InspectionFails
  BY <1>1, <1>3, <1>4, <1>10, InspectionFailsStep DEF InspectionFails
<1>11. CASE RecordSize
  BY <1>1, <1>3, <1>11, RecordSizeStep
<1>12. CASE QueryEntry
  BY <1>1, <1>3, <1>4, <1>12, QueryEntryStep DEF QueryEntry
<1>13. CASE PurgeDanglingCacheEntryIfUnchanged \/ PurgeOrphan
  BY <1>1, <1>3, <1>13, PurgeStep
<1>14. CASE CountRemaining \/ QueryFails \/ NextAttempt
  <2>1. UNCHANGED <<row, objects>>
    BY <1>14 DEF CountRemaining, QueryFails, NextAttempt
  <2> QED
    BY <1>1, <1>3, <1>4, <1>14, <2>1, AroundStep
<1> QED
  BY <1>5, <1>6, <1>7, <1>8, <1>9, <1>10, <1>11, <1>12, <1>13, <1>14
     DEF PassStep

(* Whoever becomes ready has found every size known. *)
LEMMA ReadyMoves ==
  ASSUME Next
  PROVE  \/ UNCHANGED ready
         \/ ready' = TRUE /\ UNCHANGED row /\ \A l \in Location : ~Unsized(l)
<1>1. CASE PassStep
  BY <1>1
     DEF PassStep, QueryPage, Refresh, InspectMerged, ListParts,
         ConfirmMissing, InspectionFails, RecordSize, QueryEntry,
         PurgeDanglingCacheEntryIfUnchanged, PurgeOrphan, CountRemaining,
         QueryFails, NextAttempt
<1>2. ASSUME NEW l \in Location, LifecycleStep(l)
      PROVE  UNCHANGED ready
  BY <1>2 DEF LifecycleStep, AcquireMaterialization, ComposeMergedObject,
              FinishMaterialization, ReleaseMaterialization, LeaseExpires,
              ClaimPartsDeletion, DeletePart, RequestDeletion, DeleteLocation
<1> QED
  BY <1>1, <1>2 DEF Next

LEMMA ReconcileInit == Init => ReconcileInv
<1> SUFFICES ASSUME Init PROVE ReconcileInv
  OBVIOUS
<1>1. PICK layout \in [Location -> UNION {Layout[l] : l \in Location}] :
        /\ \A l \in Location : layout[l] \in Layout[l]
        /\ row = [l \in Location |-> layout[l].row]
        /\ objects = [l \in Location |-> layout[l].objects]
  BY DEF Init
<1>2. \A l \in Location : /\ layout[l].row \in Row /\ RowOK(layout[l].row)
                          /\ layout[l].objects \in Objects
  BY <1>1, LayoutAssumption DEF LayoutAssumption
<1>3. /\ row \in [Location -> Row] /\ objects \in [Location -> Objects]
      /\ RowInv
  BY <1>1, <1>2 DEF RowInv
<1>4. /\ pass = NewPass /\ pass \in Pass /\ Len(pass.page) <= PageSize
      /\ pass.at = "pages" /\ ~pass.purged
  BY NewPassType, Bounds DEF Init, NewPass
<1>5. TypeOK
  <2>1. expired \subseteq Location \X (1 .. MaxVersion) /\ ready \in BOOLEAN
    BY DEF Init
  <2>2. faults \in 0 .. MaxFaults
    BY Bounds DEF Init
  <2> QED
    BY <1>3, <1>4, <2>1, <2>2 DEF TypeOK
<1>6. CandidateInv /\ SizeInv /\ ReasonInv /\ PurgedInv
  BY <1>4 DEF CandidateInv, Inspecting, SizeInv, ReasonInv, PurgedInv
<1>7. SizesTrue /\ ReadyMeansSized
  BY <1>3 DEF SizesTrue, RowInv, RowOK, ReadyMeansSized, Init
<1> QED
  BY <1>3, <1>5, <1>6, <1>7 DEF ReconcileInv

LEMMA ReconcileStep == ReconcileInv /\ [Next]_vars => ReconcileInv'
<1> SUFFICES ASSUME ReconcileInv, [Next]_vars PROVE ReconcileInv'
  OBVIOUS
<1>1. Known
  BY DEF ReconcileInv, Known, Rows, PassInv
<1>2. CASE Next
  <2>1. /\ RowsMoved /\ PassOK' /\ PassInv'
        /\ expired' \subseteq Location \X (1 .. MaxVersion)
        /\ faults' \in 0 .. MaxFaults
    <3>1. CASE PassStep
      BY <1>1, <3>1, PassMoves DEF ReconcileInv, TypeOK
    <3>2. ASSUME NEW l \in Location, LifecycleStep(l)
          PROVE  /\ RowsMoved /\ PassOK' /\ PassInv'
                 /\ expired' \subseteq Location \X (1 .. MaxVersion)
                 /\ faults' \in 0 .. MaxFaults
      BY <1>1, <3>2, LifecycleMoves, Meanwhile
         DEF Known, ReconcileInv, TypeOK
    <3> QED
      BY <1>2, <3>1, <3>2 DEF Next
  <2>2. /\ RowInv' /\ SizesTrue'
        /\ \A l \in Location : Unsized(l)' => Unsized(l)
    BY <1>1, <2>1, RowsStay DEF Known
  <2>3. ready' \in BOOLEAN /\ ReadyMeansSized'
    <3>1. CASE UNCHANGED ready
      BY <2>2, <3>1 DEF ReconcileInv, TypeOK, ReadyMeansSized
    <3>2. CASE /\ ready' = TRUE /\ UNCHANGED row
               /\ \A l \in Location : ~Unsized(l)
      BY <3>2 DEF ReadyMeansSized, Unsized
    <3> QED
      BY <1>2, <3>1, <3>2, ReadyMoves
  <2>4. TypeOK'
    BY <2>1, <2>3 DEF TypeOK, RowsMoved, PassOK
  <2> QED
    BY <2>1, <2>2, <2>3, <2>4 DEF ReconcileInv, PassInv
<1>3. CASE UNCHANGED vars
  BY <1>3 DEF vars, ReconcileInv, TypeOK, RowInv, CandidateInv, Inspecting,
              Candidate, Seen, SizeInv, ReasonInv, PurgedInv, SizesTrue,
              ReadyMeansSized, Unsized
<1> QED
  BY <1>2, <1>3

(* Recorded sizes are those of all parts and of nothing else, and once     *)
(* evictions may begin every location they could count has one.            *)
THEOREM SizesAreTrue == Spec => []ReconcileInv
<1>1. ReconcileInv /\ [Next]_vars => ReconcileInv'
  BY ReconcileStep
<1> QED
  BY <1>1, ReconcileInit, PTL DEF Spec

-----------------------------------------------------------------------------
(* Only what cannot be served is purged. *)

(* A purge is of the candidate, and by one of the two purging steps.       *)
LEMMA PurgeSteps ==
  ASSUME Known, Next, NEW l \in Location, Purges(l)
  PROVE  /\ l = Candidate /\ Inspecting
         /\ \/ ~row[l].entry
            \/ pass.at = "purgeEntry" /\ Unchanged(row[l])
<1>1. /\ pass.at \in {"purgeEntry", "purgeOrphan"} /\ pass'.purged
      /\ row[l].at = "active" /\ row'[l].at = "fenced"
      /\ row \in [Location -> Row]
  BY DEF Purges, Known, Rows, TypeOK
<1>2. Inspecting /\ Candidate \in Location /\ ~pass.purged
  BY <1>1, PassFacts DEF Inspecting
<1>3. ASSUME NEW k \in Location, LifecycleStep(k) PROVE FALSE
  <2>1. UNCHANGED pass
    BY <1>3, LifecycleMoves DEF Known
  <2> QED
    BY <1>1, <1>2, <2>1
<1>4. PurgeDanglingCacheEntryIfUnchanged \/ PurgeOrphan
  BY <1>1, <1>3
     DEF Next, PassStep, QueryPage, Refresh, InspectMerged, ListParts,
         ConfirmMissing, InspectionFails, RecordSize, QueryEntry,
         CountRemaining, QueryFails, NextAttempt
<1>5. row' # row
  BY <1>1
<1>6. CASE PurgeDanglingCacheEntryIfUnchanged
  <2>1. Fence(Candidate) /\ Unchanged(row[Candidate])
    BY <1>5, <1>6 DEF PurgeDanglingCacheEntryIfUnchanged
  <2>2. l = Candidate
    BY <1>1, <1>2, <2>1 DEF Fence
  <2> QED
    BY <1>2, <1>6, <2>1, <2>2 DEF PurgeDanglingCacheEntryIfUnchanged
<1>7. CASE PurgeOrphan
  <2>1. Fence(Candidate) /\ ~row[Candidate].entry
    BY <1>5, <1>7 DEF PurgeOrphan
  <2>2. l = Candidate
    BY <1>1, <1>2, <2>1 DEF Fence
  <2> QED
    BY <1>2, <2>1, <2>2
<1> QED
  BY <1>4, <1>6, <1>7

(* Only what cannot be served is purged: an entry that leads to a complete *)
(* location is not, whatever the inspection saw before a merge ended, the  *)
(* parts were deleted or a listing was found incomplete.                   *)
THEOREM PurgesAreJust == Spec => PurgesOnlyUnservable
<1> DEFINE A == \A l \in Location : Purges(l) => ~Servable(l)
<1>1. ReconcileInv /\ Next => A
  <2> SUFFICES ASSUME ReconcileInv, Next, NEW l \in Location, Purges(l),
                      Servable(l)
               PROVE  FALSE
    OBVIOUS
  <2>1. Known
    BY DEF ReconcileInv, Known, Rows, PassInv
  <2>2. /\ l = Candidate /\ Inspecting
        /\ pass.at = "purgeEntry" /\ Unchanged(row[l])
    BY <2>1, PurgeSteps DEF Servable
  <2>3. /\ Seen.partCount = row[l].partCount
        /\ Seen.merged = row[l].merged /\ Seen.partsDeleted = row[l].partsDeleted
    BY <2>1, <2>2 DEF Known, PassInv, CandidateInv, Unchanged
  <2>4. PartsOf(Seen) = PartsOf(row[l])
    BY <2>3 DEF PartsOf
  <2> QED
    BY <2>1, <2>2, <2>3, <2>4 DEF Known, PassInv, ReasonInv, Servable
<1>2. ReconcileInv /\ [Next]_vars => [A]_vars
  BY <1>1
<1> QED
  BY <1>2, SizesAreTrue, PTL DEF Spec, PurgesOnlyUnservable
=============================================================================
