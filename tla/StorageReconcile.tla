--------------------------- MODULE StorageReconcile ---------------------------
(***************************************************************************)
(* The reconciliation of sizes after a start (storagereconcile): every     *)
(* location of unknown size is inspected and gets its size, or is purged   *)
(* if what it should serve is not there.  Passes are repeated until none   *)
(* is left; then capacity eviction may begin.                              *)
(*                                                                         *)
(* Each query, listing and transaction is a step.  Between them merges     *)
(* begin, end and expire, parts of merged locations are deleted, and       *)
(* locations are deleted for other reasons.  An object of a part is one    *)
(* byte, so the logical size of a location is its number of parts.         *)
(***************************************************************************)
EXTENDS Integers, Sequences, SequencesExt, FiniteSetsExt

CONSTANTS
  Location,             \* ids, in the order of the pages
  Layout,               \* what each of them may look like at the start, a set
  Unreadable,           \* those whose objects storage cannot inspect
  MaxIndexedObjects,
  MaxLocationRechecks,
  PageSize,             \* reconciliationPageSize
  MaxVersion,           \* bounds leaseVersion, and with it merges
  MaxFaults             \* bounds failed queries and incomplete listings

Unknown == -1

ASSUME ReconcileAssumption ==
  /\ Location \subseteq Nat \ {0} /\ Unreadable \subseteq Location
  /\ {MaxIndexedObjects, MaxLocationRechecks, PageSize} \subseteq Nat \ {0}
  /\ MaxVersion \in Nat /\ MaxFaults \in Nat

VARIABLES
  row,       \* the row of each location
  objects,   \* its objects in storage
  expired,   \* materialization leases that have expired
  pass,      \* where the pass is
  ready,
  faults

vars == <<row, objects, expired, pass, ready, faults>>

(* The parts and their number, and what became of them. *)
Row == [at : {"active", "fenced", "none"}, entry : BOOLEAN, partCount : Nat,
        merged : BOOLEAN, partsDeleted : BOOLEAN, lease : 0 .. MaxVersion,
        leaseVersion : 0 .. MaxVersion + 2, size : Nat \cup {Unknown}]
Objects == [parts : SUBSET Nat, merged : BOOLEAN]

(* The steps of reconcileLocation and those around it. *)
Stage == {"pages", "refresh", "merged", "list", "confirm", "record", "purge",
          "purgeEntry", "purgeOrphan", "count", "waiting", "done"}

Pass == [at : Stage, page : Seq(Location), cursor : Location \cup {0},
         seen : Row, round : 0 .. MaxLocationRechecks,
         listings : 0 .. MaxLocationRechecks - 1, part : Nat, size : Nat,
         purged : BOOLEAN, incomplete : BOOLEAN]

TypeOK ==
  /\ row \in [Location -> Row]
  /\ objects \in [Location -> Objects]
  /\ expired \subseteq Location \X (1 .. MaxVersion)
  /\ pass \in Pass /\ Len(pass.page) <= PageSize
  /\ ready \in BOOLEAN
  /\ faults \in 0 .. MaxFaults

(* A merge ends its lease; the version counts merges, the deletion of the  *)
(* parts and the purge; and a size is that of all parts.                   *)
RowOK(r) ==
  /\ r.merged => r.lease = 0
  /\ r.leaseVersion <= MaxVersion + (IF r.partsDeleted THEN 1 ELSE 0)
                                  + (IF r.at = "active" THEN 0 ELSE 1)
  /\ r.size # Unknown => r.size = r.partCount

ASSUME LayoutAssumption ==
  \A l \in Location : \A layout \in Layout[l] :
    /\ layout.row \in Row /\ RowOK(layout.row)
    /\ layout.objects \in Objects

NoRow == [at |-> "none", entry |-> FALSE, partCount |-> 0, merged |-> FALSE,
          partsDeleted |-> FALSE, lease |-> 0, leaseVersion |-> 0,
          size |-> Unknown]

NewPass == [at |-> "pages", page |-> <<>>, cursor |-> 0, seen |-> NoRow,
            round |-> 0, listings |-> 0, part |-> 0, size |-> 0,
            purged |-> FALSE, incomplete |-> FALSE]

Init ==
  /\ \E layout \in [Location -> UNION {Layout[l] : l \in Location}] :
       /\ \A l \in Location : layout[l] \in Layout[l]
       /\ row = [l \in Location |-> layout[l].row]
       /\ objects = [l \in Location |-> layout[l].objects]
  /\ expired = {}
  /\ pass = NewPass /\ ready = FALSE
  /\ faults = 0

PartsOf(r) == 0 .. r.partCount - 1

-----------------------------------------------------------------------------
(* What happens meanwhile (StorageLifecycle has these transactions).       *)

Merging(l) == row[l].lease # 0 /\ <<l, row[l].lease>> \notin expired

AcquireMaterialization(l) ==
  LET r == row[l] IN
  /\ r.at = "active"
  /\ r.partCount >= 2 /\ ~r.merged /\ ~r.partsDeleted /\ ~Merging(l)
  /\ r.leaseVersion < MaxVersion
  /\ row' = [row EXCEPT ![l].leaseVersion = @ + 1,
                        ![l].lease = r.leaseVersion + 1]
  /\ UNCHANGED <<objects, expired, pass, ready, faults>>

(* Composing, whose lease may have expired meanwhile. *)
ComposeMergedObject(l) ==
  /\ row[l].at = "active"
  /\ row[l].lease # 0
  /\ PartsOf(row[l]) \subseteq objects[l].parts
  /\ objects' = [objects EXCEPT ![l].merged = TRUE]
  /\ UNCHANGED <<row, expired, pass, ready, faults>>

FinishMaterialization(l) ==
  /\ row[l].at # "none"
  /\ Merging(l)
  /\ objects[l].merged
  /\ row' = [row EXCEPT ![l].merged = TRUE, ![l].lease = 0]
  /\ UNCHANGED <<objects, expired, pass, ready, faults>>

ReleaseMaterialization(l) ==
  /\ row[l].at # "none"
  /\ row[l].lease # 0
  /\ row' = [row EXCEPT ![l].lease = 0]
  /\ UNCHANGED <<objects, expired, pass, ready, faults>>

(* Also of a lease that was released, for who still sees it. *)
LeaseExpires(l) ==
  /\ \E lease \in {row[l].lease} \cup
         (IF pass.page # <<>> /\ Head(pass.page) = l THEN {pass.seen.lease}
                                                     ELSE {}) :
       /\ lease # 0 /\ <<l, lease>> \notin expired
       /\ expired' = expired \cup {<<l, lease>>}
  /\ UNCHANGED <<row, objects, pass, ready, faults>>

ClaimPartsDeletion(l) ==
  /\ row[l].at = "active"
  /\ row[l].merged /\ ~row[l].partsDeleted
  /\ row' = [row EXCEPT ![l].partsDeleted = TRUE, ![l].leaseVersion = @ + 1]
  /\ UNCHANGED <<objects, expired, pass, ready, faults>>

DeletePart(l) ==
  /\ row[l].partsDeleted
  /\ \E part \in objects[l].parts :
       objects' = [objects EXCEPT ![l].parts = @ \ {part}]
  /\ UNCHANGED <<row, expired, pass, ready, faults>>

(* Replaced, expired, or deleted by hand. *)
RequestDeletion(l) ==
  /\ row[l].at = "active"
  /\ row' = [row EXCEPT ![l].at = "fenced", ![l].entry = FALSE]
  /\ UNCHANGED <<objects, expired, pass, ready, faults>>

DeleteLocation(l) ==
  /\ row[l].at = "fenced" /\ ~Merging(l)
  /\ row' = [row EXCEPT ![l].at = "none"]
  /\ objects' = [objects EXCEPT ![l] = [parts |-> {}, merged |-> FALSE]]
  /\ UNCHANGED <<expired, pass, ready, faults>>

-----------------------------------------------------------------------------
(* Reconcile. *)

Unsized(l) == row[l].at = "active" /\ row[l].size = Unknown

(* The candidate that reconcileLocation is called with. *)
Candidate == Head(pass.page)
Seen == pass.seen

Go(stage) == pass' = [pass EXCEPT !.at = stage]

(* An error or a deferral makes the pass incomplete.                       *)
NextCandidate(outcome) ==
  pass' = [NewPass EXCEPT
             !.at = IF Tail(pass.page) = <<>> THEN "pages" ELSE "refresh",
             !.page = Tail(pass.page), !.cursor = Candidate,
             !.incomplete = pass.incomplete \/ outcome \in {"error", "deferred"}]

(* Fault: the pass ends with the first error. *)
Abort(outcome) ==
  IF outcome = "error" THEN Go("waiting") ELSE NextCandidate(outcome)

(* reconcileLocation returns. *)
Return(outcome) == NextCandidate(outcome)

Fault == faults < MaxFaults /\ faults' = faults + 1
NoFault == UNCHANGED faults

(* ORDER BY id, LIMIT reconciliationPageSize. *)
IsPage(page, candidates) ==
  /\ IsSorted(page, <)
  /\ Len(page) < PageSize => candidates \subseteq ToSet(page)
  /\ page # <<>> => \A l \in candidates \ ToSet(page) : Last(page) < l

QueryPage ==
  /\ pass.at = "pages"
  /\ LET candidates == {l \in Location : Unsized(l) /\ l > pass.cursor} IN
     \E page \in SeqOf(candidates, PageSize) :
       /\ IsPage(page, candidates)
       /\ pass' = [pass EXCEPT !.page = page,
                     !.at = CASE page # <<>>                    -> "refresh"
                              [] page = <<>> /\ pass.incomplete -> "waiting"
                              [] OTHER                          -> "count"]
  /\ UNCHANGED <<row, objects, expired, ready, faults>>

(* One more recheck reads the row anew; resolveLocationSize decides by it  *)
(* what to inspect.                                                        *)
OverLimit(r) == r.partCount > MaxIndexedObjects

Inspect(r) ==
  CASE r.partCount < 1 \/ (~r.merged /\ r.partsDeleted) -> "purge"
    [] r.partCount >= 1 /\ r.merged                     -> "merged"
    [] OTHER                                            -> "list"

Refresh ==
  LET r == row[Candidate] IN
  /\ pass.at = "refresh"
  /\ CASE pass.round = MaxLocationRechecks ->
            Return(IF pass.purged THEN "purged" ELSE "deferred")
       [] pass.round < MaxLocationRechecks /\ ~Unsized(Candidate) ->
            Return("resolved")
       [] OTHER ->
            pass' = [pass EXCEPT !.at = Inspect(r), !.seen = r,
                                 !.round = @ + 1, !.listings = 0]
  /\ UNCHANGED <<row, objects, expired, ready, faults>>

(* The observed lease is active now: nothing is decided before it ends.    *)
MaterializationActive ==
  Seen.lease # 0 /\ <<Candidate, Seen.lease>> \notin expired

Missing == IF MaterializationActive THEN Return("deferred") ELSE Go("purge")

InspectMerged ==
  /\ pass.at = "merged"
  /\ Candidate \notin Unreadable
  /\ IF objects[Candidate].merged
       THEN pass' = [pass EXCEPT !.at = "record", !.size = Seen.partCount]
       ELSE Missing
  /\ UNCHANGED <<row, objects, expired, ready, faults>>

(* A listing finds every object there is, or for once not all of them.     *)
(* Fault: objects that are no parts of this location count as well.        *)
EveryObject(listed) == listed
Counted(listed) == listed \cap PartsOf(Seen)

ListParts ==
  /\ pass.at = "list"
  /\ Candidate \notin Unreadable \/ OverLimit(Seen)
  /\ IF OverLimit(Seen)
       THEN Go("purge") /\ NoFault
       ELSE \E listed \in SUBSET objects[Candidate].parts :
              /\ IF listed = objects[Candidate].parts THEN NoFault ELSE Fault
              /\ IF PartsOf(Seen) \subseteq listed
                   THEN pass' = [pass EXCEPT !.at = "record",
                                   !.size = Cardinality(Counted(listed))]
                   ELSE pass' = [pass EXCEPT !.at = "confirm",
                                   !.part = Min(PartsOf(Seen) \ listed)]
  /\ UNCHANGED <<row, objects, expired, ready>>

IsThere == pass.part \in objects[Candidate].parts

ConfirmMissing ==
  /\ pass.at = "confirm"
  /\ IF ~IsThere THEN Missing
       ELSE IF pass.listings + 1 = MaxLocationRechecks THEN Return("error")
       ELSE pass' = [pass EXCEPT !.at = "list", !.listings = @ + 1]
  /\ UNCHANGED <<row, objects, expired, ready, faults>>

(* A call to storage or a query fails. *)
InspectionFails ==
  /\ pass.at \in {"merged", "list"}
  /\ IF Candidate \in Unreadable /\ ~(pass.at = "list" /\ OverLimit(Seen))
       THEN NoFault ELSE Fault
  /\ Return("error")
  /\ UNCHANGED <<row, objects, expired, ready>>

RecordSize ==
  /\ pass.at = "record"
  /\ IF Unsized(Candidate)
       THEN /\ row' = [row EXCEPT ![Candidate].size = pass.size]
            /\ Return("updated")
       ELSE Go("refresh") /\ UNCHANGED row
  /\ UNCHANGED <<objects, expired, ready, faults>>

(* purgeDanglingLocation. *)
QueryEntry ==
  /\ pass.at = "purge"
  /\ Go(IF row[Candidate].entry THEN "purgeEntry" ELSE "purgeOrphan")
  /\ UNCHANGED <<row, objects, expired, ready, faults>>

Fence(l) == row' = [row EXCEPT ![l].at = "fenced", ![l].entry = FALSE,
                               ![l].leaseVersion = @ + 1]

(* The predicates of the row, among them its representation.               *)
(* Fault: only those that find a deletion.                                 *)
StillActive(r) == r.at = "active"
Unchanged(r) ==
  /\ r.at = "active"
  /\ r.leaseVersion = Seen.leaseVersion /\ r.lease = Seen.lease
  /\ r.merged = Seen.merged /\ r.partsDeleted = Seen.partsDeleted

PurgeDanglingCacheEntryIfUnchanged ==
  /\ pass.at = "purgeEntry"
  /\ IF ~MaterializationActive /\ Unchanged(row[Candidate])
       THEN /\ Fence(Candidate)
            /\ pass' = [pass EXCEPT !.at = "refresh", !.purged = TRUE]
       ELSE Go("refresh") /\ UNCHANGED row
  /\ UNCHANGED <<objects, expired, ready, faults>>

PurgeOrphan ==
  LET r == row[Candidate] IN
  /\ pass.at = "purgeOrphan"
  /\ IF r.entry \/ r.at = "none"
       THEN Go("refresh") /\ UNCHANGED row
       ELSE /\ IF r.at = "active" THEN Fence(Candidate) ELSE UNCHANGED row
            /\ pass' = [pass EXCEPT !.at = "refresh", !.purged = TRUE]
  /\ UNCHANGED <<objects, expired, ready, faults>>

CountRemaining ==
  /\ pass.at = "count"
  /\ IF \E l \in Location : Unsized(l)
       THEN Go("waiting") /\ UNCHANGED ready
       ELSE Go("done") /\ ready' = TRUE
  /\ UNCHANGED <<row, objects, expired, faults>>

(* A query of the pass itself fails. *)
QueryFails ==
  /\ pass.at \in {"pages", "count"}
  /\ Fault
  /\ Go("waiting")
  /\ UNCHANGED <<row, objects, expired, ready>>

(* Run, after reconciliationRetryDelay. *)
NextAttempt ==
  /\ pass.at = "waiting"
  /\ pass' = NewPass
  /\ UNCHANGED <<row, objects, expired, ready, faults>>

PassStep ==
  \/ QueryPage \/ Refresh \/ InspectMerged \/ ListParts \/ ConfirmMissing
  \/ InspectionFails \/ RecordSize \/ QueryEntry
  \/ PurgeDanglingCacheEntryIfUnchanged \/ PurgeOrphan \/ CountRemaining
  \/ QueryFails \/ NextAttempt

LifecycleStep(l) ==
  \/ AcquireMaterialization(l) \/ ComposeMergedObject(l)
  \/ FinishMaterialization(l) \/ ReleaseMaterialization(l)
  \/ LeaseExpires(l) \/ ClaimPartsDeletion(l) \/ DeletePart(l)
  \/ RequestDeletion(l) \/ DeleteLocation(l)

Next == PassStep \/ \E l \in Location : LifecycleStep(l)

Spec == Init /\ [][Next]_vars

-----------------------------------------------------------------------------
(* Safety. *)

Purges(l) ==
  /\ row[l].at = "active" /\ row[l]'.at = "fenced"
  /\ pass.at \in {"purgeEntry", "purgeOrphan"} /\ pass'.purged

(* An entry leads to l, and it can be downloaded as a whole. *)
Servable(l) ==
  /\ row[l].entry
  /\ row[l].partCount \in 1 .. MaxIndexedObjects
  /\ IF row[l].merged THEN objects[l].merged
       ELSE ~row[l].partsDeleted /\ PartsOf(row[l]) \subseteq objects[l].parts

(* Only what cannot be served is purged, though it was looked at before: a *)
(* merge that ends, or parts that are deleted after it, while they are     *)
(* inspected are no reason for a complete location to go.                  *)
PurgesOnlyUnservable == [][\A l \in Location : Purges(l) => ~Servable(l)]_vars

(* A recorded size is that of all parts and of nothing else, whichever     *)
(* representation it was taken from and whatever changed meanwhile.        *)
SizesTrue ==
  \A l \in Location :
    row[l].size # Unknown => row[l].size = row[l].partCount

(* Once evictions may begin, every location they could count has a size.   *)
ReadyMeansSized == ready => \A l \in Location : ~Unsized(l)

-----------------------------------------------------------------------------
(* Why it holds. *)

RowInv == \A l \in Location : RowOK(row[l])

(* There is a candidate while one is inspected.  Since it was read anew it *)
(* may have been merged, but its parts are as many as they were.           *)
Inspecting ==
  pass.at \in {"merged", "list", "confirm", "record", "purge", "purgeEntry",
               "purgeOrphan"}

CandidateInv ==
  /\ pass.at = "refresh" \/ Inspecting => pass.page # <<>>
  /\ Inspecting => /\ Seen.partCount = row[Candidate].partCount
                   /\ Seen.merged => row[Candidate].merged

(* What is about to be recorded is the size of all parts.                  *)
SizeInv == pass.at = "record" => pass.size = Seen.partCount

(* What is about to be purged could not be downloaded as it was read, and  *)
(* cannot be until it is merged: no part and no merged object comes back.  *)
ReasonInv ==
  /\ pass.at = "merged" => Seen.merged
  /\ pass.at \in {"list", "confirm"} => ~Seen.merged
  /\ pass.at = "confirm" => pass.part \in PartsOf(Seen)
  /\ pass.at \in {"purge", "purgeEntry", "purgeOrphan"} =>
       \/ Seen.partCount \notin 1 .. MaxIndexedObjects
       \/ Seen.merged /\ ~objects[Candidate].merged
       \/ /\ ~Seen.merged
          /\ \/ Seen.partsDeleted
             \/ pass.part \in PartsOf(Seen) \ objects[Candidate].parts

(* What this pass has purged is only looked at once more.                  *)
PurgedInv == pass.purged => /\ pass.at = "refresh"
                            /\ pass.page # <<>>
                            /\ row[Candidate].at # "active"

(* Inductive; RowInv has SizesTrue.                                        *)
ReconcileInv ==
  /\ TypeOK /\ RowInv /\ CandidateInv /\ SizeInv /\ ReasonInv /\ PurgedInv
  /\ SizesTrue /\ ReadyMeansSized

-----------------------------------------------------------------------------
(* Liveness. *)

(* The loop is scheduled, merges end, faults do not.  Neither deletions    *)
(* nor merges have to happen.                                              *)
Fairness ==
  /\ WF_vars(PassStep)
  /\ \A l \in Location : WF_vars(LeaseExpires(l))

FairSpec == Spec /\ Fairness

(* Every location is sized or purged in the end, also if another one can   *)
(* never be inspected.  If there is none such, evictions may begin.        *)
EverySizeKnown ==
  /\ \A l \in Location \ Unreadable : []<>~Unsized(l)
  /\ <>(ready \/ \E l \in Unreadable : Unsized(l))
=============================================================================
