--------------------------- MODULE CapacityEviction ---------------------------
(***************************************************************************)
(* One pass of capacity eviction (Enforce in storagecapacity/service.go):  *)
(* estimate the bytes in use, then evict the least recently used locations *)
(* page by page until the estimate is at the target.  Meanwhile uploads    *)
(* are finalized, downloads touch locations and pin them, other jobs and   *)
(* other servers delete locations and folders go away.                     *)
(*                                                                         *)
(* A location is "uploading" and then "active"; "pending" once its         *)
(* deletion is requested; its row is deleted ("outbox") before its folder  *)
(* is ("gone").  StorageLifecycle has the transactions behind these steps. *)
(* Every query of a pass is a step.  Sizes are known (the pass fails       *)
(* otherwise).  What a pass of another server claims is, to this one, a    *)
(* deletion that somebody requests.                                        *)
(***************************************************************************)
EXTENDS Integers, Sequences, SequencesExt, FiniteSetsExt, Functions

CONSTANTS
  Location,      \* ids, which order locations of one recency
  Initial,       \* those active at the start; the others are being uploaded
  Size,
  Budget,
  OtherBytes,    \* bytes on the volume that are not the cache's
  CandidatePageSize, \* candidatePageSize
  MaxClock       \* bounds the clock

ASSUME CapacityAssumption ==
  /\ Location \subseteq Nat /\ IsFiniteSet(Location)
  /\ Initial \subseteq Location
  /\ \A l \in Location : Size[l] \in Nat
  /\ Budget \in Nat /\ OtherBytes \in Nat
  /\ CandidatePageSize \in Nat \ {0} /\ MaxClock \in Nat

VARIABLES
  clock,
  at,        \* where each location is in its life
  recency,   \* recencyAt
  pinned,    \* locations with an active reader
  explicit,  \* explicitBudget: CACHE_MAX_SIZE_BYTES is set
  pass       \* the running pass

vars == <<clock, at, recency, pinned, explicit, pass>>
storeVars == <<at, recency, pinned, explicit>>

LocationsAt(where) == {l \in Location : at[l] = where}
Total(ls) == MapThenSumSet(LAMBDA l : Size[l], ls)

(* ratioFloor(budget, 9, 10), which cannot overflow. *)
RatioFloor(value, num, den) ==
  (value \div den) * num + ((value % den) * num) \div den
TargetBytes == RatioFloor(Budget, 9, 10)

(* A pass that has not begun, or is over. *)
NoPass == [at |-> "idle"]

Passing == pass # NoPass
InPage == {o.location : o \in ToSet(pass.page)}

Observations == [location : Location, recency : 0 .. MaxClock]

(* seen, moved and others are not in the code: the candidates looked at,   *)
(* the locations whose recency changed and the bytes that others removed   *)
(* since the pass began.                                                   *)
Pass == [at : {"usage", "pages", "page", "constrained"}, usage : Nat,
         cursor : SeqOf(Observations, 1), page : Seq(Observations),
         stale : SUBSET Location, seen : SUBSET Location,
         moved : SUBSET Location, others : Nat]

TypeOK ==
  /\ clock \in 0 .. MaxClock
  /\ at \in [Location -> {"uploading", "active", "pending", "outbox",
                          "gone"}]
  /\ recency \in [Location -> 0 .. MaxClock]
  /\ pinned \subseteq Location
  /\ explicit \in BOOLEAN
  /\ Passing => /\ pass \in Pass
                /\ Len(pass.page) <= CandidatePageSize
                /\ pass.stale \subseteq InPage

Init ==
  /\ clock = 0
  /\ at = [l \in Location |-> IF l \in Initial THEN "active" ELSE "uploading"]
  /\ recency = [l \in Location |-> 0]
  /\ pinned = {}
  /\ explicit \in BOOLEAN
  /\ pass = NoPass

-----------------------------------------------------------------------------
(* What happens to locations.  A pass notes it as follows. *)

Note(moved, stale, bytes) ==
  pass' = IF Passing
            THEN [pass EXCEPT !.moved = @ \cup moved, !.others = @ + bytes,
                              !.stale = @ \cup (stale \cap InPage)]
            ELSE NoPass

Tick ==
  /\ clock < MaxClock
  /\ clock' = clock + 1
  /\ UNCHANGED <<storeVars, pass>>

Finalize(l) ==
  /\ at[l] = "uploading"
  /\ at' = [at EXCEPT ![l] = "active"]
  /\ recency' = [recency EXCEPT ![l] = clock]
  /\ Note({l}, {l}, 0)
  /\ UNCHANGED <<clock, pinned, explicit>>

(* A reader lease of the parts bumps the lease version, one of the merged  *)
(* object does not.                                                        *)
Download(l) ==
  /\ at[l] = "active"
  /\ l \notin pinned
  /\ pinned' = pinned \cup {l}
  /\ \E bumped \in SUBSET {l} : Note({}, bumped, 0)
  /\ UNCHANGED <<clock, at, recency, explicit>>

(* Of a location that is not active nobody asks the recency.               *)
TouchStorageLocationIfStale(l) ==
  /\ at[l] = "active"
  /\ l \in pinned
  /\ recency[l] < clock
  /\ recency' = [recency EXCEPT ![l] = clock]
  /\ Note({l}, {l}, 0)
  /\ UNCHANGED <<clock, at, pinned, explicit>>

ReleaseReader(l) ==
  /\ l \in pinned
  /\ pinned' = pinned \ {l}
  /\ UNCHANGED <<clock, at, recency, explicit, pass>>

(* Replaced, expired or deleted by hand. *)
RequestDeletion(l) ==
  /\ at[l] = "active"
  /\ at' = [at EXCEPT ![l] = "pending"]
  /\ Note({}, {l}, Size[l])
  /\ UNCHANGED <<clock, recency, pinned, explicit>>

(* What becomes of the folder matters only where the volume is measured.   *)
DeleteRow(l) ==
  /\ at[l] = "pending"
  /\ l \notin pinned
  /\ at' = [at EXCEPT ![l] = IF explicit THEN "gone" ELSE "outbox"]
  /\ UNCHANGED <<clock, recency, pinned, explicit, pass>>

DeleteFolder(l) ==
  /\ at[l] = "outbox"
  /\ at' = [at EXCEPT ![l] = "gone"]
  /\ Note({}, {}, Size[l])
  /\ UNCHANGED <<clock, recency, pinned, explicit>>

-----------------------------------------------------------------------------
(* The pass. *)

FilesystemUsage ==
  OtherBytes + Total(Location \ LocationsAt("gone"))

(* Fault: the folders to be deleted anyway count as used. *)
NoCredit(l) == FALSE
PendingCredit(l) == at[l] = "pending"

Over(usage) ==
  pass' = IF usage <= Budget THEN NoPass
            ELSE [at |-> "pages", usage |-> usage, cursor |-> <<>>,
                  page |-> <<>>, seen |-> {}, stale |-> {},
                  moved |-> IF Passing THEN pass.moved ELSE {},
                  others |-> IF Passing THEN pass.others ELSE 0]

(* currentBudgetUsage: the sum of the rows, or the volume first and then   *)
(* the rows whose folders will be deleted.                                 *)
SumActiveSizes ==
  /\ ~Passing
  /\ explicit
  /\ Over(Total(LocationsAt("active")))
  /\ UNCHANGED <<clock, storeVars>>

ReadFilesystemUsage ==
  /\ ~Passing
  /\ ~explicit
  /\ pass' = [at |-> "usage", usage |-> FilesystemUsage, cursor |-> <<>>,
              page |-> <<>>, seen |-> {}, stale |-> {}, moved |-> {},
              others |-> 0]
  /\ UNCHANGED <<clock, storeVars>>

SumPendingCredit ==
  /\ pass.at = "usage"
  /\ LET credit == Total({l \in Location : PendingCredit(l)})
     IN  Over(Max({0, pass.usage - credit}))
  /\ UNCHANGED <<clock, storeVars>>

Observation(l) == [location |-> l, recency |-> recency[l]]

Precedes(a, b) == \/ a.recency < b.recency
                  \/ a.recency = b.recency /\ a.location < b.location

(* Faults: the cursor forgets the id, or keeps the location it is at.      *)
LaterBand(o, cursor) == cursor = <<>> \/ cursor[1].recency < o.recency
SameAgain(o, cursor) == cursor = <<>> \/ ~Precedes(o, cursor[1])
After(o, cursor) == cursor = <<>> \/ Precedes(cursor[1], o)

(* ORDER BY recency and id, LIMIT candidatePageSize. *)
IsPage(page, candidates) ==
  /\ IsSorted(page, Precedes)
  /\ Len(page) < CandidatePageSize => candidates \subseteq ToSet(page)
  /\ page # <<>> =>
       \A o \in candidates \ ToSet(page) : Precedes(Last(page), o)

CapacityCandidates ==
  /\ pass.at = "pages"
  /\ LET candidates == {o \in {Observation(l) : l \in LocationsAt("active")} :
                          After(o, pass.cursor)} IN
     \E page \in SeqOf(candidates, CandidatePageSize) :
       /\ IsPage(page, candidates)
       /\ pass' = [pass EXCEPT !.page = page, !.stale = {},
                     !.at = IF page = <<>> THEN "constrained" ELSE "page"]
  /\ UNCHANGED <<clock, storeVars>>

(* Fault: an observation that is out of date is acted upon. *)
StillActive(o) == at[o.location] = "active"
Current(o) == /\ at[o.location] = "active"
              /\ o.location \notin pass.stale

Claims(o) == Current(o) /\ o.location \notin pinned

Evicted(usage, l) == Max({0, usage - Size[l]})

(* RequestCapacityEviction of the next candidate: claimed, pinned or stale.*)
EvictNext ==
  /\ pass.at = "page"
  /\ pass.page # <<>>
  /\ LET o == Head(pass.page)
         l == o.location
         usage == IF Claims(o) THEN Evicted(pass.usage, l) ELSE pass.usage
         rest == Tail(pass.page)
     IN /\ at' = IF Claims(o) THEN [at EXCEPT ![l] = "pending"] ELSE at
        /\ pass' = IF usage <= TargetBytes THEN NoPass
             ELSE [pass EXCEPT
                     !.at = IF rest = <<>> THEN "pages" ELSE "page",
                     !.usage = usage, !.cursor = <<o>>, !.page = rest,
                     !.stale = @ \ {l}, !.seen = @ \cup {l}]
  /\ UNCHANGED <<clock, recency, pinned, explicit>>

EndPass ==
  /\ pass.at = "constrained"
  /\ pass' = NoPass
  /\ UNCHANGED <<clock, storeVars>>

(* A query fails or the server stops. *)
FailPass ==
  /\ pass.at \in {"usage", "pages", "page"}
  /\ pass' = NoPass
  /\ UNCHANGED <<clock, storeVars>>

Next ==
  \/ Tick
  \/ \E l \in Location :
       \/ Finalize(l) \/ Download(l)
       \/ TouchStorageLocationIfStale(l) \/ ReleaseReader(l)
       \/ RequestDeletion(l) \/ DeleteRow(l) \/ DeleteFolder(l)
  \/ SumActiveSizes \/ ReadFilesystemUsage \/ SumPendingCredit
  \/ CapacityCandidates \/ EvictNext \/ EndPass \/ FailPass

Spec == Init /\ [][Next]_vars

-----------------------------------------------------------------------------
(* Safety. *)

(* What a pass measures. *)
InUse ==
  IF explicit THEN Total(LocationsAt("active"))
    ELSE FilesystemUsage - Total(LocationsAt("pending"))

Claimed(l) ==
  /\ at[l] = "active" /\ at'[l] = "pending"
  /\ Passing /\ ~(Passing' /\ pass'.page = pass.page)

(* No location is evicted that need not be: at the moment it is, the bytes *)
(* in use are above the target, up to what others removed during the pass. *)
(* In particular what an earlier pass evicted is not evicted for again     *)
(* while its folder waits for readers and the grace period.                *)
OverTarget == InUse + pass.others > TargetBytes

(* Least recently used first: whatever is older than an evicted location   *)
(* was looked at in this pass (pinned, or changed under its eyes), or was  *)
(* used since the pass began, whatever pages and ties it is among; and     *)
(* what is used after its page was read is not evicted for its former age. *)
OldestLeft(l) ==
  \A k \in LocationsAt("active") \ {l} :
    Precedes(Observation(k), Observation(l)) => k \in pass.seen \cup pass.moved

(* Enforce claims a location only when both hold at that very moment.      *)
EvictsOnlyWhatItMust ==
  [][\A l \in Location : Claimed(l) => OverTarget /\ OldestLeft(l)]_vars

(* A pass gives up above the target only after it has looked at every      *)
(* location that was not used since it began.                              *)
ConstrainedIsExhaustive ==
  pass.at = "constrained" => LocationsAt("active") \subseteq pass.seen \cup pass.moved

(* A pass looks at a location again only if it was used since the pass     *)
(* began: the cursor moves through bands of one recency, pinned locations  *)
(* and pages without circling, so a pass that nothing disturbs ends.       *)
PassAdvances ==
  [][pass.at = "page" /\ Passing' /\ pass'.page # pass.page
       => Head(pass.page).location \notin pass.seen \ pass.moved]_vars

-----------------------------------------------------------------------------
(* Why it holds. *)

Listing == pass.at \in {"pages", "page", "constrained"}

(* The estimate is above the target, and no more than is in use or was     *)
(* removed by others since.  Until the pending deletions are taken off, it *)
(* is the volume's.                                                        *)
EstimateInv ==
  /\ pass.at = "usage" =>
       ~explicit /\ pass.usage <= FilesystemUsage + pass.others
  /\ Listing => /\ pass.usage > TargetBytes
                /\ pass.usage <= InUse + pass.others

(* A page is in order, beyond the cursor, and says of each location what   *)
(* its row says, or the location is known to have been used since.         *)
PageInv ==
  pass.at = "page" =>
    /\ pass.page # <<>> /\ IsSorted(pass.page, Precedes)
    /\ \A o \in ToSet(pass.page) :
         /\ After(o, pass.cursor)
         /\ \/ o.recency = recency[o.location]
            \/ o.location \in pass.stale \cap pass.moved
         /\ \A q \in ToSet(pass.page) : o.location = q.location => o = q

(* What the pass still has to look at is on the page or comes after it,    *)
(* and what it has looked at is behind the cursor.                         *)
Untouched == LocationsAt("active") \ (pass.seen \cup pass.moved)

CursorInv ==
  /\ pass.at = "pages" =>
       \A l \in Untouched : After(Observation(l), pass.cursor)
  /\ pass.at = "page" =>
       \A l \in Untouched : \/ Observation(l) \in ToSet(pass.page)
                           \/ Precedes(Last(pass.page), Observation(l))
  /\ pass.at \in {"pages", "page"} =>
       \A l \in pass.seen \ pass.moved : ~After(Observation(l), pass.cursor)

(* Inductive. *)
PassInv ==
  /\ TypeOK /\ EstimateInv /\ PageInv /\ CursorInv
  /\ ConstrainedIsExhaustive
=============================================================================
