----------------------- MODULE StorageLifecycleProofs -----------------------
(***************************************************************************)
(* Proofs about StorageLifecycle, for every set of locations, readers,     *)
(* composers, probers and workers and all durations.                       *)
(***************************************************************************)
EXTENDS StorageLifecycle, TLAPS

USE DEF Scope, Task, PartsTask, Claim, HasPartReader, PartsClaimable

-----------------------------------------------------------------------------
(* Types. *)

LEMMA IdleTypes ==
  /\ NoLease \in Lease
  /\ IdleReader \in ReaderState
  /\ [IdleReader EXCEPT !.pc = "dead"] \in ReaderState
  /\ IdleComposer \in ComposerState
  /\ IdleProber \in ProberState
  /\ IdleWorker \in WorkerState
BY DEF NoLease, IdleReader, IdleComposer, IdleProber, IdleWorker, Lease,
       ReaderState, ComposerState, ProberState, WorkerState

(* What the shared pieces of the transactions yield. *)
LEMMA WithoutExpiredType ==
  ASSUME TypeOK, NEW l, NEW scopes
  PROVE  WithoutExpired(l, scopes) \in [Reader -> Lease]
BY IdleTypes DEF TypeOK, WithoutExpired

LEMMA FenceType ==
  ASSUME TypeOK, NEW l \in Location, FenceDetachedLocation(l)
  PROVE  /\ fenced' \subseteq Location
         /\ graceLeft' \in [Location -> Nat]
         /\ lease' \in [Reader -> Lease]
BY DurationAssumption, WithoutExpiredType DEF TypeOK, FenceDetachedLocation

LEMMA BumpType ==
  ASSUME TypeOK, NEW l
  PROVE  Bumped(l) \in [Prober -> ProberState]
<1> SUFFICES ASSUME NEW o \in Prober
             PROVE  [prober[o] EXCEPT !.moved = TRUE] \in ProberState
  BY DEF TypeOK, Bumped
<1>1. prober[o] \in ProberState
  BY DEF TypeOK
<1> QED
  BY ONLY <1>1, ZenonT(60) DEF ProberState

(* Updates of one process or lease keep its type. *)
LEMMA ReaderUpdate ==
  ASSUME NEW s \in ReaderState, NEW n \in Nat,
         NEW pc \in {"idle", "read", "streaming", "direct", "signed", "url",
                     "closing", "dead"}
  PROVE  /\ [s EXCEPT !.pc = pc] \in ReaderState
         /\ [s EXCEPT !.urlLeft = n] \in ReaderState
         /\ [s EXCEPT !.pc = pc, !.urlLeft = n] \in ReaderState
BY DEF ReaderState

LEMMA LeaseUpdate ==
  ASSUME NEW s \in Lease, NEW n \in Nat
  PROVE  [s EXCEPT !.left = n] \in Lease
BY DEF Lease

LEMMA ComposerUpdate ==
  ASSUME NEW s \in ComposerState,
         NEW pc \in {"idle", "composing", "cancelled", "composed", "refused",
                     "failed"}
  PROVE  [s EXCEPT !.pc = pc] \in ComposerState
BY DEF ComposerState

LEMMA ProberUpdate ==
  ASSUME NEW s \in ProberState
  PROVE  [s EXCEPT !.pc = "missing"] \in ProberState
BY DEF ProberState

LEMMA WorkerUpdate ==
  ASSUME NEW s \in WorkerState
  PROVE  [s EXCEPT !.pc = "deleted"] \in WorkerState
BY DEF WorkerState

LEMMA LocationStepType == TypeOK /\ LocationStep => TypeOK'
<1> SUFFICES ASSUME TypeOK, LocationStep PROVE TypeOK'
  OBVIOUS
<1> USE DEF Bump, Detach, objectVars, procVars
<1>1. ASSUME NEW e \in Entry, NEW l \in Location, Publish(e, l)
      PROVE TypeOK'
  BY <1>1, FenceType, BumpType DEF Publish, TypeOK
<1>2. ASSUME NEW e \in Entry, DeleteCacheEntry(e) PROVE TypeOK'
  BY <1>2, FenceType, BumpType DEF DeleteCacheEntry, TypeOK
<1>3. ASSUME NEW l \in Location, NEW d \in BOOLEAN,
             RequestLocationDeletion(l, d)
      PROVE TypeOK'
  BY <1>3, FenceType, BumpType DEF RequestLocationDeletion, TypeOK
<1>4. ASSUME NEW l \in Location, RequestExpiredLocationDeletion(l)
      PROVE TypeOK'
  BY <1>4, FenceType, BumpType DEF RequestExpiredLocationDeletion, TypeOK
<1>5. ASSUME NEW l \in Location, RequestCapacityEviction(l) PROVE TypeOK'
  BY <1>5, FenceType, BumpType DEF RequestCapacityEviction, TypeOK
<1>6. ASSUME NEW l \in Location, BeginFinalize(l) PROVE TypeOK'
  BY <1>6, BumpType, WithoutExpiredType DEF BeginFinalize, TypeOK
<1>7. ASSUME NEW l \in Location, CommitFinalize(l) PROVE TypeOK'
  BY <1>7 DEF CommitFinalize, TypeOK
<1>8. ASSUME NEW l \in Location, AbortFinalize(l) PROVE TypeOK'
  BY <1>8 DEF AbortFinalize, TypeOK
<1>9. ASSUME NEW l \in Location, ClaimPartsDeletion(l) PROVE TypeOK'
  BY <1>9, BumpType, WithoutExpiredType DEF ClaimPartsDeletion, TypeOK
<1>10. ASSUME NEW l \in Location, LoseObjects(l) PROVE TypeOK'
  BY <1>10 DEF LoseObjects, dbVars, TypeOK
<1> QED
  BY <1>1, <1>2, <1>3, <1>4, <1>5, <1>6, <1>7, <1>8, <1>9, <1>10
     DEF LocationStep

LEMMA ReaderStepType == TypeOK /\ ReaderStep => TypeOK'
<1> SUFFICES ASSUME TypeOK, ReaderStep PROVE TypeOK'
  OBVIOUS
<1> USE IdleTypes, DurationAssumption DEF dbVars, objectVars, procVars
<1>1. ASSUME PurgeExpiredReaderLeases PROVE TypeOK'
  BY <1>1 DEF PurgeExpiredReaderLeases, TypeOK
<1>2. ASSUME NEW r \in Reader, NEW e \in Entry, NEW d \in BOOLEAN,
             AcquireRead(r, e, d)
      PROVE TypeOK'
  BY <1>2 DEF AcquireRead, ReaderState, TypeOK
<1>3. ASSUME NEW r \in Reader, InsertLease(r) PROVE TypeOK'
  <2>1. reader[r].loc \in Location \cup {None} /\ reader[r].scope \in Scope
    BY DEF TypeOK, ReaderState
  <2>2. lease' \in [Reader -> Lease]
    BY <1>3, <2>1 DEF InsertLease, Lease, TypeOK
  <2>3. reader' \in [Reader -> ReaderState]
    BY <1>3, ReaderUpdate DEF InsertLease, TypeOK
  <2> QED
    BY <1>3, <2>2, <2>3, BumpType DEF InsertLease, Bump, TypeOK
<1>4. ASSUME NEW r \in Reader, RetryAcquire(r) PROVE TypeOK'
  BY <1>4 DEF RetryAcquire, TypeOK
<1>5. ASSUME NEW r \in Reader, RenewReader(r) PROVE TypeOK'
  <2>1. CASE lease[r].left > 0
    BY <1>5, <2>1, LeaseUpdate DEF RenewReader, TypeOK
  <2>2. CASE ~(lease[r].left > 0)
    <3>1. [reader[r] EXCEPT !.pc = "closing"] \in ReaderState
      BY ReaderUpdate DEF TypeOK
    <3> QED
      BY <1>5, <2>2, <3>1 DEF RenewReader, TypeOK
  <2> QED
    BY <2>1, <2>2
<1>6. ASSUME NEW r \in Reader, CloseReader(r) PROVE TypeOK'
  BY <1>6, ReaderUpdate DEF CloseReader, TypeOK
<1>7. ASSUME NEW r \in Reader, ReleaseReader(r) PROVE TypeOK'
  BY <1>7 DEF ReleaseReader, TypeOK
<1>8. ASSUME NEW r \in Reader, SignURL(r) PROVE TypeOK'
  BY <1>8, ReaderUpdate DEF SignURL, TypeOK
<1>9. ASSUME NEW r \in Reader, ExtendDirectReader(r) PROVE TypeOK'
  <2>1. CASE lease[r].left > 0
    <3>1. [reader[r] EXCEPT !.pc = "url"] \in ReaderState
      BY ReaderUpdate DEF TypeOK
    <3>2. [lease[r] EXCEPT !.left = DirectDownloadLeaseDuration] \in Lease
      BY LeaseUpdate DEF TypeOK
    <3> QED
      BY <1>9, <2>1, <3>1, <3>2 DEF ExtendDirectReader, TypeOK
  <2>2. CASE ~(lease[r].left > 0)
    <3>1. [reader[r] EXCEPT !.pc = "closing", !.urlLeft = 0] \in ReaderState
      BY ReaderUpdate DEF TypeOK
    <3> QED
      BY <1>9, <2>2, <3>1 DEF ExtendDirectReader, TypeOK
  <2> QED
    BY <2>1, <2>2
<1>10. ASSUME NEW r \in Reader, CrashReader(r) PROVE TypeOK'
  BY <1>10 DEF CrashReader, TypeOK
<1>11. ASSUME NEW r \in Reader, RestartReader(r) PROVE TypeOK'
  BY <1>11 DEF RestartReader, TypeOK
<1> QED
  BY <1>1, <1>2, <1>3, <1>4, <1>5, <1>6, <1>7, <1>8, <1>9, <1>10, <1>11
     DEF ReaderStep

LEMMA ComposerStepType == TypeOK /\ ComposerStep => TypeOK'
<1> SUFFICES ASSUME TypeOK, NEW c \in Composer,
                    \/ \E l \in Location : AcquireMaterialization(c, l)
                    \/ RenewMaterialization(c)
                    \/ ComposeObjects(c)
                    \/ ComposeFails(c)
                    \/ FinishMaterialization(c)
                    \/ MarkMaterializationUnsupported(c)
                    \/ ReleaseMaterialization(c)
                    \/ CrashComposer(c)
             PROVE  TypeOK'
  BY DEF ComposerStep
<1> USE DurationAssumption, IdleTypes DEF dbVars, objectVars, TypeOK
<1>0. \A pc \in {"cancelled", "composed", "refused", "failed"} :
        [composer[c] EXCEPT !.pc = pc] \in ComposerState
  BY ComposerUpdate
<1>1. ASSUME NEW l \in Location, AcquireMaterialization(c, l) PROVE TypeOK'
  <2>1. [pc |-> "composing", loc |-> l] \in ComposerState
    BY DEF ComposerState
  <2> QED
    BY <1>1, <2>1, BumpType DEF AcquireMaterialization, Bump
<1>2. CASE RenewMaterialization(c)
  BY <1>0, <1>2, BumpType
     DEF RenewMaterialization, OwnsMaterialization, Lockable, Bump
<1>3. CASE ComposeObjects(c)
  <2>1. composer[c].loc \in Location
    BY <1>3 DEF ComposeObjects
  <2> QED
    BY <1>0, <1>3, <2>1 DEF ComposeObjects
<1>4. CASE ComposeFails(c)
  BY <1>0, <1>4 DEF ComposeFails
<1>5. CASE FinishMaterialization(c)
  BY <1>0, <1>5 DEF FinishMaterialization, OwnsMaterialization, Lockable
<1>6. CASE MarkMaterializationUnsupported(c)
  BY <1>0, <1>6 DEF MarkMaterializationUnsupported, OwnsMaterialization, Lockable
<1>7. CASE ReleaseMaterialization(c)
  BY <1>7 DEF ReleaseMaterialization
<1>8. CASE CrashComposer(c)
  BY <1>8 DEF CrashComposer
<1> QED
  BY <1>1, <1>2, <1>3, <1>4, <1>5, <1>6, <1>7, <1>8

LEMMA ProberStepType == TypeOK /\ ProberStep => TypeOK'
<1> SUFFICES ASSUME TypeOK, NEW o \in Prober,
                    \/ \E e \in Entry : ObserveLocation(o, e)
                    \/ ProbeRepresentation(o)
                    \/ PurgeDanglingCacheEntryIfUnchanged(o)
             PROVE  TypeOK'
  BY DEF ProberStep
<1> USE IdleTypes DEF dbVars, objectVars
<1>1. ASSUME NEW e \in Entry, ObserveLocation(o, e) PROVE TypeOK'
  BY <1>1 DEF ObserveLocation, ProberState, TypeOK
<1>2. CASE ProbeRepresentation(o)
  BY <1>2, ProberUpdate DEF ProbeRepresentation, TypeOK
<1>3. CASE PurgeDanglingCacheEntryIfUnchanged(o)
  <2>1. prober' \in [Prober -> ProberState]
    <3>1. [Bumped(prober[o].loc) EXCEPT ![o] = IdleProber]
            \in [Prober -> ProberState]
      BY BumpType
    <3>2. [prober EXCEPT ![o] = IdleProber] \in [Prober -> ProberState]
      BY DEF TypeOK
    <3> QED
      BY <1>3, <3>1, <3>2 DEF PurgeDanglingCacheEntryIfUnchanged
  <2>2. entry' \in [Entry -> Location \cup {None}]
    BY <1>3 DEF PurgeDanglingCacheEntryIfUnchanged, TypeOK
  <2>3. /\ fenced' \subseteq Location
        /\ graceLeft' \in [Location -> Nat]
        /\ lease' \in [Reader -> Lease]
    <3>1. CASE Unchanged(o) /\ prober[o].loc \in Location
               /\ FenceDetachedLocation(prober[o].loc)
      BY <3>1, FenceType
    <3>2. CASE UNCHANGED <<fenced, graceLeft, lease>>
      BY <3>2 DEF TypeOK
    <3>3. Unchanged(o) => prober[o].loc \in Location
      BY DEF Unchanged, Lockable, TypeOK
    <3> QED
      BY <1>3, <3>1, <3>2, <3>3 DEF PurgeDanglingCacheEntryIfUnchanged
  <2> QED
    BY <1>3, <2>1, <2>2, <2>3 DEF PurgeDanglingCacheEntryIfUnchanged, TypeOK
<1> QED
  BY <1>1, <1>2, <1>3

LEMMA WorkerStepType == TypeOK /\ WorkerStep => TypeOK'
<1> SUFFICES ASSUME TypeOK, NEW w \in Worker,
                    \/ ReadTask(w)
                    \/ DeleteFolder(w)
                    \/ CompleteTask(w)
                    \/ AbandonTask(w)
             PROVE  TypeOK'
  BY DEF WorkerStep
<1> USE IdleTypes DEF dbVars, objectVars, TypeOK
<1>1. CASE ReadTask(w)
  <2>1. \A t \in tasks : [pc |-> "read", loc |-> t[1], part |-> t[2]]
                          \in WorkerState
    BY DEF WorkerState
  <2> QED
    BY <1>1, <2>1 DEF ReadTask
<1>2. CASE DeleteFolder(w)
  BY <1>2, WorkerUpdate DEF DeleteFolder
<1>3. CASE CompleteTask(w)
  BY <1>3 DEF CompleteTask
<1>4. CASE AbandonTask(w)
  BY <1>4 DEF AbandonTask
<1> QED
  BY <1>1, <1>2, <1>3, <1>4

LEMMA TickType == TypeOK /\ Tick => TypeOK'
<1> SUFFICES ASSUME TypeOK, Tick PROVE TypeOK'
  OBVIOUS
<1>1. \A n \in Nat : Less(n) \in Nat
  BY DEF Less
<1>2. lease' \in [Reader -> Lease]
  <2>1. ASSUME NEW r \in Reader
        PROVE  [lease[r] EXCEPT !.left = Less(@)] \in Lease
    <3>1. lease[r] \in Lease /\ lease[r].left \in Nat
      BY DEF TypeOK, Lease
    <3> QED
      BY <1>1, <3>1, LeaseUpdate
  <2> QED
    BY <2>1 DEF Tick
<1>3. reader' \in [Reader -> ReaderState]
  <2>1. ASSUME NEW r \in Reader
        PROVE  [reader[r] EXCEPT !.urlLeft = Less(@)] \in ReaderState
    <3>1. reader[r] \in ReaderState /\ reader[r].urlLeft \in Nat
      BY DEF TypeOK, ReaderState
    <3> QED
      BY <1>1, <3>1, ReaderUpdate
  <2> QED
    BY <2>1 DEF Tick
<1> QED
  BY <1>1, <1>2, <1>3 DEF Tick, TypeOK, objectVars

LEMMA InitType == Init => TypeOK
  BY IdleTypes DEF Init, TypeOK

(* Every variable keeps its type, whatever the durations and processes. *)
THEOREM TypeCorrect == Spec => []TypeOK
<1>1. Init => TypeOK
  BY InitType
<1>2. TypeOK /\ [Next]_vars => TypeOK'
  <2>1. TypeOK /\ UNCHANGED vars => TypeOK'
    BY DEF TypeOK, vars, dbVars, objectVars, procVars
  <2> QED
    BY <2>1, LocationStepType, ReaderStepType, ComposerStepType,
       ProberStepType, WorkerStepType, TickType DEF Next
<1> QED
  BY <1>1, <1>2, PTL DEF Spec

-----------------------------------------------------------------------------
(* What the steps share.                                                   *)

(* Rows never come back, outcomes are never undone, and the objects a row  *)
(* relies on are only removed by something outside the server.             *)
MonotoneStep ==
  /\ used \subseteq used' /\ lost \subseteq lost'
  /\ \A l \in Location : l \in used /\ l \in rows' =>
       /\ l \in rows
       /\ l \in merged => l \in merged'
       /\ l \in unsupported => l \in unsupported'
       /\ l \in partsDeleted => l \in partsDeleted'
       /\ Readable(l, "storage") => Readable(l, "storage")'
       /\ l \notin partsDeleted' /\ Readable(l, "parts")
            => Readable(l, "parts")'

(* Leases disappear only once they have expired. *)
LeasesExpire ==
  \A r \in Reader : \/ lease'[r] = lease[r]
                    \/ lease[r].left = 0 /\ lease'[r] = NoLease

(* Lookups end, or carry on with what they observed. *)
ProbersCarryOn ==
  \A o \in Prober :
    \/ prober'[o].pc = "idle"
    \/ /\ prober'[o].pc = prober[o].pc
       /\ prober'[o].loc = prober[o].loc
       /\ prober'[o].merged = prober[o].merged
       /\ prober'[o].partsDeleted = prober[o].partsDeleted

LEMMA WithoutExpiredLeases ==
  ASSUME TypeOK, NEW l, NEW scopes, lease' = WithoutExpired(l, scopes)
  PROVE  LeasesExpire
BY DEF TypeOK, WithoutExpired, LeasesExpire

LEMMA FenceLeases ==
  ASSUME TypeOK, NEW l \in Location, FenceDetachedLocation(l)
  PROVE  /\ LeasesExpire
         /\ fenced' \subseteq fenced \cup {l}
         /\ l \in fenced' => l \in fenced \/ \A e \in Entry : entry'[e] # l
BY WithoutExpiredLeases DEF FenceDetachedLocation, LeasesExpire

LEMMA SameLeases == lease' = lease => LeasesExpire
BY DEF LeasesExpire

LEMMA SameProbers == prober' = prober => ProbersCarryOn
BY DEF ProbersCarryOn

LEMMA BumpProbers ==
  ASSUME TypeOK, NEW l,
         \A o \in Prober : prober'[o] = Bumped(l)[o] \/ prober'[o] = IdleProber
  PROVE  ProbersCarryOn
<1> SUFFICES ASSUME NEW o \in Prober, prober'[o] = Bumped(l)[o]
             PROVE  /\ prober'[o].pc = prober[o].pc
                    /\ prober'[o].loc = prober[o].loc
                    /\ prober'[o].merged = prober[o].merged
                    /\ prober'[o].partsDeleted = prober[o].partsDeleted
  BY DEF ProbersCarryOn, IdleProber
<1>1. prober[o] \in ProberState
  BY DEF TypeOK
<1> QED
  BY <1>1 DEF Bumped, ProberState

(* Fencing as every caller does it: entries are detached from the one      *)
(* location that is fenced, and nothing else moves.                        *)
Fencing(l) ==
  /\ l \in rows
  /\ \A e \in Entry : entry'[e] \in {entry[e], None}
  /\ fenced' \subseteq fenced \cup {l}
  /\ l \in fenced' => l \in fenced \/ \A e \in Entry : entry'[e] # l
  /\ finalizing' \subseteq finalizing \cup {l}
  /\ l \in finalizing' => l \in finalizing \/ ~ActiveMaterialization(l)
  /\ LeasesExpire
  /\ ProbersCarryOn
  /\ UNCHANGED <<rows, used, holder, mergeLeft, merged, unsupported,
                 partsDeleted, tasks, objectVars, reader, composer, worker>>

FencingStep == \E l \in Location : Fencing(l)

LEMMA DeleteCacheEntryFences ==
  ASSUME TypeOK, NEW e \in Entry, DeleteCacheEntry(e)
  PROVE  FencingStep
<1>1. entry[e] \in Location /\ entry[e] \in rows
  BY DEF DeleteCacheEntry, Lockable, TypeOK
<1>2. ProbersCarryOn
  BY BumpProbers DEF DeleteCacheEntry, Bump
<1>3. Fencing(entry[e])
  BY <1>1, <1>2, FenceLeases DEF DeleteCacheEntry, Fencing, TypeOK
<1> QED
  BY <1>1, <1>3 DEF FencingStep

LEMMA RequestFences ==
  ASSUME TypeOK, NEW l \in Location,
         \/ \E d \in BOOLEAN : RequestLocationDeletion(l, d)
         \/ RequestExpiredLocationDeletion(l)
         \/ RequestCapacityEviction(l)
         \/ BeginFinalize(l)
  PROVE  FencingStep
<1>1. /\ l \in rows
      /\ \/ entry' = Detach(l) /\ FenceDetachedLocation(l)
         \/ UNCHANGED <<entry, fenced, lease>>
         \/ UNCHANGED <<entry, fenced>> /\ lease' = WithoutExpired(l, Scope)
      /\ prober' = Bumped(l)
      /\ finalizing' \subseteq finalizing \cup {l}
      /\ l \in finalizing' => l \in finalizing \/ ~ActiveMaterialization(l)
      /\ UNCHANGED <<rows, used, holder, mergeLeft, merged, unsupported,
                     partsDeleted, tasks, objectVars, reader, composer, worker>>
  BY DEF RequestLocationDeletion, RequestExpiredLocationDeletion,
         RequestCapacityEviction, BeginFinalize, Finalizable, Lockable, Bump
<1>2. ProbersCarryOn
  BY <1>1, BumpProbers
<1>3. /\ LeasesExpire
      /\ fenced' \subseteq fenced \cup {l}
      /\ l \in fenced' => l \in fenced \/ \A e \in Entry : entry'[e] # l
  BY <1>1, FenceLeases, SameLeases, WithoutExpiredLeases
<1>4. \A e \in Entry : entry'[e] \in {entry[e], None}
  BY <1>1 DEF Detach, TypeOK
<1>5. Fencing(l)
  BY <1>1, <1>2, <1>3, <1>4 DEF Fencing
<1> QED
  BY <1>5 DEF FencingStep

LEMMA PurgeFences ==
  ASSUME TypeOK, NEW o \in Prober, PurgeDanglingCacheEntryIfUnchanged(o)
  PROVE  \/ FencingStep
         \/ /\ UNCHANGED <<entry, rows, used, fenced, holder, mergeLeft,
                           merged, unsupported, partsDeleted, lease, tasks,
                           objectVars, reader, composer, worker>>
            /\ finalizing' = finalizing
            /\ ProbersCarryOn
<1> DEFINE l == prober[o].loc
<1>1. CASE Unchanged(o) /\ ~ActiveMaterialization(l)
  <2>1. l \in Location /\ l \in rows
    BY <1>1 DEF Unchanged, Lockable, TypeOK
  <2>2. ProbersCarryOn
    <3>1. prober' = [Bumped(l) EXCEPT ![o] = IdleProber]
      BY <1>1 DEF PurgeDanglingCacheEntryIfUnchanged
    <3>2. \A p \in Prober : prober'[p] = Bumped(l)[p] \/ prober'[p] = IdleProber
      BY <3>1 DEF Bumped
    <3> QED
      BY <3>2, BumpProbers
  <2>3. \/ /\ entry' = [entry EXCEPT ![prober[o].entry] = None]
           /\ FenceDetachedLocation(l)
        \/ UNCHANGED <<entry, fenced, lease>>
    BY <1>1 DEF PurgeDanglingCacheEntryIfUnchanged
  <2>4. /\ LeasesExpire
        /\ fenced' \subseteq fenced \cup {l}
        /\ l \in fenced' => l \in fenced \/ \A e \in Entry : entry'[e] # l
    BY <2>1, <2>3, FenceLeases, SameLeases
  <2>5. \A e \in Entry : entry'[e] \in {entry[e], None}
    BY <2>3 DEF TypeOK
  <2>6. Fencing(l)
    BY <2>1, <2>2, <2>4, <2>5
       DEF Fencing, PurgeDanglingCacheEntryIfUnchanged
  <2> QED
    BY <2>1, <2>6 DEF FencingStep
<1>2. CASE ~(Unchanged(o) /\ ~ActiveMaterialization(l))
  BY <1>2 DEF PurgeDanglingCacheEntryIfUnchanged, ProbersCarryOn, TypeOK,
              IdleProber
<1> QED
  BY <1>1, <1>2

(* Steps that leave everything but lookups alone, or abort a finalization. *)
QuietStep ==
  /\ UNCHANGED <<entry, rows, used, fenced, holder, mergeLeft, merged,
                 unsupported, partsDeleted, lease, tasks, objectVars, reader,
                 composer, worker>>
  /\ finalizing' \subseteq finalizing
  /\ ProbersCarryOn

LookupStep ==
  \E o \in Prober : \/ \E e \in Entry : ObserveLocation(o, e)
                    \/ ProbeRepresentation(o)

(* Every step is of one of these kinds. *)
LEMMA StepKinds ==
  ASSUME TypeOK, [Next]_vars
  PROVE  \/ \E e \in Entry, l \in Location : Publish(e, l)
         \/ \E l \in Location : CommitFinalize(l)
         \/ \E l \in Location : ClaimPartsDeletion(l)
         \/ \E l \in Location : LoseObjects(l)
         \/ FencingStep \/ ReaderStep \/ ComposerStep \/ LookupStep
         \/ WorkerStep \/ Tick \/ QuietStep
<1>1. CASE UNCHANGED vars
  BY <1>1, SameProbers DEF QuietStep, vars, dbVars, objectVars, procVars
<1>2. CASE LocationStep
  <2>1. ASSUME NEW l \in Location, AbortFinalize(l) PROVE QuietStep
    BY <2>1, SameProbers DEF AbortFinalize, QuietStep, procVars
  <2> QED
    BY <1>2, <2>1, DeleteCacheEntryFences, RequestFences DEF LocationStep
<1>3. CASE ProberStep
  BY <1>3, PurgeFences DEF ProberStep, LookupStep, QuietStep
<1> QED
  BY <1>1, <1>2, <1>3 DEF Next

LEMMA ReaderFrame ==
  ASSUME TypeOK, ReaderStep
  PROVE  /\ UNCHANGED <<entry, rows, used, fenced, holder, mergeLeft, merged,
                        unsupported, partsDeleted, tasks, finalizing,
                        objectVars, composer, worker>>
         /\ ProbersCarryOn
<1> USE SameProbers DEF dbVars, procVars
<1>1. ASSUME NEW r \in Reader, InsertLease(r)
      PROVE  /\ UNCHANGED <<entry, rows, used, fenced, holder, mergeLeft,
                            merged, unsupported, partsDeleted, tasks,
                            finalizing, objectVars, composer, worker>>
             /\ ProbersCarryOn
  BY <1>1, BumpProbers DEF InsertLease, Bump
<1> QED
  BY <1>1
     DEF ReaderStep, PurgeExpiredReaderLeases, AcquireRead, RetryAcquire,
         RenewReader, CloseReader, ReleaseReader, SignURL, ExtendDirectReader,
         CrashReader, RestartReader

LEMMA ComposerFrame ==
  ASSUME TypeOK, ComposerStep
  PROVE  /\ UNCHANGED <<entry, rows, used, fenced, partsDeleted, lease, tasks,
                        finalizing, partObjects, lost, reader, worker>>
         /\ ProbersCarryOn
         /\ mergedObjects \subseteq mergedObjects'
         /\ merged \subseteq merged'
         /\ unsupported \subseteq unsupported'
<1> SUFFICES ASSUME NEW c \in Composer,
                    \/ \E l \in Location : AcquireMaterialization(c, l)
                    \/ RenewMaterialization(c)
                    \/ ComposeObjects(c)
                    \/ ComposeFails(c)
                    \/ FinishMaterialization(c)
                    \/ MarkMaterializationUnsupported(c)
                    \/ ReleaseMaterialization(c)
                    \/ CrashComposer(c)
             PROVE  /\ UNCHANGED <<entry, rows, used, fenced, partsDeleted,
                                   lease, tasks, finalizing, partObjects,
                                   lost, reader, worker>>
                    /\ ProbersCarryOn
                    /\ mergedObjects \subseteq mergedObjects'
                    /\ merged \subseteq merged'
                    /\ unsupported \subseteq unsupported'
  BY DEF ComposerStep
<1> USE SameProbers DEF dbVars, objectVars
<1>1. ASSUME NEW l \in Location, AcquireMaterialization(c, l)
      PROVE  ProbersCarryOn
  BY <1>1, BumpProbers DEF AcquireMaterialization, Bump
<1>2. CASE RenewMaterialization(c)
  BY <1>2, BumpProbers DEF RenewMaterialization, Bump
<1> QED
  BY <1>1, <1>2
     DEF AcquireMaterialization, ComposeObjects, ComposeFails,
         FinishMaterialization, MarkMaterializationUnsupported,
         ReleaseMaterialization, CrashComposer

LEMMA WorkerFrame ==
  WorkerStep => UNCHANGED <<entry, rows, used, fenced, holder, mergeLeft,
                            merged, unsupported, partsDeleted, lease,
                            finalizing, lost, reader, composer, prober>>
BY DEF WorkerStep, ReadTask, DeleteFolder, CompleteTask, AbandonTask, dbVars,
       objectVars

LEMMA LookupFrame ==
  LookupStep => UNCHANGED <<dbVars, objectVars, reader, composer, worker>>
BY DEF LookupStep, ObserveLocation, ProbeRepresentation

(* Deletion workers leave the objects of rows alone. *)
LEMMA WorkersKeepObjects ==
  ASSUME TypeOK, TaskInv, WorkerStep, NEW l \in rows
  PROVE  /\ l \in mergedObjects => l \in mergedObjects'
         /\ l \in partObjects /\ l \notin partsDeleted => l \in partObjects'
<1>1. ASSUME NEW w \in Worker, DeleteFolder(w), worker[w].loc = l
      PROVE  worker[w].part = "parts" /\ l \in partsDeleted
  <2>1. l \in Location /\ worker[w].part \in {"folder", "parts"}
    BY DEF TypeOK, WorkerState
  <2>2. Pending(l, worker[w].part)
    BY <1>1 DEF DeleteFolder, Pending
  <2> QED
    BY <2>1, <2>2 DEF TaskInv
<1> QED
  BY <1>1 DEF WorkerStep, ReadTask, DeleteFolder, CompleteTask, AbandonTask,
              objectVars

LEMMA StepsAreMonotone ==
  ASSUME TypeOK, LifecycleInv, [Next]_vars
  PROVE  MonotoneStep
<1> USE DEF MonotoneStep, Readable
<1>1. ASSUME NEW e \in Entry, NEW l \in Location, Publish(e, l)
      PROVE  MonotoneStep
  BY <1>1 DEF Publish
<1>2. ASSUME NEW l \in Location, CommitFinalize(l) PROVE MonotoneStep
  BY <1>2 DEF CommitFinalize, objectVars
<1>3. ASSUME NEW l \in Location, ClaimPartsDeletion(l) PROVE MonotoneStep
  BY <1>3 DEF ClaimPartsDeletion, objectVars
<1>4. ASSUME NEW l \in Location, LoseObjects(l) PROVE MonotoneStep
  BY <1>4 DEF LoseObjects, dbVars
<1>5. CASE FencingStep
  BY <1>5 DEF FencingStep, Fencing, objectVars
<1>6. CASE ReaderStep
  BY <1>6, ReaderFrame DEF objectVars
<1>7. CASE ComposerStep
  BY <1>7, ComposerFrame
<1>8. CASE LookupStep
  BY <1>8, LookupFrame DEF dbVars, objectVars
<1>9. CASE WorkerStep
  BY <1>9, WorkerFrame, WorkersKeepObjects DEF LifecycleInv
<1>10. CASE Tick
  BY <1>10 DEF Tick, objectVars
<1>11. CASE QuietStep
  BY <1>11 DEF QuietStep, objectVars
<1> QED
  BY <1>1, <1>2, <1>3, <1>4, <1>5, <1>6, <1>7, <1>8, <1>9, <1>10, <1>11,
     StepKinds

-----------------------------------------------------------------------------
(* Each conjunct of the invariant is preserved.                            *)

LEMMA RowInvKept ==
  ASSUME TypeOK, LifecycleInv, [Next]_vars
  PROVE  RowInv'
<1>0. RowInv
  BY DEF LifecycleInv
<1> USE <1>0, SetAssumption
    DEF RowInv, OutcomeDecidedOnce, ActiveMaterialization
<1>1. ASSUME NEW e \in Entry, NEW l \in Location, Publish(e, l)
      PROVE  RowInv'
  <2>1. CASE entry[e] = None
    BY <1>1, <2>1 DEF Publish
  <2>2. CASE entry[e] # None
    <3>1. entry[e] \in rows /\ FenceDetachedLocation(entry[e])
      BY <1>1, <2>2 DEF Publish, Lockable
    <3>2. fenced' \subseteq fenced \cup {entry[e]}
      BY <3>1 DEF FenceDetachedLocation
    <3> QED
      BY <1>1, <3>1, <3>2 DEF Publish
  <2> QED
    BY <2>1, <2>2
<1>2. ASSUME NEW l \in Location, CommitFinalize(l) PROVE RowInv'
  BY <1>2 DEF CommitFinalize, TypeOK
<1>3. ASSUME NEW l \in Location, ClaimPartsDeletion(l) PROVE RowInv'
  BY <1>3 DEF ClaimPartsDeletion
<1>4. ASSUME NEW l \in Location, LoseObjects(l) PROVE RowInv'
  BY <1>4 DEF LoseObjects, dbVars
<1>5. CASE FencingStep
  BY <1>5 DEF FencingStep, Fencing
<1>6. CASE ReaderStep
  BY <1>6, ReaderFrame
<1>7. CASE ComposerStep
  <2> PICK c \in Composer :
        \/ \E l \in Location : AcquireMaterialization(c, l)
        \/ RenewMaterialization(c)
        \/ ComposeObjects(c)
        \/ ComposeFails(c)
        \/ FinishMaterialization(c)
        \/ MarkMaterializationUnsupported(c)
        \/ ReleaseMaterialization(c)
        \/ CrashComposer(c)
    BY <1>7 DEF ComposerStep
  <2>1. ASSUME NEW l \in Location, AcquireMaterialization(c, l)
        PROVE  RowInv'
    BY <2>1 DEF AcquireMaterialization, Lockable, TypeOK
  <2>2. CASE FinishMaterialization(c)
    <3>1. CASE OwnsMaterialization(c, composer[c].loc)
      <4> DEFINE l == composer[c].loc
      <4>1. /\ l \in rows /\ l \notin merged /\ holder[l] = c
            /\ merged' = merged \cup {l}
            /\ holder' = [holder EXCEPT ![l] = None]
            /\ mergeLeft' = [mergeLeft EXCEPT ![l] = 0]
            /\ UNCHANGED <<used, rows, fenced, partsDeleted, finalizing,
                           unsupported>>
        BY <2>2, <3>1 DEF FinishMaterialization, OwnsMaterialization,
                            Lockable
      <4>2. l \in MultiPart /\ l \notin merged \cup unsupported
        BY <4>1 DEF TypeOK
      <4> HIDE DEF l
      <4> QED
        BY <4>1, <4>2 DEF TypeOK
    <3>2. CASE ~OwnsMaterialization(c, composer[c].loc)
      BY <2>2, <3>2 DEF FinishMaterialization
    <3> QED
      BY <3>1, <3>2
  <2>3. CASE MarkMaterializationUnsupported(c)
    <3>1. CASE OwnsMaterialization(c, composer[c].loc)
      <4> DEFINE l == composer[c].loc
      <4>1. /\ l \in rows /\ l \notin merged /\ holder[l] = c
            /\ unsupported' = unsupported \cup {l}
            /\ holder' = [holder EXCEPT ![l] = None]
            /\ mergeLeft' = [mergeLeft EXCEPT ![l] = 0]
            /\ UNCHANGED <<used, rows, fenced, partsDeleted, finalizing,
                           merged>>
        BY <2>3, <3>1 DEF MarkMaterializationUnsupported, OwnsMaterialization,
                            Lockable
      <4>2. l \in MultiPart /\ l \notin merged \cup unsupported
        BY <4>1 DEF TypeOK
      <4> HIDE DEF l
      <4> QED
        BY <4>1, <4>2 DEF TypeOK
    <3>2. CASE ~OwnsMaterialization(c, composer[c].loc)
      BY <2>3, <3>2 DEF MarkMaterializationUnsupported
    <3> QED
      BY <3>1, <3>2
  <2>4. CASE ReleaseMaterialization(c)
    BY <2>4 DEF ReleaseMaterialization, TypeOK
  <2>5. CASE RenewMaterialization(c)
    <3>1. CASE OwnsMaterialization(c, composer[c].loc)
      BY <2>5, <3>1
         DEF RenewMaterialization, OwnsMaterialization, Lockable, TypeOK
    <3>2. CASE ~OwnsMaterialization(c, composer[c].loc)
      BY <2>5, <3>2 DEF RenewMaterialization
    <3> QED
      BY <3>1, <3>2
  <2>6. CASE ComposeObjects(c) \/ ComposeFails(c) \/ CrashComposer(c)
    BY <2>6 DEF ComposeObjects, ComposeFails, CrashComposer, dbVars
  <2> QED
    BY <2>1, <2>2, <2>3, <2>4, <2>5, <2>6
<1>8. CASE LookupStep
  BY <1>8, LookupFrame DEF dbVars
<1>9. CASE WorkerStep
  BY <1>9, WorkerFrame
<1>10. CASE Tick
  BY <1>10 DEF Tick, Less, TypeOK
<1>11. CASE QuietStep
  BY <1>11 DEF QuietStep
<1> QED
  BY <1>1, <1>2, <1>3, <1>4, <1>5, <1>6, <1>7, <1>8, <1>9, <1>10, <1>11,
     StepKinds

LEMMA EntryInvKept ==
  ASSUME TypeOK, LifecycleInv, [Next]_vars
  PROVE  EntryInv'
<1>0. RowInv /\ EntryInv
  BY DEF LifecycleInv
<1> USE <1>0 DEF EntryInv
<1>1. ASSUME NEW e \in Entry, NEW l \in Location, Publish(e, l)
      PROVE  EntryInv'
  <2>1. l \notin rows /\ l \notin fenced
    BY <1>1 DEF Publish, RowInv
  <2>2. CASE entry[e] = None
    BY <1>1, <2>1, <2>2 DEF Publish, TypeOK
  <2>3. CASE entry[e] # None
    <3>1. entry[e] \in Location /\ FenceDetachedLocation(entry[e])
      BY <1>1, <2>3 DEF Publish, TypeOK
    <3>2. /\ fenced' \subseteq fenced \cup {entry[e]}
          /\ entry[e] \in fenced' =>
               entry[e] \in fenced \/ \A f \in Entry : entry'[f] # entry[e]
      BY <3>1, FenceLeases
    <3> QED
      BY <1>1, <2>1, <3>2 DEF Publish, TypeOK
  <2> QED
    BY <2>2, <2>3
<1>2. ASSUME NEW l \in Location, CommitFinalize(l) PROVE EntryInv'
  BY <1>2 DEF CommitFinalize, Detach, TypeOK
<1>3. ASSUME NEW l \in Location, ClaimPartsDeletion(l) PROVE EntryInv'
  BY <1>3 DEF ClaimPartsDeletion
<1>4. ASSUME NEW l \in Location, LoseObjects(l) PROVE EntryInv'
  BY <1>4 DEF LoseObjects, dbVars
<1>5. CASE FencingStep
  BY <1>5 DEF FencingStep, Fencing
<1>6. CASE ReaderStep
  BY <1>6, ReaderFrame
<1>7. CASE ComposerStep
  BY <1>7, ComposerFrame
<1>8. CASE LookupStep
  BY <1>8, LookupFrame DEF dbVars
<1>9. CASE WorkerStep
  BY <1>9, WorkerFrame
<1>10. CASE Tick
  BY <1>10 DEF Tick
<1>11. CASE QuietStep
  BY <1>11 DEF QuietStep
<1> QED
  BY <1>1, <1>2, <1>3, <1>4, <1>5, <1>6, <1>7, <1>8, <1>9, <1>10, <1>11,
     StepKinds

(* Leases only expire, and their rows and scopes stay what they were: the  *)
(* part of the lease invariant that every other kind of step shares.       *)
LEMMA LeaseInvExpire ==
  ASSUME TypeOK, LeaseInv, LeasesExpire,
         rows \subseteq rows', merged \subseteq merged',
         partsDeleted' = partsDeleted
  PROVE  LeaseInv'
BY DEF LeaseInv, LeasesExpire, NoLease, TypeOK, Lease

LEMMA LeaseInvKept ==
  ASSUME TypeOK, LifecycleInv, [Next]_vars
  PROVE  LeaseInv'
<1>0. RowInv /\ LeaseInv /\ SnapshotInv
  BY DEF LifecycleInv
<1> USE <1>0
<1>1. ASSUME NEW e \in Entry, NEW l \in Location, Publish(e, l)
      PROVE  LeaseInv'
  <2>1. LeasesExpire
    <3>1. CASE entry[e] = None
      BY <1>1, <3>1, SameLeases DEF Publish
    <3>2. CASE entry[e] # None
      BY <1>1, <3>2, FenceLeases DEF Publish, TypeOK
    <3> QED
      BY <3>1, <3>2
  <2> QED
    BY <1>1, <2>1, LeaseInvExpire DEF Publish
<1>2. ASSUME NEW l \in Location, CommitFinalize(l) PROVE LeaseInv'
  <2>1. \A r \in Reader : lease[r].loc # l
    BY <1>2 DEF CommitFinalize
  <2>2. /\ lease' = lease
        /\ rows' = rows \ {l} /\ merged' = merged \ {l}
        /\ partsDeleted' = partsDeleted \ {l}
    BY <1>2 DEF CommitFinalize
  <2> QED
    BY <2>1, <2>2 DEF LeaseInv
<1>3. ASSUME NEW l \in Location, ClaimPartsDeletion(l) PROVE LeaseInv'
  <2>1. LeasesExpire
    BY <1>3, WithoutExpiredLeases DEF ClaimPartsDeletion
  <2>2. CASE partsDeleted' = partsDeleted
    BY <1>3, <2>1, <2>2, LeaseInvExpire DEF ClaimPartsDeletion
  <2>3. CASE partsDeleted' # partsDeleted
    <3>1. /\ partsDeleted' = partsDeleted \cup {l}
          /\ rows' = rows /\ merged' = merged
          /\ \A r \in Reader : ~(/\ lease[r].loc = l
                                 /\ lease[r].scope = "parts"
                                 /\ lease[r].left > 0)
      BY <1>3, <2>3 DEF ClaimPartsDeletion
    <3> QED
      BY <2>1, <3>1 DEF LeaseInv, LeasesExpire, NoLease, TypeOK, Lease
  <2> QED
    BY <2>2, <2>3
<1>4. ASSUME NEW l \in Location, LoseObjects(l) PROVE LeaseInv'
  BY <1>4 DEF LoseObjects, dbVars, LeaseInv
<1>5. CASE FencingStep
  BY <1>5, LeaseInvExpire DEF FencingStep, Fencing
<1>6. CASE ReaderStep
  <2> USE ReaderFrame, <1>6 DEF LeaseInv
  <2>1. CASE PurgeExpiredReaderLeases
    BY <2>1, LeaseInvExpire
       DEF PurgeExpiredReaderLeases, LeasesExpire, TypeOK
  <2>2. ASSUME NEW r \in Reader, InsertLease(r) PROVE LeaseInv'
    <3> DEFINE l == reader[r].loc
    <3>1. /\ lease'[r].loc = l /\ lease'[r].scope = reader[r].scope
          /\ \A q \in Reader \ {r} : lease'[q] = lease[q]
      BY <2>2 DEF InsertLease, TypeOK
    <3>2. /\ l # None => l \in used
          /\ l \in rows /\ l # None
          /\ reader[r].scope = "storage" => l \in merged
          /\ reader[r].scope = "parts" => l \notin partsDeleted
      BY <2>2, SetAssumption
         DEF InsertLease, CanInsertLease, Lockable, SnapshotInv, RowInv,
             OutcomeDecidedOnce, TypeOK
    <3> QED
      BY <3>1, <3>2
  <2>3. ASSUME NEW r \in Reader,
               \/ RenewReader(r) \/ ExtendDirectReader(r) \/ ReleaseReader(r)
        PROVE  LeaseInv'
    <3>1. \A q \in Reader \ {r} : lease'[q] = lease[q]
      BY <2>3 DEF RenewReader, ExtendDirectReader, ReleaseReader, TypeOK
    <3>2. \/ lease'[r] = lease[r]
          \/ lease'[r] = NoLease
          \/ /\ lease'[r].loc = lease[r].loc
             /\ lease'[r].scope = lease[r].scope
             /\ lease[r].left > 0
      BY <2>3 DEF RenewReader, ExtendDirectReader, ReleaseReader, TypeOK, Lease
    <3>3. /\ lease'[r].loc = None => lease'[r] = NoLease
          /\ NoLease.left = 0 /\ NoLease.loc = None
      BY <3>2 DEF NoLease
    <3> QED
      BY <3>1, <3>2, <3>3 DEF TypeOK
  <2>4. ASSUME NEW r \in Reader,
               \/ \E e \in Entry, d \in BOOLEAN : AcquireRead(r, e, d)
               \/ RetryAcquire(r) \/ CloseReader(r) \/ SignURL(r)
               \/ CrashReader(r) \/ RestartReader(r)
        PROVE  LeaseInv'
    BY <2>4 DEF AcquireRead, RetryAcquire, CloseReader, SignURL, CrashReader,
                RestartReader, dbVars
  <2> QED
    BY <1>6, <2>1, <2>2, <2>3, <2>4 DEF ReaderStep
<1>7. CASE ComposerStep
  BY <1>7, ComposerFrame, SameLeases, LeaseInvExpire
<1>8. CASE LookupStep
  BY <1>8, LookupFrame DEF dbVars, LeaseInv
<1>9. CASE WorkerStep
  BY <1>9, WorkerFrame DEF LeaseInv
<1>10. CASE Tick
  <2>1. ASSUME NEW r \in Reader
        PROVE  /\ lease'[r].loc = lease[r].loc
               /\ lease'[r].scope = lease[r].scope
               /\ lease'[r].left > 0 => lease[r].left > 0
               /\ lease[r] = NoLease => lease'[r] = NoLease
    <3>1. lease[r] \in Lease /\ lease'[r] = [lease[r] EXCEPT !.left = Less(@)]
      BY <1>10 DEF Tick, TypeOK
    <3> QED
      BY <3>1 DEF Lease, Less, NoLease
  <2> QED
    BY <1>10, <2>1 DEF Tick, LeaseInv
<1>11. CASE QuietStep
  BY <1>11 DEF QuietStep, LeaseInv
<1> QED
  BY <1>1, <1>2, <1>3, <1>4, <1>5, <1>6, <1>7, <1>8, <1>9, <1>10, <1>11,
     StepKinds

LEMMA SnapshotInvKept ==
  ASSUME TypeOK, LifecycleInv, [Next]_vars
  PROVE  SnapshotInv'
<1>0. RowInv /\ EntryInv /\ SnapshotInv /\ MonotoneStep
  BY StepsAreMonotone DEF LifecycleInv
<1>1. ASSUME NEW r \in Reader,
             reader'[r].pc = "read" =>
               /\ reader[r].pc = "read"
               /\ reader'[r].loc = reader[r].loc
               /\ reader'[r].scope = reader[r].scope
               /\ reader'[r].locks = reader[r].locks
      PROVE  reader'[r].pc = "read" =>
               /\ reader'[r].loc \in used'
               /\ reader'[r].loc \in rows' /\ reader'[r].scope = "storage"
                    => reader'[r].loc \in merged'
               /\ /\ reader'[r].loc \in rows'
                  /\ reader'[r].scope = "parts"
                  /\ ~reader'[r].locks
                  => \/ reader'[r].loc \in unsupported'
                     \/ reader'[r].loc \notin MultiPart
  <2>1. reader[r].pc = "read" => reader[r].loc \in Location /\ reader[r].loc \in used
    BY <1>0 DEF SnapshotInv, TypeOK
  <2> QED
    BY <1>0, <1>1, <2>1 DEF SnapshotInv, MonotoneStep
<1>2. CASE reader' = reader
  BY <1>1, <1>2 DEF SnapshotInv
<1>3. CASE ReaderStep
  <2>1. CASE PurgeExpiredReaderLeases
    BY <1>2, <2>1 DEF PurgeExpiredReaderLeases, procVars
  <2>2. ASSUME NEW r \in Reader, NEW e \in Entry, NEW d \in BOOLEAN,
               AcquireRead(r, e, d)
        PROVE  SnapshotInv'
    <3>1. /\ entry[e] \in used
          /\ \A q \in Reader \ {r} : reader'[q] = reader[q]
          /\ reader'[r].loc = entry[e]
          /\ reader'[r].scope = "storage" => entry[e] \in merged
          /\ reader'[r].scope = "parts" /\ ~reader'[r].locks
               => entry[e] \in unsupported \/ entry[e] \notin MultiPart
      BY <1>0, <2>2 DEF AcquireRead, RowInv, TypeOK
    <3>2. UNCHANGED <<rows, used, merged, unsupported>>
      BY <2>2 DEF AcquireRead, dbVars
    <3>3. \A q \in Reader \ {r} :
            reader'[q].pc = "read" =>
               /\ reader'[q].loc \in used'
               /\ reader'[q].loc \in rows' /\ reader'[q].scope = "storage"
                    => reader'[q].loc \in merged'
               /\ /\ reader'[q].loc \in rows'
                  /\ reader'[q].scope = "parts"
                  /\ ~reader'[q].locks
                  => \/ reader'[q].loc \in unsupported'
                     \/ reader'[q].loc \notin MultiPart
      BY <1>1, <3>1
    <3> QED
      BY <3>1, <3>2, <3>3 DEF SnapshotInv
  <2>3. ASSUME NEW r \in Reader,
               \/ InsertLease(r) \/ RetryAcquire(r) \/ RenewReader(r)
               \/ CloseReader(r) \/ ReleaseReader(r) \/ SignURL(r)
               \/ ExtendDirectReader(r) \/ CrashReader(r) \/ RestartReader(r)
        PROVE  SnapshotInv'
    <3>1. \A q \in Reader \ {r} : reader'[q] = reader[q]
      BY <2>3 DEF InsertLease, RetryAcquire, RenewReader, CloseReader,
                  ReleaseReader, SignURL, ExtendDirectReader, CrashReader,
                  RestartReader, TypeOK
    <3>2. reader'[r] = reader[r] \/ reader'[r].pc # "read"
      <4>0. reader[r] \in ReaderState
        BY DEF TypeOK
      <4>1. IdleReader.pc # "read" /\ [IdleReader EXCEPT !.pc = "dead"].pc # "read"
        BY DEF IdleReader
      <4>2. \A pc \in {"direct", "streaming", "closing", "url"} :
              [reader[r] EXCEPT !.pc = pc].pc # "read"
        BY <4>0 DEF ReaderState
      <4>3. \A pc \in {"signed", "closing"}, n \in Nat :
              [reader[r] EXCEPT !.pc = pc, !.urlLeft = n].pc # "read"
        BY <4>0 DEF ReaderState
      <4>4. CASE InsertLease(r) \/ RenewReader(r) \/ CloseReader(r)
        BY <4>2, <4>4 DEF InsertLease, RenewReader, CloseReader, TypeOK
      <4>5. CASE RetryAcquire(r) \/ ReleaseReader(r) \/ CrashReader(r)
                   \/ RestartReader(r)
        BY <4>1, <4>5
           DEF RetryAcquire, ReleaseReader, CrashReader, RestartReader, TypeOK
      <4>6. CASE SignURL(r) \/ ExtendDirectReader(r)
        <5>1. \/ \E pc \in {"signed", "closing"}, n \in Nat :
                   reader'[r] = [reader[r] EXCEPT !.pc = pc, !.urlLeft = n]
              \/ reader'[r] = [reader[r] EXCEPT !.pc = "url"]
          BY <4>6, DurationAssumption DEF SignURL, ExtendDirectReader, TypeOK
        <5> QED
          BY <4>2, <4>3, <5>1
      <4> QED
        BY <2>3, <4>4, <4>5, <4>6
    <3> QED
      BY <1>1, <3>1, <3>2 DEF SnapshotInv
  <2> QED
    BY <1>3, <2>1, <2>2, <2>3 DEF ReaderStep
<1>4. CASE Tick
  <2>1. ASSUME NEW r \in Reader
        PROVE  /\ reader'[r].pc = reader[r].pc
               /\ reader'[r].loc = reader[r].loc
               /\ reader'[r].scope = reader[r].scope
               /\ reader'[r].locks = reader[r].locks
    <3>1. /\ reader[r] \in ReaderState
          /\ reader'[r] = [reader[r] EXCEPT !.urlLeft = Less(@)]
      BY <1>4 DEF Tick, TypeOK
    <3> QED
      BY <3>1 DEF ReaderState
  <2> QED
    BY <1>1, <2>1 DEF SnapshotInv
<1>5. ReaderStep \/ Tick \/ reader' = reader
  BY StepKinds, ComposerFrame, LookupFrame, WorkerFrame
     DEF Publish, CommitFinalize, ClaimPartsDeletion, LoseObjects, FencingStep,
         Fencing, QuietStep, procVars
<1> QED
  BY <1>2, <1>3, <1>4, <1>5

LEMMA TaskInvKept ==
  ASSUME TypeOK, LifecycleInv, [Next]_vars
  PROVE  TaskInv'
<1>0. RowInv /\ TaskInv /\ MonotoneStep
  BY StepsAreMonotone DEF LifecycleInv
(* What is pending stays right; only new tasks need an argument. *)
<1>1. ASSUME NEW l \in Location, NEW part \in {"folder", "parts"},
             Pending(l, part)' => Pending(l, part)
      PROVE  /\ Pending(l, part)' /\ part = "folder" => l \in used' \ rows'
             /\ Pending(l, part)' /\ part = "parts"
                  => l \in used' /\ (l \in rows' => l \in partsDeleted')
  BY <1>0, <1>1 DEF TaskInv, MonotoneStep
<1>2. ASSUME \A l \in Location : \A part \in {"folder", "parts"} :
               Pending(l, part)' => Pending(l, part)
      PROVE  TaskInv'
  BY <1>1, <1>2 DEF TaskInv
<1>3. CASE UNCHANGED <<tasks, worker>>
  BY <1>2, <1>3 DEF Pending
<1>4. ASSUME NEW l \in Location, CommitFinalize(l) PROVE TaskInv'
  <2>1. /\ tasks' = tasks \cup {<<l, "folder">>} /\ worker' = worker
        /\ rows' = rows \ {l} /\ used' = used /\ l \in used
    BY <1>0, <1>4 DEF CommitFinalize, procVars, LifecycleInv, RowInv, TypeOK
  <2>2. \A k \in Location : \A part \in {"folder", "parts"} :
          <<k, part>> # <<l, "folder">> =>
            (Pending(k, part)' => Pending(k, part))
    BY <2>1 DEF Pending
  <2> QED
    BY <1>1, <2>1, <2>2 DEF TaskInv
<1>5. ASSUME NEW l \in Location, ClaimPartsDeletion(l) PROVE TaskInv'
  <2>1. CASE tasks' = tasks
    BY <1>3, <1>5, <2>1 DEF ClaimPartsDeletion
  <2>2. CASE tasks' # tasks
    <3>1. /\ tasks' = tasks \cup {<<l, "parts">>} /\ worker' = worker
          /\ partsDeleted' = partsDeleted \cup {l}
          /\ rows' = rows /\ used' = used /\ l \in used
      BY <1>0, <1>5, <2>2 DEF ClaimPartsDeletion, Lockable, RowInv
    <3>2. \A k \in Location : \A part \in {"folder", "parts"} :
            <<k, part>> # <<l, "parts">> =>
              (Pending(k, part)' => Pending(k, part))
      BY <3>1 DEF Pending
    <3> QED
      BY <1>1, <3>1, <3>2 DEF TaskInv
  <2> QED
    BY <2>1, <2>2
<1>6. CASE WorkerStep
  <2> SUFFICES \A l \in Location : \A part \in {"folder", "parts"} :
                 Pending(l, part)' => Pending(l, part)
    BY <1>2
  <2> PICK w \in Worker : ReadTask(w) \/ DeleteFolder(w) \/ CompleteTask(w)
                            \/ AbandonTask(w)
    BY <1>6 DEF WorkerStep
  <2>1. IdleWorker.pc = "idle"
    BY DEF IdleWorker
  <2>2. CASE ReadTask(w)
    <3> PICK t \in tasks :
          worker' = [worker EXCEPT ![w] =
                       [pc |-> "read", loc |-> t[1], part |-> t[2]]]
      BY <2>2 DEF ReadTask
    <3>1. t = <<t[1], t[2]>>
      BY DEF TypeOK
    <3> QED
      BY <2>2, <3>1 DEF Pending, ReadTask, dbVars, TypeOK
  <2>3. CASE DeleteFolder(w)
    <3>1. /\ worker'[w].loc = worker[w].loc
          /\ worker'[w].part = worker[w].part
          /\ worker[w].pc # "idle"
          /\ \A v \in Worker \ {w} : worker'[v] = worker[v]
      BY <2>3 DEF DeleteFolder, TypeOK, WorkerState
    <3> QED
      BY <2>3, <3>1 DEF Pending, DeleteFolder, dbVars
  <2>4. CASE CompleteTask(w)
    BY <2>1, <2>4 DEF CompleteTask, Pending, TypeOK
  <2>5. CASE AbandonTask(w)
    BY <2>1, <2>5 DEF AbandonTask, Pending, dbVars, TypeOK
  <2> QED
    BY <2>2, <2>3, <2>4, <2>5
<1>7. \/ \E l \in Location : CommitFinalize(l) \/ ClaimPartsDeletion(l)
      \/ WorkerStep \/ UNCHANGED <<tasks, worker>>
  BY StepKinds, ComposerFrame, LookupFrame, ReaderFrame
     DEF Publish, LoseObjects, FencingStep, Fencing, Tick, QuietStep, procVars,
         dbVars
<1> QED
  BY <1>3, <1>4, <1>5, <1>6, <1>7

LEMMA ObjectInvKept ==
  ASSUME TypeOK, LifecycleInv, [Next]_vars
  PROVE  ObjectInv'
<1>0. RowInv /\ ObjectInv /\ ComposerInv /\ MonotoneStep
  BY StepsAreMonotone DEF LifecycleInv
<1>1. ASSUME rows' \subseteq used, merged' \subseteq merged PROVE ObjectInv'
  <2> SUFFICES ASSUME NEW l \in rows'
               PROVE  /\ l \in merged' => Readable(l, "storage")'
                      /\ l \notin partsDeleted' => Readable(l, "parts")'
    BY DEF ObjectInv
  <2>1. l \in Location /\ l \in used /\ l \in rows
    BY <1>0, <1>1 DEF MonotoneStep, TypeOK
  <2>2. l \in partsDeleted => l \in partsDeleted'
    BY <1>0, <2>1 DEF MonotoneStep
  <2> QED
    BY <1>0, <1>1, <2>1, <2>2 DEF ObjectInv, MonotoneStep
<1>2. ASSUME NEW e \in Entry, NEW l \in Location, Publish(e, l)
      PROVE  ObjectInv'
  BY <1>0, <1>2 DEF Publish, ObjectInv, RowInv, Readable
<1>3. ASSUME NEW c \in Composer, FinishMaterialization(c)
      PROVE  ObjectInv'
  <2> DEFINE l == composer[c].loc
  <2>1. CASE OwnsMaterialization(c, l)
    <3>1. /\ merged' = merged \cup {l}
          /\ UNCHANGED <<rows, partsDeleted, objectVars>>
          /\ l \in rows /\ composer[c].pc = "composed"
      BY <1>3, <2>1 DEF FinishMaterialization, OwnsMaterialization, Lockable
    <3>2. Readable(l, "storage")
      BY <1>0, <3>1 DEF ComposerInv
    <3> HIDE DEF l
    <3> QED
      BY <1>0, <3>1, <3>2 DEF ObjectInv, Readable, objectVars
  <2>2. CASE ~OwnsMaterialization(c, l)
    BY <1>0, <1>1, <1>3, <2>2 DEF FinishMaterialization, RowInv
  <2> QED
    BY <2>1, <2>2
<1>4. CASE ComposerStep
  BY <1>0, <1>1, <1>3, <1>4
     DEF ComposerStep, AcquireMaterialization, RenewMaterialization,
         ComposeObjects, ComposeFails, MarkMaterializationUnsupported,
         ReleaseMaterialization, CrashComposer, dbVars, RowInv
<1>5. \/ \E e \in Entry, l \in Location : Publish(e, l)
      \/ ComposerStep
      \/ rows' \subseteq used /\ merged' \subseteq merged
  BY <1>0, StepKinds, LookupFrame, ReaderFrame, WorkerFrame
     DEF CommitFinalize, ClaimPartsDeletion, LoseObjects, FencingStep, Fencing,
         Tick, QuietStep, dbVars, RowInv
<1> QED
  BY <1>1, <1>2, <1>4, <1>5

LEMMA ComposerInvKept ==
  ASSUME TypeOK, LifecycleInv, [Next]_vars
  PROVE  ComposerInv'
<1>0. RowInv /\ ComposerInv /\ MonotoneStep
  BY StepsAreMonotone DEF LifecycleInv
<1> DEFINE Held(c) ==
      /\ composer'[c].pc # "idle" => composer'[c].loc \in used'
      /\ composer'[c].pc = "composed" /\ composer'[c].loc \in rows'
           => composer'[c].loc \in mergedObjects' \cup lost'
<1>1. ASSUME NEW c \in Composer,
             \/ composer'[c].pc = "idle"
             \/ /\ composer[c].pc # "idle"
                /\ composer'[c].loc = composer[c].loc
                /\ composer'[c].pc # "composed" \/ composer[c].pc = "composed"
      PROVE  Held(c)
  <2>1. composer[c].pc # "idle" => /\ composer[c].loc \in used
                                   /\ composer[c].loc \in Location
    BY <1>0 DEF ComposerInv, TypeOK
  <2>2. /\ composer[c].pc = "composed" /\ composer[c].loc \in rows'
        => composer[c].loc \in mergedObjects' \cup lost'
    BY <1>0, <2>1 DEF ComposerInv, MonotoneStep, Readable
  <2> QED
    BY <1>0, <1>1, <2>1, <2>2 DEF MonotoneStep
<1>9. ASSUME \A c \in Composer : Held(c) PROVE ComposerInv'
  BY <1>9 DEF ComposerInv, Readable
<1> HIDE DEF Held
<1>2. CASE composer' = composer
  BY <1>1, <1>2, <1>9
<1>3. CASE ComposerStep
  <2> PICK c \in Composer :
        \/ \E l \in Location : AcquireMaterialization(c, l)
        \/ RenewMaterialization(c)
        \/ ComposeObjects(c)
        \/ ComposeFails(c)
        \/ FinishMaterialization(c)
        \/ MarkMaterializationUnsupported(c)
        \/ ReleaseMaterialization(c)
        \/ CrashComposer(c)
    BY <1>3 DEF ComposerStep
  <2> USE DEF TypeOK
  <2>1. ASSUME NEW l \in Location, AcquireMaterialization(c, l)
        PROVE  ComposerInv'
    <3>1. /\ composer'[c] = [pc |-> "composing", loc |-> l]
          /\ \A d \in Composer \ {c} : composer'[d] = composer[d]
          /\ used' = used /\ l \in used
      BY <1>0, <2>1 DEF AcquireMaterialization, Lockable, RowInv
    <3>2. \A d \in Composer \ {c} : Held(d)
      BY <1>1, <3>1
    <3> QED
      BY <1>9, <3>1, <3>2 DEF Held
  <2>2. CASE ComposeObjects(c)
    <3>1. /\ composer[c].pc # "idle"
          /\ composer'[c].loc = composer[c].loc
          /\ \A d \in Composer \ {c} : composer'[d] = composer[d]
          /\ composer[c].loc \in mergedObjects'
      BY <2>2 DEF ComposeObjects, ComposerState
    <3>2. Held(c)
      BY <1>0, <3>1 DEF ComposerInv, MonotoneStep, Held
    <3>3. \A d \in Composer \ {c} : Held(d)
      BY <1>1, <3>1
    <3> QED
      BY <1>9, <3>2, <3>3
  <2>3. CASE \/ RenewMaterialization(c) \/ ComposeFails(c)
             \/ FinishMaterialization(c) \/ MarkMaterializationUnsupported(c)
             \/ ReleaseMaterialization(c) \/ CrashComposer(c)
    <3>1. \A d \in Composer \ {c} : composer'[d] = composer[d]
      BY <2>3 DEF RenewMaterialization, ComposeFails, FinishMaterialization,
                  MarkMaterializationUnsupported, ReleaseMaterialization,
                  CrashComposer
    <3>2. \/ composer'[c] = composer[c]
          \/ composer'[c] = IdleComposer
          \/ /\ composer[c].pc # "idle"
             /\ \E pc \in {"cancelled", "refused", "failed"} :
                  composer'[c] = [composer[c] EXCEPT !.pc = pc]
      BY <2>3 DEF RenewMaterialization, ComposeFails, FinishMaterialization,
                  MarkMaterializationUnsupported, ReleaseMaterialization,
                  CrashComposer
    <3>3. \/ composer'[c].pc = "idle"
          \/ /\ composer[c].pc # "idle"
             /\ composer'[c].loc = composer[c].loc
             /\ composer'[c].pc # "composed" \/ composer[c].pc = "composed"
      BY <3>2 DEF IdleComposer, ComposerState
    <3>4. \A d \in Composer :
            \/ composer'[d].pc = "idle"
            \/ /\ composer[d].pc # "idle"
               /\ composer'[d].loc = composer[d].loc
               /\ composer'[d].pc # "composed" \/ composer[d].pc = "composed"
      BY <3>1, <3>3
    <3> QED
      BY <1>1, <1>9, <3>4
  <2> QED
    BY <2>1, <2>2, <2>3
<1>4. ComposerStep \/ composer' = composer
  BY StepKinds, ReaderFrame, LookupFrame, WorkerFrame
     DEF Publish, CommitFinalize, ClaimPartsDeletion, LoseObjects, FencingStep,
         Fencing, Tick, QuietStep, procVars
<1> QED
  BY <1>2, <1>3, <1>4

LEMMA ProberInvKept ==
  ASSUME TypeOK, LifecycleInv, [Next]_vars
  PROVE  ProberInv'
<1>0. RowInv /\ EntryInv /\ ObjectInv /\ ProberInv /\ MonotoneStep
  BY StepsAreMonotone DEF LifecycleInv
<1> DEFINE Held(o) ==
      prober'[o].pc # "idle" =>
        /\ prober'[o].loc \in used'
        /\ prober'[o].loc \in rows'
             => /\ prober'[o].merged => prober'[o].loc \in merged'
                /\ prober'[o].partsDeleted => prober'[o].loc \in partsDeleted'
        /\ /\ prober'[o].pc = "missing"
           /\ prober'[o].loc \in rows'
           /\ prober'[o].merged = (prober'[o].loc \in merged')
           /\ prober'[o].partsDeleted = (prober'[o].loc \in partsDeleted')
           => prober'[o].loc \in lost'
<1>1. ASSUME NEW o \in Prober,
             \/ prober'[o].pc = "idle"
             \/ /\ prober'[o].pc = prober[o].pc
                /\ prober'[o].loc = prober[o].loc
                /\ prober'[o].merged = prober[o].merged
                /\ prober'[o].partsDeleted = prober[o].partsDeleted
      PROVE  Held(o)
  <2> SUFFICES ASSUME prober'[o].pc = prober[o].pc,
                      prober'[o].loc = prober[o].loc,
                      prober'[o].merged = prober[o].merged,
                      prober'[o].partsDeleted = prober[o].partsDeleted,
                      prober[o].pc # "idle"
               PROVE  Held(o)
    BY <1>1
  <2> DEFINE l == prober[o].loc
  <2>1. /\ l \in used /\ l \in Location
        /\ prober[o].merged \in BOOLEAN /\ prober[o].partsDeleted \in BOOLEAN
        /\ l \in rows => /\ prober[o].merged => l \in merged
                         /\ prober[o].partsDeleted => l \in partsDeleted
        /\ /\ prober[o].pc = "missing" /\ l \in rows
           /\ prober[o].merged = (l \in merged)
           /\ prober[o].partsDeleted = (l \in partsDeleted)
           => l \in lost
    BY <1>0 DEF ProberInv, TypeOK, ProberState
  <2>2. /\ used \subseteq used' /\ lost \subseteq lost'
        /\ l \in rows' => /\ l \in rows
                          /\ l \in merged => l \in merged'
                          /\ l \in partsDeleted => l \in partsDeleted'
    BY <1>0, <2>1 DEF MonotoneStep
  <2> HIDE DEF l
  <2>3. prober'[o].loc = l
    BY DEF l
  <2> QED
    BY <2>1, <2>2, <2>3
<1>2. CASE ProbersCarryOn
  <2>1. \A o \in Prober : Held(o)
    BY <1>1, <1>2 DEF ProbersCarryOn
  <2> QED
    BY <2>1 DEF ProberInv
<1>3. ASSUME NEW o \in Prober, NEW e \in Entry, ObserveLocation(o, e)
      PROVE  ProberInv'
  <2>1. /\ prober'[o].loc = entry[e] /\ prober'[o].pc = "observed"
        /\ prober'[o].merged = (entry[e] \in merged)
        /\ prober'[o].partsDeleted = (entry[e] \in partsDeleted)
        /\ entry[e] \in rows
        /\ \A p \in Prober \ {o} : prober'[p] = prober[p]
        /\ UNCHANGED <<used, rows, merged, partsDeleted>>
    BY <1>3 DEF ObserveLocation, dbVars, TypeOK
  <2>2. Held(o)
    BY <1>0, <2>1 DEF RowInv
  <2>3. \A p \in Prober \ {o} : Held(p)
    BY <1>1, <2>1
  <2> QED
    BY <2>2, <2>3 DEF ProberInv
<1>4. ASSUME NEW o \in Prober, ProbeRepresentation(o) PROVE ProberInv'
  <2> DEFINE l == prober[o].loc
  <2>1. /\ \A p \in Prober \ {o} : prober'[p] = prober[p]
        /\ UNCHANGED <<used, rows, merged, partsDeleted, objectVars>>
        /\ prober[o].pc = "observed"
        /\ prober'[o] = IF RepresentationFound(o) THEN IdleProber
                        ELSE [prober[o] EXCEPT !.pc = "missing"]
    BY <1>4 DEF ProbeRepresentation, dbVars, TypeOK
  <2>2. Held(o)
    <3>1. CASE RepresentationFound(o)
      BY <2>1, <3>1 DEF IdleProber
    <3>2. CASE ~RepresentationFound(o)
      <4>1. /\ prober[o] \in ProberState
            /\ prober'[o] = [prober[o] EXCEPT !.pc = "missing"]
        BY <2>1, <3>2 DEF TypeOK
      <4>2. /\ prober'[o].loc = l
            /\ prober'[o].merged = prober[o].merged
            /\ prober'[o].partsDeleted = prober[o].partsDeleted
        BY <4>1 DEF ProberState
      <4>3. /\ l \in used
            /\ l \in rows => /\ prober[o].merged => l \in merged
                             /\ prober[o].partsDeleted => l \in partsDeleted
        BY <1>0, <2>1 DEF ProberInv
      <4>4. /\ l \in rows
            /\ prober[o].merged = (l \in merged)
            /\ prober[o].partsDeleted = (l \in partsDeleted)
            => l \in lost
        BY <1>0, <3>2 DEF RepresentationFound, ObjectInv, RowInv, Readable
      <4> HIDE DEF l
      <4> QED
        BY <2>1, <4>2, <4>3, <4>4 DEF objectVars
    <3> QED
      BY <3>1, <3>2
  <2>3. \A p \in Prober \ {o} : Held(p)
    BY <1>1, <2>1
  <2> QED
    BY <2>2, <2>3 DEF ProberInv
<1>5. ProbersCarryOn \/ LookupStep
  BY StepKinds, ReaderFrame, ComposerFrame, WorkerFrame, SameProbers,
     BumpProbers
     DEF Publish, CommitFinalize, ClaimPartsDeletion, LoseObjects, FencingStep,
         Fencing, Tick, QuietStep, procVars, Bump
<1> QED
  BY <1>2, <1>3, <1>4, <1>5 DEF LookupStep

LEMMA UrlInvKept ==
  ASSUME TypeOK, LifecycleInv, [Next]_vars
  PROVE  UrlInv'
<1>0. UrlInv
  BY DEF LifecycleInv
<1> DEFINE Held(r) ==
      /\ /\ reader'[r].pc \in {"streaming", "direct", "signed", "url"}
         /\ lease'[r].left > 0
         => /\ lease'[r].loc = reader'[r].loc
            /\ lease'[r].scope = reader'[r].scope
      /\ reader'[r].pc = "signed" => reader'[r].urlLeft <= DirectDownloadTTL
      /\ reader'[r].pc = "url" => reader'[r].urlLeft <= lease'[r].left
<1>1. ASSUME \A r \in Reader : Held(r) PROVE UrlInv'
  BY <1>1 DEF UrlInv
<1>2. ASSUME NEW r \in Reader, reader'[r] = reader[r],
             \/ lease'[r] = lease[r]
             \/ lease[r].left = 0 /\ lease'[r] = NoLease
      PROVE  Held(r)
  BY <1>0, <1>2 DEF UrlInv, NoLease
<1>3. CASE reader' = reader /\ LeasesExpire
  <2>1. \A r \in Reader : Held(r)
    BY <1>2, <1>3 DEF LeasesExpire
  <2> QED
    BY <1>1, <2>1
<1>4. CASE ReaderStep
  <2>1. CASE PurgeExpiredReaderLeases
    BY <1>3, <2>1
       DEF PurgeExpiredReaderLeases, LeasesExpire, procVars, TypeOK
  <2>2. ASSUME NEW r \in Reader,
               \/ \E e \in Entry, d \in BOOLEAN : AcquireRead(r, e, d)
               \/ InsertLease(r) \/ RetryAcquire(r) \/ RenewReader(r)
               \/ CloseReader(r) \/ ReleaseReader(r) \/ SignURL(r)
               \/ ExtendDirectReader(r) \/ CrashReader(r) \/ RestartReader(r)
        PROVE  UrlInv'
    <3> USE DEF TypeOK
    <3>1. \A q \in Reader \ {r} : reader'[q] = reader[q] /\ lease'[q] = lease[q]
      BY <2>2 DEF AcquireRead, InsertLease, RetryAcquire, RenewReader,
                  CloseReader, ReleaseReader, SignURL, ExtendDirectReader,
                  CrashReader, RestartReader, dbVars
    <3>2. \A q \in Reader \ {r} : Held(q)
      BY <1>2, <3>1
    <3>3. reader[r] \in ReaderState /\ lease[r] \in Lease
      OBVIOUS
    <3>4. ASSUME reader'[r].pc \in {"idle", "read", "closing", "dead"}
          PROVE  Held(r)
      BY <3>4
    <3>5. ASSUME \/ \E e \in Entry, d \in BOOLEAN : AcquireRead(r, e, d)
                 \/ RetryAcquire(r) \/ CloseReader(r) \/ ReleaseReader(r)
                 \/ CrashReader(r) \/ RestartReader(r)
          PROVE  Held(r)
      <4>1. reader'[r].pc \in {"idle", "read", "closing", "dead"}
        BY <3>3, <3>5
           DEF AcquireRead, RetryAcquire, CloseReader, ReleaseReader,
               CrashReader, RestartReader, IdleReader, ReaderState
      <4> QED
        BY <3>4, <4>1
    <3>6. ASSUME InsertLease(r) PROVE Held(r)
      <4>1. \E pc \in {"direct", "streaming"} :
              reader'[r] = [reader[r] EXCEPT !.pc = pc]
        BY <3>6 DEF InsertLease
      <4>2. /\ lease'[r].loc = reader[r].loc
            /\ lease'[r].scope = reader[r].scope
        BY <3>6 DEF InsertLease
      <4> QED
        BY <3>3, <4>1, <4>2 DEF ReaderState
    <3>7. ASSUME RenewReader(r) PROVE Held(r)
      <4>1. CASE lease[r].left > 0
        <5>1. /\ reader'[r] = reader[r] /\ reader[r].pc = "streaming"
              /\ lease'[r] = [lease[r] EXCEPT !.left = ReaderLeaseDuration]
          BY <3>7, <4>1 DEF RenewReader
        <5> QED
          BY <1>0, <3>3, <4>1, <5>1 DEF UrlInv, Lease
      <4>2. CASE ~(lease[r].left > 0)
        <5>1. reader'[r] = [reader[r] EXCEPT !.pc = "closing"]
          BY <3>7, <4>2 DEF RenewReader
        <5> QED
          BY <3>3, <3>4, <5>1 DEF ReaderState
      <4> QED
        BY <4>1, <4>2
    <3>8. ASSUME SignURL(r) PROVE Held(r)
      <4>1. /\ reader'[r] = [reader[r] EXCEPT !.pc = "signed",
                                              !.urlLeft = DirectDownloadTTL]
            /\ lease'[r] = lease[r] /\ reader[r].pc = "direct"
        BY <3>8 DEF SignURL, dbVars
      <4>2. DirectDownloadTTL <= DirectDownloadTTL
        BY DurationAssumption
      <4> QED
        BY <1>0, <3>3, <4>1, <4>2 DEF UrlInv, ReaderState
    <3>9. ASSUME ExtendDirectReader(r) PROVE Held(r)
      <4>1. CASE lease[r].left > 0
        <5>1. /\ reader'[r] = [reader[r] EXCEPT !.pc = "url"]
              /\ lease'[r] = [lease[r] EXCEPT
                                !.left = DirectDownloadLeaseDuration]
              /\ reader[r].pc = "signed"
          BY <3>9, <4>1 DEF ExtendDirectReader
        <5>2. /\ reader[r].urlLeft \in Nat
              /\ reader[r].urlLeft <= DirectDownloadTTL
              /\ lease[r].loc = reader[r].loc
              /\ lease[r].scope = reader[r].scope
          BY <1>0, <3>3, <4>1, <5>1 DEF UrlInv, ReaderState
        <5>3. reader[r].urlLeft <= DirectDownloadLeaseDuration
          BY <5>2, DurationAssumption
        <5> QED
          BY <3>3, <5>1, <5>2, <5>3 DEF Lease, ReaderState
      <4>2. CASE ~(lease[r].left > 0)
        <5>1. reader'[r] = [reader[r] EXCEPT !.pc = "closing", !.urlLeft = 0]
          BY <3>9, <4>2 DEF ExtendDirectReader
        <5> QED
          BY <3>3, <3>4, <5>1 DEF ReaderState
      <4> QED
        BY <4>1, <4>2
    <3> HIDE DEF Held
    <3>10. Held(r)
      BY <2>2, <3>5, <3>6, <3>7, <3>8, <3>9
    <3> QED
      BY <1>1, <3>2, <3>10
  <2> QED
    BY <1>4, <2>1, <2>2 DEF ReaderStep
<1>5. CASE Tick
  <2>1. ASSUME NEW r \in Reader PROVE Held(r)
    <3>1. /\ reader[r] \in ReaderState /\ lease[r] \in Lease
          /\ reader'[r] = [reader[r] EXCEPT !.urlLeft = Less(@)]
          /\ lease'[r] = [lease[r] EXCEPT !.left = Less(@)]
      BY <1>5 DEF Tick, TypeOK
    <3>2. /\ reader'[r].pc = reader[r].pc /\ reader'[r].loc = reader[r].loc
          /\ reader'[r].scope = reader[r].scope
          /\ reader[r].urlLeft \in Nat
          /\ reader'[r].urlLeft = Less(reader[r].urlLeft)
      BY <3>1 DEF ReaderState
    <3>3. /\ lease'[r].loc = lease[r].loc /\ lease'[r].scope = lease[r].scope
          /\ lease[r].left \in Nat
          /\ lease'[r].left = Less(lease[r].left)
      BY <3>1 DEF Lease
    <3>4. /\ reader[r].pc = "signed" => reader[r].urlLeft <= DirectDownloadTTL
          /\ reader[r].pc = "url" => reader[r].urlLeft <= lease[r].left
          /\ /\ reader[r].pc \in {"streaming", "direct", "signed", "url"}
             /\ lease[r].left > 0
             => /\ lease[r].loc = reader[r].loc
                /\ lease[r].scope = reader[r].scope
      BY <1>0 DEF UrlInv
    <3> QED
      BY <3>2, <3>3, <3>4, DurationAssumption DEF Less
  <2> QED
    BY <1>1, <2>1
<1>6. ReaderStep \/ Tick \/ (reader' = reader /\ LeasesExpire)
  <2>1. ASSUME NEW e \in Entry, NEW l \in Location, Publish(e, l)
        PROVE  LeasesExpire
    <3>1. CASE entry[e] = None
      BY <2>1, <3>1, SameLeases DEF Publish
    <3>2. CASE entry[e] # None
      BY <2>1, <3>2, FenceLeases DEF Publish, TypeOK
    <3> QED
      BY <3>1, <3>2
  <2>2. ASSUME NEW l \in Location, ClaimPartsDeletion(l)
        PROVE  LeasesExpire
    BY <2>2, WithoutExpiredLeases DEF ClaimPartsDeletion
  <2> QED
    BY <2>1, <2>2, StepKinds, ComposerFrame, LookupFrame, WorkerFrame,
       SameLeases
       DEF Publish, CommitFinalize, ClaimPartsDeletion, LoseObjects,
           FencingStep, Fencing, QuietStep, procVars, dbVars
<1> QED
  BY <1>3, <1>4, <1>5, <1>6

-----------------------------------------------------------------------------
(* The invariant, and what follows from it.                                *)

LEMMA InitLifecycle == Init => LifecycleInv
<1> SUFFICES ASSUME Init PROVE LifecycleInv
  OBVIOUS
<1> USE SetAssumption DEF Init
<1>1. RowInv /\ EntryInv
  BY DEF RowInv, OutcomeDecidedOnce, EntryInv
<1>2. LeaseInv /\ SnapshotInv /\ UrlInv
  BY DEF LeaseInv, SnapshotInv, UrlInv, NoLease, IdleReader
<1>3. TaskInv /\ ObjectInv
  BY DEF TaskInv, Pending, ObjectInv, IdleWorker
<1>4. ComposerInv /\ ProberInv
  BY DEF ComposerInv, ProberInv, IdleComposer, IdleProber
<1> QED
  BY <1>1, <1>2, <1>3, <1>4, InitType DEF LifecycleInv

(* The inductive invariant of rows, leases, snapshots, tasks and objects   *)
(* holds in every reachable state.                                         *)
THEOREM LifecycleCorrect == Spec => []LifecycleInv
<1>1. TypeOK /\ TypeOK' /\ LifecycleInv /\ [Next]_vars => LifecycleInv'
  BY RowInvKept, EntryInvKept, LeaseInvKept, SnapshotInvKept, TaskInvKept,
     ObjectInvKept, ComposerInvKept, UrlInvKept, ProberInvKept
     DEF LifecycleInv
<1> QED
  BY <1>1, InitLifecycle, TypeCorrect, PTL DEF Spec

(* No download ever loses, under an unexpired lease, the objects it reads: *)
(* a live lease on parts keeps them from being claimed and one on the      *)
(* merged object is on a merged row, so that the row vouches for them.     *)
THEOREM ReadersAreSafe == Spec => []ReadersSafe
<1>1. TypeOK /\ LifecycleInv => ReadersSafe
  <2> SUFFICES ASSUME TypeOK, LifecycleInv, NEW r \in Reader,
                      lease[r].left > 0
               PROVE  Readable(lease[r].loc, lease[r].scope)
    BY DEF ReadersSafe
  <2>1. lease[r].loc # None /\ lease[r].loc \in rows
    BY DEF LifecycleInv, LeaseInv, NoLease
  <2>2. lease[r].scope \in {"parts", "storage"}
    BY DEF TypeOK, Lease
  <2> QED
    BY <2>1, <2>2 DEF LifecycleInv, LeaseInv, ObjectInv
<1> QED
  BY <1>1, TypeCorrect, LifecycleCorrect, PTL

(* An issued URL is backed by a lease that outlives it. *)
THEOREM IssuedUrlsAreSafe == Spec => []IssuedUrlSafe
<1>1. TypeOK /\ LifecycleInv /\ ReadersSafe => IssuedUrlSafe
  <2> SUFFICES ASSUME TypeOK, LifecycleInv, ReadersSafe,
                      NEW r \in Reader, reader[r].pc = "url",
                      reader[r].urlLeft > 0
               PROVE  Readable(reader[r].loc, reader[r].scope)
    BY DEF IssuedUrlSafe
  <2>1. reader[r].urlLeft \in Nat /\ lease[r].left \in Nat
    BY DEF TypeOK, ReaderState, Lease
  <2>2. lease[r].left > 0
    BY <2>1 DEF LifecycleInv, UrlInv
  <2> QED
    BY <2>2 DEF LifecycleInv, UrlInv, ReadersSafe
<1> QED
  BY <1>1, TypeCorrect, LifecycleCorrect, ReadersAreSafe, PTL

(* A cache entry always references an unfenced row with its objects. *)
THEOREM EntriesAreServable == Spec => []EntriesServable
<1>1. LifecycleInv => EntriesServable
  BY DEF LifecycleInv, RowInv, EntryInv, ObjectInv, EntriesServable
<1> QED
  BY <1>1, LifecycleCorrect, PTL

(* A composer that owns its lease has its sources. *)
THEOREM ComposerSourcesAreSafe == Spec => []ComposerSourcesSafe
<1>1. LifecycleInv => ComposerSourcesSafe
  BY DEF LifecycleInv, RowInv, ObjectInv, ComposerSourcesSafe,
         OwnsMaterialization, Lockable
<1> QED
  BY <1>1, LifecycleCorrect, PTL

(* Neither a download nor a composer loses objects under its lease. *)
THEOREM LeasedObjectsAreSafe == Spec => []LeasedObjectsSafe
  BY ReadersAreSafe, ComposerSourcesAreSafe, PTL DEF LeasedObjectsSafe

(* No location is both merged and marked unsupported. *)
THEOREM OutcomeIsDecidedOnce == Spec => []OutcomeDecidedOnce
<1>1. LifecycleInv => OutcomeDecidedOnce
  BY DEF LifecycleInv, RowInv
<1> QED
  BY <1>1, LifecycleCorrect, PTL

(* An unexpired materialization lease is given up by its composer alone:   *)
(* fencing keeps it, and the row cannot be deleted while it lasts.         *)
THEOREM MergeLeasesAreKept == Spec => MergeLeaseKept
<1> DEFINE Kept ==
      \A l \in Location :
        holder[l] # None /\ mergeLeft[l] > 0 /\ holder'[l] # holder[l]
        => /\ composer[holder[l]].loc = l
           /\ composer'[holder[l]].pc = "idle"
<1>1. TypeOK /\ LifecycleInv /\ [Next]_vars => Kept
  <2> SUFFICES ASSUME TypeOK, LifecycleInv, [Next]_vars, NEW l \in Location,
                      holder[l] # None, mergeLeft[l] > 0,
                      holder'[l] # holder[l]
               PROVE  /\ composer[holder[l]].loc = l
                      /\ composer'[holder[l]].pc = "idle"
    OBVIOUS
  <2> USE DEF ActiveMaterialization
  <2>1. l \notin finalizing
    BY DEF LifecycleInv, RowInv
  <2>2. ~\E m \in Location : CommitFinalize(m)
    BY <2>1 DEF CommitFinalize, TypeOK
  <2>3. ComposerStep
    BY <2>2, StepKinds, ReaderFrame, LookupFrame, WorkerFrame
       DEF Publish, ClaimPartsDeletion, LoseObjects, FencingStep, Fencing,
           Tick, QuietStep, dbVars
  <2>4. PICK c \in Composer : \/ FinishMaterialization(c)
                             \/ MarkMaterializationUnsupported(c)
                             \/ ReleaseMaterialization(c)
    BY <2>3 DEF ComposerStep, AcquireMaterialization, RenewMaterialization,
       ComposeObjects, ComposeFails, CrashComposer, dbVars, TypeOK
  <2>5. composer[c].loc = l /\ holder[l] = c
    BY <2>4 DEF FinishMaterialization, MarkMaterializationUnsupported,
       ReleaseMaterialization, OwnsMaterialization, TypeOK
  <2>6. composer' = [composer EXCEPT ![c] = IdleComposer]
    BY <2>4, <2>5 DEF FinishMaterialization, MarkMaterializationUnsupported,
       ReleaseMaterialization
  <2> QED
    BY <2>5, <2>6 DEF TypeOK, IdleComposer
<1> QED
  BY <1>1, TypeCorrect, LifecycleCorrect, PTL DEF Spec, MergeLeaseKept

(* Only the lookup itself ends a lookup. *)
LEMMA OthersKeepLookups ==
  ASSUME TypeOK, NEW o \in Prober, prober[o].pc = "missing",
         prober'[o].pc = "idle", [Next]_vars
  PROVE  PurgeDanglingCacheEntryIfUnchanged(o)
<1>1. \A l : Bumped(l)[o].pc = "missing"
  <2>1. prober[o] \in ProberState
    BY DEF TypeOK
  <2> QED
    BY <2>1 DEF Bumped, ProberState
<1>2. ~UNCHANGED prober /\ \A l : ~Bump(l)
  BY <1>1 DEF Bump
<1>3. ~LocationStep
  BY <1>2 DEF LocationStep, Publish, DeleteCacheEntry,
     RequestLocationDeletion, RequestExpiredLocationDeletion,
     RequestCapacityEviction, BeginFinalize, CommitFinalize, AbortFinalize,
     ClaimPartsDeletion, LoseObjects, procVars
<1>4. ~ReaderStep
  BY <1>2 DEF ReaderStep, PurgeExpiredReaderLeases, AcquireRead, InsertLease,
     RetryAcquire, RenewReader, CloseReader, ReleaseReader, SignURL,
     ExtendDirectReader, CrashReader, RestartReader, procVars
<1>5. ~ComposerStep
  BY <1>2 DEF ComposerStep, AcquireMaterialization, RenewMaterialization,
     ComposeObjects, ComposeFails, FinishMaterialization,
     MarkMaterializationUnsupported, ReleaseMaterialization, CrashComposer
<1>6. ~WorkerStep /\ ~Tick /\ ~UNCHANGED vars
  BY <1>2 DEF WorkerStep, ReadTask, DeleteFolder, CompleteTask, AbandonTask,
     Tick, vars, procVars
<1>7. ASSUME NEW p \in Prober,
             \/ \E e \in Entry : ObserveLocation(p, e)
             \/ ProbeRepresentation(p)
             \/ PurgeDanglingCacheEntryIfUnchanged(p)
      PROVE  p = o /\ PurgeDanglingCacheEntryIfUnchanged(p)
  <2>1. CASE p # o
    <3>1. prober'[o] = prober[o] \/ \E l : prober'[o] = Bumped(l)[o]
      BY <1>7, <2>1 DEF ObserveLocation, ProbeRepresentation,
         PurgeDanglingCacheEntryIfUnchanged, TypeOK, Bumped
    <3> QED
      BY <1>1, <3>1
  <2>2. CASE p = o
    BY <1>7, <2>2 DEF ObserveLocation, ProbeRepresentation
  <2> QED
    BY <2>1, <2>2
<1> QED
  BY <1>3, <1>4, <1>5, <1>6, <1>7 DEF Next, ProberStep

(* A lookup never detaches an entry whose objects the server still vouches *)
(* for: what it found missing and did not see superseded was really lost.  *)
THEOREM PurgesOnlyDangling == Spec => PurgeOnlyDangling
<1> DEFINE OnlyDangling ==
      \A o \in Prober, e \in Entry :
        /\ prober[o].pc = "missing" /\ prober'[o].pc = "idle"
        /\ entry[e] = prober[o].loc /\ entry'[e] = None
        => prober[o].loc \in lost
<1>1. TypeOK /\ LifecycleInv /\ [Next]_vars => OnlyDangling
  <2> SUFFICES ASSUME TypeOK, LifecycleInv, [Next]_vars,
                      NEW o \in Prober, NEW e \in Entry,
                      prober[o].pc = "missing", prober'[o].pc = "idle",
                      entry[e] = prober[o].loc, entry'[e] = None
               PROVE  prober[o].loc \in lost
    OBVIOUS
  <2>1. PurgeDanglingCacheEntryIfUnchanged(o)
    BY OthersKeepLookups
  <2>2. prober[o].loc \in Location
    BY DEF LifecycleInv, ProberInv, TypeOK
  <2>3. entry' # entry
    BY <2>2, SetAssumption
  <2>4. Unchanged(o)
    BY <2>1, <2>3 DEF PurgeDanglingCacheEntryIfUnchanged
  <2> QED
    BY <2>2, <2>4 DEF Unchanged, Lockable, LifecycleInv, ProberInv
<1> QED
  BY <1>1, TypeCorrect, LifecycleCorrect, PTL DEF Spec, PurgeOnlyDangling
=============================================================================
