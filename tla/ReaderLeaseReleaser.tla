------------------------- MODULE ReaderLeaseReleaser -------------------------
(***************************************************************************)
(* The batched release of reader leases                                    *)
(* (internal/cache/reader_lease_releaser.go).  Closed downloads hand their *)
(* lease to a bounded queue; one worker, started by the first of them,     *)
(* deletes the leases in batches, when a batch is full or its oldest lease *)
(* has waited for the flush delay.  Shutdown closes the queue and waits    *)
(* for the worker, or cancels it.                                          *)
(*                                                                         *)
(* Enqueue and the first half of Shutdown hold the mutex and are one step. *)
(* The worker's select takes any case that is ready.  A call of release is *)
(* a step of its own, so everything else may happen while it runs.  What   *)
(* becomes of the rows is StorageLifecycle's; here a release is a call     *)
(* that was made, successful or not, because it is never repeated.         *)
(***************************************************************************)
EXTENDS Naturals, Sequences, SequencesExt

CONSTANTS
  Lease,       \* the leases of the downloads, each closed once
  Stopper,     \* callers of Shutdown
  BatchSize,
  MaxPending   \* capacity of the queue, at least BatchSize

VARIABLES
  accepting, workerStarted, queue, cancelled,
  worker,     \* where the worker is
  batch,
  timer,      \* "off" when the select does not listen to it
  download,   \* what became of the lease of each download
  calls,      \* releases called for each lease
  stopper

vars == <<accepting, workerStarted, queue, cancelled, worker, batch, timer,
          download, calls, stopper>>

TypeOK ==
  /\ accepting \in BOOLEAN /\ workerStarted \in BOOLEAN
  /\ cancelled \in BOOLEAN
  /\ queue \in Seq(Lease) /\ Len(queue) <= MaxPending
  /\ batch \in Seq(Lease) /\ Len(batch) <= BatchSize
  /\ worker \in {"none", "select", "full", "flush", "last", "done"}
  /\ timer \in {"off", "running", "fired"}
  /\ download \in [Lease -> {"open", "accepted", "refused", "inline"}]
  /\ calls \in [Lease -> Nat]
  /\ stopper \in [Stopper -> {"idle", "waiting", "cancelling", "drained",
                              "abandoned"}]

Init ==
  /\ accepting = TRUE /\ workerStarted = FALSE /\ cancelled = FALSE
  /\ queue = <<>> /\ batch = <<>>
  /\ worker = "none" /\ timer = "off"
  /\ download = [l \in Lease |-> "open"]
  /\ calls = [l \in Lease |-> 0]
  /\ stopper = [s \in Stopper |-> "idle"]

(* The queue is closed by the first Shutdown if a worker reads it. *)
Closed == ~accepting /\ workerStarted

-----------------------------------------------------------------------------
(* Downloads. *)

Enqueue(l) ==
  /\ download[l] = "open"
  /\ IF accepting
       THEN /\ workerStarted' = TRUE
            /\ worker' = IF workerStarted THEN worker ELSE "select"
            /\ IF Len(queue) < MaxPending
                 THEN /\ queue' = Append(queue, l)
                      /\ download' = [download EXCEPT ![l] = "accepted"]
                 ELSE /\ download' = [download EXCEPT ![l] = "refused"]
                      /\ UNCHANGED queue
       ELSE /\ download' = [download EXCEPT ![l] = "refused"]
            /\ UNCHANGED <<workerStarted, worker, queue>>
  /\ UNCHANGED <<accepting, cancelled, batch, timer, calls, stopper>>

(* enqueueReaderLeaseRelease releases what was refused itself. *)
ReleaseInline(l) ==
  /\ download[l] = "refused"
  /\ download' = [download EXCEPT ![l] = "inline"]
  /\ calls' = [calls EXCEPT ![l] = @ + 1]
  /\ UNCHANGED <<accepting, workerStarted, queue, cancelled, worker, batch,
                 timer, stopper>>

-----------------------------------------------------------------------------
(* Shutdown. *)

BeginShutdown(s) ==
  /\ stopper[s] = "idle"
  /\ accepting' = FALSE
  /\ stopper' = [stopper EXCEPT ![s] = IF workerStarted THEN "waiting"
                                                        ELSE "drained"]
  /\ UNCHANGED <<workerStarted, queue, cancelled, worker, batch, timer,
                 download, calls>>

WorkerIsDone(s) ==
  /\ stopper[s] = "waiting"
  /\ worker = "done"
  /\ stopper' = [stopper EXCEPT ![s] = "drained"]
  /\ UNCHANGED <<accepting, workerStarted, queue, cancelled, worker, batch,
                 timer, download, calls>>

(* Its context is done first: the worker is cancelled and waited for.      *)
CancelWorker(s) ==
  /\ stopper[s] = "waiting"
  /\ cancelled' = TRUE
  /\ stopper' = [stopper EXCEPT ![s] = "cancelling"]
  /\ UNCHANGED <<accepting, workerStarted, queue, worker, batch, timer,
                 download, calls>>

ReturnCancelled(s) ==
  /\ stopper[s] = "cancelling"
  /\ worker = "done"
  /\ stopper' = [stopper EXCEPT ![s] = "abandoned"]
  /\ UNCHANGED <<accepting, workerStarted, queue, cancelled, worker, batch,
                 timer, download, calls>>

-----------------------------------------------------------------------------
(* The worker. *)

(* Fault: the length is taken before the lease is appended. *)
StartsEmpty(b) == Len(b) = 0
StartsBatch(b) == Len(b) = 1

TakeLease ==
  /\ worker = "select"
  /\ queue # <<>>
  /\ LET b == Append(batch, Head(queue)) IN
     /\ batch' = b
     /\ IF Len(b) = BatchSize
          THEN worker' = "full" /\ timer' = "off"
          ELSE /\ timer' = IF StartsBatch(b) THEN "running" ELSE timer
               /\ UNCHANGED worker
  /\ queue' = Tail(queue)
  /\ UNCHANGED <<accepting, workerStarted, cancelled, download, calls, stopper>>

TimerExpires ==
  /\ timer = "running"
  /\ timer' = "fired"
  /\ UNCHANGED <<accepting, workerStarted, queue, cancelled, worker, batch,
                 download, calls, stopper>>

Flush ==
  /\ worker = "select"
  /\ timer = "fired"
  /\ timer' = "off"
  /\ worker' = "flush"
  /\ UNCHANGED <<accepting, workerStarted, queue, cancelled, batch, download,
                 calls, stopper>>

QueueIsClosed ==
  /\ worker = "select"
  /\ Closed
  /\ queue = <<>>
  /\ worker' = IF batch = <<>> THEN "done" ELSE "last"
  /\ timer' = "off"
  /\ UNCHANGED <<accepting, workerStarted, queue, cancelled, batch, download,
                 calls, stopper>>

AbandonLeases ==
  /\ worker = "select"
  /\ cancelled
  /\ worker' = "done"
  /\ timer' = "off"
  /\ UNCHANGED <<accepting, workerStarted, queue, cancelled, batch, download,
                 calls, stopper>>

(* Fault: the batch is not cut to length zero. *)
KeptBatch(b) == b
NextBatch(b) == <<>>

(* releaseBatch returns.  A cancelled worker stops, a failure is logged    *)
(* and its leases are left to expire.                                      *)
ReleaseBatch ==
  /\ worker \in {"full", "flush", "last"}
  /\ calls' = [l \in Lease |-> IF l \in ToSet(batch) THEN calls[l] + 1
                                                     ELSE calls[l]]
  /\ batch' = NextBatch(batch)
  /\ worker' = IF worker = "last" \/ cancelled THEN "done" ELSE "select"
  /\ UNCHANGED <<accepting, workerStarted, queue, cancelled, timer, download,
                 stopper>>

WorkerStep ==
  TakeLease \/ Flush \/ QueueIsClosed \/ AbandonLeases \/ ReleaseBatch

StopperStep(s) ==
  \/ BeginShutdown(s)
  \/ WorkerIsDone(s)
  \/ CancelWorker(s)
  \/ ReturnCancelled(s)

Next ==
  \/ \E l \in Lease : Enqueue(l) \/ ReleaseInline(l)
  \/ \E s \in Stopper : StopperStep(s)
  \/ WorkerStep
  \/ TimerExpires

Spec == Init /\ [][Next]_vars

-----------------------------------------------------------------------------
(* Safety. *)

Waiting(l) == l \in ToSet(queue) \cup ToSet(batch)

(* No accepted lease is lost between queue and batch or released again     *)
(* with a later batch: until a release is called for it, it is waiting in  *)
(* one place, and no other place once one was.                             *)
ReleasedOnce ==
  /\ IsInjective(queue \o batch)
  /\ \A l \in Lease :
       /\ calls[l] = (IF ~Waiting(l) /\ download[l] \in {"accepted", "inline"}
                        THEN 1 ELSE 0)
       /\ Waiting(l) => download[l] = "accepted"

(* A batch the worker has begun is always under the flush timer, whatever  *)
(* sequence of full batches, flushes and arrivals precedes.                *)
BatchIsTimed == worker = "select" /\ batch # <<>> => timer # "off"

(* A Shutdown that was not cancelled drains: every lease that was ever     *)
(* accepted, also by an Enqueue racing with it, has been released.  And    *)
(* once one has returned the worker makes no call, and none can start.     *)
ShutdownDrains ==
  \A s \in Stopper :
    /\ stopper[s] = "drained" /\ ~cancelled
         => \A l \in Lease : download[l] = "accepted" => calls[l] = 1
    /\ stopper[s] \in {"drained", "abandoned"}
         => worker \in {"none", "done"} /\ ~accepting
=============================================================================
