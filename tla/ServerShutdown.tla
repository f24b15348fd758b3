---------------------------- MODULE ServerShutdown ----------------------------
(***************************************************************************)
(* How the server process stops (cmd/server/main.go): requests, the merges *)
(* they start in the background (the merge slots of cache/service.go), the *)
(* background services and the releaser of reader leases, which is module  *)
(* ReaderLeaseReleaser.                                                    *)
(*                                                                         *)
(* A signal makes main cancel the background services, refuse new merges,  *)
(* and wait, under one deadline, for requests, merges and services, and    *)
(* then drain the releaser.  Either it then closes the database and ends,  *)
(* or a wait failed and the process dies with everything that still runs.  *)
(*                                                                         *)
(* A request may start a merge, and then stream under a reader lease.      *)
(***************************************************************************)
EXTENDS Naturals, Sequences, FiniteSets

CONSTANTS
  Request,
  Load,                    \* which of them come, and which could merge
  MergeConcurrency,
  BatchSize, MaxPending    \* of the releaser

(* newReaderLeaseReleaserWithOptions raises smaller sizes to these. *)
ASSUME ShutdownAssumption ==
  /\ IsFiniteSet(Request)
  /\ MergeConcurrency \in Nat \ {0}
  /\ BatchSize \in Nat \ {0} /\ MaxPending \in Nat
  /\ BatchSize <= MaxPending
  /\ Load \subseteq [Request -> {"merge", "stream", "absent"}]

VARIABLES
  main,         \* what main waits for
  expired,      \* the shutdown timeout has passed
  server,       \* server.Shutdown
  background,   \* the background services
  request,
  accepting,    \* acceptingMerges
  slots,        \* merge slots taken
  mergeWG,      \* the count of the wait group
  merge,        \* the merge each request started
  mergeWait,    \* WaitForMerges
  mergesDone    \* its channel done is closed

(* The releaser: r is its state, one variable of ReaderLeaseReleaser each. *)
VARIABLES
  rAccepting, workerStarted, queue, cancelled, worker, batch, timer, download,
  calls, stopper

Releaser == INSTANCE ReaderLeaseReleaser
  WITH Lease <- Request, Stopper <- {"main"}, accepting <- rAccepting

serverVars == <<main, expired, server, background>>
mergeVars == <<accepting, slots, mergeWG, merge, mergeWait, mergesDone>>
releaserVars == <<rAccepting, workerStarted, queue, cancelled, worker, batch,
                  timer, download, calls, stopper>>
vars == <<serverVars, request, mergeVars, releaserVars>>

TypeOK ==
  /\ main \in {"serving", "signalled", "server", "releaser", "merges",
               "background", "stopped", "died"}
  /\ expired \in BOOLEAN
  /\ server \in {"up", "closing", "closed", "failed"}
  /\ background \in {"running", "cancelled", "done"}
  /\ request \in [Request -> {"merge", "stream", "absent", "mergeable",
                              "connected", "merging", "streaming", "closing",
                              "done"}]
  /\ accepting \in BOOLEAN
  /\ slots \in 0 .. MergeConcurrency
  /\ mergeWG \in 0 .. Cardinality(Request)
  /\ merge \in [Request -> {"none", "acquiring", "composing", "freed", "over"}]
  /\ mergeWait \in {"off", "waiting", "cancelled", "done", "failed"}
  /\ mergesDone \in BOOLEAN
  /\ Releaser!TypeOK

Init ==
  /\ main = "serving" /\ expired = FALSE
  /\ server = "up" /\ background = "running"
  /\ request \in Load
  /\ accepting = TRUE /\ slots = 0 /\ mergeWG = 0
  /\ merge = [q \in Request |-> "none"]
  /\ mergeWait = "off" /\ mergesDone = FALSE
  /\ Releaser!Init

-----------------------------------------------------------------------------
(* Requests.  A connection that was accepted may become a request after    *)
(* the listener was closed; Shutdown waits for it.                         *)

Connect(q) ==
  /\ request[q] \in {"merge", "stream"}
  /\ server = "up"
  /\ request' = [request EXCEPT ![q] = IF @ = "merge" THEN "mergeable"
                                                     ELSE "connected"]
  /\ UNCHANGED <<serverVars, mergeVars, releaserVars>>

(* reserveMerge, under its mutex.  Fault: merges are not refused. *)
NeverStopped == TRUE
AcceptsMerges == accepting

ReserveMerge(q) ==
  /\ request[q] = "mergeable"
  /\ AcceptsMerges
  /\ slots < MergeConcurrency
  /\ slots' = slots + 1
  /\ mergeWG' = mergeWG + 1
  /\ merge' = [merge EXCEPT ![q] = "acquiring"]
  /\ request' = [request EXCEPT ![q] = "merging"]
  /\ UNCHANGED <<serverVars, accepting, mergeWait, mergesDone, releaserVars>>

(* There is nothing to merge, or no merge may be started. *)
OpenStream(q) ==
  /\ request[q] \in {"mergeable", "connected"}
  /\ request' = [request EXCEPT ![q] = "streaming"]
  /\ UNCHANGED <<serverVars, mergeVars, releaserVars>>

(* The lease is acquired and the merge goes on in the background. *)
AcquireMaterialization(q) ==
  /\ merge[q] = "acquiring"
  /\ merge' = [merge EXCEPT ![q] = "composing"]
  /\ request' = [request EXCEPT ![q] = "streaming"]
  /\ UNCHANGED <<serverVars, accepting, slots, mergeWG, mergeWait, mergesDone,
                 releaserVars>>

(* finishReservedMerge, after the merge or after the lease was not given.  *)
FreeSlot(q) ==
  /\ merge[q] \in {"acquiring", "composing"}
  /\ merge' = [merge EXCEPT ![q] = "freed"]
  /\ slots' = slots - 1
  /\ UNCHANGED <<serverVars, request, accepting, mergeWG, mergeWait,
                 mergesDone, releaserVars>>

MergeIsDone(q) ==
  /\ merge[q] = "freed"
  /\ merge' = [merge EXCEPT ![q] = "over"]
  /\ mergeWG' = mergeWG - 1
  /\ request' = IF request[q] = "merging"
                  THEN [request EXCEPT ![q] = "streaming"] ELSE request
  /\ UNCHANGED <<serverVars, accepting, slots, mergeWait, mergesDone,
                 releaserVars>>

(* The download ends and its lease goes to the releaser. *)

CloseStream(q) ==
  /\ request[q] = "streaming"
  /\ Releaser!Enqueue(q)
  /\ request' = [request EXCEPT ![q] = IF download'[q] = "accepted" THEN "done"
                                                               ELSE "closing"]
  /\ UNCHANGED <<serverVars, mergeVars>>

ReleaseInline(q) ==
  /\ request[q] = "closing"
  /\ Releaser!ReleaseInline(q)
  /\ request' = [request EXCEPT ![q] = "done"]
  /\ UNCHANGED <<serverVars, mergeVars>>

(* A request without a download: a lookup or a completed upload. *)
EndRequest(q) ==
  /\ request[q] = "streaming"
  /\ request' = [request EXCEPT ![q] = "done"]
  /\ UNCHANGED <<serverVars, mergeVars, releaserVars>>

RequestStep(q) ==
  \/ Connect(q)
  \/ ReserveMerge(q)
  \/ OpenStream(q)
  \/ AcquireMaterialization(q)
  \/ FreeSlot(q)
  \/ MergeIsDone(q)
  \/ CloseStream(q)
  \/ ReleaseInline(q)
  \/ EndRequest(q)

-----------------------------------------------------------------------------
(* main. *)

(* backgroundCancel. *)
Signal ==
  /\ main = "serving"
  /\ main' = "signalled"
  /\ background' = "cancelled"
  /\ UNCHANGED <<expired, server, request, mergeVars, releaserVars>>

(* The listener fails. *)
ServeFails ==
  /\ main = "serving"
  /\ main' = "died"
  /\ UNCHANGED <<expired, server, background, request, mergeVars, releaserVars>>

StopAcceptingMerges ==
  /\ main = "signalled"
  /\ accepting
  /\ accepting' = FALSE
  /\ UNCHANGED <<serverVars, request, slots, mergeWG, merge, mergeWait,
                 mergesDone, releaserVars>>

StartWaiting ==
  /\ main = "signalled"
  /\ ~accepting
  /\ main' = "server"
  /\ server' = "closing"
  /\ mergeWait' = "waiting"
  /\ UNCHANGED <<expired, background, request, accepting, slots, mergeWG,
                 merge, mergesDone, releaserVars>>

TimeOut ==
  /\ main \in {"server", "releaser", "merges", "background"}
  /\ ~expired
  /\ expired' = TRUE
  /\ UNCHANGED <<main, server, background, request, mergeVars, releaserVars>>

(* server.Shutdown returns. *)
Active(q) == request[q] \notin {"merge", "stream", "absent", "done"}

ServerClosed ==
  /\ server = "closing"
  /\ \/ /\ \A q \in Request : ~Active(q)
        /\ server' = "closed"
     \/ /\ expired
        /\ server' = "failed"
  /\ UNCHANGED <<main, expired, background, request, mergeVars, releaserVars>>

(* The goroutine in WaitForMerges sees the count at zero. *)
NoMergesLeft ==
  /\ mergeWait # "off"
  /\ ~mergesDone
  /\ mergeWG = 0
  /\ mergesDone' = TRUE
  /\ UNCHANGED <<serverVars, request, accepting, slots, mergeWG, merge,
                 mergeWait, releaserVars>>

(* Fault: after mergeCancel the merges are waited for without a limit. *)
OnlyIfDone == mergesDone
DoneOrTimedOut == TRUE

WaitForMerges ==
  /\ \/ /\ mergeWait = "waiting"
        /\ mergesDone
        /\ mergeWait' = "done"
     \/ /\ mergeWait = "waiting"
        /\ expired /\ ~mergesDone
        /\ mergeWait' = "cancelled"
     \/ /\ mergeWait = "cancelled"
        /\ DoneOrTimedOut
        /\ mergeWait' = "failed"
  /\ UNCHANGED <<serverVars, request, accepting, slots, mergeWG, merge,
                 mergesDone, releaserVars>>

BackgroundDone ==
  /\ background = "cancelled"
  /\ background' = "done"
  /\ UNCHANGED <<main, expired, server, request, mergeVars, releaserVars>>

(* ShutdownReaderLeaseReleaser, once server.Shutdown has returned. *)
StopReleaser ==
  /\ main = "server"
  /\ server \in {"closed", "failed"}
  /\ Releaser!BeginShutdown("main")
  /\ main' = "releaser"
  /\ UNCHANGED <<expired, server, background, request, mergeVars>>

WaitForReleaser ==
  /\ \/ Releaser!WorkerIsDone("main")
     \/ expired /\ Releaser!CancelWorker("main")
     \/ Releaser!ReturnCancelled("main")
  /\ UNCHANGED <<serverVars, request, mergeVars>>

ReleaserStopped ==
  /\ main = "releaser"
  /\ stopper["main"] \in {"drained", "abandoned"}
  /\ main' = "merges"
  /\ UNCHANGED <<expired, server, background, request, mergeVars, releaserVars>>

MergesStopped ==
  /\ main = "merges"
  /\ mergeWait \in {"done", "failed"}
  /\ main' = "background"
  /\ UNCHANGED <<expired, server, background, request, mergeVars, releaserVars>>

(* The last wait ends, and its errors and those of the others are looked at. *)
(* Fault: that of the merges is only logged.                                 *)
ServerAndBackground == server = "closed" /\ background = "done"
AllWaitsSucceeded ==
  server = "closed" /\ mergeWait = "done" /\ background = "done"

Exit ==
  /\ main = "background"
  /\ background = "done" \/ expired
  /\ main' = IF AllWaitsSucceeded THEN "stopped" ELSE "died"
  /\ UNCHANGED <<expired, server, background, request, mergeVars, releaserVars>>

MainStep ==
  \/ StopAcceptingMerges \/ StartWaiting \/ StopReleaser \/ ReleaserStopped
  \/ MergesStopped \/ Exit

ReleaserStep ==
  /\ Releaser!WorkerStep \/ Releaser!TimerExpires
  /\ UNCHANGED <<serverVars, request, mergeVars>>

(* Nothing runs once the process has ended. *)
Next ==
  /\ main \notin {"stopped", "died"}
  /\ \/ \E q \in Request : RequestStep(q)
     \/ Signal \/ ServeFails \/ TimeOut
     \/ MainStep
     \/ ServerClosed \/ BackgroundDone \/ NoMergesLeft \/ WaitForMerges
     \/ WaitForReleaser \/ ReleaserStep

Spec == Init /\ [][Next]_vars

-----------------------------------------------------------------------------
(* Safety. *)

Merging(q) == merge[q] \in {"acquiring", "composing"}

(* No more merges run than there are slots, also while others give theirs  *)
(* back, and the wait group counts each until it is over.                  *)
MergesBounded ==
  /\ Cardinality({q \in Request : Merging(q)}) = slots
  /\ slots <= MergeConcurrency
  /\ mergeWG = Cardinality({q \in Request : merge[q] \notin {"none", "over"}})

(* WaitForMerges succeeds only when the last merge is over, and none can   *)
(* start after it, though requests still do.                               *)
NoMergeAfterWait ==
  mergesDone => \A q \in Request : merge[q] \in {"none", "over"}

(* What holds of merges and of the releaser while everything shuts down:   *)
(* the bounds above, a flush timer under every batch, and leases released  *)
(* when the releaser's Shutdown has returned.                              *)
ShutdownInv ==
  /\ TypeOK
  /\ MergesBounded
  /\ NoMergeAfterWait
  /\ Releaser!BatchIsTimed
  /\ Releaser!ShutdownDrains

(* Every lease a download gives back is released once, by the worker or by *)
(* the download, whichever of queue, full queue and Shutdown it meets.     *)
LeasesReleasedOnce == Releaser!ReleasedOnce

(* The database is closed (main returns) only when nothing uses it, that   *)
(* is no request, merge, background service or release of leases; and then *)
(* no reader lease was left to expire by itself.                           *)
StopIsComplete ==
  main = "stopped" =>
    /\ \A q \in Request : ~Active(q) /\ merge[q] \in {"none", "over"}
    /\ background = "done"
    /\ worker \in {"none", "done"}
    /\ ~cancelled =>
         \A q \in Request : download[q] # "open" => calls[q] = 1
=============================================================================
