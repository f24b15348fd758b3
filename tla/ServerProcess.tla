----------------------------- MODULE ServerProcess -----------------------------
(***************************************************************************)
(* The server process (cmd/server/main.go) from its start to its end.  The *)
(* background services run their loops (BackgroundRuns), and the cleanup   *)
(* runner its jobs (CleanupPasses), until main cancels them; the rest of   *)
(* main stops requests, merges and the releaser of leases, and waits for   *)
(* those services as for something that may or may not end in time         *)
(* (ServerShutdown).  They share nothing but that call and that wait, so a *)
(* behaviour is one of the one or one of the others.                       *)
(***************************************************************************)
EXTENDS ServerShutdown

CONSTANTS RetryInitial, RetryMaximum,
  Row, PageSize, RetryBase, RetryMost, StuckFolders, MaxAttempts, MaxTroubles

VARIABLE side   \* which of them is looked at

VARIABLES stopped, ready, reconcile, capacity, trigger, ticker, retry, retryDelay,
  orphans, readySignal, readyTimer, periodicTimer, unseen, failures
VARIABLES job, rows, stuck, pass, troubles

Services == INSTANCE BackgroundRuns
Cleaning == INSTANCE CleanupPasses

ASSUME ServicesAssumption == Services!RetryAssumption /\ Cleaning!PassAssumption

loopVars == <<ready, reconcile, capacity, trigger, ticker, retry,
  retryDelay, orphans, readySignal, readyTimer, periodicTimer, unseen, failures>>
passVars == <<job, rows, stuck, pass, troubles>>
processVars == <<side, stopped, vars, loopVars, passVars>>

ByMain(step) == side = "main" /\ step /\ UNCHANGED <<side, stopped, loopVars, passVars>>
ByServices(step) == side = "services" /\ step /\ UNCHANGED <<side, vars, passVars>>
ByCleanup(step) == side = "cleanup" /\ step /\ UNCHANGED <<side, vars, loopVars>>

(* The sides that are not looked at do nothing.                             *)
NoRequests == Init /\ request = CHOOSE load \in Load : TRUE
NoCleanup == /\ job = "uploads" /\ stuck = {} /\ troubles = 0
             /\ rows = << >> /\ pass = Cleaning!Between

ProcessInit ==
  /\ Services!Init
  /\ \/ side = "main" /\ Init /\ NoCleanup
     \/ side = "services" /\ NoRequests /\ NoCleanup
     \/ side = "cleanup" /\ NoRequests /\ Cleaning!CleanupInit

ProcessNext == ByMain(Next) \/ ByServices(Services!Next) \/ ByCleanup(Cleaning!CleanupNext)

(* Of main: the timeout passes, and main, the waits and the releaser's     *)
(* worker are scheduled; requests and merges need not end.  Of the         *)
(* services: the loops are scheduled, their jobs end and timers expire;    *)
(* neither the reconciliation nor a pass has to succeed, nor a select to   *)
(* prefer the end of the context to another case.  Of a cleanup job: it is *)
(* scheduled, and time passes.                                             *)
ProcessSpec ==
  /\ ProcessInit /\ [][ProcessNext]_processVars
  /\ WF_processVars(ByMain(TimeOut) \/ ByServices(Services!TickerTicks)
                      \/ ByCleanup(Cleaning!Tick))
  /\ WF_processVars(ByMain(MainStep) \/ ByServices(Services!ReconcileStep)
                      \/ ByCleanup(Cleaning!PassStep))
  /\ WF_processVars(ByMain(ServerClosed) \/ ByServices(Services!RetryExpires))
  /\ WF_processVars(ByMain(NoMergesLeft) \/ ByServices(Services!ReadyTimerExpires))
  /\ WF_processVars(ByMain(WaitForMerges) \/ ByServices(Services!CapacityStep))
  /\ WF_processVars(ByMain(WaitForReleaser) \/ ByServices(Services!PeriodicTimerExpires))
  /\ WF_processVars(ByMain(ReleaserStep) \/ ByServices(Services!OrphanStep))

-----------------------------------------------------------------------------
(* At every step of a shutdown: no more merges than slots and none after   *)
(* the wait for them, every lease a download gives back released once,     *)
(* whichever of queue, full queue and Shutdown it meets, and the database  *)
(* closed (main returns) only when nothing uses it.                        *)
ProcessInv == ShutdownInv /\ LeasesReleasedOnce /\ StopIsComplete

(* At every step of the loops of the services: nothing is evicted before   *)
(* the gate opens, no trigger and no retry is lost, no orphan scan follows *)
(* another at once (storagecapacity.Service.Run, cleanup.Runner); and a    *)
(* pass of a cleanup job that was not cut short has dealt with every row   *)
(* it had reason to, whatever left, appeared or was attempted between its  *)
(* pages (cleanup.Service).                                                *)
RunsInv == Services!RunsInv /\ Cleaning!PassesComplete

(* A signal ends the process, whatever hangs, and backgroundServices.Wait  *)
(* returns after a cancel, whatever pass, job or scan it cuts short.       *)
SignalEndsProcess ==
  (IF side = "main" THEN main = "signalled" ELSE stopped)
    ~> CASE side = "main" -> main \in {"stopped", "died"}
         [] side = "services" -> reconcile = "done" /\ capacity = "done" /\ orphans = "done"
         [] side = "cleanup" -> pass.at = "done"

(* A lease that waits in the releaser; every request has one download.      *)
Accepted(q) ==
  download[q] = "accepted" /\ calls[q] = 0 /\ ~cancelled /\ main \notin {"stopped", "died"}

(* No lease the releaser accepted stays in memory for ever, even if no     *)
(* other download follows that would fill the batch; orphans are looked    *)
(* for again and again, whether or not the gate opens; and the jobs leave  *)
(* nothing but folders that can never be deleted, which keep no other task *)
(* waiting, nor a row that is held for a while the pass that met it.       *)
NothingForgotten ==
  (side = "main" => \E q \in Request : Accepted(q))
    ~> CASE side = "main" -> \A q \in Request : ~Accepted(q)
         [] side = "services" -> orphans = "job" \/ stopped
         [] side = "cleanup" -> Cleaning!CleanedUp \/ stopped
=============================================================================
