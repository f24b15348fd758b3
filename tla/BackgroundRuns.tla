---------------------------- MODULE BackgroundRuns ----------------------------
(***************************************************************************)
(* When background work runs: the reconciliation of sizes, which runs      *)
(* until it succeeds once and then opens a gate (storagereconcile.Run),    *)
(* the capacity eviction behind the gate, driven by finalized uploads, a   *)
(* ticker and retries (storagecapacity.Service.Run), and the cleanup of    *)
(* orphaned folders, which waits for the gate only so long                 *)
(* (cleanup.Runner.runAfterStorageReadyAndPeriodically).                   *)
(*                                                                         *)
(* What the passes do is in other modules; here they succeed or fail.      *)
(* A select takes any case that is ready.  Timers and tickers are "off",   *)
(* running ("on") or "fired", with a value in their channel.               *)
(***************************************************************************)
EXTENDS Naturals

CONSTANTS
  RetryInitial, RetryMaximum   \* of capacity eviction

(* What NewService is given.  (Assumed where this module is used.) *)
RetryAssumption ==
  /\ RetryInitial \in Nat \ {0}
  /\ RetryMaximum \in Nat
  /\ RetryInitial <= RetryMaximum

VARIABLES
  stopped,      \* backgroundCancel was called
  ready,        \* storageSizeReady is closed
  reconcile,    \* where storagereconcile.Run is
  capacity,     \* where storagecapacity.Service.Run is
  trigger,      \* a value is in the trigger channel
  ticker,
  retry,        \* retryTimer, as far as the select listens to it
  retryDelay,
  orphans,      \* where the orphan job is
  readySignal,  \* the orphan job still listens to the gate
  readyTimer, periodicTimer

(* The history of the eviction that its properties speak of. *)
VARIABLES
  unseen,     \* an upload was finalized after the last pass began
  failures    \* passes that failed since the last one that did not

gateVars == <<stopped, ready, reconcile>>
capacityVars == <<capacity, trigger, ticker, retry, retryDelay, unseen, failures>>
orphanVars == <<orphans, readySignal, readyTimer, periodicTimer>>
vars == <<gateVars, capacityVars, orphanVars>>

Timer == {"off", "on", "fired"}

Least(a, b) == IF a <= b THEN a ELSE b

TypeOK ==
  /\ stopped \in BOOLEAN /\ ready \in BOOLEAN
  /\ reconcile \in {"running", "waiting", "done"}
  /\ capacity \in {"gate", "drain", "start", "pass", "select", "done"}
  /\ trigger \in BOOLEAN /\ unseen \in BOOLEAN
  /\ ticker \in Timer /\ retry \in Timer
  /\ retryDelay \in RetryInitial .. RetryMaximum
  /\ failures \in Nat
  /\ orphans \in {"select", "job", "done"}
  /\ readySignal \in BOOLEAN
  /\ readyTimer \in Timer /\ periodicTimer \in Timer

Init ==
  /\ stopped = FALSE /\ ready = FALSE
  /\ reconcile = "running"
  /\ capacity = "gate" /\ trigger = FALSE
  /\ ticker = "off" /\ retry = "off" /\ retryDelay = RetryInitial
  /\ unseen = FALSE /\ failures = 0
  /\ orphans = "select" /\ readySignal = TRUE
  /\ readyTimer = "off" /\ periodicTimer = "on"

BackgroundCancel ==
  /\ ~stopped
  /\ stopped' = TRUE
  /\ UNCHANGED <<ready, reconcile, capacityVars, orphanVars>>

-----------------------------------------------------------------------------
(* storagereconcile.Run. *)

Reconcile(ok) ==
  /\ reconcile = "running"
  /\ IF ok THEN ready' = TRUE /\ reconcile' = "done"
           ELSE /\ reconcile' = IF stopped THEN "done" ELSE "waiting"
                /\ UNCHANGED ready
  /\ UNCHANGED <<stopped, capacityVars, orphanVars>>

ReconcileAgain ==
  /\ reconcile = "waiting"
  /\ reconcile' = "running"
  /\ UNCHANGED <<stopped, ready, capacityVars, orphanVars>>

StopReconciling ==
  /\ reconcile = "waiting"
  /\ stopped
  /\ reconcile' = "done"
  /\ UNCHANGED <<stopped, ready, capacityVars, orphanVars>>

-----------------------------------------------------------------------------
(* storagecapacity.Service. *)

(* An upload was finalized. *)
Trigger ==
  /\ trigger' = TRUE
  /\ unseen' = TRUE
  /\ UNCHANGED <<gateVars, capacity, ticker, retry, retryDelay, failures,
                 orphanVars>>

PassGate ==
  /\ capacity = "gate"
  /\ ready
  /\ capacity' = "drain"
  /\ UNCHANGED <<gateVars, trigger, ticker, retry, retryDelay, unseen,
                 failures, orphanVars>>

StopAtGate ==
  /\ capacity = "gate"
  /\ stopped
  /\ capacity' = "done"
  /\ UNCHANGED <<gateVars, trigger, ticker, retry, retryDelay, unseen,
                 failures, orphanVars>>

(* The startup pass that follows stands for the triggers before it. *)
DrainSignal ==
  /\ capacity = "drain"
  /\ trigger' = FALSE
  /\ ticker' = "on"
  /\ capacity' = "start"
  /\ UNCHANGED <<gateVars, retry, retryDelay, unseen, failures, orphanVars>>

BeginPass ==
  /\ capacity = "start"
  /\ capacity' = "pass"
  /\ unseen' = FALSE
  /\ UNCHANGED <<gateVars, trigger, ticker, retry, retryDelay, failures,
                 orphanVars>>

(* Fault: a cancelled pass is one that failed.                             *)
ResetDelay == RetryInitial
NeverCancelled == FALSE
Cancelled == stopped

PassSucceeds ==
  /\ capacity = "pass"
  /\ ~Cancelled
  /\ capacity' = "select"
  /\ retry' = "off"
  /\ retryDelay' = ResetDelay
  /\ failures' = 0
  /\ UNCHANGED <<gateVars, trigger, ticker, unseen, orphanVars>>

PassFails ==
  /\ capacity = "pass"
  /\ ~Cancelled
  /\ capacity' = "select"
  /\ retry' = "on"
  /\ retryDelay' = Least(retryDelay * 2, RetryMaximum)
  /\ failures' = Least(failures + 1, RetryMaximum)
  /\ UNCHANGED <<gateVars, trigger, ticker, unseen, orphanVars>>

PassIsCancelled ==
  /\ capacity = "pass"
  /\ Cancelled
  /\ capacity' = "done"
  /\ UNCHANGED <<gateVars, trigger, ticker, retry, retryDelay, unseen,
                 failures, orphanVars>>

(* The cases of the select.  A tick or a trigger leaves the retry armed.   *)
TakeTrigger ==
  /\ capacity = "select"
  /\ trigger
  /\ trigger' = FALSE
  /\ capacity' = "start"
  /\ UNCHANGED <<gateVars, ticker, retry, retryDelay, unseen, failures,
                 orphanVars>>

TakeTick ==
  /\ capacity = "select"
  /\ ticker = "fired"
  /\ ticker' = "on"
  /\ capacity' = "start"
  /\ UNCHANGED <<gateVars, trigger, retry, retryDelay, unseen, failures,
                 orphanVars>>

TakeRetry ==
  /\ capacity = "select"
  /\ retry = "fired"
  /\ retry' = "off"
  /\ capacity' = "start"
  /\ UNCHANGED <<gateVars, trigger, ticker, retryDelay, unseen, failures,
                 orphanVars>>

StopSelecting ==
  /\ capacity = "select"
  /\ stopped
  /\ capacity' = "done"
  /\ UNCHANGED <<gateVars, trigger, ticker, retry, retryDelay, unseen,
                 failures, orphanVars>>

-----------------------------------------------------------------------------
(* The orphan job. *)

StorageReady ==
  /\ orphans = "select"
  /\ readySignal /\ ready
  /\ readySignal' = FALSE
  /\ readyTimer' = "on"
  /\ UNCHANGED <<gateVars, capacityVars, orphans, periodicTimer>>

(* Either run makes the other superfluous.   *)
(* Fault: the other's timer is left running. *)
LeftAsItIs(timer) == timer
Halted(timer) == "off"

RunWhenReady ==
  /\ orphans = "select"
  /\ readyTimer = "fired"
  /\ readyTimer' = "off"
  /\ periodicTimer' = Halted(periodicTimer)
  /\ orphans' = "job"
  /\ UNCHANGED <<gateVars, capacityVars, readySignal>>

RunPeriodically ==
  /\ orphans = "select"
  /\ periodicTimer = "fired"
  /\ periodicTimer' = "off"
  /\ readySignal' = FALSE
  /\ readyTimer' = Halted(readyTimer)
  /\ orphans' = "job"
  /\ UNCHANGED <<gateVars, capacityVars>>

(* Fault: only the periodic run is scheduled again. *)
IfItFired(timer) == timer
Rearmed(timer) == "on"

EndJob ==
  /\ orphans = "job"
  /\ orphans' = IF stopped THEN "done" ELSE "select"
  /\ periodicTimer' = IF stopped THEN periodicTimer ELSE Rearmed(periodicTimer)
  /\ UNCHANGED <<gateVars, capacityVars, readySignal, readyTimer>>

StopOrphanJob ==
  /\ orphans = "select"
  /\ stopped
  /\ orphans' = "done"
  /\ UNCHANGED <<gateVars, capacityVars, readySignal, readyTimer, periodicTimer>>

-----------------------------------------------------------------------------
(* Timers. *)

TickerTicks ==
  /\ ticker = "on" /\ ticker' = "fired"
  /\ UNCHANGED <<gateVars, capacity, trigger, retry, retryDelay, unseen,
                 failures, orphanVars>>

RetryExpires ==
  /\ retry = "on" /\ retry' = "fired"
  /\ UNCHANGED <<gateVars, capacity, trigger, ticker, retryDelay, unseen,
                 failures, orphanVars>>

ReadyTimerExpires ==
  /\ readyTimer = "on" /\ readyTimer' = "fired"
  /\ UNCHANGED <<gateVars, capacityVars, orphans, readySignal, periodicTimer>>

PeriodicTimerExpires ==
  /\ periodicTimer = "on" /\ periodicTimer' = "fired"
  /\ UNCHANGED <<gateVars, capacityVars, orphans, readySignal, readyTimer>>

ReconcileStep ==
  (\E ok \in BOOLEAN : Reconcile(ok)) \/ ReconcileAgain \/ StopReconciling

CapacityStep ==
  \/ PassGate \/ StopAtGate \/ DrainSignal \/ BeginPass
  \/ PassSucceeds \/ PassFails \/ PassIsCancelled
  \/ TakeTrigger \/ TakeTick \/ TakeRetry \/ StopSelecting

OrphanStep ==
  StorageReady \/ RunWhenReady \/ RunPeriodically \/ EndJob \/ StopOrphanJob

Next ==
  \/ BackgroundCancel
  \/ ReconcileStep
  \/ Trigger
  \/ CapacityStep
  \/ OrphanStep
  \/ TickerTicks \/ RetryExpires \/ ReadyTimerExpires \/ PeriodicTimerExpires

Spec == Init /\ [][Next]_vars

-----------------------------------------------------------------------------
(* Safety. *)

(* Nothing is evicted before all sizes are known. *)
NoPassBeforeReady == capacity \in {"drain", "start", "pass", "select"} => ready

(* A finalized upload that no pass has seen yet has one coming without the *)
(* ticker: its trigger is pending, also if it came during a pass or while  *)
(* the startup signals were drained.                                       *)
TriggerRemembered == unseen /\ capacity \in {"pass", "select"} => trigger

(* A failed pass is repeated, also if other passes came in between, with a *)
(* delay that doubles with each failure in a row and starts over after a   *)
(* success.                                                                *)
FailureRetried ==
  capacity = "select" => (failures > 0 <=> retry # "off")

BackoffDoubles ==
  retryDelay = Least(RetryInitial * 2 ^ failures, RetryMaximum)

(* After an orphan run, early or periodic, the next one is a whole interval*)
(* away: a gate that opened meanwhile, or its timer, starts no other.      *)
NoRunOnItsHeels == orphans = "job" => readyTimer = "off" /\ ~readySignal

(* The loops of eviction and orphan cleanup at each of their steps. *)
RunsInv ==
  /\ TypeOK
  /\ NoPassBeforeReady
  /\ TriggerRemembered
  /\ FailureRetried
  /\ BackoffDoubles
  /\ NoRunOnItsHeels
=============================================================================
