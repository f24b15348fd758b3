---------------------------- MODULE PartIndexCache ----------------------------
(***************************************************************************)
(* The in-memory cache of part boundaries (internal/cache/part_index.go):  *)
(* a weighted LRU cache with one load in flight per location.  A download  *)
(* that finds a load in flight waits for it and looks again; if the load   *)
(* failed or the index did not fit, the next to look loads itself.         *)
(*                                                                         *)
(* A step is what happens under one lock of the mutex.  Loading is outside *)
(* of it, so the step that ends a load is apart from the one that starts   *)
(* it.  A key stands for its index, which a load always finds the same.    *)
(***************************************************************************)
EXTENDS Integers, Sequences, SequencesExt, FiniteSetsExt

CONSTANTS
  Key,         \* partIndexKey
  Weight,      \* weight of the index of each key
  Capacity,    \* 0 if nothing is cached
  Caller,      \* downloads and metadata requests
  MaxCalls,    \* bounds the calls of one caller
  Nobody

ASSUME CapacityAssumption ==
  /\ Capacity \in Nat
  /\ \A k \in Key : Weight[k] \in Nat \ {0}
  /\ MaxCalls \in Nat
  /\ Nobody \notin Caller

VARIABLES
  lru,        \* the cached keys, most recently used first
  used,
  flight,     \* who loads each key
  caller,     \* where each call is
  calls,      \* calls each caller has made
  finalized   \* keys added by the upload that finalized them

cacheVars == <<lru, used, flight, caller, calls, finalized>>

Call == [at : {"waiting", "woken", "loading", "returned"}, key : Key,
         on : Caller \cup {Nobody}, waited : BOOLEAN]
NoCall == [at |-> "none"]

CacheTypeOK ==
  /\ lru \in Seq(Key) /\ IsInjective(lru)
  /\ used \in Nat
  /\ flight \in [Key -> Caller \cup {Nobody}]
  /\ caller \in [Caller -> Call \cup {NoCall}]
  /\ calls \in [Caller -> 0 .. MaxCalls]
  /\ finalized \subseteq Key

CacheInit ==
  /\ lru = <<>> /\ used = 0
  /\ flight = [k \in Key |-> Nobody]
  /\ caller = [c \in Caller |-> NoCall]
  /\ calls = [c \in Caller |-> 0]
  /\ finalized = {}

-----------------------------------------------------------------------------
(* The LRU list. *)

Cached(k) == k \in ToSet(lru)

MoveToFront(k) ==
  \E i \in DOMAIN lru : lru[i] = k /\ lru' = <<k>> \o RemoveAt(lru, i)

TotalWeight(keys) == MapThenSumSet(LAMBDA k : Weight[k], keys)

(* The first n entries stay and the others go. *)
UpTo(n) == {lru[i] : i \in 1 .. n}
Behind(n) == {lru[i] : i \in n + 1 .. Len(lru)}

(* Fault: it must leave room to spare. *)
FitsEasily(k, n) == used - TotalWeight(Behind(n)) + Weight[k] < Capacity
Fits(k, n) == used - TotalWeight(Behind(n)) + Weight[k] <= Capacity

(* Entries are removed from the back until the new weight fits. *)
Keeps(k, n) ==
  /\ n = 0 \/ Fits(k, n)
  /\ \A m \in n + 1 .. Len(lru) : ~Fits(k, m)

Add(k) ==
  IF Cached(k)
    THEN MoveToFront(k) /\ UNCHANGED used
    ELSE IF Capacity > 0 /\ Weight[k] <= Capacity
           THEN \E n \in 0 .. Len(lru) :
                  /\ Keeps(k, n)
                  /\ lru' = <<k>> \o SubSeq(lru, 1, n)
                  /\ used' = used - TotalWeight(Behind(n)) + Weight[k]
           ELSE UNCHANGED <<lru, used>>

-----------------------------------------------------------------------------
(* getOrLoad. *)

(* A caller looks a key up for the first time, or again after a wait. *)
(* Fault: the wait is forgotten.                                      *)
WaitForgotten(c) == FALSE
Waited(c) == caller[c].at = "woken"

Looks(c, k) ==
  \/ /\ caller[c].at \in {"none", "returned"}
     /\ calls[c] < MaxCalls
     /\ calls' = [calls EXCEPT ![c] = @ + 1]
  \/ /\ caller[c].at = "woken" /\ caller[c].key = k
     /\ UNCHANGED calls

Hit(c, k) ==
  /\ Looks(c, k)
  /\ Cached(k)
  /\ MoveToFront(k)
  /\ caller' = [caller EXCEPT ![c] = [at |-> "returned", key |-> k,
                                      on |-> Nobody, waited |-> Waited(c)]]
  /\ UNCHANGED <<used, flight, finalized>>

(* Fault: loads in flight are not looked for. *)
NeverInFlight(k) == FALSE
InFlight(k) == flight[k] # Nobody

Wait(c, k) ==
  /\ Looks(c, k)
  /\ ~Cached(k)
  /\ InFlight(k)
  /\ caller' = [caller EXCEPT ![c] = [at |-> "waiting", key |-> k,
                                      on |-> flight[k], waited |-> TRUE]]
  /\ UNCHANGED <<lru, used, flight, finalized>>

StartLoad(c, k) ==
  /\ Looks(c, k)
  /\ ~Cached(k)
  /\ ~InFlight(k)
  /\ flight' = [flight EXCEPT ![k] = c]
  /\ caller' = [caller EXCEPT ![c] = [at |-> "loading", key |-> k,
                                      on |-> Nobody, waited |-> TRUE]]
  /\ UNCHANGED <<lru, used, finalized>>

(* The context of a waiting call is done.  Once the load has ended as well *)
(* either case of the select may be taken.                                 *)
CancelWait(c) ==
  /\ caller[c].at \in {"waiting", "woken"}
  /\ caller' = [caller EXCEPT ![c].at = "returned", ![c].on = Nobody]
  /\ UNCHANGED <<lru, used, flight, calls, finalized>>

(* The load of c ends: whoever waits for it, and nobody else, is woken. *)
(* Fault: the flight of a failed load is not closed.                    *)
WokenByIndex(c, d, loaded) == loaded /\ caller[d].at = "waiting" /\ caller[d].on = c
WokenBy(c, d, loaded) == caller[d].at = "waiting" /\ caller[d].on = c

EndLoad(c, loaded) ==
  /\ caller[c].at = "loading"
  /\ LET k == caller[c].key IN
     /\ flight' = [flight EXCEPT ![k] = Nobody]
     /\ IF loaded THEN Add(k) ELSE UNCHANGED <<lru, used>>
  /\ caller' = [d \in Caller |->
       CASE d = c -> [caller[d] EXCEPT !.at = "returned"]
         [] WokenBy(c, d, loaded) ->
              [caller[d] EXCEPT !.at = "woken", !.on = Nobody]
         [] OTHER -> caller[d]]
  /\ UNCHANGED <<calls, finalized>>

(* CompleteUpload adds the boundaries of a new location itself; downloads  *)
(* may have found the location before it does.                             *)
AddFinalized(k) ==
  /\ k \notin finalized
  /\ finalized' = finalized \cup {k}
  /\ Add(k)
  /\ UNCHANGED <<flight, caller, calls>>

Look(c, k) == Hit(c, k) \/ Wait(c, k) \/ StartLoad(c, k)

CallStep(c) ==
  \/ \E k \in Key : Look(c, k)
  \/ CancelWait(c)
  \/ \E loaded \in BOOLEAN : EndLoad(c, loaded)

CacheNext ==
  \/ \E c \in Caller : CallStep(c)
  \/ \E k \in Key : AddFinalized(k)

CacheSpec == CacheInit /\ [][CacheNext]_cacheVars

-----------------------------------------------------------------------------
(* Safety. *)

(* The bytes charged are those of the cached indexes and never exceed the  *)
(* capacity, whatever is added, evicted or added twice.                    *)
Accounted == used = TotalWeight(ToSet(lru)) /\ used <= Capacity

(* A location is loaded by one caller at a time, and the flights are the   *)
(* loads that really run.                                                  *)
OneLoadPerKey ==
  \A c \in Caller, k \in Key :
    flight[k] = c <=> caller[c].at = "loading" /\ caller[c].key = k

(* Nobody waits for a load that has ended: it is still running, for the    *)
(* same key, and will wake the caller.                                     *)
WaitersHaveLoader ==
  \A c \in Caller :
    caller[c].at = "waiting"
      => LET loader == caller[c].on IN
         /\ loader # Nobody
         /\ caller[loader].at = "loading"
         /\ caller[loader].key = caller[c].key

(* Whoever waits, is woken or loads will say that it was kept waiting.     *)
Delayed ==
  \A c \in Caller :
    caller[c].at \in {"waiting", "woken", "loading"} => caller[c].waited

(* The cache is consistent between the locks, whoever loads, fails, adds   *)
(* and is cancelled meanwhile.  Inductive.                                 *)
CacheInv ==
  CacheTypeOK /\ Accounted /\ OneLoadPerKey /\ WaitersHaveLoader /\ Delayed

(* An entry is evicted only if the new one would not fit beside it; and a  *)
(* call that was kept waiting says so, also when it hits in the end, for   *)
(* openRangedParts renews the reader lease only then.                      *)
RoomAndDelay ==
  [][/\ \A i \in DOMAIN lru :
          lru[i] \notin ToSet(lru')
            => TotalWeight(UpTo(i)) + Weight[Head(lru')] > Capacity
     /\ \A c \in Caller :
          caller[c].at \in {"woken", "loading"} /\ caller'[c].at = "returned"
            => caller'[c].waited]_cacheVars

-----------------------------------------------------------------------------
(* Liveness. *)

(* Loads end (partIndexTimeout) and woken callers run.  Waiting callers    *)
(* need not be cancelled.                                                  *)
Fairness ==
  \A c \in Caller :
    /\ WF_cacheVars(\E loaded \in BOOLEAN : EndLoad(c, loaded))
    /\ WF_cacheVars(caller[c].at = "woken" /\ \E k \in Key : Look(c, k))

FairCacheSpec == CacheSpec /\ Fairness

(* Every call returns, also when loads fail and indexes do not fit, unless *)
(* new callers keep coming and overtake it for ever (MaxCalls).            *)
EveryCallReturns ==
  \A c \in Caller :
    caller[c].at \in {"waiting", "woken", "loading"} ~> caller[c].at = "returned"
=============================================================================
