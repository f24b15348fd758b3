----------------------------- MODULE ServerProofs -----------------------------
(***************************************************************************)
(* What the server process keeps from its start to its end, for any number *)
(* of requests, slots, rows, servers and faults: ProcessInv and RunsInv of *)
(* module ServerProcess, and MigrationInv of module SchemaMigration.  Each *)
(* section proves one inductive invariant: ReleaserKept and MainKept of a  *)
(* shutdown, ServicesKept of the loops, PassKept of the cleanup jobs, and  *)
(* MigrationKept of servers that start on one database.                    *)
(***************************************************************************)
EXTENDS ServerProcess, SchemaMigration, FiniteSetTheorems, FunctionTheorems,
        SequenceTheorems, WellFoundedInduction, TLAPS

\* The queue, and the batch that is taken from it, hold every lease once.
LEMMA SplitInjective ==
  ASSUME NEW S, NEW a \in Seq(S), NEW b \in Seq(S)
  PROVE  Releaser!IsInjective(a \o b) <=>
           /\ \A i, j \in 1..Len(a) : a[i] = a[j] => i = j
           /\ \A i, j \in 1..Len(b) : b[i] = b[j] => i = j
           /\ \A i \in 1..Len(a), j \in 1..Len(b) : a[i] # b[j]
<1> DEFINE s == a \o b
<1>1. /\ s \in Seq(S) /\ Len(s) = Len(a) + Len(b) /\ Len(a) \in Nat /\ Len(b) \in Nat
      /\ DOMAIN s = 1..Len(a) + Len(b)
      /\ \A i \in 1..Len(a) : s[i] = a[i]
      /\ \A i \in 1..Len(b) : s[i + Len(a)] = b[i]
  BY ConcatProperties
<1>2. ASSUME Releaser!IsInjective(s)
      PROVE  /\ \A i, j \in 1..Len(a) : a[i] = a[j] => i = j
             /\ \A i, j \in 1..Len(b) : b[i] = b[j] => i = j
             /\ \A i \in 1..Len(a), j \in 1..Len(b) : a[i] # b[j]
  <2> HIDE DEF s
  <2>1. \A i, j \in 1..Len(a) + Len(b) : s[i] = s[j] => i = j
    BY <1>1, <1>2 DEF Releaser!IsInjective
  <2>2. \A i, j \in 1..Len(a) : a[i] = a[j] => i = j
    BY <1>1, <2>1
  <2>3. \A i, j \in 1..Len(b) : b[i] = b[j] => i = j
    <3> SUFFICES ASSUME NEW i \in 1..Len(b), NEW j \in 1..Len(b), b[i] = b[j] PROVE i = j
      OBVIOUS
    <3>1. s[i + Len(a)] = s[j + Len(a)]
      BY <1>1
    <3>2. /\ i + Len(a) \in 1..Len(a) + Len(b) /\ j + Len(a) \in 1..Len(a) + Len(b)
          /\ i \in Int /\ j \in Int
      BY <1>1
    <3>3. i + Len(a) = j + Len(a)
      BY <2>1, <3>1, <3>2
    <3> QED  BY <1>1, <3>2, <3>3
  <2>4. \A i \in 1..Len(a), j \in 1..Len(b) : a[i] # b[j]
    <3> SUFFICES ASSUME NEW i \in 1..Len(a), NEW j \in 1..Len(b), a[i] = b[j] PROVE FALSE
      OBVIOUS
    <3>1. s[i] = s[j + Len(a)]
      BY <1>1
    <3> QED  BY <1>1, <2>1, <3>1
  <2> QED  BY <2>2, <2>3, <2>4
<1>3. ASSUME \A i, j \in 1..Len(a) : a[i] = a[j] => i = j,
             \A i, j \in 1..Len(b) : b[i] = b[j] => i = j,
             \A i \in 1..Len(a), j \in 1..Len(b) : a[i] # b[j]
      PROVE  Releaser!IsInjective(s)
  <2> HIDE DEF s
  <2> SUFFICES ASSUME NEW i \in 1..Len(a) + Len(b), NEW j \in 1..Len(a) + Len(b), s[i] = s[j]
               PROVE  i = j
    BY <1>1 DEF Releaser!IsInjective
  <2>0. ASSUME NEW k \in 1..Len(a) + Len(b), k \notin 1..Len(a)
        PROVE  k - Len(a) \in 1..Len(b) /\ s[k] = b[k - Len(a)]
    <3>1. Len(a) \in Nat /\ Len(b) \in Nat
      OBVIOUS
    <3>2. k - Len(a) \in 1..Len(b)
      BY ONLY <3>1, <2>0
    <3>3. k - Len(a) + Len(a) = k
      BY ONLY <3>1, <2>0
    <3> QED  BY <1>1, <3>2, <3>3
  <2>1. CASE i \in 1..Len(a) /\ j \in 1..Len(a)
    BY <1>1, <1>3, <2>1
  <2>2. CASE i \in 1..Len(a) /\ j \notin 1..Len(a)
    <3>1. j - Len(a) \in 1..Len(b) /\ s[j] = b[j - Len(a)]
      BY <2>0, <2>2
    <3> QED  BY <1>1, <1>3, <2>2, <3>1
  <2>3. CASE i \notin 1..Len(a) /\ j \in 1..Len(a)
    <3>1. i - Len(a) \in 1..Len(b) /\ s[i] = b[i - Len(a)]
      BY <2>0, <2>3
    <3> QED  BY <1>1, <1>3, <2>3, <3>1
  <2>4. CASE i \notin 1..Len(a) /\ j \notin 1..Len(a)
    <3>1. i - Len(a) \in 1..Len(b) /\ s[i] = b[i - Len(a)]
      BY <2>0, <2>4
    <3>2. j - Len(a) \in 1..Len(b) /\ s[j] = b[j - Len(a)]
      BY <2>0, <2>4
    <3>3. i - Len(a) = j - Len(a)
      BY <1>3, <3>1, <3>2
    <3> QED  BY <1>1, <3>3
  <2> QED  BY <2>1, <2>2, <2>3, <2>4
<1> QED  BY <1>2, <1>3

\* A lease that is in neither joins the queue.
LEMMA LeaseJoins ==
  ASSUME NEW S, NEW a \in Seq(S), NEW b \in Seq(S), NEW l \in S,
         l \notin Releaser!ToSet(a) \cup Releaser!ToSet(b),
         Releaser!IsInjective(a \o b)
  PROVE  /\ Append(a, l) \in Seq(S) /\ Len(Append(a, l)) = Len(a) + 1
         /\ Releaser!ToSet(Append(a, l)) = Releaser!ToSet(a) \cup {l}
         /\ Releaser!IsInjective(Append(a, l) \o b)
<1> DEFINE c == Append(a, l)
<1>1. /\ c \in Seq(S) /\ Len(c) = Len(a) + 1 /\ Len(a) \in Nat
      /\ \A i \in 1..Len(a) : c[i] = a[i]
      /\ c[Len(a) + 1] = l
  BY AppendProperties
<1>2. DOMAIN a = 1..Len(a) /\ DOMAIN b = 1..Len(b) /\ DOMAIN c = 1..Len(a) + 1
  BY <1>1
<1> HIDE DEF c
<1>3. Releaser!ToSet(c) = Releaser!ToSet(a) \cup {l}
  BY <1>1, <1>2 DEF Releaser!ToSet
<1>4. /\ \A i \in 1..Len(a) : a[i] # l
      /\ \A i \in 1..Len(b) : b[i] # l
  BY <1>2 DEF Releaser!ToSet
<1>5. /\ \A i, j \in 1..Len(a) : a[i] = a[j] => i = j
      /\ \A i, j \in 1..Len(b) : b[i] = b[j] => i = j
      /\ \A i \in 1..Len(a), j \in 1..Len(b) : a[i] # b[j]
  BY SplitInjective
<1>6. \A i, j \in 1..Len(c) : c[i] = c[j] => i = j
  BY <1>1, <1>4, <1>5, SMTT(60)
<1>7. \A i \in 1..Len(c), j \in 1..Len(b) : c[i] # b[j]
  BY <1>1, <1>4, <1>5
<1>8. Releaser!IsInjective(c \o b)
  BY <1>1, <1>5, <1>6, <1>7, SplitInjective
<1> QED  BY <1>1, <1>3, <1>8 DEF c

\* The head of the queue moves to the batch.
LEMMA LeaseMoves ==
  ASSUME NEW S, NEW a \in Seq(S), NEW b \in Seq(S), a # << >>,
         Releaser!IsInjective(a \o b)
  PROVE  /\ Tail(a) \in Seq(S) /\ Len(Tail(a)) = Len(a) - 1 /\ Len(a) > 0
         /\ Append(b, Head(a)) \in Seq(S) /\ Len(Append(b, Head(a))) = Len(b) + 1
         /\ Releaser!ToSet(Tail(a)) \cup Releaser!ToSet(Append(b, Head(a)))
              = Releaser!ToSet(a) \cup Releaser!ToSet(b)
         /\ Releaser!IsInjective(Tail(a) \o Append(b, Head(a)))
<1> DEFINE c == Tail(a)  h == Head(a)  d == Append(b, h)
<1>1. /\ c \in Seq(S) /\ Len(c) = Len(a) - 1 /\ Len(a) > 0 /\ Len(a) \in Nat
      /\ h = a[1] /\ h \in S
      /\ \A i \in 1..Len(c) : c[i] = a[i + 1]
  BY HeadTailProperties
<1>2. /\ d \in Seq(S) /\ Len(d) = Len(b) + 1 /\ Len(b) \in Nat
      /\ \A i \in 1..Len(b) : d[i] = b[i]
      /\ d[Len(b) + 1] = h
  BY <1>1, AppendProperties
<1>3. /\ DOMAIN a = 1..Len(a) /\ DOMAIN b = 1..Len(b)
      /\ DOMAIN c = 1..Len(c) /\ DOMAIN d = 1..Len(b) + 1
  BY <1>1, <1>2
<1> HIDE DEF c, d, h
<1>4. Releaser!ToSet(a) = Releaser!ToSet(c) \cup {h}
  <2>1. ASSUME NEW x \in Releaser!ToSet(a) PROVE x \in Releaser!ToSet(c) \cup {h}
    <3>1. PICK i \in 1..Len(a) : x = a[i]
      BY <1>3 DEF Releaser!ToSet
    <3>2. CASE i = 1
      BY <1>1, <3>1, <3>2
    <3>3. CASE i # 1
      <4>1. i - 1 \in 1..Len(c) /\ c[i - 1] = a[i]
        BY <1>1, <3>1, <3>3
      <4> QED  BY <1>3, <3>1, <4>1 DEF Releaser!ToSet
    <3> QED  BY <3>2, <3>3
  <2>2. ASSUME NEW x \in Releaser!ToSet(c) PROVE x \in Releaser!ToSet(a)
    <3>1. PICK i \in 1..Len(c) : x = c[i]
      BY <1>3 DEF Releaser!ToSet
    <3>2. i + 1 \in 1..Len(a) /\ x = a[i + 1]
      BY <1>1, <3>1
    <3> QED  BY <1>3, <3>2 DEF Releaser!ToSet
  <2>3. h \in Releaser!ToSet(a)
    BY <1>1, <1>3 DEF Releaser!ToSet
  <2> QED  BY <2>1, <2>2, <2>3
<1>5. Releaser!ToSet(d) = Releaser!ToSet(b) \cup {h}
  BY <1>2, <1>3 DEF Releaser!ToSet
<1>6. /\ \A i, j \in 1..Len(a) : a[i] = a[j] => i = j
      /\ \A i, j \in 1..Len(b) : b[i] = b[j] => i = j
      /\ \A i \in 1..Len(a), j \in 1..Len(b) : a[i] # b[j]
  BY SplitInjective
<1>7. \A i, j \in 1..Len(c) : c[i] = c[j] => i = j
  <2> SUFFICES ASSUME NEW i \in 1..Len(c), NEW j \in 1..Len(c), c[i] = c[j] PROVE i = j
    OBVIOUS
  <2>1. a[i + 1] = a[j + 1] /\ i + 1 \in 1..Len(a) /\ j + 1 \in 1..Len(a)
    BY <1>1
  <2> QED  BY <1>6, <2>1
<1>8. \A i \in 1..Len(b) : b[i] # h
  BY <1>1, <1>6
<1>9. \A i \in 1..Len(c) : c[i] # h
  <2> SUFFICES ASSUME NEW i \in 1..Len(c) PROVE c[i] # h
    OBVIOUS
  <2>1. c[i] = a[i + 1] /\ i + 1 \in 1..Len(a) /\ i + 1 # 1 /\ 1 \in 1..Len(a)
    BY <1>1
  <2> QED  BY <1>1, <1>6, <2>1
<1>10. \A i, j \in 1..Len(d) : d[i] = d[j] => i = j
  BY <1>2, <1>6, <1>8
<1>11. \A i \in 1..Len(c), j \in 1..Len(d) : c[i] # d[j]
  <2> SUFFICES ASSUME NEW i \in 1..Len(c), NEW j \in 1..Len(d) PROVE c[i] # d[j]
    OBVIOUS
  <2>1. c[i] = a[i + 1] /\ i + 1 \in 1..Len(a)
    BY <1>1
  <2> QED  BY <1>2, <1>6, <1>9, <2>1, SMTT(60)
<1>12. Releaser!IsInjective(c \o d)
  BY <1>1, <1>2, <1>7, <1>10, <1>11, SplitInjective
<1> QED  BY <1>1, <1>2, <1>4, <1>5, <1>12 DEF c, d, h

-----------------------------------------------------------------------------
(* The releaser.                                                             *)

\* The worker runs from the first Enqueue on; it ends only after Shutdown has closed the
\* queue, with queue and batch empty unless it was cancelled.
WorkerAgrees ==
  /\ worker = "none" <=> ~workerStarted
  /\ ~workerStarted => queue = << >> /\ batch = << >>
  /\ worker = "select" => Len(batch) < BatchSize
  /\ worker \in {"last", "done"} => ~rAccepting
  /\ worker = "last" => queue = << >>
  /\ worker = "done" => (cancelled \/ (queue = << >> /\ batch = << >>))

\* Shutdown is called by main alone.
StopperAgrees ==
  /\ rAccepting <=> stopper["main"] = "idle"
  /\ cancelled <=> stopper["main"] \in {"cancelling", "abandoned"}
  /\ stopper["main"] \in {"waiting", "cancelling"} => workerStarted
  /\ stopper["main"] \in {"drained", "abandoned"} => worker \in {"none", "done"}

ReleaserKept ==
  /\ Releaser!TypeOK /\ WorkerAgrees /\ StopperAgrees
  /\ Releaser!ReleasedOnce /\ Releaser!BatchIsTimed

LEMMA ReleaserStarts ==
  ASSUME Releaser!Init PROVE ReleaserKept
<1> USE ShutdownAssumption DEF Releaser!Init
<1>1. Releaser!TypeOK
  <2>1. << >> \in Seq(Request) /\ Len(<< >>) = 0
    BY EmptySeq
  <2>2. /\ download \in [Request -> {"open", "accepted", "refused", "inline"}]
        /\ calls \in [Request -> Nat]
        /\ stopper \in [{"main"} -> {"idle", "waiting", "cancelling", "drained", "abandoned"}]
    BY SMT
  <2>3. /\ queue \in Seq(Request) /\ Len(queue) <= MaxPending
        /\ batch \in Seq(Request) /\ Len(batch) <= BatchSize
    BY <2>1, SMT
  <2>4. /\ rAccepting \in BOOLEAN /\ workerStarted \in BOOLEAN /\ cancelled \in BOOLEAN
        /\ worker \in {"none", "select", "full", "flush", "last", "done"}
        /\ timer \in {"off", "running", "fired"}
    BY Zenon
  <2> QED  BY <2>2, <2>3, <2>4, Zenon DEF Releaser!TypeOK
<1>2. WorkerAgrees /\ StopperAgrees
  BY DEF WorkerAgrees, StopperAgrees
<1>3. Releaser!ReleasedOnce
  BY DEF Releaser!ReleasedOnce, Releaser!IsInjective, Releaser!Waiting, Releaser!ToSet
<1>4. Releaser!BatchIsTimed
  BY DEF Releaser!BatchIsTimed
<1> QED  BY <1>1, <1>2, <1>3, <1>4 DEF ReleaserKept

LEMMA ReleaserStutters ==
  ASSUME ReleaserKept, UNCHANGED releaserVars PROVE ReleaserKept'
BY DEF ReleaserKept, Releaser!TypeOK, WorkerAgrees, StopperAgrees, Releaser!ReleasedOnce,
       Releaser!BatchIsTimed, Releaser!Waiting, releaserVars

LEMMA ReleaserEnqueues ==
  ASSUME ReleaserKept, NEW q \in Request, Releaser!Enqueue(q) PROVE ReleaserKept'
<1> USE ShutdownAssumption DEF ReleaserKept
<1>t. /\ queue \in Seq(Request) /\ batch \in Seq(Request) /\ Len(queue) \in Nat
      /\ Len(queue) <= MaxPending /\ Len(batch) <= BatchSize /\ Len(batch) \in Nat
      /\ download \in [Request -> {"open", "accepted", "refused", "inline"}]
      /\ calls \in [Request -> Nat]
  BY DEF Releaser!TypeOK
<1>u. /\ UNCHANGED <<rAccepting, cancelled, batch, timer, calls, stopper>>
      /\ download[q] = "open"
  BY DEF Releaser!Enqueue
<1>w. ~Releaser!Waiting(q)
  BY <1>u DEF Releaser!ReleasedOnce
<1>j. /\ Append(queue, q) \in Seq(Request) /\ Len(Append(queue, q)) = Len(queue) + 1
      /\ Releaser!ToSet(Append(queue, q)) = Releaser!ToSet(queue) \cup {q}
      /\ Releaser!IsInjective(Append(queue, q) \o batch)
  <2>1. q \notin Releaser!ToSet(queue) \cup Releaser!ToSet(batch)
    BY <1>w DEF Releaser!Waiting
  <2>2. Releaser!IsInjective(queue \o batch)
    BY DEF Releaser!ReleasedOnce
  <2> QED  BY <1>t, <2>1, <2>2, LeaseJoins
<1>1. CASE /\ rAccepting /\ Len(queue) < MaxPending
  <2>1. /\ workerStarted' = TRUE
        /\ worker' = IF workerStarted THEN worker ELSE "select"
        /\ queue' = Append(queue, q)
        /\ download' = [download EXCEPT ![q] = "accepted"]
    BY <1>1 DEF Releaser!Enqueue
  <2>2. Releaser!TypeOK'
    BY <1>1, <1>t, <1>u, <1>j, <2>1 DEF Releaser!TypeOK
  <2>3. WorkerAgrees'
    BY <1>1, <1>t, <1>u, <1>j, <2>1 DEF WorkerAgrees, Releaser!TypeOK
  <2>4. StopperAgrees'
    BY <1>1, <1>u, <2>1 DEF StopperAgrees, WorkerAgrees, Releaser!TypeOK
  <2>5. Releaser!ReleasedOnce'
    <3>1. (Releaser!IsInjective(queue \o batch))'
      BY <1>j, <1>u, <2>1 DEF Releaser!IsInjective
    <3>a. /\ Releaser!ToSet(queue)' = Releaser!ToSet(Append(queue, q))
          /\ Releaser!ToSet(batch)' = Releaser!ToSet(batch)
      BY <1>u, <2>1, Zenon DEF Releaser!ToSet
    <3>2. ASSUME NEW l \in Request
          PROVE  /\ Releaser!Waiting(l)' <=> (l = q \/ Releaser!Waiting(l))
                 /\ calls'[l] = calls[l]
                 /\ download'[l] = IF l = q THEN "accepted" ELSE download[l]
      <4>1. Releaser!Waiting(l)' <=> (l = q \/ Releaser!Waiting(l))
        BY <1>j, <3>a DEF Releaser!Waiting
      <4> QED  BY <1>t, <1>u, <2>1, <4>1
    <3> QED  BY <1>u, <1>w, <3>1, <3>2 DEF Releaser!ReleasedOnce
  <2>6. Releaser!BatchIsTimed'
    BY <1>u, <2>1 DEF Releaser!BatchIsTimed, WorkerAgrees
  <2> QED  BY <2>2, <2>3, <2>4, <2>5, <2>6
<1>2. CASE ~(rAccepting /\ Len(queue) < MaxPending)
  <2>1. /\ download' = [download EXCEPT ![q] = "refused"] /\ queue' = queue
        /\ \/ rAccepting /\ workerStarted' = TRUE
              /\ worker' = IF workerStarted THEN worker ELSE "select"
           \/ UNCHANGED <<workerStarted, worker>>
    BY <1>2 DEF Releaser!Enqueue
  <2>2. Releaser!TypeOK'
    BY <1>t, <1>u, <2>1 DEF Releaser!TypeOK
  <2>3. WorkerAgrees'
    BY <1>t, <1>u, <2>1 DEF WorkerAgrees, Releaser!TypeOK
  <2>4. StopperAgrees'
    BY <1>u, <2>1 DEF StopperAgrees, WorkerAgrees, Releaser!TypeOK
  <2>5. Releaser!ReleasedOnce'
    <3>1. (Releaser!IsInjective(queue \o batch))'
      BY <1>u, <2>1 DEF Releaser!IsInjective, Releaser!ReleasedOnce
    <3>2. ASSUME NEW l \in Request
          PROVE  /\ Releaser!Waiting(l)' <=> Releaser!Waiting(l)
                 /\ calls'[l] = calls[l]
                 /\ download'[l] = IF l = q THEN "refused" ELSE download[l]
      BY <1>t, <1>u, <2>1 DEF Releaser!Waiting, Releaser!ToSet
    <3> QED  BY <1>u, <1>w, <3>1, <3>2 DEF Releaser!ReleasedOnce
  <2>6. Releaser!BatchIsTimed'
    BY <1>u, <2>1 DEF Releaser!BatchIsTimed, WorkerAgrees
  <2> QED  BY <2>2, <2>3, <2>4, <2>5, <2>6
<1> QED  BY <1>1, <1>2

LEMMA ReleaserInline ==
  ASSUME ReleaserKept, NEW q \in Request, Releaser!ReleaseInline(q) PROVE ReleaserKept'
<1> USE DEF ReleaserKept
<1>1. /\ UNCHANGED <<rAccepting, workerStarted, queue, cancelled, worker, batch, timer,
                     stopper>>
      /\ download[q] = "refused" /\ download' = [download EXCEPT ![q] = "inline"]
      /\ calls' = [calls EXCEPT ![q] = @ + 1]
  BY DEF Releaser!ReleaseInline
<1>t. /\ download \in [Request -> {"open", "accepted", "refused", "inline"}]
      /\ calls \in [Request -> Nat]
  BY DEF Releaser!TypeOK
<1>2. Releaser!TypeOK' /\ WorkerAgrees' /\ StopperAgrees' /\ Releaser!BatchIsTimed'
  BY <1>1 DEF Releaser!TypeOK, WorkerAgrees, StopperAgrees, Releaser!BatchIsTimed
<1>3. Releaser!ReleasedOnce'
  <2>1. (Releaser!IsInjective(queue \o batch))'
    BY <1>1 DEF Releaser!IsInjective, Releaser!ReleasedOnce
  <2>2. ASSUME NEW l \in Request
        PROVE  /\ Releaser!Waiting(l)' <=> Releaser!Waiting(l)
               /\ calls'[l] = IF l = q THEN calls[l] + 1 ELSE calls[l]
               /\ download'[l] = IF l = q THEN "inline" ELSE download[l]
    BY <1>t, <1>1 DEF Releaser!Waiting, Releaser!ToSet
  <2>3. ~Releaser!Waiting(q) /\ calls[q] = 0
    BY <1>1 DEF Releaser!ReleasedOnce
  <2> QED  BY <1>t, <1>1, <2>1, <2>2, <2>3 DEF Releaser!ReleasedOnce
<1> QED  BY <1>2, <1>3

LEMMA ReleaserTakes ==
  ASSUME ReleaserKept, Releaser!TakeLease PROVE ReleaserKept'
<1> USE ShutdownAssumption DEF ReleaserKept
<1>t. /\ queue \in Seq(Request) /\ batch \in Seq(Request) /\ Len(queue) \in Nat
      /\ Len(queue) <= MaxPending /\ Len(batch) < BatchSize /\ Len(batch) \in Nat
      /\ worker = "select" /\ queue # << >>
  BY DEF Releaser!TypeOK, Releaser!TakeLease, WorkerAgrees
<1> DEFINE b == Append(batch, Head(queue))
<1>1. /\ batch' = b /\ queue' = Tail(queue)
      /\ UNCHANGED <<rAccepting, workerStarted, cancelled, download, calls, stopper>>
      /\ \/ Len(b) = BatchSize /\ worker' = "full" /\ timer' = "off"
         \/ /\ Len(b) # BatchSize /\ worker' = worker
            /\ timer' = IF Len(b) = 1 THEN "running" ELSE timer
  BY DEF Releaser!TakeLease, Releaser!StartsBatch
<1>2. /\ Tail(queue) \in Seq(Request) /\ Len(Tail(queue)) = Len(queue) - 1 /\ Len(queue) > 0
      /\ b \in Seq(Request) /\ Len(b) = Len(batch) + 1
      /\ Releaser!ToSet(Tail(queue)) \cup Releaser!ToSet(b)
           = Releaser!ToSet(queue) \cup Releaser!ToSet(batch)
      /\ Releaser!IsInjective(Tail(queue) \o b)
  <2>1. Releaser!IsInjective(queue \o batch)
    BY DEF Releaser!ReleasedOnce
  <2> QED  BY <1>t, <2>1, LeaseMoves
<1> HIDE DEF b
<1>3. Releaser!TypeOK'
  BY <1>t, <1>1, <1>2 DEF Releaser!TypeOK
<1>4. WorkerAgrees' /\ StopperAgrees'
  BY <1>t, <1>1, <1>2 DEF WorkerAgrees, StopperAgrees, Releaser!TypeOK
<1>5. Releaser!ReleasedOnce'
  <2>1. (Releaser!IsInjective(queue \o batch))'
    BY <1>1, <1>2, Zenon DEF Releaser!IsInjective
  <2>2. /\ Releaser!ToSet(queue)' = Releaser!ToSet(Tail(queue))
        /\ Releaser!ToSet(batch)' = Releaser!ToSet(b)
    BY <1>1, Zenon DEF Releaser!ToSet
  <2>3. \A l \in Request : Releaser!Waiting(l)' <=> Releaser!Waiting(l)
    BY <1>2, <2>2 DEF Releaser!Waiting
  <2> QED  BY <1>1, <2>1, <2>3 DEF Releaser!ReleasedOnce
<1>6. Releaser!BatchIsTimed'
  <2>1. ASSUME worker' = "select", Len(b) # 1 PROVE batch # << >>
    BY <1>t, <1>2, <2>1
  <2> QED  BY <1>t, <1>1, <2>1 DEF Releaser!BatchIsTimed
<1> QED  BY <1>3, <1>4, <1>5, <1>6

LEMMA ReleaserCalls ==
  ASSUME ReleaserKept, Releaser!ReleaseBatch PROVE ReleaserKept'
<1> USE ShutdownAssumption DEF ReleaserKept
<1>t. /\ queue \in Seq(Request) /\ batch \in Seq(Request)
      /\ download \in [Request -> {"open", "accepted", "refused", "inline"}]
      /\ calls \in [Request -> Nat]
      /\ worker \in {"full", "flush", "last"}
  BY DEF Releaser!TypeOK, Releaser!ReleaseBatch
<1>1. /\ calls' = [l \in Request |-> IF l \in Releaser!ToSet(batch) THEN calls[l] + 1
                                                                 ELSE calls[l]]
      /\ batch' = << >>
      /\ worker' = IF worker = "last" \/ cancelled THEN "done" ELSE "select"
      /\ UNCHANGED <<rAccepting, workerStarted, queue, cancelled, timer, download, stopper>>
  BY DEF Releaser!ReleaseBatch, Releaser!NextBatch
<1>2. << >> \in Seq(Request) /\ Len(<< >>) = 0 /\ Releaser!ToSet(<< >>) = {}
  BY EmptySeq DEF Releaser!ToSet
<1>3. Releaser!TypeOK'
  <2>1. calls' \in [Request -> Nat]
    BY <1>t, <1>1
  <2>2. Len(batch') <= BatchSize
    BY <1>1, <1>2, SMT
  <2> QED  BY <1>1, <1>2, <2>1, <2>2 DEF Releaser!TypeOK
<1>4. WorkerAgrees'
  <2>1. worker' = "select" => Len(batch') < BatchSize
    BY <1>1, <1>2, SMT
  <2>2. worker' = "done" => (cancelled' \/ (queue' = << >> /\ batch' = << >>))
    BY <1>t, <1>1 DEF WorkerAgrees
  <2>3. worker' = "done" => ~rAccepting'
    BY <1>t, <1>1 DEF WorkerAgrees, StopperAgrees
  <2> QED  BY <1>t, <1>1, <2>1, <2>2, <2>3 DEF WorkerAgrees
<1>5. StopperAgrees'
  BY <1>t, <1>1 DEF StopperAgrees, WorkerAgrees
<1>6. Releaser!ReleasedOnce'
  <2>0. /\ \A i, j \in 1..Len(queue) : queue[i] = queue[j] => i = j
        /\ \A i \in 1..Len(queue), j \in 1..Len(batch) : queue[i] # batch[j]
    BY <1>t, SplitInjective, SMTT(30) DEF Releaser!ReleasedOnce
  <2>1. (Releaser!IsInjective(queue \o batch))'
    <3>0. /\ \A i, j \in 1..Len(<< >>) : << >>[i] = << >>[j] => i = j
          /\ \A i \in 1..Len(queue), j \in 1..Len(<< >>) : queue[i] # << >>[j]
      BY <1>2, SMT
    <3>1. Releaser!IsInjective(queue \o << >>)
      BY <1>t, <1>2, <2>0, <3>0, SplitInjective, Zenon
    <3> QED  BY <1>1, <3>1, Zenon DEF Releaser!IsInjective
  <2>2. /\ Releaser!ToSet(queue)' = Releaser!ToSet(queue)
        /\ Releaser!ToSet(batch)' = {}
    BY <1>1, <1>2, Zenon DEF Releaser!ToSet
  <2>3. \A l \in Request : Releaser!Waiting(l)' <=> l \in Releaser!ToSet(queue)
    BY <2>2 DEF Releaser!Waiting
  <2>4. Releaser!ToSet(queue) \cap Releaser!ToSet(batch) = {}
    <3>1. DOMAIN queue = 1..Len(queue) /\ DOMAIN batch = 1..Len(batch)
      BY <1>t
    <3> QED  BY <2>0, <3>1 DEF Releaser!ToSet
  <2>5. ASSUME NEW l \in Request
        PROVE  /\ calls'[l] = (IF ~Releaser!Waiting(l)'
                                   /\ download'[l] \in {"accepted", "inline"} THEN 1 ELSE 0)
               /\ Releaser!Waiting(l)' => download'[l] = "accepted"
    <3>1. /\ calls[l] = (IF ~Releaser!Waiting(l) /\ download[l] \in {"accepted", "inline"}
                           THEN 1 ELSE 0)
          /\ Releaser!Waiting(l) => download[l] = "accepted"
      BY DEF Releaser!ReleasedOnce
    <3>2. Releaser!Waiting(l) <=> \/ l \in Releaser!ToSet(queue)
                                  \/ l \in Releaser!ToSet(batch)
      BY DEF Releaser!Waiting
    <3>3. calls'[l] = IF l \in Releaser!ToSet(batch) THEN calls[l] + 1 ELSE calls[l]
      BY <1>1
    <3>4. ~(l \in Releaser!ToSet(queue) /\ l \in Releaser!ToSet(batch))
      BY <2>4
    <3>5. download'[l] = download[l]
      BY <1>1
    <3>6. Releaser!Waiting(l)' <=> l \in Releaser!ToSet(queue)
      BY <2>3
    <3>7. CASE l \in Releaser!ToSet(batch)
      <4>1. calls[l] = 0 /\ calls'[l] = calls[l] + 1
        BY <3>1, <3>2, <3>3, <3>7, Zenon
      <4>2. calls'[l] = 1
        BY <4>1
      <4>3. download'[l] = "accepted" /\ ~Releaser!Waiting(l)'
        BY <3>1, <3>2, <3>4, <3>5, <3>6, <3>7, Zenon
      <4> QED  BY <4>2, <4>3
    <3>8. CASE l \notin Releaser!ToSet(batch)
      <4>1. calls'[l] = calls[l] /\ (Releaser!Waiting(l)' <=> Releaser!Waiting(l))
        BY <3>2, <3>3, <3>6, <3>8, Zenon
      <4>2. CASE Releaser!Waiting(l)
        BY <3>1, <3>5, <4>1, <4>2
      <4>3. CASE ~Releaser!Waiting(l)
        BY <3>1, <3>5, <4>1, <4>3
      <4> QED  BY <4>2, <4>3
    <3> QED  BY <3>7, <3>8
  <2> QED  BY <2>1, <2>5, Zenon DEF Releaser!ReleasedOnce
<1>7. Releaser!BatchIsTimed'
  BY <1>1 DEF Releaser!BatchIsTimed
<1> QED  BY <1>3, <1>4, <1>5, <1>6, <1>7

LEMMA ReleaserTurns ==
  ASSUME ReleaserKept,
         \/ Releaser!Flush \/ Releaser!QueueIsClosed \/ Releaser!AbandonLeases
         \/ Releaser!TimerExpires \/ Releaser!BeginShutdown("main")
         \/ Releaser!WorkerIsDone("main") \/ Releaser!CancelWorker("main")
         \/ Releaser!ReturnCancelled("main")
  PROVE  ReleaserKept'
<1> USE DEF ReleaserKept
<1>t. stopper \in [{"main"} -> {"idle", "waiting", "cancelling", "drained", "abandoned"}]
  BY DEF Releaser!TypeOK
<1>1. UNCHANGED <<queue, batch, download, calls>>
  BY DEF Releaser!Flush, Releaser!QueueIsClosed, Releaser!AbandonLeases,
         Releaser!TimerExpires, Releaser!BeginShutdown, Releaser!WorkerIsDone,
         Releaser!CancelWorker, Releaser!ReturnCancelled
<1>2. Releaser!ReleasedOnce'
  BY <1>1 DEF Releaser!ReleasedOnce, Releaser!Waiting
<1>3. CASE Releaser!Flush
  <2>1. /\ worker = "select" /\ timer' = "off" /\ worker' = "flush"
        /\ UNCHANGED <<rAccepting, workerStarted, cancelled, stopper>>
    BY <1>3 DEF Releaser!Flush
  <2> QED  BY <1>1, <1>2, <2>1 DEF Releaser!TypeOK, WorkerAgrees, StopperAgrees,
                                   Releaser!BatchIsTimed
<1>4. CASE Releaser!QueueIsClosed
  <2>1. /\ worker = "select" /\ ~rAccepting /\ queue = << >>
        /\ worker' = IF batch = << >> THEN "done" ELSE "last"
        /\ timer' = "off"
        /\ UNCHANGED <<rAccepting, workerStarted, cancelled, stopper>>
    BY <1>4 DEF Releaser!QueueIsClosed, Releaser!Closed
  <2> QED  BY <1>1, <1>2, <2>1 DEF Releaser!TypeOK, WorkerAgrees, StopperAgrees,
                                   Releaser!BatchIsTimed
<1>5. CASE Releaser!AbandonLeases
  <2>1. /\ worker = "select" /\ cancelled /\ worker' = "done" /\ timer' = "off"
        /\ UNCHANGED <<rAccepting, workerStarted, cancelled, stopper>>
    BY <1>5 DEF Releaser!AbandonLeases
  <2> QED  BY <1>1, <1>2, <2>1 DEF Releaser!TypeOK, WorkerAgrees, StopperAgrees,
                                   Releaser!BatchIsTimed
<1>6. CASE Releaser!TimerExpires
  <2>1. /\ timer = "running" /\ timer' = "fired"
        /\ UNCHANGED <<rAccepting, workerStarted, cancelled, worker, stopper>>
    BY <1>6 DEF Releaser!TimerExpires
  <2> QED  BY <1>1, <1>2, <2>1 DEF Releaser!TypeOK, WorkerAgrees, StopperAgrees,
                                   Releaser!BatchIsTimed
<1>7. CASE Releaser!BeginShutdown("main")
  <2>1. /\ stopper["main"] = "idle" /\ rAccepting' = FALSE
        /\ stopper' = [stopper EXCEPT !["main"] = IF workerStarted THEN "waiting"
                                                                    ELSE "drained"]
        /\ UNCHANGED <<workerStarted, cancelled, worker, timer>>
    BY <1>7 DEF Releaser!BeginShutdown
  <2> QED  BY <1>t, <1>1, <1>2, <2>1 DEF Releaser!TypeOK, WorkerAgrees, StopperAgrees,
                                         Releaser!BatchIsTimed
<1>8. CASE Releaser!WorkerIsDone("main")
  <2>1. /\ stopper["main"] = "waiting" /\ worker = "done"
        /\ stopper' = [stopper EXCEPT !["main"] = "drained"]
        /\ UNCHANGED <<rAccepting, workerStarted, cancelled, worker, timer>>
    BY <1>8 DEF Releaser!WorkerIsDone
  <2> QED  BY <1>t, <1>1, <1>2, <2>1 DEF Releaser!TypeOK, WorkerAgrees, StopperAgrees,
                                         Releaser!BatchIsTimed
<1>9. CASE Releaser!CancelWorker("main")
  <2>1. /\ stopper["main"] = "waiting" /\ cancelled' = TRUE
        /\ stopper' = [stopper EXCEPT !["main"] = "cancelling"]
        /\ UNCHANGED <<rAccepting, workerStarted, worker, timer>>
    BY <1>9 DEF Releaser!CancelWorker
  <2> QED  BY <1>t, <1>1, <1>2, <2>1 DEF Releaser!TypeOK, WorkerAgrees, StopperAgrees,
                                         Releaser!BatchIsTimed
<1>10. CASE Releaser!ReturnCancelled("main")
  <2>1. /\ stopper["main"] = "cancelling" /\ worker = "done"
        /\ stopper' = [stopper EXCEPT !["main"] = "abandoned"]
        /\ UNCHANGED <<rAccepting, workerStarted, cancelled, worker, timer>>
    BY <1>10 DEF Releaser!ReturnCancelled
  <2> QED  BY <1>t, <1>1, <1>2, <2>1 DEF Releaser!TypeOK, WorkerAgrees, StopperAgrees,
                                         Releaser!BatchIsTimed
<1> QED  BY <1>3, <1>4, <1>5, <1>6, <1>7, <1>8, <1>9, <1>10

\* A Shutdown that has returned uncancelled found queue and batch empty.
LEMMA ReleaserDrains ==
  ASSUME ReleaserKept PROVE Releaser!ShutdownDrains
<1> USE DEF ReleaserKept
<1>1. stopper["main"] \in {"drained", "abandoned"}
        => worker \in {"none", "done"} /\ ~rAccepting
  BY DEF StopperAgrees
<1>2. ASSUME stopper["main"] = "drained", ~cancelled, NEW l \in Request,
             download[l] = "accepted"
      PROVE  calls[l] = 1
  <2>1. queue = << >> /\ batch = << >>
    BY <1>1, <1>2 DEF WorkerAgrees
  <2>2. ~Releaser!Waiting(l)
    BY <2>1 DEF Releaser!Waiting, Releaser!ToSet
  <2> QED  BY <1>2, <2>2 DEF Releaser!ReleasedOnce
<1> QED  BY <1>1, <1>2 DEF Releaser!ShutdownDrains

-----------------------------------------------------------------------------
(* main, requests and merges.                                                *)

RequestState == {"merge", "stream", "absent", "mergeable", "connected", "merging",
                 "streaming", "closing", "done"}
MergeState == {"none", "acquiring", "composing", "freed", "over"}

MainType ==
  /\ main \in {"serving", "signalled", "server", "releaser", "merges", "background",
               "stopped", "died"}
  /\ expired \in BOOLEAN
  /\ server \in {"up", "closing", "closed", "failed"}
  /\ background \in {"running", "cancelled", "done"}
  /\ request \in [Request -> RequestState]
  /\ accepting \in BOOLEAN
  /\ merge \in [Request -> MergeState]
  /\ mergeWait \in {"off", "waiting", "cancelled", "done", "failed"}
  /\ mergesDone \in BOOLEAN

\* What a request does while its merge starts, and while its lease is in its own hands.
RequestsAgree ==
  \A q \in Request :
    /\ merge[q] = "acquiring" => request[q] = "merging"
    /\ request[q] \in {"merge", "stream", "absent", "mergeable", "connected"}
         => merge[q] = "none"
    /\ download[q] = "refused" => request[q] = "closing"

\* What main knows from the waits that have ended.
WaitsAgree ==
  /\ (mergesDone \/ mergeWait # "off") => ~accepting
  /\ mergeWait = "done" => mergesDone
  /\ server = "closed" => \A q \in Request : ~Active(q)
  /\ main \in {"merges", "background", "stopped"}
       => stopper["main"] \in {"drained", "abandoned"}
  /\ main = "stopped" => AllWaitsSucceeded

MainKept ==
  /\ MainType /\ MergesBounded /\ NoMergeAfterWait /\ RequestsAgree /\ WaitsAgree
  /\ ReleaserKept

\* One merge more is under way.
LEMMA OneMore ==
  ASSUME NEW S \in SUBSET Request, NEW q \in Request, q \notin S
  PROVE  /\ Cardinality(S \cup {q}) = Cardinality(S) + 1
         /\ Cardinality(S) \in Nat
<1>1. IsFiniteSet(S)
  BY ShutdownAssumption, FS_Subset
<1> QED  BY <1>1, FS_AddElement, FS_CardinalityType

\* What main guarantees follows.
LEMMA MainGuarantees ==
  ASSUME MainKept PROVE ProcessInv
<1> USE DEF MainKept
<1>1. TypeOK
  <2> DEFINE M == {q \in Request : Merging(q)}
             W == {q \in Request : merge[q] \notin {"none", "over"}}
  <2>1. /\ IsFiniteSet(M) /\ IsFiniteSet(W)
        /\ Cardinality(M) \in Nat /\ Cardinality(W) \in Nat
        /\ Cardinality(W) <= Cardinality(Request) /\ Cardinality(Request) \in Nat
    <3>1. M \subseteq Request /\ W \subseteq Request /\ IsFiniteSet(Request)
      BY ShutdownAssumption
    <3> HIDE DEF M, W
    <3> QED  BY <3>1, FS_Subset, FS_CardinalityType
  <2>2. Cardinality(M) = slots /\ slots <= MergeConcurrency /\ mergeWG = Cardinality(W)
    BY DEF MergesBounded
  <2> HIDE DEF M, W
  <2>3. slots \in 0 .. MergeConcurrency /\ mergeWG \in 0 .. Cardinality(Request)
    BY <2>1, <2>2, ShutdownAssumption
  <2> QED  BY <2>3 DEF TypeOK, MainType, RequestState, MergeState, ReleaserKept
<1>2. Releaser!ShutdownDrains
  BY ReleaserDrains
<1>3. StopIsComplete
  <2> SUFFICES ASSUME main = "stopped"
               PROVE  /\ \A q \in Request : ~Active(q) /\ merge[q] \in {"none", "over"}
                      /\ background = "done"
                      /\ worker \in {"none", "done"}
                      /\ ~cancelled =>
                           \A q \in Request : download[q] # "open" => calls[q] = 1
    BY DEF StopIsComplete
  <2>1. /\ server = "closed" /\ mergesDone /\ background = "done"
        /\ stopper["main"] \in {"drained", "abandoned"}
        /\ \A q \in Request : ~Active(q)
    BY DEF WaitsAgree, AllWaitsSucceeded
  <2>2. \A q \in Request : merge[q] \in {"none", "over"}
    BY <2>1 DEF NoMergeAfterWait
  <2>3. worker \in {"none", "done"}
    BY <2>1 DEF ReleaserKept, StopperAgrees
  <2>4. ASSUME ~cancelled, NEW q \in Request, download[q] # "open" PROVE calls[q] = 1
    <3>1. stopper["main"] = "drained"
      BY <2>1, <2>4 DEF ReleaserKept, StopperAgrees
    <3>2. download[q] # "refused"
      BY <2>1 DEF RequestsAgree, Active
    <3>3. download[q] \in {"accepted", "inline"}
      BY <2>4, <3>2 DEF ReleaserKept, Releaser!TypeOK
    <3>4. CASE download[q] = "accepted"
      BY <1>2, <2>4, <3>1, <3>4 DEF Releaser!ShutdownDrains
    <3>5. CASE download[q] = "inline"
      BY <3>5 DEF ReleaserKept, Releaser!ReleasedOnce
    <3> QED  BY <3>3, <3>4, <3>5
  <2> QED  BY <2>1, <2>2, <2>3, <2>4
<1> QED  BY <1>1, <1>2, <1>3 DEF ProcessInv, ShutdownInv, LeasesReleasedOnce, ReleaserKept

LEMMA MainStarts ==
  ASSUME Init PROVE MainKept
<1> USE ShutdownAssumption DEF Init
<1>1. ReleaserKept
  BY ReleaserStarts
<1>0. /\ request \in [Request -> {"merge", "stream", "absent"}]
      /\ \A q \in Request : merge[q] = "none" /\ download[q] = "open"
  BY DEF Releaser!Init
<1>2. MainType
  <2>1. request \in [Request -> RequestState] /\ merge \in [Request -> MergeState]
    BY <1>0 DEF RequestState, MergeState
  <2> QED  BY <2>1, Zenon DEF MainType
<1>3. MergesBounded
  <2>1. {q \in Request : Merging(q)} = {} /\ {q \in Request : merge[q] \notin {"none", "over"}} = {}
    BY <1>0 DEF Merging
  <2> QED  BY <2>1, FS_EmptySet DEF MergesBounded
<1>4. NoMergeAfterWait /\ RequestsAgree
  BY <1>0 DEF NoMergeAfterWait, RequestsAgree
<1>5. WaitsAgree
  BY DEF WaitsAgree
<1> QED  BY <1>1, <1>2, <1>3, <1>4, <1>5 DEF MainKept

LEMMA MergesStay ==
  ASSUME MergesBounded, UNCHANGED <<slots, mergeWG, merge>> PROVE MergesBounded'
BY DEF MergesBounded, Merging

\* Connect, OpenStream, EndRequest: a request goes on and its merge does not.
LEMMA RequestMoves ==
  ASSUME MainKept, NEW q \in Request, Connect(q) \/ OpenStream(q) \/ EndRequest(q)
  PROVE  MainKept'
<1> USE DEF MainKept
<1>1. UNCHANGED <<serverVars, mergeVars, releaserVars>>
  BY DEF Connect, OpenStream, EndRequest
<1>2. ReleaserKept'
  BY <1>1, ReleaserStutters
<1>3. MergesBounded' /\ NoMergeAfterWait'
  BY <1>1, MergesStay DEF mergeVars, NoMergeAfterWait
<1>4. PICK to \in RequestState :
        /\ request' = [request EXCEPT ![q] = to]
        /\ \/ /\ request[q] \in {"merge", "stream"} /\ server = "up"
              /\ to \in {"mergeable", "connected"}
           \/ request[q] \in {"mergeable", "connected"} /\ to = "streaming"
           \/ request[q] = "streaming" /\ to = "done"
  BY DEF Connect, OpenStream, EndRequest, RequestState
<1>5. MainType'
  BY <1>1, <1>4 DEF MainType, serverVars, mergeVars
<1>6. RequestsAgree'
  BY <1>1, <1>4 DEF MainType, RequestsAgree, mergeVars, releaserVars
<1>7. WaitsAgree'
  <2>1. server = "closed" => \A p \in Request : ~Active(p)'
    BY <1>4 DEF MainType, WaitsAgree, Active
  <2> QED  BY <1>1, <2>1 DEF WaitsAgree, serverVars, mergeVars, releaserVars,
                             AllWaitsSucceeded
<1> QED  BY <1>2, <1>3, <1>5, <1>6, <1>7

LEMMA MergeStarts ==
  ASSUME MainKept, NEW q \in Request, ReserveMerge(q) PROVE MainKept'
<1> USE DEF MainKept
<1>1. /\ request[q] = "mergeable" /\ accepting /\ slots < MergeConcurrency
      /\ slots' = slots + 1 /\ mergeWG' = mergeWG + 1
      /\ merge' = [merge EXCEPT ![q] = "acquiring"]
      /\ request' = [request EXCEPT ![q] = "merging"]
      /\ UNCHANGED <<serverVars, accepting, mergeWait, mergesDone, releaserVars>>
  BY DEF ReserveMerge, AcceptsMerges
<1>t. request \in [Request -> RequestState] /\ merge \in [Request -> MergeState]
  BY DEF MainType
<1>2. ReleaserKept'
  BY <1>1, ReleaserStutters
<1>3. MainType'
  BY <1>1 DEF MainType, RequestState, MergeState, serverVars
<1>4. MergesBounded'
  <2> DEFINE M == {p \in Request : Merging(p)}
             W == {p \in Request : merge[p] \notin {"none", "over"}}
  <2>1. M \in SUBSET Request /\ W \in SUBSET Request
    OBVIOUS
  <2>2. merge[q] = "none"
    BY <1>1 DEF RequestsAgree
  <2>3. q \notin M /\ q \notin W
    BY <2>2 DEF Merging
  <2>4. /\ {p \in Request : Merging(p)}' = M \cup {q}
        /\ {p \in Request : merge[p] \notin {"none", "over"}}' = W \cup {q}
    BY <1>t, <1>1 DEF Merging
  <2>5. /\ Cardinality(M) = slots /\ slots <= MergeConcurrency /\ mergeWG = Cardinality(W)
    BY DEF MergesBounded
  <2> HIDE DEF M, W
  <2>6. /\ Cardinality(M \cup {q}) = Cardinality(M) + 1 /\ Cardinality(M) \in Nat
        /\ Cardinality(W \cup {q}) = Cardinality(W) + 1
    BY <2>1, <2>3, OneMore
  <2>7. slots' <= MergeConcurrency
    BY <1>1, <2>5, <2>6, ShutdownAssumption
  <2> QED  BY <1>1, <2>4, <2>5, <2>6, <2>7 DEF MergesBounded
<1>5. NoMergeAfterWait'
  BY <1>1 DEF NoMergeAfterWait, WaitsAgree
<1>6. RequestsAgree'
  BY <1>t, <1>1 DEF RequestsAgree, releaserVars
<1>7. WaitsAgree'
  <2>1. server # "closed"
    BY <1>1 DEF WaitsAgree, Active
  <2> QED  BY <1>1, <2>1 DEF WaitsAgree, serverVars, releaserVars, AllWaitsSucceeded
<1> QED  BY <1>2, <1>3, <1>4, <1>5, <1>6, <1>7

LEMMA MergeGoesOn ==
  ASSUME MainKept, NEW q \in Request, AcquireMaterialization(q) PROVE MainKept'
<1> USE DEF MainKept
<1>1. /\ merge[q] = "acquiring"
      /\ merge' = [merge EXCEPT ![q] = "composing"]
      /\ request' = [request EXCEPT ![q] = "streaming"]
      /\ UNCHANGED <<serverVars, accepting, slots, mergeWG, mergeWait, mergesDone,
                     releaserVars>>
  BY DEF AcquireMaterialization
<1>t. request \in [Request -> RequestState] /\ merge \in [Request -> MergeState]
  BY DEF MainType
<1>m. request[q] = "merging"
  BY <1>1 DEF RequestsAgree
<1>2. ReleaserKept'
  BY <1>1, ReleaserStutters
<1>3. MainType'
  BY <1>1 DEF MainType, RequestState, MergeState, serverVars
<1>4. MergesBounded'
  <2>1. /\ {p \in Request : Merging(p)}' = {p \in Request : Merging(p)}
        /\ {p \in Request : merge[p] \notin {"none", "over"}}'
             = {p \in Request : merge[p] \notin {"none", "over"}}
    BY <1>t, <1>1 DEF Merging
  <2> QED  BY <1>1, <2>1 DEF MergesBounded
<1>5. NoMergeAfterWait'
  BY <1>1 DEF NoMergeAfterWait
<1>6. RequestsAgree'
  BY <1>t, <1>1, <1>m DEF RequestsAgree, releaserVars
<1>7. WaitsAgree'
  <2>1. server # "closed"
    BY <1>m DEF WaitsAgree, Active
  <2> QED  BY <1>1, <2>1 DEF WaitsAgree, serverVars, releaserVars, AllWaitsSucceeded
<1> QED  BY <1>2, <1>3, <1>4, <1>5, <1>6, <1>7

LEMMA MergeFreesSlot ==
  ASSUME MainKept, NEW q \in Request, FreeSlot(q) PROVE MainKept'
<1> USE DEF MainKept
<1>1. /\ merge[q] \in {"acquiring", "composing"}
      /\ merge' = [merge EXCEPT ![q] = "freed"] /\ slots' = slots - 1
      /\ UNCHANGED <<serverVars, request, accepting, mergeWG, mergeWait, mergesDone,
                     releaserVars>>
  BY DEF FreeSlot
<1>t. request \in [Request -> RequestState] /\ merge \in [Request -> MergeState]
  BY DEF MainType
<1>2. ReleaserKept'
  BY <1>1, ReleaserStutters
<1>3. MainType'
  BY <1>1 DEF MainType, MergeState, serverVars
<1>4. MergesBounded'
  <2> DEFINE M == {p \in Request : Merging(p)}
             N == M \ {q}
  <2>1. N \in SUBSET Request /\ q \notin N
    OBVIOUS
  <2>2. N \cup {q} = M
    BY <1>1 DEF Merging
  <2>4. /\ {p \in Request : Merging(p)}' = N
        /\ {p \in Request : merge[p] \notin {"none", "over"}}'
             = {p \in Request : merge[p] \notin {"none", "over"}}
    BY <1>t, <1>1 DEF Merging
  <2>5. Cardinality(M) = slots /\ slots <= MergeConcurrency
    BY DEF MergesBounded
  <2> HIDE DEF M, N
  <2>6. Cardinality(M) = Cardinality(N) + 1 /\ Cardinality(N) \in Nat
    BY <2>1, <2>2, OneMore
  <2>7. slots' = Cardinality(N) /\ slots' <= MergeConcurrency
    BY <1>1, <2>5, <2>6, ShutdownAssumption
  <2> QED  BY <1>1, <2>4, <2>7 DEF MergesBounded
<1>5. NoMergeAfterWait'
  BY <1>1 DEF NoMergeAfterWait
<1>6. RequestsAgree'
  BY <1>t, <1>1 DEF RequestsAgree, releaserVars
<1>7. WaitsAgree'
  BY <1>1 DEF WaitsAgree, serverVars, releaserVars, AllWaitsSucceeded, Active
<1> QED  BY <1>2, <1>3, <1>4, <1>5, <1>6, <1>7

LEMMA MergeEnds ==
  ASSUME MainKept, NEW q \in Request, MergeIsDone(q) PROVE MainKept'
<1> USE DEF MainKept
<1>1. /\ merge[q] = "freed"
      /\ merge' = [merge EXCEPT ![q] = "over"] /\ mergeWG' = mergeWG - 1
      /\ request' = IF request[q] = "merging"
                      THEN [request EXCEPT ![q] = "streaming"] ELSE request
      /\ UNCHANGED <<serverVars, accepting, slots, mergeWait, mergesDone, releaserVars>>
  BY DEF MergeIsDone
<1>t. request \in [Request -> RequestState] /\ merge \in [Request -> MergeState]
  BY DEF MainType
<1>2. ReleaserKept'
  BY <1>1, ReleaserStutters
<1>3. MainType'
  BY <1>1 DEF MainType, RequestState, MergeState, serverVars
<1>4. MergesBounded'
  <2> DEFINE W == {p \in Request : merge[p] \notin {"none", "over"}}
             N == W \ {q}
  <2>1. N \in SUBSET Request /\ q \notin N
    OBVIOUS
  <2>2. N \cup {q} = W
    BY <1>1
  <2>4. /\ {p \in Request : Merging(p)}' = {p \in Request : Merging(p)}
        /\ {p \in Request : merge[p] \notin {"none", "over"}}' = N
    BY <1>t, <1>1 DEF Merging
  <2>5. mergeWG = Cardinality(W)
    BY DEF MergesBounded
  <2> HIDE DEF W, N
  <2>6. Cardinality(W) = Cardinality(N) + 1 /\ Cardinality(N) \in Nat
    BY <2>1, <2>2, OneMore
  <2>7. mergeWG' = Cardinality(N)
    BY <1>1, <2>5, <2>6
  <2> QED  BY <1>1, <2>4, <2>7 DEF MergesBounded
<1>5. NoMergeAfterWait'
  BY <1>1 DEF NoMergeAfterWait
<1>6. RequestsAgree'
  BY <1>t, <1>1 DEF RequestsAgree, releaserVars
<1>7. WaitsAgree'
  <2>1. server = "closed" => \A p \in Request : ~Active(p)'
    BY <1>t, <1>1 DEF WaitsAgree, Active
  <2> QED  BY <1>1, <2>1 DEF WaitsAgree, serverVars, releaserVars, AllWaitsSucceeded
<1> QED  BY <1>2, <1>3, <1>4, <1>5, <1>6, <1>7

\* The lease of a download goes to the releaser, or is released by the request itself.
LEMMA StreamCloses ==
  ASSUME MainKept, NEW q \in Request, CloseStream(q) \/ ReleaseInline(q) PROVE MainKept'
<1> USE DEF MainKept
<1>t. /\ request \in [Request -> RequestState] /\ merge \in [Request -> MergeState]
      /\ download \in [Request -> {"open", "accepted", "refused", "inline"}]
  BY DEF MainType, ReleaserKept, Releaser!TypeOK
<1>1. /\ UNCHANGED <<serverVars, mergeVars, stopper>>
      /\ request[q] \in {"streaming", "closing"}
  BY DEF CloseStream, ReleaseInline, Releaser!Enqueue, Releaser!ReleaseInline
<1>2. ReleaserKept'
  BY ReleaserEnqueues, ReleaserInline DEF CloseStream, ReleaseInline
<1>3. MergesBounded' /\ NoMergeAfterWait'
  BY <1>1, MergesStay DEF mergeVars, NoMergeAfterWait
<1>4. PICK to \in {"done", "closing"}, lease \in {"accepted", "refused", "inline"} :
        /\ request' = [request EXCEPT ![q] = to]
        /\ download' = [download EXCEPT ![q] = lease]
        /\ lease = "refused" => to = "closing"
  <2>1. CASE CloseStream(q)
    <3>1. /\ download' \in {[download EXCEPT ![q] = lease] : lease \in {"accepted", "refused"}}
          /\ request' = [request EXCEPT ![q] = IF download'[q] = "accepted" THEN "done"
                                                                            ELSE "closing"]
      BY <2>1 DEF CloseStream, Releaser!Enqueue
    <3>2. PICK lease \in {"accepted", "refused"} : download' = [download EXCEPT ![q] = lease]
      BY <3>1
    <3>3. download'[q] = lease
      BY <1>t, <3>2
    <3> QED  BY <3>1, <3>2, <3>3
  <2>2. CASE ReleaseInline(q)
    BY <2>2 DEF ReleaseInline, Releaser!ReleaseInline
  <2> QED  BY <2>1, <2>2
<1>5. MainType'
  BY <1>1, <1>4 DEF MainType, RequestState, serverVars, mergeVars
<1>6. RequestsAgree'
  BY <1>t, <1>1, <1>4 DEF RequestsAgree, mergeVars
<1>7. WaitsAgree'
  <2>1. server # "closed"
    BY <1>1 DEF WaitsAgree, Active
  <2> QED  BY <1>1, <2>1 DEF WaitsAgree, serverVars, mergeVars, AllWaitsSucceeded
<1> QED  BY <1>2, <1>3, <1>5, <1>6, <1>7

\* main itself, the waits it makes and the goroutines that end them.
LEMMA MainMoves ==
  ASSUME MainKept, main \notin {"stopped", "died"},
         \/ Signal \/ ServeFails \/ TimeOut \/ StopAcceptingMerges \/ StartWaiting
         \/ ReleaserStopped \/ MergesStopped \/ Exit
         \/ ServerClosed \/ BackgroundDone \/ NoMergesLeft \/ WaitForMerges
  PROVE  MainKept'
<1> USE DEF MainKept
<1>1. UNCHANGED <<request, slots, mergeWG, merge, releaserVars>>
  BY DEF Signal, ServeFails, TimeOut, StopAcceptingMerges, StartWaiting, ReleaserStopped,
         MergesStopped, Exit, ServerClosed, BackgroundDone, NoMergesLeft, WaitForMerges,
         mergeVars
<1>2. ReleaserKept' /\ MergesBounded'
  BY <1>1, ReleaserStutters, MergesStay
<1>3. RequestsAgree'
  BY <1>1 DEF RequestsAgree, releaserVars
<1>4. \A q \in Request : Active(q)' <=> Active(q)
  BY <1>1 DEF Active
<1>5. stopper' = stopper
  BY <1>1 DEF releaserVars
<1> USE DEF MainType, WaitsAgree, NoMergeAfterWait, AllWaitsSucceeded, serverVars, mergeVars
<1>6. CASE Signal \/ ServeFails \/ BackgroundDone \/ TimeOut
  <2>1. /\ UNCHANGED <<server, mergeVars>>
        /\ \/ main = "serving" /\ main' \in {"signalled", "died"}
           \/ main' = main
        /\ background' \in {background, "cancelled", "done"}
        /\ main = "stopped" => background' = background
        /\ expired' \in {expired, TRUE}
    BY <1>6, main \notin {"stopped", "died"} DEF Signal, ServeFails, BackgroundDone, TimeOut
  <2>2. MainType'
    BY <1>1, <2>1, ZenonT(60)
  <2>3. NoMergeAfterWait'
    BY <1>1, <2>1
  <2>4. WaitsAgree'
    BY <1>1, <1>4, <1>5, <2>1, main \notin {"stopped", "died"}
  <2> QED  BY <1>2, <1>3, <2>2, <2>3, <2>4
<1>7. CASE StopAcceptingMerges
  BY <1>1, <1>2, <1>3, <1>4, <1>5, <1>7 DEF StopAcceptingMerges
<1>8. CASE StartWaiting
  <2>1. /\ ~accepting /\ main' = "server" /\ server' = "closing" /\ mergeWait' = "waiting"
        /\ UNCHANGED <<expired, background, accepting, mergesDone>>
    BY <1>8 DEF StartWaiting
  <2>2. MainType' /\ NoMergeAfterWait'
    BY <1>1, <2>1
  <2>3. WaitsAgree'
    BY <1>4, <1>5, <2>1
  <2> QED  BY <1>2, <1>3, <2>2, <2>3
<1>9. CASE ReleaserStopped \/ MergesStopped
  BY <1>1, <1>2, <1>3, <1>4, <1>5, <1>9 DEF ReleaserStopped, MergesStopped
<1>10. CASE Exit
  BY <1>1, <1>2, <1>3, <1>4, <1>5, <1>10 DEF Exit
<1>11. CASE ServerClosed
  BY <1>1, <1>2, <1>3, <1>4, <1>5, <1>11 DEF ServerClosed
<1>12. CASE NoMergesLeft
  <2>1. /\ mergeWait # "off" /\ mergeWG = 0 /\ mergesDone' = TRUE
        /\ UNCHANGED <<serverVars, accepting, mergeWait>>
    BY <1>12 DEF NoMergesLeft
  <2>2. {q \in Request : merge[q] \notin {"none", "over"}} = {}
    <3> DEFINE W == {q \in Request : merge[q] \notin {"none", "over"}}
    <3>1. IsFiniteSet(W)
      BY ShutdownAssumption, FS_Subset
    <3>2. Cardinality(W) = 0
      BY <2>1 DEF MergesBounded
    <3> HIDE DEF W
    <3>3. W = {}
      BY <3>1, <3>2, FS_EmptySet
    <3> QED  BY <3>3 DEF W
  <2> QED  BY <1>1, <1>2, <1>3, <1>4, <1>5, <2>1, <2>2
<1>13. CASE WaitForMerges
  BY <1>1, <1>2, <1>3, <1>4, <1>5, <1>13 DEF WaitForMerges, DoneOrTimedOut
<1> QED  BY <1>6, <1>7, <1>8, <1>9, <1>10, <1>11, <1>12, <1>13

LEMMA ReleaserMoves ==
  ASSUME MainKept, StopReleaser \/ WaitForReleaser \/ ReleaserStep PROVE MainKept'
<1> USE DEF MainKept
<1>1. ReleaserKept'
  BY ReleaserTakes, ReleaserCalls, ReleaserTurns
     DEF StopReleaser, WaitForReleaser, ReleaserStep, Releaser!WorkerStep
<1>2. /\ UNCHANGED <<expired, server, background, request, mergeVars, download>>
      /\ \/ main' = "releaser"
         \/ main' = main /\ (stopper["main"] \in {"drained", "abandoned"}
                               => stopper'["main"] \in {"drained", "abandoned"})
  <2>1. CASE StopReleaser
    BY <2>1 DEF StopReleaser, Releaser!BeginShutdown
  <2>2. CASE WaitForReleaser
    BY <2>2 DEF WaitForReleaser, Releaser!WorkerIsDone, Releaser!CancelWorker,
                Releaser!ReturnCancelled, serverVars
  <2>3. CASE ReleaserStep
    BY <2>3 DEF ReleaserStep, Releaser!WorkerStep, Releaser!TakeLease, Releaser!Flush,
                Releaser!QueueIsClosed, Releaser!AbandonLeases, Releaser!ReleaseBatch,
                Releaser!TimerExpires, serverVars
  <2> QED  BY <2>1, <2>2, <2>3
<1>3. MergesBounded' /\ NoMergeAfterWait'
  BY <1>2, MergesStay DEF mergeVars, NoMergeAfterWait
<1>4. MainType' /\ RequestsAgree'
  BY <1>2 DEF MainType, RequestsAgree, mergeVars
<1>5. WaitsAgree'
  BY <1>2 DEF WaitsAgree, mergeVars, AllWaitsSucceeded, Active
<1> QED  BY <1>1, <1>3, <1>4, <1>5

LEMMA MainSteps ==
  ASSUME MainKept, [Next]_vars PROVE MainKept'
<1>1. CASE UNCHANGED vars
  <2>1. UNCHANGED <<serverVars, request, mergeVars, releaserVars>>
    BY <1>1 DEF vars
  <2>2. ReleaserKept' /\ MergesBounded'
    BY <2>1, ReleaserStutters, MergesStay DEF MainKept, mergeVars
  <2> QED  BY <2>1, <2>2 DEF MainKept, MainType, NoMergeAfterWait, RequestsAgree,
                             WaitsAgree, AllWaitsSucceeded, Active, serverVars, mergeVars,
                             releaserVars
<1>2. CASE Next
  <2>1. ASSUME NEW q \in Request, RequestStep(q) PROVE MainKept'
    BY <2>1, RequestMoves, MergeStarts, MergeGoesOn, MergeFreesSlot, MergeEnds,
       StreamCloses DEF RequestStep
  <2>2. main \notin {"stopped", "died"}
    BY <1>2 DEF Next
  <2> QED  BY <1>2, <2>1, <2>2, MainMoves, ReleaserMoves DEF Next, MainStep
<1> QED  BY <1>1, <1>2

-----------------------------------------------------------------------------
(* Powers of two, which the delays of retries are: the number of the subsets *)
(* of a set.                                                                 *)

LEMMA PowerCounts ==
  ASSUME NEW n \in Nat
  PROVE  /\ IsFiniteSet(1..n) /\ IsFiniteSet(SUBSET (1..n))
         /\ Cardinality(1..n) = n /\ Cardinality(SUBSET (1..n)) = 2^n /\ 2^n \in Nat
<1>1. IsFiniteSet(1..n) /\ Cardinality(1..n) = n
  <2>1. PICK a \in Int, b \in Int : a = 1 /\ b = n
    OBVIOUS
  <2>2. IsFiniteSet(a..b) /\ Cardinality(a..b) = IF a > b THEN 0 ELSE b - a + 1
    BY FS_Interval
  <2> QED  BY <2>1, <2>2
<1>2. IsFiniteSet(SUBSET (1..n)) /\ Cardinality(SUBSET (1..n)) = 2^n
  <2>1. PICK S : S = 1..n
    OBVIOUS
  <2>2. IsFiniteSet(SUBSET S) /\ Cardinality(SUBSET S) = 2^Cardinality(S)
    BY <1>1, <2>1, FS_SUBSET
  <2> QED  BY <1>1, <2>1, <2>2, Zenon
<1>3. Cardinality(SUBSET (1..n)) \in Nat
  BY <1>2, FS_CardinalityType
<1> QED  BY <1>1, <1>2, <1>3, Zenon

LEMMA PowerDoubles ==
  ASSUME NEW n \in Nat PROVE 2^(n + 1) = 2 * 2^n
<1> DEFINE A == SUBSET (1..n)
           B == {x \cup {n + 1} : x \in A}
           C == SUBSET (1..(n + 1))
           f == [x \in A |-> x \cup {n + 1}]
<1>1. \A x \in A : n + 1 \notin x
  OBVIOUS
<1>2. f \in Bijection(A, B)
  <2>1. f \in [A -> B] /\ \A t \in B : \E x \in A : f[x] = t
    OBVIOUS
  <2>2. \A x, y \in A : f[x] = f[y] => x = y
    <3> SUFFICES ASSUME NEW x \in A, NEW y \in A, x \cup {n + 1} = y \cup {n + 1}
                 PROVE  x = y
      OBVIOUS
    <3>1. x = (x \cup {n + 1}) \ {n + 1} /\ y = (y \cup {n + 1}) \ {n + 1}
      BY <1>1
    <3> QED  BY <3>1
  <2> HIDE DEF A, B, f
  <2> QED  BY <2>1, <2>2, Fun_IsBij
<1>3. C = A \cup B /\ A \cap B = {}
  <2>1. ASSUME NEW x \in C PROVE x \in A \cup B
    <3>1. CASE n + 1 \in x
      <4>1. x \ {n + 1} \in A
        OBVIOUS
      <4>2. x = (x \ {n + 1}) \cup {n + 1}
        BY <3>1
      <4> QED  BY <4>1, <4>2
    <3>2. CASE n + 1 \notin x
      BY <3>2
    <3> QED  BY <3>1, <3>2
  <2>2. ASSUME NEW x \in A PROVE x \in C /\ x \cup {n + 1} \in C
    <3>1. 1..n \subseteq 1..(n + 1) /\ n + 1 \in 1..(n + 1)
      OBVIOUS
    <3> QED  BY <3>1
  <2>3. \A x \in B : n + 1 \in x
    OBVIOUS
  <2> HIDE DEF C
  <2>4. B \subseteq C /\ A \subseteq C
    BY <2>2
  <2>5. C \subseteq A \cup B
    BY <2>1
  <2>6. A \cap B = {}
    BY <1>1, <2>3
  <2> HIDE DEF A, B
  <2> QED  BY <2>4, <2>5, <2>6
<1>4. IsFiniteSet(A) /\ Cardinality(A) = 2^n /\ 2^n \in Nat
  BY PowerCounts
<1>5. Cardinality(C) = 2^(n + 1)
  <2>1. n + 1 \in Nat
    OBVIOUS
  <2> QED  BY <2>1, PowerCounts
<1> HIDE DEF A, B, C, f
<1>6. IsFiniteSet(B) /\ Cardinality(B) = Cardinality(A)
  BY <1>2, <1>4, FS_Bijection DEF ExistsBijection
<1>7. Cardinality(A \cup B) = Cardinality(A) + Cardinality(B) - Cardinality(A \cap B)
  BY <1>4, <1>6, FS_Union
<1>8. Cardinality(C) = 2 * Cardinality(A)
  BY <1>3, <1>4, <1>6, <1>7, FS_EmptySet
<1> QED  BY <1>4, <1>5, <1>8, Zenon

LEMMA PowerGrows ==
  ASSUME NEW n \in Nat PROVE 2^n >= n /\ 2^n \in Nat
<1> DEFINE f == [x \in 1..n |-> {x}]
<1>1. f \in Injection(1..n, SUBSET (1..n))
  <2>1. f \in [1..n -> SUBSET (1..n)] /\ \A x, y \in 1..n : f[x] = f[y] => x = y
    OBVIOUS
  <2> QED  BY <2>1, Fun_IsInj
<1>2. Cardinality(1..n) <= Cardinality(SUBSET (1..n))
  BY <1>1, PowerCounts, FS_Injection
<1> QED  BY <1>2, PowerCounts

LEMMA PowerOfZero == 2^0 = 1 /\ 2^(1 - 1) = 1
BY SMT

-----------------------------------------------------------------------------
(* The loops of the services.                                                *)

\* The gate's timer is armed by the signal the orphan job stops listening to; the count of
\* failures goes no further than the delay.
ServicesKept ==
  /\ Services!RunsInv
  /\ readyTimer # "off" => ~readySignal
  /\ failures <= RetryMaximum

LEMMA ServicesStart ==
  ASSUME Services!Init PROVE ServicesKept
<1> USE ServicesAssumption DEF Services!RetryAssumption
<1>1. Services!TypeOK
  <2>1. retryDelay \in RetryInitial .. RetryMaximum /\ failures \in Nat
    BY SMT DEF Services!Init
  <2> QED  BY <2>1, Zenon DEF Services!TypeOK, Services!Init, Services!Timer
<1>2. Services!BackoffDoubles
  <2>1. retryDelay = RetryInitial /\ failures = 0
    BY DEF Services!Init
  <2>2. RetryInitial * 2^0 = RetryInitial
    BY PowerOfZero, SMT
  <2> QED  BY <2>1, <2>2 DEF Services!BackoffDoubles, Services!Least
<1>3. /\ Services!NoPassBeforeReady /\ Services!TriggerRemembered
      /\ Services!FailureRetried /\ Services!NoRunOnItsHeels
      /\ readyTimer # "off" => ~readySignal
      /\ failures <= RetryMaximum
  BY DEF Services!Init, Services!NoPassBeforeReady, Services!TriggerRemembered,
         Services!FailureRetried, Services!NoRunOnItsHeels
<1> QED  BY <1>1, <1>2, <1>3 DEF ServicesKept, Services!RunsInv

\* The delay doubles until it reaches its limit, and so does that of the next failure.
LEMMA DelayDoubles ==
  ASSUME NEW i \in Nat \ {0}, NEW m \in Nat, i <= m, NEW n \in Nat, n <= m
  PROVE  Services!Least(Services!Least(i * 2^n, m) * 2, m)
           = Services!Least(i * 2^Services!Least(n + 1, m), m)
<1>1. PICK p \in Nat : p = 2^n
  BY PowerCounts
<1>2. CASE n < m
  <2>1. Services!Least(n + 1, m) = n + 1
    BY <1>2 DEF Services!Least
  <2>2. 2^(n + 1) = 2 * p
    BY <1>1, PowerDoubles
  <2>3. i * (2 * p) = 2 * (i * p) /\ i * p \in Nat
    BY ONLY i \in Nat, p \in Nat, SMT
  <2>4. PICK x \in Nat : x = i * p
    BY <2>3
  <2>5. Services!Least(Services!Least(x, m) * 2, m) = Services!Least(2 * x, m)
    BY DEF Services!Least
  <2> QED  BY <1>1, <2>1, <2>2, <2>3, <2>4, <2>5
<1>3. CASE n = m
  <2>1. Services!Least(n + 1, m) = n
    BY <1>3 DEF Services!Least
  <2>2. p >= m
    BY <1>1, <1>3, PowerGrows
  <2>3. i * p >= p /\ i * p \in Nat
    BY ONLY i \in Nat \ {0}, p \in Nat, SMT
  <2>4. PICK x \in Nat : x = i * p
    BY <2>3
  <2>5. x >= m
    BY <2>2, <2>3, <2>4
  <2>6. Services!Least(Services!Least(x, m) * 2, m) = Services!Least(x, m)
    BY <2>5 DEF Services!Least
  <2> QED  BY <1>1, <2>1, <2>4, <2>6
<1> QED  BY <1>2, <1>3

LEMMA PassFailureKept ==
  ASSUME ServicesKept, Services!PassFails
  PROVE  Services!BackoffDoubles' /\ failures' <= RetryMaximum
<1>1. /\ RetryInitial \in Nat \ {0} /\ RetryMaximum \in Nat /\ RetryInitial <= RetryMaximum
      /\ failures \in Nat /\ failures <= RetryMaximum
      /\ retryDelay = Services!Least(RetryInitial * 2^failures, RetryMaximum)
      /\ retryDelay' = Services!Least(retryDelay * 2, RetryMaximum)
      /\ failures' = Services!Least(failures + 1, RetryMaximum)
  BY ServicesAssumption DEF Services!RetryAssumption, ServicesKept, Services!RunsInv,
     Services!TypeOK, Services!BackoffDoubles, Services!PassFails
<1>2. Services!Least(Services!Least(RetryInitial * 2^failures, RetryMaximum) * 2, RetryMaximum)
        = Services!Least(RetryInitial * 2^Services!Least(failures + 1, RetryMaximum),
                         RetryMaximum)
  BY <1>1, DelayDoubles
<1>3. retryDelay' = Services!Least(RetryInitial * 2^failures', RetryMaximum)
  BY <1>1, <1>2, Zenon
<1>4. failures' <= RetryMaximum
  BY <1>1 DEF Services!Least
<1> QED  BY <1>3, <1>4, Zenon DEF Services!BackoffDoubles, Services!Least

\* backgroundCancel is called, or nothing happens; neither loop has it in its invariant.
LEMMA ServicesCancelled ==
  ASSUME ServicesKept, stopped' \in BOOLEAN, UNCHANGED loopVars PROVE ServicesKept'
BY DEF ServicesKept, Services!RunsInv, Services!TypeOK, Services!NoPassBeforeReady,
       Services!TriggerRemembered, Services!FailureRetried, Services!BackoffDoubles,
       Services!NoRunOnItsHeels, loopVars

\* What the loops keep that is no arithmetic.
LoopTypes ==
  /\ stopped \in BOOLEAN /\ ready \in BOOLEAN
  /\ reconcile \in {"running", "waiting", "done"}
  /\ capacity \in {"gate", "drain", "start", "pass", "select", "done"}
  /\ trigger \in BOOLEAN /\ unseen \in BOOLEAN
  /\ ticker \in Services!Timer /\ retry \in Services!Timer
  /\ orphans \in {"select", "job", "done"}
  /\ readySignal \in BOOLEAN
  /\ readyTimer \in Services!Timer /\ periodicTimer \in Services!Timer
Loops ==
  /\ Services!NoPassBeforeReady /\ Services!TriggerRemembered
  /\ Services!FailureRetried /\ Services!NoRunOnItsHeels
  /\ readyTimer # "off" => ~readySignal
Delays ==
  /\ retryDelay \in RetryInitial .. RetryMaximum /\ failures \in Nat
  /\ failures <= RetryMaximum /\ Services!BackoffDoubles

LEMMA ServicesParts == ServicesKept <=> LoopTypes /\ Loops /\ Delays
BY DEF ServicesKept, LoopTypes, Loops, Delays, Services!RunsInv, Services!TypeOK

LEMMA ServicesSteps ==
  ASSUME ServicesKept, Services!Next PROVE ServicesKept'
<1>p. LoopTypes /\ Loops /\ Delays
  BY ServicesParts
<1>q. ASSUME LoopTypes', Loops', Delays' PROVE ServicesKept'
  <2>1. (ServicesKept <=> LoopTypes /\ Loops /\ Delays)'
    BY ServicesParts, PTL
  <2> QED  BY <1>q, <2>1
<1>b. ASSUME UNCHANGED <<retryDelay, failures>> PROVE Delays'
  BY <1>p, <1>b DEF Delays, Services!BackoffDoubles
<1> USE DEF LoopTypes, Loops, Services!Timer, Services!NoPassBeforeReady,
            Services!TriggerRemembered, Services!FailureRetried, Services!NoRunOnItsHeels
<1>1. CASE Services!BackgroundCancel
  <2>1. stopped' \in BOOLEAN /\ UNCHANGED loopVars
    BY <1>1 DEF Services!BackgroundCancel, Services!capacityVars, Services!orphanVars, loopVars
  <2> QED  BY <2>1, ServicesCancelled
<1>2. CASE Services!ReconcileStep
  <2>1. /\ UNCHANGED <<stopped, capacity, trigger, ticker, retry, retryDelay, unseen, failures,
                        orphans, readySignal, readyTimer, periodicTimer>>
        /\ ready => ready'
        /\ ready' \in BOOLEAN /\ reconcile' \in {"running", "waiting", "done"}
    BY <1>p, <1>2 DEF Services!ReconcileStep, Services!Reconcile, Services!ReconcileAgain,
       Services!StopReconciling, Services!capacityVars, Services!orphanVars
  <2>2. LoopTypes'
    BY <1>p, <2>1
  <2>3. Loops'
    BY <1>p, <2>1
  <2> QED  BY <1>b, <1>q, <2>1, <2>2, <2>3
<1>3. CASE Services!PassSucceeds
  <2>1. /\ capacity' = "select" /\ retry' = "off" /\ retryDelay' = RetryInitial
        /\ failures' = 0 /\ capacity = "pass"
        /\ UNCHANGED <<Services!gateVars, trigger, ticker, unseen, Services!orphanVars>>
    BY <1>3 DEF Services!PassSucceeds, Services!ResetDelay
  <2>2. Delays'
    <3>1. RetryInitial * 2^0 = RetryInitial /\ RetryInitial <= RetryMaximum
          /\ RetryInitial \in Nat /\ RetryMaximum \in Nat
      BY ServicesAssumption, PowerOfZero, SMT DEF Services!RetryAssumption
    <3> QED  BY <2>1, <3>1 DEF Delays, Services!BackoffDoubles, Services!Least
  <2>3. LoopTypes' /\ Loops'
    BY <1>p, <2>1 DEF Services!gateVars, Services!orphanVars
  <2> QED  BY <1>q, <2>2, <2>3
<1>4. CASE Services!PassFails
  <2>1. Services!BackoffDoubles' /\ failures' <= RetryMaximum
    BY <1>4, PassFailureKept
  <2>2. /\ capacity' = "select" /\ retry' = "on" /\ capacity = "pass"
        /\ retryDelay' = Services!Least(retryDelay * 2, RetryMaximum)
        /\ failures' = Services!Least(failures + 1, RetryMaximum)
        /\ UNCHANGED <<Services!gateVars, trigger, ticker, unseen, Services!orphanVars>>
    BY <1>4 DEF Services!PassFails
  <2>3. retryDelay' \in RetryInitial .. RetryMaximum /\ failures' \in Nat \ {0}
    BY <1>p, <2>2, ServicesAssumption DEF Delays, Services!RetryAssumption, Services!Least
  <2>4. Delays'
    BY <2>1, <2>3 DEF Delays
  <2>5. LoopTypes' /\ Loops'
    BY <1>p, <2>2, <2>3 DEF Services!gateVars, Services!orphanVars
  <2> QED  BY <1>q, <2>4, <2>5
<1>5. CASE Services!Trigger
  <2>1. UNCHANGED <<stopped, ready, reconcile, orphans, readySignal, readyTimer,
           periodicTimer, retryDelay, failures>>
    BY <1>5 DEF Services!Trigger, Services!gateVars, Services!orphanVars
  <2>2. LoopTypes'
    BY <1>p, <1>5, <2>1 DEF Services!Trigger
  <2>3. Loops'
    BY <1>p, <1>5, <2>1 DEF Services!Trigger
  <2> QED  BY <1>b, <1>q, <2>1, <2>2, <2>3
<1>6. CASE Services!PassGate \/ Services!StopAtGate \/ Services!DrainSignal
  <2>1. UNCHANGED <<stopped, ready, reconcile, orphans, readySignal, readyTimer,
           periodicTimer, retryDelay, failures>>
    BY <1>6 DEF Services!PassGate, Services!StopAtGate, Services!DrainSignal,
       Services!gateVars, Services!orphanVars
  <2>2. LoopTypes'
    BY <1>p, <1>6, <2>1 DEF Services!PassGate, Services!StopAtGate, Services!DrainSignal
  <2>3. Loops'
    BY <1>p, <1>6, <2>1 DEF Services!PassGate, Services!StopAtGate, Services!DrainSignal
  <2> QED  BY <1>b, <1>q, <2>1, <2>2, <2>3
<1>7. CASE Services!BeginPass \/ Services!PassIsCancelled
  <2>1. UNCHANGED <<stopped, ready, reconcile, orphans, readySignal, readyTimer,
           periodicTimer, retryDelay, failures>>
    BY <1>7 DEF Services!BeginPass, Services!PassIsCancelled, Services!gateVars,
       Services!orphanVars
  <2>2. LoopTypes'
    BY <1>p, <1>7, <2>1 DEF Services!BeginPass, Services!PassIsCancelled
  <2>3. Loops'
    BY <1>p, <1>7, <2>1 DEF Services!BeginPass, Services!PassIsCancelled
  <2> QED  BY <1>b, <1>q, <2>1, <2>2, <2>3
<1>8. CASE Services!TakeTrigger \/ Services!TakeTick
  <2>1. UNCHANGED <<stopped, ready, reconcile, orphans, readySignal, readyTimer,
           periodicTimer, retryDelay, failures>>
    BY <1>8 DEF Services!TakeTrigger, Services!TakeTick, Services!gateVars,
       Services!orphanVars
  <2>2. LoopTypes'
    BY <1>p, <1>8, <2>1 DEF Services!TakeTrigger, Services!TakeTick
  <2>3. Loops'
    BY <1>p, <1>8, <2>1 DEF Services!TakeTrigger, Services!TakeTick
  <2> QED  BY <1>b, <1>q, <2>1, <2>2, <2>3
<1>9. CASE Services!TakeRetry \/ Services!StopSelecting
  <2>1. UNCHANGED <<stopped, ready, reconcile, orphans, readySignal, readyTimer,
           periodicTimer, retryDelay, failures>>
    BY <1>9 DEF Services!TakeRetry, Services!StopSelecting, Services!gateVars,
       Services!orphanVars
  <2>2. LoopTypes'
    BY <1>p, <1>9, <2>1 DEF Services!TakeRetry, Services!StopSelecting
  <2>3. Loops'
    BY <1>p, <1>9, <2>1 DEF Services!TakeRetry, Services!StopSelecting
  <2> QED  BY <1>b, <1>q, <2>1, <2>2, <2>3
<1>10. CASE Services!StorageReady \/ Services!RunWhenReady
  <2>1. UNCHANGED <<stopped, ready, reconcile, capacity, trigger, ticker, retry,
           retryDelay, unseen, failures>>
    BY <1>10 DEF Services!StorageReady, Services!RunWhenReady, Services!gateVars,
       Services!capacityVars
  <2>2. LoopTypes'
    <3>1. /\ orphans' \in {orphans, "job"} /\ readySignal' \in {readySignal, FALSE}
          /\ readyTimer' \in {"on", "off"} /\ periodicTimer' \in {periodicTimer, "off"}
      BY <1>10 DEF Services!StorageReady, Services!RunWhenReady, Services!Halted
    <3>2. /\ stopped' = stopped /\ ready' = ready /\ reconcile' = reconcile
          /\ capacity' = capacity /\ trigger' = trigger /\ unseen' = unseen
          /\ ticker' = ticker /\ retry' = retry
      BY <2>1
    <3>3. LoopTypes
      BY <1>p
    <3>4. /\ stopped' \in BOOLEAN /\ ready' \in BOOLEAN
          /\ trigger' \in BOOLEAN /\ unseen' \in BOOLEAN
      BY ONLY <3>2, <3>3 DEF LoopTypes
    <3>5. /\ reconcile' \in {"running", "waiting", "done"}
          /\ capacity' \in {"gate", "drain", "start", "pass", "select", "done"}
      BY ONLY <3>2, <3>3 DEF LoopTypes
    <3>6. ticker' \in Services!Timer /\ retry' \in Services!Timer
      BY ONLY <3>2, <3>3 DEF LoopTypes
    <3>7. orphans' \in {"select", "job", "done"}
      BY ONLY <3>1, <3>3 DEF LoopTypes
    <3>8. readySignal' \in BOOLEAN
      BY ONLY <3>1, <3>3, Zenon DEF LoopTypes
    <3>9. readyTimer' \in Services!Timer /\ periodicTimer' \in Services!Timer
      BY ONLY <3>1, <3>3 DEF LoopTypes, Services!Timer
    <3> QED  BY ONLY <3>4, <3>5, <3>6, <3>7, <3>8, <3>9 DEF LoopTypes
  <2>3. Loops'
    BY <1>p, <1>10, <2>1 DEF Services!StorageReady, Services!RunWhenReady,
       Services!Halted
  <2> QED  BY <1>b, <1>q, <2>1, <2>2, <2>3
<1>11. CASE Services!RunPeriodically
  <2>1. UNCHANGED <<stopped, ready, reconcile, capacity, trigger, ticker, retry,
           retryDelay, unseen, failures>>
    BY <1>11 DEF Services!RunPeriodically, Services!gateVars, Services!capacityVars
  <2>2. LoopTypes'
    BY <1>p, <1>11, <2>1 DEF Services!RunPeriodically, Services!Halted
  <2>3. Loops'
    BY <1>p, <1>11, <2>1 DEF Services!RunPeriodically, Services!Halted
  <2> QED  BY <1>b, <1>q, <2>1, <2>2, <2>3
<1>12. CASE Services!EndJob \/ Services!StopOrphanJob
  <2>1. UNCHANGED <<stopped, ready, reconcile, capacity, trigger, ticker, retry,
           retryDelay, unseen, failures>>
    BY <1>12 DEF Services!EndJob, Services!StopOrphanJob, Services!gateVars,
       Services!capacityVars
  <2>2. LoopTypes'
    BY <1>p, <1>12, <2>1 DEF Services!EndJob, Services!StopOrphanJob, Services!Rearmed
  <2>3. Loops'
    BY <1>p, <1>12, <2>1 DEF Services!EndJob, Services!StopOrphanJob, Services!Rearmed
  <2> QED  BY <1>b, <1>q, <2>1, <2>2, <2>3
<1>13. CASE Services!TickerTicks \/ Services!RetryExpires
  <2>1. UNCHANGED <<stopped, ready, reconcile, orphans, readySignal, readyTimer,
           periodicTimer, retryDelay, failures>>
    BY <1>13 DEF Services!TickerTicks, Services!RetryExpires, Services!gateVars,
       Services!orphanVars
  <2>2. LoopTypes'
    BY <1>p, <1>13, <2>1 DEF Services!TickerTicks, Services!RetryExpires
  <2>3. Loops'
    BY <1>p, <1>13, <2>1 DEF Services!TickerTicks, Services!RetryExpires
  <2> QED  BY <1>b, <1>q, <2>1, <2>2, <2>3
<1>14. CASE Services!ReadyTimerExpires \/ Services!PeriodicTimerExpires
  <2>1. UNCHANGED <<stopped, ready, reconcile, capacity, trigger, ticker, retry,
           retryDelay, unseen, failures>>
    BY <1>14 DEF Services!ReadyTimerExpires, Services!PeriodicTimerExpires,
       Services!gateVars, Services!capacityVars
  <2>2. LoopTypes'
    BY <1>p, <1>14, <2>1 DEF Services!ReadyTimerExpires, Services!PeriodicTimerExpires
  <2>3. Loops'
    BY <1>p, <1>14, <2>1 DEF Services!ReadyTimerExpires, Services!PeriodicTimerExpires
  <2> QED  BY <1>b, <1>q, <2>1, <2>2, <2>3
<1> QED  BY <1>1, <1>2, <1>3, <1>4, <1>5, <1>6, <1>7, <1>8, <1>9, <1>10, <1>11, <1>12, <1>13, <1>14
            DEF Services!Next, Services!CapacityStep, Services!OrphanStep

-----------------------------------------------------------------------------
(* The delay of a task that was attempted.                                   *)

LEMMA SmallestIn ==
  ASSUME NEW S \in SUBSET Nat, S # {}
  PROVE  \E x \in S : \A y \in S : x <= y
<1>1. PICK x \in S : \A y \in S : ~(<<y, x>> \in OpToRel(<, Nat))
  BY NatLessThanWellFounded, WFMin
<1>2. ASSUME NEW y \in S PROVE x <= y
  <2>1. ~(y < x)
    BY <1>1 DEF OpToRel
  <2> QED  BY <2>1
<1> QED  BY <1>2

Least(a, b) == IF a <= b THEN a ELSE b
Doubled(f) ==
  [n \in 0..MaxAttempts |->
     IF n <= 1 THEN RetryBase
     ELSE LET delay == f[n - 1] IN IF 2 * delay >= RetryMost THEN RetryMost ELSE 2 * delay]
DelayAfter ==
  [n \in 0..MaxAttempts |-> IF n <= 1 THEN RetryBase ELSE Least(RetryBase * 2^(n - 1), RetryMost)]

LEMMA DelayIsDoubled == DelayAfter = Doubled(DelayAfter)
<1> USE ServicesAssumption DEF Cleaning!PassAssumption
<1> SUFFICES ASSUME NEW n \in 0..MaxAttempts PROVE DelayAfter[n] = Doubled(DelayAfter)[n]
  BY DEF DelayAfter, Doubled
<1>1. CASE n <= 1
  BY <1>1 DEF DelayAfter, Doubled
<1>2. CASE n > 1
  <2>1. n - 1 \in 0..MaxAttempts /\ n - 2 \in Nat /\ n - 1 = (n - 2) + 1
    BY <1>2
  <2>2. PICK p \in Nat : p = 2^(n - 2)
    BY <2>1, PowerCounts
  <2>3. 2^(n - 1) = 2 * p
    BY <2>1, <2>2, PowerDoubles
  <2>4. RetryBase * (2 * p) = 2 * (RetryBase * p) /\ RetryBase * p \in Nat
    <3>1. RetryBase \in Nat
      OBVIOUS
    <3> QED  BY ONLY <3>1, p \in Nat, SMT
  <2>5. PICK x \in Nat : x = RetryBase * p
    BY <2>4
  <2>6. DelayAfter[n - 1] = Least(x, RetryMost)
    <3>1. CASE n - 1 <= 1
      <4>1. n - 2 = 0
        BY <1>2, <3>1
      <4>2. p = 1
        BY <2>2, <4>1, PowerOfZero, Zenon
      <4>3. x = RetryBase
        BY <2>5, <4>2
      <4> QED  BY <2>1, <3>1, <4>3 DEF DelayAfter, Least
    <3>2. CASE n - 1 > 1
      <4>1. DelayAfter[n - 1] = Least(RetryBase * 2^(n - 2), RetryMost)
        <5>1. (n - 1) - 1 = n - 2 /\ ~(n - 1 <= 1)
          BY <3>2
        <5> QED  BY <2>1, <5>1 DEF DelayAfter
      <4> QED  BY <2>2, <2>5, <4>1, Zenon
    <3> QED  BY <3>1, <3>2
  <2>7. DelayAfter[n] = Least(2 * x, RetryMost)
    <3>1. DelayAfter[n] = Least(RetryBase * 2^(n - 1), RetryMost)
      BY <1>2 DEF DelayAfter
    <3> QED  BY <2>3, <2>4, <2>5, <3>1
  <2>8. Doubled(DelayAfter)[n] =
          IF 2 * DelayAfter[n - 1] >= RetryMost THEN RetryMost ELSE 2 * DelayAfter[n - 1]
    BY <1>2 DEF Doubled
  <2> QED  BY <2>6, <2>7, <2>8 DEF Least
<1> QED  BY <1>1, <1>2

\* The recursive function is that one.
LEMMA RetryDelayIs ==
  \A n \in 0..MaxAttempts : Cleaning!RetryDelay[n] = DelayAfter[n]
<1> USE ServicesAssumption DEF Cleaning!PassAssumption
<1> DEFINE R == Cleaning!RetryDelay
<1>1. R = Doubled(R)
  <2>1. Cleaning!RetryDelay = CHOOSE f : f = Doubled(f)
    BY Zenon DEF Cleaning!RetryDelay, Doubled
  <2> QED  BY <2>1, DelayIsDoubled, Zenon
<1> HIDE DEF R
<1> DEFINE Wrong == {n \in 0..MaxAttempts : R[n] # DelayAfter[n]}
<1>2. ASSUME Wrong # {} PROVE FALSE
  <2>1. PICK n \in Wrong : \A m \in Wrong : n <= m
    <3>1. Wrong \in SUBSET Nat
      OBVIOUS
    <3> HIDE DEF Wrong
    <3> QED  BY <1>2, <3>1, SmallestIn
  <2>2. n \in 0..MaxAttempts /\ R[n] # DelayAfter[n]
    OBVIOUS
  <2>3. R[n] = Doubled(R)[n] /\ DelayAfter[n] = Doubled(DelayAfter)[n]
    BY <1>1, DelayIsDoubled, Zenon
  <2>4. CASE n <= 1
    BY <2>2, <2>3, <2>4 DEF Doubled
  <2>5. CASE n > 1
    <3>1. n - 1 \in 0..MaxAttempts /\ n - 1 \notin Wrong
      BY <2>1, <2>2, <2>5
    <3>2. R[n - 1] = DelayAfter[n - 1]
      BY <3>1
    <3> QED  BY <2>2, <2>3, <2>5, <3>2 DEF Doubled
  <2> QED  BY <2>2, <2>4, <2>5
<1> QED  BY <1>2 DEF R

LEMMA DelayBounds ==
  ASSUME NEW n \in 0..MaxAttempts
  PROVE  /\ Cleaning!RetryDelay[n] \in Nat
         /\ RetryBase <= Cleaning!RetryDelay[n] /\ Cleaning!RetryDelay[n] <= RetryMost
         /\ n >= 1 => Cleaning!RetryDelay[n] = Least(RetryBase * 2^(n - 1), RetryMost)
<1> USE ServicesAssumption DEF Cleaning!PassAssumption
<1>1. CASE n <= 1
  <2>1. Cleaning!RetryDelay[n] = RetryBase
    BY <1>1, RetryDelayIs DEF DelayAfter
  <2>2. n >= 1 => RetryBase * 2^(n - 1) = RetryBase
    <3> SUFFICES ASSUME n >= 1 PROVE RetryBase * 2^(n - 1) = RetryBase
      OBVIOUS
    <3>1. n = 1
      BY <1>1
    <3>2. 2^(n - 1) = 1
      BY <3>1, PowerOfZero, Zenon
    <3> QED  BY <3>2
  <2> QED  BY <2>1, <2>2 DEF Least
<1>2. CASE n > 1
  <2>1. n - 1 \in Nat
    BY <1>2
  <2>2. PICK p \in Nat : p = 2^(n - 1) /\ p >= 1
    <3>1. 2^(n - 1) >= n - 1 /\ 2^(n - 1) \in Nat
      BY <2>1, PowerGrows
    <3> QED  BY <1>2, <3>1
  <2>3. RetryBase * p >= RetryBase /\ RetryBase * p \in Nat
    <3>1. RetryBase \in Nat /\ p \in Nat /\ p >= 1
      BY <2>2
    <3> QED  BY ONLY <3>1, SMT
  <2>4. Cleaning!RetryDelay[n] = Least(RetryBase * 2^(n - 1), RetryMost)
    BY <1>2, RetryDelayIs DEF DelayAfter
  <2> QED  BY <2>2, <2>3, <2>4 DEF Least
<1> QED  BY <1>1, <1>2

-----------------------------------------------------------------------------
(* The passes of the cleanup jobs.                                           *)

RowType == [is : {"future", "candidate", "gone"}, attempts : 0..MaxAttempts, age : Nat]

PassType ==
  /\ rows \in [Row -> RowType]
  /\ pass = [at |-> pass.at, page |-> pass.page, cursor |-> pass.cursor,
             elapsed |-> pass.elapsed, cut |-> pass.cut, owed |-> pass.owed]
  /\ pass.cursor \in Nat /\ pass.elapsed \in {0, 1} /\ pass.owed \in SUBSET Row
  /\ pass.at = "select" => pass.elapsed = 0

\* What a pass owes keeps its reason while the pass goes on: the row is a candidate, and a
\* task was ready when the pass began.
OwedStays ==
  pass.at \in {"query", "rows"} =>
    \A r \in pass.owed : /\ r \in Cleaning!Candidates
                         /\ Cleaning!Tasks => Cleaning!Ready(rows[r])

\* It is ahead of the cursor, or on the page and there as ready as it was.
OwedAhead ==
  /\ pass.at = "query" => \A r \in pass.owed : Cleaning!Cursored => r > pass.cursor
  /\ pass.at = "rows" =>
       /\ DOMAIN pass.page \in SUBSET Row
       /\ \A r \in pass.owed :
            IF r \in DOMAIN pass.page THEN Cleaning!Tasks => pass.page[r]
            ELSE Cleaning!Cursored => \A q \in DOMAIN pass.page : r > q

OwedNothing == pass.at = "ended" /\ ~pass.cut => pass.owed = {}

PassKept == PassType /\ OwedStays /\ OwedAhead /\ OwedNothing

\* A task that is ready is one that the query finds.
LEMMA ReadyIsQueried ==
  ASSUME NEW row \in RowType, Cleaning!Ready(row), pass.elapsed \in {0, 1}
  PROVE  Cleaning!Queried(row)
<1>1. CASE row.attempts = 0
  BY <1>1 DEF Cleaning!Queried
<1>2. CASE row.attempts # 0
  <2>1. row.attempts \in 0..MaxAttempts /\ row.age \in Nat
    BY DEF RowType
  <2>2. /\ RetryBase <= Cleaning!RetryDelay[row.attempts]
        /\ Cleaning!RetryDelay[row.attempts] \in Nat
    BY <2>1, DelayBounds
  <2>3. row.age - pass.elapsed >= Cleaning!RetryDelay[row.attempts]
    BY <1>2 DEF Cleaning!Ready
  <2>4. row.age - pass.elapsed >= RetryBase
    BY <2>1, <2>2, <2>3, ServicesAssumption DEF Cleaning!PassAssumption
  <2> QED  BY <2>4 DEF Cleaning!Queried
<1> QED  BY <1>1, <1>2

\* Finite sets and their sizes, as the module of the passes has them.
LEMMA SameCounting ==
  ASSUME NEW S
  PROVE  /\ Cleaning!IsFiniteSet(S) <=> IsFiniteSet(S)
         /\ Cleaning!Cardinality(S) = Cardinality(S)
BY Zenon DEF Cleaning!IsFiniteSet, IsFiniteSet, Cleaning!Cardinality, Cardinality

\* A nonempty query gives a page, and what follows the page is after all of it.
LEMMA FirstPage ==
  ASSUME NEW S \in SUBSET Row
  PROVE  /\ Cleaning!First(S) \in SUBSET S
         /\ Cleaning!First(S) = {} => S = {}
         /\ \A r \in S \ Cleaning!First(S), q \in Cleaning!First(S) : r > q
<1> USE ServicesAssumption DEF Cleaning!PassAssumption
<1> DEFINE below(r) == {q \in S : q < r}
<1>1. IsFiniteSet(S) /\ S \in SUBSET Nat
  <2>1. IsFiniteSet(Row)
    BY SameCounting
  <2> QED  BY <2>1, FS_Subset
<1>2. \A r \in S : IsFiniteSet(below(r)) /\ Cardinality(below(r)) \in Nat
  BY <1>1, FS_Subset, FS_CardinalityType
<1>3. Cleaning!First(S) = {r \in S : Cardinality(below(r)) < PageSize}
  <2>1. \A r \in S : Cleaning!Cardinality(below(r)) = Cardinality(below(r))
    BY SameCounting
  <2> QED  BY <2>1, Zenon DEF Cleaning!First
<1>4. ASSUME S # {} PROVE Cleaning!First(S) # {}
  <2>1. PICK r \in S : \A q \in S : r <= q
    BY <1>1, <1>4, SmallestIn
  <2>2. below(r) = {}
    <3>1. ASSUME NEW q \in S, q < r PROVE FALSE
      <4>1. q \in Nat /\ r \in Nat /\ r <= q
        BY <1>1, <2>1
      <4> QED  BY <3>1, <4>1
    <3> QED  BY <3>1
  <2> HIDE DEF below
  <2>3. Cardinality(below(r)) = 0
    BY <2>2, FS_EmptySet
  <2>4. r \in Cleaning!First(S)
    BY <1>3, <2>3
  <2> QED  BY <2>4
<1>5. ASSUME NEW r \in S \ Cleaning!First(S), NEW q \in Cleaning!First(S) PROVE r > q
  <2>1. q \in S /\ Cardinality(below(q)) < PageSize /\ ~(Cardinality(below(r)) < PageSize)
    BY <1>3
  <2>2. ASSUME r <= q PROVE FALSE
    <3>1. below(r) \in SUBSET below(q)
      <4>1. ASSUME NEW x \in S, x < r PROVE x < q
        <5>1. x \in Nat /\ r \in Nat /\ q \in Nat
          BY <1>1, <2>1
        <5> QED  BY <2>2, <4>1, <5>1
      <4> QED  BY <4>1
    <3>2. IsFiniteSet(below(q))
      BY <1>2, <2>1
    <3>3. Cardinality(below(r)) \in Nat /\ Cardinality(below(q)) \in Nat
      BY <1>2, <2>1
    <3> HIDE DEF below
    <3>4. Cardinality(below(r)) <= Cardinality(below(q))
      BY <3>1, <3>2, FS_Subset
    <3> QED  BY <2>1, <3>3, <3>4
  <2> QED  BY <1>1, <2>1, <2>2
<1> QED  BY <1>3, <1>4, <1>5

LEMMA PastRecord ==
  ASSUME NEW a, NEW b, NEW c, NEW d, NEW e, NEW o, NEW at, NEW page, NEW cursor, NEW x, NEW y,
         NEW p, p = [at |-> a, page |-> b, cursor |-> c, elapsed |-> d, cut |-> e, owed |-> o]
  PROVE  /\ [p EXCEPT !.at = at, !.page = page, !.cursor = cursor, !.owed = x]
              = [at |-> at, page |-> page, cursor |-> cursor, elapsed |-> d, cut |-> e, owed |-> x]
         /\ [[p EXCEPT !.at = at, !.page = page, !.cursor = cursor, !.owed = x] EXCEPT !.owed = y]
              = [at |-> at, page |-> page, cursor |-> cursor, elapsed |-> d, cut |-> e, owed |-> y]
<1>1. PICK q : q = [p EXCEPT !.at = at, !.page = page, !.cursor = cursor, !.owed = x]
  OBVIOUS
<1>2. q = [at |-> at, page |-> page, cursor |-> cursor, elapsed |-> d, cut |-> e, owed |-> x]
  BY <1>1
<1>3. [q EXCEPT !.owed = y]
        = [at |-> at, page |-> page, cursor |-> cursor, elapsed |-> d, cut |-> e, owed |-> y]
  BY <1>2
<1> QED  BY <1>1, <1>2, <1>3, Zenon

\* The pass is past a row, which nothing that it owes needs any more.
LEMMA PassesRow ==
  ASSUME PassKept, NEW r \in Row, Cleaning!Taken(r), job' = job, rows' \in [Row -> RowType],
         \A q \in Row \ {r} : rows'[q] = rows[q],
         pass' = [Cleaning!Past(r) EXCEPT !.owed = pass.owed \ {r}]
  PROVE  PassKept'
<1> USE DEF PassKept
<1> DEFINE left == DOMAIN pass.page \ {r}
<1>1. PICK page :
        /\ pass' = [at |-> IF left = {} THEN "query" ELSE "rows", page |-> page,
                    cursor |-> r, elapsed |-> pass.elapsed, cut |-> pass.cut,
                    owed |-> pass.owed \ {r}]
        /\ page = [q \in left |-> pass.page[q]] /\ r \in Nat
  <2>1. r \in Nat
    BY ServicesAssumption DEF Cleaning!PassAssumption
  <2>2. PICK page, at : page = [q \in left |-> pass.page[q]]
                        /\ at = IF left = {} THEN "query" ELSE "rows"
    OBVIOUS
  <2>3. Cleaning!Past(r) = [pass EXCEPT !.at = at, !.page = page, !.cursor = r,
                                        !.owed = @ \ {r}]
    BY <2>2, Zenon DEF Cleaning!Past, Cleaning!CursorAfter
  <2>4. PICK a, b, c, d, e, o : pass = [at |-> a, page |-> b, cursor |-> c, elapsed |-> d,
                                        cut |-> e, owed |-> o]
    BY Zenon DEF PassType
  <2>5. d = pass.elapsed /\ e = pass.cut /\ o = pass.owed
    BY <2>4
  <2>7. pass' = [[pass EXCEPT !.at = at, !.page = page, !.cursor = r, !.owed = @ \ {r}]
                   EXCEPT !.owed = pass.owed \ {r}]
    BY <2>3, Zenon
  <2> HIDE DEF left
  <2>8. pass' = [[pass EXCEPT !.at = at, !.page = page, !.cursor = r, !.owed = o \ {r}]
                   EXCEPT !.owed = o \ {r}]
    BY <2>5, <2>7, Zenon
  <2>6. pass' = [at |-> at, page |-> page, cursor |-> r, elapsed |-> d, cut |-> e,
                 owed |-> o \ {r}]
    BY <2>4, <2>8, PastRecord, Zenon
  <2> QED  BY <2>1, <2>2, <2>5, <2>6
<1>2. /\ pass.at = "rows" /\ r \in DOMAIN pass.page
      /\ Cleaning!Cursored => \A q \in DOMAIN pass.page : r <= q
  BY DEF Cleaning!Taken
<1>f. /\ pass'.at = (IF left = {} THEN "query" ELSE "rows") /\ pass'.page = page
      /\ pass'.cursor = r /\ pass'.elapsed = pass.elapsed /\ pass'.cut = pass.cut
      /\ pass'.owed = pass.owed \ {r}
      /\ DOMAIN page = left /\ \A q \in left : page[q] = pass.page[q]
  BY <1>1
<1>j. (Cleaning!Cursored' <=> Cleaning!Cursored) /\ (Cleaning!Tasks' <=> Cleaning!Tasks)
  BY DEF Cleaning!Cursored, Cleaning!Tasks
<1>3. PassType'
  <2>1. pass' = [at |-> pass'.at, page |-> pass'.page, cursor |-> pass'.cursor,
                 elapsed |-> pass'.elapsed, cut |-> pass'.cut, owed |-> pass'.owed]
    BY <1>1, <1>f, Zenon
  <2>2. pass'.cursor \in Nat /\ pass'.elapsed \in {0, 1} /\ pass'.owed \in SUBSET Row
        /\ pass'.at # "select"
    BY <1>1, <1>f DEF PassType
  <2> QED  BY <2>1, <2>2 DEF PassType
<1>4. OwedStays'
  <2> SUFFICES ASSUME NEW q \in pass'.owed
               PROVE  /\ q \in Cleaning!Candidates'
                      /\ Cleaning!Tasks' => Cleaning!Ready(rows[q])'
    BY DEF OwedStays
  <2>1. q \in pass.owed /\ q \in Row /\ q # r
    BY <1>f DEF PassType
  <2>2. rows'[q] = rows[q] /\ pass'.elapsed = pass.elapsed
    BY <1>f, <2>1
  <2>3. q \in Cleaning!Candidates /\ (Cleaning!Tasks => Cleaning!Ready(rows[q]))
    BY <1>2, <2>1 DEF OwedStays
  <2>4. q \in Cleaning!Candidates'
    BY <2>1, <2>2, <2>3 DEF Cleaning!Candidates
  <2>5. Cleaning!Ready(rows[q])' <=> Cleaning!Ready(rows[q])
    BY <2>2, Zenon DEF Cleaning!Ready
  <2> QED  BY <1>j, <2>3, <2>4, <2>5
<1>5. OwedAhead'
  <2>1. /\ DOMAIN pass.page \in SUBSET Row
        /\ \A q \in pass.owed :
             IF q \in DOMAIN pass.page THEN Cleaning!Tasks => pass.page[q]
             ELSE Cleaning!Cursored => \A p \in DOMAIN pass.page : q > p
    BY <1>2 DEF OwedAhead
  <2>2. ASSUME pass'.at = "query", NEW q \in pass'.owed, Cleaning!Cursored
        PROVE  q > pass'.cursor
    <3>1. left = {} /\ q \in pass.owed /\ q # r
      BY <1>f, <2>2
    <3>2. q \notin DOMAIN pass.page
      BY <3>1
    <3>3. q > r
      BY <1>2, <2>1, <2>2, <3>1, <3>2
    <3> QED  BY <1>f, <3>3
  <2>3. ASSUME pass'.at = "rows", NEW q \in pass'.owed
        PROVE  IF q \in DOMAIN pass'.page THEN Cleaning!Tasks => pass'.page[q]
               ELSE Cleaning!Cursored => \A p \in DOMAIN pass'.page : q > p
    BY <1>f, <2>1, <2>3
  <2> QED  BY <1>f, <1>j, <2>1, <2>2, <2>3 DEF OwedAhead
<1>6. OwedNothing'
  BY <1>f DEF OwedNothing
<1> QED  BY <1>3, <1>4, <1>5, <1>6

\* A row that changed is not owed any more.
LEMMA OwedLess ==
  ASSUME PassKept, NEW r \in Row, job' = job, rows' \in [Row -> RowType],
         \A q \in Row \ {r} : rows'[q] = rows[q], Cleaning!NotOwed(r)
  PROVE  PassKept'
<1> USE DEF PassKept
<1>1. pass' = [at |-> pass.at, page |-> pass.page, cursor |-> pass.cursor,
               elapsed |-> pass.elapsed, cut |-> pass.cut, owed |-> pass.owed \ {r}]
  BY Zenon DEF PassType, Cleaning!NotOwed
<1>f. /\ pass'.at = pass.at /\ pass'.page = pass.page /\ pass'.cursor = pass.cursor
      /\ pass'.elapsed = pass.elapsed /\ pass'.cut = pass.cut
      /\ pass'.owed = pass.owed \ {r}
  BY <1>1
<1>j. (Cleaning!Cursored' <=> Cleaning!Cursored) /\ (Cleaning!Tasks' <=> Cleaning!Tasks)
  BY DEF Cleaning!Cursored, Cleaning!Tasks
<1>3. PassType'
  <2>1. pass' = [at |-> pass'.at, page |-> pass'.page, cursor |-> pass'.cursor,
                 elapsed |-> pass'.elapsed, cut |-> pass'.cut, owed |-> pass'.owed]
    BY <1>1, <1>f, Zenon
  <2> QED  BY <1>f, <2>1 DEF PassType
<1>4. OwedStays'
  <2> SUFFICES ASSUME pass.at \in {"query", "rows"}, NEW q \in pass'.owed
               PROVE  /\ q \in Cleaning!Candidates'
                      /\ Cleaning!Tasks' => Cleaning!Ready(rows[q])'
    BY <1>f DEF OwedStays
  <2>1. q \in pass.owed /\ q \in Row /\ q # r
    BY <1>f DEF PassType
  <2>2. rows'[q] = rows[q] /\ pass'.elapsed = pass.elapsed
    BY <1>f, <2>1
  <2>3. q \in Cleaning!Candidates /\ (Cleaning!Tasks => Cleaning!Ready(rows[q]))
    BY <2>1 DEF OwedStays
  <2>4. q \in Cleaning!Candidates'
    BY <2>1, <2>2, <2>3 DEF Cleaning!Candidates
  <2>5. Cleaning!Ready(rows[q])' <=> Cleaning!Ready(rows[q])
    BY <2>2, Zenon DEF Cleaning!Ready
  <2> QED  BY <1>j, <2>3, <2>4, <2>5
<1>5. OwedAhead'
  BY <1>f, <1>j DEF OwedAhead
<1>6. OwedNothing'
  BY <1>f DEF OwedNothing
<1> QED  BY <1>3, <1>4, <1>5, <1>6

LEMMA AttemptedRecord ==
  ASSUME NEW row, \E i, n, a : row = [is |-> i, attempts |-> n, age |-> a]
  PROVE  \A m : [row EXCEPT !.attempts = m, !.age = 0] = [is |-> row.is, attempts |-> m, age |-> 0]
<1>1. PICK i, n, a : row = [is |-> i, attempts |-> n, age |-> a]
  OBVIOUS
<1>2. row.is = i
  BY <1>1
<1>3. TAKE m
<1>4. PICK q : q = [row EXCEPT !.attempts = m, !.age = 0]
  OBVIOUS
<1>5. q = [is |-> i, attempts |-> m, age |-> 0]
  BY <1>1, <1>4
<1> QED  BY <1>2, <1>4, <1>5, Zenon

\* What the steps of a pass do to a row.
LEMMA RowsChange ==
  ASSUME rows \in [Row -> RowType], NEW r \in Row
  PROVE  /\ Cleaning!Gone(r) \in [Row -> RowType]
         /\ \A q \in Row \ {r} : Cleaning!Gone(r)[q] = rows[q]
         /\ [rows EXCEPT ![r] = Cleaning!Attempted(@)] \in [Row -> RowType]
         /\ \A q \in Row \ {r} : [rows EXCEPT ![r] = Cleaning!Attempted(@)][q] = rows[q]
<1>1. PICK i \in {"future", "candidate", "gone"}, n \in 0..MaxAttempts, a \in Nat :
        rows[r] = [is |-> i, attempts |-> n, age |-> a]
  BY DEF RowType
<1>2. Cleaning!Gone(r) \in {rows, [rows EXCEPT ![r] = [is |-> "gone", attempts |-> n, age |-> a]]}
  <2>1. [rows[r] EXCEPT !.is = "gone"] = [is |-> "gone", attempts |-> n, age |-> a]
    BY <1>1
  <2>2. [rows EXCEPT ![r].is = "gone"] = [rows EXCEPT ![r] = [rows[r] EXCEPT !.is = "gone"]]
    OBVIOUS
  <2> QED  BY <2>1, <2>2 DEF Cleaning!Gone
<1>3. [is |-> "gone", attempts |-> n, age |-> a] \in RowType
  BY DEF RowType
<1>4. Cleaning!Attempted(rows[r]) \in RowType
  <2>1. PICK m : m = Cleaning!Min({n + 1, MaxAttempts})
    OBVIOUS
  <2>2. m \in 0..MaxAttempts
    <3>1. /\ \A x, y \in {n + 1, MaxAttempts} : x <= y \/ y <= x
          /\ n + 1 \in Nat /\ MaxAttempts \in Nat
      BY ServicesAssumption DEF Cleaning!PassAssumption
    <3>2. \E x \in {n + 1, MaxAttempts} : \A y \in {n + 1, MaxAttempts} : x <= y
      BY <3>1
    <3>3. m \in {n + 1, MaxAttempts} /\ \A y \in {n + 1, MaxAttempts} : m <= y
      BY <2>1, <3>2 DEF Cleaning!Min
    <3> QED  BY <3>1, <3>3
  <2>3. Cleaning!Attempted(rows[r]) = [rows[r] EXCEPT !.attempts = m, !.age = 0]
    BY <1>1, <2>1 DEF Cleaning!Attempted
  <2>4. Cleaning!Attempted(rows[r]) = [is |-> i, attempts |-> m, age |-> 0]
    <3>1. [rows[r] EXCEPT !.attempts = m, !.age = 0]
            = [is |-> rows[r].is, attempts |-> m, age |-> 0]
      BY <1>1, AttemptedRecord, Zenon
    <3> QED  BY <1>1, <2>3, <3>1
  <2> QED  BY <2>2, <2>4 DEF RowType
<1> QED  BY <1>2, <1>3, <1>4

LEMMA OwedFields ==
  ASSUME PassType, NEW r
  PROVE  /\ Cleaning!Past(r) = [Cleaning!Past(r) EXCEPT !.owed = pass.owed \ {r}]
         /\ r \notin pass.owed =>
              Cleaning!WaitingTask(r) = [Cleaning!Past(r) EXCEPT !.owed = pass.owed \ {r}]
<1> DEFINE left == DOMAIN pass.page \ {r}
<1>1. PICK page, at : page = [q \in left |-> pass.page[q]]
                      /\ at = IF left = {} THEN "query" ELSE "rows"
  OBVIOUS
<1>2. Cleaning!Past(r) = [pass EXCEPT !.at = at, !.page = page, !.cursor = r, !.owed = @ \ {r}]
  BY <1>1, Zenon DEF Cleaning!Past, Cleaning!CursorAfter
<1>3. PICK a, b, c, d, e, o : pass = [at |-> a, page |-> b, cursor |-> c, elapsed |-> d,
                                      cut |-> e, owed |-> o]
  BY Zenon DEF PassType
<1>4. pass.owed = o
  BY <1>3
<1>5. Cleaning!Past(r) = [at |-> at, page |-> page, cursor |-> r, elapsed |-> d, cut |-> e,
                          owed |-> o \ {r}]
  <2>1. Cleaning!Past(r) = [pass EXCEPT !.at = at, !.page = page, !.cursor = r,
                                        !.owed = o \ {r}]
    BY <1>2, <1>4, Zenon
  <2> QED  BY <1>3, <2>1, PastRecord, Zenon
<1>6. [Cleaning!Past(r) EXCEPT !.owed = pass.owed \ {r}] = Cleaning!Past(r)
  BY <1>4, <1>5
<1>7. ASSUME r \notin pass.owed
      PROVE  Cleaning!WaitingTask(r) = [Cleaning!Past(r) EXCEPT !.owed = pass.owed \ {r}]
  <2>1. pass.owed \ {r} = pass.owed
    BY <1>7
  <2> QED  BY <2>1, Zenon DEF Cleaning!WaitingTask
<1> QED  BY <1>6, <1>7

\* The pass goes on past the row, whatever became of the row.
LEMMA RowDone ==
  ASSUME PassKept, NEW r \in Row, Cleaning!Taken(r), job' = job,
         \/ pass' = Cleaning!Past(r)
         \/ pass' = Cleaning!WaitingTask(r) /\ r \notin pass.owed,
         \/ rows' = rows \/ rows' = Cleaning!Gone(r)
         \/ rows' = [rows EXCEPT ![r] = Cleaning!Attempted(@)]
  PROVE  PassKept'
<1>1. PassType /\ rows \in [Row -> RowType]
  BY DEF PassKept, PassType
<1>2. pass' = [Cleaning!Past(r) EXCEPT !.owed = pass.owed \ {r}]
  BY <1>1, OwedFields
<1>3. rows' \in [Row -> RowType] /\ \A q \in Row \ {r} : rows'[q] = rows[q]
  BY <1>1, RowsChange
<1> QED  BY <1>2, <1>3, PassesRow

LEMMA PassCutShort ==
  ASSUME PassKept, rows' = rows, Cleaning!CutShort PROVE PassKept'
<1>1. pass' = [at |-> "ended", page |-> pass.page, cursor |-> pass.cursor,
               elapsed |-> pass.elapsed, cut |-> TRUE, owed |-> pass.owed]
  BY Zenon DEF PassKept, PassType, Cleaning!CutShort
<1>2. /\ pass'.at = "ended" /\ pass'.page = pass.page /\ pass'.cursor = pass.cursor
      /\ pass'.elapsed = pass.elapsed /\ pass'.cut = TRUE /\ pass'.owed = pass.owed
  BY <1>1
<1>3. PassType'
  <2>1. pass' = [at |-> pass'.at, page |-> pass'.page, cursor |-> pass'.cursor,
                 elapsed |-> pass'.elapsed, cut |-> pass'.cut, owed |-> pass'.owed]
    BY <1>1, <1>2, Zenon
  <2> QED  BY <1>2, <2>1 DEF PassKept, PassType
<1> QED  BY <1>2, <1>3 DEF PassKept, OwedStays, OwedAhead, OwedNothing

\* The pass begins, and owes what is there; or it is over, and owes nothing.
LEMMA PassBegins ==
  ASSUME PassKept, Cleaning!RunJob \/ Cleaning!JobFinished \/ Cleaning!StopJob
  PROVE  PassKept'
<1> USE DEF PassKept
<1>1. /\ rows' = rows /\ job' = job
      /\ \E at \in {"query", "select", "done"}, owed \in SUBSET Row :
           /\ pass' = [at |-> at, page |-> << >>, cursor |-> 0, elapsed |-> 0, cut |-> FALSE,
                       owed |-> owed]
           /\ \/ owed = {}
              \/ /\ owed = {r \in Cleaning!Candidates : Cleaning!Tasks => Cleaning!Ready(rows[r])}
                 /\ pass.at = "select"
  <2>1. CASE Cleaning!RunJob
    <3> DEFINE owed == {r \in Cleaning!Candidates : Cleaning!Tasks => Cleaning!Ready(rows[r])}
    <3>1. /\ pass.at = "select" /\ rows' = rows /\ job' = job
          /\ pass' = [Cleaning!Between EXCEPT !.at = "query", !.owed = owed]
      BY <2>1 DEF Cleaning!RunJob
    <3>2. owed \in SUBSET Row
      BY DEF Cleaning!Candidates
    <3> HIDE DEF owed
    <3>3. pass' = [at |-> "query", page |-> << >>, cursor |-> 0, elapsed |-> 0, cut |-> FALSE,
                   owed |-> owed]
      BY <3>1 DEF Cleaning!Between
    <3> QED  BY <3>1, <3>2, <3>3 DEF owed
  <2>2. CASE Cleaning!JobFinished \/ Cleaning!StopJob
    <3>1. PICK at \in {"select", "done"} : pass' = [Cleaning!Between EXCEPT !.at = at]
      BY <2>2 DEF Cleaning!JobFinished, Cleaning!StopJob
    <3>2. pass' = [at |-> at, page |-> << >>, cursor |-> 0, elapsed |-> 0, cut |-> FALSE,
                   owed |-> {}]
      BY <3>1 DEF Cleaning!Between
    <3> QED  BY <2>2, <3>2 DEF Cleaning!JobFinished, Cleaning!StopJob
  <2> QED  BY <2>1, <2>2
<1>2. PICK at \in {"query", "select", "done"}, owed \in SUBSET Row :
           /\ pass' = [at |-> at, page |-> << >>, cursor |-> 0, elapsed |-> 0, cut |-> FALSE,
                       owed |-> owed]
           /\ \/ owed = {}
              \/ /\ owed = {r \in Cleaning!Candidates : Cleaning!Tasks => Cleaning!Ready(rows[r])}
                 /\ pass.at = "select"
  BY <1>1
<1>f. /\ pass'.at = at /\ pass'.page = << >> /\ pass'.cursor = 0 /\ pass'.elapsed = 0
      /\ pass'.cut = FALSE /\ pass'.owed = owed
  BY <1>2
<1>j. (Cleaning!Cursored' <=> Cleaning!Cursored) /\ (Cleaning!Tasks' <=> Cleaning!Tasks)
  BY <1>1 DEF Cleaning!Cursored, Cleaning!Tasks
<1>3. PassType'
  <2>1. pass' = [at |-> pass'.at, page |-> pass'.page, cursor |-> pass'.cursor,
                 elapsed |-> pass'.elapsed, cut |-> pass'.cut, owed |-> pass'.owed]
    BY <1>2, <1>f, Zenon
  <2> QED  BY <1>1, <1>f, <2>1 DEF PassType
<1>4. OwedStays'
  <2> SUFFICES ASSUME NEW q \in owed
               PROVE  /\ q \in Cleaning!Candidates'
                      /\ Cleaning!Tasks' => Cleaning!Ready(rows[q])'
    BY <1>f DEF OwedStays
  <2>1. /\ q \in Cleaning!Candidates /\ (Cleaning!Tasks => Cleaning!Ready(rows[q]))
        /\ pass.at = "select"
    BY <1>2
  <2>2. pass'.elapsed = pass.elapsed /\ rows' = rows
    BY <1>1, <1>f, <2>1 DEF PassType
  <2>3. q \in Cleaning!Candidates'
    BY <2>1, <2>2 DEF Cleaning!Candidates
  <2>4. Cleaning!Ready(rows[q])' <=> Cleaning!Ready(rows[q])
    BY <2>2, Zenon DEF Cleaning!Ready
  <2> QED  BY <1>j, <2>1, <2>3, <2>4
<1>5. OwedAhead'
  <2>1. \A r \in Row : r > 0
    BY ServicesAssumption DEF Cleaning!PassAssumption
  <2> QED  BY <1>f, <2>1 DEF OwedAhead
<1>6. OwedNothing'
  BY <1>f DEF OwedNothing
<1> QED  BY <1>3, <1>4, <1>5, <1>6

LEMMA MinOfTwo ==
  ASSUME NEW a \in Nat, NEW b \in Nat
  PROVE  Cleaning!Min({a, b}) = Least(a, b)
<1>1. \E x \in {a, b} : \A y \in {a, b} : x <= y
  OBVIOUS
<1>2. PICK m : m = Cleaning!Min({a, b})
  OBVIOUS
<1>3. m \in {a, b} /\ \A y \in {a, b} : m <= y
  BY <1>1, <1>2 DEF Cleaning!Min
<1>4. m = Least(a, b)
  BY <1>3 DEF Least
<1> QED  BY <1>2, <1>4, Zenon

\* What a query finds is a page of it, and it finds all that the pass owes.
LEMMA PageOfMatching ==
  ASSUME NEW page \in Cleaning!Pages(Cleaning!Matching)
  PROVE  /\ page \in SUBSET Cleaning!Matching
         /\ page = {} => Cleaning!Matching = {}
         /\ Cleaning!Cursored => \A r \in Cleaning!Matching \ page, q \in page : r > q
<1> DEFINE S == Cleaning!Matching
<1>1. S \in SUBSET Row
  BY DEF Cleaning!Matching, Cleaning!Candidates
<1>2. CASE Cleaning!Cursored
  <2>1. page = Cleaning!First(S)
    BY <1>2 DEF Cleaning!Pages
  <2> HIDE DEF S
  <2> QED  BY <1>1, <2>1, FirstPage, Zenon DEF S
<1>3. CASE ~Cleaning!Cursored
  <2> HIDE DEF S
  <2>1. page \in Cleaning!kSubset(Cleaning!Min({PageSize, Cleaning!Cardinality(S)}), S)
    BY <1>3 DEF Cleaning!Pages, S
  <2>2. page \in SUBSET S
        /\ Cleaning!Cardinality(page) = Cleaning!Min({PageSize, Cleaning!Cardinality(S)})
    BY <2>1 DEF Cleaning!kSubset
  <2>3. IsFiniteSet(S)
    <3>1. IsFiniteSet(Row)
      BY SameCounting, ServicesAssumption DEF Cleaning!PassAssumption
    <3> QED  BY <1>1, <3>1, FS_Subset
  <2>4. Cardinality(S) \in Nat /\ PageSize \in Nat /\ PageSize # 0
    BY <2>3, FS_CardinalityType, ServicesAssumption DEF Cleaning!PassAssumption
  <2>5. Cardinality(page) = Least(PageSize, Cardinality(S))
    <3>1. Cardinality(page) = Cleaning!Min({PageSize, Cardinality(S)})
      BY <2>2, SameCounting
    <3> QED  BY <2>4, <3>1, MinOfTwo
  <2>6. ASSUME page = {} PROVE S = {}
    <3>1. Cardinality(page) = 0
      BY <2>6, FS_EmptySet
    <3>2. Cardinality(S) = 0
      BY <2>4, <2>5, <3>1 DEF Least
    <3> QED  BY <2>3, <3>2, FS_EmptySet
  <2> QED  BY <1>3, <2>2, <2>6 DEF S
<1> QED  BY <1>2, <1>3

LEMMA OwedMatches ==
  ASSUME PassKept, pass.at = "query"
  PROVE  pass.owed \in SUBSET Cleaning!Matching
<1> SUFFICES ASSUME NEW r \in pass.owed PROVE r \in Cleaning!Matching
  OBVIOUS
<1>1. /\ r \in Cleaning!Candidates /\ (Cleaning!Tasks => Cleaning!Ready(rows[r]))
      /\ Cleaning!Cursored => r > pass.cursor
  BY DEF PassKept, OwedStays, OwedAhead
<1>2. rows[r] \in RowType /\ pass.elapsed \in {0, 1}
  BY <1>1 DEF PassKept, PassType, Cleaning!Candidates
<1>3. Cleaning!Tasks => Cleaning!Queried(rows[r])
  BY <1>1, <1>2, ReadyIsQueried
<1> QED  BY <1>1, <1>3 DEF Cleaning!Matching

\* The page holds what the pass owes, or leaves it behind itself.
LEMMA PageIsRead ==
  ASSUME PassKept, Cleaning!QueryPage
  PROVE  PassKept'
<1> USE DEF PassKept
<1>1. rows' = rows /\ job' = job /\ pass.at = "query"
  BY DEF Cleaning!QueryPage
<1>2. CASE Cleaning!CutShort
  BY <1>1, <1>2, PassCutShort
<1>3. ASSUME NEW page \in Cleaning!Pages(Cleaning!Matching),
             pass' = IF page = {} THEN [pass EXCEPT !.at = "ended"]
                     ELSE [pass EXCEPT !.at = "rows",
                                       !.page = [r \in page |-> Cleaning!Ready(rows[r])]]
      PROVE  PassKept'
  <2> DEFINE read == [r \in page |-> Cleaning!Ready(rows[r])]
  <2>1. /\ page \in SUBSET Cleaning!Matching
        /\ page = {} => Cleaning!Matching = {}
        /\ Cleaning!Cursored => \A r \in Cleaning!Matching \ page, q \in page : r > q
    BY PageOfMatching
  <2>2. pass.owed \in SUBSET Cleaning!Matching
    BY <1>1, OwedMatches
  <2>3. PICK at, pg : /\ pass' = [at |-> at, page |-> pg, cursor |-> pass.cursor,
                                  elapsed |-> pass.elapsed, cut |-> pass.cut, owed |-> pass.owed]
                      /\ IF page = {} THEN at = "ended" ELSE at = "rows" /\ pg = read
    <3>1. PICK a, b, c, d, e, o : pass = [at |-> a, page |-> b, cursor |-> c, elapsed |-> d,
                                          cut |-> e, owed |-> o]
      BY Zenon DEF PassType
    <3>2. c = pass.cursor /\ d = pass.elapsed /\ e = pass.cut /\ o = pass.owed
      BY <3>1
    <3>3. CASE page = {}
      <4>1. pass' = [pass EXCEPT !.at = "ended"]
        BY <1>3, <3>3
      <4>2. pass' = [at |-> "ended", page |-> b, cursor |-> c, elapsed |-> d, cut |-> e,
                     owed |-> o]
        BY <3>1, <4>1
      <4> QED  BY <3>2, <3>3, <4>2, Zenon
    <3>4. CASE page # {}
      <4> HIDE DEF read
      <4>1. pass' = [pass EXCEPT !.at = "rows", !.page = read]
        BY <1>3, <3>4, Zenon DEF read
      <4>2. pass' = [at |-> "rows", page |-> read, cursor |-> c, elapsed |-> d, cut |-> e,
                     owed |-> o]
        BY <3>1, <4>1
      <4> QED  BY <3>2, <3>4, <4>2, Zenon
    <3> QED  BY <3>3, <3>4
  <2>f. /\ pass'.at = at /\ pass'.page = pg /\ pass'.cursor = pass.cursor
        /\ pass'.elapsed = pass.elapsed /\ pass'.cut = pass.cut /\ pass'.owed = pass.owed
    BY <2>3
  <2>j. (Cleaning!Cursored' <=> Cleaning!Cursored) /\ (Cleaning!Tasks' <=> Cleaning!Tasks)
    BY <1>1 DEF Cleaning!Cursored, Cleaning!Tasks
  <2>t. at \in {"ended", "rows"}
    BY <2>3
  <2>4. PassType'
    <3>1. pass' = [at |-> pass'.at, page |-> pass'.page, cursor |-> pass'.cursor,
                   elapsed |-> pass'.elapsed, cut |-> pass'.cut, owed |-> pass'.owed]
      BY <2>3, <2>f, Zenon
    <3> QED  BY <1>1, <2>f, <2>t, <3>1 DEF PassType
  <2>5. OwedStays'
    <3> SUFFICES ASSUME NEW q \in pass.owed
                 PROVE  /\ q \in Cleaning!Candidates'
                        /\ Cleaning!Tasks' => Cleaning!Ready(rows[q])'
      BY <2>f DEF OwedStays
    <3>1. q \in Cleaning!Candidates /\ (Cleaning!Tasks => Cleaning!Ready(rows[q]))
      BY <1>1 DEF OwedStays
    <3>2. q \in Cleaning!Candidates'
      BY <1>1, <3>1 DEF Cleaning!Candidates
    <3>3. Cleaning!Ready(rows[q])' <=> Cleaning!Ready(rows[q])
      BY <1>1, <2>f, Zenon DEF Cleaning!Ready
    <3> QED  BY <2>j, <3>1, <3>2, <3>3
  <2>6. OwedAhead'
    <3>1. CASE page = {}
      <4>1. at = "ended"
        BY <2>3, <3>1
      <4> QED  BY <2>f, <4>1 DEF OwedAhead
    <3>2. CASE page # {}
      <4>1. at = "rows" /\ pg = read
        BY <2>3, <3>2
      <4>2. DOMAIN pg = page /\ \A q \in page : pg[q] = Cleaning!Ready(rows[q])
        BY <4>1
      <4>3. page \in SUBSET Row
        BY <2>1 DEF Cleaning!Matching, Cleaning!Candidates
      <4>4. ASSUME NEW r \in pass.owed, r \in page, Cleaning!Tasks PROVE pg[r]
        BY <1>1, <4>2, <4>4, Zenon DEF OwedStays
      <4>5. ASSUME NEW r \in pass.owed, r \notin page, Cleaning!Cursored
            PROVE  \A q \in page : r > q
        BY <2>1, <2>2, <4>5, Zenon
      <4> QED  BY <2>f, <2>j, <4>1, <4>2, <4>3, <4>4, <4>5, Zenon DEF OwedAhead
    <3> QED  BY <3>1, <3>2
  <2>7. OwedNothing'
    <3>1. ASSUME at = "ended" PROVE pass.owed = {}
      BY <2>1, <2>2, <2>3, <3>1
    <3> QED  BY <2>f, <3>1 DEF OwedNothing
  <2> QED  BY <2>4, <2>5, <2>6, <2>7
<1> QED  BY <1>2, <1>3 DEF Cleaning!QueryPage

\* Each row of a page is dealt with, skipped, or ends the pass.
LEMMA RowMoves ==
  ASSUME PassKept, NEW r \in Row,
         \/ Cleaning!HandleRow(r) \/ Cleaning!SkipRow(r) \/ Cleaning!SkipTask(r)
         \/ Cleaning!DeleteFolder(r) \/ Cleaning!FailFolder(r)
  PROVE  PassKept'
<1>1. CASE Cleaning!HandleRow(r)
  <2>1. job' = job /\ Cleaning!Taken(r)
    BY <1>1 DEF Cleaning!HandleRow
  <2>2. CASE rows' = Cleaning!Gone(r) /\ pass' = Cleaning!Past(r)
    BY <2>1, <2>2, RowDone
  <2>3. CASE rows' = rows /\ Cleaning!CutShort
    BY <2>3, PassCutShort
  <2> QED  BY <1>1, <2>2, <2>3 DEF Cleaning!HandleRow
<1>2. CASE Cleaning!SkipRow(r)
  <2>1. job' = job /\ Cleaning!Taken(r) /\ rows' = rows /\ pass' = Cleaning!Past(r)
    BY <1>2 DEF Cleaning!SkipRow
  <2> QED  BY <2>1, RowDone
<1>3. CASE Cleaning!SkipTask(r)
  <2>1. /\ job' = job /\ Cleaning!Taken(r) /\ rows' = rows /\ pass' = Cleaning!WaitingTask(r)
        /\ Cleaning!Tasks /\ ~pass.page[r] /\ pass.at = "rows" /\ r \in DOMAIN pass.page
    BY <1>3 DEF Cleaning!SkipTask, Cleaning!Taken
  <2>2. r \notin pass.owed
    BY <2>1 DEF PassKept, OwedAhead
  <2> QED  BY <2>1, <2>2, RowDone
<1>4. CASE Cleaning!DeleteFolder(r)
  <2>1. job' = job /\ Cleaning!Taken(r) /\ rows' = Cleaning!Gone(r) /\ pass' = Cleaning!Past(r)
    BY <1>4 DEF Cleaning!DeleteFolder
  <2> QED  BY <2>1, RowDone
<1>5. CASE Cleaning!FailFolder(r)
  <2> DEFINE kept == [rows EXCEPT ![r] = IF r \in Cleaning!Candidates
                                         THEN Cleaning!Attempted(@) ELSE @]
  <2>1. /\ job' = job /\ Cleaning!Taken(r) /\ pass' = Cleaning!Past(r)
        /\ rows' = rows \/ rows' = kept
    BY <1>5 DEF Cleaning!FailFolder, Cleaning!FailedTask
  <2>2. kept = rows \/ kept = [rows EXCEPT ![r] = Cleaning!Attempted(@)]
    <3>1. rows \in [Row -> RowType]
      BY DEF PassKept, PassType
    <3>2. CASE r \in Cleaning!Candidates
      BY <3>2
    <3>3. CASE r \notin Cleaning!Candidates
      <4>1. kept = [rows EXCEPT ![r] = rows[r]]
        BY <3>3
      <4> HIDE DEF kept
      <4> QED  BY <3>1, <4>1
    <3> QED  BY <3>2, <3>3
  <2> HIDE DEF kept
  <2> QED  BY <2>1, <2>2, RowDone
<1> QED  BY <1>1, <1>2, <1>3, <1>4, <1>5

\* Meanwhile a row leaves its job, or a task is attempted, and is owed no longer.
LEMMA ElsewhereMoves ==
  ASSUME PassKept, NEW r \in Row, Cleaning!Elsewhere(r) \/ Cleaning!FailElsewhere(r)
  PROVE  PassKept'
<1>1. rows \in [Row -> RowType]
  BY DEF PassKept, PassType
<1>2. job' = job /\ Cleaning!NotOwed(r)
  BY DEF Cleaning!Elsewhere, Cleaning!FailElsewhere
<1>3. rows' \in [Row -> RowType] /\ \A q \in Row \ {r} : rows'[q] = rows[q]
  BY <1>1, RowsChange DEF Cleaning!Elsewhere, Cleaning!FailElsewhere
<1> QED  BY <1>2, <1>3, OwedLess

\* A row that gets its reason had none, so that the pass does not owe it.
LEMMA AppearMoves ==
  ASSUME PassKept, NEW r \in Row, Cleaning!Appear(r)
  PROVE  PassKept'
<1> USE DEF PassKept
<1>1. /\ rows \in [Row -> RowType] /\ rows[r].is = "future"
      /\ rows' = [rows EXCEPT ![r].is = "candidate"] /\ pass' = pass /\ job' = job
  BY DEF PassType, Cleaning!Appear
<1>2. rows' \in [Row -> RowType] /\ \A q \in Row \ {r} : rows'[q] = rows[q]
  <2>1. PICK i \in {"future", "candidate", "gone"}, n \in 0..MaxAttempts, a \in Nat :
          rows[r] = [is |-> i, attempts |-> n, age |-> a]
    BY <1>1 DEF RowType
  <2>2. [rows[r] EXCEPT !.is = "candidate"] = [is |-> "candidate", attempts |-> n, age |-> a]
    BY <2>1
  <2>3. rows' = [rows EXCEPT ![r] = [is |-> "candidate", attempts |-> n, age |-> a]]
    BY <1>1, <2>2
  <2>4. [is |-> "candidate", attempts |-> n, age |-> a] \in RowType
    BY DEF RowType
  <2> QED  BY <1>1, <2>3, <2>4
<1>j. (Cleaning!Cursored' <=> Cleaning!Cursored) /\ (Cleaning!Tasks' <=> Cleaning!Tasks)
  BY <1>1 DEF Cleaning!Cursored, Cleaning!Tasks
<1>3. PassType'
  BY <1>1, <1>2 DEF PassType
<1>4. OwedStays'
  <2> SUFFICES ASSUME pass.at \in {"query", "rows"}, NEW q \in pass.owed
               PROVE  /\ q \in Cleaning!Candidates'
                      /\ Cleaning!Tasks' => Cleaning!Ready(rows[q])'
    BY <1>1 DEF OwedStays
  <2>1. q \in Cleaning!Candidates /\ (Cleaning!Tasks => Cleaning!Ready(rows[q]))
    BY DEF OwedStays
  <2>2. q \in Row \ {r}
    BY <1>1, <2>1 DEF Cleaning!Candidates
  <2>3. q \in Cleaning!Candidates'
    BY <1>2, <2>1, <2>2 DEF Cleaning!Candidates
  <2>4. rows'[q] = rows[q]
    BY <1>2, <2>2
  <2>5. Cleaning!Ready(rows[q])' <=> Cleaning!Ready(rows[q])
    BY <1>1, <2>4, Zenon DEF Cleaning!Ready
  <2> QED  BY <1>j, <2>1, <2>3, <2>5
<1>5. OwedAhead'
  BY <1>1, <1>j DEF OwedAhead
<1>6. OwedNothing'
  BY <1>1 DEF OwedNothing
<1> QED  BY <1>3, <1>4, <1>5, <1>6

\* A task that was ready when the pass began stays so: what the pass counts ages from moves
\* with the ages, which are exact up to the longest delay.
LEMMA TickMoves ==
  ASSUME PassKept, Cleaning!Tick
  PROVE  PassKept'
<1> USE DEF PassKept
<1> DEFINE older(r) == IF rows[r].attempts = 0 THEN 0
                       ELSE Cleaning!Min({rows[r].age + 1, Cleaning!MaxAge})
<1> DEFINE going == pass.at \in {"query", "rows"}
<1>1. /\ rows \in [Row -> RowType] /\ job' = job
      /\ going => pass.elapsed = 0
      /\ rows' = [r \in Row |-> [rows[r] EXCEPT !.age = older(r)]]
      /\ pass' = IF going THEN [pass EXCEPT !.elapsed = 1] ELSE pass
  BY Zenon DEF PassType, Cleaning!Tick
<1>2. /\ pass' = [at |-> pass'.at, page |-> pass'.page, cursor |-> pass'.cursor,
                  elapsed |-> pass'.elapsed, cut |-> pass'.cut, owed |-> pass'.owed]
      /\ pass'.at = pass.at /\ pass'.page = pass.page /\ pass'.cursor = pass.cursor
      /\ pass'.elapsed = (IF going THEN 1 ELSE pass.elapsed)
      /\ pass'.cut = pass.cut /\ pass'.owed = pass.owed
  <2>1. PICK a, b, c, d, e, o : pass = [at |-> a, page |-> b, cursor |-> c, elapsed |-> d,
                                        cut |-> e, owed |-> o]
    BY Zenon DEF PassType
  <2>2. CASE going
    <3>1. pass' = [pass EXCEPT !.elapsed = 1]
      BY <1>1, <2>2
    <3>2. pass' = [at |-> a, page |-> b, cursor |-> c, elapsed |-> 1, cut |-> e, owed |-> o]
      BY <2>1, <3>1
    <3> QED  BY <2>1, <2>2, <3>2
  <2>3. CASE ~going
    <3>1. pass' = pass
      BY <1>1, <2>3
    <3> QED  BY <2>1, <2>3, <3>1
  <2> QED  BY <2>2, <2>3
<1>3. \A r \in Row :
        /\ older(r) \in Nat
        /\ rows[r].attempts # 0 => older(r) = Least(rows[r].age + 1, RetryMost + 1)
  <2> SUFFICES ASSUME NEW r \in Row
               PROVE  /\ older(r) \in Nat
                      /\ rows[r].attempts # 0 => older(r) = Least(rows[r].age + 1, RetryMost + 1)
    OBVIOUS
  <2>1. rows[r].age + 1 \in Nat /\ Cleaning!MaxAge = RetryMost + 1 /\ RetryMost + 1 \in Nat
    BY <1>1, ServicesAssumption DEF RowType, Cleaning!MaxAge, Cleaning!PassAssumption
  <2>2. Cleaning!Min({rows[r].age + 1, Cleaning!MaxAge}) = Least(rows[r].age + 1, RetryMost + 1)
    BY <2>1, MinOfTwo
  <2>3. Least(rows[r].age + 1, RetryMost + 1) \in Nat
    BY <2>1 DEF Least
  <2> QED  BY <2>2, <2>3
<1> HIDE DEF older
<1>4. \A r \in Row : /\ rows'[r] \in RowType /\ rows'[r].is = rows[r].is
                     /\ rows'[r].attempts = rows[r].attempts /\ rows'[r].age = older(r)
  <2> SUFFICES ASSUME NEW r \in Row
               PROVE  /\ rows'[r] \in RowType /\ rows'[r].is = rows[r].is
                      /\ rows'[r].attempts = rows[r].attempts /\ rows'[r].age = older(r)
    OBVIOUS
  <2>1. PICK i, n, a : rows[r] = [is |-> i, attempts |-> n, age |-> a]
    BY <1>1 DEF RowType
  <2>2. rows[r].is = i /\ rows[r].attempts = n /\ i \in {"future", "candidate", "gone"}
        /\ n \in 0..MaxAttempts
    BY <1>1, <2>1 DEF RowType
  <2>3. PICK m \in Nat : m = older(r)
    BY <1>3
  <2>4. rows'[r] = [rows[r] EXCEPT !.age = m]
    BY <1>1, <2>3
  <2>5. rows'[r] = [is |-> i, attempts |-> n, age |-> m]
    BY <2>1, <2>4
  <2> QED  BY <2>2, <2>3, <2>5 DEF RowType
<1>j. (Cleaning!Cursored' <=> Cleaning!Cursored) /\ (Cleaning!Tasks' <=> Cleaning!Tasks)
  BY <1>1 DEF Cleaning!Cursored, Cleaning!Tasks
<1>5. PassType'
  <2>1. rows' \in [Row -> RowType]
    BY <1>1, <1>4
  <2>2. pass'.elapsed \in {0, 1} /\ (pass'.at = "select" => pass'.elapsed = 0)
    BY <1>2 DEF PassType
  <2> QED  BY <1>2, <2>1, <2>2, Zenon DEF PassType
<1>6. OwedStays'
  <2> SUFFICES ASSUME going, NEW q \in pass.owed
               PROVE  /\ q \in Cleaning!Candidates'
                      /\ Cleaning!Tasks' => Cleaning!Ready(rows[q])'
    BY <1>2 DEF OwedStays
  <2>1. q \in Cleaning!Candidates /\ (Cleaning!Tasks => Cleaning!Ready(rows[q])) /\ q \in Row
    BY DEF OwedStays, Cleaning!Candidates
  <2>2. q \in Cleaning!Candidates'
    BY <1>4, <2>1 DEF Cleaning!Candidates
  <2>3. ASSUME Cleaning!Tasks PROVE Cleaning!Ready(rows[q])'
    <3>1. Cleaning!Ready(rows[q])' <=>
            rows'[q].attempts = 0
            \/ rows'[q].age - pass'.elapsed >= Cleaning!RetryDelay[rows'[q].attempts]
      BY Zenon DEF Cleaning!Ready
    <3>2. pass.elapsed = 0 /\ pass'.elapsed = 1
      BY <1>1, <1>2
    <3>3. CASE rows[q].attempts = 0
      BY <1>4, <2>1, <3>1, <3>3
    <3>4. CASE rows[q].attempts # 0
      <4>1. PICK n \in 0..MaxAttempts : n = rows[q].attempts
        BY <1>1, <2>1 DEF RowType
      <4>2. PICK age \in Nat : age = rows[q].age
        BY <1>1, <2>1 DEF RowType
      <4>3. PICK delay \in Nat : delay = Cleaning!RetryDelay[n] /\ delay <= RetryMost
        BY <4>1, DelayBounds
      <4>4. age - 0 >= delay
        BY <2>1, <2>3, <3>2, <3>4, <4>1, <4>2, <4>3, Zenon DEF Cleaning!Ready
      <4>5. PICK m \in Nat : m = older(q) /\ m = Least(age + 1, RetryMost + 1)
        BY <1>3, <2>1, <3>4, <4>2
      <4>6. m - 1 >= delay
        BY <4>3, <4>4, <4>5, ServicesAssumption DEF Least, Cleaning!PassAssumption
      <4> QED  BY <1>4, <2>1, <3>1, <3>2, <4>1, <4>3, <4>5, <4>6
    <3> QED  BY <3>3, <3>4
  <2> QED  BY <1>j, <2>2, <2>3
<1>7. OwedAhead'
  BY <1>2, <1>j DEF OwedAhead
<1>8. OwedNothing'
  BY <1>2 DEF OwedNothing
<1> QED  BY <1>5, <1>6, <1>7, <1>8

LEMMA PassUnchanged ==
  ASSUME PassKept, UNCHANGED <<job, rows, stuck, pass, troubles>>
  PROVE  PassKept'
<1>1. (Cleaning!Cursored' <=> Cleaning!Cursored) /\ (Cleaning!Tasks' <=> Cleaning!Tasks)
      /\ Cleaning!Candidates' = Cleaning!Candidates
  BY DEF Cleaning!Cursored, Cleaning!Tasks, Cleaning!Candidates
<1>2. \A r : Cleaning!Ready(rows[r])' <=> Cleaning!Ready(rows[r])
  BY Zenon DEF Cleaning!Ready
<1>3. pass' = pass /\ rows' = rows
  OBVIOUS
<1>4. OwedStays'
  BY <1>1, <1>2, <1>3, Zenon DEF PassKept, OwedStays
<1> QED  BY <1>1, <1>3, <1>4 DEF PassKept, PassType, OwedAhead, OwedNothing

LEMMA PassStarts ==
  ASSUME Cleaning!CleanupInit
  PROVE  PassKept
<1>1. rows \in [Row -> RowType]
  <2>1. \A now \in {"future", "candidate"} : [is |-> now, attempts |-> 0, age |-> 0] \in RowType
    BY ServicesAssumption DEF RowType, Cleaning!PassAssumption
  <2>2. rows \in [Row -> {[is |-> now, attempts |-> 0, age |-> 0] :
                            now \in {"future", "candidate"}}]
    BY DEF Cleaning!CleanupInit
  <2> QED  BY <2>1, <2>2
<1>2. pass = [at |-> "select", page |-> << >>, cursor |-> 0, elapsed |-> 0, cut |-> FALSE,
              owed |-> {}]
  BY DEF Cleaning!CleanupInit, Cleaning!Between
<1>3. /\ pass.at = "select" /\ pass.page = << >> /\ pass.cursor = 0 /\ pass.elapsed = 0
      /\ pass.cut = FALSE /\ pass.owed = {}
  BY <1>2
<1>4. PassType
  BY <1>1, <1>2, <1>3 DEF PassType
<1> QED  BY <1>3, <1>4 DEF PassKept, OwedStays, OwedAhead, OwedNothing

LEMMA PassSteps ==
  ASSUME PassKept, Cleaning!CleanupNext
  PROVE  PassKept'
<1>1. CASE Cleaning!CancelCleanup
  <2>1. UNCHANGED <<job, rows, stuck, pass, troubles>>
    BY <1>1 DEF Cleaning!CancelCleanup, Cleaning!passVars
  <2> QED  BY <2>1, PassUnchanged
<1>2. CASE Cleaning!PassStep
  BY <1>2, PassBegins, PageIsRead, RowMoves DEF Cleaning!PassStep
<1>3. CASE Cleaning!Tick
  BY <1>3, TickMoves
<1>4. CASE \E r \in Row : Cleaning!Appear(r) \/ Cleaning!Elsewhere(r) \/ Cleaning!FailElsewhere(r)
  BY <1>4, AppearMoves, ElsewhereMoves
<1> QED  BY <1>1, <1>2, <1>3, <1>4 DEF Cleaning!CleanupNext

LEMMA PassGuarantees ==
  OwedNothing => Cleaning!PassesComplete
<1>1. ASSUME NEW n \in 1..MaxAttempts
      PROVE  Cleaning!RetryDelay[n] = Cleaning!Min({RetryBase * 2^(n - 1), RetryMost})
  <2> USE ServicesAssumption DEF Cleaning!PassAssumption
  <2>1. n \in 0..MaxAttempts /\ n >= 1 /\ n - 1 \in Nat
    OBVIOUS
  <2>2. PICK p \in Nat : p = 2^(n - 1)
    BY <2>1, PowerCounts
  <2>3. RetryBase \in Nat /\ RetryMost \in Nat
    OBVIOUS
  <2>4. RetryBase * p \in Nat
    BY ONLY <2>3, p \in Nat, SMT
  <2>5. Cleaning!Min({RetryBase * p, RetryMost}) = Least(RetryBase * p, RetryMost)
    BY <2>3, <2>4, MinOfTwo
  <2>6. Cleaning!RetryDelay[n] = Least(RetryBase * 2^(n - 1), RetryMost)
    BY <2>1, DelayBounds
  <2> QED  BY <2>2, <2>5, <2>6, Zenon
<1> QED  BY <1>1 DEF OwedNothing, Cleaning!PassesComplete

-----------------------------------------------------------------------------
(* The process: each of its sides keeps its own, and the others stand still. *)

ProcessKept ==
  /\ side \in {"main", "services", "cleanup"}
  /\ MainKept /\ ServicesKept /\ OwedNothing
  /\ side = "cleanup" => PassKept

LEMMA ProcessStarts ==
  ASSUME ProcessInit PROVE ProcessKept
<1>1. side \in {"main", "services", "cleanup"} /\ Init /\ Services!Init
  BY DEF ProcessInit, NoRequests
<1>2. MainKept /\ ServicesKept
  BY <1>1, MainStarts, ServicesStart
<1>3. side = "cleanup" => PassKept
  BY PassStarts DEF ProcessInit
<1>4. OwedNothing
  <2>1. CASE PassKept
    BY <2>1 DEF PassKept
  <2>2. CASE pass = Cleaning!Between
    <3>1. pass.at = "select"
      BY <2>2 DEF Cleaning!Between
    <3> QED  BY <3>1 DEF OwedNothing
  <2> QED  BY <1>3, <2>1, <2>2 DEF ProcessInit, NoCleanup
<1> QED  BY <1>1, <1>2, <1>3, <1>4 DEF ProcessKept

LEMMA ProcessSteps ==
  ASSUME ProcessKept, [ProcessNext]_processVars PROVE ProcessKept'
<1>1. ASSUME UNCHANGED passVars
      PROVE  OwedNothing' /\ (PassKept => PassKept')
  <2>1. UNCHANGED <<job, rows, stuck, pass, troubles>>
    BY <1>1 DEF passVars
  <2>2. PassKept => PassKept'
    BY <2>1, PassUnchanged
  <2>3. pass' = pass
    BY <2>1
  <2>4. OwedNothing'
    BY <2>3, Zenon DEF ProcessKept, OwedNothing
  <2> QED  BY <2>2, <2>4
<1>2. ASSUME UNCHANGED loopVars, stopped' \in BOOLEAN
      PROVE  ServicesKept'
  BY <1>2, ServicesCancelled DEF ProcessKept
<1>3. stopped \in BOOLEAN
  BY DEF ProcessKept, ServicesKept, Services!RunsInv, Services!TypeOK
<1>4. CASE UNCHANGED processVars
  <2>1. UNCHANGED <<side, stopped>> /\ UNCHANGED vars /\ UNCHANGED loopVars /\ UNCHANGED passVars
    BY <1>4 DEF processVars
  <2>2. MainKept'
    BY <2>1, MainSteps DEF ProcessKept
  <2>3. ServicesKept'
    BY <1>2, <1>3, <2>1
  <2> QED  BY <1>1, <2>1, <2>2, <2>3 DEF ProcessKept
<1>5. CASE ByMain(Next)
  <2>1. /\ UNCHANGED <<side, stopped>> /\ UNCHANGED loopVars /\ UNCHANGED passVars
        /\ Next
    BY <1>5 DEF ByMain
  <2>2. MainKept'
    BY <2>1, MainSteps DEF ProcessKept
  <2>3. ServicesKept'
    BY <1>2, <1>3, <2>1
  <2> QED  BY <1>1, <2>1, <2>2, <2>3 DEF ProcessKept
<1>6. CASE ByServices(Services!Next)
  <2>1. /\ side' = side /\ UNCHANGED vars /\ UNCHANGED passVars
        /\ Services!Next
    BY <1>6 DEF ByServices
  <2>2. MainKept'
    BY <2>1, MainSteps DEF ProcessKept
  <2>3. ServicesKept'
    BY <2>1, ServicesSteps DEF ProcessKept
  <2> QED  BY <1>1, <2>1, <2>2, <2>3 DEF ProcessKept
<1>7. CASE ByCleanup(Cleaning!CleanupNext)
  <2>1. /\ side = "cleanup" /\ side' = side /\ UNCHANGED vars /\ UNCHANGED loopVars
        /\ Cleaning!CleanupNext
    BY <1>7 DEF ByCleanup
  <2>2. MainKept'
    BY <2>1, MainSteps DEF ProcessKept
  <2>3. PassKept'
    BY <2>1, PassSteps DEF ProcessKept
  <2>4. stopped' \in BOOLEAN
    <3>1. stopped' \in {stopped, TRUE}
      BY <2>1, Zenon
         DEF Cleaning!CleanupNext, Cleaning!CancelCleanup, Cleaning!PassStep, Cleaning!RunJob,
             Cleaning!JobFinished, Cleaning!StopJob, Cleaning!QueryPage, Cleaning!HandleRow,
             Cleaning!SkipRow, Cleaning!SkipTask, Cleaning!DeleteFolder, Cleaning!FailFolder,
             Cleaning!Appear, Cleaning!Elsewhere, Cleaning!FailElsewhere, Cleaning!Tick
    <3> QED  BY <1>3, <3>1
  <2>5. ServicesKept'
    BY <1>2, <2>1, <2>4
  <2> QED  BY <2>1, <2>2, <2>3, <2>5 DEF ProcessKept, PassKept
<1> QED  BY <1>4, <1>5, <1>6, <1>7 DEF ProcessNext

\* At every step of a shutdown, however the waits of main, the merges, the downloads and the
\* releaser of leases interleave: no more merges than slots and none after the wait for
\* them, every lease a download gives back is released once, and main closes the database
\* only when nothing uses it (cmd/server/main.go, cache.Service, readerLeaseReleaser).
THEOREM ProcessStopsSafely ==
  ProcessSpec => []ProcessInv
<1>1. ProcessInit => ProcessKept
  BY ProcessStarts
<1>2. ProcessKept /\ [ProcessNext]_processVars => ProcessKept'
  BY ProcessSteps
<1>3. ProcessKept => ProcessInv
  BY MainGuarantees DEF ProcessKept
<1> QED  BY <1>1, <1>2, <1>3, PTL DEF ProcessSpec

\* At every step of the loops, for any delays: no eviction before the gate opens, no trigger
\* and no retry lost, no orphan scan at the heels of another, and delays that double to
\* their limit (storagecapacity.Service.Run, cleanup.Runner); and for any rows and any size
\* of a page: a pass that was not cut short has dealt with every row that it had reason to
\* deal with from its beginning to its end (cleanup.Service).
THEOREM LoopsRunSafely ==
  ProcessSpec => []RunsInv
<1>1. ProcessInit => ProcessKept
  BY ProcessStarts
<1>2. ProcessKept /\ [ProcessNext]_processVars => ProcessKept'
  BY ProcessSteps
<1>3. ProcessKept => RunsInv
  BY PassGuarantees DEF ProcessKept, ServicesKept, RunsInv
<1> QED  BY <1>1, <1>2, <1>3, PTL DEF ProcessSpec

-----------------------------------------------------------------------------
(* Before all that: the migrations of several servers that start on one      *)
(* database (OpenAndMigrate).                                                *)

Pc == {"down", "lock", "inspect", "statements", "commit", "release", "serving", "failed"}
StartType == [pc : Pc, done : 0..Steps, failed : BOOLEAN, lost : BOOLEAN]

MigrationType ==
  /\ engine \in {"sqlite", "postgres", "mysql"}
  /\ schema \in 0..Steps /\ filled \in BOOLEAN
  /\ holder \in Server \cup {NoServer}
  /\ start \in [Server -> StartType]
  /\ faults \in Nat

\* Who has the lock is migrating or about to release it, and the reverse unless the lock
\* was lost, which takes a fault and happens to MySQL alone.
Holding(s) == Migrating(s) \/ On(s, "release")
LockKept ==
  /\ engine = "sqlite" => holder = NoServer
  /\ \A s \in Server :
       /\ holder = s => Holding(s)
       /\ engine # "sqlite" /\ Holding(s) => (holder = s <=> ~start[s].lost)
       /\ start[s].lost => /\ engine = "mysql" /\ faults > 0
                           /\ Holding(s) \/ On(s, "failed")
       /\ On(s, "release") => engine = "mysql"
       /\ On(s, "lock") => engine # "sqlite"

\* The one server of SQLite.
OneServer ==
  engine = "sqlite" =>
    \A s, t \in Server : s # t => start[s].pc \in {"down", "failed"}
                                  \/ start[t].pc \in {"down", "failed"}

\* What a server has done or found done is committed, except under PostgreSQL; it is all
\* that is committed until another server may have gone on without the lock.
DoneCommitted ==
  \A s \in Server :
    /\ On(s, "statements") /\ engine # "postgres" =>
         /\ start[s].done <= schema
         /\ faults = 0 => start[s].done = schema
    /\ On(s, "commit") => start[s].done = Steps /\ engine = "postgres"
    /\ On(s, "release") /\ ~start[s].failed => schema = Steps /\ filled
    /\ Migrating(s) \/ On(s, "lock") \/ On(s, "down") => ~start[s].failed

MigrationKept == /\ MigrationType /\ LockKept /\ OneServer /\ DoneCommitted
                 /\ ServesComplete /\ StartsUnhindered

-----------------------------------------------------------------------------

\* A server that holds no lock for its part only shares the lock with itself: two servers
\* migrate together only after the lock of one was lost.
LEMMA LockExcludes ==
  ASSUME MigrationKept PROVE MigratesAlone
BY DEF MigrationKept, MigrationType, LockKept, OneServer, MigratesAlone, Holding, Migrating, On,
       StartType, Pc

LEMMA MigrationStarts ==
  ASSUME MigrationInit, engine \in {"sqlite", "postgres", "mysql"}
  PROVE  MigrationKept
<1>1. Down \in StartType
  BY MigrationAssumption DEF StartType, Pc, Down
<1>2. MigrationType
  <2>1. start \in [Server -> StartType]
    BY <1>1 DEF MigrationInit
  <2>2. schema \in 0..Steps /\ faults \in Nat
    BY MigrationAssumption, SMT DEF MigrationInit
  <2>3. filled \in BOOLEAN /\ holder \in Server \cup {NoServer}
    BY Zenon DEF MigrationInit
  <2> QED  BY <2>1, <2>2, <2>3 DEF MigrationType
<1>3. \A s \in Server : start[s] = Down
  BY DEF MigrationInit
<1>4. LockKept /\ OneServer /\ DoneCommitted /\ ServesComplete /\ StartsUnhindered
  BY MigrationAssumption, <1>3
     DEF LockKept, OneServer, DoneCommitted, ServesComplete, StartsUnhindered,
         Holding, Migrating, On, MigrationInit, Down
<1> QED  BY <1>2, <1>4 DEF MigrationKept

\* A step of one server that only moves its start on.
LEMMA StartMoves ==
  ASSUME NEW s \in Server, NEW pc \in Pc, start \in [Server -> StartType], To(s, pc)
  PROVE  /\ start' \in [Server -> StartType]
         /\ start'[s].pc = pc /\ start'[s].done = start[s].done
         /\ start'[s].failed = start[s].failed /\ start'[s].lost = start[s].lost
         /\ \A t \in Server : t # s => start'[t] = start[t]
BY DEF To, StartType

LEMMA MigrationSteps ==
  ASSUME MigrationKept, [MigrationNext]_migrationVars
  PROVE  MigrationKept'
<1> USE MigrationAssumption DEF MigrationKept, MigrationType, LockKept, OneServer, DoneCommitted,
            ServesComplete, StartsUnhindered, Holding, Migrating, On, To, StartType, Pc, Down
<1>1. CASE UNCHANGED migrationVars
  BY <1>1 DEF migrationVars
<1>2. ASSUME NEW s \in Server, StartUp(s) \/ FailStatement(s) \/ LoseLock(s) \/ Restart(s)
      PROVE  MigrationKept'
  <2>1. CASE OpenDatabase(s)
    <3>m. /\ start' \in [Server -> StartType]
          /\ start'[s].pc = (IF engine = "sqlite" THEN "inspect" ELSE "lock")
          /\ start'[s].done = start[s].done
          /\ start'[s].failed = start[s].failed /\ start'[s].lost = start[s].lost
          /\ \A t \in Server : t # s => start'[t] = start[t]
      BY <2>1, StartMoves DEF OpenDatabase
    <3>g. /\ start[s].pc = "down"
          /\ engine = "sqlite" => \A t \in Server \ {s} : start[t].pc \in {"down", "failed"}
          /\ UNCHANGED <<engine, schema, filled, holder, faults>>
      BY <2>1 DEF OpenDatabase
    <3>1. MigrationType'
      BY <3>m, <3>g, SMTT(30)
    <3>2. LockKept'
      BY <3>m, <3>g, SMTT(30)
    <3>3. OneServer'
      BY <3>m, <3>g, SMTT(30)
    <3>4. DoneCommitted'
      BY <3>m, <3>g, SMTT(30)
    <3>5. ServesComplete'
      BY <3>m, <3>g, SMTT(30)
    <3>6. StartsUnhindered'
      BY <3>m, <3>g, SMTT(30)
    <3> QED  BY <3>1, <3>2, <3>3, <3>4, <3>5, <3>6
  <2>2. CASE AcquireMigrationLock(s)
    <3>m. /\ start' \in [Server -> StartType]
          /\ start'[s].pc = "inspect"
          /\ start'[s].done = start[s].done
          /\ start'[s].failed = start[s].failed /\ start'[s].lost = start[s].lost
          /\ \A t \in Server : t # s => start'[t] = start[t]
      BY <2>2, StartMoves DEF AcquireMigrationLock
    <3>g. /\ start[s].pc = "lock" /\ holder = NoServer /\ holder' = s
          /\ UNCHANGED <<engine, schema, filled, faults>>
      BY <2>2 DEF AcquireMigrationLock, LockAcquired
    <3>1. MigrationType'
      BY <3>m, <3>g, SMTT(30)
    <3>2. LockKept'
      BY <3>m, <3>g, SMTT(30)
    <3>3. OneServer'
      BY <3>m, <3>g, SMTT(30)
    <3>4. DoneCommitted'
      BY <3>m, <3>g, SMTT(30)
    <3>5. ServesComplete'
      BY <3>m, <3>g, SMTT(30)
    <3>6. StartsUnhindered'
      BY <3>m, <3>g, SMTT(30)
    <3> QED  BY <3>1, <3>2, <3>3, <3>4, <3>5, <3>6
  <2>3. CASE Inspect(s)
    <3>m. /\ start' \in [Server -> StartType]
          /\ start'[s].pc = "statements" /\ start'[s].done = schema
          /\ start'[s].failed = start[s].failed /\ start'[s].lost = start[s].lost
          /\ \A t \in Server : t # s => start'[t] = start[t]
      BY <2>3, ZenonT(60) DEF Inspect
    <3>g. start[s].pc = "inspect" /\ UNCHANGED <<engine, schema, filled, holder, faults>>
      BY <2>3 DEF Inspect
    <3>1. MigrationType'
      BY <3>m, <3>g, SMTT(30)
    <3>2. LockKept'
      BY <3>m, <3>g, SMTT(30)
    <3>3. OneServer'
      BY <3>m, <3>g, SMTT(30)
    <3>4. DoneCommitted'
      BY <3>m, <3>g, SMTT(30)
    <3>5. ServesComplete'
      BY <3>m, <3>g, SMTT(30)
    <3>6. StartsUnhindered'
      BY <3>m, <3>g, SMTT(30)
    <3> QED  BY <3>1, <3>2, <3>3, <3>4, <3>5, <3>6
  <2>4. CASE RunStatement(s)
    <3>1. MigrationType'
      BY <2>4, SMTT(30) DEF RunStatement
    <3>2. LockKept'
      BY <2>4, SMTT(30) DEF RunStatement
    <3>3. OneServer'
      BY <2>4, SMTT(30) DEF RunStatement
    <3>4. DoneCommitted'
      BY <2>4, SMTT(30) DEF RunStatement
    <3>5. ServesComplete'
      BY <2>4, SMTT(30) DEF RunStatement
    <3>6. StartsUnhindered'
      BY <2>4, SMTT(30) DEF RunStatement
    <3> QED  BY <3>1, <3>2, <3>3, <3>4, <3>5, <3>6
  <2>5. CASE BackfillRecency(s)
    <3>m. /\ start' \in [Server -> StartType]
          /\ start'[s].pc = (CASE engine = "postgres" -> "commit"
                             [] engine = "mysql" -> "release"
                             [] engine = "sqlite" -> "serving")
          /\ start'[s].done = start[s].done
          /\ start'[s].failed = start[s].failed /\ start'[s].lost = start[s].lost
          /\ \A t \in Server : t # s => start'[t] = start[t]
      <4>1. (CASE engine = "postgres" -> "commit"
               [] engine = "mysql" -> "release"
               [] engine = "sqlite" -> "serving") \in Pc
        OBVIOUS
      <4> QED  BY <2>5, <4>1, StartMoves DEF BackfillRecency
    <3>g. /\ start[s].pc = "statements" /\ start[s].done = Steps
          /\ filled' = (filled \/ engine # "postgres")
          /\ UNCHANGED <<engine, schema, holder, faults>>
      BY <2>5 DEF BackfillRecency, SchemaCreated
    <3>1. MigrationType'
      BY <3>m, <3>g, SMTT(30)
    <3>2. ASSUME engine = "postgres"
          PROVE  LockKept' /\ DoneCommitted' /\ ServesComplete'
      <4>m. start'[s].pc = "commit" /\ filled' = filled
        BY <3>m, <3>g, <3>2
      <4>1. LockKept'
        BY <3>m, <3>g, <3>2, <4>m, SMTT(30)
      <4>2. DoneCommitted'
        BY <3>m, <3>g, <3>2, <4>m, SMTT(30)
      <4>3. ServesComplete'
        BY <3>m, <3>g, <3>2, <4>m, SMTT(30)
      <4> QED  BY <4>1, <4>2, <4>3
    <3>3. ASSUME engine = "mysql"
          PROVE  LockKept' /\ DoneCommitted' /\ ServesComplete'
      <4>m. start'[s].pc = "release" /\ filled'
        BY <3>m, <3>g, <3>3
      <4>1. LockKept'
        BY <3>m, <3>g, <3>3, <4>m, SMTT(30)
      <4>2. DoneCommitted'
        BY <3>m, <3>g, <3>3, <4>m, SMTT(30)
      <4>3. ServesComplete'
        BY <3>m, <3>g, <3>3, <4>m, SMTT(30)
      <4> QED  BY <4>1, <4>2, <4>3
    <3>4. ASSUME engine = "sqlite"
          PROVE  LockKept' /\ DoneCommitted' /\ ServesComplete'
      <4>m. start'[s].pc = "serving" /\ filled'
        BY <3>m, <3>g, <3>4
      <4>1. LockKept'
        BY <3>m, <3>g, <3>4, <4>m, SMTT(30)
      <4>2. DoneCommitted'
        BY <3>m, <3>g, <3>4, <4>m, SMTT(30)
      <4>3. ServesComplete'
        <5>1. schema = Steps
          BY <3>g, <3>4
        <5>2. ~start[s].lost /\ ~start[s].failed
          BY <3>g, <3>4
        <5> QED  BY <3>m, <3>g, <4>m, <5>1, <5>2
      <4> QED  BY <4>1, <4>2, <4>3
    <3>5. LockKept' /\ DoneCommitted' /\ ServesComplete'
      BY <3>2, <3>3, <3>4
    <3>6. OneServer'
      BY <3>m, <3>g, SMTT(30)
    <3>7. StartsUnhindered'
      BY <3>m, <3>g, SMTT(30)
    <3> QED  BY <3>1, <3>5, <3>6, <3>7
  <2>6. CASE CommitMigration(s)
    <3>1. MigrationType'
      BY <2>6, SMTT(30) DEF CommitMigration
    <3>2. LockKept'
      BY <2>6, SMTT(30) DEF CommitMigration
    <3>3. OneServer'
      BY <2>6, SMTT(30) DEF CommitMigration
    <3>4. DoneCommitted'
      BY <2>6, SMTT(30) DEF CommitMigration
    <3>5. ServesComplete'
      BY <2>6, SMTT(30) DEF CommitMigration
    <3>6. StartsUnhindered'
      BY <2>6, SMTT(30) DEF CommitMigration
    <3> QED  BY <3>1, <3>2, <3>3, <3>4, <3>5, <3>6
  <2>7. CASE FailStatement(s)
    <3>1. MigrationType'
      BY <2>7, SMTT(30) DEF FailStatement, Fault
    <3>2. LockKept'
      BY <2>7, SMTT(30) DEF FailStatement, Fault
    <3>3. OneServer'
      BY <2>7, SMTT(30) DEF FailStatement, Fault
    <3>4. DoneCommitted'
      BY <2>7, SMTT(30) DEF FailStatement, Fault
    <3>5. ServesComplete'
      BY <2>7, SMTT(30) DEF FailStatement, Fault
    <3>6. StartsUnhindered'
      BY <2>7, SMTT(30) DEF FailStatement, Fault
    <3> QED  BY <3>1, <3>2, <3>3, <3>4, <3>5, <3>6
  <2>8. CASE ReleaseLock(s)
    <3>1. MigrationType'
      BY <2>8, SMTT(30) DEF ReleaseLock, Released, AfterRelease, Fault
    <3>2. LockKept'
      BY <2>8, SMTT(30) DEF ReleaseLock, Released, AfterRelease, Fault
    <3>3. OneServer'
      BY <2>8, SMTT(30) DEF ReleaseLock, Released, AfterRelease, Fault
    <3>4. DoneCommitted'
      BY <2>8, SMTT(30) DEF ReleaseLock, Released, AfterRelease, Fault
    <3>5. ServesComplete'
      BY <2>8, SMTT(30) DEF ReleaseLock, Released, AfterRelease, Fault
    <3>6. StartsUnhindered'
      BY <2>8, SMTT(30) DEF ReleaseLock, Released, AfterRelease, Fault
    <3> QED  BY <3>1, <3>2, <3>3, <3>4, <3>5, <3>6
  <2>9. CASE LoseLock(s)
    <3>m. start' \in [Server -> StartType]
      BY <2>9, ZenonT(60) DEF LoseLock
    <3>1. MigrationType'
      BY <2>9, <3>m DEF LoseLock, Fault
    <3>2. LockKept'
      BY <2>9, SMTT(30) DEF LoseLock, Fault
    <3>3. OneServer'
      BY <2>9, SMTT(30) DEF LoseLock, Fault
    <3>4. DoneCommitted'
      BY <2>9, SMTT(30) DEF LoseLock, Fault
    <3>5. ServesComplete'
      BY <2>9, SMTT(30) DEF LoseLock, Fault
    <3>6. StartsUnhindered'
      BY <2>9, SMTT(30) DEF LoseLock, Fault
    <3> QED  BY <3>1, <3>2, <3>3, <3>4, <3>5, <3>6
  <2>10. CASE Restart(s)
    <3>1. MigrationType'
      BY <2>10, SMTT(30) DEF Restart, Fault
    <3>2. LockKept'
      BY <2>10, SMTT(30) DEF Restart, Fault
    <3>3. OneServer'
      BY <2>10, SMTT(30) DEF Restart, Fault
    <3>4. DoneCommitted'
      BY <2>10, SMTT(30) DEF Restart, Fault
    <3>5. ServesComplete'
      BY <2>10, SMTT(30) DEF Restart, Fault
    <3>6. StartsUnhindered'
      BY <2>10, SMTT(30) DEF Restart, Fault
    <3> QED  BY <3>1, <3>2, <3>3, <3>4, <3>5, <3>6
  <2> QED  BY <1>2, <2>1, <2>2, <2>3, <2>4, <2>5, <2>6, <2>7, <2>8, <2>9, <2>10 DEF StartUp
<1> QED  BY <1>1, <1>2 DEF MigrationNext

-----------------------------------------------------------------------------

\* A server serves only a schema that is complete, only if its lock lasted, and two
\* migrate together only when one has lost its lock: for any number of servers that
\* start, fail and restart on one database (OpenAndMigrate).
THEOREM MigrationIsSafe ==
  MigrationSpec => []MigrationInv
<1>1. engine \in {"sqlite", "postgres", "mysql"} /\ MigrationInit => MigrationKept
  BY MigrationStarts
<1>2. MigrationKept /\ [MigrationNext]_migrationVars => MigrationKept'
  BY MigrationSteps
<1>3. MigrationKept => MigrationInv
  BY LockExcludes DEF MigrationKept, MigrationInv
<1> QED  BY <1>1, <1>2, <1>3, PTL DEF MigrationSpec
===============================================================================
