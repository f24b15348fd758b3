---------------------------- MODULE CleanupPasses ----------------------------
(***************************************************************************)
(* The periodic jobs of cleanup.Runner and the passes they make over the   *)
(* database (cleanup.Service): idle uploads, expired entries, unreferenced *)
(* locations, parts of merged locations, fenced locations and the tasks of *)
(* the outbox.  A pass reads its rows page by page and hands each to the   *)
(* transaction that decides about it; other requests and servers change    *)
(* the same rows.  What a transaction does to a row is in the lifecycle    *)
(* and the session modules: here the row is a candidate of the job or not. *)
(***************************************************************************)
EXTENDS Integers, FiniteSets, FiniteSetsExt

CONSTANTS
  Row,             \* identifiers, in the order of the database
  PageSize,        \* itemsPerPage
  RetryBase,       \* storageDeletionRetryBase
  RetryMost,       \* storageDeletionRetryMax
  StuckFolders,    \* sets of tasks whose folder can never be deleted
  MaxAttempts,     \* bound: more attempts delay a task no longer
  MaxTroubles      \* bound: failed calls, and rows that are held for now

(* The identifiers start at 1, and the cursor below them.                   *)
(* (Assumed where this module is used.)                                     *)
PassAssumption ==
  /\ Row \subseteq Nat \ {0} /\ IsFiniteSet(Row)
  /\ PageSize \in Nat \ {0}
  /\ RetryBase \in Nat /\ RetryMost \in Nat /\ RetryBase <= RetryMost
  /\ MaxAttempts \in Nat

VARIABLES
  stopped,    \* backgroundCancel was called
  job,        \* the job that is looked at
  rows,       \* [Row -> whether it is a candidate, its attempts and the age of the last]
  stuck,      \* tasks of folders that cannot be deleted
  pass,       \* where the job is; `owed` is history
  troubles

passVars == <<job, rows, stuck, pass, troubles>>
cleanupVars == <<stopped, passVars>>

Job == {"uploads", "entries", "locations", "parts", "pending", "deletions"}

\* Uploads and unreferenced locations are read without a cursor: they leave their query
\* when they are handled.
Cursored == job \notin {"uploads", "locations"}
Tasks == job = "deletions"

Candidates == {r \in Row : rows[r].is = "candidate"}
Trouble == troubles < MaxTroubles /\ troubles' = troubles + 1

-----------------------------------------------------------------------------
(* The delay of a task that was attempted.                                  *)

RetryDelay[attempts \in 0..MaxAttempts] ==
  IF attempts <= 1 THEN RetryBase
  ELSE LET delay == RetryDelay[attempts - 1]
       IN IF 2 * delay >= RetryMost THEN RetryMost ELSE 2 * delay

\* Ages are counted from the time the pass began at; more than this tells nothing.
MaxAge == RetryMost + 1
Queried(row) == row.attempts = 0 \/ row.age - pass.elapsed >= RetryBase
Ready(row) == row.attempts = 0 \/ row.age - pass.elapsed >= RetryDelay[row.attempts]

Attempted(row) == [row EXCEPT !.attempts = Min({@ + 1, MaxAttempts}), !.age = 0]

-----------------------------------------------------------------------------
(* runPeriodically.                                                         *)

Between == [at |-> "select", page |-> << >>, cursor |-> 0, elapsed |-> 0, cut |-> FALSE,
            owed |-> {}]

CleanupInit ==
  /\ stopped = FALSE
  /\ job \in Job
  /\ rows \in [Row -> {[is |-> now, attempts |-> 0, age |-> 0] : now \in {"future", "candidate"}}]
  /\ stuck \in IF Tasks THEN StuckFolders ELSE {{}}
  /\ pass = Between
  /\ troubles = 0

\* backgroundCancel.
CancelCleanup == ~stopped /\ stopped' = TRUE /\ UNCHANGED passVars

\* A tick; the job takes its time, and with it the rows it has to deal with.
RunJob ==
  /\ pass.at = "select"
  /\ pass' = [Between EXCEPT !.at = "query",
                             !.owed = {r \in Candidates : Tasks => Ready(rows[r])}]
  /\ UNCHANGED <<stopped, job, rows, stuck, troubles>>

JobFinished ==
  /\ pass.at = "ended"
  /\ pass' = [Between EXCEPT !.at = IF stopped THEN "done" ELSE "select"]
  /\ UNCHANGED <<stopped, job, rows, stuck, troubles>>

StopJob ==
  /\ pass.at = "select" /\ stopped
  /\ pass' = [Between EXCEPT !.at = "done"]
  /\ UNCHANGED <<stopped, job, rows, stuck, troubles>>

-----------------------------------------------------------------------------
(* A pass.                                                                  *)

\* It returns early, with an error.
CutShort == pass' = [pass EXCEPT !.at = "ended", !.cut = TRUE]
Failing == (stopped /\ UNCHANGED troubles) \/ Trouble

Matching == {r \in Candidates : /\ Cursored => r > pass.cursor
                                /\ Tasks => Queried(rows[r])}
First(found) == {r \in found : Cardinality({q \in found : q < r}) < PageSize}
Pages(found) == IF Cursored THEN {First(found)}
                ELSE kSubset(Min({PageSize, Cardinality(found)}), found)

QueryPage ==
  /\ pass.at = "query"
  /\ \/ /\ ~stopped /\ UNCHANGED troubles
        /\ \E page \in Pages(Matching) :
             pass' = IF page = {} THEN [pass EXCEPT !.at = "ended"]
                     ELSE [pass EXCEPT !.at = "rows", !.page = [r \in page |-> Ready(rows[r])]]
     \/ Failing /\ CutShort
  /\ UNCHANGED <<stopped, job, rows, stuck>>

\* A page tells of each of its rows whether it was ready when it was read: the code looks
\* at the task it has read, and at the time the pass began.

(* Fault: a job that needs a cursor has none. *)
CursorLost(r) == 0
CursorAfter(r) == r
\* The row is dealt with and the next one is taken, or the next page.
Past(r) == LET left == DOMAIN pass.page \ {r}
           IN [pass EXCEPT !.at = IF left = {} THEN "query" ELSE "rows",
                           !.page = [q \in left |-> pass.page[q]],
                           !.cursor = CursorAfter(r), !.owed = @ \ {r}]
Taken(r) == /\ pass.at = "rows" /\ r \in DOMAIN pass.page
            /\ Cursored => \A q \in DOMAIN pass.page : r <= q
Gone(r) == IF rows[r].is = "candidate" THEN [rows EXCEPT ![r].is = "gone"] ELSE rows

\* The transaction finds a row that is no candidate any more, deals with it, or fails.
HandleRow(r) ==
  /\ ~Tasks /\ Taken(r)
  /\ \/ ~stopped /\ rows' = Gone(r) /\ pass' = Past(r) /\ UNCHANGED troubles
     \/ UNCHANGED rows /\ Failing /\ CutShort
  /\ UNCHANGED <<stopped, job, stuck>>

\* A reader, a merge or the grace period holds the row, or a lease that was inserted
\* meanwhile makes the transaction fail on its foreign key.
SkipRow(r) ==
  /\ job \in {"entries", "parts", "pending"} /\ Taken(r) /\ r \in Candidates
  /\ Trouble
  /\ pass' = Past(r)
  /\ UNCHANGED <<stopped, job, rows, stuck>>

\* Fault: it ends this one.
EndAtWaiting(r) == [pass EXCEPT !.at = "ended"]
\* A task that is not ready yet is left to a later pass, and not dealt with.
WaitingTask(r) == [Past(r) EXCEPT !.owed = pass.owed]
SkipTask(r) ==
  /\ Tasks /\ Taken(r) /\ ~pass.page[r]
  /\ pass' = WaitingTask(r)
  /\ UNCHANGED <<stopped, job, rows, stuck, troubles>>

DeleteFolder(r) ==
  /\ Tasks /\ Taken(r) /\ pass.page[r]
  /\ ~stopped /\ r \notin stuck
  /\ rows' = Gone(r) /\ pass' = Past(r)
  /\ UNCHANGED <<stopped, job, stuck, troubles>>

\* Fault: it ends the pass.
EndAtFailure(r) == [pass EXCEPT !.at = "ended", !.cut = TRUE]
\* A failure is kept and reported at the end.
FailedTask(r) == Past(r)
\* The attempt is recorded, unless the task is gone or that fails as well.
FailFolder(r) ==
  /\ Tasks /\ Taken(r) /\ pass.page[r]
  /\ \/ /\ r \in stuck /\ ~stopped /\ UNCHANGED troubles
        /\ rows' = [rows EXCEPT ![r] = IF r \in Candidates THEN Attempted(@) ELSE @]
     \/ /\ Trouble
        /\ rows' \in {rows, [rows EXCEPT ![r] = IF r \in Candidates THEN Attempted(@) ELSE @]}
     \/ stopped /\ UNCHANGED <<rows, troubles>>
  /\ pass' = FailedTask(r)
  /\ UNCHANGED <<stopped, job, stuck>>

-----------------------------------------------------------------------------
(* Meanwhile.                                                               *)

NotOwed(r) == pass' = [pass EXCEPT !.owed = @ \ {r}]

\* A row gets its reason to be cleaned up; that of an upload or of merged parts is its age
\* at the time the pass began.
Appear(r) ==
  /\ rows[r].is = "future"
  /\ job \in {"uploads", "parts"} => pass.at = "select"
  /\ rows' = [rows EXCEPT ![r].is = "candidate"]
  /\ UNCHANGED <<stopped, job, stuck, pass, troubles>>

\* The upload goes on, the entry is used, or another server has dealt with the row.
Elsewhere(r) ==
  /\ r \in Candidates \ stuck
  /\ rows' = Gone(r) /\ NotOwed(r)
  /\ UNCHANGED <<stopped, job, stuck, troubles>>

\* The server that enqueued a task, or another one, attempts it as well.
FailElsewhere(r) ==
  /\ Tasks /\ r \in Candidates
  /\ Trouble
  /\ rows' = [rows EXCEPT ![r] = Attempted(@)] /\ NotOwed(r)
  /\ UNCHANGED <<stopped, job, stuck>>

Tick ==
  /\ Tasks
  /\ pass.at \in {"query", "rows"} => pass.elapsed = 0
  /\ rows' = [r \in Row |-> [rows[r] EXCEPT !.age = IF rows[r].attempts = 0 THEN 0
                                                    ELSE Min({@ + 1, MaxAge})]]
  /\ rows' # rows \/ pass.at # "select"
  /\ pass' = IF pass.at \in {"query", "rows"} THEN [pass EXCEPT !.elapsed = 1] ELSE pass
  /\ UNCHANGED <<stopped, job, stuck, troubles>>

PassStep == \/ RunJob \/ JobFinished \/ StopJob \/ QueryPage
            \/ \E r \in Row : \/ HandleRow(r) \/ SkipRow(r)
                              \/ SkipTask(r) \/ DeleteFolder(r) \/ FailFolder(r)

CleanupNext == \/ CancelCleanup \/ PassStep \/ Tick
               \/ \E r \in Row : Appear(r) \/ Elsewhere(r) \/ FailElsewhere(r)

-----------------------------------------------------------------------------
(* A pass that was not cut short has dealt with every row that it found     *)
(* its reason for from its beginning to its end, whatever left, appeared    *)
(* or was attempted elsewhere between two pages; and the delay of a task    *)
(* doubles with each attempt up to its limit.                               *)
PassesComplete ==
  /\ pass.at = "ended" /\ ~pass.cut => pass.owed = {}
  /\ \A n \in 1..MaxAttempts : RetryDelay[n] = Min({RetryBase * 2^(n - 1), RetryMost})

(* Nothing but what can never be deleted is left when a pass has ended.     *)
CleanedUp == pass.at = "select" /\ Candidates \subseteq stuck
=============================================================================
