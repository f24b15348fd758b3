-------------------------- MODULE SchemaMigration --------------------------
(***************************************************************************)
(* How a server that starts brings the schema of the database up to date:  *)
(* OpenAndMigrate.  Several servers may start together on one PostgreSQL   *)
(* or MySQL database.  PostgreSQL does everything in a transaction that    *)
(* holds an advisory lock to its end; under MySQL every statement of the   *)
(* migration commits by itself while another connection holds a named      *)
(* lock, which is lost with that connection; SQLite belongs to one server. *)
(***************************************************************************)
EXTENDS Integers, DatabaseEngine

CONSTANTS Server, NoServer,
          Steps,     \* statements between the old schema and the new one
          MaxFaults  \* bound: failing statements, lost connections, killed servers

ASSUME MigrationAssumption == /\ NoServer \notin Server
                              /\ Steps \in Nat /\ MaxFaults \in Nat

VARIABLES schema,    \* statements committed so far
          filled,    \* the recency of the old rows is committed
          holder,    \* the server whose connection holds the migration lock
          start,     \* of each server: where its start is, the statements it has done or
                     \* found done, whether it met an error, and whether its lock was lost
          faults

Down == [pc |-> "down", done |-> 0, failed |-> FALSE, lost |-> FALSE]

MigrationInit == /\ schema \in {0, Steps} /\ filled = FALSE
                 /\ holder = NoServer /\ faults = 0
                 /\ start = [s \in Server |-> Down]

To(s, pc) == start' = [start EXCEPT ![s].pc = pc]
On(s, pc) == start[s].pc = pc
Fault == faults < MaxFaults /\ faults' = faults + 1
Migrating(s) == start[s].pc \in {"inspect", "statements", "commit"}

OpenDatabase(s) ==
  /\ On(s, "down")
  /\ engine = "sqlite" => \A t \in Server \ {s} : On(t, "down") \/ On(t, "failed")
  /\ To(s, IF engine = "sqlite" THEN "inspect" ELSE "lock")
  /\ UNCHANGED <<engine, schema, filled, holder, faults>>

\* GET_LOCK gives up after a while and is tried again; the advisory lock waits.
\* Fault: the answer that another connection holds the lock is not told apart.
AnyAnswer(s) == engine = "mysql" \/ holder = NoServer
LockAcquired(s) == holder = NoServer
AcquireMigrationLock(s) ==
  /\ On(s, "lock") /\ LockAcquired(s)
  /\ holder' = s /\ To(s, "inspect")
  /\ UNCHANGED <<engine, schema, filled, faults>>

\* Schema.Create compares the schema with the one it wants.
Inspect(s) ==
  /\ On(s, "inspect")
  /\ start' = [start EXCEPT ![s].pc = "statements", ![s].done = schema]
  /\ UNCHANGED <<engine, schema, filled, holder, faults>>

\* A statement that another server has run meanwhile fails.
RunStatement(s) ==
  /\ On(s, "statements") /\ start[s].done < Steps
  /\ IF engine = "mysql" /\ schema # start[s].done
     THEN start' = [start EXCEPT ![s].pc = "release", ![s].failed = TRUE] /\ UNCHANGED schema
     ELSE /\ start' = [start EXCEPT ![s].done = @ + 1]
          /\ schema' = IF engine = "postgres" THEN schema ELSE start[s].done + 1
  /\ UNCHANGED <<engine, filled, holder, faults>>

SchemaCreated(s) == On(s, "statements") /\ start[s].done = Steps

BackfillRecency(s) ==
  /\ SchemaCreated(s)
  /\ To(s, CASE engine = "postgres" -> "commit"
             [] engine = "mysql" -> "release"
             [] engine = "sqlite" -> "serving")
  /\ filled' = (filled \/ engine # "postgres")
  /\ UNCHANGED <<engine, schema, holder, faults>>

CommitMigration(s) ==
  /\ On(s, "commit")
  /\ schema' = start[s].done /\ filled' = TRUE
  /\ holder' = NoServer /\ To(s, "serving")
  /\ UNCHANGED <<engine, faults>>

\* A statement fails: PostgreSQL rolls back and drops the lock with the transaction.
FailStatement(s) ==
  /\ Fault
  /\ start[s].pc \in {"lock", "inspect", "statements", "commit"}
  /\ start' = [start EXCEPT ![s].failed = TRUE,
                            ![s].pc = IF engine = "mysql" /\ ~On(s, "lock")
                                      THEN "release" ELSE "failed"]
  /\ holder' = IF engine = "postgres" /\ holder = s THEN NoServer ELSE holder
  /\ UNCHANGED <<engine, schema, filled>>

\* Whatever happened, RELEASE_LOCK is tried and the connection is closed after it; a lock
\* that is not held any more is an error, and so is one that cannot be released in time.
Released(s) == holder = s
\* Fault: after a failed migration the connection stays open.
LeftOpen(s) == IF start[s].failed THEN s ELSE NoServer
AfterRelease(s) == NoServer
ReleaseLock(s) ==
  /\ On(s, "release")
  /\ holder' = IF holder = s THEN AfterRelease(s) ELSE holder
  /\ \/ /\ To(s, IF Released(s) /\ ~start[s].failed THEN "serving" ELSE "failed")
        /\ UNCHANGED faults
     \/ Fault /\ To(s, "failed")
  /\ UNCHANGED <<engine, schema, filled>>

LoseLock(s) ==
  /\ Fault
  /\ engine = "mysql" /\ holder = s
  /\ holder' = NoServer
  /\ start' = [start EXCEPT ![s].lost = TRUE]
  /\ UNCHANGED <<engine, schema, filled>>

\* A server is killed, or restarted after it gave up: its connections end with it.
Restart(s) ==
  /\ ~On(s, "down") /\ Fault
  /\ start' = [start EXCEPT ![s] = Down]
  /\ holder' = IF holder = s THEN NoServer ELSE holder
  /\ UNCHANGED <<engine, schema, filled>>

StartUp(s) == \/ OpenDatabase(s) \/ AcquireMigrationLock(s) \/ Inspect(s) \/ RunStatement(s)
              \/ BackfillRecency(s) \/ CommitMigration(s) \/ ReleaseLock(s)
MigrationNext == \E s \in Server : StartUp(s) \/ FailStatement(s) \/ LoseLock(s) \/ Restart(s)
migrationVars == <<engine, schema, filled, holder, start, faults>>
MigrationSpec == /\ engine \in {"sqlite", "postgres", "mysql"} /\ MigrationInit
                 /\ [][MigrationNext]_migrationVars
Started(s) == start[s].pc \in {"serving", "failed"}

----------------------------------------------------------------------------
(* Properties.                                                               *)

\* A server serves only a schema that is complete and backfilled, and only if its lock
\* lasted to the end; two servers migrate together only when one has lost its lock, so
\* that without such a loss no start fails on the statements of another.
ServesComplete == \A s \in Server : On(s, "serving") => /\ schema = Steps /\ filled
                                                       /\ ~start[s].lost /\ ~start[s].failed
MigratesAlone == \A s, t \in Server : s # t /\ Migrating(s) /\ Migrating(t)
                                         => start[s].lost \/ start[t].lost
StartsUnhindered == (faults = 0) => \A s \in Server : ~start[s].failed
MigrationInv == ServesComplete /\ MigratesAlone /\ StartsUnhindered

\* Every start ends: a server that fails on its way never keeps the lock from the others.
StartsEnd == <>[](\A s \in Server : Started(s) \/ On(s, "down"))
=============================================================================
