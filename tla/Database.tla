------------------------------ MODULE Database ------------------------------
(***************************************************************************)
(* The database of the servers: the servers that start migrate it, and     *)
(* servers that have started run their transactions on it.  Transactions   *)
(* begin in a database whose servers have all started, and servers start   *)
(* on one where the bounded number of transactions has ended: nothing here *)
(* concerns a transaction beside a migration, except the statement that    *)
(* backfills the recency, which is a transaction of RowTransactions too.   *)
(***************************************************************************)
EXTENDS RowContents, SchemaMigration

rowVars == <<db, clock, jobs, issued, proc>>
startVars == <<schema, filled, holder, start, faults>>
databaseVars == <<engine, rowVars, startVars>>

ServersStarted ==
  /\ schema = Steps /\ filled = TRUE /\ holder = NoServer /\ faults = MaxFaults
  /\ start = [s \in Server |-> [Down EXCEPT !.pc = "serving"]]
TransactionsEnded ==
  /\ engine \in Engine /\ db = [r \in Rows |-> Absent] /\ issued = {} /\ clock = MaxClock
  /\ jobs = MaxJobs /\ proc = [p \in Process |-> Idle]

DatabaseInit == \/ Init /\ ServersStarted
                \/ MigrationInit /\ TransactionsEnded

DatabaseNext == \/ Next /\ UNCHANGED startVars
                \/ MigrationNext /\ UNCHANGED rowVars

\* The database answers the servers that start, though it need not be fair to each.
DatabaseSpec ==
  /\ DatabaseInit /\ [][DatabaseNext]_databaseVars
  /\ WF_databaseVars((\E s \in Server : StartUp(s)) /\ UNCHANGED rowVars)
=============================================================================
