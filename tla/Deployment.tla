----------------------------- MODULE Deployment -----------------------------
(***************************************************************************)
(* The worker's checkpoint job beside the migrations of its database: it   *)
(* runs before the schema is there, while it is made and after it is gone, *)
(* and beside the transactions that write deltas.                          *)
(***************************************************************************)
EXTENDS Migrations, Checkpoints, Worker

vars == <<migrationVars, checkpointVars, workerVars>>

\* volumes_delta and volumes_checkpoint are made by 001_init.
Tables == 1 \in applied

-----------------------------------------------------------------------------

\* The rollback that would drop the tables fails where there is a ledger, and
\* without one they are empty.
Migrate == MigrationsNext /\ UNCHANGED <<checkpointVars, workerVars>>

\* A ledger is created, and never removed.
CreateLedger ==
    /\ Tables /\ ~catalogue
    /\ catalogue' = TRUE
    /\ UNCHANGED <<applied, tracked, migrator, runs, downs, checkpointVars, workerVars>>

\* Transactions of the server on the account.
Clock == ClockTicks /\ UNCHANGED <<migrationVars, workerVars>>

Write ==
    /\ Tables /\ catalogue
    /\ \/ \E valid \in 0..MaxClock : BeginWrite(valid)
       \/ \E w \in writes : CommitWrite(w)
    /\ UNCHANGED <<migrationVars, workerVars>>

\* The ticker and the context.
Ticker ==
    /\ worker \in {"up", "stopping"}
    /\ StartJob \/ SkipTick
    /\ UNCHANGED <<migrationVars, checkpointVars>>

ContextEnds == ContextDone /\ UNCHANGED <<migrationVars, checkpointVars>>

\* The job reads: it goes on with the row, if there is one.
RunJob ==
    /\ job.pc = "running" /\ build = NoRow
    /\ Tables /\ worker = "up"
    /\ QueryUncheckpointed
    /\ IF build' = NoRow THEN JobEnds(TRUE) ELSE UNCHANGED workerVars
    /\ UNCHANGED <<migrationVars, now, writes, deltas, checkpoints>>

\* It writes the row.
StoreCheckpoint ==
    /\ job.pc = "running" /\ build # NoRow
    /\ Tables /\ worker = "up"
    /\ WriteCheckpoint
    /\ build' = NoRow
    /\ JobEnds(TRUE)
    /\ UNCHANGED <<migrationVars, now, writes, deltas>>

\* Either fails: the tables are not there, the context has ended, or the
\* database fails it.
JobFails ==
    /\ JobEnds(FALSE)
    /\ build' = NoRow
    /\ UNCHANGED <<migrationVars, now, writes, deltas, checkpoints>>

Shutdown ==
    /\ OnStop \/ StoppedCleanly
    /\ UNCHANGED <<migrationVars, checkpointVars>>

ShutdownTimesOut ==
    /\ StopTimesOut
    /\ build' = NoRow
    /\ UNCHANGED <<migrationVars, now, writes, deltas, checkpoints>>

-----------------------------------------------------------------------------

Init == MigrationsInit /\ CheckpointsInit /\ WorkerInit

Next ==
    \/ Migrate \/ CreateLedger \/ Clock \/ Write
    \/ Ticker \/ ContextEnds \/ RunJob \/ StoreCheckpoint \/ JobFails
    \/ Shutdown \/ ShutdownTimesOut

Spec == Init /\ [][Next]_vars

(***************************************************************************)
(* Tickers fire and statements return, and a database that has the tables  *)
(* does not fail the same statement for ever.  Nobody has to migrate,      *)
(* write or stop.                                                          *)
(***************************************************************************)
Fairness ==
    /\ WF_vars(Ticker) /\ WF_vars(JobFails)
    /\ SF_vars(RunJob) /\ SF_vars(StoreCheckpoint)

LiveSpec == Spec /\ Fairness

-----------------------------------------------------------------------------

\* TypeOK: the types, and that a row waits to be written only while its job
\* runs, and a goroutine lets at most MaxConsecutiveFailures - 1 ticks go by.
TypeOK ==
    /\ MigrationsTypeOK
    /\ WorkerTypeOK
    /\ now \in 0..MaxClock
    /\ \A w \in writes : w.system <= now
    /\ \A d, e \in deltas : d.id = e.id => d = e
    /\ \A c \in checkpoints : Cardinality(c.counted) > Threshold
    /\ build # NoRow => job.pc = "running"

\* DeltasAreRolledUp: a worker that is started before its schema, or meets
\* failures, recovers: while the tables and the worker stay, deltas in excess
\* of the threshold do not stay uncovered, for the backoff never locks the job
\* out (BuildCheckpoints under runTickerWithBackoff).
DeltasAreRolledUp == <>[](Tables /\ worker = "up") => []<>(Cardinality(Uncovered) <= Threshold)

=============================================================================
