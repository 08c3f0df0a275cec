------------------------------ MODULE MCWorker ------------------------------
(***************************************************************************)
(* Instances of the parts that the worker process looks after: batches it  *)
(* closes, checkpoints it builds in a schema that is migrated up and down, *)
(* and the migrations themselves, run by several processes at once.        *)
(* Batches and checkpoints share neither tables nor memory, so a behaviour *)
(* of the whole is one of each, interleaved: a behaviour checked here runs *)
(* one part while the others stand at their start, where nothing is owed.  *)
(***************************************************************************)
EXTENDS MCMerkleBatch, MCDeployment

VARIABLE part

partVars == <<part, batchVars, vars>>

PartsInit ==
    /\ part \in {"batches", "migrations", "checkpoints"}
    /\ BatchesInit /\ Init

PartsNext ==
    /\ UNCHANGED part
    /\ \/ part = "batches" /\ BatchesNext /\ UNCHANGED vars
       \/ part = "migrations" /\ MigrationsAlone /\ UNCHANGED batchVars
       \/ part = "checkpoints" /\ OneMigrator /\ UNCHANGED batchVars

\* The worker runs beside the part "checkpoints" only: its fairness.
CheckpointsFairness ==
    /\ WF_vars(part = "checkpoints" /\ Ticker) /\ WF_vars(part = "checkpoints" /\ JobFails)
    /\ SF_vars(part = "checkpoints" /\ RunJob) /\ SF_vars(part = "checkpoints" /\ StoreCheckpoint)

\* The fairness of the part that runs; nobody has to migrate.
PartsFairness ==
    \/ part = "batches" /\ BatchesFairness
    \/ part # "batches" /\ CheckpointsFairness

PartsSpec == PartsInit /\ [][PartsNext]_partVars /\ PartsFairness
=============================================================================
