---------------------------- MODULE MCDeployment ----------------------------
(***************************************************************************)
(* An instance of Deployment.                                              *)
(***************************************************************************)
EXTENDS Deployment

CONSTANT m1     \* the process that migrates beside the checkpoint job

\* Migrations by all processes, without the worker.
MigrationsAlone == Migrate \/ CreateLedger

\* The worker beside one process that migrates up and down again.
OneMigrator ==
    /\ Next
    /\ runs' <= 2
    /\ \A m \in Migrators \ {m1} : migrator'[m] = migrator[m]
=============================================================================
