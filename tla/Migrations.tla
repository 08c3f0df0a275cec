----------------------------- MODULE Migrations -----------------------------
(***************************************************************************)
(* The migrations of the database (DB.MigrateUp and DB.MigrateDown of      *)
(* internal/storage/postgres, run by ledgerctl and by deployments).        *)
(*                                                                         *)
(* Several processes may migrate at once, and each may die between two     *)
(* statements.  A file is applied and recorded in one transaction; DDL     *)
(* locks make two transactions on one file wait for each other, so that    *)
(* each is one step.  The rollback of a file is one statement list, which  *)
(* is a transaction too, but nothing records it.                           *)
(***************************************************************************)
EXTENDS Integers

CONSTANTS
    Migrators,  \* processes that migrate
    MaxRuns     \* bound on their runs

ASSUME MigrationsAssumption == MaxRuns \in Nat

VARIABLES
    applied,    \* the files whose objects exist
    tracked,    \* the files recorded in _ledger_schema_migrations
    migrator,   \* the state of each process
    runs,       \* the number of runs so far
    downs,      \* whether a rollback has been started (history)
    catalogue   \* whether _system.ledgers has a row

migrationVars == <<applied, tracked, migrator, runs, downs, catalogue>>

\* 001_init, 010_holds, 020_governance, 030_approval_executing_at.
Files == 1..4

Ended(pc) == [pc |-> pc, file |-> 0]

FirstFile(S) == CHOOSE f \in S : \A g \in S : f <= g

(***************************************************************************)
(* MigrateUp: the tracking table, then file after file.                    *)
(***************************************************************************)
Starts(m, pc, file) ==
    /\ migrator[m].pc \in {"idle", "applied"}
    /\ runs < MaxRuns
    /\ runs' = runs + 1
    /\ migrator' = [migrator EXCEPT ![m] = [pc |-> pc, file |-> file]]

MigrateUp(m) == Starts(m, "check", 1) /\ UNCHANGED <<applied, tracked, downs, catalogue>>

\* A recorded file is skipped.  Records are never removed, so a run of skips and
\* the reads that made them are one step.
CheckFile(m) ==
    LET pending == {f \in Files \ tracked : migrator[m].file <= f} IN
    /\ migrator[m].pc = "check"
    /\ migrator' = [migrator EXCEPT ![m] =
          IF pending = {} THEN Ended("applied") ELSE [pc |-> "exec", file |-> FirstFile(pending)]]
    /\ UNCHANGED <<applied, tracked, runs, downs, catalogue>>

\* The statements create what must not be there yet, 030 in a table of 020 and
\* the others in the schemas of 001.
Applies(f) ==
    /\ f \notin applied /\ f \notin tracked
    /\ CASE f = 1 -> TRUE [] f = 4 -> 3 \in applied [] OTHER -> 1 \in applied

\* Mutant: the file and its record in two transactions, between which the
\* process may die.
RecordsLater(m) ==
    LET f == migrator[m].file IN
    /\ migrator[m].pc = "exec"
    /\ IF Applies(f)
       THEN /\ applied' = applied \cup {f}
            /\ \/ /\ tracked' = tracked \cup {f}
                  /\ migrator' = [migrator EXCEPT ![m] = [pc |-> "check", file |-> f + 1]]
               \/ migrator' = [migrator EXCEPT ![m] = Ended("idle")] /\ UNCHANGED tracked
       ELSE /\ migrator' = [migrator EXCEPT ![m] = Ended("idle")]
            /\ UNCHANGED <<applied, tracked>>
    /\ UNCHANGED <<runs, downs, catalogue>>

ApplyFile(m) ==
    LET f == migrator[m].file IN
    /\ migrator[m].pc = "exec"
    /\ IF Applies(f)
       THEN /\ applied' = applied \cup {f}
            /\ tracked' = tracked \cup {f}
            /\ migrator' = [migrator EXCEPT ![m] = [pc |-> "check", file |-> f + 1]]
       ELSE /\ migrator' = [migrator EXCEPT ![m] = Ended("idle")]
            /\ UNCHANGED <<applied, tracked>>
    /\ UNCHANGED <<runs, downs, catalogue>>

(***************************************************************************)
(* MigrateDown: the files backwards.  030 alters a table that must exist;  *)
(* 001 deletes the bucket, to which every ledger refers, and drops a       *)
(* schema that must be empty; the others drop what is there.               *)
(* _ledger_schema_migrations is left as it is.                             *)
(***************************************************************************)
MigrateDown(m) ==
    /\ Starts(m, "down", 4)
    /\ downs' = TRUE
    /\ UNCHANGED <<applied, tracked, catalogue>>

RollsBack(f) ==
    CASE f = 4 -> 3 \in applied
      [] f = 1 -> 1 \in applied /\ applied \cap {2, 3} = {} /\ ~catalogue
      [] OTHER -> TRUE

\* What 030 adds goes with the table of 020.
RollBackFile(m) ==
    LET f == migrator[m].file IN
    /\ migrator[m].pc = "down"
    /\ IF RollsBack(f)
       THEN /\ applied' = applied \ (IF f = 3 THEN {3, 4} ELSE {f})
            /\ migrator' = [migrator EXCEPT ![m] = IF f = 1 THEN Ended("idle") ELSE [pc |-> "down", file |-> f - 1]]
       ELSE migrator' = [migrator EXCEPT ![m] = Ended("idle")] /\ UNCHANGED applied
    /\ UNCHANGED <<tracked, runs, downs, catalogue>>

\* A statement fails, a commit is not acknowledged, or the process dies.
MigrationFails(m) ==
    /\ migrator[m].pc \in {"check", "exec", "down"}
    /\ migrator' = [migrator EXCEPT ![m] = Ended("idle")]
    /\ UNCHANGED <<applied, tracked, runs, downs, catalogue>>

-----------------------------------------------------------------------------

MigrationsInit ==
    /\ applied = {} /\ tracked = {}
    /\ migrator = [m \in Migrators |-> Ended("idle")]
    /\ runs = 0
    /\ downs = FALSE
    /\ catalogue = FALSE

MigrationStep(m) == CheckFile(m) \/ ApplyFile(m) \/ RollBackFile(m)

MigrationsNext ==
    \E m \in Migrators : MigrateUp(m) \/ MigrateDown(m) \/ MigrationStep(m) \/ MigrationFails(m)

MigrationsTypeOK ==
    /\ applied \subseteq Files /\ tracked \subseteq Files
    /\ migrator \in [Migrators -> [pc : {"idle", "check", "exec", "down", "applied"}, file : 0..5]]
    /\ \A m \in Migrators : migrator[m].pc \in {"exec", "down"} => migrator[m].file \in Files
    /\ runs \in 0..MaxRuns /\ downs \in BOOLEAN /\ catalogue \in BOOLEAN

(***************************************************************************)
(* Properties                                                              *)
(***************************************************************************)

\* SchemaIsPrefix: whoever migrates up or down at the same time, and wherever
\* they die, the objects in the database are those of the first files, all of
\* them recorded, so that no file is ever run on its own objects; and where
\* there is a ledger, no rollback takes the tables of its log (MigrateUp,
\* MigrateDown and the files under migrations).
SchemaIsPrefix ==
    /\ \A f \in applied : 1..f \subseteq applied
    /\ applied \subseteq tracked
    /\ catalogue => 1 \in applied

\* UpMeansSchema: as long as nobody has rolled back, the records are the truth,
\* and a MigrateUp that reports success leaves the whole schema.  After a
\* rollback neither holds: the records stay, and MigrateUp skips every file.
UpMeansSchema ==
    ~downs => /\ tracked = applied
              /\ \A m \in Migrators : migrator[m].pc = "applied" => applied = Files

=============================================================================
