----------------------------- MODULE WorkerProofs -----------------------------
(***************************************************************************)
(* Proofs about the tables that the worker's sweeps work on: the schema    *)
(* they live in and the checkpoints (Deployment), for any number of        *)
(* processes that migrate up and down at once, any number of runs and any  *)
(* load on the tables; and the approvals (Approvals), for any number of    *)
(* callers, sweepers and principals.                                       *)
(***************************************************************************)
EXTENDS Deployment, Approvals, WellFoundedInduction, TLAPS, FiniteSetTheorems

(***************************************************************************)
(* A set of natural numbers that is not empty has a least element.         *)
(***************************************************************************)
LEMMA LeastNumber ==
    ASSUME NEW T, T \subseteq Nat, T # {}
    PROVE  \E m \in T : \A n \in T : m <= n
  <1> DEFINE R == {ss \in Nat \X Nat : ss[1] < ss[2]}
  <1>1. IsWellFoundedOn(R, Nat)
    BY NatLessThanWellFounded DEF OpToRel
  <1>2. \A n, m \in Nat : n < m => <<n, m>> \in R
    OBVIOUS
  <1> HIDE DEF R
  <1>3. PICK m \in T : \A n \in T : ~(<<n, m>> \in R)
    BY <1>1, WFMin
  <1>4. \A n \in T : ~(n < m)
    BY <1>2, <1>3
  <1> QED
    BY <1>3, <1>4

\* MigrationsTypeOK without the bound on the runs.
Types ==
    /\ applied \subseteq Files /\ tracked \subseteq Files
    /\ migrator \in [Migrators -> [pc : {"idle", "check", "exec", "down", "applied"}, file : 0..5]]
    /\ \A m \in Migrators : migrator[m].pc \in {"exec", "down"} => migrator[m].file \in Files

\* A process that checks or runs a file has seen the records of those before it.
SeenRecords ==
    \A m \in Migrators :
        /\ migrator[m].pc \in {"check", "exec"} => \A f \in Files : f < migrator[m].file => f \in tracked
        /\ migrator[m].pc = "applied" => Files \subseteq tracked

\* A rollback gets past 030 only if 020 was there, and is recorded; so nobody
\* applies 020 again once the rollback has taken it away.
RolledBack ==
    \A m \in Migrators : migrator[m].pc = "down" =>
        /\ migrator[m].file <= 3 => 3 \in tracked
        /\ migrator[m].file <= 2 => 3 \notin applied

\* What is recorded and not there was taken away by such a rollback.
Gone == (\E f \in {1, 2} : f \in tracked /\ f \notin applied) => 3 \in tracked

\* Without a rollback the records are the objects.
RecordsAreTrue ==
    ~downs => tracked = applied /\ \A m \in Migrators : migrator[m].pc # "down"

SchemaInv == Types /\ SchemaIsPrefix /\ SeenRecords /\ RolledBack /\ Gone /\ RecordsAreTrue

\* CheckFile takes the least of a set that is not empty.
LEMMA MinOfFiles ==
    ASSUME NEW S \in SUBSET Files, S # {}
    PROVE  FirstFile(S) \in S /\ \A g \in S : FirstFile(S) <= g
<1>1. \E f \in S : \A g \in S : f <= g
  <2>1. \A g \in S : g \in {1, 2, 3, 4} BY DEF Files
  <2>2. CASE 1 \in S BY <2>1, <2>2
  <2>3. CASE 1 \notin S /\ 2 \in S BY <2>1, <2>3
  <2>4. CASE 1 \notin S /\ 2 \notin S /\ 3 \in S BY <2>1, <2>4
  <2>5. CASE S = {4} BY <2>5
  <2> QED BY <2>1, <2>2, <2>3, <2>4, <2>5
<1>2. QED
  BY <1>1 DEF FirstFile

\* A step of any migration keeps the invariant (MigrateUp, MigrateDown).
LEMMA MigrationKeepsSchema ==
    ASSUME SchemaInv, MigrationsNext
    PROVE  SchemaInv'
<1> USE DEF SchemaInv
<1>1. PICK m \in Migrators :
        MigrateUp(m) \/ MigrateDown(m) \/ MigrationStep(m) \/ MigrationFails(m)
  BY DEF MigrationsNext
<1>2. CASE MigrateUp(m)
  <2>1. Types' BY <1>2 DEF MigrateUp, Starts, Types
  <2>2. SchemaIsPrefix' BY <1>2 DEF MigrateUp, Starts, SchemaIsPrefix
  <2>3. SeenRecords' BY <1>2 DEF MigrateUp, Starts, SeenRecords, Types, Files
  <2>4. RolledBack' BY <1>2 DEF MigrateUp, Starts, RolledBack, Types
  <2>5. RecordsAreTrue' BY <1>2 DEF MigrateUp, Starts, RecordsAreTrue, Types
  <2>6. Gone' BY <1>2 DEF MigrateUp, Gone
  <2> QED BY <2>1, <2>2, <2>3, <2>4, <2>5, <2>6
<1>3. CASE MigrateDown(m)
  <2>1. Types' BY <1>3 DEF MigrateDown, Starts, Types, Files
  <2>2. SchemaIsPrefix' BY <1>3 DEF MigrateDown, Starts, SchemaIsPrefix
  <2>3. SeenRecords' BY <1>3 DEF MigrateDown, Starts, SeenRecords, Types
  <2>4. RolledBack' BY <1>3 DEF MigrateDown, Starts, RolledBack, Types
  <2>5. RecordsAreTrue' BY <1>3 DEF MigrateDown, RecordsAreTrue
  <2>6. Gone' BY <1>3 DEF MigrateDown, Gone
  <2> QED BY <2>1, <2>2, <2>3, <2>4, <2>5, <2>6
<1>4. CASE CheckFile(m)
  <2> DEFINE pending == {f \in Files \ tracked : migrator[m].file <= f}
  <2>0. UNCHANGED <<applied, tracked, downs, catalogue>> BY <1>4 DEF CheckFile
  <2>1. CASE pending = {}
    <3>1. migrator' = [migrator EXCEPT ![m] = Ended("applied")] BY <1>4, <2>1 DEF CheckFile
    <3>2. Files \subseteq tracked
      BY <1>4, <2>1 DEF CheckFile, SeenRecords, Types, Files
    <3>3. Types' BY <3>1, <2>0 DEF Types, Ended
    <3>4. SchemaIsPrefix' BY <2>0 DEF SchemaIsPrefix
    <3>5. SeenRecords' BY <3>1, <3>2, <2>0 DEF SeenRecords, Types, Ended
    <3>6. RolledBack' BY <3>1, <2>0 DEF RolledBack, Types, Ended
    <3>7. RecordsAreTrue' BY <3>1, <2>0 DEF RecordsAreTrue, Types, Ended
    <3>8. Gone' BY <2>0 DEF Gone
    <3> QED BY <3>3, <3>4, <3>5, <3>6, <3>7, <3>8
  <2>2. CASE pending # {}
    <3>1. migrator' = [migrator EXCEPT ![m] = [pc |-> "exec", file |-> FirstFile(pending)]]
      BY <1>4, <2>2 DEF CheckFile
    <3>2. FirstFile(pending) \in pending /\ \A g \in pending : FirstFile(pending) <= g BY <2>2, MinOfFiles
    <3>3. FirstFile(pending) \in Files BY <3>2
    <3>4. \A g \in Files : g < FirstFile(pending) => g \in tracked
      <4> SUFFICES ASSUME NEW g \in Files, g < FirstFile(pending), g \notin tracked PROVE FALSE
        OBVIOUS
      <4>1. g >= migrator[m].file
        BY <1>4 DEF CheckFile, SeenRecords, Types, Files
      <4>2. g \in pending BY <4>1
      <4>3. FirstFile(pending) <= g BY <4>2, <3>2
      <4> DEFINE least == FirstFile(pending)
      <4>4. least \in 1..4 /\ g \in 1..4 /\ g < least /\ least <= g BY <4>3, <3>3 DEF Files
      <4> HIDE DEF least
      <4> QED BY <4>4
    <3> HIDE DEF pending
    <3>5. Types' BY <3>1, <3>3, <2>0 DEF Types, Files
    <3>6. SchemaIsPrefix' BY <2>0 DEF SchemaIsPrefix
    <3>7. SeenRecords' BY <3>1, <3>4, <2>0 DEF SeenRecords, Types
    <3>8. RolledBack' BY <3>1, <2>0 DEF RolledBack, Types
    <3>9. RecordsAreTrue' BY <3>1, <2>0 DEF RecordsAreTrue, Types
    <3>10. Gone' BY <2>0 DEF Gone
    <3> QED BY <3>5, <3>6, <3>7, <3>8, <3>9, <3>10
  <2> QED BY <2>1, <2>2
<1>5. CASE ApplyFile(m)
  <2> DEFINE f == migrator[m].file
  <2>0. f \in Files /\ migrator[m].pc = "exec" BY <1>5 DEF ApplyFile, Types
  <2>1. CASE Applies(f)
    <3>1. /\ applied' = applied \cup {f}
          /\ tracked' = tracked \cup {f}
          /\ migrator' = [migrator EXCEPT ![m] = [pc |-> "check", file |-> f + 1]]
          /\ UNCHANGED <<downs, catalogue>>
      BY <1>5, <2>1 DEF ApplyFile
    <3>2. \A g \in Files : g < f => g \in applied
      <4>1. CASE f \in {1, 2, 4}
        BY <4>1, <2>0, <2>1 DEF Applies, SchemaIsPrefix, Files, Types
      <4>2. CASE f = 3
        <5>1. 1 \in tracked /\ 2 \in tracked BY <4>2, <2>0 DEF SeenRecords, Files
        <5>2. 1 \in applied /\ 2 \in applied BY <5>1, <4>2, <2>1 DEF Gone, Applies
        <5> QED BY <5>2, <4>2 DEF Files
      <4> QED BY <4>1, <4>2, <2>0 DEF Files
    <3>3. Types'
      <4>1. f + 1 \in 0..5 /\ f \in Files BY <2>0 DEF Files
      <4>2. [pc |-> "check", file |-> f + 1] \in [pc : {"idle", "check", "exec", "down", "applied"}, file : 0..5]
        BY <4>1
      <4>3. /\ tracked' \subseteq Files /\ applied' \subseteq Files
            /\ migrator' \in [Migrators -> [pc : {"idle", "check", "exec", "down", "applied"}, file : 0..5]]
        <5> HIDE DEF f
        <5> QED BY <4>1, <4>2, <3>1 DEF Types
      <4>4. \A n \in Migrators : migrator'[n].pc \in {"exec", "down"} => migrator'[n].file \in Files
        <5> HIDE DEF f
        <5> QED BY <3>1 DEF Types
      <4> QED BY <4>3, <4>4 DEF Types
    <3>4. SchemaIsPrefix'
      <4>1. \A h \in applied \cup {f} : 1..h \subseteq applied \cup {f}
        BY <2>0, <3>2 DEF SchemaIsPrefix, Files, Types
      <4> QED BY <4>1, <3>1 DEF SchemaIsPrefix
    <3>5. SeenRecords'
      <4>1. \A g \in Files : g < f + 1 => g \in tracked \cup {f}
        BY <2>0, <3>2 DEF SchemaIsPrefix, Files
      <4> QED BY <3>1, <4>1 DEF SeenRecords, Types
    <3>6. RolledBack' BY <3>1, <2>1 DEF RolledBack, Types, Applies
    <3>7. RecordsAreTrue' BY <3>1 DEF RecordsAreTrue, Types
    <3>8. Gone' BY <3>1, <2>0 DEF Gone
    <3> QED BY <3>3, <3>4, <3>5, <3>6, <3>7, <3>8
  <2>2. CASE ~Applies(f)
    <3>1. /\ migrator' = [migrator EXCEPT ![m] = Ended("idle")]
          /\ UNCHANGED <<applied, tracked, downs, catalogue>>
      BY <1>5, <2>2 DEF ApplyFile
    <3>3. Types' BY <3>1 DEF Types, Ended
    <3>4. SchemaIsPrefix' BY <3>1 DEF SchemaIsPrefix
    <3>5. SeenRecords' BY <3>1 DEF SeenRecords, Types, Ended
    <3>6. RolledBack' BY <3>1 DEF RolledBack, Types, Ended
    <3>7. RecordsAreTrue' BY <3>1 DEF RecordsAreTrue, Types, Ended
    <3>8. Gone' BY <3>1 DEF Gone
    <3> QED BY <3>3, <3>4, <3>5, <3>6, <3>7, <3>8
  <2> QED BY <2>1, <2>2
<1>6. CASE RollBackFile(m)
  <2> DEFINE f == migrator[m].file
  <2>0. f \in Files /\ migrator[m].pc = "down" /\ downs /\ UNCHANGED <<tracked, downs, catalogue>>
    BY <1>6 DEF RollBackFile, Types, RecordsAreTrue
  <2>1. CASE RollsBack(f)
    <3>1. /\ applied' = applied \ (IF f = 3 THEN {3, 4} ELSE {f})
          /\ migrator' = [migrator EXCEPT ![m] =
                             IF f = 1 THEN Ended("idle") ELSE [pc |-> "down", file |-> f - 1]]
      BY <1>6, <2>1 DEF RollBackFile
    <3>2. f = 4 => 3 \in applied BY <2>1 DEF RollsBack
    <3>3. f = 1 => applied \cap {2, 3} = {} /\ ~catalogue BY <2>1 DEF RollsBack
    <3>4. f = 2 => 3 \notin applied BY <2>0 DEF RolledBack
    <3>5. Types'
      <4> DEFINE next == IF f = 1 THEN Ended("idle") ELSE [pc |-> "down", file |-> f - 1]
      <4>1. next \in [pc : {"idle", "check", "exec", "down", "applied"}, file : 0..5]
        <5>1. CASE f = 1 BY <5>1 DEF Ended
        <5>2. CASE f # 1
          <6>1. f - 1 \in 0..5 BY <5>2, <2>0 DEF Files
          <6> QED BY <6>1, <5>2
        <5> QED BY <5>1, <5>2
      <4>2. next.pc \in {"exec", "down"} => next.file \in Files
        BY <2>0 DEF Ended, Files
      <4> HIDE DEF next
      <4>3. applied' \subseteq Files /\ tracked' \subseteq Files BY <3>1, <2>0 DEF Types
      <4>4. migrator' = [migrator EXCEPT ![m] = next] BY <3>1 DEF next
      <4> QED BY <4>1, <4>2, <4>3, <4>4 DEF Types
    <3>6. SchemaIsPrefix'
      <4>1. \A g, h \in applied : 1..h \subseteq applied /\ g \in 1..4
        BY DEF SchemaIsPrefix, Types, Files
      <4>2. CASE f = 1 BY <4>1, <4>2, <3>1, <3>3, <2>0 DEF SchemaIsPrefix
      <4>3. CASE f = 2 BY <4>1, <4>3, <3>1, <3>4, <2>0 DEF SchemaIsPrefix
      <4>4. CASE f = 3 BY <4>1, <4>4, <3>1, <2>0 DEF SchemaIsPrefix
      <4>5. CASE f = 4 BY <4>1, <4>5, <3>1, <2>0 DEF SchemaIsPrefix
      <4> QED BY <4>2, <4>3, <4>4, <4>5, <2>0 DEF Files
    <3>7. SeenRecords' BY <3>1, <2>0 DEF SeenRecords, Types, Ended
    <3>8. RolledBack'
      <4> SUFFICES ASSUME NEW n \in Migrators, migrator'[n].pc = "down"
                   PROVE  /\ migrator'[n].file <= 3 => 3 \in tracked'
                          /\ migrator'[n].file <= 2 => 3 \notin applied'
        BY DEF RolledBack
      <4>1. CASE n # m
        <5>1. migrator'[n] = migrator[n] /\ applied' \subseteq applied
          BY <4>1, <3>1 DEF Types
        <5> QED BY <5>1, <2>0 DEF RolledBack
      <4>2. CASE n = m
        <5>1. f # 1 /\ migrator'[n].file = f - 1 BY <4>2, <3>1 DEF Types, Ended
        <5>2. CASE f = 4 BY <5>1, <5>2, <3>2, <2>0 DEF SchemaIsPrefix
        <5>3. CASE f = 3 BY <5>1, <5>3, <3>1, <2>0 DEF RolledBack
        <5>4. CASE f = 2 BY <5>1, <5>4, <3>1, <2>0 DEF RolledBack
        <5> QED BY <5>1, <5>2, <5>3, <5>4, <2>0 DEF Files
      <4> QED BY <4>1, <4>2
    <3>9. RecordsAreTrue' BY <2>0 DEF RecordsAreTrue
    <3>10. Gone'
      <4>1. f \in {1, 2} => 3 \in tracked BY <2>0 DEF RolledBack
      <4> QED BY <4>1, <3>1, <2>0 DEF Gone, Files
    <3> QED BY <3>5, <3>6, <3>7, <3>8, <3>9, <3>10
  <2>2. CASE ~RollsBack(f)
    <3>1. migrator' = [migrator EXCEPT ![m] = Ended("idle")] /\ UNCHANGED applied
      BY <1>6, <2>2 DEF RollBackFile
    <3>3. Types' BY <3>1, <2>0 DEF Types, Ended
    <3>4. SchemaIsPrefix' BY <3>1, <2>0 DEF SchemaIsPrefix
    <3>5. SeenRecords' BY <3>1, <2>0 DEF SeenRecords, Types, Ended
    <3>6. RolledBack' BY <3>1, <2>0 DEF RolledBack, Types, Ended
    <3>7. RecordsAreTrue' BY <2>0 DEF RecordsAreTrue
    <3>8. Gone' BY <3>1, <2>0 DEF Gone
    <3> QED BY <3>3, <3>4, <3>5, <3>6, <3>7, <3>8
  <2> QED BY <2>1, <2>2
<1>7. CASE MigrationFails(m)
  <2>1. Types' BY <1>7 DEF MigrationFails, Types, Ended
  <2>2. SchemaIsPrefix' BY <1>7 DEF MigrationFails, SchemaIsPrefix
  <2>3. SeenRecords' BY <1>7 DEF MigrationFails, SeenRecords, Types, Ended
  <2>4. RolledBack' BY <1>7 DEF MigrationFails, RolledBack, Types, Ended
  <2>5. RecordsAreTrue' BY <1>7 DEF MigrationFails, RecordsAreTrue, Types, Ended
  <2>6. Gone' BY <1>7 DEF MigrationFails, Gone
  <2> QED BY <2>1, <2>2, <2>3, <2>4, <2>5, <2>6
<1> QED BY <1>1, <1>2, <1>3, <1>4, <1>5, <1>6, <1>7 DEF MigrationStep

\* The rest of the deployment leaves the schema alone.
LEMMA SchemaInvIsInductive == SchemaInv /\ [Next]_vars => SchemaInv'
<1> SUFFICES ASSUME SchemaInv, [Next]_vars PROVE SchemaInv'
  OBVIOUS
<1>1. CASE MigrationsNext
  BY <1>1, MigrationKeepsSchema
<1>2. CASE /\ UNCHANGED <<applied, tracked, migrator, runs, downs>>
           /\ UNCHANGED catalogue \/ 1 \in applied
  BY <1>2 DEF SchemaInv, Types, SchemaIsPrefix, SeenRecords, RolledBack, Gone, RecordsAreTrue
<1>3. \/ MigrationsNext
      \/ /\ UNCHANGED <<applied, tracked, migrator, runs, downs>>
         /\ UNCHANGED catalogue \/ 1 \in applied
  BY DEF migrationVars, Tables, CreateLedger, Next, vars, Migrate, Clock, Write, Ticker, ContextEnds, RunJob, StoreCheckpoint, JobFails,
         Shutdown, ShutdownTimesOut
<1> QED BY <1>1, <1>2, <1>3

\* The invariant of the migrations holds always.
LEMMA SchemaInvHolds == Spec => []SchemaInv
<1>1. Init => SchemaInv
  BY DEF Init, MigrationsInit, SchemaInv, Types, SchemaIsPrefix, SeenRecords, RolledBack,
         Gone, RecordsAreTrue, Ended, Files
<1>2. QED
  BY <1>1, SchemaInvIsInductive, PTL DEF Spec

\* However many processes run MigrateUp and MigrateDown at once, and wherever
\* they die, the objects in the database are those of the first files, and all
\* of them are recorded.
THEOREM SchemaIsAlwaysPrefix == Spec => []SchemaIsPrefix
<1>1. SchemaInv => SchemaIsPrefix BY DEF SchemaInv
<1>2. QED BY <1>1, SchemaInvHolds, PTL

\* As long as nobody has run MigrateDown, a MigrateUp that reports success leaves
\* the whole schema, whoever else migrates.
THEOREM SuccessMeansSchema == Spec => []UpMeansSchema
<1>1. SchemaInv => UpMeansSchema
  BY DEF SchemaInv, UpMeansSchema, RecordsAreTrue, SeenRecords, Types
<1>2. QED BY <1>1, SchemaInvHolds, PTL


-----------------------------------------------------------------------------
(***************************************************************************)
(* The checkpoints.  Their totals stay disjoint because the builder takes  *)
(* only deltas that no checkpoint covers, because the watermarks of a      *)
(* total cover all that is in it, and because nobody else writes           *)
(* checkpoints between its read and its write.                             *)
(***************************************************************************)

Times == 0..MaxClock
Pending == IF build.pc = "row" THEN {build.row} ELSE {}

\* The times are within the clock's bound, and every delta has its own ID.
DeltasOK ==
    /\ now \in Times
    /\ IsFiniteSet(writes) /\ IsFiniteSet(deltas)
    /\ \A d \in writes \cup deltas :
          /\ d.valid \in Times /\ d.system \in Times
          /\ d.id \in 1..(Cardinality(writes) + Cardinality(deltas))
    /\ \A w \in writes, d \in deltas : w.id # d.id
    /\ \A w, v \in writes : w.id = v.id => w = v
    /\ \A d, e \in deltas : d.id = e.id => d = e

\* What a row counts are deltas that it covers.
CountedIsCovered(c) ==
    \A i \in c.counted : \E d \in deltas : d.id = i /\ Covers(c, d)

\* The row in the builder's hands counts some deltas, and none that a
\* checkpoint covers.
PendingIsNew ==
    \A r \in Pending :
        /\ CountedIsCovered(r)
        /\ r.counted # {}
        /\ \A d \in deltas : d.id \in r.counted => \A c \in checkpoints : ~Covers(c, d)

\* What a checkpoint covers and did not come late is in a total.
CoveredIsCounted ==
    \A d \in deltas : ~d.late /\ (\E c \in Known : Covers(c, d)) =>
        \E c \in Known : d.id \in c.counted

Disjoint ==
    \A c, e \in checkpoints : c # e =>
        /\ c.counted \cap e.counted = {}
        /\ <<c.valid, c.system>> # <<e.valid, e.system>>

CheckpointInv ==
    /\ build.pc \in {"none", "row"}
    /\ build.pc = "none" => build = NoRow
    /\ DeltasOK
    /\ \A c \in checkpoints : CountedIsCovered(c)
    /\ Disjoint
    /\ PendingIsNew /\ CoveredIsCounted

\* BuildCheckpoints takes the latest of the times of a set of deltas.
LEMMA LatestOfTimes ==
    ASSUME NEW T \in SUBSET Times, T # {}
    PROVE  Latest(T) \in T /\ \A t \in T : t <= Latest(T)
<1> DEFINE U == {u \in Nat : \A t \in T : t <= u}
<1>1. MaxClock \in U /\ U \subseteq Nat
  BY CheckpointsAssumption DEF Times
<1>2. PICK u \in U : \A v \in U : u <= v
  BY <1>1, LeastNumber
<1>3. u \in T
  <2> SUFFICES ASSUME u \notin T PROVE FALSE
    OBVIOUS
  <2>1. PICK t \in T : TRUE
    OBVIOUS
  <2>2. t \in Nat /\ t < u
    BY <1>2, <2>1 DEF Times
  <2>3. u - 1 \in Nat
    BY <1>2, <2>2
  <2>4. \A s \in T : s <= u - 1
    BY <1>2 DEF Times
  <2>5. u - 1 \in U
    BY <2>3, <2>4
  <2> QED
    BY <1>2, <2>5
<1>4. \E t \in T : \A s \in T : s <= t
  BY <1>2, <1>3
<1> QED
  BY <1>4 DEF Latest

\* A step that leaves the deltas and the checkpoints alone.
LEMMA CheckpointsStay ==
    ASSUME CheckpointInv, UNCHANGED <<now, writes, deltas, checkpoints, build>>
    PROVE  CheckpointInv'
BY DEF CheckpointInv, DeltasOK, CountedIsCovered, PendingIsNew, CoveredIsCounted, Disjoint,
       Pending, Known, Covers

\* A transaction takes the time and an ID of its own.
LEMMA BeginKeepsCheckpoints ==
    ASSUME CheckpointInv, NEW valid \in Times, BeginWrite(valid)
    PROVE  CheckpointInv'
<1> DEFINE id == Cardinality(writes) + Cardinality(deltas) + 1
           w == [id |-> id, valid |-> valid, system |-> now]
<1>1. writes' = writes \cup {w} /\ UNCHANGED <<now, deltas, checkpoints, build>>
  BY DEF BeginWrite
<1>2. w.id = id /\ w.valid = valid /\ w.system = now
  OBVIOUS
<1> HIDE DEF w
<1>3. DeltasOK
  BY DEF CheckpointInv
<1>4. Cardinality(writes) \in Nat /\ Cardinality(deltas) \in Nat
  BY <1>3, FS_CardinalityType DEF DeltasOK
<1>5. \A d \in writes \cup deltas : d.id \in Nat /\ d.id < id
  BY <1>3, <1>4 DEF DeltasOK
<1>6. IsFiniteSet(writes') /\ Cardinality(writes') = Cardinality(writes) + 1
  <2>1. w \notin writes
    BY <1>2, <1>4, <1>5
  <2> QED
    BY <1>1, <1>3, <2>1, FS_AddElement DEF DeltasOK
<1>7. DeltasOK'
  <2>1. Cardinality(writes') + Cardinality(deltas') = id
    BY <1>1, <1>4, <1>6
  <2>2. \A d \in writes' \cup deltas' : d.id \in 1..id /\ d.valid \in Times /\ d.system \in Times
    BY <1>1, <1>2, <1>3, <1>4, <1>5 DEF DeltasOK
  <2>3. /\ \A v \in writes', d \in deltas' : v.id # d.id
        /\ \A u, v \in writes' : u.id = v.id => u = v
    BY <1>1, <1>2, <1>3, <1>4, <1>5 DEF DeltasOK
  <2> HIDE DEF id
  <2> QED
    BY <1>1, <1>3, <1>6, <2>1, <2>2, <2>3 DEF DeltasOK
<1> QED
  BY <1>1, <1>7
  DEF CheckpointInv, CountedIsCovered, PendingIsNew, CoveredIsCounted, Disjoint,
      Pending, Known, Covers

\* It commits: what covers its times has counted without it.
LEMMA CommitKeepsCheckpoints ==
    ASSUME CheckpointInv, NEW w, CommitWrite(w)
    PROVE  CheckpointInv'
<1> DEFINE late == \E c \in Known : Covers(c, w)
           d == [id |-> w.id, valid |-> w.valid, system |-> w.system, late |-> late]
<1>1. /\ w \in writes /\ writes' = writes \ {w} /\ deltas' = deltas \cup {d}
      /\ UNCHANGED <<now, checkpoints, build>>
  BY DEF CommitWrite
<1>2. d.id = w.id /\ d.valid = w.valid /\ d.system = w.system /\ (d.late <=> late)
  OBVIOUS
<1> HIDE DEF d
<1>3. DeltasOK
  BY DEF CheckpointInv
<1>4. Cardinality(writes) \in Nat /\ Cardinality(deltas) \in Nat
  BY <1>3, FS_CardinalityType DEF DeltasOK
<1>5. \A e \in deltas : e.id # d.id
  BY <1>1, <1>2, <1>3 DEF DeltasOK
<1>6. DeltasOK'
  <2>1. IsFiniteSet(writes') /\ Cardinality(writes') = Cardinality(writes) - 1
    BY <1>1, <1>3, FS_RemoveElement DEF DeltasOK
  <2>2. IsFiniteSet(deltas') /\ Cardinality(deltas') = Cardinality(deltas) + 1
    <3>1. d \notin deltas
      BY <1>5
    <3> QED
      BY <1>1, <1>3, <3>1, FS_AddElement DEF DeltasOK
  <2>3. Cardinality(writes') + Cardinality(deltas') = Cardinality(writes) + Cardinality(deltas)
    BY <1>4, <2>1, <2>2
  <2>4. \A e \in writes' \cup deltas' :
          /\ e.valid \in Times /\ e.system \in Times
          /\ e.id \in 1..(Cardinality(writes) + Cardinality(deltas))
    BY <1>1, <1>2, <1>3 DEF DeltasOK
  <2>5. /\ \A v \in writes', e \in deltas' : v.id # e.id
        /\ \A u, v \in writes' : u.id = v.id => u = v
        /\ \A e, f \in deltas' : e.id = f.id => e = f
    BY <1>1, <1>2, <1>3, <1>5 DEF DeltasOK
  <2> QED
    BY <1>1, <1>3, <2>1, <2>2, <2>3, <2>4, <2>5 DEF DeltasOK
<1>7. \A c : CountedIsCovered(c) => /\ CountedIsCovered(c)'
                                    /\ d.id \notin c.counted
  BY <1>1, <1>5 DEF CountedIsCovered, Covers
<1>8. Known' = Known /\ Pending' = Pending
  BY <1>1 DEF Known, Pending
<1>9. PendingIsNew'
  BY <1>1, <1>7, <1>8 DEF CheckpointInv, PendingIsNew, Covers
<1>10. CoveredIsCounted'
  <2>1. ASSUME NEW e \in deltas', ~e.late, \E c \in Known : Covers(c, e)
        PROVE  \E c \in Known : e.id \in c.counted
    <3>1. CASE e \in deltas
      BY <2>1, <3>1 DEF CheckpointInv, CoveredIsCounted
    <3>2. CASE e = d
      BY <1>2, <2>1, <3>2 DEF Covers
    <3> QED
      BY <1>1, <3>1, <3>2
  <2> QED
    BY <1>8, <2>1 DEF CoveredIsCounted, Covers
<1> QED
  BY <1>1, <1>6, <1>7, <1>9, <1>10 DEF CheckpointInv, Disjoint

\* The clock.
LEMMA ClockKeepsCheckpoints ==
    ASSUME CheckpointInv, Clock
    PROVE  CheckpointInv'
<1>1. /\ now < MaxClock /\ now' = now + 1
      /\ UNCHANGED <<writes, deltas, checkpoints, build>>
  BY DEF Clock, ClockTicks, migrationVars
<1>2. DeltasOK'
  <2>1. now' \in Times
    BY <1>1, CheckpointsAssumption DEF CheckpointInv, DeltasOK, Times
  <2> QED
    BY <1>1, <2>1 DEF CheckpointInv, DeltasOK
<1> QED
  BY <1>1, <1>2
  DEF CheckpointInv, CountedIsCovered, PendingIsNew, CoveredIsCounted, Disjoint,
      Pending, Known, Covers

\* A row that is given up: no checkpoint relied on it.
LEMMA GivingUpKeepsCheckpoints ==
    ASSUME CheckpointInv, build' = NoRow,
           UNCHANGED <<now, writes, deltas, checkpoints>>
    PROVE  CheckpointInv'
<1>1. build'.pc = "none" /\ Known' = checkpoints /\ Pending' = {}
  BY DEF NoRow, Known, Pending
<1>2. PendingIsNew'
  BY <1>1 DEF PendingIsNew
<1>3. CoveredIsCounted'
  <2>1. ASSUME NEW d \in deltas, ~d.late, NEW c \in checkpoints, Covers(c, d)
        PROVE  \E e \in checkpoints : d.id \in e.counted
    <3>1. PICK e \in Known : d.id \in e.counted
      BY <2>1 DEF CheckpointInv, CoveredIsCounted, Known
    <3>2. e \notin Pending
      BY <2>1, <3>1 DEF CheckpointInv, PendingIsNew
    <3> QED
      BY <3>1, <3>2 DEF Known, Pending
  <2> QED
    BY <1>1, <2>1 DEF CoveredIsCounted, Covers
<1> QED
  BY <1>1, <1>2, <1>3
  DEF CheckpointInv, DeltasOK, CountedIsCovered, Disjoint, Covers

\* The builder reads what no checkpoint covers; the watermarks it takes cover it.
LEMMA ReadKeepsCheckpoints ==
    ASSUME CheckpointInv, RunJob
    PROVE  CheckpointInv'
<1> DEFINE row == [valid |-> Latest({d.valid : d \in Uncovered}),
                   system |-> Latest({d.system : d \in Uncovered}),
                   counted |-> {d.id : d \in Uncovered}]
<1>1. /\ build = NoRow /\ UNCHANGED <<now, writes, deltas, checkpoints>>
      /\ build' = IF Cardinality(Uncovered) > Threshold THEN [pc |-> "row", row |-> row] ELSE NoRow
  BY DEF RunJob, QueryUncheckpointed, migrationVars
<1>2. CASE ~(Cardinality(Uncovered) > Threshold)
  <2>1. build' = NoRow
    BY <1>1, <1>2
  <2> QED
    BY <1>1, <2>1, GivingUpKeepsCheckpoints
<1>3. CASE Cardinality(Uncovered) > Threshold
  <2>1. Uncovered # {}
    <3>1. Cardinality({}) = 0
      BY FS_EmptySet
    <3> QED
      BY <1>3, <3>1, CheckpointsAssumption
  <2>2. /\ row.valid = Latest({d.valid : d \in Uncovered})
        /\ row.system = Latest({d.system : d \in Uncovered})
        /\ row.counted = {d.id : d \in Uncovered}
    OBVIOUS
  <2>3. build'.pc = "row" /\ build'.row = row
    BY <1>1, <1>3
  <2> HIDE DEF row
  <2>4. Uncovered \subseteq deltas /\ \A d \in Uncovered : \A c \in checkpoints : ~Covers(c, d)
    BY DEF Uncovered
  <2>5. \A d \in deltas : d.valid \in Times /\ d.system \in Times
    BY DEF CheckpointInv, DeltasOK
  <2>6. \A d \in Uncovered : d.valid <= row.valid
    <3> DEFINE T == {d.valid : d \in Uncovered}
    <3>1. T \in SUBSET Times /\ T # {}
      BY <2>1, <2>4, <2>5
    <3>2. \A t \in T : t <= Latest(T)
      BY <3>1, LatestOfTimes
    <3> QED
      BY <2>2, <3>2
  <2>7. \A d \in Uncovered : d.system <= row.system
    <3> DEFINE T == {d.system : d \in Uncovered}
    <3>1. T \in SUBSET Times /\ T # {}
      BY <2>1, <2>4, <2>5
    <3>2. \A t \in T : t <= Latest(T)
      BY <3>1, LatestOfTimes
    <3> QED
      BY <2>2, <3>2
  <2>8. \A d \in Uncovered : Covers(row, d)
    BY <2>6, <2>7 DEF Covers
  <2>9. Pending' = {row} /\ Known' = checkpoints \cup {row} /\ Known = checkpoints
    BY <1>1, <2>3 DEF Pending, Known, NoRow
  <2>10. PendingIsNew'
    <3>1. CountedIsCovered(row)
      BY <2>2, <2>4, <2>8 DEF CountedIsCovered
    <3>2. row.counted # {}
      BY <2>1, <2>2
    <3>3. ASSUME NEW d \in deltas, d.id \in row.counted, NEW c \in checkpoints
          PROVE  ~Covers(c, d)
      <4>1. PICK e \in Uncovered : e.id = d.id
        BY <2>2, <3>3
      <4>2. e = d
        BY <2>4, <4>1 DEF CheckpointInv, DeltasOK
      <4> QED
        BY <2>4, <4>2
    <3> QED
      BY <1>1, <2>9, <3>1, <3>2, <3>3 DEF PendingIsNew, CountedIsCovered, Covers
  <2>11. CoveredIsCounted'
    <3>1. ASSUME NEW d \in deltas, ~d.late, \E c \in checkpoints \cup {row} : Covers(c, d)
          PROVE  \E c \in checkpoints \cup {row} : d.id \in c.counted
      <4>1. CASE \E c \in checkpoints : Covers(c, d)
        BY <1>1, <2>9, <3>1, <4>1 DEF CheckpointInv, CoveredIsCounted
      <4>2. CASE ~\E c \in checkpoints : Covers(c, d)
        BY <2>2, <4>2 DEF Uncovered
      <4> QED
        BY <4>1, <4>2
    <3> QED
      BY <1>1, <2>9, <3>1 DEF CoveredIsCounted, Covers
  <2>12. DeltasOK' /\ Disjoint' /\ (\A c \in checkpoints : CountedIsCovered(c))'
    BY <1>1 DEF CheckpointInv, DeltasOK, Disjoint, CountedIsCovered, Covers
  <2> QED
    BY <2>3, <2>10, <2>11, <2>12 DEF CheckpointInv
<1> QED
  BY <1>2, <1>3

\* It writes: nothing has taken the row's watermarks or what it counts since.
LEMMA StoreKeepsCheckpoints ==
    ASSUME CheckpointInv, StoreCheckpoint
    PROVE  CheckpointInv'
<1> DEFINE row == build.row
<1>1. /\ build # NoRow /\ build' = NoRow
      /\ UNCHANGED <<now, writes, deltas>>
      /\ checkpoints' = {c \in checkpoints : <<c.valid, c.system>> # <<row.valid, row.system>>} \cup {row}
  BY DEF StoreCheckpoint, WriteCheckpoint, migrationVars
<1>2. build.pc = "row" /\ Pending = {row} /\ Known = checkpoints \cup {row}
  BY <1>1 DEF CheckpointInv, Pending, Known
<1> HIDE DEF row
<1>3. /\ CountedIsCovered(row) /\ row.counted # {}
      /\ \A d \in deltas : d.id \in row.counted => \A c \in checkpoints : ~Covers(c, d)
  BY <1>1, <1>2 DEF CheckpointInv, PendingIsNew
<1>4. \A c \in checkpoints : <<c.valid, c.system>> # <<row.valid, row.system>>
  <2>1. PICK i : i \in row.counted
    BY <1>3
  <2>2. PICK d \in deltas : d.id = i /\ Covers(row, d)
    BY <1>3, <2>1 DEF CountedIsCovered
  <2>3. \A c \in checkpoints : ~Covers(c, d)
    BY <1>3, <2>1, <2>2
  <2> QED
    BY <2>2, <2>3 DEF Covers
<1>5. checkpoints' = checkpoints \cup {row}
  BY <1>1, <1>4
<1>6. build'.pc = "none" /\ Pending' = {} /\ Known' = Known
  BY <1>1, <1>2, <1>5 DEF NoRow, Pending, Known
<1>7. \A c \in checkpoints : c.counted \cap row.counted = {}
  <2> SUFFICES ASSUME NEW c \in checkpoints, NEW i \in c.counted, i \in row.counted
               PROVE  FALSE
    OBVIOUS
  <2>1. PICK d \in deltas : d.id = i /\ Covers(c, d)
    BY DEF CheckpointInv, CountedIsCovered
  <2> QED
    BY <1>3, <2>1
<1>8. Disjoint'
  <2>1. ASSUME NEW c \in checkpoints', NEW e \in checkpoints', c # e
        PROVE  c.counted \cap e.counted = {} /\ <<c.valid, c.system>> # <<e.valid, e.system>>
    <3>1. CASE c \in checkpoints /\ e \in checkpoints
      BY <2>1, <3>1 DEF CheckpointInv, Disjoint
    <3>2. CASE c \in checkpoints /\ e = row
      BY <1>4, <1>7, <3>2
    <3>3. CASE c = row /\ e \in checkpoints
      BY <1>4, <1>7, <3>3
    <3> QED
      BY <1>5, <2>1, <3>1, <3>2, <3>3
  <2> QED
    BY <2>1 DEF Disjoint
<1>9. (\A c \in checkpoints : CountedIsCovered(c))'
  BY <1>1, <1>3, <1>5 DEF CheckpointInv, CountedIsCovered, Covers
<1>10. PendingIsNew' /\ CoveredIsCounted'
  BY <1>1, <1>6 DEF CheckpointInv, PendingIsNew, CoveredIsCounted, Covers
<1> QED
  BY <1>1, <1>6, <1>8, <1>9, <1>10 DEF CheckpointInv, DeltasOK, Tables

\* The invariant of the checkpoints holds at the start.
LEMMA CheckpointInvInit == Init => CheckpointInv
<1> SUFFICES ASSUME Init PROVE CheckpointInv
  OBVIOUS
<1>1. now = 0 /\ writes = {} /\ deltas = {} /\ checkpoints = {} /\ build = NoRow
  BY DEF Init, CheckpointsInit
<1>2. IsFiniteSet({})
  BY FS_EmptySet
<1>3. DeltasOK
  BY <1>1, <1>2, CheckpointsAssumption DEF DeltasOK, Times
<1> QED
  BY <1>1, <1>3
  DEF CheckpointInv, PendingIsNew, CoveredIsCounted, Disjoint, Pending, NoRow

\* Every step keeps the invariant of the checkpoints.
LEMMA CheckpointInvStep ==
    ASSUME CheckpointInv, [Next]_vars
    PROVE  CheckpointInv'
<1>1. CASE Clock
  BY <1>1, ClockKeepsCheckpoints
<1>2. CASE Write
  <2>1. CASE \E valid \in 0..MaxClock : BeginWrite(valid)
    BY <2>1, BeginKeepsCheckpoints DEF Times
  <2>2. CASE \E w \in writes : CommitWrite(w)
    BY <2>2, CommitKeepsCheckpoints
  <2> QED
    BY <1>2, <2>1, <2>2 DEF Write
<1>3. CASE Migrate \/ CreateLedger \/ Ticker \/ ContextEnds \/ Shutdown \/ UNCHANGED vars
  <2>1. UNCHANGED <<now, writes, deltas, checkpoints, build>>
    BY <1>3 DEF Migrate, CreateLedger, Ticker, ContextEnds, Shutdown, vars, migrationVars, checkpointVars
  <2> QED
    BY <2>1, CheckpointsStay
<1>4. CASE RunJob
  BY <1>4, ReadKeepsCheckpoints
<1>5. CASE StoreCheckpoint
  BY <1>5, StoreKeepsCheckpoints
<1>6. CASE JobFails \/ ShutdownTimesOut
  <2>1. build' = NoRow /\ UNCHANGED <<now, writes, deltas, checkpoints>>
    BY <1>6 DEF JobFails, ShutdownTimesOut, migrationVars
  <2> QED
    BY <2>1, GivingUpKeepsCheckpoints
<1> QED
  BY <1>1, <1>2, <1>3, <1>4, <1>5, <1>6 DEF Next

\* CheckpointInvariance: the invariant of the builder holds beside migrations,
\* writers and a worker that fails or stops at any point.
THEOREM CheckpointInvariance == Spec => []CheckpointInv
<1>1. Init => CheckpointInv
  BY CheckpointInvInit
<1>2. CheckpointInv /\ [Next]_vars => CheckpointInv'
  BY CheckpointInvStep
<1> QED
  BY <1>1, <1>2, PTL DEF Spec

\* CheckpointsAddUp: with one builder every delta that a checkpoint covers is in
\* exactly one total, and in none only if its times were within the watermarks
\* of a checkpoint made before it committed; writing a checkpoint never replaces
\* another (BuildCheckpoints and its join).  So the totals of an account add up
\* to what was committed in time.
CheckpointsAddUp ==
    /\ \A c, e \in checkpoints : c # e =>
          /\ c.counted \cap e.counted = {}
          /\ <<c.valid, c.system>> # <<e.valid, e.system>>
    /\ \A d \in deltas : ~d.late /\ (\E c \in checkpoints : Covers(c, d)) =>
          \E c \in checkpoints : d.id \in c.counted

\* TotalsAddUp: every delta a checkpoint covers is in exactly one total, or came
\* late; no checkpoint replaces another (BuildCheckpoints with one builder).
THEOREM TotalsAddUp == Spec => []CheckpointsAddUp
<1>1. CheckpointInv => CheckpointsAddUp
  <2> SUFFICES ASSUME CheckpointInv PROVE CheckpointsAddUp
    OBVIOUS
  <2>1. ASSUME NEW d \in deltas, ~d.late, NEW c \in checkpoints, Covers(c, d)
        PROVE  \E e \in checkpoints : d.id \in e.counted
    <3>1. PICK e \in Known : d.id \in e.counted
      BY <2>1 DEF CheckpointInv, CoveredIsCounted, Known
    <3>2. e \notin Pending
      BY <2>1, <3>1 DEF CheckpointInv, PendingIsNew
    <3> QED
      BY <3>1, <3>2 DEF Known, Pending
  <2> QED
    BY <2>1 DEF CheckpointsAddUp, CheckpointInv, Disjoint
<1> QED
  BY <1>1, CheckpointInvariance, PTL

-----------------------------------------------------------------------------
(***************************************************************************)
(* Approvals: an intent is executed at most once, after all required       *)
(* approvals, and "executed" is never written without a committed event.   *)
(***************************************************************************)

(***************************************************************************)
(* The invariant holds before the intent is submitted.                     *)
(***************************************************************************)
LEMMA ApprovalsInitInv == ApprovalsInit => ApprovalInv
  <1> SUFFICES ASSUME ApprovalsInit PROVE ApprovalInv
    OBVIOUS
  <1> DEFINE zero == 0
  <1>1. zero \in 0..MaxAuditRetries /\ Submitter \in Principals
    BY ApprovalsAssumption
  <1>2. caller = [c \in Callers |-> [pc |-> "idle", who |-> Submitter, try |-> zero]]
    BY DEF ApprovalsInit, IdleCaller
  <1> HIDE DEF zero
  <1>3. caller \in [Callers -> [pc: {"idle", "begin", "add", "execute", "reject", "audit",
                                   "finish"},
                              who: Principals, try: 0..MaxAuditRetries]]
    BY <1>1, <1>2
  <1>4. ApprovalsTypeOK
    BY <1>3, ApprovalsAssumption DEF ApprovalsInit, ApprovalsTypeOK, State, Terminal, IdleSweeper
  <1> QED
    BY <1>4, ApprovalsAssumption
    DEF ApprovalsInit, ApprovalInv, LockedWhileAdding, OneExecution, Begun, EventSeen, ExecutedIsReal,
        AuditedAtMostOnce, IdleCaller, IdleSweeper, Terminal

(***************************************************************************)
(* The steps of Approve preserve it.                                       *)
(***************************************************************************)
LEMMA CallerInv ==
  ASSUME ApprovalInv, NEW c \in Callers, CallerStep(c) \/ Crash(c)
  PROVE  ApprovalInv'
  <1> USE ApprovalsAssumption
      DEF ApprovalInv, IdleCaller, IdleSweeper, rowVars, logVars
  <1>1. CASE LockApproval(c)
    <2>1. ApprovalsTypeOK'
      BY <1>1 DEF LockApproval, ApprovalsTypeOK, State, Terminal
    <2>2. LockedWhileAdding'
      BY <1>1 DEF LockApproval, ApprovalsTypeOK, LockedWhileAdding, RowIsFree, MayApprove
    <2>3. OneExecution'
      BY <1>1 DEF LockApproval, ApprovalsTypeOK, OneExecution, Begun, RowIsFree
    <2>4. EventSeen'
      BY <1>1 DEF LockApproval, ApprovalsTypeOK, EventSeen, ExecutedIsReal, AuditedAtMostOnce
    <2> QED
      BY <1>1, <2>1, <2>2, <2>3, <2>4 DEF LockApproval
  <1>2. CASE AddApproval(c)
    <2>1. ApprovalsTypeOK'
      <3>1. stuck' \in BOOLEAN
        BY <1>2, Zenon DEF AddApproval, ApprovalsTypeOK
      <3>2. caller[c].who \in Principals
        BY DEF ApprovalsTypeOK
      <3>3. CASE Required \subseteq received'
        BY <1>2, <3>1, <3>2, <3>3 DEF AddApproval, ApprovalsTypeOK, State, Terminal
      <3>4. CASE ~(Required \subseteq received')
        BY <1>2, <3>1, <3>2, <3>4 DEF AddApproval, ApprovalsTypeOK
      <3> QED
        BY <3>3, <3>4
    <2>2. LockedWhileAdding'
      BY <1>2 DEF AddApproval, ApprovalsTypeOK, LockedWhileAdding
    <2>3. OneExecution'
      BY <1>2 DEF AddApproval, ApprovalsTypeOK, OneExecution, Begun, LockedWhileAdding
    <2>4. EventSeen'
      BY <1>2 DEF AddApproval, ApprovalsTypeOK, EventSeen, ExecutedIsReal, AuditedAtMostOnce
    <2> QED
      BY <1>2, <2>1, <2>2, <2>3, <2>4 DEF AddApproval, LockedWhileAdding
  <1>3. CASE ExecuteIntent(c)
    <2>1. ApprovalsTypeOK'
      BY <1>3 DEF ExecuteIntent, ApprovalsTypeOK
    <2>2. LockedWhileAdding'
      BY <1>3 DEF ExecuteIntent, ApprovalsTypeOK, LockedWhileAdding
    <2>3. OneExecution'
      BY <1>3 DEF ExecuteIntent, ApprovalsTypeOK, OneExecution, Begun
    <2>4. EventSeen'
      BY <1>3 DEF ExecuteIntent, ApprovalsTypeOK, EventSeen, ExecutedIsReal, AuditedAtMostOnce
    <2> QED
      BY <1>3, <2>1, <2>2, <2>3, <2>4 DEF ExecuteIntent
  <1>4. CASE Reject(c) \/ Finish(c)
    <2>1. ApprovalsTypeOK'
      BY <1>4 DEF Reject, Finish, ApprovalsTypeOK, State, Terminal
    <2>2. LockedWhileAdding'
      BY <1>4 DEF Reject, Finish, ApprovalsTypeOK, LockedWhileAdding, RowIsFree
    <2>3. OneExecution'
      BY <1>4 DEF Reject, Finish, ApprovalsTypeOK, OneExecution, Begun
    <2>4. EventSeen'
      BY <1>4 DEF Reject, Finish, ApprovalsTypeOK, EventSeen, ExecutedIsReal, AuditedAtMostOnce
    <2> QED
      BY <1>4, <2>1, <2>2, <2>3, <2>4 DEF Reject, Finish
  <1>5. CASE RecordAuditEvent(c)
    <2>1. audits' \in Nat /\ caller' \in [Callers -> [pc: {"idle", "begin", "add", "execute",
                                                      "reject", "audit", "finish"},
                                                 who: Principals, try: 0..MaxAuditRetries]]
      BY <1>5 DEF RecordAuditEvent, AuditCommits, ApprovalsTypeOK
    <2>2. ApprovalsTypeOK'
      BY <1>5, <2>1 DEF RecordAuditEvent, ApprovalsTypeOK
    <2>3. LockedWhileAdding'
      BY <1>5 DEF RecordAuditEvent, ApprovalsTypeOK, LockedWhileAdding
    <2>4. OneExecution'
      BY <1>5 DEF RecordAuditEvent, ApprovalsTypeOK, OneExecution, Begun
    <2>5. EventSeen'
      BY <1>5 DEF RecordAuditEvent, AuditCommits, ApprovalsTypeOK, EventSeen, ExecutedIsReal,
                  AuditedAtMostOnce
    <2> QED
      BY <1>5, <2>2, <2>3, <2>4, <2>5 DEF RecordAuditEvent
  <1>6. CASE Crash(c)
    <2>1. ApprovalsTypeOK'
      BY <1>6 DEF Crash, ApprovalsTypeOK
    <2>2. LockedWhileAdding'
      BY <1>6 DEF Crash, ApprovalsTypeOK, LockedWhileAdding
    <2>3. OneExecution'
      BY <1>6 DEF Crash, ApprovalsTypeOK, OneExecution, Begun
    <2>4. EventSeen'
      BY <1>6 DEF Crash, ApprovalsTypeOK, EventSeen, ExecutedIsReal, AuditedAtMostOnce
    <2> QED
      BY <1>6, <2>1, <2>2, <2>3, <2>4 DEF Crash
  <1> QED
    BY <1>1, <1>2, <1>3, <1>4, <1>5, <1>6 DEF CallerStep

(***************************************************************************)
(* So do the steps of the sweep: "executed" is written for an event only.  *)
(***************************************************************************)
LEMMA SweeperInv ==
  ASSUME ApprovalInv, NEW s \in Sweepers, SweepStep(s) \/ SweepFails(s)
  PROVE  ApprovalInv'
  <1> USE DEF ApprovalInv, IdleSweeper, rowVars, logVars
  <1>1. CASE ListExpiredApprovals(s) \/ ListStuckApprovals(s) \/ LookupExecution(s)
             \/ SweepFails(s)
    <2>1. ApprovalsTypeOK'
      BY <1>1 DEF ListExpiredApprovals, ListStuckApprovals, LookupExecution, SweepFails, ApprovalsTypeOK
    <2>2. EventSeen'
      BY <1>1 DEF ListExpiredApprovals, ListStuckApprovals, LookupExecution, SweepFails,
                  ApprovalsTypeOK, EventSeen, ExecutedIsReal, AuditedAtMostOnce
    <2> QED
      BY <1>1, <2>1, <2>2
      DEF ListExpiredApprovals, ListStuckApprovals, LookupExecution, SweepFails,
          LockedWhileAdding, OneExecution, Begun
  <1>2. CASE ExpireListed(s) \/ ResolveStuck(s)
    <2>1. ApprovalsTypeOK'
      BY <1>2 DEF ExpireListed, ResolveStuck, ApprovalsTypeOK, State, Terminal
    <2>2. LockedWhileAdding'
      BY <1>2, ApprovalsAssumption DEF ExpireListed, ResolveStuck, ApprovalsTypeOK, LockedWhileAdding
    <2>3. OneExecution'
      BY <1>2 DEF ExpireListed, ResolveStuck, ApprovalsTypeOK, OneExecution, Begun
    <2>4. EventSeen'
      BY <1>2 DEF ExpireListed, ResolveStuck, ApprovalsTypeOK, EventSeen, ExecutedIsReal, AuditedAtMostOnce
    <2> QED
      BY <1>2, <2>1, <2>2, <2>3, <2>4 DEF ExpireListed, ResolveStuck
  <1> QED
    BY <1>1, <1>2 DEF SweepStep

(***************************************************************************)
(* And so does everything else that may happen.                            *)
(***************************************************************************)
LEMMA ApprovalsNextInv == ApprovalInv /\ [ApprovalsNext]_approvalVars => ApprovalInv'
  <1> SUFFICES ASSUME ApprovalInv, [ApprovalsNext]_approvalVars PROVE ApprovalInv'
    OBVIOUS
  <1> USE DEF ApprovalInv, rowVars, logVars
  <1>1. CASE SubmitForApproval
    <2>1. ApprovalsTypeOK'
      BY <1>1 DEF SubmitForApproval, ApprovalsTypeOK, State, Terminal
    <2> QED
      BY <1>1, <2>1 DEF SubmitForApproval, LockedWhileAdding, OneExecution, Begun, EventSeen,
                        ExecutedIsReal, AuditedAtMostOnce
  <1>2. CASE \E c \in Callers, p \in Principals : Approve(c, p)
    <2> PICK c \in Callers, p \in Principals : Approve(c, p)
      BY <1>2
    <2> DEFINE zero == 0
    <2>1. zero \in 0..MaxAuditRetries
      BY ApprovalsAssumption
    <2>2. caller' = [caller EXCEPT ![c] = [pc |-> "begin", who |-> p, try |-> zero]]
      BY DEF Approve
    <2> HIDE DEF zero
    <2>3. caller' \in [Callers -> [pc: {"idle", "begin", "add", "execute", "reject", "audit",
                                       "finish"},
                                  who: Principals, try: 0..MaxAuditRetries]]
      BY <2>1, <2>2 DEF ApprovalsTypeOK
    <2>4. ApprovalsTypeOK'
      BY <2>3 DEF Approve, ApprovalsTypeOK
    <2>5. LockedWhileAdding' /\ OneExecution' /\ EventSeen'
      BY <2>2 DEF Approve, ApprovalsTypeOK, LockedWhileAdding, OneExecution, Begun, EventSeen,
                  ExecutedIsReal, AuditedAtMostOnce
    <2> QED
      BY <2>4, <2>5 DEF Approve
  <1>3. CASE DeadlinePasses \/ ThresholdPasses \/ UNCHANGED approvalVars
    <2>1. ApprovalsTypeOK'
      BY <1>3 DEF DeadlinePasses, ThresholdPasses, approvalVars, ApprovalsTypeOK
    <2> QED
      BY <1>3, <2>1 DEF DeadlinePasses, ThresholdPasses, approvalVars, LockedWhileAdding, OneExecution,
                        Begun, EventSeen, ExecutedIsReal, AuditedAtMostOnce
  <1> QED
    BY <1>1, <1>2, <1>3, CallerInv, SweeperInv DEF ApprovalsNext

(***************************************************************************)
(* The inductive invariant holds in every state.                           *)
(***************************************************************************)
THEOREM ApprovalInvariance == ApprovalsSpec => []ApprovalInv
  BY ApprovalsInitInv, ApprovalsNextInv, PTL DEF ApprovalsSpec

(***************************************************************************)
(* An intent is executed at most once, by Approve's row lock alone: the    *)
(* recovery sweep never starts an execution and never reopens an approval. *)
(***************************************************************************)
THEOREM ExecutionIsUnique == ApprovalsSpec => []ExecutedAtMostOnce
  <1>1. ApprovalInv => ExecutedAtMostOnce
    BY DEF ApprovalInv, OneExecution, ExecutedAtMostOnce
  <1> QED
    BY <1>1, ApprovalInvariance, PTL

(***************************************************************************)
(* An intent is executed only after every required principal, and not the  *)
(* submitter, has approved it.                                             *)
(***************************************************************************)
THEOREM ExecutionIsApproved == ApprovalsSpec => []FourEyes
  <1>1. ApprovalInv => FourEyes
    BY DEF ApprovalInv, OneExecution, Begun, FourEyes
  <1> QED
    BY <1>1, ApprovalInvariance, PTL

(***************************************************************************)
(* The state "executed" tells the truth, whoever wrote it.                 *)
(***************************************************************************)
THEOREM ExecutedTellsTheTruth == ApprovalsSpec => []ExecutedIsReal
  <1>1. ApprovalInv => ExecutedIsReal
    BY DEF ApprovalInv, EventSeen
  <1> QED
    BY <1>1, ApprovalInvariance, PTL

(***************************************************************************)
(* The audit trail names an execution at most once, and none that did not  *)
(* happen.                                                                 *)
(***************************************************************************)
THEOREM AuditTrailIsExact == ApprovalsSpec => []AuditedAtMostOnce
  <1>1. ApprovalInv => AuditedAtMostOnce
    BY DEF ApprovalInv, EventSeen
  <1> QED
    BY <1>1, ApprovalInvariance, PTL

=============================================================================
