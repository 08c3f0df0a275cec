---------------------------- MODULE Checkpoints ----------------------------
(***************************************************************************)
(* Volume checkpoints (internal/projection/volumes): the deltas of one     *)
(* account and asset, written by transactions that take their system_time  *)
(* first and commit later, and a builder that reads those no checkpoint    *)
(* covers and then writes their total with a watermark in each time.       *)
(*                                                                         *)
(* A checkpoint is its watermarks and the set of the deltas in its total.  *)
(***************************************************************************)
EXTENDS Integers, FiniteSets

CONSTANTS
    Threshold,  \* a checkpoint takes more deltas than this
    MaxDeltas,  \* bound on the deltas
    MaxClock    \* bound on the clock

ASSUME CheckpointsAssumption == {Threshold, MaxDeltas, MaxClock} \subseteq Nat

VARIABLES
    now,            \* the clock
    writes,         \* deltas of open transactions
    deltas,         \* volumes_delta
    checkpoints,    \* volumes_checkpoint
    build           \* the builder: the row it has read, if any

checkpointVars == <<now, writes, deltas, checkpoints, build>>

NoRow == [pc |-> "none"]

-----------------------------------------------------------------------------

Covers(c, d) == d.valid <= c.valid /\ d.system <= c.system

Uncovered == {d \in deltas : \A c \in checkpoints : ~Covers(c, d)}

Latest(T) == CHOOSE t \in T : \A u \in T : u <= t

\* What the builder knows or has stored.
Known == checkpoints \cup (IF build.pc = "row" THEN {build.row} ELSE {})

ClockTicks ==
    /\ now < MaxClock
    /\ now' = now + 1
    /\ UNCHANGED <<writes, deltas, checkpoints, build>>

\* A transaction takes the time; its valid time is what the client says.
BeginWrite(valid) ==
    /\ Cardinality(writes) + Cardinality(deltas) < MaxDeltas
    /\ LET id == Cardinality(writes) + Cardinality(deltas) + 1
       IN  writes' = writes \cup {[id |-> id, valid |-> valid, system |-> now]}
    /\ UNCHANGED <<now, deltas, checkpoints, build>>

\* It commits: `late' notes that a total was already made for its time.
CommitWrite(w) ==
    /\ w \in writes
    /\ writes' = writes \ {w}
    /\ deltas' = deltas \cup {[id |-> w.id, valid |-> w.valid, system |-> w.system,
                               late |-> \E c \in Known : Covers(c, w)]}
    /\ UNCHANGED <<now, checkpoints, build>>

\* The query of BuildCheckpoints.
QueryUncheckpointed ==
    build' = IF Cardinality(Uncovered) > Threshold
             THEN [pc |-> "row", row |-> [valid |-> Latest({d.valid : d \in Uncovered}),
                                          system |-> Latest({d.system : d \in Uncovered}),
                                          counted |-> {d.id : d \in Uncovered}]]
             ELSE NoRow

\* INSERT ... ON CONFLICT DO UPDATE: a checkpoint with the same watermarks is
\* replaced.
WriteCheckpoint ==
    checkpoints' = {c \in checkpoints : <<c.valid, c.system>> # <<build.row.valid, build.row.system>>}
                       \cup {build.row}

CheckpointsInit ==
    /\ now = 0
    /\ writes = {} /\ deltas = {} /\ checkpoints = {}
    /\ build = NoRow

(***************************************************************************)
(* Properties                                                              *)
(***************************************************************************)

\* RunningTotals: a checkpoint "stores the running total up to a watermark": it
\* counts every delta within its watermarks (BuildCheckpoints).  The code does
\* not keep it: a checkpoint counts what no earlier one covers, and a delta
\* that commits after a checkpoint of its time is in none.
RunningTotals == \A c \in checkpoints, d \in deltas : Covers(c, d) => d.id \in c.counted

=============================================================================
