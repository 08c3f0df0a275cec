\* One migrator that makes the tables, and two deltas.
SPECIFICATION Spec
CONSTANTS
    m1 = m1
    Migrators = {m1}
    MaxRuns = 1
    Threshold = 0
    MaxDeltas = 2
    MaxClock = 1
    MaxConsecutiveFailures = 2
INVARIANT RunningTotals
CHECK_DEADLOCK FALSE
