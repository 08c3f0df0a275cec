------------------------------- MODULE Worker -------------------------------
(***************************************************************************)
(* The worker process (cmd/worker).  Each of its four jobs has a goroutine *)
(* that waits for its ticker, runs the job and, after failures, lets ticks *)
(* go by; the shutdown waits for them or for 30 seconds.  The goroutines   *)
(* share nothing but the shutdown, and one of them is modelled.            *)
(***************************************************************************)
EXTENDS Integers

CONSTANT MaxConsecutiveFailures     \* maxConsecutiveFailures

ASSUME WorkerAssumption == MaxConsecutiveFailures \in Nat \ {0}

VARIABLES
    job,        \* the goroutine of the job
    worker      \* the process: "up", "stopping", "stopped" or "timed out"

workerVars == <<job, worker>>

\* A count beyond the maximum has the same effect as the maximum.
Count(failures) == IF failures > MaxConsecutiveFailures THEN MaxConsecutiveFailures ELSE failures

\* The ticker fires: the job is started, even if the context has ended as well,
\* since select takes either.
StartJob ==
    /\ job.pc = "waiting"
    /\ job' = [job EXCEPT !.pc = "running"]
    /\ UNCHANGED worker

\* After n failures, n - 1 ticks go by.
AfterFailure ==
    LET n == Count(job.failures + 1)
    IN  [pc |-> IF n > 1 THEN "backoff" ELSE "waiting", failures |-> n, skip |-> n - 1]

AfterSuccess == [pc |-> "waiting", failures |-> 0, skip |-> 0]

\* The job returns, by itself or because its five minutes are over.
JobEnds(ok) ==
    /\ job.pc = "running"
    /\ job' = IF ok THEN AfterSuccess ELSE AfterFailure
    /\ UNCHANGED worker

\* Mutant: a tick that goes by begins the backoff again.
NeverSkipped ==
    /\ job.pc = "backoff"
    /\ UNCHANGED workerVars

SkipTick ==
    /\ job.pc = "backoff"
    /\ job' = [job EXCEPT !.skip = @ - 1, !.pc = IF job.skip = 1 THEN "waiting" ELSE "backoff"]
    /\ UNCHANGED worker

Returned == [pc |-> "ended", failures |-> 0, skip |-> 0]

\* ctx.Done in either select.
ContextDone ==
    /\ worker = "stopping"
    /\ job.pc \in {"waiting", "backoff"}
    /\ job' = Returned
    /\ UNCHANGED worker

-----------------------------------------------------------------------------

OnStop ==
    /\ worker = "up"
    /\ worker' = "stopping"
    /\ UNCHANGED job

\* wg.Wait returns.
StoppedCleanly ==
    /\ worker = "stopping"
    /\ job.pc = "ended"
    /\ worker' = "stopped"
    /\ UNCHANGED job

\* The 30 seconds are over while a job runs: the process ends with it.
StopTimesOut ==
    /\ worker = "stopping"
    /\ job.pc = "running"
    /\ worker' = "timed out"
    /\ job' = Returned

WorkerInit ==
    /\ job = AfterSuccess
    /\ worker = "up"

WorkerTypeOK ==
    /\ job \in [pc : {"waiting", "running", "backoff", "ended"},
                failures : 0..MaxConsecutiveFailures, skip : 0..MaxConsecutiveFailures - 1]
    /\ job.pc = "backoff" => job.skip > 0
    /\ worker \in {"up", "stopping", "stopped", "timed out"}

=============================================================================
