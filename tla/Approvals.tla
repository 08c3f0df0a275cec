------------------------------ MODULE Approvals ------------------------------
(***************************************************************************)
(* The life of one pending approval: an intent is submitted, the required  *)
(* principals approve it through Planner.Approve, the last approval        *)
(* executes it, and the worker's sweep (ExpireStaleApprovals) expires      *)
(* overdue approvals and recovers executions that got stuck.  Approvals    *)
(* share nothing with each other, so one is enough.                        *)
(*                                                                         *)
(* The execution itself is a submit under a key of its own: WritePath      *)
(* shows that it commits at most one event.  Clocks are abstracted to two  *)
(* facts: the deadline has passed, and the execution has been under way    *)
(* for longer than the threshold.                                          *)
(***************************************************************************)
EXTENDS Naturals, FiniteSets

CONSTANTS
    Callers,      \* goroutines serving ApproveIntent
    Sweepers,     \* worker processes running the approval sweep
    NoCaller,     \* the row of the approval is not locked
    Principals,   \* who may call
    Required,     \* required_approvers
    Submitter,    \* submitted_by
    MaxAuditRetries   \* maxAuditRetries of operations_approval.go

ASSUME ApprovalsAssumption ==
    /\ NoCaller \notin Callers
    /\ Required \subseteq Principals
    /\ Submitter \in Principals
    /\ MaxAuditRetries \in Nat

\* "none": not submitted yet.
Terminal == {"executed", "rejected", "expired"}

State == {"none", "pending", "executing"} \cup Terminal

VARIABLES
    state,        \* pending_approvals.state
    received,     \* the principals of received_approvals
    overdue,      \* expires_at has passed
    stuck,        \* executing_at is older than the threshold
    rowLock,      \* the caller whose transaction locks the row
    events,       \* committed events under the execution key
    executions,   \* history: how often the intent has been executed
    audits,       \* committed APPROVAL_RECORDED events
    caller,       \* what each caller of Approve is doing, and for whom
    sweeper       \* what each sweep is doing, and the state it will write

rowVars == <<state, received, overdue, stuck>>
logVars == <<events, executions, audits>>
approvalVars == <<state, received, overdue, stuck, rowLock, events, executions, audits, caller, sweeper>>

-----------------------------------------------------------------------------
IdleCaller == [pc |-> "idle", who |-> Submitter, try |-> 0]

IdleSweeper == [pc |-> "idle", next |-> "expired"]

(***************************************************************************)
(* SubmitForApproval inserts the row.                                      *)
(***************************************************************************)
SubmitForApproval ==
    /\ state = "none"
    /\ state' = "pending"
    /\ UNCHANGED <<received, overdue, stuck, rowLock, logVars, caller, sweeper>>

\* Approve is called and begins its transaction.
Approve(c, p) ==
    /\ caller[c].pc = "idle"
    /\ state # "none"
    /\ caller' = [caller EXCEPT ![c] = [pc |-> "begin", who |-> p, try |-> 0]]
    /\ UNCHANGED <<rowVars, rowLock, logVars, sweeper>>

\* Mutant: GetPendingApproval without FOR UPDATE.
RowIsNeverWaitedFor(c) == TRUE

\* Statements that lock or update the row wait for the transaction that locks it.
RowIsFree(c) == rowLock \in {NoCaller, c}

\* Mutant: nobody checks who the approver is.
AnyoneMayApprove(p) == p \notin received

\* Who may add an approval.
MayApprove(p) == p # Submitter /\ p \in Required /\ p \notin received

(***************************************************************************)
(* GetPendingApproval FOR UPDATE and the checks.  A deadline that is found *)
(* to have passed is recorded and committed at once; any other refusal     *)
(* rolls back.                                                             *)
(***************************************************************************)
LockApproval(c) ==
    /\ caller[c].pc = "begin"
    /\ RowIsFree(c)
    /\ \/ /\ state = "pending" /\ ~overdue /\ MayApprove(caller[c].who)
          /\ rowLock' = c
          /\ caller' = [caller EXCEPT ![c].pc = "add"]
          /\ UNCHANGED state
       \/ /\ state = "pending" /\ overdue
          /\ state' = "expired"
          /\ caller' = [caller EXCEPT ![c] = IdleCaller]
          /\ UNCHANGED rowLock
       \/ /\ state # "pending" \/ (~overdue /\ ~MayApprove(caller[c].who))
          /\ caller' = [caller EXCEPT ![c] = IdleCaller]
          /\ UNCHANGED <<state, rowLock>>
    /\ UNCHANGED <<received, overdue, stuck, logVars, sweeper>>

(***************************************************************************)
(* AddApproval, the second look at the row and the commit: with the last   *)
(* approval the row is marked executing and the caller goes on to execute. *)
(* The deadline is not looked at again.                                    *)
(***************************************************************************)
AddApproval(c) ==
    /\ caller[c].pc = "add"
    /\ received' = received \cup {caller[c].who}
    /\ rowLock' = NoCaller
    /\ IF Required \subseteq received'
       THEN /\ state' = "executing"
            /\ stuck' = FALSE
            /\ caller' = [caller EXCEPT ![c].pc = "execute"]
       ELSE /\ caller' = [caller EXCEPT ![c] = IdleCaller]
            /\ UNCHANGED <<state, stuck>>
    /\ UNCHANGED <<overdue, logVars, sweeper>>

(***************************************************************************)
(* executeIntent under approvalExecutionKey.  It commits and succeeds, it  *)
(* fails, or it commits and the acknowledgement is lost.                   *)
(***************************************************************************)
ExecuteIntent(c) ==
    /\ caller[c].pc = "execute"
    /\ executions' = executions + 1
    /\ \/ events' = 1 /\ caller' = [caller EXCEPT ![c].pc = "audit"]
       \/ events' \in {events, 1} /\ caller' = [caller EXCEPT ![c].pc = "reject"]
    /\ UNCHANGED <<rowVars, rowLock, audits, sweeper>>

(***************************************************************************)
(* UpdateApprovalState "rejected", whatever the state is by now.           *)
(***************************************************************************)
Reject(c) ==
    /\ caller[c].pc = "reject"
    /\ RowIsFree(c)
    /\ state' = "rejected"
    /\ caller' = [caller EXCEPT ![c] = IdleCaller]
    /\ UNCHANGED <<received, overdue, stuck, rowLock, logVars, sweeper>>

\* The attempts share one event ID, so the log takes the audit event once.
AuditCommits == audits = 0

(***************************************************************************)
(* One attempt of recordApprovalAuditEvent.  It commits or fails, and a    *)
(* commit may go unnoticed; an attempt that seems to have failed is        *)
(* repeated, and after the last one the gap is only logged.                *)
(***************************************************************************)
RecordAuditEvent(c) ==
    /\ caller[c].pc = "audit"
    /\ \/ /\ AuditCommits
          /\ audits' = audits + 1
          /\ caller' = [caller EXCEPT ![c].pc = "finish"]
       \/ /\ audits' = audits \/ (AuditCommits /\ audits' = audits + 1)
          /\ caller' = IF caller[c].try < MaxAuditRetries
                       THEN [caller EXCEPT ![c].try = @ + 1]
                       ELSE [caller EXCEPT ![c].pc = "finish"]
    /\ UNCHANGED <<rowVars, rowLock, events, executions, sweeper>>

(***************************************************************************)
(* UpdateApprovalStateIf: executing becomes executed, anything else stays. *)
(***************************************************************************)
Finish(c) ==
    /\ caller[c].pc = "finish"
    /\ RowIsFree(c)
    /\ state' = IF state = "executing" THEN "executed" ELSE state
    /\ caller' = [caller EXCEPT ![c] = IdleCaller]
    /\ UNCHANGED <<received, overdue, stuck, rowLock, logVars, sweeper>>

(***************************************************************************)
(* The caller's process dies, its context is cancelled, or a write of the  *)
(* state fails and is only logged: an open transaction is rolled back.     *)
(***************************************************************************)
Crash(c) ==
    /\ caller[c].pc # "idle"
    /\ rowLock' = IF rowLock = c THEN NoCaller ELSE rowLock
    /\ caller' = [caller EXCEPT ![c] = IdleCaller]
    /\ UNCHANGED <<rowVars, logVars, sweeper>>

-----------------------------------------------------------------------------
(***************************************************************************)
(* ExpireStaleApprovals, first half: list the overdue approvals, then      *)
(* write "expired" on what was listed, whatever the state is by now.       *)
(***************************************************************************)
ListExpiredApprovals(s) ==
    /\ sweeper[s].pc = "idle"
    /\ sweeper' = [sweeper EXCEPT ![s].pc =
                     IF state = "pending" /\ overdue THEN "expire" ELSE "listStuck"]
    /\ UNCHANGED <<rowVars, rowLock, logVars, caller>>

ExpireListed(s) ==
    /\ sweeper[s].pc = "expire"
    /\ rowLock = NoCaller
    /\ state' = "expired"
    /\ sweeper' = [sweeper EXCEPT ![s].pc = "listStuck"]
    /\ UNCHANGED <<received, overdue, stuck, rowLock, logVars, caller>>

\* Mutant: nothing is ever found stuck.
ListNoStuckApprovals(s) ==
    /\ sweeper[s].pc = "listStuck"
    /\ sweeper' = [sweeper EXCEPT ![s] = IdleSweeper]
    /\ UNCHANGED <<rowVars, rowLock, logVars, caller>>

(***************************************************************************)
(* Second half: list the stuck executions, look for their event, and       *)
(* resolve the ones that are still executing.                              *)
(***************************************************************************)
ListStuckApprovals(s) ==
    /\ sweeper[s].pc = "listStuck"
    /\ sweeper' = [sweeper EXCEPT ![s] =
                     IF state = "executing" /\ stuck
                     THEN [IdleSweeper EXCEPT !.pc = "lookup"] ELSE IdleSweeper]
    /\ UNCHANGED <<rowVars, rowLock, logVars, caller>>

\* Mutant: a stuck execution is taken to have happened.
AssumeExecuted(s) ==
    /\ sweeper[s].pc = "lookup"
    /\ sweeper' = [sweeper EXCEPT ![s] = [pc |-> "resolve", next |-> "executed"]]
    /\ UNCHANGED <<rowVars, rowLock, logVars, caller>>

\* ListLogEventsByIdempotencyKey decides what a stuck execution came to.
LookupExecution(s) ==
    /\ sweeper[s].pc = "lookup"
    /\ sweeper' = [sweeper EXCEPT ![s] =
                     [pc |-> "resolve", next |-> IF events > 0 THEN "executed" ELSE "expired"]]
    /\ UNCHANGED <<rowVars, rowLock, logVars, caller>>

ResolveStuck(s) ==
    /\ sweeper[s].pc = "resolve"
    /\ rowLock = NoCaller
    /\ state' = IF state = "executing" THEN sweeper[s].next ELSE state
    /\ sweeper' = [sweeper EXCEPT ![s] = IdleSweeper]
    /\ UNCHANGED <<received, overdue, stuck, rowLock, logVars, caller>>

(***************************************************************************)
(* A statement fails or the worker dies.  A failed write of "expired" is   *)
(* only logged; after anything else the next sweep starts anew.            *)
(***************************************************************************)
SweepFails(s) ==
    /\ sweeper[s].pc # "idle"
    /\ \/ sweeper' = [sweeper EXCEPT ![s] = IdleSweeper]
       \/ sweeper[s].pc = "expire" /\ sweeper' = [sweeper EXCEPT ![s].pc = "listStuck"]
    /\ UNCHANGED <<rowVars, rowLock, logVars, caller>>

-----------------------------------------------------------------------------
DeadlinePasses ==
    /\ ~overdue
    /\ overdue' = TRUE
    /\ UNCHANGED <<state, received, stuck, rowLock, logVars, caller, sweeper>>

ThresholdPasses ==
    /\ state = "executing" /\ ~stuck
    /\ stuck' = TRUE
    /\ UNCHANGED <<state, received, overdue, rowLock, logVars, caller, sweeper>>

ApprovalsInit ==
    /\ state = "none"
    /\ received = {}
    /\ overdue = FALSE
    /\ stuck = FALSE
    /\ rowLock = NoCaller
    /\ events = 0
    /\ executions = 0
    /\ audits = 0
    /\ caller = [c \in Callers |-> IdleCaller]
    /\ sweeper = [s \in Sweepers |-> IdleSweeper]

\* What a call of Approve does once it is made.
CallerStep(c) ==
    \/ LockApproval(c)
    \/ AddApproval(c)
    \/ ExecuteIntent(c)
    \/ Reject(c)
    \/ RecordAuditEvent(c)
    \/ Finish(c)

\* What a sweep that meets no error does.
SweepStep(s) ==
    \/ ListExpiredApprovals(s)
    \/ ExpireListed(s)
    \/ ListStuckApprovals(s)
    \/ LookupExecution(s)
    \/ ResolveStuck(s)

ApprovalsNext ==
    \/ SubmitForApproval
    \/ \E c \in Callers, p \in Principals : Approve(c, p)
    \/ \E c \in Callers : CallerStep(c) \/ Crash(c)
    \/ \E s \in Sweepers : SweepStep(s) \/ SweepFails(s)
    \/ DeadlinePasses
    \/ ThresholdPasses

(***************************************************************************)
(* A call goes on until it ends, time passes, and the worker's ticker runs *)
(* the sweep again and again: a statement of the sweep that is attempted   *)
(* over and over succeeds at last.                                         *)
(***************************************************************************)
ApprovalsFairness ==
    /\ WF_approvalVars(DeadlinePasses) /\ WF_approvalVars(ThresholdPasses)
    /\ \A c \in Callers : WF_approvalVars(CallerStep(c))
    /\ \A s \in Sweepers :
          /\ SF_approvalVars(ListExpiredApprovals(s)) /\ SF_approvalVars(ExpireListed(s))
          /\ SF_approvalVars(ListStuckApprovals(s)) /\ SF_approvalVars(LookupExecution(s))
          /\ SF_approvalVars(ResolveStuck(s))

ApprovalsSpec == ApprovalsInit /\ [][ApprovalsNext]_approvalVars /\ ApprovalsFairness

-----------------------------------------------------------------------------
ApprovalsTypeOK ==
    /\ state \in State
    /\ received \subseteq Principals
    /\ overdue \in BOOLEAN
    /\ stuck \in BOOLEAN
    /\ rowLock \in Callers \cup {NoCaller}
    /\ events \in {0, 1}
    /\ executions \in Nat
    /\ audits \in Nat
    /\ caller \in [Callers -> [pc: {"idle", "begin", "add", "execute", "reject", "audit",
                                    "finish"},
                               who: Principals, try: 0..MaxAuditRetries]]
    /\ sweeper \in [Sweepers -> [pc: {"idle", "expire", "listStuck", "lookup", "resolve"},
                                 next: {"executed", "expired"}]]

(***************************************************************************)
(* Nothing is executed before all required principals have approved, and   *)
(* the submitter is not one of those who did.                              *)
(***************************************************************************)
FourEyes == executions > 0 => Required \subseteq received /\ Submitter \notin received

(***************************************************************************)
(* An approved intent is executed at most once, although several callers   *)
(* may bring the last approval at the same time and executions that seem   *)
(* stuck are recovered while they may still be running.                    *)
(***************************************************************************)
ExecutedAtMostOnce == executions <= 1

(***************************************************************************)
(* An approval that is said to be executed has had its effect: neither the *)
(* caller nor the recovery writes "executed" without a committed event.    *)
(***************************************************************************)
ExecutedIsReal == state = "executed" => events = 1

(***************************************************************************)
(* The audit trail has at most one entry for an approval, and only for an  *)
(* execution that is in the log, although an attempt to write it may have  *)
(* committed unnoticed before the next one is made.                        *)
(***************************************************************************)
AuditedAtMostOnce == audits <= events

(***************************************************************************)
(* No approval stays in limbo: an execution whose caller died is resolved  *)
(* by a later sweep, and an approval nobody completes expires.             *)
(***************************************************************************)
EveryApprovalEnds == state \in {"pending", "executing"} ~> state \in Terminal

-----------------------------------------------------------------------------
(***************************************************************************)
(* The inductive invariant behind FourEyes, ExecutedAtMostOnce and         *)
(* ExecutedIsReal.                                                         *)
(***************************************************************************)
\* The row is locked by the caller that has checked it and not yet committed.
LockedWhileAdding ==
    \A c \in Callers :
        /\ caller[c].pc = "add" <=> rowLock = c
        /\ caller[c].pc = "add" => state = "pending" /\ caller[c].who # Submitter

\* The intent has been handed to a caller, to be executed.
Begun == executions > 0 \/ \E c \in Callers : caller[c].pc = "execute"

\* Only an approval that has left "pending" is executed, by one caller, once.
OneExecution ==
    /\ Begun => state \notin {"none", "pending"} /\ Required \subseteq received
    /\ executions <= 1
    /\ \A c \in Callers : caller[c].pc = "execute" =>
          /\ executions = 0
          /\ \A d \in Callers : caller[d].pc = "execute" => d = c

\* Whoever is about to write "executed" has seen the event.
EventSeen ==
    /\ \A c \in Callers : caller[c].pc \in {"audit", "finish"} => events = 1
    /\ \A s \in Sweepers :
          sweeper[s].pc = "resolve" /\ sweeper[s].next = "executed" => events = 1
    /\ ExecutedIsReal
    /\ AuditedAtMostOnce

\* What every step preserves, of everything above.
ApprovalInv ==
    /\ ApprovalsTypeOK
    /\ LockedWhileAdding
    /\ Submitter \notin received
    /\ OneExecution
    /\ EventSeen
=============================================================================
