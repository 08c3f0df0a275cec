------------------------------- MODULE Balances -------------------------------
(***************************************************************************)
(* Money in one ledger: posts, conversions, holds (authorize, capture,     *)
(* void, expiry) and reverts, run by concurrent READ COMMITTED             *)
(* transactions.  An operation first reads (balances, the hold, the        *)
(* transaction to revert), then appends its event, which locks the         *)
(* ledger's row, then writes its projections; the lock is kept until the   *)
(* transaction ends.  Idempotency keys, event IDs and sealing are          *)
(* WritePath's business and left out here.                                 *)
(*                                                                         *)
(* Everything a transaction writes it writes under the row lock, so only   *)
(* the holder of the lock has uncommitted rows: draft is the database as   *)
(* that transaction sees it, db is what everybody else sees.               *)
(***************************************************************************)
EXTENDS Integers, Sequences, FiniteSets, SequencesExt

CONSTANTS
    Workers,             \* goroutines running transactions
    NoWorker,            \* the ledger row is not locked
    Accounts,
    NoAccount,           \* an empty account name
    Issuers,             \* ledgers.issuer_accounts: may go negative
    Assets,
    Requests,            \* the requests clients and the expiry sweep may make
    Setup,               \* the operations committed before the run begins
    MaxRequests,         \* bound: how many requests are made in all
    MaxDeadlockRetries   \* maxDeadlockRetries of planner.go

Amount == Nat \ {0}

Posting == [source: Accounts, destination: Accounts, asset: Assets, amount: Amount]

\* The operations, by what their handlers look at.
Post == [op: {"post"}, postings: Seq(Posting)]
Convert == [op: {"convert"}, source: Accounts, destination: Accounts,
            sourceAsset: Assets, destAsset: Assets,
            sourceAmount: Amount, destAmount: Amount,
            slippage: Nat, slippageAccount: Accounts \cup {NoAccount}]
Authorize == [op: {"authorize"}, source: Accounts, hint: Accounts \cup {NoAccount},
              asset: Assets, amount: Amount]
Capture == [op: {"capture"}, hold: Amount, amount: Amount,
            destination: Accounts \cup {NoAccount}]
CloseHold == [op: {"void", "expire"}, hold: Amount]
Revert == [op: {"revert"}, tx: Amount, force: BOOLEAN]

Operation == Post \cup Convert \cup Authorize \cup Capture \cup CloseHold \cup Revert

\* A standalone submit, an ALL_OR_NOTHING batch, or the expiry sweep's turn at one hold.
Request == [mode: {"submit", "batch", "sweep"}, ops: Seq(Operation)]

ASSUME BalancesAssumption ==
    /\ NoWorker \notin Workers
    /\ NoAccount \notin Accounts
    /\ Issuers \subseteq Accounts
    /\ MaxRequests \in Nat
    /\ MaxDeadlockRetries \in Nat
    /\ Setup \in Seq(Operation)
    /\ Requests \subseteq Request
    /\ \A q \in Requests :
          /\ q.ops # <<>>
          /\ q.mode # "batch" => Len(q.ops) = 1
          /\ \A n \in DOMAIN q.ops : q.ops[n].op = "expire" <=> q.mode = "sweep"

Hold == [source: Accounts, hint: Accounts \cup {NoAccount}, asset: Assets,
         authorized: Amount, captured: Nat, voided: BOOLEAN, expired: BOOLEAN]

Event == [op: {"post", "convert", "authorize", "capture", "void", "expire", "revert"},
          hold: Nat, postings: Seq(Posting)]

(***************************************************************************)
(* The tables: the balance (input minus output) of every account and       *)
(* asset, the holds, the postings of the transactions, the "reverts"       *)
(* relationships (parent, child) and the event log.                        *)
(***************************************************************************)
Bucket == Accounts \X Assets

Database == [volumes: [Bucket -> Int], holds: Seq(Hold), txs: Seq(Seq(Posting)),
             reverts: SUBSET (Nat \X Nat), log: Seq(Event)]

VARIABLES
    db,          \* the committed tables
    draft,       \* the tables as the holder of the ledger row sees them
    rowLock,     \* the worker whose transaction locks the ledger's row
    holdLocks,   \* the rows of holds each worker's transaction locks
    worker,      \* what each worker is doing
    started      \* how many requests have been made

vars == <<db, draft, rowLock, holdLocks, worker, started>>

-----------------------------------------------------------------------------
(***************************************************************************)
(* What an operation demands, moves and records.                           *)
(***************************************************************************)

\* The sum of a sequence of numbers, as SQL's SUM over rows.
SumUpTo(s) ==
    LET sum[n \in 0..Len(s)] == IF n = 0 THEN 0 ELSE sum[n - 1] + s[n]
    IN  sum

Total(s) == SumUpTo(s)[Len(s)]

\* The two rows of volumes_delta that a posting makes: output of its source,
\* input of its destination.
Debit(p, account, asset) ==
    IF p.source = account /\ p.asset = asset THEN p.amount ELSE 0

Credit(p, account, asset) ==
    IF p.destination = account /\ p.asset = asset THEN p.amount ELSE 0

Outflow(ps, account, asset) == Total([n \in DOMAIN ps |-> Debit(ps[n], account, asset)])

Inflow(ps, account, asset) == Total([n \in DOMAIN ps |-> Credit(ps[n], account, asset)])

\* posted input minus posted output, after a posting, after each of the postings
\* ps, and after all of them.
PostedTo(volumes, p) ==
    [volumes EXCEPT ![<<p.source, p.asset>>] = @ - p.amount,
                    ![<<p.destination, p.asset>>] = @ + p.amount]

MovedUpTo(volumes, ps) ==
    LET moved[n \in 0..Len(ps)] ==
            IF n = 0 THEN volumes ELSE PostedTo(moved[n - 1], ps[n])
    IN  moved

Moved(volumes, ps) == MovedUpTo(volumes, ps)[Len(ps)]

\* Mutant: expiry is forgotten when a hold's state is looked at.
NotVoided(hold) == ~hold.voided

OpenHold(hold) == ~hold.voided /\ ~hold.expired

\* What an open hold still reserves of an account, and all of them together.
Reserved(hold, account, asset) ==
    IF hold.source = account /\ hold.asset = asset /\ OpenHold(hold)
    THEN hold.authorized - hold.captured ELSE 0

ActiveHoldsTotal(d, account, asset) ==
    Total([h \in DOMAIN d.holds |-> Reserved(d.holds[h], account, asset)])

\* A balance check: the account must have this much available in the asset.
Demand(account, asset, amount) == [account |-> account, asset |-> asset, amount |-> amount]

NoDemand == Demand(NoAccount, CHOOSE a \in Assets : TRUE, 0)

\* checkSourceBalances: what the same post credits to a source counts.
PostDemands(ps) ==
    {Demand(ps[n].source, ps[n].asset,
            Outflow(ps, ps[n].source, ps[n].asset) - Inflow(ps, ps[n].source, ps[n].asset)) :
        n \in DOMAIN ps}

\* doConvertInTx checks the source only; slippage counts even without an account.
ConvertDemands(op) == {Demand(op.source, op.sourceAsset, op.sourceAmount + op.slippage)}

ConvertPostings(op) ==
    LET move(src, dst, amount, asset) ==
            [source |-> src, destination |-> dst, asset |-> asset, amount |-> amount]
    IN  <<move(op.source, op.destination, op.sourceAmount, op.sourceAsset),
          move(op.destination, op.source, op.destAmount, op.destAsset)>>
        \o IF op.slippage > 0 /\ op.slippageAccount # NoAccount
           THEN <<move(op.source, op.slippageAccount, op.slippage, op.sourceAsset)>>
           ELSE <<>>

ReversePostings(ps) ==
    [n \in DOMAIN ps |-> [ps[n] EXCEPT !.source = ps[n].destination,
                                       !.destination = ps[n].source]]

\* doRevertInTx checks every reversed posting by itself, unless forced.
RevertDemands(op, d) ==
    IF op.force THEN {}
    ELSE {Demand(p.source, p.asset, p.amount) : p \in Range(ReversePostings(d.txs[op.tx]))}

\* The balance checks an operation makes; issuers are not checked.
Demands(op, d) ==
    {c \in CASE op.op = "post" -> PostDemands(op.postings)
             [] op.op = "convert" -> ConvertDemands(op)
             [] op.op = "authorize" -> {Demand(op.source, op.asset, op.amount)}
             [] op.op = "revert" -> RevertDemands(op, d)
             [] OTHER -> {} :
        c.account \notin Issuers}

CaptureDestination(op, d) ==
    IF op.destination # NoAccount THEN op.destination ELSE d.holds[op.hold].hint

\* The volume deltas an operation inserts: a debit and a credit per posting.
PostingsOf(op, d) ==
    CASE op.op = "post" -> op.postings
      [] op.op = "convert" -> ConvertPostings(op)
      [] op.op = "revert" -> ReversePostings(d.txs[op.tx])
      [] op.op = "capture" ->
            <<[source |-> d.holds[op.hold].source, destination |-> CaptureDestination(op, d),
               asset |-> d.holds[op.hold].asset, amount |-> op.amount]>>
      [] OTHER -> <<>>

\* The primary key of volumes_delta admits one row per account and asset of an event.
DuplicateLeg(ps) ==
    Cardinality({<<p.source, p.asset>> : p \in Range(ps)}
                \cup {<<p.destination, p.asset>> : p \in Range(ps)}) < 2 * Len(ps)

\* The rows of holds after the operation.
HoldsAfter(op, d) ==
    CASE op.op = "authorize" ->
            Append(d.holds, [source |-> op.source, hint |-> op.hint, asset |-> op.asset,
                             authorized |-> op.amount, captured |-> 0,
                             voided |-> FALSE, expired |-> FALSE])
      [] op.op = "capture" -> [d.holds EXCEPT ![op.hold].captured = @ + op.amount]
      [] op.op = "void" -> [d.holds EXCEPT ![op.hold].voided = TRUE]
      [] op.op = "expire" -> [d.holds EXCEPT ![op.hold].expired = TRUE]
      [] OTHER -> d.holds

\* Everything do*InTx writes, the event included.
Apply(op, d) ==
    LET ps == PostingsOf(op, d)
        isTx == op.op \in {"post", "convert", "revert"}
        hold == CASE op.op \in {"capture", "void", "expire"} -> op.hold
                  [] op.op = "authorize" -> Len(d.holds) + 1
                  [] OTHER -> 0
    IN  [volumes |-> Moved(d.volumes, ps),
         holds |-> HoldsAfter(op, d),
         txs |-> IF isTx THEN Append(d.txs, ps) ELSE d.txs,
         reverts |-> IF op.op = "revert"
                     THEN d.reverts \cup {<<op.tx, Len(d.txs) + 1>>} ELSE d.reverts,
         log |-> Append(d.log, [op |-> op.op, hold |-> hold, postings |-> ps])]

EmptyDatabase ==
    [volumes |-> [b \in Bucket |-> 0], holds |-> <<>>, txs |-> <<>>, reverts |-> {}, log |-> <<>>]

-----------------------------------------------------------------------------
Idle(outcome) ==
    [pc |-> "idle", request |-> [mode |-> "submit", ops |-> <<>>], pos |-> 0, try |-> 0,
     todo |-> {}, demand |-> NoDemand, balance |-> 0, outcome |-> outcome]

Op(w) == worker[w].request.ops[worker[w].pos]

\* What a statement of w's transaction sees.
Visible(w) == IF rowLock = w THEN draft ELSE db

\* Mutant: the locks on holds outlive the transaction.
EndTxKeepsHolds(w, outcome) ==
    /\ rowLock' = IF rowLock = w THEN NoWorker ELSE rowLock
    /\ draft' = IF rowLock = w THEN EmptyDatabase ELSE draft
    /\ UNCHANGED holdLocks
    /\ worker' = [worker EXCEPT ![w] = Idle(outcome)]

\* The transaction ends, by Commit or by the deferred Rollback: its locks are released.
EndTx(w, outcome) ==
    /\ rowLock' = IF rowLock = w THEN NoWorker ELSE rowLock
    /\ draft' = IF rowLock = w THEN EmptyDatabase ELSE draft
    /\ holdLocks' = [holdLocks EXCEPT ![w] = {}]
    /\ worker' = [worker EXCEPT ![w] = Idle(outcome)]

\* Mutant: the event was appended outside the transaction and survives it.
AbortKeepsEvents(w, outcome) ==
    /\ EndTx(w, outcome)
    /\ db' = IF rowLock = w THEN [db EXCEPT !.log = draft.log] ELSE db
    /\ UNCHANGED started

Abort(w, outcome) == EndTx(w, outcome) /\ UNCHANGED <<db, started>>

HoldOps == {"capture", "void", "expire"}

-----------------------------------------------------------------------------
(***************************************************************************)
(* A request arrives and its transaction begins.  The sweep works from the *)
(* list of overdue holds it read outside the transaction; deadlines are    *)
(* read nowhere else, so time appears here only.                           *)
(***************************************************************************)
Begin(w, q) ==
    /\ worker[w].pc = "idle"
    /\ started < MaxRequests
    /\ q.mode = "sweep" => LET h == q.ops[1].hold IN
          /\ h \in DOMAIN db.holds
          /\ OpenHold(db.holds[h])
          /\ db.holds[h].captured < db.holds[h].authorized
    /\ worker' = [worker EXCEPT ![w] =
                    [Idle("none") EXCEPT !.pc = "start", !.request = q, !.pos = 1]]
    /\ started' = started + 1
    /\ UNCHANGED <<db, draft, rowLock, holdLocks>>

\* The balance checks an operation starts with are still to be made.
ToCheck(w, demands) ==
    /\ worker' = [worker EXCEPT ![w].pc = "check", ![w].todo = demands]
    /\ UNCHANGED <<db, draft, rowLock, started>>

(***************************************************************************)
(* A post, a conversion or an authorization goes to its balance checks.    *)
(***************************************************************************)
StartPosting(w) ==
    /\ worker[w].pc = "start"
    /\ Op(w).op \in {"post", "convert", "authorize"}
    /\ ToCheck(w, Demands(Op(w), Visible(w)))
    /\ UNCHANGED holdLocks

(***************************************************************************)
(* A revert reads the original and its relationships: it must exist and    *)
(* not be reverted yet.                                                    *)
(***************************************************************************)
StartRevert(w) ==
    /\ worker[w].pc = "start"
    /\ Op(w).op = "revert"
    /\ LET d == Visible(w) IN
       IF Op(w).tx \in DOMAIN d.txs /\ \A r \in d.reverts : r[1] # Op(w).tx
       THEN ToCheck(w, Demands(Op(w), d)) /\ UNCHANGED holdLocks
       ELSE Abort(w, "refused")

\* What GetHold finds allows the operation.
HoldAllows(op, d) ==
    /\ op.hold \in DOMAIN d.holds
    /\ OpenHold(d.holds[op.hold])
    /\ op.op = "capture" =>
          /\ op.amount <= d.holds[op.hold].authorized - d.holds[op.hold].captured
          /\ CaptureDestination(op, d) # NoAccount

\* Mutant: GetHold without FOR UPDATE.
HoldIsNeverWaitedFor(w) == TRUE

\* GetHold of TxStore reads FOR UPDATE: it waits for the transaction that locks the row.
HoldIsFree(w) == \A v \in Workers \ {w} : Op(w).hold \notin holdLocks[v]

(***************************************************************************)
(* Capture, void and expiry lock and read the hold; no balance is checked. *)
(* The sweep gives up silently on a hold that was closed meanwhile.        *)
(***************************************************************************)
LockHold(w) ==
    /\ worker[w].pc = "start"
    /\ Op(w).op \in HoldOps
    /\ HoldIsFree(w)
    /\ IF HoldAllows(Op(w), Visible(w))
       THEN /\ ToCheck(w, {})
            /\ holdLocks' = [holdLocks EXCEPT ![w] = @ \cup {Op(w).hold}]
       ELSE Abort(w, IF Op(w).op = "expire" THEN "nothing" ELSE "refused")

(***************************************************************************)
(* availableBalance is two statements: each sees what is committed when it *)
(* runs, and the ledger row is locked only later (except in a batch that   *)
(* has written before).                                                    *)
(***************************************************************************)
GetBalance(w) ==
    /\ worker[w].pc = "check"
    /\ \E c \in worker[w].todo :
          worker' = [worker EXCEPT ![w].pc = "holds", ![w].todo = @ \ {c}, ![w].demand = c,
                                   ![w].balance = Visible(w).volumes[<<c.account, c.asset>>]]
    /\ UNCHANGED <<db, draft, rowLock, holdLocks, started>>

\* Mutant: the balance is compared without the holds.
IgnoreActiveHolds(w) ==
    /\ worker[w].pc = "holds"
    /\ LET c == worker[w].demand IN
       IF worker[w].balance >= c.amount
       THEN /\ worker' = [worker EXCEPT ![w].pc = "check", ![w].demand = NoDemand,
                                        ![w].balance = 0]
            /\ UNCHANGED <<db, draft, rowLock, holdLocks, started>>
       ELSE Abort(w, "insufficient")

\* The second statement, and the comparison with what the operation demands.
GetActiveHoldsTotal(w) ==
    /\ worker[w].pc = "holds"
    /\ LET c == worker[w].demand IN
       IF worker[w].balance - ActiveHoldsTotal(Visible(w), c.account, c.asset) >= c.amount
       THEN /\ worker' = [worker EXCEPT ![w].pc = "check", ![w].demand = NoDemand,
                                        ![w].balance = 0]
            /\ UNCHANGED <<db, draft, rowLock, holdLocks, started>>
       ELSE Abort(w, "insufficient")

(***************************************************************************)
(* The checks are done: append the event, which locks the ledger's row     *)
(* (waiting for its holder), and write the projections.  Updates of a hold *)
(* repeat that it is open; a second volume row for one account and asset   *)
(* is a constraint violation.  Then the next intent, or the commit.        *)
(***************************************************************************)
Write(w) ==
    /\ worker[w].pc = "check"
    /\ worker[w].todo = {}
    /\ rowLock \in {NoWorker, w}
    /\ LET op == Op(w)
           d == Visible(w)
       IN  IF op.op \in HoldOps /\ ~OpenHold(d.holds[op.hold])
           THEN Abort(w, "refused")
           ELSE IF DuplicateLeg(PostingsOf(op, d))
           THEN Abort(w, "constraint")
           ELSE /\ rowLock' = w
                /\ draft' = Apply(op, d)
                /\ worker' = [worker EXCEPT
                                ![w].pc = IF worker[w].pos = Len(worker[w].request.ops)
                                          THEN "commit" ELSE "start",
                                ![w].pos = @ + 1]
                /\ UNCHANGED <<db, holdLocks, started>>

Commit(w) ==
    /\ worker[w].pc = "commit"
    /\ db' = draft
    /\ EndTx(w, "ok")
    /\ UNCHANGED started

\* A storage failure, a cancelled context or a crash: Postgres rolls back.
Fail(w) ==
    /\ worker[w].pc # "idle"
    /\ Abort(w, "failed")

WaitsForRow(w) ==
    worker[w].pc = "check" /\ worker[w].todo = {} /\ rowLock \notin {NoWorker, w}

WaitsForHold(w, v) ==
    /\ worker[w].pc = "start"
    /\ Op(w).op \in HoldOps
    /\ Op(w).hold \in holdLocks[v]
    /\ v # w

(***************************************************************************)
(* Two transactions wait for each other, one for the ledger's row and one  *)
(* for a hold's: Postgres aborts one of them.  A standalone submit that    *)
(* waits for the ledger's row is retried (withDeadlockRetry); a batch, the *)
(* sweep and a wait for a hold are not.                                    *)
(***************************************************************************)
Deadlock(w) ==
    \/ /\ WaitsForRow(w) /\ WaitsForHold(rowLock, w)
       /\ IF worker[w].request.mode = "submit" /\ worker[w].try < MaxDeadlockRetries
          THEN /\ worker' = [worker EXCEPT ![w].pc = "start", ![w].try = @ + 1, ![w].pos = 1]
               /\ holdLocks' = [holdLocks EXCEPT ![w] = {}]
               /\ UNCHANGED <<db, draft, rowLock, started>>
          ELSE Abort(w, "deadlock")
    \/ /\ rowLock = w
       /\ \E v \in Workers : WaitsForHold(w, v) /\ WaitsForRow(v)
       /\ Abort(w, "deadlock")

-----------------------------------------------------------------------------
SetupDatabase == FoldLeft(LAMBDA d, op : Apply(op, d), EmptyDatabase, Setup)

Init ==
    /\ db = SetupDatabase
    /\ draft = EmptyDatabase
    /\ rowLock = NoWorker
    /\ holdLocks = [w \in Workers |-> {}]
    /\ worker = [w \in Workers |-> Idle("none")]
    /\ started = 0

\* The steps a transaction takes by itself, deadlock detection included.
Step(w) ==
    \/ StartPosting(w)
    \/ StartRevert(w)
    \/ LockHold(w)
    \/ GetBalance(w)
    \/ GetActiveHoldsTotal(w)
    \/ Write(w)
    \/ Commit(w)
    \/ Deadlock(w)

Next ==
    \/ \E w \in Workers, q \in Requests : Begin(w, q)
    \/ \E w \in Workers : Step(w) \/ Fail(w)

\* A transaction that can go on does; nothing is assumed of clients and failures.
Fairness == \A w \in Workers : WF_vars(Step(w))

Spec == Init /\ [][Next]_vars /\ Fairness

-----------------------------------------------------------------------------
WorkerState ==
    [pc: {"idle", "start", "check", "holds", "commit"}, request: Requests \cup {Idle("none").request},
     pos: Nat, try: 0..MaxDeadlockRetries,
     todo: SUBSET [account: Accounts, asset: Assets, amount: Int],
     demand: [account: Accounts \cup {NoAccount}, asset: Assets, amount: Int], balance: Int,
     outcome: {"none", "ok", "refused", "insufficient", "constraint", "nothing", "deadlock",
               "failed"}]

TypeOK ==
    /\ db \in Database
    /\ draft \in Database
    /\ rowLock \in Workers \cup {NoWorker}
    /\ holdLocks \in [Workers -> SUBSET Nat]
    /\ worker \in [Workers -> WorkerState]
    /\ started \in 0..MaxRequests

-----------------------------------------------------------------------------
\* The events of hold h, by their places in the log.
EventsOf(log, h) == {n \in DOMAIN log : log[n].hold = h}

(***************************************************************************)
(* No more is captured than was authorized, however captures of one hold   *)
(* race: each compares with the captured amount it read (doCaptureInTx)    *)
(* and adds to the stored one (UpdateHoldCaptured) some steps later.       *)
(***************************************************************************)
CapturedWithinAuthorized ==
    \A h \in DOMAIN db.holds : db.holds[h].captured <= db.holds[h].authorized

(***************************************************************************)
(* A hold is closed once and for all: after the event that voided or       *)
(* expired it, the log has no other event of that hold, although captures, *)
(* voids and the sweep work from what they read earlier.                   *)
(***************************************************************************)
ClosedHoldsAreFinal ==
    \A h \in DOMAIN db.holds : \A m, n \in EventsOf(db.log, h) :
        m < n => db.log[m].op \notin {"void", "expire"}

\* What an event captures of hold h, and all events of the log together.
CapturedBy(e, h) == IF e.hold = h /\ e.op = "capture" THEN e.postings[1].amount ELSE 0

CapturedInLog(log, h) == Total([n \in DOMAIN log |-> CapturedBy(log[n], h)])

\* The balances after each event of the log, and after the last.
VolumesUpTo(log) ==
    LET volumes[n \in 0..Len(log)] ==
            IF n = 0 THEN EmptyDatabase.volumes ELSE Moved(volumes[n - 1], log[n].postings)
    IN  volumes

VolumesInLog(log) == VolumesUpTo(log)[Len(log)]

(***************************************************************************)
(* The projections are what the log says: replaying the committed events   *)
(* gives every balance, and every hold's captured amount and state.  An    *)
(* event and its projections are separate statements of a transaction that *)
(* may be aborted after any of them.                                       *)
(***************************************************************************)
ProjectionsFollowLog ==
    LET closed(h, how) == \E n \in EventsOf(db.log, h) : db.log[n].op = how
    IN  /\ db.volumes = VolumesInLog(db.log)
        /\ \A h \in DOMAIN db.holds :
              /\ db.holds[h].captured = CapturedInLog(db.log, h)
              /\ db.holds[h].voided <=> closed(h, "void")
              /\ db.holds[h].expired <=> closed(h, "expire")

\* What availableBalance computes, and that no one but an issuer owes money.
Available(d, account, asset) ==
    d.volumes[<<account, asset>>] - ActiveHoldsTotal(d, account, asset)

Covered(d) ==
    \A account \in Accounts \ Issuers, asset \in Assets : Available(d, account, asset) >= 0

DemandMet(c, d) == Available(d, c.account, c.asset) >= c.amount

\* The operations that check every debit of an account that is no issuer: a
\* forced revert checks none, and a conversion checks its source only.
Guarded(op) ==
    /\ op.op = "revert" => ~op.force
    /\ op.op = "convert" => op.destination \in Issuers

(***************************************************************************)
(* Only a stale check overdraws an account.  If an operation that checks   *)
(* its debits leaves an account with less than its holds reserve, it is    *)
(* the first of its transaction, checked before the transaction had the    *)
(* ledger's row, and one of the balances it checked has changed since.     *)
(* The checks are enough, although a capture makes none, a revert checks   *)
(* its postings one by one and a post nets them; and the later operations  *)
(* of a batch, checked under the lock, are safe (checkSourceBalances,      *)
(* availableBalance, appendEvent).                                         *)
(***************************************************************************)
OnlyStaleChecksOverdraw ==
    [][\A w \in Workers :
          /\ Write(w) /\ rowLock' = w
          /\ Guarded(Op(w)) /\ Covered(Visible(w)) /\ ~Covered(draft')
          => /\ rowLock = NoWorker
             /\ \E c \in Demands(Op(w), db) : ~DemandMet(c, db)]_vars

\* "Non-issuer balance never negative" (test T-010), whatever its holds.
NonIssuerNeverNegative ==
    \A account \in Accounts \ Issuers, asset \in Assets : db.volumes[<<account, asset>>] >= 0

(***************************************************************************)
(* Every transaction ends, although a batch locks the ledger's row before  *)
(* a hold's and a capture locks them the other way round.                  *)
(***************************************************************************)
EveryTransactionEnds ==
    \A w \in Workers : (worker[w].pc # "idle") ~> (worker[w].pc = "idle")
=============================================================================
