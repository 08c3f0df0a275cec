-------------------------- MODULE BalancesInvariant --------------------------
(***************************************************************************)
(* The inductive invariant of Balances for the life of a hold: what makes  *)
(* the check a transaction made when it locked the hold's row still true   *)
(* when it writes, some steps and other transactions' commits later.       *)
(***************************************************************************)
EXTENDS Balances

\* The tables as far as holds go: the log and the table of holds agree about
\* which holds there are and how they were closed, and no event follows the
\* one that closed a hold.
HoldsFollowLog(d) ==
    /\ \A n \in DOMAIN d.log : d.log[n].hold \in 0..Len(d.holds)
    /\ \A h \in DOMAIN d.holds :
          /\ d.holds[h].captured <= d.holds[h].authorized
          /\ d.holds[h].voided <=> \E n \in EventsOf(d.log, h) : d.log[n].op = "void"
          /\ d.holds[h].expired <=> \E n \in EventsOf(d.log, h) : d.log[n].op = "expire"
          /\ \A m, n \in EventsOf(d.log, h) : m < n => d.log[m].op \notin {"void", "expire"}

\* What was moved and captured adds up to the balances and the captured amounts.
AmountsFollowLog(d) ==
    /\ d.volumes = VolumesInLog(d.log)
    /\ \A h \in DOMAIN d.holds : d.holds[h].captured = CapturedInLog(d.log, h)

Sound(d) ==
    /\ d.holds \in Seq(Hold)
    /\ d.log \in Seq(Range(d.log))
    /\ HoldsFollowLog(d)
    /\ AmountsFollowLog(d)

\* The balances and the transactions are numbers and postings.
Typed(d) == d.volumes \in [Bucket -> Int] /\ d.txs \in Seq(Seq(Posting))

\* The run starts from tables the planner could have written.
ASSUME SetupAssumption ==
    /\ Sound(SetupDatabase)
    /\ Typed(SetupDatabase)

-----------------------------------------------------------------------------
WorkerOK(r) ==
    /\ DOMAIN r = {"pc", "request", "pos", "try", "todo", "demand", "balance", "outcome"}
    /\ r.pc \in {"idle", "start", "check", "holds", "commit"}
    /\ r.pc # "idle" => r.request \in Requests
    /\ r.pc \in {"start", "check", "holds"} => r.pos \in 1..Len(r.request.ops)

Shape ==
    /\ rowLock \in Workers \cup {NoWorker}
    /\ holdLocks \in [Workers -> SUBSET Nat]
    /\ worker = [w \in Workers |-> worker[w]]
    /\ \A w \in Workers : WorkerOK(worker[w])

\* The row of a hold is locked by one transaction.
LocksExclusive == \A v, w \in Workers : v # w => holdLocks[v] \cap holdLocks[w] = {}

\* Only the holder of the ledger's row can be about to commit ...
CommitsUnderLock == \A w \in Workers : worker[w].pc = "commit" => rowLock = w

\* ... and of the committed holds it has changed none but those it locks.
DraftFollowsDb ==
    rowLock # NoWorker =>
        /\ DOMAIN db.holds \subseteq DOMAIN draft.holds
        /\ \A h \in DOMAIN db.holds \ holdLocks[rowLock] : draft.holds[h] = db.holds[h]

\* What LockHold found is still so when the transaction comes to write.
HoldsChecked ==
    \A w \in Workers :
        worker[w].pc \in {"check", "holds"} /\ Op(w).op \in HoldOps =>
            Op(w).hold \in holdLocks[w] /\ HoldAllows(Op(w), Visible(w))

IInv ==
    /\ Shape
    /\ Sound(db)
    /\ Sound(draft)
    /\ LocksExclusive
    /\ CommitsUnderLock
    /\ DraftFollowsDb
    /\ HoldsChecked

-----------------------------------------------------------------------------
(***************************************************************************)
(* For balances, which no lock protects between the check and the write of *)
(* the first operation: what was found available still is if the checks    *)
(* were made under the lock on the ledger's row.                           *)
(***************************************************************************)

\* A transaction sees no fewer transactions than are committed.
DraftKeepsTxs == rowLock # NoWorker => DOMAIN db.txs \subseteq DOMAIN draft.txs

\* What a revert found to revert is still there.
OriginalFound(w) ==
    worker[w].pc \in {"check", "holds"} /\ Op(w).op = "revert" => Op(w).tx \in DOMAIN Visible(w).txs

\* A demand is met, or it is being checked or still to be checked.
DemandsChecked(w) ==
    LET r == worker[w] IN
    rowLock = w /\ r.pc \in {"check", "holds"} =>
        /\ \A c \in Demands(Op(w), draft) :
              c \in r.todo \/ (r.pc = "holds" /\ c = r.demand) \/ DemandMet(c, draft)
        /\ r.pc = "holds" => r.balance = draft.volumes[<<r.demand.account, r.demand.asset>>]

BInv ==
    /\ Typed(db) /\ Typed(draft)
    /\ DraftKeepsTxs
    /\ \A w \in Workers : OriginalFound(w) /\ DemandsChecked(w)
=============================================================================
