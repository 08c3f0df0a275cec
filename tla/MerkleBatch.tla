---------------------------- MODULE MerkleBatch ----------------------------
(***************************************************************************)
(* The Merkle batches of one ledger: the batch manager of every process    *)
(* (internal/log/batch/manager.go), the tree it computes                   *)
(* (internal/log/merkle/merkle.go) and the table log_batches.              *)
(*                                                                         *)
(* An event asks for a batch inside its own transaction, with one          *)
(* connection of the pool in hand, and commits later.  The manager keeps   *)
(* the open batch in memory; the row is written through a second           *)
(* connection, outside the transaction.  Batches are closed by a goroutine *)
(* after a rollover and by the worker's sweep, possibly in two processes.  *)
(*                                                                         *)
(* Hashes are terms: two hashes are equal exactly when their inputs are.   *)
(* Time is the set of batches older than maxAge.  Event IDs, payloads and  *)
(* the rest of a transaction are left out; `log' is the ledger's log in    *)
(* the order of ledger_seq, which is the order of commits because the      *)
(* ledger's row is locked from NextLedgerSeq to the commit (WritePath).    *)
(***************************************************************************)
EXTENDS Integers, Sequences, SequencesExt, FiniteSets, LogOrder

CONSTANTS
    Procs,            \* processes with a batch manager
    Workers,          \* those that run the periodic sweep (cmd/worker)
    Writers,          \* goroutines that append events
    Home,             \* the process a writer runs in
    PoolSize,         \* connections in the pool of a process
    MaxEvents,        \* Manager.maxEvents
    MaxCloseRetries,  \* maxCloseRetries
    ListLimit,        \* LIMIT of ListOpenBatches
    MaxBatches,       \* bound on the rows of log_batches
    MaxLog,           \* bound on the events of the log
    MaxCrashes,       \* bound on the crashes
    NoWriter

ASSUME MerkleBatchAssumption ==
    /\ Workers \subseteq Procs
    /\ Home \in [Writers -> Procs]
    /\ IsFiniteSet(Writers)
    /\ PoolSize \in [Procs -> Nat \ {0}]
    /\ NoWriter \notin Writers
    /\ {MaxEvents, ListLimit, MaxBatches, MaxLog} \subseteq Nat \ {0}
    /\ {MaxCloseRetries, MaxCrashes} \subseteq Nat

VARIABLES
    batches,    \* rows of log_batches, in the order of opened_at
    aged,       \* the batches opened more than maxAge ago
    log,        \* batch_id of the committed events, in the order of ledger_seq
    cache,      \* per process: openBatch of the ledger, at most one
    mutex,      \* per process: who holds the ledger's lock
    writer,     \* per writer: its place in appendEvent
    closing,    \* per process: the closes in flight
    sweep,      \* per process: its place in CloseExpiredBatches
    crashes     \* how many crashes there have been

batchVars == <<batches, aged, log, cache, mutex, writer, closing, sweep, crashes>>

BatchId == 1..MaxBatches
NoBatch == 0

(***************************************************************************)
(* The tree.                                                               *)
(***************************************************************************)

\* LeafHash: the event is named by its place in the log.
LeafHash(e) == <<"leaf", e>>

internalHash(left, right) == <<"node", left, right>>

\* Mutant: the last node of an odd level is dropped, not doubled.
OddDropped(level) ==
    [i \in 1..(Len(level) \div 2) |-> internalHash(level[2 * i - 1], level[2 * i])]

\* One level up: the last node of an odd level is paired with itself.
NextLevel(level) ==
    [i \in 1..((Len(level) + 1) \div 2) |->
        internalHash(level[2 * i - 1],
                     level[IF 2 * i <= Len(level) THEN 2 * i ELSE 2 * i - 1])]

\* The loop runs until one node is left; Len(leaves) rounds are enough.
Up(level) == IF Len(level) > 1 THEN NextLevel(level) ELSE level
Levels(leaves) ==
    LET level[i \in Nat] == IF i = 0 THEN leaves ELSE Up(level[i - 1])
    IN  level
ComputeRoot(leaves) == Levels(leaves)[Len(leaves)]

\* An empty list has no root, and verifies against nothing.
Verify(leaves, root) ==
    LET computed == ComputeRoot(leaves)
    IN  computed # <<>> /\ root # <<>> /\ computed = root

(***************************************************************************)
(* Rows and goroutines.                                                    *)
(***************************************************************************)

\* A row of log_batches.  `root' is merkle_root, <<>> until the batch is
\* closed; `leaves' is the list the root was computed from (history).
NewBatch(prev) == [prev |-> prev, root |-> <<>>, leaves |-> <<>>, eventCount |-> 0]

Closed(b) == batches[b].root # <<>>

OpenBatchState == [batchID : BatchId \cup {NoBatch}, eventCount : Nat]
NothingOpen == [batchID |-> NoBatch, eventCount |-> 0]

\* Mutant: newest first.
NewestFirst(b) == Reverse(Ascending({i \in 1..Len(log) : log[i] = b})[Len(log)])

\* ListBatchEvents: the committed events of a batch in the order of ledger_seq.
ListBatchEvents(b) == Ascending({i \in 1..Len(log) : log[i] = b})[Len(log)]

Leaves(events) == [i \in 1..Len(events) |-> LeafHash(events[i])]

\* Connections of the pool of p that transactions hold.
InTx(p) == {w \in Writers : Home[w] = p /\ writer[w].pc # "idle"}

\* A statement outside the transactions needs a connection of its own.
ConnectionFree(p) == Cardinality(InTx(p)) < PoolSize[p]

(***************************************************************************)
(* Writers: appendEvent, up to the commit.                                 *)
(***************************************************************************)

Goto(w, pc, batchID) == writer' = [writer EXCEPT ![w] = [pc |-> pc, batchID |-> batchID]]

BeginTx(w) ==
    /\ writer[w].pc = "idle"
    /\ Len(log) + Cardinality({v \in Writers : writer[v].pc # "idle"}) < MaxLog
    /\ ConnectionFree(Home[w])
    /\ Goto(w, "tx", NoBatch)
    /\ UNCHANGED <<batches, aged, log, cache, mutex, closing, sweep, crashes>>

\* The cached batch may take another event.
Usable(p) ==
    /\ cache[p].batchID # NoBatch
    /\ cache[p].eventCount < MaxEvents
    /\ cache[p].batchID \notin aged

\* CurrentBatchID, the cache hit: one critical section.
CurrentBatchID(w) ==
    LET p == Home[w] IN
    /\ writer[w].pc = "tx"
    /\ mutex[p] = NoWriter
    /\ Usable(p)
    /\ cache' = [cache EXCEPT ![p].eventCount = @ + 1]
    /\ Goto(w, "assigned", cache[p].batchID)
    /\ UNCHANGED <<batches, aged, log, mutex, closing, sweep, crashes>>

\* Mutant: the ledger's lock is not taken for the rollover.
RolloverUnlocked(w) ==
    LET p == Home[w] IN
    /\ writer[w].pc = "tx"
    /\ ~Usable(p)
    /\ Goto(w, "creating", cache[p].batchID)
    /\ UNCHANGED <<batches, aged, log, cache, mutex, closing, sweep, crashes>>

\* CurrentBatchID, the rollover: the old batch is remembered, the ledger's
\* lock is kept until CreateBatch returns.
BeginRollover(w) ==
    LET p == Home[w] IN
    /\ writer[w].pc = "tx"
    /\ mutex[p] = NoWriter
    /\ ~Usable(p)
    /\ mutex' = [mutex EXCEPT ![p] = w]
    /\ Goto(w, "creating", cache[p].batchID)
    /\ UNCHANGED <<batches, aged, log, cache, closing, sweep, crashes>>

\* A close that has not begun: closeBatchWithRetry before markPendingClose.
Close(b, by) == [batchID |-> b, by |-> by, step |-> "start", attempt |-> 0, events |-> <<>>]

\* CreateBatch on a connection of its own, then the cache, then a goroutine
\* that closes the old batch.
CreateBatch(w) ==
    LET p == Home[w]  old == writer[w].batchID  new == Len(batches) + 1 IN
    /\ writer[w].pc = "creating"
    /\ new \in BatchId
    /\ ConnectionFree(p)
    /\ batches' = Append(batches, NewBatch(old))
    /\ cache' = [cache EXCEPT ![p] = [batchID |-> new, eventCount |-> 1]]
    /\ closing' = [closing EXCEPT ![p] = @ \cup (IF old = NoBatch THEN {} ELSE {Close(old, "async")})]
    /\ mutex' = [mutex EXCEPT ![p] = NoWriter]
    /\ Goto(w, "assigned", new)
    /\ UNCHANGED <<aged, log, sweep, crashes>>

\* CreateBatch reports an error: nothing is cached and the transaction rolls
\* back; the row may be there all the same.
CreateBatchFails(w) ==
    LET p == Home[w] IN
    /\ writer[w].pc = "creating"
    /\ \/ batches' = batches
       \/ /\ Len(batches) + 1 \in BatchId
          /\ ConnectionFree(p)
          /\ batches' = Append(batches, NewBatch(writer[w].batchID))
    /\ mutex' = [mutex EXCEPT ![p] = NoWriter]
    /\ Goto(w, "idle", NoBatch)
    /\ UNCHANGED <<aged, log, cache, closing, sweep, crashes>>

\* The transaction commits the event under the batch it was given, however
\* long ago that was.
CommitEvent(w) ==
    /\ writer[w].pc = "assigned"
    /\ log' = Append(log, writer[w].batchID)
    /\ Goto(w, "idle", NoBatch)
    /\ UNCHANGED <<batches, aged, cache, mutex, closing, sweep, crashes>>

\* The transaction rolls back; the count in the cache stays.
RollbackEvent(w) ==
    /\ writer[w].pc = "assigned"
    /\ Goto(w, "idle", NoBatch)
    /\ UNCHANGED <<batches, aged, log, cache, mutex, closing, sweep, crashes>>

(***************************************************************************)
(* Closing.                                                                *)
(***************************************************************************)

\* pendingClose of a process.
PendingClose(p) == {c.batchID : c \in {d \in closing[p] : d.step # "start"}}

Becomes(p, c, others) == closing' = [closing EXCEPT ![p] = (@ \ {c}) \cup others]

\* markPendingClose: a batch that is being closed here is skipped.
MarkPendingClose(p, c) ==
    /\ c.step = "start"
    /\ Becomes(p, c, IF c.batchID \in PendingClose(p) THEN {} ELSE {[c EXCEPT !.step = "list"]})
    /\ UNCHANGED <<batches, aged, log, cache, mutex, writer, sweep, crashes>>

\* closeBatch, its first statement.  An empty batch stays open and the close ends.
ListEvents(p, c) ==
    LET events == ListBatchEvents(c.batchID) IN
    /\ c.step = "list"
    /\ ConnectionFree(p)
    /\ Becomes(p, c, IF events = <<>> THEN {} ELSE {[c EXCEPT !.step = "write", !.events = events]})
    /\ UNCHANGED <<batches, aged, log, cache, mutex, writer, sweep, crashes>>

\* CloseBatch: an UPDATE that does not ask whether the batch is closed already.
Stored(c) ==
    batches' = [batches EXCEPT ![c.batchID].root = ComputeRoot(Leaves(c.events)),
                               ![c.batchID].leaves = c.events,
                               ![c.batchID].eventCount = Len(c.events)]

CloseBatch(p, c) ==
    /\ c.step = "write"
    /\ ConnectionFree(p)
    /\ Stored(c)
    /\ Becomes(p, c, {})
    /\ UNCHANGED <<aged, log, cache, mutex, writer, sweep, crashes>>

\* A statement of closeBatch fails, or the UPDATE is applied and its answer
\* lost.  After maxCloseRetries more attempts the batch is left to the sweep;
\* a retry lists the events again.
CloseFails(p, c) ==
    /\ c.step \in {"list", "write"}
    /\ \/ UNCHANGED batches
       \/ c.step = "write" /\ Stored(c)
    /\ Becomes(p, c, IF c.attempt >= MaxCloseRetries
                     THEN {}
                     ELSE {[c EXCEPT !.step = "list", !.attempt = @ + 1, !.events = <<>>]})
    /\ UNCHANGED <<aged, log, cache, mutex, writer, sweep, crashes>>

(***************************************************************************)
(* The worker's sweep, CloseExpiredBatches.                                *)
(***************************************************************************)

Sweeping(p) == sweep[p].todo # <<>> \/ \E c \in closing[p] : c.by = "sweep"

\* First the batch of the own cache, if it is too old: it leaves the cache.
SweepCache(p) ==
    LET old == cache[p].batchID \in aged IN
    /\ sweep[p].phase = "idle"
    /\ sweep' = [sweep EXCEPT ![p] = [phase |-> "cached",
                                      todo |-> IF old THEN <<cache[p].batchID>> ELSE <<>>]]
    /\ cache' = [cache EXCEPT ![p] = IF old THEN NothingOpen ELSE @]
    /\ UNCHANGED <<batches, aged, log, mutex, writer, closing, crashes>>

\* Mutant: the batch that is too old leaves the cache and is not closed, nor is
\* any other.
ForgetsOrphans == <<>>

\* ListOpenBatches: the oldest ListLimit of the open batches past maxAge.
OpenBatches ==
    LET open == Ascending({b \in aged : ~Closed(b)})[Len(batches)]
    IN  SubSeq(open, 1, IF Len(open) < ListLimit THEN Len(open) ELSE ListLimit)

ListOpenBatches(p) ==
    /\ sweep[p].phase = "cached" /\ ~Sweeping(p)
    /\ ConnectionFree(p)
    /\ sweep' = [sweep EXCEPT ![p] = [phase |-> "orphans", todo |-> OpenBatches]]
    /\ UNCHANGED <<batches, aged, log, cache, mutex, writer, closing, crashes>>

\* The batches of the list are closed one after the other.
SweepNext(p) ==
    /\ sweep[p].todo # <<>>
    /\ \A c \in closing[p] : c.by # "sweep"
    /\ closing' = [closing EXCEPT ![p] = @ \cup {Close(Head(sweep[p].todo), "sweep")}]
    /\ sweep' = [sweep EXCEPT ![p].todo = Tail(@)]
    /\ UNCHANGED <<batches, aged, log, cache, mutex, writer, crashes>>

\* The list is done, or could not be read: the ticker will call again.
SweepEnds(p) ==
    /\ sweep[p].phase \in {"cached", "orphans"} /\ ~Sweeping(p)
    /\ sweep' = [sweep EXCEPT ![p].phase = "idle"]
    /\ UNCHANGED <<batches, aged, log, cache, mutex, writer, closing, crashes>>

(***************************************************************************)
(* The environment.                                                        *)
(***************************************************************************)

\* maxAge passes for a batch; older batches are old already.
Age ==
    /\ Cardinality(aged) < Len(batches)
    /\ aged' = aged \cup {Cardinality(aged) + 1}
    /\ UNCHANGED <<batches, log, cache, mutex, writer, closing, sweep, crashes>>

\* The process ends: its transactions roll back, its memory is gone.
ProcessEnds(p) ==
    /\ crashes < MaxCrashes
    /\ crashes' = crashes + 1
    /\ cache' = [cache EXCEPT ![p] = NothingOpen]
    /\ mutex' = [mutex EXCEPT ![p] = NoWriter]
    /\ writer' = [w \in Writers |-> IF Home[w] = p THEN [pc |-> "idle", batchID |-> NoBatch]
                                                   ELSE writer[w]]
    /\ closing' = [closing EXCEPT ![p] = {}]
    /\ sweep' = [sweep EXCEPT ![p] = [phase |-> "idle", todo |-> <<>>]]
    /\ UNCHANGED <<batches, aged, log>>

BatchesInit ==
    /\ batches = <<>>
    /\ aged = {}
    /\ log = <<>>
    /\ cache = [p \in Procs |-> NothingOpen]
    /\ mutex = [p \in Procs |-> NoWriter]
    /\ writer = [w \in Writers |-> [pc |-> "idle", batchID |-> NoBatch]]
    /\ closing = [p \in Procs |-> {}]
    /\ sweep = [p \in Procs |-> [phase |-> "idle", todo |-> <<>>]]
    /\ crashes = 0

WriteEvent(w) ==
    \/ BeginTx(w) \/ CurrentBatchID(w) \/ BeginRollover(w) \/ CreateBatch(w)
    \/ CreateBatchFails(w) \/ CommitEvent(w) \/ RollbackEvent(w)

CloseStep(p) ==
    \E c \in closing[p] :
        MarkPendingClose(p, c) \/ ListEvents(p, c) \/ CloseBatch(p, c) \/ CloseFails(p, c)

Sweep(p) == SweepCache(p) \/ ListOpenBatches(p) \/ SweepNext(p) \/ SweepEnds(p)

BatchesNext ==
    \/ \E w \in Writers : WriteEvent(w)
    \/ \E p \in Procs : CloseStep(p) \/ ProcessEnds(p)
    \/ \E p \in Workers : Sweep(p)
    \/ Age

(***************************************************************************)
(* Fairness.  Time passes, the ticker of a worker calls the sweep again    *)
(* and again, a close that it has begun goes on, and a statement that is   *)
(* tried again and again succeeds at last.  Nothing is assumed of clients, *)
(* of the server's transactions and closes, which may wait for ever, and   *)
(* of failures; crashes end (MaxCrashes).                                  *)
(***************************************************************************)
BatchesFairness ==
    /\ WF_batchVars(Age)
    /\ \A p \in Workers :
         /\ WF_batchVars(CloseStep(p))
         /\ WF_batchVars(SweepCache(p)) /\ SF_batchVars(ListOpenBatches(p)) /\ SF_batchVars(SweepNext(p))
         /\ WF_batchVars(sweep[p].phase = "orphans" /\ SweepEnds(p))
         /\ SF_batchVars(\E c \in closing[p] : ListBatchEvents(c.batchID) # <<>> /\ ListEvents(p, c))
         /\ SF_batchVars(\E c \in closing[p] : CloseBatch(p, c))

BatchesSpec == BatchesInit /\ [][BatchesNext]_batchVars
BatchesLiveSpec == BatchesSpec /\ BatchesFairness

-----------------------------------------------------------------------------
(***************************************************************************)
(* Properties.                                                             *)
(***************************************************************************)

Task == [batchID : BatchId, by : {"async", "sweep"}, step : {"start", "list", "write"},
         attempt : 0..MaxCloseRetries, events : Seq(1..MaxLog)]

\* Every variable has its type.
BatchesTypeOK ==
    /\ \A b \in 1..Len(batches) :
         /\ batches[b].prev \in BatchId \cup {NoBatch}
         /\ batches[b].leaves \in Seq(1..MaxLog)
         /\ batches[b].eventCount \in Nat
    /\ Len(batches) <= MaxBatches
    /\ aged \subseteq 1..Len(batches)
    /\ log \in Seq(1..Len(batches))
    /\ cache \in [Procs -> OpenBatchState]
    /\ crashes \in 0..MaxCrashes
    /\ mutex \in [Procs -> Writers \cup {NoWriter}]
    /\ writer \in [Writers -> [pc : {"idle", "tx", "creating", "assigned"},
                               batchID : BatchId \cup {NoBatch}]]
    /\ \A p \in Procs :
         /\ closing[p] \subseteq Task
         /\ sweep[p] \in [phase : {"idle", "cached", "orphans"}, todo : Seq(BatchId)]

\* VerifyBatch answers: the root of the events now in the batch is the one stored.
VerifyBatch(b) == Verify(Leaves(ListBatchEvents(b)), batches[b].root)

\* A root never covers anything but the events of its batch, oldest first and
\* without a hole: what was committed when the closer listed them.  Events that
\* commit late can only be missing at the end (closeBatch, ListBatchEvents).
RootCoversPrefix ==
    \A b \in 1..Len(batches) : Closed(b) =>
        /\ batches[b].leaves # <<>>
        /\ batches[b].eventCount = Len(batches[b].leaves)
        /\ IsPrefix(batches[b].leaves, ListBatchEvents(b))

\* VerifyBatch says no exactly when events joined the batch after it was
\* closed: no other list of its events has the same root, the doubled last
\* node of an odd level notwithstanding (ComputeRoot, Verify).
VerifyIsExact ==
    \A b \in 1..Len(batches) : Closed(b) =>
        (VerifyBatch(b) <=> batches[b].leaves = ListBatchEvents(b))

\* The chain does not fork: of the batches that hold events, at most one
\* follows a given batch, even when the answer of CreateBatch was lost and the
\* rollover was done again; a process begins a chain of its own at its start
\* and after its sweep dropped an old batch (CurrentBatchID, the ledger's lock).
Heirs(prev) == {b \in 1..Len(batches) : /\ batches[b].prev = prev
                                         /\ ListBatchEvents(b) # <<>>
                                         /\ b \notin aged}
ChainDoesNotFork ==
    \A prev \in BatchId \cup {NoBatch} :
        Cardinality(Heirs(prev)) <=
            IF prev = NoBatch THEN Cardinality({Home[w] : w \in Writers}) + crashes ELSE 1

\* Every batch that holds an event is closed in the end, by the goroutine of
\* the rollover or by the sweep, whatever crashes and fails in between, and even
\* when the server has stopped for good because its transactions hold every
\* connection while one of them waits for another (CreateBatch in
\* CurrentBatchID); as long as the empty batches do not fill the sweep's list
\* (CloseExpiredBatches).  A batch that holds an event or is closed stays so:
\* there is no end to the times when all that hold events are closed.
EmptyOpen == {b \in 1..Len(batches) : ~Closed(b) /\ ListBatchEvents(b) = <<>>}
AllSealed == \A b \in 1..Len(batches) : ListBatchEvents(b) # <<>> => Closed(b)
EventsAreSealed == []<>(AllSealed \/ Cardinality(EmptyOpen) >= ListLimit)

=============================================================================
