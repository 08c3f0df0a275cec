# A TLA+ development of the fincore ledger

The ledger is a Go service over Postgres and Redis. Clients submit financial
operations over gRPC; a planner runs each one in a database transaction that
appends an event to the ledger's log and updates the projections (volumes,
holds, transactions, metadata). A worker process runs periodic sweeps. This
directory models the system from the client's checks to the migration of its
schema, checks it with TLC on small instances, and proves all 29 safety
properties that the passing runs check (a refinement is among them) with TLAPS,
for every number of workers, keys, requests, calls, processes, pages and events.
Five runs show where the code does not do what a comment, a document or a test of
the repository says of it.

## 1. The system

Server processes run one goroutine per request. All of them, and the worker
process, share the Postgres database; nothing in a process is shared between
requests but the batch manager's cache, the connection pool, the rate limiter
and the subscribers. Transactions are READ COMMITTED: a statement sees what is
committed when it runs, plus its own transaction's writes.

| component | state | operations | what is hard | what makes it correct |
|---|---|---|---|---|
| Write path (`planner/operations_post.go`, `_batch.go`, `_shared.go`, `storage/postgres`, `storage/redis`) | `log_events`, `idempotency_keys`, the Redis cache, the ledger's row | submit, dry run, batch, seal | two submits with one key; a lost acknowledgement; a deadlock victim's retry; a crash after the commit; cache expiry | the log is gapless and append-only, a key is used once, every answer is durable, the tiers agree |
| Balances and holds (`_shared.go`, `_holds.go`, `_convert.go`, `_revert.go`, `expire.go`) | `volumes_delta`, `holds`, `transactions`, `transaction_relationships` | post, convert, authorize, capture, void, expire, revert | reads before the lock; locks taken in two orders; the sweep's stale list | what is checked covers what is spent, captures stay within the authorization, a closed hold stays closed, projections follow the log |
| Approvals (`_approval.go`, `store_governance.go`) | `pending_approvals` | submit for approval, approve, execute, expire, recover | the last approvals arriving together; a crash while executing; a slow execution taken for a dead one | executed at most once, after all approvals; states tell the truth; no approval is stuck |
| Merkle batches (`log/batch`, `log/merkle`) | `log_batches`, a per-process cache, the pool | assign a batch, roll over, close, sweep, verify | an event joins a batch before it commits; a second connection inside a transaction; two closers | roots cover a prefix of their events, verification is exact, the chain does not fork, every event is sealed |
| Subscriptions (`subscriptions/manager.go`, Redis pub/sub) | subscriber channels, replayed IDs | publish, subscribe (replay, then live) | notifications lost, late or out of order; a full channel | nothing is missed without a loss the code knows of; nothing replayed comes again |
| Pagination, export and import (`List*` of `storage/postgres`, `service.go`, `sdk/client.go`) | page tokens, the restored log | list, export, import, seal | rows inserted between pages; imports that overlap, break off, race a writer | a listing has every row and ends; a restored log is a prefix of its source |
| Metadata and amendments (`_metadata.go`, `store_metadata.go`, `store_transactions.go`) | metadata of accounts and transactions, `metadata_history`, relationships | post, revert, set, delete, amend | JSON null; history against current values; a recursive query | an amendment is an overlay; the history gives back the current value; lineage is what is asked for |
| Chart of accounts (`ir/schema.go`, `_schema.go`) | `schemas` | store, validate | patterns that overlap | the verdict equals the declarative reading |
| gRPC service, policies, rate limiter, authentication (`api/grpc`, `policy`) | calls, counters in Redis, policies in force | every method of the service | a policy replaced under way; a clock read before the count; a stop; a lost answer | refusals leave no trace, retries agree, limits hold, effects were allowed |
| Clients (`pkg/sdk`, `cmd/ledgerctl`) | none | build an intent | local checks that differ from the server's | what they refuse the server would refuse; what they send is what was meant |
| Volume checkpoints (`projection/volumes`) | `volumes_checkpoint` | roll up | a cut taken while writers commit | a checkpoint is the total up to its watermark |
| Worker (`cmd/worker`) | tickers, failure counts | four sweeps with backoff, shutdown | failures that repeat | a sweep runs again after failures |
| Migrations (`storage/postgres/postgres.go`, `migrations`) | the schema, its records | up, down, file by file | several processes at once; death between files | the schema is always a prefix of the files; success means all of it |

How they meet: clients build intents that the service checks (token, limit,
scope, policy) and hands to the planner; the write path is the frame of every
submit; balances and metadata are what happens between its checks and its
commit; an approved intent is executed by a submit under a key of its own;
`appendEvent` asks the batch manager for a batch; a committed submit is
published to the subscribers; the worker expires holds and approvals, closes
batches and builds checkpoints, in a schema the migrations make. `PROJECT.json`
lists every component with its status and every hazard with the line where it
bites.

## 2. Modules

| module | models | built on |
|---|---|---|
| `WritePath` | a request from the seal check to the answer, for one ledger | |
| `AtMostOnceLog` | the promise: an append-only log with unique keys, acknowledged after the fact | |
| `WritePathInvariant`, `WritePathProofs` | the inductive invariant `IInv`; theorems | `WritePath` |
| `Balances` | money and holds of one ledger | |
| `BalancesInvariant`, `BalancesProofs` | its inductive invariants; theorems | `Balances` |
| `Approvals` | the life of one approval | |
| `LogOrder` | the log as it is listed, by `ledger_seq` | |
| `MerkleBatch`, `MerkleBatchProofs` | batches, their chain, closing and verifying; theorems | `LogOrder` |
| `Subscriptions`, `SubscriptionsProofs` | the live feed of one ledger; theorems | `LogOrder` |
| `Transfer`, `TransferProofs` | the listings, export and import; theorems | |
| `ChartOfAccounts`, `Metadata`, `MetadataProofs` | the chart as operators; metadata, history, lineage, schemas; theorems | each extends the one before |
| `Messages`, `Client`, `Access`, `Service` | the protocol; what clients send; token, limits and policy; the calls | each extends the one before |
| `ServiceInvariant`, `ServiceProofs` | its inductive invariants; theorems | `Service` |
| `Migrations`, `Checkpoints`, `Worker`, `Deployment` | schema, checkpoints, the loop of a job; a worker over a schema that comes and goes | `Deployment` composes the three |
| `WorkerProofs` | theorems about the tables the worker's sweeps work on: approvals, checkpoints, and the schema they are in | `Deployment`, `Approvals` |
| `MCWorker` | batches, migrations and checkpoints, one part at a time | `MCMerkleBatch`, `MCDeployment` |
| `MCClients` | approvals, the feed and the listings, one part at a time | `MCApprovals`, `MCSubscriptions`, `MCTransfer` |
| other `MC...` | instances for TLC | |

Definitions named "Mutant: ..." in a comment are plausible bugs. Nothing uses
them; each one can stand in for the definition that follows, and TLC then
reports the property it is aimed at.

### WritePath

State: `rows` are the committed rows of `log_events`, `pending[w]` the
uncommitted ones of worker `w`'s transaction, `ikeys` the table
`idempotency_keys`, `redis` its cache, `rowLock` the `FOR UPDATE` lock on the
ledger's row, `worker[w].pc` the place in `submitWithIdempotency` or
`SubmitBatch`. An event ID is named after the request, the attempt and the
intent that minted it: ULIDs are fresh, and nothing here compares them.

Actions, in the order of the code: `Receive`, `CheckLedgerNotSealed` (outside
the transaction), `CheckRedis` and `CheckPG` (the two tiers of
`checkIdempotency`, with the hash comparison), `DryRun`, `AppendEvent` (lock,
`MAX + 1`, insert with its three unique constraints; any unique violation is
reported as a key conflict), `Commit` (with the idempotency record; the
acknowledgement may be lost), `PostCommitIdempotency`, `PublishEvent`,
`AnswerBatch`, `ResolveIdempotencyConflict`. `Fail` is any error before the
commit, a business error of the operation included; `Crash` is the end of the
process; `Deadlock` is Postgres picking the waiter as a victim, with
`withDeadlockRetry`. `SealLedger` and `RedisExpire` are the environment.

A `BEST_EFFORT` batch is a sequence of submits and has no action of its own. In
an `ALL_OR_NOTHING` batch only posts pass on their key, they carry no hash, and
nothing is cached or published: the model says the same.

### Balances

State: `db` holds the committed tables, `draft` the same tables as the holder
of the ledger's row sees them. Everything a transaction writes it writes after
`appendEvent`, under that lock, so one draft is enough. `holdLocks` are the
`FOR UPDATE` locks `TxStore.GetHold` takes before the ledger's row.

Actions: `Begin` (for the sweep: the hold is on the list it has read),
`StartPosting`, `StartRevert`, `LockHold`, `GetBalance` and
`GetActiveHoldsTotal` (`availableBalance` is two statements with two
snapshots), `Write` (the event and all projections, with the guards repeated by
the `UPDATE`s and the primary key of `volumes_delta`), `Commit`, `Fail`,
`Deadlock`. Which sums are demanded follows the code to the letter: a post
counts what it credits to its own sources, a conversion checks only its source,
a revert checks each leg alone unless forced, captures check nothing because the
hold has reserved the money.

Deadlines of holds are abstracted to "the sweep has listed it", since no other
code compares them. Idempotency, sealing and event IDs are the write path's.

### Approvals

State: the columns of one row of `pending_approvals`, the row's lock, whether
the execution's event and the audit event are committed, and where each caller
of `Approve` and each sweep stands. `executions` is a history variable. Clocks
are two Booleans, `overdue` and `stuck`, that the environment sets.

Actions: `SubmitForApproval`, `Approve`, `LockApproval`, `AddApproval` (with the
second look and the commit), `ExecuteIntent` (success, failure, or a commit
whose acknowledgement is lost), `Reject` and `Finish` (the first unguarded, the
second guarded), `RecordAuditEvent`, and for the sweep `ListExpiredApprovals`,
`ExpireListed`, `ListStuckApprovals`, `LookupExecution`, `ResolveStuck`.
`Crash` and `SweepFails` may strike anywhere. That an execution commits at most
one event under its key is what `WritePath` establishes.

### MerkleBatch

State: `batches` are the rows of `log_batches`; `log` gives each event's batch
in the order of `ledger_seq`; `cache[p]` is the manager's open batch in process
`p` and `mutex[p]` its lock; `writer[w]` is a goroutine inside a transaction;
`closing[p]` are the close tasks under way and `sweep[p]` the worker's sweep. A
transaction is a connection of the pool; a rollover needs one more
(`ConnectionFree`). Hashes are terms (no two inputs collide), so that roots are
equal exactly when their trees are; time is the set of batches older than `maxAge`.

Actions: `BeginTx`, `CurrentBatchID`, `BeginRollover`, `CreateBatch` (its answer
may be lost: `CreateBatchFails`), `CommitEvent` and `RollbackEvent`, the close
(`MarkPendingClose`, `ListEvents`, `CloseBatch`, `CloseFails` with its retries),
the sweep (`SweepCache`, `ListOpenBatches`, `SweepNext`, `SweepEnds`), `Age` and
`ProcessEnds`. The tree is a pure function of the leaves: `Levels` are the levels that
the loop of `ComputeRoot` goes through.

### Subscriptions

State: `committed`, the log in the order of commits, which is not that of the IDs; the
notifications not yet sent (`unpublished`) or never sent (`lost`); per
subscriber the replay's page and token, `replayedIDs` and `highWaterMark`, the
channel `ch`, Redis' `inbox` and what the client has (`sent`). `missed` and
`dropped` are history: the losses the code knows of (a message while the
connection is down, a full channel).

Actions: `MakeId`, `Commit`, `Rollback`, `PublishEvent`, `PublishFails`;
`Subscribe`, `RedisSubscribed` (the subscription becomes active some time after
`rdb.Subscribe` returns), `RedisDisconnects`, `ReadPage`, `ReplayEvent`,
`ReplayDone`, `Receive` (dedup, filter, fetch, non-blocking send),
`SendToClient`, `Leave`.

### Transfer

One client follows the tokens of one of six listings, chosen at the start, while
`Insert` adds rows and `Resolve` takes approvals off the pending list. Each
listing has its own operator, since their orders and the columns they compare
the token with differ. When the table is the log, what the reader got is what
Export gave, and `Importers` send intervals of it to a fresh ledger
(`SendImport`, `ImportFirst`, `ImportEvent`, `ImportEnds`) beside a writer that
takes a number and commits later, and a `Seal`.

### Metadata and ChartOfAccounts

Every operation holds the ledger's row from its event to its commit, so one
action is one committed transaction. A revert and an amendment read their original
before that (`FindOriginal`): `originals` are the reads that operations under way
may still go on with, however many commits later. Metadata is the `jsonb` it is stored as:
null, object or array, with `||` and `-` as Postgres defines them. Actions:
`SubmitPost`, `SubmitRevert`, `SubmitAmend`, `SubmitSetMetadata`,
`DeleteAccountMetadata`, `DeleteTransactionMetadata` and `SubmitInsertSchema`;
`GetRelationships` is the recursive query, round by round: each round joins what
the last one found, down from a parent and up from a child. `ChartOfAccounts` has
the walk, one segment of the address after the other, with all nodes the order of
a Go map may lead to (or nowhere), and `OnChart`, the declarative reading it is
compared with.

### Messages, Client, Access, Service

`Messages` are the records of the protocol, reduced to the fields a decision
depends on; text in which a colon means something is a sequence of parts.
`Client` are the checks of the SDK and the parser of `ledgerctl`. `Access` has
the token, the class and counter of a call and the policy language. `Service` is
the state machine: a call arrives (authentication), is counted (`Incr`: the
window is read at the arrival, the count comes later; `IncrFails` lets it
through), and is handled. `Submit` evaluates the policy in force, records a
denial in a transaction of its own, parses, checks keys and writes; a batch runs
item by item or all at once. `KeyOf` is the key an item's event is stored with: of
an `ALL_OR_NOTHING` batch the posts keep theirs and nothing else does
(`operations_batch.go:183-241`). `InsertPolicy`, `RedisFails`, `Cancel`, `Stop`,
`StopEnds`, `Crash` and `Start` happen between any two steps. A write is one
event here: `WritePath`, `Balances` and `Metadata` say what it is made of, and
the calls of `Approvals`, `Transfer` and `Subscriptions` are in those modules.

### Migrations, Checkpoints, Worker, Deployment

`Migrations`: any number of processes run `MigrateUp` and `MigrateDown` over the
four files; a file and its record are one transaction, a rollback has no record;
`MigrationFails` is an error or a death between two statements. `catalogue` says
whether a ledger exists (`CreateLedger` of `Deployment`): from then on the rollback
of 001 fails, because it deletes a bucket that `_system.ledgers` refers to. `Checkpoints`:
the deltas of one account and asset, whose transactions take the time first and
commit later, and the builder's query and upsert. `Worker`: the loop of one
goroutine with its backoff, and the shutdown; the four goroutines share nothing
but the shutdown, so one is enough. `Deployment` puts them together: a job
started before its tables exist fails and backs off, a rollback takes its tables
away, a shutdown cancels it.

## 3. Runs

| run | instance | distinct states | what it shows |
|---|---|---|---|
| `MCWritePath` | 3 workers, 1 key, 2 inputs, 3 requests out of 6 kinds, 1 retry | 1,240 k | gapless, at-most-once, atomic; tiers agree; `AtMostOnceLog` is implemented |
| `MCWritePathLive` | 2 workers, a submit and a batch, 3 requests | 43 k | every request ends |
| `MCBalances` | 3 workers, 3 requests out of 10 kinds, one open hold | 173 k | holds are respected under any interleaving, projections follow the log, only stale checks overdraw, every transaction ends |
| `MCMetadata` | 4 events, 3 transactions, 1 read under way, 1 key with 2 values, several charts | 1,561 k | transactions and history follow the log, lineage and chart verdicts are stated exactly |
| `MCService` | 2 concurrent calls out of 17 kinds, 2 keys, a limit of 1 write a second, 1 fault, 2 seconds | 1,067 k | true answers, agreeing retries, the limit, allowed effects, clients that agree with the server |
| `MCWorker`, batches | a server with 3 writers and as many connections, a worker, 3 events, 2 batches, 1 crash | 210 k in all | roots cover prefixes, verification is exact, no fork, events are sealed even if the pool waits for itself |
| `MCWorker`, migrations | 2 processes, 3 runs of `MigrateUp` or `MigrateDown`, a ledger created under way | | the schema is a prefix of the files |
| `MCWorker`, checkpoints | 1 migrating process with 2 runs, 1 delta, 2 times, backoff up to 2 | | deltas are rolled up, the schema is a prefix |
| `MCClients`, approvals | 3 callers, 1 sweep, 2 required approvers of 3 principals, 1 audit retry | 659 k in all | four eyes, one execution, truthful "executed"; nothing stays pending or executing |
| `MCClients`, feed | 1 subscriber, 3 events, pages of 2, a channel for 2 | | nothing is missed silently or delivered twice, within the limits section 5 names |
| `MCClients`, transfer | each of 6 listings, 3 rows, pages of 1 and 2, 2 imports, a writer, a seal | | a restored log is a prefix, listings end |
| `MCBalancesOverdraft` | 2 workers, one coin | | violation: section 5 |
| `MCSubscriptionsReplay` | 1 subscriber, 3 events, a page and a channel of 1 | | violation: section 5 |
| `MCTransferListing` | ledgers and events, 3 rows, pages of 1 and 2 | | violation: section 5 |
| `MCMetadataAmend` | as `MCMetadata` | | violation: section 5 |
| `MCDeploymentTotals` | 1 migration, 2 deltas, 2 times | | violation: section 5 |

`MCWorker` and `MCClients` are sums: `part`, chosen at the start, says which part
runs, and the others stand at their initial state. The parts share neither tables
nor memory (migrations and checkpoints share the schema, and run together), so
what one does is the same with the others beside it; in its initial state no part
owes anything, so each property says of a behaviour what it says of its part.

A run lists what is worth a run. The type invariants (`TypeOK` of each module)
and the inductive invariants of section 4 hold on the same instances, where they
were tried before they were proved; a theorem is checked again whenever its
module changes.

Why the bounds are enough. One key and two hashes suffice for the write path:
keys interact only when they are equal. Three requests give a winner, a loser and
a latecomer that finds the cache filled, empty or expired; two-intent batches give a
failure in the middle and a key repeated inside the batch; one retry gives a
second attempt with a stale first. For balances, three concurrent transactions
on one hold cover the cycle of two locks and a third party that profits from it;
amounts are chosen so that two spends exceed what one may take, and that a
capture can be partial, exact and too large. Approvals do not share state, so one
row is enough; three callers let two complete the set together while a third
retries, and the sweep acts on lists the callers have made stale.

Among the batches of `MCWorker` three writers of one process contend for its mutex
and for a pool that their own transactions can use up (two of them leave one
connection to a rollover, three leave none), while the other process
sweeps; two batches give a predecessor, an heir and an
orphan, three events an odd level of the tree and a late event; a crash forgets a
cache. For the feed three events are enough for one overtaking another
during a replay of one page and for a replay of two; the channel is as small as
the page, so it can fill. For listings a page of one makes every second row lie on
a boundary; two imports and a writer are the three parties that can take
a number. In `MCMetadata` four events reach a post without metadata, its
amendment, a deletion and a revert, and three transactions are a chain with a
turn. `MCService` needs two calls to race for a key, a counter and a policy, and
one fault to strike between any two steps of either; two calls after each other
are a retry. Two processes with three runs between them can migrate up, down and up
again, one overtaking the other at any file, before or after a ledger is created;
any number of them are covered by the theorems. Beside the checkpoint job one
process goes up and down. In `MCSubscriptionsReplay` and `MCTransferListing` sizes
are scaled down from hundreds to one, with the ratios of the code: a replay may
be larger than the channel, a listing longer than a page.

`executions` is not bounded by any guard: that it stays at most 1 is a result.
Symmetry (of workers) is used in `MCWritePath` only, which has no liveness
property. Deadlock checking is off because all requests may have been served.

Fairness. A goroutine that can run does (`WF` of a worker's step). Postgres
grants a row lock in the order of waiting, so a worker that waits for the
ledger's row while others keep taking it is served in the end (`SF` of
`AppendEvent`); its deadlock detector always ends a cycle of waiting, hence
`Deadlock` is among the fair steps of `Balances`. A ticker calls its job again
after any failure (`runTickerWithBackoff`), and a statement tried again and
again succeeds at last: this is the `SF` of the approval sweep's statements, of
the batch sweep's list and close, and of the checkpoint job's query and upsert.
Clocks advance: the two of an approval, the age of a batch. In `MerkleBatch`
only the worker is fair; the server's transactions and closes may wait for ever,
and crashes come to an end (`MaxCrashes`). In
`Subscriptions` replay, receiver and stream run while they can; Redis owes
nothing. In `Transfer` the only assumption is that a client with a token asks
for the next page. Nothing is assumed of clients who have not begun, of
failures, crashes, sealing, cache expiry, migrations or shutdowns. `Metadata`
and `Service` are checked for safety only and state no fairness. In `MCWorker` and
`MCClients` the fairness is that of the part that runs. `MCSubscriptionsReplay` assumes that replay,
receiver and stream run while they can, and finds a replay that cannot.

## 4. Theorems

Each component's theorems rest on one inductive invariant: true at the start,
kept by every action (one lemma or step per action), and stronger than what it is
for. None bounds the number of actors; the named bounds of the models (`MaxLog`,
`MaxRequests` and so on) are arbitrary numbers.

| module | invariant | from it, for the properties the runs check |
|---|---|---|
| `WritePathProofs` | `IInv` | `GaplessLog`, `TiersAgree`, `AllOrNothing`, `SameKeySameEvent`, `GrowsAtTheEnd`, `ImplementsAtMostOnceLog`; also `TypeOK`, `AckedIsDurable`, `RefusedLeavesNoTrace` |
| `BalancesProofs` | `IInv`, `BInv` | `CapturedWithinAuthorized`, `ClosedHoldsAreFinal`, `ProjectionsFollowLog`, `OnlyStaleChecksOverdraw`; also `HoldsFollowLog`, and `LocksExclusive` with `HoldsChecked` |
| `WorkerProofs` | `ApprovalInv`, `SchemaInv`, `CheckpointInv` | `FourEyes`, `ExecutedAtMostOnce`, `ExecutedIsReal`, `SchemaIsPrefix`; also `AuditedAtMostOnce`, `UpMeansSchema`, `CheckpointsAddUp` |
| `MerkleBatchProofs` | `BInv` | `RootCoversPrefix`, `VerifyIsExact`, `ChainDoesNotFork`; also `RootsTellListsApart`, about the tree alone |
| `SubscriptionsProofs` | `SubInv` | `NoDuplicates`, `NothingMissedSilently` |
| `TransferProofs` | `TInv` | `RestoredIsPrefix`; also `OnlyTokensAreSkipped` |
| `ServiceProofs` | `ServiceInv`, `LimiterInv` | `AnswersAreTrue`, `RetriesAgree`, `EffectsWereAllowed`, `WindowLimit`; and `ClientsAgreeWithServer`, from the definitions alone |
| `MetadataProofs` | `MetadataInv` | `TransactionsFollowLog`, `HistoryRebuilds`, `RelationshipsAreLineage`; `ChartIsExact`, from the definitions alone; also `TypeOK`, and `LineageToEveryDepth` and `WalkIsExact` about the query and the walk |

Assumptions. Each module names what it asks of its constants in an `ASSUME`, and
TLC evaluates it on every run: null values are outside their sets, bounds are
natural numbers, sets of writers and subscribers are finite, a submit has one
intent and a batch is not a dry run, "writer" is not the name of an import,
addresses are sequences of strings. Two are more than that. `SetupAssumption`
(`BalancesInvariant`) says that the tables a ledger of `Balances` starts with are
tables the planner could have written, with projections that follow their log. It
is true of the empty database, and TLC evaluates it for the set-up of each run.
`IntendedAssumption` (`Service`) says that a posting typed on the command line has
all its fields: in this model, text that is empty is not told apart from text that
is missing.

### WritePath

That a new row gets a fresh number needs `LockDiscipline` (uncommitted rows exist
exactly under the row lock) and `Numbering` (an open transaction continues the
committed numbers without a gap: the unique constraint never fires on a number).
That the winner of a key is unique needs `KeysUsedOnce` for the rows of open
transactions too. That an answer is durable needs `Applied`: between the commit
and the answer the worker's events are in the log and its idempotency record is
stored. That a conflict leaves no trace needs `NotApplied` and `PendingRows`,
which tie a transaction's rows to the intents it has run, and `Bookkeeping`: one
worker per unanswered request. `Refinement` then maps the committed rows to the
abstract log: a commit is one append of `AtMostOnceLog` with fresh keys, an
answer is its acknowledgement, and every other step leaves the abstract state
alone.

### Balances

What makes a check of a hold worth anything is the lock taken with it. `IInv`
says that a hold's row has one locker (`LocksExclusive`), that the holder of the
ledger's row has changed no committed hold but those it locks (`DraftFollowsDb`),
and hence that what `LockHold` found is still so when the transaction writes,
after any number of other commits (`HoldsChecked`). `Sound`, of the committed
tables and of the draft, is what these writes keep: the columns of the holds are
what the log says, amounts add up to the log's, and the event that closes a hold
is its last. It shows that the `UPDATE`s' own guards are not what keeps captures
within the authorization: the lock already does.

Balances are another matter: between the check and the write of a transaction's
first operation no lock protects what was read, and `NonIssuerNeverNegative` is
false (section 5). `OnlyStaleChecksOverdraw` says that this is the only way: an
operation that leaves an account with less than its holds reserve, and that checks
its debits, was checked before its transaction had the ledger's row, and a balance
it checked has changed since. Its proof has two halves.

The first is that the demands of an operation are enough (`ApplyCovered`). Captures
have none: the hold gives up exactly what the posting takes. A post counts what it
credits to its own sources, and its debits of one account in one asset are summed.
A revert checks its legs one by one, which would not do for two legs that debit
the same account; but the primary key of `volumes_delta` forbids the original to
credit one bucket twice, and so its revert to debit one twice. `Guarded` leaves out
what the code does not check: a forced revert, and a conversion whose destination
is no issuer.

The second is that under the lock nothing moves between the check and the write:
`BInv` says of the holder of the ledger's row that each demand of its operation is
met in the draft, is being checked, or is still to be checked (`DemandsChecked`);
of every worker that the transaction it is to revert is still there
(`OriginalFound`); and that a draft loses no committed transaction
(`DraftKeepsTxs`). So the later operations of a batch, which are checked under the
lock, never overdraw.

### Approvals

The invariant adds what the row lock gives (`LockedWhileAdding`: whoever is
between the check and the commit holds the lock and finds the approval pending),
that an intent handed to a caller has left "pending" for good (`OneExecution`),
and that whoever is about to write "executed" has seen the event (`EventSeen`).
It shows that the recovery sweep is not needed for uniqueness, and cannot
endanger it.

### MerkleBatch

A list of events read for a close may be old when its root is written, and two
closers may write one after the other, the older list last. `RootInv` says what
survives this: whatever is read is a `Beginning` of what the batch will ever
list, because events join at the end, so any root written is that of a beginning.
`VerificationIsExact` needs the converse: equal roots only for equal lists. This
is `RootsTellListsApart`. The node that `ComputeRoot` doubles at an odd level
could make the lists <<a, b, c>> and <<a, b, c, c>> equal; it does no harm
because the events of a list, and with them the nodes of each of its levels, are
all different. The proof goes level by level, from the top to the leaves.

For the chain, `LockInv` says that the manager's lock makes a rollover the only
one of its process, `OneTip` that no two processes continue the same batch, and
`TipsEnd` that nothing in use follows a tip yet, though a batch whose creation
was not acknowledged may be in the table: `Live` leaves it out. `HeadsInv` counts
the batches that follow none: each is accounted for by a process that writes or
by a crash.

### Subscriptions

`Once` ties what was delivered to what may still come: a delivered event is
remembered as replayed or its notification has come already. `Complete` is about
the gap between the replay and the live feed: once the only page of the replay is
read, every wanted event is delivered, on the page, on its way, or lost in one of
the ways the code knows. Both need that an ID is announced at most once
(`LogInv`, `Notifies`).

### Transfer

`ListingInv` says that the token splits the table: rows at or below it have been
dealt with, no row above it has been read, so a row inserted between two pages
does no harm. It holds for the four listings whose order and token are the same
column. For imports, `ImportInv` says that a call has inserted exactly the
numbers before the one it expects, `TargetInv` that the numbers have no gap, and
`WriterInv` that the numbers below the writer's are taken. Several calls may find
the ledger fresh, but only one gets number 1, and whoever did not fails at its
first event.

### Deployment

A prefix of the files alone is not inductive: a process that goes up skips what
is recorded, and what is recorded may have been rolled back. `SeenRecords` says
that whoever is at a file has seen the records of those before it; `RolledBack`,
that a rollback gets past 030 only when 020 was there and recorded, so that nobody
applies 020 again after it is gone; `Gone`, that objects can only be missing under
a record together with 020's; and `RecordsAreTrue`, that without a rollback
records and objects are the same.

`CheckpointInv` says of the row in the builder's hands that it counts deltas no
checkpoint covers (`PendingIsNew`) and that, with it, everything covered in time
is counted (`CoveredIsCounted`). It needs `SchemaInv`: tables that were dropped
under a running job are never made again, so the job's row cannot reach new ones.

### Service

`ServiceInv` is an invariant for each call at each place it can be: what it has
passed (`Passed`: token, scope and limit, and a policy that allowed it at some
time since it arrived), what it can have written by now (`Placed`, `Refused`), and
what its answer says about that, for a submit (`Single`) and for a batch
(`Batched`). `EventInv` reads the same from the other side: an event was written,
on its call's ledger, by a call that was entitled to it. `UniqueKeys` is the
unique index, and with `Single` it makes retries agree: whether a call wrote its
event or found it, it names the only one with the key. A policy that is replaced
between the evaluation and the commit does no harm to the statement, which asks
for one that was in force in between.

The counter of a second is made by the first call that is counted in it and
expires `WindowTTL` seconds later, while calls that read the clock in that second
may still be on their way. `Counted` are the admitted calls counted before that
expiry is possible; `CounterInv` says that they are at most what the counter
shows, that the counter is still there while they can grow in number, and that a
call is admitted only up to the limit. Calls counted later start a new counter,
which is why `WindowLimit` leaves them out.

`ServiceClientsAgree` needs no invariant: the SDK's checks imply the server's
refusals by cases, and the fields `ledgerctl` takes from a text that the server
accepts can only have come from cutting it where its author did.

### Metadata

The two readings of the log, `AsLogged` (a transaction's metadata) and `Rebuilt`
(an account's or transaction's, from the history), are functions of how much of
the log has been read. An event appended at the end changes neither for what came
before, provided that nothing in the books points past their end: `BooksInv` says
that no event and no history row is about a transaction still to come and that
revisions are numbers of events in the log. `TxsInv` and `AccountsInv` then say that what is
stored is what is read, `AccountsInv` also of accounts that have no row: keys may
have been deleted from them, and the history must still rebuild to an empty object
when the first `SET` makes one.

`RelationshipsAreLineage` needs that relationships are a forest (`OneParent`): a
transaction comes from at most one other, the one it reverts or amends. Without
it the turn of the query at an ancestor could lead anywhere. `LineageToEveryDepth`
is then an induction over the rounds of the query. `WalkIsExact` is an induction
over the segments of the address: the node the walk is at is one that the segments
so far match, and, where no two names of a level match, the only one.

### Induction

The library's induction theorems have an operator as a parameter, which the
installed provers cannot instantiate. `NumbersByInduction` states induction for a
set of numbers instead (a set that has 0 and the successor of each of its members
has them all), and that is enough for functions that recurse over numbers: that
`Ascending`, `Levels`, `SumUpTo`, `AsLogged`, `Rebuilt`, the rounds of a query, the
steps of a walk and the totals over a log obey their equations at every number,
that such a total after one more event is the total before and that event, that a
nonempty set of numbers has a least one. Each module of proofs states the few
lemmas of this kind that it uses.

### Only model-checked

Liveness (`EveryRequestEnds`, `EveryTransactionEnds`, `EveryApprovalEnds`,
`EventsAreSealed`, `EveryListingEnds`, `DeltasAreRolledUp`): fairness and `ENABLED`
are out of the prover's reach.

## 5. Where code and statements disagree

Five runs show them as counterexamples:

- `MCBalancesOverdraft`. Balances are read before the row is locked, in READ
  COMMITTED, so two posts spend the same money and `NonIssuerNeverNegative` fails
  ("Non-issuer balance never negative", test T-010; "the read is TOCTOU-safe",
  `operations_shared.go:130`).
- `MCSubscriptionsReplay`. `Subscribe` sends what it replays to a channel with room
  for a hundred events before it returns the channel, so a longer replay waits for
  ever and `SubscribeReturns` fails, although "maxReplayEvents bounds historical
  replay" at 100,000 (`manager.go:18`).
- `MCTransferListing`. The page token is the first row of the next page, and the
  next query asks for rows after it: one row per page boundary is in no page, and
  `EveryRowIsListed` fails ("receive every ledger", `sdk/client.go:129`; "streams
  the full event log", `service.go:525`). `ListingsSkipOnlyTokens` says that
  nothing else is skipped.
- `MCMetadataAmend`. A transaction posted without metadata stores JSON null, and
  null `||` an object is an array, which the reader cannot decode:
  `AmendmentsOverlay` fails ("overlays metadata", `operations_shared.go:748`,
  `docs/planner.html:212`, `docs/analysis.html:508`).
- `MCDeploymentTotals`. A delta that commits under an existing watermark is in no
  total, and a checkpoint is the total of an increment: `RunningTotals` fails ("the
  running total up to a watermark", `checkpoint.go:14`). `TotalsAddUp` says what is
  true: increments do not overlap, and lose only deltas that commit late.

The others are part of the models and are described here; the properties are
stated so that they hold with them, and their comments name them.

Write path, balances, approvals:

- Two submits with one key and different inputs that run concurrently: the loser
  is answered with the winner's event, because `resolveIdempotencyConflict`
  (`operations_shared.go:41`) does not compare hashes (test T-022).
- The seal is checked before the transaction and never again
  (`planner.go:91`): a write may commit after the seal.
- Two concurrent reverts both find the transaction not reverted and both commit
  (`operations_shared.go:630`), against test T-082, "Cannot revert twice"
  (`t080_reverts_test.go:61`): the race of `MCBalancesOverdraft` on another read.
- A conversion debits its destination without a check, so a destination that is no
  issuer may be overdrawn; a forced revert checks nothing.
- A self-posting violates the primary key of `volumes_delta`
  (`001_init.up.sql:107`, test T-004).
- An executed approval may be marked expired: the sweep writes "expired" without
  a guard on the state (`operations_approval.go:280`), and its second half may
  look for the event of a slow execution before it commits.

Batches, subscriptions, paging, import:

- An event that commits after its batch was closed is not under the root, and
  `VerifyBatch` says so for good.
- A live event with a larger ID clears the replayed IDs, so the notification of a
  replayed event that is still under way is delivered again; `NoDuplicates` is
  about the time before that.
- A replay of several pages lacks the rows at their boundaries too.
- A rollover takes a second connection while its transaction holds one: when all
  connections belong to such transactions, they wait for each other until their
  clients give up (`operations_shared.go:77`, `manager.go:106`). The pool of
  `MCWorker` is small enough for this to happen.
- The error of an import that is too long says "split into multiple calls"
  (`service.go:627`), but a second call finds the ledger not fresh. After its
  first event an import does not look at the seal.

Metadata, schemas:

- Deleting a key of an account has no effect: the rest is merged into the old.
- A schema's document is stored as a base64 string, which is no chart, so strict
  enforcement refuses every posting. Where patterns overlap, the verdict depends
  on the order of a map.
- `GetRelationships` turns round at an ancestor that has a parent, and brings in
  siblings.

Service, clients:

- The keys of all items but posts of an `ALL_OR_NOTHING` batch are ignored: a
  repeated batch of keyed captures or authorizations is written again
  (`operations_batch.go:186-241`). `RetriesAgree` is about keys that are stored.
- A denial is recorded even for a ledger that is sealed.
- `dry_run` is honoured by posts only. A failed item of a `BEST_EFFORT` batch may
  have committed. A repeated conversion does not say it is a hit. A batch's item
  whose key was used by another batch is `Aborted`: it has no record to be found.
- The SDK's checks "only reject inputs the server would also reject": true of
  postings and conversions without slippage, false of the source and asset of an
  authorization, the destination of a capture and slippage.
- `ledgerctl` cannot post to an account with more than one segment, because its
  fields are separated by colons too; the server refuses what it misreads.
- `InsertPolicy` has no caller in the service, and the RPC `InsertSchema` is
  unimplemented.

Deployment:

- `MigrateDown` never clears `_ledger_schema_migrations`: an Up after it skips
  every file and reports success, and an interrupted Down can be neither completed
  nor undone. `UpMeansSchema` is about deployments nobody has rolled back.
- Two workers would count deltas twice, and no balance is read from checkpoints.
- The rollback of 001 fails once a ledger exists (`001_init.down.sql:11`).
- The "exponential backoff" of the worker (`cmd/worker/main.go:147`) grows by one
  tick per failure. The shutdown waits up to 30 seconds, longer than fx's default
  stop timeout; the server's `GracefulStop` waits for Subscribe streams, which end
  only when their clients leave.

## 6. Where to go from here

Every safety property of the passing runs is a theorem. When the code changes:

1. Should the balance be read after the ledger's row is locked, `GetBalance` and
   `GetActiveHoldsTotal` get the lock as a guard. Then `DemandsChecked` is about
   every operation, `MCBalancesOverdraft` becomes a passing run as far as operations
   are `Guarded`, and its proof is the one of `OnlyStaleChecksOverdraw` without the
   case of a stale check.
2. Should the page token become the last row of its page, `EveryRowIsListed` is
   what `OnlyTokensAreSkipped` says without its exception, with the same
   `ListingInv`, and `MCTransferListing` becomes a passing run.
3. Should `MigrateDown` clear its records, `RecordsAreTrue` holds without its
   hypothesis, and `UpMeansSchema` is about every deployment.

## 7. Not modelled

Signatures, key sets and token expiry are cryptography and I/O: a token is valid
or not. Configuration, start-up wiring, metrics and health endpoints keep no state
of the ledger. Of the generated protocol code only the messages and methods the
service decides on are modelled; marshalling, accessors and the REST gateway are
generated and stateless. Amounts are natural numbers: `big.Int` does not overflow.
The regular expressions of addresses, assets and amounts are a classification of
the instance's texts. The values that reads answer with are left out of `Service`
(`GetBalance` with holds reads twice, as `availableBalance` of `Balances` does).
Postgres and Redis appear by what the code relies on: READ COMMITTED visibility,
row locks, unique constraints, deadlock detection, atomic commit, a bounded pool,
a cache and a pub/sub that may fail or forget.
