------------------------------ MODULE WritePath ------------------------------
(***************************************************************************)
(* The write path of one ledger: what happens between a client's request   *)
(* and a row of log_events.  Server goroutines (Workers) run               *)
(* Planner.Submit* (through submitWithIdempotency) and the ALL_OR_NOTHING  *)
(* mode of Planner.SubmitBatch against Postgres (the authoritative log and *)
(* the idempotency_keys table) and Redis (a cache of that table).          *)
(*                                                                         *)
(* What an operation does to balances, holds and metadata is left to the   *)
(* other modules; here an operation is the idempotency key it carries, the *)
(* hash of its input and the events it appends.  A business error of the   *)
(* operation is one of the outcomes of Fail.                               *)
(*                                                                         *)
(* Transactions are READ COMMITTED (pool.Begin with no options): a         *)
(* statement sees the committed rows and the transaction's own writes.     *)
(* The only lock taken here is the FOR UPDATE lock on the ledger's row.    *)
(***************************************************************************)
EXTENDS Integers, Sequences, FiniteSets, FiniteSetsExt

CONSTANTS
    Workers,             \* goroutines serving requests, in any number of server processes
    Keys,                \* idempotency keys
    NoKey,               \* the empty idempotency key
    Hashes,              \* hashes of request inputs
    NoHash,              \* a NULL idempotency_hash
    NoWorker,            \* the ledger row is not locked
    NoRecord,            \* no cached or stored idempotency record
    Requests,            \* the requests clients may send
    MaxRequests,         \* bound: how many requests are sent in all
    MaxDeadlockRetries   \* maxDeadlockRetries of planner.go

(***************************************************************************)
(* A request: one submit, or a batch of intents run in one transaction.    *)
(* Only the posts of a batch pass their key on; the other intents, and     *)
(* intents without a key, have NoKey.                                      *)
(***************************************************************************)
Request ==
    [mode: {"submit", "batch"}, intents: Seq(Keys \cup {NoKey}),
     hash: Hashes, dry: BOOLEAN]

ASSUME ConstantsAssumption ==
    /\ NoKey \notin Keys
    /\ NoHash \notin Hashes
    /\ NoWorker \notin Workers
    /\ MaxRequests \in Nat
    /\ MaxDeadlockRetries \in Nat
    /\ Requests \subseteq Request
    /\ \A q \in Requests :
          /\ q.intents # <<>>
          /\ q.mode = "submit" => Len(q.intents) = 1
          /\ q.mode = "batch" => ~q.dry

\* An event ID is minted afresh by every run of appendEvent: it is named here
\* after the request, the transaction attempt and the intent it is minted for.
EventId == [req: Nat, try: Nat, pos: Nat]

Row == [id: EventId, seq: Nat, key: Keys \cup {NoKey}, hash: Hashes \cup {NoHash}]

Record == [id: EventId, hash: Hashes]

ASSUME NoRecordAssumption == NoRecord \notin Record

(***************************************************************************)
(* The answers a client can get.  "error" stands for every error other     *)
(* than ErrLedgerSealed, ErrInvalidIdempotencyInput ("badInput") and       *)
(* ErrIdempotencyKeyConflict ("conflict"); "none" is no answer (yet).      *)
(***************************************************************************)
Status == {"none", "ok", "hit", "dry", "sealed", "badInput", "conflict", "error"}

Reply == [status: Status, ids: SUBSET EventId]

VARIABLES
    sealed,      \* ledgers.state = 'sealed'
    rows,        \* committed rows of log_events
    ikeys,       \* committed rows of idempotency_keys, by key
    rowLock,     \* the worker whose transaction locks the ledger's row
    pending,     \* uncommitted rows of log_events of each worker's transaction
    redis,       \* the Redis idempotency cache, by key
    published,   \* event IDs sent to the subscription channel
    worker,      \* what each worker is doing
    requests,    \* the requests sent so far
    replies      \* the answer to each of them

dbVars == <<sealed, rows, ikeys>>
txVars == <<rowLock, pending>>
cacheVars == <<redis, published>>
vars == <<sealed, rows, ikeys, rowLock, pending, redis, published, worker,
          requests, replies>>

-----------------------------------------------------------------------------
Idle == [pc |-> "idle", req |-> 0, try |-> 0, pos |-> 0]

\* A worker's position in its code, the request it serves, the attempt at its
\* transaction and the intent that is next.
WorkerState ==
    [pc: {"idle", "checkSeal", "redisGet", "pgGet", "work", "commit", "cache", "publish",
          "answer", "resolve"},
     req: Nat, try: Nat, pos: Nat]

Req(w) == requests[worker[w].req]

\* The write carries an idempotency key that submitWithIdempotency manages.
Keyed(w) == Req(w).mode = "submit" /\ Req(w).intents[1] # NoKey

KeyOf(w) == Req(w).intents[1]

Goto(w, pc) == worker' = [worker EXCEPT ![w].pc = pc]

Answer(w, status, ids) ==
    /\ replies' = [replies EXCEPT ![worker[w].req] = [status |-> status, ids |-> ids]]
    /\ worker' = [worker EXCEPT ![w] = Idle]

\* Mutant: a rollback that forgets the row lock (a leaked transaction).
RollbackLeaksLock(w) ==
    /\ pending' = [pending EXCEPT ![w] = {}]
    /\ rowLock' = rowLock

\* The deferred txStore.Rollback(): the transaction's rows and lock are gone.
Rollback(w) ==
    /\ pending' = [pending EXCEPT ![w] = {}]
    /\ rowLock' = IF rowLock = w THEN NoWorker ELSE rowLock

-----------------------------------------------------------------------------
(***************************************************************************)
(* A client sends a request and a worker picks it up.                      *)
(***************************************************************************)
Receive(w, q) ==
    /\ worker[w].pc = "idle"
    /\ Len(requests) < MaxRequests
    /\ requests' = Append(requests, q)
    /\ replies' = Append(replies, [status |-> "none", ids |-> {}])
    /\ worker' = [worker EXCEPT ![w] =
                    [pc |-> "checkSeal", req |-> Len(requests) + 1, try |-> 0, pos |-> 1]]
    /\ UNCHANGED <<dbVars, txVars, cacheVars>>

(***************************************************************************)
(* The ledger is read outside any transaction, before everything else.     *)
(***************************************************************************)
CheckLedgerNotSealed(w) ==
    /\ worker[w].pc = "checkSeal"
    /\ IF sealed
       THEN Answer(w, "sealed", {})
       ELSE Goto(w, IF Keyed(w) THEN "redisGet" ELSE "work") /\ UNCHANGED replies
    /\ UNCHANGED <<dbVars, txVars, cacheVars, requests>>

\* A record found under the key answers the request: the hashes are compared.
AnswerFromRecord(w, rec) ==
    IF rec.hash = Req(w).hash
    THEN Answer(w, "hit", {rec.id})
    ELSE Answer(w, "badInput", {})

(***************************************************************************)
(* checkIdempotency, first tier.  A Redis error is treated as a miss.      *)
(***************************************************************************)
CheckRedis(w) ==
    /\ worker[w].pc = "redisGet"
    /\ \/ redis[KeyOf(w)] # NoRecord /\ AnswerFromRecord(w, redis[KeyOf(w)])
       \/ Goto(w, "pgGet") /\ UNCHANGED replies
    /\ UNCHANGED <<dbVars, txVars, cacheVars, requests>>

(***************************************************************************)
(* checkIdempotency, second tier.  A hit also fills the cache, unless      *)
(* Redis fails; the stored record never changes, so the read and the fill  *)
(* are one step.                                                           *)
(***************************************************************************)
CheckPG(w) ==
    /\ worker[w].pc = "pgGet"
    /\ LET rec == ikeys[KeyOf(w)] IN
       IF rec = NoRecord
       THEN Goto(w, "work") /\ UNCHANGED <<replies, redis>>
       ELSE /\ AnswerFromRecord(w, rec)
            /\ \/ UNCHANGED redis
               \/ /\ rec.hash = Req(w).hash
                  /\ redis' = [redis EXCEPT ![KeyOf(w)] = rec]
    /\ UNCHANGED <<dbVars, txVars, published, requests>>

(***************************************************************************)
(* A dry-run post stops after the balance checks and is rolled back.       *)
(***************************************************************************)
DryRun(w) ==
    /\ worker[w].pc = "work"
    /\ Req(w).dry
    /\ Answer(w, "dry", {})
    /\ UNCHANGED <<dbVars, txVars, cacheVars, requests>>

\* The event ID appendEvent mints for intent number p, and all those a
\* transaction that ran to its end has minted: the IDs the answer carries.
MintedId(w, p) == [req |-> worker[w].req, try |-> worker[w].try, pos |-> p]

MintedIds(w) == {MintedId(w, p) : p \in 1..Len(Req(w).intents)}

\* SELECT COALESCE(MAX(ledger_seq), 0) + 1, run under the ledger row lock.
LastSeq(table) == Max({0} \cup {r.seq : r \in table})

\* Mutant: the number is taken from the transactions' own counter, as a
\* Postgres sequence would, and is lost with the transaction.
NextFromCounter(w) == worker[w].req

NextLedgerSeq(w) == LastSeq(rows \cup pending[w]) + 1

\* The row appendEvent builds for intent number pos of the request.
NewRow(w) ==
    LET q == Req(w)
        key == q.intents[worker[w].pos]
    IN  [id |-> MintedId(w, worker[w].pos),
         seq |-> NextLedgerSeq(w),
         key |-> key,
         hash |-> IF q.mode = "submit" /\ key # NoKey THEN q.hash ELSE NoHash]

\* Mutant: log_events without its UNIQUE (ledger_id, idempotency_key).
UniqueWithoutKey(row, table) ==
    \E r \in table : r.id = row.id \/ r.seq = row.seq

\* The primary key and the two UNIQUE constraints of log_events.
UniqueViolation(row, table) ==
    \E r \in table :
        \/ r.id = row.id
        \/ r.seq = row.seq
        \/ row.key # NoKey /\ r.key = row.key

(***************************************************************************)
(* appendEvent and the writes that follow it in the same transaction:      *)
(* lock the ledger row (waiting for its holder), allocate the sequence,    *)
(* insert the event.  Every unique violation is reported as an             *)
(* idempotency-key conflict, which aborts the transaction.  A batch goes   *)
(* on to its next intent, still holding the lock.                          *)
(***************************************************************************)
AppendEvent(w) ==
    /\ worker[w].pc = "work"
    /\ ~Req(w).dry
    /\ rowLock \in {NoWorker, w}
    /\ LET row == NewRow(w) IN
       IF UniqueViolation(row, rows \cup pending[w])
       THEN /\ Rollback(w)
            /\ IF Keyed(w)
               THEN Goto(w, "resolve") /\ UNCHANGED replies
               ELSE Answer(w, "conflict", {})
       ELSE /\ pending' = [pending EXCEPT ![w] = @ \cup {row}]
            /\ rowLock' = w
            /\ worker' = [worker EXCEPT
                            ![w].pc = IF worker[w].pos = Len(Req(w).intents)
                                      THEN "commit" ELSE "work",
                            ![w].pos = @ + 1]
            /\ UNCHANGED replies
    /\ UNCHANGED <<dbVars, cacheVars, requests>>

(***************************************************************************)
(* Postgres picks the waiting transaction as a deadlock victim: another    *)
(* transaction holds the ledger row and waits for a row (of holds) this    *)
(* one locked.  Only a standalone submit is retried.                       *)
(***************************************************************************)
Deadlock(w) ==
    /\ worker[w].pc = "work"
    /\ ~Req(w).dry
    /\ rowLock \notin {NoWorker, w}
    /\ Rollback(w)
    /\ IF Req(w).mode = "submit" /\ worker[w].try < MaxDeadlockRetries
       THEN /\ worker' = [worker EXCEPT ![w].try = @ + 1, ![w].pos = 1]
            /\ UNCHANGED replies
       ELSE Answer(w, "error", {})
    /\ UNCHANGED <<dbVars, cacheVars, requests>>

\* Mutant: the idempotency record is not written in the transaction.
CommitWithoutRecord(w) ==
    /\ worker[w].pc = "commit"
    /\ rows' = rows \cup pending[w]
    /\ Rollback(w)
    /\ \/ /\ Goto(w, IF Keyed(w) THEN "cache" ELSE
                     IF Req(w).mode = "submit" THEN "publish" ELSE "answer")
          /\ UNCHANGED replies
       \/ Answer(w, "error", {})
    /\ UNCHANGED <<sealed, ikeys, cacheVars, requests>>

(***************************************************************************)
(* Commit makes the transaction's rows visible together, and with them the *)
(* idempotency record of a keyed submit.  The acknowledgement may be lost: *)
(* then the caller sees an error although the commit happened.             *)
(***************************************************************************)
Commit(w) ==
    /\ worker[w].pc = "commit"
    /\ rows' = rows \cup pending[w]
    /\ ikeys' = IF Keyed(w)
                THEN [ikeys EXCEPT ![KeyOf(w)] =
                        [id |-> MintedId(w, 1), hash |-> Req(w).hash]]
                ELSE ikeys
    /\ Rollback(w)
    /\ \/ /\ Goto(w, IF Keyed(w) THEN "cache" ELSE
                     IF Req(w).mode = "submit" THEN "publish" ELSE "answer")
          /\ UNCHANGED replies
       \/ Answer(w, "error", {})
    /\ UNCHANGED <<sealed, cacheVars, requests>>

(***************************************************************************)
(* postCommitIdempotency: a Redis failure is logged and ignored.           *)
(***************************************************************************)
PostCommitIdempotency(w) ==
    /\ worker[w].pc = "cache"
    /\ \/ redis' = [redis EXCEPT ![KeyOf(w)] =
                        [id |-> MintedId(w, 1), hash |-> Req(w).hash]]
       \/ UNCHANGED redis
    /\ Goto(w, "publish")
    /\ UNCHANGED <<dbVars, txVars, published, requests, replies>>

(***************************************************************************)
(* publishEvent: a failure is logged and ignored.                          *)
(***************************************************************************)
PublishEvent(w) ==
    /\ worker[w].pc = "publish"
    /\ \/ published' = published \cup MintedIds(w)
       \/ UNCHANGED published
    /\ Answer(w, "ok", MintedIds(w))
    /\ UNCHANGED <<dbVars, txVars, redis, requests>>

\* A committed batch is answered without caching or publishing anything.
AnswerBatch(w) ==
    /\ worker[w].pc = "answer"
    /\ Answer(w, "ok", MintedIds(w))
    /\ UNCHANGED <<dbVars, txVars, cacheVars, requests>>

(***************************************************************************)
(* resolveIdempotencyConflict: the winner's record is an idempotent hit;   *)
(* no record (or a failed read) leaves the conflict error.  The hash of    *)
(* the record is not looked at.                                            *)
(***************************************************************************)
ResolveIdempotencyConflict(w) ==
    /\ worker[w].pc = "resolve"
    /\ \/ ikeys[KeyOf(w)] # NoRecord /\ Answer(w, "hit", {ikeys[KeyOf(w)].id})
       \/ Answer(w, "conflict", {})
    /\ UNCHANGED <<dbVars, txVars, cacheVars, requests>>

\* Mutant: a failing batch commits the intents that succeeded before.
FailCommitsPrefix(w) ==
    /\ worker[w].pc \in {"checkSeal", "pgGet", "work", "commit"}
    /\ rows' = rows \cup pending[w]
    /\ Rollback(w)
    /\ Answer(w, "error", {})
    /\ UNCHANGED <<sealed, ikeys, cacheVars, requests>>

(***************************************************************************)
(* Any other error before the commit takes effect: a storage failure, a    *)
(* business rule of the operation, a cancelled context.                    *)
(***************************************************************************)
Fail(w) ==
    /\ worker[w].pc \in {"checkSeal", "pgGet", "work", "commit"}
    /\ Rollback(w)
    /\ Answer(w, "error", {})
    /\ UNCHANGED <<dbVars, cacheVars, requests>>

(***************************************************************************)
(* The server process dies: Postgres rolls back, nobody is answered.       *)
(***************************************************************************)
Crash(w) ==
    /\ worker[w].pc # "idle"
    /\ Rollback(w)
    /\ worker' = [worker EXCEPT ![w] = Idle]
    /\ UNCHANGED <<dbVars, cacheVars, requests, replies>>

(***************************************************************************)
(* SealLedger updates the ledger's row, so it waits for the row's lock.    *)
(***************************************************************************)
SealLedger ==
    /\ ~sealed
    /\ rowLock = NoWorker
    /\ sealed' = TRUE
    /\ UNCHANGED <<rows, ikeys, txVars, cacheVars, worker, requests, replies>>

\* The 24-hour TTL of a cached record.
RedisExpire(k) ==
    /\ redis[k] # NoRecord
    /\ redis' = [redis EXCEPT ![k] = NoRecord]
    /\ UNCHANGED <<dbVars, txVars, published, worker, requests, replies>>

-----------------------------------------------------------------------------
Init ==
    /\ sealed = FALSE
    /\ rows = {}
    /\ ikeys = [k \in Keys |-> NoRecord]
    /\ rowLock = NoWorker
    /\ pending = [w \in Workers |-> {}]
    /\ redis = [k \in Keys |-> NoRecord]
    /\ published = {}
    /\ worker = [w \in Workers |-> Idle]
    /\ requests = <<>>
    /\ replies = <<>>

\* The steps a worker owes its request.
Step(w) ==
    \/ CheckLedgerNotSealed(w)
    \/ CheckRedis(w)
    \/ CheckPG(w)
    \/ DryRun(w)
    \/ AppendEvent(w)
    \/ Commit(w)
    \/ PostCommitIdempotency(w)
    \/ PublishEvent(w)
    \/ AnswerBatch(w)
    \/ ResolveIdempotencyConflict(w)

Next ==
    \/ \E w \in Workers, q \in Requests : Receive(w, q)
    \/ \E w \in Workers : Step(w) \/ Deadlock(w) \/ Fail(w) \/ Crash(w)
    \/ SealLedger
    \/ \E k \in Keys : RedisExpire(k)

(***************************************************************************)
(* A goroutine keeps running (weak fairness) and Postgres grants a row     *)
(* lock to its waiters in the order they queued, so a worker waiting for   *)
(* the ledger row is served although others keep taking it (strong         *)
(* fairness).  Nothing is assumed of clients, failures, seals or expiry.   *)
(***************************************************************************)
Fairness == \A w \in Workers : WF_vars(Step(w)) /\ SF_vars(AppendEvent(w))

Spec == Init /\ [][Next]_vars /\ Fairness

-----------------------------------------------------------------------------
TypeOK ==
    /\ sealed \in BOOLEAN
    /\ rows \subseteq Row
    /\ ikeys \in [Keys -> Record \cup {NoRecord}]
    /\ rowLock \in Workers \cup {NoWorker}
    /\ pending \in [Workers -> SUBSET Row]
    /\ redis \in [Keys -> Record \cup {NoRecord}]
    /\ published \subseteq EventId
    /\ worker \in [Workers -> WorkerState]
    /\ requests \in Seq(Requests)
    /\ replies \in Seq(Reply)

-----------------------------------------------------------------------------
(***************************************************************************)
(* The log has no gaps and no duplicates: its sequence numbers are 1..n.   *)
(* NextLedgerSeq allocates them under a row lock that Commit, a failed     *)
(* batch, a deadlock or a crash releases.                                  *)
(***************************************************************************)
GaplessLog == {r.seq : r \in rows} = 1..Cardinality(rows)

Succeeded(n) == replies[n].status \in {"ok", "hit"}

(***************************************************************************)
(* An answer is a promise: every event ID a client is given, whether the   *)
(* write was applied (PublishEvent, AnswerBatch) or found already applied  *)
(* (CheckRedis, CheckPG, ResolveIdempotencyConflict), is a committed row,  *)
(* and for a keyed submit that row carries the request's key.              *)
(***************************************************************************)
AckedIsDurable ==
    \A n \in DOMAIN replies : \A i \in replies[n].ids :
        \E r \in rows :
            /\ r.id = i
            /\ requests[n].mode = "submit" => r.key = requests[n].intents[1]

(***************************************************************************)
(* Idempotency as clients see it: of all the submits sent under one key,   *)
(* however they were interleaved, retried or cut off, at most one is told  *)
(* that it was applied, and all that succeed are given the same event.     *)
(***************************************************************************)
SameKeySameEvent ==
    \A m, n \in DOMAIN replies :
        /\ requests[m].mode = "submit" /\ requests[n].mode = "submit"
        /\ requests[m].intents = requests[n].intents
        /\ requests[m].intents[1] # NoKey
        /\ Succeeded(m) /\ Succeeded(n)
        => /\ replies[m].ids = replies[n].ids
           /\ replies[m].status = "ok" /\ replies[n].status = "ok" => m = n

(***************************************************************************)
(* The two tiers agree with the log: a cached record is the one stored in  *)
(* idempotency_keys (never an uncommitted or an outdated one), and a       *)
(* stored record names a committed event with its key and its hash.        *)
(***************************************************************************)
TiersAgree ==
    \A k \in Keys :
        /\ redis[k] # NoRecord => redis[k] = ikeys[k]
        /\ ikeys[k] # NoRecord =>
              \E r \in rows : r.id = ikeys[k].id /\ r.key = k /\ r.hash = ikeys[k].hash

(***************************************************************************)
(* A transaction is applied whole or not at all: when one event of a       *)
(* request is in the log, so are the events of all its intents, written by *)
(* the same attempt.  "if any fails, the entire batch is rolled back".     *)
(***************************************************************************)
AllOrNothing ==
    \A r \in rows : \A p \in 1..Len(requests[r.id.req].intents) :
        \E s \in rows : s.id = [r.id EXCEPT !.pos = p]

(***************************************************************************)
(* A request that was refused (or only simulated) left nothing behind.     *)
(* Only the unspecific "error" may hide a commit that did happen.          *)
(***************************************************************************)
RefusedLeavesNoTrace ==
    \A n \in DOMAIN replies :
        replies[n].status \in {"hit", "dry", "sealed", "badInput", "conflict"} =>
            \A r \in rows \cup UNION {pending[w] : w \in Workers} : r.id.req # n

(***************************************************************************)
(* The committed log only grows at its end: no row is removed or changed,  *)
(* and a row that becomes visible has a higher sequence number than every  *)
(* row visible before, so a reader who has seen n rows has seen rows 1..n. *)
(***************************************************************************)
GrowsAtTheEnd ==
    [][/\ rows \subseteq rows'
       /\ \A r \in rows, s \in rows' \ rows : r.seq < s.seq]_vars

(***************************************************************************)
(* Every request is dealt with: no worker waits forever for the ledger     *)
(* row, whatever deadlocks, failures and crashes the others meet.          *)
(***************************************************************************)
EveryRequestEnds ==
    \A w \in Workers : (worker[w].pc # "idle") ~> (worker[w].pc = "idle")

-----------------------------------------------------------------------------
(***************************************************************************)
(* The abstract log this write path implements: its entries in sequence    *)
(* order, and the entries clients have been told of.                       *)
(***************************************************************************)
InOrder(table) ==
    [n \in 1..Cardinality(table) |->
        LET r == CHOOSE r \in table : r.seq = n IN [id |-> r.id, key |-> r.key]]

Entries == InOrder(rows)

Acked == UNION {replies[n].ids : n \in DOMAIN replies}

AbstractLog == INSTANCE AtMostOnceLog WITH entries <- Entries, acked <- Acked

\* The write path is an at-most-once log: every step appends entries with
\* fresh keys, or acknowledges entries that are there, or changes neither.
ImplementsAtMostOnceLog == AbstractLog!Spec
=============================================================================
