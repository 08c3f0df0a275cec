------------------------------ MODULE Service ------------------------------
(***************************************************************************)
(* The gRPC service (internal/api/grpc, cmd/server): what happens to a     *)
(* call between its arrival and its answer, for several calls at once.     *)
(* Each call passes authentication, the rate limiter (read the clock, then *)
(* count in Redis), its handler and, for Submit, the policy of the ledger  *)
(* and the planner.  Between any two of these steps other calls run, the   *)
(* policy is replaced, the ledger sealed, Redis or the server fails, the   *)
(* client gives up, or the server is told to stop.                         *)
(*                                                                         *)
(* What an operation does to balances, holds and metadata, how a keyed     *)
(* write reaches the log and what approvals, imports and subscriptions do  *)
(* is in the modules of those parts; here an operation writes one event or *)
(* fails with one of the errors its code has.                              *)
(***************************************************************************)
EXTENDS Access, FiniteSets

CONSTANTS
    Existing,       \* the ledgers that exist at first
    MaxCalls,       \* bound on the calls
    Requests,       \* what they may ask
    Policies,       \* the policies an operator may put in force
    Drafts,         \* operations a user of the SDK may try
    Intended,       \* postings a user of ledgerctl may mean
    MaxTime,        \* bound on the clock, in seconds
    MaxFaults       \* bound on policy changes, failures, losses and stops

ASSUME ServiceAssumption ==
    MaxTime \in Nat /\ MaxFaults \in Nat /\ MaxCalls \in Nat /\ Existing \subseteq Ledgers

VARIABLES
    call,       \* the state of each call
    log,        \* the events of all ledgers, in the order of their commits
    ledgers,    \* the state of each ledger
    policies,   \* per ledger, the policies that were in force; the last one is
    counters,   \* Redis: the counters of the rate limiter, with their expiry
    now,        \* the clock
    redis,      \* whether Redis answers
    server,     \* "up", "stopping" or "down"
    faults      \* the number of faults so far

\* The calls, in the order in which they arrive.
Calls == 1..MaxCalls

vars == <<call, log, ledgers, policies, counters, now, redis, server, faults>>

NoIntent == [ledger |-> None, key |-> None, dry_run |-> FALSE, operation |-> Rejected]
NoRequest == [method |-> "Check", token |-> NoToken, ledger |-> None, intent |-> NoIntent]
Request == [method : Methods \cup {"Check"}, token : Token, ledger : Ledgers \cup {None},
            intent : Intent \cup {NoIntent}]

ASSUME RequestsAssumption == Requests \subseteq Request

\* A posting on a command line has all its fields: texts are joined by colons,
\* and the empty text would not be told apart from one that is left out.
ASSUME IntendedAssumption ==
    \A p \in Intended : /\ p \in Posting
                        /\ NoText \notin {p.source, p.destination, p.amount, p.asset}

\* The event of an answer: none, that of a dry run, or a position of the log.
NoEvent == 0
DryRunEvent == -1

\* No input hash: what a batch stores with its keys.
NoHash == [op |-> "none"]

\* The TTL of a counter.  That EXPIRE may be lost is left out: the counter then
\* stays, and nobody asks for its second again.
WindowTTL == 2

Free == [pc |-> "free", req |-> NoRequest, since |-> 0, window |-> 0, admitted |-> "no", time |-> 0,
         pos |-> 1, results |-> << >>, code |-> "OK", event |-> NoEvent, hit |-> FALSE, id |-> FALSE]

InFlight(c) == call[c].pc \notin {"free", "done"}
Req(c) == call[c].req
Operation1(c) == Req(c).intent.operation
LedgerOf(c) == Req(c).ledger
IdentityOf(c) == AuthenticateIdentity(Req(c).token)

-----------------------------------------------------------------------------
(***************************************************************************)
(* Answers.  Finish sets fields of the call and ends it.                   *)
(***************************************************************************)
Goto(c, pc) == call' = [call EXCEPT ![c].pc = pc]
Answer(c, code) == call' = [call EXCEPT ![c].pc = "done", ![c].code = code]

\* The errors of the planner and of the store that have a code of their own;
\* every other error is Internal.
MapPlannerError ==
    [ErrInsufficientFunds |-> "FailedPrecondition",
     ErrInvalidIdempotencyInput |-> "FailedPrecondition",
     ErrIdempotencyKeyConflict |-> "Aborted",
     ErrLedgerSealed |-> "FailedPrecondition",
     ErrTransactionReferenceConflict |-> "AlreadyExists",
     ErrAlreadyReverted |-> "FailedPrecondition",
     ErrHoldExpired |-> "FailedPrecondition",
     ErrHoldVoided |-> "FailedPrecondition",
     ErrPolicyDenied |-> "PermissionDenied",
     ErrNotFound |-> "NotFound",
     Other |-> "Internal"]

\* Codes that tell the client that nothing was done.
Definite == {"InvalidArgument", "NotFound", "AlreadyExists", "PermissionDenied",
             "ResourceExhausted", "FailedPrecondition", "Aborted", "Unimplemented", "Unauthenticated"}

-----------------------------------------------------------------------------
(***************************************************************************)
(* Arrival, authentication, rate limit.                                    *)
(***************************************************************************)
Admits(r) == MethodIsExempt(r.method) \/ Authenticates(r.token)

\* Where a call goes once its token is checked.  allow reads the clock and then
\* asks Redis: the counter may be that of an earlier second, or have expired.
Arrival(r) ==
    IF ~Admits(r)
    THEN [Free EXCEPT !.pc = "done", !.req = r, !.code = "Unauthenticated"]
    ELSE [Free EXCEPT !.req = r,
            !.pc = IF LimitFor(r.method) = 0 THEN "handler" ELSE "incr",
            !.admitted = IF LimitFor(r.method) = 0 THEN "unlimited" ELSE "no",
            !.window = IF LimitFor(r.method) = 0 THEN 0 ELSE now,
            !.since = IF r.ledger = None THEN 0 ELSE Len(policies[r.ledger])]

Arrive(c, r) ==
    /\ server = "up"
    /\ call[c].pc = "free"
    /\ \A d \in Calls : d < c => call[d].pc # "free"
    /\ call' = [call EXCEPT ![c] = Arrival(r)]
    /\ UNCHANGED <<log, ledgers, policies, counters, now, redis, server, faults>>

CounterOf(c) == <<Class(Req(c).method), PrincipalKey(Req(c).token), call[c].window>>

Count(key) ==
    IF key \in DOMAIN counters /\ now < counters[key].expires THEN counters[key].n ELSE 0

\* Mutant: the key expires with its second.
ExpiresAtOnce(n, key) == IF n = 1 THEN now + 1 ELSE counters[key].expires

\* Expire follows the first Incr.
Expire(n, key) == IF n = 1 THEN now + WindowTTL ELSE counters[key].expires

Incr(c) ==
    /\ call[c].pc = "incr"
    /\ redis
    /\ LET key == CounterOf(c)
           n == Count(key) + 1
           ok == n <= LimitFor(Req(c).method)
       IN  /\ counters' = [k \in DOMAIN counters \cup {key} |->
                             IF k = key THEN [n |-> n, expires |-> Expire(n, key)] ELSE counters[k]]
           /\ call' = [call EXCEPT
                         ![c].pc = IF ok THEN "handler" ELSE "done",
                         ![c].code = IF ok THEN "OK" ELSE "ResourceExhausted",
                         ![c].admitted = IF ok THEN "counted" ELSE "refused",
                         ![c].time = now]
    /\ UNCHANGED <<log, ledgers, policies, now, redis, server, faults>>

\* Fail open.
IncrFails(c) ==
    /\ call[c].pc = "incr"
    /\ ~redis
    /\ call' = [call EXCEPT ![c].pc = "handler", ![c].admitted = "open"]
    /\ UNCHANGED <<log, ledgers, policies, counters, now, redis, server, faults>>

-----------------------------------------------------------------------------
(***************************************************************************)
(* Handlers that run in one step: they check the scope of the token and    *)
(* read or write one row.                                                  *)
(***************************************************************************)
Handles(c, methods) == call[c].pc = "handler" /\ Req(c).method \in methods

\* The scope a call needs, and the answer to one that has it not.
AuthorizeLedger(c) == CanAccessLedger(IdentityOf(c), LedgerOf(c))

\* What the reads of a ledger may answer once the scope is checked; GetBalance
\* also needs an asset, which requests here do not tell apart.
Gets == {"GetTransaction", "GetAccount", "GetSchema", "GetLogEvent", "GetHold"}
Lists == {"ListTransactions", "ListAccounts", "GetAggregatedBalances", "ListLogEvents", "ListHolds",
          "GetRelationships", "ListPendingApprovals"}
Reads ==
    [m \in Gets \cup Lists \cup {"GetBalance"} |->
        CASE m \in Gets -> {"OK", "NotFound", "Internal"}
          [] m \in Lists -> {"OK", "Internal"}
          [] OTHER -> {"OK", "InvalidArgument", "Internal"}]

\* Scoped methods, and the answer to a call whose token does not cover the
\* ledger.
Scoped == DOMAIN Reads \cup {"CreateLedger", "GetLedger", "SealLedger", "Subscribe"}

NamesNoLedger(c) == Req(c).method = "ListPendingApprovals" /\ LedgerOf(c) = None

Denied(c) ==
    /\ Handles(c, Scoped)
    /\ ~AuthorizeLedger(c)
    /\ \/ Answer(c, IF NamesNoLedger(c) THEN "InvalidArgument" ELSE "PermissionDenied")
       \/ Req(c).method = "GetBalance" /\ Answer(c, "InvalidArgument")
    /\ UNCHANGED <<log, ledgers, policies, counters, now, redis, server, faults>>

Read(c) ==
    /\ Handles(c, DOMAIN Reads)
    /\ AuthorizeLedger(c)
    /\ \E code \in IF NamesNoLedger(c) THEN {"InvalidArgument"} ELSE Reads[Req(c).method] : Answer(c, code)
    /\ UNCHANGED <<log, ledgers, policies, counters, now, redis, server, faults>>

\* Reads that name no ledger, health checks, and the method the service does
\* not implement.
ReadAny(c) ==
    /\ Handles(c, {"ListLedgers", "VerifyBatch", "InsertSchema", "Check"})
    /\ \E code \in [ListLedgers |-> {"OK", "Internal"}, VerifyBatch |-> {"OK", "NotFound", "Internal"},
                    InsertSchema |-> {"Unimplemented"}, Check |-> {"OK"}][Req(c).method] : Answer(c, code)
    /\ UNCHANGED <<log, ledgers, policies, counters, now, redis, server, faults>>

CreateLedger(c) ==
    /\ Handles(c, {"CreateLedger"})
    /\ AuthorizeLedger(c)
    /\ LET l == LedgerOf(c) IN
       \/ ledgers[l] # "absent" /\ Answer(c, "AlreadyExists") /\ UNCHANGED ledgers
       \/ ledgers[l] = "absent" /\ Answer(c, "OK") /\ ledgers' = [ledgers EXCEPT ![l] = "ACTIVE"]
       \/ Answer(c, "Internal") /\ UNCHANGED ledgers
    /\ UNCHANGED <<log, policies, counters, now, redis, server, faults>>

GetLedger(c) ==
    /\ Handles(c, {"GetLedger"})
    /\ AuthorizeLedger(c)
    /\ \/ Answer(c, IF ledgers[LedgerOf(c)] = "absent" THEN "NotFound" ELSE "OK")
       \/ Answer(c, "Internal")
    /\ UNCHANGED <<log, ledgers, policies, counters, now, redis, server, faults>>

SealLedger(c) ==
    /\ Handles(c, {"SealLedger"})
    /\ AuthorizeLedger(c)
    /\ LET l == LedgerOf(c) IN
       \/ ledgers[l] # "ACTIVE" /\ Answer(c, "NotFound") /\ UNCHANGED ledgers
       \/ ledgers[l] = "ACTIVE" /\ Answer(c, "OK") /\ ledgers' = [ledgers EXCEPT ![l] = "SEALED"]
       \/ Answer(c, "Internal") /\ UNCHANGED ledgers
    /\ UNCHANGED <<log, policies, counters, now, redis, server, faults>>

\* A stream stays open until its client leaves.
Subscribe(c) ==
    /\ Handles(c, {"Subscribe"})
    /\ AuthorizeLedger(c)
    /\ Goto(c, "streaming") \/ Answer(c, "Internal")
    /\ UNCHANGED <<log, ledgers, policies, counters, now, redis, server, faults>>

-----------------------------------------------------------------------------
(***************************************************************************)
(* The policy of a ledger and its denials.                                 *)
(***************************************************************************)
\* The verdict of version v of a ledger's policy on a call; there may be none.
Verdict(c, v) ==
    LET policy == policies[LedgerOf(c)][v]
    IN  IF v = 0 THEN "allowed"
        ELSE IF ~ValidatePolicy(policy) THEN "malformed"
        ELSE IF Evaluate(policy, IdentityOf(c).principal, Operation1(c).op, AccountsTouched(Operation1(c)))
             THEN "denied" ELSE "allowed"

Event(c, type, key, hash) ==
    [call |-> c, ledger |-> LedgerOf(c), type |-> type, key |-> key, hash |-> hash,
     version |-> Len(policies[LedgerOf(c)])]

\* The event that records a denial; that it could not be written is only
\* logged.  Neither a seal nor the absence of the ledger prevents it.
WritePolicyDenialEvent(c) ==
    /\ call[c].pc = "denied"
    /\ log' \in {Append(log, Event(c, "policy_denied", None, NoHash)), log}
    /\ Answer(c, MapPlannerError["ErrPolicyDenied"])
    /\ UNCHANGED <<ledgers, policies, counters, now, redis, server, faults>>

-----------------------------------------------------------------------------
(***************************************************************************)
(* The handlers of the operations: parse the amounts, hand over to the     *)
(* planner, shape the answer.  A batch is a sequence of items; any other   *)
(* operation is one item.                                                  *)
(***************************************************************************)
IsBatch(c) == Operation1(c).op = "batch"
ModeOf(c) == IF IsBatch(c) THEN Operation1(c).mode ELSE "SINGLE"
ItemsOf(c) ==
    IF IsBatch(c) THEN Operation1(c).intents
    ELSE <<[key |-> Req(c).intent.key, operation |-> Operation1(c)]>>

\* The amounts of an operation that the handler parses.
HandlePost(o) == \A i \in DOMAIN o.postings : IsNumeral(o.postings[i].amount)
HandleAuthorize(o) == IsNumeral(o.amount)
HandleCapture(o) == IsNumeral(o.amount)
HandleConvert(o) ==
    /\ IsNumeral(o.source_amount) /\ IsNumeral(o.destination_amount)
    /\ o.slippage_amount = NoText \/ IsNumeral(o.slippage_amount)
Parses(o) ==
    CASE o.op = "post" -> HandlePost(o)
      [] o.op = "authorize" -> HandleAuthorize(o)
      [] o.op = "capture" -> HandleCapture(o)
      [] o.op = "convert" -> HandleConvert(o)
      [] OTHER -> TRUE

\* An authorization must say when it ends, except in a batch; a batch takes no
\* schema.
HandlerAccepts(c) ==
    /\ \A i \in DOMAIN ItemsOf(c) : Parses(ItemsOf(c)[i].operation)
    /\ IF IsBatch(c) THEN \A i \in DOMAIN ItemsOf(c) : ItemsOf(c)[i].operation.op # "insert_schema"
       ELSE Operation1(c).op = "authorize" => Operation1(c).expires

\* What the planner refuses before it looks at the ledger.
ValidatePostings(o) ==
    /\ o.postings # << >>
    /\ \A i \in DOMAIN o.postings :
          /\ ValidAccount(o.postings[i].source) /\ ValidAccount(o.postings[i].destination)
          /\ ValidAsset(o.postings[i].asset) /\ Positive(o.postings[i].amount)
ValidateConvertParams(o) ==
    /\ ValidAccount(o.source) /\ ValidAccount(o.destination)
    /\ ValidAsset(o.source_asset) /\ ValidAsset(o.destination_asset)
    /\ o.slippage_account = NoText \/ ValidAccount(o.slippage_account)
    /\ Positive(o.source_amount) /\ Positive(o.destination_amount)
    /\ o.source_asset # o.destination_asset
PlannerAccepts(o) ==
    CASE o.op = "post" -> ValidatePostings(o)
      [] o.op \in {"authorize", "capture"} -> Positive(o.amount)
      [] o.op = "convert" -> ValidateConvertParams(o)
      [] OTHER -> TRUE

ServerAccepts(o) == Parses(o) /\ PlannerAccepts(o)

\* The input hash stored with a key.  That of a conversion leaves out slippage.
InputHash(o) ==
    IF o.op = "convert" THEN [o EXCEPT !.slippage_account = NoText, !.slippage_amount = NoText] ELSE o

\* Why the transaction of an operation may fail.
BusinessErrors ==
    [post |-> {"ErrInsufficientFunds", "ErrTransactionReferenceConflict", "Other"},
     authorize |-> {"ErrInsufficientFunds", "Other"},
     capture |-> {"ErrNotFound", "ErrHoldVoided", "ErrHoldExpired", "ErrInsufficientFunds", "Other"},
     void |-> {"ErrNotFound", "ErrHoldVoided", "ErrHoldExpired", "Other"},
     revert |-> {"ErrNotFound", "ErrAlreadyReverted", "ErrInsufficientFunds", "Other"},
     amend |-> {"ErrNotFound", "Other"},
     convert |-> {"ErrInsufficientFunds", "Other"},
     set_metadata |-> {"ErrNotFound", "Other"},
     delete_metadata |-> {"ErrNotFound", "Other"},
     insert_schema |-> {"Other"}]

\* Whether the answer names what was made, when it was made by this call.
Named(o) == o.op \in {"post", "authorize", "revert", "convert"}

\* Mutant: a malformed policy is taken for none.
MalformedAllows(c) ==
    /\ Handles(c, {"Submit"})
    /\ Goto(c, IF Verdict(c, Len(policies[LedgerOf(c)])) = "denied" THEN "denied" ELSE "check")
    /\ UNCHANGED <<log, ledgers, policies, counters, now, redis, server, faults>>

\* Submit up to the planner: the intent and the scope of the token, the policy
\* that is active now, the amounts.
EvaluatePolicy(c) ==
    /\ Handles(c, {"Submit"})
    /\ IF Req(c).intent = NoIntent \/ LedgerOf(c) = None THEN Answer(c, "InvalidArgument")
       ELSE IF ~AuthorizeLedger(c) THEN Answer(c, "PermissionDenied")
       ELSE LET verdict == Verdict(c, Len(policies[LedgerOf(c)])) IN
            \/ Answer(c, "Internal")
            \/ verdict = "denied" /\ Goto(c, "denied")
            \/ /\ verdict = "allowed"
               /\ IF ~HandlerAccepts(c) THEN Answer(c, "InvalidArgument")
                  ELSE Goto(c, IF IsBatch(c) THEN "batch" ELSE "check")
    /\ UNCHANGED <<log, ledgers, policies, counters, now, redis, server, faults>>

\* checkLedgerNotSealed: the error of the ledger's state, if any.
LedgerErrors(l) ==
    CASE ledgers[l] = "absent" -> {"ErrNotFound"}
      [] ledgers[l] = "SEALED" -> {"ErrLedgerSealed"}
      [] OTHER -> {}

-----------------------------------------------------------------------------
(***************************************************************************)
(* One item: its validation and its key, then its transaction.  An item of *)
(* a best-effort batch that fails is noted and the next one follows.       *)
(***************************************************************************)
Item(c) == ItemsOf(c)[call[c].pos]

\* Results of an item: an error, or an event and whether it was found.
ItemFails(c, error) ==
    IF ModeOf(c) = "SINGLE" THEN Answer(c, MapPlannerError[error])
    ELSE call' = [call EXCEPT
                    ![c].pc = IF call[c].pos = Len(ItemsOf(c)) THEN "done" ELSE "check",
                    ![c].pos = @ + 1, ![c].results = Append(@, NoEvent)]

ItemEnds(c, event, hit) ==
    IF ModeOf(c) = "SINGLE"
    THEN call' = [call EXCEPT ![c].pc = "done", ![c].event = event,
                    ![c].hit = hit /\ Operation1(c).op # "convert",
                    ![c].id = ~hit /\ event # DryRunEvent /\ Named(Operation1(c))]
    ELSE call' = [call EXCEPT
                    ![c].pc = IF call[c].pos = Len(ItemsOf(c)) THEN "done" ELSE "check",
                    ![c].pos = @ + 1, ![c].results = Append(@, event)]

\* The events that hold a key, and those a lookup finds: not those of an
\* all-or-nothing batch.
Holders(c, key) == {n \in DOMAIN log : key # None /\ log[n].ledger = LedgerOf(c) /\ log[n].key = key}
Records(c, key) == {n \in Holders(c, key) : log[n].hash # NoHash}

CheckItem(c) ==
    /\ call[c].pc = "check"
    /\ LET o == Item(c).operation
           found == Records(c, Item(c).key)
           errors == LedgerErrors(LedgerOf(c))
       IN  IF ~PlannerAccepts(o) THEN ItemFails(c, "Other")
           ELSE IF errors # {} THEN \E e \in errors : ItemFails(c, e)
           ELSE \/ ItemFails(c, "Other")
                \/ found = {} /\ Goto(c, "write")
                \/ \E n \in found :
                      IF log[n].hash = InputHash(o) THEN ItemEnds(c, n, TRUE)
                      ELSE ItemFails(c, "ErrInvalidIdempotencyInput")
    /\ UNCHANGED <<log, ledgers, policies, counters, now, redis, server, faults>>

\* Mutant: a key that was taken meanwhile is written again.
WritesTwice(c) ==
    /\ call[c].pc = "write"
    /\ LET o == Item(c).operation IN
       \/ /\ log' = Append(log, Event(c, o.op, Item(c).key, InputHash(o)))
          /\ ItemEnds(c, Len(log) + 1, FALSE)
       \/ /\ UNCHANGED log
          /\ \E e \in BusinessErrors[o.op] : ItemFails(c, e)
    /\ UNCHANGED <<ledgers, policies, counters, now, redis, server, faults>>

\* The transaction.  A dry run writes nothing, but only a post knows it; a key
\* that was taken meanwhile gives the event that took it, if it has a record;
\* a commit may succeed although it reports an error.
WriteItem(c) ==
    /\ call[c].pc = "write"
    /\ LET o == Item(c).operation
           key == Item(c).key
           event == Event(c, o.op, key, IF key = None THEN NoHash ELSE InputHash(o))
           dry == o.op = "post" /\ Req(c).intent.dry_run /\ ~IsBatch(c)
       IN  \/ /\ UNCHANGED log
              /\ \E e \in BusinessErrors[o.op] : ItemFails(c, e)
           \/ /\ dry /\ UNCHANGED log
              /\ ItemEnds(c, DryRunEvent, FALSE)
           \/ /\ ~dry /\ Holders(c, key) = {}
              /\ log' = Append(log, event)
              /\ ItemEnds(c, Len(log) + 1, FALSE) \/ ItemFails(c, "Other")
           \/ /\ ~dry /\ Holders(c, key) # {} /\ UNCHANGED log
              /\ \/ \E n \in Records(c, key) : ItemEnds(c, n, TRUE)
                 \/ ItemFails(c, "ErrIdempotencyKeyConflict")
    /\ UNCHANGED <<ledgers, policies, counters, now, redis, server, faults>>

\* The key of the batch itself is not used.
HandleBatch(c) ==
    /\ call[c].pc = "batch"
    /\ LET errors == LedgerErrors(LedgerOf(c)) IN
       \/ errors # {} /\ \E e \in errors : Answer(c, MapPlannerError[e])
       \/ Answer(c, "Internal")
       \/ errors = {} /\ ModeOf(c) = "ALL_OR_NOTHING" /\ Goto(c, "all")
       \/ errors = {} /\ ModeOf(c) = "BEST_EFFORT"
             /\ Goto(c, IF ItemsOf(c) = << >> THEN "done" ELSE "check")
    /\ UNCHANGED <<log, ledgers, policies, counters, now, redis, server, faults>>

\* The key with which the event of an item is stored: in an all-or-nothing
\* batch only posts keep theirs, every other operation is written without one.
KeyOf(c, i) ==
    IF ModeOf(c) = "ALL_OR_NOTHING" /\ ItemsOf(c)[i].operation.op # "post" THEN None ELSE ItemsOf(c)[i].key

\* Mutant: the transaction of the batch keeps what came before a conflict.
KeepsPrefix(c) ==
    /\ call[c].pc = "all"
    /\ log' = Append(log, Event(c, ItemsOf(c)[1].operation.op, None, NoHash))
    /\ Answer(c, "Aborted")
    /\ UNCHANGED <<ledgers, policies, counters, now, redis, server, faults>>

\* The transaction of a batch: a key of its posts that the log or an earlier
\* post holds is a conflict, and the first error rolls everything back.
WriteAll(c) ==
    /\ call[c].pc = "all"
    /\ LET items == ItemsOf(c)
           taken == \E i \in DOMAIN items :
                       \/ Holders(c, KeyOf(c, i)) # {}
                       \/ \E j \in 1..i - 1 : KeyOf(c, j) = KeyOf(c, i) /\ KeyOf(c, i) # None
           events == [i \in DOMAIN items |-> Event(c, items[i].operation.op, KeyOf(c, i), NoHash)]
           committed == /\ ~taken
                        /\ \A i \in DOMAIN items : PlannerAccepts(items[i].operation)
                        /\ log' = log \o events
       IN  \/ /\ UNCHANGED log
              /\ \E i \in DOMAIN items :
                    \E e \in BusinessErrors[items[i].operation.op] : Answer(c, MapPlannerError[e])
           \/ taken /\ UNCHANGED log /\ Answer(c, MapPlannerError["ErrIdempotencyKeyConflict"])
           \/ committed /\ call' = [call EXCEPT ![c].pc = "done",
                              ![c].results = [i \in DOMAIN items |-> Len(log) + i]]
           \/ committed /\ Answer(c, "Internal")
    /\ UNCHANGED <<ledgers, policies, counters, now, redis, server, faults>>

-----------------------------------------------------------------------------
(***************************************************************************)
(* The world around the calls.                                             *)
(***************************************************************************)
Fault == faults < MaxFaults /\ faults' = faults + 1

\* InsertPolicy makes the new policy the only active one.
InsertPolicy(l, policy) ==
    /\ Fault
    /\ policies' = [policies EXCEPT ![l] = Append(@, policy)]
    /\ UNCHANGED <<call, log, ledgers, counters, now, redis, server>>

Tick ==
    /\ now < MaxTime
    /\ now' = now + 1
    /\ UNCHANGED <<call, log, ledgers, policies, counters, redis, server, faults>>

RedisFails ==
    /\ redis /\ Fault
    /\ redis' = FALSE
    /\ UNCHANGED <<call, log, ledgers, policies, counters, now, server>>

RedisRecovers ==
    /\ ~redis
    /\ redis' = TRUE
    /\ UNCHANGED <<call, log, ledgers, policies, counters, now, server, faults>>

\* The client leaves: the context of the call ends, and with it the call.
Cancel(c) ==
    /\ InFlight(c)
    /\ \/ Fault
       \/ call[c].pc = "streaming" /\ UNCHANGED faults
    /\ Answer(c, "Unavailable")
    /\ UNCHANGED <<log, ledgers, policies, counters, now, redis, server>>

\* OnStop: GracefulStop takes no new calls and waits for those in flight.
Stop ==
    /\ server = "up" /\ Fault
    /\ server' = "stopping"
    /\ UNCHANGED <<call, log, ledgers, policies, counters, now, redis>>

StopEnds ==
    /\ server = "stopping"
    /\ \A c \in Calls : ~InFlight(c)
    /\ server' = "down"
    /\ UNCHANGED <<call, log, ledgers, policies, counters, now, redis, faults>>

\* The process ends: it crashes, or a stop took longer than fx allows.
Crash ==
    /\ \/ server = "up" /\ Fault
       \/ server = "stopping" /\ UNCHANGED faults
    /\ server' = "down"
    /\ call' = [c \in Calls |->
                  IF InFlight(c) THEN [call[c] EXCEPT !.pc = "done", !.code = "Unavailable"] ELSE call[c]]
    /\ UNCHANGED <<log, ledgers, policies, counters, now, redis>>

Start ==
    /\ server = "down"
    /\ server' = "up"
    /\ UNCHANGED <<call, log, ledgers, policies, counters, now, redis, faults>>

-----------------------------------------------------------------------------

Init ==
    /\ call = [c \in Calls |-> Free]
    /\ log = << >>
    /\ ledgers = [l \in Ledgers |-> IF l \in Existing THEN "ACTIVE" ELSE "absent"]
    /\ policies = [l \in Ledgers |-> << >>]
    /\ counters = << >>
    /\ now = 0
    /\ redis = TRUE
    /\ server = "up"
    /\ faults = 0

Step(c) ==
    \/ Incr(c) \/ IncrFails(c)
    \/ Denied(c) \/ Read(c) \/ ReadAny(c) \/ CreateLedger(c) \/ GetLedger(c) \/ SealLedger(c) \/ Subscribe(c)
    \/ EvaluatePolicy(c) \/ WritePolicyDenialEvent(c) \/ CheckItem(c) \/ WriteItem(c) \/ HandleBatch(c) \/ WriteAll(c)

Next ==
    \/ \E c \in Calls : Step(c) \/ Cancel(c)
    \/ \E c \in Calls, r \in Requests : Arrive(c, r)
    \/ \E l \in Existing, policy \in Policies : InsertPolicy(l, policy)
    \/ Tick \/ RedisFails \/ RedisRecovers \/ Stop \/ StopEnds \/ Crash \/ Start

Spec == Init /\ [][Next]_vars

-----------------------------------------------------------------------------
(***************************************************************************)
(* Properties                                                              *)
(***************************************************************************)

\* TypeOK: every call is at a step of the pipeline with a request, an answer
\* and a place in its batch of their types, and events belong to calls that were
\* made (service.go, auth.go, ratelimit.go).
TypeOK ==
    /\ \A c \in Calls :
          /\ call[c].pc \in {"free", "incr", "handler", "denied", "check", "write", "batch", "all", "streaming", "done"}
          /\ call[c].admitted \in {"no", "unlimited", "counted", "open", "refused"}
          /\ call[c].window \in 0..MaxTime /\ call[c].time \in 0..MaxTime
          /\ [code |-> call[c].code, event |-> call[c].event, hit |-> call[c].hit, id |-> call[c].id,
              results |-> call[c].results] \in SubmitResponse(DOMAIN log \cup {NoEvent, DryRunEvent})
          /\ call[c].pc \in {"check", "write"} => call[c].pos = Len(call[c].results) + 1
    /\ \A n \in DOMAIN log : log[n].call \in Calls /\ call[log[n].call].pc # "free"
    /\ ledgers \in [Ledgers -> {"absent", "ACTIVE", "SEALED"}]
    /\ \A k \in DOMAIN counters : counters[k].n \in 1..Cardinality(Calls)
    /\ now \in 0..MaxTime /\ faults \in 0..MaxFaults
    /\ server \in {"up", "stopping", "down"} /\ redis \in BOOLEAN

\* What a call wrote, apart from the record of its denial.
Effects(c) == {n \in DOMAIN log : log[n].call = c /\ log[n].type # "policy_denied"}
Submitted(c) == call[c].pc = "done" /\ Req(c).method = "Submit"
Succeeded(c) == Submitted(c) /\ call[c].code = "OK"

\* AnswersAreTrue: an answer that refuses a Submit means that the call changed
\* nothing, whatever ran beside it; one that accepts it names an event of that
\* ledger and key, written by this call or, as a hit, by another; a dry run of
\* postings leaves nothing; the successes a batch reports are events with the
\* keys of its items (in an all-or-nothing batch those of its posts, while the
\* other events have none), and an all-or-nothing batch wrote all of them or
\* none (Submit, handleBatch, executeIntentInTx, mapPlannerError).
AnswersAreTrue ==
    \A c \in Calls :
        /\ Submitted(c) /\ call[c].code \in Definite => Effects(c) = {}
        /\ Succeeded(c) /\ ~IsBatch(c) =>
              IF call[c].event = DryRunEvent THEN Req(c).intent.dry_run /\ Effects(c) = {}
              ELSE /\ call[c].event \in DOMAIN log
                   /\ log[call[c].event].ledger = LedgerOf(c)
                   /\ log[call[c].event].key = Req(c).intent.key
                   /\ Effects(c) = IF log[call[c].event].call = c THEN {call[c].event} ELSE {}
        /\ Succeeded(c) /\ IsBatch(c) =>
              /\ Len(call[c].results) = Len(ItemsOf(c))
              /\ \A i \in DOMAIN call[c].results :
                    call[c].results[i] # NoEvent => log[call[c].results[i]].key = KeyOf(c, i)
        /\ Submitted(c) /\ IsBatch(c) /\ ModeOf(c) = "ALL_OR_NOTHING" =>
              Cardinality(Effects(c)) \in {0, Len(ItemsOf(c))}
        /\ \A n \in DOMAIN log : log[n].call = c /\ log[n].type = "policy_denied" =>
              Effects(c) = {} /\ call[c].code \in {"PermissionDenied", "Unavailable"}

\* RetriesAgree: whatever is lost between a client and the server, a key that
\* an event of a ledger holds is held by no other (the items of all-or-nothing
\* batches that are no posts hold none, and are written again), the calls that succeed with it name the same event,
\* and the answer names the transaction, hold or conversion it made only when
\* it made it (idempotency of Submit; the answer to a hit carries no ID, and
\* that to a repeated conversion does not even say it is a hit).
RetriesAgree ==
    /\ \A m, n \in DOMAIN log :
          log[m].key # None /\ log[m].key = log[n].key /\ log[m].ledger = log[n].ledger => m = n
    /\ \A c, d \in Calls :
          /\ Succeeded(c) /\ Succeeded(d) /\ ~IsBatch(c) /\ ~IsBatch(d)
          /\ Req(c).intent.key # None /\ Req(c).intent.key = Req(d).intent.key
          /\ LedgerOf(c) = LedgerOf(d)
          /\ DryRunEvent \notin {call[c].event, call[d].event}
          => call[c].event = call[d].event
    /\ \A c \in Calls : Succeeded(c) /\ ~IsBatch(c) =>
          /\ call[c].id => Effects(c) # {}
          /\ Effects(c) # {} => ~call[c].hit /\ (Named(Operation1(c)) => call[c].id)

\* WindowLimit: of the calls that were counted for one principal and one
\* second, and reached Redis before that second's counter may expire, no more
\* than the limit are admitted, although each reads the clock first and counts
\* later (Limiter.allow).
WindowLimit ==
    \A c \in Calls : call[c].admitted = "counted" =>
        Cardinality({d \in Calls : /\ call[d].admitted = "counted"
                                   /\ CounterOf(d) = CounterOf(c)
                                   /\ call[d].time < call[d].window + WindowTTL})
            <= LimitFor(Req(c).method)

\* EffectsWereAllowed: whoever wrote an event authenticated, had the ledger in
\* the scope of the token, was admitted by the limiter, and was allowed by a
\* policy that was in force at some time between the arrival of the call and
\* the commit; one put in force later may be missed (Submit reads the policy
\* before the transaction).
EffectsWereAllowed ==
    \A n \in DOMAIN log :
        LET c == log[n].call IN
        /\ Authenticates(Req(c).token)
        /\ CanAccessLedger(IdentityOf(c), log[n].ledger)
        /\ call[c].admitted \in {"unlimited", "counted", "open"}
        /\ log[n].type # "policy_denied" =>
              \E v \in call[c].since..log[n].version : Verdict(c, v) = "allowed"

\* The clients decide before anything is sent, so what they would do is compared
\* with the server where no call has been made yet.
Quiet == \A c \in Calls : call[c].pc = "free"

\* What the SDK sends for a draft.
Sent(o) == IF o.op = "post" THEN SubmitTransaction(o.postings) ELSE Convert(o)

\* ClientsAgreeWithServer: postings and conversions without slippage that the
\* SDK rejects are rejected by the server too (validate.go: "they only reject
\* inputs the server would also reject"), and a posting on ledgerctl's command
\* line that the server takes is the posting that was meant, although colons
\* separate both the fields and the segments of an account (parsePostings).
ClientsAgreeWithServer ==
    Quiet =>
        /\ \A o \in Drafts :
              /\ o.op \in {"post", "convert"}
              /\ o.op = "convert" => o.slippage_amount = NoText
              /\ Sent(o) = Rejected
              => ~ServerAccepts(o)
        /\ \A p \in Intended :
              LET sent == SubmitPostCmd(<<p.source \o p.destination \o p.amount \o p.asset>>)
              IN  ServerAccepts(sent) => sent.postings = <<p>>

=============================================================================
