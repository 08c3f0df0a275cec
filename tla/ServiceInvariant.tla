-------------------------- MODULE ServiceInvariant --------------------------
(***************************************************************************)
(* The inductive invariant of Service: what is true of a call at each step *)
(* of its way through the service, of every event of the log, and of the   *)
(* counters of the rate limiter.                                           *)
(***************************************************************************)
EXTENDS Service

Early == {"free", "incr", "handler", "denied", "batch", "all", "streaming"}
Planning == {"check", "write", "batch", "all"}
Submitting == Planning \cup {"denied"}
Serving == Submitting \cup {"handler", "streaming"}
Running == Serving \cup {"incr"}
Admitted == {"unlimited", "counted", "open"}

CallState ==
    [pc : Running \cup {"free", "done"}, req : Request, since : Nat, window : Nat,
     admitted : Admitted \cup {"no", "refused"}, time : Nat, pos : Nat,
     results : Seq(Int), code : Codes, event : Int, hit : BOOLEAN, id : BOOLEAN]

OperationTypes == DOMAIN BusinessErrors
EventState ==
    [call : Calls, ledger : Ledgers, type : OperationTypes \cup {"policy_denied"},
     key : Keys \cup {None}, hash : Operation \cup {NoHash}, version : Nat]

Typed ==
    /\ call \in [Calls -> CallState]
    /\ log \in Seq(EventState)
    /\ policies \in [Ledgers -> Seq(Policies)]
    /\ now \in Nat

\* A call reaches a step only with a token, an admission and a scope that let
\* it through, and the planner only by a policy that was in force since it
\* arrived.
Passed(c) ==
    LET k == call[c] IN
    /\ k.pc \in Running => Admits(k.req)
    /\ k.pc \in Serving => k.admitted \in Admitted
    /\ k.pc \in Submitting =>
          /\ k.req.method = "Submit" /\ k.req.intent # NoIntent
          /\ LedgerOf(c) # None /\ AuthorizeLedger(c)
    /\ k.pc # "free" /\ LedgerOf(c) # None => k.since <= Len(policies[LedgerOf(c)])
    /\ k.pc \in Planning =>
          \E v \in k.since..Len(policies[LedgerOf(c)]) : Verdict(c, v) = "allowed"

\* Everything a call wrote.
Own(c) == {n \in DOMAIN log : log[n].call = c}

\* Where a call is in its batch, and that it wrote nothing before its
\* transaction.
Placed(c) ==
    LET k == call[c] IN
    /\ k.pc \notin {"free", "done"} => k.code = "OK"
    /\ k.pc \in {"batch", "all"} => IsBatch(c)
    /\ k.pc = "all" => ModeOf(c) = "ALL_OR_NOTHING"
    /\ k.pc \in {"check", "write"} =>
          /\ ModeOf(c) \in {"SINGLE", "BEST_EFFORT"}
          /\ k.pos = Len(k.results) + 1 /\ k.pos <= Len(ItemsOf(c))
    /\ k.pc \in Early => Own(c) = {} /\ k.results = << >> /\ k.pos = 1
    /\ k.pc \in {"check", "write"} /\ ~IsBatch(c) => Own(c) = {}
    /\ \A n \in Own(c) : log[n].type = "policy_denied" =>
          k.pc = "done" /\ k.code = "PermissionDenied" /\ Effects(c) = {}

\* What the answer of a finished Submit says.
Refused(c) == Submitted(c) /\ call[c].code \in Definite => Effects(c) = {}

Single(c) ==
    Succeeded(c) /\ ~IsBatch(c) =>
        LET k == call[c] IN
        \/ /\ k.event = DryRunEvent /\ Req(c).intent.dry_run
           /\ Effects(c) = {} /\ ~k.id
        \/ /\ k.event \in DOMAIN log
           /\ log[k.event].ledger = LedgerOf(c) /\ log[k.event].key = Req(c).intent.key
           /\ \/ /\ log[k.event].call = c /\ Effects(c) = {k.event}
                 /\ ~k.hit /\ (Named(Operation1(c)) => k.id)
              \/ log[k.event].call # c /\ Effects(c) = {} /\ ~k.id

Batched(c) ==
    IsBatch(c) =>
        /\ \A i \in DOMAIN call[c].results :
              /\ i <= Len(ItemsOf(c))
              /\ call[c].results[i] # NoEvent =>
                    /\ call[c].results[i] \in DOMAIN log
                    /\ log[call[c].results[i]].key = KeyOf(c, i)
        /\ Succeeded(c) => Len(call[c].results) = Len(ItemsOf(c))
        /\ Submitted(c) /\ ModeOf(c) = "ALL_OR_NOTHING" =>
              Cardinality(Effects(c)) \in {0, Len(ItemsOf(c))}

CallInv(c) == Passed(c) /\ Placed(c) /\ Refused(c) /\ Single(c) /\ Batched(c)

\* What is true of an event and of the call that wrote it.
EventInv(n) ==
    LET e == log[n]
        c == e.call
    IN  /\ call[c].pc # "free"
        /\ e.ledger = LedgerOf(c)
        /\ Authenticates(Req(c).token) /\ AuthorizeLedger(c)
        /\ call[c].admitted \in Admitted
        /\ e.version <= Len(policies[e.ledger])
        /\ e.type # "policy_denied" => \E v \in call[c].since..e.version : Verdict(c, v) = "allowed"

UniqueKeys ==
    \A m, n \in DOMAIN log :
        log[m].key # None /\ log[m].key = log[n].key /\ log[m].ledger = log[n].ledger => m = n

ServiceInv ==
    /\ Typed
    /\ \A c \in Calls : CallInv(c)
    /\ \A n \in DOMAIN log : EventInv(n)
    /\ UniqueKeys

-----------------------------------------------------------------------------
(***************************************************************************)
(* The rate limiter.  The calls admitted by a counter while it could not   *)
(* have expired are at most as many as it counted, and it is still there.  *)
(***************************************************************************)
Counted(key) ==
    {d \in Calls : /\ call[d].admitted = "counted"
                   /\ CounterOf(d) = key
                   /\ call[d].time < call[d].window + WindowTTL}

LimitOf(class) == IF class = "w" THEN WriteRPS ELSE ReadRPS

CounterInv(key) ==
    /\ Counted(key) # {} => Cardinality(Counted(key)) <= LimitOf(key[1])
    /\ Counted(key) # {} /\ now < key[3] + WindowTTL =>
          /\ key \in DOMAIN counters
          /\ counters[key].n >= Cardinality(Counted(key))

LimiterInv ==
    /\ \A c \in Calls : call[c].window <= now
    /\ \A c \in Calls : call[c].pc = "free" => call[c].admitted = "no"
    /\ \A c \in Calls : call[c].pc = "incr" => call[c].admitted = "no"
    /\ \A key \in DOMAIN counters :
          /\ counters[key].n \in Nat /\ counters[key].expires \in Nat
          /\ counters[key].expires >= key[3] + WindowTTL
    /\ \A c \in Calls : CounterInv(CounterOf(c))
=============================================================================
