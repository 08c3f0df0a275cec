-------------------------- MODULE WritePathInvariant --------------------------
(***************************************************************************)
(* The inductive invariant of WritePath: what the workers, the open        *)
(* transactions and the answers have in common with the committed log.     *)
(***************************************************************************)
EXTENDS WritePath

Active(w) == worker[w].pc # "idle"

\* What a worker's position in its code says of the request it serves.
Serving(w) ==
    /\ worker[w].req \in DOMAIN requests
    /\ replies[worker[w].req] = [status |-> "none", ids |-> {}]
    /\ worker[w].pos \in 1..(Len(Req(w).intents) + 1)
    /\ worker[w].pc \in {"checkSeal", "redisGet", "pgGet"} => worker[w].pos = 1
    /\ worker[w].pc = "work" => worker[w].pos <= Len(Req(w).intents)
    /\ worker[w].pc = "commit" => worker[w].pos = Len(Req(w).intents) + 1
    /\ worker[w].pc \in {"redisGet", "pgGet", "cache", "resolve"} => Keyed(w)
    /\ worker[w].pc = "publish" => Req(w).mode = "submit"

\* Every request is served by one worker, and only unanswered ones are served.
Bookkeeping ==
    /\ Len(replies) = Len(requests)
    /\ \A w \in Workers : Active(w) => Serving(w)
    /\ \A v, w \in Workers :
          Active(v) /\ Active(w) /\ worker[v].req = worker[w].req => v = w

\* A transaction holds the ledger row exactly when it has written events.
LockDiscipline ==
    \A w \in Workers :
        /\ pending[w] # {} <=> rowLock = w
        /\ rowLock = w => worker[w].pc \in {"work", "commit"}

\* The rows S are numbered 1, 2, ..., LastSeq(S).
Numbered(S) ==
    /\ LastSeq(S) \in Nat
    /\ {r.seq : r \in S} = 1..LastSeq(S)
    /\ \A r, s \in S : r.seq = s.seq => r = s

\* The committed log is numbered and an open transaction continues it.
Numbering ==
    /\ Numbered(rows)
    /\ \A w \in Workers :
          /\ Numbered(rows \cup pending[w])
          /\ \A r \in rows, s \in pending[w] : r.seq < s.seq

\* No key is used twice in the log, nor by a transaction that may still commit.
KeysUsedOnce ==
    /\ \A r, s \in rows : r.key = s.key /\ r.key # NoKey => r = s
    /\ \A w \in Workers : \A r, s \in rows \cup pending[w] :
          r.key = s.key /\ r.key # NoKey => r = s

\* What an open transaction holds: the events of the intents it has run.
HoldsItsRows(w) ==
    /\ \A r \in pending[w] :
          \E p \in 1..Len(Req(w).intents) : p < worker[w].pos /\ r.id = MintedId(w, p)
    /\ \A p \in 1..Len(Req(w).intents) :
          p < worker[w].pos =>
              \E r \in pending[w] :
                  /\ r.id = MintedId(w, p)
                  /\ r.key = Req(w).intents[p]
                  /\ Keyed(w) => r.hash = Req(w).hash

PendingRows == \A w \in Workers : worker[w].pc \in {"work", "commit"} => HoldsItsRows(w)

\* After the commit the events of the request are in the log ...
Applied(w) ==
    /\ \A p \in 1..Len(Req(w).intents) :
          \E r \in rows : r.id = MintedId(w, p) /\ r.key = Req(w).intents[p]
    /\ worker[w].pc = "cache" =>
          ikeys[KeyOf(w)] = [id |-> MintedId(w, 1), hash |-> Req(w).hash]

\* ... and before it none is.
NotApplied(w) == \A r \in rows : r.id.req # worker[w].req

CommittedRows ==
    /\ \A r \in rows : r.id.req \in DOMAIN requests
    /\ \A w \in Workers :
          Active(w) => IF worker[w].pc \in {"cache", "publish", "answer"}
                       THEN Applied(w)
                       ELSE NotApplied(w)

\* A submit that succeeded was given one event, its own if it was applied.
OneEventEach ==
    \A n \in DOMAIN replies :
        requests[n].mode = "submit" /\ Succeeded(n) =>
            \E i \in replies[n].ids :
                replies[n].ids = {i} /\ (replies[n].status = "ok" => i.req = n)

IInv ==
    /\ TypeOK
    /\ Bookkeeping
    /\ LockDiscipline
    /\ Numbering
    /\ KeysUsedOnce
    /\ PendingRows
    /\ CommittedRows
    /\ TiersAgree
    /\ AckedIsDurable
    /\ OneEventEach
    /\ AllOrNothing
    /\ RefusedLeavesNoTrace
=============================================================================
