--------------------------- MODULE WritePathProofs ---------------------------
(***************************************************************************)
(* Proofs about WritePath, for any number of workers, keys and requests.   *)
(***************************************************************************)
EXTENDS WritePathInvariant, TLAPS, FiniteSetTheorems, SequenceTheorems

(***************************************************************************)
(* The largest number of a numbered set of rows.                           *)
(***************************************************************************)
LEMMA LastSeqOfInterval ==
    ASSUME NEW S, NEW n \in Nat, {r.seq : r \in S} = 1..n
    PROVE  LastSeq(S) = n
  <1>1. {0} \cup {r.seq : r \in S} = 0..n
    OBVIOUS
  <1>2. \A x \in 0..n : (\A y \in 0..n : x >= y) => x = n
    OBVIOUS
  <1>3. \A y \in 0..n : n >= y
    OBVIOUS
  <1>4. n \in 0..n
    OBVIOUS
  <1>5. (CHOOSE x \in 0..n : \A y \in 0..n : x >= y) = n
    BY <1>2, <1>3, <1>4
  <1> QED
    BY <1>1, <1>5 DEF LastSeq, Max

(***************************************************************************)
(* Appending the next number keeps a set of rows numbered.                 *)
(***************************************************************************)
LEMMA NumberedAppend ==
    ASSUME NEW S, Numbered(S), NEW row, row.seq = LastSeq(S) + 1
    PROVE  /\ Numbered(S \cup {row})
           /\ \A r \in S : r.seq < row.seq
  <1> DEFINE n == LastSeq(S)
             T == S \cup {row}
  <1>1. n \in Nat /\ {r.seq : r \in S} = 1..n
    BY DEF Numbered
  <1>2. {r.seq : r \in T} = {r.seq : r \in S} \cup {n + 1}
    OBVIOUS
  <1>3. {r.seq : r \in T} = 1..(n + 1)
    BY <1>1, <1>2
  <1>4. LastSeq(T) = n + 1
    BY <1>1, <1>3, LastSeqOfInterval
  <1>5. \A r \in S : r.seq \in 1..n
    BY <1>1
  <1>6. \A r \in S : r.seq < row.seq
    BY <1>1, <1>5
  <1>7. \A r, s \in T : r.seq = s.seq => r = s
    BY <1>1, <1>5 DEF Numbered
  <1> HIDE DEF n, T
  <1>8. Numbered(T)
    BY <1>1, <1>3, <1>4, <1>7 DEF Numbered
  <1> QED
    BY <1>6, <1>8 DEF T

(***************************************************************************)
(* A numbered set of rows has as many rows as its last number.             *)
(***************************************************************************)
LEMMA NumberedCardinality ==
    ASSUME NEW S, Numbered(S)
    PROVE  Cardinality(S) \in Nat /\ {r.seq : r \in S} = 1..Cardinality(S)
  <1> DEFINE n == LastSeq(S)
             f == [i \in 1..n |-> CHOOSE r \in S : r.seq = i]
  <1>1. n \in Nat /\ {r.seq : r \in S} = 1..n
    BY DEF Numbered
  <1>2. \A i \in 1..n : f[i] \in S /\ f[i].seq = i
    BY <1>1
  <1>3. f \in [1..n -> S]
    BY <1>2
  <1>4. \A i, j \in 1..n : f[i] = f[j] => i = j
    BY <1>2
  <1>5. \A r \in S : r.seq \in 1..n /\ f[r.seq] = r
    BY <1>1, <1>2 DEF Numbered
  <1> HIDE DEF f
  <1>a. f \in Injection(1..n, S)
    BY <1>3, <1>4 DEF Injection, IsInjective
  <1>b. f \in Surjection(1..n, S)
    BY <1>3, <1>5 DEF Surjection
  <1>6. f \in Bijection(1..n, S)
    BY <1>a, <1>b DEF Bijection
  <1>7. IsFiniteSet(1..n) /\ Cardinality(1..n) = n
    BY <1>1, FS_Interval
  <1>8. Cardinality(S) = n
    BY <1>6, <1>7, FS_Bijection DEF ExistsBijection
  <1> QED
    BY <1>1, <1>8

-----------------------------------------------------------------------------
(***************************************************************************)
(* What is known of the request a worker serves.                           *)
(***************************************************************************)
LEMMA RequestFacts ==
    ASSUME TypeOK, Bookkeeping, NEW w \in Workers, Active(w)
    PROVE  /\ Req(w) \in Requests
           /\ Req(w).mode \in {"submit", "batch"}
           /\ Req(w).dry \in BOOLEAN
           /\ Req(w).hash \in Hashes
           /\ Req(w).intents \in Seq(Keys \cup {NoKey})
           /\ Len(Req(w).intents) \in Nat \ {0}
           /\ Req(w).mode = "submit" => Len(Req(w).intents) = 1
           /\ Req(w).intents[1] \in Keys \cup {NoKey}
           /\ Keyed(w) => KeyOf(w) \in Keys
  <1>1. worker[w].req \in DOMAIN requests
    BY DEF Bookkeeping, Serving
  <1>2. Req(w) \in Requests
    BY <1>1 DEF TypeOK, Req
  <1>3. Req(w) \in Request
    BY <1>2, ConstantsAssumption
  <1>4. /\ Req(w).mode \in {"submit", "batch"}
        /\ Req(w).dry \in BOOLEAN
        /\ Req(w).hash \in Hashes
        /\ Req(w).intents \in Seq(Keys \cup {NoKey})
    BY <1>3 DEF Request
  <1>5. Req(w).intents # <<>> /\ (Req(w).mode = "submit" => Len(Req(w).intents) = 1)
    BY <1>2, ConstantsAssumption
  <1>6. Len(Req(w).intents) \in Nat \ {0}
    BY <1>4, <1>5
  <1>7. Req(w).intents[1] \in Keys \cup {NoKey}
    BY <1>4, <1>6
  <1> QED
    BY <1>2, <1>4, <1>5, <1>6, <1>7 DEF Keyed, KeyOf

(***************************************************************************)
(* An empty ledger that nobody writes to satisfies the invariant.          *)
(***************************************************************************)
LEMMA InitIInv == Init => IInv
  <1> SUFFICES ASSUME Init PROVE IInv
    OBVIOUS
  <1>1. TypeOK
    <2>1. Idle \in WorkerState
      BY DEF Idle, WorkerState
    <2>2. sealed \in BOOLEAN
      BY DEF Init
    <2>3. ikeys \in [Keys -> Record \cup {NoRecord}] /\ redis \in [Keys -> Record \cup {NoRecord}]
      BY DEF Init
    <2>4. pending \in [Workers -> SUBSET Row] /\ worker \in [Workers -> WorkerState]
      BY <2>1 DEF Init
    <2>5. requests \in Seq(Requests) /\ replies \in Seq(Reply)
      BY DEF Init
    <2>6. rows \subseteq Row /\ published \subseteq EventId /\ rowLock \in Workers \cup {NoWorker}
      BY DEF Init
    <2> QED
      BY <2>2, <2>3, <2>4, <2>5, <2>6 DEF TypeOK
  <1>2. \A w \in Workers : worker[w].pc = "idle" /\ pending[w] = {}
    BY DEF Init, Idle
  <1>a. Bookkeeping
    BY <1>2 DEF Init, Bookkeeping, Active
  <1>b. LockDiscipline
    BY <1>2, ConstantsAssumption DEF Init, LockDiscipline
  <1>c. PendingRows
    BY <1>2 DEF PendingRows
  <1>d. CommittedRows
    BY <1>2 DEF Init, CommittedRows, Active
  <1>3. Numbered({})
    <2>1. {r.seq : r \in {}} = 1..0
      OBVIOUS
    <2>2. LastSeq({}) = 0
      BY <2>1, LastSeqOfInterval
    <2> QED
      BY <2>1, <2>2 DEF Numbered
  <1>4. Numbering /\ KeysUsedOnce
    BY <1>3 DEF Init, Numbering, KeysUsedOnce
  <1>5. TiersAgree /\ AckedIsDurable /\ OneEventEach /\ AllOrNothing /\ RefusedLeavesNoTrace
    BY DEF Init, TiersAgree, AckedIsDurable, OneEventEach, AllOrNothing, RefusedLeavesNoTrace
  <1> QED
    BY <1>1, <1>a, <1>b, <1>c, <1>d, <1>4, <1>5 DEF IInv

(***************************************************************************)
(* What is said of a worker depends on its own state and the shared one.   *)
(***************************************************************************)
LEMMA OtherWorker ==
    ASSUME NEW v \in Workers, worker'[v] = worker[v], Req(v)' = Req(v)
    PROVE  /\ Keyed(v)' <=> Keyed(v)
           /\ KeyOf(v)' = KeyOf(v)
           /\ Active(v)' <=> Active(v)
           /\ \A p : MintedId(v, p)' = MintedId(v, p)
           /\ pending'[v] = pending[v] /\ HoldsItsRows(v) => HoldsItsRows(v)'
           /\ rows' = rows /\ NotApplied(v) => NotApplied(v)'
           /\ rows \subseteq rows' /\ ikeys' = ikeys /\ Applied(v) => Applied(v)'
  <1>1. Keyed(v)' <=> Keyed(v)
    BY DEF Keyed
  <1>2. KeyOf(v)' = KeyOf(v)
    BY DEF KeyOf
  <1>3. Active(v)' <=> Active(v)
    BY DEF Active
  <1>4. \A p : MintedId(v, p)' = MintedId(v, p)
    BY DEF MintedId
  <1>5. ASSUME pending'[v] = pending[v], HoldsItsRows(v) PROVE HoldsItsRows(v)'
    BY <1>1, <1>4, <1>5 DEF HoldsItsRows
  <1>6. ASSUME rows' = rows, NotApplied(v) PROVE NotApplied(v)'
    BY <1>6 DEF NotApplied
  <1>7. ASSUME rows \subseteq rows', ikeys' = ikeys, Applied(v) PROVE Applied(v)'
    BY <1>2, <1>4, <1>7 DEF Applied
  <1> QED
    BY <1>1, <1>2, <1>3, <1>4, <1>5, <1>6, <1>7

(***************************************************************************)
(* One lemma per action: the invariant is preserved.                       *)
(***************************************************************************)
LEMMA ReceiveIInv ==
    ASSUME IInv, NEW w \in Workers, NEW q \in Requests, Receive(w, q)
    PROVE  IInv'
  <1> DEFINE n == Len(requests) + 1
             none == [status |-> "none", ids |-> {}]
  <1>1. /\ requests' = Append(requests, q) /\ replies' = Append(replies, none)
        /\ worker' = [worker EXCEPT ![w] = [pc |-> "checkSeal", req |-> n, try |-> 0, pos |-> 1]]
        /\ worker[w].pc = "idle"
        /\ UNCHANGED <<sealed, rows, ikeys, rowLock, pending, redis, published>>
    BY DEF Receive, dbVars, txVars, cacheVars
  <1>2. requests \in Seq(Requests) /\ replies \in Seq(Reply) /\ Len(replies) = Len(requests)
    BY DEF IInv, TypeOK, Bookkeeping
  <1>3. none \in Reply
    BY DEF Reply, Status
  <1>4. n \in Nat /\ n \notin DOMAIN requests
        /\ requests' \in Seq(Requests) /\ replies' \in Seq(Reply) /\ Len(replies') = Len(requests')
        /\ DOMAIN requests' = DOMAIN requests \cup {n} /\ requests'[n] = q
        /\ DOMAIN replies' = DOMAIN requests \cup {n} /\ replies'[n] = none
        /\ DOMAIN replies = DOMAIN requests
        /\ \A m \in DOMAIN requests : requests'[m] = requests[m] /\ replies'[m] = replies[m]
    BY <1>1, <1>2, <1>3
  <1> HIDE DEF n, none
  <1>5. TypeOK'
    BY <1>1, <1>4 DEF IInv, TypeOK, WorkerState
  <1>6. q.intents \in Seq(Keys \cup {NoKey}) /\ Len(q.intents) \in Nat \ {0}
    BY ConstantsAssumption DEF Request
  <1>7. worker'[w] = [pc |-> "checkSeal", req |-> n, try |-> 0, pos |-> 1]
        /\ \A v \in Workers \ {w} : worker'[v] = worker[v]
    BY <1>1 DEF IInv, TypeOK
  <1>8. ASSUME NEW v \in Workers, Active(v), v # w
        PROVE  Req(v)' = Req(v) /\ (Keyed(v)' <=> Keyed(v)) /\ worker[v].req \in DOMAIN requests
               /\ worker[v].req # n
    BY <1>8, <1>4, <1>7 DEF IInv, Bookkeeping, Serving, Req, Keyed
  <1>9. Bookkeeping'
    <2>1. Serving(w)'
      BY <1>4, <1>6, <1>7 DEF Serving, Req, none
    <2>2. ASSUME NEW v \in Workers, v # w, Active(v)' PROVE Serving(v)'
      <3>1. Active(v) /\ worker'[v] = worker[v]
        BY <1>7, <2>2 DEF Active
      <3>2. Serving(v) /\ Req(v)' = Req(v) /\ (Keyed(v)' <=> Keyed(v)) /\ worker[v].req \in DOMAIN requests
        BY <1>8, <2>2, <3>1 DEF IInv, Bookkeeping
      <3> QED
        BY <1>4, <3>1, <3>2 DEF Serving
    <2>3. \A u, v \in Workers : Active(u)' /\ Active(v)' /\ worker'[u].req = worker'[v].req => u = v
      BY <1>4, <1>7, <1>8 DEF IInv, Bookkeeping, Active
    <2> QED
      BY <2>1, <2>2, <2>3, <1>4 DEF Bookkeeping
  <1>10. LockDiscipline'
    BY <1>1, <1>7 DEF IInv, LockDiscipline
  <1>11. Numbering' /\ KeysUsedOnce' /\ TiersAgree'
    BY <1>1 DEF IInv, Numbering, KeysUsedOnce, TiersAgree
  <1>12. PendingRows'
    <2>1. \A v \in Workers \ {w} : Active(v) /\ HoldsItsRows(v) => HoldsItsRows(v)'
      BY <1>1, <1>7, <1>8, OtherWorker
    <2> QED
      BY <1>7, <2>1 DEF IInv, PendingRows, Active
  <1>13. CommittedRows'
    <2>1. \A r \in rows : r.id.req \in DOMAIN requests
      BY DEF IInv, CommittedRows
    <2>2. NotApplied(w)'
      BY <1>1, <1>4, <1>7, <2>1 DEF NotApplied
    <2>3. \A v \in Workers \ {w} : Active(v) =>
             (Applied(v) => Applied(v)') /\ (NotApplied(v) => NotApplied(v)')
      BY <1>1, <1>7, <1>8, OtherWorker
    <2> QED
      BY <1>1, <1>4, <1>7, <2>1, <2>2, <2>3 DEF IInv, CommittedRows, Active
  <1>14. AckedIsDurable'
    <2>1. none.ids = {}
      BY DEF none
    <2> SUFFICES ASSUME NEW m \in DOMAIN replies', NEW i \in replies'[m].ids
                 PROVE  \E r \in rows' :
                           r.id = i /\ (requests'[m].mode = "submit" => r.key = requests'[m].intents[1])
      BY DEF AckedIsDurable
    <2>2. m \in DOMAIN requests
      BY <1>4, <2>1
    <2> QED
      BY <1>1, <1>4, <2>2 DEF IInv, AckedIsDurable
  <1>15. OneEventEach'
    <2>1. none.status = "none"
      BY DEF none
    <2> SUFFICES ASSUME NEW m \in DOMAIN replies', requests'[m].mode = "submit", Succeeded(m)'
                 PROVE  \E i \in replies'[m].ids :
                           replies'[m].ids = {i} /\ (replies'[m].status = "ok" => i.req = m)
      BY DEF OneEventEach
    <2>2. m \in DOMAIN requests
      BY <1>4, <2>1 DEF Succeeded
    <2> QED
      BY <1>4, <2>2 DEF IInv, OneEventEach, Succeeded
  <1>16. AllOrNothing' /\ RefusedLeavesNoTrace'
    <2>1. \A r \in rows : r.id.req \in DOMAIN requests
      BY DEF IInv, CommittedRows
    <2>2. AllOrNothing'
      BY <1>1, <1>4, <2>1 DEF IInv, AllOrNothing
    <2>3. RefusedLeavesNoTrace'
      BY <1>1, <1>4 DEF IInv, RefusedLeavesNoTrace, none
    <2> QED
      BY <2>2, <2>3
  <1> QED
    BY <1>5, <1>9, <1>10, <1>11, <1>12, <1>13, <1>14, <1>15, <1>16 DEF IInv

(***************************************************************************)
(* Rolling a transaction back leaves the numbering and the keys in order.  *)
(***************************************************************************)
LEMMA RollbackFacts ==
    ASSUME IInv, NEW w \in Workers, Rollback(w), UNCHANGED rows
    PROVE  /\ pending' \in [Workers -> SUBSET Row]
           /\ rowLock' \in Workers \cup {NoWorker}
           /\ pending'[w] = {} /\ rowLock' # w
           /\ \A v \in Workers \ {w} : pending'[v] = pending[v] /\ (rowLock' = v <=> rowLock = v)
           /\ Numbering' /\ KeysUsedOnce'
  <1>1. pending \in [Workers -> SUBSET Row] /\ rowLock \in Workers \cup {NoWorker}
    BY DEF IInv, TypeOK
  <1>2. /\ pending' \in [Workers -> SUBSET Row] /\ pending'[w] = {}
        /\ \A v \in Workers \ {w} : pending'[v] = pending[v]
    BY <1>1 DEF Rollback
  <1>3. /\ rowLock' \in Workers \cup {NoWorker} /\ rowLock' # w
        /\ \A v \in Workers \ {w} : rowLock' = v <=> rowLock = v
    BY <1>1, ConstantsAssumption DEF Rollback
  <1>4. rows \cup pending'[w] = rows
    BY <1>2
  <1>5. Numbering'
    BY <1>2, <1>4 DEF IInv, Numbering
  <1>6. KeysUsedOnce'
    BY <1>2 DEF IInv, KeysUsedOnce
  <1> QED
    BY <1>2, <1>3, <1>5, <1>6

(***************************************************************************)
(* A worker outside its transaction has nothing to roll back.              *)
(***************************************************************************)
LEMMA NothingToRollBack ==
    ASSUME IInv, NEW w \in Workers, worker[w].pc \notin {"work", "commit"}, UNCHANGED txVars
    PROVE  Rollback(w) /\ rowLock # w /\ pending[w] = {}
  <1>1. rowLock # w /\ pending[w] = {}
    BY DEF IInv, LockDiscipline
  <1>2. [pending EXCEPT ![w] = {}] = pending
    BY <1>1 DEF IInv, TypeOK
  <1> QED
    BY <1>1, <1>2 DEF Rollback, txVars

(***************************************************************************)
(* A worker that answers its request and drops its transaction.            *)
(***************************************************************************)
LEMMA AnswerIInv ==
    ASSUME IInv, NEW w \in Workers, Active(w), NEW st \in Status, NEW ids \in SUBSET EventId,
           Answer(w, st, ids), Rollback(w), UNCHANGED <<sealed, rows, ikeys, requests>>,
           redis' \in [Keys -> Record \cup {NoRecord}], published' \subseteq EventId, TiersAgree',
           \A i \in ids : \E r \in rows :
               r.id = i /\ (Req(w).mode = "submit" => r.key = Req(w).intents[1]),
           Req(w).mode = "submit" /\ st \in {"ok", "hit"} =>
               \E i \in ids : ids = {i} /\ (st = "ok" => i.req = worker[w].req),
           st \in {"hit", "dry", "sealed", "badInput", "conflict"} => NotApplied(w)
    PROVE  IInv'
  <1> DEFINE n == worker[w].req
             new == [status |-> st, ids |-> ids]
  <1>1. n \in DOMAIN requests /\ n \in DOMAIN replies /\ DOMAIN replies = DOMAIN requests
    BY DEF IInv, TypeOK, Bookkeeping, Serving
  <1>2. new \in Reply /\ new.status = st /\ new.ids = ids
    BY DEF Reply
  <1>3. /\ replies' \in Seq(Reply) /\ Len(replies') = Len(replies)
        /\ DOMAIN replies' = DOMAIN replies
        /\ replies'[n] = new
        /\ \A m \in DOMAIN replies : m # n => replies'[m] = replies[m]
    BY <1>1, <1>2 DEF IInv, TypeOK, Answer
  <1>4. Idle \in WorkerState /\ Idle.pc = "idle"
    BY DEF Idle, WorkerState
  <1>5. /\ worker' \in [Workers -> WorkerState]
        /\ worker'[w].pc = "idle"
        /\ \A v \in Workers \ {w} : worker'[v] = worker[v]
    BY <1>4 DEF IInv, TypeOK, Answer
  <1> HIDE DEF n, new
  <1>6. \A v \in Workers : Req(v)' = Req(v) \/ v = w
    BY <1>5 DEF Req
  <1>7. /\ pending' \in [Workers -> SUBSET Row]
        /\ rowLock' \in Workers \cup {NoWorker}
        /\ pending'[w] = {} /\ rowLock' # w
        /\ \A v \in Workers \ {w} : pending'[v] = pending[v] /\ (rowLock' = v <=> rowLock = v)
        /\ Numbering' /\ KeysUsedOnce'
    BY RollbackFacts
  <1>8. TypeOK'
    BY <1>3, <1>5, <1>7 DEF IInv, TypeOK
  <1>9. Bookkeeping'
    <2>1. \A v \in Workers \ {w} : Active(v) => Serving(v) /\ worker[v].req # n
      BY DEF IInv, Bookkeeping, n
    <2>2. \A v \in Workers \ {w} : Active(v) => Serving(v)'
      BY <1>1, <1>3, <1>5, <1>6, <2>1, OtherWorker DEF Serving
    <2> QED
      BY <1>1, <1>3, <1>5, <2>2 DEF IInv, Bookkeeping, Active
  <1>10. LockDiscipline'
    BY <1>5, <1>7 DEF IInv, LockDiscipline
  <1>11. PendingRows'
    <2>1. \A v \in Workers \ {w} : HoldsItsRows(v) => HoldsItsRows(v)'
      BY <1>5, <1>6, <1>7, OtherWorker
    <2> QED
      BY <1>5, <2>1 DEF IInv, PendingRows
  <1>12. CommittedRows'
    <2>1. \A v \in Workers \ {w} : (Applied(v) => Applied(v)') /\ (NotApplied(v) => NotApplied(v)')
      BY <1>5, <1>6, OtherWorker
    <2> QED
      BY <1>5, <2>1 DEF IInv, CommittedRows, Active
  <1>13. AckedIsDurable'
    <2> SUFFICES ASSUME NEW m \in DOMAIN replies', NEW i \in replies'[m].ids
                 PROVE  \E r \in rows' :
                           r.id = i /\ (requests'[m].mode = "submit" => r.key = requests'[m].intents[1])
      BY DEF AckedIsDurable
    <2>1. CASE m = n
      BY <1>2, <1>3, <2>1 DEF Req, n
    <2>2. CASE m # n
      BY <1>3, <2>2 DEF IInv, AckedIsDurable
    <2> QED
      BY <2>1, <2>2
  <1>14. OneEventEach'
    <2> SUFFICES ASSUME NEW m \in DOMAIN replies', requests'[m].mode = "submit", Succeeded(m)'
                 PROVE  \E i \in replies'[m].ids :
                           replies'[m].ids = {i} /\ (replies'[m].status = "ok" => i.req = m)
      BY DEF OneEventEach
    <2>1. CASE m = n
      BY <1>2, <1>3, <2>1 DEF Req, n, Succeeded
    <2>2. CASE m # n
      BY <1>3, <2>2 DEF IInv, OneEventEach, Succeeded
    <2> QED
      BY <2>1, <2>2
  <1>15. AllOrNothing'
    BY DEF IInv, AllOrNothing
  <1>16. RefusedLeavesNoTrace'
    <2> SUFFICES ASSUME NEW m \in DOMAIN replies',
                        replies'[m].status \in {"hit", "dry", "sealed", "badInput", "conflict"},
                        NEW r \in rows' \cup UNION {pending'[v] : v \in Workers}
                 PROVE  r.id.req # m
      BY DEF RefusedLeavesNoTrace
    <2>1. CASE m = n
      <3>1. CASE r \in rows
        BY <1>2, <1>3, <2>1, <3>1 DEF NotApplied, n
      <3>2. CASE \E v \in Workers : r \in pending'[v]
        <4>1. PICK v \in Workers : r \in pending'[v]
          BY <3>2
        <4>2. v # w /\ r \in pending[v]
          BY <1>7, <4>1
        <4>3. worker[v].pc \in {"work", "commit"}
          BY <4>2 DEF IInv, LockDiscipline
        <4>4. \E p : r.id = MintedId(v, p)
          BY <4>2, <4>3 DEF IInv, PendingRows, HoldsItsRows
        <4>5. worker[v].req # n
          BY <4>2, <4>3 DEF IInv, Bookkeeping, Active, n
        <4> QED
          BY <4>4, <4>5, <2>1 DEF MintedId
      <3> QED
        BY <3>1, <3>2
    <2>2. CASE m # n
      <3>1. r \in rows \cup UNION {pending[v] : v \in Workers}
        BY <1>7
      <3> QED
        BY <1>3, <2>2, <3>1 DEF IInv, RefusedLeavesNoTrace
    <2> QED
      BY <2>1, <2>2
  <1> QED
    BY <1>7, <1>8, <1>9, <1>10, <1>11, <1>12, <1>13, <1>14, <1>15, <1>16 DEF IInv

(***************************************************************************)
(* A worker outside its transaction that moves on in its code.             *)
(***************************************************************************)
LEMMA GotoIInv ==
    ASSUME IInv, NEW w \in Workers, Active(w), worker[w].pc \notin {"work", "commit"},
           NEW pc, Goto(w, pc), worker'[w] \in WorkerState, pc \notin {"idle", "commit"},
           UNCHANGED <<sealed, rows, ikeys, rowLock, pending, requests, replies>>,
           redis' \in [Keys -> Record \cup {NoRecord}], published' \subseteq EventId, TiersAgree',
           Serving(w)', pc = "work" => worker[w].pos = 1,
           IF pc \in {"cache", "publish", "answer"} THEN Applied(w)' ELSE NotApplied(w)
    PROVE  IInv'
  <1>1. /\ worker' \in [Workers -> WorkerState]
        /\ worker'[w] = [worker[w] EXCEPT !.pc = pc] /\ worker'[w].pc = pc
        /\ worker'[w].req = worker[w].req /\ worker'[w].pos = worker[w].pos
        /\ \A v \in Workers \ {w} : worker'[v] = worker[v]
    BY DEF IInv, TypeOK, WorkerState, Goto
  <1>2. \A v \in Workers : Req(v)' = Req(v)
    BY <1>1 DEF Req
  <1>3. pending[w] = {} /\ rowLock # w
    BY NothingToRollBack DEF txVars
  <1>4. TypeOK'
    BY <1>1 DEF IInv, TypeOK
  <1>5. Bookkeeping'
    <2>1. \A v \in Workers \ {w} : Active(v) => Serving(v)'
      BY <1>1, <1>2, OtherWorker DEF IInv, Bookkeeping, Serving
    <2>2. \A v \in Workers : worker'[v].req = worker[v].req /\ (Active(v)' => Active(v))
      BY <1>1 DEF Active
    <2>3. Len(replies') = Len(requests')
      BY DEF IInv, Bookkeeping
    <2>4. \A u, v \in Workers :
             Active(u)' /\ Active(v)' /\ worker'[u].req = worker'[v].req => u = v
      BY <2>2 DEF IInv, Bookkeeping
    <2> QED
      BY <2>1, <2>2, <2>3, <2>4 DEF Bookkeeping
  <1>6. LockDiscipline'
    BY <1>1, <1>3 DEF IInv, LockDiscipline
  <1>7. Numbering' /\ KeysUsedOnce' /\ AckedIsDurable' /\ OneEventEach' /\ AllOrNothing'
    BY DEF IInv, Numbering, KeysUsedOnce, AckedIsDurable, OneEventEach, Succeeded, AllOrNothing
  <1>8. RefusedLeavesNoTrace'
    BY DEF IInv, RefusedLeavesNoTrace
  <1>9. PendingRows'
    <2>1. \A v \in Workers \ {w} : HoldsItsRows(v) => HoldsItsRows(v)'
      BY <1>1, <1>2, OtherWorker
    <2>2. Len(Req(w)'.intents) \in Nat
      BY <1>2, RequestFacts DEF IInv
    <2>3. pc = "work" => HoldsItsRows(w)'
      BY <1>1, <1>3, <2>2 DEF HoldsItsRows
    <2> QED
      BY <1>1, <2>1, <2>3 DEF IInv, PendingRows
  <1>10. CommittedRows'
    <2>1. \A v \in Workers \ {w} : (Applied(v) => Applied(v)') /\ (NotApplied(v) => NotApplied(v)')
      BY <1>1, <1>2, OtherWorker
    <2>2. NotApplied(w) => NotApplied(w)'
      BY <1>1 DEF NotApplied
    <2> QED
      BY <1>1, <2>1, <2>2 DEF IInv, CommittedRows, Active
  <1> QED
    BY <1>4, <1>5, <1>6, <1>7, <1>8, <1>9, <1>10 DEF IInv

(***************************************************************************)
(* The seal check refuses the request or lets it go on.                    *)
(***************************************************************************)
LEMMA CheckLedgerNotSealedIInv ==
    ASSUME IInv, NEW w \in Workers, CheckLedgerNotSealed(w)
    PROVE  IInv'
  <1>1. Active(w) /\ worker[w].pc = "checkSeal" /\ UNCHANGED txVars
    BY DEF CheckLedgerNotSealed, Active
  <1>2. Rollback(w)
    BY <1>1, NothingToRollBack
  <1>3. NotApplied(w)
    BY <1>1 DEF IInv, CommittedRows
  <1>4. UNCHANGED <<sealed, rows, ikeys, rowLock, pending, redis, published, requests>>
    BY DEF CheckLedgerNotSealed, dbVars, txVars, cacheVars
  <1>5. TiersAgree' /\ redis' \in [Keys -> Record \cup {NoRecord}] /\ published' \subseteq EventId
    BY <1>4 DEF IInv, TypeOK, TiersAgree
  <1>6. CASE sealed
    <2>1. Answer(w, "sealed", {})
      BY <1>6 DEF CheckLedgerNotSealed
    <2> QED
      BY <1>1, <1>2, <1>3, <1>4, <1>5, <2>1, AnswerIInv DEF Status
  <1>7. CASE ~sealed
    <2> DEFINE pc == IF Keyed(w) THEN "redisGet" ELSE "work"
    <2>1. Goto(w, pc) /\ UNCHANGED replies
      BY <1>7 DEF CheckLedgerNotSealed
    <2>2. worker'[w] = [worker[w] EXCEPT !.pc = pc] /\ worker'[w] \in WorkerState
          /\ worker'[w].pc = pc
      BY <2>1 DEF IInv, TypeOK, WorkerState, Goto
    <2>3. Req(w)' = Req(w) /\ (Keyed(w)' <=> Keyed(w))
      BY <1>4, <2>2 DEF IInv, TypeOK, WorkerState, Req, Keyed
    <2>4. worker[w].pos = 1 /\ Serving(w)
      BY <1>1 DEF IInv, Bookkeeping, Serving
    <2>5. Serving(w)'
      BY <1>1, <1>4, <2>1, <2>2, <2>3, <2>4, RequestFacts
      DEF IInv, TypeOK, WorkerState, Serving
    <2> QED
      BY <1>1, <1>3, <1>4, <1>5, <2>1, <2>2, <2>4, <2>5, GotoIInv
  <1> QED
    BY <1>6, <1>7

(***************************************************************************)
(* The stored record of a key names the event that carries the key.        *)
(***************************************************************************)
LEMMA RecordAnswersRequest ==
    ASSUME IInv, NEW w \in Workers, Active(w), Keyed(w), NEW rec,
           rec = ikeys[KeyOf(w)], rec # NoRecord
    PROVE  /\ rec \in Record /\ rec.id \in EventId /\ rec.hash \in Hashes
           /\ \E r \in rows : r.id = rec.id /\ r.key = Req(w).intents[1]
  <1>1. KeyOf(w) \in Keys
    BY RequestFacts DEF IInv
  <1>2. rec \in Record
    BY <1>1 DEF IInv, TypeOK
  <1>3. \E r \in rows : r.id = rec.id /\ r.key = KeyOf(w)
    BY <1>1 DEF IInv, TiersAgree
  <1> QED
    BY <1>2, <1>3 DEF Record, KeyOf

(***************************************************************************)
(* A request answered from a record: checkIdempotency's hit or mismatch.   *)
(***************************************************************************)
LEMMA AnswerFromRecordIInv ==
    ASSUME IInv, NEW w \in Workers, worker[w].pc \in {"redisGet", "pgGet"}, NEW rec,
           rec = ikeys[KeyOf(w)], rec # NoRecord, AnswerFromRecord(w, rec),
           UNCHANGED <<sealed, rows, ikeys, rowLock, pending, requests>>,
           redis' \in [Keys -> Record \cup {NoRecord}], published' \subseteq EventId, TiersAgree'
    PROVE  IInv'
  <1>1. Active(w) /\ Keyed(w)
    BY DEF IInv, Bookkeeping, Serving, Active
  <1>2. Rollback(w)
    BY NothingToRollBack DEF txVars
  <1>3. NotApplied(w)
    BY <1>1 DEF IInv, CommittedRows
  <1>4. rec.id \in EventId /\ \E r \in rows : r.id = rec.id /\ r.key = Req(w).intents[1]
    BY <1>1, RecordAnswersRequest
  <1>5. CASE rec.hash = Req(w).hash
    <2>1. Answer(w, "hit", {rec.id})
      BY <1>5 DEF AnswerFromRecord
    <2> QED
      BY <1>1, <1>2, <1>3, <1>4, <2>1, AnswerIInv DEF Status
  <1>6. CASE rec.hash # Req(w).hash
    <2>1. Answer(w, "badInput", {})
      BY <1>6 DEF AnswerFromRecord
    <2> QED
      BY <1>1, <1>2, <1>3, <2>1, AnswerIInv DEF Status
  <1> QED
    BY <1>5, <1>6

(***************************************************************************)
(* A keyed request that moves on from one lookup to the next step.         *)
(***************************************************************************)
LEMMA LookupMissIInv ==
    ASSUME IInv, NEW w \in Workers, worker[w].pc \in {"redisGet", "pgGet"},
           NEW pc \in {"pgGet", "work"}, Goto(w, pc),
           UNCHANGED <<sealed, rows, ikeys, rowLock, pending, redis, published, requests, replies>>
    PROVE  IInv'
  <1>1. Active(w) /\ Serving(w) /\ Keyed(w) /\ worker[w].pos = 1
    BY DEF IInv, Bookkeeping, Serving, Active
  <1>2. NotApplied(w)
    BY <1>1 DEF IInv, CommittedRows
  <1>3. TiersAgree' /\ redis' \in [Keys -> Record \cup {NoRecord}] /\ published' \subseteq EventId
    BY DEF IInv, TypeOK, TiersAgree
  <1>4. worker'[w] = [worker[w] EXCEPT !.pc = pc] /\ worker'[w] \in WorkerState
        /\ worker'[w].pc = pc /\ worker'[w].req = worker[w].req /\ worker'[w].pos = worker[w].pos
    BY DEF IInv, TypeOK, WorkerState, Goto
  <1>5. Req(w)' = Req(w) /\ (Keyed(w)' <=> Keyed(w))
    BY <1>4 DEF Req, Keyed
  <1>6. Serving(w)'
    BY <1>1, <1>4, <1>5, RequestFacts DEF IInv, Serving
  <1> QED
    BY <1>1, <1>2, <1>3, <1>4, <1>6, GotoIInv

(***************************************************************************)
(* The first idempotency tier answers from the cache or is passed over.    *)
(***************************************************************************)
LEMMA CheckRedisIInv ==
    ASSUME IInv, NEW w \in Workers, CheckRedis(w)
    PROVE  IInv'
  <1>1. worker[w].pc = "redisGet" /\ Active(w) /\ Keyed(w)
    BY DEF CheckRedis, IInv, Bookkeeping, Serving, Active
  <1>2. UNCHANGED <<sealed, rows, ikeys, rowLock, pending, redis, published, requests>>
    BY DEF CheckRedis, dbVars, txVars, cacheVars
  <1>3. TiersAgree' /\ redis' \in [Keys -> Record \cup {NoRecord}] /\ published' \subseteq EventId
    BY <1>2 DEF IInv, TypeOK, TiersAgree
  <1>4. KeyOf(w) \in Keys
    BY <1>1, RequestFacts DEF IInv
  <1>5. CASE redis[KeyOf(w)] # NoRecord /\ AnswerFromRecord(w, redis[KeyOf(w)])
    <2>1. redis[KeyOf(w)] = ikeys[KeyOf(w)]
      BY <1>4, <1>5 DEF IInv, TiersAgree
    <2> QED
      BY <1>1, <1>2, <1>3, <1>5, <2>1, AnswerFromRecordIInv
  <1>6. CASE Goto(w, "pgGet") /\ UNCHANGED replies
    BY <1>1, <1>2, <1>6, LookupMissIInv
  <1> QED
    BY <1>5, <1>6 DEF CheckRedis

(***************************************************************************)
(* The second tier answers, and may fill the cache with what it found.     *)
(***************************************************************************)
LEMMA CheckPGIInv ==
    ASSUME IInv, NEW w \in Workers, CheckPG(w)
    PROVE  IInv'
  <1> DEFINE rec == ikeys[KeyOf(w)]
  <1>1. worker[w].pc = "pgGet" /\ Active(w) /\ Keyed(w)
    BY DEF CheckPG, IInv, Bookkeeping, Serving, Active
  <1>2. UNCHANGED <<sealed, rows, ikeys, rowLock, pending, published, requests>>
    BY DEF CheckPG, dbVars, txVars
  <1>3. KeyOf(w) \in Keys
    BY <1>1, RequestFacts DEF IInv
  <1>4. CASE rec = NoRecord
    <2>1. Goto(w, "work") /\ UNCHANGED <<replies, redis>>
      BY <1>4 DEF CheckPG
    <2> QED
      BY <1>1, <1>2, <2>1, LookupMissIInv
  <1>5. CASE rec # NoRecord
    <2>1. AnswerFromRecord(w, rec)
          /\ (UNCHANGED redis \/ redis' = [redis EXCEPT ![KeyOf(w)] = rec])
      BY <1>5 DEF CheckPG
    <2>2. rec \in Record
      BY <1>3, <1>5 DEF IInv, TypeOK
    <2>3. redis' \in [Keys -> Record \cup {NoRecord}] /\ published' \subseteq EventId
      BY <1>2, <1>3, <2>1, <2>2 DEF IInv, TypeOK
    <2>4. TiersAgree'
      BY <1>2, <1>3, <2>1 DEF IInv, TypeOK, TiersAgree
    <2> QED
      BY <1>1, <1>2, <1>5, <2>1, <2>3, <2>4, AnswerFromRecordIInv
  <1> QED
    BY <1>4, <1>5

(***************************************************************************)
(* Answers that carry no event and leave the tables as they are.           *)
(***************************************************************************)
LEMMA EmptyAnswerIInv ==
    ASSUME IInv, NEW w \in Workers, Active(w), NEW st \in Status \ {"ok", "hit"},
           Answer(w, st, {}), Rollback(w),
           UNCHANGED <<sealed, rows, ikeys, redis, published, requests>>,
           worker[w].pc \notin {"cache", "publish", "answer"}
    PROVE  IInv'
  <1>1. NotApplied(w)
    BY DEF IInv, CommittedRows
  <1>2. TiersAgree' /\ redis' \in [Keys -> Record \cup {NoRecord}] /\ published' \subseteq EventId
    BY DEF IInv, TypeOK, TiersAgree
  <1> QED
    BY <1>1, <1>2, AnswerIInv

(***************************************************************************)
(* A dry run has written nothing, so there is nothing to roll back.        *)
(***************************************************************************)
LEMMA DryRunIInv ==
    ASSUME IInv, NEW w \in Workers, DryRun(w)
    PROVE  IInv'
  <1>1. /\ Active(w) /\ worker[w].pc = "work" /\ Answer(w, "dry", {})
        /\ UNCHANGED <<sealed, rows, ikeys, rowLock, pending, redis, published, requests>>
    BY DEF DryRun, Active, dbVars, txVars, cacheVars
  <1>2. Req(w).mode = "submit" /\ Len(Req(w).intents) = 1
    BY <1>1, RequestFacts, ConstantsAssumption DEF DryRun, IInv
  <1>3. worker[w].pos = 1
    <2>1. /\ worker[w].pos \in 1..(Len(Req(w).intents) + 1)
          /\ worker[w].pos <= Len(Req(w).intents)
      BY <1>1 DEF IInv, Bookkeeping, Serving
    <2>2. worker[w].pos \in 1..(1 + 1) /\ worker[w].pos <= 1
      BY <1>2, <2>1, Zenon
    <2> QED
      BY <2>2
  <1>4. pending[w] = {} /\ rowLock # w
    <2>1. HoldsItsRows(w)
      BY <1>1 DEF IInv, PendingRows
    <2>2. \A r \in pending[w] : FALSE
      BY <1>2, <1>3, <2>1 DEF HoldsItsRows
    <2>3. pending[w] = {}
      BY <2>2
    <2> QED
      BY <2>3 DEF IInv, LockDiscipline
  <1>5. Rollback(w)
    BY <1>1, <1>4 DEF Rollback, IInv, TypeOK
  <1> QED
    BY <1>1, <1>5, EmptyAnswerIInv DEF Status

(***************************************************************************)
(* PublishEvent and AnswerBatch: the IDs of an applied request are in the  *)
(* log, under its key.                                                     *)
(***************************************************************************)
LEMMA AnswerAppliedIInv ==
    ASSUME IInv, NEW w \in Workers, worker[w].pc \in {"publish", "answer"},
           Answer(w, "ok", MintedIds(w)), published' \subseteq EventId,
           UNCHANGED <<sealed, rows, ikeys, rowLock, pending, redis, requests>>
    PROVE  IInv'
  <1>1. Active(w) /\ Applied(w)
    BY DEF Active, IInv, CommittedRows
  <1>2. Rollback(w)
    BY NothingToRollBack DEF txVars
  <1>3. TiersAgree' /\ redis' \in [Keys -> Record \cup {NoRecord}]
    BY DEF IInv, TypeOK, TiersAgree
  <1>4. /\ Len(Req(w).intents) \in Nat \ {0}
        /\ Req(w).mode = "submit" => Len(Req(w).intents) = 1
    BY <1>1, RequestFacts DEF IInv
  <1>5. MintedIds(w) \in SUBSET EventId
    BY <1>4 DEF MintedIds, MintedId, EventId, IInv, TypeOK, WorkerState
  <1>6. ASSUME NEW i \in MintedIds(w)
        PROVE  \E r \in rows :
                  r.id = i /\ (Req(w).mode = "submit" => r.key = Req(w).intents[1])
    <2>1. PICK p \in 1..Len(Req(w).intents) : i = MintedId(w, p)
      BY <1>6 DEF MintedIds
    <2>2. PICK r \in rows : r.id = i /\ r.key = Req(w).intents[p]
      BY <1>1, <2>1 DEF Applied
    <2>3. Req(w).mode = "submit" => p \in 1..1
      BY <1>4, <2>1, Zenon
    <2>4. Req(w).mode = "submit" => p = 1
      BY <2>3
    <2> QED
      BY <2>2, <2>4
  <1>7. ASSUME Req(w).mode = "submit"
        PROVE  \E i \in MintedIds(w) : MintedIds(w) = {i} /\ i.req = worker[w].req
    <2>1. 1..Len(Req(w).intents) = 1..1
      BY <1>4, <1>7, Zenon
    <2>2. 1..1 = {1}
      OBVIOUS
    <2>3. MintedIds(w) = {MintedId(w, 1)}
      BY <2>1, <2>2 DEF MintedIds
    <2> QED
      BY <2>3 DEF MintedId
  <1>8. "ok" \in Status
    BY DEF Status
  <1> QED
    BY <1>1, <1>2, <1>3, <1>5, <1>6, <1>7, <1>8, AnswerIInv

(***************************************************************************)
(* postCommitIdempotency caches what was committed.                        *)
(***************************************************************************)
LEMMA PostCommitIdempotencyIInv ==
    ASSUME IInv, NEW w \in Workers, PostCommitIdempotency(w)
    PROVE  IInv'
  <1> DEFINE rec == [id |-> MintedId(w, 1), hash |-> Req(w).hash]
  <1>1. /\ worker[w].pc = "cache" /\ Active(w) /\ Serving(w) /\ Keyed(w) /\ Applied(w)
        /\ Goto(w, "publish")
        /\ UNCHANGED <<sealed, rows, ikeys, rowLock, pending, published, requests, replies>>
    BY DEF PostCommitIdempotency, dbVars, txVars, Active, IInv, Bookkeeping, Serving, CommittedRows
  <1>2. UNCHANGED redis \/ redis' = [redis EXCEPT ![KeyOf(w)] = rec]
    BY DEF PostCommitIdempotency
  <1>3. KeyOf(w) \in Keys /\ ikeys[KeyOf(w)] = rec /\ rec \in Record
    <2>1. KeyOf(w) \in Keys /\ Req(w).hash \in Hashes
      BY <1>1, RequestFacts DEF IInv
    <2>2. ikeys[KeyOf(w)] = rec
      BY <1>1 DEF Applied
    <2>3. MintedId(w, 1) \in EventId
      BY DEF MintedId, EventId, IInv, TypeOK, WorkerState
    <2> QED
      BY <2>1, <2>2, <2>3 DEF Record
  <1> HIDE DEF rec
  <1>4. redis' \in [Keys -> Record \cup {NoRecord}] /\ published' \subseteq EventId
    BY <1>1, <1>2, <1>3 DEF IInv, TypeOK
  <1>5. TiersAgree'
    BY <1>1, <1>2, <1>3 DEF IInv, TypeOK, TiersAgree
  <1>6. worker'[w] = [worker[w] EXCEPT !.pc = "publish"] /\ worker'[w] \in WorkerState
        /\ worker'[w].pc = "publish" /\ worker'[w].req = worker[w].req
        /\ worker'[w].pos = worker[w].pos /\ worker'[w].try = worker[w].try
    BY <1>1 DEF IInv, TypeOK, WorkerState, Goto
  <1>7. Req(w)' = Req(w) /\ (Keyed(w)' <=> Keyed(w)) /\ (\A p : MintedId(w, p)' = MintedId(w, p))
    BY <1>1, <1>6 DEF Req, Keyed, MintedId
  <1>8. Serving(w)'
    BY <1>1, <1>6, <1>7 DEF Serving, Keyed
  <1>9. Applied(w)'
    BY <1>1, <1>6, <1>7 DEF Applied
  <1> QED
    BY <1>1, <1>4, <1>5, <1>6, <1>8, <1>9, GotoIInv

(***************************************************************************)
(* resolveIdempotencyConflict answers with the winner's event.             *)
(***************************************************************************)
LEMMA ResolveIdempotencyConflictIInv ==
    ASSUME IInv, NEW w \in Workers, ResolveIdempotencyConflict(w)
    PROVE  IInv'
  <1>1. /\ worker[w].pc = "resolve" /\ Active(w) /\ Keyed(w)
        /\ UNCHANGED <<sealed, rows, ikeys, rowLock, pending, redis, published, requests>>
    BY DEF ResolveIdempotencyConflict, dbVars, txVars, cacheVars, Active, IInv, Bookkeeping, Serving
  <1>2. Rollback(w)
    BY <1>1, NothingToRollBack DEF txVars
  <1>3. CASE ikeys[KeyOf(w)] # NoRecord /\ Answer(w, "hit", {ikeys[KeyOf(w)].id})
    <2> DEFINE rec == ikeys[KeyOf(w)]
    <2>1. NotApplied(w)
      BY <1>1 DEF IInv, CommittedRows
    <2>2. TiersAgree' /\ redis' \in [Keys -> Record \cup {NoRecord}] /\ published' \subseteq EventId
      BY <1>1 DEF IInv, TypeOK, TiersAgree
    <2>3. rec.id \in EventId /\ \E r \in rows : r.id = rec.id /\ r.key = Req(w).intents[1]
      BY <1>1, <1>3, RecordAnswersRequest
    <2>4. "hit" \in Status
      BY DEF Status
    <2> QED
      BY <1>1, <1>2, <1>3, <2>1, <2>2, <2>3, <2>4, AnswerIInv
  <1>4. CASE Answer(w, "conflict", {})
    BY <1>1, <1>2, <1>4, EmptyAnswerIInv DEF Status
  <1> QED
    BY <1>3, <1>4 DEF ResolveIdempotencyConflict

(***************************************************************************)
(* Fail: nothing was committed, so an error may be answered.               *)
(***************************************************************************)
LEMMA FailIInv ==
    ASSUME IInv, NEW w \in Workers, Fail(w)
    PROVE  IInv'
  <1>1. /\ worker[w].pc \in {"checkSeal", "pgGet", "work", "commit"} /\ Active(w)
        /\ Rollback(w) /\ Answer(w, "error", {})
        /\ UNCHANGED <<sealed, rows, ikeys, redis, published, requests>>
    BY DEF Fail, Active, dbVars, cacheVars
  <1> QED
    BY <1>1, EmptyAnswerIInv DEF Status

(***************************************************************************)
(* Crash: the transaction and the worker's own state are gone, the rest is *)
(* as it was, and the request stays without an answer.                     *)
(***************************************************************************)
LEMMA CrashIInv ==
    ASSUME IInv, NEW w \in Workers, Crash(w)
    PROVE  IInv'
  <1>1. /\ Rollback(w) /\ worker' = [worker EXCEPT ![w] = Idle]
        /\ UNCHANGED <<sealed, rows, ikeys, redis, published, requests, replies>>
    BY DEF Crash, dbVars, cacheVars
  <1>2. Idle \in WorkerState /\ Idle.pc = "idle"
    BY DEF Idle, WorkerState
  <1>3. /\ worker' \in [Workers -> WorkerState] /\ worker'[w].pc = "idle"
        /\ \A v \in Workers \ {w} : worker'[v] = worker[v]
    BY <1>1, <1>2 DEF IInv, TypeOK
  <1>4. \A v \in Workers \ {w} : Req(v)' = Req(v)
    BY <1>1, <1>3 DEF Req
  <1>5. /\ pending' \in [Workers -> SUBSET Row]
        /\ rowLock' \in Workers \cup {NoWorker}
        /\ pending'[w] = {} /\ rowLock' # w
        /\ \A v \in Workers \ {w} : pending'[v] = pending[v] /\ (rowLock' = v <=> rowLock = v)
        /\ Numbering' /\ KeysUsedOnce'
    BY <1>1, RollbackFacts
  <1>6. TypeOK'
    BY <1>1, <1>3, <1>5 DEF IInv, TypeOK
  <1>7. Bookkeeping'
    <2>1. \A v \in Workers \ {w} : Active(v) => Serving(v)'
      BY <1>1, <1>3, <1>4, OtherWorker DEF IInv, Bookkeeping, Serving
    <2> QED
      BY <1>1, <1>3, <2>1 DEF IInv, Bookkeeping, Active
  <1>8. LockDiscipline'
    BY <1>3, <1>5 DEF IInv, LockDiscipline
  <1>9. PendingRows'
    <2>1. \A v \in Workers \ {w} : HoldsItsRows(v) => HoldsItsRows(v)'
      BY <1>3, <1>4, <1>5, OtherWorker
    <2> QED
      BY <1>3, <2>1 DEF IInv, PendingRows
  <1>10. CommittedRows'
    <2>1. \A v \in Workers \ {w} : (Applied(v) => Applied(v)') /\ (NotApplied(v) => NotApplied(v)')
      BY <1>1, <1>3, <1>4, OtherWorker
    <2> QED
      BY <1>1, <1>3, <2>1 DEF IInv, CommittedRows, Active
  <1>11. TiersAgree' /\ AckedIsDurable' /\ OneEventEach' /\ AllOrNothing'
    BY <1>1 DEF IInv, TiersAgree, AckedIsDurable, OneEventEach, Succeeded, AllOrNothing
  <1>12. UNION {pending'[v] : v \in Workers} \subseteq UNION {pending[v] : v \in Workers}
    BY <1>5
  <1>13. RefusedLeavesNoTrace'
    BY <1>1, <1>12 DEF IInv, RefusedLeavesNoTrace
  <1> QED
    BY <1>5, <1>6, <1>7, <1>8, <1>9, <1>10, <1>11, <1>13 DEF IInv

(***************************************************************************)
(* A step that touches neither the workers nor their transactions, the log *)
(* or the answers: sealing, an expiring cache record, stuttering.          *)
(***************************************************************************)
LEMMA EnvironmentIInv ==
    ASSUME IInv,
           UNCHANGED <<rows, ikeys, rowLock, pending, published, worker, requests, replies>>,
           sealed' \in BOOLEAN, redis' \in [Keys -> Record \cup {NoRecord}],
           \A k \in Keys : redis'[k] \in {redis[k], NoRecord}
    PROVE  IInv'
  <1>1. TypeOK'
    BY DEF IInv, TypeOK
  <1>2. \A v \in Workers : Req(v)' = Req(v) /\ worker'[v] = worker[v]
    BY DEF Req
  <1>3. Bookkeeping'
    BY <1>2, OtherWorker DEF IInv, Bookkeeping, Serving
  <1>4. LockDiscipline' /\ Numbering' /\ KeysUsedOnce'
    BY DEF IInv, LockDiscipline, Numbering, KeysUsedOnce
  <1>5. PendingRows'
    BY <1>2, OtherWorker DEF IInv, PendingRows
  <1>6. CommittedRows'
    BY <1>2, OtherWorker DEF IInv, CommittedRows
  <1>7. TiersAgree'
    BY DEF IInv, TiersAgree
  <1>8. AckedIsDurable' /\ OneEventEach' /\ AllOrNothing' /\ RefusedLeavesNoTrace'
    BY DEF IInv, AckedIsDurable, OneEventEach, Succeeded, AllOrNothing, RefusedLeavesNoTrace
  <1> QED
    BY <1>1, <1>3, <1>4, <1>5, <1>6, <1>7, <1>8 DEF IInv

(***************************************************************************)
(* A transaction that is rolled back without an answer: its worker starts  *)
(* it again, or goes on to resolve the conflict that aborted it.           *)
(***************************************************************************)
LEMMA AbortIInv ==
    ASSUME IInv, NEW w \in Workers, worker[w].pc = "work", Rollback(w),
           worker' \in [Workers -> WorkerState],
           \A v \in Workers \ {w} : worker'[v] = worker[v],
           worker'[w].req = worker[w].req, worker'[w].pc \in {"work", "resolve"},
           worker'[w].pc = "work" => worker'[w].pos = 1, Serving(w)',
           UNCHANGED <<sealed, rows, ikeys, redis, published, requests, replies>>
    PROVE  IInv'
  <1>1. Active(w) /\ NotApplied(w)
    BY DEF IInv, CommittedRows, Active
  <1>2. \A v \in Workers : Req(v)' = Req(v)
    BY DEF Req
  <1>3. /\ pending' \in [Workers -> SUBSET Row]
        /\ rowLock' \in Workers \cup {NoWorker}
        /\ pending'[w] = {} /\ rowLock' # w
        /\ \A v \in Workers \ {w} : pending'[v] = pending[v] /\ (rowLock' = v <=> rowLock = v)
        /\ Numbering' /\ KeysUsedOnce'
    BY RollbackFacts
  <1>4. TypeOK'
    BY <1>3 DEF IInv, TypeOK
  <1>5. Bookkeeping'
    <2>1. \A v \in Workers \ {w} : Active(v) => Serving(v)'
      BY <1>2, OtherWorker DEF IInv, Bookkeeping, Serving
    <2>2. \A v \in Workers : worker'[v].req = worker[v].req /\ (Active(v)' => Active(v))
      BY <1>1 DEF Active
    <2>3. Len(replies') = Len(requests')
      BY DEF IInv, Bookkeeping
    <2>4. \A u, v \in Workers :
             Active(u)' /\ Active(v)' /\ worker'[u].req = worker'[v].req => u = v
      BY <2>2 DEF IInv, Bookkeeping
    <2> QED
      BY <2>1, <2>2, <2>3, <2>4 DEF Bookkeeping
  <1>6. LockDiscipline'
    BY <1>3 DEF IInv, LockDiscipline
  <1>7. PendingRows'
    <2>1. \A v \in Workers \ {w} : HoldsItsRows(v) => HoldsItsRows(v)'
      BY <1>2, <1>3, OtherWorker
    <2>2. Len(Req(w)'.intents) \in Nat
      BY <1>1, <1>2, RequestFacts DEF IInv
    <2>3. worker'[w].pc = "work" => HoldsItsRows(w)'
      BY <1>3, <2>2 DEF HoldsItsRows
    <2> QED
      BY <2>1, <2>3 DEF IInv, PendingRows
  <1>8. CommittedRows'
    <2>1. \A v \in Workers \ {w} : (Applied(v) => Applied(v)') /\ (NotApplied(v) => NotApplied(v)')
      BY <1>2, OtherWorker
    <2>2. NotApplied(w)'
      BY <1>1 DEF NotApplied
    <2> QED
      BY <2>1, <2>2 DEF IInv, CommittedRows, Active
  <1>9. TiersAgree' /\ AckedIsDurable' /\ OneEventEach' /\ AllOrNothing'
    BY DEF IInv, TiersAgree, AckedIsDurable, OneEventEach, Succeeded, AllOrNothing
  <1>10. UNION {pending'[v] : v \in Workers} \subseteq UNION {pending[v] : v \in Workers}
    BY <1>3
  <1>11. RefusedLeavesNoTrace'
    BY <1>10 DEF IInv, RefusedLeavesNoTrace
  <1> QED
    BY <1>3, <1>4, <1>5, <1>6, <1>7, <1>8, <1>9, <1>11 DEF IInv

(***************************************************************************)
(* withDeadlockRetry: a standalone submit starts over, a batch gives up.   *)
(***************************************************************************)
LEMMA DeadlockIInv ==
    ASSUME IInv, NEW w \in Workers, Deadlock(w)
    PROVE  IInv'
  <1>1. /\ worker[w].pc = "work" /\ Active(w) /\ Serving(w) /\ Rollback(w)
        /\ UNCHANGED <<sealed, rows, ikeys, redis, published, requests>>
    BY DEF Deadlock, Active, dbVars, cacheVars, IInv, Bookkeeping
  <1>2. CASE Req(w).mode = "submit" /\ worker[w].try < MaxDeadlockRetries
    <2> DEFINE n == worker[w].try + 1
               s == [worker[w] EXCEPT !.try = n, !.pos = 1]
    <2>1. worker' = [worker EXCEPT ![w].try = n, ![w].pos = 1] /\ UNCHANGED replies
      BY <1>2 DEF Deadlock
    <2>0. worker[w] \in WorkerState /\ n \in Nat
      BY DEF IInv, TypeOK, WorkerState
    <2> HIDE DEF n
    <2>2. s \in WorkerState /\ s.pc = "work" /\ s.req = worker[w].req /\ s.pos = 1
      BY <1>1, <2>0 DEF WorkerState
    <2>a. worker'[w] = s /\ \A v \in Workers \ {w} : worker'[v] = worker[v]
      BY <2>1 DEF IInv, TypeOK, WorkerState
    <2>b. worker' \in [Workers -> WorkerState]
      BY <2>1, <2>2, <2>a DEF IInv, TypeOK
    <2> HIDE DEF s
    <2>3. /\ worker' \in [Workers -> WorkerState] /\ worker'[w] = s
          /\ \A v \in Workers \ {w} : worker'[v] = worker[v]
      BY <2>a, <2>b
    <2>4. Req(w)' = Req(w) /\ Len(Req(w).intents) \in Nat \ {0}
      BY <1>1, <2>2, <2>3, RequestFacts DEF Req, IInv
    <2>5. Serving(w)'
      BY <1>1, <2>1, <2>2, <2>3, <2>4 DEF Serving
    <2> QED
      BY <1>1, <2>1, <2>2, <2>3, <2>5, AbortIInv
  <1>3. CASE ~(Req(w).mode = "submit" /\ worker[w].try < MaxDeadlockRetries)
    <2>1. Answer(w, "error", {})
      BY <1>3 DEF Deadlock
    <2> QED
      BY <1>1, <2>1, EmptyAnswerIInv DEF Status
  <1> QED
    BY <1>2, <1>3

(***************************************************************************)
(* appendEvent's row is well formed and carries the next number.           *)
(***************************************************************************)
LEMMA NewRowFacts ==
    ASSUME IInv, NEW w \in Workers, worker[w].pc = "work"
    PROVE  /\ NewRow(w) \in Row
           /\ NewRow(w).id = MintedId(w, worker[w].pos)
           /\ NewRow(w).seq = LastSeq(rows \cup pending[w]) + 1
           /\ NewRow(w).key = Req(w).intents[worker[w].pos]
           /\ Keyed(w) => NewRow(w).hash = Req(w).hash
           /\ worker[w].pos \in 1..Len(Req(w).intents)
  <1>1. Active(w) /\ Serving(w)
    BY DEF IInv, Bookkeeping, Active
  <1>2. /\ Req(w).intents \in Seq(Keys \cup {NoKey}) /\ Len(Req(w).intents) \in Nat
        /\ Req(w).hash \in Hashes
        /\ Req(w).mode = "submit" => Len(Req(w).intents) = 1
    BY <1>1, RequestFacts DEF IInv
  <1>3. worker[w].pos \in 1..Len(Req(w).intents)
    BY <1>1, <1>2 DEF Serving
  <1>4. Req(w).intents[worker[w].pos] \in Keys \cup {NoKey}
    BY <1>2, <1>3
  <1>5. MintedId(w, worker[w].pos) \in EventId
    BY DEF MintedId, EventId, IInv, TypeOK, WorkerState
  <1>6. LastSeq(rows \cup pending[w]) \in Nat
    BY DEF IInv, Numbering, Numbered
  <1>7. NewRow(w) \in Row
    BY <1>2, <1>4, <1>5, <1>6 DEF NewRow, NextLedgerSeq, Row
  <1>8. Keyed(w) => NewRow(w).hash = Req(w).hash
    <2> SUFFICES ASSUME Keyed(w) PROVE NewRow(w).hash = Req(w).hash
      OBVIOUS
    <2>1. Req(w).mode = "submit" /\ Req(w).intents[1] # NoKey
      BY DEF Keyed
    <2>2. worker[w].pos \in 1..1
      BY <1>2, <1>3, <2>1, Zenon
    <2>3. worker[w].pos = 1
      BY <2>2
    <2> QED
      BY <2>1, <2>3 DEF NewRow
  <1> QED
    BY <1>3, <1>7, <1>8 DEF NewRow, NextLedgerSeq

(***************************************************************************)
(* appendEvent with no constraint violated: the row joins the transaction, *)
(* which now holds the ledger row.  No other transaction has written       *)
(* anything, so the numbering goes on from the committed log.              *)
(***************************************************************************)
LEMMA InsertIInv ==
    ASSUME IInv, NEW w \in Workers, worker[w].pc = "work", rowLock \in {NoWorker, w},
           ~UniqueViolation(NewRow(w), rows \cup pending[w]),
           pending' = [pending EXCEPT ![w] = @ \cup {NewRow(w)}], rowLock' = w,
           worker' = [worker EXCEPT
                        ![w].pc = IF worker[w].pos = Len(Req(w).intents)
                                  THEN "commit" ELSE "work",
                        ![w].pos = @ + 1],
           UNCHANGED <<sealed, rows, ikeys, redis, published, requests, replies>>
    PROVE  IInv'
  <1> DEFINE row == NewRow(w)
             p0 == worker[w].pos
             p1 == p0 + 1
             pc == IF p0 = Len(Req(w).intents) THEN "commit" ELSE "work"
             s == [worker[w] EXCEPT !.pc = pc, !.pos = p1]
  <1>1. /\ row \in Row /\ row.id = MintedId(w, p0)
        /\ row.seq = LastSeq(rows \cup pending[w]) + 1
        /\ row.key = Req(w).intents[p0]
        /\ Keyed(w) => row.hash = Req(w).hash
        /\ p0 \in 1..Len(Req(w).intents)
    BY NewRowFacts
  <1>2. Active(w) /\ Serving(w) /\ NotApplied(w) /\ HoldsItsRows(w)
    BY DEF IInv, Bookkeeping, CommittedRows, PendingRows, Active
  <1>3. Len(Req(w).intents) \in Nat
    BY <1>2, RequestFacts DEF IInv
  <1>b. worker' = [worker EXCEPT ![w].pc = pc, ![w].pos = p1]
    OBVIOUS
  <1>c. worker[w] \in WorkerState /\ p1 \in Nat /\ p0 \in Nat
    BY DEF IInv, TypeOK, WorkerState
  <1>d. /\ pc \in {"work", "commit"}
        /\ pc = "commit" => p0 = Len(Req(w).intents)
        /\ pc = "work" => p0 # Len(Req(w).intents)
    OBVIOUS
  <1> HIDE DEF p1, pc
  <1>4. worker'[w] = s /\ \A v \in Workers \ {w} : worker'[v] = worker[v]
    BY <1>b DEF IInv, TypeOK, WorkerState
  <1>a. /\ s \in WorkerState /\ s.req = worker[w].req /\ s.try = worker[w].try
        /\ s.pos = p1 /\ s.pc = pc
    BY <1>c, <1>d DEF WorkerState
  <1>5. /\ s \in WorkerState /\ s.req = worker[w].req /\ s.try = worker[w].try
        /\ s.pos = p0 + 1 /\ s.pc \in {"work", "commit"}
        /\ s.pc = "commit" => p0 = Len(Req(w).intents)
        /\ s.pc = "work" => p0 # Len(Req(w).intents)
    BY <1>a, <1>d DEF p1
  <1>6. worker' \in [Workers -> WorkerState]
    BY <1>4, <1>5 DEF IInv, TypeOK
  <1>7. \A v \in Workers \ {w} : pending[v] = {} /\ pending'[v] = {}
    BY ConstantsAssumption DEF IInv, TypeOK, LockDiscipline
  <1>8. pending'[w] = pending[w] \cup {row} /\ pending' \in [Workers -> SUBSET Row]
    BY <1>1 DEF IInv, TypeOK
  <1> HIDE DEF row, p0, s
  <1>9. \A v \in Workers : Req(v)' = Req(v) /\ worker'[v].req = worker[v].req
    BY <1>4, <1>5 DEF Req
  <1>10. /\ Keyed(w)' <=> Keyed(w)
         /\ \A p : MintedId(w, p)' = MintedId(w, p)
    BY <1>4, <1>5, <1>9 DEF Keyed, MintedId
  <1>11. TypeOK'
    BY <1>6, <1>8 DEF IInv, TypeOK
  <1>12. Bookkeeping'
    <2>0. \A v \in Workers \ {w} : worker'[v] = worker[v] /\ Req(v)' = Req(v)
      BY <1>4, <1>9
    <2>1. ASSUME NEW v \in Workers \ {w}, Active(v) PROVE Serving(v)'
      <3>1. Serving(v)
        BY <2>1 DEF IInv, Bookkeeping
      <3>2. Keyed(v)' <=> Keyed(v)
        BY <2>0 DEF Keyed
      <3> QED
        BY <2>0, <3>1, <3>2 DEF Serving
    <2>2. Serving(w)'
      BY <1>1, <1>2, <1>3, <1>4, <1>5, <1>9, <1>10 DEF Serving
    <2>3. \A v \in Workers : Active(v)' => Active(v)
      BY <1>2, <1>4 DEF Active
    <2>4. Len(replies') = Len(requests')
      BY DEF IInv, Bookkeeping
    <2>5. \A u, v \in Workers :
             Active(u)' /\ Active(v)' /\ worker'[u].req = worker'[v].req => u = v
      BY <1>9, <2>3 DEF IInv, Bookkeeping
    <2> QED
      BY <2>1, <2>2, <2>3, <2>4, <2>5 DEF Bookkeeping
  <1>13. LockDiscipline'
    BY <1>4, <1>5, <1>7, <1>8 DEF IInv, LockDiscipline
  <1>14. Numbering'
    <2>1. rows \cup pending'[w] = (rows \cup pending[w]) \cup {row}
      BY <1>8
    <2>2. Numbered(rows \cup pending[w])
      BY DEF IInv, Numbering
    <2>3. Numbered(rows \cup pending'[w]) /\ \A r \in rows : r.seq < row.seq
      BY <1>1, <2>1, <2>2, NumberedAppend
    <2>4. \A v \in Workers \ {w} : rows \cup pending'[v] = rows \cup pending[v]
      BY <1>7
    <2> QED
      BY <1>7, <1>8, <2>3, <2>4 DEF IInv, Numbering
  <1>15. KeysUsedOnce'
    <2>1. \A r \in rows \cup pending[w] : r.key = row.key => row.key = NoKey
      BY DEF UniqueViolation, row
    <2> QED
      BY <1>7, <1>8, <2>1 DEF IInv, KeysUsedOnce
  <1>16. PendingRows'
    <2>1. \A v \in Workers \ {w} : HoldsItsRows(v) => HoldsItsRows(v)'
      BY <1>4, <1>7, <1>9, OtherWorker
    <2>2. \A r \in pending'[w] :
             \E p \in 1..Len(Req(w).intents) : p < worker'[w].pos /\ r.id = MintedId(w, p)
      BY <1>1, <1>2, <1>3, <1>4, <1>5, <1>8 DEF HoldsItsRows, p0
    <2>3. ASSUME NEW p \in 1..Len(Req(w).intents), p < worker'[w].pos
          PROVE  \E r \in pending'[w] :
                    /\ r.id = MintedId(w, p)
                    /\ r.key = Req(w).intents[p]
                    /\ Keyed(w) => r.hash = Req(w).hash
      <3>1. CASE p = p0
        BY <1>1, <1>8, <3>1
      <3>2. CASE p # p0
        <4>0. worker'[w].pos = p0 + 1
          BY <1>4, <1>5
        <4>a. p \in Nat /\ p < p0 + 1
          BY <1>3, <2>3, <4>0
        <4>1. p < p0
          BY <1>c, <3>2, <4>a
        <4> QED
          BY <1>2, <1>8, <4>1 DEF HoldsItsRows, p0
      <3> QED
        BY <3>1, <3>2
    <2>4. Req(w)' = Req(w)
      BY <1>9
    <2>a. \A r \in pending'[w] :
             \E p \in 1..Len(Req(w)'.intents) : p < worker'[w].pos /\ r.id = MintedId(w, p)'
      BY <1>10, <2>2, <2>4
    <2>b. \A p \in 1..Len(Req(w)'.intents) :
             p < worker'[w].pos =>
                \E r \in pending'[w] :
                    /\ r.id = MintedId(w, p)'
                    /\ r.key = Req(w)'.intents[p]
                    /\ Keyed(w)' => r.hash = Req(w)'.hash
      BY <1>10, <2>3, <2>4
    <2>5. HoldsItsRows(w)'
      BY <2>a, <2>b DEF HoldsItsRows
    <2> QED
      BY <1>4, <2>1, <2>5 DEF IInv, PendingRows
  <1>17. CommittedRows'
    <2>1. \A v \in Workers \ {w} : (Applied(v) => Applied(v)') /\ (NotApplied(v) => NotApplied(v)')
      BY <1>4, <1>9, OtherWorker
    <2>2. NotApplied(w)'
      BY <1>2, <1>9 DEF NotApplied
    <2> QED
      BY <1>4, <1>5, <2>1, <2>2 DEF IInv, CommittedRows, Active
  <1>18. TiersAgree' /\ AckedIsDurable' /\ OneEventEach' /\ AllOrNothing'
    BY DEF IInv, TiersAgree, AckedIsDurable, OneEventEach, Succeeded, AllOrNothing
  <1>19. RefusedLeavesNoTrace'
    <2> SUFFICES ASSUME NEW m \in DOMAIN replies,
                        replies[m].status \in {"hit", "dry", "sealed", "badInput", "conflict"},
                        NEW r \in rows \cup UNION {pending'[v] : v \in Workers}
                 PROVE  r.id.req # m
      BY DEF RefusedLeavesNoTrace
    <2>1. CASE r \in rows \cup UNION {pending[v] : v \in Workers}
      BY <2>1 DEF IInv, RefusedLeavesNoTrace
    <2>2. CASE r = row
      <3>1. replies[worker[w].req].status = "none"
        BY <1>2 DEF Serving
      <3>2. r.id.req = worker[w].req
        BY <1>1, <2>2 DEF MintedId
      <3> QED
        BY <3>1, <3>2
    <2> QED
      BY <1>7, <1>8, <2>1, <2>2
  <1> QED
    BY <1>11, <1>12, <1>13, <1>14, <1>15, <1>16, <1>17, <1>18, <1>19 DEF IInv

(***************************************************************************)
(* appendEvent: the insert, or a conflict that aborts the transaction.     *)
(***************************************************************************)
LEMMA AppendEventIInv ==
    ASSUME IInv, NEW w \in Workers, AppendEvent(w)
    PROVE  IInv'
  <1>1. /\ worker[w].pc = "work" /\ Active(w) /\ Serving(w) /\ rowLock \in {NoWorker, w}
        /\ UNCHANGED <<sealed, rows, ikeys, redis, published, requests>>
    BY DEF AppendEvent, Active, dbVars, cacheVars, IInv, Bookkeeping
  <1>2. CASE ~UniqueViolation(NewRow(w), rows \cup pending[w])
    <2>1. /\ pending' = [pending EXCEPT ![w] = @ \cup {NewRow(w)}] /\ rowLock' = w
          /\ worker' = [worker EXCEPT
                           ![w].pc = IF worker[w].pos = Len(Req(w).intents)
                                     THEN "commit" ELSE "work",
                           ![w].pos = @ + 1]
          /\ UNCHANGED replies
      BY <1>2 DEF AppendEvent
    <2> QED
      BY <1>1, <1>2, <2>1, InsertIInv
  <1>3. CASE UniqueViolation(NewRow(w), rows \cup pending[w])
    <2>1. Rollback(w)
      BY <1>3 DEF AppendEvent
    <2>2. CASE Keyed(w)
      <3>1. Goto(w, "resolve") /\ UNCHANGED replies
        BY <1>3, <2>2 DEF AppendEvent
      <3>2. /\ worker' \in [Workers -> WorkerState]
            /\ worker'[w].pc = "resolve" /\ worker'[w].req = worker[w].req
            /\ worker'[w].pos = worker[w].pos
            /\ \A v \in Workers \ {w} : worker'[v] = worker[v]
        BY <3>1 DEF IInv, TypeOK, WorkerState, Goto
      <3>3. Req(w)' = Req(w) /\ Keyed(w)'
        BY <1>1, <2>2, <3>2 DEF Req, Keyed
      <3>4. Serving(w)'
        BY <1>1, <3>1, <3>2, <3>3 DEF Serving
      <3> QED
        BY <1>1, <2>1, <3>1, <3>2, <3>4, AbortIInv
    <2>3. CASE ~Keyed(w)
      <3>1. Answer(w, "conflict", {})
        BY <1>3, <2>3 DEF AppendEvent
      <3> QED
        BY <1>1, <2>1, <3>1, EmptyAnswerIInv DEF Status
    <2> QED
      BY <2>2, <2>3
  <1> QED
    BY <1>2, <1>3

(***************************************************************************)
(* Commit: the transaction's rows join the log together.  No other         *)
(* transaction has written anything, and the key of a keyed submit had no  *)
(* record, hence no cached one either.                                     *)
(***************************************************************************)
LEMMA CommitIInv ==
    ASSUME IInv, NEW w \in Workers, Commit(w)
    PROVE  IInv'
  <1> DEFINE n == worker[w].req
             rec == [id |-> MintedId(w, 1), hash |-> Req(w).hash]
  <1>1. /\ worker[w].pc = "commit" /\ Active(w) /\ Serving(w) /\ NotApplied(w) /\ HoldsItsRows(w)
        /\ rows' = rows \cup pending[w] /\ Rollback(w)
        /\ ikeys' = IF Keyed(w) THEN [ikeys EXCEPT ![KeyOf(w)] = rec] ELSE ikeys
        /\ UNCHANGED <<sealed, redis, published, requests>>
    BY DEF Commit, cacheVars, Active, IInv, Bookkeeping, CommittedRows, PendingRows
  <1>2. /\ Len(Req(w).intents) \in Nat \ {0} /\ Req(w).hash \in Hashes
        /\ Keyed(w) => KeyOf(w) \in Keys
        /\ worker[w].pos = Len(Req(w).intents) + 1
        /\ n \in DOMAIN requests /\ n \in DOMAIN replies
        /\ replies[n] = [status |-> "none", ids |-> {}]
    <2>1. /\ Len(Req(w).intents) \in Nat \ {0} /\ Req(w).hash \in Hashes
          /\ Keyed(w) => KeyOf(w) \in Keys
      BY <1>1, RequestFacts DEF IInv
    <2>2. /\ worker[w].pos = Len(Req(w).intents) + 1
          /\ n \in DOMAIN requests
          /\ replies[n] = [status |-> "none", ids |-> {}]
      BY <1>1 DEF Serving
    <2>3. DOMAIN replies = DOMAIN requests
      BY DEF IInv, TypeOK, Bookkeeping
    <2> QED
      BY <2>1, <2>2, <2>3
  <1>3. rec \in Record
    BY <1>2 DEF Record, MintedId, EventId, IInv, TypeOK, WorkerState
  <1> HIDE DEF rec, n
  <1>4. rowLock = w /\ \A v \in Workers \ {w} : pending[v] = {}
    <2>1. 1 \in 1..Len(Req(w).intents) /\ 1 < worker[w].pos
      BY <1>2
    <2>2. pending[w] # {}
      BY <1>1, <2>1 DEF HoldsItsRows
    <2> QED
      BY <2>2 DEF IInv, LockDiscipline
  <1>5. /\ pending' \in [Workers -> SUBSET Row] /\ rowLock' = NoWorker
        /\ \A v \in Workers : pending'[v] = {}
    BY <1>1, <1>4 DEF Rollback, IInv, TypeOK
  <1>6. \A p \in 1..Len(Req(w).intents) :
           \E r \in pending[w] : /\ r.id = MintedId(w, p)
                                 /\ r.key = Req(w).intents[p]
                                 /\ Keyed(w) => r.hash = Req(w).hash
    BY <1>1, <1>2 DEF HoldsItsRows
  <1>7. \A r \in pending[w] : \E p \in 1..Len(Req(w).intents) : r.id = MintedId(w, p)
    BY <1>1 DEF HoldsItsRows
  <1>8. ASSUME NEW r \in pending[w] PROVE r.id.req = n
    <2>1. PICK p : r.id = MintedId(w, p)
      BY <1>7
    <2> QED
      BY <2>1 DEF MintedId, n
  \* The worker goes on, or answers "error"; either way its request is its own.
  <1>9. \/ /\ Goto(w, IF Keyed(w) THEN "cache" ELSE
                      IF Req(w).mode = "submit" THEN "publish" ELSE "answer")
           /\ UNCHANGED replies
        \/ Answer(w, "error", {})
    BY DEF Commit
  <1>10. /\ rows' \subseteq Row /\ ikeys' \in [Keys -> Record \cup {NoRecord}]
    BY <1>1, <1>2, <1>3 DEF IInv, TypeOK
  <1>11. Numbering' /\ KeysUsedOnce'
    <2>1. \A v \in Workers : rows' \cup pending'[v] = rows \cup pending[w]
      BY <1>1, <1>5
    <2>2. Numbered(rows \cup pending[w]) /\ Numbered(rows)'
      BY <1>1 DEF IInv, Numbering
    <2>3. Numbering'
      BY <1>5, <2>1, <2>2 DEF Numbering
    <2>4. KeysUsedOnce'
      BY <2>1 DEF IInv, KeysUsedOnce
    <2> QED
      BY <2>3, <2>4
  <1>12. TiersAgree'
    <2> SUFFICES ASSUME NEW k \in Keys
                 PROVE  /\ redis'[k] # NoRecord => redis'[k] = ikeys'[k]
                        /\ ikeys'[k] # NoRecord =>
                              \E r \in rows' : r.id = ikeys'[k].id /\ r.key = k
                                              /\ r.hash = ikeys'[k].hash
      BY DEF TiersAgree
    <2>1. CASE Keyed(w) /\ k = KeyOf(w)
      <3>1. ikeys'[k] = rec
        BY <1>1, <1>2, <2>1 DEF IInv, TypeOK
      <3>2. PICK r \in pending[w] : r.id = rec.id /\ r.key = k /\ r.hash = rec.hash
        BY <1>2, <1>6, <2>1 DEF KeyOf, rec
      <3>3. ikeys[k] = NoRecord
        <4> SUFFICES ASSUME ikeys[k] # NoRecord PROVE FALSE
          OBVIOUS
        <4>1. PICK s \in rows : s.key = k
          BY DEF IInv, TiersAgree
        <4>2. k # NoKey
          BY ConstantsAssumption
        <4>3. r = s
          BY <3>2, <4>1, <4>2 DEF IInv, KeysUsedOnce
        <4> QED
          BY <1>1, <1>8, <4>1, <4>3 DEF NotApplied, n
      <3>4. redis'[k] = NoRecord
        BY <1>1, <3>3 DEF IInv, TiersAgree
      <3> QED
        BY <1>1, <3>1, <3>2, <3>4
    <2>2. CASE ~(Keyed(w) /\ k = KeyOf(w))
      <3>1. ikeys'[k] = ikeys[k]
        BY <1>1, <1>2, <2>2 DEF IInv, TypeOK
      <3> QED
        BY <1>1, <3>1 DEF IInv, TiersAgree
    <2> QED
      BY <2>1, <2>2
  <1>13. AllOrNothing'
    <2> SUFFICES ASSUME NEW r \in rows', NEW p \in 1..Len(requests[r.id.req].intents)
                 PROVE  \E s \in rows' : s.id = [r.id EXCEPT !.pos = p]
      BY <1>1 DEF AllOrNothing
    <2>1. CASE r \in rows
      BY <1>1, <2>1 DEF IInv, AllOrNothing
    <2>2. CASE r \in pending[w]
      <3>1. PICK p0 \in 1..Len(Req(w).intents) : r.id = MintedId(w, p0)
        BY <1>7, <2>2
      <3>2. [r.id EXCEPT !.pos = p] = MintedId(w, p)
        BY <3>1 DEF MintedId
      <3>3. p \in 1..Len(Req(w).intents)
        BY <1>8, <2>2 DEF Req, n
      <3> QED
        BY <1>1, <1>6, <3>2, <3>3
    <2> QED
      BY <1>1, <2>1, <2>2
  \* What both ways on have in common.
  <1>14. /\ worker' \in [Workers -> WorkerState]
         /\ \A v \in Workers \ {w} : worker'[v] = worker[v]
         /\ replies' \in Seq(Reply) /\ Len(replies') = Len(replies)
         /\ DOMAIN replies' = DOMAIN replies
         /\ \A m \in DOMAIN replies : m # n => replies'[m] = replies[m]
         /\ replies'[n].ids = {} /\ replies'[n].status \in {"none", "error"}
         /\ \/ worker'[w].pc = "idle"
            \/ /\ worker'[w].pc \in {"cache", "publish", "answer"}
               /\ worker'[w].req = worker[w].req /\ worker'[w].try = worker[w].try
               /\ worker'[w].pos = worker[w].pos
               /\ worker'[w].pc = "cache" => Keyed(w)
               /\ worker'[w].pc = "publish" => Req(w).mode = "submit"
               /\ replies' = replies
    <2>1. worker[w] \in WorkerState /\ worker \in [Workers -> WorkerState]
      BY DEF IInv, TypeOK
    <2>2. ASSUME UNCHANGED replies, NEW pc \in {"cache", "publish", "answer"}, Goto(w, pc)
          PROVE  /\ worker' \in [Workers -> WorkerState]
                 /\ \A v \in Workers \ {w} : worker'[v] = worker[v]
                 /\ worker'[w].pc = pc
                 /\ worker'[w].req = worker[w].req /\ worker'[w].try = worker[w].try
                 /\ worker'[w].pos = worker[w].pos
      BY <2>1, <2>2 DEF WorkerState, Goto
    <2>3. CASE Answer(w, "error", {})
      <3>1. Idle \in WorkerState /\ Idle.pc = "idle"
        BY DEF Idle, WorkerState
      <3>2. /\ worker' \in [Workers -> WorkerState] /\ worker'[w].pc = "idle"
            /\ \A v \in Workers \ {w} : worker'[v] = worker[v]
        BY <2>1, <2>3, <3>1 DEF Answer
      <3> DEFINE new == [status |-> "error", ids |-> {}]
      <3>3. new \in Reply /\ new.status = "error" /\ new.ids = {}
        BY DEF Reply, Status
      <3>4. replies' = [replies EXCEPT ![n] = new]
        BY <2>3 DEF Answer, n
      <3> HIDE DEF new
      <3>5. /\ replies' \in Seq(Reply) /\ Len(replies') = Len(replies)
            /\ DOMAIN replies' = DOMAIN replies /\ replies'[n] = new
            /\ \A m \in DOMAIN replies : m # n => replies'[m] = replies[m]
        BY <1>2, <3>3, <3>4 DEF IInv, TypeOK
      <3> QED
        BY <3>2, <3>3, <3>5
    <2>4. CASE /\ Goto(w, IF Keyed(w) THEN "cache" ELSE
                        IF Req(w).mode = "submit" THEN "publish" ELSE "answer")
               /\ UNCHANGED replies
      <3>1. replies' \in Seq(Reply)
        BY <2>4 DEF IInv, TypeOK
      <3>2. replies[n].ids = {} /\ replies[n].status = "none"
        BY <1>2
      <3>3. CASE Keyed(w)
        <4>1. Goto(w, "cache") /\ replies' = replies
          BY <2>4, <3>3
        <4> QED
          BY <2>2, <3>1, <3>2, <3>3, <4>1
      <3>4. CASE ~Keyed(w) /\ Req(w).mode = "submit"
        <4>1. Goto(w, "publish") /\ replies' = replies
          BY <2>4, <3>4
        <4> QED
          BY <2>2, <3>1, <3>2, <3>4, <4>1
      <3>5. CASE ~Keyed(w) /\ Req(w).mode # "submit"
        <4>1. Goto(w, "answer") /\ replies' = replies
          BY <2>4, <3>5
        <4> QED
          BY <2>2, <3>1, <3>2, <3>5, <4>1
      <3> QED
        BY <3>3, <3>4, <3>5
    <2> QED
      BY <1>9, <2>3, <2>4
  <1>15. TypeOK'
    BY <1>1, <1>5, <1>10, <1>14 DEF IInv, TypeOK
  <1>16. \A v \in Workers \ {w} : Req(v)' = Req(v) /\ worker'[v] = worker[v]
    BY <1>1, <1>14 DEF Req
  <1>17. Active(w)' => /\ Req(w)' = Req(w) /\ (Keyed(w)' <=> Keyed(w)) /\ KeyOf(w)' = KeyOf(w)
                       /\ \A p : MintedId(w, p)' = MintedId(w, p)
    BY <1>1, <1>14 DEF Active, Req, Keyed, KeyOf, MintedId
  <1>18. Bookkeeping'
    <2>1. ASSUME NEW v \in Workers \ {w}, Active(v) PROVE Serving(v)'
      <3>1. Serving(v) /\ worker[v].req # n
        BY <1>1, <2>1 DEF IInv, Bookkeeping, n
      <3>2. Keyed(v)' <=> Keyed(v)
        BY <1>16 DEF Keyed
      <3>3. worker[v].req \in DOMAIN replies
        BY <3>1 DEF Serving, IInv, TypeOK, Bookkeeping
      <3> QED
        BY <1>1, <1>14, <1>16, <3>1, <3>2, <3>3 DEF Serving
    <2>2. Active(w)' => Serving(w)'
      BY <1>1, <1>14, <1>17 DEF Serving, Active
    <2>3. \A v \in Workers : Active(v)' => Active(v) /\ worker'[v].req = worker[v].req
      BY <1>1, <1>14 DEF Active
    <2>4. Len(replies') = Len(requests')
      BY <1>1, <1>14 DEF IInv, Bookkeeping
    <2>5. \A u, v \in Workers :
             Active(u)' /\ Active(v)' /\ worker'[u].req = worker'[v].req => u = v
      BY <2>3 DEF IInv, Bookkeeping
    <2> QED
      BY <2>1, <2>2, <2>3, <2>4, <2>5 DEF Bookkeeping
  <1>19. LockDiscipline'
    BY <1>5, ConstantsAssumption DEF LockDiscipline
  <1>20. PendingRows'
    <2>1. \A v \in Workers \ {w} : HoldsItsRows(v) => HoldsItsRows(v)'
      BY <1>4, <1>5, <1>16, OtherWorker
    <2> QED
      BY <1>14, <2>1 DEF IInv, PendingRows
  <1>21. CommittedRows'
    <2>1. \A r \in rows' : r.id.req \in DOMAIN requests'
      BY <1>1, <1>2, <1>8 DEF IInv, CommittedRows
    <2>2. Active(w)' => Applied(w)'
      <3>1. Keyed(w) => ikeys'[KeyOf(w)] = rec
        BY <1>1, <1>2 DEF IInv, TypeOK
      <3> QED
        BY <1>1, <1>6, <1>14, <1>17, <3>1 DEF Applied, rec, Active
    <2>3. ASSUME NEW v \in Workers \ {w}, Active(v)
          PROVE  (Applied(v) => Applied(v)') /\ (NotApplied(v) => NotApplied(v)')
      <3>1. worker[v].req # n
        BY <1>1, <2>3 DEF IInv, Bookkeeping, n
      <3>2. NotApplied(v) => NotApplied(v)'
        BY <1>1, <1>8, <1>16, <3>1 DEF NotApplied
      <3>3. ASSUME Applied(v), worker[v].pc = "cache" PROVE ikeys'[KeyOf(v)] = ikeys[KeyOf(v)]
        \* v's key is in the log, so it is not w's.
        <4>1. Keyed(v) /\ KeyOf(v) \in Keys /\ Len(Req(v).intents) \in Nat \ {0}
          BY <2>3, <3>3, RequestFacts DEF IInv, Bookkeeping, Serving
        <4>2. PICK r \in rows : r.key = KeyOf(v)
          BY <3>3, <4>1 DEF Applied, KeyOf
        <4>3. ASSUME Keyed(w), KeyOf(w) = KeyOf(v) PROVE FALSE
          <5>1. PICK s \in pending[w] : s.key = KeyOf(w)
            BY <1>2, <1>6 DEF KeyOf
          <5>2. KeyOf(v) # NoKey
            BY <4>1, ConstantsAssumption
          <5>3. r = s
            BY <4>2, <4>3, <5>1, <5>2 DEF IInv, KeysUsedOnce
          <5> QED
            BY <1>1, <1>8, <4>2, <5>1, <5>3 DEF NotApplied, n
        <4> QED
          BY <1>1, <1>2, <4>1, <4>3 DEF IInv, TypeOK
      <3>4. ASSUME Applied(v) PROVE Applied(v)'
        BY <1>1, <1>16, <3>3, <3>4, OtherWorker DEF Applied
      <3> QED
        BY <3>2, <3>4
    <2> QED
      BY <1>14, <1>16, <2>1, <2>2, <2>3 DEF IInv, CommittedRows, Active
  <1>22. AckedIsDurable'
    BY <1>1, <1>14 DEF IInv, AckedIsDurable
  <1>23. OneEventEach'
    BY <1>1, <1>14 DEF IInv, OneEventEach, Succeeded
  <1>24. RefusedLeavesNoTrace'
    <2> SUFFICES ASSUME NEW m \in DOMAIN replies',
                        replies'[m].status \in {"hit", "dry", "sealed", "badInput", "conflict"},
                        NEW r \in rows' \cup UNION {pending'[v] : v \in Workers}
                 PROVE  r.id.req # m
      BY DEF RefusedLeavesNoTrace
    <2>1. m # n /\ replies'[m] = replies[m] /\ m \in DOMAIN replies
      BY <1>14
    <2>2. r \in rows \/ r \in pending[w]
      BY <1>1, <1>5
    <2> QED
      BY <1>8, <2>1, <2>2 DEF IInv, RefusedLeavesNoTrace
  <1> QED
    BY <1>11, <1>12, <1>13, <1>15, <1>18, <1>19, <1>20, <1>21, <1>22, <1>23, <1>24 DEF IInv

-----------------------------------------------------------------------------
(***************************************************************************)
(* Every step of the write path preserves the invariant.                   *)
(***************************************************************************)
LEMMA NextIInv == IInv /\ [Next]_vars => IInv'
  <1> SUFFICES ASSUME IInv, [Next]_vars PROVE IInv'
    OBVIOUS
  <1>1. ASSUME NEW w \in Workers, NEW q \in Requests, Receive(w, q) PROVE IInv'
    BY <1>1, ReceiveIInv
  <1>2. ASSUME NEW w \in Workers, Step(w) PROVE IInv'
    <2>1. CASE CheckLedgerNotSealed(w)
      BY <2>1, CheckLedgerNotSealedIInv
    <2>2. CASE CheckRedis(w)
      BY <2>2, CheckRedisIInv
    <2>3. CASE CheckPG(w)
      BY <2>3, CheckPGIInv
    <2>4. CASE DryRun(w)
      BY <2>4, DryRunIInv
    <2>5. CASE AppendEvent(w)
      BY <2>5, AppendEventIInv
    <2>6. CASE Commit(w)
      BY <2>6, CommitIInv
    <2>7. CASE PostCommitIdempotency(w)
      BY <2>7, PostCommitIdempotencyIInv
    <2>8. CASE PublishEvent(w)
      <3>1. /\ worker[w].pc = "publish" /\ Answer(w, "ok", MintedIds(w))
            /\ UNCHANGED <<sealed, rows, ikeys, rowLock, pending, redis, requests>>
        BY <2>8 DEF PublishEvent, dbVars, txVars
      <3>2. Len(Req(w).intents) \in Nat
        BY <3>1, RequestFacts DEF IInv, Active
      <3>3. MintedIds(w) \subseteq EventId
        BY <3>2 DEF MintedIds, MintedId, EventId, IInv, TypeOK, WorkerState
      <3>4. published' \subseteq EventId
        BY <2>8, <3>3 DEF PublishEvent, IInv, TypeOK
      <3> QED
        BY <3>1, <3>4, AnswerAppliedIInv
    <2>9. CASE AnswerBatch(w)
      <3>1. /\ worker[w].pc = "answer" /\ Answer(w, "ok", MintedIds(w))
            /\ UNCHANGED <<sealed, rows, ikeys, rowLock, pending, redis, requests>>
            /\ UNCHANGED published
        BY <2>9 DEF AnswerBatch, dbVars, txVars, cacheVars
      <3>2. published' \subseteq EventId
        BY <3>1 DEF IInv, TypeOK
      <3> QED
        BY <3>1, <3>2, AnswerAppliedIInv
    <2>10. CASE ResolveIdempotencyConflict(w)
      BY <2>10, ResolveIdempotencyConflictIInv
    <2> QED
      BY <1>2, <2>1, <2>2, <2>3, <2>4, <2>5, <2>6, <2>7, <2>8, <2>9, <2>10 DEF Step
  <1>3. ASSUME NEW w \in Workers, Deadlock(w) \/ Fail(w) \/ Crash(w) PROVE IInv'
    BY <1>3, DeadlockIInv, FailIInv, CrashIInv
  <1>4. CASE SealLedger
    <2>1. /\ UNCHANGED <<rows, ikeys, rowLock, pending, published, worker, requests, replies>>
          /\ sealed' = TRUE /\ redis' = redis
      BY <1>4 DEF SealLedger, txVars, cacheVars
    <2>2. redis' \in [Keys -> Record \cup {NoRecord}]
      BY <2>1 DEF IInv, TypeOK
    <2> QED
      BY <2>1, <2>2, EnvironmentIInv
  <1>5. ASSUME NEW k \in Keys, RedisExpire(k) PROVE IInv'
    <2>1. /\ UNCHANGED <<rows, ikeys, rowLock, pending, published, worker, requests, replies>>
          /\ UNCHANGED sealed /\ redis' = [redis EXCEPT ![k] = NoRecord]
      BY <1>5 DEF RedisExpire, dbVars, txVars
    <2>2. /\ redis' \in [Keys -> Record \cup {NoRecord}]
          /\ \A j \in Keys : redis'[j] \in {redis[j], NoRecord}
      BY <2>1 DEF IInv, TypeOK
    <2>3. sealed' \in BOOLEAN
      BY <2>1 DEF IInv, TypeOK
    <2> QED
      BY <2>1, <2>2, <2>3, EnvironmentIInv
  <1>6. CASE UNCHANGED vars
    <2>1. /\ UNCHANGED <<rows, ikeys, rowLock, pending, published, worker, requests, replies>>
          /\ UNCHANGED sealed /\ UNCHANGED redis
      BY <1>6 DEF vars
    <2>2. redis' \in [Keys -> Record \cup {NoRecord}] /\ sealed' \in BOOLEAN
      BY <2>1 DEF IInv, TypeOK
    <2> QED
      BY <2>1, <2>2, EnvironmentIInv
  <1> QED
    BY <1>1, <1>2, <1>3, <1>4, <1>5, <1>6 DEF Next

(***************************************************************************)
(* The inductive invariant holds in every state of the write path.         *)
(***************************************************************************)
THEOREM Invariance == Spec => []IInv
  BY InitIInv, NextIInv, PTL DEF Spec

(***************************************************************************)
(* Type correctness.                                                       *)
(***************************************************************************)
THEOREM TypeCorrect == Spec => []TypeOK
  <1>1. IInv => TypeOK
    BY DEF IInv
  <1> QED
    BY <1>1, Invariance, PTL

(***************************************************************************)
(* The log is gapless for any number of writers, whatever they crash on:   *)
(* NextLedgerSeq under the row lock numbers it 1, 2, ..., n.               *)
(***************************************************************************)
THEOREM LogIsGapless == Spec => []GaplessLog
  <1>1. IInv => GaplessLog
    BY NumberedCardinality DEF IInv, Numbering, GaplessLog
  <1> QED
    BY <1>1, Invariance, PTL

(***************************************************************************)
(* No client is ever given an event that is not in the log, or one of      *)
(* another key, by any of the five places that answer with an event.       *)
(***************************************************************************)
THEOREM AnswersAreDurable == Spec => []AckedIsDurable
  <1>1. IInv => AckedIsDurable
    BY DEF IInv
  <1> QED
    BY <1>1, Invariance, PTL

(***************************************************************************)
(* Redis, idempotency_keys and log_events agree about every key.           *)
(***************************************************************************)
THEOREM IdempotencyTiersAgree == Spec => []TiersAgree
  <1>1. IInv => TiersAgree
    BY DEF IInv
  <1> QED
    BY <1>1, Invariance, PTL

(***************************************************************************)
(* Requests are applied whole, and refused requests not at all.            *)
(***************************************************************************)
THEOREM TransactionsAreAtomic == Spec => [](AllOrNothing /\ RefusedLeavesNoTrace)
  <1>1. IInv => AllOrNothing /\ RefusedLeavesNoTrace
    BY DEF IInv
  <1> QED
    BY <1>1, Invariance, PTL

(***************************************************************************)
(* Idempotency: submits under one key that succeed get the same event, and *)
(* only one of them wrote it.  The answers are durable (AckedIsDurable),   *)
(* each is one event (OneEventEach) and a key is used once (KeysUsedOnce). *)
(***************************************************************************)
THEOREM IdempotentSubmits == Spec => []SameKeySameEvent
  <1>1. ASSUME IInv PROVE SameKeySameEvent
    <2> SUFFICES ASSUME NEW m \in DOMAIN replies, NEW n \in DOMAIN replies,
                        requests[m].mode = "submit", requests[n].mode = "submit",
                        requests[m].intents = requests[n].intents,
                        requests[m].intents[1] # NoKey,
                        Succeeded(m), Succeeded(n)
                 PROVE  /\ replies[m].ids = replies[n].ids
                        /\ replies[m].status = "ok" /\ replies[n].status = "ok" => m = n
      BY DEF SameKeySameEvent
    <2>1. PICK i \in replies[m].ids :
             replies[m].ids = {i} /\ (replies[m].status = "ok" => i.req = m)
      BY <1>1 DEF IInv, OneEventEach
    <2>2. PICK j \in replies[n].ids :
             replies[n].ids = {j} /\ (replies[n].status = "ok" => j.req = n)
      BY <1>1 DEF IInv, OneEventEach
    <2>3. PICK r \in rows : r.id = i /\ r.key = requests[m].intents[1]
      BY <1>1 DEF IInv, AckedIsDurable
    <2>4. PICK s \in rows : s.id = j /\ s.key = requests[m].intents[1]
      BY <1>1 DEF IInv, AckedIsDurable
    <2>5. r = s
      BY <1>1, <2>3, <2>4 DEF IInv, KeysUsedOnce
    <2> QED
      BY <2>1, <2>2, <2>3, <2>4, <2>5
  <1> QED
    BY <1>1, Invariance, PTL

(***************************************************************************)
(* Commit is the only action that writes to the log.                       *)
(***************************************************************************)
LEMMA OnlyCommitWrites ==
    ASSUME [Next]_vars, rows' # rows
    PROVE  \E w \in Workers : Commit(w)
  <1>1. ASSUME NEW w \in Workers, Step(w), ~Commit(w) PROVE FALSE
    BY <1>1 DEF Step, CheckLedgerNotSealed, CheckRedis, CheckPG, DryRun, AppendEvent,
                PostCommitIdempotency, PublishEvent, AnswerBatch,
                ResolveIdempotencyConflict, dbVars
  <1>2. ASSUME NEW w \in Workers, Deadlock(w) \/ Fail(w) \/ Crash(w) PROVE FALSE
    BY <1>2 DEF Deadlock, Fail, Crash, dbVars
  <1>3. ASSUME NEW w \in Workers, NEW q \in Requests, Receive(w, q) PROVE FALSE
    BY <1>3 DEF Receive, dbVars
  <1>4. CASE SealLedger \/ (\E k \in Keys : RedisExpire(k)) \/ UNCHANGED vars
    BY <1>4 DEF SealLedger, RedisExpire, dbVars, vars
  <1> QED
    BY <1>1, <1>2, <1>3, <1>4 DEF Next

(***************************************************************************)
(* The log grows only at its end: Commit is the only action that changes   *)
(* it, and an open transaction's rows are numbered after all others.       *)
(***************************************************************************)
THEOREM LogGrowsAtTheEnd == Spec => GrowsAtTheEnd
  <1> DEFINE Grows == /\ rows \subseteq rows'
                      /\ \A r \in rows, s \in rows' \ rows : r.seq < s.seq
  <1>1. ASSUME IInv, [Next]_vars PROVE [Grows]_vars
    <2>1. CASE rows' = rows
      BY <2>1
    <2>2. CASE rows' # rows
      <3>1. PICK w \in Workers : Commit(w)
        BY <1>1, <2>2, OnlyCommitWrites
      <3>2. rows' = rows \cup pending[w]
        BY <3>1 DEF Commit
      <3>3. \A r \in rows, s \in pending[w] : r.seq < s.seq
        BY <1>1 DEF IInv, Numbering
      <3> QED
        BY <3>2, <3>3
    <2> QED
      BY <2>1, <2>2
  <1> QED
    BY <1>1, Invariance, PTL DEF Spec, GrowsAtTheEnd

-----------------------------------------------------------------------------
(***************************************************************************)
(* A function on 1..k is a sequence of length k.                           *)
(***************************************************************************)
LEMMA SeqOfFunction ==
    ASSUME NEW T, NEW k \in Nat, NEW f \in [1..k -> T]
    PROVE  f \in Seq(T) /\ Len(f) = k
  <1>1. f \in Seq(T)
    BY SeqDef
  <1> QED
    BY <1>1

(***************************************************************************)
(* The refinement mapping: the abstract log lists the rows in the order of *)
(* their sequence numbers.                                                 *)
(***************************************************************************)
LEMMA InOrderListsRows ==
    ASSUME NEW S, Numbered(S)
    PROVE  /\ Cardinality(S) \in Nat
           /\ Len(InOrder(S)) = Cardinality(S)
           /\ \A r \in S : /\ r.seq \in 1..Cardinality(S)
                           /\ InOrder(S)[r.seq] = [id |-> r.id, key |-> r.key]
                           /\ InOrder(S)[r.seq].id = r.id
                           /\ InOrder(S)[r.seq].key = r.key
           /\ \A n \in 1..Cardinality(S) : \E r \in S : r.seq = n
  <1> DEFINE k == Cardinality(S)
             row(n) == CHOOSE r \in S : r.seq = n
  <1>1. k \in Nat /\ {r.seq : r \in S} = 1..k
    BY NumberedCardinality
  <1>2. InOrder(S) = [n \in 1..k |-> [id |-> row(n).id, key |-> row(n).key]]
    BY DEF InOrder
  <1> HIDE DEF k
  <1>3. \A r \in S : r.seq \in 1..k
    BY <1>1
  <1>4. \A n \in 1..k : \E r \in S : r.seq = n
    BY <1>1
  <1>5. \A n \in 1..k : row(n) \in S /\ row(n).seq = n
    BY <1>4
  <1>6. \A r \in S : row(r.seq) = r
    BY <1>3, <1>5 DEF Numbered
  <1>7. \A n \in 1..k : InOrder(S)[n] = [id |-> row(n).id, key |-> row(n).key]
    BY <1>2
  <1>8. Len(InOrder(S)) = k
    <2> DEFINE entry(n) == [id |-> row(n).id, key |-> row(n).key]
               T == {entry(n) : n \in 1..k}
    <2>1. InOrder(S) = [n \in 1..k |-> entry(n)]
      BY <1>2
    <2> HIDE DEF entry
    <2>2. \A n \in 1..k : entry(n) \in T
      OBVIOUS
    <2> HIDE DEF T
    <2>3. InOrder(S) \in [1..k -> T]
      BY <2>1, <2>2, Zenon
    <2> QED
      BY <1>1, <2>3, SeqOfFunction, Zenon
  <1>9. ASSUME NEW r \in S
        PROVE  /\ InOrder(S)[r.seq] = [id |-> r.id, key |-> r.key]
               /\ InOrder(S)[r.seq].id = r.id
               /\ InOrder(S)[r.seq].key = r.key
    BY <1>3, <1>6, <1>7
  <1> HIDE DEF row
  <1> QED
    BY <1>1, <1>3, <1>4, <1>8, <1>9 DEF k

(***************************************************************************)
(* What a step does to the answers: it adds an empty one, changes none, or *)
(* fills the empty answer of a request that is being served.  A step that  *)
(* commits gives nobody an event.                                          *)
(***************************************************************************)
LEMMA AnswersGrow ==
    ASSUME IInv, [Next]_vars
    PROVE  /\ Acked \subseteq Acked'
           /\ rows' # rows => Acked' = Acked
  <1>1. ASSUME replies' = replies PROVE Acked' = Acked
    BY <1>1 DEF Acked
  <1>2. ASSUME NEW w \in Workers, NEW q \in Requests, Receive(w, q)
        PROVE  Acked' = Acked
    <2>1. replies' = Append(replies, [status |-> "none", ids |-> {}]) /\ replies \in Seq(Reply)
      BY <1>2 DEF Receive, IInv, TypeOK
    <2>2. /\ DOMAIN replies' = DOMAIN replies \cup {Len(replies) + 1}
          /\ replies'[Len(replies) + 1].ids = {}
          /\ \A n \in DOMAIN replies : replies'[n] = replies[n]
      BY <2>1
    <2> QED
      BY <2>2 DEF Acked
  <1>3. ASSUME NEW w \in Workers, Active(w), NEW status, NEW ids, Answer(w, status, ids)
        PROVE  Acked \subseteq Acked' /\ (ids = {} => Acked' = Acked)
    <2>1. /\ replies' = [replies EXCEPT ![worker[w].req] = [status |-> status, ids |-> ids]]
          /\ worker[w].req \in DOMAIN replies /\ replies[worker[w].req].ids = {}
      BY <1>3 DEF Answer, IInv, TypeOK, Bookkeeping, Serving
    <2>2. /\ DOMAIN replies' = DOMAIN replies
          /\ replies'[worker[w].req].ids = ids
          /\ \A n \in DOMAIN replies \ {worker[w].req} : replies'[n] = replies[n]
      BY <2>1
    <2> QED
      BY <2>1, <2>2 DEF Acked
  <1>4. ASSUME NEW w \in Workers, Commit(w) PROVE Acked' = Acked
    <2>1. Active(w) /\ (replies' = replies \/ Answer(w, "error", {}))
      BY <1>4 DEF Commit, Active
    <2> QED
      BY <1>1, <1>3, <2>1
  <1>5. ASSUME NEW w \in Workers, Step(w), ~Commit(w)
        PROVE  rows' = rows /\ Acked \subseteq Acked'
    <2>1. rows' = rows
      BY <1>5 DEF Step, CheckLedgerNotSealed, CheckRedis, CheckPG, DryRun, AppendEvent,
                  PostCommitIdempotency, PublishEvent, AnswerBatch,
                  ResolveIdempotencyConflict, dbVars
    <2>2. /\ Active(w)
          /\ replies' = replies \/ \E status \in Status : \E ids \in {{}, MintedIds(w)} \cup {{redis[KeyOf(w)].id}, {ikeys[KeyOf(w)].id}} :
                Answer(w, status, ids)
      BY <1>5, Zenon DEF Step, CheckLedgerNotSealed, CheckRedis, CheckPG, DryRun, AppendEvent,
                  PostCommitIdempotency, PublishEvent, AnswerBatch,
                  ResolveIdempotencyConflict, AnswerFromRecord, Status, Active
    <2> QED
      BY <1>1, <1>3, <2>1, <2>2
  <1>6. ASSUME NEW w \in Workers, Deadlock(w) \/ Fail(w) \/ Crash(w) PROVE Acked' = Acked
    <2>1. Active(w) /\ (replies' = replies \/ Answer(w, "error", {}))
      BY <1>6 DEF Deadlock, Fail, Crash, Active
    <2> QED
      BY <1>1, <1>3, <2>1
  <1>7. CASE SealLedger \/ (\E k \in Keys : RedisExpire(k)) \/ UNCHANGED vars
    BY <1>1, <1>7 DEF SealLedger, RedisExpire, vars
  <1> QED
    BY <1>2, <1>4, <1>5, <1>6, <1>7 DEF Next

(***************************************************************************)
(* The write path implements the at-most-once log.  Commit is an Extend:   *)
(* its rows follow all others and their keys are new.  Every answer with   *)
(* an event is an Acknowledge of rows that are there.  Nothing else shows. *)
(***************************************************************************)
THEOREM Refinement == Spec => ImplementsAtMostOnceLog
  <1>1. Init => AbstractLog!Init
    <2> SUFFICES ASSUME Init PROVE Entries = <<>> /\ Acked = {}
      BY DEF AbstractLog!Init
    <2>1. IInv /\ rows = {} /\ replies = <<>>
      BY InitIInv DEF Init
    <2>2. Cardinality(rows) = 0
      BY <2>1, FS_EmptySet
    <2>3. Entries = <<>>
      <3>1. 1..Cardinality(rows) = {}
        BY <2>2
      <3> QED
        BY <3>1 DEF Entries, InOrder
    <2>4. Acked = {}
      BY <2>1 DEF Acked
    <2> QED
      BY <2>3, <2>4
  <1>2. ASSUME IInv, IInv', [Next]_vars
        PROVE  [AbstractLog!Next]_<<Entries, Acked>>
    <2> DEFINE k == Cardinality(rows)
               l == Cardinality(rows')
    <2>1. /\ k \in Nat /\ Len(Entries) = k
          /\ \A r \in rows : /\ r.seq \in 1..k
                              /\ Entries[r.seq] = [id |-> r.id, key |-> r.key]
                              /\ Entries[r.seq].id = r.id
                              /\ Entries[r.seq].key = r.key
          /\ \A n \in 1..k : \E r \in rows : r.seq = n
      <3>1. Numbered(rows)
        BY <1>2 DEF IInv, Numbering
      <3> QED
        BY <3>1, InOrderListsRows DEF Entries
    <2>2. /\ l \in Nat /\ Len(Entries') = l
          /\ \A r \in rows' : /\ r.seq \in 1..l
                              /\ Entries'[r.seq] = [id |-> r.id, key |-> r.key]
                              /\ Entries'[r.seq].id = r.id
                              /\ Entries'[r.seq].key = r.key
          /\ \A n \in 1..l : \E r \in rows' : r.seq = n
      <3>1. Numbered(rows')
        BY <1>2 DEF IInv, Numbering
      <3> QED
        BY <3>1, InOrderListsRows DEF Entries
    <2> HIDE DEF k, l
    <2>3. CASE rows' = rows
      <3>1. Entries' = Entries
        BY <2>3 DEF Entries
      <3>2. Acked \subseteq Acked'
        BY <1>2, AnswersGrow
      <3>3. ASSUME NEW i \in Acked' PROVE \E n \in 1..Len(Entries) : Entries[n].id = i
        <4>1. PICK r \in rows : r.id = i
          BY <1>2, <2>3, <3>3 DEF IInv, AckedIsDurable, Acked
        <4>2. r.seq \in 1..Len(Entries) /\ Entries[r.seq].id = i
          BY <2>1, <4>1
        <4> QED
          BY <4>2
      <3>4. AbstractLog!Acknowledge
        BY <3>1, <3>2, <3>3 DEF AbstractLog!Acknowledge
      <3> QED
        BY <3>4 DEF AbstractLog!Next
    <2>4. CASE rows' # rows
      <3>1. PICK w \in Workers : Commit(w)
        BY <1>2, <2>4, OnlyCommitWrites
      <3>2. rows' = rows \cup pending[w] /\ rows \subseteq rows'
        BY <3>1 DEF Commit
      <3>3. PICK s \in pending[w] : s \notin rows /\ s \in rows'
        BY <2>4, <3>2
      <3>4. \A r \in rows : r.seq < s.seq
        BY <1>2, <3>3 DEF IInv, Numbering
      <3>5. k < l
        <4>1. s.seq \in 1..l
          BY <2>2, <3>3
        <4>2. CASE k = 0
          BY <2>1, <2>2, <4>1, <4>2
        <4>3. CASE k # 0
          <5>1. PICK r \in rows : r.seq = k
            BY <2>1, <4>3
          <5> QED
            BY <2>1, <2>2, <3>4, <4>1, <5>1
        <4> QED
          BY <4>2, <4>3
      <3>6. \A n \in 1..Len(Entries) : Entries'[n] = Entries[n]
        <4> SUFFICES ASSUME NEW n \in 1..k PROVE Entries'[n] = Entries[n]
          BY <2>1
        <4>1. PICK r \in rows : r.seq = n
          BY <2>1
        <4>2. /\ Entries[r.seq] = [id |-> r.id, key |-> r.key]
              /\ Entries'[r.seq] = [id |-> r.id, key |-> r.key]
          BY <2>1, <2>2, <3>2, <4>1, Zenon
        <4> QED
          BY <4>1, <4>2, Zenon
      <3>7. AbstractLog!KeysUnique(Entries')
        <4> SUFFICES ASSUME NEW m \in 1..l, NEW n \in 1..l,
                            Entries'[m].key = Entries'[n].key, Entries'[m].key # NoKey
                     PROVE  m = n
          BY <2>2 DEF AbstractLog!KeysUnique
        <4>1. PICK r \in rows' : r.seq = m
          BY <2>2
        <4>2. PICK t \in rows' : t.seq = n
          BY <2>2
        <4>3. r.key = t.key /\ r.key # NoKey
          BY <2>2, <4>1, <4>2
        <4> QED
          BY <1>2, <4>1, <4>2, <4>3 DEF IInv, KeysUsedOnce
      <3>8. Acked' = Acked
        BY <1>2, <2>4, AnswersGrow
      <3>9. AbstractLog!Extend
        BY <2>1, <2>2, <3>5, <3>6, <3>7, <3>8 DEF AbstractLog!Extend
      <3> QED
        BY <3>9 DEF AbstractLog!Next
    <2> QED
      BY <2>3, <2>4
  <1> QED
    BY <1>1, <1>2, Invariance, PTL DEF Spec, ImplementsAtMostOnceLog, AbstractLog!Spec
=============================================================================
