---------------------------- MODULE TransferProofs ----------------------------
(***************************************************************************)
(* Proofs about Transfer, for any number of rows, page sizes and imports:  *)
(* what a listing that follows page tokens leaves out, and that a restored *)
(* log is a beginning of the log it was exported from.                     *)
(***************************************************************************)
EXTENDS Transfer, WellFoundedInduction, TLAPS, FiniteSetTheorems, SequenceTheorems

-----------------------------------------------------------------------------
(***************************************************************************)
(* Induction on natural numbers in a first-order form: what is shown of    *)
(* every number is membership in a set.                                    *)
(***************************************************************************)

(***************************************************************************)
(* A set of natural numbers that is not empty has a least element.         *)
(***************************************************************************)
LEMMA LeastNumber ==
    ASSUME NEW T, T \subseteq Nat, T # {}
    PROVE  \E m \in T : \A n \in T : m <= n
  <1> DEFINE R == {ss \in Nat \X Nat : ss[1] < ss[2]}
  <1>1. IsWellFoundedOn(R, Nat)
    BY NatLessThanWellFounded DEF OpToRel
  <1>2. \A n, m \in Nat : n < m => <<n, m>> \in R
    OBVIOUS
  <1> HIDE DEF R
  <1>3. PICK m \in T : \A n \in T : ~(<<n, m>> \in R)
    BY <1>1, WFMin
  <1>4. \A n \in T : ~(n < m)
    BY <1>2, <1>3
  <1> QED
    BY <1>3, <1>4

(***************************************************************************)
(* A set that has 0, and with every natural number the next, has them all. *)
(***************************************************************************)
LEMMA NumbersByInduction ==
    ASSUME NEW S, 0 \in S, \A n \in Nat : n \in S => n + 1 \in S
    PROVE  \A n \in Nat : n \in S
  <1> SUFFICES ASSUME NEW k \in Nat, k \notin S PROVE FALSE
    OBVIOUS
  <1> DEFINE T == Nat \ S
  <1>1. PICK m \in T : \A n \in T : m <= n
    BY LeastNumber
  <1>2. m # 0 /\ m - 1 \in Nat /\ m - 1 \notin T
    BY <1>1
  <1> QED
    BY <1>1, <1>2

-----------------------------------------------------------------------------
(***************************************************************************)
(* The invariant.                                                          *)
(***************************************************************************)

\* A row is known by its key.
TableInv ==
    /\ table \in AllTables
    /\ rows \in Seq(Row)
    /\ \A i, j \in 1..Len(rows) : rows[i].key = rows[j].key => i = j

Increasing(s) == \A i, j \in 1..Len(s) : i < j => s[i].key < s[j].key

\* The rows that a listing has, or that it has a reason not to have.
Listed(r) ==
    \/ r \in Range(reader.got)
    \/ r.key \in reader.skipped \cup resolved
    \/ table = "ledgers" /\ r.key \notin reader.scope

\* Tables whose order and token are the same column.
ByOneColumn == {"ledgers", "accounts", "holds", "approvals"}

\* The token splits the table: what is at it or below has been dealt with and
\* nothing above it has been read.
ListingInv ==
    /\ Increasing(reader.got)
    /\ reader.pc \in {"idle", "reading"} /\ reader.token = NoToken => reader.got = <<>>
    /\ reader.pc = "idle" => reader.token = NoToken
    /\ reader.pc = "reading" /\ reader.token # NoToken =>
          /\ \A r \in Range(reader.got) : r.key < reader.token
          /\ \A r \in reader.first : r.key <= reader.token => Listed(r)
    /\ reader.pc = "done" => \A r \in reader.first : Listed(r)

ReaderInv ==
    /\ DOMAIN reader = {"pc", "size", "scope", "token", "got", "skipped", "first"}
    /\ reader.pc \in {"idle", "reading", "done", "failed"}
    /\ reader.size \in Int
    /\ reader.first \subseteq Rows
    /\ table # "transactions" => reader.token \in Nat /\ reader.got \in Seq(Rows)
    /\ table \in ByOneColumn => ListingInv

\* Events of the source as they are exported.
Exports == {x \in [id : RowKeys, seq : 1..Len(rows)] : rows[x.seq].key = x.id}

\* The numbers of the restored log have no gap, and none is given twice.
TargetInv ==
    /\ \E n \in Nat : {e.seq : e \in target} = 1..n
    /\ \A e, f \in target : e.seq = f.seq => e = f
    /\ \A e \in target :
          /\ e.by \in Importers \cup {"writer"}
          /\ e.by # "writer" => e.seq \in 1..Len(rows) /\ rows[e.seq].key = e.id

\* An Import call has inserted the events before the one it expects.
ImportInv ==
    /\ import = [i \in Importers |-> import[i]]
    /\ \A i \in Importers :
          /\ DOMAIN import[i] = {"pc", "stream", "expectedSeq", "count"}
          /\ import[i].stream \in Seq(Exports)
          /\ import[i].expectedSeq \in Nat
          /\ import[i].pc = "idle" => import[i].expectedSeq = 0
          /\ {e.seq : e \in {f \in target : f.by = i}} = 1..(import[i].expectedSeq - 1)

\* The numbers below the writer's are taken.
WriterInv ==
    /\ writer \in Nat
    /\ \A m \in 1..(writer - 1) : \E e \in target : e.seq = m

RestoreInv == TargetInv /\ ImportInv /\ WriterInv

TInv == TableInv /\ ReaderInv /\ RestoreInv

-----------------------------------------------------------------------------
(***************************************************************************)
(* Numbers given to the elements of a finite set have a bound.             *)
(***************************************************************************)
LEMMA FiniteRanksBounded ==
    ASSUME NEW S, IsFiniteSet(S), NEW rank, \A x \in S : rank[x] \in Nat
    PROVE  \E n \in Nat : \A x \in S : rank[x] < n
  <1> DEFINE Bounded(T) == \E n \in Nat : \A x \in T : rank[x] < n
             D == {k \in Nat : \A T \in SUBSET S : Cardinality(T) = k => Bounded(T)}
  <1>1. \A T \in SUBSET S : IsFiniteSet(T) /\ Cardinality(T) \in Nat
    BY FS_Subset, FS_CardinalityType
  <1>2. 0 \in D
    <2>1. \A T \in SUBSET S : Cardinality(T) = 0 => T = {}
      BY <1>1, FS_EmptySet
    <2>2. Bounded({})
      OBVIOUS
    <2> HIDE DEF Bounded
    <2> QED
      BY <2>1, <2>2
  <1>3. ASSUME NEW k \in Nat, k \in D PROVE k + 1 \in D
    <2> SUFFICES ASSUME NEW T \in SUBSET S, Cardinality(T) = k + 1 PROVE Bounded(T)
      <3> HIDE DEF Bounded
      <3> QED
        OBVIOUS
    <2>1. T # {}
      <3>1. Cardinality({}) = 0 /\ k + 1 # 0
        BY FS_EmptySet
      <3> QED
        BY <3>1, Zenon
    <2>2. PICK x \in T : TRUE
      BY <2>1
    <2>3. T \ {x} \in SUBSET S /\ Cardinality(T \ {x}) = k
      <3>1. IsFiniteSet(T)
        BY <1>1
      <3>2. Cardinality(T \ {x}) = Cardinality(T) - 1
        BY <2>2, <3>1, FS_RemoveElement
      <3> QED
        BY <3>2
    <2>4. PICK n \in Nat : \A y \in T \ {x} : rank[y] < n
      BY <1>3, <2>3
    <2>5. rank[x] \in Nat
      BY <2>2
    <2> DEFINE m == n + rank[x] + 1
    <2>6. m \in Nat /\ \A y \in T : rank[y] < m
      BY <2>4, <2>5
    <2> QED
      BY <2>6
  <1>4. Cardinality(S) \in D
    <2>1. Cardinality(S) \in Nat
      BY <1>1
    <2> HIDE DEF D
    <2> QED
      BY <1>2, <1>3, <2>1, NumbersByInduction
  <1> QED
    BY <1>4

(***************************************************************************)
(* ORDER BY a column in which no two rows agree: every row, once, in       *)
(* order.                                                                  *)
(***************************************************************************)
LEMMA OrderByFacts ==
    ASSUME NEW S, IsFiniteSet(S), NEW rank, \A x \in S : rank[x] \in Nat,
           \A x, y \in S : rank[x] = rank[y] => x = y
    PROVE  /\ OrderBy(S, rank) \in Seq(S)
           /\ Range(OrderBy(S, rank)) = S
           /\ \A i, j \in 1..Len(OrderBy(S, rank)) :
                 i < j => rank[OrderBy(S, rank)[i]] < rank[OrderBy(S, rank)[j]]
  <1> DEFINE Sorts(s, T) ==
                 /\ s \in [1..Cardinality(T) -> T]
                 /\ \A i, j \in 1..Cardinality(T) : i < j => rank[s[i]] < rank[s[j]]
             D == {n \in Nat : \A T \in SUBSET S :
                                  (\A x \in T : rank[x] < n) => \E s : Sorts(s, T)}
  <1>1. \A T \in SUBSET S : IsFiniteSet(T) /\ Cardinality(T) \in Nat
    BY FS_Subset, FS_CardinalityType
  <1>2. Sorts(<<>>, {})
    BY FS_EmptySet
  <1>3. 0 \in D
    <2>1. \A T \in SUBSET S : (\A x \in T : rank[x] < 0) => T = {}
      OBVIOUS
    <2> HIDE DEF Sorts
    <2> QED
      BY <1>2, <2>1
  <1>4. ASSUME NEW n \in Nat, n \in D PROVE n + 1 \in D
    <2> SUFFICES ASSUME NEW T \in SUBSET S, \A x \in T : rank[x] < n + 1
                 PROVE  \E s : Sorts(s, T)
      OBVIOUS
    <2>1. CASE \A x \in T : rank[x] # n
      <3>1. \A x \in T : rank[x] < n
        BY <2>1
      <3> HIDE DEF Sorts
      <3> QED
        BY <1>4, <3>1
    <2>2. CASE \E x \in T : rank[x] = n
      <3>1. PICK x \in T : rank[x] = n
        BY <2>2
      <3> DEFINE U == T \ {x}
                 k == Cardinality(U)
      <3>2. U \in SUBSET S /\ \A y \in U : rank[y] \in Nat /\ rank[y] < n
        BY <3>1
      <3>3. k \in Nat /\ Cardinality(T) = k + 1
        BY <1>1, <3>1, <3>2, FS_RemoveElement
      <3>4. PICK s : Sorts(s, U)
        <4> HIDE DEF Sorts, U
        <4> QED
          BY <1>4, <3>2
      <3> DEFINE t == [i \in 1..(k + 1) |-> IF i <= k THEN s[i] ELSE x]
      <3>5. t[k + 1] = x /\ \A i \in 1..k : t[i] = s[i] /\ s[i] \in U
        <4>1. \A i \in 1..k : s[i] \in U
          BY <3>4
        <4> HIDE DEF U, k
        <4> QED
          BY <3>3, <4>1
      <3>6. 1..(k + 1) = (1..k) \cup {k + 1}
        BY <3>3
      <3>7. t \in [1..(k + 1) -> T]
        <4>1. \A i \in 1..(k + 1) : t[i] \in T
          BY <3>1, <3>5, <3>6
        <4> QED
          BY <4>1
      <3> HIDE DEF t, U, k
      <3>8. \A i, j \in 1..(k + 1) : i < j => i \in 1..k
        BY <3>3
      <3>9. ASSUME NEW i \in 1..(k + 1), NEW j \in 1..(k + 1), i < j
            PROVE  rank[t[i]] < rank[t[j]]
        <4>1. i \in 1..k /\ t[i] = s[i] /\ s[i] \in U
          BY <3>5, <3>8, <3>9
        <4>2. CASE j = k + 1
          BY <3>1, <3>2, <3>5, <4>1, <4>2
        <4>3. CASE j \in 1..k
          BY <3>4, <3>5, <3>9, <4>1, <4>3 DEF k
        <4> QED
          BY <3>6, <4>2, <4>3
      <3>10. Sorts(t, T)
        BY <3>3, <3>7, <3>9
      <3> QED
        BY <3>10
    <2> QED
      BY <2>1, <2>2
  <1>5. PICK n \in Nat : \A x \in S : rank[x] < n
    BY FiniteRanksBounded
  <1>6. n \in D
    <2> HIDE DEF D
    <2> QED
      BY <1>3, <1>4, NumbersByInduction
  <1>7. \E s : Sorts(s, S)
    <2> HIDE DEF Sorts
    <2> QED
      BY <1>5, <1>6
  <1> DEFINE o == OrderBy(S, rank)
             k == Cardinality(S)
  <1>8. Sorts(o, S)
    <2>1. \E s \in [1..k -> S] : \A i, j \in 1..k : i < j => rank[s[i]] < rank[s[j]]
      BY <1>7
    <2> HIDE DEF k
    <2> QED
      BY <2>1 DEF OrderBy, k
  <1> HIDE DEF o
  <1>9. k \in Nat /\ o \in [1..k -> S]
        /\ \A i, j \in 1..k : i < j => rank[o[i]] < rank[o[j]]
    BY <1>1, <1>8
  <1>10. o \in Seq(S) /\ Len(o) = k
    BY <1>9
  <1>11. \A i, j \in 1..k : o[i] = o[j] => i = j
    <2> SUFFICES ASSUME NEW i \in 1..k, NEW j \in 1..k, o[i] = o[j], i < j PROVE FALSE
      BY <1>9
    <2> QED
      BY <1>9
  <1>12. o \in Surjection(1..k, S)
    <2>1. o \in Injection(1..k, S)
      BY <1>9, <1>11 DEF Injection, IsInjective
    <2>2. Cardinality(1..k) = k
      BY <1>9, FS_Interval
    <2> QED
      BY <2>1, <2>2, FS_Injection
  <1>13. Range(o) = S
    BY <1>9, <1>12 DEF Surjection, Range
  <1> QED
    BY <1>9, <1>10, <1>13 DEF o

-----------------------------------------------------------------------------
(***************************************************************************)
(* The rows are a finite set, with the key and the ledger_seq as columns   *)
(* in which no two agree.                                                  *)
(***************************************************************************)
LEMMA RowFacts ==
    ASSUME TableInv
    PROVE  /\ IsFiniteSet(Rows)
           /\ Rows \subseteq Row
           /\ \A r \in Rows : r.key \in Nat \ {0} /\ r.key \in RowKeys
           /\ \A r, q \in Rows : r.key = q.key => r = q
           /\ \A r \in Rows : LedgerSeq(r) \in 1..Len(rows) /\ rows[LedgerSeq(r)] = r
  <1>1. /\ Len(rows) \in Nat /\ DOMAIN rows = 1..Len(rows)
        /\ \A i \in 1..Len(rows) : rows[i] \in Row
    BY DEF TableInv
  <1>2. /\ \A i \in 1..Len(rows) : rows[i] \in Rows
        /\ \A r \in Rows : \E i \in 1..Len(rows) : rows[i] = r
    BY <1>1 DEF Rows, Range
  <1>3. IsFiniteSet(Rows)
    <2>1. rows \in Surjection(1..Len(rows), Rows)
      BY <1>1, <1>2 DEF Surjection, TableInv
    <2>2. IsFiniteSet(1..Len(rows))
      BY <1>1, FS_Interval
    <2> QED
      BY <2>1, <2>2, FS_Surjection
  <1>4. Rows \subseteq Row
    BY <1>1, <1>2
  <1>5. \A r \in Row : r.key \in Nat \ {0} /\ r.key \in RowKeys
    BY TransferAssumption DEF Row
  <1>6. \A r, q \in Rows : r.key = q.key => r = q
    BY <1>2 DEF TableInv
  <1>7. \A r \in Rows : LedgerSeq(r) \in 1..Len(rows) /\ rows[LedgerSeq(r)] = r
    BY <1>2 DEF LedgerSeq
  <1> QED
    BY <1>3, <1>4, <1>5, <1>6, <1>7

\* Rows ordered by their key: all of them, in the order of the keys.
LEMMA ByKeyFacts ==
    ASSUME TableInv, NEW S \in SUBSET Rows
    PROVE  ByKey(S) \in Seq(S) /\ Range(ByKey(S)) = S /\ Increasing(ByKey(S))
  <1> DEFINE rank == [r \in S |-> r.key]
  <1>1. IsFiniteSet(S)
    BY RowFacts, FS_Subset
  <1>2. /\ \A x \in S : rank[x] = x.key /\ rank[x] \in Nat
        /\ \A x, y \in S : rank[x] = rank[y] => x = y
    BY RowFacts
  <1>3. ByKey(S) = OrderBy(S, rank)
    BY DEF ByKey
  <1> HIDE DEF rank
  <1> DEFINE s == OrderBy(S, rank)
  <1>4. /\ s \in Seq(S) /\ Range(s) = S
        /\ \A i, j \in 1..Len(s) : i < j => rank[s[i]] < rank[s[j]]
    BY <1>1, <1>2, OrderByFacts
  <1> HIDE DEF s
  <1>5. \A i \in 1..Len(s) : s[i] \in S
    BY <1>4
  <1>6. Increasing(s)
    BY <1>2, <1>4, <1>5 DEF Increasing
  <1> QED
    BY <1>3, <1>4, <1>6 DEF s

\* Rows ordered by ledger_seq are rows.
LEMMA BySeqFacts ==
    ASSUME TableInv, NEW S \in SUBSET Rows
    PROVE  OrderBy(S, [r \in S |-> LedgerSeq(r)]) \in Seq(S)
  <1> DEFINE rank == [r \in S |-> LedgerSeq(r)]
  <1>1. IsFiniteSet(S)
    BY RowFacts, FS_Subset
  <1>2. Len(rows) \in Nat
    BY DEF TableInv
  <1>3. /\ \A x \in S : rank[x] \in Nat
        /\ \A x, y \in S : rank[x] = rank[y] => x = y
    BY <1>2, RowFacts
  <1> HIDE DEF rank
  <1>4. OrderBy(S, rank) \in Seq(S)
    BY <1>1, <1>3, OrderByFacts
  <1> QED
    BY <1>4 DEF rank

(***************************************************************************)
(* A page of ordered rows is all of them, or those below the token.        *)
(***************************************************************************)
LEMMA PageFacts ==
    ASSUME NEW S, NEW s \in Seq(S), NEW limit \in Nat \ {0}
    PROVE  /\ Page(s, limit).page \in Seq(S)
           /\ \/ Page(s, limit).page = s /\ Page(s, limit).nextToken = NoToken
              \/ /\ limit + 1 \in 1..Len(s)
                 /\ Page(s, limit).nextToken = s[limit + 1].key
                 /\ Page(s, limit).page = SubSeq(s, 1, limit)
  <1>1. CASE Len(s) > limit
    <2>1. SubSeq(s, 1, limit) \in Seq(S)
      BY <1>1
    <2> QED
      BY <1>1, <2>1 DEF Page
  <1>2. CASE ~(Len(s) > limit)
    BY <1>2 DEF Page
  <1> QED
    BY <1>1, <1>2

\* A page of ordered rows is all of them, or those below its next token.
LEMMA OrderedPageFacts ==
    ASSUME NEW S, NEW s \in Seq(S), Range(s) = S, Increasing(s), NEW limit \in Nat \ {0},
           \A r \in S : r.key \in Nat \ {0}
    PROVE  LET p == Page(s, limit)
           IN  /\ Increasing(p.page)
               /\ \/ Range(p.page) = S /\ p.nextToken = NoToken
                  \/ \E x \in S : /\ p.nextToken = x.key
                                  /\ Range(p.page) = {r \in S : r.key < x.key}
  <1> DEFINE p == Page(s, limit)
             t == SubSeq(s, 1, limit)
             x == s[limit + 1]
  <1>1. CASE p.page = s /\ p.nextToken = NoToken
    BY <1>1
  <1>2. CASE /\ limit + 1 \in 1..Len(s)
             /\ p.nextToken = x.key
             /\ p.page = t
    <2>1. x \in S
      BY <1>2
    <2>2. /\ DOMAIN t = 1..limit
          /\ \A i \in 1..limit : i \in 1..Len(s) /\ t[i] = s[i] /\ s[i] \in S
      BY <1>2
    <2>3. \A i \in 1..limit : s[i].key < x.key
      BY <1>2, <2>2 DEF Increasing
    <2>4. \A i \in 1..Len(s) : s[i].key < x.key => i \in 1..limit
      <3> SUFFICES ASSUME NEW i \in 1..Len(s), s[i].key < x.key, i >= limit + 1 PROVE FALSE
        OBVIOUS
      <3>1. x.key <= s[i].key
        BY <1>2, <2>1 DEF Increasing
      <3>2. x.key \in Nat /\ s[i].key \in Nat
        BY <2>1
      <3> QED
        BY <3>1, <3>2
    <2>5. \A r \in S : \E i \in 1..Len(s) : s[i] = r
      BY DEF Range
    <2>6. Increasing(t)
      <3>1. Len(t) = limit
        BY <1>2
      <3> HIDE DEF t
      <3> QED
        BY <2>2, <3>1 DEF Increasing
    <2> HIDE DEF x, t
    <2>7. Range(t) \subseteq {r \in S : r.key < x.key}
      BY <2>2, <2>3 DEF Range
    <2>8. {r \in S : r.key < x.key} \subseteq Range(t)
      <3> SUFFICES ASSUME NEW r \in S, r.key < x.key PROVE r \in Range(t)
        OBVIOUS
      <3>1. PICK i \in 1..Len(s) : s[i] = r
        BY <2>5
      <3>2. i \in 1..limit
        BY <2>4, <3>1
      <3> QED
        BY <2>2, <3>1, <3>2 DEF Range
    <2> HIDE DEF p
    <2> QED
      BY <1>2, <2>1, <2>6, <2>7, <2>8 DEF p
  <1> QED
    BY <1>1, <1>2, PageFacts

(***************************************************************************)
(* What a query of each table returns.  The order of the transactions is   *)
(* not that of their tokens, and nothing is claimed about it.              *)
(***************************************************************************)
LEMMA LimitFacts ==
    ASSUME NEW n \in Int
    PROVE  /\ Limit(n) \in Nat \ {0}
           /\ (IF n <= 0 \/ n > MaxPageSize THEN DefaultPageSize ELSE n) \in Nat \ {0}
  BY TransferAssumption DEF Limit

\* The rows a query is asked for.
Candidates(token) ==
    IF table = "approvals" THEN {r \in After(token) : r.key \notin resolved} ELSE After(token)

\* What a query gives: rows past the token, in order, and a token for the rest.
LEMMA QueryFacts ==
    ASSUME TableInv, NEW token, NEW n \in Int, table # "transactions"
    PROVE  /\ Candidates(token) \subseteq After(token) /\ After(token) \subseteq Rows
           /\ Query(token, n).page \in Seq(Candidates(token))
           /\ table \in ByOneColumn => Increasing(Query(token, n).page)
           /\ table \in ByOneColumn =>
                 \/ /\ Range(Query(token, n).page) = Candidates(token)
                    /\ Query(token, n).nextToken = NoToken
                 \/ \E x \in Candidates(token) :
                       /\ Query(token, n).nextToken = x.key
                       /\ Range(Query(token, n).page) = {r \in Candidates(token) : r.key < x.key}
           /\ Query(token, n).nextToken \in Nat
  <1> DEFINE S == Candidates(token)
             q == Query(token, n)
  <1>1. S \subseteq After(token) /\ After(token) \subseteq Rows
    BY DEF Candidates, After
  <1>2. \A r \in S : r.key \in Nat \ {0}
    BY <1>1, RowFacts
  <1>3. CASE table \in ByOneColumn
    <2>1. PICK limit \in Nat \ {0} : q = Page(ByKey(S), limit)
      <3>1. CASE table = "ledgers"
        BY <3>1, LimitFacts DEF Query, ListLedgers, Candidates
      <3>2. CASE table = "accounts"
        BY <3>2, LimitFacts DEF Query, ListAccounts, Candidates
      <3>3. CASE table = "holds"
        BY <3>3, LimitFacts DEF Query, ListHolds, Candidates
      <3>4. CASE table = "approvals"
        BY <3>4, LimitFacts DEF Query, ListPendingApprovals, Candidates
      <3> QED
        BY <1>3, <3>1, <3>2, <3>3, <3>4 DEF ByOneColumn
    <2> DEFINE s == ByKey(S)
    <2>2. s \in Seq(S) /\ Range(s) = S /\ Increasing(s)
      BY <1>1, ByKeyFacts
    <2> HIDE DEF s, S, q
    <2>3. q.page \in Seq(S)
      BY <2>1, <2>2, PageFacts DEF s
    <2>4. /\ Increasing(q.page)
          /\ \/ Range(q.page) = S /\ q.nextToken = NoToken
             \/ \E x \in S : q.nextToken = x.key /\ Range(q.page) = {r \in S : r.key < x.key}
      BY <1>2, <2>1, <2>2, OrderedPageFacts DEF s
    <2>5. q.nextToken \in Nat
      BY <1>2, <2>4 DEF NoToken
    <2> QED
      BY <1>1, <2>3, <2>4, <2>5 DEF S, q
  <1>4. CASE table = "log"
    <2> DEFINE s == OrderBy(S, [r \in S |-> LedgerSeq(r)])
    <2>1. s \in Seq(S)
      BY <1>1, BySeqFacts
    <2>2. PICK limit \in Nat \ {0} : q = Page(s, limit)
      BY <1>4, LimitFacts DEF Query, ListLogEvents, Candidates
    <2> HIDE DEF s, S, q
    <2>3. q.page \in Seq(S)
      BY <2>1, <2>2, PageFacts
    <2>4. q.nextToken \in Nat
      BY <1>2, <2>1, <2>2, PageFacts DEF NoToken
    <2> QED
      BY <1>1, <1>4, <2>3, <2>4 DEF S, q, ByOneColumn
  <1> QED
    BY <1>3, <1>4 DEF ByOneColumn, AllTables, TableInv

-----------------------------------------------------------------------------
\* The invariant holds at the start.
LEMMA InitTInv == TransferInit => TInv
  <1> SUFFICES ASSUME TransferInit PROVE TInv
    OBVIOUS
  <1> DEFINE idle == [pc |-> "idle", stream |-> <<>>, expectedSeq |-> 0, count |-> 0]
  <1>1. TableInv
    BY TransferAssumption DEF TransferInit, TableInv
  <1>2. ReaderInv
    BY DEF TransferInit, ReaderInv, ListingInv, Increasing, NoToken, Rows
  <1>3. target = {} /\ writer = 0 /\ import = [i \in Importers |-> idle]
    BY DEF TransferInit
  <1>4. /\ DOMAIN idle = {"pc", "stream", "expectedSeq", "count"} /\ idle.stream = <<>>
        /\ idle.expectedSeq = 0
    OBVIOUS
  <1> HIDE DEF idle
  <1>5. TargetInv /\ WriterInv
    <2>1. {e.seq : e \in target} = 1..0
      BY <1>3
    <2> QED
      BY <1>3, <2>1 DEF TargetInv, WriterInv
  <1>6. ImportInv
    <2>1. <<>> \in Seq(Exports)
      OBVIOUS
    <2>2. \A i \in Importers : import[i] = idle
      BY <1>3
    <2>3. ASSUME NEW i \in Importers
          PROVE  {e.seq : e \in {f \in target : f.by = i}} = 1..(import[i].expectedSeq - 1)
      <3>1. import[i].expectedSeq = 0
        BY <1>4, <2>2
      <3>2. {e.seq : e \in {f \in target : f.by = i}} = {} /\ 1..(0 - 1) = {}
        BY <1>3
      <3> QED
        BY <3>1, <3>2
    <2>4. import = [i \in Importers |-> import[i]]
      BY <1>3
    <2>5. ASSUME NEW i \in Importers
          PROVE  /\ DOMAIN import[i] = {"pc", "stream", "expectedSeq", "count"}
                 /\ import[i].stream \in Seq(Exports)
                 /\ import[i].expectedSeq = 0 /\ import[i].expectedSeq \in Nat
      <3>1. import[i] = idle
        BY <2>2
      <3>2. /\ DOMAIN import[i] = {"pc", "stream", "expectedSeq", "count"}
            /\ import[i].stream = <<>> /\ import[i].expectedSeq = 0
        BY <1>4, <3>1, Zenon
      <3> QED
        BY <2>1, <3>2
    <2> QED
      BY <2>3, <2>4, <2>5 DEF ImportInv
  <1> QED
    BY <1>1, <1>2, <1>5, <1>6 DEF TInv, RestoreInv

(***************************************************************************)
(* The table grows, and a step that leaves it alone.                       *)
(***************************************************************************)
LEMMA InsertTInv ==
    ASSUME TInv, NEW key \in RowKeys, NEW time \in Times \cup {0}, Insert(key, time)
    PROVE  TInv'
  <1> DEFINE new == [key |-> key, time |-> time]
  <1>1. /\ rows' = Append(rows, new) /\ \A r \in Rows : r.key # key
        /\ UNCHANGED <<table, resolved, reader, target, sealed, import, writer>>
    BY DEF Insert
  <1>2. new \in Row /\ new.key = key
    BY DEF Row
  <1> HIDE DEF new
  <1>3. rows \in Seq(Row) /\ Len(rows) \in Nat /\ DOMAIN rows = 1..Len(rows)
    BY DEF TInv, TableInv
  <1>4. /\ rows' \in Seq(Row) /\ Len(rows') = Len(rows) + 1 /\ DOMAIN rows' = 1..(Len(rows) + 1)
        /\ rows'[Len(rows) + 1] = new /\ \A i \in 1..Len(rows) : rows'[i] = rows[i]
    BY <1>1, <1>2, <1>3
  <1>5. \A i \in 1..Len(rows) : rows[i].key # key
    BY <1>1, <1>3 DEF Rows, Range
  <1>6. TableInv'
    <2>1. ASSUME NEW i \in 1..(Len(rows) + 1), NEW j \in 1..(Len(rows) + 1),
                 rows'[i].key = rows'[j].key
          PROVE  i = j
      <3>1. CASE i \in 1..Len(rows) /\ j \in 1..Len(rows)
        BY <1>4, <2>1, <3>1 DEF TInv, TableInv
      <3>2. CASE i = Len(rows) + 1 /\ j \in 1..Len(rows)
        BY <1>2, <1>4, <1>5, <2>1, <3>2
      <3>3. CASE j = Len(rows) + 1 /\ i \in 1..Len(rows)
        BY <1>2, <1>4, <1>5, <2>1, <3>3
      <3> QED
        BY <1>3, <3>1, <3>2, <3>3
    <2> QED
      BY <1>1, <1>4, <2>1 DEF TInv, TableInv
  <1>7. Rows \subseteq Rows'
    <2>1. \A r \in Rows : \E i \in 1..Len(rows) : rows[i] = r
      BY <1>3 DEF Rows, Range
    <2>2. \A i \in 1..Len(rows) : rows'[i] \in Rows'
      BY <1>3, <1>4 DEF Rows, Range
    <2> QED
      BY <1>4, <2>1, <2>2
  <1>8. ReaderInv'
    <2>1. table # "transactions" => reader.got \in Seq(Rows')
      BY <1>7, SeqMonotonic DEF TInv, ReaderInv
    <2>2. table \in ByOneColumn => ListingInv'
      BY <1>1 DEF TInv, ReaderInv, ListingInv, Listed
    <2> QED
      BY <1>1, <1>7, <2>1, <2>2 DEF TInv, ReaderInv
  <1>9. TargetInv' /\ WriterInv'
    <2>1. target' = target /\ writer' = writer
      BY <1>1
    <2>2. WriterInv'
      BY <2>1 DEF TInv, RestoreInv, WriterInv
    <2>3. ASSUME NEW e \in target, e.by # "writer"
          PROVE  e.seq \in 1..Len(rows') /\ rows'[e.seq].key = e.id
      <3>1. e.seq \in 1..Len(rows) /\ rows[e.seq].key = e.id
        BY <2>3 DEF TInv, RestoreInv, TargetInv
      <3> QED
        BY <1>3, <1>4, <3>1
    <2>4. TargetInv'
      BY <2>1, <2>3 DEF TInv, RestoreInv, TargetInv
    <2> QED
      BY <2>2, <2>4
  <1>10. ImportInv'
    <2>1. Exports \subseteq Exports'
      BY <1>3, <1>4 DEF Exports
    <2>2. \A i \in Importers : import[i].stream \in Seq(Exports')
      BY <2>1, SeqMonotonic DEF TInv, RestoreInv, ImportInv
    <2> QED
      BY <1>1, <2>2 DEF TInv, RestoreInv, ImportInv
  <1> QED
    BY <1>6, <1>8, <1>9, <1>10 DEF TInv, RestoreInv

\* A table that is left alone keeps its invariant.
LEMMA TableStays == ASSUME TableInv, UNCHANGED <<table, rows>> PROVE TableInv' /\ Rows' = Rows
  BY DEF TableInv, Rows

\* An import that is left alone keeps its invariant.
LEMMA RestoreStays ==
    ASSUME RestoreInv, UNCHANGED <<rows, target, import, writer>>
    PROVE  RestoreInv'
  BY DEF RestoreInv, TargetInv, ImportInv, WriterInv, Exports

\* A reader that is left alone keeps its invariant.
LEMMA ReaderStays ==
    ASSUME ReaderInv, UNCHANGED <<table, rows, resolved, reader>>
    PROVE  ReaderInv'
  BY DEF ReaderInv, ListingInv, Listed, Rows

\* Resolve keeps the invariant.
LEMMA ResolveTInv == ASSUME TInv, NEW key, Resolve(key) PROVE TInv'
  <1>1. /\ resolved \subseteq resolved'
        /\ UNCHANGED <<table, rows, reader, target, sealed, import, writer>>
    BY DEF Resolve
  <1>2. ListingInv => ListingInv'
    BY <1>1 DEF ListingInv, Listed
  <1>3. ReaderInv'
    BY <1>1, <1>2 DEF TInv, ReaderInv, Rows
  <1> QED
    BY <1>1, <1>3, TableStays, RestoreStays DEF TInv

(***************************************************************************)
(* The reader.                                                             *)
(***************************************************************************)
LEMMA BeginTInv == ASSUME TInv, NEW n \in Sizes, NEW scope, Begin(n, scope) PROVE TInv'
  <1>1. /\ reader.pc = "idle"
        /\ reader' = [reader EXCEPT !.pc = "reading", !.size = n, !.scope = scope, !.first = Rows]
        /\ UNCHANGED <<table, rows, resolved, target, sealed, import, writer>>
    BY DEF Begin
  <1>2. /\ DOMAIN reader' = DOMAIN reader /\ reader'.pc = "reading" /\ reader'.size = n
        /\ reader'.first = Rows /\ reader'.token = reader.token /\ reader'.got = reader.got
    BY <1>1 DEF TInv, ReaderInv
  <1>3. table \in ByOneColumn => ListingInv'
    BY <1>1, <1>2 DEF TInv, ReaderInv, ListingInv
  <1>4. ReaderInv'
    BY <1>1, <1>2, <1>3, TransferAssumption DEF TInv, ReaderInv, Rows
  <1> QED
    BY <1>1, <1>4, TableStays, RestoreStays DEF TInv

\* ReadFails keeps the invariant.
LEMMA ReadFailsTInv == ASSUME TInv, ReadFails PROVE TInv'
  <1>1. /\ reader' = [reader EXCEPT !.pc = "failed"]
        /\ UNCHANGED <<table, rows, resolved, target, sealed, import, writer>>
    BY DEF ReadFails
  <1>2. /\ DOMAIN reader' = DOMAIN reader /\ reader'.pc = "failed" /\ reader'.size = reader.size
        /\ reader'.first = reader.first /\ reader'.token = reader.token /\ reader'.got = reader.got
    BY <1>1 DEF TInv, ReaderInv
  <1>3. table \in ByOneColumn => ListingInv'
    BY <1>1, <1>2 DEF TInv, ReaderInv, ListingInv
  <1>4. ReaderInv'
    BY <1>1, <1>2, <1>3 DEF TInv, ReaderInv, Rows
  <1> QED
    BY <1>1, <1>4, TableStays, RestoreStays DEF TInv

(***************************************************************************)
(* Joining two ordered sequences of which one ends below the other.        *)
(***************************************************************************)
LEMMA IncreasingConcat ==
    ASSUME NEW S, NEW s \in Seq(S), NEW t \in Seq(S), Increasing(s), Increasing(t),
           \A r \in Range(s), q \in Range(t) : r.key < q.key
    PROVE  Increasing(s \o t) /\ Range(s \o t) = Range(s) \cup Range(t)
  <1> DEFINE u == s \o t
             m == Len(s)
             n == Len(t)
  <1>1. /\ m \in Nat /\ n \in Nat /\ DOMAIN s = 1..m /\ DOMAIN t = 1..n
        /\ Len(u) = m + n /\ DOMAIN u = 1..(m + n)
        /\ \A i \in 1..m : u[i] = s[i]
        /\ \A i \in (m + 1)..(m + n) : u[i] = t[i - m] /\ i - m \in 1..n
        /\ \A i \in 1..n : u[m + i] = t[i] /\ m + i \in 1..(m + n)
    OBVIOUS
  <1> HIDE DEF u
  <1>2. ASSUME NEW i \in 1..(m + n), NEW j \in 1..(m + n), i < j
        PROVE  u[i].key < u[j].key
    <2>1. CASE j <= m
      BY <1>1, <1>2, <2>1 DEF Increasing
    <2>2. CASE i > m
      <3>1. i - m \in 1..n /\ j - m \in 1..n /\ i - m < j - m /\ u[i] = t[i - m] /\ u[j] = t[j - m]
        BY <1>1, <1>2, <2>2
      <3> QED
        BY <3>1 DEF Increasing
    <2>3. CASE i <= m /\ j > m
      <3>1. u[i] = s[i] /\ i \in 1..m /\ u[j] = t[j - m] /\ j - m \in 1..n
        BY <1>1, <1>2, <2>3
      <3>2. s[i] \in Range(s) /\ t[j - m] \in Range(t)
        BY <1>1, <3>1 DEF Range
      <3> QED
        BY <3>1, <3>2
    <2> QED
      BY <1>1, <2>1, <2>2, <2>3
  <1>3. Range(u) = Range(s) \cup Range(t)
    <2>1. Range(u) \subseteq Range(s) \cup Range(t)
      <3> SUFFICES ASSUME NEW i \in 1..(m + n) PROVE u[i] \in Range(s) \cup Range(t)
        BY <1>1 DEF Range
      <3>1. CASE i \in 1..m
        BY <1>1, <3>1 DEF Range
      <3>2. CASE i \in (m + 1)..(m + n)
        BY <1>1, <3>2 DEF Range
      <3> QED
        BY <1>1, <3>1, <3>2
    <2>2. Range(s) \subseteq Range(u)
      BY <1>1 DEF Range
    <2>3. Range(t) \subseteq Range(u)
      BY <1>1 DEF Range
    <2> QED
      BY <2>1, <2>2, <2>3
  <1> QED
    BY <1>1, <1>2, <1>3 DEF Increasing, u

(***************************************************************************)
(* One page more: what it brings lies above the old token and below the    *)
(* new one, and what lies between the two is in it or is the row the new   *)
(* token names.                                                            *)
(***************************************************************************)
LEMMA NextPageTInv == ASSUME TInv, NextPage PROVE TInv'
  <1> DEFINE answer == Query(reader.token, reader.size)
             C == Candidates(reader.token)
             mine == IF table = "ledgers"
                     THEN ByKey({r \in Range(answer.page) : r.key \in reader.scope})
                     ELSE answer.page
             last == answer.nextToken \in {NoToken, reader.token}
             pc == IF last THEN "done" ELSE "reading"
             skips == reader.skipped \cup ({answer.nextToken} \ {NoToken})
  <1>1. /\ reader.pc = "reading"
        /\ reader' = [reader EXCEPT !.got = @ \o mine, !.token = answer.nextToken,
                                    !.skipped = skips, !.pc = pc]
        /\ UNCHANGED <<table, rows, resolved, target, sealed, import, writer>>
    BY DEF NextPage
  <1>2. TableInv /\ ReaderInv
    BY DEF TInv
  <1> HIDE DEF answer, C, mine, last, skips
  <1>3. /\ DOMAIN reader' = DOMAIN reader /\ reader'.pc = pc /\ reader'.size = reader.size
        /\ reader'.first = reader.first /\ reader'.token = answer.nextToken
        /\ reader'.got = reader.got \o mine /\ reader'.skipped = skips
        /\ reader'.scope = reader.scope
    BY <1>1, <1>2 DEF ReaderInv
  <1>4. reader'.first \subseteq Rows' /\ Rows' = Rows /\ pc \in {"done", "reading"}
    BY <1>1, <1>2, <1>3, TableStays DEF ReaderInv
  <1>5. CASE table = "transactions"
    <2>1. ReaderInv'
      BY <1>1, <1>2, <1>3, <1>4, <1>5 DEF ReaderInv, ByOneColumn
    <2> QED
      BY <1>1, <2>1, TableStays, RestoreStays DEF TInv
  <1>6. CASE table # "transactions"
    <2>1. /\ C \subseteq After(reader.token) /\ After(reader.token) \subseteq Rows
          /\ answer.page \in Seq(C) /\ answer.nextToken \in Nat
      BY <1>2, <1>6, QueryFacts DEF ReaderInv, answer, C
    <2>2. Range(answer.page) \subseteq C
      BY <2>1 DEF Range
    \* What the caller may see of the page.
    <2>3. /\ mine \in Seq(C)
          /\ Range(mine) = {r \in Range(answer.page) : table = "ledgers" => r.key \in reader.scope}
          /\ table \in ByOneColumn => Increasing(mine)
      <3> DEFINE V == {r \in Range(answer.page) : r.key \in reader.scope}
      <3>1. CASE table = "ledgers"
        <4>1. V \in SUBSET Rows /\ V \subseteq C
          BY <2>1, <2>2
        <4>2. mine = ByKey(V)
          BY <3>1 DEF mine
        <4> HIDE DEF V
        <4>3. mine \in Seq(V) /\ Range(mine) = V /\ Increasing(mine)
          BY <1>2, <4>1, <4>2, ByKeyFacts
        <4>4. mine \in Seq(C)
          BY <4>1, <4>3, SeqMonotonic
        <4> QED
          BY <3>1, <4>3, <4>4 DEF V
      <3>2. CASE table # "ledgers"
        <4>1. mine = answer.page
          BY <3>2 DEF mine
        <4>2. table \in ByOneColumn => Increasing(answer.page)
          BY <1>2, <1>6, QueryFacts DEF ReaderInv, answer
        <4> QED
          BY <2>1, <3>2, <4>1, <4>2
      <3> QED
        BY <3>1, <3>2
    <2>4. reader'.got \in Seq(Rows)
      <3>1. mine \in Seq(Rows) /\ reader.got \in Seq(Rows)
        BY <1>2, <1>6, <2>1, <2>3, SeqMonotonic DEF ReaderInv
      <3> QED
        BY <1>3, <3>1
    <2>5. table \in ByOneColumn => ListingInv'
      <3> SUFFICES ASSUME table \in ByOneColumn PROVE ListingInv'
        OBVIOUS
      <3>1. ListingInv
        BY <1>2 DEF ReaderInv
      <3>2. /\ Increasing(mine)
            /\ \/ Range(answer.page) = C /\ answer.nextToken = NoToken
               \/ \E x \in C : /\ answer.nextToken = x.key
                               /\ Range(answer.page) = {r \in C : r.key < x.key}
        BY <1>2, <1>6, <2>3, QueryFacts DEF ReaderInv, answer, C
      <3>3. reader.got \in Seq(Rows) /\ mine \in Seq(Rows) /\ reader.token \in Nat
        BY <1>2, <1>6, <2>1, <2>3, SeqMonotonic DEF ReaderInv
      <3>4. /\ \A r \in Rows : r.key \in Nat \ {0}
            /\ \A r \in Range(reader.got) : r \in Rows /\ reader.token # NoToken /\ r.key < reader.token
        <4>1. \A r \in Range(reader.got) : r \in Rows
          BY <3>3 DEF Range
        <4>2. reader.got = <<>> => Range(reader.got) = {}
          BY DEF Range
        <4> QED
          BY <1>1, <1>2, <3>1, <4>1, <4>2, RowFacts DEF ListingInv
      <3>5. \A r \in C : r \in Rows /\ (reader.token = NoToken \/ r.key > reader.token)
        BY <2>1 DEF After
      <3>6. Range(mine) \subseteq C
        BY <2>2, <2>3
      <3>7. \A r \in Range(reader.got), q \in Range(mine) : r.key < q.key
        BY <3>3, <3>4, <3>5, <3>6
      <3>8. /\ Increasing(reader'.got)
            /\ Range(reader'.got) = Range(reader.got) \cup Range(mine)
        BY <1>3, <3>1, <3>2, <3>3, <3>7, IncreasingConcat DEF ListingInv
      <3>9. \A r : Listed(r) => Listed(r)'
        BY <1>1, <1>3, <3>8 DEF Listed, skips
      \* A row of the page is listed, whoever asks.
      <3>10. \A r \in Range(answer.page) : Listed(r)'
        BY <1>1, <1>3, <2>3, <3>8 DEF Listed
      <3>11. \A r \in reader.first : r \in C \/ Listed(r)
        <4> SUFFICES ASSUME NEW r \in reader.first PROVE r \in C \/ Listed(r)
          OBVIOUS
        <4>1. r \in Rows /\ r.key \in Nat
          BY <1>2, <3>4 DEF ReaderInv
        <4>2. CASE r \in After(reader.token)
          BY <4>2 DEF C, Candidates, Listed
        <4>3. CASE r \notin After(reader.token)
          <5>1. reader.token # NoToken /\ r.key <= reader.token
            BY <3>3, <4>1, <4>3 DEF After
          <5> QED
            BY <1>1, <3>1, <5>1 DEF ListingInv
        <4> QED
          BY <4>2, <4>3
      <3>12. CASE Range(answer.page) = C /\ answer.nextToken = NoToken
        <4>1. reader'.pc = "done"
          BY <1>3, <3>12 DEF last
        <4>2. \A r \in reader'.first : Listed(r)'
          BY <1>3, <3>9, <3>10, <3>11, <3>12
        <4> QED
          BY <3>8, <4>1, <4>2 DEF ListingInv
      <3>13. CASE \E x \in C : /\ answer.nextToken = x.key
                               /\ Range(answer.page) = {r \in C : r.key < x.key}
        <4>1. PICK x \in C : /\ answer.nextToken = x.key
                             /\ Range(answer.page) = {r \in C : r.key < x.key}
          BY <3>13
        <4>2. /\ x.key \in Nat \ {0} /\ x.key \in reader'.skipped
              /\ reader.token # NoToken => x.key > reader.token
          BY <1>3, <3>4, <3>5, <4>1 DEF skips, NoToken
        <4>3. reader'.pc = "reading"
          BY <1>3, <3>3, <4>1, <4>2 DEF last, NoToken
        <4>4. \A r \in Range(reader'.got) : r.key < x.key
          <5>1. \A r \in Range(mine) : r.key < x.key
            BY <2>3, <4>1
          <5>2. \A r \in Range(reader.got) : r.key < x.key
            BY <3>3, <3>4, <4>2
          <5> QED
            BY <3>8, <5>1, <5>2
        <4>5. \A r \in reader'.first : r.key <= x.key => Listed(r)'
          <5> SUFFICES ASSUME NEW r \in reader.first, r.key <= x.key PROVE Listed(r)'
            BY <1>3
          <5>1. r.key \in Nat
            BY <1>2, <3>4 DEF ReaderInv
          <5>2. CASE Listed(r)
            BY <3>9, <5>2
          <5>3. CASE r.key = x.key
            BY <4>2, <5>3 DEF Listed
          <5>4. CASE r \in C /\ r.key # x.key
            BY <3>10, <4>1, <4>2, <5>1, <5>4
          <5> QED
            BY <3>11, <5>2, <5>3, <5>4
        <4> QED
          BY <1>3, <3>8, <4>1, <4>2, <4>3, <4>4, <4>5 DEF ListingInv, NoToken
      <3> QED
        BY <3>2, <3>12, <3>13
    <2>6. ReaderInv'
      BY <1>1, <1>2, <1>3, <1>4, <1>6, <2>1, <2>4, <2>5 DEF ReaderInv
    <2> QED
      BY <1>1, <2>6, TableStays, RestoreStays DEF TInv
  <1> QED
    BY <1>5, <1>6

(***************************************************************************)
(* Import and the writer: each inserts the next number or none.            *)
(***************************************************************************)
LEMMA SendImportTInv ==
    ASSUME TInv, NEW i \in Importers, NEW a \in Nat, NEW b \in Nat, SendImport(i, a, b)
    PROVE  TInv'
  <1> DEFINE stream == SubSeq(Exported, a, b)
             call == [pc |-> "open", stream |-> stream, expectedSeq |-> 0, count |-> 0]
  <1>1. /\ table = "log" /\ import[i].pc = "idle"
        /\ 1 <= a /\ a <= b /\ b <= Len(reader.got)
        /\ import' = [import EXCEPT ![i] = call]
        /\ UNCHANGED <<table, rows, resolved, reader, target, sealed, writer>>
    BY DEF SendImport
  <1>2. TableInv /\ reader.got \in Seq(Rows)
    BY <1>1 DEF TInv, ReaderInv
  <1>3. Exported \in Seq(Exports)
    <2>1. \A r \in Rows : Event(r) \in Exports
      BY <1>2, RowFacts DEF Event, Exports
    <2>2. Len(reader.got) \in Nat /\ \A k \in 1..Len(reader.got) : reader.got[k] \in Rows
      BY <1>2
    <2>3. \A k \in 1..Len(reader.got) : Event(reader.got[k]) \in Exports
      BY <2>1, <2>2
    <2> QED
      BY <2>2, <2>3 DEF Exported
  <1>4. stream \in Seq(Exports) /\ Len(Exported) = Len(reader.got)
    <2>1. Len(Exported) = Len(reader.got)
      BY <1>2 DEF Exported
    <2> QED
      BY <1>1, <1>3, <2>1
  <1> HIDE DEF stream
  <1>5. /\ DOMAIN call = {"pc", "stream", "expectedSeq", "count"} /\ call.pc = "open"
        /\ call.stream = stream /\ call.expectedSeq = 0
    OBVIOUS
  <1> HIDE DEF call
  <1>6. ImportInv'
    <2>1. import'[i] = call /\ \A k \in Importers \ {i} : import'[k] = import[k]
      BY <1>1 DEF TInv, RestoreInv, ImportInv
    <2>2. import' = [k \in Importers |-> import'[k]]
      BY <1>1 DEF TInv, RestoreInv, ImportInv
    <2>3. Exports' = Exports
      BY <1>1 DEF Exports
    <2>4. import[i].expectedSeq = 0
      BY <1>1 DEF TInv, RestoreInv, ImportInv
    <2>5. {e.seq : e \in {f \in target : f.by = i}} = 1..(import[i].expectedSeq - 1)
      BY DEF TInv, RestoreInv, ImportInv
    <2>6. ASSUME NEW k \in Importers
          PROVE  /\ DOMAIN import'[k] = {"pc", "stream", "expectedSeq", "count"}
                 /\ import'[k].stream \in Seq(Exports')
                 /\ import'[k].expectedSeq \in Nat
                 /\ import'[k].pc = "idle" => import'[k].expectedSeq = 0
                 /\ {e.seq : e \in {f \in target' : f.by = k}} = 1..(import'[k].expectedSeq - 1)
      <3>1. CASE k = i
        <4>1. import'[i].expectedSeq = 0 /\ import[i].expectedSeq = 0
          BY <1>5, <2>1, <2>4, Zenon
        <4>2. {e.seq : e \in {f \in target' : f.by = i}} = 1..(import'[i].expectedSeq - 1)
          BY <1>1, <2>5, <4>1
        <4>3. /\ DOMAIN import'[i] = {"pc", "stream", "expectedSeq", "count"}
              /\ import'[i].stream \in Seq(Exports')
          BY <1>4, <1>5, <2>1, <2>3, Zenon
        <4> QED
          BY <3>1, <4>1, <4>2, <4>3
      <3>2. CASE k # i
        BY <1>1, <2>1, <2>3, <3>2 DEF TInv, RestoreInv, ImportInv
      <3> QED
        BY <3>1, <3>2
    <2> QED
      BY <2>2, <2>6 DEF ImportInv
  <1>7. TargetInv' /\ WriterInv'
    BY <1>1 DEF TInv, RestoreInv, TargetInv, WriterInv
  <1> QED
    BY <1>1, <1>6, <1>7, TableStays, ReaderStays DEF TInv, RestoreInv

(***************************************************************************)
(* A step of one call that inserts nothing.                                *)
(***************************************************************************)
LEMMA CallStepTInv ==
    ASSUME TInv, NEW i \in Importers, NEW call,
           import' = [import EXCEPT ![i] = call],
           UNCHANGED <<table, rows, resolved, reader, target, writer>>,
           DOMAIN call = {"pc", "stream", "expectedSeq", "count"},
           call.stream = import[i].stream, call.pc # "idle",
           \/ call.expectedSeq = import[i].expectedSeq
           \/ call.expectedSeq = 1 /\ import[i].expectedSeq = 0
    PROVE  TInv'
  <1>1. import'[i] = call /\ \A k \in Importers \ {i} : import'[k] = import[k]
    BY DEF TInv, RestoreInv, ImportInv
  <1>2. import' = [k \in Importers |-> import'[k]]
    BY DEF TInv, RestoreInv, ImportInv
  <1>3. Exports' = Exports
    BY DEF Exports
  <1>4. ASSUME NEW k \in Importers
        PROVE  /\ DOMAIN import'[k] = {"pc", "stream", "expectedSeq", "count"}
               /\ import'[k].stream \in Seq(Exports')
               /\ import'[k].expectedSeq \in Nat
               /\ import'[k].pc = "idle" => import'[k].expectedSeq = 0
               /\ {e.seq : e \in {f \in target' : f.by = k}} = 1..(import'[k].expectedSeq - 1)
    <2>1. /\ DOMAIN import[k] = {"pc", "stream", "expectedSeq", "count"}
          /\ import[k].stream \in Seq(Exports)
          /\ import[k].expectedSeq \in Nat
          /\ import[k].pc = "idle" => import[k].expectedSeq = 0
          /\ {e.seq : e \in {f \in target : f.by = k}} = 1..(import[k].expectedSeq - 1)
      BY DEF TInv, RestoreInv, ImportInv
    <2>2. 1..(0 - 1) = 1..(1 - 1)
      OBVIOUS
    <2>3. CASE k = i
      BY <1>1, <1>3, <2>1, <2>2, <2>3
    <2>4. CASE k # i
      BY <1>1, <1>3, <2>1, <2>4
    <2> QED
      BY <2>3, <2>4
  <1>5. ImportInv'
    BY <1>2, <1>4 DEF ImportInv
  <1>6. TargetInv' /\ WriterInv'
    BY DEF TInv, RestoreInv, TargetInv, WriterInv
  <1> QED
    BY <1>5, <1>6, TableStays, ReaderStays DEF TInv, RestoreInv

\* An import that ends keeps the invariant.
LEMMA FailsTInv ==
    ASSUME TInv, NEW i \in Importers, NEW pc \in {"failed", "done"},
           import' = [import EXCEPT ![i].pc = pc],
           UNCHANGED <<table, rows, resolved, reader, target, writer>>
    PROVE  TInv'
  <1> DEFINE call == [import[i] EXCEPT !.pc = pc]
  <1>1. /\ DOMAIN call = {"pc", "stream", "expectedSeq", "count"}
        /\ call.pc = pc /\ call.stream = import[i].stream
        /\ call.expectedSeq = import[i].expectedSeq
    BY DEF TInv, RestoreInv, ImportInv
  <1>2. import' = [import EXCEPT ![i] = call]
    OBVIOUS
  <1> HIDE DEF call
  <1> QED
    BY <1>1, <1>2, CallStepTInv

\* The first step of an import keeps the invariant.
LEMMA ImportFirstTInv ==
    ASSUME TInv, NEW i \in Importers, NEW ok, ImportFirst(i, ok)
    PROVE  TInv'
  <1>1. /\ import[i].pc = "open" /\ import[i].expectedSeq = 0
        /\ UNCHANGED <<table, rows, resolved, reader, target, writer>>
    BY DEF ImportFirst
  <1>2. CASE import' = [import EXCEPT ![i].expectedSeq = 1]
    <2> DEFINE call == [import[i] EXCEPT !.expectedSeq = 1]
    <2>1. /\ DOMAIN call = {"pc", "stream", "expectedSeq", "count"}
          /\ call.pc = "open" /\ call.stream = import[i].stream /\ call.expectedSeq = 1
      BY <1>1 DEF TInv, RestoreInv, ImportInv
    <2>2. import' = [import EXCEPT ![i] = call]
      BY <1>2
    <2> HIDE DEF call
    <2> QED
      BY <1>1, <2>1, <2>2, CallStepTInv
  <1>3. CASE import' = [import EXCEPT ![i].pc = "failed"]
    BY <1>1, <1>3, FailsTInv
  <1> QED
    BY <1>2, <1>3 DEF ImportFirst, Fails

(***************************************************************************)
(* A row with a free number, below which every number is taken, goes at    *)
(* the end of the restored log.                                            *)
(***************************************************************************)
LEMMA InsertedAtTheEnd ==
    ASSUME TargetInv, NEW e, Free(e), e.seq \in Nat \ {0},
           \A m \in 1..(e.seq - 1) : \E f \in target : f.seq = m,
           e.by \in Importers \cup {"writer"},
           e.by # "writer" => e.seq \in 1..Len(rows) /\ rows[e.seq].key = e.id,
           target' = target \cup {e}, rows' = rows
    PROVE  TargetInv'
  <1>1. PICK n \in Nat : {f.seq : f \in target} = 1..n
    BY DEF TargetInv
  <1>2. e.seq \notin 1..n /\ \A m \in 1..(e.seq - 1) : m \in 1..n
    BY <1>1 DEF Free
  <1>3. e.seq = n + 1
    <2>1. e.seq > n
      BY <1>2
    <2>2. e.seq - 1 <= n
      <3>1. CASE e.seq = 1
        BY <3>1
      <3>2. CASE e.seq # 1
        BY <1>2, <3>2
      <3> QED
        BY <3>1, <3>2
    <2> QED
      BY <2>1, <2>2
  <1>4. {f.seq : f \in target'} = 1..(n + 1)
    <2>1. {f.seq : f \in target'} = {f.seq : f \in target} \cup {e.seq}
      OBVIOUS
    <2> QED
      BY <1>1, <1>3, <2>1
  <1>5. \A f, g \in target' : f.seq = g.seq => f = g
    BY DEF TargetInv, Free
  <1>6. \A f \in target' :
          /\ f.by \in Importers \cup {"writer"}
          /\ f.by # "writer" => f.seq \in 1..Len(rows') /\ rows'[f.seq].key = f.id
    BY DEF TargetInv
  <1>7. n + 1 \in Nat
    OBVIOUS
  <1> QED
    BY <1>4, <1>5, <1>6, <1>7 DEF TargetInv

\* A writer that does nothing keeps its invariant while the target grows.
LEMMA WriterStays ==
    ASSUME WriterInv, target \subseteq target', writer' = writer
    PROVE  WriterInv'
  BY DEF WriterInv

\* Importing an event keeps the invariant.
LEMMA ImportEventTInv ==
    ASSUME TInv, NEW i \in Importers, NEW ok, ImportEvent(i, ok)
    PROVE  TInv'
  <1> DEFINE want == import[i].expectedSeq
             head == Head(import[i].stream)
             e == [id |-> head.id, seq |-> head.seq, by |-> i]
             call == [import[i] EXCEPT !.stream = Tail(@), !.expectedSeq = want + 1,
                                       !.count = @ + 1]
  <1>1. /\ import[i].pc = "open" /\ import[i].stream # <<>> /\ want > 0
        /\ UNCHANGED <<table, rows, resolved, reader, writer>>
    BY DEF ImportEvent
  <1>2. CASE import' = [import EXCEPT ![i].pc = "failed"] /\ target' = target
    BY <1>1, <1>2, FailsTInv
  <1>3. CASE /\ head.seq = want /\ Free(e)
             /\ target' = target \cup {e}
             /\ import' = [import EXCEPT ![i].stream = Tail(@), ![i].expectedSeq = want + 1,
                                         ![i].count = @ + 1]
    <2>1. /\ DOMAIN import[i] = {"pc", "stream", "expectedSeq", "count"}
          /\ import[i].stream \in Seq(Exports)
          /\ want \in Nat
          /\ {f.seq : f \in {g \in target : g.by = i}} = 1..(want - 1)
      BY DEF TInv, RestoreInv, ImportInv
    <2>2. import' = [import EXCEPT ![i] = call]
      BY <1>3
    <2>3. /\ DOMAIN call = {"pc", "stream", "expectedSeq", "count"}
          /\ call.pc = "open" /\ call.stream = Tail(import[i].stream) /\ call.expectedSeq = want + 1
      BY <1>1, <2>1
    <2>4. head \in Exports /\ Tail(import[i].stream) \in Seq(Exports)
      BY <1>1, <2>1
    <2>5. /\ e.seq = want /\ e.by = i /\ e.id = head.id
          /\ e.seq \in 1..Len(rows) /\ rows[e.seq].key = e.id
      BY <1>3, <2>4 DEF Exports
    <2> HIDE DEF call, e, head, want
    <2>6. TargetInv'
      <3>1. \A m \in 1..(e.seq - 1) : \E f \in target : f.seq = m
        BY <2>1, <2>5
      <3>2. TargetInv /\ rows' = rows /\ e.seq \in Nat \ {0}
        BY <1>1, <2>1, <2>5 DEF TInv, RestoreInv
      <3> QED
        BY <1>3, <2>5, <3>1, <3>2, InsertedAtTheEnd
    <2>7. WriterInv'
      BY <1>1, <1>3, WriterStays DEF TInv, RestoreInv
    <2>8. ImportInv'
      <3>1. import'[i] = call /\ \A k \in Importers \ {i} : import'[k] = import[k]
        BY <2>2 DEF TInv, RestoreInv, ImportInv
      <3>2. import' = [k \in Importers |-> import'[k]]
        BY <2>2 DEF TInv, RestoreInv, ImportInv
      <3>3. Exports' = Exports
        BY <1>1 DEF Exports
      <3>4. ASSUME NEW k \in Importers
            PROVE  /\ DOMAIN import'[k] = {"pc", "stream", "expectedSeq", "count"}
                   /\ import'[k].stream \in Seq(Exports')
                   /\ import'[k].expectedSeq \in Nat
                   /\ import'[k].pc = "idle" => import'[k].expectedSeq = 0
                   /\ {f.seq : f \in {g \in target' : g.by = k}} = 1..(import'[k].expectedSeq - 1)
        <4>1. CASE k = i
          <5>1. {g \in target' : g.by = i} = {g \in target : g.by = i} \cup {e}
            BY <1>3, <2>5
          <5>2. {f.seq : f \in {g \in target' : g.by = i}}
                  = {f.seq : f \in {g \in target : g.by = i}} \cup {want}
            BY <2>5, <5>1
          <5>3. (1..(want - 1)) \cup {want} = 1..((want + 1) - 1)
            BY <1>1, <2>1
          <5>4. {f.seq : f \in {g \in target' : g.by = i}} = 1..((want + 1) - 1)
            BY <2>1, <5>2, <5>3
          <5>5. /\ DOMAIN import'[i] = {"pc", "stream", "expectedSeq", "count"}
                /\ import'[i].pc = "open" /\ import'[i].stream = Tail(import[i].stream)
                /\ import'[i].expectedSeq = want + 1
            BY <2>3, <3>1
          <5>6. import'[i].stream \in Seq(Exports') /\ want + 1 \in Nat
            BY <2>1, <2>4, <3>3, <5>5
          <5> QED
            BY <4>1, <5>4, <5>5, <5>6
        <4>2. CASE k # i
          <5>1. {g \in target' : g.by = k} = {g \in target : g.by = k}
            BY <1>3, <2>5, <4>2
          <5> QED
            BY <3>1, <3>3, <4>2, <5>1 DEF TInv, RestoreInv, ImportInv
        <4> QED
          BY <4>1, <4>2
      <3> QED
        BY <3>2, <3>4 DEF ImportInv
    <2> QED
      BY <1>1, <2>6, <2>7, <2>8, TableStays, ReaderStays DEF TInv, RestoreInv
  <1> QED
    BY <1>2, <1>3 DEF ImportEvent, Fails

\* The writer's taking a number keeps the invariant.
LEMMA WriterTakesSeqTInv == ASSUME TInv, WriterTakesSeq PROVE TInv'
  <1> DEFINE N == {e.seq : e \in target} \cup {0}
  <1>1. /\ writer' = Max(N) + 1
        /\ UNCHANGED <<table, rows, resolved, reader, target, sealed, import>>
    BY DEF WriterTakesSeq
  <1>2. PICK n \in Nat : {e.seq : e \in target} = 1..n
    BY DEF TInv, RestoreInv, TargetInv
  <1>3. N = 0..n
    BY <1>2
  <1>4. Max(N) = n
    <2>1. n \in 0..n /\ \A y \in 0..n : n >= y
      OBVIOUS
    <2>2. \A x \in 0..n : (\A y \in 0..n : x >= y) => x = n
      OBVIOUS
    <2>3. (CHOOSE x \in 0..n : \A y \in 0..n : x >= y) = n
      BY <2>1, <2>2
    <2> HIDE DEF N
    <2> QED
      BY <1>3, <2>3 DEF Max
  <1>5. WriterInv'
    <2>1. writer' = n + 1
      BY <1>1, <1>4
    <2>2. \A m \in 1..n : \E e \in target : e.seq = m
      BY <1>2
    <2>3. writer' \in Nat /\ 1..(writer' - 1) = 1..n
      BY <2>1
    <2> QED
      BY <1>1, <2>2, <2>3 DEF WriterInv
  <1>6. TargetInv' /\ ImportInv'
    BY <1>1 DEF TInv, RestoreInv, TargetInv, ImportInv, Exports
  <1> QED
    BY <1>1, <1>5, <1>6, TableStays, ReaderStays DEF TInv, RestoreInv

\* The writer's commit keeps the invariant.
LEMMA WriterCommitsTInv == ASSUME TInv, WriterCommits PROVE TInv'
  <1> DEFINE e == [id |-> 0, seq |-> writer, by |-> "writer"]
  <1>1. /\ writer > 0 /\ target' = (IF Free(e) THEN target \cup {e} ELSE target)
        /\ writer' = 0
        /\ UNCHANGED <<table, rows, resolved, reader, sealed, import>>
    BY DEF WriterCommits
  <1>2. e.seq = writer /\ e.by = "writer"
    OBVIOUS
  <1> HIDE DEF e
  <1>3. WriterInv'
    BY <1>1 DEF WriterInv
  <1>4. TargetInv'
    <2>1. TargetInv /\ rows' = rows /\ e.seq \in Nat \ {0}
          /\ \A m \in 1..(e.seq - 1) : \E f \in target : f.seq = m
      BY <1>1, <1>2 DEF TInv, RestoreInv, WriterInv
    <2>2. CASE Free(e)
      BY <1>1, <1>2, <2>1, <2>2, InsertedAtTheEnd
    <2>3. CASE ~Free(e)
      BY <1>1, <2>1, <2>3 DEF TargetInv
    <2> QED
      BY <2>2, <2>3
  <1>5. ImportInv'
    <2>1. \A i \in Importers : {f \in target' : f.by = i} = {f \in target : f.by = i}
      BY <1>1, <1>2, TransferAssumption
    <2>2. Exports' = Exports
      BY <1>1 DEF Exports
    <2> QED
      BY <1>1, <2>1, <2>2 DEF TInv, RestoreInv, ImportInv
  <1> QED
    BY <1>1, <1>3, <1>4, <1>5, TableStays, ReaderStays DEF TInv, RestoreInv

-----------------------------------------------------------------------------
(***************************************************************************)
(* TInv is an invariant of Transfer: this is what the guards of Import,    *)
(* the unique constraint and the order of the pages keep true.             *)
(***************************************************************************)
THEOREM TransferInvariance == TransferSpec => []TInv
  <1>1. ASSUME TInv, [TransferNext]_transferVars PROVE TInv'
    <2>1. ASSUME NEW key \in RowKeys, NEW time \in IF table = "transactions" THEN Times ELSE {0},
                 Insert(key, time)
          PROVE  TInv'
      <3>1. time \in Times \cup {0}
        OBVIOUS
      <3> QED
        BY <1>1, <2>1, <3>1, InsertTInv
    <2>2. ASSUME NEW key \in RowKeys, Resolve(key) PROVE TInv'
      BY <1>1, <2>2, ResolveTInv
    <2>3. ASSUME NEW n \in Sizes, NEW scope \in IF table = "ledgers" THEN Scopes ELSE {RowKeys},
                 Begin(n, scope)
          PROVE  TInv'
      BY <1>1, <2>3, BeginTInv
    <2>4. CASE NextPage
      BY <1>1, <2>4, NextPageTInv
    <2>5. CASE ReadFails
      BY <1>1, <2>5, ReadFailsTInv
    <2>6. ASSUME NEW i \in Importers, NEW a \in 1..MaxRows, NEW b \in 1..MaxRows, SendImport(i, a, b)
          PROVE  TInv'
      <3>1. a \in Nat /\ b \in Nat
        BY TransferAssumption
      <3> QED
        BY <1>1, <2>6, <3>1, SendImportTInv
    <2>7. ASSUME NEW i \in Importers, NEW ok \in BOOLEAN, ImportFirst(i, ok) PROVE TInv'
      BY <1>1, <2>7, ImportFirstTInv
    <2>8. ASSUME NEW i \in Importers, NEW ok \in BOOLEAN, ImportEvent(i, ok) PROVE TInv'
      BY <1>1, <2>8, ImportEventTInv
    <2>9. ASSUME NEW i \in Importers, ImportEnds(i) PROVE TInv'
      <3>1. \/ import' = [import EXCEPT ![i].pc = "done"]
            \/ import' = [import EXCEPT ![i].pc = "failed"]
        BY <2>9 DEF ImportEnds, Fails
      <3>2. UNCHANGED <<table, rows, resolved, reader, target, writer>>
        BY <2>9 DEF ImportEnds
      <3> QED
        BY <1>1, <3>1, <3>2, FailsTInv
    <2>10. CASE WriterTakesSeq
      BY <1>1, <2>10, WriterTakesSeqTInv
    <2>11. CASE WriterCommits
      BY <1>1, <2>11, WriterCommitsTInv
    <2>12. CASE UNCHANGED <<table, rows, resolved, reader, target, import, writer>>
      BY <1>1, <2>12, TableStays, ReaderStays, RestoreStays DEF TInv
    <2>13. CASE Seal
      BY <2>12, <2>13 DEF Seal
    <2>14. CASE UNCHANGED transferVars
      BY <2>12, <2>14 DEF transferVars
    <2>15. ASSUME NEW i \in Importers,
                  \/ \E a, b \in 1..MaxRows : SendImport(i, a, b)
                  \/ \E ok \in BOOLEAN : ImportFirst(i, ok) \/ ImportEvent(i, ok)
                  \/ ImportEnds(i)
           PROVE  TInv'
      BY <2>6, <2>7, <2>8, <2>9, <2>15, Zenon
    <2> HIDE DEF TInv
    <2> QED
      BY <1>1, <2>1, <2>2, <2>3, <2>4, <2>5, <2>10, <2>11, <2>13, <2>14, <2>15, Zenon DEF TransferNext
  <1> QED
    BY <1>1, InitTInv, PTL DEF TransferSpec

\* A listing ordered by the column of its token never has a row twice, and
\* once it has ended it has, or has a reason not to have, every row that was
\* there when it began.
OnlyTokensAreSkipped ==
    table \in ByOneColumn =>
        /\ IsInjective(reader.got)
        /\ reader.pc = "done" => \A r \in reader.first : Listed(r)

(***************************************************************************)
(* OnlyTokensAreSkipped, for every table that is ordered by the column of  *)
(* its token, every page size and every insertion between two pages: no    *)
(* row is listed twice, and a listing that has ended lacks, of the rows    *)
(* there were when it began, only those the tokens named (and those the    *)
(* caller may not see, and approvals that were resolved).                  *)
(***************************************************************************)
THEOREM ListingsSkipOnlyTokens == TransferSpec => []OnlyTokensAreSkipped
  <1>1. ASSUME TInv PROVE OnlyTokensAreSkipped
    <2> SUFFICES ASSUME table \in ByOneColumn
                 PROVE  /\ IsInjective(reader.got)
                        /\ reader.pc = "done" => \A r \in reader.first : Listed(r)
      BY DEF OnlyTokensAreSkipped
    <2>1. /\ reader.got \in Seq(Rows) /\ Increasing(reader.got)
          /\ reader.pc = "done" => \A r \in reader.first : Listed(r)
      BY <1>1 DEF TInv, ReaderInv, ListingInv, ByOneColumn
    <2>2. \A r \in Rows : r.key \in Nat
      BY <1>1, RowFacts DEF TInv
    <2>3. /\ Len(reader.got) \in Nat /\ DOMAIN reader.got = 1..Len(reader.got)
          /\ \A i \in 1..Len(reader.got) : reader.got[i].key \in Nat
      BY <2>1, <2>2
    <2>4. \A i, j \in 1..Len(reader.got) : reader.got[i] = reader.got[j] => i = j
      <3> SUFFICES ASSUME NEW i \in 1..Len(reader.got), NEW j \in 1..Len(reader.got),
                          reader.got[i] = reader.got[j], i < j
                   PROVE  FALSE
        BY <2>3
      <3> QED
        BY <2>1, <2>3 DEF Increasing
    <2> QED
      BY <2>1, <2>3, <2>4 DEF IsInjective
  <1> QED
    BY <1>1, TransferInvariance, PTL

(***************************************************************************)
(* A set of events numbered 1..n has n elements.                           *)
(***************************************************************************)
LEMMA NumberedCount ==
    ASSUME NEW S, NEW n \in Nat, {e.seq : e \in S} = 1..n,
           \A e, f \in S : e.seq = f.seq => e = f
    PROVE  Cardinality(S) = n
  <1> DEFINE at == [i \in 1..n |-> CHOOSE e \in S : e.seq = i]
  <1>1. \A i \in 1..n : at[i] \in S /\ at[i].seq = i
    OBVIOUS
  <1>2. \A e \in S : e.seq \in 1..n /\ at[e.seq] = e
    BY <1>1
  <1>3. at \in [1..n -> S]
    BY <1>1
  <1> HIDE DEF at
  <1>4. at \in Injection(1..n, S)
    BY <1>1, <1>3 DEF Injection, IsInjective
  <1>5. at \in Surjection(1..n, S)
    BY <1>2, <1>3 DEF Surjection
  <1>6. IsFiniteSet(1..n) /\ Cardinality(1..n) = n
    BY FS_Interval
  <1> QED
    BY <1>4, <1>5, <1>6, FS_Bijection DEF Bijection, ExistsBijection

(***************************************************************************)
(* RestoredIsPrefix, for any number of Import calls and any place at which *)
(* a stream breaks or a writer comes between: the restored log has no gap, *)
(* and what was imported is the work of one call and the beginning of the  *)
(* source's log.                                                           *)
(***************************************************************************)
THEOREM RestoredLogIsPrefix == TransferSpec => []RestoredIsPrefix
  <1>1. ASSUME TInv PROVE RestoredIsPrefix
    <2> DEFINE imported == {e \in target : e.by # "writer"}
               Of(i) == {f \in target : f.by = i}
    <2>1. /\ \A e, f \in target : e.seq = f.seq => e = f
          /\ \A e \in imported : e.by \in Importers /\ rows[e.seq].key = e.id
      BY <1>1 DEF TInv, RestoreInv, TargetInv
    <2>2. \A i \in Importers : /\ import[i].expectedSeq \in Nat
                               /\ {e.seq : e \in Of(i)} = 1..(import[i].expectedSeq - 1)
      BY <1>1 DEF TInv, RestoreInv, ImportInv
    <2>3. {e.seq : e \in target} = 1..Cardinality(target)
      <3>1. PICK n \in Nat : {e.seq : e \in target} = 1..n
        BY <1>1 DEF TInv, RestoreInv, TargetInv
      <3>2. Cardinality(target) = n
        BY <2>1, <3>1, NumberedCount
      <3> QED
        BY <3>1, <3>2
    <2>4. /\ Cardinality({e.by : e \in imported}) <= 1
          /\ {e.seq : e \in imported} = 1..Cardinality(imported)
      <3>1. CASE imported = {}
        <4>1. {e.by : e \in imported} = {} /\ {e.seq : e \in imported} = {}
          BY <3>1
        <4>2. Cardinality({}) = 0
          BY FS_EmptySet
        <4>3. 1..0 = {}
          OBVIOUS
        <4> HIDE DEF imported
        <4> QED
          BY <3>1, <4>1, <4>2, <4>3
      <3>2. CASE imported # {}
        <4>1. PICK d \in imported : TRUE
          BY <3>2
        <4> DEFINE i == d.by
        <4>2. i \in Importers /\ i # "writer"
          BY <2>1, <4>1
        \* A call that has inserted anything has inserted the first event.
        <4>3. ASSUME NEW e \in imported PROVE \E f \in Of(e.by) : f.seq = 1
          <5>1. e.by \in Importers /\ e \in Of(e.by)
            BY <2>1
          <5>2. e.seq \in 1..(import[e.by].expectedSeq - 1)
            BY <2>2, <5>1
          <5>3. 1 \in 1..(import[e.by].expectedSeq - 1)
            BY <2>2, <5>1, <5>2
          <5>4. 1 \in {f.seq : f \in Of(e.by)}
            BY <2>2, <5>1, <5>3
          <5> QED
            BY <5>4
        <4>4. \A e \in imported : e.by = i
          <5> SUFFICES ASSUME NEW e \in imported PROVE e.by = i
            OBVIOUS
          <5>1. PICK f \in Of(e.by) : f.seq = 1
            BY <4>3
          <5>2. PICK g \in Of(i) : g.seq = 1
            BY <4>1, <4>3
          <5>3. f = g
            BY <2>1, <5>1, <5>2
          <5> QED
            BY <5>1, <5>2, <5>3
        <4>5. imported = Of(i) /\ {e.by : e \in imported} = {i}
          BY <4>1, <4>2, <4>4
        <4>6. {e.seq : e \in Of(i)} = 1..(import[i].expectedSeq - 1)
              /\ import[i].expectedSeq \in Nat
          BY <2>2, <4>2
        <4>7. d.seq \in 1..(import[i].expectedSeq - 1)
          BY <4>1, <4>5, <4>6
        <4>8. import[i].expectedSeq - 1 \in Nat
          BY <4>6, <4>7
        <4>9. \A e, f \in Of(i) : e.seq = f.seq => e = f
          BY <2>1
        <4> HIDE DEF Of, imported, i
        <4>10. Cardinality(Of(i)) = import[i].expectedSeq - 1
          BY <4>6, <4>8, <4>9, NumberedCount
        <4>11. Cardinality({i}) = 1
          BY FS_Singleton
        <4> QED
          <5>1. 1 <= 1
            OBVIOUS
          <5> QED
            BY <4>5, <4>6, <4>10, <4>11, <5>1
      <3> QED
        BY <3>1, <3>2
    <2> QED
      BY <2>1, <2>3, <2>4 DEF RestoredIsPrefix
  <1> QED
    BY <1>1, TransferInvariance, PTL
=============================================================================
