---------------------------- MODULE MetadataProofs ----------------------------
(***************************************************************************)
(* Proofs about Metadata and ChartOfAccounts: for any accounts, keys,      *)
(* values, charts and addresses, and a log of any length, the metadata and *)
(* its history are what the log says, GetRelationships gives the line of a *)
(* transaction, and a chart's verdict is the declarative one.              *)
(***************************************************************************)
EXTENDS Metadata, WellFoundedInduction, TLAPS, SequenceTheorems

Elements(s) == {s[i] : i \in DOMAIN s}

-----------------------------------------------------------------------------
(***************************************************************************)
(* The inductive invariant.                                                *)
(***************************************************************************)

\* The log and the history are sequences.  An event about a transaction, and a
\* row of its history, came after it, so that a new transaction starts with
\* neither; rows of history have the numbers of events there are.
BooksInv ==
    /\ log \in Seq(Elements(log)) /\ history \in Seq(Elements(history))
    /\ \A i \in DOMAIN log : log[i].target.type = 1 => log[i].target.id \in TxIds
    /\ \A i \in DOMAIN history : /\ history[i].target.type = 1 => history[i].target.id \in TxIds
                                 /\ history[i].revision \in 0..Len(log)
    /\ EventsHaveRows /\ RevisionsGrow

TxType(x) ==
    /\ DOMAIN x = {"meta", "src", "dst", "born"}
    /\ x.src \in Accounts /\ x.dst \in Accounts
    /\ x.born \in Objects \cup {Null}

\* The transaction was amended or given metadata after it was posted.
GivenMetadata(t) ==
    \E i \in DOMAIN log : /\ log[i].target = TxTarget(t)
                          /\ log[i].type \in {"TransactionAmended", "MetadataSet"}

\* What cannot be read was posted without metadata and given some since.
Unreadable ==
    \A t \in DOMAIN txs : ~Readable(txs[t].meta) <=> txs[t].born = Null /\ GivenMetadata(t)

\* Transactions follow the log and the history.  One posted without metadata
\* has none, or what cannot be read.
TxsInv ==
    /\ txs \in Seq(Elements(txs))
    /\ \A t \in DOMAIN txs : /\ TxType(txs[t])
                             /\ txs[t].born = Null => txs[t].meta = Null \/ txs[t].meta.kind = "array"
    /\ TransactionsFollowLog /\ Unreadable /\ TransactionsRebuilt

\* Accounts follow the history.  One that is not there can only have had keys
\* deleted.
AccountsInv ==
    /\ DOMAIN accounts \subseteq Accounts
    /\ \A a \in DOMAIN accounts : accounts[a] \in Objects
    /\ \A a \in Accounts \ DOMAIN accounts : FromHistory(AccountTarget(a), Empty) = Empty
    /\ AccountsRebuilt

\* Transactions and amendments have one parent at most.
OneParent ==
    /\ \A r \in rels : r.child \in DOMAIN txs \cup {-i : i \in 1..Len(log)}
    /\ \A r, q \in rels : r.child = q.child => r = q

MetadataInv == BooksInv /\ TxsInv /\ AccountsInv /\ OneParent


-----------------------------------------------------------------------------
(***************************************************************************)
(* A set of natural numbers that is not empty has a least element.         *)
(***************************************************************************)
LEMMA LeastNumber ==
    ASSUME NEW T, T \subseteq Nat, T # {}
    PROVE  \E m \in T : \A n \in T : m <= n
  <1> DEFINE R == {ss \in Nat \X Nat : ss[1] < ss[2]}
  <1>1. IsWellFoundedOn(R, Nat)
    BY NatLessThanWellFounded DEF OpToRel
  <1>2. \A n, m \in Nat : n < m => <<n, m>> \in R
    OBVIOUS
  <1> HIDE DEF R
  <1>3. PICK m \in T : \A n \in T : ~(<<n, m>> \in R)
    BY <1>1, WFMin
  <1>4. \A n \in T : ~(n < m)
    BY <1>2, <1>3
  <1> QED
    BY <1>3, <1>4

(***************************************************************************)
(* A set that has 0, and with every natural number the next, has them all. *)
(***************************************************************************)
LEMMA NumbersByInduction ==
    ASSUME NEW S, 0 \in S, \A n \in Nat : n \in S => n + 1 \in S
    PROVE  \A n \in Nat : n \in S
  <1> SUFFICES ASSUME NEW k \in Nat, k \notin S PROVE FALSE
    OBVIOUS
  <1> DEFINE T == Nat \ S
  <1>1. PICK m \in T : \A n \in T : m <= n
    BY LeastNumber
  <1>2. m # 0 /\ m - 1 \in Nat /\ m - 1 \notin T
    BY <1>1
  <1> QED
    BY <1>1, <1>2

(***************************************************************************)
(* Appending to a sequence, whatever it is a sequence of.                  *)
(***************************************************************************)
LEMMA AppendFacts ==
    ASSUME NEW s, s \in Seq(Elements(s)), NEW e
    PROVE  /\ Append(s, e) \in Seq(Elements(Append(s, e)))
           /\ Len(s) \in Nat
           /\ DOMAIN s = 1..Len(s)
           /\ Len(Append(s, e)) = Len(s) + 1
           /\ DOMAIN Append(s, e) = 1..(Len(s) + 1)
           /\ Append(s, e)[Len(s) + 1] = e
           /\ \A n \in 1..Len(s) : Append(s, e)[n] = s[n]
  <1> DEFINE T == Elements(s) \cup {e}
             t == Append(s, e)
  <1>1. s \in Seq(T)
    BY SeqMonotonic
  <1>2. e \in T
    OBVIOUS
  <1> HIDE DEF T
  <1>3. t \in Seq(T) /\ Len(s) \in Nat /\ DOMAIN s = 1..Len(s) /\ Len(t) = Len(s) + 1
        /\ DOMAIN t = 1..(Len(s) + 1) /\ t[Len(s) + 1] = e
        /\ \A n \in 1..Len(s) : t[n] = s[n]
    BY <1>1, <1>2
  <1> HIDE DEF t
  <1>4. \A n \in 1..Len(t) : t[n] \in Elements(t)
    BY <1>3 DEF Elements
  <1>5. t \in [1..Len(t) -> Elements(t)]
    BY <1>3, <1>4
  <1>6. t \in Seq(Elements(t))
    BY <1>3, <1>5, SeqDef
  <1> QED
    BY <1>3, <1>6 DEF t

(***************************************************************************)
(* Recursive definitions have a solution, so each is one: the metadata     *)
(* after each event of a log,                                              *)
(***************************************************************************)
LEMMA AsLoggedDef ==
    ASSUME NEW l, NEW t, Len(l) \in Nat
    PROVE  /\ AsLogged(l, t)[0] = NoFields
           /\ \A n \in 1..Len(l) :
                 AsLogged(l, t)[n] = AfterEvent(AsLogged(l, t)[n - 1], l[n], t)
  <1> DEFINE Sol(f, m) == f = [n \in 0..m |-> IF n = 0 THEN NoFields ELSE AfterEvent(f[n - 1], l[n], t)]
             S == {m \in Nat : \E f : Sol(f, m)}
  <1>1. 0 \in S
    <2> DEFINE f == [n \in 0..0 |-> NoFields]
    <2>1. Sol(f, 0)
      OBVIOUS
    <2> QED
      BY <2>1
  <1>2. ASSUME NEW m \in Nat, m \in S PROVE m + 1 \in S
    <2>1. PICK f : Sol(f, m)
      BY <1>2
    <2> DEFINE g == [n \in 0..(m + 1) |-> IF n <= m THEN f[n] ELSE AfterEvent(f[m], l[m + 1], t)]
    <2>2. f[0] = NoFields /\ \A n \in 1..m : f[n] = AfterEvent(f[n - 1], l[n], t)
      BY <2>1
    <2>3. /\ g[0] = f[0] /\ \A n \in 0..m : g[n] = f[n]
          /\ g[m + 1] = AfterEvent(f[m], l[m + 1], t)
      OBVIOUS
    <2>4. \A n \in 0..(m + 1) : g[n] = IF n = 0 THEN NoFields ELSE AfterEvent(g[n - 1], l[n], t)
      BY <2>2, <2>3
    <2>5. Sol(g, m + 1) /\ m + 1 \in Nat
      BY <2>4
    <2> HIDE DEF Sol, g
    <2> QED
      BY <2>5
  <1>3. Len(l) \in S
    <2> HIDE DEF S
    <2> QED
      BY <1>1, <1>2, NumbersByInduction
  <1>4. Sol(AsLogged(l, t), Len(l))
    <2>1. AsLogged(l, t) = CHOOSE f : Sol(f, Len(l))
      BY DEF AsLogged
    <2>2. \E f : Sol(f, Len(l))
      BY <1>3
    <2> HIDE DEF Sol
    <2> QED
      BY <2>1, <2>2, Zenon
  <1> QED
    BY <1>4

(***************************************************************************)
(* the metadata after each row of a history,                               *)
(***************************************************************************)
LEMMA RebuiltDef ==
    ASSUME NEW h, NEW l, NEW target, NEW start, Len(h) \in Nat
    PROVE  /\ Rebuilt(h, l, target, start)[0] = start
           /\ \A n \in 1..Len(h) :
                 Rebuilt(h, l, target, start)[n] = AfterRow(Rebuilt(h, l, target, start)[n - 1], h[n], target, l)
  <1> DEFINE Sol(f, m) == f = [n \in 0..m |-> IF n = 0 THEN start ELSE AfterRow(f[n - 1], h[n], target, l)]
             S == {m \in Nat : \E f : Sol(f, m)}
  <1>1. 0 \in S
    <2> DEFINE f == [n \in 0..0 |-> start]
    <2>1. Sol(f, 0)
      OBVIOUS
    <2> QED
      BY <2>1
  <1>2. ASSUME NEW m \in Nat, m \in S PROVE m + 1 \in S
    <2>1. PICK f : Sol(f, m)
      BY <1>2
    <2> DEFINE g == [n \in 0..(m + 1) |-> IF n <= m THEN f[n] ELSE AfterRow(f[m], h[m + 1], target, l)]
    <2>2. f[0] = start /\ \A n \in 1..m : f[n] = AfterRow(f[n - 1], h[n], target, l)
      BY <2>1
    <2>3. /\ g[0] = f[0] /\ \A n \in 0..m : g[n] = f[n]
          /\ g[m + 1] = AfterRow(f[m], h[m + 1], target, l)
      OBVIOUS
    <2>4. \A n \in 0..(m + 1) : g[n] = IF n = 0 THEN start ELSE AfterRow(g[n - 1], h[n], target, l)
      BY <2>2, <2>3
    <2>5. Sol(g, m + 1) /\ m + 1 \in Nat
      BY <2>4
    <2> HIDE DEF Sol, g
    <2> QED
      BY <2>5
  <1>3. Len(h) \in S
    <2> HIDE DEF S
    <2> QED
      BY <1>1, <1>2, NumbersByInduction
  <1>4. Sol(Rebuilt(h, l, target, start), Len(h))
    <2>1. Rebuilt(h, l, target, start) = CHOOSE f : Sol(f, Len(h))
      BY DEF Rebuilt
    <2>2. \E f : Sol(f, Len(h))
      BY <1>3
    <2> HIDE DEF Sol
    <2> QED
      BY <2>1, <2>2, Zenon
  <1> QED
    BY <1>4

(***************************************************************************)
(* the places of a walk through a chart after each segment,                *)
(***************************************************************************)
LEMMA WalkDef ==
    ASSUME NEW chart, NEW address, Len(address) \in Nat
    PROVE  /\ Walk(chart, address)[0] = {{Root(chart)}}
           /\ \A n \in 1..Len(address) :
                 Walk(chart, address)[n] = AllOnward(Walk(chart, address)[n - 1], address[n])
  <1> DEFINE base == {{Root(chart)}}
             Sol(f, m) == f = [n \in 0..m |-> IF n = 0 THEN base ELSE AllOnward(f[n - 1], address[n])]
             S == {m \in Nat : \E f : Sol(f, m)}
  <1> HIDE DEF base
  <1>1. 0 \in S
    <2> DEFINE f == [n \in 0..0 |-> base]
    <2>1. Sol(f, 0)
      OBVIOUS
    <2> QED
      BY <2>1
  <1>2. ASSUME NEW m \in Nat, m \in S PROVE m + 1 \in S
    <2>1. PICK f : Sol(f, m)
      BY <1>2
    <2> DEFINE g == [n \in 0..(m + 1) |-> IF n <= m THEN f[n] ELSE AllOnward(f[m], address[m + 1])]
    <2>2. f[0] = base /\ \A n \in 1..m : f[n] = AllOnward(f[n - 1], address[n])
      BY <2>1
    <2>3. /\ g[0] = f[0] /\ \A n \in 0..m : g[n] = f[n]
          /\ g[m + 1] = AllOnward(f[m], address[m + 1])
      OBVIOUS
    <2>4. \A n \in 0..(m + 1) : g[n] = IF n = 0 THEN base ELSE AllOnward(g[n - 1], address[n])
      BY <2>2, <2>3
    <2>5. Sol(g, m + 1) /\ m + 1 \in Nat
      BY <2>4
    <2> HIDE DEF Sol, g
    <2> QED
      BY <2>5
  <1>3. Len(address) \in S
    <2> HIDE DEF S
    <2> QED
      BY <1>1, <1>2, NumbersByInduction
  <1>4. Sol(Walk(chart, address), Len(address))
    <2>1. Walk(chart, address) = CHOOSE f : Sol(f, Len(address))
      BY DEF Walk, base
    <2>2. \E f : Sol(f, Len(address))
      BY <1>3
    <2> HIDE DEF Sol
    <2> QED
      BY <2>1, <2>2, Zenon
  <1>5. /\ Walk(chart, address)[0] = base
        /\ \A n \in 1..Len(address) :
              Walk(chart, address)[n] = AllOnward(Walk(chart, address)[n - 1], address[n])
    BY <1>4
  <1> QED
    BY <1>5 DEF base

(***************************************************************************)
(* and the nodes that match the first segments of an address.              *)
(***************************************************************************)
LEMMA MatchedDef ==
    ASSUME NEW chart, NEW address, Len(address) \in Nat
    PROVE  /\ Matched(chart, address)[0] = {Root(chart)}
           /\ \A n \in 1..Len(address) :
                 Matched(chart, address)[n] = Matching(Matched(chart, address)[n - 1], address[n])
  <1> DEFINE base == {Root(chart)}
             Sol(f, m) == f = [n \in 0..m |-> IF n = 0 THEN base ELSE Matching(f[n - 1], address[n])]
             S == {m \in Nat : \E f : Sol(f, m)}
  <1> HIDE DEF base
  <1>1. 0 \in S
    <2> DEFINE f == [n \in 0..0 |-> base]
    <2>1. Sol(f, 0)
      OBVIOUS
    <2> QED
      BY <2>1
  <1>2. ASSUME NEW m \in Nat, m \in S PROVE m + 1 \in S
    <2>1. PICK f : Sol(f, m)
      BY <1>2
    <2> DEFINE g == [n \in 0..(m + 1) |-> IF n <= m THEN f[n] ELSE Matching(f[m], address[m + 1])]
    <2>2. f[0] = base /\ \A n \in 1..m : f[n] = Matching(f[n - 1], address[n])
      BY <2>1
    <2>3. /\ g[0] = f[0] /\ \A n \in 0..m : g[n] = f[n]
          /\ g[m + 1] = Matching(f[m], address[m + 1])
      OBVIOUS
    <2>4. \A n \in 0..(m + 1) : g[n] = IF n = 0 THEN base ELSE Matching(g[n - 1], address[n])
      BY <2>2, <2>3
    <2>5. Sol(g, m + 1) /\ m + 1 \in Nat
      BY <2>4
    <2> HIDE DEF Sol, g
    <2> QED
      BY <2>5
  <1>3. Len(address) \in S
    <2> HIDE DEF S
    <2> QED
      BY <1>1, <1>2, NumbersByInduction
  <1>4. Sol(Matched(chart, address), Len(address))
    <2>1. Matched(chart, address) = CHOOSE f : Sol(f, Len(address))
      BY DEF Matched, base
    <2>2. \E f : Sol(f, Len(address))
      BY <1>3
    <2> HIDE DEF Sol
    <2> QED
      BY <2>1, <2>2, Zenon
  <1>5. /\ Matched(chart, address)[0] = base
        /\ \A n \in 1..Len(address) :
              Matched(chart, address)[n] = Matching(Matched(chart, address)[n - 1], address[n])
    BY <1>4
  <1> QED
    BY <1>5 DEF base


-----------------------------------------------------------------------------
(***************************************************************************)
(* The chart of accounts.  One segment further, a walk is at a node whose  *)
(* name matches the segment, or nowhere.                                   *)
(***************************************************************************)
LEMMA OnwardMatches ==
    ASSUME NEW n, NEW nodes, n \in nodes, NEW seg, NEW at \in Onward({n}, seg)
    PROVE  at = {} \/ \E m \in Matching(nodes, seg) : at = {m}
  <1>1. at \in Next1(n, seg)
    BY DEF Onward
  <1>2. CASE seg \in DOMAIN n.children
    <2>1. at = {n.children[seg]} /\ seg \in Names(n, seg)
      BY <1>1, <1>2 DEF Next1, Names
    <2> QED
      BY <2>1 DEF Matching
  <1>3. CASE seg \notin DOMAIN n.children
    <2> DEFINE named == {k \in DOMAIN n.children \cap Variables : seg \in n.children[k].pattern}
    <2>1. CASE named = {}
      BY <1>1, <1>3, <2>1 DEF Next1
    <2>2. CASE named # {}
      <3>1. PICK k \in named : at = {n.children[k]}
        BY <1>1, <1>3, <2>2 DEF Next1
      <3>2. k \in Names(n, seg)
        BY DEF Names
      <3> QED
        BY <3>1, <3>2 DEF Matching
    <2> QED
      BY <2>1, <2>2
  <1> QED
    BY <1>2, <1>3

(***************************************************************************)
(* Where at most one name matches, the walk goes to the node of that name. *)
(***************************************************************************)
LEMMA OnwardExact ==
    ASSUME NEW n, NEW seg, \A k, l \in Names(n, seg) : k = l
    PROVE  \/ Matching({n}, seg) = {} /\ AllOnward({{n}}, seg) = {{}}
           \/ \E m : Matching({n}, seg) = {m} /\ AllOnward({{n}}, seg) = {{m}}
  <1>1. AllOnward({{n}}, seg) = Next1(n, seg)
    BY DEF AllOnward, Onward
  <1>2. Matching({n}, seg) = {n.children[l] : l \in Names(n, seg)}
    BY DEF Matching
  <1> DEFINE named == {k \in DOMAIN n.children \cap Variables : seg \in n.children[k].pattern}
  <1>3. CASE seg \in DOMAIN n.children
    <2>1. seg \in Names(n, seg)
      BY <1>3 DEF Names
    <2>2. Names(n, seg) = {seg}
      BY <2>1
    <2>3. Matching({n}, seg) = {n.children[seg]}
      BY <1>2, <2>2
    <2>4. Next1(n, seg) = {{n.children[seg]}}
      BY <1>3 DEF Next1
    <2> QED
      BY <1>1, <2>3, <2>4
  <1>4. CASE seg \notin DOMAIN n.children
    <2>1. named = Names(n, seg)
      BY <1>4 DEF Names
    <2>2. CASE named = {}
      <3>1. Next1(n, seg) = {{}}
        BY <1>4, <2>2 DEF Next1
      <3>2. Matching({n}, seg) = {}
        BY <1>2, <2>1, <2>2
      <3> QED
        BY <1>1, <3>1, <3>2
    <2>3. CASE named # {}
      <3>1. PICK k : k \in named
        BY <2>3
      <3>2. named = {k} /\ Names(n, seg) = {k}
        BY <2>1, <3>1
      <3>3. Next1(n, seg) = {{n.children[j]} : j \in named}
        BY <1>4, <2>3 DEF Next1
      <3>4. Next1(n, seg) = {{n.children[k]}}
        BY <3>2, <3>3
      <3>5. Matching({n}, seg) = {n.children[k]}
        BY <1>2, <3>2
      <3> QED
        BY <1>1, <3>4, <3>5
    <2> QED
      BY <2>2, <2>3
  <1> QED
    BY <1>3, <1>4

(***************************************************************************)
(* For every chart, every address and every order of its maps: the walk    *)
(* (validateSegments, matchNode) admits only addresses on the chart, and   *)
(* its verdict on an unambiguous address is whether it is on the chart.    *)
(***************************************************************************)
THEOREM WalkIsExact ==
    ASSUME NEW chart, NEW address \in Seq(STRING)
    PROVE  /\ TRUE \in ValidateAccount(chart, address) => OnChart(chart, address)
           /\ ~Ambiguous(chart, address) => ValidateAccount(chart, address) = {OnChart(chart, address)}
  <1> DEFINE N == Len(address)
             W == Walk(chart, address)
             M == Matched(chart, address)
  <1>1. N \in Nat
    OBVIOUS
  <1>2. /\ W[0] = {{Root(chart)}} /\ \A i \in 1..N : W[i] = AllOnward(W[i - 1], address[i])
        /\ M[0] = {Root(chart)} /\ \A i \in 1..N : M[i] = Matching(M[i - 1], address[i])
    BY <1>1, WalkDef, MatchedDef
  <1>3. CASE DOMAIN chart = {}
    BY <1>3 DEF ValidateAccount, OnChart
  <1>4. CASE DOMAIN chart # {}
    <2> HIDE DEF W, M
    <2>1. ValidateAccount(chart, address) = {Ends(at) : at \in W[N]}
      BY <1>4 DEF ValidateAccount, W
    <2>2. OnChart(chart, address) <=> \E n \in M[N] : IsLeaf(n)
      BY <1>4 DEF OnChart, M
    <2>3. \A at \in W[N] : at = {} \/ \E n \in M[N] : at = {n}
      <3> DEFINE S == {i \in Nat : i <= N => \A at \in W[i] : at = {} \/ \E n \in M[i] : at = {n}}
      <3>1. 0 \in S
        BY <1>2
      <3>2. ASSUME NEW i \in Nat, i \in S PROVE i + 1 \in S
        <4> SUFFICES ASSUME i + 1 <= N, NEW at \in W[i + 1]
                     PROVE  at = {} \/ \E n \in M[i + 1] : at = {n}
          OBVIOUS
        <4>1. i + 1 \in 1..N /\ (i + 1) - 1 = i /\ i <= N
          BY <1>1
        <4>2. W[i + 1] = AllOnward(W[i], address[i + 1]) /\ M[i + 1] = Matching(M[i], address[i + 1])
          BY <1>2, <4>1
        <4>3. PICK bt \in W[i] : at \in Onward(bt, address[i + 1])
          BY <4>2 DEF AllOnward
        <4>4. CASE bt = {}
          BY <4>3, <4>4 DEF Onward
        <4>5. CASE bt # {}
          <5>1. PICK n \in M[i] : bt = {n}
            BY <3>2, <4>1, <4>5
          <5> QED
            BY <4>2, <4>3, <5>1, OnwardMatches
        <4> QED
          BY <4>4, <4>5
      <3>3. N \in S
        <4> HIDE DEF S, N
        <4> QED
          BY <1>1, <3>1, <3>2, NumbersByInduction
      <3> QED
        BY <3>3
    <2>4. TRUE \in ValidateAccount(chart, address) => OnChart(chart, address)
      BY <2>1, <2>2, <2>3 DEF Ends
    <2>5. ASSUME ~Ambiguous(chart, address)
          PROVE  ValidateAccount(chart, address) = {OnChart(chart, address)}
      <3> DEFINE Same(i) == \/ M[i] = {} /\ W[i] = {{}}
                            \/ \E n : M[i] = {n} /\ W[i] = {{n}}
                 S == {i \in Nat : i <= N => Same(i)}
      <3>1. 0 \in S
        BY <1>2
      <3>2. ASSUME NEW i \in Nat, i \in S PROVE i + 1 \in S
        <4> SUFFICES ASSUME i + 1 <= N PROVE Same(i + 1)
          <5> HIDE DEF Same
          <5> QED
            OBVIOUS
        <4>1. i + 1 \in 1..N /\ (i + 1) - 1 = i /\ i <= N
          BY <1>1
        <4>2. W[i + 1] = AllOnward(W[i], address[i + 1]) /\ M[i + 1] = Matching(M[i], address[i + 1])
          BY <1>2, <4>1
        <4>3. CASE M[i] = {} /\ W[i] = {{}}
          <5>1. Matching({}, address[i + 1]) = {} /\ AllOnward({{}}, address[i + 1]) = {{}}
            BY DEF Matching, AllOnward, Onward
          <5> QED
            BY <4>2, <4>3, <5>1
        <4>4. CASE \E n : M[i] = {n} /\ W[i] = {{n}}
          <5>1. PICK n : M[i] = {n} /\ W[i] = {{n}}
            BY <4>4
          <5>2. \A k, l \in Names(n, address[i + 1]) : k = l
            <6>1. \A m \in M[(i + 1) - 1] : ~ \E k, l \in Names(m, address[i + 1]) : k # l
              BY <2>5, <4>1 DEF Ambiguous, M
            <6> QED
              BY <4>1, <5>1, <6>1
          <5>3. \/ Matching({n}, address[i + 1]) = {} /\ AllOnward({{n}}, address[i + 1]) = {{}}
                \/ \E m : Matching({n}, address[i + 1]) = {m} /\ AllOnward({{n}}, address[i + 1]) = {{m}}
            BY <5>2, OnwardExact, ZenonT(60)
          <5> QED
            BY <4>2, <5>1, <5>3
        <4> QED
          BY <3>2, <4>1, <4>3, <4>4
      <3>3. N \in S
        <4> HIDE DEF S, N
        <4> QED
          BY <1>1, <3>1, <3>2, NumbersByInduction
      <3>4. CASE M[N] = {} /\ W[N] = {{}}
        <4>1. ValidateAccount(chart, address) = {Ends({})}
          BY <2>1, <3>4
        <4>2. Ends({}) <=> OnChart(chart, address)
          BY <2>2, <3>4 DEF Ends
        <4>3. Ends({}) \in BOOLEAN /\ OnChart(chart, address) \in BOOLEAN
          BY DEF Ends, OnChart
        <4> QED
          BY <4>1, <4>2, <4>3
      <3>5. CASE \E n : M[N] = {n} /\ W[N] = {{n}}
        <4>1. PICK n : M[N] = {n} /\ W[N] = {{n}}
          BY <3>5
        <4>2. ValidateAccount(chart, address) = {Ends({n})}
          BY <2>1, <4>1
        <4>3. Ends({n}) <=> OnChart(chart, address)
          BY <2>2, <4>1 DEF Ends
        <4>4. Ends({n}) \in BOOLEAN /\ OnChart(chart, address) \in BOOLEAN
          BY DEF Ends, OnChart
        <4> QED
          BY <4>2, <4>3, <4>4
      <3>6. Same(N)
        <4> HIDE DEF Same
        <4> QED
          BY <1>1, <3>3
      <3> QED
        BY <3>4, <3>5, <3>6
    <2> QED
      BY <2>4, <2>5
  <1> QED
    BY <1>3, <1>4

-----------------------------------------------------------------------------
\* f holds what m rounds of a recursive query find.
AreRounds(f, step, start, m) == f[0] = start /\ \A n \in 1..m : f[n] = step[f[n - 1]]

(***************************************************************************)
(* Recursive queries.  Two lists of rounds that start alike stay alike.    *)
(***************************************************************************)
LEMMA RoundsAgree ==
    ASSUME NEW step, NEW start, NEW m \in Nat, NEW k \in Nat, m <= k, NEW f, NEW g,
           AreRounds(f, step, start, m), AreRounds(g, step, start, k)
    PROVE  f[m] = g[m]
  <1> DEFINE S == {n \in Nat : n <= m => f[n] = g[n]}
  <1>1. 0 \in S
    BY DEF AreRounds
  <1>2. ASSUME NEW n \in Nat, n \in S PROVE n + 1 \in S
    <2> SUFFICES ASSUME n + 1 <= m PROVE f[n + 1] = g[n + 1]
      OBVIOUS
    <2>1. n + 1 \in 1..m /\ n + 1 \in 1..k /\ (n + 1) - 1 = n /\ n <= m
      OBVIOUS
    <2>2. f[n] = g[n]
      BY <1>2, <2>1
    <2> QED
      BY <2>1, <2>2 DEF AreRounds
  <1>3. m \in S
    <2> HIDE DEF S
    <2> QED
      BY <1>1, <1>2, NumbersByInduction
  <1> QED
    BY <1>3

(***************************************************************************)
(* What has been found after each round of a recursive query.              *)
(***************************************************************************)
LEMMA RoundsDef ==
    ASSUME NEW step, NEW start
    PROVE  /\ Rounds(step, start)[0] = start
           /\ \A n \in Nat : Rounds(step, start)[n + 1] = step[Rounds(step, start)[n]]
  <1> DEFINE UpTo(f, m) == AreRounds(f, step, start, m)
             S == {m \in Nat : \E f : UpTo(f, m)}
  <1>1. 0 \in S
    <2> DEFINE f == [n \in 0..0 |-> start]
    <2>1. UpTo(f, 0)
      BY DEF AreRounds
    <2> QED
      BY <2>1
  <1>2. ASSUME NEW m \in Nat, m \in S PROVE m + 1 \in S
    <2>1. PICK f : UpTo(f, m)
      BY <1>2
    <2> DEFINE g == [n \in 0..(m + 1) |-> IF n <= m THEN f[n] ELSE step[f[m]]]
    <2>2. g[0] = f[0] /\ (\A n \in 0..m : g[n] = f[n]) /\ g[m + 1] = step[f[m]]
      OBVIOUS
    <2>3. UpTo(g, m + 1) /\ m + 1 \in Nat
      BY <2>1, <2>2 DEF AreRounds
    <2> HIDE DEF UpTo, g
    <2> QED
      BY <2>3
  <1>3. \A m \in Nat : \E f : UpTo(f, m)
    <2>1. \A m \in Nat : m \in S
      <3> HIDE DEF S
      <3> QED
        BY <1>1, <1>2, NumbersByInduction
    <2> HIDE DEF UpTo
    <2> QED
      BY <2>1
  <1>4. PICK F : \A m \in Nat : UpTo(F[m], m)
    <2> DEFINE G == [m \in Nat |-> CHOOSE f : UpTo(f, m)]
    <2> HIDE DEF UpTo
    <2>1. \A m \in Nat : UpTo(G[m], m)
      BY <1>3
    <2> HIDE DEF G
    <2> QED
      BY <2>1
  <1> DEFINE h == [n \in Nat |-> F[n][n]]
  <1>5. h[0] = start
    BY <1>4 DEF AreRounds
  <1>6. ASSUME NEW n \in Nat, NEW p \in Nat, n = p + 1 PROVE h[n] = step[h[p]]
    <2>1. UpTo(F[n], n) /\ UpTo(F[p], p)
      BY <1>4
    <2>2. p <= n /\ n \in 1..n /\ n - 1 = p
      BY <1>6
    <2> HIDE DEF h
    <2>3. F[p][p] = F[n][p]
      <3>1. p <= n
        BY <1>6
      <3>2. AreRounds(F[p], step, start, p) /\ AreRounds(F[n], step, start, n)
        BY <2>1
      <3> QED
        BY <3>1, <3>2, RoundsAgree
    <2>4. F[n][n] = step[F[n][p]]
      BY <2>1, <2>2 DEF AreRounds
    <2>5. h[n] = F[n][n] /\ h[p] = F[p][p]
      BY DEF h
    <2> QED
      BY <2>3, <2>4, <2>5
  <1> DEFINE Sol(f) == f = [n \in Nat |-> IF n = 0 THEN start ELSE step[f[n - 1]]]
  <1>7. Sol(h)
    <2>1. h = [n \in Nat |-> h[n]]
      OBVIOUS
    <2> HIDE DEF h
    <2>2. ASSUME NEW n \in Nat PROVE h[n] = IF n = 0 THEN start ELSE step[h[n - 1]]
      <3>1. CASE n = 0
        BY <1>5, <3>1
      <3>2. CASE n # 0
        <4>1. n - 1 \in Nat /\ n = (n - 1) + 1
          BY <3>2
        <4> QED
          BY <1>6, <3>2, <4>1
      <3> QED
        BY <3>1, <3>2
    <2> QED
      BY <2>1, <2>2
  <1>8. Sol(Rounds(step, start))
    <2>1. Rounds(step, start) = CHOOSE f : Sol(f)
      BY DEF Rounds
    <2> HIDE DEF Sol, h
    <2> QED
      BY <1>7, <2>1, Zenon
  <1>9. PICK r : r = Rounds(step, start)
    OBVIOUS
  <1>10. r = [n \in Nat |-> IF n = 0 THEN start ELSE step[r[n - 1]]]
    BY <1>8, <1>9
  <1>11. r[0] = start /\ \A n \in Nat : n + 1 # 0 /\ (n + 1) - 1 = n /\ r[n + 1] = step[r[n]]
    BY <1>10
  <1> QED
    BY <1>9, <1>11

(***************************************************************************)
(* A recursive query that goes from edges to edges, whose step only adds   *)
(* to what a larger set gives, finds more in every round.                  *)
(***************************************************************************)
LEMMA RoundsGrow ==
    ASSUME NEW E, NEW step \in [SUBSET E -> SUBSET E],
           \A A, B \in SUBSET E : A \subseteq B => step[A] \subseteq step[B]
    PROVE  LET R == Rounds(step, {}) IN
           /\ R[0] = {}
           /\ \A n \in Nat : R[n] \in SUBSET E /\ R[n + 1] = step[R[n]] /\ R[n] \subseteq R[n + 1]
  <1>1. PICK R : R = Rounds(step, {})
    OBVIOUS
  <1>2. R[0] = {} /\ \A n \in Nat : R[n + 1] = step[R[n]]
    BY <1>1, RoundsDef
  <1> DEFINE S == {n \in Nat : R[n] \in SUBSET E /\ R[n + 1] \in SUBSET E /\ R[n] \subseteq R[n + 1]}
  <1>3. 0 \in S
    BY <1>2
  <1>4. ASSUME NEW n \in Nat, n \in S PROVE n + 1 \in S
    <2>1. R[n] \in SUBSET E /\ R[n + 1] \in SUBSET E /\ R[n] \subseteq R[n + 1] /\ n + 1 \in Nat
      BY <1>4
    <2>2. R[n + 1] = step[R[n]] /\ R[(n + 1) + 1] = step[R[n + 1]]
      BY <1>2
    <2>3. step[R[n]] \subseteq step[R[n + 1]] /\ step[R[n + 1]] \in SUBSET E
      BY <2>1
    <2> QED
      BY <2>1, <2>2, <2>3
  <1>5. \A n \in Nat : n \in S
    <2> HIDE DEF S
    <2> QED
      BY <1>3, <1>4, NumbersByInduction
  <1> QED
    BY <1>1, <1>2, <1>5

(***************************************************************************)
(* The ways down from a transaction, edge by edge.                         *)
(***************************************************************************)
LEMMA DownFacts ==
    ASSUME NEW t
    PROVE  /\ Down(t, 0) = {}
           /\ \A n \in Nat : /\ Down(t, n) \subseteq rels /\ Down(t, n) \subseteq Down(t, n + 1)
                             /\ Down(t, n + 1) = {r \in rels : r.parent = t \/ \E e \in Down(t, n) : r.parent = e.child}
  <1> DEFINE step == [E \in SUBSET rels |-> {r \in rels : r.parent = t \/ \E e \in E : r.parent = e.child}]
  <1>1. step \in [SUBSET rels -> SUBSET rels] /\ \A A, B \in SUBSET rels : A \subseteq B => step[A] \subseteq step[B]
    OBVIOUS
  <1>2. PICK R : R = Rounds(step, {})
    OBVIOUS
  <1>3. \A n : Down(t, n) = R[n]
    BY <1>2 DEF Down
  <1>4. \A E \in SUBSET rels : step[E] = {r \in rels : r.parent = t \/ \E e \in E : r.parent = e.child}
    OBVIOUS
  <1> HIDE DEF step
  <1>5. /\ R[0] = {}
        /\ \A n \in Nat : R[n] \in SUBSET rels /\ R[n + 1] = step[R[n]] /\ R[n] \subseteq R[n + 1]
    BY <1>1, <1>2, RoundsGrow
  <1>6. Down(t, 0) = {}
    BY <1>3, <1>5
  <1>7. ASSUME NEW n \in Nat
        PROVE  /\ Down(t, n) \subseteq rels /\ Down(t, n) \subseteq Down(t, n + 1)
               /\ Down(t, n + 1) = {r \in rels : r.parent = t \/ \E e \in Down(t, n) : r.parent = e.child}
    <2>1. Down(t, n) = R[n] /\ Down(t, n + 1) = R[n + 1]
      BY <1>3
    <2>2. R[n] \subseteq rels /\ R[n] \subseteq R[n + 1] /\ R[n + 1] = step[R[n]]
      BY <1>5
    <2>3. step[R[n]] = {r \in rels : r.parent = t \/ \E e \in R[n] : r.parent = e.child}
      BY <2>2, <1>4
    <2> QED
      BY <2>1, <2>2, <2>3
  <1> QED
    BY <1>6, <1>7

(***************************************************************************)
(* The way up.                                                             *)
(***************************************************************************)
LEMMA UpFacts ==
    ASSUME NEW t
    PROVE  /\ Up(t, 0) = {}
           /\ \A n \in Nat : /\ Up(t, n) \subseteq rels /\ Up(t, n) \subseteq Up(t, n + 1)
                             /\ Up(t, n + 1) = {r \in rels : r.child = t \/ \E e \in Up(t, n) : r.child = e.parent}
  <1> DEFINE step == [E \in SUBSET rels |-> {r \in rels : r.child = t \/ \E e \in E : r.child = e.parent}]
  <1>1. step \in [SUBSET rels -> SUBSET rels] /\ \A A, B \in SUBSET rels : A \subseteq B => step[A] \subseteq step[B]
    OBVIOUS
  <1>2. PICK R : R = Rounds(step, {})
    OBVIOUS
  <1>3. \A n : Up(t, n) = R[n]
    BY <1>2 DEF Up
  <1>4. \A E \in SUBSET rels : step[E] = {r \in rels : r.child = t \/ \E e \in E : r.child = e.parent}
    OBVIOUS
  <1> HIDE DEF step
  <1>5. /\ R[0] = {}
        /\ \A n \in Nat : R[n] \in SUBSET rels /\ R[n + 1] = step[R[n]] /\ R[n] \subseteq R[n + 1]
    BY <1>1, <1>2, RoundsGrow
  <1>6. Up(t, 0) = {}
    BY <1>3, <1>5
  <1>7. ASSUME NEW n \in Nat
        PROVE  /\ Up(t, n) \subseteq rels /\ Up(t, n) \subseteq Up(t, n + 1)
               /\ Up(t, n + 1) = {r \in rels : r.child = t \/ \E e \in Up(t, n) : r.child = e.parent}
    <2>1. Up(t, n) = R[n] /\ Up(t, n + 1) = R[n + 1]
      BY <1>3
    <2>2. R[n] \subseteq rels /\ R[n] \subseteq R[n + 1] /\ R[n + 1] = step[R[n]]
      BY <1>5
    <2>3. step[R[n]] = {r \in rels : r.child = t \/ \E e \in R[n] : r.child = e.parent}
      BY <2>2, <1>4
    <2> QED
      BY <2>1, <2>2, <2>3
  <1> QED
    BY <1>6, <1>7

(***************************************************************************)
(* GetRelationships asked one level deeper goes one round further.         *)
(***************************************************************************)
LEMMA RelationshipFacts ==
    ASSUME NEW t
    PROVE  /\ GetRelationships(t, 1) = {r \in rels : r.parent = t \/ r.child = t}
           /\ \A d \in Nat \ {0} : /\ GetRelationships(t, d) \subseteq rels
                                   /\ GetRelationships(t, d + 1) = Chain(GetRelationships(t, d))
  <1> DEFINE step == [chain \in SUBSET rels |-> Chain(chain)]
             base == {r \in rels : r.parent = t \/ r.child = t}
  <1>1. PICK R : R = Rounds(step, base)
    OBVIOUS
  <1>2. \A d \in Nat \ {0} : GetRelationships(t, d) = R[d - 1]
    BY <1>1 DEF GetRelationships
  <1>3. \A E \in SUBSET rels : step[E] = Chain(E) /\ Chain(E) \in SUBSET rels
    BY DEF Chain
  <1>4. base \in SUBSET rels
    OBVIOUS
  <1> HIDE DEF step, base
  <1>5. R[0] = base /\ \A n \in Nat : R[n + 1] = step[R[n]]
    BY <1>1, RoundsDef
  <1> DEFINE S == {n \in Nat : R[n] \in SUBSET rels}
  <1>6. 0 \in S
    BY <1>4, <1>5
  <1>7. ASSUME NEW n \in Nat, n \in S PROVE n + 1 \in S
    BY <1>3, <1>5, <1>7
  <1>8. \A n \in Nat : n \in S
    <2> HIDE DEF S
    <2> QED
      BY <1>6, <1>7, NumbersByInduction
  <1>9. ASSUME NEW d \in Nat \ {0}
        PROVE  GetRelationships(t, d) \subseteq rels /\ GetRelationships(t, d + 1) = Chain(GetRelationships(t, d))
    <2>1. d - 1 \in Nat /\ (d - 1) + 1 = d /\ d + 1 \in Nat \ {0} /\ (d + 1) - 1 = d
      OBVIOUS
    <2>2. GetRelationships(t, d) = R[d - 1] /\ GetRelationships(t, d + 1) = R[d]
      BY <1>2, <2>1
    <2>3. R[d - 1] \in SUBSET rels /\ R[d] = step[R[d - 1]]
      BY <1>5, <1>8, <2>1
    <2> QED
      BY <1>3, <2>2, <2>3
  <1>10. GetRelationships(t, 1) = base
    BY <1>2, <1>5
  <1> QED
    BY <1>9, <1>10 DEF base

(***************************************************************************)
(* The same, for one edge.                                                 *)
(***************************************************************************)
LEMMA DownMember ==
    ASSUME NEW t, NEW n \in Nat, NEW r
    PROVE  r \in Down(t, n + 1) <=> r \in rels /\ (r.parent = t \/ \E e \in Down(t, n) : r.parent = e.child)
  <1>1. PICK D, E : D = Down(t, n) /\ E = Down(t, n + 1)
    OBVIOUS
  <1>2. E = {q \in rels : q.parent = t \/ \E e \in D : q.parent = e.child}
    BY <1>1, DownFacts
  <1>3. r \in E <=> r \in rels /\ (r.parent = t \/ \E e \in D : r.parent = e.child)
    BY <1>2
  <1> QED
    BY <1>1, <1>3

\* An edge on the way up from t: one to t, or one further up.
LEMMA UpMember ==
    ASSUME NEW t, NEW n \in Nat, NEW r
    PROVE  r \in Up(t, n + 1) <=> r \in rels /\ (r.child = t \/ \E e \in Up(t, n) : r.child = e.parent)
  <1>1. PICK D, E : D = Up(t, n) /\ E = Up(t, n + 1)
    OBVIOUS
  <1>2. E = {q \in rels : q.child = t \/ \E e \in D : q.child = e.parent}
    BY <1>1, UpFacts
  <1>3. r \in E <=> r \in rels /\ (r.child = t \/ \E e \in D : r.child = e.parent)
    BY <1>2
  <1> QED
    BY <1>1, <1>3

(***************************************************************************)
(* A longer way up passes where a shorter one does.                        *)
(***************************************************************************)
LEMMA UpMonotone ==
    ASSUME NEW t, NEW k \in Nat, NEW d \in Nat, k <= d
    PROVE  Up(t, k) \subseteq Up(t, d)
  <1> DEFINE S == {j \in Nat : Up(t, k) \subseteq Up(t, k + j)}
  <1>1. 0 \in S
    OBVIOUS
  <1>2. ASSUME NEW j \in Nat, j \in S PROVE j + 1 \in S
    <2>1. k + j \in Nat /\ k + (j + 1) = (k + j) + 1
      OBVIOUS
    <2>2. Up(t, k + j) \subseteq Up(t, (k + j) + 1)
      BY <2>1, UpFacts
    <2> QED
      BY <1>2, <2>1, <2>2
  <1>3. d - k \in S
    <2> HIDE DEF S
    <2>1. d - k \in Nat
      OBVIOUS
    <2> QED
      BY <1>1, <1>2, <2>1, NumbersByInduction
  <1>4. k + (d - k) = d
    OBVIOUS
  <1> QED
    BY <1>3, <1>4

(***************************************************************************)
(* One round more takes what is in the line to what is in the longer line: *)
(* an edge below another is one deeper; an edge above one that goes down   *)
(* has been on the way, since a child has one parent.                      *)
(***************************************************************************)
LEMMA ChainStaysInLine ==
    ASSUME OneParent, NEW t, NEW d \in Nat, NEW c \in Lineage(t, d), NEW r \in rels,
           r.parent = c.child \/ r.child = c.parent
    PROVE  r \in Lineage(t, d + 1)
  <1>1. ASSUME NEW s, NEW n \in Nat, c \in Down(s, n), r.child = c.parent
        PROVE  r.child = s \/ r \in Down(s, n)
    <2>1. n # 0
      BY <1>1, DownFacts
    <2>2. PICK m \in Nat : n = m + 1
      <3>1. n - 1 \in Nat /\ n = (n - 1) + 1
        BY <2>1
      <3> QED
        BY <3>1
    <2>3. c.parent = s \/ \E e \in Down(s, m) : c.parent = e.child
      BY <1>1, <2>2, DownMember
    <2>4. ASSUME NEW e \in Down(s, m), c.parent = e.child PROVE r \in Down(s, n)
      <3>1. e \in rels /\ e \in Down(s, n)
        BY <2>2, DownFacts
      <3>2. r = e
        BY <1>1, <2>4, <3>1 DEF OneParent
      <3> QED
        BY <3>1, <3>2
    <2> QED
      BY <1>1, <2>3, <2>4
  <1>2. ASSUME NEW s, NEW n \in Nat, c \in Down(s, n), r.parent = c.child
        PROVE  r \in Down(s, n + 1)
    BY <1>2, DownMember
  <1>3. CASE c \in Down(t, d)
    <2>1. CASE r.parent = c.child
      BY <1>2, <1>3, <2>1 DEF Lineage
    <2>2. CASE r.child = c.parent
      <3>1. r.child = t \/ r \in Down(t, d)
        BY <1>1, <1>3, <2>2
      <3>2. r.child = t => r \in Up(t, d + 1)
        BY UpFacts
      <3>3. Down(t, d) \subseteq Down(t, d + 1)
        BY DownFacts
      <3> QED
        BY <3>1, <3>2, <3>3 DEF Lineage
    <2> QED
      BY <2>1, <2>2
  <1>4. CASE c \in Up(t, d)
    <2>1. CASE r.child = c.parent
      <3>1. r \in Up(t, d + 1)
        BY <1>4, <2>1, UpMember
      <3> QED
        BY <3>1 DEF Lineage
    <2>2. CASE r.parent = c.child
      <3>1. d # 0
        BY <1>4, UpFacts
      <3>2. d \in 1..(d + 1) /\ (d + 1) - d = 1
        BY <3>1
      <3>3. r \in Down(c.child, 0 + 1)
        BY <2>2, DownFacts
      <3>4. r \in Down(c.child, (d + 1) - d)
        BY <3>2, <3>3
      <3> QED
        BY <1>4, <3>2, <3>4 DEF Lineage
    <2> QED
      BY <2>1, <2>2
  <1>5. ASSUME NEW k \in 1..d, NEW q \in Up(t, k), c \in Down(q.child, d - k)
        PROVE  r \in Lineage(t, d + 1)
    <2>1. k \in Nat /\ d - k \in Nat /\ (d - k) + 1 = (d + 1) - k /\ k \in 1..(d + 1)
      OBVIOUS
    <2>2. r \in Down(q.child, (d - k) + 1) \/ r \in Up(t, k)
      <3>1. CASE r.parent = c.child
        BY <1>2, <1>5, <2>1, <3>1
      <3>2. CASE r.child = c.parent
        <4>1. r.child = q.child \/ r \in Down(q.child, d - k)
          BY <1>1, <1>5, <2>1, <3>2
        <4>2. q \in rels
          BY <2>1, UpFacts
        <4>3. r.child = q.child => r = q
          BY <4>2 DEF OneParent
        <4>4. Down(q.child, d - k) \subseteq Down(q.child, (d - k) + 1)
          BY <2>1, DownFacts
        <4> QED
          BY <4>1, <4>3, <4>4
      <3> QED
        BY <3>1, <3>2
    <2>3. Up(t, k) \subseteq Up(t, d + 1)
      BY <2>1, UpMonotone
    <2>4. CASE r \in Up(t, k)
      BY <2>3, <2>4 DEF Lineage
    <2>5. CASE r \in Down(q.child, (d + 1) - k)
      BY <2>1, <2>5 DEF Lineage
    <2> QED
      BY <2>1, <2>2, <2>4, <2>5
  <1>6. \/ c \in Down(t, d) \/ c \in Up(t, d)
        \/ \E k \in 1..d : \E q \in Up(t, k) : c \in Down(q.child, d - k)
    BY DEF Lineage
  <1> QED
    BY <1>3, <1>4, <1>5, <1>6

(***************************************************************************)
(* What is in the longer line is one round from what is in the shorter.    *)
(***************************************************************************)
LEMMA LineIsChained ==
    ASSUME NEW t, NEW d \in Nat \ {0}, NEW r \in Lineage(t, d + 1)
    PROVE  r \in rels /\ (\/ r.parent = t \/ r.child = t
                          \/ \E c \in Lineage(t, d) : r.parent = c.child \/ r.child = c.parent)
  <1>1. CASE r \in Down(t, d + 1)
    <2>1. r \in rels /\ (r.parent = t \/ \E e \in Down(t, d) : r.parent = e.child)
      BY <1>1, DownMember
    <2> QED
      BY <2>1 DEF Lineage
  <1>2. CASE r \in Up(t, d + 1)
    <2>1. r \in rels /\ (r.child = t \/ \E e \in Up(t, d) : r.child = e.parent)
      BY <1>2, UpMember
    <2> QED
      BY <2>1 DEF Lineage
  <1>3. ASSUME NEW k \in 1..(d + 1), NEW q \in Up(t, k), r \in Down(q.child, (d + 1) - k)
        PROVE  r \in rels /\ \E c \in Lineage(t, d) : r.parent = c.child \/ r.child = c.parent
    <2>1. (d + 1) - k # 0
      BY <1>3, DownFacts
    <2>2. k \in 1..d /\ k \in Nat /\ d - k \in Nat /\ (d + 1) - k = (d - k) + 1
      BY <2>1
    <2>3. r \in rels /\ (r.parent = q.child \/ \E e \in Down(q.child, d - k) : r.parent = e.child)
      BY <1>3, <2>2, DownFacts
    <2>4. q \in Up(t, d)
      BY <2>2, UpMonotone
    <2>5. q \in Lineage(t, d) /\ Down(q.child, d - k) \subseteq Lineage(t, d)
      BY <2>2, <2>4 DEF Lineage
    <2> QED
      BY <2>3, <2>5
  <1>4. \/ r \in Down(t, d + 1) \/ r \in Up(t, d + 1)
        \/ \E k \in 1..(d + 1) : \E q \in Up(t, k) : r \in Down(q.child, (d + 1) - k)
    BY DEF Lineage
  <1> QED
    BY <1>1, <1>2, <1>3, <1>4

(***************************************************************************)
(* To every depth, GetRelationships gives the line of a transaction, and   *)
(* the turns it takes: the rounds of the recursive query reach exactly the *)
(* edges that the line has to that depth.                                  *)
(***************************************************************************)
THEOREM LineageToEveryDepth ==
    ASSUME OneParent, NEW t, NEW depth \in Nat \ {0}
    PROVE  GetRelationships(t, depth) = Lineage(t, depth)
  <1> DEFINE S == {n \in Nat : GetRelationships(t, n + 1) = Lineage(t, n + 1)}
  <1>1. 0 \in S
    <2>1. \A r : r \in Down(t, 0 + 1) <=> r \in rels /\ r.parent = t
      BY DownFacts, DownMember
    <2>2. \A r : r \in Up(t, 0 + 1) <=> r \in rels /\ r.child = t
      BY UpFacts, UpMember
    <2>3. \A k \in 1..(0 + 1) : \A q \in Up(t, k) : Down(q.child, (0 + 1) - k) = {}
      <3>1. \A k \in 1..(0 + 1) : (0 + 1) - k = 0
        OBVIOUS
      <3> QED
        BY <3>1, DownFacts
    <2>4. Lineage(t, 0 + 1) = {r \in rels : r.parent = t \/ r.child = t}
      BY <2>1, <2>2, <2>3 DEF Lineage
    <2>5. GetRelationships(t, 0 + 1) = {r \in rels : r.parent = t \/ r.child = t}
      BY RelationshipFacts
    <2> QED
      BY <2>4, <2>5
  <1>2. ASSUME NEW n \in Nat, n \in S PROVE n + 1 \in S
    <2>1. PICK d \in Nat \ {0} : d = n + 1
      OBVIOUS
    <2>2. GetRelationships(t, d) = Lineage(t, d)
      BY <1>2, <2>1
    <2>3. GetRelationships(t, d + 1) = Chain(Lineage(t, d)) /\ Lineage(t, d) \subseteq rels
      BY <2>2, RelationshipFacts
    <2>4. ASSUME NEW r \in Chain(Lineage(t, d)) PROVE r \in Lineage(t, d + 1)
      <3>1. CASE r \in Lineage(t, d)
        <4>1. CASE r \in Down(t, d)
          BY <4>1, DownFacts DEF Lineage
        <4>2. CASE r \in Up(t, d)
          BY <4>2, UpFacts DEF Lineage
        <4>3. ASSUME NEW k \in 1..d, NEW q \in Up(t, k), r \in Down(q.child, d - k)
              PROVE  r \in Lineage(t, d + 1)
          <5>1. k \in 1..(d + 1) /\ d - k \in Nat /\ (d - k) + 1 = (d + 1) - k
            OBVIOUS
          <5>2. r \in Down(q.child, (d + 1) - k)
            BY <4>3, <5>1, DownFacts
          <5> QED
            BY <5>1, <5>2 DEF Lineage
        <4> QED
          BY <3>1, <4>1, <4>2, <4>3 DEF Lineage
      <3>2. CASE r \notin Lineage(t, d)
        <4>1. r \in rels /\ \E c \in Lineage(t, d) : r.parent = c.child \/ r.child = c.parent
          BY <3>2 DEF Chain
        <4> QED
          BY <4>1, ChainStaysInLine
      <3> QED
        BY <3>1, <3>2
    <2>5. ASSUME NEW r \in Lineage(t, d + 1) PROVE r \in Chain(Lineage(t, d))
      <3>1. r \in rels /\ (\/ r.parent = t \/ r.child = t
                           \/ \E c \in Lineage(t, d) : r.parent = c.child \/ r.child = c.parent)
        BY LineIsChained, ZenonT(60)
      <3>2. CASE r.parent = t
        <4>1. r \in Down(t, d)
          <5>1. PICK m \in Nat : d = m + 1
            BY <2>1
          <5> QED
            BY <3>1, <3>2, <5>1, DownMember
        <4> QED
          BY <4>1 DEF Lineage, Chain
      <3>3. CASE r.child = t
        <4>1. r \in Up(t, d)
          <5>1. PICK m \in Nat : d = m + 1
            BY <2>1
          <5> QED
            BY <3>1, <3>3, <5>1, UpMember
        <4> QED
          BY <4>1 DEF Lineage, Chain
      <3> QED
        BY <3>1, <3>2, <3>3 DEF Chain
    <2>6. GetRelationships(t, d + 1) = Lineage(t, d + 1)
      BY <2>3, <2>4, <2>5
    <2> QED
      BY <2>1, <2>6
  <1>3. depth - 1 \in S
    <2> HIDE DEF S
    <2> QED
      BY <1>1, <1>2, NumbersByInduction
  <1> QED
    BY <1>3

-----------------------------------------------------------------------------
(***************************************************************************)
(* jsonb: writing nothing over an object, an object over nothing, and part *)
(* of an object over itself.                                               *)
(***************************************************************************)
LEMMA OverFacts ==
    ASSUME NEW K, NEW f \in [K -> Values], NEW key
    PROVE  Over(NoFields, f) = f /\ Over(f, NoFields) = f /\ Over(Without(f, key), f) = f
  <1>1. Over(NoFields, f) = f
    BY DEF Over, NoFields
  <1>2. Over(f, NoFields) = f
    BY DEF Over, NoFields
  <1>3. DOMAIN Without(f, key) = K \ {key} /\ \A l \in K \ {key} : Without(f, key)[l] = f[l]
    BY DEF Without
  <1>4. Over(Without(f, key), f) = f
    BY <1>3 DEF Over
  <1> QED
    BY <1>1, <1>2, <1>4

(***************************************************************************)
(* Objects, and what || and - make of them.                                *)
(***************************************************************************)
LEMMA ObjectFacts ==
    ASSUME NEW j \in Objects
    PROVE  /\ j = Object(j.fields) /\ j.kind = "object" /\ Fields(j) = j.fields /\ j # Null
           /\ \E K \in SUBSET Keys : j.fields \in [K -> Values]
  <1>1. PICK K \in SUBSET Keys : \E f \in [K -> Values] : j = Object(f)
    BY DEF Objects
  <1>2. PICK f \in [K -> Values] : j = Object(f)
    BY <1>1
  <1>3. j.fields = f /\ j.kind = "object" /\ Null.kind = "null"
    BY <1>2 DEF Object, Null
  <1>4. j # Null
    BY <1>3
  <1> QED
    BY <1>2, <1>3, <1>4 DEF Fields

\* Fields that are keys and values make an object.
LEMMA IsObject ==
    ASSUME NEW K \in SUBSET Keys, NEW f \in [K -> Values]
    PROVE  Object(f) \in Objects
  BY DEF Objects

\* The empty object is one; null is not, and reads as no fields.
LEMMA EmptyIsObject == Empty \in Objects /\ Null.kind = "null" /\ Fields(Null) = NoFields
  <1>1. NoFields \in [{} -> Values] /\ {} \in SUBSET Keys
    BY DEF NoFields
  <1>2. Empty \in Objects
    BY <1>1, IsObject DEF Empty
  <1> QED
    BY <1>2 DEF Null, Fields

\* Of objects, || and - make objects; || with nothing, or with a part, changes nothing.
LEMMA ConcatFacts ==
    ASSUME NEW j \in Objects, NEW k \in Objects, NEW key
    PROVE  /\ Concat(j, k) = Object(Over(k.fields, j.fields)) /\ Concat(j, k) \in Objects
           /\ Concat(j, Empty) = j /\ Concat(Empty, j) = j
           /\ Object(Without(Fields(j), key)) \in Objects
           /\ Concat(j, Object(Without(Fields(j), key))) = j
           /\ Minus(j, key) = Object(Without(j.fields, key)) /\ Minus(j, key) \in Objects
  <1>1. PICK K \in SUBSET Keys : j.fields \in [K -> Values]
    BY ObjectFacts
  <1>2. PICK L \in SUBSET Keys : k.fields \in [L -> Values]
    BY ObjectFacts
  <1>3. /\ j = Object(j.fields) /\ j.kind = "object" /\ Fields(j) = j.fields
        /\ k = Object(k.fields) /\ k.kind = "object"
    BY ObjectFacts
  <1>4. PICK f, g : f = j.fields /\ g = k.fields
    OBVIOUS
  <1>5. f \in [K -> Values] /\ g \in [L -> Values]
    BY <1>1, <1>2, <1>4
  <1>6. Over(g, f) \in [K \cup L -> Values] /\ K \cup L \in SUBSET Keys
    BY <1>5 DEF Over
  <1>7. Without(f, key) \in [K \ {key} -> Values] /\ K \ {key} \in SUBSET Keys
    BY <1>5 DEF Without
  <1>8. Object(Over(g, f)) \in Objects /\ Object(Without(f, key)) \in Objects
    BY <1>6, <1>7, IsObject
  <1>9. \A h : Object(h).kind = "object" /\ Object(h).fields = h
    BY DEF Object
  <1>10. \A h : Concat(j, Object(h)) = Object(Over(h, f)) /\ Concat(Object(h), j) = Object(Over(f, h))
    BY <1>3, <1>4, <1>9 DEF Concat
  <1>11. Concat(j, k) = Object(Over(g, f))
    BY <1>3, <1>4, <1>10
  <1>12. Over(NoFields, f) = f /\ Over(f, NoFields) = f /\ Over(Without(f, key), f) = f
    BY <1>5, OverFacts
  <1>13. Concat(j, Empty) = j /\ Concat(Empty, j) = j /\ Concat(j, Object(Without(f, key))) = j
    BY <1>3, <1>4, <1>10, <1>12 DEF Empty
  <1>14. Minus(j, key) = Object(Without(f, key))
    BY <1>3, <1>4 DEF Minus
  <1> QED
    BY <1>3, <1>4, <1>8, <1>11, <1>13, <1>14

\* What is no object becomes an array.
LEMMA ArrayFacts ==
    ASSUME NEW j, NEW k, j.kind # "object"
    PROVE  Concat(j, k).kind = "array"
  BY DEF Concat, Array

(***************************************************************************)
(* One event more: what a transaction should have follows it.              *)
(***************************************************************************)
LEMMA LoggedGrows ==
    ASSUME NEW l, l \in Seq(Elements(l)), NEW e, NEW t
    PROVE  AsLogged(Append(l, e), t)[Len(l) + 1] = AfterEvent(AsLogged(l, t)[Len(l)], e, t)
  <1>1. PICK m : m = Append(l, e)
    OBVIOUS
  <1>2. /\ Len(l) \in Nat /\ Len(m) = Len(l) + 1 /\ m[Len(l) + 1] = e
        /\ \A n \in 1..Len(l) : m[n] = l[n]
    BY <1>1, AppendFacts
  <1>3. PICK f, g : f = AsLogged(l, t) /\ g = AsLogged(m, t)
    OBVIOUS
  <1>4. f[0] = NoFields /\ \A n \in 1..Len(l) : f[n] = AfterEvent(f[n - 1], l[n], t)
    BY <1>2, <1>3, AsLoggedDef
  <1>5. g[0] = NoFields /\ \A n \in 1..(Len(l) + 1) : g[n] = AfterEvent(g[n - 1], m[n], t)
    BY <1>2, <1>3, AsLoggedDef
  <1> DEFINE S == {n \in Nat : n <= Len(l) => g[n] = f[n]}
  <1>6. 0 \in S
    BY <1>4, <1>5
  <1>7. ASSUME NEW n \in Nat, n \in S PROVE n + 1 \in S
    <2> SUFFICES ASSUME n + 1 <= Len(l) PROVE g[n + 1] = f[n + 1]
      OBVIOUS
    <2>1. n + 1 \in 1..Len(l) /\ n + 1 \in 1..(Len(l) + 1) /\ (n + 1) - 1 = n /\ n <= Len(l)
      BY <1>2
    <2>2. g[n] = f[n]
      BY <1>7, <2>1
    <2> QED
      BY <1>2, <1>4, <1>5, <2>1, <2>2
  <1>8. Len(l) \in S
    <2> HIDE DEF S
    <2> QED
      BY <1>2, <1>6, <1>7, NumbersByInduction
  <1>9. g[Len(l)] = f[Len(l)]
    BY <1>2, <1>8
  <1>10. Len(l) + 1 \in 1..(Len(l) + 1) /\ (Len(l) + 1) - 1 = Len(l)
    BY <1>2
  <1> QED
    BY <1>1, <1>2, <1>3, <1>5, <1>9, <1>10

(***************************************************************************)
(* The history, when the log alone grows,                                  *)
(***************************************************************************)
LEMMA RebuiltStays ==
    ASSUME NEW h, h \in Seq(Elements(h)), NEW l, l \in Seq(Elements(l)), NEW e, NEW target, NEW start,
           \A i \in DOMAIN h : h[i].revision \in 0..Len(l)
    PROVE  Rebuilt(h, Append(l, e), target, start)[Len(h)] = Rebuilt(h, l, target, start)[Len(h)]
  <1>1. PICK m : m = Append(l, e)
    OBVIOUS
  <1>2. Len(h) \in Nat /\ DOMAIN h = 1..Len(h) /\ Len(l) \in Nat /\ \A n \in 1..Len(l) : m[n] = l[n]
    BY <1>1, AppendFacts
  <1>3. PICK f, g : f = Rebuilt(h, l, target, start) /\ g = Rebuilt(h, m, target, start)
    OBVIOUS
  <1>4. f[0] = start /\ \A n \in 1..Len(h) : f[n] = AfterRow(f[n - 1], h[n], target, l)
    BY <1>2, <1>3, RebuiltDef
  <1>5. g[0] = start /\ \A n \in 1..Len(h) : g[n] = AfterRow(g[n - 1], h[n], target, m)
    BY <1>2, <1>3, RebuiltDef
  <1>6. ASSUME NEW n \in 1..Len(h), NEW j PROVE AfterRow(j, h[n], target, m) = AfterRow(j, h[n], target, l)
    <2>1. h[n].revision = 0 \/ m[h[n].revision] = l[h[n].revision]
      <3>1. h[n].revision \in 0..Len(l)
        BY <1>2
      <3> QED
        BY <1>2, <3>1
    <2> QED
      BY <2>1 DEF AfterRow
  <1> DEFINE S == {n \in Nat : n <= Len(h) => g[n] = f[n]}
  <1>7. 0 \in S
    BY <1>4, <1>5
  <1>8. ASSUME NEW n \in Nat, n \in S PROVE n + 1 \in S
    <2> SUFFICES ASSUME n + 1 <= Len(h) PROVE g[n + 1] = f[n + 1]
      OBVIOUS
    <2>1. n + 1 \in 1..Len(h) /\ (n + 1) - 1 = n /\ n <= Len(h)
      BY <1>2
    <2>2. g[n] = f[n]
      BY <1>8, <2>1
    <2> QED
      BY <1>4, <1>5, <1>6, <2>1, <2>2
  <1>9. Len(h) \in S
    <2> HIDE DEF S
    <2> QED
      BY <1>2, <1>7, <1>8, NumbersByInduction
  <1> QED
    BY <1>1, <1>2, <1>3, <1>9

(***************************************************************************)
(* when it has a row more,                                                 *)
(***************************************************************************)
LEMMA RebuiltGrows ==
    ASSUME NEW h, h \in Seq(Elements(h)), NEW l, NEW row, NEW target, NEW start
    PROVE  Rebuilt(Append(h, row), l, target, start)[Len(h) + 1]
             = AfterRow(Rebuilt(h, l, target, start)[Len(h)], row, target, l)
  <1>1. PICK m : m = Append(h, row)
    OBVIOUS
  <1>2. /\ Len(h) \in Nat /\ Len(m) = Len(h) + 1 /\ m[Len(h) + 1] = row
        /\ \A n \in 1..Len(h) : m[n] = h[n]
    BY <1>1, AppendFacts
  <1>3. PICK f, g : f = Rebuilt(h, l, target, start) /\ g = Rebuilt(m, l, target, start)
    OBVIOUS
  <1>4. f[0] = start /\ \A n \in 1..Len(h) : f[n] = AfterRow(f[n - 1], h[n], target, l)
    BY <1>2, <1>3, RebuiltDef
  <1>5. g[0] = start /\ \A n \in 1..(Len(h) + 1) : g[n] = AfterRow(g[n - 1], m[n], target, l)
    BY <1>2, <1>3, RebuiltDef
  <1> DEFINE S == {n \in Nat : n <= Len(h) => g[n] = f[n]}
  <1>6. 0 \in S
    BY <1>4, <1>5
  <1>7. ASSUME NEW n \in Nat, n \in S PROVE n + 1 \in S
    <2> SUFFICES ASSUME n + 1 <= Len(h) PROVE g[n + 1] = f[n + 1]
      OBVIOUS
    <2>1. n + 1 \in 1..Len(h) /\ n + 1 \in 1..(Len(h) + 1) /\ (n + 1) - 1 = n /\ n <= Len(h)
      BY <1>2
    <2>2. g[n] = f[n]
      BY <1>7, <2>1
    <2> QED
      BY <1>2, <1>4, <1>5, <2>1, <2>2
  <1>8. Len(h) \in S
    <2> HIDE DEF S
    <2> QED
      BY <1>2, <1>6, <1>7, NumbersByInduction
  <1>9. g[Len(h)] = f[Len(h)]
    BY <1>2, <1>8
  <1>10. Len(h) + 1 \in 1..(Len(h) + 1) /\ (Len(h) + 1) - 1 = Len(h)
    BY <1>2
  <1> QED
    BY <1>1, <1>2, <1>3, <1>5, <1>9, <1>10

(***************************************************************************)
(* and when it has no row that changes the target.                         *)
(***************************************************************************)
LEMMA NothingRebuilt ==
    ASSUME NEW h, h \in Seq(Elements(h)), NEW l, NEW target, NEW start,
           \A i \in DOMAIN h : h[i].target # target \/ h[i].revision = 0
    PROVE  Rebuilt(h, l, target, start)[Len(h)] = start
  <1>1. Len(h) \in Nat /\ DOMAIN h = 1..Len(h)
    BY AppendFacts
  <1>2. PICK f : f = Rebuilt(h, l, target, start)
    OBVIOUS
  <1>3. f[0] = start /\ \A n \in 1..Len(h) : f[n] = AfterRow(f[n - 1], h[n], target, l)
    BY <1>1, <1>2, RebuiltDef
  <1>4. \A n \in 1..Len(h) : f[n] = f[n - 1]
    BY <1>1, <1>3 DEF AfterRow
  <1> DEFINE S == {n \in Nat : n <= Len(h) => f[n] = start}
  <1>5. 0 \in S
    BY <1>3
  <1>6. ASSUME NEW n \in Nat, n \in S PROVE n + 1 \in S
    <2> SUFFICES ASSUME n + 1 <= Len(h) PROVE f[n + 1] = start
      OBVIOUS
    <2>1. n + 1 \in 1..Len(h) /\ (n + 1) - 1 = n /\ n <= Len(h)
      BY <1>1
    <2> QED
      BY <1>4, <1>6, <2>1
  <1>7. Len(h) \in S
    <2> HIDE DEF S
    <2> QED
      BY <1>1, <1>5, <1>6, NumbersByInduction
  <1> QED
    BY <1>1, <1>2, <1>7

-----------------------------------------------------------------------------
(***************************************************************************)
(* What one more event does to the log, and to what it says of each        *)
(* transaction.                                                            *)
(***************************************************************************)
LEMMA LogGrows ==
    ASSUME BooksInv, NEW e, log' = Append(log, e)
    PROVE  /\ log' \in Seq(Elements(log')) /\ Len(log) \in Nat /\ Len(log') = Len(log) + 1
           /\ DOMAIN log = 1..Len(log) /\ DOMAIN log' = 1..(Len(log) + 1)
           /\ log'[Len(log) + 1] = e /\ \A i \in 1..Len(log) : log'[i] = log[i]
           /\ \A t : AsLogged(log', t)[Len(log')] = AfterEvent(AsLogged(log, t)[Len(log)], e, t)
  <1>1. log \in Seq(Elements(log))
    BY DEF BooksInv
  <1>2. /\ log' \in Seq(Elements(log')) /\ Len(log) \in Nat /\ Len(log') = Len(log) + 1
        /\ DOMAIN log = 1..Len(log) /\ DOMAIN log' = 1..(Len(log) + 1)
        /\ log'[Len(log) + 1] = e /\ \A i \in 1..Len(log) : log'[i] = log[i]
    BY <1>1, AppendFacts
  <1>3. \A t : AsLogged(log', t)[Len(log) + 1] = AfterEvent(AsLogged(log, t)[Len(log)], e, t)
    BY <1>1, LoggedGrows
  <1> QED
    BY <1>2, <1>3

(***************************************************************************)
(* What an operation without a row of history leaves as it was.            *)
(***************************************************************************)
LEMMA HistoryStays ==
    ASSUME BooksInv, NEW e, log' = Append(log, e), history' = history
    PROVE  \A target, start : Rebuilt(history', log', target, start)[Len(history')]
                                = Rebuilt(history, log, target, start)[Len(history)]
  <1>1. history \in Seq(Elements(history)) /\ log \in Seq(Elements(log))
        /\ \A i \in DOMAIN history : history[i].revision \in 0..Len(log)
    BY DEF BooksInv
  <1>2. ASSUME NEW target, NEW start
        PROVE  Rebuilt(history, log', target, start)[Len(history)]
                 = Rebuilt(history, log, target, start)[Len(history)]
    BY <1>1, RebuiltStays
  <1> QED
    BY <1>2

(***************************************************************************)
(* What a row of history changes: its own target, by the row.              *)
(***************************************************************************)
LEMMA HistoryGrows ==
    ASSUME BooksInv, NEW e, log' = Append(log, e), NEW row, history' = Append(history, row)
    PROVE  /\ \A target, start :
                 row.target # target \/ row.revision = 0 =>
                   Rebuilt(history', log', target, start)[Len(history')]
                     = Rebuilt(history, log, target, start)[Len(history)]
           /\ \A start :
                 row.revision = Len(log) + 1 =>
                   Rebuilt(history', log', row.target, start)[Len(history')]
                     = IF e.type = "MetadataDeleted" THEN row.meta
                       ELSE Concat(Rebuilt(history, log, row.target, start)[Len(history)], row.meta)
  <1>1. history \in Seq(Elements(history)) /\ log \in Seq(Elements(log))
        /\ \A i \in DOMAIN history : history[i].revision \in 0..Len(log)
    BY DEF BooksInv
  <1>2. Len(history') = Len(history) + 1
    <2>1. PICK h : h = history
      OBVIOUS
    <2>2. h \in Seq(Elements(h))
      BY <1>1, <2>1
    <2>3. Len(Append(h, row)) = Len(h) + 1
      BY <2>2, AppendFacts
    <2> QED
      BY <2>1, <2>3
  <1>3. Len(log) \in Nat /\ log'[Len(log) + 1] = e
    BY LogGrows
  <1>4. ASSUME NEW target, NEW start
        PROVE  Rebuilt(history', log', target, start)[Len(history')]
                 = AfterRow(Rebuilt(history, log, target, start)[Len(history)], row, target, log')
    <2>1. Rebuilt(history', log', target, start)[Len(history) + 1]
            = AfterRow(Rebuilt(history, log', target, start)[Len(history)], row, target, log')
      BY <1>1, RebuiltGrows
    <2>2. Rebuilt(history, log', target, start)[Len(history)]
            = Rebuilt(history, log, target, start)[Len(history)]
      BY <1>1, RebuiltStays
    <2> QED
      BY <1>2, <2>1, <2>2
  <1>5. ASSUME NEW target, NEW j, row.target # target \/ row.revision = 0
        PROVE  AfterRow(j, row, target, log') = j
    BY <1>5 DEF AfterRow
  <1>6. ASSUME NEW j, row.revision = Len(log) + 1
        PROVE  AfterRow(j, row, row.target, log')
                 = IF e.type = "MetadataDeleted" THEN row.meta ELSE Concat(j, row.meta)
    BY <1>3, <1>6 DEF AfterRow
  <1> QED
    BY <1>4, <1>5, <1>6

(***************************************************************************)
(* Every operation keeps the books: it appends an event about a            *)
(* transaction that there is (or 0), and a row if the event is about       *)
(* metadata, under the event's number, or under 0 for a new transaction.   *)
(***************************************************************************)
LEMMA BooksKept ==
    ASSUME BooksInv, NEW e, log' = Append(log, e), DOMAIN txs \subseteq DOMAIN txs',
           e.target.type = 1 => e.target.id \in DOMAIN txs' \cup {0},
           \/ history' = history /\ e.type \notin MetadataEvents
           \/ \E meta : history' = Append(history, HistoryRow(e.target, Len(log) + 1, meta))
           \/ /\ \E meta : history' = Append(history, HistoryRow(e.target, 0, meta))
              /\ e.type \notin MetadataEvents
              /\ \A i \in DOMAIN history : history[i].target # e.target
    PROVE  BooksInv'
  <1> DEFINE N == Len(log)
  <1>1. /\ log' \in Seq(Elements(log')) /\ N \in Nat /\ Len(log') = N + 1
        /\ DOMAIN log = 1..N /\ DOMAIN log' = 1..(N + 1)
        /\ log'[N + 1] = e /\ \A i \in 1..N : log'[i] = log[i]
    BY LogGrows
  <1>2. TxIds \subseteq TxIds' /\ (e.target.type = 1 => e.target.id \in TxIds')
    BY DEF TxIds
  <1>3. \A i \in DOMAIN log' : log'[i].target.type = 1 => log'[i].target.id \in TxIds'
    BY <1>1, <1>2 DEF BooksInv
  <1>4. /\ history \in Seq(Elements(history))
        /\ \A i \in DOMAIN history : /\ history[i].target.type = 1 => history[i].target.id \in TxIds
                                     /\ history[i].revision \in 0..N
        /\ EventsHaveRows /\ RevisionsGrow
    BY DEF BooksInv
  <1> HIDE DEF N
  <1>5. CASE history' = history /\ e.type \notin MetadataEvents
    <2>1. EventsHaveRows'
      BY <1>1, <1>4, <1>5 DEF EventsHaveRows
    <2>2. RevisionsGrow'
      BY <1>4, <1>5 DEF RevisionsGrow
    <2>3. \A i \in DOMAIN history' : /\ history'[i].target.type = 1 => history'[i].target.id \in TxIds'
                                     /\ history'[i].revision \in 0..Len(log')
      BY <1>1, <1>2, <1>4, <1>5
    <2> QED
      BY <1>1, <1>3, <1>4, <1>5, <2>1, <2>2, <2>3 DEF BooksInv
  <1>6. ASSUME NEW meta, NEW rev, history' = Append(history, HistoryRow(e.target, rev, meta)),
               rev \in 0..(N + 1), rev = N + 1 \/ e.type \notin MetadataEvents,
               \A i \in DOMAIN history : history[i].target = e.target => history[i].revision < rev
        PROVE  BooksInv'
    <2>1. PICK row : row = HistoryRow(e.target, rev, meta)
      OBVIOUS
    <2>2. row.target = e.target /\ row.revision = rev
      BY <2>1 DEF HistoryRow
    <2> DEFINE M == Len(history)
    <2>3. /\ history' \in Seq(Elements(history')) /\ M \in Nat
          /\ DOMAIN history = 1..M /\ DOMAIN history' = 1..(M + 1)
          /\ history'[M + 1] = row /\ \A i \in 1..M : history'[i] = history[i]
      BY <1>4, <1>6, <2>1, AppendFacts
    <2> HIDE DEF M
    <2>4. EventsHaveRows'
      <3> SUFFICES ASSUME NEW i \in DOMAIN log', log'[i].type \in MetadataEvents
                   PROVE  \E h \in DOMAIN history' : history'[h].target = log'[i].target /\ history'[h].revision = i
        BY DEF EventsHaveRows
      <3>1. CASE i = N + 1
        <4>1. rev = N + 1
          BY <1>1, <1>6, <3>1
        <4>2. M + 1 \in DOMAIN history' /\ history'[M + 1].target = log'[i].target /\ history'[M + 1].revision = i
          BY <1>1, <2>2, <2>3, <3>1, <4>1
        <4> QED
          BY <4>2
      <3>2. CASE i # N + 1
        <4>1. i \in DOMAIN log /\ log'[i] = log[i]
          BY <1>1, <3>2
        <4>2. PICK h \in DOMAIN history : history[h].target = log[i].target /\ history[h].revision = i
          BY <1>4, <4>1 DEF EventsHaveRows
        <4>3. h \in DOMAIN history' /\ history'[h] = history[h]
          BY <2>3
        <4> QED
          BY <4>1, <4>2, <4>3
      <3> QED
        BY <3>1, <3>2
    <2>5. RevisionsGrow'
      <3> SUFFICES ASSUME NEW g \in DOMAIN history', NEW h \in DOMAIN history', g < h,
                          history'[g].target = history'[h].target
                   PROVE  history'[g].revision < history'[h].revision
        BY DEF RevisionsGrow
      <3>1. g \in 1..M /\ history'[g] = history[g]
        BY <2>3
      <3>2. CASE h = M + 1
        BY <1>6, <2>2, <2>3, <3>1, <3>2
      <3>3. CASE h # M + 1
        <4>1. h \in 1..M /\ history'[h] = history[h]
          BY <2>3, <3>3
        <4> QED
          BY <1>4, <2>3, <3>1, <4>1 DEF RevisionsGrow
      <3> QED
        BY <3>2, <3>3
    <2>6. ASSUME NEW i \in DOMAIN history'
          PROVE  /\ history'[i].target.type = 1 => history'[i].target.id \in TxIds'
                 /\ history'[i].revision \in 0..Len(log')
      <3>1. CASE i = M + 1
        BY <1>1, <1>2, <1>6, <2>2, <2>3, <3>1
      <3>2. CASE i # M + 1
        <4>1. i \in DOMAIN history /\ history'[i] = history[i]
          BY <2>3, <3>2
        <4>2. 0..N \subseteq 0..(N + 1)
          BY <1>1
        <4> QED
          BY <1>1, <1>2, <1>4, <4>1, <4>2
      <3> QED
        BY <3>1, <3>2
    <2> QED
      BY <1>1, <1>3, <2>3, <2>4, <2>5, <2>6 DEF BooksInv
  <1>7. ASSUME NEW meta, history' = Append(history, HistoryRow(e.target, N + 1, meta)) PROVE BooksInv'
    <2>1. \A i \in DOMAIN history : history[i].revision < N + 1
      BY <1>1, <1>4
    <2>2. N + 1 \in 0..(N + 1)
      BY <1>1
    <2> QED
      BY <1>6, <1>7, <2>1, <2>2
  <1>8. ASSUME NEW meta, history' = Append(history, HistoryRow(e.target, 0, meta)),
               e.type \notin MetadataEvents, \A i \in DOMAIN history : history[i].target # e.target
        PROVE  BooksInv'
    <2>1. 0 \in 0..(N + 1)
      BY <1>1
    <2> QED
      BY <1>6, <1>8, <2>1
  <1> QED
    BY <1>5, <1>7, <1>8 DEF N

(***************************************************************************)
(* Targets are told apart by their type and id.                            *)
(***************************************************************************)
LEMMA TargetFacts ==
    ASSUME NEW t, NEW u, NEW a
    PROVE  /\ TxTarget(t).type = 1 /\ TxTarget(t).id = t
           /\ AccountTarget(a).type = 0 /\ AccountTarget(a).id = a
           /\ TxTarget(t) # AccountTarget(a)
           /\ TxTarget(t) = TxTarget(u) <=> t = u
           /\ AccountTarget(a) = AccountTarget(u) <=> a = u
  BY DEF TxTarget, AccountTarget

\* What the invariant says of one transaction.
TxInv(t) ==
    /\ TxType(txs[t])
    /\ txs[t].born = Null => txs[t].meta = Null \/ txs[t].meta.kind = "array"
    /\ txs[t].born # Null => txs[t].meta = Object(AsLogged(log, t)[Len(log)])
    /\ ~Readable(txs[t].meta) <=> txs[t].born = Null /\ GivenMetadata(t)
    /\ Rebuilt(history, log, TxTarget(t), txs[t].born)[Len(history)] = txs[t].meta

(***************************************************************************)
(* The invariant of the transactions is that of each of them, now and in   *)
(* the next state.                                                         *)
(***************************************************************************)
LEMMA TxByTx ==
    /\ TxsInv <=> txs \in Seq(Elements(txs)) /\ \A t \in DOMAIN txs : TxInv(t)
    /\ TxsInv' <=> txs' \in Seq(Elements(txs')) /\ \A t \in DOMAIN txs' : TxInv(t)'
  <1>1. TxsInv <=> txs \in Seq(Elements(txs)) /\ \A t \in DOMAIN txs : TxInv(t)
    BY DEF TxsInv, TxInv, TransactionsFollowLog, Unreadable, TransactionsRebuilt, FromHistory
  <1>2. TxsInv' <=> txs' \in Seq(Elements(txs')) /\ \A t \in DOMAIN txs' : TxInv(t)'
    BY DEF TxsInv, TxInv, TransactionsFollowLog, Unreadable, TransactionsRebuilt, FromHistory
  <1> QED
    BY <1>1, <1>2

(***************************************************************************)
(* An event, and a row, about something else leave a transaction alone.    *)
(***************************************************************************)
LEMMA TxLeftAlone ==
    ASSUME BooksInv, NEW t, TxInv(t), NEW e, log' = Append(log, e), txs'[t] = txs[t],
           e.target # TxTarget(t),
           history' = history \/ \E row : history' = Append(history, row) /\ row.target = e.target
    PROVE  TxInv(t)'
  <1>1. AsLogged(log', t)[Len(log')] = AsLogged(log, t)[Len(log)]
    BY LogGrows DEF AfterEvent
  <1>2. GivenMetadata(t)' <=> GivenMetadata(t)
    <2>1. /\ DOMAIN log = 1..Len(log) /\ DOMAIN log' = 1..(Len(log) + 1) /\ Len(log) \in Nat
          /\ log'[Len(log) + 1] = e /\ \A i \in 1..Len(log) : log'[i] = log[i]
      BY LogGrows
    <2> QED
      BY <2>1 DEF GivenMetadata
  <1>3. \A start : Rebuilt(history', log', TxTarget(t), start)[Len(history')]
                     = Rebuilt(history, log, TxTarget(t), start)[Len(history)]
    <2>1. CASE history' = history
      BY <2>1, HistoryStays
    <2>2. CASE \E row : history' = Append(history, row) /\ row.target = e.target
      BY <2>2, HistoryGrows
    <2> QED
      BY <2>1, <2>2
  <1> QED
    BY <1>1, <1>2, <1>3 DEF TxInv

(***************************************************************************)
(* Transactions, when an operation does not concern one.                   *)
(***************************************************************************)
LEMMA TxsLeftAlone ==
    ASSUME BooksInv, TxsInv, NEW e, log' = Append(log, e), txs' = txs,
           \A t \in DOMAIN txs : e.target # TxTarget(t),
           history' = history \/ \E row : history' = Append(history, row) /\ row.target = e.target
    PROVE  TxsInv'
  <1>1. txs \in Seq(Elements(txs)) /\ \A t \in DOMAIN txs : TxInv(t)
    BY TxByTx
  <1>2. \A t \in DOMAIN txs : TxInv(t)'
    BY <1>1, TxLeftAlone
  <1>3. txs' \in Seq(Elements(txs'))
    BY <1>1
  <1> QED
    BY <1>2, <1>3, TxByTx

(***************************************************************************)
(* A new transaction: what is logged is what it is born with, and nothing  *)
(* in its history changes that.                                            *)
(***************************************************************************)
LEMMA TxBorn ==
    ASSUME BooksInv, TxsInv, NEW e, log' = Append(log, e),
           NEW new, new = Len(txs) + 1, e.target = TxTarget(new),
           e.type \in {"TransactionPosted", "TransactionReverted"},
           NEW meta \in Objects \cup {Null}, e.data = meta,
           NEW src \in Accounts, NEW dst \in Accounts, txs' = InsertTransaction(meta, src, dst),
           history' = history \/ history' = Append(history, HistoryRow(TxTarget(new), 0, meta))
    PROVE  TxsInv'
  <1>1. txs \in Seq(Elements(txs)) /\ \A t \in DOMAIN txs : TxInv(t)
    BY TxByTx
  <1>2. PICK x : x = [meta |-> meta, src |-> src, dst |-> dst, born |-> meta]
    OBVIOUS
  <1>3. txs' = Append(txs, x)
    BY <1>2 DEF InsertTransaction
  <1>4. /\ txs' \in Seq(Elements(txs')) /\ Len(txs) \in Nat /\ DOMAIN txs = 1..Len(txs)
        /\ DOMAIN txs' = 1..(Len(txs) + 1) /\ txs'[Len(txs) + 1] = x
        /\ \A t \in 1..Len(txs) : txs'[t] = txs[t]
    BY <1>1, <1>3, AppendFacts
  <1>5. new \notin TxIds /\ TxTarget(new).type = 1 /\ TxTarget(new).id = new
    BY <1>4 DEF TxIds, TxTarget
  <1>6. history' = history \/ \E row : history' = Append(history, row) /\ row.target = e.target
    BY DEF HistoryRow
  <1>7. ASSUME NEW t \in DOMAIN txs PROVE TxInv(t)'
    <2>1. e.target # TxTarget(t)
      BY <1>5, TargetFacts DEF TxIds
    <2> QED
      BY <1>1, <1>4, <1>6, <1>7, <2>1, TxLeftAlone
  <1>8. TxInv(new)'
    <2>1. txs'[new] = x
      BY <1>4
    <2>2. x.meta = meta /\ x.born = meta /\ TxType(x)
      BY <1>2 DEF TxType
    <2>3. AsLogged(log', new)[Len(log')] = Fields(meta)
      <3>1. \A f : AfterEvent(f, e, new) = Fields(meta)
        BY DEF AfterEvent
      <3> QED
        BY <3>1, LogGrows
    <2>4. meta # Null => meta = Object(Fields(meta))
      BY ObjectFacts
    <2>5. Readable(meta)
      BY ObjectFacts, EmptyIsObject DEF Readable
    <2>6. ~GivenMetadata(new)'
      <3>1. /\ DOMAIN log = 1..Len(log) /\ DOMAIN log' = 1..(Len(log) + 1) /\ Len(log) \in Nat
            /\ log'[Len(log) + 1] = e /\ \A i \in 1..Len(log) : log'[i] = log[i]
        BY LogGrows
      <3>2. \A i \in DOMAIN log : log[i].target # TxTarget(new)
        BY <1>5 DEF BooksInv
      <3> QED
        BY <3>1, <3>2 DEF GivenMetadata
    <2>7. Rebuilt(history', log', TxTarget(new), meta)[Len(history')] = meta
      <3>1. history \in Seq(Elements(history))
        BY DEF BooksInv
      <3>2. \A i \in DOMAIN history : history[i].target # TxTarget(new)
        BY <1>5 DEF BooksInv
      <3>3. Rebuilt(history, log, TxTarget(new), meta)[Len(history)] = meta
        BY <3>1, <3>2, NothingRebuilt
      <3>4. CASE history' = history
        BY <3>3, <3>4, HistoryStays
      <3>5. CASE history' = Append(history, HistoryRow(TxTarget(new), 0, meta))
        <4>1. PICK row : row = HistoryRow(TxTarget(new), 0, meta)
          OBVIOUS
        <4>2. row.revision = 0 /\ history' = Append(history, row)
          BY <3>5, <4>1 DEF HistoryRow
        <4> QED
          BY <3>3, <4>2, HistoryGrows
      <3> QED
        BY <3>4, <3>5
    <2> QED
      BY <2>1, <2>2, <2>3, <2>4, <2>5, <2>6, <2>7 DEF TxInv
  <1>9. \A t \in DOMAIN txs' : TxInv(t)'
    <2>1. \A t \in DOMAIN txs' : t \in DOMAIN txs \/ t = new
      BY <1>4
    <2> QED
      BY <1>7, <1>8, <2>1
  <1> QED
    BY <1>4, <1>9, TxByTx

(***************************************************************************)
(* A sequence is one of its own elements.                                  *)
(***************************************************************************)
LEMMA SeqOfItsElements ==
    ASSUME NEW T, NEW r \in Seq(T)
    PROVE  r \in Seq(Elements(r))
  <1>1. Len(r) \in Nat /\ DOMAIN r = 1..Len(r) /\ r \in [1..Len(r) -> T]
    OBVIOUS
  <1>2. r \in [1..Len(r) -> Elements(r)]
    BY <1>1 DEF Elements
  <1> QED
    BY <1>1, <1>2, SeqDef

(***************************************************************************)
(* A sequence with one element replaced.                                   *)
(***************************************************************************)
LEMMA ExceptFacts ==
    ASSUME NEW s, s \in Seq(Elements(s)), NEW i \in DOMAIN s, NEW v, NEW r, r = [s EXCEPT ![i] = v]
    PROVE  /\ r \in Seq(Elements(r)) /\ DOMAIN r = DOMAIN s /\ r[i] = v
           /\ \A n \in DOMAIN s : n # i => r[n] = s[n]
  <1> DEFINE T == Elements(s) \cup {v}
  <1>1. s \in Seq(T) /\ v \in T /\ Len(s) \in Nat /\ DOMAIN s = 1..Len(s)
    BY SeqMonotonic
  <1> HIDE DEF T
  <1>3. r \in Seq(T) /\ DOMAIN r = DOMAIN s /\ Len(r) = Len(s) /\ r[i] = v
        /\ \A n \in DOMAIN s : n # i => r[n] = s[n]
    BY <1>1
  <1>5. r \in Seq(Elements(r))
    BY <1>3, SeqOfItsElements
  <1> QED
    BY <1>3, <1>5

\* Steps of the proofs below: the event appended, the row recorded, the metadata
\* of a transaction rewritten, and what the history makes of a start.
Appended(e) == log' = Append(log, e)
Recorded(row) == history' = Append(history, row)
Rewritten(t, new) == txs' = [txs EXCEPT ![t] = [txs[t] EXCEPT !.meta = new]]
Makes(target, start) == Rebuilt(history, log, target, start)[Len(history)]

(***************************************************************************)
(* What is rebuilt after a row of history for the event just appended.     *)
(***************************************************************************)
LEMMA RowWritten ==
    ASSUME BooksInv, NEW e, Appended(e), NEW row, Recorded(row), row.revision = Len(log) + 1, NEW start
    PROVE  /\ e.type = "MetadataDeleted" => Makes(row.target, start)' = row.meta
           /\ e.type # "MetadataDeleted" =>
                 Makes(row.target, start)' = Concat(Makes(row.target, start), row.meta)
  <1>1. \A b : row.revision = Len(log) + 1 =>
                   Rebuilt(history', log', row.target, b)[Len(history')]
                     = IF e.type = "MetadataDeleted" THEN row.meta
                       ELSE Concat(Rebuilt(history, log, row.target, b)[Len(history)], row.meta)
    BY HistoryGrows DEF Appended, Recorded
  <1> QED
    BY <1>1 DEF Makes

\* The metadata that an event about a transaction should give it.
Follows(t, e, new) ==
    \/ txs[t].born = Null /\ new.kind = "array" /\ e.type \in {"TransactionAmended", "MetadataSet"}
    \/ txs[t].born # Null /\ new = Object(AfterEvent(AsLogged(log, t)[Len(log)], e, t))

(***************************************************************************)
(* A transaction whose metadata is written: the others are left alone, and *)
(* of this one only the metadata is another.                               *)
(***************************************************************************)
LEMMA TxWritten ==
    ASSUME BooksInv, TxsInv, NEW e, Appended(e), NEW t \in DOMAIN txs, e.target = TxTarget(t),
           NEW new, Rewritten(t, new), NEW row, Recorded(row), row.target = TxTarget(t),
           Follows(t, e, new),
           NEW born, born = txs[t].born, Makes(TxTarget(t), born)' = new
    PROVE  TxsInv'
  <1>0. log' = Append(log, e) /\ history' = Append(history, row)
    BY DEF Appended, Recorded
  <1>1. txs \in Seq(Elements(txs)) /\ \A u \in DOMAIN txs : TxInv(u)
    BY TxByTx
  <1>2. PICK x : x = [txs[t] EXCEPT !.meta = new]
    OBVIOUS
  <1>4. /\ txs' \in Seq(Elements(txs')) /\ DOMAIN txs' = DOMAIN txs /\ txs'[t] = x
        /\ \A u \in DOMAIN txs : u # t => txs'[u] = txs[u]
    <2>1. PICK s, r : s = txs /\ r = txs'
      OBVIOUS
    <2>2. s \in Seq(Elements(s)) /\ t \in DOMAIN s /\ r = [s EXCEPT ![t] = x]
      BY <1>1, <1>2, <2>1 DEF Rewritten
    <2>3. /\ r \in Seq(Elements(r)) /\ DOMAIN r = DOMAIN s /\ r[t] = x
          /\ \A u \in DOMAIN s : u # t => r[u] = s[u]
      BY <2>2, ExceptFacts
    <2> QED
      BY <2>1, <2>3
  <1>5. x.meta = new /\ x.born = born /\ TxType(x)
    BY <1>1, <1>2 DEF TxInv, TxType
  <1>6. ASSUME NEW u \in DOMAIN txs, u # t PROVE TxInv(u)'
    <2>1. e.target # TxTarget(u)
      BY <1>6, TargetFacts
    <2> QED
      BY <1>0, <1>1, <1>4, <1>6, <2>1, TxLeftAlone
  <1>7. AsLogged(log', t)[Len(log')] = AfterEvent(AsLogged(log, t)[Len(log)], e, t)
    BY <1>0, LogGrows
  <1>8. Rebuilt(history', log', TxTarget(t), born)[Len(history')] = new
    BY DEF Makes
  <1>9. TxInv(t)'
    <2>1. CASE born = Null
      <3>1. new.kind = "array" /\ e.type \in {"TransactionAmended", "MetadataSet"}
        BY <2>1 DEF Follows
      <3>2. GivenMetadata(t)'
        <4>1. Len(log) + 1 \in DOMAIN log' /\ log'[Len(log) + 1] = e
          BY <1>0, LogGrows
        <4> QED
          BY <3>1, <4>1 DEF GivenMetadata
      <3> QED
        BY <1>4, <1>5, <1>8, <2>1, <3>1, <3>2 DEF TxInv, Readable
    <2>2. CASE born # Null
      <3>1. new = Object(AsLogged(log', t)[Len(log')])
        BY <1>7, <2>2 DEF Follows
      <3>2. Readable(new)
        BY <3>1 DEF Object, Readable
      <3> QED
        BY <1>4, <1>5, <1>8, <2>2, <3>1, <3>2 DEF TxInv
    <2> QED
      BY <2>1, <2>2
  <1> QED
    BY <1>4, <1>6, <1>9, TxByTx

(***************************************************************************)
(* Transactions, when one is amended or given metadata.                    *)
(***************************************************************************)
LEMMA TxChanged ==
    ASSUME BooksInv, TxsInv, NEW e, Appended(e), NEW t \in DOMAIN txs, e.target = TxTarget(t),
           e.type \in {"TransactionAmended", "MetadataSet"}, NEW meta \in Objects, e.data = meta,
           txs' = [txs EXCEPT ![t].meta = Concat(@, meta)],
           Recorded(HistoryRow(TxTarget(t), Len(log) + 1, meta))
    PROVE  TxsInv'
  <1>1. PICK new : new = Concat(txs[t].meta, meta)
    OBVIOUS
  <1>2. Rewritten(t, new)
    BY <1>1 DEF Rewritten
  <1>3. PICK row : row = HistoryRow(TxTarget(t), Len(log) + 1, meta)
    OBVIOUS
  <1>4. row.target = TxTarget(t) /\ row.revision = Len(log) + 1 /\ row.meta = meta /\ Recorded(row)
    BY <1>3 DEF HistoryRow
  <1>5. TxInv(t)
    BY TxByTx
  <1>6. PICK born : born = txs[t].born
    OBVIOUS
  <1>7. Makes(TxTarget(t), born)' = new
    <2>1. Makes(TxTarget(t), born) = txs[t].meta
      BY <1>5, <1>6 DEF TxInv, Makes
    <2>2. e.type # "MetadataDeleted"
      OBVIOUS
    <2>3. Makes(row.target, born)' = Concat(Makes(row.target, born), row.meta)
      BY <1>4, <2>2, RowWritten
    <2> QED
      BY <1>1, <1>4, <2>1, <2>3
  <1>8. Follows(t, e, new)
    <2>1. CASE txs[t].born = Null
      <3>1. txs[t].meta.kind # "object"
        BY <1>5, <2>1, EmptyIsObject DEF TxInv
      <3>2. new.kind = "array"
        BY <1>1, <3>1, ArrayFacts
      <3> QED
        BY <2>1, <3>2 DEF Follows
    <2>2. CASE txs[t].born # Null
      <3>1. PICK f : f = AsLogged(log, t)[Len(log)]
        OBVIOUS
      <3>2. txs[t].meta = Object(f)
        BY <1>5, <2>2, <3>1 DEF TxInv
      <3>3. new = Object(Over(meta.fields, f))
        <4>1. Object(f).kind = "object" /\ Object(f).fields = f /\ meta.kind = "object"
          BY ObjectFacts DEF Object
        <4> QED
          BY <1>1, <3>2, <4>1 DEF Concat
      <3>4. AfterEvent(f, e, t) = Over(meta.fields, f)
        BY DEF AfterEvent
      <3> QED
        BY <2>2, <3>1, <3>3, <3>4 DEF Follows
    <2> QED
      BY <2>1, <2>2
  <1> QED
    BY <1>2, <1>4, <1>6, <1>7, <1>8, TxWritten

(***************************************************************************)
(* Transactions, when one loses a key.  It had metadata from the start:    *)
(* null and arrays stop the operation.                                     *)
(***************************************************************************)
LEMMA TxKeyDeleted ==
    ASSUME BooksInv, TxsInv, NEW e, Appended(e), NEW t \in DOMAIN txs, e.target = TxTarget(t),
           e.type = "MetadataDeleted", NEW key, e.data = key,
           CanMinus(txs[t].meta), Readable(txs[t].meta),
           txs' = [txs EXCEPT ![t].meta = Minus(@, key)],
           Recorded(HistoryRow(TxTarget(t), Len(log) + 1, txs'[t].meta))
    PROVE  TxsInv'
  <1>1. PICK new : new = Minus(txs[t].meta, key)
    OBVIOUS
  <1>2. Rewritten(t, new)
    BY <1>1 DEF Rewritten
  <1>3. TxInv(t)
    BY TxByTx
  <1>4. txs'[t].meta = new
    <2>1. txs \in Seq(Elements(txs)) /\ "meta" \in DOMAIN txs[t]
      BY <1>3, TxByTx DEF TxInv, TxType
    <2> QED
      BY <1>2, <2>1 DEF Rewritten
  <1>5. PICK row : row = HistoryRow(TxTarget(t), Len(log) + 1, new)
    OBVIOUS
  <1>6. row.target = TxTarget(t) /\ row.revision = Len(log) + 1 /\ row.meta = new /\ Recorded(row)
    BY <1>4, <1>5 DEF HistoryRow
  <1>7. PICK born : born = txs[t].born
    OBVIOUS
  <1>8. Makes(TxTarget(t), born)' = new
    <2>1. Makes(row.target, born)' = row.meta
      BY <1>6, RowWritten
    <2> QED
      BY <1>6, <2>1
  <1>9. Follows(t, e, new)
    <2>1. txs[t].born # Null
      BY <1>3, EmptyIsObject DEF TxInv, CanMinus, Readable
    <2>2. PICK f : f = AsLogged(log, t)[Len(log)]
      OBVIOUS
    <2>3. txs[t].meta = Object(f)
      BY <1>3, <2>1, <2>2 DEF TxInv
    <2>4. new = Object(Without(f, key))
      <3>1. Object(f).kind = "object" /\ Object(f).fields = f
        BY DEF Object
      <3> QED
        BY <1>1, <2>3, <3>1 DEF Minus
    <2>5. AfterEvent(f, e, t) = Without(f, key)
      BY DEF AfterEvent
    <2> QED
      BY <2>1, <2>2, <2>4, <2>5 DEF Follows
  <1> QED
    BY <1>2, <1>6, <1>7, <1>8, <1>9, TxWritten

-----------------------------------------------------------------------------
\* What the invariant says of one account.
AccountInv(a) ==
    IF a \in DOMAIN accounts
    THEN accounts[a] \in Objects /\ Makes(AccountTarget(a), Empty) = accounts[a]
    ELSE Makes(AccountTarget(a), Empty) = Empty

(***************************************************************************)
(* The invariant of the accounts is that of each of them, now and in the   *)
(* next state.                                                             *)
(***************************************************************************)
LEMMA AccountByAccount ==
    /\ AccountsInv <=> DOMAIN accounts \subseteq Accounts /\ \A a \in Accounts : AccountInv(a)
    /\ AccountsInv' <=> DOMAIN accounts' \subseteq Accounts /\ \A a \in Accounts : AccountInv(a)'
  <1>1. AccountsInv <=> DOMAIN accounts \subseteq Accounts /\ \A a \in Accounts : AccountInv(a)
    BY DEF AccountsInv, AccountInv, AccountsRebuilt, FromHistory, Makes
  <1>2. AccountsInv' <=> DOMAIN accounts' \subseteq Accounts /\ \A a \in Accounts : AccountInv(a)'
    BY DEF AccountsInv, AccountInv, AccountsRebuilt, FromHistory, Makes
  <1> QED
    BY <1>1, <1>2

(***************************************************************************)
(* A target without a new row is rebuilt as it was.                        *)
(***************************************************************************)
LEMMA MakesStays ==
    ASSUME BooksInv, NEW e, Appended(e), NEW target, NEW start,
           history' = history \/ \E row : Recorded(row) /\ row.target # target
    PROVE  Makes(target, start)' = Makes(target, start)
  <1>1. CASE history' = history
    BY <1>1, HistoryStays DEF Makes, Appended
  <1>2. CASE \E row : Recorded(row) /\ row.target # target
    <2>1. PICK row : Recorded(row) /\ row.target # target
      BY <1>2
    <2> QED
      BY <2>1, HistoryGrows DEF Makes, Appended, Recorded
  <1> QED
    BY <1>1, <1>2

(***************************************************************************)
(* Accounts that are created, or only touched, by a posting, and accounts  *)
(* that an operation is not about.                                         *)
(***************************************************************************)
LEMMA AccountsTouched ==
    ASSUME BooksInv, AccountsInv, NEW e, Appended(e),
           history' = history \/ \E row : Recorded(row) /\ row.target.type = 1,
           accounts' = accounts \/ \E A \in SUBSET Accounts : accounts' = UpsertAccount(A, Empty)
    PROVE  AccountsInv'
  <1>1. DOMAIN accounts \subseteq Accounts /\ \A a \in Accounts : AccountInv(a)
    BY AccountByAccount
  <1>2. ASSUME NEW a \in Accounts
        PROVE  Makes(AccountTarget(a), Empty)' = Makes(AccountTarget(a), Empty)
    <2>1. history' = history \/ \E row : Recorded(row) /\ row.target # AccountTarget(a)
      BY TargetFacts
    <2> QED
      BY <2>1, MakesStays
  <1>3. CASE accounts' = accounts
    BY <1>1, <1>2, <1>3, AccountByAccount DEF AccountInv
  <1>4. ASSUME NEW A \in SUBSET Accounts, accounts' = UpsertAccount(A, Empty) PROVE AccountsInv'
    <2>1. DOMAIN accounts' = DOMAIN accounts \cup A
      BY <1>4 DEF UpsertAccount
    <2>2. ASSUME NEW a \in Accounts PROVE AccountInv(a)'
      <3>1. CASE a \in DOMAIN accounts
        <4>1. accounts[a] \in Objects /\ Makes(AccountTarget(a), Empty) = accounts[a]
          BY <1>1, <3>1 DEF AccountInv
        <4>2. accounts'[a] = accounts[a] \/ accounts'[a] = Concat(accounts[a], Empty)
          BY <1>4, <3>1 DEF UpsertAccount
        <4>3. accounts'[a] = accounts[a]
          BY <4>1, <4>2, ConcatFacts, EmptyIsObject
        <4> QED
          BY <1>2, <2>1, <3>1, <4>1, <4>3 DEF AccountInv
      <3>2. CASE a \notin DOMAIN accounts
        <4>1. Makes(AccountTarget(a), Empty) = Empty
          BY <1>1, <3>2 DEF AccountInv
        <4>2. a \in A => accounts'[a] = Empty
          BY <1>4, <3>2 DEF UpsertAccount
        <4> QED
          BY <1>2, <2>1, <3>2, <4>1, <4>2, EmptyIsObject DEF AccountInv
      <3> QED
        BY <3>1, <3>2
    <2> QED
      BY <1>1, <2>1, <2>2, AccountByAccount
  <1> QED
    BY <1>3, <1>4

(***************************************************************************)
(* An account that an operation is about: the others are left alone.       *)
(***************************************************************************)
LEMMA AccountWritten ==
    ASSUME BooksInv, AccountsInv, NEW e, Appended(e), NEW a \in Accounts,
           NEW row, Recorded(row), row.target = AccountTarget(a),
           DOMAIN accounts \subseteq DOMAIN accounts', DOMAIN accounts' \subseteq DOMAIN accounts \cup {a},
           \A b \in DOMAIN accounts : b # a => accounts'[b] = accounts[b],
           AccountInv(a)'
    PROVE  AccountsInv'
  <1>1. DOMAIN accounts \subseteq Accounts /\ \A b \in Accounts : AccountInv(b)
    BY AccountByAccount
  <1>2. ASSUME NEW b \in Accounts, b # a PROVE AccountInv(b)'
    <2>1. row.target # AccountTarget(b)
      BY <1>2, TargetFacts
    <2>2. Makes(AccountTarget(b), Empty)' = Makes(AccountTarget(b), Empty)
      BY <2>1, MakesStays
    <2>3. b \in DOMAIN accounts' <=> b \in DOMAIN accounts
      BY <1>2
    <2> QED
      BY <1>1, <1>2, <2>2, <2>3 DEF AccountInv
  <1>3. DOMAIN accounts' \subseteq Accounts
    BY <1>1
  <1> QED
    BY <1>2, <1>3, AccountByAccount

(***************************************************************************)
(* An account that is given metadata: it and its history get the same.     *)
(***************************************************************************)
LEMMA AccountGiven ==
    ASSUME BooksInv, AccountsInv, NEW e, Appended(e), e.type = "MetadataSet", NEW a \in Accounts,
           NEW meta \in Objects, accounts' = UpsertAccount({a}, meta),
           Recorded(HistoryRow(AccountTarget(a), Len(log) + 1, meta))
    PROVE  AccountsInv'
  <1>1. PICK row : row = HistoryRow(AccountTarget(a), Len(log) + 1, meta)
    OBVIOUS
  <1>2. row.target = AccountTarget(a) /\ row.revision = Len(log) + 1 /\ row.meta = meta /\ Recorded(row)
    BY <1>1 DEF HistoryRow
  <1>3. Makes(AccountTarget(a), Empty)' = Concat(Makes(AccountTarget(a), Empty), meta)
    <2>1. Makes(row.target, Empty)' = Concat(Makes(row.target, Empty), row.meta)
      BY <1>2, RowWritten
    <2> QED
      BY <1>2, <2>1
  <1>4. AccountInv(a)
    BY AccountByAccount
  <1>5. /\ DOMAIN accounts' = DOMAIN accounts \cup {a}
        /\ \A b \in DOMAIN accounts : b # a => accounts'[b] = accounts[b]
        /\ accounts'[a] = IF a \in DOMAIN accounts THEN Concat(accounts[a], meta) ELSE meta
    BY DEF UpsertAccount
  <1>6. AccountInv(a)'
    <2>1. CASE a \in DOMAIN accounts
      <3>1. accounts[a] \in Objects /\ Makes(AccountTarget(a), Empty) = accounts[a]
        BY <1>4, <2>1 DEF AccountInv
      <3>2. Concat(accounts[a], meta) \in Objects
        BY <3>1, ConcatFacts
      <3> QED
        BY <1>3, <1>5, <2>1, <3>1, <3>2 DEF AccountInv
    <2>2. CASE a \notin DOMAIN accounts
      <3>1. Makes(AccountTarget(a), Empty) = Empty
        BY <1>4, <2>2 DEF AccountInv
      <3>2. Concat(Empty, meta) = meta
        BY ConcatFacts
      <3> QED
        BY <1>3, <1>5, <2>2, <3>1, <3>2 DEF AccountInv
    <2> QED
      BY <2>1, <2>2
  <1> QED
    BY <1>2, <1>5, <1>6, AccountWritten

(***************************************************************************)
(* An account that a key is deleted from: what is left is merged into the  *)
(* row, which stays as it was, and so says the history.                    *)
(***************************************************************************)
LEMMA AccountKeyDeleted ==
    ASSUME BooksInv, AccountsInv, NEW e, Appended(e), e.type = "MetadataDeleted", NEW a \in Accounts, NEW key,
           accounts' = IF a \in DOMAIN accounts
                       THEN UpsertAccount({a}, Object(Without(Fields(accounts[a]), key)))
                       ELSE accounts,
           Recorded(HistoryRow(AccountTarget(a), Len(log) + 1,
                               IF a \in DOMAIN accounts THEN accounts'[a] ELSE Empty))
    PROVE  AccountsInv'
  <1>1. PICK meta : meta = IF a \in DOMAIN accounts THEN accounts'[a] ELSE Empty
    OBVIOUS
  <1>2. PICK row : row = HistoryRow(AccountTarget(a), Len(log) + 1, meta)
    OBVIOUS
  <1>3. row.target = AccountTarget(a) /\ row.revision = Len(log) + 1 /\ row.meta = meta /\ Recorded(row)
    BY <1>1, <1>2 DEF HistoryRow
  <1>4. Makes(AccountTarget(a), Empty)' = meta
    <2>1. Makes(row.target, Empty)' = row.meta
      BY <1>3, RowWritten
    <2> QED
      BY <1>3, <2>1
  <1>5. AccountInv(a)
    BY AccountByAccount
  <1>6. CASE a \in DOMAIN accounts
    <2>1. PICK rest : rest = Object(Without(Fields(accounts[a]), key))
      OBVIOUS
    <2>2. accounts' = UpsertAccount({a}, rest)
      BY <1>6, <2>1
    <2>3. /\ DOMAIN accounts' = DOMAIN accounts
          /\ \A b \in DOMAIN accounts : b # a => accounts'[b] = accounts[b]
          /\ accounts'[a] = Concat(accounts[a], rest)
      BY <1>6, <2>2 DEF UpsertAccount
    <2>4. accounts[a] \in Objects
      BY <1>5, <1>6 DEF AccountInv
    <2>5. accounts'[a] = accounts[a]
      BY <2>1, <2>3, <2>4, ConcatFacts
    <2>6. AccountInv(a)'
      BY <1>1, <1>4, <1>6, <2>3, <2>4, <2>5 DEF AccountInv
    <2> QED
      BY <1>3, <2>3, <2>6, AccountWritten
  <1>7. CASE a \notin DOMAIN accounts
    <2>1. accounts' = accounts
      BY <1>7
    <2>2. AccountInv(a)'
      BY <1>1, <1>4, <1>7, <2>1 DEF AccountInv
    <2> QED
      BY <1>3, <2>1, <2>2, AccountWritten
  <1> QED
    BY <1>6, <1>7

-----------------------------------------------------------------------------
\* What a relationship may have as its child: a transaction or an event.
Children == DOMAIN txs \cup {-i : i \in 1..Len(log)}

(***************************************************************************)
(* Relationships keep one parent for every child as long as a new one has  *)
(* a new child.                                                            *)
(***************************************************************************)
LEMMA ParentsKept ==
    ASSUME OneParent, BooksInv, NEW e, Appended(e), DOMAIN txs \subseteq DOMAIN txs',
           \/ rels' = rels
           \/ \E r : rels' = rels \cup {r} /\ r.child \in Children' \ Children
    PROVE  OneParent'
  <1>1. Children \subseteq Children'
    <2>1. Len(log) \in Nat /\ Len(log') = Len(log) + 1
      BY LogGrows DEF Appended
    <2> QED
      BY <2>1 DEF Children
  <1>2. (\A r \in rels : r.child \in Children) /\ \A r, q \in rels : r.child = q.child => r = q
    BY DEF OneParent, Children
  <1>3. (\A r \in rels' : r.child \in Children') /\ \A r, q \in rels' : r.child = q.child => r = q
    BY <1>1, <1>2
  <1> QED
    BY <1>3 DEF OneParent, Children

(***************************************************************************)
(* The next transaction and the next event are new.                        *)
(***************************************************************************)
LEMMA NewOnes ==
    ASSUME MetadataInv
    PROVE  /\ Len(txs) \in Nat /\ Len(log) \in Nat /\ DOMAIN txs = 1..Len(txs)
           /\ Len(txs) + 1 \notin TxIds
           /\ Len(txs) + 1 \notin Children /\ -(Len(log) + 1) \notin Children
           /\ \A i \in DOMAIN history : history[i].target # TxTarget(Len(txs) + 1)
  <1>1. txs \in Seq(Elements(txs)) /\ log \in Seq(Elements(log))
    BY DEF MetadataInv, TxsInv, BooksInv
  <1>2. Len(txs) \in Nat /\ Len(log) \in Nat /\ DOMAIN txs = 1..Len(txs)
    BY <1>1, AppendFacts
  <1>3. PICK n \in Nat, m \in Nat : n = Len(txs) /\ m = Len(log)
    BY <1>2
  <1>4. n + 1 \notin 1..n /\ -(m + 1) \notin 1..n
    OBVIOUS
  <1>5. \A i \in 1..m : -i # n + 1 /\ -i # -(m + 1)
    OBVIOUS
  <1>6. n + 1 \notin Children /\ -(m + 1) \notin Children
    BY <1>2, <1>3, <1>4, <1>5 DEF Children
  <1>7. Len(txs) + 1 \notin TxIds
    BY <1>2 DEF TxIds
  <1>8. \A i \in DOMAIN history : history[i].target # TxTarget(Len(txs) + 1)
    <2>1. \A i \in DOMAIN history : history[i].target.type = 1 => history[i].target.id \in TxIds
      BY DEF MetadataInv, BooksInv
    <2>2. TxTarget(Len(txs) + 1).type = 1 /\ TxTarget(Len(txs) + 1).id = Len(txs) + 1
      BY DEF TxTarget
    <2> QED
      BY <1>7, <2>1, <2>2
  <1> QED
    BY <1>2, <1>3, <1>6, <1>7, <1>8

(***************************************************************************)
(* SubmitPost keeps the invariant.                                         *)
(***************************************************************************)
LEMMA PostKeeps ==
    ASSUME MetadataInv, NEW src \in Accounts, NEW dst \in Accounts, NEW meta \in Objects \cup {Null},
           SubmitPost(src, dst, meta)
    PROVE  MetadataInv'
  <1>1. PICK new : new = Len(txs) + 1
    OBVIOUS
  <1>2. PICK e : e = [type |-> "TransactionPosted", target |-> TxTarget(new), data |-> meta]
    OBVIOUS
  <1>3. e.type = "TransactionPosted" /\ e.target = TxTarget(new) /\ e.data = meta /\ log' = Append(log, e)
    BY <1>1, <1>2 DEF SubmitPost, AppendEvent
  <1>4. \/ history' = history
        \/ history' = Append(history, HistoryRow(TxTarget(new), 0, meta))
    BY <1>1 DEF SubmitPost, InsertMetadataHistory
  <1>5. txs' = InsertTransaction(meta, src, dst) /\ accounts' = UpsertAccount({src, dst}, Empty) /\ rels' = rels
    BY DEF SubmitPost
  <1>6. BooksInv /\ TxsInv /\ AccountsInv /\ OneParent
    BY DEF MetadataInv
  <1>7. TxsInv'
    BY <1>1, <1>3, <1>4, <1>5, <1>6, TxBorn
  <1>8. DOMAIN txs \subseteq DOMAIN txs' /\ new \in DOMAIN txs'
    <2>1. txs \in Seq(Elements(txs))
      BY <1>6 DEF TxsInv
    <2>2. \E x : txs' = Append(txs, x)
      BY <1>5 DEF InsertTransaction
    <2>3. Len(txs) \in Nat /\ DOMAIN txs = 1..Len(txs) /\ DOMAIN txs' = 1..(Len(txs) + 1)
      BY <2>1, <2>2, AppendFacts
    <2> QED
      BY <1>1, <2>3
  <1>9. BooksInv'
    <2>1. e.target.type = 1 => e.target.id \in DOMAIN txs' \cup {0}
      BY <1>3, <1>8, TargetFacts
    <2>2. e.type \notin MetadataEvents
      BY <1>3 DEF MetadataEvents
    <2>3. \A i \in DOMAIN history : history[i].target # e.target
      BY <1>1, <1>3, NewOnes
    <2> QED
      BY <1>3, <1>4, <1>6, <1>8, <2>1, <2>2, <2>3, BooksKept
  <1>10. AccountsInv'
    <2>1. HistoryRow(TxTarget(new), 0, meta).target.type = 1
      BY DEF HistoryRow, TxTarget
    <2>2. history' = history \/ \E row : Recorded(row) /\ row.target.type = 1
      BY <1>4, <2>1 DEF Recorded
    <2>3. {src, dst} \in SUBSET Accounts /\ Appended(e)
      BY <1>3 DEF Appended
    <2> QED
      BY <1>5, <1>6, <2>2, <2>3, AccountsTouched
  <1>11. OneParent'
    BY <1>3, <1>5, <1>6, <1>8, ParentsKept DEF Appended
  <1> QED
    BY <1>7, <1>9, <1>10, <1>11 DEF MetadataInv

(***************************************************************************)
(* SubmitRevert keeps the invariant.                                       *)
(***************************************************************************)
LEMMA RevertKeeps ==
    ASSUME MetadataInv, NEW t \in DOMAIN txs, SubmitRevert(t)
    PROVE  MetadataInv'
  <1>1. PICK new : new = Len(txs) + 1
    OBVIOUS
  <1>2. PICK e : e = [type |-> "TransactionReverted", target |-> TxTarget(new), data |-> Empty]
    OBVIOUS
  <1>3. e.type = "TransactionReverted" /\ e.target = TxTarget(new) /\ e.data = Empty /\ log' = Append(log, e)
    BY <1>1, <1>2 DEF SubmitRevert, AppendEvent
  <1>4. PICK src, dst : src = txs[t].dst /\ dst = txs[t].src
    OBVIOUS
  <1>5. /\ txs' = InsertTransaction(Empty, src, dst) /\ accounts' = UpsertAccount({dst, src}, Empty)
        /\ rels' = rels \cup {[parent |-> t, child |-> new, type |-> "reverts"]} /\ history' = history
    BY <1>1, <1>4 DEF SubmitRevert
  <1>6. BooksInv /\ TxsInv /\ AccountsInv /\ OneParent
    BY DEF MetadataInv
  <1>7. src \in Accounts /\ dst \in Accounts
    BY <1>4, <1>6 DEF TxsInv, TxType
  <1>8. TxsInv'
    BY <1>1, <1>3, <1>5, <1>6, <1>7, EmptyIsObject, TxBorn
  <1>9. DOMAIN txs \subseteq DOMAIN txs' /\ new \in DOMAIN txs'
    <2>1. txs \in Seq(Elements(txs))
      BY <1>6 DEF TxsInv
    <2>2. \E x : txs' = Append(txs, x)
      BY <1>5 DEF InsertTransaction
    <2>3. Len(txs) \in Nat /\ DOMAIN txs = 1..Len(txs) /\ DOMAIN txs' = 1..(Len(txs) + 1)
      BY <2>1, <2>2, AppendFacts
    <2> QED
      BY <1>1, <2>3
  <1>10. BooksInv'
    <2>1. e.target.type = 1 => e.target.id \in DOMAIN txs' \cup {0}
      BY <1>3, <1>9, TargetFacts
    <2>2. e.type \notin MetadataEvents
      BY <1>3 DEF MetadataEvents
    <2> QED
      BY <1>3, <1>5, <1>6, <1>9, <2>1, <2>2, BooksKept
  <1>11. AccountsInv'
    <2>1. {dst, src} \in SUBSET Accounts /\ Appended(e)
      BY <1>3, <1>7 DEF Appended
    <2> QED
      BY <1>5, <1>6, <2>1, AccountsTouched
  <1>12. OneParent'
    <2>1. PICK r : r = [parent |-> t, child |-> new, type |-> "reverts"]
      OBVIOUS
    <2>2. r.child \in Children' \ Children
      BY <1>1, <1>9, <2>1, NewOnes DEF Children
    <2>3. rels' = rels \cup {r} /\ Appended(e)
      BY <1>3, <1>5, <2>1 DEF Appended
    <2> QED
      BY <1>6, <1>9, <2>2, <2>3, ParentsKept
  <1> QED
    BY <1>8, <1>10, <1>11, <1>12 DEF MetadataInv

(***************************************************************************)
(* What writing the metadata of a transaction leaves: the transactions     *)
(* there are.                                                              *)
(***************************************************************************)
LEMMA SameTransactions ==
    ASSUME TxsInv, NEW t \in DOMAIN txs, NEW new, txs' = [txs EXCEPT ![t].meta = new]
    PROVE  DOMAIN txs' = DOMAIN txs
  BY DEF TxsInv

(***************************************************************************)
(* The books, when an operation about metadata appends its event and its   *)
(* row.                                                                    *)
(***************************************************************************)
LEMMA BooksWritten ==
    ASSUME BooksInv, NEW e, Appended(e), DOMAIN txs' = DOMAIN txs, e.target.type = 1 => e.target.id \in TxIds,
           NEW meta, Recorded(HistoryRow(e.target, Len(log) + 1, meta))
    PROVE  BooksInv'
  <1>1. log' = Append(log, e) /\ DOMAIN txs \subseteq DOMAIN txs'
    BY DEF Appended
  <1>2. e.target.type = 1 => e.target.id \in DOMAIN txs' \cup {0}
    BY DEF TxIds
  <1>3. \E m : history' = Append(history, HistoryRow(e.target, Len(log) + 1, m))
    BY DEF Recorded
  <1> QED
    BY <1>1, <1>2, <1>3, BooksKept

(***************************************************************************)
(* Accounts, when an operation is about a transaction.                     *)
(***************************************************************************)
LEMMA AccountsAside ==
    ASSUME BooksInv, AccountsInv, NEW e, Appended(e), NEW t, NEW rev, NEW meta,
           Recorded(HistoryRow(TxTarget(t), rev, meta)), accounts' = accounts
    PROVE  AccountsInv'
  <1>1. HistoryRow(TxTarget(t), rev, meta).target.type = 1
    BY DEF HistoryRow, TxTarget
  <1>2. \E row : Recorded(row) /\ row.target.type = 1
    BY <1>1
  <1> QED
    BY <1>2, AccountsTouched

(***************************************************************************)
(* SubmitAmend keeps the invariant.                                        *)
(***************************************************************************)
LEMMA AmendKeeps ==
    ASSUME MetadataInv, NEW t, NEW changes \in Objects, SubmitAmend(t, changes)
    PROVE  MetadataInv'
  <1>1. PICK e : e = [type |-> "TransactionAmended", target |-> TxTarget(t), data |-> changes]
    OBVIOUS
  <1>2. e.type = "TransactionAmended" /\ e.target = TxTarget(t) /\ e.data = changes /\ Appended(e)
    BY <1>1 DEF SubmitAmend, AppendEvent, Appended
  <1>3. Recorded(HistoryRow(TxTarget(t), Len(log) + 1, changes))
    BY DEF SubmitAmend, InsertMetadataHistory, Recorded, NextSeq
  <1>4. /\ t \in DOMAIN txs /\ txs' = [txs EXCEPT ![t].meta = Concat(@, changes)] /\ accounts' = accounts
        /\ rels' = rels \cup {[parent |-> t, child |-> -(Len(log) + 1), type |-> "amends"]}
    BY DEF SubmitAmend, UpdateTransactionMetadata, NextSeq
  <1>5. BooksInv /\ TxsInv /\ AccountsInv /\ OneParent
    BY DEF MetadataInv
  <1>6. TxsInv'
    BY <1>2, <1>3, <1>4, <1>5, TxChanged
  <1>7. DOMAIN txs' = DOMAIN txs
    BY <1>4, <1>5, SameTransactions
  <1>8. BooksInv'
    <2>1. e.target.type = 1 => e.target.id \in TxIds
      BY <1>2, <1>4, TargetFacts DEF TxIds
    <2>2. Recorded(HistoryRow(e.target, Len(log) + 1, changes))
      BY <1>2, <1>3
    <2> QED
      BY <1>2, <1>5, <1>7, <2>1, <2>2, BooksWritten
  <1>9. AccountsInv'
    BY <1>2, <1>3, <1>4, <1>5, AccountsAside
  <1>10. OneParent'
    <2>1. PICK r : r = [parent |-> t, child |-> -(Len(log) + 1), type |-> "amends"]
      OBVIOUS
    <2>2. Len(log) \in Nat /\ Len(log') = Len(log) + 1
      BY <1>2, <1>5, LogGrows DEF Appended
    <2>3. r.child \in Children' \ Children
      <3>1. r.child \notin Children /\ r.child = -(Len(log) + 1)
        BY <2>1, NewOnes
      <3>2. Len(log) + 1 \in 1..Len(log')
        BY <2>2
      <3>3. -(Len(log) + 1) \in {-i : i \in 1..Len(log')}
        BY <3>2
      <3> QED
        BY <3>1, <3>3 DEF Children
    <2>4. rels' = rels \cup {r} /\ DOMAIN txs \subseteq DOMAIN txs'
      BY <1>4, <1>7, <2>1
    <2> QED
      BY <1>2, <1>5, <2>3, <2>4, ParentsKept
  <1> QED
    BY <1>6, <1>8, <1>9, <1>10 DEF MetadataInv

(***************************************************************************)
(* SubmitSetMetadata keeps the invariant.                                  *)
(***************************************************************************)
LEMMA SetKeeps ==
    ASSUME MetadataInv, NEW meta \in Objects,
           NEW target \in {AccountTarget(a) : a \in Accounts} \cup {TxTarget(t) : t \in TxIds},
           SubmitSetMetadata(target, meta)
    PROVE  MetadataInv'
  <1>1. PICK e : e = [type |-> "MetadataSet", target |-> target, data |-> meta]
    OBVIOUS
  <1>2. e.type = "MetadataSet" /\ e.target = target /\ e.data = meta /\ Appended(e)
    BY <1>1 DEF SubmitSetMetadata, AppendEvent, Appended
  <1>3. Recorded(HistoryRow(target, Len(log) + 1, meta)) /\ rels' = rels
    BY DEF SubmitSetMetadata, InsertMetadataHistory, Recorded, NextSeq
  <1>4. BooksInv /\ TxsInv /\ AccountsInv /\ OneParent
    BY DEF MetadataInv
  <1>5. CASE target.type = 0
    <2>1. PICK a \in Accounts : target = AccountTarget(a)
      <3>1. \A t : TxTarget(t).type = 1
        BY TargetFacts
      <3>2. target \notin {TxTarget(t) : t \in TxIds}
        BY <1>5, <3>1
      <3> QED
        BY <3>2
    <2>2. accounts' = UpsertAccount({a}, meta) /\ txs' = txs
      <3>1. target.id = a
        BY <2>1, TargetFacts
      <3> QED
        BY <1>5, <3>1 DEF SubmitSetMetadata
    <2>3. AccountsInv'
      BY <1>2, <1>3, <1>4, <2>1, <2>2, AccountGiven
    <2>4. BooksInv'
      BY <1>2, <1>3, <1>4, <1>5, <2>2, BooksWritten
    <2>5. TxsInv'
      <3>1. \A t \in DOMAIN txs : e.target # TxTarget(t)
        BY <1>2, <2>1, TargetFacts
      <3>2. \E row : history' = Append(history, row) /\ row.target = e.target
        <4>1. HistoryRow(target, Len(log) + 1, meta).target = target
          BY DEF HistoryRow
        <4> QED
          BY <1>2, <1>3, <4>1 DEF Recorded
      <3> QED
        BY <1>2, <1>4, <2>2, <3>1, <3>2, TxsLeftAlone DEF Appended
    <2>6. OneParent'
      BY <1>2, <1>3, <1>4, <2>2, ParentsKept
    <2> QED
      BY <2>3, <2>4, <2>5, <2>6 DEF MetadataInv
  <1>6. CASE target.type = 1
    <2>1. PICK t \in TxIds : target = TxTarget(t)
      <3>1. \A a : AccountTarget(a).type = 0
        BY TargetFacts
      <3>2. target \notin {AccountTarget(a) : a \in Accounts}
        BY <1>6, <3>1
      <3> QED
        BY <3>2
    <2>2. t \in DOMAIN txs /\ txs' = [txs EXCEPT ![t].meta = Concat(@, meta)] /\ accounts' = accounts
      <3>1. target.id = t
        BY <2>1, TargetFacts
      <3> QED
        BY <1>6, <3>1 DEF SubmitSetMetadata, UpdateTransactionMetadata
    <2>3. TxsInv'
      BY <1>2, <1>3, <1>4, <2>1, <2>2, TxChanged
    <2>4. DOMAIN txs' = DOMAIN txs
      BY <1>4, <2>2, SameTransactions
    <2>5. BooksInv'
      <3>1. e.target.type = 1 => e.target.id \in TxIds
        BY <1>2, <2>1, TargetFacts
      <3> QED
        BY <1>2, <1>3, <1>4, <2>4, <3>1, BooksWritten
    <2>6. AccountsInv'
      BY <1>2, <1>3, <1>4, <2>1, <2>2, AccountsAside
    <2>7. OneParent'
      BY <1>2, <1>3, <1>4, <2>4, ParentsKept
    <2> QED
      BY <2>3, <2>5, <2>6, <2>7 DEF MetadataInv
  <1> QED
    BY <1>5, <1>6 DEF SubmitSetMetadata

(***************************************************************************)
(* DeleteAccountMetadata keeps the invariant.                              *)
(***************************************************************************)
LEMMA DeleteFromAccountKeeps ==
    ASSUME MetadataInv, NEW a \in Accounts, NEW key, DeleteAccountMetadata(a, key)
    PROVE  MetadataInv'
  <1>1. PICK e : e = [type |-> "MetadataDeleted", target |-> AccountTarget(a), data |-> key]
    OBVIOUS
  <1>2. e.type = "MetadataDeleted" /\ e.target = AccountTarget(a) /\ Appended(e)
    BY <1>1 DEF DeleteAccountMetadata, AppendEvent, Appended
  <1>3. PICK meta : meta = IF a \in DOMAIN accounts THEN accounts'[a] ELSE Empty
    OBVIOUS
  <1>4. Recorded(HistoryRow(AccountTarget(a), Len(log) + 1, meta)) /\ txs' = txs /\ rels' = rels
    BY <1>3 DEF DeleteAccountMetadata, InsertMetadataHistory, Recorded, NextSeq
  <1>5. BooksInv /\ TxsInv /\ AccountsInv /\ OneParent
    BY DEF MetadataInv
  <1>6. AccountsInv'
    <2>1. accounts' = IF a \in DOMAIN accounts
                      THEN UpsertAccount({a}, Object(Without(Fields(accounts[a]), key)))
                      ELSE accounts
      BY DEF DeleteAccountMetadata
    <2> QED
      BY <1>2, <1>3, <1>4, <1>5, <2>1, AccountKeyDeleted
  <1>7. BooksInv'
    <2>1. e.target.type # 1
      BY <1>2, TargetFacts
    <2> QED
      BY <1>2, <1>4, <1>5, <2>1, BooksWritten
  <1>8. TxsInv'
    <2>1. \A t \in DOMAIN txs : e.target # TxTarget(t)
      BY <1>2, TargetFacts
    <2>2. \E row : history' = Append(history, row) /\ row.target = e.target
      <3>1. HistoryRow(AccountTarget(a), Len(log) + 1, meta).target = AccountTarget(a)
        BY DEF HistoryRow
      <3> QED
        BY <1>2, <1>4, <3>1 DEF Recorded
    <2> QED
      BY <1>2, <1>4, <1>5, <2>1, <2>2, TxsLeftAlone DEF Appended
  <1>9. OneParent'
    BY <1>2, <1>4, <1>5, ParentsKept
  <1> QED
    BY <1>6, <1>7, <1>8, <1>9 DEF MetadataInv

(***************************************************************************)
(* DeleteTransactionMetadata keeps the invariant, for a transaction that   *)
(* is there and for one that is not, which gets its event and its row all  *)
(* the same.                                                               *)
(***************************************************************************)
LEMMA DeleteFromTransactionKeeps ==
    ASSUME MetadataInv, NEW t \in TxIds, NEW key, DeleteTransactionMetadata(t, key)
    PROVE  MetadataInv'
  <1>1. PICK e : e = [type |-> "MetadataDeleted", target |-> TxTarget(t), data |-> key]
    OBVIOUS
  <1>2. e.type = "MetadataDeleted" /\ e.target = TxTarget(t) /\ e.data = key /\ Appended(e)
    BY <1>1 DEF DeleteTransactionMetadata, AppendEvent, Appended
  <1>3. PICK meta : meta = IF t \in DOMAIN txs THEN txs'[t].meta ELSE Empty
    OBVIOUS
  <1>4. Recorded(HistoryRow(TxTarget(t), Len(log) + 1, meta)) /\ accounts' = accounts /\ rels' = rels
    BY <1>3 DEF DeleteTransactionMetadata, InsertMetadataHistory, Recorded, NextSeq
  <1>5. BooksInv /\ TxsInv /\ AccountsInv /\ OneParent
    BY DEF MetadataInv
  <1>6. DOMAIN txs' = DOMAIN txs /\ TxsInv'
    <2>1. CASE t \in DOMAIN txs
      <3>1. /\ CanMinus(txs[t].meta) /\ Readable(txs[t].meta)
            /\ txs' = [txs EXCEPT ![t].meta = Minus(@, key)]
        BY <2>1 DEF DeleteTransactionMetadata, DeleteTransactionMetadataKey
      <3>2. Recorded(HistoryRow(TxTarget(t), Len(log) + 1, txs'[t].meta))
        BY <1>3, <1>4, <2>1
      <3>3. TxsInv'
        BY <1>2, <1>5, <2>1, <3>1, <3>2, TxKeyDeleted
      <3> QED
        BY <1>5, <2>1, <3>1, <3>3, SameTransactions
    <2>2. CASE t \notin DOMAIN txs
      <3>1. txs' = txs
        BY <2>2 DEF DeleteTransactionMetadata, DeleteTransactionMetadataKey
      <3>2. \A u \in DOMAIN txs : e.target # TxTarget(u)
        BY <1>2, <2>2, TargetFacts
      <3>3. \E row : history' = Append(history, row) /\ row.target = e.target
        <4>1. HistoryRow(TxTarget(t), Len(log) + 1, meta).target = TxTarget(t)
          BY DEF HistoryRow
        <4> QED
          BY <1>2, <1>4, <4>1 DEF Recorded
      <3> QED
        BY <1>2, <1>5, <3>1, <3>2, <3>3, TxsLeftAlone DEF Appended
    <2> QED
      BY <2>1, <2>2
  <1>7. BooksInv'
    <2>1. e.target.type = 1 => e.target.id \in TxIds
      BY <1>2, TargetFacts
    <2> QED
      BY <1>2, <1>4, <1>5, <1>6, <2>1, BooksWritten
  <1>8. AccountsInv'
    BY <1>2, <1>4, <1>5, AccountsAside
  <1>9. OneParent'
    BY <1>2, <1>4, <1>5, <1>6, ParentsKept
  <1> QED
    BY <1>6, <1>7, <1>8, <1>9 DEF MetadataInv

(***************************************************************************)
(* SubmitInsertSchema keeps the invariant.                                 *)
(***************************************************************************)
LEMMA SchemaKeeps ==
    ASSUME MetadataInv, NEW version, NEW chart, SubmitInsertSchema(version, chart)
    PROVE  MetadataInv'
  <1>1. PICK e : e = [type |-> "SchemaInserted", target |-> AccountTarget(<<>>), data |-> chart]
    OBVIOUS
  <1>2. /\ e.type = "SchemaInserted" /\ e.target = AccountTarget(<<>>) /\ Appended(e)
        /\ accounts' = accounts /\ txs' = txs /\ history' = history /\ rels' = rels
    BY <1>1 DEF SubmitInsertSchema, AppendEvent, Appended
  <1>3. BooksInv /\ TxsInv /\ AccountsInv /\ OneParent
    BY DEF MetadataInv
  <1>4. BooksInv'
    <2>1. e.target.type # 1 /\ e.type \notin MetadataEvents
      BY <1>2, TargetFacts DEF MetadataEvents
    <2>2. log' = Append(log, e) /\ DOMAIN txs \subseteq DOMAIN txs'
      BY <1>2 DEF Appended
    <2> QED
      BY <1>2, <1>3, <2>1, <2>2, BooksKept
  <1>5. TxsInv'
    <2>1. \A t \in DOMAIN txs : e.target # TxTarget(t)
      BY <1>2, TargetFacts
    <2> QED
      BY <1>2, <1>3, <2>1, TxsLeftAlone DEF Appended
  <1>6. AccountsInv'
    BY <1>2, <1>3, AccountsTouched
  <1>7. OneParent'
    BY <1>2, <1>3, ParentsKept
  <1> QED
    BY <1>4, <1>5, <1>6, <1>7 DEF MetadataInv

(***************************************************************************)
(* The invariant holds at the start: nothing is rebuilt from nothing.      *)
(***************************************************************************)
LEMMA MetadataStarts == Init => MetadataInv
  <1> SUFFICES ASSUME Init PROVE MetadataInv
    OBVIOUS
  <1>1. log = <<>> /\ accounts = << >> /\ txs = <<>> /\ history = <<>> /\ rels = {}
    BY DEF Init
  <1>2. DOMAIN log = {} /\ DOMAIN accounts = {} /\ DOMAIN txs = {} /\ DOMAIN history = {}
    BY <1>1
  <1>3. <<>> \in Seq(Elements(<<>>))
    OBVIOUS
  <1>4. log \in Seq(Elements(log)) /\ history \in Seq(Elements(history)) /\ txs \in Seq(Elements(txs))
    BY <1>1, <1>3
  <1>5. BooksInv
    BY <1>2, <1>4 DEF BooksInv, EventsHaveRows, RevisionsGrow
  <1>6. TxsInv
    BY <1>2, <1>4 DEF TxsInv, TransactionsFollowLog, Unreadable, TransactionsRebuilt
  <1>7. AccountsInv
    <2>1. ASSUME NEW a \in Accounts PROVE FromHistory(AccountTarget(a), Empty) = Empty
      <3>1. PICK h, target : h = history /\ target = AccountTarget(a)
        OBVIOUS
      <3>2. h \in Seq(Elements(h)) /\ \A i \in DOMAIN h : h[i].target # target \/ h[i].revision = 0
        BY <1>2, <1>4, <3>1
      <3>3. Rebuilt(h, log, target, Empty)[Len(h)] = Empty
        <4> HIDE <3>1
        <4> QED
          BY <3>2, NothingRebuilt
      <3> QED
        BY <3>1, <3>3 DEF FromHistory
    <2> QED
      BY <1>2, <2>1 DEF AccountsInv, AccountsRebuilt
  <1>8. OneParent
    BY <1>1 DEF OneParent
  <1> QED
    BY <1>5, <1>6, <1>7, <1>8 DEF MetadataInv

-----------------------------------------------------------------------------
(***************************************************************************)
(* The inductive invariant holds always: the books are in order, and the   *)
(* transactions, accounts and relationships follow them.                   *)
(***************************************************************************)
THEOREM MetadataInvariance == Spec => []MetadataInv
  <1>1. Init => MetadataInv
    BY MetadataStarts
  <1>2. ASSUME MetadataInv, [Next]_vars PROVE MetadataInv'
    <2>1. ASSUME NEW src \in Accounts, NEW dst \in Accounts, NEW meta \in Objects \cup {Null},
                 SubmitPost(src, dst, meta)
          PROVE  MetadataInv'
      BY <1>2, <2>1, PostKeeps
    <2>2. ASSUME NEW t \in DOMAIN txs, SubmitRevert(t) PROVE MetadataInv'
      BY <1>2, <2>2, RevertKeeps
    <2>3. ASSUME NEW t \in DOMAIN txs, NEW changes \in Objects, SubmitAmend(t, changes) PROVE MetadataInv'
      BY <1>2, <2>3, AmendKeeps
    <2>4. ASSUME NEW target \in {AccountTarget(a) : a \in Accounts} \cup {TxTarget(t) : t \in TxIds},
                 NEW meta \in Objects, SubmitSetMetadata(target, meta)
          PROVE  MetadataInv'
      BY <1>2, <2>4, SetKeeps
    <2>5. ASSUME NEW a \in Accounts, NEW key \in Keys, DeleteAccountMetadata(a, key) PROVE MetadataInv'
      BY <1>2, <2>5, DeleteFromAccountKeeps
    <2>6. ASSUME NEW t \in TxIds, NEW key \in Keys, DeleteTransactionMetadata(t, key) PROVE MetadataInv'
      BY <1>2, <2>6, DeleteFromTransactionKeeps
    <2>7. ASSUME NEW version \in Versions, NEW chart \in Charts, SubmitInsertSchema(version, chart)
          PROVE  MetadataInv'
      BY <1>2, <2>7, SchemaKeeps
    <2>8. CASE UNCHANGED vars \/ \E t \in TxIds, op \in {"revert", "amend"} : FindOriginal(op, t)
      <3>1. log' = log /\ accounts' = accounts /\ txs' = txs /\ history' = history /\ rels' = rels
        BY <2>8 DEF vars, FindOriginal
      <3>2. BooksInv'
        BY <1>2, <3>1 DEF MetadataInv, BooksInv, TxIds, EventsHaveRows, RevisionsGrow
      <3>3. TxsInv'
        BY <1>2, <3>1 DEF MetadataInv, TxsInv, TransactionsFollowLog, TransactionsRebuilt, FromHistory,
                          Unreadable, GivenMetadata
      <3>4. AccountsInv'
        BY <1>2, <3>1 DEF MetadataInv, AccountsInv, AccountsRebuilt, FromHistory
      <3>5. OneParent'
        BY <1>2, <3>1 DEF MetadataInv, OneParent
      <3> QED
        BY <3>2, <3>3, <3>4, <3>5 DEF MetadataInv
    <2> QED
      BY <1>2, <2>1, <2>2, <2>3, <2>4, <2>5, <2>6, <2>7, <2>8 DEF Next
  <1> QED
    BY <1>1, <1>2, PTL DEF Spec

(***************************************************************************)
(* The metadata of every transaction that was posted with some is what the *)
(* log says of it, however long the log (InsertTransaction,                *)
(* UpdateTransactionMetadata, DeleteTransactionMetadataKey).               *)
(***************************************************************************)
THEOREM MetadataFollowsLog == Spec => []TransactionsFollowLog
  <1>1. MetadataInv => TransactionsFollowLog
    BY DEF MetadataInv, TxsInv
  <1> QED
    BY <1>1, MetadataInvariance, PTL

(***************************************************************************)
(* The history gives back the metadata of every transaction and account,   *)
(* has a row for every event about metadata, and its revisions grow        *)
(* (InsertMetadataHistory in every do*InTx).                               *)
(***************************************************************************)
THEOREM HistoryIsExact == Spec => []HistoryRebuilds
  <1>1. MetadataInv => HistoryRebuilds
    BY DEF MetadataInv, BooksInv, TxsInv, AccountsInv, HistoryRebuilds
  <1> QED
    BY <1>1, MetadataInvariance, PTL

(***************************************************************************)
(* GetRelationships gives the line of a transaction, with the turns it     *)
(* takes, however the transactions were reverted and amended.              *)
(***************************************************************************)
THEOREM RelationshipsGiveLineage == Spec => []RelationshipsAreLineage
  <1>1. MetadataInv => RelationshipsAreLineage
    <2> SUFFICES ASSUME MetadataInv, NEW t \in DOMAIN txs, NEW depth \in 1..4
                 PROVE  GetRelationships(t, depth) = Lineage(t, depth)
      BY DEF RelationshipsAreLineage
    <2>1. depth \in Nat \ {0}
      OBVIOUS
    <2> QED
      BY <2>1, LineageToEveryDepth DEF MetadataInv
  <1> QED
    BY <1>1, MetadataInvariance, PTL

(***************************************************************************)
(* A stored chart admits only addresses on it, and its verdict on an       *)
(* address that is not ambiguous is the right one, for any charts and any  *)
(* addresses (validateSegments, matchNode).                                *)
(***************************************************************************)
THEOREM ChartsAreExact == Spec => []ChartIsExact
  <1>1. ChartIsExact
    <2> SUFFICES ASSUME NEW v \in DOMAIN schemas, NEW a \in Addresses, NEW chart, chart = schemas[v].chart
                 PROVE  /\ TRUE \in ValidateAccount(chart, a) => OnChart(chart, a)
                        /\ ~Ambiguous(chart, a) => ValidateAccount(chart, a) = {OnChart(chart, a)}
      BY DEF ChartIsExact
    <2>1. a \in Seq(STRING)
      BY MetadataAssumption
    <2> QED
      BY <2>1, WalkIsExact
  <1> QED
    BY <1>1, PTL

\* What type correctness adds to the invariant.
SizedInv ==
    /\ Len(log) <= MaxLog /\ Len(txs) <= MaxTxs /\ DOMAIN schemas \subseteq Versions
    /\ \A t \in DOMAIN txs : txs[t].meta \in Json \/ txs[t].meta.kind = "array"

(***************************************************************************)
(* A transaction that is written stays typed if the new metadata is.       *)
(***************************************************************************)
LEMMA MetaStaysTyped ==
    ASSUME MetadataInv, SizedInv, NEW t \in DOMAIN txs, NEW new, txs' = [txs EXCEPT ![t].meta = new],
           new \in Json \/ new.kind = "array"
    PROVE  /\ Len(txs') = Len(txs)
           /\ \A u \in DOMAIN txs' : txs'[u].meta \in Json \/ txs'[u].meta.kind = "array"
  <1>1. txs \in Seq(Elements(txs)) /\ TxType(txs[t])
    BY DEF MetadataInv, TxsInv
  <1>2. PICK x : x = [txs[t] EXCEPT !.meta = new]
    OBVIOUS
  <1>3. x.meta = new
    BY <1>1, <1>2 DEF TxType
  <1>4. txs' = [txs EXCEPT ![t] = x]
    BY <1>2
  <1>5. Len(txs') = Len(txs) /\ DOMAIN txs' = DOMAIN txs /\ \A u \in DOMAIN txs : txs'[u] = IF u = t THEN x ELSE txs[u]
    BY <1>1, <1>4
  <1> QED
    BY <1>3, <1>5 DEF SizedInv

(***************************************************************************)
(* A new transaction is typed.                                             *)
(***************************************************************************)
LEMMA NewIsTyped ==
    ASSUME MetadataInv, SizedInv, NEW meta \in Json, NEW src, NEW dst, Len(txs) < MaxTxs,
           txs' = InsertTransaction(meta, src, dst)
    PROVE  /\ Len(txs') <= MaxTxs
           /\ \A u \in DOMAIN txs' : txs'[u].meta \in Json \/ txs'[u].meta.kind = "array"
  <1>1. txs \in Seq(Elements(txs))
    BY DEF MetadataInv, TxsInv
  <1>2. PICK x : x = [meta |-> meta, src |-> src, dst |-> dst, born |-> meta]
    OBVIOUS
  <1>3. x.meta = meta /\ txs' = Append(txs, x)
    BY <1>2 DEF InsertTransaction
  <1>4. /\ Len(txs) \in Nat /\ Len(txs') = Len(txs) + 1 /\ DOMAIN txs = 1..Len(txs)
        /\ DOMAIN txs' = 1..(Len(txs) + 1) /\ txs'[Len(txs) + 1] = x
        /\ \A u \in 1..Len(txs) : txs'[u] = txs[u]
    BY <1>1, <1>3, AppendFacts
  <1>5. Len(txs') <= MaxTxs
    BY <1>4, MetadataAssumption
  <1> QED
    BY <1>3, <1>4, <1>5 DEF SizedInv

(***************************************************************************)
(* || and - keep metadata typed.                                           *)
(***************************************************************************)
LEMMA JsonStaysTyped ==
    ASSUME NEW j, j \in Json \/ j.kind = "array", NEW k \in Objects, NEW key
    PROVE  /\ Concat(j, k) \in Json \/ Concat(j, k).kind = "array"
           /\ CanMinus(j) => Minus(j, key) \in Json \/ Minus(j, key).kind = "array"
  <1>1. CASE j \in Objects
    BY <1>1, ConcatFacts DEF Json
  <1>2. CASE j \notin Objects
    <2>1. j.kind # "object"
      BY <1>2, EmptyIsObject DEF Json
    <2> QED
      BY <2>1, ArrayFacts DEF Minus
  <1> QED
    BY <1>1, <1>2

(***************************************************************************)
(* Every step keeps types and bounds.                                      *)
(***************************************************************************)
LEMMA SizesKept ==
    ASSUME MetadataInv, SizedInv, [Next]_vars
    PROVE  SizedInv'
  <1>1. ASSUME NEW type, NEW target, NEW data, AppendEvent(type, target, data) PROVE Len(log') <= MaxLog
    <2>1. log \in Seq(Elements(log))
      BY DEF MetadataInv, BooksInv
    <2>2. PICK e : log' = Append(log, e)
      BY <1>1 DEF AppendEvent
    <2>3. Len(log) \in Nat /\ Len(log') = Len(log) + 1
      BY <2>1, <2>2, AppendFacts
    <2> QED
      BY <1>1, <2>3, MetadataAssumption DEF AppendEvent
  <1>2. ASSUME NEW src, NEW dst, NEW meta \in Objects \cup {Null}, SubmitPost(src, dst, meta) PROVE SizedInv'
    <2>1. Len(log') <= MaxLog
      BY <1>1, <1>2 DEF SubmitPost
    <2>2. /\ Len(txs) < MaxTxs /\ txs' = InsertTransaction(meta, src, dst) /\ schemas' = schemas
      BY <1>2 DEF SubmitPost
    <2> QED
      BY <2>1, <2>2, NewIsTyped DEF SizedInv, Json
  <1>3. ASSUME NEW t, SubmitRevert(t) PROVE SizedInv'
    <2>1. Len(log') <= MaxLog
      BY <1>1, <1>3 DEF SubmitRevert
    <2>2. /\ Len(txs) < MaxTxs /\ txs' = InsertTransaction(Empty, txs[t].dst, txs[t].src) /\ schemas' = schemas
      BY <1>3 DEF SubmitRevert
    <2>3. Empty \in Json
      BY EmptyIsObject DEF Json
    <2>4. PICK src, dst : src = txs[t].dst /\ dst = txs[t].src
      OBVIOUS
    <2> QED
      BY <2>1, <2>2, <2>3, <2>4, NewIsTyped DEF SizedInv
  <1>4. ASSUME NEW t, NEW meta \in Objects, UpdateTransactionMetadata(t, meta)
        PROVE  /\ Len(txs') = Len(txs)
               /\ \A u \in DOMAIN txs' : txs'[u].meta \in Json \/ txs'[u].meta.kind = "array"
    <2>1. t \in DOMAIN txs
      BY <1>4 DEF UpdateTransactionMetadata
    <2>2. PICK j, new : j = txs[t].meta /\ new = Concat(j, meta)
      OBVIOUS
    <2>3. txs' = [txs EXCEPT ![t].meta = new]
      BY <1>4, <2>2 DEF UpdateTransactionMetadata
    <2>4. j \in Json \/ j.kind = "array"
      BY <2>1, <2>2 DEF SizedInv
    <2>5. new \in Json \/ new.kind = "array"
      BY <2>2, <2>4, JsonStaysTyped
    <2> QED
      BY <2>1, <2>3, <2>5, MetaStaysTyped
  <1>5. ASSUME NEW t, NEW changes \in Objects, SubmitAmend(t, changes) PROVE SizedInv'
    <2>1. Len(log') <= MaxLog
      BY <1>1, <1>5 DEF SubmitAmend
    <2>2. UpdateTransactionMetadata(t, changes) /\ schemas' = schemas
      BY <1>5 DEF SubmitAmend
    <2> QED
      BY <1>4, <2>1, <2>2 DEF SizedInv
  <1>6. ASSUME NEW target, NEW meta \in Objects, SubmitSetMetadata(target, meta) PROVE SizedInv'
    <2>1. Len(log') <= MaxLog
      BY <1>1, <1>6 DEF SubmitSetMetadata
    <2>2. (txs' = txs \/ UpdateTransactionMetadata(target.id, meta)) /\ schemas' = schemas
      BY <1>6 DEF SubmitSetMetadata
    <2>3. CASE txs' = txs
      BY <2>1, <2>2, <2>3 DEF SizedInv
    <2>4. CASE UpdateTransactionMetadata(target.id, meta)
      <3>1. PICK t : t = target.id
        OBVIOUS
      <3>2. UpdateTransactionMetadata(t, meta)
        BY <2>4, <3>1
      <3> QED
        BY <1>4, <2>1, <2>2, <3>2 DEF SizedInv
    <2> QED
      BY <2>2, <2>3, <2>4
  <1>7. ASSUME NEW a, NEW key, DeleteAccountMetadata(a, key) PROVE SizedInv'
    <2>1. Len(log') <= MaxLog
      BY <1>1, <1>7 DEF DeleteAccountMetadata
    <2>2. txs' = txs /\ schemas' = schemas
      BY <1>7 DEF DeleteAccountMetadata
    <2> QED
      BY <2>1, <2>2 DEF SizedInv
  <1>8. ASSUME NEW t, NEW key, DeleteTransactionMetadata(t, key) PROVE SizedInv'
    <2>1. Len(log') <= MaxLog
      BY <1>1, <1>8 DEF DeleteTransactionMetadata
    <2>2. DeleteTransactionMetadataKey(t, key) /\ schemas' = schemas
      BY <1>8 DEF DeleteTransactionMetadata
    <2>3. CASE t \notin DOMAIN txs
      BY <2>1, <2>2, <2>3 DEF SizedInv, DeleteTransactionMetadataKey
    <2>4. CASE t \in DOMAIN txs
      <3>1. PICK j, new : j = txs[t].meta /\ new = Minus(j, key)
        OBVIOUS
      <3>2. CanMinus(j) /\ txs' = [txs EXCEPT ![t].meta = new]
        BY <2>2, <2>4, <3>1 DEF DeleteTransactionMetadataKey
      <3>3. j \in Json \/ j.kind = "array"
        BY <2>4, <3>1 DEF SizedInv
      <3>4. new \in Json \/ new.kind = "array"
        BY <3>1, <3>2, <3>3, EmptyIsObject, JsonStaysTyped
      <3> QED
        BY <2>1, <2>2, <2>4, <3>2, <3>4, MetaStaysTyped DEF SizedInv
    <2> QED
      BY <2>3, <2>4
  <1>9. ASSUME NEW version \in Versions, NEW chart, SubmitInsertSchema(version, chart) PROVE SizedInv'
    <2>1. Len(log') <= MaxLog
      BY <1>1, <1>9 DEF SubmitInsertSchema
    <2>2. txs' = txs /\ DOMAIN schemas' = DOMAIN schemas \cup {version}
      BY <1>9 DEF SubmitInsertSchema
    <2> QED
      BY <2>1, <2>2 DEF SizedInv
  <1>10. CASE UNCHANGED vars \/ \E t \in TxIds, op \in {"revert", "amend"} : FindOriginal(op, t)
    BY <1>10 DEF vars, FindOriginal, SizedInv
  <1> QED
    BY <1>2, <1>3, <1>5, <1>6, <1>7, <1>8, <1>9, <1>10 DEF Next

(***************************************************************************)
(* Type correctness: accounts have objects, transactions objects, null or  *)
(* arrays, and nothing grows past its bound.                               *)
(***************************************************************************)
THEOREM MetadataTypeCorrect == Spec => []TypeOK
  <1>1. Init => SizedInv
    <2> SUFFICES ASSUME Init PROVE SizedInv
      OBVIOUS
    <2>1. Len(log) = 0 /\ Len(txs) = 0 /\ DOMAIN txs = {} /\ DOMAIN schemas = {}
      BY DEF Init
    <2> QED
      BY <2>1, MetadataAssumption DEF SizedInv
  <1>2. MetadataInv /\ SizedInv /\ [Next]_vars => SizedInv'
    BY SizesKept
  <1>3. MetadataInv /\ SizedInv => TypeOK
    <2> SUFFICES ASSUME MetadataInv, SizedInv PROVE TypeOK
      OBVIOUS
    <2>1. log \in Seq(Elements(log)) /\ \A i \in DOMAIN history : history[i].revision \in 0..Len(log)
      BY DEF MetadataInv, BooksInv
    <2>2. Len(log) \in Nat /\ Len(log) <= MaxLog /\ MaxLog \in Nat
      BY <2>1, AppendFacts, MetadataAssumption DEF SizedInv
    <2>3. \A i \in DOMAIN history : history[i].revision \in 0..MaxLog
      BY <2>1, <2>2
    <2>4. \A t \in DOMAIN txs : {txs[t].src, txs[t].dst} \subseteq Accounts
      BY DEF MetadataInv, TxsInv, TxType
    <2>5. DOMAIN accounts \subseteq Accounts /\ \A a \in DOMAIN accounts : accounts[a] \in Objects
      BY DEF MetadataInv, AccountsInv
    <2> QED
      BY <2>3, <2>4, <2>5 DEF SizedInv, TypeOK
  <1> QED
    BY <1>1, <1>2, <1>3, MetadataInvariance, PTL DEF Spec
=============================================================================
