-------------------------- MODULE MerkleBatchProofs --------------------------
(***************************************************************************)
(* Proofs about MerkleBatch, for any number of processes, writers, events  *)
(* and batches: a root covers a beginning of its batch, VerifyBatch tells  *)
(* exactly whether it is the whole, and the chain of the batches does not  *)
(* fork.                                                                   *)
(***************************************************************************)
EXTENDS MerkleBatch, WellFoundedInduction, TLAPS, FiniteSetTheorems, SequenceTheorems

-----------------------------------------------------------------------------
(***************************************************************************)
(* Induction on natural numbers in a first-order form: what is shown of    *)
(* every number is membership in a set.  And what follows from it of the   *)
(* order in which the log is listed.                                       *)
(***************************************************************************)

(***************************************************************************)
(* A set of natural numbers that is not empty has a least element.         *)
(***************************************************************************)
LEMMA LeastNumber ==
    ASSUME NEW T, T \subseteq Nat, T # {}
    PROVE  \E m \in T : \A n \in T : m <= n
  <1> DEFINE R == {ss \in Nat \X Nat : ss[1] < ss[2]}
  <1>1. IsWellFoundedOn(R, Nat)
    BY NatLessThanWellFounded DEF OpToRel
  <1>2. \A n, m \in Nat : n < m => <<n, m>> \in R
    OBVIOUS
  <1> HIDE DEF R
  <1>3. PICK m \in T : \A n \in T : ~(<<n, m>> \in R)
    BY <1>1, WFMin
  <1>4. \A n \in T : ~(n < m)
    BY <1>2, <1>3
  <1> QED
    BY <1>3, <1>4

(***************************************************************************)
(* A set that has 0, and with every natural number the next, has them all. *)
(***************************************************************************)
LEMMA NumbersByInduction ==
    ASSUME NEW S, 0 \in S, \A n \in Nat : n \in S => n + 1 \in S
    PROVE  \A n \in Nat : n \in S
  <1> SUFFICES ASSUME NEW k \in Nat, k \notin S PROVE FALSE
    OBVIOUS
  <1> DEFINE T == Nat \ S
  <1>1. PICK m \in T : \A n \in T : m <= n
    BY LeastNumber
  <1>2. m # 0 /\ m - 1 \in Nat /\ m - 1 \notin T
    BY <1>1
  <1> QED
    BY <1>1, <1>2

(***************************************************************************)
(* The recursive definition of Ascending has a solution: there is one up   *)
(* to every number, and they agree with one another.                       *)
(***************************************************************************)
LEMMA AscendingDef ==
    ASSUME NEW K
    PROVE  /\ Ascending(K)[0] = <<>>
           /\ \A n \in Nat : Ascending(K)[n + 1] =
                 IF n + 1 \in K THEN Append(Ascending(K)[n], n + 1) ELSE Ascending(K)[n]
  <1> DEFINE Step(s, n) == IF n \in K THEN Append(s, n) ELSE s
             Upto(f, m) == f[0] = <<>> /\ \A n \in 0..(m - 1) : f[n + 1] = Step(f[n], n + 1)
             S == {m \in Nat : \E f : Upto(f, m)}
             T == {m \in Nat : \A p, q \in Nat : \A f, g :
                                  m <= p /\ m <= q /\ Upto(f, p) /\ Upto(g, q) => f[m] = g[m]}
             Sol(f) == f = [n \in Nat |-> IF n = 0 THEN <<>>
                                          ELSE IF n \in K THEN Append(f[n - 1], n) ELSE f[n - 1]]
  <1>1. 0 \in S
    <2> DEFINE f == [n \in {0} |-> <<>>]
    <2>1. f[0] = <<>> /\ 0..(0 - 1) = {}
      OBVIOUS
    <2>2. Upto(f, 0)
      BY <2>1
    <2> HIDE DEF f, Upto
    <2> QED
      BY <2>2
  <1>2. ASSUME NEW m \in Nat, m \in S PROVE m + 1 \in S
    <2>1. PICK f : Upto(f, m)
      BY <1>2
    <2> DEFINE g == [n \in 0..(m + 1) |-> IF n <= m THEN f[n] ELSE Step(f[m], m + 1)]
    <2>2. g[m + 1] = Step(f[m], m + 1) /\ \A n \in 0..m : g[n] = f[n]
      <3> HIDE DEF Step
      <3> QED
        OBVIOUS
    <2> HIDE DEF g
    <2>3. g[0] = <<>>
      BY <2>1, <2>2
    <2>4. ASSUME NEW n \in 0..((m + 1) - 1) PROVE g[n + 1] = Step(g[n], n + 1)
      <3> HIDE DEF Step
      <3>1. CASE n = m
        BY <2>2, <3>1
      <3>2. CASE n \in 0..(m - 1)
        <4>1. f[n + 1] = Step(f[n], n + 1)
          BY <2>1, <3>2
        <4>2. n \in 0..m /\ n + 1 \in 0..m
          BY <3>2
        <4> QED
          BY <2>2, <4>1, <4>2
      <3> QED
        BY <3>1, <3>2
    <2>5. Upto(g, m + 1)
      <3> HIDE DEF Step
      <3> QED
        BY <2>3, <2>4
    <2> HIDE DEF Upto
    <2> QED
      BY <2>5
  <1>3. \A m \in Nat : \E f : Upto(f, m)
    <2>1. \A m \in Nat : m \in S
      <3> HIDE DEF S
      <3> QED
        BY <1>1, <1>2, NumbersByInduction
    <2> HIDE DEF Upto
    <2> QED
      BY <2>1
  <1>4. \A m \in Nat : m \in T
    <2>1. 0 \in T
      <3> HIDE DEF Step
      <3> QED
        OBVIOUS
    <2>2. ASSUME NEW m \in Nat, m \in T PROVE m + 1 \in T
      <3> SUFFICES ASSUME NEW p \in Nat, NEW q \in Nat, NEW f, NEW g,
                          m + 1 <= p, m + 1 <= q, Upto(f, p), Upto(g, q)
                   PROVE  f[m + 1] = g[m + 1]
        OBVIOUS
      <3>1. f[m] = g[m]
        <4> HIDE DEF Upto
        <4> QED
          BY <2>2
      <3>2. m \in 0..(p - 1) /\ m \in 0..(q - 1)
        OBVIOUS
      <3>3. f[m + 1] = Step(f[m], m + 1) /\ g[m + 1] = Step(g[m], m + 1)
        <4> HIDE DEF Step
        <4> QED
          BY <3>2
      <3> HIDE DEF Step
      <3> QED
        BY <3>1, <3>3
    <2> HIDE DEF T
    <2> QED
      BY <2>1, <2>2, NumbersByInduction
  <1> DEFINE one(m) == CHOOSE f : Upto(f, m)
             all == [n \in Nat |-> one(n)[n]]
  <1>5. \A m \in Nat : Upto(one(m), m)
    <2> HIDE DEF Upto
    <2> QED
      BY <1>3
  <1>6. \A m \in Nat : all[m] = one(m)[m]
    <2> HIDE DEF one
    <2> QED
      OBVIOUS
  <1> HIDE DEF one
  <1>7. all[0] = <<>>
    BY <1>5, <1>6
  <1>8. ASSUME NEW n \in Nat PROVE all[n + 1] = Step(all[n], n + 1)
    <2>1. Upto(one(n + 1), n + 1) /\ Upto(one(n), n)
      BY <1>5
    <2>2. n \in 0..((n + 1) - 1)
      OBVIOUS
    <2>3. one(n + 1)[n + 1] = Step(one(n + 1)[n], n + 1)
      <3> HIDE DEF Step
      <3> QED
        BY <2>1, <2>2
    <2>4. one(n + 1)[n] = one(n)[n]
      <3> HIDE DEF Upto
      <3> QED
        BY <1>4, <2>1
    <2> HIDE DEF Step, all
    <2> QED
      BY <1>6, <2>3, <2>4
  <1>9. Sol(all)
    <2>1. ASSUME NEW n \in Nat
          PROVE  all[n] = IF n = 0 THEN <<>>
                          ELSE IF n \in K THEN Append(all[n - 1], n) ELSE all[n - 1]
      <3>1. CASE n = 0
        BY <1>7, <3>1
      <3>2. CASE n # 0
        <4>1. n - 1 \in Nat /\ (n - 1) + 1 = n
          BY <3>2
        <4>2. all[(n - 1) + 1] = Step(all[n - 1], (n - 1) + 1)
          BY <1>8, <4>1
        <4> HIDE DEF all
        <4> QED
          BY <3>2, <4>1, <4>2
      <3> QED
        BY <3>1, <3>2
    <2>2. all = [n \in Nat |-> all[n]]
      OBVIOUS
    <2> HIDE DEF all
    <2> QED
      BY <2>1, <2>2
  <1>10. Sol(Ascending(K))
    <2>1. Ascending(K) = CHOOSE f : Sol(f)
      BY DEF Ascending
    <2> HIDE DEF Sol
    <2> QED
      BY <1>9, <2>1, Zenon
  <1> DEFINE a == Ascending(K)
  <1>11. a = [n \in Nat |-> IF n = 0 THEN <<>>
                            ELSE IF n \in K THEN Append(a[n - 1], n) ELSE a[n - 1]]
    BY <1>10
  <1> HIDE DEF a
  <1>12. a[0] = <<>>
    BY <1>11
  <1>13. ASSUME NEW n \in Nat
         PROVE  a[n + 1] = IF n + 1 \in K THEN Append(a[n], n + 1) ELSE a[n]
    <2> DEFINE m == n + 1
    <2>1. m \in Nat /\ m # 0 /\ m - 1 = n
      OBVIOUS
    <2> HIDE DEF m
    <2>2. a[m] = IF m \in K THEN Append(a[m - 1], m) ELSE a[m - 1]
      BY <1>11, <2>1
    <2> QED
      BY <2>1, <2>2 DEF m
  <1> QED
    BY <1>12, <1>13 DEF a

(***************************************************************************)
(* It lists exactly the numbers of K, each once and in their order.        *)
(***************************************************************************)
LEMMA AscendingLists ==
    ASSUME NEW K, NEW n \in Nat
    PROVE  /\ Ascending(K)[n] \in Seq(K \cap (1..n))
           /\ Range(Ascending(K)[n]) = K \cap (1..n)
           /\ \A i, j \in 1..Len(Ascending(K)[n]) :
                 i < j => Ascending(K)[n][i] < Ascending(K)[n][j]
  <1> DEFINE a == Ascending(K)
             Lists(s, m) == /\ s \in Seq(K \cap (1..m))
                            /\ \A k \in K \cap (1..m) : \E i \in 1..Len(s) : s[i] = k
                            /\ \A i, j \in 1..Len(s) : i < j => s[i] < s[j]
             S == {m \in Nat : Lists(a[m], m)}
  <1>1. a[0] = <<>> /\ \A m \in Nat : a[m + 1] = IF m + 1 \in K THEN Append(a[m], m + 1) ELSE a[m]
    BY AscendingDef
  <1> HIDE DEF a
  <1>2. 0 \in S
    <2>1. K \cap (1..0) = {}
      OBVIOUS
    <2>2. Lists(<<>>, 0)
      BY <2>1
    <2> HIDE DEF Lists
    <2> QED
      BY <1>1, <2>2
  <1>3. ASSUME NEW m \in Nat, m \in S PROVE m + 1 \in S
    <2> DEFINE s == a[m]
    <2>1. Lists(s, m)
      BY <1>3
    <2> HIDE DEF s
    <2>2. 1..(m + 1) = (1..m) \cup {m + 1}
      OBVIOUS
    <2>3. Len(s) \in Nat /\ \A i \in 1..Len(s) : s[i] \in K /\ s[i] \in 1..m
      BY <2>1
    <2>4. CASE m + 1 \notin K
      <3>1. a[m + 1] = s
        BY <1>1, <2>4 DEF s
      <3>2. K \cap (1..(m + 1)) = K \cap (1..m)
        BY <2>2, <2>4
      <3>3. Lists(s, m + 1)
        BY <2>1, <3>2
      <3> HIDE DEF Lists
      <3> QED
        BY <3>1, <3>3
    <2>5. CASE m + 1 \in K
      <3> DEFINE t == Append(s, m + 1)
      <3>1. a[m + 1] = t
        BY <1>1, <2>5 DEF s
      <3>2. s \in Seq(K \cap (1..(m + 1)))
        BY <2>1, <2>2, <2>3
      <3>3. /\ t \in Seq(K \cap (1..(m + 1))) /\ Len(t) = Len(s) + 1
            /\ t[Len(s) + 1] = m + 1 /\ \A i \in 1..Len(s) : t[i] = s[i]
        BY <2>2, <2>5, <3>2
      <3> HIDE DEF t
      <3>4. 1..Len(t) = (1..Len(s)) \cup {Len(s) + 1}
        BY <2>3, <3>3
      <3>5. \A k \in K \cap (1..(m + 1)) : \E i \in 1..Len(t) : t[i] = k
        BY <2>1, <2>2, <3>3, <3>4
      <3>6. ASSUME NEW i \in 1..Len(t), NEW j \in 1..Len(t), i < j PROVE t[i] < t[j]
        <4>1. i \in 1..Len(s)
          BY <2>3, <3>3, <3>6
        <4>2. CASE j \in 1..Len(s)
          BY <2>1, <3>3, <3>6, <4>1, <4>2
        <4>3. CASE j = Len(s) + 1
          BY <2>3, <3>3, <4>1, <4>3
        <4> QED
          BY <3>4, <4>2, <4>3
      <3>7. Lists(t, m + 1)
        BY <3>3, <3>5, <3>6
      <3> HIDE DEF Lists
      <3> QED
        BY <3>1, <3>7
    <2> QED
      BY <2>4, <2>5
  <1>4. Lists(a[n], n)
    <2>1. n \in S
      <3> HIDE DEF S
      <3> QED
        BY <1>2, <1>3, NumbersByInduction
    <2> HIDE DEF Lists
    <2> QED
      BY <2>1
  <1> DEFINE s == a[n]
  <1>5. Lists(s, n)
    BY <1>4
  <1> HIDE DEF s
  <1>6. DOMAIN s = 1..Len(s)
    BY <1>5
  <1>7. Range(s) = K \cap (1..n)
    <2>1. \A x \in Range(s) : x \in K \cap (1..n)
      BY <1>5, <1>6 DEF Range
    <2>2. \A x \in K \cap (1..n) : x \in Range(s)
      BY <1>5, <1>6 DEF Range
    <2> QED
      BY <2>1, <2>2
  <1> QED
    BY <1>5, <1>7 DEF s, a

(***************************************************************************)
(* What it lists up to n depends only on the numbers up to n.              *)
(***************************************************************************)
LEMMA AscendingAgree ==
    ASSUME NEW K, NEW L, NEW n \in Nat, K \cap (1..n) = L \cap (1..n)
    PROVE  Ascending(K)[n] = Ascending(L)[n]
  <1> DEFINE a == Ascending(K)
             b == Ascending(L)
             S == {m \in Nat : m <= n => a[m] = b[m]}
  <1>1. a[0] = <<>> /\ \A m \in Nat : a[m + 1] = IF m + 1 \in K THEN Append(a[m], m + 1) ELSE a[m]
    BY AscendingDef
  <1>2. b[0] = <<>> /\ \A m \in Nat : b[m + 1] = IF m + 1 \in L THEN Append(b[m], m + 1) ELSE b[m]
    BY AscendingDef
  <1> HIDE DEF a, b
  <1>3. 0 \in S
    BY <1>1, <1>2
  <1>4. ASSUME NEW m \in Nat, m \in S PROVE m + 1 \in S
    <2> SUFFICES ASSUME m + 1 <= n PROVE a[m + 1] = b[m + 1]
      OBVIOUS
    <2>1. a[m] = b[m]
      BY <1>4
    <2>2. m + 1 \in 1..n
      OBVIOUS
    <2>3. m + 1 \in K <=> m + 1 \in L
      BY <2>2
    <2> QED
      BY <1>1, <1>2, <2>1, <2>3
  <1>5. n \in S
    <2> HIDE DEF S
    <2> QED
      BY <1>3, <1>4, NumbersByInduction
  <1> QED
    BY <1>5 DEF a, b

-----------------------------------------------------------------------------
(***************************************************************************)
(* The invariant.                                                          *)
(***************************************************************************)

Known == 1..Len(batches)

IsList(s) == Len(s) \in Nat /\ s = [i \in 1..Len(s) |-> s[i]]

\* Batches are made one after the other and follow earlier ones; they age in
\* the order in which they were made.
TableInv ==
    /\ IsList(batches)
    /\ \A b \in Known :
          /\ DOMAIN batches[b] = {"prev", "root", "leaves", "eventCount"}
          /\ batches[b].prev \in 0..(b - 1)
    /\ log \in Seq(Known)
    /\ \E k \in 0..Len(batches) : aged = 1..k

ProcessInv ==
    /\ cache \in [Procs -> [batchID : Known \cup {NoBatch}, eventCount : Nat]]
    /\ mutex \in [Procs -> Writers \cup {NoWriter}]
    /\ writer \in [Writers -> [pc : {"idle", "tx", "creating", "assigned"},
                               batchID : Known \cup {NoBatch}]]
    /\ \A w \in Writers : writer[w].pc = "assigned" => writer[w].batchID # NoBatch
    /\ crashes \in Nat

\* ListBatchEvents, when the log is l.
Places(l, b) == {i \in 1..Len(l) : l[i] = b}
ListIn(l, b) == Ascending(Places(l, b))[Len(l)]

\* What a list of events is to a batch that it was read from.
Beginning(l, events, b) ==
    events \in Seq(Nat) /\ events # <<>> /\ IsPrefix(events, ListIn(l, b))

\* A close holds what it has read, and a root is made of what was read.
CloseOK(l, c) ==
    /\ DOMAIN c = {"batchID", "by", "step", "attempt", "events"}
    /\ c.step = "write" => Beginning(l, c.events, c.batchID)
RowOK(l, b, row) ==
    row.root # <<>> => /\ Beginning(l, row.leaves, b)
                       /\ row.eventCount = Len(row.leaves)
                       /\ row.root = ComputeRoot(Leaves(row.leaves))
RootInv ==
    /\ closing = [p \in Procs |-> closing[p]]
    /\ \A p \in Procs : \A c \in closing[p] : CloseOK(log, c)
    /\ \A b \in Known : RowOK(log, b, batches[b])

\* A batch that holds events or may still be given some.
Live(b) ==
    \/ b \in ToSet(log)
    \/ \E p \in Procs : cache[p].batchID = b
    \/ \E w \in Writers : writer[w].pc = "assigned" /\ writer[w].batchID = b

Creates(w, b) == writer[w].pc = "creating" /\ writer[w].batchID = b

\* A batch that the next one of p will follow.
Tip(b, p) == cache[p].batchID = b \/ \E w \in Writers : Home[w] = p /\ Creates(w, b)

\* The lock of the ledger makes a rollover the only one of its process, a batch
\* is the tip of one process, and nothing follows a tip yet.
LockInv ==
    \A w \in Writers : writer[w].pc = "creating" =>
       /\ mutex[Home[w]] = w
       /\ cache[Home[w]].batchID \in {writer[w].batchID, NoBatch}
OneTip == \A b \in Known, p, q \in Procs : Tip(b, p) /\ Tip(b, q) => p = q
TipsEnd == \A b \in Known, p \in Procs : Tip(b, p) => \A h \in Known : Live(h) => batches[h].prev # b
NoFork == \A g, h \in Known : Live(g) /\ Live(h) /\ batches[g].prev = batches[h].prev
             => g = h \/ batches[g].prev = NoBatch
ChainInv == LockInv /\ OneTip /\ TipsEnd /\ NoFork

\* The batches that begin a chain, and what accounts for them: the process that
\* has it, or a later one, in its cache, or a crash.
Heads == {b \in Known : batches[b].prev = NoBatch /\ b \notin aged /\ Live(b)}
Homes == {Home[w] : w \in Writers}
Slots == {<<"proc", p>> : p \in Homes} \cup {<<"crash", k>> : k \in 1..crashes}

Accounts(f) ==
    /\ \A g, h \in Heads : f[g] = f[h] => g = h
    /\ \A b \in Heads, p \in Procs : f[b] = <<"proc", p>> => b <= cache[p].batchID
HeadsInv == \E f \in [Heads -> Slots] : Accounts(f)

BInv == TableInv /\ ProcessInv /\ RootInv /\ ChainInv /\ HeadsInv

-----------------------------------------------------------------------------
(***************************************************************************)
(* The tree.  The recursive definition of its levels has a solution: there *)
(* is one up to every number, and they agree with one another.             *)
(***************************************************************************)
LEMMA LevelsDef ==
    ASSUME NEW leaves
    PROVE  /\ Levels(leaves)[0] = leaves
           /\ \A n \in Nat : Levels(leaves)[n + 1] = Up(Levels(leaves)[n])
  <1> DEFINE Upto(f, m) == f[0] = leaves /\ \A n \in 0..(m - 1) : f[n + 1] = Up(f[n])
             S == {m \in Nat : \E f : Upto(f, m)}
             T == {m \in Nat : \A p, q \in Nat : \A f, g :
                                  m <= p /\ m <= q /\ Upto(f, p) /\ Upto(g, q) => f[m] = g[m]}
             Sol(f) == f = [i \in Nat |-> IF i = 0 THEN leaves ELSE Up(f[i - 1])]
  <1>1. 0 \in S
    <2> DEFINE f == [n \in {0} |-> leaves]
    <2>1. f[0] = leaves /\ 0..(0 - 1) = {}
      OBVIOUS
    <2>2. Upto(f, 0)
      BY <2>1
    <2> HIDE DEF f, Upto
    <2> QED
      BY <2>2
  <1>2. ASSUME NEW m \in Nat, m \in S PROVE m + 1 \in S
    <2>1. PICK f : Upto(f, m)
      BY <1>2
    <2> DEFINE g == [n \in 0..(m + 1) |-> IF n <= m THEN f[n] ELSE Up(f[m])]
    <2>2. g[m + 1] = Up(f[m]) /\ \A n \in 0..m : g[n] = f[n]
      OBVIOUS
    <2> HIDE DEF g
    <2>3. g[0] = leaves
      BY <2>1, <2>2
    <2>4. ASSUME NEW n \in 0..((m + 1) - 1) PROVE g[n + 1] = Up(g[n])
      <3>1. CASE n = m
        BY <2>2, <3>1
      <3>2. CASE n \in 0..(m - 1)
        <4>1. f[n + 1] = Up(f[n])
          BY <2>1, <3>2
        <4>2. n \in 0..m /\ n + 1 \in 0..m
          BY <3>2
        <4> QED
          BY <2>2, <4>1, <4>2
      <3> QED
        BY <3>1, <3>2
    <2>5. Upto(g, m + 1)
      BY <2>3, <2>4
    <2> HIDE DEF Upto
    <2> QED
      BY <2>5
  <1>3. \A m \in Nat : \E f : Upto(f, m)
    <2>1. \A m \in Nat : m \in S
      <3> HIDE DEF S
      <3> QED
        BY <1>1, <1>2, NumbersByInduction
    <2> HIDE DEF Upto
    <2> QED
      BY <2>1
  <1>4. \A m \in Nat : m \in T
    <2>1. 0 \in T
      OBVIOUS
    <2>2. ASSUME NEW m \in Nat, m \in T PROVE m + 1 \in T
      <3> SUFFICES ASSUME NEW p \in Nat, NEW q \in Nat, NEW f, NEW g,
                          m + 1 <= p, m + 1 <= q, Upto(f, p), Upto(g, q)
                   PROVE  f[m + 1] = g[m + 1]
        OBVIOUS
      <3>1. f[m] = g[m]
        <4> HIDE DEF Upto
        <4> QED
          BY <2>2
      <3>2. m \in 0..(p - 1) /\ m \in 0..(q - 1)
        OBVIOUS
      <3>3. f[m + 1] = Up(f[m]) /\ g[m + 1] = Up(g[m])
        BY <3>2
      <3> QED
        BY <3>1, <3>3
    <2> HIDE DEF T
    <2> QED
      BY <2>1, <2>2, NumbersByInduction
  <1> DEFINE one(m) == CHOOSE f : Upto(f, m)
             all == [n \in Nat |-> one(n)[n]]
  <1>5. \A m \in Nat : Upto(one(m), m)
    <2> HIDE DEF Upto
    <2> QED
      BY <1>3
  <1>6. \A m \in Nat : all[m] = one(m)[m]
    <2> HIDE DEF one
    <2> QED
      OBVIOUS
  <1> HIDE DEF one
  <1>7. all[0] = leaves
    BY <1>5, <1>6
  <1>8. ASSUME NEW n \in Nat PROVE all[n + 1] = Up(all[n])
    <2>1. Upto(one(n + 1), n + 1) /\ Upto(one(n), n)
      BY <1>5
    <2>2. n \in 0..((n + 1) - 1)
      OBVIOUS
    <2>3. one(n + 1)[n + 1] = Up(one(n + 1)[n])
      BY <2>1, <2>2
    <2>4. one(n + 1)[n] = one(n)[n]
      <3> HIDE DEF Upto
      <3> QED
        BY <1>4, <2>1
    <2> HIDE DEF all
    <2> QED
      BY <1>6, <2>3, <2>4
  <1>9. Sol(all)
    <2>1. ASSUME NEW n \in Nat PROVE all[n] = IF n = 0 THEN leaves ELSE Up(all[n - 1])
      <3>1. CASE n = 0
        BY <1>7, <3>1
      <3>2. CASE n # 0
        <4>1. n - 1 \in Nat /\ (n - 1) + 1 = n
          BY <3>2
        <4>2. all[(n - 1) + 1] = Up(all[n - 1])
          BY <1>8, <4>1
        <4> HIDE DEF all
        <4> QED
          BY <3>2, <4>1, <4>2
      <3> QED
        BY <3>1, <3>2
    <2>2. all = [n \in Nat |-> all[n]]
      OBVIOUS
    <2> HIDE DEF all
    <2> QED
      BY <2>1, <2>2
  <1>10. Sol(Levels(leaves))
    <2>1. Levels(leaves) = CHOOSE f : Sol(f)
      BY DEF Levels
    <2> HIDE DEF Sol
    <2> QED
      BY <1>9, <2>1, Zenon
  <1> DEFINE a == Levels(leaves)
  <1>11. a = [i \in Nat |-> IF i = 0 THEN leaves ELSE Up(a[i - 1])]
    BY <1>10
  <1> HIDE DEF a
  <1>12. a[0] = leaves
    BY <1>11
  <1>13. ASSUME NEW n \in Nat PROVE a[n + 1] = Up(a[n])
    <2> DEFINE m == n + 1
    <2>1. m \in Nat /\ m # 0 /\ m - 1 = n
      OBVIOUS
    <2> HIDE DEF m
    <2>2. a[m] = Up(a[m - 1])
      BY <1>11, <2>1
    <2> QED
      BY <2>1, <2>2 DEF m
  <1> QED
    BY <1>12, <1>13 DEF a

\* A level of two nodes or more: half as many above it, each known by its first.
LEMMA NextLevelFacts ==
    ASSUME NEW s, NEW n \in Nat, s = [i \in 1..n |-> s[i]], Len(s) = n, n > 1
    PROVE  /\ Len(NextLevel(s)) \in 1..(n - 1)
           /\ NextLevel(s) = [i \in 1..Len(NextLevel(s)) |-> NextLevel(s)[i]]
           /\ Len(NextLevel(s)) = (n + 1) \div 2
           /\ \A i \in 1..Len(NextLevel(s)) :
                 NextLevel(s)[i] = <<"node", s[2 * i - 1], s[IF 2 * i <= n THEN 2 * i ELSE 2 * i - 1]>>
  <1> DEFINE m == (n + 1) \div 2
             t == NextLevel(s)
  <1>1. m \in 1..(n - 1) /\ m \in Nat
    OBVIOUS
  <1>2. t = [i \in 1..m |-> internalHash(s[2 * i - 1], s[IF 2 * i <= n THEN 2 * i ELSE 2 * i - 1])]
    BY DEF NextLevel
  <1> HIDE DEF t, m
  <1>3. /\ t = [i \in 1..m |-> t[i]]
        /\ \A i \in 1..m : t[i] = <<"node", s[2 * i - 1], s[IF 2 * i <= n THEN 2 * i ELSE 2 * i - 1]>>
    BY <1>2 DEF internalHash
  <1>4. Len(t) = m
    BY <1>1, <1>2
  <1> QED
    BY <1>1, <1>3, <1>4 DEF t, m

Distinct(s) == \A i, j \in 1..Len(s) : s[i] = s[j] => i = j

\* The level above tells the level below, if its nodes are different: a node
\* doubled at the end is not taken for two.
LEMMA NextLevelInjective ==
    ASSUME NEW s, NEW t, IsList(s), IsList(t), Distinct(s), Distinct(t), Len(s) > 1, Len(t) > 1,
           NextLevel(s) = NextLevel(t)
    PROVE  s = t
  <1> DEFINE n == Len(s)
             k == Len(t)
             m == (n + 1) \div 2
             u == NextLevel(s)
  <1>1. n \in Nat /\ n > 1 /\ k \in Nat /\ k > 1
    BY DEF IsList
  <1>2. /\ Len(u) = m
        /\ \A i \in 1..Len(u) : u[i] = <<"node", s[2 * i - 1], s[IF 2 * i <= n THEN 2 * i ELSE 2 * i - 1]>>
    BY <1>1, NextLevelFacts DEF IsList
  <1>3. /\ Len(u) = (k + 1) \div 2
        /\ \A i \in 1..Len(u) : u[i] = <<"node", t[2 * i - 1], t[IF 2 * i <= k THEN 2 * i ELSE 2 * i - 1]>>
    BY <1>1, NextLevelFacts DEF IsList
  <1> HIDE DEF u
  <1>4. m = (k + 1) \div 2 /\ m \in Nat /\ m >= 1
    BY <1>1, <1>2, <1>3
  <1>5. \A i \in 1..m : /\ s[2 * i - 1] = t[2 * i - 1]
                        /\ s[IF 2 * i <= n THEN 2 * i ELSE 2 * i - 1] =
                              t[IF 2 * i <= k THEN 2 * i ELSE 2 * i - 1]
    BY <1>2, <1>3, SMTT(30)
  <1>6. ~(n < k)
    <2> SUFFICES ASSUME n < k PROVE FALSE
      OBVIOUS
    <2>1. n = 2 * m - 1 /\ k = 2 * m
      BY <1>1, <1>4
    <2>2. s[2 * m - 1] = t[2 * m - 1] /\ s[2 * m - 1] = t[2 * m]
      <3>1. m \in 1..m /\ ~(2 * m <= n) /\ 2 * m <= k
        BY <1>1, <1>4, <2>1
      <3> HIDE DEF m
      <3> QED
        BY <1>5, <3>1
    <2>3. 2 * m - 1 \in 1..k /\ 2 * m \in 1..k /\ 2 * m - 1 # 2 * m
      BY <1>4, <2>1
    <2> QED
      BY <2>2, <2>3 DEF Distinct
  <1>7. ~(k < n)
    <2> SUFFICES ASSUME k < n PROVE FALSE
      OBVIOUS
    <2>1. k = 2 * m - 1 /\ n = 2 * m
      BY <1>1, <1>4
    <2>2. s[2 * m - 1] = t[2 * m - 1] /\ s[2 * m] = t[2 * m - 1]
      <3>1. m \in 1..m /\ 2 * m <= n /\ ~(2 * m <= k)
        BY <1>1, <1>4, <2>1
      <3> HIDE DEF m
      <3> QED
        BY <1>5, <3>1
    <2>3. 2 * m - 1 \in 1..n /\ 2 * m \in 1..n /\ 2 * m - 1 # 2 * m
      BY <1>4, <2>1
    <2> QED
      BY <2>2, <2>3 DEF Distinct
  <1>8. n = k
    BY <1>1, <1>6, <1>7
  <1>9. ASSUME NEW j \in 1..n PROVE s[j] = t[j]
    <2>1. CASE j % 2 = 1
      <3>1. PICK i \in 1..m : j = 2 * i - 1
        <4>1. (j + 1) \div 2 \in 1..m /\ j = 2 * ((j + 1) \div 2) - 1
          BY <1>1, <2>1
        <4> QED
          BY <4>1
      <3> QED
        BY <1>5, <3>1
    <2>2. CASE j % 2 = 0
      <3>1. PICK i \in 1..m : j = 2 * i
        <4>1. j \div 2 \in 1..m /\ j = 2 * (j \div 2)
          BY <1>1, <2>2
        <4> QED
          BY <4>1
      <3>2. 2 * i <= n /\ 2 * i <= k
        BY <1>1, <1>8, <3>1
      <3> QED
        BY <1>5, <3>1, <3>2
    <2> QED
      BY <1>1, <2>1, <2>2
  <1> QED
    BY <1>8, <1>9 DEF IsList

\* A level of a tree with distinct nodes has distinct parents, and fewer of them.
LEMMA NextLevelDistinct ==
    ASSUME NEW s, IsList(s), Distinct(s), Len(s) > 1
    PROVE  IsList(NextLevel(s)) /\ Distinct(NextLevel(s)) /\ Len(NextLevel(s)) \in 1..(Len(s) - 1)
  <1> DEFINE n == Len(s)
             u == NextLevel(s)
  <1>1. n \in Nat /\ n > 1
    BY DEF IsList
  <1>2. /\ Len(u) \in 1..(n - 1) /\ u = [i \in 1..Len(u) |-> u[i]] /\ Len(u) = (n + 1) \div 2
        /\ \A i \in 1..Len(u) : u[i] = <<"node", s[2 * i - 1], s[IF 2 * i <= n THEN 2 * i ELSE 2 * i - 1]>>
    BY <1>1, NextLevelFacts DEF IsList
  <1> HIDE DEF u
  <1>3. ASSUME NEW i \in 1..Len(u), NEW j \in 1..Len(u), u[i] = u[j] PROVE i = j
    <2>1. s[2 * i - 1] = s[2 * j - 1]
      BY <1>2, <1>3
    <2>2. 2 * i - 1 \in 1..n /\ 2 * j - 1 \in 1..n
      BY <1>1, <1>2
    <2>3. 2 * i - 1 = 2 * j - 1
      BY <2>1, <2>2 DEF Distinct
    <2> QED
      BY <1>1, <1>2, <2>3
  <1>4. IsList(u) /\ Distinct(u)
    BY <1>1, <1>2, <1>3 DEF IsList, Distinct
  <1> QED
    BY <1>2, <1>4 DEF u

\* The levels of a list end in one node, and until then each is made of the last.
LEMMA LevelsFacts ==
    ASSUME NEW s, IsList(s), Distinct(s), Len(s) >= 1
    PROVE  \E h \in Nat :
              /\ ComputeRoot(s) = Levels(s)[h]
              /\ Len(Levels(s)[h]) = 1
              /\ \A i \in 0..h : IsList(Levels(s)[i]) /\ Distinct(Levels(s)[i])
              /\ \A i \in 0..(h - 1) : /\ Len(Levels(s)[i]) > 1
                                       /\ Levels(s)[i + 1] = NextLevel(Levels(s)[i])
  <1> DEFINE L == Levels(s)
             n == Len(s)
             Good(i) == /\ IsList(L[i]) /\ Distinct(L[i]) /\ Len(L[i]) >= 1
                        /\ Len(L[i]) = 1 \/ Len(L[i]) <= n - i
             S == {i \in Nat : Good(i)}
  <1>1. L[0] = s /\ \A i \in Nat : L[i + 1] = IF Len(L[i]) > 1 THEN NextLevel(L[i]) ELSE L[i]
    BY LevelsDef DEF Up
  <1>2. n \in Nat /\ n >= 1 /\ ComputeRoot(s) = L[n]
    BY DEF IsList, ComputeRoot
  <1> HIDE DEF L
  <1>3. Good(0)
    BY <1>1, <1>2
  <1>4. ASSUME NEW i \in Nat, Good(i) PROVE Good(i + 1)
    <2>1. CASE Len(L[i]) > 1
      <3>1. L[i + 1] = NextLevel(L[i])
        BY <1>1, <2>1
      <3>2. IsList(L[i + 1]) /\ Distinct(L[i + 1]) /\ Len(L[i + 1]) \in 1..(Len(L[i]) - 1)
        BY <1>4, <2>1, <3>1, NextLevelDistinct
      <3>3. Len(L[i]) <= n - i /\ Len(L[i]) \in Nat
        BY <1>4, <2>1 DEF IsList
      <3> QED
        BY <1>2, <3>2, <3>3
    <2>2. CASE ~(Len(L[i]) > 1)
      <3>1. L[i + 1] = L[i]
        BY <1>1, <2>2
      <3> DEFINE x == Len(L[i])
      <3>2. x \in Nat /\ x >= 1 /\ ~(x > 1)
        BY <1>4, <2>2 DEF IsList
      <3>3. x = 1
        <4> HIDE DEF x
        <4> QED
          BY <3>2
      <3> QED
        BY <1>4, <3>1, <3>3
    <2> QED
      BY <2>1, <2>2
  <1>5. \A i \in Nat : Good(i)
    <2>1. 0 \in S
      BY <1>3
    <2>2. \A i \in Nat : i \in S => i + 1 \in S
      <3> HIDE DEF Good
      <3> QED
        BY <1>4
    <2>3. \A i \in Nat : i \in S
      <3> HIDE DEF S
      <3> QED
        BY <2>1, <2>2, NumbersByInduction
    <2> HIDE DEF Good
    <2> QED
      BY <2>3
  <1> DEFINE H == {i \in Nat : Len(L[i]) = 1}
  <1>6. n \in H
    <2>1. Good(n)
      BY <1>2, <1>5
    <2>2. Len(L[n]) \in Nat
      BY <2>1 DEF IsList
    <2> QED
      BY <1>2, <2>1, <2>2
  <1>7. PICK h \in H : \A i \in H : h <= i
    <2> HIDE DEF H
    <2>1. H \subseteq Nat
      BY DEF H
    <2> QED
      BY <1>6, <2>1, LeastNumber
  <1>8. h \in Nat /\ Len(L[h]) = 1 /\ h <= n
    BY <1>2, <1>6, <1>7
  <1>9. \A i \in 0..h : IsList(L[i]) /\ Distinct(L[i])
    BY <1>5, <1>8
  <1>10. ASSUME NEW i \in 0..(h - 1) PROVE Len(L[i]) > 1 /\ L[i + 1] = NextLevel(L[i])
    <2>1. i \in Nat /\ i < h /\ i \notin H
      BY <1>7, <1>8
    <2> DEFINE x == Len(L[i])
    <2>2. x \in Nat /\ x >= 1
      BY <1>5, <2>1 DEF IsList
    <2>3. x # 1
      BY <2>1
    <2>4. x > 1
      <3> HIDE DEF x
      <3> QED
        BY <2>2, <2>3
    <2> QED
      BY <1>1, <2>1, <2>4
  \* One node stays as it is.
  <1> DEFINE P == {i \in Nat : L[h + i] = L[h]}
  <1>11. \A i \in Nat : i \in P
    <2>1. 0 \in P
      BY <1>8
    <2>2. ASSUME NEW i \in Nat, i \in P PROVE i + 1 \in P
      <3>1. h + i \in Nat /\ h + (i + 1) = (h + i) + 1
        BY <1>8
      <3> DEFINE x == Len(L[h + i])
      <3>2. ~(x > 1)
        <4>1. x = 1
          BY <1>8, <2>2
        <4> HIDE DEF x
        <4> QED
          BY <4>1
      <3>3. L[(h + i) + 1] = L[h + i]
        BY <1>1, <3>1, <3>2
      <3> QED
        BY <2>2, <3>1, <3>3
    <2> HIDE DEF P
    <2> QED
      BY <2>1, <2>2, NumbersByInduction
  <1>12. L[n] = L[h]
    <2>1. n - h \in Nat /\ h + (n - h) = n
      BY <1>2, <1>8
    <2>2. L[h + (n - h)] = L[h]
      BY <1>11, <2>1
    <2> QED
      BY <2>1, <2>2
  <1> QED
    BY <1>2, <1>8, <1>9, <1>10, <1>12 DEF L

\* What LevelsFacts says of a list and a height.
Tower(s, h) ==
    /\ ComputeRoot(s) = Levels(s)[h]
    /\ Len(Levels(s)[h]) = 1
    /\ \A i \in 0..h : IsList(Levels(s)[i]) /\ Distinct(Levels(s)[i])
    /\ \A i \in 0..(h - 1) : /\ Len(Levels(s)[i]) > 1
                             /\ Levels(s)[i + 1] = NextLevel(Levels(s)[i])

\* Two towers with one root are the same from the top down.
LEMMA TowersAgree ==
    ASSUME NEW s, NEW t, NEW g \in Nat, NEW h \in Nat, g <= h, Tower(s, g), Tower(t, h),
           ComputeRoot(s) = ComputeRoot(t)
    PROVE  s = Levels(t)[h - g]
  <1> DEFINE L == Levels(s)
             M == Levels(t)
             S == {j \in Nat : j <= g => L[g - j] = M[h - j]}
  <1>1. 0 \in S
    <2>1. L[g] = M[h] /\ g - 0 = g /\ h - 0 = h
      BY DEF Tower
    <2> HIDE DEF L, M
    <2> QED
      BY <2>1
  <1>2. ASSUME NEW j \in Nat, j \in S PROVE j + 1 \in S
    <2> SUFFICES ASSUME j + 1 <= g PROVE L[g - (j + 1)] = M[h - (j + 1)]
      OBVIOUS
    <2>1. PICK x \in 0..(g - 1) : x = g - (j + 1)
      OBVIOUS
    <2>2. PICK y \in 0..(h - 1) : y = h - (j + 1)
      OBVIOUS
    <2>3. x + 1 = g - j /\ y + 1 = h - j
      BY <2>1, <2>2
    <2>4. L[x + 1] = M[y + 1]
      BY <1>2, <2>3
    <2>5. /\ IsList(L[x]) /\ Distinct(L[x]) /\ Len(L[x]) > 1 /\ L[x + 1] = NextLevel(L[x])
          /\ IsList(M[y]) /\ Distinct(M[y]) /\ Len(M[y]) > 1 /\ M[y + 1] = NextLevel(M[y])
      BY DEF Tower
    <2> HIDE DEF L, M
    <2>6. L[x] = M[y]
      BY <2>4, <2>5, NextLevelInjective
    <2> QED
      BY <2>1, <2>2, <2>6
  <1>3. g \in S
    <2> HIDE DEF S
    <2> QED
      BY <1>1, <1>2, NumbersByInduction
  <1>4. g - g = 0 /\ L[0] = s
    BY LevelsDef
  <1> QED
    BY <1>3, <1>4

\* Leaves of distinct events are distinct.
LEMMA LeavesFacts ==
    ASSUME NEW a, IsList(a), Distinct(a)
    PROVE  /\ IsList(Leaves(a)) /\ Distinct(Leaves(a)) /\ Len(Leaves(a)) = Len(a)
           /\ \A i \in 1..Len(a) : Leaves(a)[i] = <<"leaf", a[i]>>
  <1> DEFINE n == Len(a)
             s == Leaves(a)
  <1>1. n \in Nat /\ s = [i \in 1..n |-> <<"leaf", a[i]>>]
    BY DEF IsList, Leaves, LeafHash
  <1> HIDE DEF n, s
  <1>2. Len(s) = n /\ \A i \in 1..n : s[i] = <<"leaf", a[i]>>
    BY <1>1
  <1>3. IsList(s)
    BY <1>1, <1>2 DEF IsList
  <1>4. Distinct(s)
    BY <1>2 DEF Distinct, n
  <1> QED
    BY <1>2, <1>3, <1>4 DEF n, s

\* Leaves are never nodes: a tower of leaves cannot be a part of a higher one.
LEMMA NoTowerInATower ==
    ASSUME NEW a, NEW b, IsList(a), IsList(b), Distinct(a), Distinct(b), Len(a) >= 1, Len(b) >= 1,
           NEW g \in Nat, NEW h \in Nat, g <= h, Tower(Leaves(a), g), Tower(Leaves(b), h),
           ComputeRoot(Leaves(a)) = ComputeRoot(Leaves(b))
    PROVE  a = b
  <1> DEFINE s == Leaves(a)
             t == Leaves(b)
             M == Levels(t)
  <1>1. s = M[h - g]
    BY TowersAgree
  <1>2. Len(s) = Len(a) /\ \A i \in 1..Len(a) : s[i] = <<"leaf", a[i]>>
    BY LeavesFacts
  <1>3. Len(t) = Len(b) /\ \A i \in 1..Len(b) : t[i] = <<"leaf", b[i]>>
    BY LeavesFacts
  <1>4. M[0] = t
    BY LevelsDef
  <1>5. CASE g = h
    <2>1. s = t
      BY <1>1, <1>4, <1>5
    <2>2. Len(a) = Len(b)
      BY <1>2, <1>3, <2>1
    <2>3. \A i \in 1..Len(a) : a[i] = b[i]
      <3> HIDE DEF s, t
      <3> QED
        BY <1>2, <1>3, <2>1, <2>2
    <2> QED
      BY <2>2, <2>3 DEF IsList
  <1>6. CASE g < h
    <2>1. PICK x \in 0..(h - 1) : x + 1 = h - g
      <3>1. (h - g) - 1 \in 0..(h - 1) /\ ((h - g) - 1) + 1 = h - g
        BY <1>6
      <3> QED
        BY <3>1
    <2>2. IsList(M[x]) /\ Len(M[x]) > 1 /\ M[x + 1] = NextLevel(M[x])
      BY DEF Tower
    <2>3. s = NextLevel(M[x])
      BY <1>1, <2>1, <2>2
    <2> HIDE DEF M, s
    <2>4. PICK r : r = M[x]
      OBVIOUS
    <2>5. /\ Len(r) \in Nat /\ Len(r) > 1 /\ r = [i \in 1..Len(r) |-> r[i]]
          /\ s = NextLevel(r)
      BY <2>2, <2>3, <2>4 DEF IsList
    <2>6. \A i \in 1..Len(s) : s[i] = <<"node", r[2 * i - 1],
                                        r[IF 2 * i <= Len(r) THEN 2 * i ELSE 2 * i - 1]>>
      BY <2>5, NextLevelFacts
    <2>7. 1 \in 1..Len(a) /\ 1 \in 1..Len(s)
      BY <1>2 DEF IsList
    <2>8. s[1] = <<"leaf", a[1]>>
      BY <1>2, <2>7
    <2>9. s[1][1] = "leaf" /\ s[1][1] = "node"
      BY <2>6, <2>7, <2>8
    <2> QED
      BY <2>9
  <1> QED
    BY <1>5, <1>6

(***************************************************************************)
(* Two lists of different events have one root only if they are the same   *)
(* list (ComputeRoot): the last node of an odd level is doubled, but the   *)
(* nodes of a level are all different, so a doubled node is not mistaken   *)
(* for two, at any level; and a leaf is not mistaken for a node.           *)
(***************************************************************************)
THEOREM RootsTellListsApart ==
    ASSUME NEW a, NEW b, IsList(a), IsList(b), Distinct(a), Distinct(b), Len(a) >= 1, Len(b) >= 1,
           ComputeRoot(Leaves(a)) = ComputeRoot(Leaves(b))
    PROVE  a = b
  <1>1. PICK g \in Nat : Tower(Leaves(a), g)
    <2> DEFINE s == Leaves(a)
    <2>1. IsList(s) /\ Distinct(s) /\ Len(s) >= 1
      BY LeavesFacts
    <2> HIDE DEF s
    <2>2. \E g \in Nat : Tower(s, g)
      BY <2>1, LevelsFacts DEF Tower
    <2> QED
      BY <2>2 DEF s
  <1>2. PICK h \in Nat : Tower(Leaves(b), h)
    <2> DEFINE s == Leaves(b)
    <2>1. IsList(s) /\ Distinct(s) /\ Len(s) >= 1
      BY LeavesFacts
    <2> HIDE DEF s
    <2>2. \E k \in Nat : Tower(s, k)
      BY <2>1, LevelsFacts DEF Tower
    <2> QED
      BY <2>2 DEF s
  <1>3. CASE g <= h
    BY <1>1, <1>2, <1>3, NoTowerInATower
  <1>4. CASE h <= g
    BY <1>1, <1>2, <1>4, NoTowerInATower
  <1> QED
    BY <1>1, <1>2, <1>3, <1>4

-----------------------------------------------------------------------------
(***************************************************************************)
(* What is listed of a batch, and how it grows.                            *)
(***************************************************************************)
LEMMA PrefixDef ==
    ASSUME NEW s \in Seq(Nat), NEW t \in Seq(Nat)
    PROVE  IsPrefix(s, t) <=> Len(s) <= Len(t) /\ \A i \in 1..Len(s) : s[i] = t[i]
  <1>1. Len(s) \in Nat /\ Len(t) \in Nat
    OBVIOUS
  <1>2. ASSUME Len(s) <= Len(t)
        PROVE  SubSeq(s, 1, Len(s)) = SubSeq(t, 1, Len(s)) <=> \A i \in 1..Len(s) : s[i] = t[i]
    <2> DEFINE u == SubSeq(s, 1, Len(s))
               v == SubSeq(t, 1, Len(s))
    <2>1. u \in Seq(Nat) /\ Len(u) = Len(s) /\ \A i \in 1..Len(s) : u[i] = s[i]
      BY <1>1
    <2>2. v \in Seq(Nat) /\ Len(v) = Len(s) /\ \A i \in 1..Len(s) : v[i] = t[i]
      BY <1>1, <1>2
    <2> HIDE DEF u, v
    <2>3. u = v <=> \A i \in 1..Len(s) : u[i] = v[i]
      BY <1>1, <2>1, <2>2, SeqEqual
    <2> QED
      BY <2>1, <2>2, <2>3 DEF u, v
  <1> QED
    BY <1>2 DEF IsPrefix

\* A prefix stays one when the list grows.
LEMMA PrefixGrows ==
    ASSUME NEW s \in Seq(Nat), NEW t \in Seq(Nat), NEW x \in Nat, IsPrefix(s, t)
    PROVE  IsPrefix(s, Append(t, x))
  <1> DEFINE u == Append(t, x)
  <1>1. u \in Seq(Nat) /\ Len(u) = Len(t) + 1 /\ \A i \in 1..Len(t) : u[i] = t[i]
    OBVIOUS
  <1>2. Len(s) <= Len(t) /\ \A i \in 1..Len(s) : s[i] = t[i]
    BY PrefixDef
  <1>3. Len(s) \in Nat /\ Len(t) \in Nat
    OBVIOUS
  <1> HIDE DEF u
  <1>4. Len(s) <= Len(u) /\ \A i \in 1..Len(s) : s[i] = u[i]
    BY <1>1, <1>2, <1>3
  <1>5. IsPrefix(s, u)
    BY <1>1, <1>4, PrefixDef
  <1> QED
    BY <1>5 DEF u

\* The events of a batch are a list without repetitions.
LEMMA ListFacts ==
    ASSUME NEW l, NEW X, l \in Seq(X), NEW b
    PROVE  /\ ListIn(l, b) \in Seq(Nat) /\ IsList(ListIn(l, b)) /\ Distinct(ListIn(l, b))
           /\ ListIn(l, b) # <<>> => b \in ToSet(l)
  <1> DEFINE K == Places(l, b)
             n == Len(l)
             s == ListIn(l, b)
  <1>1. n \in Nat /\ s = Ascending(K)[n]
    BY DEF ListIn
  <1> HIDE DEF K, n
  <1>2. /\ Ascending(K)[n] \in Seq(K \cap (1..n))
        /\ \A i, j \in 1..Len(Ascending(K)[n]) : i < j => Ascending(K)[n][i] < Ascending(K)[n][j]
    BY <1>1, AscendingLists
  <1> HIDE DEF s
  <1>3. s \in Seq(K \cap (1..n)) /\ \A i, j \in 1..Len(s) : i < j => s[i] < s[j]
    BY <1>1, <1>2
  <1>4. Len(s) \in Nat /\ s = [i \in 1..Len(s) |-> s[i]] /\ \A i \in 1..Len(s) : s[i] \in K /\ s[i] \in Nat
    <2> DEFINE J == K \cap (1..n)
    <2>1. \A x \in J : x \in K /\ x \in Nat
      BY <1>1
    <2>2. s \in Seq(J)
      BY <1>3
    <2> HIDE DEF J
    <2>3. Len(s) \in Nat /\ s = [i \in 1..Len(s) |-> s[i]] /\ \A i \in 1..Len(s) : s[i] \in J
      BY <2>2
    <2> QED
      BY <2>1, <2>3
  <1>5. s \in Seq(Nat) /\ IsList(s)
    BY <1>4 DEF IsList
  <1>6. Distinct(s)
    <2> SUFFICES ASSUME NEW i \in 1..Len(s), NEW j \in 1..Len(s), s[i] = s[j] PROVE i = j
      BY DEF Distinct
    <2>1. s[i] \in Nat /\ s[j] \in Nat
      BY <1>4
    <2>2. ~(i < j) /\ ~(j < i)
      BY <1>3, <2>1
    <2> QED
      BY <1>4, <2>2
  <1>7. ASSUME s # <<>> PROVE b \in ToSet(l)
    <2>1. 1 \in 1..Len(s)
      BY <1>5, <1>7
    <2>2. s[1] \in Places(l, b)
      BY <1>4, <2>1 DEF K
    <2>3. s[1] \in DOMAIN l /\ l[s[1]] = b
      BY <2>2 DEF Places
    <2> QED
      BY <2>3 DEF ToSet
  <1> QED
    BY <1>5, <1>6, <1>7 DEF s

\* An event is listed last in its batch.
LEMMA ListGrows ==
    ASSUME NEW l, NEW X, l \in Seq(X), NEW x, x \in X, NEW b
    PROVE  ListIn(Append(l, x), b) =
              IF x = b THEN Append(ListIn(l, b), Len(l) + 1) ELSE ListIn(l, b)
  <1> DEFINE m == Append(l, x)
             n == Len(l)
             K == Places(l, b)
             M == Places(m, b)
  <1>1. n \in Nat /\ Len(m) = n + 1 /\ m[n + 1] = x /\ \A i \in 1..n : m[i] = l[i]
    OBVIOUS
  <1> HIDE DEF m
  <1>2. M \cap (1..n) = K \cap (1..n)
    BY <1>1 DEF Places
  <1>3. n + 1 \in M <=> x = b
    BY <1>1 DEF Places
  <1> HIDE DEF K, M, n
  <1>4. Ascending(M)[n] = Ascending(K)[n]
    BY <1>1, <1>2, AscendingAgree
  <1>5. Ascending(M)[n + 1] = IF n + 1 \in M THEN Append(Ascending(M)[n], n + 1) ELSE Ascending(M)[n]
    BY <1>1, AscendingDef
  <1>6. ListIn(m, b) = Ascending(M)[n + 1] /\ ListIn(l, b) = Ascending(K)[n]
    BY <1>1 DEF ListIn, M, K, n
  <1>7. ListIn(m, b) = IF x = b THEN Append(ListIn(l, b), n + 1) ELSE ListIn(l, b)
    BY <1>3, <1>4, <1>5, <1>6
  <1> QED
    BY <1>7 DEF m, n

\* What was read of a batch stays a beginning of it.
LEMMA BeginningsStay ==
    ASSUME NEW l, NEW X, l \in Seq(X), NEW x, x \in X, NEW b, NEW e, e \in Seq(Nat),
           IsPrefix(e, ListIn(l, b))
    PROVE  IsPrefix(e, ListIn(Append(l, x), b))
  <1>1. ListIn(l, b) \in Seq(Nat)
    BY ListFacts
  <1>2. Len(l) + 1 \in Nat
    OBVIOUS
  <1>3. IsPrefix(e, Append(ListIn(l, b), Len(l) + 1))
    BY <1>1, <1>2, PrefixGrows
  <1>4. ListIn(Append(l, x), b) =
           IF x = b THEN Append(ListIn(l, b), Len(l) + 1) ELSE ListIn(l, b)
    BY ListGrows
  <1> QED
    BY <1>3, <1>4

-----------------------------------------------------------------------------
(***************************************************************************)
(* What the steps do to the rows.                                          *)
(***************************************************************************)
LEMMA AppendList ==
    ASSUME NEW s, NEW x, IsList(s)
    PROVE  /\ IsList(Append(s, x)) /\ Len(Append(s, x)) = Len(s) + 1
           /\ Append(s, x)[Len(s) + 1] = x
           /\ \A i \in 1..Len(s) : Append(s, x)[i] = s[i]
  <1> DEFINE X == {s[i] : i \in 1..Len(s)} \cup {x}
  <1>1. Len(s) \in Nat /\ s = [i \in 1..Len(s) |-> s[i]]
    BY DEF IsList
  <1>2. s \in Seq(X) /\ x \in X
    <2>1. x \in X /\ \A i \in 1..Len(s) : s[i] \in X
      OBVIOUS
    <2> HIDE DEF X
    <2> QED
      BY <1>1, <2>1
  <1> HIDE DEF X
  <1>3. /\ Append(s, x) \in Seq(X) /\ Len(Append(s, x)) = Len(s) + 1
        /\ Append(s, x)[Len(s) + 1] = x
        /\ \A i \in 1..Len(s) : Append(s, x)[i] = s[i]
    BY <1>2
  <1>4. IsList(Append(s, x))
    <2> DEFINE t == Append(s, x)
    <2>1. t \in Seq(X)
      BY <1>3
    <2> HIDE DEF t
    <2>2. IsList(t)
      BY <2>1 DEF IsList
    <2> QED
      BY <2>2 DEF t
  <1> QED
    BY <1>3, <1>4

\* CreateBatch adds a row after the others.
LEMMA RowAdded ==
    ASSUME TableInv, NEW o, batches' = Append(batches, NewBatch(o))
    PROVE  /\ Len(batches) \in Nat /\ Len(batches') = Len(batches) + 1 /\ IsList(batches)'
           /\ Known' = Known \cup {Len(batches) + 1}
           /\ \A b \in Known : batches'[b] = batches[b]
           /\ batches'[Len(batches) + 1] = NewBatch(o)
  <1>1. IsList(batches)
    BY DEF TableInv
  <1>2. /\ IsList(batches') /\ Len(batches') = Len(batches) + 1
        /\ batches'[Len(batches) + 1] = NewBatch(o)
        /\ \A i \in 1..Len(batches) : batches'[i] = batches[i]
    BY <1>1, AppendList
  <1>3. Len(batches) \in Nat
    BY <1>1 DEF IsList
  <1>4. Known' = Known \cup {Len(batches) + 1}
    BY <1>2, <1>3 DEF Known
  <1> QED
    BY <1>2, <1>3, <1>4 DEF Known

\* CloseBatch writes three columns of one row.
LEMMA RowStored ==
    ASSUME TableInv, NEW c, c.batchID \in Known, Stored(c)
    PROVE  /\ Len(batches') = Len(batches) /\ IsList(batches)' /\ Known' = Known
           /\ \A b \in Known : /\ b # c.batchID => batches'[b] = batches[b]
                               /\ DOMAIN batches'[b] = DOMAIN batches[b]
                               /\ batches'[b].prev = batches[b].prev
           /\ batches'[c.batchID].root = ComputeRoot(Leaves(c.events))
           /\ batches'[c.batchID].leaves = c.events
           /\ batches'[c.batchID].eventCount = Len(c.events)
  <1> DEFINE n == Len(batches)
             d == c.batchID
             R == ComputeRoot(Leaves(c.events))
             E == c.events
             m == Len(c.events)
             r == batches[d]
             r1 == [r EXCEPT !.root = R]
             r2 == [r1 EXCEPT !.leaves = E]
             r3 == [r2 EXCEPT !.eventCount = m]
  <1>1. /\ n \in Nat /\ batches = [b \in 1..n |-> batches[b]] /\ d \in 1..n
        /\ DOMAIN r = {"prev", "root", "leaves", "eventCount"}
    BY DEF TableInv, IsList, Known
  <1>2. batches' = [[[batches EXCEPT ![d].root = R] EXCEPT ![d].leaves = E] EXCEPT ![d].eventCount = m]
    BY DEF Stored
  <1> HIDE DEF n, d, R, E, m
  <1>3. batches' = [b \in 1..n |-> IF b = d THEN r3 ELSE batches[b]]
    BY <1>1, <1>2
  <1>4. DOMAIN r3 = DOMAIN r /\ r3.prev = r.prev /\ r3.root = R /\ r3.leaves = E /\ r3.eventCount = m
    BY <1>1
  <1> HIDE DEF r3
  <1>5. Len(batches') = n /\ \A b \in 1..n : batches'[b] = IF b = d THEN r3 ELSE batches[b]
    BY <1>1, <1>3
  <1>6. batches' = [b \in 1..n |-> batches'[b]]
    BY <1>3
  <1>7. IsList(batches)'
    BY <1>1, <1>5, <1>6 DEF IsList
  <1>8. Known' = Known /\ Known = 1..n
    BY <1>5 DEF Known, n
  <1> QED
    BY <1>1, <1>4, <1>5, <1>7, <1>8 DEF n, d, R, E, m

\* The batch of a close that has read its events is in the table.
LEMMA WriteKnown ==
    ASSUME TableInv, RootInv, NEW p \in Procs, NEW c \in closing[p], c.step = "write"
    PROVE  c.batchID \in Known
  <1>1. Beginning(log, c.events, c.batchID)
    BY DEF RootInv, CloseOK
  <1>2. log \in Seq(Known)
    BY DEF TableInv
  <1>3. ListIn(log, c.batchID) \in Seq(Nat) /\ (ListIn(log, c.batchID) # <<>> => c.batchID \in ToSet(log))
    BY <1>2, ListFacts
  <1>4. c.events \in Seq(Nat) /\ c.events # <<>> /\ IsPrefix(c.events, ListIn(log, c.batchID))
    BY <1>1 DEF Beginning
  <1>5. Len(c.events) <= Len(ListIn(log, c.batchID))
    BY <1>3, <1>4, PrefixDef
  <1>6. ListIn(log, c.batchID) # <<>>
    <2> DEFINE e == c.events
               l == ListIn(log, c.batchID)
    <2>1. e \in Seq(Nat) /\ e # <<>> /\ l \in Seq(Nat) /\ Len(e) <= Len(l)
      BY <1>3, <1>4, <1>5
    <2> HIDE DEF e, l
    <2>2. l # <<>>
      BY <2>1
    <2> QED
      BY <2>2 DEF l
  <1>7. \A i \in DOMAIN log : log[i] \in Known
    BY <1>2
  <1> QED
    BY <1>3, <1>6, <1>7 DEF ToSet

\* What the steps do to the table, from the point of view of the other parts:
\* nothing but the columns that a close writes, or one more row.
Rows ==
    /\ IsList(batches)' /\ Known \subseteq Known'
    /\ \A b \in Known : batches'[b].prev = batches[b].prev
    /\ \A b \in Known : batches'[b] # batches[b] =>
          \E p \in Procs : \E c \in closing[p] :
             /\ c.step = "write" /\ b = c.batchID /\ batches'[b].leaves = c.events
             /\ batches'[b].root = ComputeRoot(Leaves(c.events))
             /\ batches'[b].eventCount = Len(c.events)
    /\ \A b \in Known' : DOMAIN batches'[b] = {"prev", "root", "leaves", "eventCount"}
    /\ \A b \in Known' : b \notin Known =>
          /\ b = Len(batches) + 1
          /\ \E w \in Writers : writer[w].pc = "creating" /\ batches'[b] = NewBatch(writer[w].batchID)

\* Every step leaves the rows of batches alone, but for the one that a close
\* writes or CreateBatch adds.
LEMMA RowsStep ==
    ASSUME BInv, [BatchesNext]_batchVars
    PROVE  Rows
  <1>1. TableInv /\ RootInv /\ ProcessInv
    BY DEF BInv
  <1>2. CASE UNCHANGED batches
    BY <1>1, <1>2 DEF Rows, TableInv, IsList, Known
  <1>3. ASSUME NEW w \in Writers, writer[w].pc = "creating",
               batches' = Append(batches, NewBatch(writer[w].batchID))
        PROVE  Rows
    <2> DEFINE N == NewBatch(writer[w].batchID)
               n == Len(batches) + 1
    <2>1. /\ IsList(batches)' /\ Known' = Known \cup {n}
          /\ \A b \in Known : batches'[b] = batches[b]
          /\ batches'[n] = N
      BY <1>1, <1>3, RowAdded
    <2>2. DOMAIN N = {"prev", "root", "leaves", "eventCount"}
      BY DEF NewBatch
    <2>3. \A b \in Known : DOMAIN batches[b] = {"prev", "root", "leaves", "eventCount"}
      BY <1>1 DEF TableInv
    <2>4. \A b \in Known' : DOMAIN batches'[b] = {"prev", "root", "leaves", "eventCount"}
      BY <2>1, <2>2, <2>3
    <2> HIDE DEF N
    <2>5. ASSUME NEW b \in Known', b \notin Known PROVE b = n /\ batches'[b] = N
      BY <2>1, <2>5
    <2> QED
      BY <1>3, <2>1, <2>4, <2>5 DEF Rows, N
  <1>4. ASSUME NEW p \in Procs, NEW c \in closing[p], c.step = "write", Stored(c)
        PROVE  Rows
    <2>1. c.batchID \in Known
      BY <1>1, <1>4, WriteKnown
    <2>2. /\ IsList(batches)' /\ Known' = Known
          /\ \A b \in Known : DOMAIN batches'[b] = DOMAIN batches[b] /\ batches'[b].prev = batches[b].prev
          /\ \A b \in Known : b # c.batchID => batches'[b] = batches[b]
          /\ batches'[c.batchID].root = ComputeRoot(Leaves(c.events))
          /\ batches'[c.batchID].leaves = c.events
          /\ batches'[c.batchID].eventCount = Len(c.events)
      BY <1>1, <1>4, <2>1, RowStored
    <2> QED
      BY <1>1, <1>4, <2>2 DEF Rows, TableInv
  <1>5. CASE UNCHANGED batchVars
    BY <1>2, <1>5 DEF batchVars
  <1>6. ASSUME NEW w \in Writers, WriteEvent(w) PROVE Rows
    BY <1>2, <1>3, <1>6 DEF WriteEvent, BeginTx, CurrentBatchID, BeginRollover, CreateBatch,
       CreateBatchFails, CommitEvent, RollbackEvent
  <1>7. ASSUME NEW p \in Procs, CloseStep(p) PROVE Rows
    BY <1>2, <1>4, <1>7 DEF CloseStep, MarkPendingClose, ListEvents, CloseBatch, CloseFails
  <1>8. ASSUME NEW p \in Procs, ProcessEnds(p) PROVE Rows
    BY <1>2, <1>8 DEF ProcessEnds
  <1>9. ASSUME NEW p \in Workers, Sweep(p) PROVE Rows
    BY <1>2, <1>9 DEF Sweep, SweepCache, ListOpenBatches, SweepNext, SweepEnds
  <1>10. CASE Age
    BY <1>2, <1>10 DEF Age
  <1> QED
    BY <1>5, <1>6, <1>7, <1>8, <1>9, <1>10 DEF BatchesNext

\* Every step keeps what the invariant says of the table.
LEMMA TableStep ==
    ASSUME BInv, [BatchesNext]_batchVars
    PROVE  TableInv'
  <1>1. TableInv /\ ProcessInv /\ Rows
    BY RowsStep DEF BInv
  <1>2. Len(batches) \in Nat /\ Len(batches') \in Nat /\ Len(batches) <= Len(batches')
    <2>1. Len(batches) \in Nat /\ Len(batches') \in Nat
      BY <1>1 DEF TableInv, Rows, IsList
    <2>2. \A b \in 1..Len(batches) : b \in 1..Len(batches')
      BY <1>1 DEF Rows, Known
    <2> QED
      BY <2>1, <2>2
  <1>3. ASSUME NEW b \in Known' PROVE batches'[b].prev \in 0..(b - 1)
    <2>1. CASE b \in Known
      BY <1>1, <2>1 DEF Rows, TableInv
    <2>2. CASE b \notin Known
      <3>1. PICK w \in Writers : batches'[b] = NewBatch(writer[w].batchID)
        BY <1>1, <2>2 DEF Rows
      <3>2. b = Len(batches) + 1
        BY <1>1, <2>2 DEF Rows
      <3>3. batches'[b].prev = writer[w].batchID /\ writer[w].batchID \in Known \cup {0}
        BY <1>1, <3>1 DEF NewBatch, ProcessInv, NoBatch
      <3> QED
        BY <1>2, <3>2, <3>3 DEF Known
    <2> QED
      BY <2>1, <2>2
  <1>4. log' \in Seq(Known')
    <2>1. log \in Seq(Known) /\ Known \subseteq Known'
      BY <1>1 DEF TableInv, Rows
    <2>2. log \in Seq(Known')
      <3>1. Len(log) \in Nat /\ log = [i \in 1..Len(log) |-> log[i]] /\ \A i \in 1..Len(log) : log[i] \in Known'
        BY <2>1
      <3> QED
        BY <3>1
    <2>3. CASE UNCHANGED log
      BY <2>2, <2>3
    <2>4. ASSUME NEW w \in Writers, CommitEvent(w) PROVE log' \in Seq(Known')
      <3>1. writer[w].batchID \in Known' /\ log' = Append(log, writer[w].batchID)
        BY <1>1, <2>1, <2>4 DEF CommitEvent, ProcessInv
      <3> QED
        BY <2>2, <3>1, AppendProperties
    <2>5. UNCHANGED log \/ \E w \in Writers : CommitEvent(w)
      BY DEF BatchesNext, batchVars, WriteEvent, BeginTx, CurrentBatchID, BeginRollover, CreateBatch,
         CreateBatchFails, RollbackEvent, CloseStep, MarkPendingClose, ListEvents, CloseBatch,
         CloseFails, ProcessEnds, Sweep, SweepCache, ListOpenBatches, SweepNext, SweepEnds, Age
    <2> QED
      BY <2>3, <2>4, <2>5
  <1>5. \E k \in 0..Len(batches') : aged' = 1..k
    <2>1. PICK k \in 0..Len(batches) : aged = 1..k
      BY <1>1 DEF TableInv
    <2>2. CASE UNCHANGED aged
      BY <1>2, <2>1, <2>2
    <2>3. CASE Age
      <3>1. Cardinality(aged) = k
        BY <1>2, <2>1, FS_Interval
      <3>2. aged' = 1..(k + 1) /\ k + 1 <= Len(batches)
        BY <1>2, <2>1, <2>3, <3>1 DEF Age
      <3> QED
        BY <1>2, <2>1, <3>2
    <2>4. UNCHANGED aged \/ Age
      BY DEF BatchesNext, batchVars, WriteEvent, BeginTx, CurrentBatchID, BeginRollover, CreateBatch,
         CreateBatchFails, CommitEvent, RollbackEvent, CloseStep, MarkPendingClose, ListEvents,
         CloseBatch, CloseFails, ProcessEnds, Sweep, SweepCache, ListOpenBatches, SweepNext, SweepEnds
    <2> QED
      BY <2>2, <2>3, <2>4
  <1> QED
    BY <1>1, <1>3, <1>4, <1>5 DEF TableInv, Rows

\* Every step keeps what the invariant says of the processes.
LEMMA ProcessStep ==
    ASSUME BInv, [BatchesNext]_batchVars
    PROVE  ProcessInv'
  <1>1. TableInv /\ ProcessInv /\ Rows
    BY RowsStep DEF BInv
  <1>2. Known \subseteq Known'
    BY <1>1 DEF Rows
  <1> DEFINE Ids == Known \cup {NoBatch}
             Cache == [batchID : Known' \cup {NoBatch}, eventCount : Nat]
             Place == [pc : {"idle", "tx", "creating", "assigned"}, batchID : Known' \cup {NoBatch}]
             Places1 == \A w \in Writers : writer[w].pc = "assigned" => writer[w].batchID # NoBatch
  <1>3. /\ cache \in [Procs -> Cache] /\ mutex \in [Procs -> Writers \cup {NoWriter}]
        /\ writer \in [Writers -> Place] /\ Places1 /\ crashes \in Nat
    <2>1. \A x \in Ids : x \in Known' \cup {NoBatch}
      BY <1>2
    <2>2. /\ cache \in [Procs -> [batchID : Ids, eventCount : Nat]]
          /\ writer \in [Writers -> [pc : {"idle", "tx", "creating", "assigned"}, batchID : Ids]]
      BY <1>1 DEF ProcessInv
    <2> HIDE DEF Ids
    <2>3. \A p \in Procs : cache[p] \in Cache
      BY <2>1, <2>2
    <2>4. \A w \in Writers : writer[w] \in Place
      BY <2>1, <2>2
    <2> HIDE DEF Cache, Place
    <2>5. cache \in [Procs -> Cache] /\ writer \in [Writers -> Place]
      BY <2>2, <2>3, <2>4
    <2> QED
      BY <1>1, <2>5 DEF ProcessInv
  <1>4. \A w \in Writers : Home[w] \in Procs
    BY MerkleBatchAssumption
  <1>5. ASSUME NEW w \in Writers, NEW pc \in {"idle", "tx", "creating"}, NEW b \in Known' \cup {NoBatch},
               Goto(w, pc, b)
        PROVE  writer' \in [Writers -> Place] /\ Places1'
    BY <1>3, <1>5 DEF Goto
  <1>6. ASSUME NEW w \in Writers, NEW b \in Known', b # NoBatch, Goto(w, "assigned", b)
        PROVE  writer' \in [Writers -> Place] /\ Places1'
    BY <1>3, <1>6 DEF Goto
  <1>7. \A p \in Procs : cache[p].batchID \in Known' \cup {NoBatch} /\ cache[p].eventCount \in Nat
    BY <1>3
  <1>8. \A w \in Writers : writer[w].batchID \in Known' \cup {NoBatch}
    BY <1>3
  <1> DEFINE G == /\ cache' \in [Procs -> Cache] /\ mutex' \in [Procs -> Writers \cup {NoWriter}]
                  /\ writer' \in [Writers -> Place] /\ Places1' /\ crashes' \in Nat
  <1>9. SUFFICES G
    BY DEF ProcessInv
  <1>10. ASSUME NEW w \in Writers, BeginTx(w) PROVE G
    <2>1. writer' \in [Writers -> Place] /\ Places1'
      <3> HIDE DEF Place, Places1
      <3> QED
        BY <1>5, <1>10 DEF BeginTx, NoBatch
    <2> HIDE DEF Place, Places1
    <2> QED
      BY <1>3, <1>10, <2>1 DEF BeginTx
  <1>11. ASSUME NEW w \in Writers, CurrentBatchID(w) PROVE G
    <2>1. cache[Home[w]].batchID \in Known' /\ cache[Home[w]].batchID # NoBatch
      BY <1>4, <1>7, <1>11 DEF CurrentBatchID, Usable
    <2>2. writer' \in [Writers -> Place] /\ Places1'
      <3> HIDE DEF Place, Places1
      <3> QED
        BY <1>6, <1>11, <2>1 DEF CurrentBatchID
    <2>3. cache' = [cache EXCEPT ![Home[w]].eventCount = @ + 1]
      BY <1>11 DEF CurrentBatchID
    <2>4. cache' \in [Procs -> Cache]
      BY <1>3, <1>4, <1>7, <2>3
    <2> HIDE DEF Place, Places1, Cache
    <2> QED
      BY <1>3, <1>11, <2>2, <2>4 DEF CurrentBatchID
  <1>12. ASSUME NEW w \in Writers, BeginRollover(w) PROVE G
    <2>1. writer' \in [Writers -> Place] /\ Places1'
      <3> HIDE DEF Place, Places1
      <3> QED
        BY <1>4, <1>5, <1>7, <1>12 DEF BeginRollover
    <2> HIDE DEF Place, Places1, Cache
    <2> QED
      BY <1>3, <1>4, <1>12, <2>1 DEF BeginRollover
  <1>13. ASSUME NEW w \in Writers, CreateBatch(w) PROVE G
    <2> DEFINE n == Len(batches) + 1
    <2>1. n \in Known' /\ n \in Nat /\ n # NoBatch
      <3>1. batches' = Append(batches, NewBatch(writer[w].batchID))
        BY <1>13 DEF CreateBatch
      <3> QED
        BY <1>1, <3>1, RowAdded DEF NoBatch
    <2>2. /\ Goto(w, "assigned", n) /\ cache' = [cache EXCEPT ![Home[w]] = [batchID |-> n, eventCount |-> 1]]
          /\ mutex' = [mutex EXCEPT ![Home[w]] = NoWriter] /\ crashes' = crashes
      BY <1>13 DEF CreateBatch
    <2> HIDE DEF n
    <2>3. writer' \in [Writers -> Place] /\ Places1'
      <3> HIDE DEF Place, Places1
      <3> QED
        BY <1>6, <2>1, <2>2
    <2>4. cache' \in [Procs -> Cache]
      BY <1>3, <1>4, <2>1, <2>2
    <2> HIDE DEF Place, Places1, Cache
    <2> QED
      BY <1>3, <1>4, <2>2, <2>3, <2>4
  <1>14. ASSUME NEW w \in Writers, CreateBatchFails(w) \/ CommitEvent(w) \/ RollbackEvent(w) PROVE G
    <2>1. Goto(w, "idle", NoBatch)
      BY <1>14 DEF CreateBatchFails, CommitEvent, RollbackEvent
    <2>2. writer' \in [Writers -> Place] /\ Places1'
      <3> HIDE DEF Place, Places1
      <3> QED
        BY <1>5, <2>1
    <2> HIDE DEF Place, Places1, Cache
    <2> QED
      BY <1>3, <1>4, <1>14, <2>2 DEF CreateBatchFails, CommitEvent, RollbackEvent
  <1>15. ASSUME NEW p \in Procs, ProcessEnds(p) PROVE G
    <2>1. NothingOpen \in Cache /\ [pc |-> "idle", batchID |-> NoBatch] \in Place
      BY DEF NothingOpen
    <2>2. /\ cache' = [cache EXCEPT ![p] = NothingOpen] /\ mutex' = [mutex EXCEPT ![p] = NoWriter]
          /\ writer' = [w \in Writers |-> IF Home[w] = p THEN [pc |-> "idle", batchID |-> NoBatch] ELSE writer[w]]
          /\ crashes' = crashes + 1
      BY <1>15 DEF ProcessEnds
    <2>3. Places1'
      BY <1>3, <2>2
    <2> HIDE DEF Place, Places1, Cache
    <2> QED
      BY <1>3, <2>1, <2>2, <2>3
  <1>16. ASSUME NEW p \in Workers, SweepCache(p) PROVE G
    <2>1. NothingOpen \in Cache
      BY DEF NothingOpen
    <2>2. UNCHANGED <<mutex, writer, crashes>>
      BY <1>16 DEF SweepCache
    <2>3. cache' = cache \/ cache' = [cache EXCEPT ![p] = NothingOpen]
      <3> HIDE DEF Cache
      <3> QED
        BY <1>3, <1>16 DEF SweepCache
    <2>4. Places1'
      BY <1>3, <2>2
    <2> HIDE DEF Place, Places1, Cache
    <2> QED
      BY <1>3, <2>1, <2>2, <2>3, <2>4
  <1>17. CASE UNCHANGED <<cache, mutex, writer, crashes>>
    BY <1>3, <1>17
  <1>18. \/ UNCHANGED <<cache, mutex, writer, crashes>>
         \/ \E w \in Writers : WriteEvent(w)
         \/ \E p \in Procs : ProcessEnds(p)
         \/ \E p \in Workers : SweepCache(p)
    BY DEF BatchesNext, batchVars, CloseStep, MarkPendingClose, ListEvents, CloseBatch, CloseFails, Sweep,
       ListOpenBatches, SweepNext, SweepEnds, Age
  <1> HIDE DEF G
  <1> QED
    BY <1>10, <1>11, <1>12, <1>13, <1>14, <1>15, <1>16, <1>17, <1>18 DEF WriteEvent

(***************************************************************************)
(* What was read of a batch stays a beginning of it, and what is written   *)
(* is what was read.                                                       *)
(***************************************************************************)
LEMMA RootStep ==
    ASSUME BInv, [BatchesNext]_batchVars
    PROVE  RootInv'
  <1>1. TableInv /\ ProcessInv /\ RootInv /\ Rows
    BY RowsStep DEF BInv
  <1>2. log \in Seq(Known)
    BY <1>1 DEF TableInv
  <1>3. \A e, b : Beginning(log, e, b) => Beginning(log', e, b)
    <2>1. ASSUME NEW w \in Writers, CommitEvent(w), NEW e, NEW b, Beginning(log, e, b)
          PROVE  Beginning(log', e, b)
      <3>1. writer[w].batchID \in Known /\ log' = Append(log, writer[w].batchID)
        BY <1>1, <2>1 DEF CommitEvent, ProcessInv
      <3>2. e \in Seq(Nat) /\ e # <<>> /\ IsPrefix(e, ListIn(log, b))
        BY <2>1 DEF Beginning
      <3>3. IsPrefix(e, ListIn(log', b))
        BY <1>2, <3>1, <3>2, BeginningsStay
      <3> QED
        BY <3>2, <3>3 DEF Beginning
    <2>2. UNCHANGED log \/ \E w \in Writers : CommitEvent(w)
      BY DEF BatchesNext, batchVars, WriteEvent, BeginTx, CurrentBatchID, BeginRollover, CreateBatch,
         CreateBatchFails, RollbackEvent, CloseStep, MarkPendingClose, ListEvents, CloseBatch,
         CloseFails, ProcessEnds, Sweep, SweepCache, ListOpenBatches, SweepNext, SweepEnds, Age
    <2> QED
      BY <2>1, <2>2
  <1>4. ASSUME NEW b \in Known' PROVE RowOK(log', b, batches'[b])
    <2>1. CASE b \notin Known
      <3>1. PICK w \in Writers : batches'[b] = NewBatch(writer[w].batchID)
        BY <1>1, <2>1 DEF Rows
      <3>2. batches'[b].root = <<>>
        BY <3>1 DEF NewBatch
      <3> QED
        BY <3>2 DEF RowOK
    <2>2. CASE b \in Known /\ batches'[b] = batches[b]
      BY <1>1, <1>3, <2>2 DEF RootInv, RowOK
    <2>3. CASE b \in Known /\ batches'[b] # batches[b]
      <3>1. PICK p \in Procs : \E c \in closing[p] :
               /\ c.step = "write" /\ b = c.batchID /\ batches'[b].leaves = c.events
               /\ batches'[b].root = ComputeRoot(Leaves(c.events))
               /\ batches'[b].eventCount = Len(c.events)
        BY <1>1, <2>3 DEF Rows
      <3>2. PICK c \in closing[p] :
               /\ c.step = "write" /\ b = c.batchID /\ batches'[b].leaves = c.events
               /\ batches'[b].root = ComputeRoot(Leaves(c.events))
               /\ batches'[b].eventCount = Len(c.events)
        BY <3>1
      <3>3. Beginning(log, c.events, b)
        BY <1>1, <3>2 DEF RootInv, CloseOK
      <3> QED
        BY <1>3, <3>2, <3>3 DEF RowOK
    <2> QED
      BY <2>1, <2>2, <2>3
  <1>5. \A c : CloseOK(log, c) => CloseOK(log', c)
    BY <1>3 DEF CloseOK
  \* What a step adds to the closes of a process is in order.
  <1> DEFINE Adds(p, D) == closing' = [closing EXCEPT ![p] = D]
             G == closing' = [p \in Procs |-> closing'[p]] /\ \A p \in Procs : \A c \in closing'[p] : CloseOK(log', c)
  <1>6. ASSUME NEW p \in Procs, NEW D, Adds(p, D), \A c \in D : c \in closing[p] \/ CloseOK(log', c)
        PROVE  G
    <2>1. closing = [q \in Procs |-> closing[q]] /\ \A q \in Procs : \A c \in closing[q] : CloseOK(log', c)
      BY <1>1, <1>5 DEF RootInv
    <2> QED
      BY <1>6, <2>1
  <1>7. ASSUME UNCHANGED closing PROVE G
    BY <1>1, <1>5, <1>7 DEF RootInv
  <1>8. \A b, by : CloseOK(log', Close(b, by))
    BY DEF CloseOK, Close
  <1> HIDE DEF G
  <1>9. ASSUME NEW w \in Writers, CreateBatch(w) PROVE G
    <2> DEFINE p == Home[w]
               D == closing[p] \cup (IF writer[w].batchID = NoBatch THEN {} ELSE {Close(writer[w].batchID, "async")})
    <2>1. p \in Procs
      BY MerkleBatchAssumption
    <2>2. Adds(p, D)
      BY <1>9 DEF CreateBatch
    <2>3. \A c \in D : c \in closing[p] \/ CloseOK(log', c)
      BY <1>8
    <2> HIDE DEF p, D
    <2> QED
      BY <1>6, <2>1, <2>2, <2>3
  <1>10. ASSUME NEW p \in Procs, ProcessEnds(p) PROVE G
    <2> DEFINE D == {}
    <2>1. Adds(p, D) /\ \A c \in D : c \in closing[p] \/ CloseOK(log', c)
      BY <1>10 DEF ProcessEnds
    <2> HIDE DEF D
    <2> QED
      BY <1>6, <2>1
  <1>11. ASSUME NEW p \in Workers, SweepNext(p) PROVE G
    <2> DEFINE D == closing[p] \cup {Close(Head(sweep[p].todo), "sweep")}
    <2>1. p \in Procs
      BY MerkleBatchAssumption
    <2>2. Adds(p, D)
      BY <1>11 DEF SweepNext
    <2>3. \A c \in D : c \in closing[p] \/ CloseOK(log', c)
      BY <1>8
    <2> HIDE DEF D
    <2> QED
      BY <1>6, <2>1, <2>2, <2>3
  <1>12. ASSUME NEW p \in Procs, NEW c \in closing[p], NEW O, Becomes(p, c, O),
                \A d \in O : CloseOK(log', d)
         PROVE  G
    <2>1. Adds(p, (closing[p] \ {c}) \cup O)
      BY <1>12 DEF Becomes
    <2>2. \A d \in (closing[p] \ {c}) \cup O : d \in closing[p] \/ CloseOK(log', d)
      BY <1>12
    <2> QED
      BY <1>6, <2>1, <2>2
  <1>13. ASSUME NEW p \in Procs, NEW c \in closing[p] PROVE DOMAIN c = {"batchID", "by", "step", "attempt", "events"}
    BY <1>1 DEF RootInv, CloseOK
  <1>14. ASSUME NEW p \in Procs, NEW c \in closing[p], MarkPendingClose(p, c) PROVE G
    <2> DEFINE d == [c EXCEPT !.step = "list"]
               O == IF c.batchID \in PendingClose(p) THEN {} ELSE {d}
    <2>1. CloseOK(log', d)
      BY <1>13 DEF CloseOK
    <2>2. Becomes(p, c, O)
      BY <1>14 DEF MarkPendingClose
    <2> HIDE DEF d
    <2>3. \A x \in O : CloseOK(log', x)
      BY <2>1
    <2> HIDE DEF O
    <2> QED
      BY <1>12, <2>2, <2>3
  <1>15. ASSUME NEW p \in Procs, NEW c \in closing[p], ListEvents(p, c) PROVE G
    <2> DEFINE E == ListBatchEvents(c.batchID)
               d == [c EXCEPT !.step = "write", !.events = E]
               O == IF E = <<>> THEN {} ELSE {d}
    <2>1. ASSUME E # <<>> PROVE CloseOK(log', d)
      <3>1. E = ListIn(log, c.batchID)
        BY DEF ListBatchEvents, ListIn, Places
      <3>2. E \in Seq(Nat)
        BY <1>2, <3>1, ListFacts
      <3>3. IsPrefix(E, ListIn(log, c.batchID))
        <4> HIDE DEF E
        <4>1. IsPrefix(E, E)
          BY <3>2, PrefixDef
        <4> QED
          BY <3>1, <4>1
      <3>4. Beginning(log, E, c.batchID)
        BY <2>1, <3>2, <3>3 DEF Beginning
      <3> HIDE DEF E
      <3>5. d.batchID = c.batchID /\ d.events = E /\ DOMAIN d = DOMAIN c
        BY <1>13
      <3> HIDE DEF d
      <3> QED
        BY <1>3, <1>13, <3>4, <3>5 DEF CloseOK
    <2>2. Becomes(p, c, O)
      BY <1>15 DEF ListEvents
    <2> HIDE DEF d, E
    <2>3. \A x \in O : CloseOK(log', x)
      BY <2>1
    <2> HIDE DEF O
    <2> QED
      BY <1>12, <2>2, <2>3
  <1>16. ASSUME NEW p \in Procs, NEW c \in closing[p], CloseBatch(p, c) PROVE G
    BY <1>12, <1>16 DEF CloseBatch
  <1>17. ASSUME NEW p \in Procs, NEW c \in closing[p], CloseFails(p, c) PROVE G
    <2> DEFINE d == [c EXCEPT !.step = "list", !.attempt = @ + 1, !.events = <<>>]
               O == IF c.attempt >= MaxCloseRetries THEN {} ELSE {d}
    <2>1. CloseOK(log', d)
      BY <1>13 DEF CloseOK
    <2>2. Becomes(p, c, O)
      BY <1>17 DEF CloseFails
    <2> HIDE DEF d
    <2>3. \A x \in O : CloseOK(log', x)
      BY <2>1
    <2> HIDE DEF O
    <2> QED
      BY <1>12, <2>2, <2>3
  <1>18. \/ UNCHANGED closing
         \/ \E w \in Writers : CreateBatch(w)
         \/ \E p \in Procs : ProcessEnds(p)
         \/ \E p \in Workers : SweepNext(p)
         \/ \E p \in Procs : CloseStep(p)
    BY DEF BatchesNext, batchVars, WriteEvent, BeginTx, CurrentBatchID, BeginRollover, CreateBatchFails, CommitEvent,
       RollbackEvent, Sweep, SweepCache, ListOpenBatches, SweepEnds, Age
  <1>19. G
    <2>1. CASE UNCHANGED closing
      BY <1>7, <2>1
    <2>2. ASSUME NEW p \in Procs, CloseStep(p) PROVE G
      BY <1>14, <1>15, <1>16, <1>17, <2>2 DEF CloseStep
    <2> QED
      BY <1>9, <1>10, <1>11, <1>18, <2>1, <2>2
  <1> QED
    BY <1>4, <1>19 DEF RootInv, G

-----------------------------------------------------------------------------
(***************************************************************************)
(* The chain.  But for CreateBatch no step makes a batch live or a tip.    *)
(***************************************************************************)
Shrinks ==
    /\ \A b \in Known' : Live(b)' => b \in Known /\ Live(b)
    /\ \A b \in Known', p \in Procs : Tip(b, p)' => b \in Known /\ Tip(b, p)

\* What such a step does to the log, the caches and the writers.
Quiet ==
    /\ \A b \in ToSet(log)' :
          b \in ToSet(log) \/ \E w \in Writers : writer[w].pc = "assigned" /\ writer[w].batchID = b
    /\ \A p \in Procs : cache'[p].batchID \in {cache[p].batchID, NoBatch}
    /\ \A w \in Writers :
          /\ writer'[w].pc = "assigned" => \/ writer[w].pc = "assigned" /\ writer'[w].batchID = writer[w].batchID
                                           \/ writer'[w].batchID = cache[Home[w]].batchID
          /\ writer'[w].pc = "creating" => \/ writer[w].pc = "creating" /\ writer'[w].batchID = writer[w].batchID
                                           \/ writer'[w].batchID = cache[Home[w]].batchID

\* Only batches of the table are live or tips.
LEMMA LiveKnown ==
    ASSUME TableInv, ProcessInv
    PROVE  /\ \A b : b # NoBatch /\ Live(b) => b \in Known
           /\ \A b, p : p \in Procs /\ b # NoBatch /\ Tip(b, p) => b \in Known
  <1>1. \A b \in ToSet(log) : b \in Known
    <2>1. log \in Seq(Known)
      BY DEF TableInv
    <2>2. \A i \in DOMAIN log : log[i] \in Known
      BY <2>1
    <2> QED
      BY <2>2 DEF ToSet
  <1>2. /\ \A p \in Procs : cache[p].batchID \in Known \cup {NoBatch}
        /\ \A w \in Writers : writer[w].batchID \in Known \cup {NoBatch}
    BY DEF ProcessInv
  <1> QED
    BY <1>1, <1>2 DEF Live, Tip, Creates

\* A step that creates no batch makes none live and none a tip.
LEMMA QuietShrinks ==
    ASSUME TableInv, ProcessInv, Quiet, IsList(batches)'
    PROVE  Shrinks
  <1>1. \A w \in Writers : Home[w] \in Procs
    BY MerkleBatchAssumption
  <1>2. NoBatch \notin Known'
    BY DEF Known, NoBatch
  <1>3. ASSUME NEW b \in Known', Live(b)' PROVE Live(b)
    <2>1. CASE b \in ToSet(log)'
      BY <2>1 DEF Quiet, Live
    <2>2. CASE \E p \in Procs : cache'[p].batchID = b
      BY <1>2, <2>2 DEF Quiet, Live
    <2>3. CASE \E w \in Writers : writer'[w].pc = "assigned" /\ writer'[w].batchID = b
      BY <1>1, <2>3 DEF Quiet, Live
    <2> QED
      BY <1>3, <2>1, <2>2, <2>3 DEF Live
  <1>4. ASSUME NEW b \in Known', NEW p \in Procs, Tip(b, p)' PROVE Tip(b, p)
    <2>1. CASE cache'[p].batchID = b
      BY <1>2, <2>1 DEF Quiet, Tip
    <2>2. ASSUME NEW w \in Writers, Home[w] = p, writer'[w].pc = "creating", writer'[w].batchID = b
          PROVE  Tip(b, p)
      BY <2>2 DEF Quiet, Tip, Creates
    <2> QED
      BY <1>4, <2>1, <2>2 DEF Tip, Creates
  <1> QED
    BY <1>2, <1>3, <1>4, LiveKnown DEF Shrinks

\* With no new live batch and no new tip there is one tip, at the end, and no fork.
LEMMA ShrinkKeepsChain ==
    ASSUME ChainInv, Rows, Shrinks
    PROVE  OneTip' /\ TipsEnd' /\ NoFork'
  <1>1. \A b \in Known : batches'[b].prev = batches[b].prev
    BY DEF Rows
  <1>2. OneTip'
    BY DEF ChainInv, OneTip, Shrinks
  <1>3. TipsEnd'
    <2> SUFFICES ASSUME NEW b \in Known', NEW p \in Procs, Tip(b, p)', NEW h \in Known', Live(h)'
                 PROVE  batches'[h].prev # b
      BY DEF TipsEnd
    <2>1. b \in Known /\ Tip(b, p) /\ h \in Known /\ Live(h)
      BY DEF Shrinks
    <2>2. batches[h].prev # b
      BY <2>1 DEF ChainInv, TipsEnd
    <2> QED
      BY <1>1, <2>1, <2>2
  <1>4. NoFork'
    <2> SUFFICES ASSUME NEW g \in Known', NEW h \in Known', Live(g)', Live(h)',
                        batches'[g].prev = batches'[h].prev
                 PROVE  g = h \/ batches'[g].prev = NoBatch
      BY DEF NoFork
    <2>1. g \in Known /\ Live(g) /\ h \in Known /\ Live(h)
      BY DEF Shrinks
    <2>2. batches[g].prev = batches'[g].prev /\ batches[h].prev = batches'[h].prev
      BY <1>1, <2>1
    <2>3. g = h \/ batches[g].prev = NoBatch
      BY <2>1, <2>2 DEF ChainInv, NoFork
    <2> QED
      BY <2>2, <2>3
  <1> QED
    BY <1>2, <1>3, <1>4

\* Every step but CreateBatch is quiet and keeps the locks.
LEMMA QuietSteps ==
    ASSUME BInv, [BatchesNext]_batchVars, \A w \in Writers : ~CreateBatch(w)
    PROVE  Quiet /\ LockInv'
  <1>1. ProcessInv /\ LockInv /\ TableInv
    BY DEF BInv, ChainInv
  <1>2. Home \in [Writers -> Procs] /\ NoWriter \notin Writers /\ Workers \subseteq Procs
    BY MerkleBatchAssumption
  <1>3. /\ \A p \in Procs : cache[p] \in [batchID : Known \cup {NoBatch}, eventCount : Nat]
        /\ \A w \in Writers : writer[w] \in [pc : {"idle", "tx", "creating", "assigned"},
                                             batchID : Known \cup {NoBatch}]
        /\ cache = [p \in Procs |-> cache[p]] /\ mutex = [p \in Procs |-> mutex[p]]
        /\ writer = [w \in Writers |-> writer[w]]
    BY <1>1 DEF ProcessInv
  <1> DEFINE G == Quiet /\ LockInv'
  <1>4. ASSUME NEW w \in Writers, NEW pc, NEW b, Goto(w, pc, b)
        PROVE  writer'[w].pc = pc /\ writer'[w].batchID = b /\ \A v \in Writers : v # w => writer'[v] = writer[v]
    BY <1>3, <1>4 DEF Goto
  <1>5. CASE UNCHANGED <<log, cache, mutex, writer>>
    BY <1>1, <1>5 DEF Quiet, LockInv
  <1>6. ASSUME NEW w \in Writers, BeginTx(w) PROVE G
    <2>1. /\ writer'[w].pc = "tx" /\ \A v \in Writers : v # w => writer'[v] = writer[v]
          /\ UNCHANGED <<log, cache, mutex>>
      BY <1>4, <1>6 DEF BeginTx
    <2> QED
      BY <1>1, <2>1 DEF Quiet, LockInv
  <1>7. ASSUME NEW w \in Writers, CurrentBatchID(w) PROVE G
    <2>1. /\ writer'[w].pc = "assigned" /\ writer'[w].batchID = cache[Home[w]].batchID
          /\ \A v \in Writers : v # w => writer'[v] = writer[v]
          /\ UNCHANGED <<log, mutex>>
      BY <1>4, <1>7 DEF CurrentBatchID
    <2>2. \A p \in Procs : cache'[p].batchID = cache[p].batchID
      <3>1. cache' = [cache EXCEPT ![Home[w]].eventCount = @ + 1]
        BY <1>7 DEF CurrentBatchID
      <3> QED
        BY <1>2, <1>3, <3>1
    <2> QED
      BY <1>1, <1>2, <2>1, <2>2 DEF Quiet, LockInv
  <1>8. ASSUME NEW w \in Writers, BeginRollover(w) PROVE G
    <2> DEFINE p == Home[w]
    <2>1. /\ writer'[w].pc = "creating" /\ writer'[w].batchID = cache[p].batchID
          /\ \A v \in Writers : v # w => writer'[v] = writer[v]
          /\ UNCHANGED <<log, cache>> /\ mutex[p] = NoWriter /\ mutex' = [mutex EXCEPT ![p] = w]
      BY <1>4, <1>8 DEF BeginRollover
    <2>2. p \in Procs
      BY <1>2
    <2>3. mutex'[p] = w /\ \A q \in Procs : q # p => mutex'[q] = mutex[q]
      BY <1>3, <2>1, <2>2
    <2> HIDE DEF p
    <2>4. Quiet
      BY <2>1 DEF Quiet, p
    <2>5. LockInv'
      <3> SUFFICES ASSUME NEW v \in Writers, writer'[v].pc = "creating"
                   PROVE  mutex'[Home[v]] = v /\ cache'[Home[v]].batchID \in {writer'[v].batchID, NoBatch}
        BY DEF LockInv
      <3>1. CASE v = w
        BY <2>1, <2>3, <3>1 DEF p
      <3>2. CASE v # w
        <4>1. writer[v].pc = "creating" /\ writer'[v] = writer[v]
          BY <2>1, <3>2
        <4>2. mutex[Home[v]] = v /\ cache[Home[v]].batchID \in {writer[v].batchID, NoBatch}
          BY <1>1, <4>1 DEF LockInv
        <4>3. Home[v] # p /\ Home[v] \in Procs
          BY <1>2, <2>1, <4>2
        <4> QED
          BY <2>1, <2>3, <4>1, <4>2, <4>3
      <3> QED
        BY <3>1, <3>2
    <2> QED
      BY <2>4, <2>5
  <1>9. ASSUME NEW w \in Writers, CreateBatchFails(w) PROVE G
    <2> DEFINE p == Home[w]
    <2>1. /\ writer[w].pc = "creating" /\ writer'[w].pc = "idle"
          /\ \A v \in Writers : v # w => writer'[v] = writer[v]
          /\ UNCHANGED <<log, cache>> /\ mutex' = [mutex EXCEPT ![p] = NoWriter]
      BY <1>4, <1>9 DEF CreateBatchFails
    <2>2. p \in Procs
      BY <1>2
    <2>3. \A q \in Procs : q # p => mutex'[q] = mutex[q]
      BY <1>3, <2>1, <2>2
    <2>4. mutex[p] = w
      BY <1>1, <2>1 DEF LockInv
    <2> HIDE DEF p
    <2>5. Quiet
      BY <2>1 DEF Quiet
    <2>6. LockInv'
      <3> SUFFICES ASSUME NEW v \in Writers, writer'[v].pc = "creating"
                   PROVE  mutex'[Home[v]] = v /\ cache'[Home[v]].batchID \in {writer'[v].batchID, NoBatch}
        BY DEF LockInv
      <3>1. v # w /\ writer[v].pc = "creating" /\ writer'[v] = writer[v]
        BY <2>1
      <3>2. mutex[Home[v]] = v /\ cache[Home[v]].batchID \in {writer[v].batchID, NoBatch}
        BY <1>1, <3>1 DEF LockInv
      <3>3. Home[v] # p /\ Home[v] \in Procs
        BY <1>2, <2>4, <3>1, <3>2
      <3> QED
        BY <2>1, <2>3, <3>1, <3>2, <3>3
    <2> QED
      BY <2>5, <2>6
  <1>10. ASSUME NEW w \in Writers, CommitEvent(w) PROVE G
    <2>1. /\ writer[w].pc = "assigned" /\ writer'[w].pc = "idle"
          /\ \A v \in Writers : v # w => writer'[v] = writer[v]
          /\ UNCHANGED <<cache, mutex>> /\ log' = Append(log, writer[w].batchID)
      BY <1>4, <1>10 DEF CommitEvent
    <2>2. \A b \in ToSet(log)' : b \in ToSet(log) \/ b = writer[w].batchID
      <3> DEFINE x == writer[w].batchID
      <3>1. log \in Seq(Known) /\ x \in Known
        BY <1>1, <2>1 DEF TableInv, ProcessInv
      <3> HIDE DEF x
      <3>2. log' = Append(log, x)
        BY <2>1 DEF x
      <3>3. \A i \in DOMAIN log' : (i \in DOMAIN log /\ log'[i] = log[i]) \/ log'[i] = x
        BY <3>1, <3>2
      <3>4. \A b \in ToSet(log)' : b \in ToSet(log) \/ b = x
        BY <3>3 DEF ToSet
      <3> QED
        BY <3>4 DEF x
    <2> QED
      BY <1>1, <2>1, <2>2 DEF Quiet, LockInv
  <1>11. ASSUME NEW w \in Writers, RollbackEvent(w) PROVE G
    <2>1. /\ writer'[w].pc = "idle" /\ \A v \in Writers : v # w => writer'[v] = writer[v]
          /\ UNCHANGED <<log, cache, mutex>>
      BY <1>4, <1>11 DEF RollbackEvent
    <2> QED
      BY <1>1, <2>1 DEF Quiet, LockInv
  <1>12. ASSUME NEW p \in Procs, ProcessEnds(p) PROVE G
    <2>1. /\ \A v \in Writers : IF Home[v] = p THEN writer'[v].pc = "idle" ELSE writer'[v] = writer[v]
          /\ UNCHANGED log
      BY <1>12 DEF ProcessEnds
    <2>2. /\ cache'[p].batchID = NoBatch
          /\ \A q \in Procs : q # p => cache'[q] = cache[q] /\ mutex'[q] = mutex[q]
      BY <1>3, <1>12 DEF ProcessEnds, NothingOpen
    <2>3. Quiet
      BY <2>1, <2>2 DEF Quiet
    <2>4. LockInv'
      BY <1>1, <1>2, <2>1, <2>2 DEF LockInv
    <2> QED
      BY <2>3, <2>4
  <1>13. ASSUME NEW p \in Workers, SweepCache(p) PROVE G
    <2>1. UNCHANGED <<log, mutex, writer>>
      BY <1>13 DEF SweepCache
    <2>2. \A q \in Procs : cache'[q].batchID \in {cache[q].batchID, NoBatch}
      <3>1. PICK x : x \in {cache[p], NothingOpen} /\ cache' = [cache EXCEPT ![p] = x]
        BY <1>13 DEF SweepCache
      <3>2. p \in Procs /\ NothingOpen.batchID = NoBatch
        BY <1>2 DEF NothingOpen
      <3> QED
        BY <1>3, <3>1, <3>2
    <2> QED
      BY <1>1, <1>2, <2>1, <2>2 DEF Quiet, LockInv
  <1>14. \/ UNCHANGED <<log, cache, mutex, writer>>
         \/ \E w \in Writers : WriteEvent(w)
         \/ \E p \in Procs : ProcessEnds(p)
         \/ \E p \in Workers : SweepCache(p)
    BY DEF BatchesNext, batchVars, CloseStep, MarkPendingClose, ListEvents, CloseBatch, CloseFails, Sweep,
       ListOpenBatches, SweepNext, SweepEnds, Age
  <1> HIDE DEF G
  <1>15. ASSUME NEW w \in Writers, WriteEvent(w) PROVE G
    BY <1>6, <1>7, <1>8, <1>9, <1>10, <1>11, <1>15 DEF WriteEvent
  <1> QED
    BY <1>5, <1>12, <1>13, <1>14, <1>15 DEF G

(***************************************************************************)
(* CreateBatch: the new batch follows the tip of its process, which no     *)
(* longer is one.                                                          *)
(***************************************************************************)
LEMMA CreateFacts ==
    ASSUME BInv, NEW w \in Writers, CreateBatch(w)
    PROVE  LET p == Home[w]  n == Len(batches) + 1 IN
           /\ p \in Procs /\ n \in Nat /\ n # NoBatch /\ n \notin Known /\ Known' = Known \cup {n}
           /\ \A b \in Known : batches'[b] = batches[b] /\ b < n
           /\ batches'[n].prev = writer[w].batchID /\ writer[w].batchID \in Known \cup {NoBatch}
           /\ cache'[p].batchID = n /\ \A q \in Procs : q # p => cache'[q] = cache[q] /\ mutex'[q] = mutex[q]
           /\ writer[w].pc = "creating" /\ writer'[w].pc = "assigned" /\ writer'[w].batchID = n
           /\ \A v \in Writers : v # w => writer'[v] = writer[v]
           /\ \A v \in Writers : v # w /\ writer[v].pc = "creating" => Home[v] # p
           /\ UNCHANGED <<aged, log, crashes>>
  <1> DEFINE p == Home[w]
             n == Len(batches) + 1
             o == writer[w].batchID
  <1>1. TableInv /\ ProcessInv /\ LockInv
    BY DEF BInv, ChainInv
  <1>2. p \in Procs
    BY MerkleBatchAssumption
  <1>3. /\ batches' = Append(batches, NewBatch(o)) /\ writer[w].pc = "creating"
        /\ cache' = [cache EXCEPT ![p] = [batchID |-> n, eventCount |-> 1]]
        /\ mutex' = [mutex EXCEPT ![p] = NoWriter]
        /\ writer' = [writer EXCEPT ![w] = [pc |-> "assigned", batchID |-> n]]
        /\ UNCHANGED <<aged, log, crashes>>
    BY DEF CreateBatch, Goto
  <1>4. /\ Len(batches) \in Nat /\ Known' = Known \cup {n}
        /\ \A b \in Known : batches'[b] = batches[b]
        /\ batches'[n] = NewBatch(o)
    BY <1>1, <1>3, RowAdded
  <1>5. n \in Nat /\ n # NoBatch /\ n \notin Known /\ \A b \in Known : b < n
    BY <1>4 DEF Known, NoBatch
  <1>6. batches'[n].prev = o /\ o \in Known \cup {NoBatch}
    BY <1>1, <1>4 DEF NewBatch, ProcessInv
  <1> HIDE DEF n, o
  <1>7. cache'[p].batchID = n /\ \A q \in Procs : q # p => cache'[q] = cache[q] /\ mutex'[q] = mutex[q]
    BY <1>1, <1>2, <1>3 DEF ProcessInv
  <1>8. /\ writer'[w].pc = "assigned" /\ writer'[w].batchID = n
        /\ \A v \in Writers : v # w => writer'[v] = writer[v]
    BY <1>1, <1>3 DEF ProcessInv
  <1>9. \A v \in Writers : v # w /\ writer[v].pc = "creating" => Home[v] # p
    BY <1>1, <1>3 DEF LockInv
  <1> QED
    BY <1>2, <1>3, <1>4, <1>5, <1>6, <1>7, <1>8, <1>9 DEF n, o

\* CreateBatch keeps the chain.
LEMMA CreateKeepsChain ==
    ASSUME BInv, NEW w \in Writers, CreateBatch(w)
    PROVE  ChainInv'
  <1> DEFINE p == Home[w]
             n == Len(batches) + 1
             o == writer[w].batchID
  <1>1. /\ p \in Procs /\ n \in Nat /\ n # NoBatch /\ n \notin Known /\ Known' = Known \cup {n}
        /\ \A b \in Known : batches'[b] = batches[b] /\ b < n
        /\ batches'[n].prev = o /\ o \in Known \cup {NoBatch}
        /\ cache'[p].batchID = n /\ \A q \in Procs : q # p => cache'[q] = cache[q] /\ mutex'[q] = mutex[q]
        /\ writer[w].pc = "creating" /\ writer'[w].pc = "assigned" /\ writer'[w].batchID = n
        /\ \A v \in Writers : v # w => writer'[v] = writer[v]
        /\ \A v \in Writers : v # w /\ writer[v].pc = "creating" => Home[v] # p
        /\ UNCHANGED <<aged, log, crashes>>
    BY CreateFacts
  <1>2. TableInv /\ ProcessInv /\ LockInv /\ OneTip /\ TipsEnd /\ NoFork
    BY DEF BInv, ChainInv
  <1>3. \A v \in Writers : Home[v] \in Procs
    BY MerkleBatchAssumption
  <1>4. /\ \A b : b # NoBatch /\ Live(b) => b \in Known
        /\ \A b, q : q \in Procs /\ b # NoBatch /\ Tip(b, q) => b \in Known
    BY <1>2, LiveKnown
  <1>5. \A b \in Known : b # NoBatch /\ b # n /\ batches[b].prev \in 0..(b - 1)
    BY <1>1, <1>2 DEF TableInv, Known, NoBatch
  <1> HIDE DEF n, o, p
  <1>6. Tip(o, p)
    BY <1>1 DEF Tip, Creates, o, p
  <1>7. LockInv'
    <2> SUFFICES ASSUME NEW v \in Writers, writer'[v].pc = "creating"
                 PROVE  mutex'[Home[v]] = v /\ cache'[Home[v]].batchID \in {writer'[v].batchID, NoBatch}
      BY DEF LockInv
    <2>1. v # w /\ writer'[v] = writer[v] /\ writer[v].pc = "creating" /\ Home[v] # p
      BY <1>1
    <2>2. mutex[Home[v]] = v /\ cache[Home[v]].batchID \in {writer[v].batchID, NoBatch}
      BY <1>2, <2>1 DEF LockInv
    <2> QED
      BY <1>1, <1>3, <2>1, <2>2
  \* What is live or a tip afterwards.
  <1>8. ASSUME NEW b \in Known, Live(b)' PROVE Live(b)
    <2>1. CASE b \in ToSet(log)'
      BY <1>1, <2>1 DEF Live
    <2>2. CASE \E q \in Procs : cache'[q].batchID = b
      BY <1>1, <1>5, <2>2 DEF Live
    <2>3. CASE \E v \in Writers : writer'[v].pc = "assigned" /\ writer'[v].batchID = b
      BY <1>1, <1>5, <2>3 DEF Live
    <2> QED
      BY <1>8, <2>1, <2>2, <2>3 DEF Live
  <1>9. ASSUME NEW b \in Known', NEW q \in Procs, Tip(b, q)'
        PROVE  (b = n /\ q = p) \/ (b \in Known /\ q # p /\ Tip(b, q))
    <2>1. CASE cache'[q].batchID = b /\ q = p
      BY <1>1, <2>1
    <2>2. CASE cache'[q].batchID = b /\ q # p
      <3>1. Tip(b, q)
        BY <1>1, <2>2 DEF Tip
      <3>2. b # NoBatch
        BY <1>1, <1>5
      <3> QED
        BY <1>4, <2>2, <3>1, <3>2
    <2>3. ASSUME NEW v \in Writers, Home[v] = q, writer'[v].pc = "creating", writer'[v].batchID = b
          PROVE  b \in Known /\ q # p /\ Tip(b, q)
      <3>1. v # w /\ writer'[v] = writer[v]
        BY <1>1, <2>3
      <3>2. Tip(b, q) /\ q # p
        BY <1>1, <2>3, <3>1 DEF Tip, Creates
      <3>3. b # NoBatch
        BY <1>1, <1>5
      <3> QED
        BY <1>4, <3>2, <3>3
    <2> QED
      BY <1>9, <2>1, <2>2, <2>3 DEF Tip, Creates
  <1>10. OneTip'
    <2> SUFFICES ASSUME NEW b \in Known', NEW q \in Procs, NEW r \in Procs, Tip(b, q)', Tip(b, r)'
                 PROVE  q = r
      BY DEF OneTip
    <2>1. /\ (b = n /\ q = p) \/ (b \in Known /\ q # p /\ Tip(b, q))
          /\ (b = n /\ r = p) \/ (b \in Known /\ r # p /\ Tip(b, r))
      BY <1>9
    <2> QED
      BY <1>1, <1>2, <2>1 DEF OneTip
  <1>11. TipsEnd'
    <2> SUFFICES ASSUME NEW b \in Known', NEW q \in Procs, Tip(b, q)', NEW h \in Known', Live(h)'
                 PROVE  batches'[h].prev # b
      BY DEF TipsEnd
    <2>1. (b = n /\ q = p) \/ (b \in Known /\ q # p /\ Tip(b, q))
      BY <1>9
    <2>2. CASE h = n
      <3>1. CASE b = n
        BY <1>1, <2>2, <3>1
      <3>2. CASE b \in Known /\ q # p /\ Tip(b, q)
        BY <1>1, <1>2, <1>6, <2>2, <3>2 DEF OneTip
      <3> QED
        BY <2>1, <3>1, <3>2
    <2>3. CASE h \in Known
      <3>1. Live(h) /\ batches'[h] = batches[h]
        BY <1>1, <1>8, <2>3
      <3>2. CASE b = n
        <4>1. batches[h].prev \in 0..(h - 1) /\ h < n /\ h \in Nat
          BY <1>1, <1>5, <2>3 DEF Known
        <4> QED
          BY <1>1, <3>1, <3>2, <4>1
      <3>3. CASE b \in Known /\ Tip(b, q)
        BY <1>2, <2>3, <3>1, <3>3 DEF TipsEnd
      <3> QED
        BY <2>1, <3>2, <3>3
    <2> QED
      BY <1>1, <2>2, <2>3
  <1>12. ASSUME NEW h \in Known, Live(h)', batches[h].prev = o PROVE o = NoBatch
    BY <1>1, <1>2, <1>6, <1>8, <1>12 DEF TipsEnd
  <1>13. NoFork'
    <2> SUFFICES ASSUME NEW g \in Known', NEW h \in Known', Live(g)', Live(h)',
                        batches'[g].prev = batches'[h].prev
                 PROVE  g = h \/ batches'[g].prev = NoBatch
      BY DEF NoFork
    <2>1. CASE g \in Known /\ h \in Known
      BY <1>1, <1>2, <1>8, <2>1 DEF NoFork
    <2>2. CASE g = n /\ h \in Known
      BY <1>1, <1>12, <2>2
    <2>3. CASE h = n /\ g \in Known
      BY <1>1, <1>12, <2>3
    <2> QED
      BY <1>1, <2>1, <2>2, <2>3
  <1> QED
    BY <1>7, <1>10, <1>11, <1>13 DEF ChainInv

\* Every step keeps the chain.
LEMMA ChainStep ==
    ASSUME BInv, [BatchesNext]_batchVars
    PROVE  ChainInv'
  <1>1. CASE \E w \in Writers : CreateBatch(w)
    BY <1>1, CreateKeepsChain
  <1>2. CASE \A w \in Writers : ~CreateBatch(w)
    <2>1. Quiet /\ LockInv'
      BY <1>2, QuietSteps
    <2>2. Rows
      BY RowsStep
    <2>3. Shrinks
      BY <2>1, <2>2, QuietShrinks DEF BInv, Rows
    <2>4. OneTip' /\ TipsEnd' /\ NoFork'
      BY <2>2, <2>3, ShrinkKeepsChain DEF BInv
    <2> QED
      BY <2>1, <2>4 DEF ChainInv
  <1> QED
    BY <1>1, <1>2

-----------------------------------------------------------------------------
(***************************************************************************)
(* The beginnings of chains.                                               *)
(***************************************************************************)
LEMMA HeadsFewer ==
    ASSUME Rows, Shrinks, aged \subseteq aged'
    PROVE  Heads' \subseteq Heads
  <1> SUFFICES ASSUME NEW b \in Known', batches'[b].prev = NoBatch, b \notin aged', Live(b)'
               PROVE  b \in Heads
    BY DEF Heads
  <1>1. b \in Known /\ Live(b)
    BY DEF Shrinks
  <1>2. batches[b].prev = NoBatch
    BY <1>1 DEF Rows
  <1> QED
    BY <1>1, <1>2 DEF Heads

\* The account of the heads stays when there are no more of them and no cache goes back.
LEMMA HeadsKept ==
    ASSUME HeadsInv, Heads' \subseteq Heads, crashes' = crashes,
           \A b \in Heads', p \in Procs : b <= cache[p].batchID => b <= cache'[p].batchID
    PROVE  HeadsInv'
  <1>1. PICK f \in [Heads -> Slots] : Accounts(f)
    BY DEF HeadsInv
  <1>2. Slots' = Slots
    BY DEF Slots, Homes
  <1>3. PICK g : g \in [Heads' -> Slots'] /\ \A b \in Heads' : g[b] = f[b]
    <2>1. /\ [b \in Heads' |-> f[b]] \in [Heads' -> Slots']
          /\ \A c \in Heads' : [b \in Heads' |-> f[b]][c] = f[c]
      BY <1>2
    <2> QED
      BY <2>1
  <1>4. \A b, c \in Heads' : g[b] = g[c] => b = c
    BY <1>1, <1>3 DEF Accounts
  <1>5. \A b \in Heads', p \in Procs : g[b] = <<"proc", p>> => b <= cache'[p].batchID
    BY <1>1, <1>3 DEF Accounts
  <1>6. Accounts(g)'
    BY <1>4, <1>5 DEF Accounts
  <1> QED
    BY <1>3, <1>6 DEF HeadsInv

\* A process that has nothing cached has no chain to answer for.
LEMMA CreateKeepsHeads ==
    ASSUME BInv, NEW w \in Writers, CreateBatch(w)
    PROVE  HeadsInv'
  <1> DEFINE p == Home[w]
             n == Len(batches) + 1
             o == writer[w].batchID
  <1>1. /\ p \in Procs /\ n \in Nat /\ n # NoBatch /\ n \notin Known /\ Known' = Known \cup {n}
        /\ \A b \in Known : batches'[b] = batches[b] /\ b < n
        /\ batches'[n].prev = o /\ o \in Known \cup {NoBatch}
        /\ cache'[p].batchID = n /\ \A q \in Procs : q # p => cache'[q] = cache[q] /\ mutex'[q] = mutex[q]
        /\ writer[w].pc = "creating" /\ writer'[w].pc = "assigned" /\ writer'[w].batchID = n
        /\ \A v \in Writers : v # w => writer'[v] = writer[v]
        /\ UNCHANGED <<aged, log, crashes>>
    BY CreateFacts
  <1>2. cache[p].batchID \in {o, NoBatch}
    BY <1>1 DEF BInv, ChainInv, LockInv
  <1>3. p \in Homes
    BY DEF Homes
  <1>4. Known \subseteq Nat \ {0}
    BY DEF Known
  <1>5. HeadsInv
    BY DEF BInv
  <1> HIDE DEF n, o, p
  <1>6. ASSUME NEW b \in Heads', b # n PROVE b \in Heads /\ b \in Known /\ b < n
    <2>1. b \in Known /\ batches[b].prev = NoBatch /\ b \notin aged /\ Live(b)'
      BY <1>1, <1>6 DEF Heads
    <2>2. CASE b \in ToSet(log)'
      BY <1>1, <2>1, <2>2 DEF Live, Heads
    <2>3. CASE \E q \in Procs : cache'[q].batchID = b
      BY <1>1, <1>6, <2>1, <2>3 DEF Live, Heads
    <2>4. CASE \E v \in Writers : writer'[v].pc = "assigned" /\ writer'[v].batchID = b
      BY <1>1, <1>6, <2>1, <2>4 DEF Live, Heads
    <2> QED
      BY <1>1, <2>1, <2>2, <2>3, <2>4 DEF Live
  <1>7. ASSUME NEW b \in Known, NEW q \in Procs, b <= cache[q].batchID PROVE b <= cache'[q].batchID
    <2>1. CASE q = p
      BY <1>1, <1>4, <2>1
    <2>2. CASE q # p
      BY <1>1, <1>7, <2>2
    <2> QED
      BY <2>1, <2>2
  <1>8. CASE o # NoBatch
    <2>1. n \notin Heads'
      BY <1>1, <1>8 DEF Heads
    <2>2. Heads' \subseteq Heads
      BY <1>6, <2>1
    <2>3. \A b \in Heads', q \in Procs : b <= cache[q].batchID => b <= cache'[q].batchID
      BY <1>6, <1>7, <2>1
    <2> QED
      BY <1>1, <1>5, <2>2, <2>3, HeadsKept
  <1>9. CASE o = NoBatch
    <2>1. PICK f \in [Heads -> Slots] : Accounts(f)
      BY <1>5 DEF HeadsInv
    <2>2. Slots' = Slots /\ <<"proc", p>> \in Slots
      BY <1>1, <1>3 DEF Slots, Homes
    <2>3. PICK g : /\ g \in [Heads' -> Slots']
                   /\ \A b \in Heads' : (b = n /\ g[b] = <<"proc", p>>) \/ (b # n /\ g[b] = f[b])
      <3> DEFINE e == [b \in Heads' |-> IF b = n THEN <<"proc", p>> ELSE f[b]]
      <3>1. /\ e \in [Heads' -> Slots']
            /\ \A b \in Heads' : (b = n /\ e[b] = <<"proc", p>>) \/ (b # n /\ e[b] = f[b])
        BY <1>6, <2>2
      <3> HIDE DEF e
      <3> QED
        BY <3>1
    <2>4. \A b \in Heads : f[b] # <<"proc", p>>
      <3>1. cache[p].batchID = 0
        BY <1>2, <1>9 DEF NoBatch
      <3>2. \A b \in Heads : b \in Nat /\ b > 0
        BY <1>4 DEF Heads
      <3>3. \A b \in Heads : f[b] = <<"proc", p>> => b <= 0
        BY <1>1, <2>1, <3>1 DEF Accounts
      <3> QED
        BY <3>2, <3>3
    <2>5. \A b, c \in Heads' : g[b] = g[c] => b = c
      BY <1>6, <2>1, <2>3, <2>4 DEF Accounts
    <2>6. ASSUME NEW b \in Heads', NEW q \in Procs, g[b] = <<"proc", q>> PROVE b <= cache'[q].batchID
      <3>1. CASE b = n
        <4>1. <<"proc", p>>[2] = <<"proc", q>>[2]
          BY <2>3, <2>6, <3>1
        <4> QED
          BY <1>1, <3>1, <4>1
      <3>2. CASE b # n
        <4>1. b \in Heads /\ b \in Known /\ f[b] = <<"proc", q>>
          BY <1>6, <2>3, <2>6, <3>2
        <4>2. b <= cache[q].batchID
          BY <2>1, <4>1 DEF Accounts
        <4> QED
          BY <1>7, <4>1, <4>2
      <3> QED
        BY <3>1, <3>2
    <2>7. Accounts(g)'
      BY <2>5, <2>6 DEF Accounts
    <2> QED
      BY <2>3, <2>7 DEF HeadsInv
  <1> QED
    BY <1>8, <1>9

\* A crash answers for the chain of the process that it ends.
LEMMA CrashKeepsHeads ==
    ASSUME BInv, NEW p \in Procs, ProcessEnds(p), Heads' \subseteq Heads
    PROVE  HeadsInv'
  <1>1. HeadsInv /\ ProcessInv
    BY DEF BInv
  <1>2. PICK f \in [Heads -> Slots] : Accounts(f)
    BY <1>1 DEF HeadsInv
  <1>3. crashes \in Nat /\ crashes' = crashes + 1 /\ \A q \in Procs : q # p => cache'[q] = cache[q]
    BY <1>1 DEF ProcessEnds, ProcessInv
  <1> DEFINE k == crashes + 1
             s == <<"crash", k>>
  <1>4. Slots \subseteq Slots' /\ s \in Slots'
    <2>1. 1..crashes \subseteq 1..crashes' /\ k \in 1..crashes'
      BY <1>3
    <2> HIDE DEF k
    <2> QED
      BY <2>1 DEF Slots, Homes
  <1>5. s \notin Slots
    <2> SUFFICES ASSUME s \in Slots PROVE FALSE
      OBVIOUS
    <2>1. CASE \E q \in Homes : s = <<"proc", q>>
      <3>1. PICK q \in Homes : s = <<"proc", q>>
        BY <2>1
      <3>2. s[1] = "proc" /\ s[1] = "crash"
        BY <3>1
      <3> QED
        BY <3>2
    <2>2. CASE \E j \in 1..crashes : s = <<"crash", j>>
      <3>1. PICK j \in 1..crashes : s = <<"crash", j>>
        BY <2>2
      <3>2. s[2] = j /\ s[2] = crashes + 1
        BY <3>1
      <3> QED
        BY <1>3, <3>2
    <2> QED
      BY <2>1, <2>2 DEF Slots
  <1> HIDE DEF k, s
  <1>6. PICK g : /\ g \in [Heads' -> Slots']
                 /\ \A b \in Heads' : \/ f[b] = <<"proc", p>> /\ g[b] = s
                                      \/ f[b] # <<"proc", p>> /\ g[b] = f[b]
    <2> DEFINE e == [b \in Heads' |-> IF f[b] = <<"proc", p>> THEN s ELSE f[b]]
    <2>1. /\ e \in [Heads' -> Slots']
          /\ \A b \in Heads' : \/ f[b] = <<"proc", p>> /\ e[b] = s
                               \/ f[b] # <<"proc", p>> /\ e[b] = f[b]
      BY <1>4
    <2> HIDE DEF e
    <2> QED
      BY <2>1
  <1>7. \A b, c \in Heads' : g[b] = g[c] => b = c
    <2>1. \A b \in Heads' : b \in Heads /\ f[b] # s
      BY <1>5
    <2> QED
      BY <1>2, <1>6, <2>1 DEF Accounts
  <1>8. ASSUME NEW b \in Heads', NEW q \in Procs, g[b] = <<"proc", q>> PROVE b <= cache'[q].batchID
    <2>1. s # <<"proc", q>>
      <3>1. s[1] = "crash"
        BY DEF s
      <3>2. <<"proc", q>>[1] = "proc"
        OBVIOUS
      <3> QED
        BY <3>1, <3>2
    <2>2. f[b] = <<"proc", q>> /\ f[b] # <<"proc", p>>
      BY <1>6, <1>8, <2>1
    <2>3. q # p
      BY <2>2
    <2> QED
      BY <1>2, <1>3, <2>2, <2>3 DEF Accounts
  <1>9. Accounts(g)'
    BY <1>7, <1>8 DEF Accounts
  <1> QED
    BY <1>6, <1>9 DEF HeadsInv

\* Every step keeps the account of the heads.
LEMMA HeadsStep ==
    ASSUME BInv, [BatchesNext]_batchVars
    PROVE  HeadsInv'
  <1>1. CASE \E w \in Writers : CreateBatch(w)
    BY <1>1, CreateKeepsHeads
  <1>2. CASE \A w \in Writers : ~CreateBatch(w)
    <2>1. TableInv /\ ProcessInv /\ HeadsInv /\ Rows /\ Quiet
      BY <1>2, RowsStep, QuietSteps DEF BInv
    <2>2. Shrinks
      BY <2>1, QuietShrinks DEF Rows
    <2>3. aged \subseteq aged'
      <3>1. UNCHANGED aged \/ Age
        BY DEF BatchesNext, batchVars, WriteEvent, BeginTx, CurrentBatchID, BeginRollover, CreateBatch,
           CreateBatchFails, CommitEvent, RollbackEvent, CloseStep, MarkPendingClose, ListEvents,
           CloseBatch, CloseFails, ProcessEnds, Sweep, SweepCache, ListOpenBatches, SweepNext, SweepEnds
      <3> QED
        BY <3>1 DEF Age
    <2>4. Heads' \subseteq Heads
      BY <2>1, <2>2, <2>3, HeadsFewer
    <2>5. CASE \E p \in Procs : ProcessEnds(p)
      BY <2>4, <2>5, CrashKeepsHeads
    <2>6. ASSUME NEW p \in Workers, SweepCache(p) PROVE HeadsInv'
      <3>1. PICK k \in Nat : aged = 1..k
        BY <2>1 DEF TableInv
      <3>2. UNCHANGED <<aged, crashes>>
        BY <2>6 DEF SweepCache
      <3>3. \A b \in Heads' : b \in Nat /\ b > k
        BY <3>1, <3>2 DEF Heads, Known
      <3>4. ASSUME NEW b \in Heads', NEW q \in Procs, b <= cache[q].batchID PROVE b <= cache'[q].batchID
        <4>1. CASE cache' = [cache EXCEPT ![p] = NothingOpen] /\ cache[p].batchID \in aged
          <5>1. CASE q = p
            BY <3>1, <3>3, <3>4, <4>1, <5>1
          <5>2. CASE q # p
            BY <2>1, <3>4, <4>1, <5>2 DEF ProcessInv
          <5> QED
            BY <5>1, <5>2
        <4>2. CASE cache' = cache
          BY <3>4, <4>2
        <4>3. cache' = cache \/ (cache' = [cache EXCEPT ![p] = NothingOpen] /\ cache[p].batchID \in aged)
          <5>1. cache = [r \in Procs |-> cache[r]]
            BY <2>1 DEF ProcessInv
          <5> QED
            BY <2>6, <5>1 DEF SweepCache
        <4> QED
          BY <4>1, <4>2, <4>3
      <3> QED
        BY <2>1, <2>4, <3>2, <3>4, HeadsKept
    <2>7. CASE crashes' = crashes /\ \A q \in Procs : cache'[q].batchID = cache[q].batchID
      BY <2>1, <2>4, <2>7, HeadsKept
    <2>8. ASSUME NEW w \in Writers, CurrentBatchID(w)
          PROVE  crashes' = crashes /\ \A q \in Procs : cache'[q].batchID = cache[q].batchID
      <3>1. cache' = [cache EXCEPT ![Home[w]].eventCount = @ + 1] /\ crashes' = crashes
        BY <2>8 DEF CurrentBatchID
      <3>2. \A q \in Procs : cache[q] \in [batchID : Known \cup {NoBatch}, eventCount : Nat]
        BY <2>1 DEF ProcessInv
      <3>3. cache = [q \in Procs |-> cache[q]]
        BY <2>1 DEF ProcessInv
      <3> QED
        BY <3>1, <3>2, <3>3
    <2>9. \/ UNCHANGED <<cache, crashes>>
          \/ \E w \in Writers : CurrentBatchID(w)
          \/ \E p \in Procs : ProcessEnds(p)
          \/ \E p \in Workers : SweepCache(p)
      BY <1>2 DEF BatchesNext, batchVars, WriteEvent, BeginTx, BeginRollover, CreateBatchFails, CommitEvent, RollbackEvent,
         CloseStep, MarkPendingClose, ListEvents, CloseBatch, CloseFails, Sweep, ListOpenBatches,
         SweepNext, SweepEnds, Age
    <2>10. CASE UNCHANGED <<cache, crashes>>
      BY <2>7, <2>10
    <2>11. CASE \E w \in Writers : CurrentBatchID(w)
      BY <2>7, <2>8, <2>11
    <2> QED
      BY <2>5, <2>6, <2>9, <2>10, <2>11
  <1> QED
    BY <1>1, <1>2

-----------------------------------------------------------------------------
(***************************************************************************)
(* The theorems.                                                           *)
(***************************************************************************)
LEMMA BatchInvInit ==
    ASSUME BatchesInit
    PROVE  BInv
  <1>1. Len(batches) = 0 /\ Known = {}
    BY DEF BatchesInit, Known
  <1>2. TableInv
    <2>1. IsList(batches)
      BY DEF BatchesInit, IsList
    <2>2. log \in Seq(Known)
      BY DEF BatchesInit
    <2>3. 0 \in 0..Len(batches) /\ aged = 1..0
      BY <1>1 DEF BatchesInit
    <2> QED
      BY <1>1, <2>1, <2>2, <2>3 DEF TableInv
  <1>3. ProcessInv
    <2>1. NothingOpen \in [batchID : Known \cup {NoBatch}, eventCount : Nat]
      BY DEF NothingOpen
    <2> QED
      BY <2>1 DEF BatchesInit, ProcessInv
  <1>4. RootInv
    BY <1>1 DEF BatchesInit, RootInv
  <1>5. ChainInv
    BY <1>1 DEF BatchesInit, ChainInv, LockInv, OneTip, TipsEnd, NoFork
  <1>6. HeadsInv
    <2>1. Heads = {}
      BY <1>1 DEF Heads
    <2>2. PICK f : f \in [{} -> Slots]
      <3>1. [x \in {} |-> x] \in [{} -> Slots]
        OBVIOUS
      <3> QED
        BY <3>1
    <2> QED
      BY <2>1, <2>2 DEF HeadsInv, Accounts
  <1> QED
    BY <1>2, <1>3, <1>4, <1>5, <1>6 DEF BInv

(***************************************************************************)
(* The invariant BInv holds in every reachable state, for any processes,   *)
(* writers, pool sizes and limits.                                         *)
(***************************************************************************)
THEOREM BatchInvariance == BatchesSpec => []BInv
  <1>1. BatchesInit => BInv
    BY BatchInvInit
  <1>2. BInv /\ [BatchesNext]_batchVars => BInv'
    <2> SUFFICES ASSUME BInv, [BatchesNext]_batchVars PROVE BInv'
      OBVIOUS
    <2>1. TableInv' /\ ProcessInv' /\ RootInv' /\ ChainInv' /\ HeadsInv'
      BY TableStep, ProcessStep, RootStep, ChainStep, HeadsStep
    <2> QED
      BY <2>1 DEF BInv
  <1> QED
    BY <1>1, <1>2, PTL DEF BatchesSpec

(***************************************************************************)
(* A root covers a beginning of its batch without a hole, whatever closes  *)
(* it, how often and in how many processes, and whatever commits while it  *)
(* is closed (closeBatch, CloseBatch's unconditional UPDATE).              *)
(***************************************************************************)
THEOREM RootsCoverBeginnings == BatchesSpec => []RootCoversPrefix
  <1>1. BInv => RootCoversPrefix
    <2> SUFFICES ASSUME BInv, NEW b \in 1..Len(batches), Closed(b)
                 PROVE  /\ batches[b].leaves # <<>>
                        /\ batches[b].eventCount = Len(batches[b].leaves)
                        /\ IsPrefix(batches[b].leaves, ListBatchEvents(b))
      BY DEF RootCoversPrefix
    <2>1. RowOK(log, b, batches[b])
      BY DEF BInv, RootInv, Known
    <2>2. ListBatchEvents(b) = ListIn(log, b)
      BY DEF ListBatchEvents, ListIn, Places
    <2> QED
      BY <2>1, <2>2 DEF RowOK, Beginning, Closed
  <1> QED
    BY <1>1, BatchInvariance, PTL

(***************************************************************************)
(* VerifyBatch answers no exactly when events joined the batch after its   *)
(* root was computed (Verify, ComputeRoot).                                *)
(***************************************************************************)
THEOREM VerificationIsExact == BatchesSpec => []VerifyIsExact
  <1>1. BInv => VerifyIsExact
    <2> SUFFICES ASSUME BInv, NEW b \in 1..Len(batches), Closed(b)
                 PROVE  VerifyBatch(b) <=> batches[b].leaves = ListBatchEvents(b)
      BY DEF VerifyIsExact
    <2> DEFINE s == batches[b].leaves
               t == ListBatchEvents(b)
               R == batches[b].root
    <2>1. R # <<>> /\ Beginning(log, s, b) /\ R = ComputeRoot(Leaves(s))
      BY DEF BInv, RootInv, Known, RowOK, Closed
    <2>2. t = ListIn(log, b)
      BY DEF ListBatchEvents, ListIn, Places
    <2>3. VerifyBatch(b) <=> ComputeRoot(Leaves(t)) # <<>> /\ R # <<>> /\ ComputeRoot(Leaves(t)) = R
      BY DEF VerifyBatch, Verify
    <2>4. log \in Seq(Known)
      BY DEF BInv, TableInv
    <2>5. t \in Seq(Nat) /\ IsList(t) /\ Distinct(t)
      BY <2>2, <2>4, ListFacts
    <2>6. s \in Seq(Nat) /\ s # <<>> /\ IsPrefix(s, t)
      BY <2>1, <2>2 DEF Beginning
    <2> HIDE DEF s, t, R
    <2>7. Len(s) <= Len(t) /\ \A i \in 1..Len(s) : s[i] = t[i]
      BY <2>5, <2>6, PrefixDef
    <2>8. IsList(s) /\ Len(s) >= 1 /\ Len(t) >= 1
      BY <2>5, <2>6, <2>7 DEF IsList
    <2>9. Distinct(s)
      <3>1. \A i \in 1..Len(s) : i \in 1..Len(t)
        BY <2>5, <2>7, <2>8 DEF IsList
      <3> QED
        BY <2>5, <2>7, <3>1 DEF Distinct
    <2>10. ASSUME ComputeRoot(Leaves(t)) = R PROVE s = t
      <3>1. ComputeRoot(Leaves(s)) = ComputeRoot(Leaves(t))
        BY <2>1, <2>10
      <3> QED
        BY <2>5, <2>8, <2>9, <3>1, RootsTellListsApart
    <2> QED
      BY <2>1, <2>3, <2>10 DEF s, t, R
  <1> QED
    BY <1>1, BatchInvariance, PTL

\* There are as many slots as homes and crashes, at most.
LEMMA SlotsCount ==
    ASSUME crashes \in Nat
    PROVE  /\ IsFiniteSet(Slots) /\ Cardinality(Slots) <= Cardinality(Homes) + crashes
           /\ Cardinality(Homes) \in Nat /\ Cardinality(Slots) \in Nat
  <1> DEFINE A == {<<"proc", p>> : p \in Homes}
             B == {<<"crash", k>> : k \in 1..crashes}
             a == [p \in Homes |-> <<"proc", p>>]
             b == [k \in 1..crashes |-> <<"crash", k>>]
  <1>1. IsFiniteSet(Homes) /\ Cardinality(Homes) \in Nat
    <2>1. IsFiniteSet(Writers) /\ Home \in [Writers -> Procs]
      BY MerkleBatchAssumption
    <2>2. Home \in [Writers -> Homes] /\ \A h \in Homes : \E w \in Writers : Home[w] = h
      BY <2>1 DEF Homes
    <2>3. Home \in Surjection(Writers, Homes)
      BY <2>2 DEF Surjection
    <2> QED
      BY <2>1, <2>3, FS_Surjection, FS_CardinalityType
  <1>2. IsFiniteSet(A) /\ Cardinality(A) <= Cardinality(Homes) /\ Cardinality(A) \in Nat
    <2>1. a \in Surjection(Homes, A)
      BY DEF Surjection
    <2> HIDE DEF a, A
    <2> QED
      BY <1>1, <2>1, FS_Surjection, FS_CardinalityType
  <1>3. IsFiniteSet(1..crashes) /\ Cardinality(1..crashes) = crashes
    BY FS_Interval
  <1>4. IsFiniteSet(B) /\ Cardinality(B) <= crashes /\ Cardinality(B) \in Nat
    <2>1. b \in Surjection(1..crashes, B)
      BY DEF Surjection
    <2> HIDE DEF b, B
    <2> QED
      BY <1>3, <2>1, FS_Surjection, FS_CardinalityType
  <1>5. Slots = A \cup B
    BY DEF Slots
  <1> HIDE DEF A, B
  <1>6. IsFiniteSet(A \cup B) /\ Cardinality(A \cup B) = Cardinality(A) + Cardinality(B) - Cardinality(A \cap B)
    BY <1>2, <1>4, FS_Union
  <1>7. Cardinality(A \cap B) \in Nat
    <2>1. A \cap B \in SUBSET A
      OBVIOUS
    <2>2. IsFiniteSet(A \cap B)
      BY <1>2, <2>1, FS_Subset
    <2> QED
      BY <2>2, FS_CardinalityType
  <1>8. Cardinality(A \cup B) \in Nat
    BY <1>6, FS_CardinalityType
  <1> QED
    BY <1>1, <1>2, <1>4, <1>5, <1>6, <1>7, <1>8

(***************************************************************************)
(* Of the batches that hold events and are not too old, at most one        *)
(* follows a given batch, and at most one for each process that writes and *)
(* each crash follows none (CurrentBatchID, the ledger's lock, the batch   *)
(* that the cache remembers).                                              *)
(***************************************************************************)
THEOREM ChainIsUnforked == BatchesSpec => []ChainDoesNotFork
  <1>1. BInv => ChainDoesNotFork
    <2> SUFFICES ASSUME BInv, NEW o \in BatchId \cup {NoBatch}
                 PROVE  Cardinality(Heirs(o)) <=
                           IF o = NoBatch THEN Cardinality({Home[w] : w \in Writers}) + crashes ELSE 1
      BY DEF ChainDoesNotFork
    <2>1. log \in Seq(Known) /\ crashes \in Nat /\ HeadsInv /\ NoFork
      BY DEF BInv, TableInv, ProcessInv, ChainInv
    <2>2. ASSUME NEW b \in Heirs(o) PROVE b \in Known /\ batches[b].prev = o /\ b \notin aged /\ Live(b)
      <3>1. b \in Known /\ batches[b].prev = o /\ b \notin aged /\ ListBatchEvents(b) # <<>>
        BY <2>2 DEF Heirs, Known
      <3>2. ListIn(log, b) # <<>>
        BY <3>1 DEF ListBatchEvents, ListIn, Places
      <3>3. b \in ToSet(log)
        BY <2>1, <3>2, ListFacts
      <3> QED
        BY <3>1, <3>3 DEF Live
    <2>3. CASE o = NoBatch
      <3>1. PICK f \in [Heads -> Slots] : Accounts(f)
        BY <2>1 DEF HeadsInv
      <3>2. f \in Injection(Heads, Slots)
        BY <3>1 DEF Injection, IsInjective, Accounts
      <3>3. /\ IsFiniteSet(Slots) /\ Cardinality(Slots) <= Cardinality(Homes) + crashes
            /\ Cardinality(Homes) \in Nat /\ Cardinality(Slots) \in Nat
        BY <2>1, SlotsCount
      <3>4. IsFiniteSet(Heads) /\ Cardinality(Heads) <= Cardinality(Slots)
        BY <3>2, <3>3, FS_Injection
      <3>5. Heirs(o) \in SUBSET Heads
        BY <2>2, <2>3 DEF Heads
      <3>6. IsFiniteSet(Heirs(o)) /\ Cardinality(Heirs(o)) <= Cardinality(Heads)
        BY <3>4, <3>5, FS_Subset
      <3>7. Cardinality(Heirs(o)) \in Nat /\ Cardinality(Heads) \in Nat
        BY <3>4, <3>6, FS_CardinalityType
      <3>8. Cardinality(Heirs(o)) <= Cardinality(Homes) + crashes
        BY <2>1, <3>3, <3>4, <3>6, <3>7
      <3> QED
        BY <2>3, <3>8 DEF Homes
    <2>4. CASE o # NoBatch
      <3>1. \A g, h \in Heirs(o) : g = h
        BY <2>1, <2>2, <2>4 DEF NoFork
      <3>2. CASE Heirs(o) = {}
        BY <2>4, <3>2, FS_EmptySet
      <3>3. CASE Heirs(o) # {}
        <4>1. PICK g : Heirs(o) = {g}
          BY <3>1, <3>3
        <4>2. Cardinality({g}) = 1
          BY FS_Singleton
        <4> QED
          BY <2>4, <4>1, <4>2
      <3> QED
        BY <3>2, <3>3
    <2> QED
      BY <2>3, <2>4
  <1> QED
    BY <1>1, BatchInvariance, PTL
=============================================================================
