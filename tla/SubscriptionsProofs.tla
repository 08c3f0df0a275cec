------------------------- MODULE SubscriptionsProofs -------------------------
(***************************************************************************)
(* Proofs about Subscriptions, for any number of subscribers, events and   *)
(* pages: a feed with a replay of one page delivers no event twice while   *)
(* the replayed IDs are kept, and loses none that the code does not know   *)
(* of.                                                                     *)
(***************************************************************************)
EXTENDS Subscriptions, WellFoundedInduction, TLAPS, SequenceTheorems

-----------------------------------------------------------------------------
(***************************************************************************)
(* Induction on natural numbers in a first-order form: what is shown of    *)
(* every number is membership in a set.  And what follows from it of the   *)
(* order in which the log is listed.                                       *)
(***************************************************************************)

(***************************************************************************)
(* A set of natural numbers that is not empty has a least element.         *)
(***************************************************************************)
LEMMA LeastNumber ==
    ASSUME NEW T, T \subseteq Nat, T # {}
    PROVE  \E m \in T : \A n \in T : m <= n
  <1> DEFINE R == {ss \in Nat \X Nat : ss[1] < ss[2]}
  <1>1. IsWellFoundedOn(R, Nat)
    BY NatLessThanWellFounded DEF OpToRel
  <1>2. \A n, m \in Nat : n < m => <<n, m>> \in R
    OBVIOUS
  <1> HIDE DEF R
  <1>3. PICK m \in T : \A n \in T : ~(<<n, m>> \in R)
    BY <1>1, WFMin
  <1>4. \A n \in T : ~(n < m)
    BY <1>2, <1>3
  <1> QED
    BY <1>3, <1>4

(***************************************************************************)
(* A set that has 0, and with every natural number the next, has them all. *)
(***************************************************************************)
LEMMA NumbersByInduction ==
    ASSUME NEW S, 0 \in S, \A n \in Nat : n \in S => n + 1 \in S
    PROVE  \A n \in Nat : n \in S
  <1> SUFFICES ASSUME NEW k \in Nat, k \notin S PROVE FALSE
    OBVIOUS
  <1> DEFINE T == Nat \ S
  <1>1. PICK m \in T : \A n \in T : m <= n
    BY LeastNumber
  <1>2. m # 0 /\ m - 1 \in Nat /\ m - 1 \notin T
    BY <1>1
  <1> QED
    BY <1>1, <1>2

(***************************************************************************)
(* The recursive definition of Ascending has a solution: there is one up   *)
(* to every number, and they agree with one another.                       *)
(***************************************************************************)
LEMMA AscendingDef ==
    ASSUME NEW K
    PROVE  /\ Ascending(K)[0] = <<>>
           /\ \A n \in Nat : Ascending(K)[n + 1] =
                 IF n + 1 \in K THEN Append(Ascending(K)[n], n + 1) ELSE Ascending(K)[n]
  <1> DEFINE Step(s, n) == IF n \in K THEN Append(s, n) ELSE s
             Upto(f, m) == f[0] = <<>> /\ \A n \in 0..(m - 1) : f[n + 1] = Step(f[n], n + 1)
             S == {m \in Nat : \E f : Upto(f, m)}
             T == {m \in Nat : \A p, q \in Nat : \A f, g :
                                  m <= p /\ m <= q /\ Upto(f, p) /\ Upto(g, q) => f[m] = g[m]}
             Sol(f) == f = [n \in Nat |-> IF n = 0 THEN <<>>
                                          ELSE IF n \in K THEN Append(f[n - 1], n) ELSE f[n - 1]]
  <1>1. 0 \in S
    <2> DEFINE f == [n \in {0} |-> <<>>]
    <2>1. f[0] = <<>> /\ 0..(0 - 1) = {}
      OBVIOUS
    <2>2. Upto(f, 0)
      BY <2>1
    <2> HIDE DEF f, Upto
    <2> QED
      BY <2>2
  <1>2. ASSUME NEW m \in Nat, m \in S PROVE m + 1 \in S
    <2>1. PICK f : Upto(f, m)
      BY <1>2
    <2> DEFINE g == [n \in 0..(m + 1) |-> IF n <= m THEN f[n] ELSE Step(f[m], m + 1)]
    <2>2. g[m + 1] = Step(f[m], m + 1) /\ \A n \in 0..m : g[n] = f[n]
      <3> HIDE DEF Step
      <3> QED
        OBVIOUS
    <2> HIDE DEF g
    <2>3. g[0] = <<>>
      BY <2>1, <2>2
    <2>4. ASSUME NEW n \in 0..((m + 1) - 1) PROVE g[n + 1] = Step(g[n], n + 1)
      <3> HIDE DEF Step
      <3>1. CASE n = m
        BY <2>2, <3>1
      <3>2. CASE n \in 0..(m - 1)
        <4>1. f[n + 1] = Step(f[n], n + 1)
          BY <2>1, <3>2
        <4>2. n \in 0..m /\ n + 1 \in 0..m
          BY <3>2
        <4> QED
          BY <2>2, <4>1, <4>2
      <3> QED
        BY <3>1, <3>2
    <2>5. Upto(g, m + 1)
      <3> HIDE DEF Step
      <3> QED
        BY <2>3, <2>4
    <2> HIDE DEF Upto
    <2> QED
      BY <2>5
  <1>3. \A m \in Nat : \E f : Upto(f, m)
    <2>1. \A m \in Nat : m \in S
      <3> HIDE DEF S
      <3> QED
        BY <1>1, <1>2, NumbersByInduction
    <2> HIDE DEF Upto
    <2> QED
      BY <2>1
  <1>4. \A m \in Nat : m \in T
    <2>1. 0 \in T
      <3> HIDE DEF Step
      <3> QED
        OBVIOUS
    <2>2. ASSUME NEW m \in Nat, m \in T PROVE m + 1 \in T
      <3> SUFFICES ASSUME NEW p \in Nat, NEW q \in Nat, NEW f, NEW g,
                          m + 1 <= p, m + 1 <= q, Upto(f, p), Upto(g, q)
                   PROVE  f[m + 1] = g[m + 1]
        OBVIOUS
      <3>1. f[m] = g[m]
        <4> HIDE DEF Upto
        <4> QED
          BY <2>2
      <3>2. m \in 0..(p - 1) /\ m \in 0..(q - 1)
        OBVIOUS
      <3>3. f[m + 1] = Step(f[m], m + 1) /\ g[m + 1] = Step(g[m], m + 1)
        <4> HIDE DEF Step
        <4> QED
          BY <3>2
      <3> HIDE DEF Step
      <3> QED
        BY <3>1, <3>3
    <2> HIDE DEF T
    <2> QED
      BY <2>1, <2>2, NumbersByInduction
  <1> DEFINE one(m) == CHOOSE f : Upto(f, m)
             all == [n \in Nat |-> one(n)[n]]
  <1>5. \A m \in Nat : Upto(one(m), m)
    <2> HIDE DEF Upto
    <2> QED
      BY <1>3
  <1>6. \A m \in Nat : all[m] = one(m)[m]
    <2> HIDE DEF one
    <2> QED
      OBVIOUS
  <1> HIDE DEF one
  <1>7. all[0] = <<>>
    BY <1>5, <1>6
  <1>8. ASSUME NEW n \in Nat PROVE all[n + 1] = Step(all[n], n + 1)
    <2>1. Upto(one(n + 1), n + 1) /\ Upto(one(n), n)
      BY <1>5
    <2>2. n \in 0..((n + 1) - 1)
      OBVIOUS
    <2>3. one(n + 1)[n + 1] = Step(one(n + 1)[n], n + 1)
      <3> HIDE DEF Step
      <3> QED
        BY <2>1, <2>2
    <2>4. one(n + 1)[n] = one(n)[n]
      <3> HIDE DEF Upto
      <3> QED
        BY <1>4, <2>1
    <2> HIDE DEF Step, all
    <2> QED
      BY <1>6, <2>3, <2>4
  <1>9. Sol(all)
    <2>1. ASSUME NEW n \in Nat
          PROVE  all[n] = IF n = 0 THEN <<>>
                          ELSE IF n \in K THEN Append(all[n - 1], n) ELSE all[n - 1]
      <3>1. CASE n = 0
        BY <1>7, <3>1
      <3>2. CASE n # 0
        <4>1. n - 1 \in Nat /\ (n - 1) + 1 = n
          BY <3>2
        <4>2. all[(n - 1) + 1] = Step(all[n - 1], (n - 1) + 1)
          BY <1>8, <4>1
        <4> HIDE DEF all
        <4> QED
          BY <3>2, <4>1, <4>2
      <3> QED
        BY <3>1, <3>2
    <2>2. all = [n \in Nat |-> all[n]]
      OBVIOUS
    <2> HIDE DEF all
    <2> QED
      BY <2>1, <2>2
  <1>10. Sol(Ascending(K))
    <2>1. Ascending(K) = CHOOSE f : Sol(f)
      BY DEF Ascending
    <2> HIDE DEF Sol
    <2> QED
      BY <1>9, <2>1, Zenon
  <1> DEFINE a == Ascending(K)
  <1>11. a = [n \in Nat |-> IF n = 0 THEN <<>>
                            ELSE IF n \in K THEN Append(a[n - 1], n) ELSE a[n - 1]]
    BY <1>10
  <1> HIDE DEF a
  <1>12. a[0] = <<>>
    BY <1>11
  <1>13. ASSUME NEW n \in Nat
         PROVE  a[n + 1] = IF n + 1 \in K THEN Append(a[n], n + 1) ELSE a[n]
    <2> DEFINE m == n + 1
    <2>1. m \in Nat /\ m # 0 /\ m - 1 = n
      OBVIOUS
    <2> HIDE DEF m
    <2>2. a[m] = IF m \in K THEN Append(a[m - 1], m) ELSE a[m - 1]
      BY <1>11, <2>1
    <2> QED
      BY <2>1, <2>2 DEF m
  <1> QED
    BY <1>12, <1>13 DEF a

(***************************************************************************)
(* It lists exactly the numbers of K, each once and in their order.        *)
(***************************************************************************)
LEMMA AscendingLists ==
    ASSUME NEW K, NEW n \in Nat
    PROVE  /\ Ascending(K)[n] \in Seq(K \cap (1..n))
           /\ Range(Ascending(K)[n]) = K \cap (1..n)
           /\ \A i, j \in 1..Len(Ascending(K)[n]) :
                 i < j => Ascending(K)[n][i] < Ascending(K)[n][j]
  <1> DEFINE a == Ascending(K)
             Lists(s, m) == /\ s \in Seq(K \cap (1..m))
                            /\ \A k \in K \cap (1..m) : \E i \in 1..Len(s) : s[i] = k
                            /\ \A i, j \in 1..Len(s) : i < j => s[i] < s[j]
             S == {m \in Nat : Lists(a[m], m)}
  <1>1. a[0] = <<>> /\ \A m \in Nat : a[m + 1] = IF m + 1 \in K THEN Append(a[m], m + 1) ELSE a[m]
    BY AscendingDef
  <1> HIDE DEF a
  <1>2. 0 \in S
    <2>1. K \cap (1..0) = {}
      OBVIOUS
    <2>2. Lists(<<>>, 0)
      BY <2>1
    <2> HIDE DEF Lists
    <2> QED
      BY <1>1, <2>2
  <1>3. ASSUME NEW m \in Nat, m \in S PROVE m + 1 \in S
    <2> DEFINE s == a[m]
    <2>1. Lists(s, m)
      BY <1>3
    <2> HIDE DEF s
    <2>2. 1..(m + 1) = (1..m) \cup {m + 1}
      OBVIOUS
    <2>3. Len(s) \in Nat /\ \A i \in 1..Len(s) : s[i] \in K /\ s[i] \in 1..m
      BY <2>1
    <2>4. CASE m + 1 \notin K
      <3>1. a[m + 1] = s
        BY <1>1, <2>4 DEF s
      <3>2. K \cap (1..(m + 1)) = K \cap (1..m)
        BY <2>2, <2>4
      <3>3. Lists(s, m + 1)
        BY <2>1, <3>2
      <3> HIDE DEF Lists
      <3> QED
        BY <3>1, <3>3
    <2>5. CASE m + 1 \in K
      <3> DEFINE t == Append(s, m + 1)
      <3>1. a[m + 1] = t
        BY <1>1, <2>5 DEF s
      <3>2. s \in Seq(K \cap (1..(m + 1)))
        BY <2>1, <2>2, <2>3
      <3>3. /\ t \in Seq(K \cap (1..(m + 1))) /\ Len(t) = Len(s) + 1
            /\ t[Len(s) + 1] = m + 1 /\ \A i \in 1..Len(s) : t[i] = s[i]
        BY <2>2, <2>5, <3>2
      <3> HIDE DEF t
      <3>4. 1..Len(t) = (1..Len(s)) \cup {Len(s) + 1}
        BY <2>3, <3>3
      <3>5. \A k \in K \cap (1..(m + 1)) : \E i \in 1..Len(t) : t[i] = k
        BY <2>1, <2>2, <3>3, <3>4
      <3>6. ASSUME NEW i \in 1..Len(t), NEW j \in 1..Len(t), i < j PROVE t[i] < t[j]
        <4>1. i \in 1..Len(s)
          BY <2>3, <3>3, <3>6
        <4>2. CASE j \in 1..Len(s)
          BY <2>1, <3>3, <3>6, <4>1, <4>2
        <4>3. CASE j = Len(s) + 1
          BY <2>3, <3>3, <4>1, <4>3
        <4> QED
          BY <3>4, <4>2, <4>3
      <3>7. Lists(t, m + 1)
        BY <3>3, <3>5, <3>6
      <3> HIDE DEF Lists
      <3> QED
        BY <3>1, <3>7
    <2> QED
      BY <2>4, <2>5
  <1>4. Lists(a[n], n)
    <2>1. n \in S
      <3> HIDE DEF S
      <3> QED
        BY <1>2, <1>3, NumbersByInduction
    <2> HIDE DEF Lists
    <2> QED
      BY <2>1
  <1> DEFINE s == a[n]
  <1>5. Lists(s, n)
    BY <1>4
  <1> HIDE DEF s
  <1>6. DOMAIN s = 1..Len(s)
    BY <1>5
  <1>7. Range(s) = K \cap (1..n)
    <2>1. \A x \in Range(s) : x \in K \cap (1..n)
      BY <1>5, <1>6 DEF Range
    <2>2. \A x \in K \cap (1..n) : x \in Range(s)
      BY <1>5, <1>6 DEF Range
    <2> QED
      BY <2>1, <2>2
  <1> QED
    BY <1>5, <1>7 DEF s, a

-----------------------------------------------------------------------------
(***************************************************************************)
(* The invariant.                                                          *)
(***************************************************************************)

\* An ID is made once, commits at most once, and its notification is sent or
\* given up at most once.
LogInv ==
    /\ nextId \in 0..MaxId
    /\ open \subseteq 1..nextId
    /\ committed \in Seq(1..nextId)
    /\ IsInjective(committed)
    /\ open \cap ToSet(committed) = {}
    /\ unpublished \subseteq ToSet(committed) /\ lost \subseteq ToSet(committed)
    /\ unpublished \cap lost = {}

\* The events whose notification was sent.
Announced == ToSet(committed) \ (unpublished \cup lost)

\* The request, and the place of a replay: one page is the whole replay when no
\* token came with it.
Fed(S) ==
    /\ DOMAIN S = {"pc", "from", "filter", "page", "token", "replayedIDs", "deduping",
                   "highWaterMark", "ch", "inbox", "active", "pages", "replayed", "missed",
                   "dropped", "sent"}
    /\ S.from \in NoId..MaxId
    /\ {S.page, S.ch, S.inbox, S.sent} \subseteq Seq(EventId)
    /\ S.pages \in Nat
    /\ S.pc # "replay" => S.page = <<>>
    /\ S.pc = "replay" => S.from # NoId
    /\ S.pc = "replay" /\ S.pages = 0 => /\ S.token = S.from
                                         /\ S.page = <<>> /\ S.sent = <<>> /\ S.ch = <<>>

\* Redis passes a notification on at most once.
Notifies(S) == IsInjective(S.inbox) /\ ToSet(S.inbox) \subseteq Announced

\* What was delivered was replayed, and its notification will be skipped, or its
\* notification has come.
Once(S) ==
    /\ S.from = NoId => S.replayedIDs = {}
    /\ S.pages <= 1 /\ (S.deduping \/ S.from = NoId) =>
          /\ IsInjective(Delivered(S)) /\ IsInjective(S.page)
          /\ ToSet(S.page) \cap ToSet(Delivered(S)) = {}
          /\ \A id \in ToSet(Delivered(S)) :
                id \in S.replayedIDs \/ id \in Announced \ ToSet(S.inbox)

\* Delivered, on its way, or lost as the code knows.
Accounted(S, id) ==
    \/ id \in ToSet(Delivered(S))
    \/ id \in unpublished \cup lost
    \/ id \in ToSet(S.inbox)
    \/ id \in S.missed \cup S.dropped

Wanted(S, id) == id > S.from /\ shouldInclude(id, S.filter)

\* A replayed event was delivered; once the only page is read, what is not in it
\* is accounted for.
Complete(S) ==
    /\ \A id \in S.replayedIDs : shouldInclude(id, S.filter) => id \in ToSet(Delivered(S))
    /\ S.pc = "live" /\ S.pages <= 1 =>
          \A id \in ToSet(committed) : Wanted(S, id) => Accounted(S, id)
    /\ S.pc = "replay" /\ S.pages = 1 /\ S.token = NoId =>
          \A id \in ToSet(committed) : Wanted(S, id) => Accounted(S, id) \/ id \in ToSet(S.page)

FeedInv(S) == Fed(S) /\ Notifies(S) /\ Once(S) /\ Complete(S)

SubInv ==
    /\ LogInv
    /\ sub = [s \in Subscribers |-> sub[s]]
    /\ \A s \in Subscribers : FeedInv(sub[s])

-----------------------------------------------------------------------------
(***************************************************************************)
(* Sequences whose elements are all different.                             *)
(***************************************************************************)
LEMMA AppendFacts ==
    ASSUME NEW T, NEW s \in Seq(T), NEW x \in T
    PROVE  /\ Append(s, x) \in Seq(T)
           /\ ToSet(Append(s, x)) = ToSet(s) \cup {x}
           /\ IsInjective(s) /\ x \notin ToSet(s) => IsInjective(Append(s, x))
  <1> DEFINE t == Append(s, x)
  <1>1. /\ t \in Seq(T) /\ Len(t) = Len(s) + 1 /\ Len(s) \in Nat
        /\ DOMAIN s = 1..Len(s) /\ DOMAIN t = 1..(Len(s) + 1)
        /\ t[Len(s) + 1] = x /\ \A i \in 1..Len(s) : t[i] = s[i]
    OBVIOUS
  <1> HIDE DEF t
  <1>2. 1..(Len(s) + 1) = (1..Len(s)) \cup {Len(s) + 1}
    BY <1>1
  <1>3. ToSet(t) = ToSet(s) \cup {x}
    BY <1>1, <1>2 DEF ToSet
  <1>4. ASSUME IsInjective(s), x \notin ToSet(s) PROVE IsInjective(t)
    <2>1. \A i \in 1..Len(s) : s[i] # x
      BY <1>1, <1>4 DEF ToSet
    <2>2. \A i, j \in 1..Len(s) : s[i] = s[j] => i = j
      BY <1>1, <1>4 DEF IsInjective
    <2>3. \A i, j \in 1..(Len(s) + 1) : t[i] = t[j] => i = j
      BY <1>1, <1>2, <2>1, <2>2
    <2> QED
      BY <1>1, <2>3 DEF IsInjective
  <1> QED
    BY <1>1, <1>3, <1>4 DEF t

\* The head and the tail of a sequence that is not empty.
LEMMA TailFacts ==
    ASSUME NEW T, NEW s \in Seq(T), s # <<>>
    PROVE  /\ Head(s) \in T /\ Tail(s) \in Seq(T)
           /\ ToSet(s) = ToSet(Tail(s)) \cup {Head(s)}
           /\ IsInjective(s) => IsInjective(Tail(s)) /\ Head(s) \notin ToSet(Tail(s))
  <1> DEFINE t == Tail(s)
             h == Head(s)
  <1>1. /\ h \in T /\ t \in Seq(T) /\ Len(t) = Len(s) - 1 /\ Len(s) \in Nat /\ Len(s) >= 1
        /\ DOMAIN s = 1..Len(s) /\ DOMAIN t = 1..(Len(s) - 1)
        /\ h = s[1] /\ \A i \in 1..(Len(s) - 1) : t[i] = s[i + 1]
    OBVIOUS
  <1> HIDE DEF t, h
  <1>2. \A i \in 1..Len(s) : i = 1 \/ (i - 1 \in 1..(Len(s) - 1) /\ (i - 1) + 1 = i)
    BY <1>1
  <1>3. \A i \in 1..(Len(s) - 1) : i + 1 \in 1..Len(s)
    BY <1>1
  <1>4. ToSet(s) = ToSet(t) \cup {h}
    <2>1. ASSUME NEW x \in ToSet(s) PROVE x \in ToSet(t) \cup {h}
      <3>1. PICK i \in 1..Len(s) : x = s[i]
        BY <1>1 DEF ToSet
      <3>2. CASE i = 1
        BY <1>1, <3>1, <3>2
      <3>3. CASE i # 1
        <4>1. i - 1 \in 1..(Len(s) - 1) /\ (i - 1) + 1 = i
          BY <1>2, <3>3
        <4>2. t[i - 1] = x
          BY <1>1, <3>1, <4>1
        <4> QED
          BY <1>1, <4>1, <4>2 DEF ToSet
      <3> QED
        BY <3>2, <3>3
    <2>2. ToSet(t) \subseteq ToSet(s)
      BY <1>1, <1>3 DEF ToSet
    <2>3. h \in ToSet(s)
      BY <1>1 DEF ToSet
    <2> QED
      BY <2>1, <2>2, <2>3
  <1>5. ASSUME IsInjective(s) PROVE IsInjective(t) /\ h \notin ToSet(t)
    <2>1. \A i, j \in 1..Len(s) : s[i] = s[j] => i = j
      BY <1>1, <1>5 DEF IsInjective
    <2>2. \A i, j \in 1..(Len(s) - 1) : t[i] = t[j] => i = j
      BY <1>1, <1>3, <2>1
    <2>3. \A i \in 1..(Len(s) - 1) : t[i] # h
      BY <1>1, <1>3, <2>1
    <2> QED
      BY <1>1, <2>2, <2>3 DEF IsInjective, ToSet
  <1> QED
    BY <1>1, <1>4, <1>5 DEF t, h

\* The channel and what was sent, one after the other.
LEMMA DeliveryFacts ==
    ASSUME NEW s \in Seq(EventId), NEW c \in Seq(EventId)
    PROVE  /\ s \o c \in Seq(EventId)
           /\ \A id \in EventId : s \o Append(c, id) = Append(s \o c, id)
           /\ c # <<>> => Append(s, Head(c)) \o Tail(c) = s \o c
  <1>1. s \o c \in Seq(EventId)
    OBVIOUS
  <1>2. ASSUME NEW id \in EventId PROVE s \o Append(c, id) = Append(s \o c, id)
    OBVIOUS
  <1>3. ASSUME c # <<>> PROVE Append(s, Head(c)) \o Tail(c) = s \o c
    <2> DEFINE h == Head(c)
               t == Tail(c)
               a == Append(s, h)
    <2>1. /\ h \in EventId /\ t \in Seq(EventId) /\ Len(t) = Len(c) - 1 /\ Len(c) \in Nat \ {0}
          /\ h = c[1] /\ \A i \in 1..(Len(c) - 1) : t[i] = c[i + 1]
      BY <1>3
    <2> HIDE DEF h, t
    <2>2. /\ a \in Seq(EventId) /\ Len(a) = Len(s) + 1 /\ Len(s) \in Nat
          /\ a[Len(s) + 1] = h /\ \A i \in 1..Len(s) : a[i] = s[i]
      BY <2>1
    <2> HIDE DEF a
    <2> DEFINE u == a \o t
               v == s \o c
    <2>3. /\ u \in Seq(EventId) /\ Len(u) = Len(a) + Len(t)
          /\ \A i \in 1..Len(u) : u[i] = IF i <= Len(a) THEN a[i] ELSE t[i - Len(a)]
      <3>1. a \in Seq(EventId) /\ t \in Seq(EventId)
        BY <2>1, <2>2
      <3> QED
        BY <3>1, ConcatProperties
    <2>4. /\ v \in Seq(EventId) /\ Len(v) = Len(s) + Len(c)
          /\ \A i \in 1..Len(v) : v[i] = IF i <= Len(s) THEN s[i] ELSE c[i - Len(s)]
      BY ConcatProperties
    <2> HIDE DEF u, v
    <2>5. Len(u) = Len(v)
      BY <2>1, <2>2, <2>3, <2>4
    <2>6. ASSUME NEW i \in 1..Len(u) PROVE u[i] = v[i]
      <3>1. CASE i <= Len(s)
        BY <2>2, <2>3, <2>4, <2>5, <3>1
      <3>2. CASE i = Len(s) + 1
        BY <2>1, <2>2, <2>3, <2>4, <2>5, <3>2
      <3>3. CASE i > Len(s) + 1
        <4>1. i - (Len(s) + 1) \in 1..(Len(c) - 1) /\ (i - (Len(s) + 1)) + 1 = i - Len(s)
          BY <2>1, <2>2, <2>4, <2>5, <3>3
        <4>2. t[i - (Len(s) + 1)] = c[i - Len(s)]
          BY <2>1, <4>1
        <4> QED
          BY <2>2, <2>3, <2>4, <2>5, <3>3, <4>2
      <3> QED
        BY <2>2, <3>1, <3>2, <3>3
    <2>7. u = v
      BY <2>3, <2>4, <2>5, <2>6, SeqEqual
    <2> QED
      BY <2>7 DEF u, v, a, h, t
  <1> QED
    BY <1>1, <1>2, <1>3

-----------------------------------------------------------------------------
(***************************************************************************)
(* The write path.                                                         *)
(***************************************************************************)

\* What is not in the log yet is committed with its notification to come, and
\* what was announced stays announced.
LEMMA WorldKeepsFeed ==
    ASSUME NEW S, FeedInv(S),
           ToSet(committed') \subseteq ToSet(committed) \cup unpublished' \cup lost',
           unpublished \cup lost \subseteq unpublished' \cup lost',
           Announced \subseteq Announced'
    PROVE  FeedInv(S)'
  <1>1. Fed(S)'
    BY DEF FeedInv, Fed
  <1>2. Notifies(S)'
    BY DEF FeedInv, Notifies
  <1>3. Once(S)'
    BY DEF FeedInv, Once, Delivered
  <1>4. \A id : Accounted(S, id) => Accounted(S, id)'
    BY DEF Accounted, Delivered
  <1>5. \A id \in ToSet(committed') : id \in ToSet(committed) \/ Accounted(S, id)'
    BY DEF Accounted
  <1>6. Complete(S)'
    BY <1>4, <1>5 DEF FeedInv, Complete, Wanted, shouldInclude, Delivered
  <1> QED
    BY <1>1, <1>2, <1>3, <1>6 DEF FeedInv

\* Steps of the ledger that reach no subscriber keep the invariant.
LEMMA WorldStep ==
    ASSUME SubInv, NEW id \in EventId, MakeId \/ Commit(id) \/ Rollback(id) \/ PublishFails(id)
    PROVE  SubInv'
  <1>1. LogInv /\ sub' = sub
    BY DEF SubInv, MakeId, Commit, Rollback, PublishFails
  <1>2. nextId \in Nat /\ MaxId \in Nat /\ 1..nextId \subseteq 1..(nextId + 1)
    BY <1>1, SubscriptionsAssumption DEF LogInv
  <1>3. /\ LogInv'
        /\ ToSet(committed') \subseteq ToSet(committed) \cup unpublished' \cup lost'
        /\ unpublished \cup lost \subseteq unpublished' \cup lost'
        /\ Announced \subseteq Announced'
    <2>1. CASE MakeId
      <3>1. /\ nextId < MaxId /\ nextId' = nextId + 1 /\ open' = open \cup {nextId + 1}
            /\ UNCHANGED <<committed, unpublished, lost>>
        BY <2>1 DEF MakeId
      <3>2. ToSet(committed) \subseteq 1..nextId
        BY <1>1 DEF LogInv, ToSet
      <3>3. nextId + 1 \notin ToSet(committed)
        BY <1>2, <3>2
      <3>4. committed \in Seq(1..(nextId + 1))
        BY <1>1, <1>2 DEF LogInv
      <3>5. LogInv'
        BY <1>1, <1>2, <3>1, <3>3, <3>4 DEF LogInv
      <3> QED
        BY <3>1, <3>5 DEF Announced
    <2>2. CASE Commit(id)
      <3>1. /\ id \in open /\ open' = open \ {id} /\ committed' = Append(committed, id)
            /\ unpublished' = unpublished \cup {id} /\ nextId' = nextId /\ lost' = lost
        BY <2>2 DEF Commit
      <3>2. id \in 1..nextId /\ id \notin ToSet(committed)
        BY <1>1, <3>1 DEF LogInv
      <3>3. committed' \in Seq(1..nextId) /\ ToSet(committed') = ToSet(committed) \cup {id} /\ IsInjective(committed')
        BY <1>1, <3>1, <3>2, AppendFacts DEF LogInv
      <3>4. LogInv'
        BY <1>1, <3>1, <3>2, <3>3 DEF LogInv
      <3> QED
        BY <1>1, <3>1, <3>2, <3>3, <3>4 DEF Announced, LogInv
    <2>3. CASE Rollback(id)
      BY <1>1, <2>3 DEF Rollback, LogInv, Announced
    <2>4. CASE PublishFails(id)
      BY <1>1, <2>4 DEF PublishFails, LogInv, Announced
    <2> QED
      BY <2>1, <2>2, <2>3, <2>4
  <1>4. ASSUME NEW s \in Subscribers PROVE FeedInv(sub[s])'
    <2>1. PICK S : S = sub[s]
      OBVIOUS
    <2>2. FeedInv(S) /\ sub'[s] = S
      BY <1>1, <2>1 DEF SubInv
    <2>3. FeedInv(S)'
      BY <1>3, <2>2, WorldKeepsFeed
    <2> QED
      BY <2>2, <2>3
  <1> QED
    BY <1>1, <1>3, <1>4 DEF SubInv

\* A notification is sent to everybody.
LEMMA AnnounceKeepsFeed ==
    ASSUME LogInv, NEW S, FeedInv(S), NEW id \in EventId, id \in unpublished,
           unpublished' = unpublished \ {id}, committed' = committed, lost' = lost,
           NEW T, T = Announce(S, id)
    PROVE  FeedInv(T)'
  <1>1. Announced' = Announced \cup {id} /\ id \notin Announced
    BY DEF LogInv, Announced
  <1>2. ASSUME T = S, S.pc \notin {"replay", "live"} \/ (S.pc = "replay" /\ S.pages = 0)
        PROVE  FeedInv(T)'
    <2>1. Fed(S)' /\ Notifies(S)' /\ Once(S)'
      BY <1>1 DEF FeedInv, Fed, Notifies, Once, Delivered
    <2>2. Complete(S)'
      BY <1>2 DEF FeedInv, Fed, Complete, Delivered
    <2> QED
      BY <1>2, <2>1, <2>2 DEF FeedInv
  <1>3. ASSUME T = [S EXCEPT !.inbox = Append(@, id)] PROVE FeedInv(T)'
    <2>1. /\ DOMAIN T = DOMAIN S /\ T.inbox = Append(S.inbox, id)
          /\ T.pc = S.pc /\ T.from = S.from /\ T.filter = S.filter /\ T.page = S.page
          /\ T.token = S.token /\ T.replayedIDs = S.replayedIDs /\ T.deduping = S.deduping
          /\ T.ch = S.ch /\ T.pages = S.pages /\ T.missed = S.missed /\ T.dropped = S.dropped
          /\ T.sent = S.sent
      BY <1>3 DEF FeedInv, Fed
    <2>2. S.inbox \in Seq(EventId) /\ IsInjective(S.inbox) /\ ToSet(S.inbox) \subseteq Announced
      BY DEF FeedInv, Fed, Notifies
    <2>3. /\ T.inbox \in Seq(EventId) /\ IsInjective(T.inbox)
          /\ ToSet(T.inbox) = ToSet(S.inbox) \cup {id}
      BY <1>1, <2>1, <2>2, AppendFacts
    <2>4. Delivered(T) = Delivered(S)
      BY <2>1 DEF Delivered
    <2>5. Fed(T)' /\ Notifies(T)'
      BY <1>1, <2>1, <2>2, <2>3 DEF FeedInv, Fed, Notifies
    <2>6. Once(T)'
      BY <1>1, <2>1, <2>3, <2>4 DEF FeedInv, Once
    <2>7. \A e : Accounted(S, e) => Accounted(T, e)'
      BY <2>1, <2>3, <2>4 DEF Accounted
    <2>8. \A e : Wanted(T, e)' <=> Wanted(S, e)
      BY <2>1 DEF Wanted, shouldInclude
    <2>9. Complete(T)'
      BY <2>1, <2>4, <2>7, <2>8 DEF FeedInv, Complete, shouldInclude
    <2> QED
      BY <2>5, <2>6, <2>9 DEF FeedInv
  <1>4. ASSUME T = [S EXCEPT !.missed = @ \cup {id}] PROVE FeedInv(T)'
    <2>1. /\ DOMAIN T = DOMAIN S /\ T.inbox = S.inbox
          /\ T.pc = S.pc /\ T.from = S.from /\ T.filter = S.filter /\ T.page = S.page
          /\ T.token = S.token /\ T.replayedIDs = S.replayedIDs /\ T.deduping = S.deduping
          /\ T.ch = S.ch /\ T.pages = S.pages /\ T.missed = S.missed \cup {id}
          /\ T.dropped = S.dropped /\ T.sent = S.sent
      BY <1>4 DEF FeedInv, Fed
    <2>2. Delivered(T) = Delivered(S)
      BY <2>1 DEF Delivered
    <2>3. Fed(T)' /\ Notifies(T)'
      BY <1>1, <2>1 DEF FeedInv, Fed, Notifies
    <2>4. Once(T)'
      BY <1>1, <2>1, <2>2 DEF FeedInv, Once
    <2>5. \A e : Accounted(S, e) => Accounted(T, e)'
      BY <2>1, <2>2 DEF Accounted
    <2>6. \A e : Wanted(T, e)' <=> Wanted(S, e)
      BY <2>1 DEF Wanted, shouldInclude
    <2>7. Complete(T)'
      BY <2>1, <2>2, <2>5, <2>6 DEF FeedInv, Complete, shouldInclude
    <2> QED
      BY <2>3, <2>4, <2>7 DEF FeedInv
  <1>5. S.pages \in Nat /\ (S.pages > 0 \/ S.pages = 0)
    BY DEF FeedInv, Fed
  <1> QED
    BY <1>2, <1>3, <1>4, <1>5 DEF Announce

\* PublishEvent keeps the invariant.
LEMMA PublishStep ==
    ASSUME SubInv, NEW id \in EventId, PublishEvent(id)
    PROVE  SubInv'
  <1>1. /\ id \in unpublished /\ unpublished' = unpublished \ {id}
        /\ sub' = [s \in Subscribers |-> Announce(sub[s], id)]
        /\ UNCHANGED <<nextId, open, committed, lost>>
    BY DEF PublishEvent
  <1>2. LogInv /\ LogInv'
    BY <1>1 DEF SubInv, LogInv
  <1>3. ASSUME NEW s \in Subscribers PROVE FeedInv(sub[s])'
    <2>1. PICK S : S = sub[s]
      OBVIOUS
    <2>2. PICK T : T = Announce(S, id)
      OBVIOUS
    <2>3. FeedInv(S) /\ sub'[s] = T
      BY <1>1, <2>1, <2>2 DEF SubInv
    <2>4. FeedInv(T)'
      BY <1>1, <1>2, <2>2, <2>3, AnnounceKeepsFeed
    <2> QED
      BY <2>3, <2>4
  <1> QED
    BY <1>1, <1>2, <1>3 DEF SubInv

-----------------------------------------------------------------------------
(***************************************************************************)
(* The subscriptions.                                                      *)
(***************************************************************************)

\* One subscription changes and the log does not.
LEMMA FeedReplaced ==
    ASSUME SubInv, NEW s \in Subscribers, NEW T, FeedInv(T), sub' = [sub EXCEPT ![s] = T],
           UNCHANGED <<nextId, open, committed, unpublished, lost>>
    PROVE  SubInv'
  <1>1. LogInv'
    BY DEF SubInv, LogInv
  <1>2. Announced' = Announced
    BY DEF Announced
  <1>3. sub' = [r \in Subscribers |-> IF r = s THEN T ELSE sub[r]]
    BY DEF SubInv
  <1>4. ASSUME NEW r \in Subscribers PROVE FeedInv(sub[r])'
    <2>1. PICK S : S = IF r = s THEN T ELSE sub[r]
      OBVIOUS
    <2>2. FeedInv(S) /\ sub'[r] = S
      BY <1>3, <2>1 DEF SubInv
    <2>3. FeedInv(S)'
      BY <1>2, <2>2, WorldKeepsFeed
    <2> QED
      BY <2>2, <2>3
  <1> QED
    BY <1>1, <1>3, <1>4 DEF SubInv

\* Without a subscription there is nothing to say.
LEMMA IdleFeed == FeedInv(Idle) /\ FeedInv(Ended)
  <1>1. /\ DOMAIN Idle = {"pc", "from", "filter", "page", "token", "replayedIDs", "deduping",
                          "highWaterMark", "ch", "inbox", "active", "pages", "replayed", "missed",
                          "dropped", "sent"}
        /\ Idle.pc = "idle" /\ Idle.from = NoId /\ Idle.page = <<>> /\ Idle.replayedIDs = {}
        /\ Idle.ch = <<>> /\ Idle.sent = <<>> /\ Idle.inbox = <<>> /\ Idle.pages = 0
    BY DEF Idle
  <1>2. /\ DOMAIN Ended = DOMAIN Idle
        /\ Ended.pc = "ended" /\ Ended.from = NoId /\ Ended.page = <<>> /\ Ended.replayedIDs = {}
        /\ Ended.ch = <<>> /\ Ended.sent = <<>> /\ Ended.inbox = <<>> /\ Ended.pages = 0
    BY <1>1 DEF Ended
  <1>3. ASSUME NEW S, DOMAIN S = DOMAIN Idle, S.pc \in {"idle", "ended"}, S.from = NoId,
               S.page = <<>>, S.replayedIDs = {}, S.ch = <<>>, S.sent = <<>>, S.inbox = <<>>,
               S.pages = 0
        PROVE  FeedInv(S)
    <2>1. <<>> \in Seq(EventId) /\ IsInjective(<<>>) /\ ToSet(<<>>) = {} /\ <<>> \o <<>> = <<>>
      BY DEF IsInjective, ToSet
    <2>2. NoId \in NoId..MaxId
      BY SubscriptionsAssumption DEF NoId
    <2>3. Delivered(S) = <<>>
      BY <1>3, <2>1 DEF Delivered
    <2>4. Fed(S)
      BY <1>1, <1>3, <2>1, <2>2 DEF Fed
    <2> QED
      BY <1>3, <2>1, <2>3, <2>4 DEF FeedInv, Notifies, Once, Complete
  <1> HIDE DEF Idle, Ended
  <1> QED
    BY <1>1, <1>2, <1>3

\* A page has each event once, and the last page has what the others have not.
LEMMA ListLogEventsFacts ==
    ASSUME LogInv, NEW token, NEW read, read = ListAfter(token)
    PROVE  /\ read.page \in Seq(EventId) /\ IsInjective(read.page)
           /\ read.nextToken = NoId =>
                 \A id \in ToSet(committed) : token = NoId \/ id > token => id \in ToSet(read.page)
  <1> DEFINE n == Len(committed)
             K == {i \in 1..n : token = NoId \/ committed[i] > token}
             places == Ascending(K)[n]
             rows == [i \in 1..Len(places) |-> committed[places[i]]]
  <1>1. /\ n \in Nat /\ DOMAIN committed = 1..n /\ \A i \in 1..n : committed[i] \in EventId
        /\ \A i, j \in 1..n : committed[i] = committed[j] => i = j
    BY SubscriptionsAssumption DEF LogInv, EventId, IsInjective
  <1>2. K \cap (1..n) = K
    OBVIOUS
  <1>3. /\ places \in Seq(K) /\ Range(places) = K
        /\ \A i, j \in 1..Len(places) : i < j => places[i] < places[j]
    <2> HIDE DEF K, n
    <2> QED
      BY <1>1, <1>2, AscendingLists
  <1>4. read = IF Len(rows) > PageSize
               THEN [page |-> SubSeq(rows, 1, PageSize), nextToken |-> rows[PageSize + 1]]
               ELSE [page |-> rows, nextToken |-> NoId]
    BY DEF ListAfter
  <1> HIDE DEF places
  <1>5. Len(places) \in Nat /\ DOMAIN places = 1..Len(places) /\ \A i \in 1..Len(places) : places[i] \in 1..n
    BY <1>3
  <1>6. \A i, j \in 1..Len(places) : places[i] = places[j] => i = j
    <2> SUFFICES ASSUME NEW i \in 1..Len(places), NEW j \in 1..Len(places),
                        places[i] = places[j], i < j
                 PROVE  FALSE
      BY <1>5
    <2> QED
      BY <1>1, <1>3, <1>5
  <1>7. /\ rows \in Seq(EventId) /\ Len(rows) = Len(places)
        /\ \A i \in 1..Len(rows) : rows[i] = committed[places[i]] /\ rows[i] \in EventId
    <2>1. \A i \in 1..Len(places) : committed[places[i]] \in EventId
      BY <1>1, <1>5
    <2> QED
      BY <1>5, <2>1
  <1>8. \A i, j \in 1..Len(rows) : rows[i] = rows[j] => i = j
    BY <1>1, <1>5, <1>6, <1>7
  <1>9. ASSUME NEW id \in ToSet(committed), token = NoId \/ id > token PROVE id \in ToSet(rows)
    <2>1. PICK i \in 1..n : committed[i] = id
      BY <1>1 DEF ToSet
    <2>2. i \in Range(places)
      BY <1>3, <1>9, <2>1
    <2>3. PICK j \in 1..Len(places) : places[j] = i
      BY <1>5, <2>2 DEF Range
    <2>4. rows[j] = id /\ DOMAIN rows = 1..Len(places)
      BY <2>1, <2>3
    <2> HIDE DEF rows
    <2> QED
      BY <2>3, <2>4 DEF ToSet
  <1> HIDE DEF rows
  <1>10. CASE Len(rows) > PageSize
    <2> DEFINE some == SubSeq(rows, 1, PageSize)
               next == rows[PageSize + 1]
    <2>1. read.page = some /\ read.nextToken = next
      <3>1. read = [page |-> some, nextToken |-> next]
        BY <1>4, <1>10
      <3> HIDE DEF some, next
      <3> QED
        BY <3>1
    <2>2. PageSize \in Nat /\ PageSize + 1 \in 1..Len(rows) /\ PageSize \in 1..Len(rows)
      BY <1>5, <1>7, <1>10, SubscriptionsAssumption
    <2>3. read.nextToken # NoId
      BY <1>7, <2>1, <2>2 DEF EventId, NoId
    <2>4. /\ read.page \in Seq(EventId) /\ Len(read.page) = PageSize
          /\ \A i \in 1..PageSize : read.page[i] = rows[i] /\ i \in 1..Len(rows)
      BY <1>7, <2>1, <2>2
    <2>5. DOMAIN read.page = 1..PageSize
      BY <2>4
    <2>6. IsInjective(read.page)
      BY <1>8, <2>4, <2>5 DEF IsInjective
    <2> QED
      BY <2>3, <2>4, <2>6
  <1>11. CASE ~(Len(rows) > PageSize)
    <2>1. read.page = rows
      BY <1>4, <1>11
    <2>2. IsInjective(rows)
      BY <1>7, <1>8 DEF IsInjective
    <2> QED
      BY <1>7, <1>9, <2>1, <2>2
  <1> QED
    BY <1>10, <1>11

\* Subscribe keeps the invariant.
LEMMA SubscribeStep ==
    ASSUME SubInv, NEW s \in Subscribers, NEW from \in NoId..nextId, NEW filter,
           Subscribe(s, from, filter)
    PROVE  SubInv'
  <1>1. PICK T : T = [Idle EXCEPT !.pc = IF from = NoId THEN "live" ELSE "replay",
                      !.from = from, !.filter = filter, !.token = from, !.deduping = from # NoId,
                      !.missed = IF from = NoId THEN ToSet(committed) \ unpublished ELSE {}]
    OBVIOUS
  <1>2. sub' = [sub EXCEPT ![s] = T] /\ UNCHANGED <<nextId, open, committed, unpublished, lost>>
    BY <1>1 DEF Subscribe
  <1>3. /\ DOMAIN T = {"pc", "from", "filter", "page", "token", "replayedIDs", "deduping",
                       "highWaterMark", "ch", "inbox", "active", "pages", "replayed", "missed",
                       "dropped", "sent"}
        /\ T.pc = IF from = NoId THEN "live" ELSE "replay"
        /\ T.from = from /\ T.filter = filter /\ T.token = from
        /\ T.missed = IF from = NoId THEN ToSet(committed) \ unpublished ELSE {}
        /\ T.page = <<>> /\ T.replayedIDs = {} /\ T.ch = <<>> /\ T.inbox = <<>>
        /\ T.pages = 0 /\ T.dropped = {} /\ T.sent = <<>>
    BY <1>1 DEF Idle
  <1>4. <<>> \in Seq(EventId) /\ IsInjective(<<>>) /\ ToSet(<<>>) = {} /\ <<>> \o <<>> = <<>>
    BY DEF IsInjective, ToSet
  <1>5. from \in NoId..MaxId
    BY SubscriptionsAssumption DEF SubInv, LogInv, NoId
  <1>6. Delivered(T) = <<>>
    BY <1>3, <1>4 DEF Delivered
  <1>7. Fed(T)
    BY <1>3, <1>4, <1>5 DEF Fed
  <1>8. Notifies(T) /\ Once(T)
    BY <1>3, <1>4, <1>6 DEF Notifies, Once
  <1>9. Complete(T)
    BY <1>3, <1>4, <1>6 DEF Complete, Accounted
  <1> QED
    BY <1>2, <1>7, <1>8, <1>9, FeedReplaced DEF FeedInv

\* Connecting to Redis, and losing it, keep the invariant.
LEMMA RedisStep ==
    ASSUME SubInv, NEW s \in Subscribers, RedisSubscribed(s) \/ RedisDisconnects(s)
    PROVE  SubInv'
  <1>1. PICK S : S = sub[s]
    OBVIOUS
  <1>2. FeedInv(S) /\ LogInv
    BY <1>1 DEF SubInv
  <1>3. CASE RedisSubscribed(s)
    <2>1. PICK T : T = [S EXCEPT !.active = TRUE]
      OBVIOUS
    <2>2. sub' = [sub EXCEPT ![s] = T] /\ UNCHANGED <<nextId, open, committed, unpublished, lost>>
      BY <1>1, <1>3, <2>1 DEF RedisSubscribed
    <2>3. /\ DOMAIN T = DOMAIN S /\ T.inbox = S.inbox
          /\ T.pc = S.pc /\ T.from = S.from /\ T.filter = S.filter /\ T.page = S.page
          /\ T.token = S.token /\ T.replayedIDs = S.replayedIDs /\ T.deduping = S.deduping
          /\ T.ch = S.ch /\ T.pages = S.pages /\ T.missed = S.missed /\ T.dropped = S.dropped
          /\ T.sent = S.sent
      BY <1>2, <2>1 DEF FeedInv, Fed
    <2>4. FeedInv(T)
      BY <1>2, <2>3
      DEF FeedInv, Fed, Notifies, Once, Complete, Accounted, Wanted, Delivered
    <2> QED
      BY <2>2, <2>4, FeedReplaced
  <1>4. CASE RedisDisconnects(s)
    <2>1. PICK T : T = [S EXCEPT !.active = FALSE, !.inbox = <<>>, !.missed = @ \cup ToSet(S.inbox)]
      OBVIOUS
    <2>2. sub' = [sub EXCEPT ![s] = T] /\ UNCHANGED <<nextId, open, committed, unpublished, lost>>
      BY <1>1, <1>4, <2>1 DEF RedisDisconnects
    <2>3. /\ DOMAIN T = DOMAIN S /\ T.inbox = <<>> /\ T.missed = S.missed \cup ToSet(S.inbox)
          /\ T.pc = S.pc /\ T.from = S.from /\ T.filter = S.filter /\ T.page = S.page
          /\ T.token = S.token /\ T.replayedIDs = S.replayedIDs /\ T.deduping = S.deduping
          /\ T.ch = S.ch /\ T.pages = S.pages /\ T.dropped = S.dropped /\ T.sent = S.sent
      BY <1>2, <2>1 DEF FeedInv, Fed
    <2>4. <<>> \in Seq(EventId) /\ IsInjective(<<>>) /\ ToSet(<<>>) = {}
      BY DEF IsInjective, ToSet
    <2>5. Delivered(T) = Delivered(S)
      BY <2>3 DEF Delivered
    <2>6. \A id : Accounted(S, id) => Accounted(T, id)
      BY <2>3, <2>4, <2>5 DEF Accounted
    <2>7. \A id : Wanted(T, id) <=> Wanted(S, id)
      BY <2>3 DEF Wanted
    <2>8. Fed(T) /\ Notifies(T)
      BY <1>2, <2>3, <2>4 DEF FeedInv, Fed, Notifies
    <2>9. Once(T)
      BY <1>2, <2>3, <2>4, <2>5 DEF FeedInv, Once
    <2>10. Complete(T)
      BY <1>2, <2>3, <2>5, <2>6, <2>7 DEF FeedInv, Complete
    <2> QED
      BY <2>2, <2>8, <2>9, <2>10, FeedReplaced DEF FeedInv
  <1> QED
    BY <1>3, <1>4

\* A page is read: the first one, if it is the last, has all that the replay owes.
LEMMA ReadPageStep ==
    ASSUME SubInv, NEW s \in Subscribers, ReadPage(s)
    PROVE  SubInv'
  <1>1. PICK S : S = sub[s]
    OBVIOUS
  <1>2. FeedInv(S) /\ LogInv
    BY <1>1 DEF SubInv
  <1>3. PICK read : read = ListAfter(S.token)
    OBVIOUS
  <1>4. PICK T : T = [S EXCEPT !.page = read.page, !.token = read.nextToken, !.pages = @ + 1]
    OBVIOUS
  <1>5. /\ S.pc = "replay" /\ S.page = <<>>
        /\ sub' = [sub EXCEPT ![s] = T] /\ UNCHANGED <<nextId, open, committed, unpublished, lost>>
    BY <1>1, <1>3, <1>4 DEF ReadPage
  <1>6. /\ DOMAIN T = DOMAIN S /\ T.inbox = S.inbox
        /\ T.pc = S.pc /\ T.from = S.from /\ T.filter = S.filter /\ T.page = read.page
        /\ T.token = read.nextToken /\ T.replayedIDs = S.replayedIDs /\ T.deduping = S.deduping
        /\ T.ch = S.ch /\ T.pages = S.pages + 1 /\ T.missed = S.missed /\ T.dropped = S.dropped
        /\ T.sent = S.sent
    BY <1>2, <1>4 DEF FeedInv, Fed
  <1>7. /\ read.page \in Seq(EventId) /\ IsInjective(read.page)
        /\ read.nextToken = NoId =>
              \A id \in ToSet(committed) : S.token = NoId \/ id > S.token => id \in ToSet(read.page)
    BY <1>2, <1>3, ListLogEventsFacts
  <1>8. S.pages \in Nat /\ T.pages # 0 /\ (T.pages <= 1 => S.pages = 0)
    BY <1>2, <1>6 DEF FeedInv, Fed
  <1>9. S.pages = 0 => S.sent = <<>> /\ S.ch = <<>> /\ S.token = S.from
    BY <1>2, <1>5 DEF FeedInv, Fed
  <1>10. Delivered(T) = Delivered(S)
    BY <1>6 DEF Delivered
  <1>11. S.pages = 0 => ToSet(Delivered(S)) = {} /\ IsInjective(Delivered(S))
    <2>1. <<>> \o <<>> = <<>> /\ ToSet(<<>>) = {} /\ IsInjective(<<>>)
      BY DEF ToSet, IsInjective
    <2> QED
      BY <1>9, <2>1 DEF Delivered
  <1>12. Fed(T)
    BY <1>2, <1>5, <1>6, <1>7, <1>8 DEF FeedInv, Fed
  <1>13. Notifies(T)
    BY <1>2, <1>6 DEF FeedInv, Notifies
  <1>14. Once(T)
    BY <1>2, <1>6, <1>7, <1>8, <1>10, <1>11 DEF FeedInv, Once
  <1>15. Complete(T)
    <2>1. \A id : Wanted(T, id) => id > S.from
      BY <1>6 DEF Wanted
    <2> QED
      BY <1>2, <1>5, <1>6, <1>7, <1>8, <1>9, <1>10, <2>1 DEF FeedInv, Complete
  <1> QED
    BY <1>5, <1>12, <1>13, <1>14, <1>15, FeedReplaced DEF FeedInv

\* An event of the page is remembered, and delivered if it is wanted.
LEMMA ReplayEventStep ==
    ASSUME SubInv, NEW s \in Subscribers, ReplayEvent(s)
    PROVE  SubInv'
  <1>1. PICK S : S = sub[s]
    OBVIOUS
  <1>2. FeedInv(S) /\ LogInv
    BY <1>1 DEF SubInv
  <1>3. PICK id : id = Head(S.page)
    OBVIOUS
  <1>4. PICK R : R = [S EXCEPT !.page = Tail(@), !.replayed = @ + 1,
                               !.replayedIDs = @ \cup {id},
                               !.highWaterMark = IF id > @ THEN id ELSE @]
    OBVIOUS
  <1>5. PICK Q : Q = [R EXCEPT !.ch = Append(@, id)]
    OBVIOUS
  <1>6. /\ S.pc = "replay" /\ S.page # <<>> /\ UNCHANGED <<nextId, open, committed, unpublished, lost>>
        /\ \/ sub' = [sub EXCEPT ![s] = Ended]
           \/ shouldInclude(id, R.filter) /\ sub' = [sub EXCEPT ![s] = Q]
           \/ ~shouldInclude(id, R.filter) /\ sub' = [sub EXCEPT ![s] = R]
    BY <1>1, <1>3, <1>4, <1>5 DEF ReplayEvent
  <1>7. /\ DOMAIN R = DOMAIN S /\ R.inbox = S.inbox
        /\ R.pc = S.pc /\ R.from = S.from /\ R.filter = S.filter /\ R.page = Tail(S.page)
        /\ R.token = S.token /\ R.replayedIDs = S.replayedIDs \cup {id} /\ R.deduping = S.deduping
        /\ R.ch = S.ch /\ R.pages = S.pages /\ R.missed = S.missed /\ R.dropped = S.dropped
        /\ R.sent = S.sent
    BY <1>2, <1>4 DEF FeedInv, Fed
  <1>8. /\ DOMAIN Q = DOMAIN R /\ Q.inbox = R.inbox
        /\ Q.pc = R.pc /\ Q.from = R.from /\ Q.filter = R.filter /\ Q.page = R.page
        /\ Q.token = R.token /\ Q.replayedIDs = R.replayedIDs /\ Q.deduping = R.deduping
        /\ Q.ch = Append(R.ch, id) /\ Q.pages = R.pages /\ Q.missed = R.missed
        /\ Q.dropped = R.dropped /\ Q.sent = R.sent
    BY <1>2, <1>5, <1>7 DEF FeedInv, Fed
  <1>9. {S.page, S.ch, S.sent} \subseteq Seq(EventId) /\ S.from # NoId /\ S.pages # 0
    BY <1>2, <1>6 DEF FeedInv, Fed
  <1>10. /\ id \in EventId /\ R.page \in Seq(EventId) /\ ToSet(S.page) = ToSet(R.page) \cup {id}
         /\ IsInjective(S.page) => IsInjective(R.page) /\ id \notin ToSet(R.page)
    BY <1>3, <1>6, <1>7, <1>9, TailFacts
  <1>11. CASE sub' = [sub EXCEPT ![s] = Ended]
    BY <1>6, <1>11, FeedReplaced, IdleFeed
  <1>12. CASE ~shouldInclude(id, R.filter) /\ sub' = [sub EXCEPT ![s] = R]
    <2>1. Delivered(R) = Delivered(S)
      BY <1>7 DEF Delivered
    <2>2. Fed(R)
      BY <1>2, <1>6, <1>7, <1>9, <1>10 DEF FeedInv, Fed
    <2>3. Notifies(R)
      BY <1>2, <1>7 DEF FeedInv, Notifies
    <2>4. Once(R)
      BY <1>2, <1>7, <1>9, <1>10, <2>1 DEF FeedInv, Once
    <2>5. \A e : Wanted(R, e) => Wanted(S, e) /\ e # id
      BY <1>7, <1>12 DEF Wanted
    <2>6. \A e : Accounted(S, e) => Accounted(R, e)
      BY <1>7, <2>1 DEF Accounted
    <2>7. Complete(R)
      BY <1>2, <1>6, <1>7, <1>10, <1>12, <2>1, <2>5, <2>6 DEF FeedInv, Complete
    <2> QED
      BY <1>6, <1>12, <2>2, <2>3, <2>4, <2>7, FeedReplaced DEF FeedInv
  <1>13. CASE shouldInclude(id, R.filter) /\ sub' = [sub EXCEPT ![s] = Q]
    <2>1. Delivered(S) \in Seq(EventId) /\ Delivered(Q) = Append(Delivered(S), id)
      <3>1. S.sent \in Seq(EventId) /\ S.ch \in Seq(EventId)
        BY <1>9
      <3>2. S.sent \o S.ch \in Seq(EventId) /\ S.sent \o Append(S.ch, id) = Append(S.sent \o S.ch, id)
        BY <1>10, <3>1, DeliveryFacts
      <3> QED
        BY <1>7, <1>8, <3>2 DEF Delivered
    <2>2. /\ ToSet(Delivered(Q)) = ToSet(Delivered(S)) \cup {id}
          /\ IsInjective(Delivered(S)) /\ id \notin ToSet(Delivered(S)) => IsInjective(Delivered(Q))
      BY <1>10, <2>1, AppendFacts
    <2>3. Q.ch \in Seq(EventId)
      BY <1>7, <1>8, <1>9, <1>10, AppendFacts
    <2>4. Fed(Q)
      BY <1>2, <1>6, <1>7, <1>8, <1>9, <1>10, <2>3 DEF FeedInv, Fed
    <2>5. Notifies(Q)
      BY <1>2, <1>7, <1>8 DEF FeedInv, Notifies
    <2>6. Once(Q)
      BY <1>2, <1>7, <1>8, <1>9, <1>10, <2>2 DEF FeedInv, Once
    <2>7. \A e : Wanted(Q, e) => Wanted(S, e)
      BY <1>7, <1>8 DEF Wanted
    <2>8. \A e : Accounted(S, e) \/ e = id => Accounted(Q, e)
      BY <1>7, <1>8, <2>2 DEF Accounted
    <2>9. Complete(Q)
      BY <1>2, <1>6, <1>7, <1>8, <1>10, <1>13, <2>2, <2>7, <2>8 DEF FeedInv, Complete
    <2> QED
      BY <1>6, <1>13, <2>4, <2>5, <2>6, <2>9, FeedReplaced DEF FeedInv
  <1> QED
    BY <1>6, <1>11, <1>12, <1>13

\* The hand-over: nothing is left in the page.
LEMMA ReplayDoneStep ==
    ASSUME SubInv, NEW s \in Subscribers, ReplayDone(s)
    PROVE  SubInv'
  <1>1. PICK S : S = sub[s]
    OBVIOUS
  <1>2. FeedInv(S) /\ LogInv
    BY <1>1 DEF SubInv
  <1>3. PICK T : T = [S EXCEPT !.pc = "live"]
    OBVIOUS
  <1>4. /\ S.pc = "replay" /\ S.page = <<>> /\ S.pages > 0 /\ S.token = NoId
        /\ sub' = [sub EXCEPT ![s] = T] /\ UNCHANGED <<nextId, open, committed, unpublished, lost>>
    BY <1>1, <1>3 DEF ReplayDone
  <1>5. /\ DOMAIN T = DOMAIN S /\ T.inbox = S.inbox
        /\ T.pc = "live" /\ T.from = S.from /\ T.filter = S.filter /\ T.page = S.page
        /\ T.token = S.token /\ T.replayedIDs = S.replayedIDs /\ T.deduping = S.deduping
        /\ T.ch = S.ch /\ T.pages = S.pages /\ T.missed = S.missed /\ T.dropped = S.dropped
        /\ T.sent = S.sent
    BY <1>2, <1>3 DEF FeedInv, Fed
  <1>6. Delivered(T) = Delivered(S)
    BY <1>5 DEF Delivered
  <1>7. Fed(T) /\ Notifies(T) /\ Once(T)
    BY <1>2, <1>4, <1>5, <1>6 DEF FeedInv, Fed, Notifies, Once
  <1>8. Complete(T)
    <2>1. ToSet(S.page) = {}
      BY <1>4 DEF ToSet
    <2>2. S.pages \in Nat /\ (T.pages <= 1 => S.pages = 1)
      BY <1>2, <1>4, <1>5 DEF FeedInv, Fed
    <2>3. \A id : /\ Wanted(T, id) <=> Wanted(S, id)
                  /\ Accounted(S, id) <=> Accounted(T, id)
      BY <1>5, <1>6 DEF Wanted, Accounted
    <2> QED
      BY <1>2, <1>4, <1>5, <1>6, <2>1, <2>2, <2>3 DEF FeedInv, Complete
  <1> QED
    BY <1>4, <1>7, <1>8, FeedReplaced DEF FeedInv

\* A notification that is skipped was delivered; one that is not was not.
LEMMA ReceiveStep ==
    ASSUME SubInv, NEW s \in Subscribers, Receive(s)
    PROVE  SubInv'
  <1>1. PICK S : S = sub[s]
    OBVIOUS
  <1>2. FeedInv(S) /\ LogInv
    BY <1>1 DEF SubInv
  <1>3. PICK id : id = Head(S.inbox)
    OBVIOUS
  <1>4. PICK R : R = [S EXCEPT !.inbox = Tail(@)]
    OBVIOUS
  <1>5. PICK fetched \in BOOLEAN :
          /\ S.pc = "live" /\ S.inbox # <<>> /\ UNCHANGED <<nextId, open, committed, unpublished, lost>>
          /\ sub' = [sub EXCEPT ![s] = Notified(R, id, fetched)]
    BY <1>1, <1>3, <1>4 DEF Receive
  <1>6. PICK T : T = Notified(R, id, fetched)
    OBVIOUS
  <1>7. /\ DOMAIN R = DOMAIN S /\ R.inbox = Tail(S.inbox)
        /\ R.pc = S.pc /\ R.from = S.from /\ R.filter = S.filter /\ R.page = S.page
        /\ R.token = S.token /\ R.replayedIDs = S.replayedIDs /\ R.deduping = S.deduping
        /\ R.ch = S.ch /\ R.pages = S.pages /\ R.missed = S.missed /\ R.dropped = S.dropped
        /\ R.sent = S.sent
    BY <1>2, <1>4 DEF FeedInv, Fed
  <1>8. /\ {S.page, S.ch, S.sent, S.inbox} \subseteq Seq(EventId) /\ S.page = <<>>
        /\ IsInjective(S.inbox) /\ ToSet(S.inbox) \subseteq Announced
    BY <1>2, <1>5 DEF FeedInv, Fed, Notifies
  <1>9. /\ id \in EventId /\ R.inbox \in Seq(EventId) /\ ToSet(S.inbox) = ToSet(R.inbox) \cup {id}
        /\ IsInjective(R.inbox) /\ id \notin ToSet(R.inbox) /\ id \in Announced
    BY <1>3, <1>5, <1>7, <1>8, TailFacts
  <1>10. Delivered(R) = Delivered(S) /\ Delivered(S) \in Seq(EventId)
    <2>1. S.sent \o S.ch \in Seq(EventId)
      BY <1>8, DeliveryFacts
    <2> QED
      BY <1>7, <2>1 DEF Delivered
  \* The four outcomes.
  <1>11. CASE S.deduping /\ id \in S.replayedIDs
    <2>1. T = [R EXCEPT !.replayedIDs = @ \ {id}]
      BY <1>6, <1>7, <1>11 DEF Notified
    <2>2. /\ DOMAIN T = DOMAIN S /\ T.inbox = R.inbox
          /\ T.pc = S.pc /\ T.from = S.from /\ T.filter = S.filter /\ T.page = S.page
          /\ T.token = S.token /\ T.replayedIDs = S.replayedIDs \ {id} /\ T.deduping = S.deduping
          /\ T.ch = S.ch /\ T.pages = S.pages /\ T.missed = S.missed /\ T.dropped = S.dropped
          /\ T.sent = S.sent
      BY <1>2, <1>7, <2>1 DEF FeedInv, Fed
    <2>3. Delivered(T) = Delivered(S)
      BY <2>2 DEF Delivered
    <2>4. Fed(T) /\ Notifies(T)
      BY <1>2, <1>8, <1>9, <2>2 DEF FeedInv, Fed, Notifies
    <2>5. Once(T)
      BY <1>2, <1>9, <2>2, <2>3 DEF FeedInv, Once
    <2>6. \A e : Wanted(T, e) <=> Wanted(S, e)
      BY <2>2 DEF Wanted
    <2>7. \A e : Wanted(S, e) /\ Accounted(S, e) => Accounted(T, e)
      BY <1>2, <1>9, <1>11, <2>2, <2>3 DEF Accounted, Wanted, FeedInv, Complete
    <2>8. Complete(T)
      BY <1>2, <1>5, <2>2, <2>3, <2>6, <2>7 DEF FeedInv, Complete
    <2> QED
      BY <1>5, <1>6, <2>4, <2>5, <2>8, FeedReplaced DEF FeedInv
  <1>12. CASE ~(S.deduping /\ id \in S.replayedIDs)
    <2>1. PICK Q : Q = [R EXCEPT !.deduping = @ /\ id <= R.highWaterMark]
      OBVIOUS
    <2>2. T = Handled(Q, id, fetched)
      BY <1>6, <1>7, <1>12, <2>1 DEF Notified
    <2>3. /\ DOMAIN Q = DOMAIN S /\ Q.inbox = R.inbox
          /\ Q.pc = S.pc /\ Q.from = S.from /\ Q.filter = S.filter /\ Q.page = S.page
          /\ Q.token = S.token /\ Q.replayedIDs = S.replayedIDs /\ (Q.deduping => S.deduping)
          /\ Q.ch = S.ch /\ Q.pages = S.pages /\ Q.missed = S.missed /\ Q.dropped = S.dropped
          /\ Q.sent = S.sent
      BY <1>2, <1>7, <2>1 DEF FeedInv, Fed
    <2>4. Delivered(Q) = Delivered(S)
      BY <2>3 DEF Delivered
    <2>5. S.pages <= 1 /\ (Q.deduping \/ S.from = NoId) => id \notin ToSet(Delivered(S))
      BY <1>2, <1>9, <1>12, <2>3 DEF FeedInv, Once
    <2>6. CASE ~shouldInclude(id, Q.filter)
      <3>1. T = Q
        BY <2>2, <2>6 DEF Handled
      <3>2. Fed(Q) /\ Notifies(Q)
        BY <1>2, <1>8, <1>9, <2>3 DEF FeedInv, Fed, Notifies
      <3>3. Once(Q)
        BY <1>2, <1>9, <2>3, <2>4 DEF FeedInv, Once
      <3>4. \A e : Wanted(Q, e) => Wanted(S, e) /\ e # id
        BY <2>3, <2>6 DEF Wanted
      <3>5. \A e : e # id /\ Accounted(S, e) => Accounted(Q, e)
        BY <1>9, <2>3, <2>4 DEF Accounted
      <3>6. Complete(Q)
        BY <1>2, <1>5, <2>3, <2>4, <3>4, <3>5 DEF FeedInv, Complete
      <3> QED
        BY <1>5, <1>6, <3>1, <3>2, <3>3, <3>6, FeedReplaced DEF FeedInv
    <2>7. CASE shouldInclude(id, Q.filter) /\ fetched /\ Len(Q.ch) < BufferSize
      <3>1. T = [Q EXCEPT !.ch = Append(@, id)]
        BY <2>2, <2>7 DEF Handled
      <3>2. /\ DOMAIN T = DOMAIN S /\ T.inbox = R.inbox
            /\ T.pc = S.pc /\ T.from = S.from /\ T.filter = S.filter /\ T.page = S.page
            /\ T.token = S.token /\ T.replayedIDs = S.replayedIDs /\ T.deduping = Q.deduping
            /\ T.ch = Append(S.ch, id) /\ T.pages = S.pages /\ T.missed = S.missed
            /\ T.dropped = S.dropped /\ T.sent = S.sent
        BY <1>2, <2>3, <3>1 DEF FeedInv, Fed
      <3>3. Delivered(T) = Append(Delivered(S), id) /\ T.ch \in Seq(EventId)
        <4>1. S.sent \in Seq(EventId) /\ S.ch \in Seq(EventId)
          BY <1>8
        <4>2. S.sent \o Append(S.ch, id) = Append(S.sent \o S.ch, id)
          BY <1>9, <4>1, DeliveryFacts
        <4>3. Append(S.ch, id) \in Seq(EventId)
          BY <1>9, <4>1, AppendFacts
        <4> QED
          BY <3>2, <4>2, <4>3 DEF Delivered
      <3>4. /\ ToSet(Delivered(T)) = ToSet(Delivered(S)) \cup {id}
            /\ IsInjective(Delivered(S)) /\ id \notin ToSet(Delivered(S)) => IsInjective(Delivered(T))
        BY <1>9, <1>10, <3>3, AppendFacts
      <3>5. Fed(T) /\ Notifies(T)
        BY <1>2, <1>5, <1>8, <1>9, <3>2, <3>3 DEF FeedInv, Fed, Notifies
      <3>6. Once(T)
        <4>1. ToSet(T.page) = {}
          BY <1>8, <3>2 DEF ToSet
        <4> QED
          BY <1>2, <1>9, <2>3, <2>5, <3>2, <3>4, <4>1 DEF FeedInv, Once
      <3>7. \A e : Wanted(T, e) <=> Wanted(S, e)
        BY <3>2 DEF Wanted
      <3>8. \A e : Accounted(S, e) => Accounted(T, e)
        BY <1>9, <3>2, <3>4 DEF Accounted
      <3>9. Complete(T)
        BY <1>2, <1>5, <3>2, <3>4, <3>7, <3>8 DEF FeedInv, Complete
      <3> QED
        BY <1>5, <1>6, <3>5, <3>6, <3>9, FeedReplaced DEF FeedInv
    <2>8. CASE shouldInclude(id, Q.filter) /\ ~(fetched /\ Len(Q.ch) < BufferSize)
      <3>1. T = [Q EXCEPT !.dropped = @ \cup {id}]
        BY <2>2, <2>8 DEF Handled
      <3>2. /\ DOMAIN T = DOMAIN S /\ T.inbox = R.inbox
            /\ T.pc = S.pc /\ T.from = S.from /\ T.filter = S.filter /\ T.page = S.page
            /\ T.token = S.token /\ T.replayedIDs = S.replayedIDs /\ T.deduping = Q.deduping
            /\ T.ch = S.ch /\ T.pages = S.pages /\ T.missed = S.missed
            /\ T.dropped = S.dropped \cup {id} /\ T.sent = S.sent
        BY <1>2, <2>3, <3>1 DEF FeedInv, Fed
      <3>3. Delivered(T) = Delivered(S)
        BY <3>2 DEF Delivered
      <3>4. Fed(T) /\ Notifies(T)
        BY <1>2, <1>8, <1>9, <3>2 DEF FeedInv, Fed, Notifies
      <3>5. Once(T)
        BY <1>2, <1>9, <2>3, <3>2, <3>3 DEF FeedInv, Once
      <3>6. \A e : Wanted(T, e) <=> Wanted(S, e)
        BY <3>2 DEF Wanted
      <3>7. \A e : Accounted(S, e) => Accounted(T, e)
        BY <1>9, <3>2, <3>3 DEF Accounted
      <3>8. Complete(T)
        BY <1>2, <1>5, <3>2, <3>3, <3>6, <3>7 DEF FeedInv, Complete
      <3> QED
        BY <1>5, <1>6, <3>4, <3>5, <3>8, FeedReplaced DEF FeedInv
    <2> QED
      BY <2>6, <2>7, <2>8
  <1> QED
    BY <1>11, <1>12

\* What leaves the channel has been delivered before.
LEMMA SendToClientStep ==
    ASSUME SubInv, NEW s \in Subscribers, SendToClient(s)
    PROVE  SubInv'
  <1>1. PICK S : S = sub[s]
    OBVIOUS
  <1>2. FeedInv(S) /\ LogInv
    BY <1>1 DEF SubInv
  <1>3. PICK T : T = [S EXCEPT !.ch = Tail(@), !.sent = Append(@, Head(S.ch))]
    OBVIOUS
  <1>4. /\ S.pc = "live" /\ S.ch # <<>>
        /\ sub' = [sub EXCEPT ![s] = T] /\ UNCHANGED <<nextId, open, committed, unpublished, lost>>
    BY <1>1, <1>3 DEF SendToClient
  <1>5. /\ DOMAIN T = DOMAIN S /\ T.inbox = S.inbox
        /\ T.pc = S.pc /\ T.from = S.from /\ T.filter = S.filter /\ T.page = S.page
        /\ T.token = S.token /\ T.replayedIDs = S.replayedIDs /\ T.deduping = S.deduping
        /\ T.ch = Tail(S.ch) /\ T.pages = S.pages /\ T.missed = S.missed /\ T.dropped = S.dropped
        /\ T.sent = Append(S.sent, Head(S.ch))
    BY <1>2, <1>3 DEF FeedInv, Fed
  <1>6. S.ch \in Seq(EventId) /\ S.sent \in Seq(EventId)
    BY <1>2 DEF FeedInv, Fed
  <1>7. Head(S.ch) \in EventId /\ T.ch \in Seq(EventId) /\ T.sent \in Seq(EventId)
    BY <1>4, <1>5, <1>6
  <1>8. Delivered(T) = Delivered(S)
    BY <1>4, <1>5, <1>6, DeliveryFacts DEF Delivered
  <1>9. Fed(T) /\ Notifies(T)
    BY <1>2, <1>4, <1>5, <1>7 DEF FeedInv, Fed, Notifies
  <1>10. Once(T)
    BY <1>2, <1>5, <1>8 DEF FeedInv, Once
  <1>11. \A id : /\ Wanted(T, id) <=> Wanted(S, id)
                 /\ Accounted(S, id) <=> Accounted(T, id)
    BY <1>5, <1>8 DEF Wanted, Accounted
  <1>12. Complete(T)
    BY <1>2, <1>5, <1>8, <1>11 DEF FeedInv, Complete
  <1> QED
    BY <1>4, <1>9, <1>10, <1>12, FeedReplaced DEF FeedInv

-----------------------------------------------------------------------------
(***************************************************************************)
(* The theorems.                                                           *)
(***************************************************************************)

\* The invariant holds at the start.
LEMMA SubInvInit == FeedInit => SubInv
  <1> SUFFICES ASSUME FeedInit PROVE SubInv
    OBVIOUS
  <1>1. LogInv
    <2>1. <<>> \in Seq(1..0) /\ IsInjective(<<>>) /\ ToSet(<<>>) = {}
      BY DEF IsInjective, ToSet
    <2> QED
      BY <2>1, SubscriptionsAssumption DEF FeedInit, LogInv
  <1>2. sub = [s \in Subscribers |-> Idle]
    BY DEF FeedInit
  <1> HIDE DEF Idle
  <1> QED
    BY <1>1, <1>2, IdleFeed DEF SubInv

\* Every step keeps the invariant.
LEMMA SubInvStep == SubInv /\ [FeedNext]_feedVars => SubInv'
  <1> SUFFICES ASSUME SubInv, [FeedNext]_feedVars PROVE SubInv'
    OBVIOUS
  <1>1. CASE MakeId
    <2>1. 1 \in EventId
      BY SubscriptionsAssumption DEF EventId
    <2> QED
      BY <1>1, <2>1, WorldStep
  <1>2. ASSUME NEW id \in EventId, Commit(id) \/ Rollback(id) \/ PublishFails(id)
        PROVE  SubInv'
    BY <1>2, WorldStep
  <1>3. ASSUME NEW id \in EventId, PublishEvent(id) PROVE SubInv'
    BY <1>3, PublishStep
  <1>4. ASSUME NEW s \in Subscribers, NEW from \in NoId..nextId, NEW filter \in Filters,
               Subscribe(s, from, filter)
        PROVE  SubInv'
    BY <1>4, SubscribeStep
  <1>5. ASSUME NEW s \in Subscribers, RedisSubscribed(s) \/ RedisDisconnects(s) PROVE SubInv'
    BY <1>5, RedisStep
  <1>6. ASSUME NEW s \in Subscribers, ReadPage(s) PROVE SubInv'
    BY <1>6, ReadPageStep
  <1>7. ASSUME NEW s \in Subscribers, ReplayEvent(s) PROVE SubInv'
    BY <1>7, ReplayEventStep
  <1>8. ASSUME NEW s \in Subscribers, ReplayDone(s) PROVE SubInv'
    BY <1>8, ReplayDoneStep
  <1>9. ASSUME NEW s \in Subscribers, Receive(s) PROVE SubInv'
    BY <1>9, ReceiveStep
  <1>10. ASSUME NEW s \in Subscribers, SendToClient(s) PROVE SubInv'
    BY <1>10, SendToClientStep
  <1>11. ASSUME NEW s \in Subscribers, Leave(s) PROVE SubInv'
    <2>1. sub' = [sub EXCEPT ![s] = Ended] /\ UNCHANGED <<nextId, open, committed, unpublished, lost>>
      BY <1>11 DEF Leave
    <2> HIDE DEF Ended
    <2> QED
      BY <2>1, FeedReplaced, IdleFeed
  <1>12. CASE UNCHANGED feedVars
    <2>1. UNCHANGED <<nextId, open, committed, unpublished, lost, sub>>
      BY <1>12 DEF feedVars
    <2>2. LogInv'
      BY <2>1 DEF SubInv, LogInv
    <2>3. ASSUME NEW s \in Subscribers PROVE FeedInv(sub[s])'
      <3>1. PICK S : S = sub[s]
        OBVIOUS
      <3>2. FeedInv(S) /\ sub'[s] = S /\ Announced' = Announced
        BY <2>1, <3>1 DEF SubInv, Announced
      <3>3. FeedInv(S)'
        BY <2>1, <3>2, WorldKeepsFeed
      <3> QED
        BY <3>2, <3>3
    <2> QED
      BY <2>1, <2>2, <2>3 DEF SubInv
  <1> QED
    BY <1>1, <1>2, <1>3, <1>4, <1>5, <1>6, <1>7, <1>8, <1>9, <1>10, <1>11, <1>12 DEF FeedNext

\* SubscriptionInvariance: the invariant of the feeds holds, whatever Redis
\* loses and in whatever order transactions commit.
THEOREM SubscriptionInvariance == FeedSpec => []SubInv
  BY SubInvInit, SubInvStep, PTL DEF FeedSpec

\* DeliveredOnce: while the replayed IDs are kept, no event reaches a subscriber
\* twice, however late its notification is (Manager.Subscribe, replayedIDs).
THEOREM DeliveredOnce == FeedSpec => []NoDuplicates
  <1>1. SubInv => NoDuplicates
    BY DEF SubInv, NoDuplicates, FeedInv, Once
  <1> QED
    BY <1>1, SubscriptionInvariance, PTL

\* LossesAreKnown: the hand-over from a replay of one page to live events loses
\* nothing that Redis and the channel did not (Manager.Subscribe).
THEOREM LossesAreKnown == FeedSpec => []NothingMissedSilently
  <1>1. SubInv => NothingMissedSilently
    BY DEF SubInv, NothingMissedSilently, FeedInv, Complete, Wanted, Accounted
  <1> QED
    BY <1>1, SubscriptionInvariance, PTL
=============================================================================
