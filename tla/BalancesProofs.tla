---------------------------- MODULE BalancesProofs ----------------------------
(***************************************************************************)
(* Proofs about Balances, for any number of workers, accounts and requests *)
(* and any sound tables to start from.                                     *)
(***************************************************************************)
EXTENDS BalancesInvariant, FiniteSetTheorems, WellFoundedInduction, TLAPS, SequenceTheorems

-----------------------------------------------------------------------------
(***************************************************************************)
(* Induction on natural numbers in a first-order form: what is shown of    *)
(* every number is membership in a set.                                    *)
(***************************************************************************)

(***************************************************************************)
(* A set of natural numbers that is not empty has a least element.         *)
(***************************************************************************)
LEMMA LeastNumber ==
    ASSUME NEW T, T \subseteq Nat, T # {}
    PROVE  \E m \in T : \A n \in T : m <= n
  <1> DEFINE R == {ss \in Nat \X Nat : ss[1] < ss[2]}
  <1>1. IsWellFoundedOn(R, Nat)
    BY NatLessThanWellFounded DEF OpToRel
  <1>2. \A n, m \in Nat : n < m => <<n, m>> \in R
    OBVIOUS
  <1> HIDE DEF R
  <1>3. PICK m \in T : \A n \in T : ~(<<n, m>> \in R)
    BY <1>1, WFMin
  <1>4. \A n \in T : ~(n < m)
    BY <1>2, <1>3
  <1> QED
    BY <1>3, <1>4

(***************************************************************************)
(* A set that has 0, and with every natural number the next, has them all. *)
(***************************************************************************)
LEMMA NumbersByInduction ==
    ASSUME NEW S, 0 \in S, \A n \in Nat : n \in S => n + 1 \in S
    PROVE  \A n \in Nat : n \in S
  <1> SUFFICES ASSUME NEW k \in Nat, k \notin S PROVE FALSE
    OBVIOUS
  <1> DEFINE T == Nat \ S
  <1>1. PICK m \in T : \A n \in T : m <= n
    BY LeastNumber
  <1>2. m # 0 /\ m - 1 \in Nat /\ m - 1 \notin T
    BY <1>1
  <1> QED
    BY <1>1, <1>2

(***************************************************************************)
(* Appending to a sequence, whatever it is a sequence of.                  *)
(***************************************************************************)
LEMMA AppendFacts ==
    ASSUME NEW s, s \in Seq(Range(s)), NEW e
    PROVE  /\ Append(s, e) \in Seq(Range(Append(s, e)))
           /\ Len(s) \in Nat
           /\ DOMAIN s = 1..Len(s)
           /\ Len(Append(s, e)) = Len(s) + 1
           /\ DOMAIN Append(s, e) = 1..(Len(s) + 1)
           /\ Append(s, e)[Len(s) + 1] = e
           /\ \A n \in 1..Len(s) : Append(s, e)[n] = s[n]
  <1> DEFINE T == Range(s) \cup {e}
             t == Append(s, e)
  <1>1. s \in Seq(T)
    BY SeqMonotonic
  <1>2. e \in T
    OBVIOUS
  <1> HIDE DEF T
  <1>3. t \in Seq(T) /\ Len(s) \in Nat /\ DOMAIN s = 1..Len(s) /\ Len(t) = Len(s) + 1
        /\ DOMAIN t = 1..(Len(s) + 1) /\ t[Len(s) + 1] = e
        /\ \A n \in 1..Len(s) : t[n] = s[n]
    BY <1>1, <1>2
  <1> HIDE DEF t
  <1>4. \A n \in 1..Len(t) : t[n] \in Range(t)
    BY <1>3 DEF Range
  <1>5. t \in [1..Len(t) -> Range(t)]
    BY <1>3, <1>4
  <1>6. t \in Seq(Range(t))
    BY <1>3, <1>5, SeqDef
  <1> QED
    BY <1>3, <1>6 DEF t

(***************************************************************************)
(* What the operations on holds carry.                                     *)
(***************************************************************************)
LEMMA OperationFacts ==
    ASSUME NEW op \in Operation
    PROVE  /\ op.op \in {"post", "convert", "authorize", "capture", "void", "expire", "revert"}
           /\ op.op \in HoldOps => op.hold \in Nat \ {0}
           /\ op.op = "capture" => op.amount \in Nat \ {0}
           /\ op.op = "authorize" =>
                 [source |-> op.source, hint |-> op.hint, asset |-> op.asset,
                  authorized |-> op.amount, captured |-> 0,
                  voided |-> FALSE, expired |-> FALSE] \in Hold
  <1>1. CASE op \in Post
    BY <1>1 DEF Post, HoldOps
  <1>2. CASE op \in Convert
    BY <1>2 DEF Convert, HoldOps
  <1>3. CASE op \in Authorize
    BY <1>3 DEF Authorize, HoldOps, Hold, Amount
  <1>4. CASE op \in Capture
    BY <1>4 DEF Capture, HoldOps, Amount
  <1>5. CASE op \in CloseHold
    BY <1>5 DEF CloseHold, HoldOps, Amount
  <1>6. CASE op \in Revert
    BY <1>6 DEF Revert, HoldOps
  <1> QED
    BY <1>1, <1>2, <1>3, <1>4, <1>5, <1>6 DEF Operation

(***************************************************************************)
(* Sums over sequences.  The recursive definition has a solution, so it is *)
(* one.                                                                    *)
(***************************************************************************)
LEMMA SumUpToDef ==
    ASSUME NEW s, Len(s) \in Nat
    PROVE  /\ SumUpTo(s)[0] = 0
           /\ \A n \in 1..Len(s) : SumUpTo(s)[n] = SumUpTo(s)[n - 1] + s[n]
  <1> DEFINE Sol(f, m) == f = [n \in 0..m |-> IF n = 0 THEN 0 ELSE f[n - 1] + s[n]]
             S == {m \in Nat : \E f : Sol(f, m)}
  <1>1. 0 \in S
    <2> DEFINE f == [n \in 0..0 |-> 0]
    <2>1. Sol(f, 0)
      OBVIOUS
    <2> QED
      BY <2>1
  <1>2. ASSUME NEW m \in Nat, m \in S PROVE m + 1 \in S
    <2>1. PICK f : Sol(f, m)
      BY <1>2
    <2> DEFINE g == [n \in 0..(m + 1) |-> IF n <= m THEN f[n] ELSE f[m] + s[m + 1]]
    <2>2. f[0] = 0 /\ \A n \in 1..m : f[n] = f[n - 1] + s[n]
      BY <2>1
    <2>3. /\ g[0] = f[0] /\ \A n \in 0..m : g[n] = f[n]
          /\ g[m + 1] = f[m] + s[m + 1]
      OBVIOUS
    <2>4. \A n \in 0..(m + 1) : g[n] = IF n = 0 THEN 0 ELSE g[n - 1] + s[n]
      BY <2>2, <2>3
    <2>5. Sol(g, m + 1) /\ m + 1 \in Nat
      BY <2>4
    <2> HIDE DEF Sol, g
    <2> QED
      BY <2>5
  <1>3. Len(s) \in S
    <2> HIDE DEF S
    <2> QED
      BY <1>1, <1>2, NumbersByInduction
  <1>4. Sol(SumUpTo(s), Len(s))
    <2>1. SumUpTo(s) = CHOOSE f : Sol(f, Len(s))
      BY DEF SumUpTo
    <2>2. \E f : Sol(f, Len(s))
      BY <1>3
    <2> HIDE DEF Sol
    <2> QED
      BY <2>1, <2>2, Zenon
  <1> QED
    BY <1>4

(***************************************************************************)
(* The sum of a sequence that continues another by one number.             *)
(***************************************************************************)
LEMMA TotalOfLonger ==
    ASSUME NEW s, NEW t, Len(s) \in Nat, Len(t) = Len(s) + 1,
           \A n \in 1..Len(s) : t[n] = s[n]
    PROVE  Total(t) = Total(s) + t[Len(s) + 1]
  <1> DEFINE f == SumUpTo(s)
             g == SumUpTo(t)
             S == {n \in Nat : n <= Len(s) => g[n] = f[n]}
  <1>1. f[0] = 0 /\ \A n \in 1..Len(s) : f[n] = f[n - 1] + s[n]
    BY SumUpToDef
  <1>2. g[0] = 0 /\ \A n \in 1..(Len(s) + 1) : g[n] = g[n - 1] + t[n]
    BY SumUpToDef
  <1> HIDE DEF f, g
  <1>3. 0 \in S
    BY <1>1, <1>2
  <1>4. \A n \in Nat : n \in S => n + 1 \in S
    BY <1>1, <1>2
  <1>5. Len(s) \in S
    <2> HIDE DEF S
    <2> QED
      BY <1>3, <1>4, NumbersByInduction
  <1>6. g[Len(s) + 1] = f[Len(s)] + t[Len(s) + 1]
    BY <1>2, <1>5
  <1> QED
    BY <1>6 DEF Total, f, g

(***************************************************************************)
(* The sum of nothing but zeros.                                           *)
(***************************************************************************)
LEMMA TotalOfZeros ==
    ASSUME NEW s, Len(s) \in Nat, \A n \in 1..Len(s) : s[n] = 0
    PROVE  Total(s) = 0
  <1> DEFINE f == SumUpTo(s)
             S == {n \in Nat : n <= Len(s) => f[n] = 0}
  <1>1. f[0] = 0 /\ \A n \in 1..Len(s) : f[n] = f[n - 1] + s[n]
    BY SumUpToDef
  <1> HIDE DEF f
  <1>2. 0 \in S
    BY <1>1
  <1>3. \A n \in Nat : n \in S => n + 1 \in S
    BY <1>1
  <1>4. Len(s) \in S
    <2> HIDE DEF S
    <2> QED
      BY <1>2, <1>3, NumbersByInduction
  <1> QED
    BY <1>4 DEF Total, f

(***************************************************************************)
(* The sum of natural numbers is one.                                      *)
(***************************************************************************)
LEMMA TotalOfNaturals ==
    ASSUME NEW s, Len(s) \in Nat, \A n \in 1..Len(s) : s[n] \in Nat
    PROVE  Total(s) \in Nat
  <1> DEFINE f == SumUpTo(s)
             S == {n \in Nat : n <= Len(s) => f[n] \in Nat}
  <1>1. f[0] = 0 /\ \A n \in 1..Len(s) : f[n] = f[n - 1] + s[n]
    BY SumUpToDef
  <1> HIDE DEF f
  <1>2. 0 \in S
    BY <1>1
  <1>3. \A n \in Nat : n \in S => n + 1 \in S
    BY <1>1
  <1>4. Len(s) \in S
    <2> HIDE DEF S
    <2> QED
      BY <1>2, <1>3, NumbersByInduction
  <1> QED
    BY <1>4 DEF Total, f

(***************************************************************************)
(* Changing one summand changes the sum by as much.                        *)
(***************************************************************************)
LEMMA TotalWithChange ==
    ASSUME NEW s, NEW t, Len(s) \in Nat, Len(t) = Len(s), NEW k \in 1..Len(s),
           \A n \in 1..Len(s) : s[n] \in Nat /\ t[n] \in Nat,
           \A n \in 1..Len(s) : n # k => t[n] = s[n]
    PROVE  Total(t) = Total(s) - s[k] + t[k]
  <1> DEFINE f == SumUpTo(s)
             g == SumUpTo(t)
             S == {n \in Nat : n <= Len(s) =>
                     /\ f[n] \in Nat /\ g[n] \in Nat
                     /\ g[n] = IF n < k THEN f[n] ELSE f[n] - s[k] + t[k]}
  <1>1. f[0] = 0 /\ \A n \in 1..Len(s) : f[n] = f[n - 1] + s[n]
    BY SumUpToDef
  <1>2. g[0] = 0 /\ \A n \in 1..Len(s) : g[n] = g[n - 1] + t[n]
    BY SumUpToDef
  <1> HIDE DEF f, g
  <1>3. 0 \in S
    BY <1>1, <1>2
  <1>4. ASSUME NEW n \in Nat, n \in S PROVE n + 1 \in S
    <2> SUFFICES ASSUME n + 1 <= Len(s)
                 PROVE  /\ f[n + 1] \in Nat /\ g[n + 1] \in Nat
                        /\ g[n + 1] = IF n + 1 < k THEN f[n + 1] ELSE f[n + 1] - s[k] + t[k]
      OBVIOUS
    <2>1. /\ f[n] \in Nat /\ g[n] \in Nat
          /\ g[n] = IF n < k THEN f[n] ELSE f[n] - s[k] + t[k]
      BY <1>4
    <2>2. /\ f[n + 1] = f[n] + s[n + 1] /\ g[n + 1] = g[n] + t[n + 1]
          /\ s[n + 1] \in Nat /\ t[n + 1] \in Nat /\ s[k] \in Nat /\ t[k] \in Nat
      BY <1>1, <1>2
    <2>3. n + 1 # k => t[n + 1] = s[n + 1]
      OBVIOUS
    <2> QED
      BY <2>1, <2>2, <2>3, SMTT(30)
  <1>5. Len(s) \in S
    <2> HIDE DEF S
    <2> QED
      BY <1>3, <1>4, NumbersByInduction
  <1> QED
    BY <1>5 DEF Total, f, g

(***************************************************************************)
(* A function on 1..N as a sequence.                                       *)
(***************************************************************************)
LEMMA LenOfFunction ==
    ASSUME NEW f, NEW N \in Nat, DOMAIN f = 1..N, f = [n \in 1..N |-> f[n]]
    PROVE  Len(f) = N
  <1>1. f \in [1..N -> Range(f)]
    BY DEF Range
  <1>2. f \in Seq(Range(f))
    BY <1>1, SeqDef
  <1> QED
    BY <1>2

(***************************************************************************)
(* What is captured by a log, and by a log with one more event.            *)
(***************************************************************************)
LEMMA CapturedAppend ==
    ASSUME NEW log, log \in Seq(Range(log)), NEW e, NEW h
    PROVE  CapturedInLog(Append(log, e), h) = CapturedInLog(log, h) + CapturedBy(e, h)
  <1> DEFINE t == Append(log, e)
             f == [n \in DOMAIN log |-> CapturedBy(log[n], h)]
             g == [n \in DOMAIN t |-> CapturedBy(t[n], h)]
  <1>1. /\ Len(log) \in Nat /\ DOMAIN log = 1..Len(log)
        /\ DOMAIN t = 1..(Len(log) + 1) /\ t[Len(log) + 1] = e
        /\ \A n \in 1..Len(log) : t[n] = log[n]
    BY AppendFacts
  <1> HIDE DEF t
  <1>2. /\ DOMAIN f = 1..Len(log) /\ f = [n \in 1..Len(log) |-> f[n]]
        /\ DOMAIN g = 1..(Len(log) + 1) /\ g = [n \in 1..(Len(log) + 1) |-> g[n]]
        /\ g[Len(log) + 1] = CapturedBy(e, h)
        /\ \A n \in 1..Len(log) : g[n] = f[n]
    BY <1>1
  <1>3. CapturedInLog(log, h) = Total(f) /\ CapturedInLog(t, h) = Total(g)
    BY DEF CapturedInLog
  <1> HIDE DEF f, g
  <1>4. Len(f) = Len(log) /\ Len(g) = Len(log) + 1
    BY <1>1, <1>2, LenOfFunction
  <1>5. /\ Len(f) \in Nat /\ Len(g) = Len(f) + 1 /\ g[Len(f) + 1] = CapturedBy(e, h)
        /\ \A n \in 1..Len(f) : g[n] = f[n]
    BY <1>1, <1>2, <1>4
  <1>6. Total(g) = Total(f) + g[Len(f) + 1]
    BY <1>5, TotalOfLonger, Zenon
  <1> QED
    BY <1>3, <1>5, <1>6 DEF t

(***************************************************************************)
(* A hold without events has captured nothing.                             *)
(***************************************************************************)
LEMMA NothingCaptured ==
    ASSUME NEW log, log \in Seq(Range(log)), NEW h, \A n \in DOMAIN log : log[n].hold # h
    PROVE  CapturedInLog(log, h) = 0
  <1> DEFINE f == [n \in DOMAIN log |-> CapturedBy(log[n], h)]
  <1>1. Len(log) \in Nat /\ DOMAIN log = 1..Len(log)
    OBVIOUS
  <1>2. \A n \in DOMAIN log : CapturedBy(log[n], h) = 0
    BY DEF CapturedBy
  <1>3. /\ DOMAIN f = 1..Len(log) /\ f = [n \in 1..Len(log) |-> f[n]]
        /\ \A n \in 1..Len(log) : f[n] = 0
    BY <1>1, <1>2
  <1>4. CapturedInLog(log, h) = Total(f)
    BY DEF CapturedInLog
  <1> HIDE DEF f
  <1>5. Len(f) = Len(log)
    BY <1>1, <1>3, LenOfFunction
  <1> QED
    BY <1>1, <1>3, <1>4, <1>5, TotalOfZeros

(***************************************************************************)
(* The same for the balances.                                              *)
(***************************************************************************)
LEMMA VolumesUpToDef ==
    ASSUME NEW log, Len(log) \in Nat
    PROVE  /\ VolumesUpTo(log)[0] = EmptyDatabase.volumes
           /\ \A n \in 1..Len(log) :
                 VolumesUpTo(log)[n] = Moved(VolumesUpTo(log)[n - 1], log[n].postings)
  <1> DEFINE zero == EmptyDatabase.volumes
             Sol(f, m) == f = [n \in 0..m |-> IF n = 0 THEN zero ELSE Moved(f[n - 1], log[n].postings)]
             S == {m \in Nat : \E f : Sol(f, m)}
  <1> HIDE DEF zero
  <1>1. 0 \in S
    <2> DEFINE f == [n \in 0..0 |-> zero]
    <2>1. Sol(f, 0)
      OBVIOUS
    <2> QED
      BY <2>1
  <1>2. ASSUME NEW m \in Nat, m \in S PROVE m + 1 \in S
    <2>1. PICK f : Sol(f, m)
      BY <1>2
    <2> DEFINE g == [n \in 0..(m + 1) |-> IF n <= m THEN f[n] ELSE Moved(f[m], log[m + 1].postings)]
    <2>2. /\ f[0] = zero
          /\ \A n \in 1..m : f[n] = Moved(f[n - 1], log[n].postings)
      BY <2>1
    <2>3. /\ g[0] = f[0] /\ \A n \in 0..m : g[n] = f[n]
          /\ g[m + 1] = Moved(f[m], log[m + 1].postings)
      OBVIOUS
    <2>4. \A n \in 0..(m + 1) : g[n] = IF n = 0 THEN zero ELSE Moved(g[n - 1], log[n].postings)
      BY <2>2, <2>3
    <2>5. Sol(g, m + 1) /\ m + 1 \in Nat
      BY <2>4
    <2> HIDE DEF Sol, g
    <2> QED
      BY <2>5
  <1>3. Len(log) \in S
    <2> HIDE DEF S
    <2> QED
      BY <1>1, <1>2, NumbersByInduction
  <1>4. Sol(VolumesUpTo(log), Len(log))
    <2>1. VolumesUpTo(log) = CHOOSE f : Sol(f, Len(log))
      BY DEF VolumesUpTo, zero
    <2>2. \E f : Sol(f, Len(log))
      BY <1>3
    <2> HIDE DEF Sol
    <2> QED
      BY <2>1, <2>2, Zenon
  <1> QED
    BY <1>4 DEF zero

(***************************************************************************)
(* The balances after one more event.                                      *)
(***************************************************************************)
LEMMA VolumesAppend ==
    ASSUME NEW log, log \in Seq(Range(log)), NEW e
    PROVE  VolumesInLog(Append(log, e)) = Moved(VolumesInLog(log), e.postings)
  <1> DEFINE t == Append(log, e)
             f == VolumesUpTo(log)
             g == VolumesUpTo(t)
             S == {n \in Nat : n <= Len(log) => g[n] = f[n]}
  <1>1. /\ Len(log) \in Nat /\ Len(t) = Len(log) + 1 /\ t[Len(log) + 1] = e
        /\ \A n \in 1..Len(log) : t[n] = log[n]
    BY AppendFacts
  <1> HIDE DEF t
  <1>2. /\ f[0] = EmptyDatabase.volumes
        /\ \A n \in 1..Len(log) : f[n] = Moved(f[n - 1], log[n].postings)
    BY <1>1, VolumesUpToDef
  <1>3. /\ g[0] = EmptyDatabase.volumes
        /\ \A n \in 1..(Len(log) + 1) : g[n] = Moved(g[n - 1], t[n].postings)
    BY <1>1, VolumesUpToDef
  <1> HIDE DEF f, g
  <1>4. 0 \in S
    BY <1>2, <1>3
  <1>5. \A n \in Nat : n \in S => n + 1 \in S
    BY <1>1, <1>2, <1>3
  <1>6. Len(log) \in S
    <2> HIDE DEF S
    <2> QED
      BY <1>1, <1>4, <1>5, NumbersByInduction
  <1>7. g[Len(log) + 1] = Moved(f[Len(log)], e.postings)
    BY <1>1, <1>3, <1>6
  <1> QED
    BY <1>1, <1>7 DEF VolumesInLog, f, g, t

(***************************************************************************)
(* Tables without a row are sound.                                         *)
(***************************************************************************)
LEMMA EmptyIsSound == Sound(EmptyDatabase)
  <1>1. EmptyDatabase.holds = <<>> /\ EmptyDatabase.log = <<>>
    BY DEF EmptyDatabase
  <1>2. <<>> \in Seq(Hold) /\ <<>> \in Seq(Range(<<>>)) /\ DOMAIN <<>> = {}
    OBVIOUS
  <1>3. VolumesInLog(<<>>) = EmptyDatabase.volumes
    BY VolumesUpToDef DEF VolumesInLog
  <1> HIDE DEF EmptyDatabase
  <1> QED
    BY <1>1, <1>2, <1>3 DEF Sound, HoldsFollowLog, AmountsFollowLog

(***************************************************************************)
(* What an operation does to the holds and to the log.                     *)
(***************************************************************************)
LEMMA ApplyEffect ==
    ASSUME NEW op \in Operation, NEW d
    PROVE  /\ Apply(op, d).holds = HoldsAfter(op, d)
           /\ Apply(op, d).volumes = Moved(d.volumes, PostingsOf(op, d))
           /\ \E e : /\ Apply(op, d).log = Append(d.log, e)
                     /\ e.op = op.op
                     /\ e.postings = PostingsOf(op, d)
                     /\ e.hold = IF op.op \in HoldOps THEN op.hold
                                 ELSE IF op.op = "authorize" THEN Len(d.holds) + 1 ELSE 0
  <1> DEFINE e == [op |-> op.op,
                   hold |-> CASE op.op \in {"capture", "void", "expire"} -> op.hold
                              [] op.op = "authorize" -> Len(d.holds) + 1
                              [] OTHER -> 0,
                   postings |-> PostingsOf(op, d)]
  <1>1. /\ Apply(op, d).holds = HoldsAfter(op, d)
        /\ Apply(op, d).volumes = Moved(d.volumes, PostingsOf(op, d))
        /\ Apply(op, d).log = Append(d.log, e)
    BY DEF Apply
  <1>2. /\ e.op = op.op
        /\ e.postings = PostingsOf(op, d)
        /\ e.hold = IF op.op \in HoldOps THEN op.hold
                    ELSE IF op.op = "authorize" THEN Len(d.holds) + 1 ELSE 0
    BY OperationFacts DEF HoldOps
  <1> HIDE DEF e
  <1> QED
    BY <1>1, <1>2

(***************************************************************************)
(* Appending an event of hold k, or of none, leaves the events of the      *)
(* other holds alone.                                                      *)
(***************************************************************************)
LEMMA EventsAfter ==
    ASSUME NEW log, log \in Seq(Range(log)), NEW e, NEW h
    PROVE  /\ e.hold = h => EventsOf(Append(log, e), h) = EventsOf(log, h) \cup {Len(log) + 1}
           /\ e.hold # h => EventsOf(Append(log, e), h) = EventsOf(log, h)
  <1> DEFINE N == Len(log) + 1
             t == Append(log, e)
  <1>1. /\ Len(log) \in Nat /\ DOMAIN log = 1..Len(log)
        /\ DOMAIN t = 1..N /\ t[N] = e /\ \A n \in 1..Len(log) : t[n] = log[n]
    BY AppendFacts
  <1> HIDE DEF t
  <1>2. 1..N = (1..Len(log)) \cup {N}
    BY <1>1
  <1>3. /\ EventsOf(t, h) = {n \in 1..N : t[n].hold = h}
        /\ EventsOf(log, h) = {n \in 1..Len(log) : log[n].hold = h}
    BY <1>1 DEF EventsOf
  <1>4. ASSUME e.hold = h PROVE EventsOf(t, h) = EventsOf(log, h) \cup {N}
    BY <1>1, <1>2, <1>3, <1>4
  <1>5. ASSUME e.hold # h PROVE EventsOf(t, h) = EventsOf(log, h)
    BY <1>1, <1>2, <1>3, <1>5
  <1> QED
    BY <1>4, <1>5 DEF t

(***************************************************************************)
(* The places of a log with one more event.                                *)
(***************************************************************************)
LEMMA DomainSplit == \A N \in Nat : \A n \in 1..(N + 1) : n \in 1..N \/ n = N + 1
  OBVIOUS

(***************************************************************************)
(* An operation whose hold, if it works on one, allows it, leaves the      *)
(* holds and their events in order.  This is where the guards of           *)
(* doCaptureInTx, doVoidInTx and the sweep are needed.                     *)
(***************************************************************************)
LEMMA ApplyHolds ==
    ASSUME NEW op \in Operation, NEW d, Sound(d),
           op.op \in HoldOps => HoldAllows(op, d)
    PROVE  /\ Apply(op, d).holds \in Seq(Hold)
           /\ Apply(op, d).log \in Seq(Range(Apply(op, d).log))
           /\ HoldsFollowLog(Apply(op, d))
  <1> DEFINE a == Apply(op, d)
             N == Len(d.log) + 1
  <1>1. d.holds \in Seq(Hold) /\ d.log \in Seq(Range(d.log)) /\ HoldsFollowLog(d)
    BY DEF Sound
  <1>2. a.holds = HoldsAfter(op, d)
    BY ApplyEffect
  <1>3. PICK e : /\ a.log = Append(d.log, e)
                 /\ e.op = op.op
                 /\ e.hold = IF op.op \in HoldOps THEN op.hold
                             ELSE IF op.op = "authorize" THEN Len(d.holds) + 1 ELSE 0
    BY ApplyEffect
  <1> HIDE DEF a
  <1>4. /\ a.log \in Seq(Range(a.log)) /\ Len(d.log) \in Nat
        /\ DOMAIN d.log = 1..Len(d.log)
        /\ DOMAIN a.log = 1..N /\ a.log[N] = e
        /\ \A n \in 1..Len(d.log) : a.log[n] = d.log[n]
    BY <1>1, <1>3, AppendFacts
  <1>5. \A h : /\ e.hold = h => EventsOf(a.log, h) = EventsOf(d.log, h) \cup {N}
               /\ e.hold # h => EventsOf(a.log, h) = EventsOf(d.log, h)
               /\ \A n \in EventsOf(d.log, h) : n \in 1..Len(d.log) /\ a.log[n] = d.log[n]
    <2>1. d.log \in Seq(Range(d.log)) /\ a.log = Append(d.log, e)
      BY <1>1, <1>3
    <2> TAKE h
    <2>2. e.hold = h => EventsOf(a.log, h) = EventsOf(d.log, h) \cup {N}
      BY <2>1, EventsAfter, SMTT(30)
    <2>3. e.hold # h => EventsOf(a.log, h) = EventsOf(d.log, h)
      BY <2>1, EventsAfter
    <2>4. \A n \in EventsOf(d.log, h) : n \in 1..Len(d.log) /\ a.log[n] = d.log[n]
      <3>1. \A n \in EventsOf(d.log, h) : n \in DOMAIN d.log
        BY Zenon DEF EventsOf
      <3> QED
        BY <1>4, <3>1, Zenon
    <2> QED
      BY <2>2, <2>3, <2>4
  <1>6. /\ Len(d.holds) \in Nat /\ DOMAIN d.holds = 1..Len(d.holds)
        /\ \A h \in DOMAIN d.holds : d.holds[h] \in Hold
    BY <1>1
  \* A hold that e is not about is what it was.
  <1>7. ASSUME NEW h \in DOMAIN d.holds, e.hold # h, a.holds[h] = d.holds[h]
        PROVE  /\ a.holds[h].captured <= a.holds[h].authorized
               /\ a.holds[h].voided <=> \E n \in EventsOf(a.log, h) : a.log[n].op = "void"
               /\ a.holds[h].expired <=> \E n \in EventsOf(a.log, h) : a.log[n].op = "expire"
               /\ \A m, n \in EventsOf(a.log, h) : m < n => a.log[m].op \notin {"void", "expire"}
    <2>1. /\ d.holds[h].captured <= d.holds[h].authorized
          /\ d.holds[h].voided <=> \E n \in EventsOf(d.log, h) : d.log[n].op = "void"
          /\ d.holds[h].expired <=> \E n \in EventsOf(d.log, h) : d.log[n].op = "expire"
          /\ \A m, n \in EventsOf(d.log, h) : m < n => d.log[m].op \notin {"void", "expire"}
      BY <1>1, Zenon DEF HoldsFollowLog
    <2>2. EventsOf(a.log, h) = EventsOf(d.log, h)
      BY <1>5, <1>7, Zenon
    <2>3. \A n \in EventsOf(d.log, h) : a.log[n] = d.log[n]
      BY <1>5, Zenon
    <2> QED
      BY <1>7, <2>1, <2>2, <2>3, Zenon
  <1>8. CASE op.op \notin HoldOps \cup {"authorize"}
    <2>1. a.holds = d.holds /\ e.hold = 0
      BY <1>2, <1>3, <1>8, OperationFacts DEF HoldsAfter, HoldOps
    <2>2. \A n \in DOMAIN a.log : a.log[n].hold \in 0..Len(a.holds)
      <3>1. \A n \in 1..Len(d.log) : d.log[n].hold \in 0..Len(a.holds)
        BY <1>1, <1>4, <2>1 DEF HoldsFollowLog
      <3>2. e.hold \in 0..Len(a.holds)
        BY <1>6, <2>1
      <3> QED
        BY <1>4, <3>1, <3>2, DomainSplit, Zenon
    <2>3. \A h \in DOMAIN a.holds : h \in DOMAIN d.holds /\ e.hold # h /\ a.holds[h] = d.holds[h]
      BY <1>6, <2>1
    <2>4. HoldsFollowLog(a)
      BY <1>7, <2>2, <2>3 DEF HoldsFollowLog
    <2> QED
      BY <1>1, <1>4, <2>1, <2>4 DEF a
  <1>9. CASE op.op = "authorize"
    <2> DEFINE new == [source |-> op.source, hint |-> op.hint, asset |-> op.asset,
                       authorized |-> op.amount, captured |-> 0,
                       voided |-> FALSE, expired |-> FALSE]
               k == Len(d.holds) + 1
    <2>1. new \in Hold /\ op.op \notin HoldOps
      BY <1>9, OperationFacts DEF HoldOps
    <2>2. a.holds = Append(d.holds, new) /\ e.hold = k
      BY <1>2, <1>3, <1>9, <2>1 DEF HoldsAfter
    <2>3. new.captured = 0 /\ new.authorized \in Nat /\ ~new.voided /\ ~new.expired
      BY <2>1 DEF Hold, Amount
    <2> HIDE DEF new
    <2>4. /\ a.holds \in Seq(Hold) /\ Len(a.holds) = k /\ DOMAIN a.holds = DOMAIN d.holds \cup {k}
          /\ a.holds[k] = new /\ \A h \in DOMAIN d.holds : h # k /\ a.holds[h] = d.holds[h]
      BY <1>1, <1>6, <2>1, <2>2
    <2>5. \A n \in DOMAIN a.log : a.log[n].hold \in 0..Len(a.holds)
      <3>1. \A n \in 1..Len(d.log) : a.log[n].hold \in 0..Len(d.holds)
        BY <1>1, <1>4 DEF HoldsFollowLog
      <3>2. a.log[N].hold = k
        BY <1>4, <2>2
      <3>3. Len(a.holds) = k /\ DOMAIN a.log = (1..Len(d.log)) \cup {N}
        BY <1>4, <2>4
      <3> HIDE DEF N
      <3> QED
        BY <1>6, <3>1, <3>2, <3>3
    <2>6. EventsOf(d.log, k) = {}
      BY <1>1, <1>4, <1>6 DEF HoldsFollowLog, EventsOf
    <2>7. EventsOf(a.log, k) = {N} /\ a.log[N].op = "authorize"
      BY <1>3, <1>4, <1>5, <1>9, <2>2, <2>6
    <2>8. HoldsFollowLog(a)
      <3> SUFFICES ASSUME NEW h \in DOMAIN a.holds
                   PROVE  /\ a.holds[h].captured <= a.holds[h].authorized
                          /\ a.holds[h].voided <=> \E n \in EventsOf(a.log, h) : a.log[n].op = "void"
                          /\ a.holds[h].expired <=> \E n \in EventsOf(a.log, h) : a.log[n].op = "expire"
                          /\ \A m, n \in EventsOf(a.log, h) :
                                m < n => a.log[m].op \notin {"void", "expire"}
        BY <2>5 DEF HoldsFollowLog
      <3>1. CASE h = k
        BY <2>3, <2>4, <2>7, <3>1
      <3>2. CASE h # k
        BY <1>7, <2>2, <2>4, <3>2
      <3> QED
        BY <3>1, <3>2
    <2> QED
      BY <1>4, <2>4, <2>8 DEF a
  <1>10. CASE op.op \in HoldOps
    <2> DEFINE k == op.hold
    <2>1. /\ k \in DOMAIN d.holds /\ OpenHold(d.holds[k])
          /\ op.op = "capture" => /\ op.amount \in Nat
                                  /\ op.amount <= d.holds[k].authorized - d.holds[k].captured
      BY <1>10, OperationFacts DEF HoldAllows
    <2>2. e.hold = k
      BY <1>3, <1>10
    <2>3. /\ a.holds \in Seq(Hold) /\ Len(a.holds) = Len(d.holds) /\ DOMAIN a.holds = DOMAIN d.holds
          /\ \A h \in DOMAIN d.holds \ {k} : a.holds[h] = d.holds[h]
          /\ a.holds[k].captured <= a.holds[k].authorized
          /\ a.holds[k].voided <=> op.op = "void"
          /\ a.holds[k].expired <=> op.op = "expire"
      <3>1. /\ d.holds[k].captured \in Nat /\ d.holds[k].authorized \in Nat
            /\ d.holds[k].captured <= d.holds[k].authorized
            /\ ~d.holds[k].voided /\ ~d.holds[k].expired
        BY <1>1, <1>6, <2>1 DEF HoldsFollowLog, Hold, Amount, OpenHold
      <3>2. CASE op.op = "capture"
        <4> DEFINE x == d.holds[k].captured + op.amount
        <4>1. a.holds = [d.holds EXCEPT ![k] = [d.holds[k] EXCEPT !.captured = x]]
          BY <1>2, <2>1, <3>2 DEF HoldsAfter
        <4>2. x \in Nat /\ x <= d.holds[k].authorized
          BY <2>1, <3>1, <3>2
        <4> HIDE DEF x
        <4>3. [d.holds[k] EXCEPT !.captured = x] \in Hold
          BY <1>6, <2>1, <4>2 DEF Hold
        <4> QED
          BY <1>1, <1>6, <2>1, <3>1, <3>2, <4>1, <4>2, <4>3, SMTT(30) DEF Hold
      <3>3. CASE op.op = "void"
        <4>1. a.holds = [d.holds EXCEPT ![k] = [@ EXCEPT !.voided = TRUE]]
          BY <1>2, <3>3 DEF HoldsAfter
        <4>2. [d.holds[k] EXCEPT !.voided = TRUE] \in Hold
          BY <1>6, <2>1 DEF Hold
        <4> QED
          BY <1>1, <1>6, <2>1, <3>1, <3>3, <4>1, <4>2 DEF Hold
      <3>4. CASE op.op = "expire"
        <4>1. a.holds = [d.holds EXCEPT ![k] = [@ EXCEPT !.expired = TRUE]]
          BY <1>2, <3>4 DEF HoldsAfter
        <4>2. [d.holds[k] EXCEPT !.expired = TRUE] \in Hold
          BY <1>6, <2>1 DEF Hold
        <4> QED
          BY <1>1, <1>6, <2>1, <3>1, <3>4, <4>1, <4>2 DEF Hold
      <3> QED
        BY <1>10, <3>2, <3>3, <3>4 DEF HoldOps
    <2>4. \A n \in DOMAIN a.log : a.log[n].hold \in 0..Len(a.holds)
      <3>1. \A n \in 1..Len(d.log) : d.log[n].hold \in 0..Len(d.holds)
        BY <1>1, <1>4 DEF HoldsFollowLog
      <3>2. e.hold \in 0..Len(d.holds)
        BY <1>6, <2>1, <2>2
      <3>3. Len(a.holds) = Len(d.holds)
        BY <2>3
      <3> QED
        BY <1>4, <3>1, <3>2, <3>3, DomainSplit, Zenon
    <2>5. \A n \in EventsOf(d.log, k) : d.log[n].op \notin {"void", "expire"}
      BY <1>1, <2>1 DEF HoldsFollowLog, OpenHold
    <2>6. /\ EventsOf(a.log, k) = EventsOf(d.log, k) \cup {N}
          /\ a.log[N].op = op.op
          /\ \A n \in EventsOf(d.log, k) : n \in Nat /\ n < N /\ a.log[n].op \notin {"void", "expire"}
      <3>1. EventsOf(a.log, k) = EventsOf(d.log, k) \cup {N} /\ a.log[N].op = op.op
        BY <1>3, <1>4, <1>5, <2>2, Zenon
      <3>2. \A n \in EventsOf(d.log, k) : n \in 1..Len(d.log) /\ a.log[n] = d.log[n]
        BY <1>5, Zenon
      <3> QED
        BY <1>4, <2>5, <3>1, <3>2
    <2>7. HoldsFollowLog(a)
      <3> SUFFICES ASSUME NEW h \in DOMAIN a.holds
                   PROVE  /\ a.holds[h].captured <= a.holds[h].authorized
                          /\ a.holds[h].voided <=> \E n \in EventsOf(a.log, h) : a.log[n].op = "void"
                          /\ a.holds[h].expired <=> \E n \in EventsOf(a.log, h) : a.log[n].op = "expire"
                          /\ \A m, n \in EventsOf(a.log, h) :
                                m < n => a.log[m].op \notin {"void", "expire"}
        BY <2>4 DEF HoldsFollowLog
      <3>1. CASE h = k
        <4>1. \A m, n \in EventsOf(a.log, k) : m < n => m # N
          BY <1>4, <2>6
        <4> QED
          BY <2>3, <2>6, <3>1, <4>1
      <3>2. CASE h # k
        BY <1>7, <2>2, <2>3, <3>2
      <3> QED
        BY <3>1, <3>2
    <2> QED
      BY <1>4, <2>3, <2>7 DEF a
  <1> QED
    BY <1>8, <1>9, <1>10

(***************************************************************************)
(* What an operation moves and captures is what its event says it does.    *)
(***************************************************************************)
LEMMA ApplyAmounts ==
    ASSUME NEW op \in Operation, NEW d, Sound(d),
           op.op \in HoldOps => HoldAllows(op, d)
    PROVE  AmountsFollowLog(Apply(op, d))
  <1> DEFINE a == Apply(op, d)
             ps == PostingsOf(op, d)
  <1>1. /\ d.holds \in Seq(Hold) /\ d.log \in Seq(Range(d.log))
        /\ HoldsFollowLog(d) /\ AmountsFollowLog(d)
    BY DEF Sound
  <1>2. a.holds = HoldsAfter(op, d) /\ a.volumes = Moved(d.volumes, ps)
    BY ApplyEffect
  <1>3. PICK e : /\ a.log = Append(d.log, e)
                 /\ e.op = op.op
                 /\ e.postings = ps
                 /\ e.hold = IF op.op \in HoldOps THEN op.hold
                             ELSE IF op.op = "authorize" THEN Len(d.holds) + 1 ELSE 0
    BY ApplyEffect
  <1> HIDE DEF a
  <1>4. a.volumes = VolumesInLog(a.log)
    <2>1. VolumesInLog(a.log) = Moved(VolumesInLog(d.log), ps)
      BY <1>1, <1>3, VolumesAppend
    <2> QED
      BY <1>1, <1>2, <2>1 DEF AmountsFollowLog
  <1>5. \A h : CapturedInLog(a.log, h) = CapturedInLog(d.log, h) + CapturedBy(e, h)
    BY <1>1, <1>3, CapturedAppend
  <1>6. /\ Len(d.holds) \in Nat /\ DOMAIN d.holds = 1..Len(d.holds)
        /\ \A h \in DOMAIN d.holds :
              d.holds[h] \in Hold /\ d.holds[h].captured \in Nat
              /\ d.holds[h].captured = CapturedInLog(d.log, h)
    <2>1. /\ Len(d.holds) \in Nat /\ DOMAIN d.holds = 1..Len(d.holds)
          /\ \A h \in DOMAIN d.holds : d.holds[h] \in Hold
      BY <1>1
    <2>2. \A h \in DOMAIN d.holds : d.holds[h].captured \in Nat
      BY <2>1 DEF Hold
    <2>3. \A h \in DOMAIN d.holds : d.holds[h].captured = CapturedInLog(d.log, h)
      BY <1>1 DEF AmountsFollowLog
    <2> QED
      BY <2>1, <2>2, <2>3
  <1> SUFFICES ASSUME NEW h \in DOMAIN a.holds
               PROVE  a.holds[h].captured = CapturedInLog(a.log, h)
    BY <1>4 DEF AmountsFollowLog, a
  \* A hold that nothing is captured from.
  <1>7. ASSUME h \in DOMAIN d.holds, a.holds[h].captured = d.holds[h].captured,
               e.op # "capture" \/ e.hold # h
        PROVE  a.holds[h].captured = CapturedInLog(a.log, h)
    <2>1. CapturedBy(e, h) = 0
      BY <1>7 DEF CapturedBy
    <2> QED
      BY <1>5, <1>6, <1>7, <2>1
  <1>8. CASE op.op \notin HoldOps \cup {"authorize"}
    <2>1. a.holds = d.holds
      BY <1>2, <1>8, OperationFacts DEF HoldsAfter, HoldOps
    <2>2. e.op # "capture"
      BY <1>3, <1>8 DEF HoldOps
    <2> QED
      BY <1>7, <2>1, <2>2
  <1>9. CASE op.op = "authorize"
    <2> DEFINE new == [source |-> op.source, hint |-> op.hint, asset |-> op.asset,
                       authorized |-> op.amount, captured |-> 0,
                       voided |-> FALSE, expired |-> FALSE]
               k == Len(d.holds) + 1
    <2>1. new \in Hold /\ new.captured = 0
      BY <1>9, OperationFacts
    <2>2. a.holds = Append(d.holds, new) /\ e.op = "authorize"
      BY <1>2, <1>3, <1>9 DEF HoldsAfter
    <2> HIDE DEF new
    <2>3. /\ DOMAIN a.holds = DOMAIN d.holds \cup {k}
          /\ a.holds[k] = new /\ \A i \in DOMAIN d.holds : a.holds[i] = d.holds[i]
      BY <1>1, <1>6, <2>1, <2>2
    <2>4. CASE h \in DOMAIN d.holds
      BY <1>7, <2>2, <2>3, <2>4
    <2>5. CASE h = k
      <3>1. \A n \in DOMAIN d.log : d.log[n].hold # k
        BY <1>1, <1>6 DEF HoldsFollowLog
      <3>2. CapturedInLog(d.log, k) = 0
        BY <1>1, <3>1, NothingCaptured
      <3>3. CapturedBy(e, k) = 0
        BY <2>2 DEF CapturedBy
      <3> QED
        BY <1>5, <2>1, <2>3, <2>5, <3>2, <3>3
    <2> QED
      BY <2>3, <2>4, <2>5
  <1>10. CASE op.op = "capture"
    <2> DEFINE k == op.hold
    <2>1. k \in DOMAIN d.holds /\ op.amount \in Nat /\ e.hold = k /\ e.op = "capture"
      BY <1>3, <1>10, OperationFacts DEF HoldAllows, HoldOps
    <2>2. a.holds = [d.holds EXCEPT ![k].captured = @ + op.amount]
      BY <1>2, <1>10 DEF HoldsAfter
    <2>3. h \in DOMAIN d.holds
      BY <2>2
    <2>4. CASE h # k
      BY <1>7, <2>1, <2>2, <2>3, <2>4
    <2>5. CASE h = k
      <3>1. a.holds[k].captured = d.holds[k].captured + op.amount
        BY <1>6, <2>1, <2>2 DEF Hold
      <3>2. ps[1].amount = op.amount
        BY <1>10 DEF PostingsOf
      <3>3. CapturedBy(e, k) = op.amount
        BY <1>3, <2>1, <3>2 DEF CapturedBy
      <3> QED
        BY <1>5, <1>6, <2>1, <2>5, <3>1, <3>3
    <2> QED
      BY <2>4, <2>5
  <1>11. CASE op.op \in {"void", "expire"}
    <2>1. \/ a.holds = [d.holds EXCEPT ![op.hold].voided = TRUE]
          \/ a.holds = [d.holds EXCEPT ![op.hold].expired = TRUE]
      BY <1>2, <1>11 DEF HoldsAfter
    <2>2. h \in DOMAIN d.holds /\ e.op # "capture"
      BY <1>3, <1>11, <2>1
    <2>3. a.holds[h].captured = d.holds[h].captured
      BY <1>6, <2>1, <2>2 DEF Hold
    <2> QED
      BY <1>7, <2>2, <2>3
  <1> QED
    BY <1>8, <1>9, <1>10, <1>11 DEF HoldOps

\* Every operation, applied, keeps sound data sound; one on a hold needs the hold to allow it.
LEMMA ApplySound ==
    ASSUME NEW op \in Operation, NEW d, Sound(d),
           op.op \in HoldOps => HoldAllows(op, d)
    PROVE  Sound(Apply(op, d))
  BY ApplyHolds, ApplyAmounts DEF Sound

-----------------------------------------------------------------------------
(***************************************************************************)
(* The operation a transaction is at.                                      *)
(***************************************************************************)
LEMMA OpFacts ==
    ASSUME Shape, NEW w \in Workers, worker[w].pc \in {"start", "check", "holds"}
    PROVE  Op(w) \in Operation
  <1>1. worker[w].request \in Request /\ worker[w].pos \in 1..Len(worker[w].request.ops)
    BY BalancesAssumption DEF Shape, WorkerOK
  <1>2. worker[w].request.ops \in Seq(Operation)
    BY <1>1 DEF Request
  <1> QED
    BY <1>1, <1>2 DEF Op

\* An idle worker is as the invariant wants it.
LEMMA IdleIsOK == ASSUME NEW outcome PROVE WorkerOK(Idle(outcome)) /\ Idle(outcome).pc = "idle"
  BY DEF WorkerOK, Idle

(***************************************************************************)
(* A step of one worker that writes nothing: it keeps the invariant if     *)
(* the locks it adds were free, if it keeps them as long as it holds the   *)
(* ledger's row, and if it has checked the hold it goes on to.             *)
(***************************************************************************)
LEMMA ReadStepIInv ==
    ASSUME IInv, NEW w \in Workers, NEW r, NEW locks \in SUBSET Nat,
           UNCHANGED <<db, draft, rowLock>>,
           worker' = [worker EXCEPT ![w] = r],
           holdLocks' = [holdLocks EXCEPT ![w] = locks],
           WorkerOK(r),
           \A v \in Workers \ {w} : locks \cap holdLocks[v] = {},
           rowLock = w => holdLocks[w] \subseteq locks,
           r.pc = "commit" => rowLock = w,
           r.pc \in {"check", "holds"} /\ r.request.ops[r.pos].op \in HoldOps =>
               /\ r.request.ops[r.pos].hold \in locks
               /\ HoldAllows(r.request.ops[r.pos], Visible(w))
    PROVE  IInv'
  <1>1. /\ worker'[w] = r /\ \A v \in Workers \ {w} : worker'[v] = worker[v]
        /\ holdLocks'[w] = locks /\ \A v \in Workers \ {w} : holdLocks'[v] = holdLocks[v]
        /\ holdLocks' \in [Workers -> SUBSET Nat]
        /\ worker' = [v \in Workers |-> worker'[v]]
    BY DEF IInv, Shape
  <1>2. Shape'
    <2>1. \A v \in Workers : WorkerOK(worker'[v])
      BY <1>1 DEF IInv, Shape
    <2>2. \A v \in Workers : WorkerOK(worker[v])'
      BY <2>1 DEF WorkerOK
    <2> QED
      BY <1>1, <2>2 DEF IInv, Shape
  <1>3. Sound(db)' /\ Sound(draft)'
    <2>1. Sound(db) /\ Sound(draft) /\ db' = db /\ draft' = draft
      BY DEF IInv
    <2> QED
      BY <2>1
  <1>4. LocksExclusive'
    BY <1>1 DEF IInv, LocksExclusive
  <1>5. CommitsUnderLock'
    BY <1>1 DEF IInv, CommitsUnderLock
  <1>6. DraftFollowsDb'
    BY <1>1 DEF IInv, DraftFollowsDb, Shape
  <1>7. HoldsChecked'
    <2> SUFFICES ASSUME NEW v \in Workers, worker'[v].pc \in {"check", "holds"}, Op(v)'.op \in HoldOps
                 PROVE  Op(v)'.hold \in holdLocks'[v] /\ HoldAllows(Op(v), Visible(v))'
      BY DEF HoldsChecked
    <2>1. CASE v = w
      BY <1>1, <2>1 DEF Op, HoldAllows, Visible, OpenHold, CaptureDestination
    <2>2. CASE v # w
      <3>1. worker'[v] = worker[v] /\ holdLocks'[v] = holdLocks[v] /\ Visible(v)' = Visible(v)
        BY <1>1, <2>2 DEF Visible
      <3>2. Op(v)' = Op(v)
        BY <3>1 DEF Op
      <3>3. Op(v).hold \in holdLocks[v] /\ HoldAllows(Op(v), Visible(v))
        BY <3>1, <3>2 DEF IInv, HoldsChecked
      <3> QED
        BY <3>1, <3>2, <3>3 DEF HoldAllows, OpenHold, CaptureDestination
    <2> QED
      BY <2>1, <2>2
  <1> QED
    BY <1>2, <1>3, <1>4, <1>5, <1>6, <1>7 DEF IInv

(***************************************************************************)
(* The end of a transaction without a commit: what it wrote is forgotten   *)
(* and its locks are released, whatever it had done.                       *)
(***************************************************************************)
LEMMA AbortIInv ==
    ASSUME IInv, NEW w \in Workers, NEW outcome, Abort(w, outcome)
    PROVE  IInv'
  <1>1. CASE rowLock # w
    <2>1. /\ UNCHANGED <<db, draft, rowLock>>
          /\ worker' = [worker EXCEPT ![w] = Idle(outcome)]
          /\ holdLocks' = [holdLocks EXCEPT ![w] = {}]
      BY <1>1 DEF Abort, EndTx
    <2>2. {} \in SUBSET Nat /\ \A v \in Workers \ {w} : {} \cap holdLocks[v] = {}
      OBVIOUS
    <2> HIDE DEF Idle
    <2> QED
      BY <1>1, <2>1, <2>2, IdleIsOK, ReadStepIInv
  <1>2. CASE rowLock = w
    <2>1. /\ db' = db /\ draft' = EmptyDatabase /\ rowLock' = NoWorker
          /\ worker' = [worker EXCEPT ![w] = Idle(outcome)]
          /\ holdLocks' = [holdLocks EXCEPT ![w] = {}]
      BY <1>2 DEF Abort, EndTx
    <2>2. /\ worker'[w] = Idle(outcome) /\ \A v \in Workers \ {w} : worker'[v] = worker[v]
          /\ holdLocks'[w] = {} /\ \A v \in Workers \ {w} : holdLocks'[v] = holdLocks[v]
          /\ holdLocks' \in [Workers -> SUBSET Nat]
          /\ worker' = [v \in Workers |-> worker'[v]]
      BY <2>1 DEF IInv, Shape
    <2>3. Shape'
      <3>1. \A v \in Workers : WorkerOK(worker[v])'
        BY <2>2, IdleIsOK DEF IInv, Shape, WorkerOK
      <3> QED
        BY <2>1, <2>2, <3>1 DEF Shape
    <2>4. Sound(db)' /\ Sound(draft)'
      BY <2>1, EmptyIsSound DEF IInv
    <2>5. LocksExclusive'
      BY <2>2 DEF IInv, LocksExclusive
    <2>6. CommitsUnderLock' /\ DraftFollowsDb'
      BY <1>2, <2>1, <2>2, IdleIsOK DEF IInv, CommitsUnderLock, DraftFollowsDb
    <2>7. HoldsChecked'
      <3> SUFFICES ASSUME NEW v \in Workers, worker'[v].pc \in {"check", "holds"}, Op(v)'.op \in HoldOps
                   PROVE  Op(v)'.hold \in holdLocks'[v] /\ HoldAllows(Op(v), Visible(v))'
        BY DEF HoldsChecked
      <3>1. v # w
        BY <2>2, IdleIsOK
      <3>2. Visible(v) = db /\ Visible(v)' = db /\ Op(v)' = Op(v) /\ holdLocks'[v] = holdLocks[v]
        BY <1>2, <2>1, <2>2, <3>1, BalancesAssumption DEF Visible, Op
      <3> QED
        BY <2>2, <3>1, <3>2 DEF IInv, HoldsChecked, HoldAllows, OpenHold, CaptureDestination
    <2> QED
      BY <2>3, <2>4, <2>5, <2>6, <2>7 DEF IInv
  <1> QED
    BY <1>1, <1>2

(***************************************************************************)
(* The steps that only read.                                               *)
(***************************************************************************)
LEMMA BeginIInv ==
    ASSUME IInv, NEW w \in Workers, NEW q \in Requests, Begin(w, q)
    PROVE  IInv'
  <1> DEFINE r == [Idle("none") EXCEPT !.pc = "start", !.request = q, !.pos = 1]
  <1>1. /\ UNCHANGED <<db, draft, rowLock>>
        /\ worker' = [worker EXCEPT ![w] = r]
        /\ holdLocks' = [holdLocks EXCEPT ![w] = holdLocks[w]]
    BY DEF Begin, IInv, Shape
  <1>2. Len(q.ops) \in Nat \ {0}
    BY BalancesAssumption DEF Request
  <1>3. WorkerOK(r) /\ r.pc = "start"
    BY <1>2 DEF WorkerOK, Idle
  <1>4. holdLocks[w] \in SUBSET Nat /\ \A v \in Workers \ {w} : holdLocks[w] \cap holdLocks[v] = {}
    BY DEF IInv, Shape, LocksExclusive
  <1> HIDE DEF r
  <1> QED
    BY <1>1, <1>3, <1>4, ReadStepIInv

\* Going from the start of an operation to its checks keeps the invariant, with the
\* locks it took.
LEMMA ToCheckIInv ==
    ASSUME IInv, NEW w \in Workers, NEW demands, NEW locks \in SUBSET Nat,
           worker[w].pc = "start",
           ToCheck(w, demands),
           holdLocks' = [holdLocks EXCEPT ![w] = locks],
           holdLocks[w] \subseteq locks,
           \A v \in Workers \ {w} : locks \cap holdLocks[v] = {},
           Op(w).op \in HoldOps => Op(w).hold \in locks /\ HoldAllows(Op(w), Visible(w))
    PROVE  IInv'
  <1> DEFINE r == [worker[w] EXCEPT !.pc = "check", !.todo = demands]
  <1>1. UNCHANGED <<db, draft, rowLock>> /\ worker' = [worker EXCEPT ![w] = r]
    <2>1. /\ UNCHANGED <<db, draft, rowLock>>
          /\ worker' = [worker EXCEPT ![w].pc = "check", ![w].todo = demands]
      BY DEF ToCheck
    <2>2. worker = [v \in Workers |-> worker[v]]
      BY DEF IInv, Shape
    <2>3. worker' = [worker EXCEPT ![w] = r]
      BY <2>1, <2>2
    <2> QED
      BY <2>1, <2>3
  <1>2. WorkerOK(worker[w])
    BY DEF IInv, Shape
  <1>3. WorkerOK(r) /\ r.pc = "check" /\ r.request = worker[w].request /\ r.pos = worker[w].pos
    BY <1>2 DEF WorkerOK
  <1>4. r.request.ops[r.pos] = Op(w)
    BY <1>3 DEF Op
  <1> HIDE DEF r
  <1>5. /\ r.pc = "commit" => rowLock = w
        /\ rowLock = w => holdLocks[w] \subseteq locks
        /\ r.pc \in {"check", "holds"} /\ r.request.ops[r.pos].op \in HoldOps =>
              /\ r.request.ops[r.pos].hold \in locks
              /\ HoldAllows(r.request.ops[r.pos], Visible(w))
    BY <1>3, <1>4
  <1> QED
    BY <1>1, <1>3, <1>5, ReadStepIInv, Zenon

\* Starting a posting or a revert keeps the invariant.
LEMMA StartIInv ==
    ASSUME IInv, NEW w \in Workers, StartPosting(w) \/ StartRevert(w)
    PROVE  IInv'
  <1>1. holdLocks[w] \in SUBSET Nat /\ \A v \in Workers \ {w} : holdLocks[w] \cap holdLocks[v] = {}
    BY DEF IInv, Shape, LocksExclusive
  <1>2. ASSUME UNCHANGED holdLocks PROVE holdLocks' = [holdLocks EXCEPT ![w] = holdLocks[w]]
    BY <1>2 DEF IInv, Shape
  <1>3. CASE StartPosting(w)
    <2>1. worker[w].pc = "start" /\ Op(w).op \notin HoldOps
      BY <1>3 DEF StartPosting, HoldOps
    <2>2. ToCheck(w, Demands(Op(w), Visible(w))) /\ UNCHANGED holdLocks
      BY <1>3 DEF StartPosting
    <2> QED
      BY <1>1, <1>2, <2>1, <2>2, ToCheckIInv
  <1>4. CASE StartRevert(w)
    <2>1. CASE Abort(w, "refused")
      BY <2>1, AbortIInv
    <2>2. CASE ToCheck(w, Demands(Op(w), Visible(w))) /\ UNCHANGED holdLocks
      BY <1>1, <1>2, <1>4, <2>2, ToCheckIInv DEF StartRevert, HoldOps
    <2> QED
      BY <1>4, <2>1, <2>2 DEF StartRevert
  <1> QED
    BY <1>3, <1>4

\* Locking the hold's row (SELECT ... FOR UPDATE) keeps the invariant.
LEMMA LockHoldIInv ==
    ASSUME IInv, NEW w \in Workers, LockHold(w)
    PROVE  IInv'
  <1>1. worker[w].pc = "start" /\ Op(w).op \in HoldOps /\ HoldIsFree(w)
    BY DEF LockHold
  <1>2. CASE HoldAllows(Op(w), Visible(w))
    <2> DEFINE locks == holdLocks[w] \cup {Op(w).hold}
    <2>1. ToCheck(w, {}) /\ holdLocks' = [holdLocks EXCEPT ![w] = locks]
      BY <1>2 DEF LockHold
    <2>2. Op(w).hold \in Nat
      BY <1>1, OpFacts, OperationFacts DEF IInv
    <2>3. locks \in SUBSET Nat /\ \A v \in Workers \ {w} : locks \cap holdLocks[v] = {}
      BY <1>1, <2>2 DEF IInv, Shape, LocksExclusive, HoldIsFree
    <2>4. holdLocks[w] \subseteq locks /\ Op(w).hold \in locks
      OBVIOUS
    <2> HIDE DEF locks
    <2> QED
      BY <1>1, <1>2, <2>1, <2>3, <2>4, ToCheckIInv
  <1>3. CASE ~HoldAllows(Op(w), Visible(w))
    BY <1>3, AbortIInv DEF LockHold
  <1> QED
    BY <1>2, <1>3

\* Reading a balance keeps the invariant.
LEMMA GetBalanceIInv ==
    ASSUME IInv, NEW w \in Workers, GetBalance(w)
    PROVE  IInv'
  <1>1. PICK c \in worker[w].todo :
          worker' = [worker EXCEPT ![w].pc = "holds", ![w].todo = @ \ {c}, ![w].demand = c,
                                   ![w].balance = Visible(w).volumes[<<c.account, c.asset>>]]
    BY DEF GetBalance
  <1> DEFINE bal == Visible(w).volumes[<<c.account, c.asset>>]
             left == worker[w].todo \ {c}
             r == [worker[w] EXCEPT !.pc = "holds", !.todo = left, !.demand = c, !.balance = bal]
  <1>2. worker[w].pc = "check" /\ UNCHANGED <<db, draft, rowLock, holdLocks>>
    BY DEF GetBalance
  <1>3. WorkerOK(worker[w]) /\ worker = [v \in Workers |-> worker[v]]
        /\ holdLocks \in [Workers -> SUBSET Nat]
    BY DEF IInv, Shape
  <1>4. worker' = [worker EXCEPT ![w] = r]
    BY <1>1, <1>3 DEF WorkerOK
  <1> HIDE DEF bal, left
  <1>5. WorkerOK(r) /\ r.pc = "holds" /\ r.request = worker[w].request /\ r.pos = worker[w].pos
    BY <1>2, <1>3 DEF WorkerOK
  <1>6. r.request.ops[r.pos] = Op(w)
    BY <1>5 DEF Op
  <1>7. Op(w).op \in HoldOps => Op(w).hold \in holdLocks[w] /\ HoldAllows(Op(w), Visible(w))
    BY <1>2 DEF IInv, HoldsChecked
  <1>8. /\ holdLocks' = [holdLocks EXCEPT ![w] = holdLocks[w]] /\ holdLocks[w] \in SUBSET Nat
        /\ \A v \in Workers \ {w} : holdLocks[w] \cap holdLocks[v] = {}
    BY <1>2, <1>3 DEF IInv, LocksExclusive
  <1> HIDE DEF r
  <1>9. /\ r.pc = "commit" => rowLock = w
        /\ rowLock = w => holdLocks[w] \subseteq holdLocks[w]
        /\ r.pc \in {"check", "holds"} /\ r.request.ops[r.pos].op \in HoldOps =>
              /\ r.request.ops[r.pos].hold \in holdLocks[w]
              /\ HoldAllows(r.request.ops[r.pos], Visible(w))
    BY <1>5, <1>6, <1>7
  <1> QED
    BY <1>2, <1>4, <1>5, <1>8, <1>9, ReadStepIInv, Zenon

\* Summing the active holds keeps the invariant.
LEMMA GetActiveHoldsTotalIInv ==
    ASSUME IInv, NEW w \in Workers, GetActiveHoldsTotal(w)
    PROVE  IInv'
  <1> DEFINE r == [worker[w] EXCEPT !.pc = "check", !.demand = NoDemand, !.balance = 0]
  <1>1. CASE Abort(w, "insufficient")
    BY <1>1, AbortIInv
  <1>2. CASE /\ worker' = [worker EXCEPT ![w].pc = "check", ![w].demand = NoDemand,
                                         ![w].balance = 0]
             /\ UNCHANGED <<db, draft, rowLock, holdLocks, started>>
    <2>1. worker[w].pc = "holds"
      BY DEF GetActiveHoldsTotal
    <2>2. WorkerOK(worker[w]) /\ worker = [v \in Workers |-> worker[v]]
          /\ holdLocks \in [Workers -> SUBSET Nat]
      BY DEF IInv, Shape
    <2>3. worker' = [worker EXCEPT ![w] = r]
      BY <1>2, <2>2
    <2>4. WorkerOK(r) /\ r.pc = "check" /\ r.request = worker[w].request /\ r.pos = worker[w].pos
      BY <2>1, <2>2 DEF WorkerOK
    <2>5. r.request.ops[r.pos] = Op(w)
      BY <2>4 DEF Op
    <2>6. Op(w).op \in HoldOps => Op(w).hold \in holdLocks[w] /\ HoldAllows(Op(w), Visible(w))
      BY <2>1 DEF IInv, HoldsChecked
    <2>7. /\ holdLocks' = [holdLocks EXCEPT ![w] = holdLocks[w]] /\ holdLocks[w] \in SUBSET Nat
          /\ \A v \in Workers \ {w} : holdLocks[w] \cap holdLocks[v] = {}
      BY <1>2, <2>2 DEF IInv, LocksExclusive
    <2>8. UNCHANGED <<db, draft, rowLock>>
      BY <1>2
    <2> HIDE DEF r
    <2>9. /\ r.pc = "commit" => rowLock = w
          /\ rowLock = w => holdLocks[w] \subseteq holdLocks[w]
          /\ r.pc \in {"check", "holds"} /\ r.request.ops[r.pos].op \in HoldOps =>
                /\ r.request.ops[r.pos].hold \in holdLocks[w]
                /\ HoldAllows(r.request.ops[r.pos], Visible(w))
      BY <2>4, <2>5, <2>6
    <2> QED
      BY <2>3, <2>4, <2>7, <2>8, <2>9, ReadStepIInv, Zenon
  <1> QED
    BY <1>1, <1>2 DEF GetActiveHoldsTotal

(***************************************************************************)
(* A deadlock victim is aborted, or starts over without its locks: it does *)
(* not hold the ledger's row then, so nothing of its writing remains.      *)
(***************************************************************************)
LEMMA DeadlockIInv ==
    ASSUME IInv, NEW w \in Workers, Deadlock(w)
    PROVE  IInv'
  <1>1. CASE Abort(w, "deadlock")
    BY <1>1, AbortIInv
  <1>2. CASE /\ WaitsForRow(w)
             /\ worker' = [worker EXCEPT ![w].pc = "start", ![w].try = @ + 1, ![w].pos = 1]
             /\ holdLocks' = [holdLocks EXCEPT ![w] = {}]
             /\ UNCHANGED <<db, draft, rowLock, started>>
    <2> DEFINE n == worker[w].try + 1
               r == [worker[w] EXCEPT !.pc = "start", !.try = n, !.pos = 1]
    <2>1. worker[w].pc = "check" /\ rowLock # w
      BY <1>2 DEF WaitsForRow
    <2>2. WorkerOK(worker[w]) /\ worker = [v \in Workers |-> worker[v]]
      BY DEF IInv, Shape
    <2>3. worker' = [worker EXCEPT ![w] = r]
      BY <1>2, <2>2 DEF WorkerOK
    <2> HIDE DEF n
    <2>4. Len(worker[w].request.ops) \in Nat \ {0}
      BY <2>1, <2>2, BalancesAssumption DEF WorkerOK, Request
    <2>5. WorkerOK(r) /\ r.pc = "start"
      BY <2>1, <2>2, <2>4 DEF WorkerOK
    <2>6. {} \in SUBSET Nat /\ \A v \in Workers \ {w} : {} \cap holdLocks[v] = {}
      OBVIOUS
    <2> HIDE DEF r
    <2> QED
      BY <1>2, <2>1, <2>3, <2>5, <2>6, ReadStepIInv
  <1> QED
    BY <1>1, <1>2 DEF Deadlock

(***************************************************************************)
(* Which holds an operation changes: its own, and the new one.             *)
(***************************************************************************)
LEMMA ApplyKeepsOthers ==
    ASSUME NEW op \in Operation, NEW d, Sound(d),
           op.op \in HoldOps => op.hold \in DOMAIN d.holds
    PROVE  /\ DOMAIN d.holds \subseteq DOMAIN Apply(op, d).holds
           /\ \A h \in DOMAIN d.holds :
                 (op.op \in HoldOps => h # op.hold) => Apply(op, d).holds[h] = d.holds[h]
  <1>1. Apply(op, d).holds = HoldsAfter(op, d)
    BY ApplyEffect
  <1>2. d.holds \in Seq(Hold)
    BY DEF Sound
  <1>3. CASE op.op = "authorize"
    <2> DEFINE new == [source |-> op.source, hint |-> op.hint, asset |-> op.asset,
                       authorized |-> op.amount, captured |-> 0,
                       voided |-> FALSE, expired |-> FALSE]
    <2>1. new \in Hold /\ Apply(op, d).holds = Append(d.holds, new)
      BY <1>1, <1>3, OperationFacts DEF HoldsAfter
    <2> HIDE DEF new
    <2> QED
      BY <1>2, <2>1
  <1>4. CASE op.op \in HoldOps
    BY <1>1, <1>2, <1>4 DEF HoldsAfter, HoldOps
  <1>5. CASE op.op \notin HoldOps \cup {"authorize"}
    BY <1>1, <1>5, OperationFacts DEF HoldsAfter, HoldOps
  <1> QED
    BY <1>3, <1>4, <1>5

(***************************************************************************)
(* The write: the hold is still as LockHold found it, so the tables stay   *)
(* sound, and it is locked, so the draft still follows the database.       *)
(***************************************************************************)
LEMMA WriteIInv ==
    ASSUME IInv, NEW w \in Workers, Write(w)
    PROVE  IInv'
  <1> DEFINE op == Op(w)
             d == Visible(w)
  <1>1. worker[w].pc = "check" /\ rowLock \in {NoWorker, w}
    BY DEF Write
  <1>2. CASE Abort(w, "refused") \/ Abort(w, "constraint")
    BY <1>2, AbortIInv
  <1>3. CASE /\ rowLock' = w
             /\ draft' = Apply(op, d)
             /\ worker' = [worker EXCEPT
                             ![w].pc = IF worker[w].pos = Len(worker[w].request.ops)
                                       THEN "commit" ELSE "start",
                             ![w].pos = @ + 1]
             /\ UNCHANGED <<db, holdLocks, started>>
    <2>1. Sound(d) /\ op \in Operation
      BY <1>1, OpFacts DEF IInv, Visible
    <2>2. op.op \in HoldOps => op.hold \in holdLocks[w] /\ HoldAllows(op, d)
      BY <1>1 DEF IInv, HoldsChecked
    <2>3. op.op \in HoldOps => op.hold \in DOMAIN d.holds
      BY <2>2 DEF HoldAllows
    <2>4. DOMAIN db.holds \subseteq DOMAIN d.holds
          /\ \A h \in DOMAIN db.holds \ holdLocks[w] : d.holds[h] = db.holds[h]
      BY <1>1, BalancesAssumption DEF IInv, DraftFollowsDb, Visible
    <2> HIDE DEF op, d
    <2>5. Sound(draft')
      BY <1>3, <2>1, <2>2, ApplySound
    <2>6. Sound(draft)'
      BY <2>5
    <2>7. Sound(db)'
      BY <1>3 DEF IInv
    <2>8. DraftFollowsDb'
      <3>1. /\ DOMAIN d.holds \subseteq DOMAIN draft'.holds
            /\ \A h \in DOMAIN d.holds :
                  (op.op \in HoldOps => h # op.hold) => draft'.holds[h] = d.holds[h]
        BY <1>3, <2>1, <2>3, ApplyKeepsOthers
      <3>2. db' = db /\ holdLocks'[rowLock'] = holdLocks[w]
        BY <1>3
      <3> QED
        BY <2>2, <2>4, <3>1, <3>2 DEF DraftFollowsDb
    <2>9. WorkerOK(worker[w]) /\ worker = [v \in Workers |-> worker[v]]
      BY DEF IInv, Shape
    <2>10. /\ \A v \in Workers \ {w} : worker'[v] = worker[v]
           /\ worker' = [v \in Workers |-> worker'[v]]
           /\ worker'[w].pc \in {"start", "commit"}
           /\ WorkerOK(worker'[w])
      <3>1. worker[w].pos \in 1..Len(worker[w].request.ops) /\ worker[w].request \in Requests
        BY <1>1, <2>9 DEF WorkerOK
      <3>2. Len(worker[w].request.ops) \in Nat
        BY <3>1, BalancesAssumption DEF Request
      <3>3. /\ worker'[w].pc = IF worker[w].pos = Len(worker[w].request.ops) THEN "commit" ELSE "start"
            /\ worker'[w].pos = worker[w].pos + 1
            /\ worker'[w].request = worker[w].request
            /\ DOMAIN worker'[w] = DOMAIN worker[w]
            /\ \A v \in Workers \ {w} : worker'[v] = worker[v]
            /\ worker' = [v \in Workers |-> worker'[v]]
        BY <1>3, <2>9 DEF WorkerOK
      <3> QED
        BY <2>9, <3>1, <3>2, <3>3 DEF WorkerOK
    <2>11. Shape'
      <3>1. \A v \in Workers : WorkerOK(worker[v])'
        <4>1. \A v \in Workers : WorkerOK(worker'[v])
          BY <2>10 DEF IInv, Shape
        <4> QED
          BY <4>1 DEF WorkerOK
      <3> QED
        BY <1>3, <2>10, <3>1 DEF IInv, Shape
    <2>12. LocksExclusive' /\ CommitsUnderLock'
      <3>1. LocksExclusive'
        BY <1>3 DEF IInv, LocksExclusive
      <3>2. rowLock' = w /\ \A v \in Workers \ {w} : rowLock # v
        BY <1>1, <1>3, BalancesAssumption
      <3>3. CommitsUnderLock'
        BY <2>10, <3>2 DEF IInv, CommitsUnderLock
      <3> QED
        BY <3>1, <3>3
    <2>13. HoldsChecked'
      <3> SUFFICES ASSUME NEW v \in Workers, worker'[v].pc \in {"check", "holds"}, Op(v)'.op \in HoldOps
                   PROVE  Op(v)'.hold \in holdLocks'[v] /\ HoldAllows(Op(v), Visible(v))'
        BY DEF HoldsChecked
      <3>1. v # w
        BY <2>10
      <3>2. Visible(v) = db /\ Visible(v)' = db /\ Op(v)' = Op(v) /\ holdLocks'[v] = holdLocks[v]
        <4>1. rowLock # v /\ rowLock' # v /\ db' = db /\ holdLocks' = holdLocks
          BY <1>1, <1>3, <3>1, BalancesAssumption
        <4>2. worker'[v] = worker[v]
          BY <2>10, <3>1
        <4> QED
          BY <4>1, <4>2 DEF Visible, Op
      <3>3. Op(v).hold \in holdLocks[v] /\ HoldAllows(Op(v), db)
        BY <2>10, <3>1, <3>2 DEF IInv, HoldsChecked
      <3> QED
        BY <3>2, <3>3 DEF HoldAllows, OpenHold, CaptureDestination
    <2> QED
      BY <2>6, <2>7, <2>8, <2>11, <2>12, <2>13 DEF IInv
  <1> QED
    BY <1>2, <1>3 DEF Write

(***************************************************************************)
(* The commit: the holds that others have checked are locked by them, so   *)
(* the tables that become visible have not changed those.                  *)
(***************************************************************************)
LEMMA CommitIInv ==
    ASSUME IInv, NEW w \in Workers, Commit(w)
    PROVE  IInv'
  <1>1. worker[w].pc = "commit" /\ rowLock = w
    BY DEF Commit, IInv, CommitsUnderLock
  <1>2. /\ db' = draft /\ draft' = EmptyDatabase /\ rowLock' = NoWorker
        /\ worker' = [worker EXCEPT ![w] = Idle("ok")]
        /\ holdLocks' = [holdLocks EXCEPT ![w] = {}]
    BY <1>1 DEF Commit, EndTx
  <1>3. /\ worker'[w] = Idle("ok") /\ \A v \in Workers \ {w} : worker'[v] = worker[v]
        /\ holdLocks'[w] = {} /\ \A v \in Workers \ {w} : holdLocks'[v] = holdLocks[v]
        /\ holdLocks' \in [Workers -> SUBSET Nat]
        /\ worker' = [v \in Workers |-> worker'[v]]
    BY <1>2 DEF IInv, Shape
  <1>4. Shape'
    <2>1. \A v \in Workers : WorkerOK(worker[v])'
      BY <1>3, IdleIsOK DEF IInv, Shape, WorkerOK
    <2> QED
      BY <1>2, <1>3, <2>1 DEF Shape
  <1>5. Sound(db)' /\ Sound(draft)'
    BY <1>2, EmptyIsSound DEF IInv
  <1>6. LocksExclusive' /\ CommitsUnderLock' /\ DraftFollowsDb'
    BY <1>1, <1>2, <1>3, IdleIsOK DEF IInv, LocksExclusive, CommitsUnderLock, DraftFollowsDb
  <1>7. HoldsChecked'
    <2> SUFFICES ASSUME NEW v \in Workers, worker'[v].pc \in {"check", "holds"}, Op(v)'.op \in HoldOps
                 PROVE  Op(v)'.hold \in holdLocks'[v] /\ HoldAllows(Op(v), Visible(v))'
      BY DEF HoldsChecked
    <2>1. v # w
      BY <1>3, IdleIsOK
    <2>2. Visible(v) = db /\ Visible(v)' = draft /\ Op(v)' = Op(v) /\ holdLocks'[v] = holdLocks[v]
      BY <1>1, <1>2, <1>3, <2>1, BalancesAssumption DEF Visible, Op
    <2>3. Op(v).hold \in holdLocks[v] /\ HoldAllows(Op(v), db)
      BY <1>3, <2>1, <2>2 DEF IInv, HoldsChecked
    <2>4. Op(v).hold \in DOMAIN db.holds /\ Op(v).hold \notin holdLocks[w]
      BY <2>1, <2>3 DEF IInv, LocksExclusive, HoldAllows
    <2>5. Op(v).hold \in DOMAIN draft.holds /\ draft.holds[Op(v).hold] = db.holds[Op(v).hold]
      BY <1>1, <2>4, BalancesAssumption DEF IInv, DraftFollowsDb
    <2> QED
      BY <2>2, <2>3, <2>5 DEF HoldAllows, OpenHold, CaptureDestination
  <1> QED
    BY <1>4, <1>5, <1>6, <1>7 DEF IInv

-----------------------------------------------------------------------------
(***************************************************************************)
(* The invariant holds initially and every step preserves it.              *)
(***************************************************************************)
LEMMA InitIInv == Init => IInv
  <1> SUFFICES ASSUME Init PROVE IInv
    OBVIOUS
  <1>1. /\ db = SetupDatabase /\ draft = EmptyDatabase /\ rowLock = NoWorker
        /\ holdLocks = [w \in Workers |-> {}] /\ worker = [w \in Workers |-> Idle("none")]
    BY DEF Init
  <1>2. \A w \in Workers : holdLocks[w] = {} /\ worker[w].pc = "idle" /\ WorkerOK(worker[w])
    BY <1>1, IdleIsOK
  <1>3. Shape
    BY <1>1, <1>2 DEF Shape
  <1>4. Sound(db) /\ Sound(draft)
    BY <1>1, EmptyIsSound, SetupAssumption
  <1>5. LocksExclusive /\ CommitsUnderLock /\ DraftFollowsDb /\ HoldsChecked
    BY <1>1, <1>2 DEF LocksExclusive, CommitsUnderLock, DraftFollowsDb, HoldsChecked
  <1> QED
    BY <1>3, <1>4, <1>5 DEF IInv

\* Every step keeps the invariant.
LEMMA NextIInv == IInv /\ [Next]_vars => IInv'
  <1> SUFFICES ASSUME IInv, [Next]_vars PROVE IInv'
    OBVIOUS
  <1>1. ASSUME NEW w \in Workers, NEW q \in Requests, Begin(w, q) PROVE IInv'
    BY <1>1, BeginIInv
  <1>2. ASSUME NEW w \in Workers, Step(w) PROVE IInv'
    BY <1>2, StartIInv, LockHoldIInv, GetBalanceIInv, GetActiveHoldsTotalIInv, WriteIInv,
       CommitIInv, DeadlockIInv DEF Step
  <1>3. ASSUME NEW w \in Workers, Fail(w) PROVE IInv'
    BY <1>3, AbortIInv DEF Fail
  <1>4. CASE UNCHANGED vars
    <2>1. UNCHANGED <<db, draft, rowLock, holdLocks, worker>>
      BY <1>4 DEF vars
    <2>2. Shape'
      BY <2>1 DEF IInv, Shape, WorkerOK
    <2>3. Sound(db)' /\ Sound(draft)'
      BY <2>1 DEF IInv
    <2>4. LocksExclusive' /\ CommitsUnderLock' /\ DraftFollowsDb'
      BY <2>1 DEF IInv, LocksExclusive, CommitsUnderLock, DraftFollowsDb
    <2>5. HoldsChecked'
      BY <2>1 DEF IInv, HoldsChecked, Op, Visible, HoldAllows, OpenHold, CaptureDestination
    <2> QED
      BY <2>2, <2>3, <2>4, <2>5 DEF IInv
  <1> QED
    BY <1>1, <1>2, <1>3, <1>4 DEF Next

(***************************************************************************)
(* The inductive invariant holds in every state.                           *)
(***************************************************************************)
THEOREM HoldsInvariance == Spec => []IInv
  BY InitIInv, NextIInv, PTL DEF Spec

(***************************************************************************)
(* No hold is ever captured beyond what was authorized, by any number of   *)
(* captures, batches, voids and sweeps at once: the amount doCaptureInTx   *)
(* compared with cannot change before UpdateHoldCaptured adds to it.       *)
(***************************************************************************)
THEOREM CapturesAreCovered == Spec => []CapturedWithinAuthorized
  <1>1. IInv => CapturedWithinAuthorized
    BY DEF IInv, Sound, HoldsFollowLog, CapturedWithinAuthorized
  <1> QED
    BY <1>1, HoldsInvariance, PTL

(***************************************************************************)
(* The event that voids or expires a hold is the last of that hold.        *)
(***************************************************************************)
THEOREM ClosedHoldsStayClosed == Spec => []ClosedHoldsAreFinal
  <1>1. IInv => ClosedHoldsAreFinal
    BY DEF IInv, Sound, HoldsFollowLog, ClosedHoldsAreFinal
  <1> QED
    BY <1>1, HoldsInvariance, PTL

(***************************************************************************)
(* The state columns of the holds are what the log says: a hold is marked  *)
(* voided or expired exactly if an event of the log did that.              *)
(***************************************************************************)
THEOREM HoldStatesFollowLog == Spec => []HoldsFollowLog(db)
  <1>1. IInv => HoldsFollowLog(db)
    BY DEF IInv, Sound
  <1> QED
    BY <1>1, HoldsInvariance, PTL

(***************************************************************************)
(* ProjectionsFollowLog: whatever ran and whatever was aborted, by any     *)
(* number of workers, replaying the committed events gives every balance   *)
(* and every hold's captured amount and state.                             *)
(***************************************************************************)
THEOREM ProjectionsAreReplays == Spec => []ProjectionsFollowLog
  <1>1. IInv => ProjectionsFollowLog
    BY DEF IInv, Sound, HoldsFollowLog, AmountsFollowLog, ProjectionsFollowLog
  <1> QED
    BY <1>1, HoldsInvariance, PTL

(***************************************************************************)
(* The row of a hold is locked by at most one transaction, and what a      *)
(* transaction found there when it took the lock still holds when it comes *)
(* to write, whatever was committed in between.                            *)
(***************************************************************************)
THEOREM ChecksUnderLockStayTrue == Spec => [](LocksExclusive /\ HoldsChecked)
  <1>1. IInv => LocksExclusive /\ HoldsChecked
    BY DEF IInv
  <1> QED
    BY <1>1, HoldsInvariance, PTL

-----------------------------------------------------------------------------
(***************************************************************************)
(* Balances.  The primary key of volumes_delta lets no account be debited  *)
(* twice in one asset by one event.                                        *)
(***************************************************************************)
LEMMA DistinctSources ==
    ASSUME NEW ps \in Seq(Posting), ~DuplicateLeg(ps),
           NEW m \in DOMAIN ps, NEW n \in DOMAIN ps,
           ps[m].source = ps[n].source, ps[m].asset = ps[n].asset
    PROVE  m = n
  <1> DEFINE N == Len(ps)
             A == {<<p.source, p.asset>> : p \in Range(ps)}
             B == {<<p.destination, p.asset>> : p \in Range(ps)}
             f == [i \in 1..N |-> <<ps[i].source, ps[i].asset>>]
             g == [i \in 1..N |-> <<ps[i].destination, ps[i].asset>>]
  <1>1. N \in Nat /\ DOMAIN ps = 1..N
    OBVIOUS
  <1>2. A = {f[i] : i \in 1..N} /\ B = {g[i] : i \in 1..N}
    BY <1>1 DEF Range
  <1>3. f \in Surjection(1..N, A) /\ g \in Surjection(1..N, B)
    <2> HIDE DEF A, B
    <2>1. f \in [1..N -> A] /\ g \in [1..N -> B]
      BY <1>2
    <2> HIDE DEF f, g
    <2> QED
      BY <1>2, <2>1 DEF Surjection
  <1>4. IsFiniteSet(1..N) /\ Cardinality(1..N) = N
    <2> HIDE DEF N
    <2> QED
      BY <1>1, FS_Interval
  <1>5. Cardinality(A \cup B) >= 2 * N
    <2>1. ~(Cardinality(A \cup B) < 2 * N)
      BY DEF DuplicateLeg
    <2>2. IsFiniteSet(A \cup B)
      BY <1>3, <1>4, FS_Surjection, FS_Union
    <2>3. Cardinality(A \cup B) \in Nat
      BY <2>2, FS_CardinalityType
    <2> HIDE DEF A, B, N
    <2> QED
      BY <1>1, <2>1, <2>3
  <1> HIDE DEF A, B, g, N
  <1>6. /\ IsFiniteSet(A) /\ Cardinality(A) <= N
        /\ IsFiniteSet(B) /\ Cardinality(B) <= N
    BY <1>3, <1>4, FS_Surjection
  <1>7. Cardinality(A \cup B) <= Cardinality(A) + Cardinality(B)
    <2>1. Cardinality(A \cup B) = Cardinality(A) + Cardinality(B) - Cardinality(A \cap B)
      BY <1>6, FS_Union
    <2>2. Cardinality(A \cap B) \in Nat
      BY <1>6, FS_Subset, FS_CardinalityType
    <2>3. Cardinality(A) \in Nat /\ Cardinality(B) \in Nat
      BY <1>6, FS_CardinalityType
    <2> QED
      BY <2>1, <2>2, <2>3
  <1>8. Cardinality(A) = N
    <2>1. Cardinality(A) \in Nat /\ Cardinality(B) \in Nat /\ Cardinality(A \cup B) \in Nat
      BY <1>6, FS_Union, FS_CardinalityType
    <2> QED
      BY <1>1, <1>5, <1>6, <1>7, <2>1
  <1>9. f \in Injection(1..N, A)
    <2> HIDE DEF f
    <2> QED
      BY <1>3, <1>4, <1>8, FS_Surjection
  <1>10. m \in 1..N /\ n \in 1..N /\ f[m] = f[n]
    BY <1>1
  <1> HIDE DEF f
  <1> QED
    BY <1>9, <1>10 DEF Injection, IsInjective

(***************************************************************************)
(* The fields of postings.                                                 *)
(***************************************************************************)
LEMMA PostingFacts ==
    ASSUME NEW ps \in Seq(Posting)
    PROVE  /\ Len(ps) \in Nat /\ DOMAIN ps = 1..Len(ps)
           /\ \A n \in DOMAIN ps :
                 /\ ps[n] \in Posting
                 /\ ps[n].source \in Accounts /\ ps[n].destination \in Accounts
                 /\ ps[n].asset \in Assets /\ ps[n].amount \in Nat \ {0}
  <1>1. Len(ps) \in Nat /\ DOMAIN ps = 1..Len(ps) /\ \A n \in DOMAIN ps : ps[n] \in Posting
    OBVIOUS
  <1>2. \A p \in Posting : /\ p.source \in Accounts /\ p.destination \in Accounts
                           /\ p.asset \in Assets /\ p.amount \in Nat \ {0}
    BY DEF Posting, Amount
  <1> QED
    BY <1>1, <1>2

(***************************************************************************)
(* What postings take and give are amounts, and nothing is taken from who  *)
(* is no source.                                                           *)
(***************************************************************************)
LEMMA FlowFacts ==
    ASSUME NEW ps \in Seq(Posting), NEW account, NEW asset
    PROVE  /\ Outflow(ps, account, asset) \in Nat
           /\ Inflow(ps, account, asset) \in Nat
           /\ (\A n \in DOMAIN ps : ps[n].source # account \/ ps[n].asset # asset)
                 => Outflow(ps, account, asset) = 0
  <1> DEFINE N == Len(ps)
             f == [n \in DOMAIN ps |-> Debit(ps[n], account, asset)]
             g == [n \in DOMAIN ps |-> Credit(ps[n], account, asset)]
  <1>1. N \in Nat /\ DOMAIN ps = 1..N /\ \A n \in 1..N : ps[n].amount \in Nat
    BY PostingFacts
  <1>2. \A n \in 1..N : Debit(ps[n], account, asset) \in Nat /\ Credit(ps[n], account, asset) \in Nat
    BY <1>1 DEF Debit, Credit
  <1>3. /\ DOMAIN f = 1..N /\ f = [n \in 1..N |-> f[n]]
        /\ DOMAIN g = 1..N /\ g = [n \in 1..N |-> g[n]]
        /\ \A n \in 1..N : f[n] \in Nat /\ g[n] \in Nat
    BY <1>1, <1>2
  <1>4. ASSUME \A n \in DOMAIN ps : ps[n].source # account \/ ps[n].asset # asset
        PROVE  \A n \in 1..N : f[n] = 0
    BY <1>1, <1>4 DEF Debit
  <1>5. Outflow(ps, account, asset) = Total(f) /\ Inflow(ps, account, asset) = Total(g)
    BY DEF Outflow, Inflow
  <1> HIDE DEF f, g, N
  <1>6. Len(f) = N /\ Len(g) = N
    BY <1>1, <1>3, LenOfFunction
  <1>7. Total(f) \in Nat /\ Total(g) \in Nat
    BY <1>1, <1>3, <1>6, TotalOfNaturals
  <1>8. ASSUME \A n \in DOMAIN ps : ps[n].source # account \/ ps[n].asset # asset
        PROVE  Total(f) = 0
    BY <1>1, <1>4, <1>6, <1>8, TotalOfZeros
  <1> QED
    BY <1>5, <1>7, <1>8

(***************************************************************************)
(* One event debits an account in one asset by one posting at most.        *)
(***************************************************************************)
LEMMA OutflowBounded ==
    ASSUME NEW ps \in Seq(Posting), ~DuplicateLeg(ps), NEW account, NEW asset, NEW M \in Nat,
           \A n \in DOMAIN ps :
              ps[n].source = account /\ ps[n].asset = asset => ps[n].amount <= M
    PROVE  Outflow(ps, account, asset) <= M
  <1>1. CASE \A n \in DOMAIN ps : ps[n].source # account \/ ps[n].asset # asset
    BY <1>1, FlowFacts
  <1>2. ASSUME NEW k \in DOMAIN ps, ps[k].source = account, ps[k].asset = asset
        PROVE  Outflow(ps, account, asset) <= M
    <2> DEFINE N == Len(ps)
               f == [n \in DOMAIN ps |-> Debit(ps[n], account, asset)]
               z == [n \in 1..N |-> 0]
    <2>1. N \in Nat /\ DOMAIN ps = 1..N /\ ps[k].amount \in Nat
      BY PostingFacts
    <2>2. \A n \in 1..N : n # k => Debit(ps[n], account, asset) = 0
      BY <1>2, <2>1, DistinctSources DEF Debit
    <2>3. Debit(ps[k], account, asset) = ps[k].amount
      BY <1>2 DEF Debit
    <2>4. /\ DOMAIN f = 1..N /\ f = [n \in 1..N |-> f[n]] /\ f[k] = ps[k].amount
          /\ DOMAIN z = 1..N /\ z = [n \in 1..N |-> z[n]]
          /\ \A n \in 1..N : z[n] = 0 /\ f[n] \in Nat
          /\ \A n \in 1..N : n # k => f[n] = z[n]
      BY <2>1, <2>2, <2>3
    <2>5. Outflow(ps, account, asset) = Total(f)
      BY DEF Outflow
    <2> HIDE DEF f, z, N
    <2>6. Len(f) = N /\ Len(z) = N
      BY <2>1, <2>4, LenOfFunction
    <2>7. Total(z) = 0
      BY <2>1, <2>4, <2>6, TotalOfZeros
    <2>8. Total(f) = Total(z) - z[k] + f[k]
      <3>1. /\ Len(z) \in Nat /\ Len(f) = Len(z) /\ k \in 1..Len(z)
            /\ \A n \in 1..Len(z) : z[n] \in Nat /\ f[n] \in Nat
            /\ \A n \in 1..Len(z) : n # k => f[n] = z[n]
        BY <2>1, <2>4, <2>6
      <3> QED
        BY <3>1, TotalWithChange
    <2>9. Total(f) = ps[k].amount
      BY <2>1, <2>4, <2>7, <2>8
    <2> QED
      BY <1>2, <2>5, <2>9
  <1> QED
    BY <1>1, <1>2

(***************************************************************************)
(* The balances after each posting: once more, the recursive definition    *)
(* has a solution.                                                         *)
(***************************************************************************)
LEMMA MovedUpToDef ==
    ASSUME NEW volumes, NEW ps, Len(ps) \in Nat
    PROVE  /\ MovedUpTo(volumes, ps)[0] = volumes
           /\ \A n \in 1..Len(ps) :
                 MovedUpTo(volumes, ps)[n] = PostedTo(MovedUpTo(volumes, ps)[n - 1], ps[n])
  <1> DEFINE Sol(f, m) == f = [n \in 0..m |-> IF n = 0 THEN volumes ELSE PostedTo(f[n - 1], ps[n])]
             S == {m \in Nat : \E f : Sol(f, m)}
  <1>1. 0 \in S
    <2> DEFINE f == [n \in 0..0 |-> volumes]
    <2>1. Sol(f, 0)
      OBVIOUS
    <2> QED
      BY <2>1
  <1>2. ASSUME NEW m \in Nat, m \in S PROVE m + 1 \in S
    <2>1. PICK f : Sol(f, m)
      BY <1>2
    <2> DEFINE g == [n \in 0..(m + 1) |-> IF n <= m THEN f[n] ELSE PostedTo(f[m], ps[m + 1])]
    <2>2. f[0] = volumes /\ \A n \in 1..m : f[n] = PostedTo(f[n - 1], ps[n])
      BY <2>1
    <2>3. /\ g[0] = f[0] /\ \A n \in 0..m : g[n] = f[n]
          /\ g[m + 1] = PostedTo(f[m], ps[m + 1])
      OBVIOUS
    <2>4. \A n \in 0..(m + 1) : g[n] = IF n = 0 THEN volumes ELSE PostedTo(g[n - 1], ps[n])
      BY <2>2, <2>3
    <2>5. Sol(g, m + 1) /\ m + 1 \in Nat
      BY <2>4
    <2> HIDE DEF Sol, g
    <2> QED
      BY <2>5
  <1>3. Len(ps) \in S
    <2> HIDE DEF S
    <2> QED
      BY <1>1, <1>2, NumbersByInduction
  <1>4. Sol(MovedUpTo(volumes, ps), Len(ps))
    <2>1. MovedUpTo(volumes, ps) = CHOOSE f : Sol(f, Len(ps))
      BY DEF MovedUpTo
    <2>2. \E f : Sol(f, Len(ps))
      BY <1>3
    <2> HIDE DEF Sol
    <2> QED
      BY <2>1, <2>2, Zenon
  <1> QED
    BY <1>4

(***************************************************************************)
(* One posting changes a balance by its debit and its credit.              *)
(***************************************************************************)
LEMMA PostedToFacts ==
    ASSUME NEW volumes \in [Bucket -> Int], NEW p \in Posting
    PROVE  /\ PostedTo(volumes, p) \in [Bucket -> Int]
           /\ \A account \in Accounts, asset \in Assets :
                 PostedTo(volumes, p)[<<account, asset>>] =
                    volumes[<<account, asset>>] - Debit(p, account, asset) + Credit(p, account, asset)
  <1> DEFINE s == <<p.source, p.asset>>
             t == <<p.destination, p.asset>>
             v == PostedTo(volumes, p)
  <1>1. /\ p.source \in Accounts /\ p.destination \in Accounts /\ p.asset \in Assets
        /\ p.amount \in Nat
    BY DEF Posting, Amount
  <1>2. s \in Bucket /\ t \in Bucket
    BY <1>1 DEF Bucket
  <1>3. v = [volumes EXCEPT ![s] = @ - p.amount, ![t] = @ + p.amount]
    BY DEF PostedTo
  <1>4. ASSUME NEW account \in Accounts, NEW asset \in Assets
        PROVE  /\ <<account, asset>> \in Bucket
               /\ Debit(p, account, asset) = IF <<account, asset>> = s THEN p.amount ELSE 0
               /\ Credit(p, account, asset) = IF <<account, asset>> = t THEN p.amount ELSE 0
    BY DEF Bucket, Debit, Credit
  <1> HIDE DEF s, t, v
  <1>5. PICK amount \in Nat : amount = p.amount
    BY <1>1
  <1>6. /\ v \in [Bucket -> Int]
        /\ \A b \in Bucket : v[b] = volumes[b] - (IF b = s THEN amount ELSE 0)
                                               + (IF b = t THEN amount ELSE 0)
    <2>1. v = [volumes EXCEPT ![s] = @ - amount, ![t] = @ + amount]
      BY <1>3, <1>5
    <2>2. \A b \in Bucket : volumes[b] \in Int
      OBVIOUS
    <2> QED
      BY <1>2, <2>1, <2>2
  <1>7. ASSUME NEW account \in Accounts, NEW asset \in Assets
        PROVE  v[<<account, asset>>] =
                  volumes[<<account, asset>>] - Debit(p, account, asset) + Credit(p, account, asset)
    BY <1>4, <1>5, <1>6
  <1> QED
    BY <1>6, <1>7 DEF v

(***************************************************************************)
(* The balances after postings.                                            *)
(***************************************************************************)
LEMMA MovedFacts ==
    ASSUME NEW volumes \in [Bucket -> Int], NEW ps \in Seq(Posting)
    PROVE  /\ Moved(volumes, ps) \in [Bucket -> Int]
           /\ \A account \in Accounts, asset \in Assets :
                 /\ volumes[<<account, asset>>] \in Int
                 /\ Moved(volumes, ps)[<<account, asset>>] =
                       volumes[<<account, asset>>] - Outflow(ps, account, asset)
                          + Inflow(ps, account, asset)
  <1> DEFINE N == Len(ps)
             m == MovedUpTo(volumes, ps)
             S == {n \in Nat : n <= N => m[n] \in [Bucket -> Int]}
  <1>1. N \in Nat /\ DOMAIN ps = 1..N /\ \A n \in 1..N : ps[n] \in Posting /\ ps[n].amount \in Nat
    BY PostingFacts
  <1>2. m[0] = volumes /\ \A n \in 1..N : m[n] = PostedTo(m[n - 1], ps[n])
    BY <1>1, MovedUpToDef
  <1>3. Moved(volumes, ps) = m[N]
    BY DEF Moved
  <1> HIDE DEF m, N
  <1>4. 0 \in S
    BY <1>2
  <1>5. ASSUME NEW n \in Nat, n \in S PROVE n + 1 \in S
    <2> SUFFICES ASSUME n + 1 <= N PROVE m[n + 1] \in [Bucket -> Int]
      OBVIOUS
    <2>1. n + 1 \in 1..N /\ (n + 1) - 1 = n /\ n <= N
      BY <1>1
    <2>2. m[n] \in [Bucket -> Int]
      BY <1>5, <2>1
    <2>3. m[n + 1] = PostedTo(m[n], ps[n + 1]) /\ ps[n + 1] \in Posting
      BY <1>1, <1>2, <2>1
    <2> QED
      BY <2>2, <2>3, PostedToFacts
  <1>6. \A n \in Nat : n \in S
    <2> HIDE DEF S
    <2> QED
      BY <1>4, <1>5, NumbersByInduction
  <1>7. \A n \in 0..N : m[n] \in [Bucket -> Int]
    BY <1>1, <1>6
  <1>8. ASSUME NEW account \in Accounts, NEW asset \in Assets
        PROVE  /\ volumes[<<account, asset>>] \in Int
               /\ m[N][<<account, asset>>] =
                     volumes[<<account, asset>>] - Outflow(ps, account, asset)
                        + Inflow(ps, account, asset)
    <2> DEFINE f == [n \in DOMAIN ps |-> Debit(ps[n], account, asset)]
               g == [n \in DOMAIN ps |-> Credit(ps[n], account, asset)]
               x == volumes[<<account, asset>>]
               y == [n \in 0..N |-> m[n][<<account, asset>>]]
               T == {n \in Nat : n <= N =>
                        /\ SumUpTo(f)[n] \in Nat /\ SumUpTo(g)[n] \in Nat
                        /\ y[n] = x - SumUpTo(f)[n] + SumUpTo(g)[n]}
    <2>1. x \in Int
      BY DEF Bucket
    <2>2. \A n \in 1..N : Debit(ps[n], account, asset) \in Nat /\ Credit(ps[n], account, asset) \in Nat
      BY <1>1 DEF Debit, Credit
    <2>3. /\ DOMAIN f = 1..N /\ f = [n \in 1..N |-> f[n]]
          /\ DOMAIN g = 1..N /\ g = [n \in 1..N |-> g[n]]
          /\ \A n \in 1..N : f[n] \in Nat /\ g[n] \in Nat
          /\ \A n \in 1..N : f[n] = Debit(ps[n], account, asset) /\ g[n] = Credit(ps[n], account, asset)
      BY <1>1, <2>2
    <2>4. Outflow(ps, account, asset) = Total(f) /\ Inflow(ps, account, asset) = Total(g)
      BY DEF Outflow, Inflow
    <2>5. \A n \in 1..N : y[n] = y[n - 1] - Debit(ps[n], account, asset) + Credit(ps[n], account, asset)
      <3> SUFFICES ASSUME NEW n \in 1..N
                   PROVE  y[n] = y[n - 1] - Debit(ps[n], account, asset) + Credit(ps[n], account, asset)
        OBVIOUS
      <3>1. m[n - 1] \in [Bucket -> Int] /\ m[n] = PostedTo(m[n - 1], ps[n]) /\ ps[n] \in Posting
        BY <1>1, <1>2, <1>7
      <3>2. PICK v \in [Bucket -> Int] : v = m[n - 1]
        BY <3>1
      <3>3. PICK p \in Posting : p = ps[n]
        BY <3>1
      <3>4. PostedTo(v, p)[<<account, asset>>] =
               v[<<account, asset>>] - Debit(p, account, asset) + Credit(p, account, asset)
        BY PostedToFacts
      <3>5. y[n] = m[n][<<account, asset>>] /\ y[n - 1] = m[n - 1][<<account, asset>>]
        BY <1>1
      <3> QED
        BY <3>1, <3>2, <3>3, <3>4, <3>5
    <2>6. y[0] = x
      BY <1>1, <1>2
    <2> HIDE DEF f, g, x, y
    <2>7. Len(f) = N /\ Len(g) = N
      BY <1>1, <2>3, LenOfFunction
    <2>8. /\ SumUpTo(f)[0] = 0 /\ \A n \in 1..N : SumUpTo(f)[n] = SumUpTo(f)[n - 1] + f[n]
          /\ SumUpTo(g)[0] = 0 /\ \A n \in 1..N : SumUpTo(g)[n] = SumUpTo(g)[n - 1] + g[n]
      BY <1>1, <2>7, SumUpToDef
    <2>9. 0 \in T
      BY <2>1, <2>6, <2>8
    <2>10. ASSUME NEW n \in Nat, n \in T PROVE n + 1 \in T
      <3> SUFFICES ASSUME n + 1 <= N
                   PROVE  /\ SumUpTo(f)[n + 1] \in Nat /\ SumUpTo(g)[n + 1] \in Nat
                          /\ y[n + 1] = x - SumUpTo(f)[n + 1] + SumUpTo(g)[n + 1]
        OBVIOUS
      <3>1. n + 1 \in 1..N /\ (n + 1) - 1 = n /\ n <= N
        BY <1>1
      <3>2. /\ SumUpTo(f)[n] \in Nat /\ SumUpTo(g)[n] \in Nat
            /\ y[n] = x - SumUpTo(f)[n] + SumUpTo(g)[n]
        BY <2>10, <3>1
      <3>3. /\ SumUpTo(f)[n + 1] = SumUpTo(f)[n] + f[n + 1]
            /\ SumUpTo(g)[n + 1] = SumUpTo(g)[n] + g[n + 1]
            /\ f[n + 1] \in Nat /\ g[n + 1] \in Nat
            /\ y[n + 1] = y[n] - f[n + 1] + g[n + 1]
        BY <2>3, <2>5, <2>8, <3>1
      <3>4. PICK a \in Nat : a = SumUpTo(f)[n]
        BY <3>2
      <3>5. PICK b \in Nat : b = SumUpTo(g)[n]
        BY <3>2
      <3>6. PICK debit \in Nat : debit = f[n + 1]
        BY <3>3
      <3>7. PICK credit \in Nat : credit = g[n + 1]
        BY <3>3
      <3>8. /\ SumUpTo(f)[n + 1] = a + debit /\ SumUpTo(g)[n + 1] = b + credit
            /\ y[n + 1] = (x - a + b) - debit + credit
        BY <3>2, <3>3, <3>4, <3>5, <3>6, <3>7
      <3>9. (x - a + b) - debit + credit = x - (a + debit) + (b + credit) /\ a + debit \in Nat /\ b + credit \in Nat
        BY <2>1
      <3> QED
        BY <3>8, <3>9
    <2>11. N \in T
      <3> HIDE DEF T
      <3> QED
        BY <1>1, <2>9, <2>10, NumbersByInduction
    <2> QED
      BY <1>1, <2>1, <2>4, <2>7, <2>11 DEF Total, x, y
  <1> QED
    BY <1>1, <1>3, <1>7, <1>8

(***************************************************************************)
(* What an open hold reserves is an amount.                                *)
(***************************************************************************)
LEMMA ReservedIsAmount ==
    ASSUME NEW hold \in Hold, hold.captured <= hold.authorized, NEW account, NEW asset
    PROVE  Reserved(hold, account, asset) \in Nat
  <1>1. hold.captured \in Nat /\ hold.authorized \in Nat
    BY DEF Hold, Amount
  <1>2. hold.authorized - hold.captured \in Nat
    BY <1>1
  <1> QED
    BY <1>2 DEF Reserved

(***************************************************************************)
(* The holds of sound tables, and what they reserve together.              *)
(***************************************************************************)
LEMMA SoundHolds ==
    ASSUME NEW d, Sound(d), NEW account, NEW asset
    PROVE  /\ Len(d.holds) \in Nat /\ DOMAIN d.holds = 1..Len(d.holds)
           /\ \A h \in DOMAIN d.holds : /\ d.holds[h] \in Hold
                                        /\ d.holds[h].captured <= d.holds[h].authorized
                                        /\ Reserved(d.holds[h], account, asset) \in Nat
           /\ ActiveHoldsTotal(d, account, asset) \in Nat
  <1> DEFINE f == [h \in DOMAIN d.holds |-> Reserved(d.holds[h], account, asset)]
             N == Len(d.holds)
  <1>1. N \in Nat /\ DOMAIN d.holds = 1..N /\ \A h \in DOMAIN d.holds : d.holds[h] \in Hold
    BY DEF Sound
  <1>2. \A h \in DOMAIN d.holds : d.holds[h].captured <= d.holds[h].authorized
    BY DEF Sound, HoldsFollowLog
  <1>3. \A h \in DOMAIN d.holds : Reserved(d.holds[h], account, asset) \in Nat
    BY <1>1, <1>2, ReservedIsAmount
  <1>4. DOMAIN f = 1..N /\ f = [h \in 1..N |-> f[h]] /\ \A h \in 1..N : f[h] \in Nat
    BY <1>1, <1>3
  <1>5. ActiveHoldsTotal(d, account, asset) = Total(f)
    BY DEF ActiveHoldsTotal
  <1> HIDE DEF f
  <1>6. Len(f) = N
    BY <1>1, <1>4, LenOfFunction
  <1>7. Total(f) \in Nat
    BY <1>1, <1>4, <1>6, TotalOfNaturals
  <1> QED
    BY <1>1, <1>2, <1>3, <1>5, <1>7

(***************************************************************************)
(* A new hold adds what it reserves.                                       *)
(***************************************************************************)
LEMMA HoldsTotalOfMore ==
    ASSUME NEW d, NEW e, Sound(d), Sound(e), NEW hold \in Hold,
           e.holds = Append(d.holds, hold), NEW account, NEW asset
    PROVE  ActiveHoldsTotal(e, account, asset) =
              ActiveHoldsTotal(d, account, asset) + Reserved(hold, account, asset)
  <1> DEFINE N == Len(d.holds)
             f == [h \in DOMAIN d.holds |-> Reserved(d.holds[h], account, asset)]
             g == [h \in DOMAIN e.holds |-> Reserved(e.holds[h], account, asset)]
  <1>1. d.holds \in Seq(Hold) /\ N \in Nat /\ DOMAIN d.holds = 1..N
    BY DEF Sound
  <1>2. /\ DOMAIN e.holds = 1..(N + 1) /\ e.holds[N + 1] = hold
        /\ \A h \in 1..N : e.holds[h] = d.holds[h]
    BY <1>1
  <1>3. /\ DOMAIN f = 1..N /\ f = [h \in 1..N |-> f[h]]
        /\ DOMAIN g = 1..(N + 1) /\ g = [h \in 1..(N + 1) |-> g[h]]
        /\ g[N + 1] = Reserved(hold, account, asset)
        /\ \A h \in 1..N : g[h] = f[h]
    BY <1>1, <1>2
  <1>4. /\ ActiveHoldsTotal(d, account, asset) = Total(f)
        /\ ActiveHoldsTotal(e, account, asset) = Total(g)
    BY DEF ActiveHoldsTotal
  <1> HIDE DEF f, g
  <1>5. Len(f) = N /\ Len(g) = N + 1
    BY <1>1, <1>3, LenOfFunction
  <1>6. /\ Len(f) \in Nat /\ Len(g) = Len(f) + 1 /\ g[Len(f) + 1] = Reserved(hold, account, asset)
        /\ \A n \in 1..Len(f) : g[n] = f[n]
    BY <1>1, <1>3, <1>5
  <1>7. Total(g) = Total(f) + g[Len(f) + 1]
    BY <1>6, TotalOfLonger, Zenon
  <1> QED
    BY <1>4, <1>6, <1>7

(***************************************************************************)
(* Changing one hold changes the total by what it reserves more or less.   *)
(***************************************************************************)
LEMMA HoldsTotalWithChange ==
    ASSUME NEW d, NEW e, Sound(d), Sound(e), NEW k \in DOMAIN d.holds,
           DOMAIN e.holds = DOMAIN d.holds,
           \A h \in DOMAIN d.holds : h # k => e.holds[h] = d.holds[h],
           NEW account, NEW asset
    PROVE  ActiveHoldsTotal(e, account, asset) =
              ActiveHoldsTotal(d, account, asset) - Reserved(d.holds[k], account, asset)
                 + Reserved(e.holds[k], account, asset)
  <1> DEFINE N == Len(d.holds)
             f == [h \in DOMAIN d.holds |-> Reserved(d.holds[h], account, asset)]
             g == [h \in DOMAIN e.holds |-> Reserved(e.holds[h], account, asset)]
  <1>1. /\ N \in Nat /\ DOMAIN d.holds = 1..N
        /\ \A h \in DOMAIN d.holds : Reserved(d.holds[h], account, asset) \in Nat
        /\ \A h \in DOMAIN e.holds : Reserved(e.holds[h], account, asset) \in Nat
    BY SoundHolds
  <1>2. /\ DOMAIN f = 1..N /\ f = [h \in 1..N |-> f[h]]
        /\ DOMAIN g = 1..N /\ g = [h \in 1..N |-> g[h]]
        /\ \A h \in 1..N : f[h] \in Nat /\ g[h] \in Nat
        /\ \A h \in 1..N : h # k => g[h] = f[h]
        /\ f[k] = Reserved(d.holds[k], account, asset)
        /\ g[k] = Reserved(e.holds[k], account, asset)
    BY <1>1
  <1>3. /\ ActiveHoldsTotal(d, account, asset) = Total(f)
        /\ ActiveHoldsTotal(e, account, asset) = Total(g)
    BY DEF ActiveHoldsTotal
  <1> HIDE DEF f, g
  <1>4. Len(f) = N /\ Len(g) = N
    BY <1>1, <1>2, LenOfFunction
  <1>5. /\ Len(f) \in Nat /\ Len(g) = Len(f) /\ k \in 1..Len(f)
        /\ \A n \in 1..Len(f) : f[n] \in Nat /\ g[n] \in Nat
        /\ \A n \in 1..Len(f) : n # k => g[n] = f[n]
    BY <1>1, <1>2, <1>4
  <1>6. Total(g) = Total(f) - f[k] + g[k]
    BY <1>5, TotalWithChange
  <1> QED
    BY <1>2, <1>3, <1>6

(***************************************************************************)
(* An operation is of the kind it names.                                   *)
(***************************************************************************)
LEMMA OperationKinds ==
    ASSUME NEW op \in Operation
    PROVE  /\ op.op = "post" => op \in Post
           /\ op.op = "convert" => op \in Convert
           /\ op.op = "authorize" => op \in Authorize
           /\ op.op = "capture" => op \in Capture
           /\ op.op = "revert" => op \in Revert
  <1>1. CASE op \in Post
    BY <1>1 DEF Post
  <1>2. CASE op \in Convert
    BY <1>2 DEF Convert
  <1>3. CASE op \in Authorize
    BY <1>3 DEF Authorize
  <1>4. CASE op \in Capture
    BY <1>4 DEF Capture
  <1>5. CASE op \in CloseHold
    BY <1>5 DEF CloseHold
  <1>6. CASE op \in Revert
    BY <1>6 DEF Revert
  <1> QED
    BY <1>1, <1>2, <1>3, <1>4, <1>5, <1>6 DEF Operation

(***************************************************************************)
(* The postings of a conversion: what moves, what comes back, and the      *)
(* slippage if an account takes it.                                        *)
(***************************************************************************)
LEMMA ConvertPostingsFacts ==
    ASSUME NEW op \in Convert
    PROVE  /\ ConvertPostings(op) \in Seq(Posting)
           /\ \A n \in DOMAIN ConvertPostings(op) :
                 \/ ConvertPostings(op)[n].source = op.destination
                 \/ /\ ConvertPostings(op)[n].source = op.source
                    /\ ConvertPostings(op)[n].asset = op.sourceAsset
                    /\ ConvertPostings(op)[n].amount <= op.sourceAmount + op.slippage
  <1> DEFINE move(src, dst, amount, asset) ==
                [source |-> src, destination |-> dst, asset |-> asset, amount |-> amount]
             p1 == move(op.source, op.destination, op.sourceAmount, op.sourceAsset)
             p2 == move(op.destination, op.source, op.destAmount, op.destAsset)
             p3 == move(op.source, op.slippageAccount, op.slippage, op.sourceAsset)
             slips == op.slippage > 0 /\ op.slippageAccount # NoAccount
  <1>1. /\ op.source \in Accounts /\ op.destination \in Accounts
        /\ op.sourceAsset \in Assets /\ op.destAsset \in Assets
        /\ op.sourceAmount \in Nat \ {0} /\ op.destAmount \in Nat \ {0}
        /\ op.slippage \in Nat /\ op.slippageAccount \in Accounts \cup {NoAccount}
    BY DEF Convert, Amount
  <1>2. p1 \in Posting /\ p2 \in Posting
    BY <1>1 DEF Posting, Amount
  <1>3. slips => p3 \in Posting
    BY <1>1 DEF Posting, Amount
  <1>4. ConvertPostings(op) = <<p1, p2>> \o IF slips THEN <<p3>> ELSE <<>>
    BY DEF ConvertPostings
  <1>5. /\ p1.source = op.source /\ p1.asset = op.sourceAsset /\ p1.amount = op.sourceAmount
        /\ p2.source = op.destination
        /\ p3.source = op.source /\ p3.asset = op.sourceAsset /\ p3.amount = op.slippage
    OBVIOUS
  <1>6. op.sourceAmount <= op.sourceAmount + op.slippage /\ op.slippage <= op.sourceAmount + op.slippage
    BY <1>1
  <1> HIDE DEF p1, p2, p3, slips, move
  <1>7. CASE slips
    <2> DEFINE a == <<p1, p2>>
               b == <<p3>>
    <2>1. /\ a \in Seq(Posting) /\ Len(a) = 2 /\ a[1] = p1 /\ a[2] = p2
          /\ b \in Seq(Posting) /\ Len(b) = 1 /\ b[1] = p3
      BY <1>2, <1>3, <1>7
    <2>2. ConvertPostings(op) = a \o b
      BY <1>4, <1>7
    <2> HIDE DEF a, b
    <2>3. /\ a \o b \in Seq(Posting) /\ Len(a \o b) = 3
          /\ (a \o b)[1] = p1 /\ (a \o b)[2] = p2 /\ (a \o b)[3] = p3
      BY <2>1, ConcatProperties, SMTT(30)
    <2>4. DOMAIN ConvertPostings(op) = 1..3
      BY <2>2, <2>3
    <2>5. \A n \in 1..3 : n = 1 \/ n = 2 \/ n = 3
      OBVIOUS
    <2>6. \A n \in 1..3 : ConvertPostings(op)[n] \in {p1, p2, p3}
      BY <2>2, <2>3, <2>5
    <2> QED
      BY <1>5, <1>6, <2>2, <2>3, <2>4, <2>6
  <1>8. CASE ~slips
    <2>1. ConvertPostings(op) = <<p1, p2>>
      BY <1>2, <1>4, <1>8
    <2>2. <<p1, p2>> \in Seq(Posting) /\ DOMAIN <<p1, p2>> = 1..2
      BY <1>2
    <2>3. \A n \in 1..2 : <<p1, p2>>[n] \in {p1, p2}
      BY <2>2
    <2> QED
      BY <1>5, <1>6, <2>1, <2>2, <2>3
  <1> QED
    BY <1>7, <1>8

(***************************************************************************)
(* Reversed postings are postings.                                         *)
(***************************************************************************)
LEMMA ReversePostingsFacts ==
    ASSUME NEW ps \in Seq(Posting)
    PROVE  ReversePostings(ps) \in Seq(Posting)
  <1>1. Len(ps) \in Nat /\ DOMAIN ps = 1..Len(ps) /\ \A n \in DOMAIN ps : ps[n] \in Posting
    BY PostingFacts
  <1>2. \A p \in Posting :
           [p EXCEPT !.source = p.destination, !.destination = p.source] \in Posting
    BY DEF Posting
  <1>3. ReversePostings(ps) \in [1..Len(ps) -> Posting]
    BY <1>1, <1>2 DEF ReversePostings
  <1> QED
    BY <1>1, <1>3, SeqDef

(***************************************************************************)
(* What an operation moves are postings.                                   *)
(***************************************************************************)
LEMMA PostingsTyped ==
    ASSUME NEW op \in Operation, NEW d, Sound(d), Typed(d),
           op.op \in HoldOps => HoldAllows(op, d),
           op.op = "revert" => op.tx \in DOMAIN d.txs
    PROVE  PostingsOf(op, d) \in Seq(Posting)
  <1>1. CASE op.op = "post"
    BY <1>1, OperationKinds DEF PostingsOf, Post
  <1>2. CASE op.op = "convert"
    BY <1>2, OperationKinds, ConvertPostingsFacts DEF PostingsOf
  <1>3. CASE op.op = "revert"
    <2>1. d.txs[op.tx] \in Seq(Posting)
      BY <1>3 DEF Typed
    <2> QED
      BY <1>3, <2>1, ReversePostingsFacts DEF PostingsOf
  <1>4. CASE op.op = "capture"
    <2>1. /\ op.amount \in Nat \ {0} /\ op.destination \in Accounts \cup {NoAccount}
      BY <1>4, OperationKinds DEF Capture, Amount
    <2>2. op.hold \in DOMAIN d.holds /\ CaptureDestination(op, d) # NoAccount
      BY <1>4 DEF HoldAllows, HoldOps
    <2>3. d.holds[op.hold] \in Hold
      BY <2>2, SoundHolds
    <2>4. /\ d.holds[op.hold].source \in Accounts /\ d.holds[op.hold].asset \in Assets
          /\ d.holds[op.hold].hint \in Accounts \cup {NoAccount}
      BY <2>3 DEF Hold
    <2>5. CaptureDestination(op, d) \in Accounts
      BY <2>1, <2>2, <2>4 DEF CaptureDestination
    <2> DEFINE p == [source |-> d.holds[op.hold].source, destination |-> CaptureDestination(op, d),
                     asset |-> d.holds[op.hold].asset, amount |-> op.amount]
    <2>6. p \in Posting
      BY <2>1, <2>4, <2>5 DEF Posting, Amount
    <2>7. PostingsOf(op, d) = <<p>>
      BY <1>4 DEF PostingsOf
    <2> HIDE DEF p
    <2> QED
      BY <2>6, <2>7
  <1>5. CASE op.op \in {"authorize", "void", "expire"}
    <2>1. PostingsOf(op, d) = <<>>
      BY <1>5 DEF PostingsOf
    <2> QED
      BY <2>1
  <1> QED
    BY <1>1, <1>2, <1>3, <1>4, <1>5, OperationFacts

(***************************************************************************)
(* An operation whose demands are met leaves every account that is no      *)
(* issuer with what its holds reserve.  This is what checkSourceBalances   *)
(* and the checks of doAuthorizeInTx, doConvertInTx and doRevertInTx are   *)
(* for; a capture needs none, since its hold gives up what it takes.       *)
(***************************************************************************)
LEMMA ApplyCovered ==
    ASSUME NEW op \in Operation, NEW d, Sound(d), Typed(d), Covered(d), Guarded(op),
           op.op \in HoldOps => HoldAllows(op, d),
           op.op = "revert" => op.tx \in DOMAIN d.txs,
           ~DuplicateLeg(PostingsOf(op, d)),
           \A c \in Demands(op, d) : DemandMet(c, d)
    PROVE  Covered(Apply(op, d))
  <1> SUFFICES ASSUME NEW account \in Accounts \ Issuers, NEW asset \in Assets
               PROVE  Available(Apply(op, d), account, asset) >= 0
    BY DEF Covered
  <1> DEFINE e == Apply(op, d)
             ps == PostingsOf(op, d)
  <1>1. e.holds = HoldsAfter(op, d) /\ e.volumes = Moved(d.volumes, ps)
    BY ApplyEffect
  <1>2. ps \in Seq(Posting)
    BY PostingsTyped
  <1>3. Sound(e)
    BY ApplySound
  <1> SUFFICES Available(e, account, asset) >= 0
    OBVIOUS
  <1> HIDE DEF e, ps
  <1>4. PICK out \in Nat : out = Outflow(ps, account, asset)
    BY <1>2, FlowFacts
  <1>5. PICK inn \in Nat : inn = Inflow(ps, account, asset)
    BY <1>2, FlowFacts
  <1>6. PICK held \in Nat : held = ActiveHoldsTotal(d, account, asset)
    BY SoundHolds
  <1>7. PICK v \in Int : /\ v = d.volumes[<<account, asset>>]
                         /\ e.volumes[<<account, asset>>] = v - out + inn
    <2>1. d.volumes \in [Bucket -> Int] /\ account \in Accounts
      BY DEF Typed
    <2>2. /\ d.volumes[<<account, asset>>] \in Int
          /\ Moved(d.volumes, ps)[<<account, asset>>] =
                d.volumes[<<account, asset>>] - Outflow(ps, account, asset)
                   + Inflow(ps, account, asset)
      BY <1>2, <2>1, MovedFacts
    <2> QED
      BY <1>1, <1>4, <1>5, <2>2
  <1>8. Available(d, account, asset) = v - held /\ v - held >= 0
    BY <1>6, <1>7 DEF Available, Covered
  \* Enough: what is taken beyond what is given was available, or was reserved.
  <1>9. ASSUME NEW after \in Nat, after = ActiveHoldsTotal(e, account, asset),
               v - out + inn >= after
        PROVE  Available(e, account, asset) >= 0
    BY <1>7, <1>9 DEF Available
  <1>10. ASSUME \A n \in DOMAIN ps : ps[n].source # account \/ ps[n].asset # asset
         PROVE  out = 0
    BY <1>2, <1>4, <1>10, FlowFacts
  <1>11. ASSUME NEW M \in Nat,
                \A n \in DOMAIN ps : ps[n].source = account /\ ps[n].asset = asset => ps[n].amount <= M
         PROVE  out <= M
    BY <1>2, <1>4, <1>11, OutflowBounded DEF ps
  \* Operations that leave the holds alone.
  <1>12. ASSUME op.op \in {"post", "convert", "revert"}, out - inn <= v - held
         PROVE  Available(e, account, asset) >= 0
    <2>1. e.holds = d.holds
      BY <1>1, <1>12 DEF HoldsAfter
    <2>2. ActiveHoldsTotal(e, account, asset) = held
      BY <1>6, <2>1 DEF ActiveHoldsTotal
    <2> QED
      BY <1>9, <1>12, <2>2
  <1>13. CASE op.op = "post"
    <2>1. ps = op.postings /\ Demands(op, d) = {c \in PostDemands(op.postings) : c.account \notin Issuers}
      BY <1>13 DEF ps, PostingsOf, Demands
    <2>2. CASE \A n \in DOMAIN ps : ps[n].source # account \/ ps[n].asset # asset
      BY <1>8, <1>10, <1>12, <1>13, <2>2
    <2>3. ASSUME NEW n \in DOMAIN ps, ps[n].source = account, ps[n].asset = asset
          PROVE  out - inn <= v - held
      <3> DEFINE c == Demand(account, asset, out - inn)
      <3>1. c.account = account /\ c.asset = asset /\ c.amount = out - inn
        BY DEF Demand
      <3>2. c \in PostDemands(op.postings)
        BY <1>4, <1>5, <2>1, <2>3 DEF PostDemands
      <3> HIDE DEF c
      <3>3. DemandMet(c, d)
        BY <2>1, <3>1, <3>2
      <3> QED
        BY <1>8, <3>1, <3>3 DEF DemandMet
    <2> QED
      BY <1>12, <1>13, <2>2, <2>3
  <1>14. CASE op.op = "convert"
    <2>1. ps = ConvertPostings(op) /\ Demands(op, d) = {c \in ConvertDemands(op) : c.account \notin Issuers}
      BY <1>14 DEF ps, PostingsOf, Demands
    <2>2. op \in Convert /\ op.destination \in Issuers
      BY <1>14, OperationKinds DEF Guarded
    <2>3. op.sourceAmount + op.slippage \in Nat
      BY <2>2 DEF Convert, Amount
    <2>4. \A n \in DOMAIN ps : ps[n].source = account =>
             /\ op.source = account /\ ps[n].asset = op.sourceAsset
             /\ ps[n].amount <= op.sourceAmount + op.slippage
      BY <2>1, <2>2, ConvertPostingsFacts
    <2>5. CASE op.source = account /\ op.sourceAsset = asset
      <3> DEFINE c == Demand(op.source, op.sourceAsset, op.sourceAmount + op.slippage)
      <3>1. c.account = account /\ c.asset = asset /\ c.amount = op.sourceAmount + op.slippage
        BY <2>5 DEF Demand
      <3>2. c \in ConvertDemands(op)
        BY DEF ConvertDemands
      <3> HIDE DEF c
      <3>3. op.sourceAmount + op.slippage <= v - held
        BY <1>8, <2>1, <2>3, <3>1, <3>2 DEF DemandMet
      <3>4. out <= op.sourceAmount + op.slippage
        BY <1>11, <2>3, <2>4
      <3> QED
        BY <1>12, <1>14, <2>3, <3>3, <3>4
    <2>6. CASE ~(op.source = account /\ op.sourceAsset = asset)
      <3>1. out = 0
        BY <1>10, <2>4, <2>6
      <3> QED
        BY <1>8, <1>12, <1>14, <3>1
    <2> QED
      BY <2>5, <2>6
  <1>15. CASE op.op = "revert"
    <2>1. /\ ps = ReversePostings(d.txs[op.tx])
          /\ Demands(op, d) = {c \in RevertDemands(op, d) : c.account \notin Issuers}
      BY <1>15 DEF ps, PostingsOf, Demands
    <2>2. RevertDemands(op, d) = {Demand(p.source, p.asset, p.amount) : p \in Range(ps)}
      BY <1>15, <2>1 DEF RevertDemands, Guarded
    <2>3. v - held \in Nat
      BY <1>8
    <2>4. ASSUME NEW n \in DOMAIN ps, ps[n].source = account, ps[n].asset = asset
          PROVE  ps[n].amount <= v - held
      <3> DEFINE c == Demand(ps[n].source, ps[n].asset, ps[n].amount)
      <3>1. c.account = account /\ c.asset = asset /\ c.amount = ps[n].amount
        BY <2>4 DEF Demand
      <3>2. c \in RevertDemands(op, d)
        BY <2>2, <2>4 DEF Range
      <3> HIDE DEF c
      <3>3. DemandMet(c, d)
        BY <2>1, <3>1, <3>2
      <3>4. ps[n].amount \in Nat
        BY <1>2, PostingFacts
      <3> QED
        BY <1>8, <3>1, <3>3, <3>4 DEF DemandMet
    <2>5. out <= v - held
      BY <1>11, <2>3, <2>4
    <2> QED
      BY <1>12, <1>15, <2>3, <2>5
  <1>16. CASE op.op = "authorize"
    <2> DEFINE new == [source |-> op.source, hint |-> op.hint, asset |-> op.asset,
                       authorized |-> op.amount, captured |-> 0,
                       voided |-> FALSE, expired |-> FALSE]
               c == Demand(op.source, op.asset, op.amount)
    <2>1. new \in Hold /\ e.holds = Append(d.holds, new) /\ op.amount \in Nat
      BY <1>1, <1>16, OperationFacts, OperationKinds DEF HoldsAfter, Authorize, Amount
    <2>2. ps = <<>>
      BY <1>16 DEF ps, PostingsOf
    <2>3. out = 0
      BY <1>10, <2>2
    <2>4. /\ op.source = account /\ op.asset = asset => Reserved(new, account, asset) = op.amount
          /\ ~(op.source = account /\ op.asset = asset) => Reserved(new, account, asset) = 0
      BY <2>1 DEF Reserved, OpenHold
    <2>5. c.account = op.source /\ c.asset = op.asset /\ c.amount = op.amount
      BY DEF Demand
    <2>6. Demands(op, d) = {k \in {c} : k.account \notin Issuers}
      BY <1>16 DEF Demands
    <2> HIDE DEF new, c
    <2>7. ActiveHoldsTotal(e, account, asset) = held + Reserved(new, account, asset)
      BY <1>3, <1>6, <2>1, HoldsTotalOfMore
    <2>8. CASE op.source = account /\ op.asset = asset
      <3>1. DemandMet(c, d)
        BY <2>5, <2>6, <2>8
      <3>2. op.amount <= v - held
        BY <1>8, <2>1, <2>5, <2>8, <3>1 DEF DemandMet
      <3> QED
        BY <1>9, <2>1, <2>3, <2>4, <2>7, <2>8, <3>2
    <2>9. CASE ~(op.source = account /\ op.asset = asset)
      BY <1>8, <1>9, <2>3, <2>4, <2>7, <2>9
    <2> QED
      BY <2>8, <2>9
  <1>17. CASE op.op \in HoldOps
    <2> DEFINE k == op.hold
               old == d.holds[k]
    <2>1. k \in DOMAIN d.holds /\ OpenHold(old)
      BY <1>17 DEF HoldAllows
    <2>2. old \in Hold /\ Reserved(old, account, asset) \in Nat /\ old.captured <= old.authorized
      BY <2>1, SoundHolds
    <2>3. /\ DOMAIN e.holds = DOMAIN d.holds
          /\ \A h \in DOMAIN d.holds : h # k => e.holds[h] = d.holds[h]
          /\ e.holds[k] = IF op.op = "capture" THEN [old EXCEPT !.captured = @ + op.amount]
                          ELSE IF op.op = "void" THEN [old EXCEPT !.voided = TRUE]
                          ELSE [old EXCEPT !.expired = TRUE]
      BY <1>1, <1>17, <2>1 DEF HoldsAfter, HoldOps
    <2> DEFINE new == e.holds[k]
    <2> HIDE DEF k, old, new
    <2>4. PICK before \in Nat : before = Reserved(old, account, asset)
      BY <2>2
    <2>5. PICK now \in Nat : now = Reserved(new, account, asset)
      BY <1>3, <2>1, <2>3, SoundHolds DEF new
    <2>6. PICK after \in Nat : after = ActiveHoldsTotal(e, account, asset)
      BY <1>3, SoundHolds
    <2>7. after = held - before + now
      BY <1>3, <1>6, <2>1, <2>3, <2>4, <2>5, <2>6, HoldsTotalWithChange DEF old, new
    <2>8. ASSUME out + now <= before
          PROVE  Available(e, account, asset) >= 0
      BY <1>8, <1>9, <2>6, <2>7, <2>8
    <2>9. CASE op.op = "capture"
      <3>1. PICK amount \in Nat : amount = op.amount
        BY <2>9, OperationFacts
      <3>2. /\ new.source = old.source /\ new.asset = old.asset
            /\ new.authorized = old.authorized /\ new.captured = old.captured + amount
            /\ OpenHold(new)
        BY <2>1, <2>2, <2>3, <2>9, <3>1 DEF new, Hold, OpenHold
      <3>3. ps = <<[source |-> old.source, destination |-> CaptureDestination(op, d),
                    asset |-> old.asset, amount |-> amount]>>
        BY <2>9, <3>1 DEF ps, PostingsOf, old, k
      <3>4. \A n \in DOMAIN ps : ps[n].source = old.source /\ ps[n].asset = old.asset
                                 /\ ps[n].amount = amount
        BY <3>3
      <3>5. old.captured \in Nat /\ old.authorized \in Nat
        BY <2>2 DEF Hold, Amount
      <3>6. CASE old.source = account /\ old.asset = asset
        <4>1. out <= amount
          BY <1>11, <3>1, <3>4
        <4>2. before = old.authorized - old.captured /\ now = old.authorized - (old.captured + amount)
          BY <2>1, <2>4, <2>5, <3>2, <3>6 DEF Reserved
        <4> QED
          BY <2>8, <3>1, <3>5, <4>1, <4>2
      <3>7. CASE ~(old.source = account /\ old.asset = asset)
        <4>1. out = 0
          BY <1>10, <3>4, <3>7
        <4>2. now = 0
          BY <2>5, <3>2, <3>7 DEF Reserved
        <4> QED
          BY <2>8, <4>1, <4>2
      <3> QED
        BY <3>6, <3>7
    <2>10. CASE op.op \in {"void", "expire"}
      <3>1. ~OpenHold(new)
        BY <2>2, <2>3, <2>10 DEF new, Hold, OpenHold
      <3>2. now = 0
        BY <2>5, <3>1 DEF Reserved
      <3>3. ps = <<>>
        BY <2>10 DEF ps, PostingsOf
      <3>4. out = 0
        BY <1>10, <3>3
      <3> QED
        BY <2>8, <3>2, <3>4
    <2> QED
      BY <1>17, <2>9, <2>10 DEF HoldOps
  <1> QED
    BY <1>13, <1>14, <1>15, <1>16, <1>17, OperationFacts DEF HoldOps

(***************************************************************************)
(* Balances stay numbers and transactions postings.                        *)
(***************************************************************************)
LEMMA ApplyTyped ==
    ASSUME NEW op \in Operation, NEW d, Sound(d), Typed(d),
           op.op \in HoldOps => HoldAllows(op, d),
           op.op = "revert" => op.tx \in DOMAIN d.txs
    PROVE  Typed(Apply(op, d))
  <1> DEFINE ps == PostingsOf(op, d)
  <1>1. /\ Apply(op, d).volumes = Moved(d.volumes, ps)
        /\ Apply(op, d).txs = IF op.op \in {"post", "convert", "revert"}
                              THEN Append(d.txs, ps) ELSE d.txs
    BY DEF Apply
  <1>2. ps \in Seq(Posting)
    BY PostingsTyped
  <1> HIDE DEF ps
  <1>3. d.volumes \in [Bucket -> Int] /\ d.txs \in Seq(Seq(Posting))
    BY DEF Typed
  <1>4. Moved(d.volumes, ps) \in [Bucket -> Int]
    BY <1>2, <1>3, MovedFacts
  <1>5. Append(d.txs, ps) \in Seq(Seq(Posting))
    BY <1>2, <1>3
  <1> QED
    BY <1>1, <1>3, <1>4, <1>5 DEF Typed

(***************************************************************************)
(* An operation takes no transaction away.                                 *)
(***************************************************************************)
LEMMA ApplyKeepsTxs ==
    ASSUME NEW op \in Operation, NEW d, Sound(d), Typed(d),
           op.op \in HoldOps => HoldAllows(op, d),
           op.op = "revert" => op.tx \in DOMAIN d.txs
    PROVE  DOMAIN d.txs \subseteq DOMAIN Apply(op, d).txs
  <1> DEFINE ps == PostingsOf(op, d)
  <1>1. Apply(op, d).txs = IF op.op \in {"post", "convert", "revert"}
                           THEN Append(d.txs, ps) ELSE d.txs
    BY DEF Apply
  <1>2. ps \in Seq(Posting) /\ d.txs \in Seq(Seq(Posting))
    BY PostingsTyped DEF Typed
  <1> HIDE DEF ps
  <1>3. DOMAIN d.txs \subseteq DOMAIN Append(d.txs, ps)
    BY <1>2
  <1> QED
    BY <1>1, <1>3

\* Tables without a row are typed.
LEMMA EmptyIsTyped == Typed(EmptyDatabase)
  <1>1. EmptyDatabase.volumes = [b \in Bucket |-> 0] /\ EmptyDatabase.txs = <<>>
    BY DEF EmptyDatabase
  <1> HIDE DEF EmptyDatabase
  <1> QED
    BY <1>1 DEF Typed

-----------------------------------------------------------------------------
(***************************************************************************)
(* A worker that does not move keeps what it found, if the tables it sees  *)
(* lose no transaction and its own draft is left alone.                    *)
(***************************************************************************)
LEMMA OthersKeepChecks ==
    ASSUME NEW v \in Workers, OriginalFound(v), DemandsChecked(v),
           worker'[v] = worker[v],
           DOMAIN Visible(v).txs \subseteq DOMAIN Visible(v)'.txs,
           rowLock' = v => rowLock = v /\ draft' = draft
    PROVE  OriginalFound(v)' /\ DemandsChecked(v)'
  <1>1. Op(v)' = Op(v)
    BY DEF Op
  <1>2. OriginalFound(v)'
    BY <1>1 DEF OriginalFound
  <1>3. CASE rowLock' = v
    <2>1. draft' = draft /\ rowLock = v
      BY <1>3
    <2>2. PICK d : d = draft /\ d = draft'
      BY <2>1
    <2>3. PICK op : op = Op(v) /\ op = Op(v)'
      BY <1>1
    <2> QED
      BY <1>2, <1>3, <2>1, <2>2, <2>3 DEF DemandsChecked
  <1>4. CASE rowLock' # v
    BY <1>2, <1>4 DEF DemandsChecked
  <1> QED
    BY <1>3, <1>4

\* A step of one worker that writes no table keeps the invariant if it keeps what the
\* worker found.
LEMMA ReadStepBInv ==
    ASSUME BInv, NEW w \in Workers, UNCHANGED <<db, draft, rowLock>>,
           \A v \in Workers \ {w} : worker'[v] = worker[v],
           OriginalFound(w)', DemandsChecked(w)'
    PROVE  BInv'
  <1>1. db' = db /\ draft' = draft /\ rowLock' = rowLock
    OBVIOUS
  <1>2. Typed(db)' /\ Typed(draft)' /\ DraftKeepsTxs'
    BY <1>1 DEF BInv, Typed, DraftKeepsTxs
  <1>3. ASSUME NEW v \in Workers \ {w} PROVE OriginalFound(v)' /\ DemandsChecked(v)'
    <2>1. OriginalFound(v) /\ DemandsChecked(v) /\ worker'[v] = worker[v]
      BY DEF BInv
    <2>2. Visible(v)' = Visible(v)
      BY <1>1 DEF Visible
    <2> QED
      BY <1>1, <2>1, <2>2, OthersKeepChecks
  <1> QED
    BY <1>2, <1>3 DEF BInv

\* A step after which the worker checks nothing.
LEMMA RestingBInv ==
    ASSUME BInv, NEW w \in Workers, UNCHANGED <<db, draft, rowLock>>,
           \A v \in Workers \ {w} : worker'[v] = worker[v],
           worker'[w].pc \notin {"check", "holds"}
    PROVE  BInv'
  <1>1. OriginalFound(w)' /\ DemandsChecked(w)'
    BY DEF OriginalFound, DemandsChecked
  <1> QED
    BY <1>1, ReadStepBInv

(***************************************************************************)
(* The end of a transaction without a commit.                              *)
(***************************************************************************)
LEMMA AbortBInv ==
    ASSUME IInv, BInv, NEW w \in Workers, NEW outcome, Abort(w, outcome)
    PROVE  BInv'
  <1>1. /\ db' = db
        /\ worker'[w] = Idle(outcome) /\ \A v \in Workers \ {w} : worker'[v] = worker[v]
    BY DEF Abort, EndTx, IInv, Shape
  <1>2. worker'[w].pc = "idle"
    BY <1>1, IdleIsOK
  <1>3. CASE rowLock # w
    <2>1. UNCHANGED <<db, draft, rowLock>>
      BY <1>3 DEF Abort, EndTx
    <2> QED
      BY <1>1, <1>2, <2>1, RestingBInv
  <1>4. CASE rowLock = w
    <2>1. draft' = EmptyDatabase /\ rowLock' = NoWorker
      BY <1>4 DEF Abort, EndTx
    <2>2. Typed(db)' /\ Typed(draft)' /\ DraftKeepsTxs'
      BY <1>1, <2>1, EmptyIsTyped DEF BInv, Typed, DraftKeepsTxs
    <2>3. OriginalFound(w)' /\ DemandsChecked(w)'
      BY <1>2 DEF OriginalFound, DemandsChecked
    <2>4. ASSUME NEW v \in Workers \ {w} PROVE OriginalFound(v)' /\ DemandsChecked(v)'
      <3>1. Visible(v) = db /\ Visible(v)' = db /\ rowLock' # v
        BY <1>1, <1>4, <2>1, BalancesAssumption DEF Visible
      <3>2. OriginalFound(v) /\ DemandsChecked(v) /\ worker'[v] = worker[v]
        BY <1>1 DEF BInv
      <3> QED
        BY <3>1, <3>2, OthersKeepChecks
    <2> QED
      BY <2>2, <2>3, <2>4 DEF BInv
  <1> QED
    BY <1>3, <1>4

\* The checks begin: all that is demanded is to be checked.
LEMMA ToCheckBInv ==
    ASSUME IInv, BInv, NEW w \in Workers, NEW demands, worker[w].pc = "start",
           ToCheck(w, demands),
           Op(w).op = "revert" => Op(w).tx \in DOMAIN Visible(w).txs,
           Demands(Op(w), Visible(w)) \subseteq demands
    PROVE  BInv'
  <1>1. WorkerOK(worker[w]) /\ worker = [v \in Workers |-> worker[v]]
    BY DEF IInv, Shape
  <1>2. /\ worker'[w].request = worker[w].request /\ worker'[w].pos = worker[w].pos
        /\ worker'[w].pc = "check" /\ worker'[w].todo = demands
        /\ UNCHANGED <<db, draft, rowLock>>
        /\ \A v \in Workers \ {w} : worker'[v] = worker[v]
    BY <1>1 DEF ToCheck, WorkerOK
  <1>3. Op(w)' = Op(w) /\ Visible(w)' = Visible(w)
    BY <1>2 DEF Op, Visible
  <1>4. OriginalFound(w)'
    BY <1>3 DEF OriginalFound
  <1>5. DemandsChecked(w)'
    <2>1. CASE rowLock = w
      <3>1. PICK d : d = draft /\ d = draft' /\ d = Visible(w)
        BY <1>2, <2>1 DEF Visible
      <3>2. PICK op : op = Op(w) /\ op = Op(w)'
        BY <1>3
      <3> QED
        BY <1>2, <3>1, <3>2 DEF DemandsChecked
    <2>2. CASE rowLock # w
      BY <1>2, <2>2 DEF DemandsChecked
    <2> QED
      BY <2>1, <2>2
  <1> QED
    BY <1>2, <1>4, <1>5, ReadStepBInv

\* The three ways an operation starts.
LEMMA StartBInv ==
    ASSUME IInv, BInv, NEW w \in Workers, StartPosting(w) \/ StartRevert(w) \/ LockHold(w)
    PROVE  BInv'
  <1>1. CASE StartPosting(w)
    <2>1. worker[w].pc = "start" /\ ToCheck(w, Demands(Op(w), Visible(w))) /\ Op(w).op # "revert"
      BY <1>1 DEF StartPosting
    <2> QED
      BY <2>1, ToCheckBInv
  <1>2. CASE StartRevert(w)
    <2>1. CASE Abort(w, "refused")
      BY <2>1, AbortBInv
    <2>2. CASE Op(w).tx \in DOMAIN Visible(w).txs /\ ToCheck(w, Demands(Op(w), Visible(w)))
      BY <1>2, <2>2, ToCheckBInv DEF StartRevert
    <2> QED
      BY <1>2, <2>1, <2>2 DEF StartRevert
  <1>3. CASE LockHold(w)
    <2>1. CASE \E outcome : Abort(w, outcome)
      BY <2>1, AbortBInv
    <2>2. CASE ToCheck(w, {})
      <3>1. worker[w].pc = "start" /\ Op(w).op \in HoldOps
        BY <1>3 DEF LockHold
      <3>2. Demands(Op(w), Visible(w)) = {}
        BY <3>1 DEF Demands, HoldOps
      <3> QED
        BY <2>2, <3>1, <3>2, ToCheckBInv DEF HoldOps
    <2> QED
      BY <1>3, <2>1, <2>2 DEF LockHold
  <1> QED
    BY <1>1, <1>2, <1>3

\* The first statement of a balance check.
LEMMA GetBalanceBInv ==
    ASSUME IInv, BInv, NEW w \in Workers, GetBalance(w)
    PROVE  BInv'
  <1>1. WorkerOK(worker[w]) /\ worker = [v \in Workers |-> worker[v]]
    BY DEF IInv, Shape
  <1>2. PICK c \in worker[w].todo :
           worker' = [worker EXCEPT ![w].pc = "holds", ![w].todo = @ \ {c}, ![w].demand = c,
                         ![w].balance = Visible(w).volumes[<<c.account, c.asset>>]]
    BY DEF GetBalance
  <1>3. worker[w].pc = "check" /\ UNCHANGED <<db, draft, rowLock>>
    BY DEF GetBalance
  <1>4. /\ worker'[w].request = worker[w].request /\ worker'[w].pos = worker[w].pos
        /\ worker'[w].pc = "holds" /\ worker'[w].todo = worker[w].todo \ {c}
        /\ worker'[w].demand = c
        /\ worker'[w].balance = Visible(w).volumes[<<c.account, c.asset>>]
        /\ \A v \in Workers \ {w} : worker'[v] = worker[v]
    BY <1>1, <1>2 DEF WorkerOK
  <1>5. Op(w)' = Op(w) /\ Visible(w)' = Visible(w)
    BY <1>3, <1>4 DEF Op, Visible
  <1>6. OriginalFound(w)'
    BY <1>3, <1>5 DEF BInv, OriginalFound
  <1>7. DemandsChecked(w)'
    <2>1. CASE rowLock = w
      <3>1. PICK d : d = draft /\ d = draft' /\ d = Visible(w)
        BY <1>3, <2>1 DEF Visible
      <3>2. PICK op : op = Op(w) /\ op = Op(w)'
        BY <1>5
      <3>3. \A k \in Demands(op, d) : k \in worker[w].todo \/ DemandMet(k, d)
        BY <1>3, <2>1, <3>1, <3>2 DEF BInv, DemandsChecked
      <3> QED
        BY <1>4, <3>1, <3>2, <3>3 DEF DemandsChecked
    <2>2. CASE rowLock # w
      BY <1>3, <2>2 DEF DemandsChecked
    <2> QED
      BY <2>1, <2>2
  <1> QED
    BY <1>3, <1>4, <1>6, <1>7, ReadStepBInv

\* The second statement, and the comparison.
LEMMA GetActiveHoldsTotalBInv ==
    ASSUME IInv, BInv, NEW w \in Workers, GetActiveHoldsTotal(w)
    PROVE  BInv'
  <1>1. WorkerOK(worker[w]) /\ worker = [v \in Workers |-> worker[v]]
    BY DEF IInv, Shape
  <1>2. CASE Abort(w, "insufficient")
    BY <1>2, AbortBInv
  <1>3. CASE /\ worker' = [worker EXCEPT ![w].pc = "check", ![w].demand = NoDemand,
                                         ![w].balance = 0]
             /\ UNCHANGED <<db, draft, rowLock, holdLocks, started>>
             /\ worker[w].balance
                   - ActiveHoldsTotal(Visible(w), worker[w].demand.account, worker[w].demand.asset)
                   >= worker[w].demand.amount
    <2>1. worker[w].pc = "holds"
      BY DEF GetActiveHoldsTotal
    <2>2. /\ worker'[w].request = worker[w].request /\ worker'[w].pos = worker[w].pos
          /\ worker'[w].pc = "check" /\ worker'[w].todo = worker[w].todo
          /\ UNCHANGED <<db, draft, rowLock>>
          /\ \A v \in Workers \ {w} : worker'[v] = worker[v]
      BY <1>1, <1>3 DEF WorkerOK
    <2>3. Op(w)' = Op(w) /\ Visible(w)' = Visible(w)
      BY <2>2 DEF Op, Visible
    <2>4. OriginalFound(w)'
      BY <2>1, <2>3 DEF BInv, OriginalFound
    <2>5. DemandsChecked(w)'
      <3>1. CASE rowLock = w
        <4>1. PICK d : d = draft /\ d = draft' /\ d = Visible(w)
          BY <2>2, <3>1 DEF Visible
        <4>2. PICK op : op = Op(w) /\ op = Op(w)'
          BY <2>3
        <4>3. /\ \A k \in Demands(op, d) :
                    k \in worker[w].todo \/ k = worker[w].demand \/ DemandMet(k, d)
              /\ worker[w].balance = d.volumes[<<worker[w].demand.account, worker[w].demand.asset>>]
          BY <2>1, <3>1, <4>1, <4>2 DEF BInv, DemandsChecked
        <4>4. DemandMet(worker[w].demand, d)
          BY <1>3, <4>1, <4>3 DEF DemandMet, Available
        <4> QED
          BY <2>2, <4>1, <4>2, <4>3, <4>4 DEF DemandsChecked
      <3>2. CASE rowLock # w
        BY <2>2, <3>2 DEF DemandsChecked
      <3> QED
        BY <3>1, <3>2
    <2> QED
      BY <2>2, <2>4, <2>5, ReadStepBInv
  <1> QED
    BY <1>2, <1>3 DEF GetActiveHoldsTotal

(***************************************************************************)
(* The write: what was found is still there, so postings are written, and  *)
(* nobody else sees them.                                                  *)
(***************************************************************************)
LEMMA WriteBInv ==
    ASSUME IInv, BInv, NEW w \in Workers, Write(w)
    PROVE  BInv'
  <1>1. WorkerOK(worker[w]) /\ worker = [v \in Workers |-> worker[v]]
    BY DEF IInv, Shape
  <1>2. CASE Abort(w, "refused") \/ Abort(w, "constraint")
    BY <1>2, AbortBInv
  <1>3. CASE /\ rowLock' = w
             /\ draft' = Apply(Op(w), Visible(w))
             /\ worker' = [worker EXCEPT
                             ![w].pc = IF worker[w].pos = Len(worker[w].request.ops)
                                       THEN "commit" ELSE "start",
                             ![w].pos = @ + 1]
             /\ UNCHANGED <<db, holdLocks, started>>
    <2>1. worker[w].pc = "check" /\ rowLock \in {NoWorker, w}
      BY DEF Write
    <2>2. /\ worker'[w].pc \in {"start", "commit"}
          /\ \A v \in Workers \ {w} : worker'[v] = worker[v]
      BY <1>1, <1>3 DEF WorkerOK
    <2>3. /\ Op(w) \in Operation
          /\ Op(w).op \in HoldOps => HoldAllows(Op(w), Visible(w))
          /\ Op(w).op = "revert" => Op(w).tx \in DOMAIN Visible(w).txs
      BY <2>1, OpFacts DEF IInv, HoldsChecked, BInv, OriginalFound
    <2>4. Sound(Visible(w)) /\ Typed(Visible(w))
      BY DEF IInv, BInv, Visible
    <2>5. Typed(draft') /\ DOMAIN Visible(w).txs \subseteq DOMAIN draft'.txs
      BY <1>3, <2>3, <2>4, ApplyTyped, ApplyKeepsTxs
    <2>6. DOMAIN db.txs \subseteq DOMAIN Visible(w).txs
      BY <2>1, BalancesAssumption DEF BInv, DraftKeepsTxs, Visible
    <2>7. Typed(db)' /\ Typed(draft)' /\ DraftKeepsTxs'
      BY <1>3, <2>5, <2>6 DEF BInv, Typed, DraftKeepsTxs
    <2>8. OriginalFound(w)' /\ DemandsChecked(w)'
      BY <2>2 DEF OriginalFound, DemandsChecked
    <2>9. ASSUME NEW v \in Workers \ {w} PROVE OriginalFound(v)' /\ DemandsChecked(v)'
      <3>1. rowLock # v /\ rowLock' # v /\ db' = db
        BY <1>3, <2>1, BalancesAssumption
      <3>2. Visible(v)' = Visible(v)
        BY <3>1 DEF Visible
      <3>3. OriginalFound(v) /\ DemandsChecked(v) /\ worker'[v] = worker[v]
        BY <2>2 DEF BInv
      <3> QED
        BY <3>1, <3>2, <3>3, OthersKeepChecks
    <2> QED
      BY <2>7, <2>8, <2>9 DEF BInv
  <1> QED
    BY <1>2, <1>3 DEF Write

(***************************************************************************)
(* The commit takes no transaction away that another worker has found.     *)
(***************************************************************************)
LEMMA CommitBInv ==
    ASSUME IInv, BInv, NEW w \in Workers, Commit(w)
    PROVE  BInv'
  <1>1. rowLock = w /\ rowLock # NoWorker
    BY BalancesAssumption DEF Commit, IInv, CommitsUnderLock
  <1>2. /\ db' = draft /\ draft' = EmptyDatabase /\ rowLock' = NoWorker
        /\ worker'[w] = Idle("ok") /\ \A v \in Workers \ {w} : worker'[v] = worker[v]
    BY <1>1 DEF Commit, EndTx, IInv, Shape
  <1>3. Typed(db)' /\ Typed(draft)' /\ DraftKeepsTxs'
    BY <1>2, EmptyIsTyped DEF BInv, Typed, DraftKeepsTxs
  <1>4. OriginalFound(w)' /\ DemandsChecked(w)'
    <2>1. worker'[w].pc = "idle"
      BY <1>2, IdleIsOK
    <2> QED
      BY <2>1 DEF OriginalFound, DemandsChecked
  <1>5. ASSUME NEW v \in Workers \ {w} PROVE OriginalFound(v)' /\ DemandsChecked(v)'
    <2>1. Visible(v) = db /\ Visible(v)' = draft /\ rowLock' # v
      BY <1>1, <1>2, BalancesAssumption DEF Visible
    <2>2. DOMAIN db.txs \subseteq DOMAIN draft.txs
      BY <1>1 DEF BInv, DraftKeepsTxs
    <2>3. OriginalFound(v) /\ DemandsChecked(v) /\ worker'[v] = worker[v]
      BY <1>2 DEF BInv
    <2> QED
      BY <2>1, <2>2, <2>3, OthersKeepChecks
  <1> QED
    BY <1>3, <1>4, <1>5 DEF BInv

\* A retried or aborted deadlock victim checks nothing any more.
LEMMA DeadlockBInv ==
    ASSUME IInv, BInv, NEW w \in Workers, Deadlock(w)
    PROVE  BInv'
  <1>1. CASE Abort(w, "deadlock")
    BY <1>1, AbortBInv
  <1>2. CASE /\ worker' = [worker EXCEPT ![w].pc = "start", ![w].try = @ + 1, ![w].pos = 1]
             /\ UNCHANGED <<db, draft, rowLock, started>>
    <2>1. WorkerOK(worker[w]) /\ worker = [v \in Workers |-> worker[v]]
      BY DEF IInv, Shape
    <2>2. worker'[w].pc = "start" /\ \A v \in Workers \ {w} : worker'[v] = worker[v]
      BY <1>2, <2>1 DEF WorkerOK
    <2> QED
      BY <1>2, <2>2, RestingBInv
  <1> QED
    BY <1>1, <1>2 DEF Deadlock

\* A worker that begins checks nothing yet.
LEMMA BeginBInv ==
    ASSUME IInv, BInv, NEW w \in Workers, NEW q \in Requests, Begin(w, q)
    PROVE  BInv'
  <1>1. /\ UNCHANGED <<db, draft, rowLock>> /\ worker'[w].pc = "start"
        /\ \A v \in Workers \ {w} : worker'[v] = worker[v]
    BY DEF Begin, Idle, IInv, Shape
  <1> QED
    BY <1>1, RestingBInv

(***************************************************************************)
(* The invariant of the checks, for any number of workers.                 *)
(***************************************************************************)
THEOREM ChecksInvariance == Spec => [](IInv /\ BInv)
  <1>1. Init => BInv
    <2> SUFFICES ASSUME Init PROVE BInv
      OBVIOUS
    <2>1. /\ db = SetupDatabase /\ draft = EmptyDatabase /\ rowLock = NoWorker
          /\ \A v \in Workers : worker[v] = Idle("none")
      BY DEF Init
    <2>2. Typed(db) /\ Typed(draft)
      BY <2>1, SetupAssumption, EmptyIsTyped
    <2> QED
      BY <2>1, <2>2, IdleIsOK DEF BInv, DraftKeepsTxs, OriginalFound, DemandsChecked
  <1>2. IInv /\ BInv /\ [Next]_vars => BInv'
    <2> SUFFICES ASSUME IInv, BInv, [Next]_vars PROVE BInv'
      OBVIOUS
    <2>1. ASSUME NEW w \in Workers, NEW q \in Requests, Begin(w, q) PROVE BInv'
      BY <2>1, BeginBInv
    <2>2. ASSUME NEW w \in Workers, Step(w) PROVE BInv'
      BY <2>2, StartBInv, GetBalanceBInv, GetActiveHoldsTotalBInv, WriteBInv, CommitBInv,
         DeadlockBInv DEF Step
    <2>3. ASSUME NEW w \in Workers, Fail(w) PROVE BInv'
      BY <2>3, AbortBInv DEF Fail
    <2>4. CASE UNCHANGED vars
      <3>1. UNCHANGED <<db, draft, rowLock>> /\ worker' = worker
        BY <2>4 DEF vars
      <3>2. Typed(db)' /\ Typed(draft)' /\ DraftKeepsTxs'
        BY <3>1 DEF BInv, Typed, DraftKeepsTxs
      <3>3. ASSUME NEW v \in Workers PROVE OriginalFound(v)' /\ DemandsChecked(v)'
        <4>1. OriginalFound(v) /\ DemandsChecked(v) /\ Visible(v)' = Visible(v)
          BY <3>1 DEF BInv, Visible
        <4> QED
          BY <3>1, <4>1, OthersKeepChecks
      <3> QED
        BY <3>2, <3>3 DEF BInv
    <2> QED
      BY <2>1, <2>2, <2>3, <2>4 DEF Next
  <1> QED
    BY <1>1, <1>2, HoldsInvariance, NextIInv, PTL DEF Spec

(***************************************************************************)
(* OnlyStaleChecksOverdraw, for any number of workers and any mix of       *)
(* requests: the checks of an operation are enough, so an operation that   *)
(* makes them and still overdraws an account made them before its          *)
(* transaction had the ledger's row, and a balance has changed since.      *)
(***************************************************************************)
THEOREM OverdraftsNeedStaleChecks == Spec => OnlyStaleChecksOverdraw
  <1>1. ASSUME IInv, BInv, NEW w \in Workers, Write(w), rowLock' = w,
               Guarded(Op(w)), Covered(Visible(w)), ~Covered(draft')
        PROVE  rowLock = NoWorker /\ \E c \in Demands(Op(w), db) : ~DemandMet(c, db)
    <2>1. /\ worker[w].pc = "check" /\ worker[w].todo = {} /\ rowLock \in {NoWorker, w}
      BY <1>1 DEF Write
    \* An aborted write leaves the ledger's row to others.
    <2>2. draft' = Apply(Op(w), Visible(w)) /\ ~DuplicateLeg(PostingsOf(Op(w), Visible(w)))
      <3>1. ASSUME NEW outcome, Abort(w, outcome) PROVE FALSE
        BY <1>1, <2>1, <3>1, BalancesAssumption DEF Abort, EndTx
      <3> QED
        BY <1>1, <3>1 DEF Write
    <2>3. /\ Op(w) \in Operation
          /\ Op(w).op \in HoldOps => HoldAllows(Op(w), Visible(w))
          /\ Op(w).op = "revert" => Op(w).tx \in DOMAIN Visible(w).txs
      BY <1>1, <2>1, OpFacts DEF IInv, HoldsChecked, BInv, OriginalFound
    <2>4. Sound(Visible(w)) /\ Typed(Visible(w))
      BY <1>1 DEF IInv, BInv, Visible
    <2>5. \E c \in Demands(Op(w), Visible(w)) : ~DemandMet(c, Visible(w))
      BY <1>1, <2>2, <2>3, <2>4, ApplyCovered
    <2>6. CASE rowLock = w
      <3>1. \A c \in Demands(Op(w), draft) : DemandMet(c, draft)
        BY <1>1, <2>1, <2>6 DEF BInv, DemandsChecked
      <3>2. Visible(w) = draft
        BY <2>6 DEF Visible
      <3> QED
        BY <2>5, <3>1, <3>2
    <2>7. CASE rowLock = NoWorker
      <3>1. Visible(w) = db
        BY <1>1, <2>7, BalancesAssumption DEF Visible
      <3> QED
        BY <2>5, <2>7, <3>1
    <2> QED
      BY <2>1, <2>6, <2>7
  <1>2. IInv /\ BInv =>
           \A w \in Workers :
              /\ Write(w) /\ rowLock' = w
              /\ Guarded(Op(w)) /\ Covered(Visible(w)) /\ ~Covered(draft')
              => /\ rowLock = NoWorker
                 /\ \E c \in Demands(Op(w), db) : ~DemandMet(c, db)
    BY <1>1
  <1> QED
    BY <1>2, ChecksInvariance, PTL DEF OnlyStaleChecksOverdraw
=============================================================================
