------------------------------ MODULE SumsProofs ------------------------------
(***************************************************************************)
(* Facts about the sums of Sums.tla, for the proofs of the money           *)
(* invariants: their type, the sum of an appended and of an updated        *)
(* sequence, and that a term of a sum of naturals is at most the sum; and  *)
(* what other proofs share: induction over the naturals up to a bound, and *)
(* facts about sequences and quotients.                                    *)
(*                                                                         *)
(* SumSeq(s) is the last value of a recursive function, so each fact is    *)
(* proved by induction on the length of a prefix.  Induction is used       *)
(* through InductiveSet, which speaks of a set instead of a predicate.     *)
(***************************************************************************)
EXTENDS Sums, FiniteSets, TLAPS, WellFoundedInduction, FiniteSetTheorems

\* A set that holds 0 and the successor of each natural it holds, holds all.
LEMMA InductiveSet ==
    ASSUME NEW S, 0 \in S, \A n \in Nat : n \in S => n + 1 \in S
    PROVE  Nat \subseteq S
  <1> DEFINE T == Nat \ S
             R == {ss \in Nat \X Nat : ss[1] < ss[2]}
  <1>1. IsWellFoundedOn(R, Nat)
    BY NatLessThanWellFounded DEF OpToRel
  <1>2. SUFFICES ASSUME T # {} PROVE FALSE
    OBVIOUS
  <1>3. PICK x \in T : \A y \in T : <<y, x>> \notin R
    <2>1. T \subseteq Nat
      OBVIOUS
    <2> HIDE DEF T, R
    <2> QED
      BY <1>1, <1>2, <2>1, WFMin
  <1>4. x # 0
    OBVIOUS
  <1>5. x - 1 \in Nat /\ x - 1 < x /\ x = (x - 1) + 1
    BY <1>4
  <1>6. x - 1 \in S
    BY <1>3, <1>5
  <1> QED
    BY <1>5, <1>6

\* What holds at 0 and is passed on by each step up to n holds up to n.
LEMMA InductionUpTo ==
    ASSUME NEW n \in Nat, NEW T, NEW f, f[0] \in T,
           \A k \in 1..n : f[k-1] \in T => f[k] \in T
    PROVE  \A k \in 0..n : f[k] \in T
  <1> DEFINE S == {k \in Nat : k <= n => f[k] \in T}
  <1>1. 0 \in S
    OBVIOUS
  <1>2. ASSUME NEW k \in Nat, k \in S PROVE k + 1 \in S
    <2>1. SUFFICES ASSUME k + 1 <= n PROVE f[k+1] \in T
      OBVIOUS
    <2>2. k + 1 \in 1..n /\ (k + 1) - 1 = k /\ k <= n
      BY <2>1
    <2>3. f[k] \in T
      BY <1>2, <2>2
    <2> QED
      BY <2>2, <2>3
  <1>3. Nat \subseteq S
    <2> HIDE DEF S
    <2> QED
      BY <1>1, <1>2, InductiveSet
  <1> QED
    BY <1>3

\* G takes n steps on T, and f lists where they lead from a.
StepsOn(G, T, n) == G \in [T \X (1..n) -> T]

Follows(f, G, T, n, a) ==
    /\ f \in [0..n -> T]
    /\ f[0] = a
    /\ \A k \in 1..n : f[k] = G[<<f[k-1], k>>]

\* Steps on T lead somewhere: what a recursive function needs to exist.
LEMMA RecursionExists ==
    ASSUME NEW n \in Nat, NEW T, NEW a \in T, NEW G, StepsOn(G, T, n)
    PROVE  \E f : Follows(f, G, T, n, a)
  <1> USE DEF StepsOn, Follows
  <1> DEFINE Upto(m, f) == Follows(f, G, T, m, a)
             S == {m \in Nat : m <= n => \E f : Upto(m, f)}
  <1>1. 0 \in S
    <2>1. Upto(0, [k \in 0..0 |-> a])
      OBVIOUS
    <2> QED
      BY <2>1
  <1>2. ASSUME NEW m \in Nat, m \in S PROVE m + 1 \in S
    <2>1. SUFFICES ASSUME m + 1 <= n PROVE \E f : Upto(m + 1, f)
      OBVIOUS
    <2>2. PICK f : Upto(m, f)
      BY <1>2, <2>1
    <2> DEFINE g == [k \in 0..m+1 |-> IF k = m+1 THEN G[<<f[m], m+1>>] ELSE f[k]]
    <2>3. m + 1 \in 1..n /\ f[m] \in T
      BY <2>1, <2>2
    <2>4. G[<<f[m], m+1>>] \in T
      BY <2>3
    <2>5. g \in [0..m+1 -> T]
      BY <2>2, <2>4
    <2>6. g[0] = a
      BY <2>2
    <2>7. ASSUME NEW k \in 1..m+1 PROVE g[k] = G[<<g[k-1], k>>]
      <3>1. CASE k = m + 1
        <4>1. g[m+1] = G[<<f[m], m+1>>] /\ g[m] = f[m] /\ k - 1 = m
          BY <3>1
        <4> HIDE DEF g
        <4> QED
          BY <3>1, <4>1
      <3>2. CASE k # m + 1
        <4>1. k \in 1..m /\ k \in 0..m+1 /\ k-1 \in 0..m+1 /\ k-1 # m+1
          BY <3>2
        <4> QED
          BY <2>2, <3>2, <4>1
      <3> QED
        BY <3>1, <3>2
    <2>8. Upto(m + 1, g)
      <3> HIDE DEF g
      <3> QED
        BY <2>5, <2>6, <2>7
    <2> QED
      BY <2>8
  <1>3. Nat \subseteq S
    <2> HIDE DEF S
    <2> QED
      BY <1>1, <1>2, InductiveSet
  <1>4. n \in S
    BY <1>3
  <1> QED
    BY <1>4

\* f lists the sums of the first 0, 1, ... n terms of s.
PrefixSums(f, s, n) ==
    /\ f \in [0..n -> Int]
    /\ f[0] = 0
    /\ \A k \in 1..n : f[k] = f[k-1] + s[k]

LEMMA PrefixSumsExist ==
    ASSUME NEW s \in Seq(Int)
    PROVE  \E f : PrefixSums(f, s, Len(s))
  <1> DEFINE S == {n \in Nat : n <= Len(s) => \E f : PrefixSums(f, s, n)}
  <1>1. 0 \in S
    <2> DEFINE f == [k \in 0..0 |-> 0]
    <2>1. PrefixSums(f, s, 0)
      BY DEF PrefixSums
    <2> QED
      BY <2>1
  <1>2. ASSUME NEW n \in Nat, n \in S PROVE n + 1 \in S
    <2>1. SUFFICES ASSUME n + 1 <= Len(s) PROVE \E f : PrefixSums(f, s, n + 1)
      OBVIOUS
    <2>2. PICK f : PrefixSums(f, s, n)
      <3>1. n <= Len(s)
        BY <2>1
      <3> QED
        BY <1>2, <3>1
    <2> DEFINE g == [k \in 0..n+1 |-> IF k = n+1 THEN f[n] + s[n+1] ELSE f[k]]
    <2>3. s[n+1] \in Int /\ f[n] \in Int
      BY <2>1, <2>2 DEF PrefixSums
    <2>4. g \in [0..n+1 -> Int]
      BY <2>2, <2>3 DEF PrefixSums
    <2>5. g[0] = 0
      BY <2>2 DEF PrefixSums
    <2>6. ASSUME NEW k \in 1..n+1 PROVE g[k] = g[k-1] + s[k]
      <3>1. CASE k = n + 1
        BY <3>1
      <3>2. CASE k # n + 1
        <4>1. k \in 1..n /\ k \in 0..n+1 /\ k-1 \in 0..n+1 /\ k-1 # n+1
          BY <3>2
        <4> QED
          BY <2>2, <3>2, <4>1 DEF PrefixSums
      <3> QED
        BY <3>1, <3>2
    <2>7. PrefixSums(g, s, n + 1)
      <3> HIDE DEF g
      <3> QED
        BY <2>4, <2>5, <2>6 DEF PrefixSums
    <2> QED
      BY <2>7
  <1>3. Nat \subseteq S
    <2> HIDE DEF S
    <2> QED
      BY <1>1, <1>2, InductiveSet
  <1> QED
    <2>1. Len(s) \in S
      <3> HIDE DEF S
      <3> QED
        BY <1>3
    <2> QED
      BY <2>1

\* SumSeq(s) is the last of the prefix sums.
LEMMA SumSeqIsPrefixSum ==
    ASSUME NEW s \in Seq(Int)
    PROVE  \E f : PrefixSums(f, s, Len(s)) /\ SumSeq(s) = f[Len(s)]
  <1> DEFINE Eq(f) == f = [k \in 0..Len(s) |-> IF k = 0 THEN 0 ELSE f[k-1] + s[k]]
             Sol == CHOOSE f : Eq(f)
  <1>1. SumSeq(s) = Sol[Len(s)]
    BY Zenon DEF SumSeq
  <1>2. Len(s) \in Nat
    OBVIOUS
  <1>3. PICK f : PrefixSums(f, s, Len(s))
    BY PrefixSumsExist
  <1>4. Eq(f)
    <2>1. \A k \in 0..Len(s) : f[k] = (IF k = 0 THEN 0 ELSE f[k-1] + s[k])
      BY <1>2, <1>3 DEF PrefixSums
    <2>2. f \in [0..Len(s) -> Int]
      BY <1>3 DEF PrefixSums
    <2> QED
      BY <2>1, <2>2
  <1>5. Eq(Sol)
    <2> HIDE DEF Eq
    <2> QED
      BY <1>4
  <1>6. ASSUME NEW g, Eq(g) PROVE PrefixSums(g, s, Len(s))
    <2>0. DOMAIN g = 0..Len(s)
      BY <1>6
    <2>1. g[0] = 0
      BY <1>2, <1>6
    <2>2. ASSUME NEW k \in 1..Len(s) PROVE g[k] = g[k-1] + s[k]
      <3>1. k \in 0..Len(s) /\ k # 0
        BY <1>2
      <3> QED
        BY <1>6, <3>1
    <2>3. \A k \in 0..Len(s) : g[k] = f[k]
      <3> DEFINE S == {n \in Nat : n <= Len(s) => g[n] = f[n]}
      <3>1. 0 \in S
        BY <2>1, <1>3 DEF PrefixSums
      <3>2. ASSUME NEW n \in Nat, n \in S PROVE n + 1 \in S
        <4>1. SUFFICES ASSUME n + 1 <= Len(s) PROVE g[n+1] = f[n+1]
          OBVIOUS
        <4>2. n + 1 \in 1..Len(s) /\ (n + 1) - 1 = n /\ n <= Len(s)
          BY <1>2, <4>1
        <4>3. g[n] = f[n]
          BY <3>2, <4>2
        <4> QED
          BY <2>2, <4>2, <4>3, <1>3 DEF PrefixSums
      <3>3. Nat \subseteq S
        <4> HIDE DEF S
        <4> QED
          BY <3>1, <3>2, InductiveSet
      <3> QED
        BY <1>2, <3>3
    <2>4. g \in [0..Len(s) -> Int]
      <3>1. \A k \in 0..Len(s) : g[k] \in Int
        BY <2>3, <1>3 DEF PrefixSums
      <3>2. g = [k \in DOMAIN g |-> g[k]]
        BY <1>6
      <3> QED
        BY <3>1, <3>2, <2>0
    <2> QED
      BY <2>1, <2>2, <2>4 DEF PrefixSums
  <1> HIDE DEF Eq, Sol
  <1> QED
    BY <1>1, <1>5, <1>6

LEMMA SumSeqEmpty == SumSeq(<< >>) = 0
  <1>1. << >> \in Seq(Int) /\ Len(<< >>) = 0
    OBVIOUS
  <1> QED
    BY <1>1, SumSeqIsPrefixSum DEF PrefixSums

LEMMA SumSeqType ==
    ASSUME NEW s \in Seq(Int)
    PROVE  SumSeq(s) \in Int
  <1>1. PICK f : PrefixSums(f, s, Len(s)) /\ SumSeq(s) = f[Len(s)]
    BY SumSeqIsPrefixSum
  <1>2. Len(s) \in 0..Len(s)
    OBVIOUS
  <1> QED
    BY <1>1, <1>2 DEF PrefixSums

\* The step from one term of a sequence to the next.
LEMMA NextTerm ==
    ASSUME NEW n \in Nat, NEW m \in Nat, n + 1 <= m
    PROVE  n + 1 \in 1..m /\ (n + 1) - 1 = n /\ n \in 0..m /\ n <= m
  OBVIOUS

\* The difference of two sequences that differ in one term is its change.
LEMMA SumSeqUpdate ==
    ASSUME NEW s \in Seq(Int), NEW t \in Seq(Int), Len(t) = Len(s),
           NEW i \in 1..Len(s), \A k \in 1..Len(s) : k # i => t[k] = s[k]
    PROVE  SumSeq(t) = SumSeq(s) + (t[i] - s[i])
  <1>1. PICK f : PrefixSums(f, s, Len(s)) /\ SumSeq(s) = f[Len(s)]
    BY SumSeqIsPrefixSum
  <1>2. PICK g : PrefixSums(g, t, Len(s)) /\ SumSeq(t) = g[Len(s)]
    BY SumSeqIsPrefixSum
  <1>6. Len(s) \in Nat /\ i \in Nat /\ i <= Len(s)
    OBVIOUS
  <1> DEFINE Shift(n) == IF i <= n THEN t[i] - s[i] ELSE 0
             S == {n \in Nat : n <= Len(s) => g[n] = f[n] + Shift(n)}
  <1>3. 0 \in S
    BY <1>1, <1>2 DEF PrefixSums
  <1>4. ASSUME NEW n \in Nat, n \in S PROVE n + 1 \in S
    <2>1. SUFFICES ASSUME n + 1 <= Len(s) PROVE g[n+1] = f[n+1] + Shift(n+1)
      <3> HIDE DEF Shift
      <3> QED
        OBVIOUS
    <2>2. n + 1 \in 1..Len(s) /\ (n + 1) - 1 = n /\ n \in 0..Len(s) /\ n <= Len(s)
      BY <1>6, <2>1, NextTerm, SMTT(20)
    <2>3. g[n] = f[n] + Shift(n)
      BY <1>4, <2>2
    <2>4. f[n+1] = f[n] + s[n+1] /\ g[n+1] = g[n] + t[n+1] /\ f[n] \in Int /\ g[n] \in Int
      BY <1>1, <1>2, <2>2 DEF PrefixSums
    <2>5. s[n+1] \in Int /\ t[n+1] \in Int /\ s[i] \in Int /\ t[i] \in Int
      BY <2>2
    <2>6. CASE n + 1 = i
      <3>1. Shift(n) = 0 /\ Shift(n+1) = t[n+1] - s[n+1]
        BY <2>6
      <3> QED
        BY <2>3, <2>4, <2>5, <2>6, <3>1
    <2>7. CASE n + 1 # i
      <3>1. Shift(n+1) = Shift(n) /\ Shift(n) \in Int
        BY <2>7, <2>5
      <3>2. t[n+1] = s[n+1]
        <4> HIDE DEF S, Shift
        <4> QED
          BY <2>2, <2>7
      <3> HIDE DEF Shift
      <3> QED
        BY <2>3, <2>4, <2>5, <3>1, <3>2, SMTT(20)
    <2> QED
      BY <2>6, <2>7
  <1>5. Nat \subseteq S
    <2> HIDE DEF S
    <2> QED
      BY <1>3, <1>4, InductiveSet
  <1>7. g[Len(s)] = f[Len(s)] + (t[i] - s[i])
    <2>1. Len(s) \in S
      <3> HIDE DEF S
      <3> QED
        BY <1>5, <1>6
    <2>2. g[Len(s)] = f[Len(s)] + Shift(Len(s))
      <3> HIDE DEF Shift
      <3> QED
        BY <2>1, <1>6
    <2> QED
      BY <1>6, <2>2
  <1> QED
    BY <1>1, <1>2, <1>7

\* A sum of naturals is a natural that no term exceeds.
LEMMA SumSeqOfNaturals ==
    ASSUME NEW s \in Seq(Nat)
    PROVE  SumSeq(s) \in Nat /\ \A i \in 1..Len(s) : s[i] <= SumSeq(s)
  <1>1. s \in Seq(Int) /\ Len(s) \in Nat /\ \A k \in 1..Len(s) : s[k] \in Nat
    OBVIOUS
  <1>2. PICK f : PrefixSums(f, s, Len(s)) /\ SumSeq(s) = f[Len(s)]
    BY <1>1, SumSeqIsPrefixSum
  <1> DEFINE S == {n \in Nat : n <= Len(s) =>
                      f[n] \in Nat /\ \A i \in 1..n : s[i] <= f[n]}
  <1>3. 0 \in S
    BY <1>2 DEF PrefixSums
  <1>4. ASSUME NEW n \in Nat, n \in S PROVE n + 1 \in S
    <2>1. SUFFICES ASSUME n + 1 <= Len(s)
          PROVE  f[n+1] \in Nat /\ \A i \in 1..n+1 : s[i] <= f[n+1]
      OBVIOUS
    <2>2. n + 1 \in 1..Len(s) /\ (n + 1) - 1 = n /\ n <= Len(s)
      BY <2>1
    <2>3. f[n] \in Nat /\ \A i \in 1..n : s[i] <= f[n]
      BY <1>4, <2>2
    <2>4. f[n+1] = f[n] + s[n+1] /\ s[n+1] \in Nat
      BY <1>1, <1>2, <2>2 DEF PrefixSums
    <2>5. ASSUME NEW i \in 1..n+1 PROVE s[i] <= f[n+1]
      <3>1. CASE i = n + 1
        BY <2>3, <2>4, <3>1
      <3>2. CASE i # n + 1
        <4>1. i \in 1..n /\ i \in 1..Len(s)
          BY <3>2, <2>1, <1>1
        <4>2. s[i] \in Nat /\ s[i] <= f[n]
          BY <4>1, <2>3, <1>1
        <4> QED
          BY <4>2, <2>3, <2>4
      <3> QED
        BY <3>1, <3>2
    <2> QED
      BY <2>3, <2>4, <2>5
  <1>5. Nat \subseteq S
    <2> HIDE DEF S
    <2> QED
      BY <1>3, <1>4, InductiveSet
  <1> QED
    BY <1>1, <1>2, <1>5

\* Term by term larger sequences have larger sums.
LEMMA SumSeqMonotone ==
    ASSUME NEW s \in Seq(Int), NEW t \in Seq(Int), Len(t) = Len(s),
           \A k \in 1..Len(s) : s[k] <= t[k]
    PROVE  SumSeq(s) <= SumSeq(t)
  <1>1. PICK f : PrefixSums(f, s, Len(s)) /\ SumSeq(s) = f[Len(s)]
    BY SumSeqIsPrefixSum
  <1>2. PICK g : PrefixSums(g, t, Len(s)) /\ SumSeq(t) = g[Len(s)]
    BY SumSeqIsPrefixSum
  <1> DEFINE S == {n \in Nat : n <= Len(s) => f[n] <= g[n]}
  <1>3. 0 \in S
    BY <1>1, <1>2 DEF PrefixSums
  <1>4. ASSUME NEW n \in Nat, n \in S PROVE n + 1 \in S
    <2>1. SUFFICES ASSUME n + 1 <= Len(s) PROVE f[n+1] <= g[n+1]
      OBVIOUS
    <2>2. n + 1 \in 1..Len(s) /\ (n + 1) - 1 = n /\ n \in 0..Len(s) /\ n <= Len(s)
      BY <2>1
    <2>3. f[n] <= g[n]
      BY <1>4, <2>2
    <2>4. f[n+1] = f[n] + s[n+1] /\ g[n+1] = g[n] + t[n+1] /\ f[n] \in Int /\ g[n] \in Int
      BY <1>1, <1>2, <2>2 DEF PrefixSums
    <2>5. s[n+1] \in Int /\ t[n+1] \in Int /\ s[n+1] <= t[n+1]
      BY <2>2
    <2> QED
      BY <2>3, <2>4, <2>5
  <1>5. Nat \subseteq S
    <2> HIDE DEF S
    <2> QED
      BY <1>3, <1>4, InductiveSet
  <1>6. Len(s) \in Nat
    OBVIOUS
  <1> QED
    BY <1>1, <1>2, <1>5, <1>6

\* The sum of a term by term sum.
LEMMA SumSeqAdd ==
    ASSUME NEW s \in Seq(Int), NEW t \in Seq(Int), NEW u \in Seq(Int),
           Len(t) = Len(s), Len(u) = Len(s),
           \A k \in 1..Len(s) : u[k] = s[k] + t[k]
    PROVE  SumSeq(u) = SumSeq(s) + SumSeq(t)
  <1>1. PICK f : PrefixSums(f, s, Len(s)) /\ SumSeq(s) = f[Len(s)]
    BY SumSeqIsPrefixSum
  <1>2. PICK g : PrefixSums(g, t, Len(s)) /\ SumSeq(t) = g[Len(s)]
    BY SumSeqIsPrefixSum
  <1>3. PICK h : PrefixSums(h, u, Len(s)) /\ SumSeq(u) = h[Len(s)]
    BY SumSeqIsPrefixSum
  <1>4. Len(s) \in Nat
    OBVIOUS
  <1> DEFINE S == {n \in Nat : n <= Len(s) => h[n] = f[n] + g[n]}
  <1>5. 0 \in S
    BY <1>1, <1>2, <1>3 DEF PrefixSums
  <1>6. ASSUME NEW n \in Nat, n \in S PROVE n + 1 \in S
    <2>1. SUFFICES ASSUME n + 1 <= Len(s) PROVE h[n+1] = f[n+1] + g[n+1]
      OBVIOUS
    <2>2. n + 1 \in 1..Len(s) /\ (n + 1) - 1 = n /\ n \in 0..Len(s) /\ n <= Len(s)
      <3> HIDE DEF S
      <3> QED
        BY <1>4, <2>1
    <2>3. h[n] = f[n] + g[n]
      BY <1>6, <2>2
    <2>4. /\ f[n+1] = f[n] + s[n+1] /\ f[n] \in Int
          /\ g[n+1] = g[n] + t[n+1] /\ g[n] \in Int
          /\ h[n+1] = h[n] + u[n+1]
      BY <1>1, <1>2, <1>3, <2>2 DEF PrefixSums
    <2>5. s[n+1] \in Int /\ t[n+1] \in Int /\ u[n+1] = s[n+1] + t[n+1]
      BY <2>2
    <2> HIDE DEF S
    <2> QED
      BY <2>3, <2>4, <2>5, SMTT(20)
  <1>7. Nat \subseteq S
    <2> HIDE DEF S
    <2> QED
      BY <1>5, <1>6, InductiveSet
  <1>8. h[Len(s)] = f[Len(s)] + g[Len(s)]
    BY <1>4, <1>7
  <1> QED
    BY <1>1, <1>2, <1>3, <1>8
-----------------------------------------------------------------------------
(* The same for sums over the arguments of a function *)

LEMMA SumOverTerms ==
    ASSUME NEW D, NEW S, NEW f \in [D -> S], NEW keys \in Seq(D)
    PROVE  /\ [k \in 1..Len(keys) |-> f[keys[k]]] \in Seq(S)
           /\ Len([k \in 1..Len(keys) |-> f[keys[k]]]) = Len(keys)
  <1>1. Len(keys) \in Nat /\ \A k \in 1..Len(keys) : keys[k] \in D
    OBVIOUS
  <1> QED
    BY <1>1

LEMMA SumOverType ==
    ASSUME NEW D, NEW f \in [D -> Int], NEW keys \in Seq(D)
    PROVE  SumOver(f, keys) \in Int
  BY SumOverTerms, SumSeqType DEF SumOver

LEMMA SumOverOfNaturals ==
    ASSUME NEW D, NEW f \in [D -> Nat], NEW keys \in Seq(D)
    PROVE  SumOver(f, keys) \in Nat
  BY SumOverTerms, SumSeqOfNaturals DEF SumOver

\* keys lists every member of D once.
ListsOnce(keys, D) ==
    /\ keys \in Seq(D)
    /\ \A x \in D : \E i \in 1..Len(keys) : keys[i] = x
    /\ \A i, j \in 1..Len(keys) : keys[i] = keys[j] => i = j

LEMMA SumOverBound ==
    ASSUME NEW D, NEW keys, ListsOnce(keys, D), NEW f \in [D -> Nat], NEW x \in D
    PROVE  f[x] <= SumOver(f, keys)
  <1> DEFINE s == [k \in 1..Len(keys) |-> f[keys[k]]]
  <1>0. keys \in Seq(D)
    BY DEF ListsOnce
  <1>1. s \in Seq(Nat) /\ Len(s) = Len(keys)
    BY <1>0, SumOverTerms
  <1>2. PICK i \in 1..Len(keys) : keys[i] = x
    BY DEF ListsOnce
  <1>3. s[i] = f[x]
    BY <1>2
  <1>4. s[i] <= SumSeq(s)
    <2> HIDE DEF s
    <2> QED
      BY <1>1, SumSeqOfNaturals
  <1> QED
    BY <1>3, <1>4 DEF SumOver

LEMMA SumOverUpdate ==
    ASSUME NEW D, NEW keys, ListsOnce(keys, D),
           NEW f \in [D -> Int], NEW g \in [D -> Int],
           NEW x \in D, \A y \in D : y # x => g[y] = f[y]
    PROVE  SumOver(g, keys) = SumOver(f, keys) + (g[x] - f[x])
  <1> DEFINE s == [k \in 1..Len(keys) |-> f[keys[k]]]
             t == [k \in 1..Len(keys) |-> g[keys[k]]]
  <1>0. keys \in Seq(D)
    BY DEF ListsOnce
  <1>1. s \in Seq(Int) /\ t \in Seq(Int) /\ Len(s) = Len(keys) /\ Len(t) = Len(keys)
    BY <1>0, SumOverTerms
  <1>2. PICK i \in 1..Len(keys) : keys[i] = x
    BY DEF ListsOnce
  <1>3. \A k \in 1..Len(keys) : k # i => t[k] = s[k]
    <2>1. \A k \in 1..Len(keys) : keys[k] \in D
      BY <1>0
    <2>2. \A k \in 1..Len(keys) : k # i => keys[k] # x
      BY <1>2, Zenon DEF ListsOnce
    <2> QED
      BY <2>1, <2>2
  <1>4. t[i] = g[x] /\ s[i] = f[x]
    BY <1>2
  <1>5. SumSeq(t) = SumSeq(s) + (t[i] - s[i])
    <2> HIDE DEF s, t
    <2> QED
      BY <1>1, <1>3, SumSeqUpdate
  <1> QED
    BY <1>4, <1>5 DEF SumOver

LEMMA SumOverMonotone ==
    ASSUME NEW D, NEW f \in [D -> Int], NEW g \in [D -> Int], NEW keys \in Seq(D),
           \A y \in D : f[y] <= g[y]
    PROVE  SumOver(f, keys) <= SumOver(g, keys)
  <1> DEFINE s == [k \in 1..Len(keys) |-> f[keys[k]]]
             t == [k \in 1..Len(keys) |-> g[keys[k]]]
  <1>1. s \in Seq(Int) /\ t \in Seq(Int) /\ Len(s) = Len(keys) /\ Len(t) = Len(keys)
    BY SumOverTerms
  <1>2. \A k \in 1..Len(keys) : keys[k] \in D
    OBVIOUS
  <1>3. \A k \in 1..Len(keys) : s[k] <= t[k]
    BY <1>2
  <1>4. SumSeq(s) <= SumSeq(t)
    <2> HIDE DEF s, t
    <2> QED
      BY <1>1, <1>3, SumSeqMonotone
  <1> QED
    BY <1>4 DEF SumOver

\* h is the sum of f and g, argument by argument.
TermSum(h, f, g, D) ==
    /\ f \in [D -> Int] /\ g \in [D -> Int] /\ h \in [D -> Int]
    /\ \A y \in D : h[y] = f[y] + g[y]

LEMMA SumOverAdd ==
    ASSUME NEW D, NEW f, NEW g, NEW h, TermSum(h, f, g, D), NEW keys \in Seq(D)
    PROVE  SumOver(h, keys) = SumOver(f, keys) + SumOver(g, keys)
  <1> DEFINE s == [k \in 1..Len(keys) |-> f[keys[k]]]
             t == [k \in 1..Len(keys) |-> g[keys[k]]]
             u == [k \in 1..Len(keys) |-> h[keys[k]]]
  <1>1. /\ s \in Seq(Int) /\ t \in Seq(Int) /\ u \in Seq(Int)
        /\ Len(s) = Len(keys) /\ Len(t) = Len(keys) /\ Len(u) = Len(keys)
    BY SumOverTerms, SMTT(20) DEF TermSum
  <1>2. \A k \in 1..Len(keys) : keys[k] \in D
    <2> HIDE DEF s, t, u
    <2> QED
      OBVIOUS
  <1>3. \A k \in 1..Len(keys) : u[k] = s[k] + t[k]
    BY <1>2 DEF TermSum
  <1>4. SumSeq(u) = SumSeq(s) + SumSeq(t)
    <2> HIDE DEF s, t, u
    <2> QED
      BY <1>1, <1>3, SumSeqAdd
  <1> QED
    BY <1>4 DEF SumOver

\* A sum of nothing but zeros.
LEMMA SumSeqOfZeros ==
    ASSUME NEW s \in Seq(Int), \A k \in 1..Len(s) : s[k] = 0
    PROVE  SumSeq(s) = 0
  <1>1. SumSeq(s) \in Int
    BY SumSeqType
  <1>2. SumSeq(s) = SumSeq(s) + SumSeq(s)
    BY SumSeqAdd
  <1> QED
    BY <1>1, <1>2

LEMMA SumOverOfZeros ==
    ASSUME NEW D, NEW f \in [D -> Int], NEW keys \in Seq(D), \A y \in D : f[y] = 0
    PROVE  SumOver(f, keys) = 0
  <1>1. SumOver(f, keys) \in Int
    BY SumOverType
  <1>2. TermSum(f, f, f, D)
    BY DEF TermSum
  <1>3. SumOver(f, keys) = SumOver(f, keys) + SumOver(f, keys)
    BY <1>2, SumOverAdd
  <1> QED
    BY <1>1, <1>3

\* One for each member of D, none for the others.
CountOf(D, S) == [x \in S |-> IF x \in D THEN 1 ELSE 0]

\* Those members of D that are among the first n keys.
Among(D, keys, n) == {x \in D : \E i \in 1..n : keys[i] = x}

LEMMA AmongGrows ==
    ASSUME NEW S, NEW keys, ListsOnce(keys, S), NEW D \in SUBSET S,
           NEW n \in Nat, n + 1 <= Len(keys), IsFiniteSet(Among(D, keys, n))
    PROVE  /\ IsFiniteSet(Among(D, keys, n + 1))
           /\ Cardinality(Among(D, keys, n + 1)) =
                 Cardinality(Among(D, keys, n)) + (IF keys[n+1] \in D THEN 1 ELSE 0)
  <1>1. Cardinality(Among(D, keys, n)) \in Nat
    BY FS_CardinalityType
  <1>2. CASE keys[n+1] \in D
    <2>1. Among(D, keys, n + 1) = Among(D, keys, n) \union {keys[n+1]}
      <3>1. \A i \in 1..n+1 : i \in 1..n \/ i = n + 1
        OBVIOUS
      <3>2. 1..n \subseteq 1..n+1 /\ n + 1 \in 1..n+1
        OBVIOUS
      <3> QED
        BY <1>2, <3>1, <3>2, Zenon DEF Among
    <2>2. keys[n+1] \notin Among(D, keys, n)
      <3>1. \A i \in 1..n : i \in 1..Len(keys) /\ n + 1 \in 1..Len(keys) /\ i # n + 1
        <4>1. Len(keys) \in Nat
          BY DEF ListsOnce
        <4> QED
          BY <4>1
      <3> QED
        BY <3>1, Zenon DEF Among, ListsOnce
    <2> QED
      BY <1>2, <2>1, <2>2, FS_AddElement
  <1>3. CASE keys[n+1] \notin D
    <2>1. Among(D, keys, n + 1) = Among(D, keys, n)
      <3>1. \A i \in 1..n+1 : i \in 1..n \/ i = n + 1
        OBVIOUS
      <3>2. 1..n \subseteq 1..n+1
        OBVIOUS
      <3> QED
        BY <1>3, <3>1, <3>2, Zenon DEF Among
    <2> QED
      BY <1>1, <1>3, <2>1
  <1> QED
    BY <1>2, <1>3

\* The size of a set of keys is the sum of ones over it.
LEMMA CardinalityIsSum ==
    ASSUME NEW S, NEW keys, ListsOnce(keys, S), NEW D \in SUBSET S
    PROVE  IsFiniteSet(D) /\ Cardinality(D) = SumOver(CountOf(D, S), keys)
  <1> DEFINE s == [k \in 1..Len(keys) |-> CountOf(D, S)[keys[k]]]
  <1>1. keys \in Seq(S) /\ Len(keys) \in Nat /\ \A k \in 1..Len(keys) : keys[k] \in S
    BY DEF ListsOnce
  <1>2. s \in Seq(Int) /\ Len(s) = Len(keys)
    <2>1. CountOf(D, S) \in [S -> Int]
      BY DEF CountOf
    <2> QED
      BY <1>1, <2>1, SumOverTerms
  <1>3. \A k \in 1..Len(keys) : s[k] = (IF keys[k] \in D THEN 1 ELSE 0)
    BY <1>1 DEF CountOf
  <1>4. SumOver(CountOf(D, S), keys) = SumSeq(s)
    BY DEF SumOver
  <1> HIDE DEF s
  <1>5. PICK f : PrefixSums(f, s, Len(keys)) /\ SumSeq(s) = f[Len(keys)]
    BY <1>2, SumSeqIsPrefixSum
  <1> DEFINE N == {n \in Nat : n <= Len(keys) =>
                      IsFiniteSet(Among(D, keys, n)) /\ Cardinality(Among(D, keys, n)) = f[n]}
  <1>6. 0 \in N
    <2>1. Among(D, keys, 0) = {}
      BY DEF Among
    <2> QED
      BY <1>5, <2>1, FS_EmptySet DEF PrefixSums
  <1>7. ASSUME NEW n \in Nat, n \in N PROVE n + 1 \in N
    <2>1. SUFFICES ASSUME n + 1 <= Len(keys)
                   PROVE  /\ IsFiniteSet(Among(D, keys, n + 1))
                          /\ Cardinality(Among(D, keys, n + 1)) = f[n+1]
      OBVIOUS
    <2>2. n + 1 \in 1..Len(keys) /\ (n + 1) - 1 = n /\ n <= Len(keys)
      BY <1>1, <2>1
    <2>3. IsFiniteSet(Among(D, keys, n)) /\ Cardinality(Among(D, keys, n)) = f[n]
      BY <1>7, <2>2
    <2>4. f[n+1] = f[n] + s[n+1]
      BY <1>5, <2>2 DEF PrefixSums
    <2>5. s[n+1] = (IF keys[n+1] \in D THEN 1 ELSE 0)
      BY <1>3, <2>2
    <2>6. /\ IsFiniteSet(Among(D, keys, n + 1))
          /\ Cardinality(Among(D, keys, n + 1)) =
                Cardinality(Among(D, keys, n)) + (IF keys[n+1] \in D THEN 1 ELSE 0)
      BY <2>1, <2>3, AmongGrows
    <2> QED
      BY <2>3, <2>4, <2>5, <2>6
  <1>8. Nat \subseteq N
    <2> HIDE DEF N
    <2> QED
      BY <1>6, <1>7, InductiveSet
  <1>9. Among(D, keys, Len(keys)) = D
    BY Zenon DEF Among, ListsOnce
  <1> QED
    BY <1>1, <1>4, <1>5, <1>8, <1>9

\* Numbers among which there is a least, or a greatest.
LEMMA LeastElement ==
    ASSUME NEW S \in SUBSET Nat, S # {}
    PROVE  \E x \in S : \A y \in S : x <= y
  <1> DEFINE R == {ss \in Nat \X Nat : ss[1] < ss[2]}
  <1>1. IsWellFoundedOn(R, Nat)
    BY NatLessThanWellFounded DEF OpToRel
  <1>2. PICK x \in S : \A y \in S : <<y, x>> \notin R
    <2> HIDE DEF R
    <2> QED
      BY <1>1, WFMin
  <1>3. ASSUME NEW y \in S PROVE x <= y
    <2>1. y \in Nat /\ x \in Nat /\ <<y, x>> \notin R
      BY <1>2
    <2>2. ~(y < x)
      BY <2>1
    <2> QED
      BY <2>1, <2>2
  <1> QED
    BY <1>3

LEMMA GreatestOfList ==
    ASSUME NEW n \in Nat, NEW s, \A i \in 1..n : s[i] \in Nat
    PROVE  \E m \in {0} \cup {s[i] : i \in 1..n} : \A i \in 1..n : s[i] <= m
  <1> DEFINE Upto1(k) == {0} \cup {s[i] : i \in 1..k}
             Bounds(k) == \E m \in Upto1(k) : \A i \in 1..k : s[i] <= m
             S == {k \in Nat : k <= n => Bounds(k)}
  <1>1. 0 \in S
    OBVIOUS
  <1>2. ASSUME NEW k \in Nat, k \in S PROVE k + 1 \in S
    <2> SUFFICES ASSUME k + 1 <= n PROVE Bounds(k + 1)
      OBVIOUS
    <2>1. PICK m \in Upto1(k) : \A i \in 1..k : s[i] <= m
      BY <1>2
    <2>2. s[k+1] \in Nat /\ m \in Nat /\ \A i \in 1..k : s[i] \in Nat
      <3>1. k + 1 \in 1..n /\ \A i \in 1..k : i \in 1..n
        OBVIOUS
      <3> QED
        BY <3>1
    <2>3. m \in Upto1(k + 1) /\ s[k+1] \in Upto1(k + 1)
      OBVIOUS
    <2>4. \A i \in 1..k+1 : i \in 1..k \/ i = k + 1
      OBVIOUS
    <2>5. CASE s[k+1] <= m
      BY <2>1, <2>3, <2>4, <2>5
    <2>6. CASE ~(s[k+1] <= m)
      <3>1. \A i \in 1..k+1 : s[i] <= s[k+1]
        BY <2>1, <2>2, <2>4, <2>6
      <3> QED
        BY <2>3, <3>1
    <2> QED
      BY <2>5, <2>6
  <1>3. Nat \subseteq S
    <2> HIDE DEF S
    <2> QED
      BY <1>1, <1>2, InductiveSet
  <1> QED
    BY <1>3

-----------------------------------------------------------------------------
(* Sequences.                                                                *)

\* A beginning of a sequence, and one term more.
LEMMA SubSeqByOne ==
    ASSUME NEW S, NEW s \in Seq(S), NEW k \in 1 .. Len(s)
    PROVE  Append(SubSeq(s, 1, k - 1), s[k]) = SubSeq(s, 1, k)
  <1> DEFINE a == Append(SubSeq(s, 1, k - 1), s[k])
             b == SubSeq(s, 1, k)
  <1>1. \A i \in 1 .. Len(s) : s[i] \in S
    OBVIOUS
  <1>2. /\ SubSeq(s, 1, k - 1) \in Seq(S) /\ Len(SubSeq(s, 1, k - 1)) = k - 1
        /\ \A i \in 1 .. k - 1 : SubSeq(s, 1, k - 1)[i] = s[i]
    BY <1>1
  <1>3. /\ b \in Seq(S) /\ Len(b) = k /\ \A i \in 1 .. k : b[i] = s[i]
    BY <1>1
  <1>4. /\ a \in Seq(S) /\ Len(a) = k /\ \A i \in 1 .. k : a[i] = s[i]
    BY <1>1, <1>2
  <1> HIDE DEF a, b
  <1>5. a = b
    BY <1>3, <1>4
  <1> QED
    BY <1>5 DEF a, b

\* The length of a list written as a function.
LEMMA ListLength ==
    ASSUME NEW h \in Nat, NEW f, f = [i \in 1 .. h |-> f[i]]
    PROVE  Len(f) = h
  <1> DEFINE T == {f[i] : i \in 1 .. h}
  <1>1. f \in [1 .. h -> T]
    OBVIOUS
  <1>2. f \in Seq(T)
    BY <1>1
  <1> QED
    BY <1>1, <1>2

-----------------------------------------------------------------------------
(* Quotients.                                                                *)

\* The floor of a quotient leaves less than the divisor.
LEMMA FloorFacts ==
    ASSUME NEW a \in Nat, NEW d \in Nat, d > 0
    PROVE  /\ a \div d \in Nat /\ (a \div d) * d <= a /\ a < (a \div d) * d + d
           /\ (a - 1) \div d \in Int
           /\ ((a - 1) \div d) * d <= a - 1 /\ a - 1 < ((a - 1) \div d) * d + d
  OBVIOUS

\* Products compare as their factors do.
LEMMA FactorsCompare ==
    ASSUME NEW p \in Int, NEW q \in Int, NEW d \in Nat, d > 0, p * d < q * d + d
    PROVE  p <= q
  <1>1. SUFFICES ASSUME p > q PROVE FALSE
    OBVIOUS
  <1>2. PICK k \in Nat : p = q + 1 + k
    <2>1. p - q - 1 \in Nat /\ p = q + 1 + (p - q - 1)
      BY <1>1
    <2> QED
      BY <2>1
  <1>3. p * d = q * d + d + k * d
    BY <1>2
  <1>4. k * d \in Nat
    OBVIOUS
  <1>5. p * d \in Int /\ q * d \in Int
    OBVIOUS
  <1> QED
    BY <1>3, <1>4, <1>5

=============================================================================
