------------------------- MODULE RebateEpochProofs -------------------------
(***************************************************************************)
(* Machine-checked proofs about the computation of a rebate epoch, for any *)
(* stakers, NFTs, multipliers, window, minimum stay and pool: what the     *)
(* script credits is the time the stakers really had NFTs staked, and      *)
(* every allocation can be claimed.                                        *)
(*                                                                         *)
(* The argument for the first follows the histories that the script        *)
(* rebuilds from the log: H[k] is what the first k entries tell.  The      *)
(* whole log tells the seconds staked so far, and the entries the script   *)
(* does not read change no second of the window.  The argument for the     *)
(* second follows the proof of a leaf through the layers of the tree: what *)
(* the pool computes from the first hashes of a proof is the node above    *)
(* the leaf in the layer that they reach.                                  *)
(***************************************************************************)
EXTENDS RebateEpoch, SumsProofs, SequenceTheorems

-----------------------------------------------------------------------------
(* Histories of one NFT.                                                     *)

Periods == [owner : Stakers, from : Nat, to : Nat \union {Open}]
Entries == [kind : {"staked", "unstaked"}, user : Stakers, nft : StakeNFTs, at : Nat]

\* Clamped and OwnerSeconds, seen at second t of the window: a stay that is
\* open at t has lasted until t.
Span(p, t) ==
    LesserOf(IF p.to = Open THEN t ELSE p.to, EpochEnd) - GreaterOf(p.from, EpochStart)
Credit(p, u, t) == IF p.owner = u /\ Span(p, t) > 0 THEN Span(p, t) ELSE 0
Credits(periods, u, t) == [i \in 1 .. Len(periods) |-> Credit(periods[i], u, t)]
Seconds(periods, u, t) == SumSeq(Credits(periods, u, t))

LEMMA CreditType ==
    ASSUME NEW p \in Periods, NEW u, NEW t \in Nat
    PROVE  Span(p, t) \in Int /\ Credit(p, u, t) \in Nat
  <1>1. p.from \in Nat /\ p.to \in Nat \union {Open} /\ EpochStart \in Nat /\ EpochEnd \in Nat
    BY EpochAssumption DEF Periods
  <1>2. Span(p, t) \in Int
    BY <1>1 DEF Span, LesserOf, GreaterOf
  <1> QED
    BY <1>2 DEF Credit

LEMMA CreditsType ==
    ASSUME NEW P \in Seq(Periods), NEW u, NEW t \in Nat
    PROVE  /\ Credits(P, u, t) \in Seq(Nat) /\ Credits(P, u, t) \in Seq(Int)
           /\ Len(Credits(P, u, t)) = Len(P)
           /\ \A i \in 1 .. Len(P) : Credits(P, u, t)[i] = Credit(P[i], u, t)
           /\ Seconds(P, u, t) \in Nat
  <1>1. Len(P) \in Nat /\ \A i \in 1 .. Len(P) : P[i] \in Periods
    OBVIOUS
  <1>2. \A i \in 1 .. Len(P) : Credit(P[i], u, t) \in Nat
    BY <1>1, CreditType
  <1>3. Credits(P, u, t) \in Seq(Nat) /\ Len(Credits(P, u, t)) = Len(P)
    BY <1>1, <1>2 DEF Credits
  <1>4. Credits(P, u, t) \in Seq(Int)
    BY <1>3
  <1>5. Seconds(P, u, t) \in Nat
    BY <1>3, SumSeqOfNaturals DEF Seconds
  <1> QED
    BY <1>3, <1>4, <1>5 DEF Credits

LEMMA OwnerSecondsAreSeconds ==
    ASSUME NEW P \in Seq(Periods), NEW u
    PROVE  OwnerSeconds(P, u) = Seconds(P, u, EpochEnd)
  BY Zenon DEF OwnerSeconds, Seconds, Credits, Credit, Span, Clamped

\* Two histories that agree but in one period.
LEMMA SecondsUpdate ==
    ASSUME NEW P \in Seq(Periods), NEW Q \in Seq(Periods), NEW u, NEW s \in Nat, NEW t \in Nat,
           Len(Q) = Len(P), NEW i \in 1 .. Len(P),
           \A k \in 1 .. Len(P) : k # i => Credit(Q[k], u, t) = Credit(P[k], u, s)
    PROVE  Seconds(Q, u, t) = Seconds(P, u, s) + (Credit(Q[i], u, t) - Credit(P[i], u, s))
  <1> DEFINE f == Credits(P, u, s)
             g == Credits(Q, u, t)
  <1>1. f \in Seq(Int) /\ Len(f) = Len(P) /\ \A k \in 1 .. Len(P) : f[k] = Credit(P[k], u, s)
    BY CreditsType
  <1>2. g \in Seq(Int) /\ Len(g) = Len(P) /\ \A k \in 1 .. Len(P) : g[k] = Credit(Q[k], u, t)
    BY CreditsType
  <1> HIDE DEF f, g
  <1>3. SumSeq(g) = SumSeq(f) + (g[i] - f[i])
    BY <1>1, <1>2, SumSeqUpdate
  <1> QED
    BY <1>1, <1>2, <1>3 DEF f, g, Seconds

LEMMA SecondsSame ==
    ASSUME NEW P \in Seq(Periods), NEW Q \in Seq(Periods), NEW u, NEW s \in Nat, NEW t \in Nat,
           Len(Q) = Len(P),
           \A k \in 1 .. Len(P) : Credit(Q[k], u, t) = Credit(P[k], u, s)
    PROVE  Seconds(Q, u, t) = Seconds(P, u, s)
  <1>1. Credits(Q, u, t) = Credits(P, u, s)
    BY DEF Credits
  <1> QED
    BY <1>1 DEF Seconds

\* A sum with one more term.
LEMMA SumSeqAppend ==
    ASSUME NEW s \in Seq(Int), NEW x \in Int
    PROVE  SumSeq(Append(s, x)) = SumSeq(s) + x
  <1> DEFINE t == Append(s, x)
             n == Len(s)
  <1>1. t \in Seq(Int) /\ n \in Nat /\ Len(t) = n + 1 /\ t[n+1] = x
        /\ \A k \in 1 .. n : t[k] = s[k]
    OBVIOUS
  <1> HIDE DEF t, n
  <1>2. PICK f : PrefixSums(f, s, n) /\ SumSeq(s) = f[n]
    BY SumSeqIsPrefixSum DEF n
  <1>3. PICK g : PrefixSums(g, t, n + 1) /\ SumSeq(t) = g[n+1]
    BY <1>1, SumSeqIsPrefixSum
  <1> DEFINE S == {k \in Nat : k <= n => g[k] = f[k]}
  <1>4. 0 \in S
    BY <1>2, <1>3 DEF PrefixSums
  <1>5. ASSUME NEW k \in Nat, k \in S PROVE k + 1 \in S
    <2> SUFFICES ASSUME k + 1 <= n PROVE g[k+1] = f[k+1]
      OBVIOUS
    <2>1. k + 1 \in 1 .. n /\ k + 1 \in 1 .. n + 1 /\ (k + 1) - 1 = k /\ g[k] = f[k]
      BY <1>1, <1>5
    <2>2. f[k+1] = f[k] + s[k+1] /\ g[k+1] = g[k] + t[k+1]
      BY <1>2, <1>3, <2>1 DEF PrefixSums
    <2> QED
      BY <1>1, <2>1, <2>2
  <1>6. Nat \subseteq S
    <2> HIDE DEF S
    <2> QED
      BY <1>4, <1>5, InductiveSet
  <1>7. g[n] = f[n]
    BY <1>1, <1>6
  <1>8. g[n+1] = g[n] + t[n+1]
    <2>1. n + 1 \in 1 .. n + 1 /\ (n + 1) - 1 = n
      BY <1>1
    <2> QED
      BY <1>3, <2>1 DEF PrefixSums
  <1> QED
    BY <1>1, <1>2, <1>3, <1>7, <1>8 DEF t

LEMMA SecondsAppend ==
    ASSUME NEW P \in Seq(Periods), NEW p \in Periods, NEW u, NEW t \in Nat
    PROVE  Seconds(Append(P, p), u, t) = Seconds(P, u, t) + Credit(p, u, t)
  <1> DEFINE Q == Append(P, p)
             f == Credits(P, u, t)
  <1>1. Q \in Seq(Periods) /\ Len(Q) = Len(P) + 1 /\ Q[Len(P) + 1] = p
        /\ (\A k \in 1 .. Len(P) : Q[k] = P[k]) /\ Len(P) \in Nat
    OBVIOUS
  <1>2. f \in Seq(Int) /\ Len(f) = Len(P) /\ \A k \in 1 .. Len(P) : f[k] = Credit(P[k], u, t)
    BY CreditsType
  <1>3. Credit(p, u, t) \in Int
    BY CreditType
  <1>4. /\ Credits(Q, u, t) \in Seq(Int) /\ Len(Credits(Q, u, t)) = Len(Q)
        /\ \A k \in 1 .. Len(Q) : Credits(Q, u, t)[k] = Credit(Q[k], u, t)
    BY <1>1, CreditsType
  <1> HIDE DEF Q, f
  <1>5. Credits(Q, u, t) = Append(f, Credit(p, u, t))
    <2> DEFINE g == Credits(Q, u, t)
               h == Append(f, Credit(p, u, t))
    <2>1. h \in Seq(Int) /\ Len(h) = Len(P) + 1 /\ h[Len(P) + 1] = Credit(p, u, t)
          /\ \A k \in 1 .. Len(P) : h[k] = Credit(P[k], u, t)
      BY <1>2, <1>3
    <2>2. g \in Seq(Int) /\ Len(g) = Len(P) + 1 /\ g[Len(P) + 1] = Credit(p, u, t)
          /\ \A k \in 1 .. Len(P) : g[k] = Credit(P[k], u, t)
      BY <1>1, <1>4
    <2> HIDE DEF g, h
    <2>3. \A k \in 1 .. Len(P) + 1 : k \in 1 .. Len(P) \/ k = Len(P) + 1
      BY <1>1
    <2>4. \A k \in 1 .. Len(P) + 1 : g[k] = h[k]
      BY <2>1, <2>2, <2>3
    <2>5. g = h
      BY <2>1, <2>2, <2>4, SeqEqual
    <2> QED
      BY <2>5 DEF g, h
  <1> QED
    BY <1>2, <1>3, <1>5, SumSeqAppend DEF Seconds, f, Q

\* One entry of the log keeps the form of a history, and all but the last
\* period closed.
Closed(P) == \A i \in 1 .. Len(P) : i < Len(P) => P[i].to # Open

LEMMA ExtendType ==
    ASSUME NEW P \in Seq(Periods), NEW e \in Entries
    PROVE  Extend(P, e) \in Seq(Periods)
  <1>1. e.kind \in {"staked", "unstaked"} /\ e.user \in Stakers /\ e.at \in Nat
    BY DEF Entries
  <1>2. CASE e.kind = "staked" /\ ~HasOpen(P)
    <2>1. [owner |-> e.user, from |-> e.at, to |-> Open] \in Periods
      BY <1>1 DEF Periods
    <2>2. Extend(P, e) = Append(P, [owner |-> e.user, from |-> e.at, to |-> Open])
      BY <1>2 DEF Extend
    <2> QED
      BY <2>1, <2>2
  <1>3. CASE e.kind = "unstaked" /\ HasOpen(P)
    <2>1. Extend(P, e) = [P EXCEPT ![Len(P)] = [P[Len(P)] EXCEPT !.to = e.at]]
      BY <1>3 DEF Extend
    <2>2. Len(P) \in 1 .. Len(P) /\ P[Len(P)] \in Periods
      BY <1>3 DEF HasOpen
    <2>3. [P[Len(P)] EXCEPT !.to = e.at] \in Periods
      BY <1>1, <2>2 DEF Periods
    <2> QED
      BY <2>1, <2>2, <2>3
  <1>4. CASE ~(e.kind = "staked" /\ ~HasOpen(P)) /\ ~(e.kind = "unstaked" /\ HasOpen(P))
    BY <1>4 DEF Extend
  <1> QED
    BY <1>2, <1>3, <1>4

\* The history after a stake.
LEMMA ExtendByStake ==
    ASSUME NEW P \in Seq(Periods), NEW e \in Entries, e.kind = "staked", ~HasOpen(P)
    PROVE  LET p == [owner |-> e.user, from |-> e.at, to |-> Open]
           IN  p \in Periods /\ Extend(P, e) = Append(P, p)
  BY DEF Extend, Entries, Periods

\* The history after an unstake.
Ended(P, at) == [P EXCEPT ![Len(P)] = [P[Len(P)] EXCEPT !.to = at]]

LEMMA ExtendByUnstake ==
    ASSUME NEW P \in Seq(Periods), NEW e \in Entries, e.kind = "unstaked", HasOpen(P)
    PROVE  /\ Extend(P, e) = Ended(P, e.at) /\ Ended(P, e.at) \in Seq(Periods)
           /\ Len(P) \in 1 .. Len(P) /\ Len(Ended(P, e.at)) = Len(P)
           /\ P[Len(P)] \in Periods /\ P[Len(P)].to = Open
           /\ \A k \in 1 .. Len(P) : k # Len(P) => Ended(P, e.at)[k] = P[k]
           /\ Ended(P, e.at)[Len(P)].owner = P[Len(P)].owner
           /\ Ended(P, e.at)[Len(P)].from = P[Len(P)].from
           /\ Ended(P, e.at)[Len(P)].to = e.at
  <1>1. e.at \in Nat
    BY DEF Entries
  <1>2. Len(P) \in 1 .. Len(P) /\ P[Len(P)] \in Periods /\ P[Len(P)].to = Open
    BY DEF HasOpen
  <1>3. Extend(P, e) = Ended(P, e.at)
    BY DEF Extend, Ended
  <1> DEFINE q == [P[Len(P)] EXCEPT !.to = e.at]
  <1>4. q \in Periods /\ q.owner = P[Len(P)].owner /\ q.from = P[Len(P)].from /\ q.to = e.at
    BY <1>1, <1>2 DEF Periods
  <1> HIDE DEF q
  <1>5. Ended(P, e.at) = [P EXCEPT ![Len(P)] = q]
    BY DEF Ended, q
  <1>6. /\ Ended(P, e.at) \in Seq(Periods) /\ Len(Ended(P, e.at)) = Len(P)
        /\ \A k \in 1 .. Len(P) : k # Len(P) => Ended(P, e.at)[k] = P[k]
        /\ Ended(P, e.at)[Len(P)] = q
    BY <1>2, <1>4, <1>5
  <1> QED
    BY <1>2, <1>3, <1>4, <1>6

LEMMA ExtendKeepsClosed ==
    ASSUME NEW P \in Seq(Periods), NEW e \in Entries, Closed(P)
    PROVE  Closed(Extend(P, e))
  <1>1. CASE e.kind = "staked" /\ ~HasOpen(P)
    <2> DEFINE p == [owner |-> e.user, from |-> e.at, to |-> Open]
               Q == Append(P, p)
    <2>1. Extend(P, e) = Q /\ p \in Periods
      BY <1>1, ExtendByStake
    <2> HIDE DEF p
    <2>2. Len(Q) = Len(P) + 1 /\ (\A k \in 1 .. Len(P) : Q[k] = P[k]) /\ Len(P) \in Nat
      BY <2>1
    <2> HIDE DEF Q
    <2>3. P # <<>> => P[Len(P)].to # Open
      BY <1>1 DEF HasOpen
    <2>4. \A i \in 1 .. Len(P) : P[i].to # Open
      BY <2>3 DEF Closed
    <2>5. \A i \in 1 .. Len(Q) : i < Len(Q) => i \in 1 .. Len(P)
      BY <2>2
    <2> QED
      BY <2>1, <2>2, <2>4, <2>5 DEF Closed
  <1>2. CASE e.kind = "unstaked" /\ HasOpen(P)
    <2>1. Extend(P, e) = Ended(P, e.at) /\ Len(Ended(P, e.at)) = Len(P)
          /\ \A k \in 1 .. Len(P) : k # Len(P) => Ended(P, e.at)[k] = P[k]
      BY <1>2, ExtendByUnstake
    <2>2. \A i \in 1 .. Len(P) : i < Len(P) => i # Len(P)
      OBVIOUS
    <2> QED
      BY <2>1, <2>2 DEF Closed
  <1>3. CASE ~(e.kind = "staked" /\ ~HasOpen(P)) /\ ~(e.kind = "unstaked" /\ HasOpen(P))
    BY <1>3 DEF Extend
  <1> QED
    BY <1>1, <1>2, <1>3

\* Seen at the second of the entry, or at the end of the window when the entry
\* is later, an entry changes no second: a stay that begins has not lasted
\* yet, and one that ends has lasted until then.
LEMMA ExtendKeepsSeconds ==
    ASSUME NEW P \in Seq(Periods), NEW e \in Entries, NEW u, NEW t \in Nat,
           LesserOf(e.at, EpochEnd) = LesserOf(t, EpochEnd)
    PROVE  Seconds(Extend(P, e), u, t) = Seconds(P, u, t)
  <1>0. e.at \in Nat /\ EpochStart \in Nat /\ EpochEnd \in Nat
    BY EpochAssumption DEF Entries
  <1>1. CASE e.kind = "staked" /\ ~HasOpen(P)
    <2> DEFINE p == [owner |-> e.user, from |-> e.at, to |-> Open]
    <2>1. p \in Periods /\ Extend(P, e) = Append(P, p) /\ p.from = e.at /\ p.to = Open
      BY <1>1, ExtendByStake
    <2> HIDE DEF p
    <2>2. Seconds(Append(P, p), u, t) = Seconds(P, u, t) + Credit(p, u, t)
      BY <2>1, SecondsAppend
    <2>3. Span(p, t) = LesserOf(t, EpochEnd) - GreaterOf(e.at, EpochStart)
      BY <2>1 DEF Span
    <2>4. LesserOf(t, EpochEnd) <= e.at /\ e.at <= GreaterOf(e.at, EpochStart)
          /\ LesserOf(t, EpochEnd) \in Nat /\ GreaterOf(e.at, EpochStart) \in Nat
      BY <1>0 DEF LesserOf, GreaterOf
    <2>5. ~(Span(p, t) > 0)
      BY <1>0, <2>3, <2>4
    <2>6. Credit(p, u, t) = 0
      BY <2>5 DEF Credit
    <2>7. Seconds(P, u, t) \in Nat
      BY CreditsType
    <2> QED
      BY <2>1, <2>2, <2>6, <2>7
  <1>2. CASE e.kind = "unstaked" /\ HasOpen(P)
    <2> DEFINE Q == Ended(P, e.at)
               n == Len(P)
    <2>1. /\ Extend(P, e) = Q /\ Q \in Seq(Periods) /\ n \in 1 .. n /\ Len(Q) = n
          /\ P[n].to = Open /\ Q[n].owner = P[n].owner /\ Q[n].from = P[n].from /\ Q[n].to = e.at
          /\ \A k \in 1 .. n : k # n => Q[k] = P[k]
      BY <1>2, ExtendByUnstake
    <2> HIDE DEF Q
    <2>2. e.at # Open
      BY <1>0 DEF Open
    <2>3. Span(Q[n], t) = Span(P[n], t)
      BY <2>1, <2>2 DEF Span
    <2>4. Credit(Q[n], u, t) = Credit(P[n], u, t)
      BY <2>1, <2>3 DEF Credit
    <2>5. \A k \in 1 .. n : Credit(Q[k], u, t) = Credit(P[k], u, t)
      BY <2>1, <2>4
    <2> HIDE DEF n
    <2> QED
      BY <2>1, <2>5, SecondsSame DEF n
  <1>3. CASE ~(e.kind = "staked" /\ ~HasOpen(P)) /\ ~(e.kind = "unstaked" /\ HasOpen(P))
    BY <1>3 DEF Extend
  <1> QED
    BY <1>1, <1>2, <1>3

-----------------------------------------------------------------------------
(* The inductive invariant.                                                  *)

Phases == {"wait", "history", "filter", "units", "allocate", "done"}
HistoryOfEach == [StakeNFTs -> Seq(Periods)]

EpochMemories ==
    [pc : Phases, pos : Nat, readAt : Nat, history : HistoryOfEach, dropped : Nat,
     units : [Stakers -> Nat], allocations : [Stakers -> Nat]]

EpochTypeOK ==
    /\ clock \in Nat
    /\ stakerOf \in [StakeNFTs -> Stakers \union {NoStaker}]
    /\ stakeLog \in Seq(Entries)
    /\ stakedFor \in [Stakers -> [StakeNFTs -> Nat]]
    /\ epoch \in EpochMemories

\* The log is in the order of time.
LogSound ==
    /\ \A k \in 1 .. Len(stakeLog) : stakeLog[k].at <= clock
    /\ \A j \in 1 .. Len(stakeLog) : \A k \in 1 .. Len(stakeLog) :
           j <= k => stakeLog[j].at <= stakeLog[k].at

\* H[k] is what the script rebuilds from the first k entries.
Rebuilds(H) ==
    /\ H[0] = [n \in StakeNFTs |-> <<>>]
    /\ \A k \in 1 .. Len(stakeLog) :
           H[k] = [H[k-1] EXCEPT ![stakeLog[k].nft] = Extend(H[k-1][stakeLog[k].nft], stakeLog[k])]

\* The history of an NFT tells who has it staked, and for how many seconds of
\* the window everybody had.
Tells(P, n) ==
    /\ Closed(P)
    /\ HasOpen(P) <=> stakerOf[n] # NoStaker
    /\ HasOpen(P) => P[Len(P)].owner = stakerOf[n] /\ P[Len(P)].from <= clock
    /\ \A u \in Stakers : Seconds(P, u, clock) = stakedFor[u][n]

LogTells(H) == \A n \in StakeNFTs : Tells(H[Len(stakeLog)][n], n)

\* Until it filters, the script has read pos entries.
ReadSoFar(H) ==
    epoch.pc \in {"wait", "history"} =>
        epoch.pos \in 0 .. Len(stakeLog) /\ epoch.history = H[epoch.pos]

\* The script has the right seconds, the filter only takes away, and the units
\* are right.
CreditInv ==
    /\ epoch.readAt <= clock
    /\ epoch.pc \in {"wait", "history"} => epoch.readAt = 0
    /\ epoch.readAt >= EpochEnd =>
           \A u \in Stakers : \A n \in StakeNFTs :
               /\ epoch.pc = "filter" =>
                      Seconds(epoch.history[n], u, EpochEnd) = stakedFor[u][n]
               /\ epoch.pc = "units" =>
                      /\ Seconds(epoch.history[n], u, EpochEnd) <= stakedFor[u][n]
                      /\ epoch.dropped = 0 =>
                             Seconds(epoch.history[n], u, EpochEnd) = stakedFor[u][n]
    /\ UnitsMatchStakeTime

EpochInv ==
    /\ EpochTypeOK
    /\ LogSound
    /\ \E H \in [0 .. Len(stakeLog) -> HistoryOfEach] :
           Rebuilds(H) /\ LogTells(H) /\ ReadSoFar(H)
    /\ CreditInv

LEMMA WindowType == EpochStart \in Nat /\ EpochEnd \in Nat /\ EpochStart < EpochEnd
  BY EpochAssumption

LEMMA EmptyHistory ==
    ASSUME NEW u, NEW t \in Nat
    PROVE  Seconds(<<>>, u, t) = 0
  <1>1. <<>> \in Seq(Periods) /\ Len(<<>>) = 0
    OBVIOUS
  <1>2. Credits(<<>>, u, t) \in Seq(Int) /\ Len(Credits(<<>>, u, t)) = 0
    BY <1>1, CreditsType
  <1> QED
    BY <1>2, SumSeqOfZeros DEF Seconds

\* Entries that the script does not read do not matter to the window.
LEMMA TailChangesNothing ==
    ASSUME EpochTypeOK, NEW H \in [0 .. Len(stakeLog) -> HistoryOfEach], Rebuilds(H),
           NEW pos \in 0 .. Len(stakeLog),
           \A k \in pos + 1 .. Len(stakeLog) : stakeLog[k].at > EpochEnd,
           NEW u, NEW n \in StakeNFTs
    PROVE  Seconds(H[Len(stakeLog)][n], u, EpochEnd) = Seconds(H[pos][n], u, EpochEnd)
  <1> DEFINE L == Len(stakeLog)
             S == {k \in Nat : pos <= k /\ k <= L =>
                                  Seconds(H[k][n], u, EpochEnd) = Seconds(H[pos][n], u, EpochEnd)}
  <1>1. L \in Nat /\ pos \in Nat /\ \A k \in 1 .. L : stakeLog[k] \in Entries
    BY DEF EpochTypeOK
  <1>2. 0 \in S
    <2> SUFFICES ASSUME pos <= 0 PROVE pos = 0
      OBVIOUS
    <2> QED
      BY <1>1
  <1>3. ASSUME NEW k \in Nat, k \in S PROVE k + 1 \in S
    <2> SUFFICES ASSUME pos <= k + 1, k + 1 <= L
                 PROVE  Seconds(H[k+1][n], u, EpochEnd) = Seconds(H[pos][n], u, EpochEnd)
      OBVIOUS
    <2>1. CASE pos = k + 1
      BY <2>1
    <2>2. CASE pos # k + 1
      <3>1. pos <= k /\ k <= L /\ k + 1 \in 1 .. L /\ (k + 1) - 1 = k /\ k \in 0 .. L
            /\ k + 1 \in pos + 1 .. L
        BY <1>1, <2>2
      <3> DEFINE e == stakeLog[k+1]
                 P == H[k][n]
      <3>2. e \in Entries /\ e.at > EpochEnd /\ e.at \in Nat
        BY <1>1, <3>1 DEF Entries
      <3>3. H[k+1] = [H[k] EXCEPT ![e.nft] = Extend(H[k][e.nft], e)] /\ H[k] \in HistoryOfEach
        BY <3>1 DEF Rebuilds
      <3>4. P \in Seq(Periods) /\ H[k+1][n] = IF e.nft = n THEN Extend(P, e) ELSE P
        BY <3>3 DEF HistoryOfEach
      <3>5. LesserOf(e.at, EpochEnd) = LesserOf(EpochEnd, EpochEnd) /\ EpochEnd \in Nat
        BY <3>2, WindowType DEF LesserOf
      <3>6. Seconds(P, u, EpochEnd) = Seconds(H[pos][n], u, EpochEnd)
        BY <1>3, <3>1
      <3> HIDE DEF e, P
      <3>7. Seconds(Extend(P, e), u, EpochEnd) = Seconds(P, u, EpochEnd)
        BY <3>2, <3>4, <3>5, ExtendKeepsSeconds
      <3> QED
        BY <3>4, <3>6, <3>7
    <2> QED
      BY <2>1, <2>2
  <1>4. Nat \subseteq S
    <2> HIDE DEF S
    <2> QED
      BY <1>2, <1>3, InductiveSet
  <1>5. L \in S /\ pos <= L
    <2> HIDE DEF S
    <2> QED
      BY <1>1, <1>4
  <1> QED
    BY <1>5

\* After the window nothing more is earned.
LEMMA SecondsAreFinal ==
    ASSUME NEW P \in Seq(Periods), NEW u, NEW t \in Nat, EpochEnd <= t
    PROVE  Seconds(P, u, t) = Seconds(P, u, EpochEnd)
  <1>1. EpochEnd \in Nat
    BY WindowType
  <1>2. ASSUME NEW p \in Periods PROVE Credit(p, u, t) = Credit(p, u, EpochEnd)
    <2>1. LesserOf(t, EpochEnd) = EpochEnd /\ LesserOf(EpochEnd, EpochEnd) = EpochEnd
      BY <1>1 DEF LesserOf
    <2>2. Span(p, t) = Span(p, EpochEnd)
      BY <2>1 DEF Span
    <2> QED
      BY <2>2 DEF Credit
  <1>3. \A k \in 1 .. Len(P) : P[k] \in Periods
    OBVIOUS
  <1>4. \A k \in 1 .. Len(P) : Credit(P[k], u, t) = Credit(P[k], u, EpochEnd)
    BY <1>2, <1>3
  <1> QED
    BY <1>1, <1>4, SecondsSame

-----------------------------------------------------------------------------
(* What the log tells, step by step.                                         *)

\* The staking contract lets an entry be logged.
Legal(e) ==
    \/ /\ e.kind = "staked" /\ stakerOf[e.nft] = NoStaker
       /\ stakerOf' = [stakerOf EXCEPT ![e.nft] = e.user]
    \/ /\ e.kind = "unstaked" /\ stakerOf[e.nft] # NoStaker
       /\ stakerOf' = [stakerOf EXCEPT ![e.nft] = NoStaker]

LEMMA TellsAfterEntry ==
    ASSUME EpochTypeOK, NEW P \in Seq(Periods), NEW e \in Entries, Tells(P, e.nft),
           e.at = clock, Legal(e), clock' = clock, stakedFor' = stakedFor
    PROVE  Tells(Extend(P, e), e.nft)'
  <1> DEFINE n == e.nft
             Q == Extend(P, e)
  <1>1. n \in StakeNFTs /\ e.user \in Stakers /\ e.user # NoStaker /\ clock \in Nat
        /\ stakerOf \in [StakeNFTs -> Stakers \union {NoStaker}]
    BY EpochAssumption DEF Entries, EpochTypeOK
  <1>2. Q \in Seq(Periods) /\ Closed(Q)
    BY ExtendType, ExtendKeepsClosed DEF Tells
  <1>3. \A u \in Stakers : Seconds(Q, u, clock) = stakedFor[u][n]
    <2>1. LesserOf(e.at, EpochEnd) = LesserOf(clock, EpochEnd)
      OBVIOUS
    <2>2. ASSUME NEW u \in Stakers PROVE Seconds(Q, u, clock) = Seconds(P, u, clock)
      BY <1>1, <2>1, ExtendKeepsSeconds
    <2> QED
      BY <2>2 DEF Tells
  <1>4. CASE e.kind = "staked" /\ stakerOf[n] = NoStaker
    <2> DEFINE p == [owner |-> e.user, from |-> e.at, to |-> Open]
    <2>1. ~HasOpen(P)
      BY <1>4 DEF Tells
    <2>2. p \in Periods /\ Q = Append(P, p) /\ p.owner = e.user /\ p.from = clock /\ p.to = Open
      BY <1>4, <2>1, ExtendByStake
    <2>3. stakerOf'[n] = e.user
      BY <1>1, <1>4 DEF Legal
    <2> HIDE DEF p, Q
    <2>4. Q # <<>> /\ Q[Len(Q)] = p
      BY <2>2
    <2>5. HasOpen(Q) /\ Q[Len(Q)].owner = e.user /\ Q[Len(Q)].from <= clock
      BY <1>1, <2>2, <2>4 DEF HasOpen
    <2> HIDE DEF n
    <2>6. /\ Closed(Q) /\ (HasOpen(Q) <=> stakerOf'[n] # NoStaker)
          /\ HasOpen(Q) => Q[Len(Q)].owner = stakerOf'[n] /\ Q[Len(Q)].from <= clock'
          /\ \A u \in Stakers : Seconds(Q, u, clock') = stakedFor'[u][n]
      BY <1>1, <1>2, <1>3, <2>3, <2>5
    <2> QED
      BY <2>6 DEF Tells, n, Q
  <1>5. CASE e.kind = "unstaked" /\ stakerOf[n] # NoStaker
    <2>1. HasOpen(P)
      BY <1>5 DEF Tells
    <2>2. Q = Ended(P, e.at) /\ Len(Q) = Len(P) /\ Len(P) \in 1 .. Len(P) /\ Q[Len(P)].to = e.at
      BY <1>5, <2>1, ExtendByUnstake
    <2>3. stakerOf'[n] = NoStaker
      BY <1>1, <1>5 DEF Legal
    <2> HIDE DEF Q
    <2>4. ~HasOpen(Q)
      BY <1>1, <2>2 DEF HasOpen, Open
    <2> HIDE DEF n
    <2>5. /\ Closed(Q) /\ (HasOpen(Q) <=> stakerOf'[n] # NoStaker)
          /\ HasOpen(Q) => Q[Len(Q)].owner = stakerOf'[n] /\ Q[Len(Q)].from <= clock'
          /\ \A u \in Stakers : Seconds(Q, u, clock') = stakedFor'[u][n]
      BY <1>1, <1>2, <1>3, <2>3, <2>4
    <2> QED
      BY <2>5 DEF Tells, n, Q
  <1> QED
    BY <1>4, <1>5 DEF Legal

\* The histories of the other NFTs are as they were.
LEMMA TellsOther ==
    ASSUME NEW P, NEW n, Tells(P, n),
           stakerOf'[n] = stakerOf[n], clock' = clock, stakedFor' = stakedFor
    PROVE  Tells(P, n)'
  BY DEF Tells

\* An entry at this second extends the histories that the log tells.
LEMMA LogGrows ==
    ASSUME EpochTypeOK, LogSound, NEW H \in [0 .. Len(stakeLog) -> HistoryOfEach],
           Rebuilds(H), LogTells(H), NEW e \in Entries, e.at = clock, Legal(e),
           stakeLog' = Append(stakeLog, e), clock' = clock, stakedFor' = stakedFor
    PROVE  /\ stakeLog' \in Seq(Entries)
           /\ stakerOf' \in [StakeNFTs -> Stakers \union {NoStaker}]
           /\ LogSound'
           /\ \E G \in [0 .. Len(stakeLog') -> HistoryOfEach] :
                  /\ Rebuilds(G)' /\ LogTells(G)'
                  /\ \A k \in 0 .. Len(stakeLog) : G[k] = H[k]
  <1> DEFINE L == Len(stakeLog)
  <1>1. /\ L \in Nat /\ clock \in Nat /\ e.nft \in StakeNFTs
        /\ \A k \in 1 .. L : stakeLog[k] \in Entries
        /\ \A k \in 1 .. L : stakeLog[k].at \in Nat
    <2>1. L \in Nat /\ clock \in Nat /\ \A k \in 1 .. L : stakeLog[k] \in Entries
      BY DEF EpochTypeOK
    <2> HIDE DEF L
    <2> QED
      BY <2>1 DEF Entries
  <1>2. /\ stakeLog' \in Seq(Entries) /\ Len(stakeLog') = L + 1 /\ stakeLog'[L + 1] = e
        /\ \A k \in 1 .. L : stakeLog'[k] = stakeLog[k]
    BY DEF EpochTypeOK
  <1>3. stakerOf' \in [StakeNFTs -> Stakers \union {NoStaker}]
    BY DEF Legal, EpochTypeOK, Entries
  <1>4. LogSound'
    <2>1. \A k \in 1 .. L + 1 : k \in 1 .. L \/ k = L + 1
      BY <1>1
    <2>2. \A k \in 1 .. L + 1 : stakeLog'[k].at <= clock
      BY <1>1, <1>2, <2>1 DEF LogSound
    <2>3. \A j \in 1 .. L + 1 : \A k \in 1 .. L + 1 : j <= k => stakeLog'[j].at <= stakeLog'[k].at
      <3> SUFFICES ASSUME NEW j \in 1 .. L + 1, NEW k \in 1 .. L + 1, j <= k
                   PROVE  stakeLog'[j].at <= stakeLog'[k].at
        OBVIOUS
      <3>1. CASE k = L + 1
        BY <1>2, <2>2, <3>1
      <3>2. CASE k # L + 1
        <4>1. k \in 1 .. L /\ j \in 1 .. L
          BY <1>1, <3>2
        <4> QED
          BY <1>2, <4>1 DEF LogSound
      <3> QED
        BY <3>1, <3>2
    <2> HIDE DEF L
    <2>4. /\ \A k \in 1 .. Len(stakeLog') : stakeLog'[k].at <= clock'
          /\ \A j \in 1 .. Len(stakeLog') : \A k \in 1 .. Len(stakeLog') :
                 j <= k => stakeLog'[j].at <= stakeLog'[k].at
      BY <1>2, <2>2, <2>3
    <2> QED
      BY <2>4 DEF LogSound
  <1>5. PICK K \in HistoryOfEach : K = H[L]
    BY <1>1
  <1>6. K[e.nft] \in Seq(Periods) /\ Extend(K[e.nft], e) \in Seq(Periods)
    <2>1. K[e.nft] \in Seq(Periods)
      BY <1>1 DEF HistoryOfEach
    <2> QED
      BY <2>1, ExtendType
  <1> DEFINE last == [K EXCEPT ![e.nft] = Extend(K[e.nft], e)]
  <1>7. last \in HistoryOfEach /\ last[e.nft] = Extend(K[e.nft], e)
        /\ \A n \in StakeNFTs : n # e.nft => last[n] = K[n]
    BY <1>1, <1>6 DEF HistoryOfEach
  <1>8. PICK G \in [0 .. L + 1 -> HistoryOfEach] :
            G[L + 1] = last /\ \A k \in 0 .. L : G[k] = H[k]
    <2> DEFINE F == [k \in 0 .. L + 1 |-> IF k = L + 1 THEN last ELSE H[k]]
    <2> HIDE DEF last
    <2>1. F \in [0 .. L + 1 -> HistoryOfEach]
      BY <1>1, <1>7
    <2>2. F[L + 1] = last /\ \A k \in 0 .. L : F[k] = H[k]
      BY <1>1
    <2> QED
      BY <2>1, <2>2
  <1>9. Rebuilds(G)'
    <2>1. G[0] = [n \in StakeNFTs |-> <<>>]
      BY <1>1, <1>8 DEF Rebuilds
    <2>2. ASSUME NEW k \in 1 .. L + 1
          PROVE  G[k] = [G[k-1] EXCEPT ![stakeLog'[k].nft] =
                                          Extend(G[k-1][stakeLog'[k].nft], stakeLog'[k])]
      <3>1. CASE k = L + 1
        <4>1. k - 1 = L /\ L \in 0 .. L
          BY <1>1, <3>1
        <4>2. G[k-1] = K /\ G[k] = last /\ stakeLog'[k] = e
          <5> HIDE DEF last
          <5> QED
            BY <1>2, <1>5, <1>8, <3>1, <4>1
        <4> QED
          BY <4>2
      <3>2. CASE k # L + 1
        <4>1. k \in 1 .. L /\ k \in 0 .. L /\ k - 1 \in 0 .. L
          BY <1>1, <3>2
        <4>2. G[k] = H[k] /\ G[k-1] = H[k-1] /\ stakeLog'[k] = stakeLog[k]
          BY <1>2, <1>8, <4>1
        <4> QED
          BY <4>1, <4>2 DEF Rebuilds
      <3> QED
        BY <3>1, <3>2
    <2> HIDE DEF L
    <2> QED
      BY <1>2, <2>1, <2>2 DEF Rebuilds
  <1>10. LogTells(G)'
    <2> HIDE DEF last
    <2>1. ASSUME NEW n \in StakeNFTs PROVE Tells(last[n], n)'
      <3>1. Tells(K[n], n)
        BY <1>5 DEF LogTells
      <3>2. CASE n = e.nft
        BY <1>6, <1>7, <3>1, <3>2, TellsAfterEntry
      <3>3. CASE n # e.nft
        <4>1. stakerOf'[n] = stakerOf[n]
          BY <1>1, <3>3 DEF Legal, EpochTypeOK
        <4> QED
          BY <1>7, <3>1, <3>3, <4>1, TellsOther
      <3> QED
        BY <3>2, <3>3
    <2> HIDE DEF L
    <2> QED
      BY <1>2, <1>8, <2>1 DEF LogTells
  <1> HIDE DEF last
  <1> QED
    BY <1>2, <1>3, <1>4, <1>8, <1>9, <1>10

\* A second more of a stay that is open counts when it is in the window.
LEMMA CreditOfSecond ==
    ASSUME NEW p \in Periods, NEW u, NEW t \in Nat
    PROVE  /\ p.to # Open => Credit(p, u, t + 1) = Credit(p, u, t)
           /\ p.owner # u => Credit(p, u, t + 1) = 0 /\ Credit(p, u, t) = 0
           /\ p.to = Open /\ p.from <= t /\ p.owner = u =>
                  Credit(p, u, t + 1) =
                      IF t \in EpochStart .. EpochEnd - 1 THEN Credit(p, u, t) + 1 ELSE Credit(p, u, t)
  <1>1. p.to # Open => Credit(p, u, t + 1) = Credit(p, u, t)
    BY DEF Credit, Span
  <1>2. p.owner # u => Credit(p, u, t + 1) = 0 /\ Credit(p, u, t) = 0
    BY DEF Credit
  <1>3. ASSUME p.to = Open, p.from <= t, p.owner = u
        PROVE  Credit(p, u, t + 1) =
                   IF t \in EpochStart .. EpochEnd - 1 THEN Credit(p, u, t) + 1 ELSE Credit(p, u, t)
    <2>1. p.from \in Nat /\ EpochStart \in Nat /\ EpochEnd \in Nat /\ EpochStart < EpochEnd
      BY WindowType DEF Periods
    <2>2. Span(p, t) = LesserOf(t, EpochEnd) - GreaterOf(p.from, EpochStart)
          /\ Span(p, t + 1) = LesserOf(t + 1, EpochEnd) - GreaterOf(p.from, EpochStart)
      BY <1>3 DEF Span
    <2> DEFINE from == GreaterOf(p.from, EpochStart)
    <2>3. from \in Nat /\ from >= EpochStart /\ (from = p.from \/ from = EpochStart)
      BY <2>1 DEF GreaterOf
    <2> HIDE DEF from
    <2>4. CASE t < EpochStart
      <3>1. Span(p, t) = t - from /\ Span(p, t + 1) = t + 1 - from
        BY <2>1, <2>2, <2>3, <2>4 DEF LesserOf, from
      <3>2. ~(Span(p, t) > 0) /\ ~(Span(p, t + 1) > 0)
        BY <2>1, <2>3, <2>4, <3>1
      <3> QED
        BY <2>1, <2>4, <3>2 DEF Credit
    <2>5. CASE t >= EpochEnd
      <3>1. Span(p, t) = Span(p, t + 1)
        BY <2>1, <2>2, <2>5 DEF LesserOf
      <3> QED
        BY <2>1, <2>5, <3>1 DEF Credit
    <2>6. CASE t >= EpochStart /\ t < EpochEnd
      <3>1. Span(p, t) = t - from /\ Span(p, t + 1) = t + 1 - from
        BY <2>1, <2>2, <2>3, <2>6 DEF LesserOf, from
      <3>2. from <= t
        BY <1>3, <2>3, <2>6
      <3>3. Credit(p, u, t) = t - from /\ Credit(p, u, t + 1) = t + 1 - from
        BY <1>3, <2>3, <3>1, <3>2 DEF Credit
      <3> QED
        BY <2>1, <2>3, <2>6, <3>3
    <2> QED
      BY <2>1, <2>4, <2>5, <2>6
  <1> QED
    BY <1>1, <1>2, <1>3

\* Seconds of u in a history, and a second later.
LEMMA SecondsTick ==
    ASSUME EpochTypeOK, NEW P \in Seq(Periods), NEW n \in StakeNFTs, Tells(P, n),
           NEW u \in Stakers
    PROVE  Seconds(P, u, clock + 1) =
               IF stakerOf[n] = u /\ clock \in EpochStart .. EpochEnd - 1
               THEN Seconds(P, u, clock) + 1 ELSE Seconds(P, u, clock)
  <1> DEFINE L == Len(P)
  <1>1. L \in Nat /\ clock \in Nat /\ clock + 1 \in Nat /\ \A k \in 1 .. L : P[k] \in Periods
    BY DEF EpochTypeOK
  <1>2. u # NoStaker
    BY EpochAssumption
  <1>3. Seconds(P, u, clock) \in Nat
    BY <1>1, CreditsType
  <1>4. CASE ~HasOpen(P)
    <2>1. stakerOf[n] = NoStaker /\ (P # <<>> => P[L].to # Open)
      BY <1>4 DEF Tells, HasOpen
    <2>2. \A k \in 1 .. L : P[k].to # Open
      BY <2>1 DEF Tells, Closed
    <2>3. \A k \in 1 .. L : Credit(P[k], u, clock + 1) = Credit(P[k], u, clock)
      BY <1>1, <2>2, CreditOfSecond
    <2>4. Seconds(P, u, clock + 1) = Seconds(P, u, clock)
      BY <1>1, <2>3, SecondsSame
    <2> QED
      BY <1>2, <2>1, <2>4
  <1>5. CASE HasOpen(P)
    <2>1. L \in 1 .. L /\ P[L] \in Periods /\ P[L].to = Open /\ P[L].owner = stakerOf[n]
          /\ P[L].from <= clock
      BY <1>5 DEF Tells, HasOpen
    <2>2. \A k \in 1 .. L : k # L => P[k].to # Open
      BY <1>1 DEF Tells, Closed
    <2>3. \A k \in 1 .. L : k # L => Credit(P[k], u, clock + 1) = Credit(P[k], u, clock)
      BY <1>1, <2>2, CreditOfSecond
    <2>4. Credit(P[L], u, clock) \in Nat /\ Credit(P[L], u, clock + 1) \in Nat
      BY <1>1, <2>1, CreditType
    <2>5. Seconds(P, u, clock + 1) =
              Seconds(P, u, clock) + (Credit(P[L], u, clock + 1) - Credit(P[L], u, clock))
      BY <1>1, <2>1, <2>3, SecondsUpdate
    <2>6. Credit(P[L], u, clock + 1) - Credit(P[L], u, clock) =
              IF stakerOf[n] = u /\ clock \in EpochStart .. EpochEnd - 1 THEN 1 ELSE 0
      <3>1. CASE stakerOf[n] = u
        BY <1>1, <2>1, <2>4, <3>1, CreditOfSecond
      <3>2. CASE stakerOf[n] # u
        BY <1>1, <2>1, <3>2, CreditOfSecond
      <3> QED
        BY <3>1, <3>2
    <2> HIDE DEF L
    <2> QED
      BY <1>3, <2>5, <2>6
  <1> QED
    BY <1>4, <1>5

LEMMA TellsAfterTick ==
    ASSUME EpochTypeOK, NEW P \in Seq(Periods), NEW n \in StakeNFTs, Tells(P, n), EpochTick
    PROVE  Tells(P, n)'
  <1>1. clock' = clock + 1 /\ stakerOf' = stakerOf /\ clock \in Nat
    BY DEF EpochTick, EpochTypeOK
  <1>2. ASSUME NEW u \in Stakers PROVE Seconds(P, u, clock') = stakedFor'[u][n]
    <2>1. stakedFor'[u][n] = IF stakerOf[n] = u /\ clock \in EpochStart .. EpochEnd - 1
                             THEN stakedFor[u][n] + 1 ELSE stakedFor[u][n]
      BY DEF EpochTick
    <2>2. Seconds(P, u, clock) = stakedFor[u][n]
      BY DEF Tells
    <2> QED
      BY <1>1, <2>1, <2>2, SecondsTick
  <1>3. HasOpen(P) => P[Len(P)].owner = stakerOf[n] /\ P[Len(P)].from <= clock'
    <2> SUFFICES ASSUME HasOpen(P) PROVE P[Len(P)].from <= clock'
      BY DEF Tells
    <2>1. P[Len(P)] \in Periods
      BY DEF HasOpen
    <2>2. P[Len(P)].from \in Nat /\ P[Len(P)].from <= clock
      BY <2>1 DEF Tells, Periods
    <2> QED
      BY <1>1, <2>2
  <1> QED
    BY <1>1, <1>2, <1>3 DEF Tells

\* What is staked is counted, a second at a time, and not after the window.
LEMMA StakedForTick ==
    ASSUME EpochTypeOK, EpochTick
    PROVE  /\ stakedFor' \in [Stakers -> [StakeNFTs -> Nat]]
           /\ clock >= EpochEnd => stakedFor' = stakedFor
  <1>1. ASSUME NEW u \in Stakers, NEW n \in StakeNFTs
        PROVE  /\ stakedFor'[u][n] \in Nat
               /\ clock >= EpochEnd => stakedFor'[u][n] = stakedFor[u][n]
    <2>1. stakedFor'[u][n] = IF stakerOf[n] = u /\ clock \in EpochStart .. EpochEnd - 1
                             THEN stakedFor[u][n] + 1 ELSE stakedFor[u][n]
      BY DEF EpochTick
    <2>2. stakedFor[u][n] \in Nat /\ clock \in Nat
      BY DEF EpochTypeOK
    <2>3. clock >= EpochEnd => clock \notin EpochStart .. EpochEnd - 1
      BY <2>2, WindowType
    <2> QED
      BY <2>1, <2>2, <2>3
  <1> DEFINE g(u) == [n \in StakeNFTs |-> IF stakerOf[n] = u /\ clock \in EpochStart .. EpochEnd - 1
                                          THEN stakedFor[u][n] + 1 ELSE stakedFor[u][n]]
  <1>2. stakedFor' = [u \in Stakers |-> g(u)]
    BY DEF EpochTick
  <1>3. ASSUME NEW u \in Stakers
        PROVE  g(u) \in [StakeNFTs -> Nat] /\ (clock >= EpochEnd => g(u) = stakedFor[u])
    <2>1. stakedFor'[u] = g(u) /\ stakedFor[u] \in [StakeNFTs -> Nat]
      BY <1>2 DEF EpochTypeOK
    <2>2. \A n \in StakeNFTs : /\ g(u)[n] \in Nat
                               /\ clock >= EpochEnd => g(u)[n] = stakedFor[u][n]
      BY <1>1, <2>1
    <2> QED
      BY <2>1, <2>2
  <1> HIDE DEF g
  <1>4. stakedFor \in [Stakers -> [StakeNFTs -> Nat]]
    BY DEF EpochTypeOK
  <1> QED
    BY <1>2, <1>3, <1>4

-----------------------------------------------------------------------------
(* What the filter keeps.                                                    *)

\* kept[i] is what the filter keeps of the first i periods.
Keeps(kept, P) ==
    /\ kept[0] = <<>>
    /\ \A i \in 1 .. Len(P) :
           kept[i] = IF Clamped(P[i]) >= MinStake THEN Append(kept[i-1], P[i]) ELSE kept[i-1]

LEMMA LongStaysIsLast ==
    ASSUME NEW P \in Seq(Periods)
    PROVE  \E kept : Keeps(kept, P) /\ LongStays(P) = kept[Len(P)]
  <1> DEFINE n == Len(P)
             Step(f, i) == IF Clamped(P[i]) >= MinStake THEN Append(f[i-1], P[i]) ELSE f[i-1]
             Eq(f) == f = [i \in 0 .. n |-> IF i = 0 THEN <<>> ELSE Step(f, i)]
             Sol == CHOOSE f : Eq(f)
             G == [x \in Seq(Periods) \X (1 .. n) |->
                      IF Clamped(P[x[2]]) >= MinStake THEN Append(x[1], P[x[2]]) ELSE x[1]]
  <1>1. LongStays(P) = Sol[n]
    BY Zenon DEF LongStays
  <1>2. n \in Nat /\ <<>> \in Seq(Periods) /\ \A i \in 1 .. n : P[i] \in Periods
    OBVIOUS
  <1>3. StepsOn(G, Seq(Periods), n)
    <2> HIDE DEF n
    <2>1. \A x \in Seq(Periods) \X (1 .. n) : G[x] \in Seq(Periods)
      BY <1>2
    <2> QED
      BY <2>1 DEF StepsOn
  <1>4. PICK g : Follows(g, G, Seq(Periods), n, <<>>)
    <2> HIDE DEF n, G
    <2> QED
      BY <1>2, <1>3, RecursionExists
  <1>5. Eq(g)
    <2>1. ASSUME NEW i \in 1 .. n PROVE g[i] = Step(g, i)
      <3>1. g[i-1] \in Seq(Periods) /\ g[i] = G[<<g[i-1], i>>]
        <4> HIDE DEF G, n
        <4>1. i - 1 \in 0 .. n
          BY <1>2
        <4> QED
          BY <1>4, <4>1 DEF Follows
      <3>2. <<g[i-1], i>> \in Seq(Periods) \X (1 .. n)
        BY <3>1
      <3> QED
        BY <3>1, <3>2
    <2> HIDE DEF n, Step, G
    <2>2. \A i \in 0 .. n : i # 0 => i \in 1 .. n
      BY <1>2
    <2> QED
      BY <1>2, <1>4, <2>1, <2>2 DEF Follows
  <1>6. Eq(Sol)
    <2> HIDE DEF Eq
    <2> QED
      BY <1>5
  <1>7. Keeps(Sol, P)
    <2> HIDE DEF Sol, n, Step
    <2>1. Sol[0] = <<>> /\ \A i \in 1 .. n : Sol[i] = Step(Sol, i)
      BY <1>2, <1>6
    <2> QED
      BY <2>1 DEF Keeps, Step, n
  <1> HIDE DEF Sol, Eq, n
  <1> QED
    BY <1>1, <1>7 DEF n

\* The filter only takes seconds away, and none where it drops no period.
LEMMA LongStaysCredit ==
    ASSUME NEW P \in Seq(Periods), NEW t \in Nat
    PROVE  /\ LongStays(P) \in Seq(Periods)
           /\ Len(LongStays(P)) <= Len(P)
           /\ \A u : Seconds(LongStays(P), u, t) <= Seconds(P, u, t)
           /\ Len(LongStays(P)) = Len(P) => LongStays(P) = P
  <1> DEFINE n == Len(P)
             First(k) == SubSeq(P, 1, k)
  <1>1. PICK kept : Keeps(kept, P) /\ LongStays(P) = kept[n]
    BY LongStaysIsLast
  <1>2. /\ n \in Nat /\ (\A i \in 1 .. n : P[i] \in Periods)
        /\ First(0) = <<>> /\ First(n) = P /\ <<>> \in Seq(Periods) /\ Len(<<>>) = 0
    OBVIOUS
  <1>3. ASSUME NEW k \in 0 .. n PROVE First(k) \in Seq(Periods)
    BY <1>2
  <1>4. ASSUME NEW k \in 1 .. n PROVE Append(First(k - 1), P[k]) = First(k)
    BY SubSeqByOne
  <1> HIDE DEF First, n
  <1> DEFINE Kept(k) == /\ kept[k] \in Seq(Periods)
                        /\ Len(kept[k]) <= k
                        /\ \A u : Seconds(kept[k], u, t) <= Seconds(First(k), u, t)
                        /\ Len(kept[k]) = k => kept[k] = First(k)
             S == {k \in Nat : k <= n => Kept(k)}
  <1>5. 0 \in S
    <2>1. kept[0] = <<>>
      BY <1>1 DEF Keeps
    <2>2. \A u : Seconds(<<>>, u, t) <= Seconds(<<>>, u, t)
      BY EmptyHistory
    <2>3. \A u : Seconds(kept[0], u, t) <= Seconds(First(0), u, t)
      BY <1>2, <2>1, <2>2
    <2>4. kept[0] \in Seq(Periods) /\ Len(kept[0]) <= 0 /\ kept[0] = First(0)
      BY <1>2, <2>1
    <2>5. Kept(0)
      BY <2>3, <2>4
    <2> HIDE DEF Kept
    <2> QED
      BY <2>5
  <1>6. ASSUME NEW k \in Nat, k \in S PROVE k + 1 \in S
    <2> SUFFICES ASSUME k + 1 <= n PROVE Kept(k + 1)
      OBVIOUS
    <2>1. k + 1 \in 1 .. n /\ (k + 1) - 1 = k /\ k <= n /\ k \in 0 .. n
      BY <1>2
    <2>2. Kept(k)
      BY <1>6, <2>1
    <2> DEFINE p == P[k+1]
    <2>3. p \in Periods /\ First(k) \in Seq(Periods) /\ Append(First(k), p) = First(k + 1)
      BY <1>2, <1>3, <1>4, <2>1
    <2>4. kept[k+1] = IF Clamped(p) >= MinStake THEN Append(kept[k], p) ELSE kept[k]
      BY <1>1, <2>1 DEF Keeps, n
    <2> HIDE DEF p
    <2>5. ASSUME NEW u
          PROVE  /\ Seconds(First(k + 1), u, t) = Seconds(First(k), u, t) + Credit(p, u, t)
                 /\ Seconds(Append(kept[k], p), u, t) = Seconds(kept[k], u, t) + Credit(p, u, t)
                 /\ Seconds(First(k), u, t) \in Nat /\ Seconds(kept[k], u, t) \in Nat
                 /\ Credit(p, u, t) \in Nat
                 /\ Seconds(kept[k], u, t) <= Seconds(First(k), u, t)
      <3>1. Credit(p, u, t) \in Nat
        BY <2>3, CreditType
      <3>2. Seconds(First(k), u, t) \in Nat /\ Seconds(kept[k], u, t) \in Nat
        BY <2>2, <2>3, CreditsType
      <3>3. Seconds(Append(First(k), p), u, t) = Seconds(First(k), u, t) + Credit(p, u, t)
        BY <2>3, SecondsAppend
      <3>4. Seconds(Append(kept[k], p), u, t) = Seconds(kept[k], u, t) + Credit(p, u, t)
        BY <2>2, <2>3, SecondsAppend
      <3> QED
        BY <2>2, <2>3, <3>1, <3>2, <3>3, <3>4
    <2>6. CASE Clamped(p) >= MinStake
      <3>1. kept[k+1] = Append(kept[k], p)
        BY <2>4, <2>6
      <3>2. kept[k+1] \in Seq(Periods) /\ Len(kept[k+1]) = Len(kept[k]) + 1 /\ Len(kept[k]) \in Nat
        BY <2>2, <2>3, <3>1
      <3>3. \A u : Seconds(kept[k+1], u, t) <= Seconds(First(k + 1), u, t)
        BY <2>5, <3>1
      <3>4. Len(kept[k+1]) = k + 1 => kept[k+1] = First(k + 1)
        BY <2>2, <2>3, <3>1, <3>2
      <3> QED
        BY <2>2, <3>2, <3>3, <3>4
    <2>7. CASE ~(Clamped(p) >= MinStake)
      <3>1. kept[k+1] = kept[k] /\ Len(kept[k]) \in Nat /\ Len(kept[k]) <= k
        BY <2>2, <2>4, <2>7
      <3>2. \A u : Seconds(kept[k+1], u, t) <= Seconds(First(k + 1), u, t)
        BY <2>5, <3>1
      <3> QED
        BY <2>2, <3>1, <3>2
    <2> QED
      BY <2>6, <2>7
  <1>7. Nat \subseteq S
    <2> HIDE DEF S
    <2> QED
      BY <1>5, <1>6, InductiveSet
  <1>8. Kept(n)
    <2> HIDE DEF Kept
    <2> QED
      BY <1>2, <1>7
  <1> QED
    BY <1>1, <1>2, <1>8 DEF n

-----------------------------------------------------------------------------
(* Units: floors of weighted seconds.                                        *)

LEMMA FloorsCompare ==
    ASSUME NEW a \in Nat, NEW b \in Nat, NEW d \in Nat, d > 0, a <= b
    PROVE  /\ a \div d <= b \div d
           /\ (a - 1) \div d <= b \div d
           /\ a \div d - 1 <= (a - 1) \div d
  <1> DEFINE p == a \div d
             q == b \div d
             r == (a - 1) \div d
  <1>1. /\ p \in Nat /\ p * d <= a /\ a < p * d + d
        /\ r \in Int /\ r * d <= a - 1 /\ a - 1 < r * d + d
    BY FloorFacts
  <1>2. q \in Nat /\ q * d <= b /\ b < q * d + d
    BY FloorFacts
  <1> HIDE DEF p, q, r
  <1>3. p * d \in Int /\ q * d \in Int /\ r * d \in Int /\ (p - 1) * d = p * d - d
    BY <1>1, <1>2
  <1>4. p * d < q * d + d /\ r * d < q * d + d /\ (p - 1) * d < r * d + d
    BY <1>1, <1>2, <1>3
  <1>5. p <= q /\ r <= q /\ p - 1 <= r
    BY <1>1, <1>2, <1>4, FactorsCompare
  <1> QED
    BY <1>5 DEF p, q, r

LEMMA WeightType ==
    ASSUME NEW n \in StakeNFTs
    PROVE  WeightOf[n] \in {0, 10, 25, 50}
  BY DEF WeightOf

LEMMA WeightedMonotone ==
    ASSUME NEW f \in [StakeNFTs -> Nat], NEW g \in [StakeNFTs -> Nat],
           \A n \in StakeNFTs : f[n] <= g[n]
    PROVE  Weighted(f) \in Nat /\ Weighted(g) \in Nat /\ Weighted(f) <= Weighted(g)
  <1> DEFINE F == [n \in StakeNFTs |-> WeightOf[n] * f[n]]
             G == [n \in StakeNFTs |-> WeightOf[n] * g[n]]
  <1>1. ASSUME NEW n \in StakeNFTs
        PROVE  F[n] \in Nat /\ G[n] \in Nat /\ F[n] <= G[n]
    <2>1. f[n] \in Nat /\ g[n] \in Nat /\ f[n] <= g[n]
      OBVIOUS
    <2>2. WeightOf[n] = 0 \/ WeightOf[n] = 10 \/ WeightOf[n] = 25 \/ WeightOf[n] = 50
      BY WeightType
    <2>3. CASE WeightOf[n] = 0
      BY <2>1, <2>3
    <2>4. CASE WeightOf[n] = 10
      BY <2>1, <2>4
    <2>5. CASE WeightOf[n] = 25
      BY <2>1, <2>5
    <2>6. CASE WeightOf[n] = 50
      BY <2>1, <2>6
    <2> QED
      BY <2>2, <2>3, <2>4, <2>5, <2>6
  <1>2. F \in [StakeNFTs -> Nat] /\ G \in [StakeNFTs -> Nat]
        /\ F \in [StakeNFTs -> Int] /\ G \in [StakeNFTs -> Int] /\ NFTSeq \in Seq(StakeNFTs)
    <2>1. F = [n \in StakeNFTs |-> F[n]] /\ G = [n \in StakeNFTs |-> G[n]]
      OBVIOUS
    <2> HIDE DEF F, G
    <2> QED
      BY <1>1, <2>1, EpochAssumption
  <1> HIDE DEF F, G
  <1>3. SumOver(F, NFTSeq) \in Nat /\ SumOver(G, NFTSeq) \in Nat
    BY <1>2, SumOverOfNaturals
  <1>4. SumOver(F, NFTSeq) <= SumOver(G, NFTSeq)
    BY <1>1, <1>2, SumOverMonotone
  <1>5. Weighted(f) = SumOver(F, NFTSeq) /\ Weighted(g) = SumOver(G, NFTSeq)
    BY DEF Weighted, F, G
  <1> QED
    BY <1>3, <1>4, <1>5

\* No unit is snapped to more than the exact seconds are worth, and none loses
\* more than the rounding.
LEMMA SnappedUnits ==
    ASSUME NEW w \in Nat, NEW W \in Nat, w <= W, NEW x \in Snapped(w)
    PROVE  /\ x \in Nat
           /\ x <= W \div (EpochEnd - EpochStart)
           /\ w = W => x >= W \div (EpochEnd - EpochStart) - 1
  <1> DEFINE d == EpochEnd - EpochStart
  <1>1. d \in Nat /\ d > 0
    BY WindowType
  <1>2. x = w \div d \/ (x = (w - 1) \div d /\ x >= 0)
    BY DEF Snapped
  <1> HIDE DEF d
  <1>3. /\ w \div d <= W \div d /\ (w - 1) \div d <= W \div d
        /\ w \div d - 1 <= (w - 1) \div d
    BY <1>1, FloorsCompare
  <1>4. w \div d \in Nat /\ (w - 1) \div d \in Int /\ W \div d \in Nat
    BY <1>1, FloorFacts
  <1>5. x \in Nat /\ x <= W \div d /\ (w = W => x >= W \div d - 1)
    BY <1>2, <1>3, <1>4
  <1> QED
    BY <1>5 DEF d

\* Where no period is dropped, every history is kept.
LEMMA DroppedNothing ==
    ASSUME NEW h \in HistoryOfEach, NEW kept, kept = [n \in StakeNFTs |-> LongStays(h[n])],
           NEW dropped,
           dropped = SumOver([n \in StakeNFTs |-> Len(h[n]) - Len(kept[n])], NFTSeq)
    PROVE  /\ kept \in HistoryOfEach /\ dropped \in Nat
           /\ \A n \in StakeNFTs : \A u : \A t \in Nat : Seconds(kept[n], u, t) <= Seconds(h[n], u, t)
           /\ dropped = 0 => kept = h
  <1> DEFINE f == [n \in StakeNFTs |-> Len(h[n]) - Len(kept[n])]
             s == [k \in 1 .. Len(NFTSeq) |-> f[NFTSeq[k]]]
  <1>1. ASSUME NEW n \in StakeNFTs
        PROVE  /\ h[n] \in Seq(Periods) /\ kept[n] \in Seq(Periods)
               /\ Len(h[n]) \in Nat /\ Len(kept[n]) \in Nat /\ Len(kept[n]) <= Len(h[n])
               /\ \A u : \A t \in Nat : Seconds(kept[n], u, t) <= Seconds(h[n], u, t)
               /\ Len(kept[n]) = Len(h[n]) => kept[n] = h[n]
    <2>1. h[n] \in Seq(Periods) /\ kept[n] = LongStays(h[n])
      BY DEF HistoryOfEach
    <2> DEFINE P == h[n]
               K == kept[n]
    <2>2. P \in Seq(Periods) /\ K = LongStays(P)
      BY <2>1
    <2> HIDE DEF P, K
    <2>3. ASSUME NEW t \in Nat
          PROVE  /\ K \in Seq(Periods) /\ Len(K) <= Len(P)
                 /\ \A u : Seconds(K, u, t) <= Seconds(P, u, t)
                 /\ Len(K) = Len(P) => K = P
      BY <2>2, LongStaysCredit
    <2>4. K \in Seq(Periods) /\ Len(K) <= Len(P) /\ (Len(K) = Len(P) => K = P)
      <3>1. 0 \in Nat
        OBVIOUS
      <3> QED
        BY <2>3, <3>1
    <2>5. Len(P) \in Nat /\ Len(K) \in Nat
      BY <2>2, <2>4
    <2> QED
      BY <2>2, <2>3, <2>4, <2>5 DEF P, K
  <1>2. kept \in HistoryOfEach
    BY <1>1 DEF HistoryOfEach
  <1>3. f \in [StakeNFTs -> Nat]
    BY <1>1
  <1>4. NFTSeq \in Seq(StakeNFTs) /\ Len(NFTSeq) \in Nat
    BY EpochAssumption
  <1>5. s \in Seq(Nat) /\ Len(s) = Len(NFTSeq)
    <2> HIDE DEF f
    <2> QED
      BY <1>3, <1>4, SumOverTerms
  <1>6. dropped = SumSeq(s)
    BY DEF SumOver
  <1>7. dropped \in Nat /\ \A k \in 1 .. Len(s) : s[k] <= dropped
    <2> HIDE DEF s
    <2> QED
      BY <1>5, <1>6, SumSeqOfNaturals
  <1>8. ASSUME dropped = 0, NEW n \in StakeNFTs PROVE kept[n] = h[n]
    <2>1. PICK k \in 1 .. Len(NFTSeq) : n = NFTSeq[k]
      BY EpochAssumption DEF StakeNFTs
    <2>2. s[k] = f[n] /\ s[k] <= 0
      <3>1. s[k] <= 0
        <4> HIDE DEF s
        <4> QED
          BY <1>5, <1>7, <1>8, <2>1
      <3> QED
        BY <2>1, <3>1
    <2>3. Len(h[n]) - Len(kept[n]) <= 0
      BY <2>2
    <2> QED
      BY <1>1, <2>3
  <1>9. dropped = 0 => kept = h
    BY <1>2, <1>8 DEF HistoryOfEach
  <1> QED
    BY <1>1, <1>2, <1>7, <1>9

-----------------------------------------------------------------------------
(* The steps.                                                                *)

\* What an action of the staking contract and of time leaves of the script.
LEMMA EntryStep ==
    ASSUME EpochInv, NEW e \in Entries, e.at = clock, Legal(e),
           stakeLog' = Append(stakeLog, e), UNCHANGED <<clock, stakedFor, epoch>>
    PROVE  EpochInv'
  <1>1. EpochTypeOK /\ LogSound /\ CreditInv
    BY DEF EpochInv
  <1>2. PICK H \in [0 .. Len(stakeLog) -> HistoryOfEach] :
            Rebuilds(H) /\ LogTells(H) /\ ReadSoFar(H)
    BY DEF EpochInv
  <1>3. /\ stakeLog' \in Seq(Entries)
        /\ stakerOf' \in [StakeNFTs -> Stakers \union {NoStaker}]
        /\ LogSound'
        /\ \E G \in [0 .. Len(stakeLog') -> HistoryOfEach] :
               /\ Rebuilds(G)' /\ LogTells(G)'
               /\ \A k \in 0 .. Len(stakeLog) : G[k] = H[k]
    BY <1>1, <1>2, LogGrows
  <1>4. PICK G \in [0 .. Len(stakeLog') -> HistoryOfEach] :
            /\ Rebuilds(G)' /\ LogTells(G)'
            /\ \A k \in 0 .. Len(stakeLog) : G[k] = H[k]
    BY <1>3
  <1>5. ReadSoFar(G)'
    <2>1. Len(stakeLog') = Len(stakeLog) + 1 /\ Len(stakeLog) \in Nat
      BY <1>1 DEF EpochTypeOK
    <2>2. ASSUME epoch.pc \in {"wait", "history"}
          PROVE  epoch.pos \in 0 .. Len(stakeLog') /\ epoch.history = G[epoch.pos]
      <3>1. epoch.pos \in 0 .. Len(stakeLog) /\ epoch.history = H[epoch.pos]
        BY <1>2, <2>2 DEF ReadSoFar
      <3> QED
        BY <1>4, <2>1, <3>1
    <2> QED
      BY <2>2 DEF ReadSoFar
  <1>6. EpochTypeOK'
    BY <1>1, <1>3 DEF EpochTypeOK
  <1>7. CreditInv'
    BY <1>1 DEF CreditInv, UnitsMatchStakeTime, StakeTime, Weighted
  <1> QED
    BY <1>3, <1>4, <1>5, <1>6, <1>7 DEF EpochInv

LEMMA StakeStep ==
    ASSUME EpochInv, NEW u \in Stakers, NEW n \in StakeNFTs, StakeNFT(u, n)
    PROVE  EpochInv'
  <1>1. EpochTypeOK
    BY DEF EpochInv
  <1> DEFINE e == [kind |-> "staked", user |-> u, nft |-> n, at |-> clock]
  <1>2. /\ e \in Entries /\ e.at = clock /\ e.kind = "staked" /\ e.nft = n /\ e.user = u
        /\ stakeLog' = Append(stakeLog, e) /\ UNCHANGED <<clock, stakedFor, epoch>>
    BY <1>1 DEF StakeNFT, StakeEvent, Entries, EpochTypeOK
  <1> HIDE DEF e
  <1>3. Legal(e)
    BY <1>2 DEF Legal, StakeNFT
  <1>4. PICK x \in Entries : x = e
    BY <1>2
  <1> QED
    BY <1>2, <1>3, <1>4, EntryStep

LEMMA UnstakeStep ==
    ASSUME EpochInv, NEW n \in StakeNFTs, UnstakeNFT(n)
    PROVE  EpochInv'
  <1>1. EpochTypeOK
    BY DEF EpochInv
  <1> DEFINE e == [kind |-> "unstaked", user |-> stakerOf[n], nft |-> n, at |-> clock]
  <1>2. /\ e \in Entries /\ e.at = clock /\ e.kind = "unstaked" /\ e.nft = n
        /\ stakeLog' = Append(stakeLog, e) /\ UNCHANGED <<clock, stakedFor, epoch>>
    BY <1>1 DEF UnstakeNFT, StakeEvent, Entries, EpochTypeOK
  <1> HIDE DEF e
  <1>3. Legal(e)
    BY <1>2 DEF Legal, UnstakeNFT
  <1>4. PICK x \in Entries : x = e
    BY <1>2
  <1> QED
    BY <1>2, <1>3, <1>4, EntryStep

LEMMA TickStep ==
    ASSUME EpochInv, EpochTick
    PROVE  EpochInv'
  <1>1. EpochTypeOK /\ LogSound /\ CreditInv
    BY DEF EpochInv
  <1>2. PICK H \in [0 .. Len(stakeLog) -> HistoryOfEach] :
            Rebuilds(H) /\ LogTells(H) /\ ReadSoFar(H)
    BY DEF EpochInv
  <1>3. /\ clock' = clock + 1 /\ clock \in Nat /\ stakerOf' = stakerOf /\ stakeLog' = stakeLog
        /\ epoch' = epoch
    BY <1>1 DEF EpochTick, EpochTypeOK
  <1>4. /\ stakedFor' \in [Stakers -> [StakeNFTs -> Nat]]
        /\ clock >= EpochEnd => stakedFor' = stakedFor
    BY <1>1, StakedForTick
  <1>5. EpochTypeOK'
    BY <1>1, <1>3, <1>4 DEF EpochTypeOK
  <1>6. LogSound'
    <2>1. \A k \in 1 .. Len(stakeLog) : stakeLog[k].at \in Nat /\ stakeLog[k].at <= clock
      <3>1. \A k \in 1 .. Len(stakeLog) : stakeLog[k] \in Entries
        BY <1>1 DEF EpochTypeOK
      <3> QED
        BY <1>1, <3>1 DEF LogSound, Entries
    <2>2. \A k \in 1 .. Len(stakeLog) : stakeLog[k].at <= clock'
      BY <1>3, <2>1
    <2> QED
      BY <1>1, <1>3, <2>2 DEF LogSound
  <1>7. LogTells(H)'
    <2>1. ASSUME NEW n \in StakeNFTs PROVE Tells(H[Len(stakeLog)][n], n)'
      <3>1. PICK P \in Seq(Periods) : P = H[Len(stakeLog)][n]
        <4>1. Len(stakeLog) \in 0 .. Len(stakeLog)
          BY <1>1 DEF EpochTypeOK
        <4>2. H[Len(stakeLog)] \in HistoryOfEach
          BY <4>1
        <4> QED
          BY <4>2 DEF HistoryOfEach
      <3>2. Tells(P, n)
        BY <1>2, <3>1 DEF LogTells
      <3>3. Tells(P, n)'
        BY <1>1, <3>2, TellsAfterTick
      <3> QED
        BY <1>3, <3>1, <3>3
    <2> QED
      BY <1>3, <2>1 DEF LogTells
  <1>8. Rebuilds(H)' /\ ReadSoFar(H)'
    BY <1>2, <1>3 DEF Rebuilds, ReadSoFar
  <1>9. CreditInv'
    <2>1. epoch.readAt <= clock' /\ (epoch.readAt >= EpochEnd => stakedFor' = stakedFor)
          /\ epoch.readAt <= clock
      <3>1. epoch.readAt \in Nat /\ epoch.readAt <= clock
        BY <1>1 DEF EpochTypeOK, EpochMemories, CreditInv
      <3> QED
        BY <1>3, <1>4, <3>1, WindowType
    <2>2. CASE epoch.readAt >= EpochEnd
      BY <1>1, <1>3, <2>1, <2>2 DEF CreditInv, UnitsMatchStakeTime, StakeTime, Weighted
    <2>3. CASE ~(epoch.readAt >= EpochEnd)
      BY <1>1, <1>3, <2>1, <2>3 DEF CreditInv, UnitsMatchStakeTime
    <2> QED
      BY <2>2, <2>3
  <1> QED
    BY <1>2, <1>3, <1>5, <1>6, <1>7, <1>8, <1>9 DEF EpochInv

\* The steps of the script leave the contract alone.
LEMMA ScriptStep ==
    ASSUME EpochInv, UNCHANGED stakeVars, epoch' \in EpochMemories, CreditInv',
           \A H \in [0 .. Len(stakeLog) -> HistoryOfEach] :
               Rebuilds(H) /\ LogTells(H) /\ ReadSoFar(H) => ReadSoFar(H)'
    PROVE  EpochInv'
  <1>1. EpochTypeOK /\ LogSound
    BY DEF EpochInv
  <1>2. PICK H \in [0 .. Len(stakeLog) -> HistoryOfEach] :
            Rebuilds(H) /\ LogTells(H) /\ ReadSoFar(H)
    BY DEF EpochInv
  <1>3. clock' = clock /\ stakerOf' = stakerOf /\ stakeLog' = stakeLog /\ stakedFor' = stakedFor
    BY DEF stakeVars
  <1>4. ReadSoFar(H)'
    BY <1>2
  <1>5. Rebuilds(H)'
    BY <1>2, <1>3 DEF Rebuilds
  <1>6. LogTells(H)'
    BY <1>2, <1>3 DEF LogTells, Tells
  <1>7. EpochTypeOK'
    BY <1>1, <1>3 DEF EpochTypeOK
  <1>8. LogSound'
    BY <1>1, <1>3 DEF LogSound
  <1> QED
    BY <1>3, <1>4, <1>5, <1>6, <1>7, <1>8 DEF EpochInv

LEMMA MemoryParts ==
    ASSUME NEW m \in EpochMemories
    PROVE  /\ m.pc \in Phases /\ m.pos \in Nat /\ m.readAt \in Nat /\ m.history \in HistoryOfEach
           /\ m.dropped \in Nat /\ m.units \in [Stakers -> Nat] /\ m.allocations \in [Stakers -> Nat]
  BY DEF EpochMemories

LEMMA StartStep ==
    ASSUME EpochInv, StartEpoch
    PROVE  EpochInv'
  <1>1. epoch \in EpochMemories /\ CreditInv /\ clock \in Nat
    BY DEF EpochInv, EpochTypeOK
  <1>2. /\ epoch.pc = "wait" /\ epoch' = [epoch EXCEPT !.pc = "history"] /\ UNCHANGED stakeVars
    BY DEF StartEpoch
  <1>3. /\ epoch' \in EpochMemories /\ epoch'.pc = "history" /\ epoch'.pos = epoch.pos
        /\ epoch'.readAt = epoch.readAt /\ epoch'.history = epoch.history
    BY <1>1, <1>2 DEF EpochMemories, Phases
  <1>4. clock' = clock /\ stakeLog' = stakeLog
    BY <1>2 DEF stakeVars
  <1>5. CreditInv'
    <2>1. epoch.readAt = 0 /\ EpochEnd \in Nat /\ EpochEnd > 0
      BY <1>1, <1>2, WindowType DEF CreditInv
    <2>2. epoch'.readAt = 0 /\ epoch'.readAt <= clock' /\ ~(epoch'.readAt >= EpochEnd)
      BY <1>1, <1>3, <1>4, <2>1
    <2> QED
      BY <1>3, <2>2 DEF CreditInv, UnitsMatchStakeTime
  <1>6. ASSUME NEW H, ReadSoFar(H) PROVE ReadSoFar(H)'
    BY <1>2, <1>3, <1>4, <1>6 DEF ReadSoFar
  <1> QED
    BY <1>2, <1>3, <1>5, <1>6, ScriptStep

\* The script reads the log to its end, or to the first entry after the window.
LEMMA ReadStep ==
    ASSUME EpochInv, ReconstructStakeHistory
    PROVE  EpochInv'
  <1>1. epoch \in EpochMemories /\ CreditInv /\ EpochTypeOK /\ LogSound
        /\ stakeLog \in Seq(Entries) /\ Len(stakeLog) \in Nat
    BY DEF EpochInv, EpochTypeOK
  <1>2. epoch.pc = "history" /\ UNCHANGED stakeVars
    BY DEF ReconstructStakeHistory
  <1>3. clock' = clock /\ stakeLog' = stakeLog /\ stakedFor' = stakedFor
    BY <1>2 DEF stakeVars
  <1>4. epoch.readAt = 0 /\ EpochEnd \in Nat /\ EpochEnd > 0 /\ clock \in Nat /\ epoch.pos \in Nat
        /\ epoch.history \in HistoryOfEach
    BY <1>1, <1>2, WindowType, MemoryParts DEF CreditInv, EpochTypeOK
  <1> DEFINE next == stakeLog[epoch.pos + 1]
             reads == epoch.pos < Len(stakeLog) /\ InQuery(next)
  <1>5. CASE reads
    <2> DEFINE grown == [epoch.history EXCEPT ![next.nft] = Extend(epoch.history[next.nft], next)]
    <2>1. next \in Entries /\ epoch.pos + 1 \in 1 .. Len(stakeLog)
      BY <1>1, <1>4, <1>5
    <2>2. next.nft \in StakeNFTs
      BY <2>1 DEF Entries
    <2>3. epoch' = [epoch EXCEPT !.pos = epoch.pos + 1, !.history = grown]
      BY <1>5 DEF ReconstructStakeHistory
    <2> HIDE DEF next
    <2>4. grown \in HistoryOfEach
      <3>1. epoch.history[next.nft] \in Seq(Periods)
        BY <1>4, <2>2 DEF HistoryOfEach
      <3>2. Extend(epoch.history[next.nft], next) \in Seq(Periods)
        BY <2>1, <3>1, ExtendType
      <3> QED
        BY <1>4, <3>2 DEF HistoryOfEach
    <2> HIDE DEF grown
    <2>5. /\ epoch' \in EpochMemories /\ epoch'.pc = "history" /\ epoch'.pos = epoch.pos + 1
          /\ epoch'.readAt = 0 /\ epoch'.history = grown
      <3> DEFINE pos == epoch.pos + 1
      <3>1. pos \in Nat /\ epoch' = [epoch EXCEPT !.pos = pos, !.history = grown]
        BY <1>4, <2>3
      <3> HIDE DEF pos
      <3>2. /\ epoch' \in EpochMemories /\ epoch'.pc = epoch.pc /\ epoch'.pos = pos
            /\ epoch'.readAt = epoch.readAt /\ epoch'.history = grown
        BY <1>1, <2>4, <3>1 DEF EpochMemories
      <3> QED
        BY <1>2, <1>4, <3>2 DEF pos
    <2>6. CreditInv'
      <3>1. epoch'.readAt <= clock' /\ ~(epoch'.readAt >= EpochEnd)
        BY <1>3, <1>4, <2>5
      <3> QED
        BY <2>5, <3>1 DEF CreditInv, UnitsMatchStakeTime
    <2>7. ASSUME NEW H \in [0 .. Len(stakeLog) -> HistoryOfEach], Rebuilds(H), ReadSoFar(H)
          PROVE  ReadSoFar(H)'
      <3>1. epoch.history = H[epoch.pos]
        BY <1>2, <2>7 DEF ReadSoFar
      <3>2. H[epoch.pos + 1] = [H[epoch.pos] EXCEPT ![next.nft] = Extend(H[epoch.pos][next.nft], next)]
        <4>1. (epoch.pos + 1) - 1 = epoch.pos
          BY <1>4
        <4> QED
          BY <2>1, <2>7, <4>1 DEF Rebuilds, next
      <3>3. epoch'.pos \in 0 .. Len(stakeLog') /\ epoch'.history = H[epoch'.pos]
        BY <1>3, <1>4, <2>1, <2>5, <3>1, <3>2 DEF grown
      <3> QED
        BY <3>3 DEF ReadSoFar
    <2> QED
      BY <1>2, <2>5, <2>6, <2>7, ScriptStep
  <1>6. CASE ~reads
    <2>1. epoch' = [epoch EXCEPT !.pc = "filter", !.readAt = clock]
      BY <1>6 DEF ReconstructStakeHistory
    <2>2. /\ epoch' \in EpochMemories /\ epoch'.pc = "filter" /\ epoch'.readAt = clock
          /\ epoch'.history = epoch.history
      BY <1>1, <1>4, <2>1 DEF EpochMemories, Phases
    <2>3. PICK H \in [0 .. Len(stakeLog) -> HistoryOfEach] :
              Rebuilds(H) /\ LogTells(H) /\ ReadSoFar(H)
      BY DEF EpochInv
    <2>4. epoch.pos \in 0 .. Len(stakeLog) /\ epoch.history = H[epoch.pos]
      BY <1>2, <2>3 DEF ReadSoFar
    <2>5. \A k \in epoch.pos + 1 .. Len(stakeLog) : stakeLog[k].at > EpochEnd
      <3> SUFFICES ASSUME NEW k \in epoch.pos + 1 .. Len(stakeLog) PROVE stakeLog[k].at > EpochEnd
        OBVIOUS
      <3>1. /\ epoch.pos < Len(stakeLog) /\ epoch.pos + 1 <= k
            /\ epoch.pos + 1 \in 1 .. Len(stakeLog) /\ k \in 1 .. Len(stakeLog)
        BY <1>1, <1>4
      <3>2. next \in Entries /\ stakeLog[k] \in Entries /\ next.at <= stakeLog[k].at
        BY <1>1, <3>1 DEF LogSound
      <3>3. ~(next.at <= EpochEnd)
        BY <1>6, <3>1 DEF InQuery
      <3>4. next.at \in Nat /\ stakeLog[k].at \in Nat
        BY <3>2 DEF Entries
      <3> HIDE DEF next
      <3> QED
        BY <1>4, <3>2, <3>3, <3>4
    <2>6. ASSUME clock >= EpochEnd, NEW u \in Stakers, NEW n \in StakeNFTs
          PROVE  Seconds(epoch.history[n], u, EpochEnd) = stakedFor[u][n]
      <3> DEFINE P == H[Len(stakeLog)][n]
      <3>1. P \in Seq(Periods)
        <4>1. H[Len(stakeLog)] \in HistoryOfEach
          BY <1>1
        <4> QED
          BY <4>1 DEF HistoryOfEach
      <3>2. Seconds(P, u, clock) = stakedFor[u][n]
        BY <2>3 DEF LogTells, Tells
      <3>3. Seconds(P, u, EpochEnd) = Seconds(H[epoch.pos][n], u, EpochEnd)
        BY <1>1, <2>3, <2>4, <2>5, TailChangesNothing
      <3> HIDE DEF P
      <3>4. Seconds(P, u, clock) = Seconds(P, u, EpochEnd)
        BY <1>4, <2>6, <3>1, SecondsAreFinal
      <3> QED
        BY <2>4, <3>2, <3>3, <3>4
    <2>7. CreditInv'
      BY <1>3, <1>4, <2>2, <2>6 DEF CreditInv, UnitsMatchStakeTime
    <2>8. ASSUME NEW H0 PROVE ReadSoFar(H0)'
      BY <2>2 DEF ReadSoFar
    <2> QED
      BY <1>2, <2>2, <2>7, <2>8, ScriptStep
  <1> QED
    BY <1>5, <1>6

LEMMA FilterStep ==
    ASSUME EpochInv, ApplyMinStakeFilter
    PROVE  EpochInv'
  <1>1. epoch \in EpochMemories /\ CreditInv /\ clock \in Nat
    BY DEF EpochInv, EpochTypeOK
  <1>2. epoch.pc = "filter" /\ UNCHANGED stakeVars
    BY DEF ApplyMinStakeFilter
  <1>3. clock' = clock /\ stakedFor' = stakedFor
    BY <1>2 DEF stakeVars
  <1> DEFINE h == epoch.history
             kept == [n \in StakeNFTs |-> LongStays(h[n])]
             dropped == SumOver([n \in StakeNFTs |-> Len(h[n]) - Len(kept[n])], NFTSeq)
  <1>4. epoch' = [epoch EXCEPT !.pc = "units", !.history = kept, !.dropped = dropped]
    BY DEF ApplyMinStakeFilter
  <1>5. h \in HistoryOfEach
    BY <1>1, MemoryParts
  <1>6. /\ kept \in HistoryOfEach /\ dropped \in Nat
        /\ \A n \in StakeNFTs : \A u : \A t \in Nat : Seconds(kept[n], u, t) <= Seconds(h[n], u, t)
        /\ dropped = 0 => kept = h
    <2> HIDE DEF h
    <2> QED
      BY <1>5, DroppedNothing
  <1> HIDE DEF kept, dropped
  <1>7. /\ epoch' \in EpochMemories /\ epoch'.pc = "units" /\ epoch'.readAt = epoch.readAt
        /\ epoch'.history = kept /\ epoch'.dropped = dropped
    BY <1>1, <1>4, <1>6 DEF EpochMemories, Phases
  <1>8. ASSUME epoch.readAt >= EpochEnd, NEW u \in Stakers, NEW n \in StakeNFTs
        PROVE  /\ Seconds(kept[n], u, EpochEnd) <= stakedFor[u][n]
               /\ dropped = 0 => Seconds(kept[n], u, EpochEnd) = stakedFor[u][n]
    <2>1. Seconds(h[n], u, EpochEnd) = stakedFor[u][n]
      BY <1>1, <1>2, <1>8 DEF CreditInv
    <2> QED
      BY <1>6, <2>1, WindowType
  <1>9. CreditInv'
    <2>1. epoch'.readAt <= clock'
      BY <1>1, <1>3, <1>7 DEF CreditInv
    <2> QED
      BY <1>3, <1>7, <1>8, <2>1 DEF CreditInv, UnitsMatchStakeTime
  <1>10. ASSUME NEW H PROVE ReadSoFar(H)'
    BY <1>7 DEF ReadSoFar
  <1> QED
    BY <1>2, <1>7, <1>9, <1>10, ScriptStep

LEMMA UnitsStep ==
    ASSUME EpochInv, ComputeTimeWeightedUnits
    PROVE  EpochInv'
  <1>1. /\ epoch \in EpochMemories /\ CreditInv /\ clock \in Nat
        /\ stakedFor \in [Stakers -> [StakeNFTs -> Nat]]
    BY DEF EpochInv, EpochTypeOK
  <1>2. epoch.pc = "units" /\ UNCHANGED stakeVars
    BY DEF ComputeTimeWeightedUnits
  <1>3. clock' = clock /\ stakedFor' = stakedFor
    BY <1>2 DEF stakeVars
  <1> DEFINE seconds(u) == [n \in StakeNFTs |-> OwnerSeconds(epoch.history[n], u)]
             outcomes(u) == Snapped(Weighted(seconds(u)))
  <1>4. PICK units \in [Stakers -> UNION {outcomes(u) : u \in Stakers}] :
            /\ \A u \in Stakers : units[u] \in outcomes(u)
            /\ epoch' = [epoch EXCEPT !.pc = "allocate", !.units = units]
    BY DEF ComputeTimeWeightedUnits
  <1>5. epoch.history \in HistoryOfEach
    BY <1>1, MemoryParts
  <1>6. ASSUME NEW u \in Stakers
        PROVE  /\ units[u] \in Nat
               /\ epoch.readAt >= EpochEnd =>
                      /\ units[u] <= StakeTime(u) \div (EpochEnd - EpochStart)
                      /\ epoch.dropped = 0 =>
                             units[u] >= StakeTime(u) \div (EpochEnd - EpochStart) - 1
    <2> DEFINE f == seconds(u)
               g == stakedFor[u]
    <2>1. ASSUME NEW n \in StakeNFTs
          PROVE  f[n] \in Nat /\ f[n] = Seconds(epoch.history[n], u, EpochEnd)
      <3>1. epoch.history[n] \in Seq(Periods)
        BY <1>5 DEF HistoryOfEach
      <3>2. f[n] = OwnerSeconds(epoch.history[n], u)
        OBVIOUS
      <3> QED
        BY <3>1, <3>2, OwnerSecondsAreSeconds, CreditsType, WindowType
    <2>2. f \in [StakeNFTs -> Nat] /\ g \in [StakeNFTs -> Nat]
      BY <1>1, <2>1
    <2>3. units[u] \in Snapped(Weighted(f))
      BY <1>4
    <2>4. epoch.readAt >= EpochEnd => \A n \in StakeNFTs : f[n] <= g[n]
      <3> HIDE DEF f
      <3> QED
        BY <1>1, <1>2, <2>1 DEF CreditInv
    <2>5. epoch.readAt >= EpochEnd /\ epoch.dropped = 0 => f = g
      <3> HIDE DEF f
      <3>1. epoch.readAt >= EpochEnd /\ epoch.dropped = 0 => \A n \in StakeNFTs : f[n] = g[n]
        BY <1>1, <1>2, <2>1 DEF CreditInv
      <3> HIDE DEF g
      <3> QED
        BY <2>2, <3>1
    <2>6. StakeTime(u) = Weighted(g)
      BY DEF StakeTime
    <2> HIDE DEF f, g
    <2>7. Weighted(f) \in Nat /\ Weighted(g) \in Nat
      <3>1. (\A n \in StakeNFTs : f[n] <= f[n]) /\ (\A n \in StakeNFTs : g[n] <= g[n])
        BY <2>2
      <3> QED
        BY <2>2, <3>1, WeightedMonotone
    <2>8. units[u] \in Nat
      <3>1. Weighted(f) <= Weighted(f)
        BY <2>7
      <3> QED
        BY <2>3, <2>7, <3>1, SnappedUnits
    <2>9. ASSUME epoch.readAt >= EpochEnd
          PROVE  /\ units[u] <= Weighted(g) \div (EpochEnd - EpochStart)
                 /\ epoch.dropped = 0 => units[u] >= Weighted(g) \div (EpochEnd - EpochStart) - 1
      <3>1. Weighted(f) <= Weighted(g)
        BY <2>2, <2>4, <2>9, WeightedMonotone
      <3>2. epoch.dropped = 0 => Weighted(f) = Weighted(g)
        BY <2>5, <2>9
      <3> QED
        BY <2>3, <2>7, <3>1, <3>2, SnappedUnits
    <2> QED
      BY <2>6, <2>8, <2>9
  <1>7. units \in [Stakers -> Nat]
    BY <1>6
  <1>8. /\ epoch' \in EpochMemories /\ epoch'.pc = "allocate" /\ epoch'.readAt = epoch.readAt
        /\ epoch'.units = units /\ epoch'.dropped = epoch.dropped
    BY <1>1, <1>4, <1>7 DEF EpochMemories, Phases
  <1>9. \A u \in Stakers : StakeTime(u)' = StakeTime(u)
    BY <1>3 DEF StakeTime, Weighted
  <1>10. CreditInv'
    <2>1. epoch'.readAt <= clock'
      BY <1>1, <1>3, <1>8 DEF CreditInv
    <2>2. UnitsMatchStakeTime'
      BY <1>6, <1>8, <1>9 DEF UnitsMatchStakeTime
    <2> QED
      BY <1>8, <2>1, <2>2 DEF CreditInv
  <1>11. ASSUME NEW H PROVE ReadSoFar(H)'
    BY <1>8 DEF ReadSoFar
  <1> QED
    BY <1>2, <1>8, <1>10, <1>11, ScriptStep

-----------------------------------------------------------------------------
(* Allocations: what is floored is not more than there is.                   *)

\* A sum of multiples is the multiple of the sum.
Multiples(t, s, c) ==
    /\ s \in Seq(Nat) /\ t \in Seq(Nat) /\ Len(t) = Len(s) /\ c \in Nat
    /\ \A k \in 1 .. Len(s) : t[k] = c * s[k]

LEMMA SumSeqScale ==
    ASSUME NEW s, NEW t, NEW c, Multiples(t, s, c)
    PROVE  SumSeq(t) = c * SumSeq(s)
  <1> USE DEF Multiples
  <1> DEFINE n == Len(s)
  <1>1. s \in Seq(Int) /\ t \in Seq(Int) /\ n \in Nat
    OBVIOUS
  <1>2. PICK f : PrefixSums(f, s, n) /\ SumSeq(s) = f[n]
    BY <1>1, SumSeqIsPrefixSum
  <1>3. PICK g : PrefixSums(g, t, n) /\ SumSeq(t) = g[n]
    BY <1>1, SumSeqIsPrefixSum
  <1> DEFINE S == {k \in Nat : k <= n => g[k] = c * f[k]}
  <1>4. 0 \in S
    BY <1>2, <1>3 DEF PrefixSums
  <1>5. ASSUME NEW k \in Nat, k \in S PROVE k + 1 \in S
    <2> SUFFICES ASSUME k + 1 <= n PROVE g[k+1] = c * f[k+1]
      OBVIOUS
    <2>1. k + 1 \in 1 .. n /\ (k + 1) - 1 = k /\ k \in 0 .. n /\ k <= n
      BY <1>1
    <2>2. g[k] = c * f[k]
      BY <1>5, <2>1
    <2>3. /\ f[k+1] = f[k] + s[k+1] /\ f[k] \in Int
          /\ g[k+1] = g[k] + t[k+1] /\ g[k] \in Int
      BY <1>2, <1>3, <2>1 DEF PrefixSums
    <2>4. s[k+1] \in Nat /\ t[k+1] = c * s[k+1]
      BY <2>1
    <2> DEFINE a == f[k]
               b == s[k+1]
    <2>5. a \in Int /\ b \in Int /\ c * (a + b) = c * a + c * b
      <3>1. a \in Int /\ b \in Int
        BY <2>3, <2>4
      <3> HIDE DEF a, b
      <3> QED
        BY <3>1
    <2> QED
      BY <2>2, <2>3, <2>4, <2>5
  <1>6. Nat \subseteq S
    <2> HIDE DEF S
    <2> QED
      BY <1>4, <1>5, InductiveSet
  <1>7. g[n] = c * f[n]
    BY <1>1, <1>6
  <1> QED
    BY <1>2, <1>3, <1>7

\* Shares of a pool in proportion to units, each rounded down.
Shares(a, units, total) ==
    /\ a \in [Stakers -> Nat] /\ units \in [Stakers -> Nat]
    /\ \A u \in Stakers : total * a[u] <= PoolBalance * units[u]

LEMMA SharesFit ==
    ASSUME NEW a, NEW units, NEW total \in Nat, total > 0,
           Shares(a, units, total), total = SumOver(units, StakerSeq)
    PROVE  SumOver(a, StakerSeq) <= PoolBalance
  <1> DEFINE n == Len(StakerSeq)
             s == [k \in 1 .. n |-> a[StakerSeq[k]]]
             r == [k \in 1 .. n |-> units[StakerSeq[k]]]
             ts == [k \in 1 .. n |-> total * s[k]]
             pr == [k \in 1 .. n |-> PoolBalance * r[k]]
  <1>1. /\ n \in Nat /\ PoolBalance \in Nat /\ StakerSeq \in Seq(Stakers)
        /\ \A k \in 1 .. n : StakerSeq[k] \in Stakers
    BY EpochAssumption
  <1>2. ASSUME NEW k \in 1 .. n
        PROVE  s[k] \in Nat /\ r[k] \in Nat /\ total * s[k] <= PoolBalance * r[k]
    BY <1>1 DEF Shares
  <1>3. s \in Seq(Nat) /\ r \in Seq(Nat) /\ Len(s) = n /\ Len(r) = n
    <2> DEFINE A(k) == a[StakerSeq[k]]
               B(k) == units[StakerSeq[k]]
    <2>1. \A k \in 1 .. n : A(k) \in Nat /\ B(k) \in Nat
      BY <1>2
    <2>2. s = [k \in 1 .. n |-> A(k)] /\ r = [k \in 1 .. n |-> B(k)]
      OBVIOUS
    <2> HIDE DEF A, B, s, r, n
    <2> QED
      BY <1>1, <2>1, <2>2
  <1>4. SumOver(a, StakerSeq) = SumSeq(s) /\ SumOver(units, StakerSeq) = SumSeq(r)
    BY DEF SumOver
  <1> HIDE DEF s, r, n
  <1>5. ASSUME NEW k \in 1 .. n
        PROVE  total * s[k] \in Nat /\ PoolBalance * r[k] \in Nat
    BY <1>1, <1>2
  <1>6. /\ ts \in Seq(Nat) /\ pr \in Seq(Nat) /\ Len(ts) = n /\ Len(pr) = n
        /\ ts \in Seq(Int) /\ pr \in Seq(Int)
        /\ \A k \in 1 .. n : ts[k] = total * s[k] /\ pr[k] = PoolBalance * r[k] /\ ts[k] <= pr[k]
    <2> DEFINE A(k) == total * s[k]
               B(k) == PoolBalance * r[k]
    <2>1. \A k \in 1 .. n : A(k) \in Nat /\ B(k) \in Nat /\ A(k) <= B(k)
      BY <1>2, <1>5
    <2>2. ts = [k \in 1 .. n |-> A(k)] /\ pr = [k \in 1 .. n |-> B(k)]
      OBVIOUS
    <2> HIDE DEF A, B, ts, pr
    <2>3. /\ ts \in Seq(Nat) /\ pr \in Seq(Nat) /\ Len(ts) = n /\ Len(pr) = n
          /\ ts \in Seq(Int) /\ pr \in Seq(Int)
          /\ \A k \in 1 .. n : ts[k] = A(k) /\ pr[k] = B(k) /\ ts[k] <= pr[k]
      BY <1>1, <2>1, <2>2
    <2> QED
      BY <2>3 DEF A, B
  <1> HIDE DEF ts, pr
  <1>7. SumSeq(ts) = total * SumSeq(s)
    <2>1. Multiples(ts, s, total)
      BY <1>3, <1>6 DEF Multiples
    <2> QED
      BY <2>1, SumSeqScale
  <1>8. SumSeq(pr) = PoolBalance * SumSeq(r)
    <2>1. Multiples(pr, r, PoolBalance)
      BY <1>1, <1>3, <1>6 DEF Multiples
    <2> QED
      BY <2>1, SumSeqScale
  <1>9. SumSeq(ts) <= SumSeq(pr)
    BY <1>6, SumSeqMonotone
  <1>10. SumSeq(s) \in Nat
    BY <1>3, SumSeqOfNaturals
  <1>11. total * SumSeq(s) <= PoolBalance * total
    BY <1>4, <1>7, <1>8, <1>9
  <1> DEFINE q == SumSeq(s)
  <1>12. q * total < PoolBalance * total + total
    <2>1. q \in Nat
      BY <1>10
    <2>2. total * q <= PoolBalance * total
      BY <1>11
    <2> HIDE DEF q
    <2>3. q * total = total * q /\ PoolBalance * total \in Nat /\ q * total \in Nat
      BY <1>1, <2>1
    <2> QED
      BY <2>2, <2>3
  <1>13. q <= PoolBalance
    <2>1. q \in Int
      BY <1>10
    <2> HIDE DEF q
    <2> QED
      BY <1>1, <1>12, <2>1, FactorsCompare
  <1> QED
    BY <1>4, <1>13

\* The share of a staker.
Share(units, u) ==
    LET totalUnits == SumOver(units, StakerSeq)
    IN IF totalUnits = 0 THEN 0 ELSE (PoolBalance * units[u]) \div totalUnits

LEMMA SharesType ==
    ASSUME NEW units \in [Stakers -> Nat]
    PROVE  /\ \A u \in Stakers : Share(units, u) \in Nat
           /\ SumOver([u \in Stakers |-> Share(units, u)], StakerSeq) <= PoolBalance
  <1> DEFINE total == SumOver(units, StakerSeq)
             a == [u \in Stakers |-> Share(units, u)]
  <1>1. total \in Nat /\ PoolBalance \in Nat /\ StakerSeq \in Seq(Stakers)
    BY EpochAssumption, SumOverOfNaturals
  <1>2. CASE total = 0
    <2>1. \A u \in Stakers : Share(units, u) = 0
      BY <1>2 DEF Share
    <2>2. a \in [Stakers -> Int] /\ \A u \in Stakers : a[u] = 0
      BY <2>1
    <2> HIDE DEF a
    <2>3. SumOver(a, StakerSeq) = 0
      BY <1>1, <2>2, SumOverOfZeros
    <2> QED
      BY <1>1, <2>1, <2>3 DEF a
  <1>3. CASE total # 0
    <2>1. ASSUME NEW u \in Stakers
          PROVE  Share(units, u) \in Nat /\ total * Share(units, u) <= PoolBalance * units[u]
      <3> DEFINE p == PoolBalance * units[u]
      <3>1. p \in Nat
        BY <1>1
      <3>2. Share(units, u) = p \div total
        BY <1>3 DEF Share
      <3> HIDE DEF p, total
      <3>3. p \div total \in Nat /\ (p \div total) * total <= p
        BY <1>1, <1>3, <3>1, FloorFacts
      <3>4. (p \div total) * total = total * (p \div total)
        <4> DEFINE q == p \div total
        <4>1. q \in Nat
          BY <3>3
        <4> HIDE DEF q
        <4>2. q * total = total * q
          BY <1>1, <4>1
        <4> QED
          BY <4>2 DEF q
      <3>5. p \div total \in Nat /\ total * (p \div total) <= p
        BY <3>3, <3>4
      <3> QED
        BY <3>2, <3>5 DEF p
    <2>2. \A u \in Stakers : a[u] = Share(units, u)
      OBVIOUS
    <2>3. a \in [Stakers -> Nat]
      BY <2>1
    <2> HIDE DEF a, total
    <2>4. Shares(a, units, total)
      BY <2>1, <2>2, <2>3 DEF Shares
    <2>5. total = SumOver(units, StakerSeq) /\ total > 0
      BY <1>1, <1>3 DEF total
    <2>6. SumOver(a, StakerSeq) <= PoolBalance
      BY <1>1, <2>4, <2>5, SharesFit
    <2> QED
      BY <2>1, <2>6 DEF a
  <1> QED
    BY <1>2, <1>3

LEMMA AllocateParts ==
    ASSUME EpochInv, AllocateLazy
    PROVE  /\ epoch' \in EpochMemories /\ epoch'.pc = "done" /\ epoch'.readAt = epoch.readAt
           /\ epoch'.units = epoch.units /\ epoch'.dropped = epoch.dropped
           /\ epoch'.allocations = [u \in Stakers |-> Share(epoch.units, u)]
  <1>1. epoch \in EpochMemories /\ epoch.units \in [Stakers -> Nat]
    BY MemoryParts DEF EpochInv, EpochTypeOK
  <1> DEFINE a == [u \in Stakers |-> Share(epoch.units, u)]
  <1>2. epoch' = [epoch EXCEPT !.pc = "done", !.allocations = a]
    BY Zenon DEF AllocateLazy, Share
  <1>3. \A u \in Stakers : Share(epoch.units, u) \in Nat
    BY <1>1, SharesType
  <1>4. a \in [Stakers -> Nat]
    BY <1>3
  <1> HIDE DEF a
  <1>5. /\ epoch' \in EpochMemories /\ epoch'.pc = "done" /\ epoch'.readAt = epoch.readAt
        /\ epoch'.units = epoch.units /\ epoch'.dropped = epoch.dropped
        /\ epoch'.allocations = a
    BY <1>1, <1>2, <1>4 DEF EpochMemories, Phases
  <1> QED
    BY <1>5 DEF a

LEMMA AllocateStep ==
    ASSUME EpochInv, AllocateLazy
    PROVE  EpochInv'
  <1>1. CreditInv /\ clock \in Nat
    BY DEF EpochInv, EpochTypeOK
  <1>2. epoch.pc = "allocate" /\ UNCHANGED stakeVars
    BY DEF AllocateLazy
  <1>3. clock' = clock /\ stakedFor' = stakedFor
    BY <1>2 DEF stakeVars
  <1>4. /\ epoch' \in EpochMemories /\ epoch'.pc = "done" /\ epoch'.readAt = epoch.readAt
        /\ epoch'.units = epoch.units /\ epoch'.dropped = epoch.dropped
    BY AllocateParts
  <1>5. \A u \in Stakers : StakeTime(u)' = StakeTime(u)
    BY <1>3 DEF StakeTime, Weighted
  <1>6. CreditInv'
    <2>1. epoch'.readAt <= clock'
      BY <1>1, <1>3, <1>4 DEF CreditInv
    <2>2. UnitsMatchStakeTime'
      BY <1>1, <1>2, <1>4, <1>5 DEF CreditInv, UnitsMatchStakeTime
    <2> QED
      BY <1>4, <2>1, <2>2 DEF CreditInv
  <1>7. ASSUME NEW H PROVE ReadSoFar(H)'
    BY <1>4 DEF ReadSoFar
  <1> QED
    BY <1>2, <1>4, <1>6, <1>7, ScriptStep

LEMMA EpochInitInv == EpochInit => EpochInv
  <1> SUFFICES ASSUME EpochInit PROVE EpochInv
    OBVIOUS
  <1> DEFINE empty == [n \in StakeNFTs |-> <<>>]
  <1>1. /\ clock = 0 /\ stakerOf = [n \in StakeNFTs |-> NoStaker] /\ stakeLog = <<>>
        /\ stakedFor = [u \in Stakers |-> [n \in StakeNFTs |-> 0]] /\ epoch = NoEpoch
    BY DEF EpochInit
  <1>2. empty \in HistoryOfEach /\ \A n \in StakeNFTs : empty[n] = <<>>
    BY DEF HistoryOfEach
  <1>3. /\ epoch.pc = "wait" /\ epoch.pos = 0 /\ epoch.readAt = 0 /\ epoch.history = empty
        /\ epoch \in EpochMemories
    <2> HIDE DEF empty
    <2>1. NoEpoch = [pc |-> "wait", pos |-> 0, readAt |-> 0, history |-> empty, dropped |-> 0,
                     units |-> [u \in Stakers |-> 0], allocations |-> [u \in Stakers |-> 0]]
      BY DEF NoEpoch, empty
    <2> QED
      BY <1>1, <1>2, <2>1 DEF EpochMemories, Phases
  <1>4. Len(stakeLog) = 0 /\ stakeLog \in Seq(Entries)
    BY <1>1
  <1>5. EpochTypeOK
    BY <1>1, <1>3, <1>4 DEF EpochTypeOK
  <1>6. LogSound
    BY <1>4 DEF LogSound
  <1>7. CreditInv
    <2>1. EpochEnd \in Nat /\ EpochEnd > 0
      BY WindowType
    <2>2. epoch.readAt <= clock /\ ~(epoch.readAt >= EpochEnd)
      BY <1>1, <1>3, <2>1
    <2> QED
      BY <1>3, <2>2 DEF CreditInv, UnitsMatchStakeTime
  <1>8. PICK H \in [0 .. Len(stakeLog) -> HistoryOfEach] : H[0] = empty
    <2> HIDE DEF empty
    <2>1. [k \in 0 .. 0 |-> empty] \in [0 .. Len(stakeLog) -> HistoryOfEach]
      BY <1>2, <1>4
    <2>2. [k \in 0 .. 0 |-> empty][0] = empty
      OBVIOUS
    <2> QED
      BY <2>1, <2>2
  <1>9. Rebuilds(H)
    BY <1>4, <1>8 DEF Rebuilds
  <1>10. ReadSoFar(H)
    <2> HIDE DEF empty
    <2> QED
      BY <1>3, <1>4, <1>8 DEF ReadSoFar
  <1>11. LogTells(H)
    <2> SUFFICES ASSUME NEW n \in StakeNFTs PROVE Tells(H[Len(stakeLog)][n], n)
      BY DEF LogTells
    <2>1. H[Len(stakeLog)][n] = <<>>
      BY <1>2, <1>4, <1>8
    <2>2. ~HasOpen(<<>>) /\ Closed(<<>>)
      BY DEF HasOpen, Closed
    <2>3. stakerOf[n] = NoStaker
      BY <1>1
    <2>4. \A u \in Stakers : Seconds(<<>>, u, clock) = stakedFor[u][n]
      BY <1>1, EmptyHistory
    <2> QED
      BY <2>1, <2>2, <2>3, <2>4 DEF Tells
  <1> QED
    BY <1>5, <1>6, <1>7, <1>9, <1>10, <1>11 DEF EpochInv

\* The invariant of the computation of an epoch: what the log tells, read as
\* far as the script has read it.
THEOREM EpochInvariance == EpochSpec => []EpochInv
  <1>1. EpochInit => EpochInv
    BY EpochInitInv
  <1>2. EpochInv /\ [EpochNext]_epochVars => EpochInv'
    <2> SUFFICES ASSUME EpochInv, [EpochNext]_epochVars PROVE EpochInv'
      OBVIOUS
    <2>1. CASE UNCHANGED epochVars
      <3>1. epoch' = epoch /\ clock' = clock /\ stakedFor' = stakedFor /\ UNCHANGED stakeVars
        BY <2>1 DEF epochVars, stakeVars
      <3>2. epoch' \in EpochMemories
        BY <3>1 DEF EpochInv, EpochTypeOK
      <3>3. UnitsMatchStakeTime'
        BY <3>1 DEF EpochInv, CreditInv, UnitsMatchStakeTime, StakeTime, Weighted
      <3>4. CreditInv'
        BY <3>1, <3>3 DEF EpochInv, CreditInv
      <3>5. ASSUME NEW H, ReadSoFar(H) PROVE ReadSoFar(H)'
        BY <3>1, <3>5 DEF ReadSoFar, stakeVars
      <3> QED
        BY <3>1, <3>2, <3>4, <3>5, ScriptStep
    <2>2. CASE \E u \in Stakers, n \in StakeNFTs : StakeNFT(u, n)
      BY <2>2, StakeStep
    <2>3. CASE \E n \in StakeNFTs : UnstakeNFT(n)
      BY <2>3, UnstakeStep
    <2>4. CASE EpochTick
      BY <2>4, TickStep
    <2>5. CASE StartEpoch
      BY <2>5, StartStep
    <2>6. CASE ReconstructStakeHistory
      BY <2>6, ReadStep
    <2>7. CASE ApplyMinStakeFilter
      BY <2>7, FilterStep
    <2>8. CASE ComputeTimeWeightedUnits
      BY <2>8, UnitsStep
    <2>9. CASE AllocateLazy
      BY <2>9, AllocateStep
    <2> QED
      BY <2>1, <2>2, <2>3, <2>4, <2>5, <2>6, <2>7, <2>8, <2>9 DEF EpochNext
  <1> QED
    BY <1>1, <1>2, PTL DEF EpochSpec

\* The units are the time staked, counted second by second: never more, and
\* where no stay was too short no less but for the rounding
\* (reconstructStakeHistory, applyMinStakeFilter, computeTimeWeightedUnits).
THEOREM UnitsMatchStakeTimeHolds == EpochSpec => []UnitsMatchStakeTime
  <1>1. EpochInv => UnitsMatchStakeTime
    BY DEF EpochInv, CreditInv
  <1> QED
    BY <1>1, EpochInvariance, PTL

-----------------------------------------------------------------------------
(* The Merkle tree.                                                          *)

\* A layer is a list that is not empty.
IsLayer(x) == Len(x) \in Nat /\ Len(x) >= 1 /\ x = [i \in 1 .. Len(x) |-> x[i]]

\* A tree over leaves: every layer is Up of the one below, and the last one is
\* a root.
IsTree(tree, leaves) ==
    /\ Len(tree) \in Nat /\ Len(tree) >= 1
    /\ tree[1] = leaves
    /\ \A k \in 1 .. Len(tree) : IsLayer(tree[k])
    /\ \A k \in 1 .. Len(tree) - 1 : tree[k+1] = Up(tree[k])
    /\ Len(tree[Len(tree)]) = 1

LEMMA UpIsLayer ==
    ASSUME NEW x, IsLayer(x)
    PROVE  /\ IsLayer(Up(x)) /\ Len(Up(x)) = (Len(x) + 1) \div 2
           /\ \A i \in 1 .. (Len(x) + 1) \div 2 :
                  Up(x)[i] = IF 2 * i > Len(x) THEN x[2 * i - 1]
                             ELSE HashPair(x[2 * i - 1], x[2 * i])
           /\ Len(x) > 1 => Len(Up(x)) < Len(x)
  <1> DEFINE h == (Len(x) + 1) \div 2
             node(i) == IF 2 * i > Len(x) THEN x[2 * i - 1] ELSE HashPair(x[2 * i - 1], x[2 * i])
  <1>1. h \in Nat /\ h >= 1 /\ (Len(x) > 1 => h < Len(x))
    BY DEF IsLayer
  <1>2. Up(x) = [i \in 1 .. h |-> node(i)]
    BY DEF Up
  <1> HIDE DEF h, node
  <1>3. \A i \in 1 .. h : Up(x)[i] = node(i)
    BY <1>2
  <1>4. Up(x) = [i \in 1 .. h |-> Up(x)[i]]
    BY <1>2, <1>3
  <1>5. Len(Up(x)) = h
    BY <1>1, <1>4, ListLength
  <1>6. IsLayer(Up(x))
    BY <1>1, <1>4, <1>5 DEF IsLayer
  <1> QED
    BY <1>1, <1>3, <1>5, <1>6 DEF h, node

\* The layers of buildTree, one for every leaf, although the tree stops at the
\* first that is a root.
IsLayers(f, leaves) ==
    f = [k \in 0 .. Len(leaves) |-> IF k = 0 THEN leaves ELSE Up(f[k-1])]

LEMMA LayersExist ==
    ASSUME NEW leaves, Len(leaves) \in Nat
    PROVE  \E f : IsLayers(f, leaves)
  <1> DEFINE n == Len(leaves)
             Eq(f, m) == f = [k \in 0 .. m |-> IF k = 0 THEN leaves ELSE Up(f[k-1])]
             S == {m \in Nat : \E f : Eq(f, m)}
  <1>1. 0 \in S
    <2> DEFINE f == [k \in 0 .. 0 |-> leaves]
    <2>1. Eq(f, 0)
      OBVIOUS
    <2> HIDE DEF f, Eq
    <2> QED
      BY <2>1
  <1>2. ASSUME NEW m \in Nat, m \in S PROVE m + 1 \in S
    <2>1. PICK f : Eq(f, m)
      BY <1>2
    <2> DEFINE g == [k \in 0 .. m + 1 |-> IF k = m + 1 THEN Up(f[m]) ELSE f[k]]
    <2>2. /\ f[0] = leaves
          /\ \A k \in 1 .. m : f[k] = Up(f[k-1])
      <3>1. 0 \in 0 .. m /\ \A k \in 1 .. m : k \in 0 .. m /\ k # 0
        OBVIOUS
      <3> QED
        BY <2>1, <3>1
    <2>3. /\ g[0] = leaves
          /\ \A k \in 1 .. m + 1 : g[k] = Up(g[k-1])
      <3>1. 0 \in 0 .. m + 1 /\ 0 # m + 1
        OBVIOUS
      <3>2. ASSUME NEW k \in 1 .. m + 1 PROVE g[k] = Up(g[k-1])
        <4>1. k - 1 \in 0 .. m + 1 /\ k - 1 # m + 1 /\ k \in 0 .. m + 1
          OBVIOUS
        <4>2. g[k-1] = f[k-1]
          BY <4>1
        <4>3. CASE k = m + 1
          <5>1. g[k] = Up(f[m]) /\ k - 1 = m
            BY <4>1, <4>3
          <5> QED
            BY <4>2, <5>1
        <4>4. CASE k # m + 1
          <5>1. k \in 1 .. m /\ g[k] = f[k]
            BY <4>1, <4>4
          <5> QED
            BY <2>2, <4>2, <5>1
        <4> QED
          BY <4>3, <4>4
      <3> QED
        BY <2>2, <3>1, <3>2
    <2>4. g = [k \in 0 .. m + 1 |-> g[k]]
      OBVIOUS
    <2> HIDE DEF g
    <2>5. \A k \in 0 .. m + 1 : k # 0 => k \in 1 .. m + 1
      OBVIOUS
    <2>6. Eq(g, m + 1)
      BY <2>3, <2>4, <2>5
    <2> HIDE DEF Eq
    <2> QED
      BY <2>6
  <1>3. Nat \subseteq S
    <2> HIDE DEF S
    <2> QED
      BY <1>1, <1>2, InductiveSet
  <1>4. \E f : Eq(f, n)
    <2> HIDE DEF Eq
    <2> QED
      BY <1>3
  <1> QED
    BY <1>4 DEF IsLayers

\* buildTree returns a tree.
LEMMA BuildTreeIsTree ==
    ASSUME NEW leaves, IsLayer(leaves)
    PROVE  IsTree(BuildTree(leaves), leaves)
  <1> DEFINE n == Len(leaves)
             Sol == CHOOSE f : f = [k \in 0 .. n |-> IF k = 0 THEN leaves ELSE Up(f[k-1])]
             top == CHOOSE k \in 0 .. n :
                       Len(Sol[k]) = 1 /\ \A l \in 0 .. k - 1 : Len(Sol[l]) > 1
  <1>1. BuildTree(leaves) = [k \in 1 .. top + 1 |-> Sol[k-1]]
    BY Zenon DEF BuildTree
  <1>2. n \in Nat /\ n >= 1
    BY DEF IsLayer
  <1>3. IsLayers(Sol, leaves)
    BY <1>2, LayersExist DEF IsLayers
  <1> HIDE DEF Sol
  <1>4. Sol[0] = leaves /\ \A k \in 1 .. n : Sol[k] = Up(Sol[k-1])
    <2>1. 0 \in 0 .. n /\ \A k \in 1 .. n : k \in 0 .. n /\ k # 0
      BY <1>2
    <2> QED
      BY <1>3, <2>1 DEF IsLayers
  <1> DEFINE Small(k) == IsLayer(Sol[k]) /\ (Len(Sol[k]) = 1 \/ Len(Sol[k]) + k <= n)
             S == {k \in Nat : k <= n => Small(k)}
  <1>5. 0 \in S
    <2>1. Small(0)
      BY <1>2, <1>4
    <2> HIDE DEF Small
    <2> QED
      BY <2>1
  <1>6. ASSUME NEW k \in Nat, k \in S PROVE k + 1 \in S
    <2> SUFFICES ASSUME k + 1 <= n PROVE Small(k + 1)
      <3> HIDE DEF Small
      <3> QED
        OBVIOUS
    <2>1. k <= n /\ k + 1 \in 1 .. n /\ (k + 1) - 1 = k
      BY <1>2
    <2>2. Small(k)
      <3> HIDE DEF Small
      <3> QED
        BY <1>6, <2>1
    <2>3. Sol[k+1] = Up(Sol[k])
      BY <1>4, <2>1
    <2> DEFINE a == Len(Sol[k])
               b == Len(Sol[k+1])
    <2>4. /\ IsLayer(Sol[k+1]) /\ b = (a + 1) \div 2 /\ (a > 1 => b < a)
          /\ a \in Nat /\ a >= 1 /\ b \in Nat /\ b >= 1
      BY <2>2, <2>3, UpIsLayer DEF IsLayer
    <2>5. a = 1 \/ a + k <= n
      BY <2>2
    <2> HIDE DEF a, b
    <2>6. b = 1 \/ b + (k + 1) <= n
      BY <1>2, <2>4, <2>5
    <2> QED
      BY <2>4, <2>6 DEF b
  <1>7. Nat \subseteq S
    <2> HIDE DEF S
    <2> QED
      BY <1>5, <1>6, InductiveSet
  <1>8. \A k \in 0 .. n : Small(k)
    <2> HIDE DEF Small
    <2> QED
      BY <1>2, <1>7
  <1> DEFINE Roots == {k \in 0 .. n : Len(Sol[k]) = 1}
  <1>9. PICK least \in Roots : \A k \in Roots : least <= k
    <2>1. n \in 0 .. n /\ Small(n)
      BY <1>2, <1>8
    <2>2. Len(Sol[n]) = 1
      BY <1>2, <2>1 DEF IsLayer
    <2>3. Roots \in SUBSET Nat /\ n \in Roots
      BY <2>1, <2>2
    <2> HIDE DEF Roots
    <2> QED
      BY <2>3, LeastElement
  <1>10. \A l \in 0 .. least - 1 : Len(Sol[l]) > 1
    <2> SUFFICES ASSUME NEW l \in 0 .. least - 1 PROVE Len(Sol[l]) > 1
      OBVIOUS
    <2>1. l \in 0 .. n /\ ~(least <= l)
      BY <1>2
    <2>2. Small(l) /\ Len(Sol[l]) # 1
      BY <1>8, <1>9, <2>1
    <2>3. Len(Sol[l]) \in Nat /\ Len(Sol[l]) >= 1
      BY <2>2 DEF IsLayer
    <2> DEFINE a == Len(Sol[l])
    <2>4. a \in Nat /\ a >= 1 /\ a # 1
      BY <2>2, <2>3
    <2> HIDE DEF a
    <2>5. a > 1
      BY <2>4
    <2> QED
      BY <2>5 DEF a
  <1>11. top \in 0 .. n /\ Len(Sol[top]) = 1
    <2>1. least \in 0 .. n /\ Len(Sol[least]) = 1
      OBVIOUS
    <2> QED
      BY <1>10, <2>1
  <1> HIDE DEF top, Roots, S
  <1> DEFINE tree == [k \in 1 .. top + 1 |-> Sol[k-1]]
  <1>12. top \in Nat /\ top + 1 \in Nat /\ \A k \in 1 .. top + 1 : k - 1 \in 0 .. n
    BY <1>2, <1>11
  <1>13. \A k \in 1 .. top + 1 : tree[k] = Sol[k-1]
    OBVIOUS
  <1>14. Len(tree) = top + 1
    <2>1. tree = [k \in 1 .. top + 1 |-> tree[k]]
      BY <1>13
    <2> HIDE DEF tree
    <2> QED
      BY <1>12, <2>1, ListLength
  <1> HIDE DEF tree
  <1>15. IsTree(tree, leaves)
    <2>1. tree[1] = leaves
      <3>1. 1 \in 1 .. top + 1 /\ 1 - 1 = 0
        BY <1>12
      <3> QED
        BY <1>4, <1>13, <3>1
    <2>2. \A k \in 1 .. top + 1 : IsLayer(tree[k])
      BY <1>8, <1>12, <1>13
    <2>3. ASSUME NEW k \in 1 .. (top + 1) - 1 PROVE tree[k+1] = Up(tree[k])
      <3>1. k \in 1 .. top + 1 /\ k + 1 \in 1 .. top + 1 /\ (k + 1) - 1 = k /\ k \in 1 .. n
        BY <1>2, <1>11, <1>12
      <3>2. tree[k+1] = Sol[k] /\ tree[k] = Sol[k-1]
        BY <1>13, <3>1
      <3> QED
        BY <1>4, <3>1, <3>2
    <2>4. Len(tree[top + 1]) = 1
      <3>1. top + 1 \in 1 .. top + 1 /\ (top + 1) - 1 = top
        BY <1>12
      <3> QED
        BY <1>11, <1>13, <3>1
    <2> QED
      BY <1>12, <1>14, <2>1, <2>2, <2>3, <2>4 DEF IsTree
  <1> QED
    BY <1>1, <1>15 DEF tree

\* The path of leaf i through a tree: the index of the node above it in every
\* layer, and the hashes collected on the way there.
Sibling(idx, k) == IF idx[k-1] % 2 = 0 THEN idx[k-1] + 1 ELSE idx[k-1] - 1

\* Lists of any length can be collected.
Collected(f, V, C, n) ==
    f = [k \in 0 .. n |-> IF k = 0 THEN <<>> ELSE IF k \in C THEN Append(f[k-1], V[k]) ELSE f[k-1]]

LEMMA CollectionExists ==
    ASSUME NEW n \in Nat, NEW T, NEW C, NEW V, V \in [1 .. n -> T]
    PROVE  \E f : Collected(f, V, C, n) /\ f \in [0 .. n -> Seq(T)]
  <1> DEFINE G == [x \in Seq(T) \X (1 .. n) |->
                      IF x[2] \in C THEN Append(x[1], V[x[2]]) ELSE x[1]]
  <1>1. StepsOn(G, Seq(T), n)
    <2>1. \A x \in Seq(T) \X (1 .. n) : G[x] \in Seq(T)
      OBVIOUS
    <2> QED
      BY <2>1 DEF StepsOn
  <1>2. <<>> \in Seq(T)
    OBVIOUS
  <1>3. PICK f : Follows(f, G, Seq(T), n, <<>>)
    <2> HIDE DEF G
    <2> QED
      BY <1>1, <1>2, RecursionExists
  <1>4. ASSUME NEW k \in 1 .. n
        PROVE  f[k] = IF k \in C THEN Append(f[k-1], V[k]) ELSE f[k-1]
    <2>1. k - 1 \in 0 .. n
      OBVIOUS
    <2>2. f[k-1] \in Seq(T) /\ f[k] = G[<<f[k-1], k>>]
      <3> HIDE DEF G
      <3> QED
        BY <1>3, <2>1 DEF Follows
    <2>3. <<f[k-1], k>> \in Seq(T) \X (1 .. n)
      BY <2>2
    <2> QED
      BY <2>2, <2>3
  <1>5. f \in [0 .. n -> Seq(T)] /\ f[0] = <<>>
    BY <1>3 DEF Follows
  <1>6. \A k \in 0 .. n : k # 0 => k \in 1 .. n
    OBVIOUS
  <1>7. Collected(f, V, C, n)
    <2> HIDE DEF G
    <2> QED
      BY <1>4, <1>5, <1>6 DEF Collected
  <1> QED
    BY <1>5, <1>7

\* What getProof walks through: p[k] is collected when layer k + 1 is reached.
Walk(idx, p, T, tree, i, n) ==
    /\ idx[0] = i
    /\ \A k \in 0 .. n : idx[k] \in Nat
    /\ \A k \in 1 .. n : idx[k] = idx[k-1] \div 2
    /\ \A k \in 1 .. n : tree[k][Sibling(idx, k) + 1] \in T
    /\ p \in [0 .. n -> Seq(T)]
    /\ p[0] = <<>>
    /\ \A k \in 1 .. n :
           p[k] = IF Sibling(idx, k) < Len(tree[k])
                  THEN Append(p[k-1], tree[k][Sibling(idx, k) + 1]) ELSE p[k-1]

LEMMA GetProofWalks ==
    ASSUME NEW tree, Len(tree) - 1 \in Nat, NEW i \in Nat
    PROVE  \E idx : \E p : \E T :
               Walk(idx, p, T, tree, i, Len(tree) - 1) /\ GetProof(tree, i) = p[Len(tree) - 1]
  <1> DEFINE n == Len(tree) - 1
             PathEq(f) == f = [k \in 0 .. n |-> IF k = 0 THEN i ELSE f[k-1] \div 2]
             idx == CHOOSE f : PathEq(f)
             ProofEq(f) == f = [k \in 0 .. n |->
                                   IF k = 0 THEN <<>>
                                   ELSE IF Sibling(idx, k) < Len(tree[k])
                                        THEN Append(f[k-1], tree[k][Sibling(idx, k) + 1]) ELSE f[k-1]]
             p == CHOOSE f : ProofEq(f)
             H == [x \in Nat \X (1 .. n) |-> x[1] \div 2]
             V == [k \in 1 .. n |-> tree[k][Sibling(idx, k) + 1]]
             T == {V[k] : k \in 1 .. n}
             C == {k \in 1 .. n : Sibling(idx, k) < Len(tree[k])}
  <1>1. GetProof(tree, i) = p[n]
    BY Zenon DEF GetProof, Sibling
  <1>12. n \in Nat
    OBVIOUS
  <1> HIDE DEF n
  <1>2. \A k \in 0 .. n : k # 0 => k \in 1 .. n
    BY <1>12
  <1>3. PathEq(idx)
    <2>1. StepsOn(H, Nat, n)
      <3>1. \A x \in Nat \X (1 .. n) : x[1] \div 2 \in Nat
        OBVIOUS
      <3> QED
        BY <3>1 DEF StepsOn
    <2>2. PICK f : Follows(f, H, Nat, n, i)
      <3> HIDE DEF H
      <3> QED
        BY <1>12, <2>1, RecursionExists
    <2>3. ASSUME NEW k \in 1 .. n PROVE f[k] = f[k-1] \div 2
      <3>1. k - 1 \in 0 .. n
        BY <1>12
      <3>2. f[k-1] \in Nat /\ f[k] = H[<<f[k-1], k>>]
        <4> HIDE DEF H
        <4> QED
          BY <2>2, <3>1 DEF Follows
      <3>3. <<f[k-1], k>> \in Nat \X (1 .. n)
        BY <3>2
      <3> QED
        BY <3>2, <3>3
    <2>4. PathEq(f)
      BY <1>2, <2>2, <2>3 DEF Follows
    <2> HIDE DEF PathEq
    <2> QED
      BY <2>4
  <1> HIDE DEF idx
  <1>4. PICK f : Collected(f, V, C, n)
    <2>1. V \in [1 .. n -> T]
      OBVIOUS
    <2> HIDE DEF V, T, C, n
    <2> QED
      BY <1>12, <2>1, CollectionExists
  <1>5. \A k \in 1 .. n : /\ k \in C <=> Sibling(idx, k) < Len(tree[k])
                          /\ V[k] = tree[k][Sibling(idx, k) + 1]
                          /\ V[k] \in T
    OBVIOUS
  <1> HIDE DEF V, C, T
  <1>6. ProofEq(f)
    BY <1>2, <1>4, <1>5 DEF Collected
  <1>7. ProofEq(p)
    <2> HIDE DEF ProofEq
    <2> QED
      BY <1>6
  <1> HIDE DEF p
  <1>8. idx[0] = i /\ (\A k \in 1 .. n : idx[k] = idx[k-1] \div 2) /\ \A k \in 0 .. n : idx[k] \in Nat
    <2>1. idx[0] = i /\ \A k \in 1 .. n : idx[k] = idx[k-1] \div 2
      <3>1. 0 \in 0 .. n /\ \A k \in 1 .. n : k \in 0 .. n /\ k # 0
        BY <1>12
      <3> QED
        BY <1>3, <3>1
    <2>2. \A k \in 0 .. n : idx[k] \in Nat
      <3>1. idx[0] \in Nat
        BY <2>1
      <3>2. \A k \in 1 .. n : idx[k-1] \in Nat => idx[k] \in Nat
        BY <2>1
      <3> QED
        BY <1>12, <3>1, <3>2, InductionUpTo
    <2> QED
      BY <2>1, <2>2
  <1>9. p[0] = <<>> /\ \A k \in 1 .. n :
            p[k] = IF Sibling(idx, k) < Len(tree[k])
                   THEN Append(p[k-1], tree[k][Sibling(idx, k) + 1]) ELSE p[k-1]
    <2>1. 0 \in 0 .. n /\ \A k \in 1 .. n : k \in 0 .. n /\ k # 0
      BY <1>12
    <2> QED
      BY <1>7, <2>1
  <1>10. p \in [0 .. n -> Seq(T)]
    <2>0. p[0] \in Seq(T)
      BY <1>9
    <2>2. ASSUME NEW k \in 1 .. n, p[k-1] \in Seq(T) PROVE p[k] \in Seq(T)
      <3> DEFINE x == tree[k][Sibling(idx, k) + 1]
                 q == p[k-1]
      <3>1. x \in T /\ q \in Seq(T)
        BY <1>5, <2>2
      <3>2. p[k] = Append(q, x) \/ p[k] = q
        BY <1>9
      <3> HIDE DEF x, q
      <3>3. Append(q, x) \in Seq(T)
        BY <3>1
      <3> QED
        BY <3>1, <3>2, <3>3
    <2>3. \A k \in 0 .. n : p[k] \in Seq(T)
      BY <1>9, <1>12, <2>0, <2>2, InductionUpTo
    <2>4. p = [k \in 0 .. n |-> p[k]]
      BY <1>7
    <2> QED
      BY <2>3, <2>4
  <1>11. Walk(idx, p, T, tree, i, n)
    BY <1>5, <1>8, <1>9, <1>10 DEF Walk
  <1> QED
    BY <1>1, <1>11 DEF n

\* What the pool computes from the hashes of a proof.
Folds(c, proof, leaf) ==
    /\ c[0] = leaf
    /\ \A k \in 1 .. Len(proof) : c[k] = HashPair(c[k-1], proof[k])

LEMMA VerifyFolds ==
    ASSUME NEW proof, Len(proof) \in Nat, NEW root, NEW leaf
    PROVE  \E c : Folds(c, proof, leaf) /\ (Verify(proof, root, leaf) <=> c[Len(proof)] = root)
  <1> DEFINE n == Len(proof)
             Eq(f, m) == f = [k \in 0 .. m |-> IF k = 0 THEN leaf ELSE HashPair(f[k-1], proof[k])]
             Sol == CHOOSE f : Eq(f, n)
             S == {m \in Nat : \E f : Eq(f, m)}
  <1>1. Verify(proof, root, leaf) <=> Sol[n] = root
    BY Zenon DEF Verify
  <1> HIDE DEF Sol
  <1>2. 0 \in S
    <2> DEFINE f == [k \in 0 .. 0 |-> leaf]
    <2>1. Eq(f, 0)
      OBVIOUS
    <2> HIDE DEF f, Eq
    <2> QED
      BY <2>1
  <1>3. ASSUME NEW m \in Nat, m \in S PROVE m + 1 \in S
    <2>1. PICK f : Eq(f, m)
      BY <1>3
    <2> DEFINE g == [k \in 0 .. m + 1 |-> IF k = m + 1 THEN HashPair(f[m], proof[m+1]) ELSE f[k]]
    <2>2. f[0] = leaf /\ \A k \in 1 .. m : f[k] = HashPair(f[k-1], proof[k])
      <3>1. 0 \in 0 .. m /\ \A k \in 1 .. m : k \in 0 .. m /\ k # 0
        OBVIOUS
      <3> QED
        BY <2>1, <3>1
    <2>3. g[0] = leaf /\ \A k \in 1 .. m + 1 : g[k] = HashPair(g[k-1], proof[k])
      <3>1. 0 \in 0 .. m + 1 /\ 0 # m + 1
        OBVIOUS
      <3>2. ASSUME NEW k \in 1 .. m + 1 PROVE g[k] = HashPair(g[k-1], proof[k])
        <4>1. k - 1 \in 0 .. m + 1 /\ k - 1 # m + 1 /\ k \in 0 .. m + 1
          OBVIOUS
        <4>2. g[k-1] = f[k-1]
          BY <4>1
        <4>3. CASE k = m + 1
          <5>1. g[k] = HashPair(f[m], proof[k]) /\ k - 1 = m
            BY <4>1, <4>3
          <5> QED
            BY <4>2, <5>1
        <4>4. CASE k # m + 1
          <5>1. k \in 1 .. m /\ g[k] = f[k]
            BY <4>1, <4>4
          <5> QED
            BY <2>2, <4>2, <5>1
        <4> QED
          BY <4>3, <4>4
      <3> QED
        BY <2>2, <3>1, <3>2
    <2>4. g = [k \in 0 .. m + 1 |-> g[k]]
      OBVIOUS
    <2> HIDE DEF g
    <2>5. \A k \in 0 .. m + 1 : k # 0 => k \in 1 .. m + 1
      OBVIOUS
    <2>6. Eq(g, m + 1)
      BY <2>3, <2>4, <2>5
    <2> HIDE DEF Eq
    <2> QED
      BY <2>6
  <1>4. Nat \subseteq S
    <2> HIDE DEF S
    <2> QED
      BY <1>2, <1>3, InductiveSet
  <1>5. Eq(Sol, n)
    <2>1. \E f : Eq(f, n)
      <3> HIDE DEF Eq
      <3> QED
        BY <1>4
    <2> HIDE DEF Eq
    <2> QED
      BY <2>1 DEF Sol
  <1>6. Folds(Sol, proof, leaf)
    <2>1. 0 \in 0 .. n /\ \A k \in 1 .. n : k \in 0 .. n /\ k # 0
      OBVIOUS
    <2> QED
      BY <1>5, <2>1 DEF Folds
  <1> QED
    BY <1>1, <1>6

\* The node above node a is what the pool computes from a and its sibling, in
\* whichever order they stand, and a itself where it has none.
Other(a) == IF a % 2 = 0 THEN a + 1 ELSE a - 1

LEMMA NodeAbove ==
    ASSUME NEW x, IsLayer(x), NEW a \in Nat, a < Len(x)
    PROVE  /\ a \div 2 \in Nat /\ a \div 2 < Len(Up(x))
           /\ Other(a) < Len(x) => Up(x)[a \div 2 + 1] = HashPair(x[a + 1], x[Other(a) + 1])
           /\ ~(Other(a) < Len(x)) => Up(x)[a \div 2 + 1] = x[a + 1]
  <1> DEFINE n == Len(x)
             i == a \div 2 + 1
             b == Other(a)
  <1>1. n \in Nat /\ n >= 1 /\ a < n
    BY DEF IsLayer
  <1>2. /\ Len(Up(x)) = (n + 1) \div 2
        /\ \A k \in 1 .. (n + 1) \div 2 :
               Up(x)[k] = IF 2 * k > n THEN x[2 * k - 1] ELSE HashPair(x[2 * k - 1], x[2 * k])
    BY UpIsLayer
  <1> HIDE DEF n
  <1>3. i \in 1 .. (n + 1) \div 2 /\ a \div 2 \in Nat /\ a \div 2 < (n + 1) \div 2
    BY <1>1
  <1>4. CASE a % 2 = 0
    <2>1. b = a + 1 /\ 2 * i - 1 = a + 1 /\ 2 * i = b + 1 /\ (b < n <=> ~(2 * i > n))
      BY <1>1, <1>4 DEF Other
    <2> HIDE DEF i, b
    <2>2. Up(x)[i] = IF 2 * i > n THEN x[a + 1] ELSE HashPair(x[a + 1], x[b + 1])
      BY <1>2, <1>3, <2>1
    <2>3. (b < n => Up(x)[i] = HashPair(x[a + 1], x[b + 1])) /\ (~(b < n) => Up(x)[i] = x[a + 1])
      BY <2>1, <2>2
    <2> QED
      BY <1>2, <1>3, <2>3 DEF n, i, b
  <1>5. CASE a % 2 # 0
    <2>1. b = a - 1 /\ 2 * i - 1 = b + 1 /\ 2 * i = a + 1 /\ b < n /\ ~(2 * i > n)
      BY <1>1, <1>5 DEF Other
    <2> HIDE DEF i, b
    <2>2. Up(x)[i] = HashPair(x[b + 1], x[a + 1])
      BY <1>2, <1>3, <2>1
    <2>3. HashPair(x[b + 1], x[a + 1]) = HashPair(x[a + 1], x[b + 1])
      <3>1. {x[b + 1], x[a + 1]} = {x[a + 1], x[b + 1]}
        OBVIOUS
      <3> QED
        BY <3>1 DEF HashPair
    <2>4. (b < n => Up(x)[i] = HashPair(x[a + 1], x[b + 1])) /\ (~(b < n) => Up(x)[i] = x[a + 1])
      BY <2>1, <2>2, <2>3
    <2> QED
      BY <1>2, <1>3, <2>4 DEF n, i, b
  <1> QED
    BY <1>4, <1>5

\* Lists that only grow agree where they both reach.
Begins(q, r) == Len(q) <= Len(r) /\ \A j \in 1 .. Len(q) : r[j] = q[j]

LEMMA CollectedBegins ==
    ASSUME NEW idx, NEW p, NEW T, NEW tree, NEW i, NEW n \in Nat, Walk(idx, p, T, tree, i, n),
           NEW m \in 0 .. n
    PROVE  Begins(p[m], p[n])
  <1> DEFINE S == {k \in Nat : m <= k /\ k <= n => Begins(p[m], p[k])}
  <1>0. \A k \in 0 .. n : p[k] \in Seq(T) /\ Len(p[k]) \in Nat
    BY DEF Walk
  <1>1. 0 \in S
    <2>1. m <= 0 => m = 0
      OBVIOUS
    <2>2. Begins(p[m], p[m])
      BY <1>0 DEF Begins
    <2> QED
      BY <2>1, <2>2
  <1>2. ASSUME NEW k \in Nat, k \in S PROVE k + 1 \in S
    <2> SUFFICES ASSUME m <= k + 1, k + 1 <= n PROVE Begins(p[m], p[k+1])
      OBVIOUS
    <2>1. CASE m = k + 1
      BY <1>0, <2>1 DEF Begins
    <2>2. CASE m # k + 1
      <3>1. m <= k /\ k <= n /\ k \in 0 .. n /\ k + 1 \in 1 .. n /\ (k + 1) - 1 = k
        BY <2>2
      <3>2. Begins(p[m], p[k])
        BY <1>2, <3>1
      <3> DEFINE x == tree[k+1][Sibling(idx, k + 1) + 1]
                 q == p[k]
                 s == p[m]
      <3>3. x \in T /\ (p[k+1] = Append(q, x) \/ p[k+1] = q)
        BY <3>1 DEF Walk
      <3>4. q \in Seq(T) /\ s \in Seq(T) /\ Begins(s, q) /\ Len(s) \in Nat /\ Len(q) \in Nat
        BY <1>0, <3>1, <3>2
      <3> HIDE DEF x, q, s
      <3>5. Len(Append(q, x)) = Len(q) + 1 /\ \A j \in 1 .. Len(q) : Append(q, x)[j] = q[j]
        BY <3>3, <3>4
      <3>6. Begins(s, Append(q, x))
        BY <3>4, <3>5 DEF Begins
      <3> QED
        BY <3>3, <3>4, <3>6 DEF s
    <2> QED
      BY <2>1, <2>2
  <1>3. Nat \subseteq S
    <2> HIDE DEF S
    <2> QED
      BY <1>1, <1>2, InductiveSet
  <1>4. n \in S /\ m <= n
    <2> HIDE DEF S
    <2> QED
      BY <1>3
  <1> QED
    BY <1>4

\* From a leaf the proof that getProof returns leads to the root.
LEMMA LeafIsProved ==
    ASSUME NEW leaves, NEW tree, IsTree(tree, leaves), NEW a \in Nat, a < Len(leaves)
    PROVE  Verify(GetProof(tree, a), Root(tree), leaves[a + 1])
  <1> DEFINE n == Len(tree) - 1
  <1>1. /\ Len(tree) \in Nat /\ n \in Nat /\ Len(tree) = n + 1 /\ tree[1] = leaves
        /\ \A k \in 1 .. n + 1 : IsLayer(tree[k])
        /\ \A k \in 1 .. n : tree[k+1] = Up(tree[k])
        /\ Len(tree[n+1]) = 1
    BY DEF IsTree
  <1>2. PICK idx : \E p : \E T : Walk(idx, p, T, tree, a, n) /\ GetProof(tree, a) = p[n]
    BY <1>1, GetProofWalks
  <1>3. PICK p : \E T : Walk(idx, p, T, tree, a, n) /\ GetProof(tree, a) = p[n]
    BY <1>2
  <1>4. PICK T : Walk(idx, p, T, tree, a, n) /\ GetProof(tree, a) = p[n]
    BY <1>3
  <1> HIDE DEF n
  <1>5. \A k \in 0 .. n : p[k] \in Seq(T) /\ Len(p[k]) \in Nat
    BY <1>4 DEF Walk
  <1>6. n \in 0 .. n /\ Len(p[n]) \in Nat
    BY <1>1, <1>5
  <1>7. PICK c : Folds(c, p[n], leaves[a + 1])
                 /\ (Verify(p[n], Root(tree), leaves[a + 1]) <=> c[Len(p[n])] = Root(tree))
    BY <1>6, VerifyFolds
  <1> DEFINE Above(k) == /\ idx[k] \in Nat /\ idx[k] < Len(tree[k+1])
                         /\ c[Len(p[k])] = tree[k+1][idx[k] + 1]
             S == {k \in Nat : k <= n => Above(k)}
  <1>8. 0 \in S
    <2>1. idx[0] = a /\ p[0] = <<>> /\ Len(p[0]) = 0 /\ c[0] = leaves[a + 1] /\ tree[0+1] = leaves
      BY <1>1, <1>4, <1>7 DEF Walk, Folds
    <2>2. Above(0)
      BY <2>1
    <2> HIDE DEF Above
    <2> QED
      BY <2>2
  <1>9. ASSUME NEW k \in Nat, k \in S PROVE k + 1 \in S
    <2> SUFFICES ASSUME k + 1 <= n PROVE Above(k + 1)
      <3> HIDE DEF Above
      <3> QED
        OBVIOUS
    <2>1. k <= n /\ k \in 0 .. n /\ k + 1 \in 1 .. n /\ k + 1 \in 1 .. n + 1 /\ (k + 1) - 1 = k
          /\ k + 1 \in 0 .. n
      BY <1>1
    <2>2. Above(k)
      <3> HIDE DEF Above
      <3> QED
        BY <1>9, <2>1
    <2> DEFINE x == tree[k+1]
               y == tree[(k+1)+1]
               d == idx[k]
               b == Sibling(idx, k + 1)
               q == p[k]
               r == p[k+1]
    <2>3. IsLayer(x) /\ y = Up(x) /\ d \in Nat /\ d < Len(x) /\ c[Len(q)] = x[d + 1]
      BY <1>1, <2>1, <2>2
    <2>4. b = Other(d)
      BY <2>1 DEF Sibling, Other
    <2>5. idx[k+1] = d \div 2 /\ x[b + 1] \in T
          /\ r = IF b < Len(x) THEN Append(q, x[b + 1]) ELSE q
      BY <1>4, <2>1 DEF Walk
    <2>6. q \in Seq(T) /\ Len(q) \in Nat /\ Begins(r, p[n])
      BY <1>1, <1>4, <1>5, <2>1, CollectedBegins
    <2> HIDE DEF x, y, d, b, q, r, Above
    <2>7. /\ d \div 2 \in Nat /\ d \div 2 < Len(y)
          /\ b < Len(x) => y[d \div 2 + 1] = HashPair(x[d + 1], x[b + 1])
          /\ ~(b < Len(x)) => y[d \div 2 + 1] = x[d + 1]
      <3>1. /\ d \div 2 \in Nat /\ d \div 2 < Len(Up(x))
            /\ Other(d) < Len(x) => Up(x)[d \div 2 + 1] = HashPair(x[d + 1], x[Other(d) + 1])
            /\ ~(Other(d) < Len(x)) => Up(x)[d \div 2 + 1] = x[d + 1]
        BY <2>3, NodeAbove
      <3> QED
        BY <2>3, <2>4, <3>1
    <2>8. c[Len(r)] = y[d \div 2 + 1]
      <3>1. CASE b < Len(x)
        <4>1. r = Append(q, x[b + 1])
          BY <2>5, <3>1
        <4>2. Len(r) = Len(q) + 1 /\ r[Len(r)] = x[b + 1] /\ Len(r) \in 1 .. Len(r)
          BY <2>5, <2>6, <4>1
        <4>3. Len(r) \in 1 .. Len(p[n]) /\ p[n][Len(r)] = x[b + 1] /\ Len(r) - 1 = Len(q)
          BY <1>6, <2>6, <4>2 DEF Begins
        <4>4. c[Len(r)] = HashPair(c[Len(q)], x[b + 1])
          BY <1>7, <4>3 DEF Folds
        <4> QED
          BY <2>3, <2>7, <3>1, <4>4
      <3>2. CASE ~(b < Len(x))
        BY <2>3, <2>5, <2>7, <3>2
      <3> QED
        BY <3>1, <3>2
    <2> QED
      BY <2>5, <2>7, <2>8 DEF Above, y, r
  <1>10. Nat \subseteq S
    <2> HIDE DEF S
    <2> QED
      BY <1>8, <1>9, InductiveSet
  <1>11. Above(n)
    <2> HIDE DEF Above
    <2> QED
      BY <1>1, <1>10
  <1>12. idx[n] = 0
    BY <1>1, <1>11
  <1>13. c[Len(p[n])] = Root(tree)
    BY <1>1, <1>11, <1>12 DEF Root
  <1> QED
    BY <1>4, <1>7, <1>13

\* TRUE of every list of leaves that is not empty, whatever the leaves.
LEMMA EveryLeafIsProved ==
    ASSUME NEW leaves, IsLayer(leaves)
    PROVE  ProvesEveryLeaf(leaves)
  <1>1. PICK tree : tree = BuildTree(leaves)
    OBVIOUS
  <1>2. IsTree(tree, leaves)
    BY <1>1, BuildTreeIsTree
  <1>3. Len(leaves) \in Nat /\ DOMAIN leaves = 1 .. Len(leaves)
    BY DEF IsLayer
  <1>4. ASSUME NEW i \in DOMAIN leaves
        PROVE  Verify(GetProof(tree, i - 1), Root(tree), leaves[i])
    <2>1. i - 1 \in Nat /\ i - 1 < Len(leaves) /\ (i - 1) + 1 = i
      BY <1>3
    <2>2. PICK a : a = i - 1
      OBVIOUS
    <2>3. Verify(GetProof(tree, a), Root(tree), leaves[a + 1])
      BY <1>2, <2>1, <2>2, LeafIsProved
    <2> QED
      BY <2>1, <2>2, <2>3
  <1> QED
    BY <1>1, <1>4 DEF ProvesEveryLeaf

-----------------------------------------------------------------------------
(* Claims.                                                                   *)

LEMMA LeavesOfATree ==
    ASSUME NEW n \in Nat, n >= 1
    PROVE  IsLayer([i \in 1 .. n |-> Leaf(i, n)])
  <1> DEFINE f == [i \in 1 .. n |-> Leaf(i, n)]
  <1>1. f = [i \in 1 .. n |-> f[i]]
    OBVIOUS
  <1> HIDE DEF f
  <1>2. Len(f) = n
    BY <1>1, ListLength
  <1>3. IsLayer(f)
    BY <1>1, <1>2 DEF IsLayer
  <1> QED
    BY <1>3 DEF f

LEMMA SmallTreesAreProved == SmallTreesProveEveryLeaf
  <1> SUFFICES ASSUME NEW n \in 1 .. MaxLeaves
               PROVE  ProvesEveryLeaf([i \in 1 .. n |-> Leaf(i, n)])
    BY DEF SmallTreesProveEveryLeaf
  <1>1. n \in Nat /\ n >= 1
    BY EpochAssumption
  <1>2. IsLayer([i \in 1 .. n |-> Leaf(i, n)])
    BY <1>1, LeavesOfATree
  <1> QED
    BY <1>2, EveryLeafIsProved

\* The leaves of an epoch are a list.
LEMMA EpochLeavesAreAList == \E T : EpochLeaves \in Seq(T)
  <1> DEFINE n == Len(StakerSeq)
             Amount(k) == epoch.allocations[StakerSeq[k]]
             V == [k \in 1 .. n |-> Leaf(StakerSeq[k], Amount(k))]
             T == {V[k] : k \in 1 .. n}
             C == {k \in 1 .. n : Amount(k) > 0}
             Eq(f) == f = [k \in 0 .. n |->
                             IF k = 0 THEN <<>>
                             ELSE IF Amount(k) > 0
                                  THEN Append(f[k-1], Leaf(StakerSeq[k], Amount(k))) ELSE f[k-1]]
             Sol == CHOOSE f : Eq(f)
  <1>1. EpochLeaves = Sol[n]
    BY Zenon DEF EpochLeaves
  <1>2. n \in Nat
    BY EpochAssumption
  <1> HIDE DEF Sol, n, Amount
  <1>3. V \in [1 .. n -> T]
    OBVIOUS
  <1>4. PICK f : Collected(f, V, C, n) /\ f \in [0 .. n -> Seq(T)]
    <2> HIDE DEF V, T, C
    <2> QED
      BY <1>2, <1>3, CollectionExists
  <1>5. \A k \in 0 .. n : k # 0 => k \in 1 .. n
    BY <1>2
  <1>6. \A k \in 1 .. n : (k \in C <=> Amount(k) > 0) /\ V[k] = Leaf(StakerSeq[k], Amount(k))
    OBVIOUS
  <1> HIDE DEF V, C
  <1>7. Eq(f)
    BY <1>4, <1>5, <1>6 DEF Collected
  <1>8. Eq(Sol)
    <2> HIDE DEF Eq
    <2> QED
      BY <1>7 DEF Sol
  <1>9. \A k \in 0 .. n : Sol[k] \in Seq(T)
    <2>1. Sol[0] = <<>> /\ \A k \in 1 .. n :
              Sol[k] = IF Amount(k) > 0
                       THEN Append(Sol[k-1], Leaf(StakerSeq[k], Amount(k))) ELSE Sol[k-1]
      <3>1. 0 \in 0 .. n /\ \A k \in 1 .. n : k \in 0 .. n /\ k # 0
        BY <1>2
      <3> QED
        BY <1>8, <3>1
    <2>2. Sol[0] \in Seq(T)
      BY <2>1
    <2>3. ASSUME NEW k \in 1 .. n, Sol[k-1] \in Seq(T) PROVE Sol[k] \in Seq(T)
      <3> DEFINE x == Leaf(StakerSeq[k], Amount(k))
                 q == Sol[k-1]
      <3>1. x = V[k]
        BY <1>6
      <3>2. x \in T
        BY <3>1
      <3>3. Sol[k] = Append(q, x) \/ Sol[k] = q
        BY <2>1
      <3>4. q \in Seq(T)
        BY <2>3
      <3> HIDE DEF x, q
      <3>5. Append(q, x) \in Seq(T)
        BY <3>2, <3>4
      <3> QED
        BY <3>3, <3>4, <3>5
    <2> QED
      BY <1>2, <2>2, <2>3, InductionUpTo
  <1>10. n \in 0 .. n
    BY <1>2
  <1> QED
    BY <1>1, <1>9, <1>10

LEMMA EpochLeavesAreProved == EpochLeaves # <<>> => ProvesEveryLeaf(EpochLeaves)
  <1> SUFFICES ASSUME EpochLeaves # <<>> PROVE ProvesEveryLeaf(EpochLeaves)
    OBVIOUS
  <1>1. PICK x, T : x = EpochLeaves /\ x \in Seq(T)
    BY EpochLeavesAreAList
  <1>2. Len(x) \in Nat /\ Len(x) # 0 /\ x = [i \in 1 .. Len(x) |-> x[i]]
    BY <1>1
  <1>3. IsLayer(x)
    BY <1>2 DEF IsLayer
  <1>4. ProvesEveryLeaf(x)
    BY <1>3, EveryLeafIsProved
  <1> QED
    BY <1>1, <1>4

AllocationsFit == epoch.pc = "done" => SumOver(epoch.allocations, StakerSeq) <= PoolBalance

LEMMA AllocationsFitStep ==
    ASSUME EpochInv, AllocationsFit, [EpochNext]_epochVars
    PROVE  AllocationsFit'
  <1>1. CASE epoch' = epoch
    BY <1>1 DEF AllocationsFit
  <1>2. CASE AllocateLazy
    <2>1. epoch.units \in [Stakers -> Nat]
      BY MemoryParts DEF EpochInv, EpochTypeOK
    <2>2. epoch'.allocations = [u \in Stakers |-> Share(epoch.units, u)]
      BY <1>2, AllocateParts
    <2>3. SumOver([u \in Stakers |-> Share(epoch.units, u)], StakerSeq) <= PoolBalance
      BY <2>1, SharesType
    <2> QED
      BY <2>2, <2>3 DEF AllocationsFit
  <1>3. CASE StartEpoch \/ ReconstructStakeHistory \/ ApplyMinStakeFilter \/ ComputeTimeWeightedUnits
    <2>0. epoch \in EpochMemories
      BY DEF EpochInv, EpochTypeOK
    <2>1. epoch'.pc # "done"
      <3>1. CASE StartEpoch
        BY <2>0, <3>1 DEF StartEpoch, EpochMemories
      <3>2. CASE ReconstructStakeHistory
        <4>1. epoch.pc = "history"
          BY <3>2 DEF ReconstructStakeHistory
        <4> DEFINE e == stakeLog[epoch.pos + 1]
                   P == Extend(epoch.history[e.nft], e)
        <4>2. \/ epoch' = [epoch EXCEPT !.pos = @ + 1, !.history[e.nft] = P]
              \/ epoch' = [epoch EXCEPT !.pc = "filter", !.readAt = clock]
          BY <3>2 DEF ReconstructStakeHistory
        <4> HIDE DEF e, P
        <4> QED
          BY <2>0, <4>1, <4>2 DEF EpochMemories
      <3>3. CASE ApplyMinStakeFilter
        <4>1. \E h, d : epoch' = [epoch EXCEPT !.pc = "units", !.history = h, !.dropped = d]
          BY <3>3 DEF ApplyMinStakeFilter
        <4> QED
          BY <2>0, <4>1 DEF EpochMemories
      <3>4. CASE ComputeTimeWeightedUnits
        <4>1. \E units : epoch' = [epoch EXCEPT !.pc = "allocate", !.units = units]
          BY <3>4 DEF ComputeTimeWeightedUnits
        <4> QED
          BY <2>0, <4>1 DEF EpochMemories
      <3> QED
        BY <1>3, <3>1, <3>2, <3>3, <3>4
    <2> QED
      BY <2>1 DEF AllocationsFit
  <1>4. CASE \/ \E u \in Stakers, n \in StakeNFTs : StakeNFT(u, n)
             \/ \E n \in StakeNFTs : UnstakeNFT(n)
             \/ EpochTick \/ UNCHANGED epochVars
    <2>1. epoch' = epoch
      BY <1>4 DEF StakeNFT, UnstakeNFT, StakeEvent, EpochTick, epochVars
    <2> QED
      BY <1>1, <2>1
  <1> QED
    BY <1>2, <1>3, <1>4 DEF EpochNext

\* Every allocation can be claimed: the proof that getProof returns for a leaf
\* leads to the root that buildTree computed, for any number of leaves, and
\* rounding down keeps the allocations within the pool (allocateLazy).
THEOREM EveryAllocationIsClaimableHolds == EpochSpec => []EveryAllocationIsClaimable
  <1>1. EpochInit => AllocationsFit
    BY DEF EpochInit, NoEpoch, AllocationsFit
  <1>2. EpochInv /\ AllocationsFit /\ [EpochNext]_epochVars => AllocationsFit'
    BY AllocationsFitStep
  <1>3. AllocationsFit => EveryAllocationIsClaimable
    BY SmallTreesAreProved, EpochLeavesAreProved DEF AllocationsFit, EveryAllocationIsClaimable
  <1> QED
    BY <1>1, <1>2, <1>3, EpochInvariance, PTL DEF EpochSpec
=============================================================================
