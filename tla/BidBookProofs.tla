---------------------------- MODULE BidBookProofs ----------------------------
(***************************************************************************)
(* Machine-checked proofs about the bid book: its arrays and indexes agree, *)
(* it implements OrderBook, the factory holds the profits it owes, and an   *)
(* agent keeps to its budget, for any users, bids, prices and payouts.      *)
(***************************************************************************)
EXTENDS BidBook, SumsProofs

-----------------------------------------------------------------------------
(* Arrays with an index, and the swap-and-pop that closing a bid does.       *)

\* An array depends on the index entries of its own members only.
LEMMA ListsSame ==
    ASSUME NEW ids, NEW array, NEW indexOf, NEW other, ListsExactly(array, indexOf, ids),
           \A id \in ids : other[id] = indexOf[id]
    PROVE  ListsExactly(array, other, ids)
  BY DEF ListsExactly

LEMMA ListsAdded ==
    ASSUME NEW ids \in SUBSET Ids, NEW array \in Seq(Ids), NEW indexOf \in [Ids -> Nat],
           ListsExactly(array, indexOf, ids), NEW new \in Ids \ ids
    PROVE  /\ Append(array, new) \in Seq(Ids)
           /\ [indexOf EXCEPT ![new] = Len(array)] \in [Ids -> Nat]
           /\ ListsExactly(Append(array, new), [indexOf EXCEPT ![new] = Len(array)], ids \cup {new})
  <1> DEFINE longer == Append(array, new)
             index2 == [indexOf EXCEPT ![new] = Len(array)]
  <1>1. Len(array) \in Nat /\ DOMAIN array = 1 .. Len(array)
    OBVIOUS
  <1>2. longer \in Seq(Ids) /\ Len(longer) = Len(array) + 1 /\ DOMAIN longer = 1 .. Len(array) + 1
           /\ longer[Len(array) + 1] = new /\ \A i \in 1 .. Len(array) : longer[i] = array[i]
    OBVIOUS
  <1>3. index2 \in [Ids -> Nat] /\ index2[new] = Len(array)
           /\ \A id \in Ids \ {new} : index2[id] = indexOf[id]
    BY <1>1
  <1> HIDE DEF longer, index2
  <1>4. ASSUME NEW i \in DOMAIN longer
        PROVE  longer[i] \in ids \cup {new} /\ index2[longer[i]] = i - 1
    <2>1. CASE i \in 1 .. Len(array)
      <3>1. array[i] \in ids /\ indexOf[array[i]] = i - 1
        BY <1>1, <2>1 DEF ListsExactly
      <3> QED
        BY <1>2, <1>3, <2>1, <3>1
    <2>2. CASE i = Len(array) + 1
      BY <1>1, <1>2, <1>3, <2>2
    <2> QED
      BY <1>1, <1>2, <2>1, <2>2
  <1>5. ASSUME NEW id \in ids \cup {new}
        PROVE  index2[id] + 1 \in DOMAIN longer /\ longer[index2[id] + 1] = id
    <2>1. CASE id = new
      BY <1>1, <1>2, <1>3, <2>1
    <2>2. CASE id \in ids
      <3>1. indexOf[id] + 1 \in 1 .. Len(array) /\ array[indexOf[id] + 1] = id
        BY <1>1, <2>2 DEF ListsExactly
      <3>2. index2[id] = indexOf[id] /\ indexOf[id] \in Nat
        BY <1>3, <2>2
      <3> QED
        BY <1>1, <1>2, <3>1, <3>2
    <2> QED
      BY <2>1, <2>2
  <1>6. ListsExactly(longer, index2, ids \cup {new})
    BY <1>4, <1>5 DEF ListsExactly
  <1> QED
    BY <1>2, <1>3, <1>6 DEF longer, index2

\* The last entry takes the place of the one that goes, in the array and in
\* the index; nothing else moves.
LEMMA ListsRemoved ==
    ASSUME NEW ids \in SUBSET Ids, NEW array \in Seq(Ids), NEW indexOf \in [Ids -> Nat],
           ListsExactly(array, indexOf, ids), NEW gone \in ids
    PROVE  /\ Without(array, indexOf[gone]) \in Seq(Ids)
           /\ Reindexed(array, indexOf, gone) \in [Ids -> Nat]
           /\ ListsExactly(Without(array, indexOf[gone]), Reindexed(array, indexOf, gone),
                           ids \ {gone})
           /\ \A id \in Ids \ ids : Reindexed(array, indexOf, gone)[id] = indexOf[id]
  <1> DEFINE n == Len(array)
             at == indexOf[gone] + 1
             last == array[n]
             shorter == Without(array, indexOf[gone])
             index2 == Reindexed(array, indexOf, gone)
  <1>1. n \in Nat /\ DOMAIN array = 1 .. n /\ indexOf[gone] \in Nat
    OBVIOUS
  <1>2. at \in 1 .. n /\ array[at] = gone
    BY <1>1 DEF ListsExactly
  <1>3. n >= 1 /\ last \in ids /\ last \in Ids /\ indexOf[last] = n - 1
    <2>1. n >= 1 /\ n \in DOMAIN array
      BY <1>1, <1>2
    <2>2. array[n] \in ids /\ indexOf[array[n]] = n - 1
      BY <2>1 DEF ListsExactly
    <2> QED
      BY <2>1, <2>2
  <1>4. shorter = [i \in 1 .. n - 1 |-> IF i = at THEN last ELSE array[i]]
    BY DEF Without
  <1>5. shorter \in Seq(Ids) /\ DOMAIN shorter = 1 .. n - 1
           /\ \A i \in 1 .. n - 1 : shorter[i] = IF i = at THEN last ELSE array[i]
    <2>1. n - 1 \in Nat /\ \A i \in 1 .. n - 1 : array[i] \in Ids
      BY <1>1, <1>3
    <2> QED
      BY <1>3, <1>4, <2>1
  <1>6. index2 = [[indexOf EXCEPT ![last] = indexOf[gone]] EXCEPT ![gone] = 0]
    BY DEF Reindexed
  <1>7. index2 \in [Ids -> Nat] /\ index2[gone] = 0
           /\ (last # gone => index2[last] = indexOf[gone])
           /\ \A id \in Ids \ {gone, last} : index2[id] = indexOf[id]
    BY <1>1, <1>3, <1>6
  <1> HIDE DEF shorter, index2
  <1>8. ASSUME NEW i \in DOMAIN shorter
        PROVE  shorter[i] \in ids \ {gone} /\ index2[shorter[i]] = i - 1
    <2>1. i \in 1 .. n - 1 /\ i \in 1 .. n
      BY <1>1, <1>5
    <2>2. array[i] \in ids /\ indexOf[array[i]] = i - 1
      BY <1>1, <2>1 DEF ListsExactly
    <2>3. CASE i = at
      <3>1. last # gone
        BY <1>1, <1>2, <1>3, <2>1, <2>3
      <3>2. shorter[i] = last
        BY <1>5, <2>1, <2>3
      <3>3. index2[last] = indexOf[gone]
        BY <1>7, <3>1
      <3>4. indexOf[gone] = i - 1
        BY <1>1, <2>3
      <3> QED
        BY <1>3, <3>1, <3>2, <3>3, <3>4
    <2>4. CASE i # at
      <3>1. shorter[i] = array[i]
        BY <1>5, <2>1, <2>4
      <3>2. array[i] # gone /\ array[i] # last
        BY <1>1, <1>2, <1>3, <2>1, <2>2, <2>4
      <3> QED
        BY <1>7, <2>2, <3>1, <3>2
    <2> QED
      BY <2>3, <2>4
  <1>9. ASSUME NEW id \in ids \ {gone}
        PROVE  index2[id] + 1 \in DOMAIN shorter /\ shorter[index2[id] + 1] = id
    <2>1. indexOf[id] + 1 \in 1 .. n /\ array[indexOf[id] + 1] = id /\ indexOf[id] \in Nat
      BY <1>1 DEF ListsExactly
    <2>2. CASE id = last
      <3>1. index2[id] + 1 = at /\ at # n
        BY <1>2, <1>7, <2>2
      <3>2. at \in 1 .. n - 1
        BY <1>1, <1>2, <3>1
      <3> QED
        BY <1>5, <2>2, <3>1, <3>2
    <2>3. CASE id # last
      <3>1. index2[id] = indexOf[id] /\ indexOf[id] + 1 # n /\ indexOf[id] + 1 # at
        BY <1>2, <1>7, <2>1, <2>3
      <3>2. indexOf[id] + 1 \in 1 .. n - 1
        BY <1>1, <2>1, <3>1
      <3> QED
        BY <1>5, <2>1, <3>1, <3>2
    <2> QED
      BY <2>2, <2>3
  <1>10. ListsExactly(shorter, index2, ids \ {gone})
    BY <1>8, <1>9 DEF ListsExactly
  <1>11. \A id \in Ids \ ids : index2[id] = indexOf[id]
    BY <1>3, <1>7
  <1> QED
    BY <1>5, <1>7, <1>10, <1>11 DEF shorter, index2

-----------------------------------------------------------------------------
(* The invariant of the book.                                                *)

OpenFor(t) == {id \in Ids : Active(id) /\ registry[id].terms.token = t}
OpenBy(u) == {id \in Ids : Active(id) /\ registry[id].user = u}

\* A bid gets an id that none has had, so the arrays do not hold it yet.
BookInv ==
    /\ registry \in [Ids -> BidRecords \cup {NoBid}]
    /\ tokenToBids \in [Tokens -> Seq(Ids)] /\ userToBids \in [Users -> Seq(Ids)]
    /\ tokenBidIndex \in [Ids -> Nat] /\ userBidIndex \in [Ids -> Nat]
    /\ totalBidCount \in Nat
    /\ \A id \in Ids : id > totalBidCount => ~Active(id)
    /\ \A t \in Tokens : ListsExactly(tokenToBids[t], tokenBidIndex, OpenFor(t))
    /\ \A u \in Users : ListsExactly(userToBids[u], userBidIndex, OpenBy(u))

LEMMA BidType ==
    ASSUME NEW id \in Ids, registry \in [Ids -> BidRecords \cup {NoBid}], Active(id)
    PROVE  /\ registry[id] \in BidRecords /\ registry[id].user \in Users
           /\ registry[id].terms \in BidTerms /\ registry[id].terms.token \in Tokens
           /\ registry[id].terms.hbar \in Nat /\ registry[id].terms.expiry \in Nat
  <1>1. registry[id] \in BidRecords
    BY DEF Active
  <1>2. registry[id].user \in Users /\ registry[id].terms \in BidTerms
    BY <1>1 DEF BidRecords
  <1> QED
    BY <1>1, <1>2, BidBookAssumption

LEMMA BookInit == BidBookInit => BookInv
  <1> SUFFICES ASSUME BidBookInit PROVE BookInv
    OBVIOUS
  <1>1. /\ registry = [id \in Ids |-> NoBid] /\ totalBidCount = 0
        /\ tokenToBids = [t \in Tokens |-> <<>>] /\ userToBids = [u \in Users |-> <<>>]
        /\ tokenBidIndex = [id \in Ids |-> 0] /\ userBidIndex = [id \in Ids |-> 0]
    BY DEF BidBookInit
  <1>2. \A id \in Ids : ~Active(id)
    BY <1>1 DEF Active
  <1>3. \A t \in Tokens : ListsExactly(tokenToBids[t], tokenBidIndex, OpenFor(t))
    BY <1>1, <1>2 DEF ListsExactly, OpenFor
  <1>4. \A u \in Users : ListsExactly(userToBids[u], userBidIndex, OpenBy(u))
    BY <1>1, <1>2 DEF ListsExactly, OpenBy
  <1> QED
    BY <1>1, <1>2, <1>3, <1>4 DEF BookInv

LEMMA CloseBidKeepsTheBook ==
    ASSUME BookInv, NEW id \in Ids, Active(id), CloseBid(id), totalBidCount' = totalBidCount
    PROVE  BookInv'
  <1> DEFINE t == registry[id].terms.token
             u == registry[id].user
  <1>1. t \in Tokens /\ u \in Users
    BY BidType DEF BookInv
  <1>2. /\ tokenToBids' = [tokenToBids EXCEPT ![t] = Without(tokenToBids[t], tokenBidIndex[id])]
        /\ tokenBidIndex' = Reindexed(tokenToBids[t], tokenBidIndex, id)
        /\ userToBids' = [userToBids EXCEPT ![u] = Without(userToBids[u], userBidIndex[id])]
        /\ userBidIndex' = Reindexed(userToBids[u], userBidIndex, id)
        /\ registry' = [registry EXCEPT ![id] = NoBid]
    BY DEF CloseBid
  <1>3. id \in OpenFor(t) /\ id \in OpenBy(u)
    BY DEF OpenFor, OpenBy
  <1>4. /\ registry' \in [Ids -> BidRecords \cup {NoBid}] /\ ~Active(id)'
        /\ \A other \in Ids \ {id} : registry'[other] = registry[other]
    BY <1>2 DEF BookInv, Active
  <1>5. /\ \A v \in Tokens : OpenFor(v)' = OpenFor(v) \ {id}
        /\ \A v \in Users : OpenBy(v)' = OpenBy(v) \ {id}
    BY <1>4 DEF OpenFor, OpenBy, Active
  <1>6. \A other \in Ids : other > totalBidCount' => ~Active(other)'
    BY <1>4 DEF BookInv, Active
  <1>7. /\ tokenToBids' \in [Tokens -> Seq(Ids)] /\ tokenBidIndex' \in [Ids -> Nat]
        /\ \A v \in Tokens : ListsExactly(tokenToBids'[v], tokenBidIndex', OpenFor(v)')
    <2>1. /\ Without(tokenToBids[t], tokenBidIndex[id]) \in Seq(Ids)
          /\ tokenBidIndex' \in [Ids -> Nat]
          /\ ListsExactly(Without(tokenToBids[t], tokenBidIndex[id]), tokenBidIndex',
                          OpenFor(t) \ {id})
          /\ \A other \in Ids \ OpenFor(t) : tokenBidIndex'[other] = tokenBidIndex[other]
      <3>1. OpenFor(t) \in SUBSET Ids /\ tokenToBids[t] \in Seq(Ids)
               /\ tokenBidIndex \in [Ids -> Nat]
               /\ ListsExactly(tokenToBids[t], tokenBidIndex, OpenFor(t))
        BY <1>1 DEF BookInv, OpenFor
      <3>2. id \in OpenFor(t)
        BY <1>3
      <3> HIDE DEF t
      <3>3. /\ Without(tokenToBids[t], tokenBidIndex[id]) \in Seq(Ids)
            /\ Reindexed(tokenToBids[t], tokenBidIndex, id) \in [Ids -> Nat]
            /\ ListsExactly(Without(tokenToBids[t], tokenBidIndex[id]),
                            Reindexed(tokenToBids[t], tokenBidIndex, id), OpenFor(t) \ {id})
            /\ \A other \in Ids \ OpenFor(t) :
                  Reindexed(tokenToBids[t], tokenBidIndex, id)[other] = tokenBidIndex[other]
        BY <3>1, <3>2, ListsRemoved
      <3> QED
        BY <1>2, <3>3
    <2>2. tokenToBids' \in [Tokens -> Seq(Ids)]
             /\ tokenToBids'[t] = Without(tokenToBids[t], tokenBidIndex[id])
             /\ \A v \in Tokens \ {t} : tokenToBids'[v] = tokenToBids[v]
      BY <1>1, <1>2, <2>1 DEF BookInv
    <2>3. ASSUME NEW v \in Tokens PROVE ListsExactly(tokenToBids'[v], tokenBidIndex', OpenFor(v)')
      <3>1. CASE v = t
        BY <1>5, <2>1, <2>2, <3>1
      <3>2. CASE v # t
        <4>1. OpenFor(v)' = OpenFor(v)
          BY <1>5, <3>2 DEF OpenFor
        <4>2. \A other \in OpenFor(v) : tokenBidIndex'[other] = tokenBidIndex[other]
          BY <2>1, <3>2 DEF OpenFor
        <4>3. ListsExactly(tokenToBids[v], tokenBidIndex, OpenFor(v))
          BY DEF BookInv
        <4> QED
          BY <2>2, <3>2, <4>1, <4>2, <4>3, ListsSame
      <3> QED
        BY <3>1, <3>2
    <2> QED
      BY <2>1, <2>2, <2>3
  <1>8. /\ userToBids' \in [Users -> Seq(Ids)] /\ userBidIndex' \in [Ids -> Nat]
        /\ \A v \in Users : ListsExactly(userToBids'[v], userBidIndex', OpenBy(v)')
    <2>1. /\ Without(userToBids[u], userBidIndex[id]) \in Seq(Ids)
          /\ userBidIndex' \in [Ids -> Nat]
          /\ ListsExactly(Without(userToBids[u], userBidIndex[id]), userBidIndex',
                          OpenBy(u) \ {id})
          /\ \A other \in Ids \ OpenBy(u) : userBidIndex'[other] = userBidIndex[other]
      <3>1. OpenBy(u) \in SUBSET Ids /\ userToBids[u] \in Seq(Ids)
               /\ userBidIndex \in [Ids -> Nat]
               /\ ListsExactly(userToBids[u], userBidIndex, OpenBy(u))
        BY <1>1 DEF BookInv, OpenBy
      <3>2. id \in OpenBy(u)
        BY <1>3
      <3> HIDE DEF u
      <3>3. /\ Without(userToBids[u], userBidIndex[id]) \in Seq(Ids)
            /\ Reindexed(userToBids[u], userBidIndex, id) \in [Ids -> Nat]
            /\ ListsExactly(Without(userToBids[u], userBidIndex[id]),
                            Reindexed(userToBids[u], userBidIndex, id), OpenBy(u) \ {id})
            /\ \A other \in Ids \ OpenBy(u) :
                  Reindexed(userToBids[u], userBidIndex, id)[other] = userBidIndex[other]
        BY <3>1, <3>2, ListsRemoved
      <3> QED
        BY <1>2, <3>3
    <2>2. userToBids' \in [Users -> Seq(Ids)]
             /\ userToBids'[u] = Without(userToBids[u], userBidIndex[id])
             /\ \A v \in Users \ {u} : userToBids'[v] = userToBids[v]
      BY <1>1, <1>2, <2>1 DEF BookInv
    <2>3. ASSUME NEW v \in Users PROVE ListsExactly(userToBids'[v], userBidIndex', OpenBy(v)')
      <3>1. CASE v = u
        BY <1>5, <2>1, <2>2, <3>1
      <3>2. CASE v # u
        <4>1. OpenBy(v)' = OpenBy(v)
          BY <1>5, <3>2 DEF OpenBy
        <4>2. \A other \in OpenBy(v) : userBidIndex'[other] = userBidIndex[other]
          BY <2>1, <3>2 DEF OpenBy
        <4>3. ListsExactly(userToBids[v], userBidIndex, OpenBy(v))
          BY DEF BookInv
        <4> QED
          BY <2>2, <3>2, <4>1, <4>2, <4>3, ListsSame
      <3> QED
        BY <3>1, <3>2
    <2> QED
      BY <2>1, <2>2, <2>3
  <1> QED
    BY <1>4, <1>6, <1>7, <1>8 DEF BookInv

LEMMA CreateBidKeepsTheBook ==
    ASSUME BookInv, NEW u \in Users, NEW terms \in BidTerms, NEW byAgent \in BOOLEAN,
           CreateBid(u, terms, byAgent)
    PROVE  BookInv'
  <1> DEFINE id == totalBidCount + 1
             t == terms.token
             bid == [user |-> u, terms |-> terms, byAgent |-> byAgent]
  <1>1. t \in Tokens /\ id \in Ids /\ id \in Nat /\ bid \in BidRecords
    BY BidBookAssumption DEF BookInv, CreateBid, BidRecords
  <1>2. /\ totalBidCount' = id /\ registry' = [registry EXCEPT ![id] = bid]
        /\ tokenBidIndex' = [tokenBidIndex EXCEPT ![id] = Len(tokenToBids[t])]
        /\ tokenToBids' = [tokenToBids EXCEPT ![t] = Append(tokenToBids[t], id)]
        /\ userBidIndex' = [userBidIndex EXCEPT ![id] = Len(userToBids[u])]
        /\ userToBids' = [userToBids EXCEPT ![u] = Append(userToBids[u], id)]
    BY DEF CreateBid
  <1>3. bid # NoBid /\ bid.user = u /\ bid.terms = terms
    BY <1>1, BidBookAssumption
  <1> HIDE DEF bid
  <1>4. id > totalBidCount /\ ~Active(id)
    BY <1>1 DEF BookInv
  <1> HIDE DEF id
  <1>5. /\ registry' \in [Ids -> BidRecords \cup {NoBid}] /\ registry'[id] = bid
        /\ \A other \in Ids \ {id} : registry'[other] = registry[other]
    BY <1>1, <1>2 DEF BookInv
  <1>6. /\ OpenFor(t)' = OpenFor(t) \cup {id} /\ OpenBy(u)' = OpenBy(u) \cup {id}
        /\ \A v \in Tokens \ {t} : OpenFor(v)' = OpenFor(v)
        /\ \A v \in Users \ {u} : OpenBy(v)' = OpenBy(v)
    BY <1>1, <1>3, <1>4, <1>5 DEF OpenFor, OpenBy, Active
  <1>7. \A other \in Ids : other > totalBidCount' => ~Active(other)'
    <2> SUFFICES ASSUME NEW other \in Ids, other > id PROVE ~Active(other)'
      BY <1>2
    <2>1. other # id /\ other > totalBidCount
      BY <1>1 DEF BookInv, Ids, id
    <2> QED
      BY <1>5, <2>1 DEF BookInv, Active
  <1>8. id \notin OpenFor(t) /\ id \notin OpenBy(u)
    BY <1>4 DEF OpenFor, OpenBy
  <1>9. /\ tokenToBids' \in [Tokens -> Seq(Ids)] /\ tokenBidIndex' \in [Ids -> Nat]
        /\ \A v \in Tokens : ListsExactly(tokenToBids'[v], tokenBidIndex', OpenFor(v)')
    <2>1. /\ Append(tokenToBids[t], id) \in Seq(Ids) /\ tokenBidIndex' \in [Ids -> Nat]
          /\ ListsExactly(Append(tokenToBids[t], id), tokenBidIndex', OpenFor(t) \cup {id})
      <3>1. OpenFor(t) \in SUBSET Ids /\ tokenToBids[t] \in Seq(Ids)
               /\ tokenBidIndex \in [Ids -> Nat]
               /\ ListsExactly(tokenToBids[t], tokenBidIndex, OpenFor(t))
        BY <1>1 DEF BookInv, OpenFor
      <3> QED
        BY <1>1, <1>2, <1>8, <3>1, ListsAdded
    <2>2. tokenToBids' \in [Tokens -> Seq(Ids)]
             /\ tokenToBids'[t] = Append(tokenToBids[t], id)
             /\ \A v \in Tokens \ {t} : tokenToBids'[v] = tokenToBids[v]
      BY <1>1, <1>2, <2>1 DEF BookInv
    <2>3. ASSUME NEW v \in Tokens PROVE ListsExactly(tokenToBids'[v], tokenBidIndex', OpenFor(v)')
      <3>1. CASE v = t
        BY <1>6, <2>1, <2>2, <3>1
      <3>2. CASE v # t
        <4>1. \A other \in OpenFor(v) : tokenBidIndex'[other] = tokenBidIndex[other]
          BY <1>2, <1>4 DEF OpenFor, BookInv
        <4>2. ListsExactly(tokenToBids[v], tokenBidIndex, OpenFor(v))
          BY DEF BookInv
        <4> QED
          BY <1>6, <2>2, <3>2, <4>1, <4>2, ListsSame
      <3> QED
        BY <3>1, <3>2
    <2> QED
      BY <2>1, <2>2, <2>3
  <1>10. /\ userToBids' \in [Users -> Seq(Ids)] /\ userBidIndex' \in [Ids -> Nat]
         /\ \A v \in Users : ListsExactly(userToBids'[v], userBidIndex', OpenBy(v)')
    <2>1. /\ Append(userToBids[u], id) \in Seq(Ids) /\ userBidIndex' \in [Ids -> Nat]
          /\ ListsExactly(Append(userToBids[u], id), userBidIndex', OpenBy(u) \cup {id})
      <3>1. OpenBy(u) \in SUBSET Ids /\ userToBids[u] \in Seq(Ids)
               /\ userBidIndex \in [Ids -> Nat]
               /\ ListsExactly(userToBids[u], userBidIndex, OpenBy(u))
        BY DEF BookInv, OpenBy
      <3> QED
        BY <1>1, <1>2, <1>8, <3>1, ListsAdded
    <2>2. userToBids' \in [Users -> Seq(Ids)]
             /\ userToBids'[u] = Append(userToBids[u], id)
             /\ \A v \in Users \ {u} : userToBids'[v] = userToBids[v]
      BY <1>2, <2>1 DEF BookInv
    <2>3. ASSUME NEW v \in Users PROVE ListsExactly(userToBids'[v], userBidIndex', OpenBy(v)')
      <3>1. CASE v = u
        BY <1>6, <2>1, <2>2, <3>1
      <3>2. CASE v # u
        <4>1. \A other \in OpenBy(v) : userBidIndex'[other] = userBidIndex[other]
          BY <1>2, <1>4 DEF OpenBy, BookInv
        <4>2. ListsExactly(userToBids[v], userBidIndex, OpenBy(v))
          BY DEF BookInv
        <4> QED
          BY <1>6, <2>2, <3>2, <4>1, <4>2, ListsSame
      <3> QED
        BY <3>1, <3>2
    <2> QED
      BY <2>1, <2>2, <2>3
  <1>11. totalBidCount' \in Nat
    BY <1>1, <1>2
  <1> QED
    BY <1>5, <1>7, <1>9, <1>10, <1>11 DEF BookInv

-----------------------------------------------------------------------------
(* Whatever happens, the book is left alone, gains a bid, loses one without  *)
(* a payment, or loses one that has not expired for what it bid.             *)

AsksOK == ask \in [NFTs -> Asks \cup {NoAsk}]

LeavesTheBook == UNCHANGED <<bookState, totalBidCount, taken>> /\ (now' = now \/ now' = now + 1)

Creates ==
    \E u \in Users, terms \in BidTerms, byAgent \in BOOLEAN : CreateBid(u, terms, byAgent)

Closes ==
    \E id \in Ids : Active(id) /\ CloseBid(id) /\ UNCHANGED <<totalBidCount, taken, now>>

Fills ==
    \E id \in Ids :
        /\ Active(id) /\ ~Expired(id) /\ CloseBid(id) /\ UNCHANGED <<totalBidCount, now>>
        /\ taken' = [taken EXCEPT ![registry[id].user] = @ + registry[id].terms.hbar]

StepKinds == LeavesTheBook \/ Creates \/ Closes \/ Fills

LEMMA BiddingKinds ==
    ASSUME NEW u \in Users, Bidding(u)
    PROVE  StepKinds
  <1>1. ASSUME NEW terms \in BidTerms, OwnerCreatesBid(u, terms) PROVE StepKinds
    BY <1>1 DEF OwnerCreatesBid, Creates, StepKinds
  <1>2. ASSUME NEW terms \in BidTerms, AgentCreatesBid(u, terms) PROVE StepKinds
    BY <1>2 DEF AgentCreatesBid, Creates, StepKinds
  <1>3. ASSUME NEW id \in Ids, AgentCancelsBid(u, id) PROVE StepKinds
    BY <1>3 DEF AgentCancelsBid, OnlyTheBook, fundVars, Closes, StepKinds
  <1>4. CASE CreateEnvelope(u) \/ PauseAgent(u)
    BY <1>4 DEF CreateEnvelope, PauseAgent, OnlyTheEnvelope, fundVars, LeavesTheBook, StepKinds
  <1> QED
    BY <1>1, <1>2, <1>3, <1>4 DEF Bidding

LEMMA OwningKinds ==
    ASSUME NEW u \in Users, Owning(u)
    PROVE  StepKinds
  <1> USE DEF LeavesTheBook, StepKinds, fundVars
  <1>1. CASE DeployStashScript(u) \/ DetachFromFactoryScript(u)
    BY <1>1 DEF DeployStashScript, DeployStash, DetachFromFactoryScript, DetachFromFactory
  <1>2. ASSUME NEW amount \in Deposits,
               \/ DepositHbar(u, amount) \/ DepositLazy(u, amount) \/ WithdrawHbar(u, amount)
               \/ RescueHbarScript(u, amount) \/ RescueLazyScript(u, amount)
        PROVE  StepKinds
    BY <1>2 DEF DepositHbar, DepositLazy, WithdrawHbar, RescueHbarScript, RescueLazyScript,
                RescueHbar, RescueLazy, OnlyFunds
  <1>3. ASSUME NEW n \in NFTs, NEW to \in Actors, RescueNFTScript(u, n, to) PROVE StepKinds
    BY <1>3 DEF RescueNFTScript, RescueNFT
  <1> QED
    BY <1>1, <1>2, <1>3 DEF Owning

LEMMA ClosingKinds ==
    ASSUME NEW id \in Ids, Closing(id)
    PROVE  StepKinds
  BY DEF Closing, CancelBid, PruneUnfundedBid, CleanupExpiredBids, OnlyTheBook, fundVars,
         Closes, StepKinds

LEMMA TradingKinds ==
    ASSUME BookInv, AsksOK, NEW a \in Actors, Trading(a)
    PROVE  StepKinds
  <1>1. ASSUME NEW id \in Ids, NEW n \in NFTs, ExecuteAgainstBid(a, id, n) PROVE StepKinds
    BY <1>1 DEF ExecuteAgainstBid, ValidForExecution, StashPays, Fills, StepKinds
  <1>2. ASSUME NEW id \in Ids, NEW n \in NFTs, ExecuteArbitrage(a, id, n) PROVE StepKinds
    <2> DEFINE b == registry[id]
    <2>1. /\ Active(id) /\ ~Expired(id) /\ CloseBid(id) /\ UNCHANGED <<totalBidCount, now>>
          /\ ask[n] # NoAsk
          /\ taken' = [taken EXCEPT ![b.user] =
                          @ + (ask[n].price.hbar + (b.terms.hbar - ask[n].price.hbar))]
      BY <1>2 DEF ExecuteArbitrage, ValidForExecution, StashPays
    <2>2. ask[n].price.hbar \in Nat
      <3>1. ask[n] \in Asks
        BY <2>1 DEF AsksOK
      <3>2. ask[n].price \in AskPrices
        BY <3>1 DEF Asks
      <3> QED
        BY <3>2, BidBookAssumption
    <2>3. b.terms.hbar \in Nat
      BY <2>1, BidType DEF BookInv
    <2>4. ask[n].price.hbar + (b.terms.hbar - ask[n].price.hbar) = b.terms.hbar
      BY <2>2, <2>3
    <2>5. taken' = [taken EXCEPT ![b.user] = @ + b.terms.hbar]
      BY <2>1, <2>4
    <2> QED
      BY <2>1, <2>5 DEF Fills, StepKinds
  <1>3. CASE ClaimArbProfitScript(a)
    BY <1>3 DEF ClaimArbProfitScript, ClaimArbProfit, OnlyProfits, fundVars, LeavesTheBook, StepKinds
  <1> QED
    BY <1>1, <1>2, <1>3 DEF Trading

LEMMA NextKinds ==
    ASSUME BookInv, AsksOK, [BidBookNext]_bidBookVars
    PROVE  StepKinds
  <1> USE DEF LeavesTheBook, StepKinds, fundVars
  <1>1. ASSUME NEW u \in Users, Bidding(u) \/ Owning(u) PROVE StepKinds
    BY <1>1, BiddingKinds, OwningKinds
  <1>2. ASSUME NEW id \in Ids, Closing(id) PROVE StepKinds
    BY <1>2, ClosingKinds
  <1>3. ASSUME NEW a \in Actors, Trading(a) PROVE StepKinds
    BY <1>3, TradingKinds
  <1>4. ASSUME NEW seller \in Addresses, NEW n \in NFTs, NEW price \in AskPrices,
               NEW open \in BOOLEAN, ListNFT(seller, n, price, open)
        PROVE  StepKinds
    BY <1>4 DEF ListNFT
  <1>5. CASE Governing
    BY <1>5 DEF Governing, WithdrawProtocolProfit, SetArbitragePayoutBps, ExecuteArbPayoutBpsChange,
                OnlyProfits, OnlyPayout
  <1>6. CASE Tick
    BY <1>6 DEF Tick
  <1>7. CASE UNCHANGED bidBookVars
    BY <1>7 DEF bidBookVars, bookState
  <1> QED
    BY <1>1, <1>2, <1>3, <1>4, <1>5, <1>6, <1>7 DEF BidBookNext

LEMMA AsksStay ==
    ASSUME AsksOK, [BidBookNext]_bidBookVars
    PROVE  AsksOK'
  <1> SUFFICES \/ ask' = ask
               \/ \E n \in NFTs : ask' = [ask EXCEPT ![n] = NoAsk]
               \/ \E n \in NFTs : \E listing \in Asks : ask' = [ask EXCEPT ![n] = listing]
    BY DEF AsksOK
  <1> USE DEF marketState
  <1>1. ASSUME NEW u \in Users, Bidding(u) PROVE ask' = ask
    BY <1>1 DEF Bidding, OwnerCreatesBid, AgentCreatesBid, CreateBid, AgentCancelsBid, OnlyTheBook,
                CreateEnvelope, PauseAgent, OnlyTheEnvelope
  <1>2. ASSUME NEW u \in Users, Owning(u) PROVE ask' = ask
    BY <1>2 DEF Owning, DeployStashScript, DeployStash, DetachFromFactoryScript, DetachFromFactory,
                DepositHbar, DepositLazy, WithdrawHbar, RescueHbarScript, RescueLazyScript,
                RescueHbar, RescueLazy, OnlyFunds, RescueNFTScript, RescueNFT
  <1>3. ASSUME NEW id \in Ids, Closing(id) PROVE ask' = ask
    BY <1>3 DEF Closing, CancelBid, PruneUnfundedBid, CleanupExpiredBids, OnlyTheBook
  <1>4. ASSUME NEW a \in Actors, Trading(a)
        PROVE  ask' = ask \/ \E n \in NFTs : ask' = [ask EXCEPT ![n] = NoAsk]
    BY <1>4 DEF Trading, ExecuteAgainstBid, ExecuteArbitrage, Deliver, ClaimArbProfitScript,
                ClaimArbProfit, OnlyProfits
  <1>5. ASSUME NEW seller \in Addresses, NEW n \in NFTs, NEW price \in AskPrices,
               NEW open \in BOOLEAN, ListNFT(seller, n, price, open)
        PROVE  \E listing \in Asks : ask' = [ask EXCEPT ![n] = listing]
    <2>1. [seller |-> seller, price |-> price, open |-> open] \in Asks
      BY DEF Asks
    <2> QED
      BY <1>5, <2>1 DEF ListNFT
  <1>6. CASE Governing \/ Tick \/ UNCHANGED bidBookVars
    BY <1>6 DEF Governing, WithdrawProtocolProfit, SetArbitragePayoutBps,
                ExecuteArbPayoutBpsChange, OnlyProfits, OnlyPayout, Tick, bidBookVars
  <1> QED
    BY <1>1, <1>2, <1>3, <1>4, <1>5, <1>6 DEF BidBookNext

LEMMA BookStep ==
    ASSUME BookInv, StepKinds
    PROVE  BookInv'
  <1>1. CASE LeavesTheBook
    BY <1>1 DEF LeavesTheBook, bookState, BookInv, OpenFor, OpenBy, Active
  <1>2. CASE Creates
    BY <1>2, CreateBidKeepsTheBook DEF Creates
  <1>3. CASE Closes \/ Fills
    BY <1>3, CloseBidKeepsTheBook DEF Closes, Fills
  <1> QED
    BY <1>1, <1>2, <1>3 DEF StepKinds

THEOREM BookInvariance == BidBookSpec => [](BookInv /\ AsksOK)
  <1>1. BidBookInit => BookInv /\ AsksOK
    <2>1. BidBookInit => AsksOK
      BY DEF BidBookInit, AsksOK
    <2> QED
      BY <2>1, BookInit
  <1>2. BookInv /\ AsksOK /\ [BidBookNext]_bidBookVars => (BookInv /\ AsksOK)'
    BY NextKinds, BookStep, AsksStay
  <1> QED
    BY <1>1, <1>2, PTL DEF BidBookSpec

\* Whatever way a bid is closed, the discovery arrays list every open bid once
\* and where its index says it is.
THEOREM BookIndexesAgreeHolds == BidBookSpec => []BookIndexesAgree
  <1>1. BookInv => BookIndexesAgree
    BY DEF BookInv, BookIndexesAgree, OpenFor, OpenBy
  <1> QED
    BY <1>1, BookInvariance, PTL

-----------------------------------------------------------------------------
(* Refinement: what the discovery arrays show is an order book.              *)

ShowsTheOpen == ShownOffers = {Shown(id) : id \in {i \in Ids : Active(i)}}

LEMMA ShownAreOpen == BookInv => ShowsTheOpen
  <1> SUFFICES ASSUME BookInv PROVE ShowsTheOpen
    OBVIOUS
  <1>1. Listed = {i \in Ids : Active(i)}
    <2>1. ASSUME NEW t \in Tokens, NEW i \in DOMAIN tokenToBids[t]
          PROVE  tokenToBids[t][i] \in {id \in Ids : Active(id)}
      BY DEF BookInv, ListsExactly, OpenFor
    <2>2. ASSUME NEW id \in Ids, Active(id) PROVE id \in Listed
      <3> DEFINE t == registry[id].terms.token
      <3>1. t \in Tokens
        BY <2>2, BidType DEF BookInv
      <3>2. tokenBidIndex[id] + 1 \in DOMAIN tokenToBids[t]
               /\ tokenToBids[t][tokenBidIndex[id] + 1] = id
        BY <2>2, <3>1 DEF BookInv, ListsExactly, OpenFor
      <3> HIDE DEF t
      <3> QED
        BY <3>1, <3>2 DEF Listed
    <2> QED
      BY <2>1, <2>2 DEF Listed
  <1> QED
    BY <1>1 DEF ShownOffers, ShowsTheOpen

\* The same of the state after a step.
LEMMA ShownWillBeOpen == BookInv' => ShowsTheOpen'
  BY ShownAreOpen, PTL

LEMMA BookRefinesInit ==
    ASSUME BidBookInit, BookInv
    PROVE  Book!BookInit
  <1>1. ShownOffers = {}
    BY ShownAreOpen DEF ShowsTheOpen, BidBookInit, Active
  <1> QED
    BY <1>1 DEF BidBookInit, Book!BookInit

LEMMA PostStep ==
    ASSUME BookInv, BookInv', now \in Nat, Creates
    PROVE  Book!BookNext
  <1>1. PICK u \in Users, terms \in BidTerms, byAgent \in BOOLEAN : CreateBid(u, terms, byAgent)
    BY DEF Creates
  <1>2. PICK id \in Ids : id = totalBidCount + 1
    BY <1>1 DEF CreateBid
  <1> DEFINE bid == [user |-> u, terms |-> terms, byAgent |-> byAgent]
             o == [name |-> id, user |-> u, terms |-> terms]
  <1>3. registry' = [registry EXCEPT ![id] = bid] /\ (terms.expiry = 0 \/ terms.expiry > now)
           /\ taken' = taken /\ now' = now
    BY <1>1, <1>2 DEF CreateBid, fundVars
  <1>4. ~Active(id) /\ bid \in BidRecords /\ bid # NoBid
    BY <1>2, BidBookAssumption DEF BookInv, BidRecords, Ids
  <1>5. ShownOffers' = ShownOffers \cup {o}
    <2>1. registry'[id] = bid /\ bid.user = u /\ bid.terms = terms
             /\ \A other \in Ids \ {id} : registry'[other] = registry[other]
      BY <1>3 DEF BookInv
    <2>2. ShownOffers' = {Shown(i)' : i \in {j \in Ids : Active(j)'}}
      BY ShownWillBeOpen DEF ShowsTheOpen
    <2>3. Shown(id)' = o /\ \A i \in Ids \ {id} : Shown(i)' = Shown(i)
      BY <2>1 DEF Shown
    <2>4. {j \in Ids : Active(j)'} = {j \in Ids : Active(j)} \cup {id}
      BY <1>4, <2>1 DEF Active
    <2> HIDE DEF o, bid
    <2> QED
      BY <1>4, <2>2, <2>3, <2>4, ShownAreOpen DEF ShowsTheOpen
  <1>6. \A other \in ShownOffers : other.name # o.name
    BY <1>4, ShownAreOpen DEF ShowsTheOpen, Shown
  <1>7. ~Book!Lapsed(o)
    <2>1. terms.expiry \in Nat
      BY BidBookAssumption
    <2> QED
      BY <1>3, <2>1 DEF Book!Lapsed
  <1>8. o \in Book!Offers
    BY DEF Book!Offers
  <1> HIDE DEF o
  <1> QED
    BY <1>3, <1>5, <1>6, <1>7, <1>8 DEF Book!BookNext, Book!Post

\* A bid that is closed is not shown any more, and nothing else changes.
LEMMA ClosedIsHidden ==
    ASSUME BookInv, BookInv', NEW id \in Ids, Active(id), CloseBid(id)
    PROVE  /\ Shown(id) \in ShownOffers
           /\ ShownOffers' = ShownOffers \ {Shown(id)}
  <1>1. registry' = [registry EXCEPT ![id] = NoBid]
    BY DEF CloseBid
  <1>2. ~Active(id)' /\ \A i \in Ids \ {id} : registry'[i] = registry[i]
    BY <1>1 DEF BookInv, Active
  <1>3. ShownOffers' = {Shown(i)' : i \in {j \in Ids : Active(j)'}}
    BY ShownWillBeOpen DEF ShowsTheOpen
  <1>4. \A i \in Ids \ {id} : Shown(i)' = Shown(i) /\ Shown(i) # Shown(id)
    BY <1>2 DEF Shown
  <1>5. {j \in Ids : Active(j)'} = {j \in Ids : Active(j)} \ {id}
    BY <1>2 DEF Active
  <1> QED
    BY <1>3, <1>4, <1>5, ShownAreOpen DEF ShowsTheOpen

LEMMA WithdrawStep ==
    ASSUME BookInv, BookInv', Closes
    PROVE  Book!BookNext
  <1>1. PICK id \in Ids : Active(id) /\ CloseBid(id) /\ UNCHANGED <<totalBidCount, taken, now>>
    BY DEF Closes
  <1>2. Shown(id) \in ShownOffers /\ ShownOffers' = ShownOffers \ {Shown(id)}
    BY <1>1, ClosedIsHidden
  <1> QED
    BY <1>1, <1>2 DEF Book!BookNext, Book!Withdraw

LEMMA FillStep ==
    ASSUME BookInv, BookInv', Fills
    PROVE  Book!BookNext
  <1>1. PICK id \in Ids :
           /\ Active(id) /\ ~Expired(id) /\ CloseBid(id) /\ UNCHANGED <<totalBidCount, now>>
           /\ taken' = [taken EXCEPT ![registry[id].user] = @ + registry[id].terms.hbar]
    BY DEF Fills
  <1>2. Shown(id) \in ShownOffers /\ ShownOffers' = ShownOffers \ {Shown(id)}
    BY <1>1, ClosedIsHidden
  <1>3. Shown(id).terms = registry[id].terms /\ Shown(id).user = registry[id].user
    BY DEF Shown
  <1>4. ~Book!Lapsed(Shown(id))
    BY <1>1, <1>3 DEF Expired, Book!Lapsed
  <1>5. Book!Fill(Shown(id))
    BY <1>1, <1>2, <1>3, <1>4 DEF Book!Fill
  <1> QED
    BY <1>2, <1>5 DEF Book!BookNext

LEMMA QuietStep ==
    ASSUME LeavesTheBook, now \in Nat
    PROVE  Book!BookNext \/ UNCHANGED Book!bookVars
  <1>1. ShownOffers' = ShownOffers
    BY DEF LeavesTheBook, bookState, ShownOffers, Shown, Listed
  <1> QED
    BY <1>1 DEF LeavesTheBook, Book!BookNext, Book!TimePasses, Book!bookVars

LEMMA TimeIsNatural ==
    ASSUME now \in Nat, StepKinds
    PROVE  now' \in Nat
  <1>1. Creates => now' = now
    BY DEF Creates, CreateBid
  <1> QED
    BY <1>1 DEF StepKinds, LeavesTheBook, Closes, Fills

\* Whatever the owners of the stashes, their agents, sellers, arbitrageurs and
\* the owner of the factory do, money leaves a stash for a trade only by filling
\* a bid that the arrays show, which has not expired, for what it bids.
THEOREM BidBookImplementsOrderBook == BidBookSpec => ImplementsOrderBook
  <1> DEFINE Inv == BookInv /\ AsksOK /\ now \in Nat
  <1>1. BidBookInit => now \in Nat
    BY DEF BidBookInit
  <1>2. BookInv /\ AsksOK /\ now \in Nat /\ [BidBookNext]_bidBookVars => (now \in Nat)'
    BY NextKinds, TimeIsNatural
  <1>3. BidBookSpec => []Inv
    BY <1>1, <1>2, BookInvariance, PTL DEF BidBookSpec
  <1>4. BidBookInit /\ Inv => Book!BookInit
    BY BookRefinesInit
  <1>5. Inv /\ Inv' /\ [BidBookNext]_bidBookVars => [Book!BookNext]_Book!bookVars
    <2> SUFFICES ASSUME Inv, Inv', [BidBookNext]_bidBookVars
                 PROVE  Book!BookNext \/ UNCHANGED Book!bookVars
      OBVIOUS
    <2>1. StepKinds
      BY NextKinds
    <2> QED
      BY <2>1, QuietStep, PostStep, WithdrawStep, FillStep DEF StepKinds
  <1> HIDE DEF Inv
  <1> QED
    BY <1>3, <1>4, <1>5, PTL DEF BidBookSpec, ImplementsOrderBook, Book!BookSpec

-----------------------------------------------------------------------------
(* Profits.  Their types are part of the invariant, as the cut of the        *)
(* arbitrageur is computed from a payout that the owner changes in two steps.*)

ProfitInv ==
    /\ pendingArbProfit \in [Actors -> Int] /\ pendingProtocolProfit \in Int /\ factoryHbar \in Int
    /\ arbitragePayoutBps \in Int /\ proposal.bps \in Int
    /\ ProfitsAreBacked

LEMMA ActorsAreListed == ListsOnce(ActorSeq, Actors)
  <1>1. ActorSeq \in Seq(Actors) /\ \A i, j \in DOMAIN ActorSeq : ActorSeq[i] = ActorSeq[j] => i = j
    BY BidBookAssumption
  <1>2. DOMAIN ActorSeq = 1 .. Len(ActorSeq)
    BY <1>1
  <1> QED
    BY <1>1, <1>2 DEF ListsOnce, Actors

LEMMA ProfitInit == BidBookInit => ProfitInv
  <1> SUFFICES ASSUME BidBookInit PROVE ProfitInv
    OBVIOUS
  <1>1. pendingArbProfit = [a \in Actors |-> 0] /\ pendingProtocolProfit = 0 /\ factoryHbar = 0
           /\ arbitragePayoutBps = FirstPayout /\ proposal = NoProposal
    BY DEF BidBookInit
  <1>2. SumOver(pendingArbProfit, ActorSeq) = 0
    <2> DEFINE s == [k \in 1 .. Len(ActorSeq) |-> pendingArbProfit[ActorSeq[k]]]
    <2>1. pendingArbProfit \in [Actors -> {0}] /\ ActorSeq \in Seq(Actors)
      BY <1>1, ActorsAreListed DEF ListsOnce
    <2>2. s \in Seq({0}) /\ Len(s) = Len(ActorSeq)
      BY <2>1, SumOverTerms
    <2> HIDE DEF s
    <2>3. s \in Seq(Int) /\ Len(s) \in Nat /\ \A k \in 1 .. Len(s) : s[k] = 0
      BY <2>2
    <2>4. SumSeq(s) <= SumSeq(s) /\ SumSeq(s) \in Int
      BY <2>3, SumSeqType
    <2>5. SumSeq(s) = SumSeq(s) + SumSeq(s)
      BY <2>3, SumSeqAdd
    <2> QED
      BY <2>4, <2>5 DEF SumOver, s
  <1>3. FirstPayout \in Int
    BY BidBookAssumption
  <1> QED
    BY <1>1, <1>2, <1>3 DEF ProfitInv, ProfitsAreBacked, NoProposal

\* What one actor is owed changes by as much as what is owed in all.
LEMMA OwedTo ==
    ASSUME NEW owed \in [Actors -> Int], NEW a \in Actors, NEW delta \in Int
    PROVE  /\ [owed EXCEPT ![a] = @ + delta] \in [Actors -> Int]
           /\ SumOver(owed, ActorSeq) \in Int
           /\ SumOver([owed EXCEPT ![a] = @ + delta], ActorSeq) = SumOver(owed, ActorSeq) + delta
  <1> DEFINE after == [owed EXCEPT ![a] = @ + delta]
  <1>1. after \in [Actors -> Int] /\ after[a] = owed[a] + delta /\ owed[a] \in Int
           /\ \A y \in Actors : y # a => after[y] = owed[y]
    OBVIOUS
  <1>2. SumOver(owed, ActorSeq) \in Int
    BY ActorsAreListed, SumOverType DEF ListsOnce
  <1> HIDE DEF after
  <1>3. SumOver(after, ActorSeq) = SumOver(owed, ActorSeq) + (after[a] - owed[a])
    BY <1>1, ActorsAreListed, SumOverUpdate
  <1>4. after[a] - owed[a] = delta
    BY <1>1
  <1> QED
    BY <1>1, <1>2, <1>3, <1>4 DEF after

LEMMA ArbitrageIsBacked ==
    ASSUME ProfitInv, BookInv, AsksOK, NEW a \in Actors, NEW id \in Ids, NEW n \in NFTs,
           ExecuteArbitrage(a, id, n)
    PROVE  ProfitInv'
  <1> DEFINE spread == registry[id].terms.hbar - ask[n].price.hbar
  <1>1. /\ Active(id) /\ ask[n] # NoAsk /\ factoryHbar' = factoryHbar + spread
        /\ pendingArbProfit' = [pendingArbProfit EXCEPT ![a] = @ + ArbCut(spread)]
        /\ pendingProtocolProfit' = pendingProtocolProfit + ProtocolCut(spread)
        /\ UNCHANGED payoutVars
    BY DEF ExecuteArbitrage, ValidForExecution
  <1>2. ask[n].price \in AskPrices
    BY <1>1 DEF AsksOK, Asks
  <1>3. spread \in Int
    <2>1. registry[id].terms.hbar \in Nat
      BY <1>1, BidType DEF BookInv
    <2>2. ask[n].price.hbar \in Nat
      BY <1>2, BidBookAssumption
    <2> QED
      BY <2>1, <2>2
  <1> HIDE DEF spread
  <1>4. ArbCut(spread) \in Int
    <2>1. spread * arbitragePayoutBps \in Int /\ MaxBps \in Nat \ {0}
      BY <1>3, BidBookAssumption DEF ProfitInv
    <2> QED
      BY <2>1 DEF ArbCut
  <1>5. ProtocolCut(spread) \in Int /\ ArbCut(spread) + ProtocolCut(spread) = spread
    BY <1>3, <1>4 DEF ProtocolCut
  <1>6. /\ pendingArbProfit' \in [Actors -> Int] /\ SumOver(pendingArbProfit, ActorSeq) \in Int
        /\ SumOver(pendingArbProfit', ActorSeq) = SumOver(pendingArbProfit, ActorSeq) + ArbCut(spread)
    BY <1>1, <1>4, OwedTo DEF ProfitInv
  <1> QED
    BY <1>1, <1>3, <1>4, <1>5, <1>6 DEF ProfitInv, ProfitsAreBacked, payoutVars

LEMMA ClaimIsBacked ==
    ASSUME ProfitInv, NEW a \in Actors, ClaimArbProfit(a)
    PROVE  ProfitInv'
  <1>1. /\ pendingArbProfit' = [pendingArbProfit EXCEPT ![a] = 0]
        /\ factoryHbar' = factoryHbar - pendingArbProfit[a]
        /\ UNCHANGED <<pendingProtocolProfit, payoutVars>>
    BY DEF ClaimArbProfit, OnlyProfits
  <1>2. PICK delta \in Int : delta = 0 - pendingArbProfit[a]
    BY DEF ProfitInv
  <1>3. pendingArbProfit' = [pendingArbProfit EXCEPT ![a] = @ + delta]
    <2>1. pendingArbProfit[a] \in Int /\ pendingArbProfit[a] + delta = 0
      BY <1>2 DEF ProfitInv
    <2> QED
      BY <1>1, <2>1
  <1>4. /\ pendingArbProfit' \in [Actors -> Int] /\ SumOver(pendingArbProfit, ActorSeq) \in Int
        /\ SumOver(pendingArbProfit', ActorSeq) = SumOver(pendingArbProfit, ActorSeq) + delta
    BY <1>3, OwedTo DEF ProfitInv
  <1>5. pendingArbProfit[a] \in Int
    BY DEF ProfitInv
  <1> QED
    BY <1>1, <1>2, <1>4, <1>5 DEF ProfitInv, ProfitsAreBacked, payoutVars

LEMMA ProfitStep ==
    ASSUME ProfitInv, BookInv, AsksOK, [BidBookNext]_bidBookVars
    PROVE  ProfitInv'
  <1>0. UNCHANGED <<profitVars, payoutVars>> => ProfitInv'
    BY DEF profitVars, payoutVars, ProfitInv, ProfitsAreBacked
  <1>1. ASSUME NEW u \in Users, Bidding(u) PROVE UNCHANGED <<profitVars, payoutVars>>
    BY <1>1 DEF Bidding, OwnerCreatesBid, AgentCreatesBid, CreateBid, AgentCancelsBid, OnlyTheBook,
                CreateEnvelope, PauseAgent, OnlyTheEnvelope
  <1>2. ASSUME NEW u \in Users, Owning(u) PROVE UNCHANGED <<profitVars, payoutVars>>
    BY <1>2 DEF Owning, DeployStashScript, DeployStash, DetachFromFactoryScript, DetachFromFactory,
                DepositHbar, DepositLazy, WithdrawHbar, RescueHbarScript, RescueLazyScript,
                RescueHbar, RescueLazy, OnlyFunds, RescueNFTScript, RescueNFT
  <1>3. ASSUME NEW id \in Ids, Closing(id) PROVE UNCHANGED <<profitVars, payoutVars>>
    BY <1>3 DEF Closing, CancelBid, PruneUnfundedBid, CleanupExpiredBids, OnlyTheBook
  <1>4. ASSUME NEW a \in Actors, Trading(a) PROVE ProfitInv'
    <2>1. ASSUME NEW id \in Ids, NEW n \in NFTs, ExecuteAgainstBid(a, id, n) PROVE ProfitInv'
      BY <1>0, <2>1 DEF ExecuteAgainstBid
    <2>2. CASE ClaimArbProfitScript(a)
      BY <2>2, ClaimIsBacked DEF ClaimArbProfitScript
    <2> QED
      BY <1>4, <2>1, <2>2, ArbitrageIsBacked DEF Trading
  <1>5. ASSUME NEW seller \in Addresses, NEW n \in NFTs, NEW price \in AskPrices,
               NEW open \in BOOLEAN, ListNFT(seller, n, price, open)
        PROVE  UNCHANGED <<profitVars, payoutVars>>
    BY <1>5 DEF ListNFT
  <1>6. CASE Governing
    <2>1. ASSUME NEW amount, WithdrawProtocolProfit(amount) PROVE ProfitInv'
      <3>1. /\ pendingProtocolProfit' = pendingProtocolProfit - amount
            /\ factoryHbar' = factoryHbar - amount /\ amount \in Int
            /\ UNCHANGED <<pendingArbProfit, payoutVars>>
        BY <2>1 DEF WithdrawProtocolProfit, OnlyProfits, ProfitInv
      <3>2. SumOver(pendingArbProfit, ActorSeq) \in Int
        BY ActorsAreListed, SumOverType DEF ListsOnce, ProfitInv
      <3> QED
        BY <3>1, <3>2 DEF ProfitInv, ProfitsAreBacked, payoutVars
    <2>2. ASSUME NEW bps \in Payouts, SetArbitragePayoutBps(bps) PROVE ProfitInv'
      <3>1. bps \in Int
        BY BidBookAssumption
      <3> QED
        BY <2>2, <3>1 DEF SetArbitragePayoutBps, OnlyPayout, profitVars, ProfitInv, ProfitsAreBacked
    <2>3. CASE ExecuteArbPayoutBpsChange
      BY <2>3 DEF ExecuteArbPayoutBpsChange, NoProposal, OnlyPayout, profitVars, ProfitInv,
                  ProfitsAreBacked
    <2> QED
      BY <1>6, <2>1, <2>2, <2>3 DEF Governing
  <1>7. CASE Tick \/ UNCHANGED bidBookVars
    BY <1>0, <1>7 DEF Tick, bidBookVars
  <1> QED
    BY <1>0, <1>1, <1>2, <1>3, <1>4, <1>5, <1>6, <1>7 DEF BidBookNext

\* The factory holds what it owes to arbitrageurs and to the protocol, also
\* when the payout changes between arbitrages.
THEOREM ProfitsAreBackedHolds == BidBookSpec => []ProfitsAreBacked
  <1>1. BookInv /\ AsksOK /\ ProfitInv /\ [BidBookNext]_bidBookVars => ProfitInv'
    BY ProfitStep
  <1>2. ProfitInv => ProfitsAreBacked
    BY DEF ProfitInv
  <1> QED
    BY <1>1, <1>2, ProfitInit, BookInvariance, PTL DEF BidBookSpec

-----------------------------------------------------------------------------
(* The budget of an agent.  What counts against it at creation is what the   *)
(* open bids of the agent still promise, so taken and promised together are  *)
(* bounded by the days that are over and by what was consumed on the last.   *)

Weight(u, id) ==
    IF Active(id) /\ registry[id].byAgent /\ registry[id].user = u THEN registry[id].terms.hbar ELSE 0

IdSeq == [i \in 1 .. MaxBids |-> i]
Promised(u) == SumOver([id \in Ids |-> Weight(u, id)], IdSeq)
Committed(u) == agentTook[u] + Promised(u)

Envelopes == [granted : BOOLEAN, paused : BOOLEAN, since : Nat, lastResetDay : Nat, consumed : Nat]

Budget(u) ==
    LET e == envelope[u]
    IN IF e.granted
       THEN /\ e.since <= e.lastResetDay /\ e.lastResetDay <= Day /\ e.consumed <= DailyCap
            /\ Committed(u) <= DailyCap * (e.lastResetDay - e.since) + e.consumed
       ELSE Committed(u) <= 0

BudgetInv ==
    /\ now \in Nat
    /\ agentTook \in [Users -> Int]
    /\ envelope \in [Users -> Envelopes]
    /\ \A u \in Users : Budget(u)

LEMMA IdsAreListed == ListsOnce(IdSeq, Ids)
  <1>1. MaxBids \in Nat
    BY BidBookAssumption
  <1>2. IdSeq \in Seq(Ids) /\ Len(IdSeq) = MaxBids
    BY <1>1 DEF IdSeq, Ids
  <1>3. \A i \in 1 .. MaxBids : IdSeq[i] = i
    BY DEF IdSeq
  <1> QED
    BY <1>2, <1>3 DEF ListsOnce, Ids

LEMMA WeightType ==
    ASSUME registry \in [Ids -> BidRecords \cup {NoBid}], NEW u
    PROVE  [id \in Ids |-> Weight(u, id)] \in [Ids -> Nat] /\ Promised(u) \in Nat
  <1>1. [id \in Ids |-> Weight(u, id)] \in [Ids -> Nat]
    BY BidType DEF Weight
  <1> QED
    BY <1>1, IdsAreListed, SumOverOfNaturals DEF Promised, ListsOnce

\* Where one bid changes, the promises change by that bid.
LEMMA PromisesChange ==
    ASSUME registry \in [Ids -> BidRecords \cup {NoBid}], registry' \in [Ids -> BidRecords \cup {NoBid}],
           NEW u, NEW id \in Ids, \A other \in Ids \ {id} : registry'[other] = registry[other]
    PROVE  /\ Promised(u)' = Promised(u) + (Weight(u, id)' - Weight(u, id))
           /\ Promised(u) \in Nat /\ Promised(u)' \in Nat
           /\ Weight(u, id) \in Nat /\ Weight(u, id)' \in Nat
  <1> DEFINE f == [i \in Ids |-> Weight(u, i)]
             g == [i \in Ids |-> Weight(u, i)']
  <1>1. f \in [Ids -> Nat] /\ Promised(u) = SumOver(f, IdSeq) /\ Promised(u) \in Nat
    BY WeightType DEF Promised
  <1>2. \A i \in Ids : Weight(u, i)' \in Nat
    <2> TAKE i \in Ids
    <2>1. CASE registry'[i] = NoBid
      BY <2>1 DEF Weight, Active
    <2>2. CASE registry'[i] # NoBid
      <3>1. registry'[i].terms \in BidTerms
        BY <2>2 DEF BidRecords
      <3>2. registry'[i].terms.hbar \in Nat
        BY <3>1, BidBookAssumption
      <3> QED
        BY <3>2 DEF Weight
    <2> QED
      BY <2>1, <2>2
  <1>3. g \in [Ids -> Nat] /\ Promised(u)' = SumOver(g, IdSeq)
    BY <1>2 DEF Promised, IdSeq
  <1>4. \A i \in Ids : i # id => g[i] = f[i]
    BY DEF Weight, Active
  <1>5. f[id] = Weight(u, id) /\ g[id] = Weight(u, id)'
    OBVIOUS
  <1> HIDE DEF f, g
  <1>6. f \in [Ids -> Int] /\ g \in [Ids -> Int]
    BY <1>1, <1>3
  <1>7. SumOver(g, IdSeq) = SumOver(f, IdSeq) + (g[id] - f[id])
    BY <1>4, <1>6, IdsAreListed, SumOverUpdate
  <1>8. SumOver(g, IdSeq) \in Nat
    BY <1>3, IdsAreListed, SumOverOfNaturals DEF ListsOnce
  <1> QED
    BY <1>1, <1>2, <1>3, <1>5, <1>7, <1>8

LEMMA DayType ==
    ASSUME NEW t \in Nat, NEW d \in Nat \ {0}
    PROVE  t \div d \in Nat /\ (t + 1) \div d \in Nat /\ t \div d <= (t + 1) \div d
  OBVIOUS

\* A day more is worth the whole daily limit.
LEMMA DaysAddUp ==
    ASSUME NEW cap \in Nat, NEW a \in Int, NEW b \in Int, a < b
    PROVE  cap * a + cap <= cap * b
  <1>1. PICK k \in Nat : b = a + 1 + k
    <2>1. b - a - 1 \in Nat /\ b = a + 1 + (b - a - 1)
      OBVIOUS
    <2> QED
      BY <2>1
  <1>2. cap * b = cap * a + cap + cap * k
    BY <1>1
  <1>3. cap * k \in Nat
    OBVIOUS
  <1>4. cap * a \in Int
    OBVIOUS
  <1> QED
    BY <1>2, <1>3, <1>4

\* Nothing more is committed, and days only pass.
LEMMA BudgetKept ==
    ASSUME NEW u \in Users, envelope[u] \in Envelopes, Budget(u),
           envelope'[u] = envelope[u] \/ envelope'[u] = [envelope[u] EXCEPT !.paused = ~@],
           Day \in Nat, Day' \in Nat, Day <= Day',
           Committed(u) \in Int, Committed(u)' \in Int, Committed(u)' <= Committed(u)
    PROVE  Budget(u)'
  <1> DEFINE e == envelope[u]
             bound == DailyCap * (e.lastResetDay - e.since) + e.consumed
  <1>1. e.granted \in BOOLEAN /\ e.since \in Nat /\ e.lastResetDay \in Nat /\ e.consumed \in Nat
           /\ DailyCap \in Nat
    BY BidBookAssumption DEF Envelopes
  <1>2. envelope'[u].granted = e.granted /\ envelope'[u].since = e.since
           /\ envelope'[u].lastResetDay = e.lastResetDay /\ envelope'[u].consumed = e.consumed
    BY DEF Envelopes
  <1>3. bound \in Int
    BY <1>1
  <1>4. e.granted => e.since <= e.lastResetDay /\ e.lastResetDay <= Day /\ e.consumed <= DailyCap
                        /\ Committed(u) <= bound
    BY DEF Budget
  <1>5. ~e.granted => Committed(u) <= 0
    BY DEF Budget
  <1> HIDE DEF bound
  <1>6. e.granted => Committed(u)' <= bound /\ e.lastResetDay <= Day'
    BY <1>1, <1>3, <1>4
  <1>7. ~e.granted => Committed(u)' <= 0
    BY <1>5
  <1> QED
    BY <1>2, <1>4, <1>6, <1>7 DEF Budget, bound

\* What is committed has been consumed.
LEMMA BudgetConsumed ==
    ASSUME NEW u \in Users, envelope \in [Users -> Envelopes], Budget(u),
           NEW amount \in Nat, Consume(u, amount), now' = now, Day \in Nat,
           Committed(u) \in Int, Committed(u)' \in Int, Committed(u)' <= Committed(u) + amount
    PROVE  Budget(u)' /\ envelope' \in [Users -> Envelopes]
           /\ \A v \in Users \ {u} : envelope'[v] = envelope[v]
  <1> DEFINE e == envelope[u]
             spent == ConsumedToday(e)
             next == [e EXCEPT !.lastResetDay = Day, !.consumed = spent + amount]
  <1>1. e \in Envelopes /\ e.granted /\ e.since \in Nat /\ e.lastResetDay \in Nat
           /\ e.consumed \in Nat /\ DailyCap \in Nat
    BY BidBookAssumption DEF Envelopes, Consume
  <1>2. e.since <= e.lastResetDay /\ e.lastResetDay <= Day /\ e.consumed <= DailyCap
           /\ Committed(u) <= DailyCap * (e.lastResetDay - e.since) + e.consumed
    BY <1>1 DEF Budget
  <1>3. spent \in Nat /\ spent + amount <= DailyCap
           /\ Committed(u) <= DailyCap * (Day - e.since) + spent
    <2>1. CASE Day = e.lastResetDay
      <3>1. spent = e.consumed
        BY <2>1 DEF ConsumedToday
      <3> QED
        BY <1>1, <1>2, <2>1, <3>1 DEF Consume
    <2>2. CASE Day # e.lastResetDay
      <3>1. spent = 0
        BY <2>2 DEF ConsumedToday
      <3>2. e.lastResetDay - e.since < Day - e.since
               /\ e.lastResetDay - e.since \in Int /\ Day - e.since \in Int
        <4>1. e.since \in Nat /\ e.lastResetDay \in Nat /\ Day \in Nat /\ e.lastResetDay < Day
          <5>1. e.lastResetDay <= Day /\ Day # e.lastResetDay
            BY <1>2, <2>2
          <5> QED
            BY <1>1, <5>1
        <4> HIDE DEF e
        <4> QED
          BY <4>1
      <3>3. DailyCap * (e.lastResetDay - e.since) + DailyCap <= DailyCap * (Day - e.since)
        BY <1>1, <3>2, DaysAddUp
      <3>4. DailyCap * (e.lastResetDay - e.since) \in Int /\ DailyCap * (Day - e.since) \in Int
        BY <1>1, <3>2
      <3>5. spent + amount <= DailyCap
        BY DEF Consume
      <3> QED
        BY <1>1, <1>2, <3>1, <3>3, <3>4, <3>5
    <2> QED
      BY <2>1, <2>2
  <1> HIDE DEF spent
  <1>4. next \in Envelopes /\ next.granted /\ next.since = e.since /\ next.lastResetDay = Day
           /\ next.consumed = spent + amount
    <2>1. e \in Envelopes /\ spent + amount \in Nat
      BY <1>1, <1>3
    <2> HIDE DEF e
    <2>2. next \in Envelopes
      BY <2>1 DEF Envelopes
    <2>3. next.granted = e.granted /\ next.since = e.since /\ next.lastResetDay = Day
             /\ next.consumed = spent + amount
      BY <2>1 DEF Envelopes
    <2> QED
      BY <1>1, <2>2, <2>3
  <1>5. envelope' = [envelope EXCEPT ![u] = next]
    BY DEF Consume, spent
  <1> HIDE DEF next
  <1>6. envelope' \in [Users -> Envelopes] /\ envelope'[u] = next
           /\ \A v \in Users \ {u} : envelope'[v] = envelope[v]
    BY <1>4, <1>5
  <1>7. DailyCap * (Day - e.since) \in Int
    BY <1>1
  <1>8. Committed(u)' <= DailyCap * (Day - e.since) + (spent + amount)
    BY <1>3, <1>7
  <1>9. Day' = Day /\ e.since <= Day
    BY <1>1, <1>2 DEF Day
  <1> QED
    BY <1>1, <1>3, <1>4, <1>6, <1>8, <1>9 DEF Budget

LEMMA BudgetTypes ==
    ASSUME BudgetInv, BookInv
    PROVE  /\ Day \in Nat
           /\ registry \in [Ids -> BidRecords \cup {NoBid}]
           /\ \A u \in Users : /\ envelope[u] \in Envelopes /\ Budget(u)
                               /\ agentTook[u] \in Int /\ Promised(u) \in Nat /\ Committed(u) \in Int
  <1>1. registry \in [Ids -> BidRecords \cup {NoBid}]
    BY DEF BookInv
  <1>2. Day \in Nat
    BY DayType, BidBookAssumption DEF Day, BudgetInv
  <1> QED
    BY <1>1, <1>2, WeightType DEF BudgetInv, Committed

\* Users whose commitments do not grow, and whose envelope at most pauses, keep
\* to their budget.
LEMMA QuietBudgets ==
    ASSUME BudgetInv, BookInv, BookInv', now' = now \/ now' = now + 1,
           agentTook' \in [Users -> Int], envelope' \in [Users -> Envelopes],
           NEW S \in SUBSET Users,
           \A u \in S : /\ Committed(u)' \in Int /\ Committed(u)' <= Committed(u)
                        /\ \/ envelope'[u] = envelope[u]
                           \/ envelope'[u] = [envelope[u] EXCEPT !.paused = ~@]
    PROVE  now' \in Nat /\ \A u \in S : Budget(u)'
  <1>1. now \in Nat /\ DayLength \in Nat \ {0}
    BY BidBookAssumption DEF BudgetInv
  <1>2. Day \in Nat /\ Day' \in Nat /\ Day <= Day'
    BY <1>1, DayType DEF Day
  <1>3. ASSUME NEW u \in S PROVE Budget(u)'
    BY <1>2, BudgetTypes, BudgetKept
  <1> QED
    BY <1>1, <1>3

\* Removing a bid takes its promise back.
LEMMA PromiseOfClosed ==
    ASSUME BookInv, BookInv', NEW id \in Ids, Active(id), CloseBid(id), NEW u \in Users
    PROVE  /\ Promised(u) \in Nat /\ Promised(u)' \in Nat
           /\ Promised(u)' = Promised(u) - Weight(u, id) /\ Weight(u, id) \in Nat
  <1>1. registry' = [registry EXCEPT ![id] = NoBid]
    BY DEF CloseBid
  <1>2. registry' \in [Ids -> BidRecords \cup {NoBid}] /\ registry'[id] = NoBid
           /\ \A other \in Ids \ {id} : registry'[other] = registry[other]
    BY <1>1 DEF BookInv
  <1>3. Weight(u, id)' = 0
    BY <1>2 DEF Weight, Active
  <1>4. registry \in [Ids -> BidRecords \cup {NoBid}]
    BY DEF BookInv
  <1> QED
    BY <1>2, <1>3, <1>4, PromisesChange

LEMMA ClosingBudget ==
    ASSUME BudgetInv, BookInv, BookInv', NEW id \in Ids, Active(id), CloseBid(id),
           now' = now, agentTook' = agentTook, envelope' = envelope
    PROVE  BudgetInv'
  <1>1. ASSUME NEW u \in Users PROVE Committed(u)' \in Int /\ Committed(u)' <= Committed(u)
    BY BudgetTypes, PromiseOfClosed DEF Committed
  <1>2. now' \in Nat /\ \A u \in Users : Budget(u)'
    BY <1>1, QuietBudgets DEF BudgetInv
  <1> QED
    BY <1>2 DEF BudgetInv

\* What an execution takes had been promised.
LEMMA ExecutionBudget ==
    ASSUME BudgetInv, BookInv, BookInv', NEW id \in Ids, Active(id), CloseBid(id),
           now' = now, envelope' = envelope,
           agentTook' = IF registry[id].byAgent
                        THEN [agentTook EXCEPT ![registry[id].user] = @ + registry[id].terms.hbar]
                        ELSE agentTook
    PROVE  BudgetInv'
  <1>1. registry[id].user \in Users /\ registry[id].terms.hbar \in Nat
    BY BidType DEF BookInv
  <1>2. agentTook \in [Users -> Int]
    BY DEF BudgetInv
  <1>3. agentTook' \in [Users -> Int] /\ \A u \in Users : agentTook'[u] = agentTook[u] + Weight(u, id)
    BY <1>1, <1>2 DEF Weight
  <1>4. ASSUME NEW u \in Users PROVE Committed(u)' \in Int /\ Committed(u)' <= Committed(u)
    BY <1>2, <1>3, PromiseOfClosed DEF Committed
  <1>5. now' \in Nat /\ \A u \in Users : Budget(u)'
    BY <1>3, <1>4, QuietBudgets DEF BudgetInv
  <1> QED
    BY <1>3, <1>5 DEF BudgetInv

\* A new bid promises what it bids if the agent makes it, and nothing if not.
LEMMA PromiseOfCreated ==
    ASSUME BookInv, BookInv', NEW v \in Users, NEW terms \in BidTerms, NEW byAgent \in BOOLEAN,
           CreateBid(v, terms, byAgent), NEW u \in Users
    PROVE  /\ Promised(u) \in Nat /\ Promised(u)' \in Nat /\ terms.hbar \in Nat
           /\ Promised(u)' = Promised(u) + IF byAgent /\ v = u THEN terms.hbar ELSE 0
  <1> DEFINE bid == [user |-> v, terms |-> terms, byAgent |-> byAgent]
  <1>1. PICK id \in Ids : id = totalBidCount + 1
    BY DEF CreateBid
  <1>2. registry' = [registry EXCEPT ![id] = bid] /\ ~Active(id) /\ bid # NoBid
           /\ bid.user = v /\ bid.terms = terms /\ bid.byAgent = byAgent
    <2>1. bid \in BidRecords /\ NoBid \notin BidRecords
      BY BidBookAssumption DEF BidRecords
    <2> QED
      BY <1>1, <2>1 DEF CreateBid, BookInv
  <1> HIDE DEF bid
  <1>3. registry \in [Ids -> BidRecords \cup {NoBid}] /\ registry' \in [Ids -> BidRecords \cup {NoBid}]
           /\ registry'[id] = bid /\ \A other \in Ids \ {id} : registry'[other] = registry[other]
    BY <1>2 DEF BookInv
  <1>4. Weight(u, id) = 0 /\ Weight(u, id)' = IF byAgent /\ v = u THEN terms.hbar ELSE 0
    BY <1>2, <1>3 DEF Weight, Active
  <1>5. terms.hbar \in Nat
    BY BidBookAssumption
  <1> QED
    BY <1>3, <1>4, <1>5, PromisesChange

LEMMA CreateBudget ==
    ASSUME BudgetInv, BookInv, BookInv', NEW v \in Users, NEW terms \in BidTerms,
           OwnerCreatesBid(v, terms) \/ AgentCreatesBid(v, terms)
    PROVE  BudgetInv'
  <1>1. CASE OwnerCreatesBid(v, terms)
    <2>1. CreateBid(v, terms, FALSE) /\ envelope' = envelope /\ agentTook' = agentTook /\ now' = now
      BY <1>1 DEF OwnerCreatesBid, CreateBid, fundVars
    <2>2. ASSUME NEW u \in Users PROVE Committed(u)' \in Int /\ Committed(u)' <= Committed(u)
      <3>1. Promised(u) \in Nat /\ Promised(u)' \in Nat /\ terms.hbar \in Nat
               /\ Promised(u)' = Promised(u) + IF FALSE /\ v = u THEN terms.hbar ELSE 0
        BY <2>1, PromiseOfCreated, Zenon
      <3> QED
        BY <2>1, <3>1, BudgetTypes DEF Committed
    <2>3. now' \in Nat /\ \A u \in Users : Budget(u)'
      BY <2>1, <2>2, QuietBudgets DEF BudgetInv
    <2> QED
      BY <2>1, <2>3 DEF BudgetInv
  <1>2. CASE AgentCreatesBid(v, terms)
    <2>1. CreateBid(v, terms, TRUE) /\ Consume(v, terms.hbar) /\ agentTook' = agentTook /\ now' = now
      BY <1>2 DEF AgentCreatesBid, CreateBid, fundVars
    <2>2. ASSUME NEW u \in Users
          PROVE  Committed(u)' \in Int /\ terms.hbar \in Nat
                 /\ Committed(u)' <= Committed(u) + terms.hbar
                 /\ (u # v => Committed(u)' <= Committed(u))
      <3>1. Promised(u) \in Nat /\ Promised(u)' \in Nat /\ terms.hbar \in Nat
        BY <2>1, PromiseOfCreated
      <3>2. Promised(u)' = Promised(u) + IF v = u THEN terms.hbar ELSE 0
        BY <2>1, PromiseOfCreated
      <3>3. agentTook'[u] = agentTook[u] /\ agentTook[u] \in Int
        BY <2>1, BudgetTypes
      <3> QED
        BY <3>1, <3>2, <3>3 DEF Committed
    <2>3. Budget(v)' /\ envelope' \in [Users -> Envelopes]
             /\ \A u \in Users \ {v} : envelope'[u] = envelope[u]
      BY <2>1, <2>2, BudgetTypes, BudgetConsumed DEF BudgetInv
    <2>4. now' \in Nat /\ \A u \in Users \ {v} : Budget(u)'
      BY <2>1, <2>2, <2>3, QuietBudgets DEF BudgetInv
    <2> QED
      BY <2>1, <2>3, <2>4 DEF BudgetInv
  <1> QED
    BY <1>1, <1>2

LEMMA AgentCancelsBudget ==
    ASSUME BudgetInv, BookInv, BookInv', NEW v \in Users, NEW id \in Ids, AgentCancelsBid(v, id)
    PROVE  BudgetInv'
  <1>1. Active(id) /\ CloseBid(id) /\ Consume(v, 0) /\ agentTook' = agentTook /\ now' = now
    BY DEF AgentCancelsBid, OnlyTheBook, fundVars
  <1>2. ASSUME NEW u \in Users PROVE Committed(u)' \in Int /\ Committed(u)' <= Committed(u)
    BY <1>1, BudgetTypes, PromiseOfClosed DEF Committed
  <1>3. Budget(v)' /\ envelope' \in [Users -> Envelopes]
           /\ \A u \in Users \ {v} : envelope'[u] = envelope[u]
    <2>1. Committed(v)' <= Committed(v) + 0
      BY <1>2, BudgetTypes
    <2> QED
      BY <1>1, <1>2, <2>1, BudgetTypes, BudgetConsumed DEF BudgetInv
  <1>4. now' \in Nat /\ \A u \in Users \ {v} : Budget(u)'
    BY <1>1, <1>2, <1>3, QuietBudgets DEF BudgetInv
  <1> QED
    BY <1>1, <1>3, <1>4 DEF BudgetInv

LEMMA EnvelopeBudget ==
    ASSUME BudgetInv, BookInv, BookInv', NEW v \in Users, CreateEnvelope(v) \/ PauseAgent(v)
    PROVE  BudgetInv'
  <1>1. now' = now /\ registry' = registry /\ agentTook' = agentTook
    BY DEF CreateEnvelope, PauseAgent, OnlyTheEnvelope, bookState, fundVars
  <1>2. \A u \in Users : Committed(u)' = Committed(u) /\ Committed(u) \in Int
    BY <1>1, BudgetTypes DEF Committed, Promised, Weight, Active
  <1>3. Day' = Day /\ Day \in Nat
    BY <1>1, BudgetTypes DEF Day
  <1>4. CASE CreateEnvelope(v)
    <2> DEFINE e == [granted |-> TRUE, paused |-> FALSE, since |-> Day, lastResetDay |-> Day,
                     consumed |-> 0]
    <2>1. envelope[v] = NoEnvelope /\ envelope' = [envelope EXCEPT ![v] = e]
      BY <1>4 DEF CreateEnvelope
    <2>2. e \in Envelopes
      BY <1>3 DEF Envelopes
    <2>3. envelope' \in [Users -> Envelopes] /\ envelope'[v] = e
             /\ \A u \in Users \ {v} : envelope'[u] = envelope[u]
      BY <2>1, <2>2 DEF BudgetInv
    <2>4. Committed(v) <= 0
      BY <2>1 DEF BudgetInv, Budget, NoEnvelope
    <2>5. Budget(v)'
      <3>1. e.granted /\ e.since = Day /\ e.lastResetDay = Day /\ e.consumed = 0
        OBVIOUS
      <3>2. DailyCap \in Nat /\ DailyCap * (Day - Day) + 0 = 0
        BY <1>3, BidBookAssumption
      <3> HIDE DEF e
      <3> QED
        BY <1>2, <1>3, <2>3, <2>4, <3>1, <3>2 DEF Budget
    <2>6. now' \in Nat /\ \A u \in Users \ {v} : Budget(u)'
      <3>1. \A u \in Users \ {v} : Committed(u)' \in Int /\ Committed(u)' <= Committed(u)
        BY <1>2
      <3>2. agentTook' \in [Users -> Int] /\ Users \ {v} \in SUBSET Users
        BY <1>1 DEF BudgetInv
      <3> HIDE DEF e
      <3> QED
        BY <1>1, <2>3, <3>1, <3>2, QuietBudgets
    <2> QED
      BY <1>1, <2>3, <2>5, <2>6 DEF BudgetInv
  <1>5. CASE PauseAgent(v)
    <2>1. envelope' = [envelope EXCEPT ![v].paused = ~@]
      BY <1>5 DEF PauseAgent
    <2>2. envelope' \in [Users -> Envelopes]
             /\ envelope'[v] = [envelope[v] EXCEPT !.paused = ~@]
             /\ \A u \in Users \ {v} : envelope'[u] = envelope[u]
      BY <2>1 DEF BudgetInv, Envelopes
    <2>3. now' \in Nat /\ \A u \in Users : Budget(u)'
      BY <1>1, <1>2, <2>2, QuietBudgets DEF BudgetInv
    <2> QED
      BY <1>1, <2>2, <2>3 DEF BudgetInv
  <1> QED
    BY <1>4, <1>5

\* No other action is about bids, agents or what agents took.
LEMMA RestBudget ==
    ASSUME BudgetInv, BookInv, BookInv', now' = now \/ now' = now + 1,
           UNCHANGED <<registry, agentTook, envelope>>
    PROVE  BudgetInv'
  <1>1. \A u \in Users : Committed(u)' = Committed(u) /\ Committed(u) \in Int
    BY BudgetTypes DEF Committed, Promised, Weight, Active
  <1>2. now' \in Nat /\ \A u \in Users : Budget(u)'
    BY <1>1, QuietBudgets DEF BudgetInv
  <1> QED
    BY <1>2 DEF BudgetInv

LEMMA BudgetStep ==
    ASSUME BudgetInv, BookInv, BookInv', [BidBookNext]_bidBookVars
    PROVE  BudgetInv'
  <1> DEFINE Rest == (now' = now \/ now' = now + 1) /\ UNCHANGED <<registry, agentTook, envelope>>
  <1>1. ASSUME NEW u \in Users, Bidding(u) PROVE BudgetInv'
    BY <1>1, CreateBudget, AgentCancelsBudget, EnvelopeBudget DEF Bidding
  <1>2. ASSUME NEW u \in Users, Owning(u) PROVE Rest
    <2>1. CASE DeployStashScript(u) \/ DetachFromFactoryScript(u)
      BY <2>1 DEF DeployStashScript, DeployStash, DetachFromFactoryScript, DetachFromFactory,
                  bookState, fundVars
    <2>2. ASSUME NEW amount \in Deposits,
                 \/ DepositHbar(u, amount) \/ DepositLazy(u, amount) \/ WithdrawHbar(u, amount)
                 \/ RescueHbarScript(u, amount) \/ RescueLazyScript(u, amount)
          PROVE  Rest
      BY <2>2 DEF DepositHbar, DepositLazy, WithdrawHbar, RescueHbarScript, RescueLazyScript,
                  RescueHbar, RescueLazy, OnlyFunds, bookState
    <2>3. ASSUME NEW n \in NFTs, NEW to \in Actors, RescueNFTScript(u, n, to) PROVE Rest
      BY <2>3 DEF RescueNFTScript, RescueNFT, bookState, fundVars
    <2> QED
      BY <1>2, <2>1, <2>2, <2>3 DEF Owning
  <1>3. ASSUME NEW id \in Ids, Closing(id) PROVE BudgetInv'
    BY <1>3, ClosingBudget DEF Closing, CancelBid, PruneUnfundedBid, CleanupExpiredBids,
                               OnlyTheBook, fundVars
  <1>4. ASSUME NEW a \in Actors, Trading(a) PROVE BudgetInv'
    <2>1. ASSUME NEW id \in Ids, NEW n \in NFTs, ExecuteAgainstBid(a, id, n) PROVE BudgetInv'
      BY <2>1, ExecutionBudget DEF ExecuteAgainstBid, ValidForExecution, StashPays
    <2>2. ASSUME NEW id \in Ids, NEW n \in NFTs, ExecuteArbitrage(a, id, n) PROVE BudgetInv'
      <3>1. /\ Active(id) /\ CloseBid(id) /\ now' = now /\ envelope' = envelope
            /\ ask[n] # NoAsk
            /\ agentTook' = IF registry[id].byAgent
                            THEN [agentTook EXCEPT ![registry[id].user] =
                                     @ + (ask[n].price.hbar
                                            + (registry[id].terms.hbar - ask[n].price.hbar))]
                            ELSE agentTook
            /\ ask[n].price.hbar \in registry[id].terms.floor .. registry[id].terms.hbar
        BY <2>2 DEF ExecuteArbitrage, ValidForExecution, StashPays
      <3>2. registry[id].terms \in BidTerms
        BY <3>1, BidType DEF BookInv
      <3>3. registry[id].terms.hbar \in Nat /\ registry[id].terms.floor \in Nat
        BY <3>2, BidBookAssumption
      <3>4. ask[n].price.hbar + (registry[id].terms.hbar - ask[n].price.hbar)
              = registry[id].terms.hbar
        BY <3>1, <3>3
      <3> QED
        BY <3>1, <3>4, ExecutionBudget
    <2>3. CASE ClaimArbProfitScript(a)
      BY <2>3, RestBudget DEF ClaimArbProfitScript, ClaimArbProfit, OnlyProfits, bookState, fundVars
    <2> QED
      BY <1>4, <2>1, <2>2, <2>3 DEF Trading
  <1>5. ASSUME NEW seller \in Addresses, NEW n \in NFTs, NEW price \in AskPrices,
               NEW open \in BOOLEAN, ListNFT(seller, n, price, open)
        PROVE  Rest
    BY <1>5 DEF ListNFT, bookState, fundVars
  <1>6. CASE Governing
    BY <1>6, RestBudget DEF Governing, WithdrawProtocolProfit, SetArbitragePayoutBps,
       ExecuteArbPayoutBpsChange, OnlyProfits, OnlyPayout, bookState, fundVars
  <1>7. CASE Tick \/ UNCHANGED bidBookVars
    BY <1>7, RestBudget DEF Tick, bidBookVars, bookState, fundVars
  <1>8. Rest => BudgetInv'
    BY RestBudget
  <1> HIDE DEF Rest
  <1> QED
    BY <1>1, <1>2, <1>3, <1>4, <1>5, <1>6, <1>7, <1>8 DEF BidBookNext

LEMMA BudgetInit == BidBookInit => BudgetInv
  <1> SUFFICES ASSUME BidBookInit PROVE BudgetInv
    OBVIOUS
  <1>1. /\ now = 0 /\ agentTook = [u \in Users |-> 0] /\ envelope = [u \in Users |-> NoEnvelope]
        /\ registry = [id \in Ids |-> NoBid]
    BY DEF BidBookInit
  <1>2. NoEnvelope \in Envelopes /\ ~NoEnvelope.granted
    BY DEF NoEnvelope, Envelopes
  <1>3. ASSUME NEW u \in Users PROVE Promised(u) = 0
    <2> DEFINE f == [id \in Ids |-> Weight(u, id)]
    <2>1. f \in [Ids -> {0}] /\ IdSeq \in Seq(Ids)
      BY <1>1, IdsAreListed DEF Weight, Active, ListsOnce
    <2> DEFINE s == [k \in 1 .. Len(IdSeq) |-> f[IdSeq[k]]]
    <2> HIDE DEF f
    <2>2. s \in Seq({0}) /\ Len(s) = Len(IdSeq)
      BY <2>1, SumOverTerms
    <2> HIDE DEF s
    <2>3. s \in Seq(Int) /\ \A k \in 1 .. Len(s) : s[k] = 0
      BY <2>2
    <2>4. SumSeq(s) \in Int /\ SumSeq(s) = SumSeq(s) + SumSeq(s)
      BY <2>3, SumSeqType, SumSeqAdd
    <2> QED
      BY <2>4 DEF Promised, SumOver, s, f
  <1>4. \A u \in Users : Budget(u)
    BY <1>1, <1>2, <1>3 DEF Budget, Committed
  <1> QED
    BY <1>1, <1>2, <1>4 DEF BudgetInv

LEMMA BudgetIsKept ==
    ASSUME BudgetInv, BookInv
    PROVE  AgentKeepsToItsBudget
  <1> SUFFICES ASSUME NEW u \in Users
               PROVE  agentTook[u] <= IF envelope[u].granted
                                      THEN DailyCap * (Day - envelope[u].since + 1) ELSE 0
    BY DEF AgentKeepsToItsBudget
  <1> DEFINE e == envelope[u]
  <1>1. e \in Envelopes /\ agentTook[u] \in Int /\ agentTook[u] <= Committed(u)
           /\ Committed(u) \in Int /\ Day \in Nat /\ DailyCap \in Nat
    BY BudgetTypes, BidBookAssumption DEF Committed
  <1>2. e.since \in Nat /\ e.lastResetDay \in Nat /\ e.consumed \in Nat
    BY <1>1 DEF Envelopes
  <1>3. CASE e.granted
    <2>1. e.lastResetDay <= Day /\ e.consumed <= DailyCap
             /\ Committed(u) <= DailyCap * (e.lastResetDay - e.since) + e.consumed
      BY <1>3 DEF BudgetInv, Budget
    <2>2. e.lastResetDay - e.since < Day - e.since + 1
             /\ e.lastResetDay - e.since \in Int /\ Day - e.since + 1 \in Int
      <3>1. e.lastResetDay <= Day
        BY <2>1
      <3> HIDE DEF e
      <3> QED
        BY <1>1, <1>2, <3>1
    <2>3. DailyCap * (e.lastResetDay - e.since) + DailyCap <= DailyCap * (Day - e.since + 1)
      BY <1>1, <2>2, DaysAddUp
    <2>4. DailyCap * (e.lastResetDay - e.since) \in Int /\ DailyCap * (Day - e.since + 1) \in Int
      BY <1>1, <2>2
    <2> HIDE DEF e
    <2>5. agentTook[u] <= DailyCap * (Day - e.since + 1)
      BY <1>1, <1>2, <2>1, <2>3, <2>4
    <2> QED
      BY <1>3, <2>5 DEF e
  <1>4. CASE ~e.granted
    BY <1>1, <1>4 DEF BudgetInv, Budget
  <1> QED
    BY <1>3, <1>4

\* However an agent bids, cancels and waits for midnight, and whoever executes
\* its bids, trades take at most the daily limit for every day since the agent
\* was authorized.
THEOREM AgentKeepsToItsBudgetHolds == BidBookSpec => []AgentKeepsToItsBudget
  <1>1. BudgetInv /\ BookInv /\ BookInv' /\ [BidBookNext]_bidBookVars => BudgetInv'
    BY BudgetStep
  <1>2. BudgetInv /\ BookInv => AgentKeepsToItsBudget
    BY BudgetIsKept
  <1>3. BidBookSpec => []BookInv
    BY BookInvariance, PTL
  <1> QED
    BY <1>1, <1>2, <1>3, BudgetInit, PTL DEF BidBookSpec
=============================================================================
