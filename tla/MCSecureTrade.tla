---------------------------- MODULE MCSecureTrade ----------------------------
(***************************************************************************)
(* Finite instances of SecureTrade: two people, a stash of the first, one  *)
(* NFT of an ordinary collection and one of an exempt one.                 *)
(***************************************************************************)
EXTENDS SecureTradeProperties

CONSTANTS ann, bob, annStash, plain, house, fac1, fac2

MCAddressSeq == <<ann, bob>>
MCAddressSeqWithStash == <<ann, bob, annStash>>
MCNFTSeq == <<1, 2>>
MCOneNFTSeq == <<1>>
MCTokenOf == [n \in NFTs |-> IF n = 1 THEN plain ELSE house]

\* The stash belongs to the first factory.
MCStashOwner == [f \in Factories |-> [a \in Addresses |->
                    IF f = fac1 /\ a = annStash THEN ann ELSE NoOne]]

Offered(n, tinybar, lz) == [nft |-> n, tinybar |-> tinybar, lazy |-> lz]

MCOffers == {Offered(1, 1000, 0)}

\* Cheap enough for the gas station's top-up to pay, were nobody else to.
MCCheapOffers == {Offered(1, 20, 0)}

\* Both NFTs, the second for $LAZY only; the same NFT twice.
MCLists == {<<Offered(1, 1000, 0), Offered(2, 0, 3)>>,
            <<Offered(1, 1000, 0), Offered(1, 2000, 0)>>}

MCBundles == {[items |-> {1, 2}, tinybar |-> [n \in NFTs |-> IF n = 1 THEN 0 ELSE 1000],
               lazy |-> [n \in NFTs |-> 0]]}
MCSchedule == [base |-> 100, discount |-> <<50, 75, 100>>]
MCSchedules == {[base |-> 500, discount |-> <<0, 0, 0>>],
                [base |-> 600, discount |-> <<50, 75, 100>>],
                [base |-> 100, discount |-> <<50, 75, 101>>]}

MCOperators == {<<a, plain>> : a \in Addresses}
MCStashOperator == {<<annStash, plain>>}
MCOwners == {[n \in NFTs |-> ann]}
MCStashOwns == {[n \in NFTs |-> annStash]}
MCTier == [a \in Addresses |-> 0]
MCTierMoves == {<<ann, 3>>}
MCHbar == [a \in Addresses |-> 5000]
MCLazy == [a \in Addresses |-> 5]
=============================================================================
