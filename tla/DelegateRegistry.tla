-------------------------- MODULE DelegateRegistry --------------------------
(***************************************************************************)
(* LazyDelegateRegistry: wallets and owners of NFTs name delegates, and the *)
(* registry keeps indexes for looking both sides up.  NFTs change hands     *)
(* outside; the registry hears of it at the next delegation only.           *)
(***************************************************************************)
EXTENDS Integers, SequencesExt

CONSTANTS
    Wallets,         \* owners, buyers and delegates
    Nobody,          \* address(0)
    Collections,     \* NFT tokens
    Serials,         \* of each of them
    MaxDelegated     \* bound on totalSerialsDelegated

ASSUME RegistryAssumption == Nobody \notin Wallets /\ MaxDelegated \in Nat

VARIABLES
    holder,      \* ownerOf, for each NFT
    wallet,      \* delegateWallet, delegatedTo and walletsWithDelegates
    registry     \* the delegations of serials and their indexes

registryVars == <<holder, wallet, registry>>

Addresses == Wallets \cup {Nobody}
Items == Collections \X Serials

\* total is totalSerialsDelegated.  The contract's subtractions are checked, so
\* that a negative total here is a revocation that fails there.  What follows
\* total is history: who delegated an NFT last, and to whom; the NFTs that were
\* delegated anew to the delegate they had; those delegated to nobody.
RegistryInit ==
    /\ holder \in [Items -> Wallets]
    /\ wallet = [delegate |-> [w \in Wallets |-> Nobody],
                 delegatedTo |-> [a \in Addresses |-> {}], with |-> {}]
    /\ registry = [delegatedNFT |-> [x \in {} |-> Nobody],   \* of some of Items
                   delegator |-> [x \in Items |-> Nobody],
                   serials |-> [h \in Addresses \X Collections |-> {}],
                   tokensTo |-> [a \in Addresses |-> {}],
                   tokensBy |-> [a \in Addresses |-> {}],
                   tokens |-> {},
                   total |-> 0,
                   last |-> [x \in Items |-> <<>>], renewed |-> {}, zeroed |-> {}]

-----------------------------------------------------------------------------
(* Delegations of a wallet.                                                  *)

delegateWalletTo(w, d) ==
    /\ wallet' = [wallet EXCEPT !.delegate[w] = d,
                                !.delegatedTo[d] = @ \cup {w},
                                !.with = @ \cup {w}]
    /\ UNCHANGED <<holder, registry>>

revokeDelegateWallet(w) ==
    LET d == wallet.delegate[w]
    IN /\ wallet' = IF d = Nobody THEN wallet
                    ELSE [wallet EXCEPT !.delegate[w] = Nobody,
                                        !.delegatedTo[d] = @ \ {w},
                                        !.with = @ \ {w}]
       /\ UNCHANGED <<holder, registry>>

-----------------------------------------------------------------------------
(* Delegations of serials.  Both sides are listed under one key, the hash of *)
(* a wallet and a token, whether it delegates or is delegated to.            *)

HasDelegate(r, x) == x \in DOMAIN r.delegatedNFT /\ r.delegatedNFT[x] # Nobody

\* The entries that go: a full removal takes the owner's, any takes the
\* delegate's, and that of a delegator who has sold.
Unlisted(r, w, x, full) ==
    LET token == x[1]
        d == r.delegatedNFT[x]
        givers == IF full THEN {w, r.delegator[x]} ELSE {r.delegator[x]} \ {w}
        serials == [h \in DOMAIN r.serials |->
                       IF h[2] = token /\ h[1] \in givers \cup {d}
                       THEN r.serials[h] \ {x[2]} ELSE r.serials[h]]
        Emptied(side, who) ==
            [a \in Addresses |-> IF a \in who /\ serials[a, token] = {}
                                 THEN side[a] \ {token} ELSE side[a]]
    IN [r EXCEPT !.serials = serials,
                 !.tokensTo = Emptied(@, {d}),
                 !.tokensBy = Emptied(@, givers)]

\* What a full removal takes besides.
Forgotten(r, x) ==
    LET rest == Restrict(r.delegatedNFT, DOMAIN r.delegatedNFT \ {x})
    IN [r EXCEPT !.delegatedNFT = rest, !.delegator[x] = Nobody, !.total = @ - 1,
            !.tokens = IF \E y \in DOMAIN rest : y[1] = x[1] THEN @ ELSE @ \ {x[1]}]

\* Mutant of Revoked: the buyer who delegates does not become the delegator.
RevokedForTheSeller(r, w, x, full) ==
    LET unlisted == Unlisted(r, w, x, full)
    IN IF full THEN Forgotten(unlisted, x) ELSE unlisted

\* _revokeDelegateNFT, when there is a delegate.
Revoked(r, w, x, full) ==
    LET unlisted == Unlisted(r, w, x, full)
    IN IF full THEN Forgotten(unlisted, x) ELSE [unlisted EXCEPT !.delegator[x] = w]

\* One turn of the loop of delegateNFT.
Delegated(r, w, d, x) ==
    LET cleared == IF HasDelegate(r, x) THEN Revoked(r, w, x, FALSE)
                   ELSE [r EXCEPT !.total = @ + 1, !.delegator[x] = w]
    IN [cleared EXCEPT !.delegatedNFT = [y \in DOMAIN @ \cup {x} |-> IF y = x THEN d ELSE @[y]],
            !.serials = [h \in DOMAIN @ |-> IF h[1] \in {w, d} /\ h[2] = x[1]
                                            THEN @[h] \cup {x[2]} ELSE @[h]],
            !.last[x] = <<w, d>>,
            !.renewed = IF x \in DOMAIN r.delegatedNFT /\ r.delegatedNFT[x] = d
                        THEN @ \cup {x} ELSE @,
            !.zeroed = IF d = Nobody THEN @ \cup {x} ELSE @]

\* delegateNFT for one token, whose list of serials may be empty.
DelegatedList(r, w, d, list) ==
    LET listed == [r EXCEPT !.tokens = @ \cup {list.token},
                            !.tokensBy[w] = @ \cup {list.token},
                            !.tokensTo[d] = @ \cup {list.token}]
        after[i \in 0..Len(list.serials)] ==
            IF i = 0 THEN listed
            ELSE Delegated(after[i-1], w, d, <<list.token, list.serials[i]>>)
    IN after[Len(list.serials)]

ItemsOf(list) == {<<list.token, list.serials[i]>> : i \in DOMAIN list.serials}
AllItems(lists) == UNION {ItemsOf(lists[i]) : i \in DOMAIN lists}
OwnsAll(w, lists) == \A x \in AllItems(lists) : holder[x] = w

\* delegateNFTs; with one list, delegateNFT.  It takes effect for all or none.
delegateNFTs(w, d, lists) ==
    LET after[i \in 0..Len(lists)] ==
            IF i = 0 THEN registry ELSE DelegatedList(after[i-1], w, d, lists[i])
    IN /\ OwnsAll(w, lists)
       /\ registry' = after[Len(lists)]
       /\ registry'.total <= MaxDelegated
       /\ UNCHANGED <<holder, wallet>>

\* One turn of the loop of revokeDelegateNFT: a serial without delegate is
\* passed over.
RevokedOne(r, w, x) ==
    IF HasDelegate(r, x) THEN [Revoked(r, w, x, TRUE) EXCEPT !.last[x] = <<>>] ELSE r

RevokedList(r, w, list) ==
    LET after[i \in 0..Len(list.serials)] ==
            IF i = 0 THEN r ELSE RevokedOne(after[i-1], w, <<list.token, list.serials[i]>>)
    IN after[Len(list.serials)]

\* revokeDelegateNFTs; with one list, revokeDelegateNFT.  Only the owner of the
\* moment may.
revokeDelegateNFTs(w, lists) ==
    LET after[i \in 0..Len(lists)] ==
            IF i = 0 THEN registry ELSE RevokedList(after[i-1], w, lists[i])
    IN /\ OwnsAll(w, lists)
       /\ registry' = after[Len(lists)]
       /\ UNCHANGED <<holder, wallet>>

\* The NFT is sold: the registry is not asked.
ChangesHands(x, w) ==
    /\ holder[x] # w /\ holder' = [holder EXCEPT ![x] = w]
    /\ UNCHANGED <<wallet, registry>>

\* Lists with serials of one token, with none, and with one twice.
SerialLists == [token : Collections, serials : SeqOf(Serials, 2)]

Registering ==
    \/ \E w \in Wallets, d \in Addresses : delegateWalletTo(w, d)
    \/ \E w \in Wallets : revokeDelegateWallet(w)
    \/ \E w \in Wallets, d \in Addresses, list \in SerialLists : delegateNFTs(w, d, <<list>>)
    \/ \E w \in Wallets, list \in SerialLists : revokeDelegateNFTs(w, <<list>>)
    \/ \E x \in Items, w \in Wallets : ChangesHands(x, w)

RegistrySpec == RegistryInit /\ [][Registering]_registryVars

-----------------------------------------------------------------------------
(* What others read.                                                         *)

checkNFTDelegationIsValid(x) == registry.delegator[x] = holder[x]

checkDelegateToken(d, x) ==
    \/ holder[x] = d
    \/ wallet.delegate[holder[x]] = d
    \/ /\ x \in DOMAIN registry.delegatedNFT /\ checkNFTDelegationIsValid(x)
       /\ registry.delegatedNFT[x] = d

getSerialsDelegatedTo(d, token) ==
    IF token \in registry.tokensTo[d] THEN registry.serials[d, token] ELSE {}
getSerialsDelegatedBy(w, token) ==
    IF token \in registry.tokensBy[w] THEN registry.serials[w, token] ELSE {}

\* Through sales, changes of mind and revocations, a stranger may act for an NFT
\* exactly when its owner of the moment was the last to delegate it, and to him.
OnlyTheOwnersDelegates ==
    \A x \in Items, d \in Wallets :
        checkDelegateToken(d, x) <=> \/ d \in {holder[x], wallet.delegate[holder[x]]}
                                     \/ registry.last[x] = <<holder[x], d>>

\* The lists of a wallet are the serials it has delegated and those delegated to
\* it, sold ones included, but for serials that were delegated to nobody; the
\* total counts at least every delegation, so that no revocation underflows.
ListsAgree ==
    LET map == registry.delegatedNFT
        sides == [x \in DOMAIN map |-> {map[x], registry.delegator[x]}]
    IN /\ \A w \in Wallets, token \in Collections, s \in Serials :
             LET x == <<token, s>>
             IN /\ x \in DOMAIN map /\ w \in sides[x] => s \in registry.serials[w, token]
                /\ s \in registry.serials[w, token] /\ x \notin registry.zeroed =>
                      x \in DOMAIN map /\ w \in sides[x]
       /\ registry.total >= Cardinality(DOMAIN map)
       /\ registry.zeroed = {} => registry.total = Cardinality(DOMAIN map)

\* A delegation is found from both sides: by its delegator always, by its
\* delegate unless one to him was renewed, which may drop the collection from
\* his list.  A wallet is found under its delegate.
DelegationsAreFound ==
    /\ \A x \in DOMAIN registry.delegatedNFT :
          LET d == registry.delegatedNFT[x]
              fresh == \A y \in registry.renewed : y[1] # x[1]
          IN /\ x[1] \in registry.tokens
             /\ x[2] \in getSerialsDelegatedBy(registry.delegator[x], x[1])
             /\ fresh => x[2] \in getSerialsDelegatedTo(d, x[1])
    /\ \A w \in Wallets :
          LET d == wallet.delegate[w]
          IN d # Nobody => w \in wallet.delegatedTo[d] \cap wallet.with

\* Authority and lists after any order of delegations, sales and revocations in
\* LazyDelegateRegistry: a delegate acts for the owner of the moment only, and
\* both sides find what stands.
RegistryAgrees == OnlyTheOwnersDelegates /\ ListsAgree /\ DelegationsAreFound

=============================================================================
