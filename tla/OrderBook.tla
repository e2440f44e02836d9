------------------------------ MODULE OrderBook ------------------------------
(***************************************************************************)
(* What a bid book promises to the people who put money behind their bids.  *)
(*                                                                         *)
(* There is a set of offers.  Money is taken from a bidder without the      *)
(* bidder's own doing only by filling an offer of theirs that has not       *)
(* lapsed: the offer is gone with it, and the money is what it offered.     *)
(***************************************************************************)
EXTENDS Integers

CONSTANTS
    Bidders,
    Names,         \* an offer is made under a name that no other offer has
    OfferTerms     \* what it offers: records with an amount and an expiry

Offers == [name : Names, user : Bidders, terms : OfferTerms]

VARIABLES
    offers,        \* the open ones
    taken,         \* HBAR taken from every bidder so far
    now

bookVars == <<offers, taken, now>>

Lapsed(o) == o.terms.expiry # 0 /\ now > o.terms.expiry

BookInit ==
    /\ offers = {}
    /\ taken = [u \in Bidders |-> 0]
    /\ now = 0

Post(o) ==
    /\ \A other \in offers : other.name # o.name
    /\ ~Lapsed(o)
    /\ offers' = offers \cup {o}
    /\ UNCHANGED <<taken, now>>

Withdraw(o) ==
    /\ offers' = offers \ {o}
    /\ UNCHANGED <<taken, now>>

Fill(o) ==
    /\ ~Lapsed(o)
    /\ offers' = offers \ {o}
    /\ taken' = [taken EXCEPT ![o.user] = @ + o.terms.hbar]
    /\ UNCHANGED now

TimePasses ==
    /\ now' > now
    /\ UNCHANGED <<offers, taken>>

BookNext ==
    \/ \E o \in Offers : Post(o)
    \/ \E o \in offers : Withdraw(o) \/ Fill(o)
    \/ TimePasses

BookSpec == BookInit /\ [][BookNext]_bookVars
=============================================================================
