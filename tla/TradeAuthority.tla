---------------------------- MODULE TradeAuthority ----------------------------
(***************************************************************************)
(* The two delegations of trust in LazySecureTrade.sol: which factories    *)
(* may list on behalf of a seller (authorizedFactories), and which bid     *)
(* factory resolves a stash to its human owner (bcf).  The first grant and *)
(* the first resolver apply at once; later ones wait for a timelock that   *)
(* anybody may complete and only the owner may abandon.  Revoking a        *)
(* factory is immediate.                                                   *)
(***************************************************************************)
EXTENDS Integers

CONSTANTS
    Factories,      \* contracts the owner may authorize or resolve with
    NoOne,          \* address(0)
    TIMELOCK,       \* FACTORY_AUTH_TIMELOCK and BCF_CHANGE_TIMELOCK, 48 hours
    StartTime,      \* the timestamp of the deployment
    MaxTime         \* bound: last timestamp explored

ASSUME AuthorityAssumption ==
    /\ NoOne \notin Factories
    /\ TIMELOCK \in Nat \ {0}
    /\ StartTime \in Nat \ {0}
    /\ MaxTime \in Nat

VARIABLES
    now,
    authorizedFactories, factoryAuthorityEverGranted, pendingFactoryAuthEta,
    bcf, pendingBcf, pendingBcfEta,
    announced,      \* history: when the announced, still standing grant of
                    \* each factory was announced; 0 when there is none
    proposed        \* history: the standing resolver change, as announced

grantVars == <<authorizedFactories, factoryAuthorityEverGranted,
               pendingFactoryAuthEta, announced>>
resolverVars == <<bcf, pendingBcf, pendingBcfEta, proposed>>
authorityVars == <<grantVars, resolverVars>>
-----------------------------------------------------------------------------
NoProposal == [bcf |-> NoOne, at |-> 0]

AuthorityInit ==
    /\ now = StartTime
    /\ authorizedFactories = {}
    /\ factoryAuthorityEverGranted = FALSE
    /\ pendingFactoryAuthEta = [f \in Factories |-> 0]
    /\ announced = [f \in Factories |-> 0]
    /\ bcf = NoOne
    /\ pendingBcf = NoOne
    /\ pendingBcfEta = 0
    /\ proposed = NoProposal

\* authorizeFactory(f, true), the very first one: the deployment's wiring.
GrantFirstFactory(f) ==
    /\ f \notin authorizedFactories
    /\ ~factoryAuthorityEverGranted
    /\ factoryAuthorityEverGranted' = TRUE
    /\ authorizedFactories' = authorizedFactories \union {f}
    /\ UNCHANGED <<pendingFactoryAuthEta, announced>>

\* authorizeFactory(f, true) afterwards: announced, or announced again with
\* a new deadline.
AnnounceFactory(f) ==
    /\ f \notin authorizedFactories
    /\ factoryAuthorityEverGranted
    /\ pendingFactoryAuthEta' = [pendingFactoryAuthEta EXCEPT ![f] = now + TIMELOCK]
    /\ announced' = [announced EXCEPT ![f] = now]
    /\ UNCHANGED <<authorizedFactories, factoryAuthorityEverGranted>>

\* Mutant of RevokeFactory: the pending grant survives the revocation.
RevokeLeavesPending(f) ==
    /\ authorizedFactories' = authorizedFactories \ {f}
    /\ announced' = [announced EXCEPT ![f] = 0]
    /\ UNCHANGED <<pendingFactoryAuthEta, factoryAuthorityEverGranted>>

\* authorizeFactory(f, false): immediate, and the pending grant goes with it.
RevokeFactory(f) ==
    /\ pendingFactoryAuthEta' = [pendingFactoryAuthEta EXCEPT ![f] = 0]
    /\ announced' = [announced EXCEPT ![f] = 0]
    /\ authorizedFactories' = authorizedFactories \ {f}
    /\ UNCHANGED factoryAuthorityEverGranted

\* executeFactoryAuthorization, by anybody
ExecuteFactoryAuthorization(f) ==
    /\ pendingFactoryAuthEta[f] # 0
    /\ now >= pendingFactoryAuthEta[f]
    /\ authorizedFactories' = authorizedFactories \union {f}
    /\ pendingFactoryAuthEta' = [pendingFactoryAuthEta EXCEPT ![f] = 0]
    /\ announced' = [announced EXCEPT ![f] = 0]
    /\ UNCHANGED factoryAuthorityEverGranted

CancelFactoryAuthorization(f) ==
    /\ pendingFactoryAuthEta[f] # 0
    /\ pendingFactoryAuthEta' = [pendingFactoryAuthEta EXCEPT ![f] = 0]
    /\ announced' = [announced EXCEPT ![f] = 0]
    /\ UNCHANGED <<authorizedFactories, factoryAuthorityEverGranted>>

\* setBcf while no resolver is set
SetFirstBcf(b) ==
    /\ bcf = NoOne
    /\ bcf' = b
    /\ UNCHANGED <<pendingBcf, pendingBcfEta, proposed>>

\* Mutant of ProposeBcf: a second proposal keeps the first one's deadline.
ProposeKeepsDeadline(b) ==
    /\ bcf # NoOne
    /\ pendingBcf' = b
    /\ pendingBcfEta' = IF pendingBcfEta = 0 THEN now + TIMELOCK ELSE pendingBcfEta
    /\ proposed' = [bcf |-> b, at |-> now]
    /\ UNCHANGED bcf

\* setBcf afterwards; NoOne proposes to do without a resolver.
ProposeBcf(b) ==
    /\ bcf # NoOne
    /\ pendingBcf' = b
    /\ pendingBcfEta' = now + TIMELOCK
    /\ proposed' = [bcf |-> b, at |-> now]
    /\ UNCHANGED bcf

\* executeBcfChange, by anybody
ExecuteBcfChange ==
    /\ pendingBcfEta # 0
    /\ now >= pendingBcfEta
    /\ bcf' = pendingBcf
    /\ pendingBcf' = NoOne
    /\ pendingBcfEta' = 0
    /\ proposed' = NoProposal

CancelBcfChange ==
    /\ pendingBcfEta # 0
    /\ pendingBcf' = NoOne
    /\ pendingBcfEta' = 0
    /\ proposed' = NoProposal
    /\ UNCHANGED bcf

Grant ==
    /\ \E f \in Factories :
          \/ GrantFirstFactory(f)
          \/ AnnounceFactory(f)
          \/ RevokeFactory(f)
          \/ ExecuteFactoryAuthorization(f)
          \/ CancelFactoryAuthorization(f)
    /\ UNCHANGED resolverVars

Resolver ==
    /\ \/ \E b \in Factories \union {NoOne} : SetFirstBcf(b) \/ ProposeBcf(b)
       \/ ExecuteBcfChange
       \/ CancelBcfChange
    /\ UNCHANGED grantVars

Authority == (Grant \/ Resolver) /\ UNCHANGED now
-----------------------------------------------------------------------------
AuthorityTypeOK ==
    /\ now \in Nat
    /\ authorizedFactories \subseteq Factories
    /\ factoryAuthorityEverGranted \in BOOLEAN
    /\ pendingFactoryAuthEta \in [Factories -> Nat]
    /\ announced \in [Factories -> Nat]
    /\ bcf \in Factories \union {NoOne}
    /\ pendingBcf \in Factories \union {NoOne}
    /\ pendingBcfEta \in Nat
    /\ proposed \in [bcf : Factories \union {NoOne}, at : Nat]

\* A deadline stands exactly for an announcement that nobody has withdrawn,
\* and always a full timelock after it.
PendingIsAnnounced ==
    /\ \A f \in Factories :
          pendingFactoryAuthEta[f] # 0 =>
             /\ announced[f] # 0
             /\ pendingFactoryAuthEta[f] = announced[f] + TIMELOCK
    /\ pendingBcfEta # 0 =>
          /\ pendingBcf = proposed.bcf
          /\ proposed.at # 0
          /\ pendingBcfEta = proposed.at + TIMELOCK

AuthorityInv == AuthorityTypeOK /\ now # 0 /\ PendingIsAnnounced

\* After the first grant ever, a factory gains authority only when its grant
\* has been public for a full timelock without being revoked, cancelled or
\* announced anew since: the notice window of authorizeFactory.
GrantsAreNoticed ==
    [][\A f \in authorizedFactories' \ authorizedFactories :
          factoryAuthorityEverGranted =>
             announced[f] # 0 /\ now >= announced[f] + TIMELOCK]_<<authorityVars, now>>

\* A resolver that is in use is replaced only by the one announced last, and
\* only when that announcement is a full timelock old: the notice window of
\* setBcf.
RotationsAreNoticed ==
    [][bcf' # bcf /\ bcf # NoOne =>
          /\ proposed.at # 0
          /\ bcf' = proposed.bcf
          /\ now >= proposed.at + TIMELOCK]_<<authorityVars, now>>
=============================================================================
