----------------------------- MODULE MirrorReads -----------------------------
(***************************************************************************)
(* utils/hederaMirrorHelpers.js: what the scripts learn of the ledger.      *)
(*                                                                         *)
(* A mirror node answers a list page by page, and any request may fail: ok  *)
(* says whether the one request of a helper is answered, down is the set of *)
(* the pages whose request is not.  A helper that asks for a single page    *)
(* knows nothing of what is beyond it.                                      *)
(***************************************************************************)
EXTENDS Sums, SequencesExt

CONSTANTS
    MirrorPage        \* entries on a page of the mirror node

\* An answer is the set of what it tells: null and undefined tell nothing.
Null == {}

\* One account, token, NFT or contract: what the ledger says of it, or null.
Answer(value, ok) == IF ok THEN {value} ELSE Null
CheckMirrorHbarBalance(balance, ok) == Answer(balance, ok)
CheckNFTOwnership(owner, ok) == Answer(owner, ok)
GetTokenDetails(details, ok) == Answer(details, ok)

\* The balance of one token: null, too, where the account is not associated.
CheckMirrorBalance(isAssociated, balance, ok) == Answer(balance, ok /\ isAssociated)

FirstPage(list) == SubSeq(list, 1, IF Len(list) < MirrorPage THEN Len(list) ELSE MirrorPage)

\* Of the entries for a spender the last one counts; no entry, and no answer,
\* are an allowance of nothing.  The token of an entry is not looked at.
LastAllowance(list, spender) ==
    FoldLeft(LAMBDA amount, e : IF e.spender = spender THEN e.amount ELSE amount, 0, list)
CheckMirrorAllowance(tokenAllowances, spender, ok) ==
    IF ok THEN LastAllowance(FirstPage(tokenAllowances), spender) ELSE 0
CheckMirrorHbarAllowance(hbarAllowances, spender, ok) ==
    IF ok THEN LastAllowance(FirstPage(hbarAllowances), spender) ELSE 0

\* The lists the revoker works through.
CheckFTAllowances(tokenAllowances, ok) == Answer(FirstPage(tokenAllowances), ok)
CheckHbarAllowances(hbarAllowances, ok) == Answer(FirstPage(hbarAllowances), ok)

\* The spender of one serial among those an account owns: of its entries the
\* last one counts.
CheckMirrorNFTAllowance(nfts, serial, ok) ==
    LET page == FirstPage(nfts)
        found == {i \in 1 .. Len(page) : page[i].serial = serial}
    IN IF ~ok \/ found = {} THEN Null ELSE {page[Max(found)].spender}

PageCount(list) == GreaterOf(1, (Len(list) + MirrorPage - 1) \div MirrorPage)
PageOf(list, p) ==
    SubSeq(list, (p - 1) * MirrorPage + 1, LesserOf(p * MirrorPage, Len(list)))

\* The link on a page is followed until there is none.
PagesRead(list) == 1 .. PageCount(list)

\* One page that does not come loses all of them.
GetSerialsOwned(serials, down) ==
    IF down \cap PagesRead(serials) # {} THEN Null
    ELSE {FlattenSeq([p \in PagesRead(serials) |-> PageOf(serials, p)])}

-----------------------------------------------------------------------------
(* Event logs, newest first.  known: the event is in the caller's interface; *)
(* data: it has fields that are not indexed.  For an unknown event parseLog  *)
(* gives null, and the next line throws into the handler of the request.     *)

Newest(log, limit) == SubSeq(Reverse(log), 1, LesserOf(limit, Len(log)))
AllKnown(events) == \A i \in DOMAIN events : events[i].known

\* One unknown event among the newest and there are none.
GetDecodedEventsFromMirror(log, limit, ok) ==
    IF ok /\ AllKnown(Newest(log, limit)) THEN Newest(log, limit) ELSE <<>>

\* The first of that name, if any is.
FindLastEventByName(log, name, depth, ok) ==
    LET events == GetDecodedEventsFromMirror(log, depth, ok)
        named == {i \in 1 .. Len(events) : events[i].name = name}
    IN IF named = {} THEN Null ELSE {events[Min(named)]}

\* These leave out what has no data.
HasData(e) == e.data
GetEventsFromMirror(log, ok) ==
    LET printed == SelectSeq(Newest(log, MirrorPage), HasData)
    IN IF ok /\ AllKnown(printed) THEN {printed} ELSE Null
CheckLastMirrorEvent(log, ok) ==
    LET last == SelectSeq(Newest(log, 1), HasData)
    IN IF ok /\ last # <<>> /\ AllKnown(last) THEN {last[1]} ELSE Null

-----------------------------------------------------------------------------
\* A mirror node may fail a script, it may not mislead it: the serials are all
\* the account owns, in order, or the script is told that they are unknown, at
\* every number of pages and wherever a request fails; an event found by name
\* is the newest of that name; and the spender of a serial is the one it has.
NeverMisleads(serials, log, name) ==
    /\ \A down \in SUBSET (1 .. PageCount(serials)) :
          GetSerialsOwned(serials, down) \in {{serials}, Null}
    /\ GetSerialsOwned(serials, {}) = {serials}
    /\ \A ok \in BOOLEAN, depth \in 1 .. Len(log) + 1 :
          \A found \in FindLastEventByName(log, name, depth, ok) :
             \E i \in DOMAIN log :
                 log[i] = found /\ \A j \in i + 1 .. Len(log) : log[j].name # name
    /\ \A ok \in BOOLEAN, i \in DOMAIN serials :
          LET nfts == [s \in DOMAIN serials |-> [serial |-> serials[s], spender |-> s]]
          IN CheckMirrorNFTAllowance(nfts, serials[i], ok) \in {{i}, Null}
=============================================================================
