----------------------------- MODULE BidScanner -----------------------------
(***************************************************************************)
(* scripts/interactions/bidderFactoryEventScanner.js: a job, run every two  *)
(* minutes by cron and so possibly by two processes at once, that copies    *)
(* the bids and the other events of BidderContractFactory and of its        *)
(* stashes into database tables.                                            *)
(*                                                                         *)
(* What the factory emits and what the scanner's interface declares are not *)
(* the same: the factory of this repository added fields (agentKey, a       *)
(* reasoning topic, the token) to most events, which changes their topic.   *)
(* `wire` is the form in which the scanned factory emits:                   *)
(*   "agentFields"  the events of BidderContractFactory.sol                 *)
(*   "plain"        the events the scanner declares                         *)
(***************************************************************************)
EXTENDS Integers, Sequences

CONSTANTS
    Bids,            \* bid ids
    Scans,           \* processes that may scan
    Wires,           \* forms in which the factory may emit its events
    MaxBidEvents,    \* bound on the length of the log
    MaxBidFaults     \* bound on crashes and failed requests

VARIABLES
    wire,         \* fixed by the deployed factory
    bidLog,       \* everything the factory and its stashes have emitted
    bidState,     \* the bid book: "none", "open", "closed"
    mirrored,     \* how much of the log the mirror node shows
    bidCursor,    \* lastTimestamp, 0 if there is no row
    bidRows,      \* the bids table
    eventRows,    \* positions of the log recorded in the events table
    scan,         \* memory of every process
    bidFaults,    \* crashes and failed requests so far
    swallowed     \* history: some failed request was only printed

bidChainVars == <<wire, bidLog, bidState>>
tableVars == <<bidCursor, bidRows, eventRows>>
bidVars == <<wire, bidLog, bidState, mirrored, bidCursor, bidRows, eventRows,
             scan, bidFaults, swallowed>>

-----------------------------------------------------------------------------
(* The chain.  "deployed" has no data in either form (StashDeployed), nor    *)
(* have "cancelled" and "expired" in the plain one; "settled" is emitted by  *)
(* a stash (StashArbSettled); "governed" is decodable in both forms          *)
(* (ExpiredBidsCleanup, ArbProfitClaimed, ArbPayoutBps...); "unlisted" is    *)
(* in no interface of the scanner (AgentTierLimitsSet, ...).                 *)

Closings == {"executed", "cancelled", "expired"}
Others == {"deployed", "governed", "settled", "unlisted"}

FromStash(e) == e.kind = "settled"
NoData(e) == e.kind = "deployed" \/ (wire = "plain" /\ e.kind \in {"cancelled", "expired"})
Decodes(e) == e.kind = "governed" \/ (wire = "plain" /\ e.kind \in {"created", "executed"})

\* The factory scan fails on such an entry whenever it meets it.
Poison(e) == ~FromStash(e) /\ ~NoData(e) /\ ~Decodes(e)

NoBid == "none"

EmitBidEvent(kind, b) ==
    /\ Len(bidLog) < MaxBidEvents
    /\ bidLog' = Append(bidLog, [kind |-> kind, bid |-> b])
    /\ UNCHANGED <<wire, mirrored, tableVars, scan, bidFaults, swallowed>>

BidChain ==
    \/ \E b \in Bids :
          /\ bidState[b] = "none"
          /\ EmitBidEvent("created", b)
          /\ bidState' = [bidState EXCEPT ![b] = "open"]
    \/ \E b \in Bids, kind \in Closings :
          /\ bidState[b] = "open"
          /\ EmitBidEvent(kind, b)
          /\ bidState' = [bidState EXCEPT ![b] = "closed"]
    \/ \E kind \in Others : EmitBidEvent(kind, NoBid) /\ UNCHANGED bidState

MirrorCatchesUp ==
    /\ mirrored < Len(bidLog)
    /\ mirrored' = mirrored + 1
    /\ UNCHANGED <<bidChainVars, tableVars, scan, bidFaults, swallowed>>

-----------------------------------------------------------------------------
NoScan == [pc |-> "idle", from |-> 0, pos |-> 0, top |-> 0, bids |-> <<>>, events |-> {}]

BidScannerInit ==
    /\ wire \in Wires
    /\ bidLog = <<>> /\ bidState = [b \in Bids |-> "none"] /\ mirrored = 0
    /\ bidCursor = 0 /\ bidRows = <<>> /\ eventRows = {}
    /\ scan = [i \in Scans |-> NoScan]
    /\ bidFaults = 0 /\ swallowed = FALSE

BidFault == bidFaults < MaxBidFaults /\ bidFaults' = bidFaults + 1
Exit(i) == scan' = [scan EXCEPT ![i] = NoScan]
Goto(i, pc) == scan' = [scan EXCEPT ![i].pc = pc]

\* getLastTimestamp: an error while reading the cursor is printed and answered
\* with "never scanned".
CursorRead == {0, bidCursor}

StartBidScan(i) ==
    /\ scan[i].pc = "idle"
    /\ \E from \in CursorRead :
          /\ IF from = bidCursor THEN UNCHANGED bidFaults ELSE BidFault
          /\ scan' = [scan EXCEPT ![i] = [NoScan EXCEPT !.pc = "factory",
                                                       !.from = from, !.pos = from]]
    /\ UNCHANGED <<bidChainVars, mirrored, tableVars, swallowed>>

\* Mutant of MarkBid: the first row, whichever bid it is of.
MarkSomeBid(rows, b, status) == IF rows = <<>> THEN rows ELSE [rows EXCEPT ![1].status = status]

\* markBidStatus: the first row of the bid, if there is one.
MarkBid(rows, b, status) ==
    LET of == {i \in DOMAIN rows : rows[i].bid = b}
    IN IF of = {} THEN rows
       ELSE [rows EXCEPT ![CHOOSE i \in of : \A j \in of : i <= j].status = status]

Record(i, e) ==
    scan' = [scan EXCEPT
        ![i].pos = @ + 1,
        ![i].top = scan[i].pos + 1,
        ![i].bids = IF e.kind = "created" THEN Append(@, e.bid) ELSE @,
        ![i].events = IF e.kind = "created" THEN @ ELSE @ \cup {scan[i].pos + 1}]

\* Mutant of Skip: an entry without data ends the scan of the log.
StopAtEmpty(i) == Goto(i, "stash")
Skip(i) == scan' = [scan EXCEPT ![i].pos = @ + 1]

\* scanFactoryEvents, one log entry.  It reads the factory's own log only, and
\* an entry without data leaves no trace.
ReadBidEntry(i) ==
    /\ scan[i].pc = "factory" /\ scan[i].pos < mirrored
    /\ LET e == bidLog[scan[i].pos + 1]
       IN \/ (FromStash(e) \/ NoData(e)) /\ Skip(i) /\ UNCHANGED <<bidRows, bidFaults, swallowed>>
          \/ Poison(e) /\ Exit(i) /\ UNCHANGED <<bidRows, bidFaults, swallowed>>
          \/ /\ ~FromStash(e) /\ Decodes(e) /\ Record(i, e)
             /\ bidRows' = IF e.kind = "executed" THEN MarkBid(bidRows, e.bid, e.kind)
                                                  ELSE bidRows
             /\ UNCHANGED <<bidFaults, swallowed>>
          \/ /\ Decodes(e) /\ e.kind = "executed" /\ Record(i, e)
             /\ BidFault /\ swallowed' = TRUE /\ UNCHANGED bidRows
    /\ UNCHANGED <<bidChainVars, mirrored, bidCursor, eventRows>>

\* Mutant of EndFactoryScan: the cursor is saved before the rows are.
EndFactoryScanSavingCursor(i) ==
    /\ scan[i].pc = "factory" /\ scan[i].pos >= mirrored
    /\ Goto(i, "stash")
    /\ bidCursor' = IF scan[i].top > 0 THEN scan[i].top ELSE bidCursor
    /\ UNCHANGED <<bidChainVars, mirrored, bidRows, eventRows, bidFaults, swallowed>>

EndFactoryScan(i) ==
    /\ scan[i].pc = "factory" /\ scan[i].pos >= mirrored
    /\ Goto(i, "stash")
    /\ UNCHANGED <<bidChainVars, mirrored, tableVars, bidFaults, swallowed>>

StashEntries(from, to) == {j \in from + 1 .. to : FromStash(bidLog[j])}

\* scanStashEventsByTopic: from the same cursor, of every contract; a failed
\* request ends the scan of its topic and is only printed.
ScanStashes(i) ==
    /\ scan[i].pc = "stash"
    /\ \E to \in scan[i].from .. mirrored :
          /\ scan' = [scan EXCEPT ![i].pc = "bids",
                                  ![i].events = @ \cup StashEntries(scan[i].from, to)]
          /\ IF to = mirrored THEN UNCHANGED <<bidFaults, swallowed>>
                              ELSE BidFault /\ swallowed' = TRUE
    /\ UNCHANGED <<bidChainVars, mirrored, tableVars>>

\* uploadBidsToDirectus: batches in order, an error drops this one and the rest.
UploadBids(i) ==
    /\ scan[i].pc = "bids"
    /\ \E sent \in 0 .. Len(scan[i].bids) :
          /\ bidRows' = bidRows \o [n \in 1 .. sent |->
                                       [bid |-> scan[i].bids[n], status |-> "active"]]
          /\ IF sent = Len(scan[i].bids) THEN UNCHANGED <<bidFaults, swallowed>>
                                         ELSE BidFault /\ swallowed' = TRUE
    /\ Goto(i, "events")
    /\ UNCHANGED <<bidChainVars, mirrored, bidCursor, eventRows>>

UploadEvents(i) ==
    /\ scan[i].pc = "events"
    /\ \/ eventRows' = eventRows \cup scan[i].events /\ UNCHANGED <<bidFaults, swallowed>>
       \/ /\ scan[i].events # {}
          /\ BidFault /\ swallowed' = TRUE /\ UNCHANGED eventRows
    /\ Goto(i, "cursor")
    /\ UNCHANGED <<bidChainVars, mirrored, bidCursor, bidRows>>

\* updateLastTimestamp: only if some entry had data; an error is printed.
PostBidCursor(i) ==
    /\ scan[i].pc = "cursor"
    /\ \/ /\ bidCursor' = IF scan[i].top > 0 THEN scan[i].top ELSE bidCursor
          /\ UNCHANGED bidFaults
       \/ scan[i].top > 0 /\ BidFault /\ UNCHANGED bidCursor
    /\ Exit(i)
    /\ UNCHANGED <<bidChainVars, mirrored, bidRows, eventRows, swallowed>>

\* A crash at any point, or a request for the factory's log that fails.
BidScanFails(i) ==
    /\ scan[i].pc # "idle" /\ BidFault /\ Exit(i)
    /\ UNCHANGED <<bidChainVars, mirrored, tableVars, swallowed>>

ScanStep(i) == StartBidScan(i) \/ ReadBidEntry(i) \/ EndFactoryScan(i) \/ ScanStashes(i)
                 \/ UploadBids(i) \/ UploadEvents(i) \/ PostBidCursor(i)

BidScannerNext == BidChain \/ MirrorCatchesUp \/ \E i \in Scans : ScanStep(i) \/ BidScanFails(i)

BidScannerSpec == BidScannerInit /\ [][BidScannerNext]_bidVars

-----------------------------------------------------------------------------
(* Properties.                                                               *)

Kinds == {"created"} \cup Closings \cup Others
Entries == [kind : Kinds, bid : Bids \cup {NoBid}]
Rows == [bid : Bids, status : {"active", "executed"}]
Steps == {"idle", "factory", "stash", "bids", "events", "cursor"}
Memories(seen) == [pc : Steps, from : 0 .. seen, pos : 0 .. seen, top : 0 .. seen,
                   bids : Seq(Bids), events : SUBSET (1 .. seen)]

\* The type invariant: scans and tables know of what the mirror has shown, and
\* the events of a bid name it.
BidTypeOK ==
    /\ wire \in Wires
    /\ bidLog \in Seq(Entries)
    /\ \A j \in 1 .. Len(bidLog) :
          bidLog[j].kind \in {"created"} \cup Closings => bidLog[j].bid \in Bids
    /\ bidState \in [Bids -> {"none", "open", "closed"}]
    /\ mirrored \in 0 .. Len(bidLog)
    /\ bidCursor \in 0 .. mirrored
    /\ bidRows \in Seq(Rows)
    /\ eventRows \subseteq 1 .. mirrored
    /\ scan \in [Scans -> Memories(mirrored)]
    /\ bidFaults \in Nat
    /\ swallowed \in BOOLEAN

Stored(b) == \E n \in DOMAIN bidRows : bidRows[n].bid = b

\* An entry of the log is in the tables as far as the scanner can read it.
Recorded(j) ==
    LET e == bidLog[j]
    IN /\ Decodes(e) /\ e.kind = "created" => Stored(e.bid)
       /\ Decodes(e) /\ e.kind # "created" => j \in eventRows
       /\ FromStash(e) => j \in eventRows

\* Nothing at or below the cursor is missing from the tables, unless a failed
\* request was swallowed: crashes, restarts, rescans after an unreadable cursor
\* and two processes scanning at once may write twice but never skip.
NothingIsSkipped == ~swallowed => \A j \in 1 .. bidCursor : Recorded(j)

Said(kind, b) == \E j \in DOMAIN bidLog : bidLog[j] = [kind |-> kind, bid |-> b]

\* A row is a bid the factory announced, and it says executed only if that
\* bid was.
BidRowsTellTheChain == \A n \in DOMAIN bidRows :
    /\ Said("created", bidRows[n].bid)
    /\ bidRows[n].status = "executed" => Said("executed", bidRows[n].bid)

Poisoned == \E j \in DOMAIN bidLog : Poison(bidLog[j])

\* A bid that was announced gets its row, unless a request failed or the log
\* holds an event the scanner cannot decode.
BidsGetStored == \A b \in Bids :
    bidState[b] # "none" ~> Stored(b) \/ swallowed \/ Poisoned

\* What docs/DIRECTUS-MIGRATION-v0.3.md promises of the table: it caches the
\* bids of the BidCreated events.  Against the events the factory of this
\* repository emits, the scanner dies on the first of them.
BidsAreCached == \A b \in Bids : bidState[b] # "none" ~> Stored(b)

=============================================================================
