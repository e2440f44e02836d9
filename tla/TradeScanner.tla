---------------------------- MODULE TradeScanner ----------------------------
(***************************************************************************)
(* scripts/interactions/secureTradeEventScanner.js: a batch job that copies *)
(* the trades LazySecureTrade announces in its event log into a database    *)
(* table, and getLiveTradesFromEvents.js, which rebuilds the open trades    *)
(* from the log without a database.                                         *)
(*                                                                         *)
(* The log is append-only and a mirror node shows the scanner some prefix   *)
(* of it.  Positions in the log stand for consensus timestamps.  Between    *)
(* two scans only the cursor and the rows survive; everything in `job` is   *)
(* the memory of the one process that is running and is lost when it ends.  *)
(***************************************************************************)
EXTENDS Integers, Sequences

CONSTANTS
    Keys,              \* the NFTs that are traded: a token and a serial
    MaxTradeEvents,    \* bound on the length of the log
    MaxTradeNonce,     \* bound on the contract's counter
    TradeLogPage,      \* entries in one answer of the mirror node (100)
    MaxTradeFaults     \* bound on crashes and failed requests

\* A page of the mirror node is a number of entries.
ASSUME TradeScannerAssumption == TradeLogPage \in Nat

VARIABLES
    tradeLog,      \* what the contract has emitted
    listed,        \* nonce of the open trade of every NFT, 0 if there is none
    tradeNonce,    \* the contract's counter
    tradeCursor,   \* lastTimestamp in the events table, 0 if there is no row
    tradeRows,     \* the cache table, in the order the rows were created
    job,           \* memory of the running scan
    tradeFaults,   \* crashes and failed requests so far
    lossless       \* history: every scan that saved its cursor also did all its writes

chainVars == <<tradeLog, listed, tradeNonce>>
tradeVars == <<tradeLog, listed, tradeNonce, tradeCursor, tradeRows, job,
               tradeFaults, lossless>>

-----------------------------------------------------------------------------
(* The log.  An entry of kind "indexed" has all its fields in topics and     *)
(* empty data (TokenAssociated, BcfRegistered); "logged" entries are only    *)
(* printed (the three batch events); "foreign" ones are emitted by the       *)
(* contract with data but are missing from the scanner's interface           *)
(* (PlatformFeeCollected, FeeRatesUpdated, FactoryAuthorized, ...).          *)

Trade(k, n) == [key |-> k, nonce |-> n, completed |-> FALSE, canceled |-> FALSE]
Entry(kind, k, n) == [kind |-> kind, key |-> k, nonce |-> n]
NoNonce == 0
NoKey == "none"

Emit(entries) == /\ Len(tradeLog) + Len(entries) <= MaxTradeEvents
                 /\ tradeLog' = tradeLog \o entries
                 /\ UNCHANGED <<tradeCursor, tradeRows, job, tradeFaults, lossless>>

TakesNonce == tradeNonce < MaxTradeNonce /\ tradeNonce' = tradeNonce + 1

\* A listing; over an open trade of the same NFT it first cancels that one.
List(k, announcement) ==
    /\ Emit((IF listed[k] = NoNonce THEN <<>> ELSE <<Entry("cancelled", k, listed[k])>>)
              \o announcement)
    /\ TakesNonce
    /\ listed' = [listed EXCEPT ![k] = tradeNonce + 1]

\* createTrade and createTradeOnBehalf announce what they list.
ChainList(k) == List(k, <<Entry("created", k, tradeNonce + 1)>>)

\* createMultipleTrades does not: it takes a nonce for every NFT and says at
\* most that the trades it replaces are cancelled.
ChainListUnannounced(k) == List(k, <<>>)

ChainClose(k, kind) ==
    /\ listed[k] # NoNonce
    /\ Emit(<<Entry(kind, k, listed[k])>>)
    /\ listed' = [listed EXCEPT ![k] = NoNonce]
    /\ UNCHANGED tradeNonce

\* A batch trade takes its nonce from the same counter.
ChainOther(kind) ==
    /\ Emit(<<Entry(kind, NoKey, NoNonce)>>)
    /\ UNCHANGED tradeNonce \/ (kind = "logged" /\ TakesNonce)
    /\ UNCHANGED listed

TradeChain ==
    \/ \E k \in Keys : \/ ChainList(k) \/ ChainListUnannounced(k)
                       \/ \E kind \in {"completed", "cancelled"} : ChainClose(k, kind)
    \/ \E kind \in {"indexed", "logged", "foreign"} : ChainOther(kind)

-----------------------------------------------------------------------------
(* One run of the scanner.                                                   *)

NoJob == [pc |-> "idle", pos |-> 0, top |-> 0, found |-> <<>>, floating |-> FALSE]

TradeScannerInit ==
    /\ tradeLog = <<>> /\ tradeNonce = 0 /\ listed = [k \in Keys |-> NoNonce]
    /\ tradeCursor = 0 /\ tradeRows = <<>>
    /\ job = NoJob /\ tradeFaults = 0 /\ lossless = TRUE

\* The process ends before its scan is complete.  Once the cursor is saved,
\* what it still held in memory is never read again.
Abort == /\ job' = NoJob
         /\ lossless' = (lossless /\ job.pc = "logs")
         /\ UNCHANGED <<tradeCursor, tradeRows>>

Fault == tradeFaults < MaxTradeFaults /\ tradeFaults' = tradeFaults + 1

\* getLastHashFromDirectus; "0" and no row both mean: from the beginning.
LastTimestamp == tradeCursor

StartTradeScan ==
    /\ job.pc = "idle"
    /\ job' = [NoJob EXCEPT !.pc = "logs", !.pos = LastTimestamp]
    /\ UNCHANGED <<chainVars, tradeCursor, tradeRows, tradeFaults, lossless>>

\* tradesMap is keyed by the NFT: a second listing takes the place of the first.
PutTrade(found, t) ==
    IF \E i \in DOMAIN found : found[i].key = t.key
    THEN [i \in DOMAIN found |-> IF found[i].key = t.key THEN t ELSE found[i]]
    ELSE Append(found, t)

HasTrade(found, k) == \E i \in DOMAIN found : found[i].key = k

CloseTrade(found, k, kind) ==
    [i \in DOMAIN found |->
        IF found[i].key # k THEN found[i]
        ELSE IF kind = "completed" THEN [found[i] EXCEPT !.completed = TRUE]
        ELSE [found[i] EXCEPT !.canceled = TRUE]]

\* What one log entry does to the job.  An entry that closes a trade of an
\* earlier scan starts a database update that nobody awaits.
Absorb(e) ==
    [job EXCEPT
        !.pos = @ + 1,
        !.top = IF e.kind = "indexed" THEN @ ELSE job.pos + 1,
        !.found = CASE e.kind = "created" -> PutTrade(@, Trade(e.key, e.nonce))
                    [] e.kind \in {"completed", "cancelled"} -> CloseTrade(@, e.key, e.kind)
                    [] OTHER -> @,
        !.floating = @ \/ (e.kind \in {"completed", "cancelled"}
                             /\ ~HasTrade(job.found, e.key))]

\* parseLog answers null for an event that is not in the interface, and the
\* scanner reads a field of it: the exception ends the process.
ReadTradeEntry ==
    /\ job.pc = "logs" /\ job.pos < Len(tradeLog)
    /\ LET e == tradeLog[job.pos + 1]
       IN IF e.kind = "foreign" THEN Abort
          ELSE job' = Absorb(e) /\ UNCHANGED <<tradeCursor, tradeRows, lossless>>
    /\ UNCHANGED <<chainVars, tradeFaults>>

\* The mirror has no more entries to show, now: the cursor is saved at once.
PostTradeCursor ==
    /\ job.pc = "logs"
    /\ tradeCursor' = IF job.top # 0 THEN job.top ELSE tradeCursor
    /\ job' = [job EXCEPT !.pc = "accounts"]
    /\ UNCHANGED <<chainVars, tradeRows, tradeFaults, lossless>>

\* The accounts of the trades found are looked up one by one, each as often as
\* it takes.
ResolveAccounts ==
    /\ job.pc = "accounts"
    /\ job' = [job EXCEPT !.pc = "nonce"]
    /\ UNCHANGED <<chainVars, tradeCursor, tradeRows, tradeFaults, lossless>>

\* markTradeAsCompletedOrCancelledInDb takes `.data` of an answer that is a
\* plain array; nobody handles the rejection, so it ends the process, at
\* whichever await it arrives.
MarkRejects ==
    /\ job.pc # "idle" /\ job.floating
    /\ Abort
    /\ UNCHANGED <<chainVars, tradeFaults>>

MaxRowNonce == CHOOSE n \in {0} \cup {tradeRows[i].nonce : i \in DOMAIN tradeRows} :
                   \A i \in DOMAIN tradeRows : tradeRows[i].nonce <= n

\* Mutant of IsNew: off by one.
IsNewButTheNext(t, maxNonce) == t.nonce > maxNonce + 1
IsNew(t, maxNonce) == t.nonce > maxNonce

\* The trades of the map that the filter on their nonce leaves.
NewTrades(found, maxNonce) ==
    LET kept[i \in 0 .. Len(found)] ==
            IF i = 0 THEN <<>>
            ELSE IF IsNew(found[i], maxNonce) THEN Append(kept[i-1], found[i]) ELSE kept[i-1]
    IN kept[Len(found)]

ReadMaxNonce ==
    /\ job.pc = "nonce"
    /\ job' = [job EXCEPT !.pc = "upload", !.found = NewTrades(@, MaxRowNonce)]
    /\ UNCHANGED <<chainVars, tradeCursor, tradeRows, tradeFaults, lossless>>

\* One batch (of up to 100): on a bad request the last trade is dropped and
\* the rest retried, any other error is printed and drops the whole batch.
UploadTrades ==
    /\ job.pc = "upload"
    /\ \E sent \in 0 .. Len(job.found) :
          /\ tradeRows' = tradeRows \o SubSeq(job.found, 1, sent)
          /\ IF sent = Len(job.found)
             THEN UNCHANGED <<tradeFaults, lossless>>
             ELSE Fault /\ lossless' = FALSE
    /\ job' = NoJob
    /\ UNCHANGED <<chainVars, tradeCursor>>

\* A crash, or a request to the mirror or the database that fails where the
\* scanner exits on it.
TradeScanFails ==
    /\ job.pc # "idle"
    /\ Fault
    /\ Abort
    /\ UNCHANGED chainVars

TradeScan == StartTradeScan \/ ReadTradeEntry \/ PostTradeCursor \/ MarkRejects
               \/ ResolveAccounts \/ ReadMaxNonce \/ UploadTrades \/ TradeScanFails

TradeScannerSpec == TradeScannerInit /\ [][TradeChain \/ TradeScan]_tradeVars

-----------------------------------------------------------------------------
(* getLiveTradesFromEvents.js, with the contract's whole interface.  It asks *)
(* for the next page in a field the mirror does not send, so it reads one.   *)

\* Mutant of ApplyToLive: cancellations are not looked at.
ApplyToLiveButCancels(found, e) ==
    CASE e.kind = "created" -> PutTrade(found, Trade(e.key, e.nonce))
      [] e.kind = "completed" -> CloseTrade(found, e.key, e.kind)
      [] OTHER -> found

ApplyToLive(found, e) ==
    CASE e.kind = "created" -> PutTrade(found, Trade(e.key, e.nonce))
      [] e.kind \in {"completed", "cancelled"} -> CloseTrade(found, e.key, e.kind)
      [] OTHER -> found

LiveTrades(log) ==
    LET read == IF Len(log) < TradeLogPage THEN Len(log) ELSE TradeLogPage
        after[i \in 0 .. read] == IF i = 0 THEN <<>> ELSE ApplyToLive(after[i-1], log[i])
        seen == after[read]
    IN {seen[i] : i \in {j \in DOMAIN seen : ~seen[j].completed /\ ~seen[j].canceled}}

-----------------------------------------------------------------------------
(* Properties.                                                               *)

Emitted(kind, k, n) == \E j \in DOMAIN tradeLog : tradeLog[j] = Entry(kind, k, n)

Announces(e, k) == e.kind = "created" /\ e.key = k

\* Among the announcements of an NFT, that of listing n is the last before an
\* entry that closes, as `kind`, this listing or one that silently replaced it.
ToldClosed(log, kind, k, n) ==
    \E i, j \in DOMAIN log :
        /\ i < j /\ log[i] = Entry("created", k, n)
        /\ log[j].kind = kind /\ log[j].key = k /\ log[j].nonce >= n
        /\ \A between \in i + 1 .. j - 1 : ~Announces(log[between], k)

\* Every row of the table is a listing the contract announced.  The map of one
\* scan is keyed by the NFT and the scanner compares no nonces, so an entry
\* closes whatever listing of its NFT was announced last: a row that says
\* completed or canceled never owes it to an entry of an older listing, or to
\* one that comes after a later announcement, but it may owe it to a listing
\* that createMultipleTrades has put in its place without a word; and it is no
\* longer open.  No listing is stored twice, whatever was retried, dropped or
\* restarted.
TradeRowsTellTheChain == \A i \in DOMAIN tradeRows :
    LET r == tradeRows[i]
    IN /\ Emitted("created", r.key, r.nonce)
       /\ r.completed => ToldClosed(tradeLog, "completed", r.key, r.nonce)
       /\ r.canceled => ToldClosed(tradeLog, "cancelled", r.key, r.nonce)
       /\ r.completed \/ r.canceled => listed[r.key] # r.nonce
       /\ \A j \in DOMAIN tradeRows : tradeRows[j].nonce = r.nonce => i = j

\* While no scan ended between saving its cursor and finishing its writes,
\* every listing announced up to the cursor is in the table, or a later one of
\* the same NFT is: the filter on the highest stored nonce loses none of them,
\* although the nonces of batch trades and unannounced listings leave gaps.
LosslessScansKeepEveryTrade ==
    lossless /\ job.pc = "idle" =>
        \A j \in 1 .. tradeCursor :
            tradeLog[j].kind = "created" =>
                \/ \E i \in DOMAIN tradeRows : tradeRows[i].nonce = tradeLog[j].nonce
                \/ \E n \in j + 1 .. tradeCursor :
                       tradeLog[n].kind = "created" /\ tradeLog[n].key = tradeLog[j].key

\* getLiveTradesFromEvents.js shows exactly those open trades that were
\* announced, as long as the log fits in one page: a relisting, announced or
\* not, cancels the old trade first, and the order of the log is what keeps the
\* new one open.  What createMultipleTrades has listed it cannot show.
LiveViewIsExact ==
    Len(tradeLog) <= TradeLogPage =>
        LiveTrades(tradeLog) = {Trade(k, listed[k]) :
            k \in {l \in Keys : listed[l] # NoNonce /\ Emitted("created", l, listed[l])}}
=============================================================================
