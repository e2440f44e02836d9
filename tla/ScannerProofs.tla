--------------------------- MODULE ScannerProofs ---------------------------
(***************************************************************************)
(* Machine-checked proofs about the jobs that read event logs.  The bid     *)
(* scanner skips nothing unless it has swallowed a failed request, and its  *)
(* rows say only what the factory said: for any bids, any log, any number   *)
(* of processes that scan at once, and any number of crashes.  The trade    *)
(* scanner's rows say only what the contract said, each listing once, and   *)
(* lossless scans keep every trade; the live view shows the open trades.    *)
(***************************************************************************)
EXTENDS EventScanners, SumsProofs, SequenceTheorems

-----------------------------------------------------------------------------
(* The bid scanner: types.                                                   *)

LEMMA MemoriesGrow ==
    ASSUME NEW m \in Nat, NEW n \in Nat, m <= n
    PROVE  Memories(m) \subseteq Memories(n)
  <1>1. 0 .. m \subseteq 0 .. n /\ 1 .. m \subseteq 1 .. n
    OBVIOUS
  <1> QED
    BY <1>1 DEF Memories

LEMMA TypeInit == BidScannerInit => BidTypeOK
  <1> SUFFICES ASSUME BidScannerInit PROVE BidTypeOK
    OBVIOUS
  <1> USE DEF BidScannerInit
  <1>1. NoScan \in Memories(mirrored)
    <2>1. <<>> \in Seq(Bids) /\ {} \in SUBSET (1 .. 0) /\ 0 \in 0 .. 0 /\ "idle" \in Steps
      BY DEF Steps
    <2> QED
      BY <2>1 DEF NoScan, Memories
  <1>2. scan \in [Scans -> Memories(mirrored)]
    BY <1>1
  <1>3. bidLog \in Seq(Entries) /\ bidRows \in Seq(Rows) /\ Len(bidLog) = 0
    OBVIOUS
  <1>4. \A j \in 1 .. Len(bidLog) :
           bidLog[j].kind \in {"created"} \cup Closings => bidLog[j].bid \in Bids
    BY <1>3
  <1>5. mirrored \in 0 .. Len(bidLog) /\ bidCursor \in 0 .. mirrored /\ bidFaults \in Nat
    BY <1>3
  <1>6. eventRows \subseteq 1 .. mirrored /\ swallowed \in BOOLEAN /\ wire \in Wires
    OBVIOUS
  <1>7. bidState \in [Bids -> {"none", "open", "closed"}]
    OBVIOUS
  <1> HIDE DEF BidScannerInit
  <1> QED
    BY <1>2, <1>3, <1>4, <1>5, <1>6, <1>7 DEF BidTypeOK

LEMMA EmitType ==
    ASSUME BidTypeOK, NEW kind \in Kinds, NEW b \in Bids \cup {NoBid},
           kind \in {"created"} \cup Closings => b \in Bids,
           EmitBidEvent(kind, b), bidState' \in [Bids -> {"none", "open", "closed"}]
    PROVE  /\ BidTypeOK'
           /\ Len(bidLog') = Len(bidLog) + 1
           /\ \A j \in 1 .. Len(bidLog) : bidLog'[j] = bidLog[j]
  <1> USE DEF EmitBidEvent, tableVars
  <1>1. bidLog \in Seq(Entries) /\ [kind |-> kind, bid |-> b] \in Entries
    BY DEF BidTypeOK, Entries, Kinds
  <1>2. bidLog' \in Seq(Entries) /\ Len(bidLog') = Len(bidLog) + 1
    BY <1>1
  <1>3. \A j \in 1 .. Len(bidLog) : bidLog'[j] = bidLog[j]
    BY <1>1
  <1>4. bidLog'[Len(bidLog) + 1] = [kind |-> kind, bid |-> b]
    BY <1>1
  <1>5. \A j \in 1 .. Len(bidLog') :
           bidLog'[j].kind \in {"created"} \cup Closings => bidLog'[j].bid \in Bids
    BY <1>1, <1>2, <1>3, <1>4 DEF BidTypeOK
  <1>6. Len(bidLog) \in Nat /\ mirrored \in 0 .. Len(bidLog')
    BY <1>1, <1>2 DEF BidTypeOK
  <1> QED
    BY <1>2, <1>3, <1>5, <1>6 DEF BidTypeOK

LEMMA MarkBidRows ==
    ASSUME NEW rows \in Seq(Rows), NEW b
    PROVE  /\ MarkBid(rows, b, "executed") \in Seq(Rows)
           /\ Len(MarkBid(rows, b, "executed")) = Len(rows)
           /\ \A n \in 1 .. Len(rows) : MarkBid(rows, b, "executed")[n].bid = rows[n].bid
  <1> DEFINE of == {i \in DOMAIN rows : rows[i].bid = b}
             first == CHOOSE i \in of : \A j \in of : i <= j
  <1>1. CASE of = {}
    BY <1>1 DEF MarkBid
  <1>2. CASE of # {}
    <2>1. MarkBid(rows, b, "executed") = [rows EXCEPT ![first].status = "executed"]
      BY <1>2 DEF MarkBid
    <2> HIDE DEF first
    <2>2. \A n \in 1 .. Len(rows) : rows[n] \in Rows
      OBVIOUS
    <2>3. \A n \in 1 .. Len(rows) : [rows EXCEPT ![first].status = "executed"][n] \in Rows
      BY <2>2 DEF Rows
    <2>4. \A n \in 1 .. Len(rows) :
             [rows EXCEPT ![first].status = "executed"][n].bid = rows[n].bid
      BY <2>2 DEF Rows
    <2> DEFINE marked == [rows EXCEPT ![first].status = "executed"]
    <2>5. marked \in [1 .. Len(rows) -> Rows]
      <3>1. DOMAIN rows = 1 .. Len(rows) /\ rows = [n \in DOMAIN rows |-> rows[n]]
        OBVIOUS
      <3>2. marked = [n \in DOMAIN rows |-> IF n = first THEN [rows[first] EXCEPT !.status = "executed"]
                                             ELSE rows[n]]
        BY <3>1, Zenon
      <3> HIDE DEF marked
      <3>3. marked = [n \in 1 .. Len(rows) |-> marked[n]]
        BY <3>1, <3>2, Zenon
      <3>4. \A n \in 1 .. Len(rows) : marked[n] \in Rows
        BY <2>3 DEF marked
      <3> QED
        BY <3>3, <3>4, Zenon
    <2> HIDE DEF marked
    <2>6. marked \in Seq(Rows) /\ Len(marked) = Len(rows)
      <3>1. Len(rows) \in Nat
        OBVIOUS
      <3> QED
        BY <2>5, <3>1
    <2> QED
      BY <2>1, <2>4, <2>6 DEF marked
  <1> QED
    BY <1>1, <1>2

LEMMA ChainType ==
    ASSUME BidTypeOK, BidChain
    PROVE  /\ BidTypeOK'
           /\ Len(bidLog') = Len(bidLog) + 1
           /\ \A j \in 1 .. Len(bidLog) : bidLog'[j] = bidLog[j]
           /\ UNCHANGED <<wire, mirrored, bidCursor, bidRows, eventRows, scan, swallowed>>
  <1>1. CASE \E b \in Bids : /\ EmitBidEvent("created", b)
                             /\ bidState' = [bidState EXCEPT ![b] = "open"]
    <2>1. PICK b \in Bids : /\ EmitBidEvent("created", b)
                            /\ bidState' = [bidState EXCEPT ![b] = "open"]
      BY <1>1
    <2>2. bidState' \in [Bids -> {"none", "open", "closed"}] /\ "created" \in Kinds
      BY <2>1 DEF BidTypeOK, Kinds
    <2>3. "created" \in {"created"} \cup Closings => b \in Bids
      OBVIOUS
    <2> QED
      BY <2>1, <2>2, <2>3, EmitType DEF EmitBidEvent, tableVars
  <1>2. CASE \E b \in Bids, kind \in Closings : /\ EmitBidEvent(kind, b)
                                                /\ bidState' = [bidState EXCEPT ![b] = "closed"]
    <2>1. PICK b \in Bids, kind \in Closings : /\ EmitBidEvent(kind, b)
                                               /\ bidState' = [bidState EXCEPT ![b] = "closed"]
      BY <1>2
    <2>2. bidState' \in [Bids -> {"none", "open", "closed"}] /\ kind \in Kinds
      BY <2>1 DEF BidTypeOK, Kinds
    <2> QED
      BY <2>1, <2>2, EmitType DEF EmitBidEvent, tableVars
  <1>3. CASE \E kind \in Others : EmitBidEvent(kind, NoBid) /\ UNCHANGED bidState
    <2>1. PICK kind \in Others : EmitBidEvent(kind, NoBid) /\ UNCHANGED bidState
      BY <1>3
    <2>2. kind \in Kinds /\ kind \notin {"created"} \cup Closings
      BY DEF Kinds, Others, Closings
    <2>3. bidState' \in [Bids -> {"none", "open", "closed"}]
      BY <2>1 DEF BidTypeOK
    <2> QED
      BY <2>1, <2>2, <2>3, EmitType DEF EmitBidEvent, tableVars
  <1> QED
    BY <1>1, <1>2, <1>3 DEF BidChain

LEMMA MirrorType ==
    ASSUME BidTypeOK, MirrorCatchesUp
    PROVE  BidTypeOK'
  <1> USE DEF MirrorCatchesUp, bidChainVars, tableVars
  <1>1. mirrored \in Nat /\ mirrored' \in Nat /\ mirrored <= mirrored' /\ Len(bidLog) \in Nat
    BY DEF BidTypeOK
  <1>2. mirrored' \in 0 .. Len(bidLog') /\ bidCursor' \in 0 .. mirrored'
           /\ eventRows' \subseteq 1 .. mirrored'
    BY <1>1 DEF BidTypeOK
  <1>3. scan' \in [Scans -> Memories(mirrored')]
    BY <1>1, MemoriesGrow DEF BidTypeOK
  <1> QED
    BY <1>2, <1>3 DEF BidTypeOK

\* A step of a process keeps what it does not touch, so its memory and the
\* tables are all that has to be looked at.
LEMMA ScanTypes ==
    ASSUME BidTypeOK, UNCHANGED <<bidChainVars, mirrored>>,
           bidFaults' \in Nat, swallowed' \in BOOLEAN,
           bidCursor' \in 0 .. mirrored, bidRows' \in Seq(Rows), eventRows' \subseteq 1 .. mirrored,
           scan' \in [Scans -> Memories(mirrored)]
    PROVE  BidTypeOK'
  BY DEF BidTypeOK, bidChainVars

LEMMA FaultType ==
    ASSUME BidTypeOK, BidFault
    PROVE  bidFaults' \in Nat
  BY DEF BidFault, BidTypeOK

LEMMA IdleMemory ==
    ASSUME NEW n \in Nat
    PROVE  NoScan \in Memories(n)
  <1>1. <<>> \in Seq(Bids) /\ {} \in SUBSET (1 .. n) /\ 0 \in 0 .. n /\ "idle" \in Steps
    BY DEF Steps
  <1> QED
    BY <1>1 DEF NoScan, Memories

LEMMA ExitType ==
    ASSUME BidTypeOK, NEW i \in Scans, Exit(i)
    PROVE  /\ scan' \in [Scans -> Memories(mirrored)]
           /\ scan'[i].pc = "idle"
           /\ \A k \in Scans \ {i} : scan'[k] = scan[k]
  <1>1. mirrored \in Nat
    BY DEF BidTypeOK
  <1> QED
    BY <1>1, IdleMemory DEF BidTypeOK, Exit, NoScan

LEMMA GotoType ==
    ASSUME BidTypeOK, NEW i \in Scans, NEW pc \in Steps, Goto(i, pc)
    PROVE  /\ scan' \in [Scans -> Memories(mirrored)]
           /\ scan'[i] = [scan[i] EXCEPT !.pc = pc]
           /\ \A k \in Scans \ {i} : scan'[k] = scan[k]
  BY DEF BidTypeOK, Goto, Memories

-----------------------------------------------------------------------------
(* What a scan has read is either still in its memory, for the upload that   *)
(* is to come, or in the tables.                                             *)

Handled(m, j) ==
    LET e == bidLog[j]
    IN /\ Decodes(e) /\ e.kind = "created" =>
             IF m.pc \in {"factory", "stash", "bids"}
             THEN \E n \in DOMAIN m.bids : m.bids[n] = e.bid
             ELSE Stored(e.bid)
       /\ Decodes(e) /\ e.kind # "created" =>
             IF m.pc = "cursor" THEN j \in eventRows ELSE j \in m.events
       /\ FromStash(e) /\ m.pc \in {"bids", "events"} => j \in m.events
       /\ FromStash(e) /\ m.pc = "cursor" => j \in eventRows

Sound(m) ==
    m.pc # "idle" =>
        /\ m.from <= m.pos /\ m.top <= m.pos
        /\ \A j \in 1 .. m.from : Recorded(j)
        /\ \A j \in m.from + 1 .. m.pos : Handled(m, j)

\* A scan may start at a cursor that another one has already moved, up or
\* down, so that what is below its own start has to be known to be recorded.
SkipInv ==
    /\ BidTypeOK
    /\ ~swallowed => /\ \A j \in 1 .. bidCursor : Recorded(j)
                     /\ \A i \in Scans : Sound(scan[i])

LEMMA SkipInit == BidScannerInit => SkipInv
  <1> SUFFICES ASSUME BidScannerInit PROVE SkipInv
    OBVIOUS
  <1>1. BidTypeOK
    BY TypeInit
  <1>2. bidCursor = 0 /\ \A i \in Scans : scan[i].pc = "idle"
    BY DEF BidScannerInit, NoScan
  <1>3. \A j \in 1 .. bidCursor : Recorded(j)
    BY <1>2
  <1> QED
    BY <1>1, <1>2, <1>3 DEF SkipInv, Sound

\* Tables and log only grow, so that what is recorded or handled stays so.
LEMMA StaysRecorded ==
    ASSUME BidTypeOK, wire' = wire, \A j \in 1 .. mirrored : bidLog'[j] = bidLog[j],
           eventRows \subseteq eventRows', \A b : Stored(b) => Stored(b)',
           NEW j \in 1 .. mirrored, Recorded(j)
    PROVE  Recorded(j)'
  <1>1. bidLog'[j] = bidLog[j]
    OBVIOUS
  <1>2. (Decodes(bidLog[j]) <=> Decodes(bidLog[j])') /\ (FromStash(bidLog[j]) <=> FromStash(bidLog[j])')
    BY <1>1 DEF Decodes, FromStash
  <1> QED
    BY <1>1, <1>2 DEF Recorded

LEMMA StaysSound ==
    ASSUME BidTypeOK, wire' = wire, \A j \in 1 .. mirrored : bidLog'[j] = bidLog[j],
           eventRows \subseteq eventRows', \A b : Stored(b) => Stored(b)',
           NEW k \in Scans, scan'[k] = scan[k], Sound(scan[k])
    PROVE  Sound(scan[k])'
  <1> SUFFICES ASSUME scan[k].pc # "idle"
               PROVE  /\ scan[k].from <= scan[k].pos /\ scan[k].top <= scan[k].pos
                      /\ \A j \in 1 .. scan[k].from : Recorded(j)'
                      /\ \A j \in scan[k].from + 1 .. scan[k].pos : Handled(scan[k], j)'
    BY DEF Sound
  <1>1. scan[k].from \in 0 .. mirrored /\ scan[k].pos \in 0 .. mirrored /\ mirrored \in Nat
    BY DEF BidTypeOK, Memories
  <1>2. scan[k].from <= scan[k].pos /\ scan[k].top <= scan[k].pos
    BY DEF Sound
  <1>3. ASSUME NEW j \in 1 .. scan[k].from PROVE Recorded(j)'
    <2>1. j \in 1 .. mirrored /\ Recorded(j)
      BY <1>1 DEF Sound
    <2> QED
      BY <2>1, StaysRecorded
  <1>4. ASSUME NEW j \in scan[k].from + 1 .. scan[k].pos PROVE Handled(scan[k], j)'
    <2>1. j \in 1 .. mirrored /\ Handled(scan[k], j)
      BY <1>1 DEF Sound
    <2>2. bidLog'[j] = bidLog[j]
      BY <2>1
    <2>3. (Decodes(bidLog[j]) <=> Decodes(bidLog[j])')
             /\ (FromStash(bidLog[j]) <=> FromStash(bidLog[j])')
      BY <2>2 DEF Decodes, FromStash
    <2> QED
      BY <2>1, <2>2, <2>3 DEF Handled
  <1> QED
    BY <1>2, <1>3, <1>4

\* So only the process that moves, and the cursor, are left to look at.
LEMMA OneMoves ==
    ASSUME SkipInv, BidTypeOK', wire' = wire, \A j \in 1 .. mirrored : bidLog'[j] = bidLog[j],
           eventRows \subseteq eventRows', \A b : Stored(b) => Stored(b)',
           NEW i \in Scans, \A k \in Scans \ {i} : scan'[k] = scan[k],
           swallowed => swallowed',
           ~swallowed' => (\A j \in 1 .. bidCursor' : Recorded(j)') /\ Sound(scan[i])'
    PROVE  SkipInv'
  <1>1. ASSUME ~swallowed', NEW k \in Scans PROVE Sound(scan[k])'
    <2>1. CASE k = i
      BY <1>1, <2>1
    <2>2. CASE k # i
      <3>1. scan'[k] = scan[k] /\ Sound(scan[k]) /\ BidTypeOK
        BY <1>1, <2>2 DEF SkipInv
      <3> QED
        BY <3>1, StaysSound
    <2> QED
      BY <2>1, <2>2
  <1> QED
    BY <1>1 DEF SkipInv

\* Where the cursor stays, what is below it stays recorded.
LEMMA CursorStays ==
    ASSUME SkipInv, ~swallowed, wire' = wire, \A j \in 1 .. mirrored : bidLog'[j] = bidLog[j],
           eventRows \subseteq eventRows', \A b : Stored(b) => Stored(b)', bidCursor' = bidCursor
    PROVE  \A j \in 1 .. bidCursor' : Recorded(j)'
  <1> TAKE j \in 1 .. bidCursor'
  <1>1. j \in 1 .. mirrored /\ BidTypeOK /\ Recorded(j)
    BY DEF SkipInv, BidTypeOK
  <1> QED
    BY <1>1, StaysRecorded

-----------------------------------------------------------------------------
(* Every step.                                                               *)

LEMMA StartSkipsNothing ==
    ASSUME SkipInv, NEW i \in Scans, StartBidScan(i)
    PROVE  SkipInv'
  <1> USE DEF bidChainVars, tableVars
  <1>1. BidTypeOK /\ mirrored \in Nat /\ bidCursor \in 0 .. mirrored
    BY DEF SkipInv, BidTypeOK
  <1>2. PICK from \in {0, bidCursor} :
           /\ IF from = bidCursor THEN UNCHANGED bidFaults ELSE BidFault
           /\ scan' = [scan EXCEPT ![i] = [NoScan EXCEPT !.pc = "factory",
                                                        !.from = from, !.pos = from]]
    BY DEF StartBidScan, CursorRead
  <1>3. UNCHANGED <<bidChainVars, mirrored, tableVars, swallowed>>
    BY DEF StartBidScan
  <1> DEFINE m == [NoScan EXCEPT !.pc = "factory", !.from = from, !.pos = from]
  <1>4. m \in Memories(mirrored)
    <2>1. from \in 0 .. mirrored /\ "factory" \in Steps /\ NoScan \in Memories(mirrored)
      BY <1>1, IdleMemory DEF Steps
    <2> QED
      BY <2>1 DEF Memories
  <1>5. m.from = from /\ m.pos = from /\ m.top = 0
    BY DEF NoScan
  <1> HIDE DEF m
  <1>6. scan' = [scan EXCEPT ![i] = m] /\ scan \in [Scans -> Memories(mirrored)]
    BY <1>1, <1>2 DEF m, BidTypeOK
  <1>7. scan' \in [Scans -> Memories(mirrored)] /\ scan'[i] = m
           /\ \A k \in Scans \ {i} : scan'[k] = scan[k]
    BY <1>4, <1>6
  <1>8. bidFaults' \in Nat
    BY <1>1, <1>2, FaultType DEF BidTypeOK
  <1>9. BidTypeOK'
    <2>1. bidCursor' \in 0 .. mirrored /\ bidRows' \in Seq(Rows) /\ eventRows' \subseteq 1 .. mirrored
             /\ swallowed' \in BOOLEAN /\ UNCHANGED <<bidChainVars, mirrored>>
      BY <1>1, <1>3 DEF BidTypeOK
    <2> QED
      BY <1>1, <1>7, <1>8, <2>1, ScanTypes
  <1>10. wire' = wire /\ (\A j \in 1 .. mirrored : bidLog'[j] = bidLog[j])
            /\ eventRows \subseteq eventRows' /\ (\A b : Stored(b) => Stored(b)')
            /\ bidCursor' = bidCursor /\ swallowed' = swallowed
    BY <1>3 DEF Stored
  <1>11. ASSUME ~swallowed' PROVE (\A j \in 1 .. bidCursor' : Recorded(j)') /\ Sound(scan[i])'
    <2>1. \A j \in 1 .. bidCursor' : Recorded(j)'
      BY <1>10, <1>11, CursorStays
    <2>2. \A j \in 1 .. from : Recorded(j)'
      BY <1>1, <1>10, <2>1
    <2>3. \A j \in from + 1 .. from : FALSE
      BY <1>1
    <2>4. m.from <= m.pos /\ m.top <= m.pos
      BY <1>1, <1>5
    <2> QED
      BY <1>5, <1>7, <2>1, <2>2, <2>3, <2>4 DEF Sound
  <1> QED
    BY <1>7, <1>9, <1>10, <1>11, OneMoves

\* A process that stops leaves nothing to look at.
LEMMA ExitSkipsNothing ==
    ASSUME SkipInv, NEW i \in Scans, Exit(i), bidFaults' \in Nat,
           UNCHANGED <<bidChainVars, mirrored, bidRows, eventRows, swallowed>>,
           bidCursor' \in 0 .. mirrored,
           ~swallowed => \A j \in 1 .. bidCursor' : Recorded(j)
    PROVE  SkipInv'
  <1> USE DEF bidChainVars
  <1>1. BidTypeOK
    BY DEF SkipInv
  <1>2. scan' \in [Scans -> Memories(mirrored)] /\ scan'[i].pc = "idle"
           /\ \A k \in Scans \ {i} : scan'[k] = scan[k]
    BY <1>1, ExitType
  <1>3. BidTypeOK'
    <2>1. bidRows' \in Seq(Rows) /\ eventRows' \subseteq 1 .. mirrored /\ swallowed' \in BOOLEAN
      BY <1>1 DEF BidTypeOK
    <2> QED
      BY <1>1, <1>2, <2>1, ScanTypes
  <1>4. wire' = wire /\ (\A j \in 1 .. mirrored : bidLog'[j] = bidLog[j])
           /\ eventRows \subseteq eventRows' /\ (\A b : Stored(b) => Stored(b)')
    BY DEF Stored
  <1>5. ASSUME ~swallowed' PROVE (\A j \in 1 .. bidCursor' : Recorded(j)') /\ Sound(scan[i])'
    <2>1. \A j \in 1 .. bidCursor' : j \in 1 .. mirrored /\ Recorded(j)
      BY <1>1, <1>5 DEF BidTypeOK
    <2>2. \A j \in 1 .. bidCursor' : Recorded(j)'
      BY <1>1, <1>4, <2>1, StaysRecorded
    <2> QED
      BY <1>2, <2>2 DEF Sound
  <1> QED
    BY <1>2, <1>3, <1>4, <1>5, OneMoves

\* A step within a scan: what it has read so far has to be handled after it.
LEMMA StepSkipsNothing ==
    ASSUME SkipInv, NEW i \in Scans, scan[i].pc # "idle",
           NEW m \in Memories(mirrored), scan' = [scan EXCEPT ![i] = m],
           m.from = scan[i].from,
           UNCHANGED <<bidChainVars, mirrored, bidCursor>>,
           bidRows' \in Seq(Rows), \A b : Stored(b) => Stored(b)',
           eventRows \subseteq eventRows', eventRows' \subseteq 1 .. mirrored,
           bidFaults' \in Nat, swallowed' \in BOOLEAN, swallowed => swallowed',
           ~swallowed' => /\ m.from <= m.pos /\ m.top <= m.pos
                          /\ \A j \in m.from + 1 .. m.pos : Handled(m, j)'
    PROVE  SkipInv'
  <1> USE DEF bidChainVars
  <1>1. BidTypeOK /\ mirrored \in Nat /\ bidCursor \in 0 .. mirrored
           /\ scan \in [Scans -> Memories(mirrored)]
    BY DEF SkipInv, BidTypeOK
  <1>2. scan' \in [Scans -> Memories(mirrored)] /\ scan'[i] = m
           /\ \A k \in Scans \ {i} : scan'[k] = scan[k]
    BY <1>1
  <1>3. BidTypeOK'
    BY <1>1, <1>2, ScanTypes
  <1>4. wire' = wire /\ (\A j \in 1 .. mirrored : bidLog'[j] = bidLog[j]) /\ bidCursor' = bidCursor
    OBVIOUS
  <1>5. ASSUME ~swallowed' PROVE (\A j \in 1 .. bidCursor' : Recorded(j)') /\ Sound(scan[i])'
    <2>1. ~swallowed
      BY <1>5
    <2>2. \A j \in 1 .. bidCursor' : Recorded(j)'
      BY <1>4, <2>1, CursorStays
    <2>3. \A j \in 1 .. m.from : j \in 1 .. mirrored /\ Recorded(j)
      BY <1>1, <2>1 DEF SkipInv, Sound, Memories
    <2>4. \A j \in 1 .. m.from : Recorded(j)'
      BY <1>1, <1>4, <2>3, StaysRecorded
    <2> QED
      BY <1>2, <1>5, <2>2, <2>4 DEF Sound
  <1> QED
    BY <1>2, <1>3, <1>4, <1>5, OneMoves

\* The facts about a process in the middle of a scan that every step uses.
LEMMA ScanFacts ==
    ASSUME SkipInv, NEW i \in Scans, scan[i].pc # "idle"
    PROVE  /\ BidTypeOK /\ mirrored \in Nat /\ scan \in [Scans -> Memories(mirrored)]
           /\ scan[i] \in Memories(mirrored)
           /\ bidRows \in Seq(Rows) /\ eventRows \subseteq 1 .. mirrored
           /\ bidFaults \in Nat /\ swallowed \in BOOLEAN
           /\ ~swallowed => /\ scan[i].from <= scan[i].pos /\ scan[i].top <= scan[i].pos
                            /\ \A j \in 1 .. scan[i].from : Recorded(j)
                            /\ \A j \in scan[i].from + 1 .. scan[i].pos : Handled(scan[i], j)
  BY DEF SkipInv, BidTypeOK, Sound

LEMMA EndFactoryScanSkipsNothing ==
    ASSUME SkipInv, NEW i \in Scans, EndFactoryScan(i)
    PROVE  SkipInv'
  <1>1. scan[i].pc = "factory" /\ UNCHANGED <<bidChainVars, mirrored, tableVars, bidFaults, swallowed>>
    BY DEF EndFactoryScan
  <1>2. BidTypeOK /\ scan[i] \in Memories(mirrored) /\ scan \in [Scans -> Memories(mirrored)]
    BY <1>1, ScanFacts
  <1> DEFINE next == [scan[i] EXCEPT !.pc = "stash"]
  <1>3. next \in Memories(mirrored) /\ next.pc = "stash" /\ next.from = scan[i].from
           /\ next.pos = scan[i].pos /\ next.top = scan[i].top /\ next.bids = scan[i].bids
           /\ next.events = scan[i].events
    BY <1>2 DEF Memories, Steps
  <1>4. scan' = [scan EXCEPT ![i] = next]
    BY <1>2 DEF EndFactoryScan, Goto
  <1> HIDE DEF next
  <1>5. PICK m \in Memories(mirrored) : m = next
    BY <1>3
  <1>6. ASSUME ~swallowed', NEW j \in m.from + 1 .. m.pos PROVE Handled(m, j)'
    <2>1. Handled(scan[i], j)
      BY <1>1, <1>3, <1>5, <1>6, ScanFacts
    <2> QED
      BY <1>1, <1>3, <1>5, <2>1 DEF Handled, Decodes, FromStash, Stored, bidChainVars, tableVars
  <1>7. \A b : Stored(b) => Stored(b)'
    BY <1>1 DEF Stored, tableVars
  <1>8. ~swallowed' => m.from <= m.pos /\ m.top <= m.pos
    BY <1>1, <1>3, <1>5, ScanFacts
  <1> QED
    BY <1>1, <1>3, <1>4, <1>5, <1>6, <1>7, <1>8, ScanFacts, StepSkipsNothing DEF tableVars

LEMMA ScanStashesSkipsNothing ==
    ASSUME SkipInv, NEW i \in Scans, ScanStashes(i)
    PROVE  SkipInv'
  <1>1. scan[i].pc = "stash" /\ UNCHANGED <<bidChainVars, mirrored, tableVars>>
    BY DEF ScanStashes
  <1>2. BidTypeOK /\ mirrored \in Nat /\ scan[i] \in Memories(mirrored)
           /\ scan \in [Scans -> Memories(mirrored)]
    BY <1>1, ScanFacts
  <1>3. PICK to \in scan[i].from .. mirrored :
           /\ scan' = [scan EXCEPT ![i].pc = "bids",
                                   ![i].events = @ \cup StashEntries(scan[i].from, to)]
           /\ IF to = mirrored THEN UNCHANGED <<bidFaults, swallowed>>
                               ELSE BidFault /\ swallowed' = TRUE
    BY DEF ScanStashes
  <1> DEFINE found == StashEntries(scan[i].from, to)
             next == [scan[i] EXCEPT !.pc = "bids", !.events = @ \cup found]
  <1>4. found \subseteq 1 .. mirrored
    BY <1>2 DEF StashEntries, Memories
  <1> HIDE DEF found
  <1>5. next \in Memories(mirrored) /\ next.pc = "bids" /\ next.from = scan[i].from
           /\ next.pos = scan[i].pos /\ next.top = scan[i].top /\ next.bids = scan[i].bids
           /\ next.events = scan[i].events \cup found
    BY <1>2, <1>4 DEF Memories, Steps
  <1>6. scan' = [scan EXCEPT ![i] = next]
    BY <1>2, <1>3 DEF found
  <1> HIDE DEF next
  <1>7. PICK m \in Memories(mirrored) : m = next
    BY <1>5
  <1>8. bidFaults' \in Nat /\ swallowed' \in BOOLEAN /\ (swallowed => swallowed')
           /\ (~swallowed' => to = mirrored)
    BY <1>1, <1>2, <1>3, FaultType, ScanFacts
  <1>9. ASSUME ~swallowed', NEW j \in m.from + 1 .. m.pos PROVE Handled(m, j)'
    <2>1. Handled(scan[i], j) /\ j \in scan[i].from + 1 .. mirrored
      BY <1>1, <1>2, <1>5, <1>7, <1>8, <1>9, ScanFacts DEF Memories
    <2>2. FromStash(bidLog[j]) => j \in found
      BY <1>8, <1>9, <2>1 DEF found, StashEntries
    <2> QED
      BY <1>1, <1>5, <1>7, <2>1, <2>2
      DEF Handled, Decodes, FromStash, Stored, bidChainVars, tableVars
  <1>10. \A b : Stored(b) => Stored(b)'
    BY <1>1 DEF Stored, tableVars
  <1>11. ~swallowed' => m.from <= m.pos /\ m.top <= m.pos
    BY <1>1, <1>5, <1>7, <1>8, ScanFacts
  <1> QED
    BY <1>1, <1>5, <1>6, <1>7, <1>8, <1>9, <1>10, <1>11, ScanFacts, StepSkipsNothing DEF tableVars

LEMMA Appended ==
    ASSUME NEW S, NEW s \in Seq(S), NEW t \in Seq(S)
    PROVE  /\ s \o t \in Seq(S) /\ Len(s \o t) = Len(s) + Len(t)
           /\ \A n \in 1 .. Len(s) : (s \o t)[n] = s[n]
           /\ \A n \in 1 .. Len(t) : (s \o t)[Len(s) + n] = t[n]
  <1>1. Len(s) \in Nat /\ Len(t) \in Nat
    OBVIOUS
  <1>2. s \o t \in Seq(S)
    OBVIOUS
  <1>3. Len(s \o t) = Len(s) + Len(t)
    OBVIOUS
  <1>4. \A n \in 1 .. Len(s) : (s \o t)[n] = s[n]
    OBVIOUS
  <1>5. \A n \in 1 .. Len(t) : (s \o t)[Len(s) + n] = t[n]
    BY <1>1
  <1> QED
    BY <1>2, <1>3, <1>4, <1>5

LEMMA UploadBidsSkipsNothing ==
    ASSUME SkipInv, NEW i \in Scans, UploadBids(i)
    PROVE  SkipInv'
  <1>1. scan[i].pc = "bids" /\ UNCHANGED <<bidChainVars, mirrored, bidCursor, eventRows>>
    BY DEF UploadBids
  <1>2. BidTypeOK /\ mirrored \in Nat /\ scan[i] \in Memories(mirrored)
           /\ scan \in [Scans -> Memories(mirrored)] /\ bidRows \in Seq(Rows)
    BY <1>1, ScanFacts
  <1>3. PICK sent \in 0 .. Len(scan[i].bids) :
           /\ bidRows' = bidRows \o [n \in 1 .. sent |->
                                        [bid |-> scan[i].bids[n], status |-> "active"]]
           /\ IF sent = Len(scan[i].bids) THEN UNCHANGED <<bidFaults, swallowed>>
                                          ELSE BidFault /\ swallowed' = TRUE
    BY DEF UploadBids
  <1> DEFINE next == [scan[i] EXCEPT !.pc = "events"]
             added == [n \in 1 .. sent |-> [bid |-> scan[i].bids[n], status |-> "active"]]
  <1>4. next \in Memories(mirrored) /\ next.pc = "events" /\ next.from = scan[i].from
           /\ next.pos = scan[i].pos /\ next.top = scan[i].top /\ next.events = scan[i].events
    BY <1>2 DEF Memories, Steps
  <1>5. scan' = [scan EXCEPT ![i] = next]
    BY <1>2 DEF UploadBids, Goto
  <1> HIDE DEF next
  <1>6. PICK m \in Memories(mirrored) : m = next
    BY <1>4
  <1>7. bidFaults' \in Nat /\ swallowed' \in BOOLEAN /\ (swallowed => swallowed')
           /\ (~swallowed' => sent = Len(scan[i].bids))
    BY <1>1, <1>2, <1>3, FaultType, ScanFacts
  <1>8. scan[i].bids \in Seq(Bids) /\ Len(scan[i].bids) \in Nat /\ sent \in Nat
    BY <1>2, <1>3 DEF Memories
  <1>9. added \in Seq(Rows) /\ Len(added) = sent
    <2>1. \A n \in 1 .. sent : [bid |-> scan[i].bids[n], status |-> "active"] \in Rows
      BY <1>3, <1>8 DEF Rows
    <2> QED
      BY <1>8, <2>1
  <1>10. bidRows' = bidRows \o added
    BY <1>3
  <1> HIDE DEF added
  <1>11. /\ bidRows' \in Seq(Rows) /\ Len(bidRows') = Len(bidRows) + sent
         /\ \A n \in 1 .. Len(bidRows) : bidRows'[n] = bidRows[n]
         /\ \A n \in 1 .. sent : bidRows'[Len(bidRows) + n] = added[n]
    <2>1. /\ bidRows \o added \in Seq(Rows)
          /\ Len(bidRows \o added) = Len(bidRows) + Len(added)
          /\ \A n \in 1 .. Len(bidRows) : (bidRows \o added)[n] = bidRows[n]
          /\ \A n \in 1 .. Len(added) : (bidRows \o added)[Len(bidRows) + n] = added[n]
      <3>1. bidRows \in Seq(Rows) /\ added \in Seq(Rows)
        BY <1>2, <1>9
      <3> QED
        BY <3>1, Appended
    <2> QED
      BY <1>9, <1>10, <2>1, Zenon
  <1>12. \A b : Stored(b) => Stored(b)'
    BY <1>2, <1>8, <1>11 DEF Stored
  <1>13. ASSUME NEW n \in 1 .. sent, NEW b, b = scan[i].bids[n] PROVE Stored(b)'
    <2>1. Len(bidRows) + n \in 1 .. Len(bidRows') /\ added[n].bid = scan[i].bids[n]
      BY <1>2, <1>8, <1>11 DEF added
    <2>2. Len(bidRows) + n \in DOMAIN bidRows' /\ bidRows'[Len(bidRows) + n].bid = scan[i].bids[n]
      BY <1>11, <2>1
    <2> QED
      BY <1>13, <2>2 DEF Stored
  <1>14. ASSUME ~swallowed', NEW j \in m.from + 1 .. m.pos PROVE Handled(m, j)'
    <2>1. Handled(scan[i], j)
      BY <1>1, <1>4, <1>6, <1>7, <1>14, ScanFacts
    <2>2. ASSUME Decodes(bidLog[j]), bidLog[j].kind = "created" PROVE Stored(bidLog[j].bid)'
      <3>1. PICK n \in DOMAIN scan[i].bids : scan[i].bids[n] = bidLog[j].bid
        BY <1>1, <2>1, <2>2 DEF Handled
      <3>2. n \in 1 .. sent
        BY <1>7, <1>8, <1>14
      <3>3. PICK b : b = scan[i].bids[n]
        OBVIOUS
      <3>4. Stored(b)' /\ bidLog' = bidLog
        BY <1>1, <1>13, <3>2, <3>3 DEF bidChainVars
      <3> QED
        BY <3>1, <3>3, <3>4 DEF Stored
    <2>3. bidLog' = bidLog /\ eventRows' = eventRows /\ wire' = wire
      BY <1>1 DEF bidChainVars
    <2> QED
      BY <1>1, <1>4, <1>6, <2>1, <2>2, <2>3 DEF Handled, Decodes, FromStash, Stored
  <1>15. ~swallowed' => m.from <= m.pos /\ m.top <= m.pos
    BY <1>1, <1>4, <1>6, <1>7, ScanFacts
  <1> QED
    BY <1>1, <1>4, <1>5, <1>6, <1>7, <1>11, <1>12, <1>14, <1>15, ScanFacts, StepSkipsNothing

LEMMA UploadEventsSkipsNothing ==
    ASSUME SkipInv, NEW i \in Scans, UploadEvents(i)
    PROVE  SkipInv'
  <1>1. scan[i].pc = "events" /\ UNCHANGED <<bidChainVars, mirrored, bidCursor, bidRows>>
    BY DEF UploadEvents
  <1>2. BidTypeOK /\ mirrored \in Nat /\ scan[i] \in Memories(mirrored)
           /\ scan \in [Scans -> Memories(mirrored)] /\ eventRows \subseteq 1 .. mirrored
    BY <1>1, ScanFacts
  <1>3. \/ eventRows' = eventRows \cup scan[i].events /\ UNCHANGED <<bidFaults, swallowed>>
        \/ BidFault /\ swallowed' = TRUE /\ UNCHANGED eventRows
    BY DEF UploadEvents
  <1> DEFINE next == [scan[i] EXCEPT !.pc = "cursor"]
  <1>4. next \in Memories(mirrored) /\ next.pc = "cursor" /\ next.from = scan[i].from
           /\ next.pos = scan[i].pos /\ next.top = scan[i].top
    BY <1>2 DEF Memories, Steps
  <1>5. scan' = [scan EXCEPT ![i] = next]
    BY <1>2 DEF UploadEvents, Goto
  <1> HIDE DEF next
  <1>6. PICK m \in Memories(mirrored) : m = next
    BY <1>4
  <1>7. bidFaults' \in Nat /\ swallowed' \in BOOLEAN /\ (swallowed => swallowed')
           /\ (~swallowed' => eventRows' = eventRows \cup scan[i].events)
    <2>1. bidFaults \in Nat /\ swallowed \in BOOLEAN
      BY <1>1, ScanFacts
    <2>2. CASE eventRows' = eventRows \cup scan[i].events /\ UNCHANGED <<bidFaults, swallowed>>
      BY <2>1, <2>2
    <2>3. CASE BidFault /\ swallowed' = TRUE
      BY <1>2, <2>3, FaultType
    <2> QED
      BY <1>3, <2>2, <2>3
  <1>8. eventRows \subseteq eventRows' /\ eventRows' \subseteq 1 .. mirrored
    BY <1>2, <1>3 DEF Memories
  <1>9. ASSUME ~swallowed', NEW j \in m.from + 1 .. m.pos PROVE Handled(m, j)'
    <2>1. Handled(scan[i], j)
      BY <1>1, <1>4, <1>6, <1>7, <1>9, ScanFacts
    <2>2. bidLog' = bidLog /\ bidRows' = bidRows /\ wire' = wire
      BY <1>1 DEF bidChainVars
    <2> QED
      BY <1>1, <1>4, <1>6, <1>7, <1>9, <2>1, <2>2 DEF Handled, Decodes, FromStash, Stored
  <1>10. (\A b : Stored(b) => Stored(b)') /\ bidRows' \in Seq(Rows)
    BY <1>1, ScanFacts DEF Stored
  <1>11. ~swallowed' => m.from <= m.pos /\ m.top <= m.pos
    BY <1>1, <1>4, <1>6, <1>7, ScanFacts
  <1> QED
    BY <1>1, <1>4, <1>5, <1>6, <1>7, <1>8, <1>9, <1>10, <1>11, ScanFacts, StepSkipsNothing

\* The last step moves the cursor to what the scan has read with data: all of
\* it is in the tables by then.
LEMMA PostBidCursorSkipsNothing ==
    ASSUME SkipInv, NEW i \in Scans, PostBidCursor(i)
    PROVE  SkipInv'
  <1>1. scan[i].pc = "cursor" /\ Exit(i)
           /\ UNCHANGED <<bidChainVars, mirrored, bidRows, eventRows, swallowed>>
    BY DEF PostBidCursor
  <1>2. BidTypeOK /\ mirrored \in Nat /\ scan[i] \in Memories(mirrored)
    BY <1>1, ScanFacts
  <1>3. bidCursor' = scan[i].top \/ bidCursor' = bidCursor
    BY DEF PostBidCursor
  <1>4. bidFaults' \in Nat /\ bidCursor' \in 0 .. mirrored
    BY <1>1, <1>2, <1>3, FaultType DEF PostBidCursor, BidTypeOK, Memories
  <1>5. ASSUME ~swallowed PROVE \A j \in 1 .. bidCursor' : Recorded(j)
    <2>1. CASE bidCursor' = bidCursor
      BY <1>5, <2>1 DEF SkipInv
    <2>2. CASE bidCursor' = scan[i].top
      <3> TAKE j \in 1 .. bidCursor'
      <3>1. scan[i].top \in Nat /\ scan[i].pos \in Nat /\ scan[i].from \in Nat
               /\ scan[i].top <= scan[i].pos
        BY <1>1, <1>2, <1>5, ScanFacts DEF Memories
      <3>2. CASE j \in 1 .. scan[i].from
        BY <1>1, <1>5, <3>2, ScanFacts
      <3>3. CASE j \in scan[i].from + 1 .. scan[i].pos
        <4>1. Handled(scan[i], j)
          BY <1>1, <1>5, <3>3, ScanFacts
        <4> QED
          BY <1>1, <4>1 DEF Handled, Recorded
      <3> QED
        BY <2>2, <3>1, <3>2, <3>3
    <2> QED
      BY <1>3, <2>1, <2>2
  <1> QED
    BY <1>1, <1>4, <1>5, ExitSkipsNothing

LEMMA BidScanFailsSkipsNothing ==
    ASSUME SkipInv, NEW i \in Scans, BidScanFails(i)
    PROVE  SkipInv'
  <1>1. Exit(i) /\ BidFault /\ BidTypeOK
           /\ UNCHANGED <<bidChainVars, mirrored, tableVars, swallowed>>
    BY DEF BidScanFails, SkipInv
  <1>2. bidFaults' \in Nat /\ bidCursor' \in 0 .. mirrored
    BY <1>1, FaultType DEF BidTypeOK, tableVars
  <1>3. ~swallowed => \A j \in 1 .. bidCursor' : Recorded(j)
    BY <1>1 DEF SkipInv, tableVars
  <1> QED
    BY <1>1, <1>2, <1>3, ExitSkipsNothing DEF tableVars

\* An entry that is in the interface goes into the memory of the scan.
LEMMA RecordSkipsNothing ==
    ASSUME SkipInv, NEW i \in Scans, scan[i].pc = "factory", scan[i].pos < mirrored,
           Record(i, bidLog[scan[i].pos + 1]), ~FromStash(bidLog[scan[i].pos + 1]),
           UNCHANGED <<bidChainVars, mirrored, bidCursor, eventRows>>,
           bidRows' \in Seq(Rows), \A b : Stored(b) => Stored(b)',
           bidFaults' \in Nat, swallowed' \in BOOLEAN, swallowed => swallowed'
    PROVE  SkipInv'
  <1>1. BidTypeOK /\ mirrored \in Nat /\ scan[i] \in Memories(mirrored)
           /\ scan \in [Scans -> Memories(mirrored)] /\ bidLog \in Seq(Entries)
           /\ scan[i].from \in 0 .. mirrored /\ scan[i].pos \in 0 .. mirrored
           /\ mirrored \in 0 .. Len(bidLog)
    BY ScanFacts DEF BidTypeOK, Memories
  <1>2. PICK at \in 1 .. mirrored : at = scan[i].pos + 1
    BY <1>1
  <1>3. PICK e \in Entries : e = bidLog[at]
    BY <1>1, <1>2
  <1>4. e.kind = "created" => e.bid \in Bids
    BY <1>1, <1>2, <1>3 DEF BidTypeOK, Closings
  <1> DEFINE bids == IF e.kind = "created" THEN Append(scan[i].bids, e.bid) ELSE scan[i].bids
             events == IF e.kind = "created" THEN scan[i].events ELSE scan[i].events \cup {at}
             next == [scan[i] EXCEPT !.pos = at, !.top = at, !.bids = bids, !.events = events]
  <1>5. bids \in Seq(Bids) /\ events \subseteq 1 .. mirrored
    BY <1>1, <1>2, <1>4 DEF Memories
  <1>6. /\ \A n \in DOMAIN scan[i].bids : n \in DOMAIN bids /\ bids[n] = scan[i].bids[n]
        /\ e.kind = "created" => \E n \in DOMAIN bids : bids[n] = e.bid
    <2>1. scan[i].bids \in Seq(Bids)
      BY <1>1 DEF Memories
    <2>2. CASE e.kind = "created"
      <3>1. Len(scan[i].bids) \in Nat /\ Len(bids) = Len(scan[i].bids) + 1
               /\ bids[Len(scan[i].bids) + 1] = e.bid
               /\ \A n \in 1 .. Len(scan[i].bids) : bids[n] = scan[i].bids[n]
        BY <1>4, <2>1, <2>2
      <3>2. DOMAIN scan[i].bids = 1 .. Len(scan[i].bids) /\ DOMAIN bids = 1 .. Len(bids)
        BY <1>5, <2>1
      <3> QED
        BY <3>1, <3>2
    <2> QED
      BY <2>2
  <1> HIDE DEF bids, events
  <1>7. next \in Memories(mirrored) /\ next.pc = "factory" /\ next.from = scan[i].from
           /\ next.pos = at /\ next.top = at /\ next.bids = bids /\ next.events = events
    <2>1. at \in 0 .. mirrored /\ scan[i] \in Memories(mirrored)
      BY <1>1, <1>2
    <2>2. next \in Memories(mirrored)
      BY <1>5, <2>1 DEF Memories
    <2>3. next.pc = scan[i].pc /\ next.from = scan[i].from /\ next.pos = at /\ next.top = at
             /\ next.bids = bids /\ next.events = events
      BY <2>1 DEF Memories
    <2> QED
      BY <2>2, <2>3
  <1>8. scan' = [scan EXCEPT ![i] = next]
    BY <1>1, <1>2, <1>3 DEF Record, bids, events
  <1> HIDE DEF next
  <1>9. PICK m \in Memories(mirrored) : m = next
    BY <1>7
  <1>10. bidLog' = bidLog /\ wire' = wire /\ eventRows' = eventRows /\ eventRows \subseteq 1 .. mirrored
    BY <1>1 DEF bidChainVars, BidTypeOK
  <1>11. ASSUME ~swallowed' PROVE m.from <= m.pos /\ m.top <= m.pos
    <2>1. scan[i].from <= scan[i].pos
      BY <1>11, ScanFacts
    <2>2. m.from = scan[i].from /\ m.pos = scan[i].pos + 1 /\ m.top <= m.pos
      BY <1>1, <1>2, <1>7, <1>9
    <2> QED
      BY <1>1, <2>1, <2>2 DEF Memories
  <1>12. ASSUME ~swallowed', NEW j \in m.from + 1 .. m.pos PROVE Handled(m, j)'
    <2>1. CASE j = at
      BY <1>3, <1>6, <1>7, <1>9, <1>10, <2>1, <1>2 DEF Handled, Decodes, FromStash, events
    <2>2. CASE j # at
      <3>1. Handled(scan[i], j)
        BY <1>1, <1>2, <1>7, <1>9, <1>12, <2>2, ScanFacts, SMTT(20)
      <3>2. scan[i].events \subseteq events
        BY DEF events
      <3> QED
        BY <1>6, <1>7, <1>9, <1>10, <3>1, <3>2 DEF Handled, Decodes, FromStash
    <2> QED
      BY <2>1, <2>2
  <1> QED
    BY <1>1, <1>7, <1>8, <1>9, <1>10, <1>11, <1>12, StepSkipsNothing

\* One that is not leaves no trace, and the scan goes on behind it.
LEMMA SkippedEntry ==
    ASSUME SkipInv, NEW i \in Scans, scan[i].pc = "factory", scan[i].pos < mirrored,
           Skip(i), FromStash(bidLog[scan[i].pos + 1]) \/ NoData(bidLog[scan[i].pos + 1]),
           UNCHANGED <<bidChainVars, mirrored, tableVars, bidFaults, swallowed>>
    PROVE  SkipInv'
  <1> USE DEF bidChainVars, tableVars
  <1>1. BidTypeOK /\ mirrored \in Nat /\ scan[i] \in Memories(mirrored)
           /\ scan \in [Scans -> Memories(mirrored)]
           /\ scan[i].from \in 0 .. mirrored /\ scan[i].pos \in 0 .. mirrored
           /\ bidRows \in Seq(Rows) /\ eventRows \subseteq 1 .. mirrored
           /\ bidFaults \in Nat /\ swallowed \in BOOLEAN
    BY ScanFacts DEF Memories
  <1>2. PICK at \in 1 .. mirrored : at = scan[i].pos + 1
    BY <1>1
  <1> DEFINE next == [scan[i] EXCEPT !.pos = at]
  <1>3. next \in Memories(mirrored) /\ next.pc = "factory" /\ next.from = scan[i].from
           /\ next.pos = at /\ next.top = scan[i].top /\ next.bids = scan[i].bids
           /\ next.events = scan[i].events
    <2>1. at \in 0 .. mirrored /\ scan[i] \in Memories(mirrored)
      BY <1>1, <1>2
    <2>2. next \in Memories(mirrored)
      BY <2>1 DEF Memories
    <2>3. next.pc = scan[i].pc /\ next.from = scan[i].from /\ next.pos = at
             /\ next.top = scan[i].top /\ next.bids = scan[i].bids /\ next.events = scan[i].events
      BY <2>1 DEF Memories
    <2> QED
      BY <2>2, <2>3
  <1>4. scan' = [scan EXCEPT ![i] = next]
    BY <1>1, <1>2 DEF Skip
  <1> HIDE DEF next
  <1>5. PICK m \in Memories(mirrored) : m = next
    BY <1>3
  <1>6. \A b : Stored(b) => Stored(b)'
    BY DEF Stored
  <1>7. ASSUME ~swallowed' PROVE m.from <= m.pos /\ m.top <= m.pos
    <2>1. scan[i].from <= scan[i].pos /\ scan[i].top <= scan[i].pos
      BY <1>7, ScanFacts
    <2>2. scan[i].top \in Nat
      BY <1>1 DEF Memories
    <2> QED
      BY <1>1, <1>2, <1>3, <1>5, <2>1, <2>2
  <1>8. ASSUME ~swallowed', NEW j \in m.from + 1 .. m.pos PROVE Handled(m, j)'
    <2>1. CASE j = at
      <3>1. ~Decodes(bidLog[j])
        BY <1>2, <2>1 DEF Decodes, FromStash, NoData
      <3> QED
        BY <1>3, <1>5, <3>1 DEF Handled, Decodes, FromStash
    <2>2. CASE j # at
      <3>1. Handled(scan[i], j)
        BY <1>1, <1>2, <1>3, <1>5, <1>8, <2>2, ScanFacts
      <3> QED
        BY <1>3, <1>5, <3>1 DEF Handled, Decodes, FromStash
    <2> QED
      BY <2>1, <2>2
  <1> QED
    BY <1>1, <1>3, <1>4, <1>5, <1>6, <1>7, <1>8, StepSkipsNothing

LEMMA ReadBidEntrySkipsNothing ==
    ASSUME SkipInv, NEW i \in Scans, ReadBidEntry(i)
    PROVE  SkipInv'
  <1> DEFINE e == bidLog[scan[i].pos + 1]
  <1>1. scan[i].pc = "factory" /\ scan[i].pos < mirrored
           /\ UNCHANGED <<bidChainVars, mirrored, bidCursor, eventRows>>
    BY DEF ReadBidEntry
  <1>2. BidTypeOK /\ bidRows \in Seq(Rows) /\ bidFaults \in Nat /\ swallowed \in BOOLEAN
           /\ bidCursor \in 0 .. mirrored
    BY <1>1, ScanFacts DEF BidTypeOK
  <1>3. CASE (FromStash(e) \/ NoData(e)) /\ Skip(i) /\ UNCHANGED <<bidRows, bidFaults, swallowed>>
    BY <1>1, <1>3, SkippedEntry DEF tableVars
  <1>4. CASE Exit(i) /\ UNCHANGED <<bidRows, bidFaults, swallowed>>
    BY <1>1, <1>2, <1>4, ExitSkipsNothing DEF SkipInv
  <1>5. CASE /\ ~FromStash(e) /\ Decodes(e) /\ Record(i, e)
             /\ bidRows' = IF e.kind = "executed" THEN MarkBid(bidRows, e.bid, e.kind) ELSE bidRows
             /\ UNCHANGED <<bidFaults, swallowed>>
    <2>1. bidRows' = MarkBid(bidRows, e.bid, "executed") \/ bidRows' = bidRows
      BY <1>5
    <2>2. bidRows' \in Seq(Rows) /\ Len(bidRows') = Len(bidRows)
             /\ \A n \in 1 .. Len(bidRows) : bidRows'[n].bid = bidRows[n].bid
      BY <1>2, <2>1, MarkBidRows
    <2>3. \A b : Stored(b) => Stored(b)'
      BY <1>2, <2>2 DEF Stored
    <2> QED
      BY <1>1, <1>2, <1>5, <2>2, <2>3, RecordSkipsNothing
  <1>6. CASE /\ Decodes(e) /\ e.kind = "executed" /\ Record(i, e)
             /\ BidFault /\ swallowed' = TRUE /\ UNCHANGED bidRows
    <2>1. ~FromStash(e)
      BY <1>6 DEF FromStash
    <2>2. bidFaults' \in Nat /\ \A b : Stored(b) => Stored(b)'
      BY <1>2, <1>6, FaultType DEF Stored
    <2> QED
      BY <1>1, <1>2, <1>6, <2>1, <2>2, RecordSkipsNothing
  <1> QED
    BY <1>3, <1>4, <1>5, <1>6 DEF ReadBidEntry

-----------------------------------------------------------------------------
(* The chain and the mirror, and the theorems.                               *)

LEMMA OutsideSkipsNothing ==
    ASSUME SkipInv, BidTypeOK', wire' = wire, \A j \in 1 .. mirrored : bidLog'[j] = bidLog[j],
           UNCHANGED <<bidCursor, bidRows, eventRows, scan, swallowed>>
    PROVE  SkipInv'
  <1>1. BidTypeOK /\ \A b : Stored(b) => Stored(b)'
    BY DEF SkipInv, Stored
  <1>2. ASSUME ~swallowed' PROVE \A j \in 1 .. bidCursor' : Recorded(j)'
    BY <1>1, <1>2, CursorStays
  <1>3. ASSUME ~swallowed', NEW k \in Scans PROVE Sound(scan[k])'
    <2>1. Sound(scan[k]) /\ scan'[k] = scan[k]
      BY <1>3 DEF SkipInv
    <2> QED
      BY <1>1, <2>1, StaysSound
  <1> QED
    BY <1>2, <1>3 DEF SkipInv

LEMMA SkipStep == SkipInv /\ [BidScannerNext]_bidVars => SkipInv'
  <1> SUFFICES ASSUME SkipInv, [BidScannerNext]_bidVars PROVE SkipInv'
    OBVIOUS
  <1>1. BidTypeOK /\ mirrored \in 0 .. Len(bidLog) /\ Len(bidLog) \in Nat
    BY DEF SkipInv, BidTypeOK
  <1>2. CASE BidChain
    BY <1>1, <1>2, ChainType, OutsideSkipsNothing
  <1>3. CASE MirrorCatchesUp
    BY <1>1, <1>3, MirrorType, OutsideSkipsNothing DEF MirrorCatchesUp, bidChainVars, tableVars
  <1>4. ASSUME NEW i \in Scans, ScanStep(i) PROVE SkipInv'
    BY <1>4, StartSkipsNothing, ReadBidEntrySkipsNothing, EndFactoryScanSkipsNothing,
       ScanStashesSkipsNothing, UploadBidsSkipsNothing, UploadEventsSkipsNothing,
       PostBidCursorSkipsNothing DEF ScanStep
  <1>5. ASSUME NEW i \in Scans, BidScanFails(i) PROVE SkipInv'
    BY <1>5, BidScanFailsSkipsNothing
  <1>6. CASE UNCHANGED bidVars
    <2>1. BidTypeOK'
      BY <1>1, <1>6 DEF bidVars, BidTypeOK, Memories
    <2> QED
      BY <1>1, <1>6, <2>1, OutsideSkipsNothing DEF bidVars
  <1> QED
    BY <1>2, <1>3, <1>4, <1>5, <1>6 DEF BidScannerNext

\* What a scan has read is in its memory or in the tables, whoever else scans.
THEOREM SkipInvariance == BidScannerSpec => []SkipInv
  BY SkipInit, SkipStep, PTL DEF BidScannerSpec

\* The variables keep to their types.
THEOREM BidScannerTypes == BidScannerSpec => []BidTypeOK
  <1>1. SkipInv => BidTypeOK
    BY DEF SkipInv
  <1> QED
    BY <1>1, SkipInvariance, PTL

\* Nothing below the cursor is missing from the tables, however many processes
\* scan at once and wherever they crash, unless a failed request was swallowed.
THEOREM NothingIsSkippedHolds == BidScannerSpec => []NothingIsSkipped
  <1>1. SkipInv => NothingIsSkipped
    BY DEF SkipInv, NothingIsSkipped
  <1> QED
    BY <1>1, SkipInvariance, PTL

-----------------------------------------------------------------------------
(* What the rows of the bids table say.                                      *)

RowTold(r) == Said("created", r.bid) /\ (r.status = "executed" => Said("executed", r.bid))
MemoryTold(m) == \A n \in DOMAIN m.bids : Said("created", m.bids[n])

\* Rows, and the bids a scan has in its memory for the upload to come, are of
\* bids the factory announced.
BidRowsInv ==
    /\ \A n \in DOMAIN bidRows : RowTold(bidRows[n])
    /\ \A i \in Scans : MemoryTold(scan[i])

LEMMA SaidStays ==
    ASSUME BidTypeOK, BidTypeOK', Len(bidLog) <= Len(bidLog'),
           \A j \in 1 .. Len(bidLog) : bidLog'[j] = bidLog[j]
    PROVE  /\ \A kind, b : Said(kind, b) => Said(kind, b)'
           /\ \A r : RowTold(r) => RowTold(r)'
  <1>1. Len(bidLog) \in Nat /\ Len(bidLog') \in Nat
    BY DEF BidTypeOK
  <1>2. \A kind, b : Said(kind, b) => Said(kind, b)'
    BY <1>1 DEF Said
  <1> QED
    BY <1>2 DEF RowTold

LEMMA MarkedRowsTold ==
    ASSUME NEW rows \in Seq(Rows), NEW b, Said("executed", b), \A n \in DOMAIN rows : RowTold(rows[n])
    PROVE  \A n \in DOMAIN MarkBid(rows, b, "executed") : RowTold(MarkBid(rows, b, "executed")[n])
  <1> DEFINE of == {i \in DOMAIN rows : rows[i].bid = b}
             first == CHOOSE i \in of : \A j \in of : i <= j
             marked == [rows EXCEPT ![first].status = "executed"]
  <1>1. CASE of = {}
    BY <1>1 DEF MarkBid
  <1>2. CASE of # {}
    <2>1. first \in of
      <3>1. of \in SUBSET Nat
        OBVIOUS
      <3>2. \E i \in of : \A j \in of : i <= j
        <4> HIDE DEF of
        <4> QED
          BY <1>2, <3>1, LeastElement
      <3> QED
        BY <3>2
    <2>2. MarkBid(rows, b, "executed") = marked
      BY <1>2 DEF MarkBid
    <2>3. first \in DOMAIN rows /\ rows[first].bid = b /\ rows[first] \in Rows
      BY <2>1
    <2> HIDE DEF first
    <2>4. DOMAIN marked = DOMAIN rows /\ \A n \in DOMAIN rows : n # first => marked[n] = rows[n]
      OBVIOUS
    <2>5. marked[first].bid = b
      BY <2>3 DEF Rows
    <2>6. RowTold(rows[first])
      BY <2>3
    <2> HIDE DEF marked
    <2>7. RowTold(marked[first])
      BY <2>3, <2>5, <2>6 DEF RowTold
    <2> QED
      BY <2>2, <2>4, <2>7
  <1> QED
    BY <1>1, <1>2

\* A step of one scan: the log stays, and so do the other memories.
LEMMA OneRemembers ==
    ASSUME BidTypeOK, BidRowsInv, NEW i \in Scans, bidLog' = bidLog,
           \A k \in Scans \ {i} : scan'[k] = scan[k], MemoryTold(scan'[i]),
           \A n \in DOMAIN bidRows' : RowTold(bidRows'[n])
    PROVE  BidRowsInv'
  <1>1. \A r : RowTold(r) <=> RowTold(r)'
    BY DEF RowTold, Said
  <1>2. \A m : MemoryTold(m) <=> MemoryTold(m)'
    BY DEF MemoryTold, Said
  <1> QED
    BY <1>1, <1>2 DEF BidRowsInv

LEMMA ExitRemembers ==
    ASSUME BidTypeOK, NEW i \in Scans, Exit(i)
    PROVE  MemoryTold(scan'[i]) /\ \A k \in Scans \ {i} : scan'[k] = scan[k]
  <1>1. scan'[i] = NoScan /\ \A k \in Scans \ {i} : scan'[k] = scan[k]
    BY DEF BidTypeOK, Exit
  <1>2. DOMAIN NoScan.bids = {}
    BY DEF NoScan
  <1> QED
    BY <1>1, <1>2 DEF MemoryTold

LEMMA GotoRemembers ==
    ASSUME BidTypeOK, BidRowsInv, NEW i \in Scans, NEW pc, Goto(i, pc)
    PROVE  MemoryTold(scan'[i]) /\ \A k \in Scans \ {i} : scan'[k] = scan[k]
  <1>1. scan'[i] = [scan[i] EXCEPT !.pc = pc] /\ \A k \in Scans \ {i} : scan'[k] = scan[k]
    BY DEF BidTypeOK, Goto
  <1>2. scan'[i].bids = scan[i].bids
    BY <1>1 DEF BidTypeOK, Memories
  <1> QED
    BY <1>1, <1>2 DEF BidRowsInv, MemoryTold

LEMMA RecordRemembers ==
    ASSUME BidTypeOK, BidRowsInv, NEW i \in Scans, scan[i].pos < mirrored,
           Record(i, bidLog[scan[i].pos + 1])
    PROVE  MemoryTold(scan'[i]) /\ \A k \in Scans \ {i} : scan'[k] = scan[k]
  <1>1. scan[i] \in Memories(mirrored) /\ scan \in [Scans -> Memories(mirrored)]
    BY DEF BidTypeOK
  <1>2. scan[i].bids \in Seq(Bids) /\ scan[i].pos + 1 \in 1 .. Len(bidLog)
    BY <1>1 DEF BidTypeOK, Memories
  <1> DEFINE e == bidLog[scan[i].pos + 1]
             bids == IF e.kind = "created" THEN Append(scan[i].bids, e.bid) ELSE scan[i].bids
             next == [scan[i] EXCEPT
                         !.pos = @ + 1, !.top = scan[i].pos + 1, !.bids = bids,
                         !.events = IF e.kind = "created" THEN @ ELSE @ \cup {scan[i].pos + 1}]
  <1>3. e \in Entries /\ (e.kind = "created" => e.bid \in Bids /\ Said("created", e.bid))
    <2>1. e \in Entries /\ (e.kind = "created" => e.bid \in Bids)
      BY <1>2 DEF BidTypeOK
    <2>2. e = [kind |-> e.kind, bid |-> e.bid]
      BY <2>1 DEF Entries
    <2> QED
      BY <1>2, <2>1, <2>2 DEF Said
  <1>4. scan'[i] = next /\ \A k \in Scans \ {i} : scan'[k] = scan[k]
    BY <1>1 DEF Record
  <1>5. \A n \in DOMAIN bids : Said("created", bids[n])
    <2>1. \A n \in DOMAIN scan[i].bids : Said("created", scan[i].bids[n])
      BY DEF BidRowsInv, MemoryTold
    <2>2. CASE e.kind = "created"
      <3>1. \A n \in DOMAIN bids : n \in DOMAIN scan[i].bids \/ bids[n] = e.bid
        BY <1>2, <1>3, <2>2
      <3>2. \A n \in DOMAIN scan[i].bids : bids[n] = scan[i].bids[n]
        BY <1>2, <1>3, <2>2
      <3> QED
        BY <1>3, <2>1, <2>2, <3>1, <3>2
    <2> QED
      BY <2>1, <2>2
  <1>6. next.bids = bids
    <2> HIDE DEF bids
    <2> QED
      BY <1>1 DEF Memories
  <1> QED
    BY <1>4, <1>5, <1>6 DEF MemoryTold

LEMMA BidRowsStep ==
    ASSUME BidTypeOK, BidTypeOK', BidRowsInv, [BidScannerNext]_bidVars
    PROVE  BidRowsInv'
  <1>0. /\ \A n \in DOMAIN bidRows : RowTold(bidRows[n])
        /\ bidRows \in Seq(Rows) /\ bidLog \in Seq(Entries)
        /\ scan \in [Scans -> Memories(mirrored)] /\ Len(bidLog) \in Nat
    BY DEF BidRowsInv, BidTypeOK
  <1>1. CASE BidChain
    <2>1. /\ Len(bidLog') = Len(bidLog) + 1 /\ UNCHANGED <<bidRows, scan>>
          /\ \A j \in 1 .. Len(bidLog) : bidLog'[j] = bidLog[j]
      BY <1>1, ChainType
    <2>2. \A kind, b : Said(kind, b) => Said(kind, b)'
      BY <1>0, <2>1, SaidStays
    <2> QED
      BY <2>1, <2>2 DEF BidRowsInv, RowTold, MemoryTold
  <1>2. CASE MirrorCatchesUp \/ UNCHANGED bidVars
    <2>1. UNCHANGED <<bidLog, bidRows, scan>>
      BY <1>2 DEF MirrorCatchesUp, bidVars, bidChainVars, tableVars
    <2> QED
      BY <2>1 DEF BidRowsInv, RowTold, MemoryTold, Said
  <1>3. ASSUME NEW i \in Scans, bidLog' = bidLog, bidRows' = bidRows,
               MemoryTold(scan'[i]), \A k \in Scans \ {i} : scan'[k] = scan[k]
        PROVE  BidRowsInv'
    BY <1>0, <1>3, OneRemembers
  <1>4. ASSUME NEW i \in Scans, StartBidScan(i) PROVE BidRowsInv'
    <2>1. PICK from \in CursorRead :
             scan' = [scan EXCEPT ![i] = [NoScan EXCEPT !.pc = "factory", !.from = from, !.pos = from]]
      BY <1>4 DEF StartBidScan
    <2>2. scan'[i].bids = <<>> /\ \A k \in Scans \ {i} : scan'[k] = scan[k]
      BY <1>0, <2>1 DEF NoScan
    <2>3. MemoryTold(scan'[i])
      BY <2>2 DEF MemoryTold
    <2> QED
      BY <1>3, <1>4, <2>2, <2>3 DEF StartBidScan, bidChainVars, tableVars
  <1>5. ASSUME NEW i \in Scans, ReadBidEntry(i) PROVE BidRowsInv'
    <2> DEFINE e == bidLog[scan[i].pos + 1]
    <2>1. /\ scan[i].pos < mirrored /\ bidLog' = bidLog
          /\ scan[i].pos + 1 \in 1 .. Len(bidLog) /\ e \in Entries
      BY SMTT(20), <1>0, <1>5 DEF ReadBidEntry, bidChainVars, BidTypeOK, Memories
    <2>2. CASE Skip(i) /\ bidRows' = bidRows
      <3>1. scan'[i] = [scan[i] EXCEPT !.pos = @ + 1] /\ \A k \in Scans \ {i} : scan'[k] = scan[k]
        BY <1>0, <2>2 DEF Skip
      <3>2. scan'[i].bids = scan[i].bids
        BY <1>0, <3>1 DEF Memories
      <3> QED
        BY <1>3, <2>1, <2>2, <3>1, <3>2 DEF BidRowsInv, MemoryTold
    <2>3. CASE Exit(i) /\ bidRows' = bidRows
      BY <1>3, <2>1, <2>3, ExitRemembers
    <2>4. CASE Record(i, e) /\ bidRows' = bidRows
      BY <1>3, <2>1, <2>4, RecordRemembers
    <2>5. CASE Record(i, e) /\ e.kind = "executed" /\ bidRows' = MarkBid(bidRows, e.bid, e.kind)
      <3>1. e = [kind |-> e.kind, bid |-> e.bid]
        BY <2>1 DEF Entries
      <3>2. Said("executed", e.bid)
        BY <2>1, <2>5, <3>1 DEF Said
      <3>3. bidRows' = MarkBid(bidRows, e.bid, "executed")
        BY <2>5
      <3> HIDE DEF e
      <3>4. \A n \in DOMAIN bidRows' : RowTold(bidRows'[n])
        BY <1>0, <3>2, <3>3, MarkedRowsTold
      <3>5. MemoryTold(scan'[i]) /\ \A k \in Scans \ {i} : scan'[k] = scan[k]
        BY <2>1, <2>5, RecordRemembers DEF e
      <3> QED
        BY <2>1, <3>4, <3>5, OneRemembers
    <2> QED
      BY <1>5, <2>2, <2>3, <2>4, <2>5 DEF ReadBidEntry
  <1>6. ASSUME NEW i \in Scans, ScanStashes(i) PROVE BidRowsInv'
    <2>1. PICK to \in scan[i].from .. mirrored :
             scan' = [scan EXCEPT ![i].pc = "bids",
                                  ![i].events = @ \cup StashEntries(scan[i].from, to)]
      BY <1>6 DEF ScanStashes
    <2>2. scan'[i].bids = scan[i].bids /\ \A k \in Scans \ {i} : scan'[k] = scan[k]
      BY <1>0, <2>1 DEF Memories
    <2> QED
      BY <1>3, <1>6, <2>2 DEF ScanStashes, bidChainVars, tableVars, BidRowsInv, MemoryTold
  <1>7. ASSUME NEW i \in Scans, UploadBids(i) PROVE BidRowsInv'
    <2>1. PICK sent \in 0 .. Len(scan[i].bids) :
             bidRows' = bidRows \o [n \in 1 .. sent |->
                                       [bid |-> scan[i].bids[n], status |-> "active"]]
      BY <1>7 DEF UploadBids
    <2> DEFINE added == [n \in 1 .. sent |-> [bid |-> scan[i].bids[n], status |-> "active"]]
    <2>2. scan[i].bids \in Seq(Bids) /\ Len(scan[i].bids) \in Nat /\ sent \in Nat
      BY <1>0, <2>1 DEF Memories
    <2>3. added \in Seq(Rows) /\ Len(added) = sent
      <3>1. \A n \in 1 .. sent : [bid |-> scan[i].bids[n], status |-> "active"] \in Rows
        BY <2>1, <2>2 DEF Rows
      <3> QED
        BY <2>2, <3>1
    <2>4. \A n \in 1 .. sent : RowTold(added[n])
      <3>1. \A n \in 1 .. sent : added[n].bid = scan[i].bids[n] /\ added[n].status = "active"
        OBVIOUS
      <3>2. \A n \in 1 .. sent : Said("created", scan[i].bids[n])
        BY <2>1, <2>2 DEF BidRowsInv, MemoryTold
      <3> HIDE DEF added
      <3> QED
        BY <3>1, <3>2 DEF RowTold
    <2>5. bidRows' = bidRows \o added
      BY <2>1
    <2> HIDE DEF added
    <2>6. /\ bidRows' \in Seq(Rows) /\ Len(bidRows') = Len(bidRows) + sent
          /\ \A n \in 1 .. Len(bidRows) : bidRows'[n] = bidRows[n]
          /\ \A n \in 1 .. sent : bidRows'[Len(bidRows) + n] = added[n]
      BY <1>0, <2>3, <2>5, Appended
    <2>7. \A n \in DOMAIN bidRows' : RowTold(bidRows'[n])
      <3> TAKE n \in DOMAIN bidRows'
      <3>1. n \in 1 .. Len(bidRows) \/ (n - Len(bidRows) \in 1 .. sent /\ n = Len(bidRows) + (n - Len(bidRows)))
        BY <1>0, <2>2, <2>6
      <3>2. DOMAIN bidRows = 1 .. Len(bidRows)
        BY <1>0
      <3> QED
        BY <1>0, <2>4, <2>6, <3>1, <3>2
    <2>8. MemoryTold(scan'[i]) /\ \A k \in Scans \ {i} : scan'[k] = scan[k]
      BY <1>7, GotoRemembers DEF UploadBids
    <2> QED
      BY <1>7, <2>7, <2>8, OneRemembers DEF UploadBids, bidChainVars
  <1>8. ASSUME NEW i \in Scans,
               EndFactoryScan(i) \/ UploadEvents(i) \/ PostBidCursor(i) \/ BidScanFails(i)
        PROVE  BidRowsInv'
    <2>1. bidLog' = bidLog /\ bidRows' = bidRows
      BY <1>8 DEF EndFactoryScan, UploadEvents, PostBidCursor, BidScanFails, bidChainVars, tableVars
    <2>2. MemoryTold(scan'[i]) /\ \A k \in Scans \ {i} : scan'[k] = scan[k]
      BY <1>8, GotoRemembers, ExitRemembers
         DEF EndFactoryScan, UploadEvents, PostBidCursor, BidScanFails
    <2> QED
      BY <1>3, <2>1, <2>2
  <1> QED
    BY <1>1, <1>2, <1>4, <1>5, <1>6, <1>7, <1>8 DEF BidScannerNext, ScanStep

\* A row is a bid the factory announced, and says executed only of a bid that
\* was, whoever scans and crashes beside.
THEOREM BidRowsTellTheChainHolds == BidScannerSpec => []BidRowsTellTheChain
  <1>1. BidScannerInit => BidRowsInv
    BY DEF BidScannerInit, BidRowsInv, MemoryTold, NoScan
  <1>2. BidTypeOK /\ BidTypeOK' /\ BidRowsInv /\ [BidScannerNext]_bidVars => BidRowsInv'
    BY BidRowsStep
  <1>3. BidRowsInv => BidRowsTellTheChain
    BY DEF BidRowsInv, RowTold, BidRowsTellTheChain
  <1> QED
    BY <1>1, <1>2, <1>3, BidScannerTypes, PTL DEF BidScannerSpec

-----------------------------------------------------------------------------
(* The trade scanner: the log.                                               *)

TradeEntries == [kind : {"created", "completed", "cancelled", "indexed", "logged", "foreign"},
                 key : Keys \cup {NoKey}, nonce : Nat]

Creates(e, k) == e.kind = "created" /\ e.key = k
Closes(e) == e.kind \in {"completed", "cancelled"}

\* Among the first m entries the last listing of k is at i, under the nonce n.
ListedAt(log, k, n, m, i) ==
    /\ log[i] = Entry("created", k, n)
    /\ \A l \in i + 1 .. m : ~Creates(log[l], k)

\* Among the first m entries no listing of k is newer than n.
Covers(log, k, n, m) == \A i \in 1 .. m : Creates(log[i], k) => log[i].nonce <= n

ClosedAfter(log, k, i, m) == \E l \in i + 1 .. m : Closes(log[l]) /\ log[l].key = k

\* The open trade n of k is at least as new as all that are announced, and of
\* these it is the only one, if it is one, that the log has not closed.
OpenAt(log, k, n, count) ==
    /\ n # NoNonce => n \in 1 .. count /\ Covers(log, k, n, Len(log))
    /\ \A i \in 1 .. Len(log) : Creates(log[i], k) =>
          (ClosedAfter(log, k, i, Len(log)) <=> log[i].nonce # n)

\* Announced nonces rise, with gaps, an entry that closes a trade is about one
\* no older than the last that was announced, and so is what is open.
ChainSound(log, open, count) ==
    /\ log \in Seq(TradeEntries) /\ count \in Nat /\ open \in [Keys -> Nat]
    /\ \A j \in 1 .. Len(log) :
          /\ log[j].kind = "created" => log[j].key \in Keys /\ log[j].nonce \in 1 .. count
          /\ Closes(log[j]) => log[j].key \in Keys /\ Covers(log, log[j].key, log[j].nonce, j - 1)
    /\ \A i, j \in 1 .. Len(log) :
          i < j /\ log[i].kind = "created" /\ log[j].kind = "created" => log[i].nonce < log[j].nonce
    /\ \A k \in Keys : OpenAt(log, k, open[k], count)

\* What is so of the first entries of a log stays so when it grows.
LEMMA LogGrows ==
    ASSUME NEW log \in Seq(TradeEntries), NEW e \in TradeEntries
    PROVE  /\ Append(log, e) \in Seq(TradeEntries) /\ Len(Append(log, e)) = Len(log) + 1
           /\ Append(log, e)[Len(log) + 1] = e /\ Len(log) \in Nat
           /\ \A j \in 1 .. Len(log) : Append(log, e)[j] = log[j]
           /\ \A k, n : \A m \in 0 .. Len(log) : Covers(log, k, n, m) => Covers(Append(log, e), k, n, m)
  <1> DEFINE more == Append(log, e)
             L == Len(log)
  <1>1. more \in Seq(TradeEntries) /\ Len(more) = L + 1 /\ more[L + 1] = e /\ L \in Nat
    OBVIOUS
  <1>2. \A j \in 1 .. L : more[j] = log[j]
    OBVIOUS
  <1> HIDE DEF more, L
  <1>3. ASSUME NEW k, NEW n, NEW m \in 0 .. L, Covers(log, k, n, m)
        PROVE  Covers(more, k, n, m)
    <2>1. \A i \in 1 .. m : i \in 1 .. L
      BY <1>1
    <2> QED
      BY <1>2, <1>3, <2>1 DEF Covers
  <1> QED
    BY <1>1, <1>2, <1>3 DEF more, L

\* The entries before the last are as they were.
LEMMA EntriesStay ==
    ASSUME NEW log, NEW open, NEW count, ChainSound(log, open, count), NEW e \in TradeEntries,
           NEW count1 \in Nat, count <= count1, NEW j \in 1 .. Len(log)
    PROVE  /\ log[j].kind = "created" => log[j].key \in Keys /\ log[j].nonce \in 1 .. count1
           /\ Closes(log[j]) =>
                 log[j].key \in Keys /\ Covers(Append(log, e), log[j].key, log[j].nonce, j - 1)
  <1> DEFINE L == Len(log)
  <1>1. log \in Seq(TradeEntries) /\ count \in Nat /\ L \in Nat
    BY DEF ChainSound
  <1>2. /\ log[j].kind = "created" => log[j].key \in Keys /\ log[j].nonce \in 1 .. count
        /\ Closes(log[j]) => log[j].key \in Keys /\ Covers(log, log[j].key, log[j].nonce, j - 1)
    BY DEF ChainSound
  <1>3. log[j].kind = "created" => log[j].nonce \in 1 .. count1
    BY <1>1, <1>2
  <1>4. j - 1 \in 0 .. L
    BY <1>1
  <1>5. Closes(log[j]) => Covers(Append(log, e), log[j].key, log[j].nonce, j - 1)
    BY <1>1, <1>2, <1>4, LogGrows
  <1> QED
    BY <1>2, <1>3, <1>5, Zenon

\* An entry about another NFT, or about none, leaves the trade of k as it is.
LEMMA OpenStays ==
    ASSUME NEW log \in Seq(TradeEntries), NEW e \in TradeEntries, NEW k, NEW n,
           NEW count \in Nat, NEW count1 \in Nat, count <= count1,
           ~Creates(e, k), ~(Closes(e) /\ e.key = k), OpenAt(log, k, n, count)
    PROVE  OpenAt(Append(log, e), k, n, count1)
  <1> DEFINE more == Append(log, e)
             L == Len(log)
  <1>1. /\ Len(more) = L + 1 /\ more[L + 1] = e /\ L \in Nat
        /\ \A j \in 1 .. L : more[j] = log[j] /\ j \in 1 .. L + 1
    OBVIOUS
  <1> HIDE DEF more, L
  <1>2. ASSUME NEW i \in 1 .. L, NEW l \in i + 1 .. L + 1
        PROVE  (l \in i + 1 .. L /\ more[l] = log[l]) \/ (l = L + 1 /\ more[l] = e)
    BY <1>1
  <1>3. \A i \in 1 .. L : \A l \in i + 1 .. L : more[l] = log[l] /\ l \in i + 1 .. L + 1
    BY <1>1
  <1>4. ASSUME NEW i \in 1 .. L PROVE ClosedAfter(more, k, i, L + 1) <=> ClosedAfter(log, k, i, L)
    BY <1>2, <1>3 DEF ClosedAfter
  <1>5. ASSUME NEW i \in 1 .. L + 1, Creates(more[i], k)
        PROVE  i \in 1 .. L /\ more[i] = log[i] /\ Creates(log[i], k)
    <2>1. i # L + 1
      BY <1>1, <1>5
    <2>2. i \in 1 .. L
      BY <1>1, <2>1
    <2> QED
      BY <1>1, <1>5, <2>2
  <1>6. ASSUME n # NoNonce PROVE n \in 1 .. count1 /\ Covers(more, k, n, L + 1)
    <2>1. n \in 1 .. count /\ Covers(log, k, n, L)
      BY <1>6 DEF OpenAt, L
    <2>2. n \in 1 .. count1
      BY <2>1
    <2>3. Covers(more, k, n, L + 1)
      BY <1>5, <2>1 DEF Covers
    <2> QED
      BY <2>2, <2>3
  <1>7. ASSUME NEW i \in 1 .. L + 1, Creates(more[i], k)
        PROVE  ClosedAfter(more, k, i, L + 1) <=> more[i].nonce # n
    <2>1. i \in 1 .. L /\ more[i] = log[i] /\ Creates(log[i], k)
      BY <1>5, <1>7
    <2>2. ClosedAfter(log, k, i, L) <=> log[i].nonce # n
      BY <2>1 DEF OpenAt, L
    <2> QED
      BY <1>4, <2>1, <2>2
  <1>8. OpenAt(more, k, n, count1)
    BY <1>1, <1>6, <1>7 DEF OpenAt
  <1> QED
    BY <1>8 DEF more

\* What is announced of an NFT that has no open trade is closed.
LEMMA NothingIsOpen ==
    ASSUME NEW log, NEW open, NEW count, ChainSound(log, open, count), NEW k \in Keys,
           open[k] = NoNonce, NEW i \in 1 .. Len(log), Creates(log[i], k)
    PROVE  ClosedAfter(log, k, i, Len(log)) /\ log[i].nonce \in 1 .. count
  <1>1. log[i].nonce \in 1 .. count /\ count \in Nat
    BY DEF ChainSound, Creates
  <1>2. log[i].nonce # NoNonce
    BY <1>1 DEF NoNonce
  <1>3. OpenAt(log, k, NoNonce, count)
    BY DEF ChainSound
  <1> QED
    BY <1>1, <1>2, <1>3 DEF OpenAt

\* A listing that is announced, under the next nonce.
LEMMA ListingIsSound ==
    ASSUME NEW log, NEW open, NEW count, ChainSound(log, open, count), NEW k \in Keys,
           open[k] = NoNonce
    PROVE  ChainSound(Append(log, Entry("created", k, count + 1)),
                      [open EXCEPT ![k] = count + 1], count + 1)
  <1> DEFINE e == Entry("created", k, count + 1)
             more == Append(log, e)
             opened == [open EXCEPT ![k] = count + 1]
             L == Len(log)
  <1>0. log \in Seq(TradeEntries) /\ count \in Nat /\ open \in [Keys -> Nat]
    BY DEF ChainSound
  <1>1. e \in TradeEntries /\ e.kind = "created" /\ e.key = k /\ e.nonce = count + 1
    BY <1>0 DEF Entry, TradeEntries
  <1>2. /\ more \in Seq(TradeEntries) /\ Len(more) = L + 1 /\ more[L + 1] = e /\ L \in Nat
        /\ \A j \in 1 .. L : more[j] = log[j]
    <2> HIDE DEF e
    <2> QED
      BY <1>0, <1>1, LogGrows
  <1>3. \A j \in 1 .. L :
           /\ log[j].kind = "created" => log[j].key \in Keys /\ log[j].nonce \in 1 .. count + 1
           /\ Closes(log[j]) => log[j].key \in Keys /\ Covers(more, log[j].key, log[j].nonce, j - 1)
    <2>1. count + 1 \in Nat /\ count <= count + 1
      BY <1>0
    <2> HIDE DEF e
    <2> QED
      BY <1>1, <2>1, EntriesStay
  <1> HIDE DEF e, more, L
  <1>4. ASSUME NEW j \in 1 .. L + 1
        PROVE  /\ more[j].kind = "created" => more[j].key \in Keys /\ more[j].nonce \in 1 .. count + 1
               /\ Closes(more[j]) => /\ more[j].key \in Keys
                                     /\ Covers(more, more[j].key, more[j].nonce, j - 1)
    <2>1. CASE j \in 1 .. L
      BY <1>2, <1>3, <2>1
    <2>2. CASE j = L + 1
      BY <1>0, <1>1, <1>2, <2>2 DEF Closes
    <2> QED
      BY <1>2, <2>1, <2>2
  <1>5. ASSUME NEW i \in 1 .. L + 1, NEW j \in 1 .. L + 1, i < j,
               more[i].kind = "created", more[j].kind = "created"
        PROVE  more[i].nonce < more[j].nonce
    <2>1. i \in 1 .. L /\ more[i] = log[i] /\ log[i].nonce \in 1 .. count
      BY <1>2, <1>5 DEF ChainSound, L
    <2>2. CASE j = L + 1
      BY <1>0, <1>1, <1>2, <2>1, <2>2
    <2>3. CASE j \in 1 .. L
      <3>1. more[j] = log[j]
        BY <1>2, <2>3
      <3> QED
        BY <1>5, <2>1, <2>3, <3>1 DEF ChainSound, L
    <2> QED
      BY <1>2, <2>2, <2>3
  <1>6. OpenAt(more, k, count + 1, count + 1)
    <2>1. ASSUME NEW i \in 1 .. L, Creates(more[i], k)
          PROVE  /\ ClosedAfter(more, k, i, L + 1) /\ more[i].nonce \in 1 .. count
                 /\ more[i].nonce # count + 1
      <3>1. more[i] = log[i]
        BY <1>2
      <3>2. ClosedAfter(log, k, i, L) /\ log[i].nonce \in 1 .. count
        BY <2>1, <3>1, NothingIsOpen DEF L
      <3>3. PICK l \in i + 1 .. L : Closes(log[l]) /\ log[l].key = k
        BY <3>2 DEF ClosedAfter
      <3>4. more[l] = log[l] /\ l \in i + 1 .. L + 1
        BY <1>2
      <3>5. log[i].nonce # count + 1
        BY <1>0, <3>2
      <3> QED
        BY <3>1, <3>2, <3>3, <3>4, <3>5 DEF ClosedAfter
    <2>2. more[L + 1].nonce = count + 1 /\ ~ClosedAfter(more, k, L + 1, L + 1)
      BY <1>1, <1>2 DEF ClosedAfter
    <2>3. \A i \in 1 .. L + 1 : i \in 1 .. L \/ i = L + 1
      BY <1>2
    <2>4. Covers(more, k, count + 1, L + 1)
      <3> SUFFICES ASSUME NEW i \in 1 .. L + 1, Creates(more[i], k) PROVE more[i].nonce <= count + 1
        BY DEF Covers
      <3>1. CASE i \in 1 .. L
        BY <1>0, <2>1, <3>1
      <3>2. CASE i = L + 1
        BY <1>0, <2>2, <3>2
      <3> QED
        BY <2>3, <3>1, <3>2
    <2>5. \A i \in 1 .. L + 1 : Creates(more[i], k) =>
             (ClosedAfter(more, k, i, L + 1) <=> more[i].nonce # count + 1)
      BY <2>1, <2>2, <2>3
    <2>6. count + 1 \in 1 .. count + 1
      BY <1>0
    <2> QED
      BY <1>2, <2>4, <2>5, <2>6 DEF OpenAt
  <1>7. ASSUME NEW l \in Keys, l # k PROVE OpenAt(more, l, open[l], count + 1)
    <2>1. ~Creates(e, l) /\ ~Closes(e) /\ count + 1 \in Nat /\ count <= count + 1
      BY <1>0, <1>1, <1>7 DEF Creates, Closes
    <2>2. OpenAt(log, l, open[l], count)
      BY DEF ChainSound
    <2> QED
      BY <1>0, <1>1, <2>1, <2>2, OpenStays DEF more
  <1>8. /\ opened \in [Keys -> Nat] /\ count + 1 \in Nat
        /\ \A l \in Keys : OpenAt(more, l, opened[l], count + 1)
    <2>1. \A l \in Keys : opened[l] = IF l = k THEN count + 1 ELSE open[l]
      BY <1>0
    <2>2. opened \in [Keys -> Nat] /\ count + 1 \in Nat
      BY <1>0
    <2> HIDE DEF opened
    <2> QED
      BY <1>6, <1>7, <2>1, <2>2
  <1> HIDE DEF opened
  <1>9. ChainSound(more, opened, count + 1)
    BY <1>2, <1>4, <1>5, <1>8 DEF ChainSound
  <1> QED
    BY <1>9 DEF more, e, opened

\* A listing that is not: the nonce is taken and the log stays as it is.
LEMMA UnannouncedIsSound ==
    ASSUME NEW log, NEW open, NEW count, ChainSound(log, open, count), NEW k \in Keys,
           open[k] = NoNonce
    PROVE  ChainSound(log, [open EXCEPT ![k] = count + 1], count + 1)
  <1> DEFINE opened == [open EXCEPT ![k] = count + 1]
             L == Len(log)
  <1>0. log \in Seq(TradeEntries) /\ count \in Nat /\ open \in [Keys -> Nat] /\ L \in Nat
    BY DEF ChainSound
  <1>1. ASSUME NEW j \in 1 .. L, log[j].kind = "created"
        PROVE  log[j].nonce \in 1 .. count /\ log[j].nonce \in 1 .. count + 1
    <2>1. log[j].nonce \in 1 .. count
      BY <1>1 DEF ChainSound
    <2> QED
      BY <1>0, <2>1
  <1>2. OpenAt(log, k, count + 1, count + 1)
    <2>1. ASSUME NEW i \in 1 .. L, Creates(log[i], k)
          PROVE  ClosedAfter(log, k, i, L) /\ log[i].nonce <= count + 1 /\ log[i].nonce # count + 1
      <3>1. ClosedAfter(log, k, i, L) /\ log[i].nonce \in 1 .. count
        BY <2>1, NothingIsOpen
      <3> QED
        BY <1>0, <3>1
    <2>2. count + 1 \in 1 .. count + 1
      BY <1>0
    <2> QED
      BY <2>1, <2>2 DEF OpenAt, Covers
  <1>3. ASSUME NEW l \in Keys, l # k PROVE OpenAt(log, l, open[l], count + 1)
    <2>1. OpenAt(log, l, open[l], count)
      BY DEF ChainSound
    <2>2. open[l] \in 1 .. count => open[l] \in 1 .. count + 1
      BY <1>0
    <2> QED
      BY <2>1, <2>2 DEF OpenAt
  <1>4. /\ opened \in [Keys -> Nat] /\ count + 1 \in Nat
        /\ \A l \in Keys : OpenAt(log, l, opened[l], count + 1)
    <2>1. \A l \in Keys : opened[l] = IF l = k THEN count + 1 ELSE open[l]
      BY <1>0
    <2>2. opened \in [Keys -> Nat] /\ count + 1 \in Nat
      BY <1>0
    <2> HIDE DEF opened
    <2> QED
      BY <1>2, <1>3, <2>1, <2>2
  <1> HIDE DEF opened
  <1>5. ChainSound(log, opened, count + 1)
    BY <1>0, <1>1, <1>4 DEF ChainSound
  <1> QED
    BY <1>5 DEF opened

\* The end of a trade, or an entry of another kind, which may have taken a
\* nonce: open1 is open, the same but for the NFT whose trade is over.
LEMMA OtherEntryIsSound ==
    ASSUME NEW log, NEW open, NEW count, ChainSound(log, open, count),
           NEW e \in TradeEntries, e.kind # "created",
           Closes(e) => e.key \in Keys /\ open[e.key] # NoNonce /\ e.nonce = open[e.key],
           NEW open1 \in [Keys -> Nat],
           \A k \in Keys : open1[k] = IF Closes(e) /\ e.key = k THEN NoNonce ELSE open[k],
           NEW count1 \in Nat, count <= count1
    PROVE  ChainSound(Append(log, e), open1, count1)
  <1> DEFINE more == Append(log, e)
             L == Len(log)
  <1>0. log \in Seq(TradeEntries) /\ count \in Nat /\ open \in [Keys -> Nat]
    BY DEF ChainSound
  <1>1. /\ more \in Seq(TradeEntries) /\ Len(more) = L + 1 /\ more[L + 1] = e /\ L \in Nat
        /\ \A j \in 1 .. L : more[j] = log[j]
        /\ \A l, n : \A m \in 0 .. L : Covers(log, l, n, m) => Covers(more, l, n, m)
    BY <1>0, LogGrows
  <1>2. \A j \in 1 .. L :
           /\ log[j].kind = "created" => log[j].key \in Keys /\ log[j].nonce \in 1 .. count1
           /\ Closes(log[j]) => log[j].key \in Keys /\ Covers(more, log[j].key, log[j].nonce, j - 1)
    BY EntriesStay
  <1>3. \A k : ~Creates(e, k)
    BY DEF Creates
  <1> HIDE DEF more, L
  <1>4. ASSUME NEW j \in 1 .. L + 1
        PROVE  /\ more[j].kind = "created" => more[j].key \in Keys /\ more[j].nonce \in 1 .. count1
               /\ Closes(more[j]) => /\ more[j].key \in Keys
                                     /\ Covers(more, more[j].key, more[j].nonce, j - 1)
    <2>1. CASE j \in 1 .. L
      BY <1>1, <1>2, <2>1
    <2>2. CASE j = L + 1
      <3>1. more[j] = e /\ j - 1 = L /\ L \in 0 .. L
        BY <1>1, <2>2
      <3>2. Closes(e) => Covers(log, e.key, e.nonce, L)
        BY DEF ChainSound, OpenAt, L
      <3>3. Closes(e) => Covers(more, e.key, e.nonce, L)
        BY <1>1, <3>1, <3>2
      <3> QED
        BY <3>1, <3>3, Zenon
    <2> QED
      BY <1>1, <2>1, <2>2
  <1>5. ASSUME NEW i \in 1 .. L + 1, NEW j \in 1 .. L + 1, i < j,
               more[i].kind = "created", more[j].kind = "created"
        PROVE  more[i].nonce < more[j].nonce
    <2>1. j \in 1 .. L /\ i \in 1 .. L
      BY <1>1, <1>5
    <2>2. more[i] = log[i] /\ more[j] = log[j]
      BY <1>1, <2>1
    <2> QED
      BY <1>5, <2>1, <2>2 DEF ChainSound, L
  <1>6. ASSUME NEW k \in Keys PROVE OpenAt(more, k, open1[k], count1)
    <2>1. CASE Closes(e) /\ e.key = k
      <3>1. open1[k] = NoNonce
        BY <2>1
      <3>2. ASSUME NEW i \in 1 .. L + 1, Creates(more[i], k)
            PROVE  ClosedAfter(more, k, i, L + 1) /\ more[i].nonce # NoNonce
        <4>1. i # L + 1
          BY <1>1, <1>3, <3>2
        <4>2. i \in 1 .. L /\ L + 1 \in i + 1 .. L + 1
          BY <1>1, <4>1
        <4>3. ClosedAfter(more, k, i, L + 1)
          BY <1>1, <2>1, <4>2 DEF ClosedAfter
        <4>4. more[i].nonce \in 1 .. count
          BY <1>1, <3>2, <4>2 DEF ChainSound, Creates, L
        <4> QED
          BY <1>0, <4>3, <4>4 DEF NoNonce
      <3> QED
        BY <1>1, <3>1, <3>2 DEF OpenAt
    <2>2. CASE ~(Closes(e) /\ e.key = k)
      <3>1. open1[k] = open[k] /\ OpenAt(log, k, open[k], count)
        BY <2>2 DEF ChainSound
      <3> QED
        BY <1>0, <1>3, <2>2, <3>1, OpenStays DEF more
    <2> QED
      BY <2>1, <2>2
  <1>7. ChainSound(more, open1, count1)
    BY <1>1, <1>4, <1>5, <1>6 DEF ChainSound
  <1> QED
    BY <1>7 DEF more

\* A log that has grown.
Grown(log, more) ==
    /\ log \in Seq(TradeEntries) /\ more \in Seq(TradeEntries) /\ Len(log) <= Len(more)
    /\ \A j \in 1 .. Len(log) : more[j] = log[j]

LEMMA GrownByOne ==
    ASSUME NEW log \in Seq(TradeEntries), NEW e \in TradeEntries
    PROVE  Grown(log, Append(log, e)) /\ log \o <<e>> = Append(log, e)
  BY DEF Grown

LEMMA GrownTwice ==
    ASSUME NEW log, NEW more, NEW most, Grown(log, more), Grown(more, most)
    PROVE  Grown(log, most)
  <1>1. Len(log) \in Nat /\ Len(more) \in Nat /\ Len(most) \in Nat
    BY DEF Grown
  <1>2. \A j \in 1 .. Len(log) : j \in 1 .. Len(more)
    BY <1>1 DEF Grown
  <1> QED
    BY <1>1, <1>2 DEF Grown

\* Whatever a listing announces, it first leaves its NFT without an open trade,
\* and the log without one it has not closed.
LEMMA ListingClears ==
    ASSUME ChainSound(tradeLog, listed, tradeNonce), NEW k \in Keys,
           NEW announcement \in Seq(TradeEntries), List(k, announcement)
    PROVE  \E log, open : /\ ChainSound(log, open, tradeNonce) /\ Grown(tradeLog, log)
                          /\ open[k] = NoNonce /\ tradeLog' = log \o announcement
                          /\ listed' = [open EXCEPT ![k] = tradeNonce + 1]
  <1> DEFINE d == Entry("cancelled", k, listed[k])
             open1 == [listed EXCEPT ![k] = NoNonce]
  <1>0. /\ tradeLog \in Seq(TradeEntries) /\ tradeNonce \in Nat /\ listed \in [Keys -> Nat]
    BY DEF ChainSound
  <1>1. /\ tradeLog' = tradeLog \o ((IF listed[k] = NoNonce THEN <<>> ELSE <<d>>) \o announcement)
        /\ listed' = [listed EXCEPT ![k] = tradeNonce + 1]
    BY DEF List, Emit
  <1>2. CASE listed[k] = NoNonce
    <2>1. tradeLog' = tradeLog \o (<<>> \o announcement)
      BY <1>1, <1>2
    <2>2. <<>> \o announcement = announcement
      OBVIOUS
    <2>3. Grown(tradeLog, tradeLog)
      BY <1>0 DEF Grown
    <2> QED
      BY <1>1, <1>2, <2>1, <2>2, <2>3
  <1>3. CASE listed[k] # NoNonce
    <2>1. /\ d \in TradeEntries /\ d.kind # "created" /\ Closes(d) /\ d.key = k /\ d.nonce = listed[k]
      BY <1>0 DEF Entry, TradeEntries, Closes
    <2>2. /\ open1 \in [Keys -> Nat] /\ open1[k] = NoNonce
          /\ \A l \in Keys : open1[l] = IF l = k THEN NoNonce ELSE listed[l]
      BY <1>0 DEF NoNonce
    <2>3. listed' = [open1 EXCEPT ![k] = tradeNonce + 1]
      BY <1>0, <1>1
    <2>4. tradeLog' = tradeLog \o (<<d>> \o announcement)
      BY <1>1, <1>3
    <2> HIDE DEF d, open1
    <2>5. Append(tradeLog, d) = tradeLog \o <<d>> /\ Grown(tradeLog, Append(tradeLog, d))
      BY <1>0, <2>1, GrownByOne
    <2>6. <<d>> \in Seq(TradeEntries)
      BY <2>1
    <2>7. tradeLog' = Append(tradeLog, d) \o announcement
      <3>1. tradeLog \o (<<d>> \o announcement) = (tradeLog \o <<d>>) \o announcement
        <4>1. announcement \in Seq(TradeEntries)
          OBVIOUS
        <4> QED
          BY <1>0, <2>6, <4>1, ConcatAssociative
      <3> QED
        BY <2>4, <2>5, <3>1, Zenon
    <2>8. ChainSound(Append(tradeLog, d), open1, tradeNonce)
      <3>1. \A l \in Keys : open1[l] = IF Closes(d) /\ d.key = l THEN NoNonce ELSE listed[l]
        BY <2>1, <2>2
      <3>2. tradeNonce <= tradeNonce
        BY <1>0
      <3> QED
        BY <1>0, <1>3, <2>1, <2>2, <3>1, <3>2, OtherEntryIsSound
    <2> QED
      BY <2>2, <2>3, <2>5, <2>7, <2>8
  <1> QED
    BY <1>2, <1>3

\* Every step of the contract keeps its log sound and only adds to it.
LEMMA ChainStep ==
    ASSUME ChainSound(tradeLog, listed, tradeNonce), TradeChain
    PROVE  /\ ChainSound(tradeLog', listed', tradeNonce') /\ Grown(tradeLog, tradeLog')
           /\ UNCHANGED <<tradeCursor, tradeRows, job, tradeFaults, lossless>>
  <1>0. /\ tradeLog \in Seq(TradeEntries) /\ tradeNonce \in Nat /\ listed \in [Keys -> Nat]
    BY DEF ChainSound
  <1>1. ASSUME NEW k \in Keys, ChainList(k)
        PROVE  ChainSound(tradeLog', listed', tradeNonce') /\ Grown(tradeLog, tradeLog')
    <2> DEFINE e == Entry("created", k, tradeNonce + 1)
    <2>1. e \in TradeEntries /\ <<e>> \in Seq(TradeEntries)
      BY <1>0 DEF Entry, TradeEntries
    <2>2. List(k, <<e>>) /\ tradeNonce' = tradeNonce + 1
      BY <1>1 DEF ChainList, List, TakesNonce
    <2> HIDE DEF e
    <2>3. PICK log, open : /\ ChainSound(log, open, tradeNonce) /\ Grown(tradeLog, log)
                           /\ open[k] = NoNonce /\ tradeLog' = log \o <<e>>
                           /\ listed' = [open EXCEPT ![k] = tradeNonce + 1]
      BY <2>1, <2>2, ListingClears
    <2>4. tradeLog' = Append(log, e) /\ Grown(log, tradeLog')
      BY <2>1, <2>3, GrownByOne DEF ChainSound
    <2>5. ChainSound(Append(log, e), [open EXCEPT ![k] = tradeNonce + 1], tradeNonce + 1)
      BY <2>3, ListingIsSound DEF e
    <2> QED
      BY <2>2, <2>3, <2>4, <2>5, GrownTwice
  <1>2. ASSUME NEW k \in Keys, ChainListUnannounced(k)
        PROVE  ChainSound(tradeLog', listed', tradeNonce') /\ Grown(tradeLog, tradeLog')
    <2>1. List(k, <<>>) /\ tradeNonce' = tradeNonce + 1 /\ <<>> \in Seq(TradeEntries)
      BY <1>2 DEF ChainListUnannounced, List, TakesNonce
    <2>2. PICK log, open : /\ ChainSound(log, open, tradeNonce) /\ Grown(tradeLog, log)
                           /\ open[k] = NoNonce /\ tradeLog' = log \o <<>>
                           /\ listed' = [open EXCEPT ![k] = tradeNonce + 1]
      BY <2>1, ListingClears
    <2>3. tradeLog' = log
      BY <2>2 DEF Grown
    <2>4. ChainSound(log, [open EXCEPT ![k] = tradeNonce + 1], tradeNonce + 1)
      BY <2>2, UnannouncedIsSound
    <2> QED
      BY <2>1, <2>2, <2>3, <2>4
  <1>3. ASSUME NEW k \in Keys, NEW kind \in {"completed", "cancelled"}, ChainClose(k, kind)
        PROVE  ChainSound(tradeLog', listed', tradeNonce') /\ Grown(tradeLog, tradeLog')
    <2> DEFINE e == Entry(kind, k, listed[k])
    <2>1. /\ e \in TradeEntries /\ e.kind # "created" /\ Closes(e) /\ e.key = k /\ e.nonce = listed[k]
      BY <1>0 DEF Entry, TradeEntries, Closes
    <2>2. /\ tradeLog' = tradeLog \o <<e>> /\ tradeNonce' = tradeNonce /\ listed[k] # NoNonce
          /\ listed' = [listed EXCEPT ![k] = NoNonce]
      BY <1>3 DEF ChainClose, Emit
    <2>3. /\ listed' \in [Keys -> Nat]
          /\ \A l \in Keys : listed'[l] = IF l = k THEN NoNonce ELSE listed[l]
      BY <1>0, <2>2 DEF NoNonce
    <2> HIDE DEF e
    <2>4. tradeLog' = Append(tradeLog, e) /\ Grown(tradeLog, tradeLog')
      BY <1>0, <2>1, <2>2, GrownByOne
    <2>5. \A l \in Keys : listed'[l] = IF Closes(e) /\ e.key = l THEN NoNonce ELSE listed[l]
      BY <2>1, <2>3
    <2>6. tradeNonce <= tradeNonce
      BY <1>0
    <2>7. ChainSound(Append(tradeLog, e), listed', tradeNonce)
      BY <1>0, <2>1, <2>2, <2>3, <2>5, <2>6, OtherEntryIsSound
    <2> QED
      BY <2>2, <2>4, <2>7
  <1>4. ASSUME NEW kind \in {"indexed", "logged", "foreign"}, ChainOther(kind)
        PROVE  ChainSound(tradeLog', listed', tradeNonce') /\ Grown(tradeLog, tradeLog')
    <2> DEFINE e == Entry(kind, NoKey, NoNonce)
    <2>1. e \in TradeEntries /\ e.kind # "created" /\ ~Closes(e)
      BY DEF Entry, TradeEntries, Closes, NoNonce
    <2>2. tradeLog' = tradeLog \o <<e>> /\ listed' = listed
      BY <1>4 DEF ChainOther, Emit
    <2>3. tradeNonce' \in Nat /\ tradeNonce <= tradeNonce'
      BY <1>0, <1>4 DEF ChainOther, TakesNonce
    <2>4. \A l \in Keys : listed[l] = IF Closes(e) /\ e.key = l THEN NoNonce ELSE listed[l]
      BY <2>1
    <2> HIDE DEF e
    <2>5. tradeLog' = Append(tradeLog, e) /\ Grown(tradeLog, tradeLog')
      BY <1>0, <2>1, <2>2, GrownByOne
    <2>6. ChainSound(Append(tradeLog, e), listed, tradeNonce')
      BY <1>0, <2>1, <2>3, <2>4, OtherEntryIsSound
    <2> QED
      BY <2>2, <2>5, <2>6
  <1>5. UNCHANGED <<tradeCursor, tradeRows, job, tradeFaults, lossless>>
    BY DEF TradeChain, ChainList, ChainListUnannounced, List, ChainClose, ChainOther, Emit
  <1> QED
    BY <1>1, <1>2, <1>3, <1>4, <1>5 DEF TradeChain

-----------------------------------------------------------------------------
(* The trade scanner: its inductive invariant.                               *)

TradeRecs == [key : Keys, nonce : Nat, completed : BOOLEAN, canceled : BOOLEAN]
UploadSteps == {"accounts", "nonce", "upload"}
Jobs == [pc : {"idle", "logs"} \cup UploadSteps, pos : Nat, top : Nat,
         found : Seq(TradeRecs), floating : BOOLEAN]

MarksTold(log, t) == /\ t.completed => ToldClosed(log, "completed", t.key, t.nonce)
                     /\ t.canceled => ToldClosed(log, "cancelled", t.key, t.nonce)
ListedBy(log, c, t) == \E q \in 1 .. c : log[q] = Entry("created", t.key, t.nonce)

\* Every record is a listing of the first c entries, no two of the same one.
RecordsSound(log, c, recs) ==
    /\ recs \in Seq(TradeRecs)
    /\ \A i \in 1 .. Len(recs) : ListedBy(log, c, recs[i]) /\ MarksTold(log, recs[i])
    /\ \A i, j \in 1 .. Len(recs) : recs[i].nonce = recs[j].nonce => i = j

OncePerKey(found) == \A i, j \in 1 .. Len(found) : found[i].key = found[j].key => i = j

\* The map of a scan that has read the entries c + 1 .. p holds the last
\* listing of every NFT listed there, and top is not before any of them.
ReadingSound(log, c, p, top, found) ==
    /\ found \in Seq(TradeRecs) /\ c \in Nat /\ p \in c .. Len(log)
    /\ top = 0 \/ top \in c + 1 .. p
    /\ \A i \in 1 .. Len(found) :
          /\ \E q \in c + 1 .. p : ListedAt(log, found[i].key, found[i].nonce, p, q)
          /\ MarksTold(log, found[i])
    /\ OncePerKey(found)
    /\ \A q \in c + 1 .. p : log[q].kind = "created" =>
          q <= top /\ \E i \in 1 .. Len(found) : found[i].key = log[q].key

\* What is about to be uploaded is listed after every row of the table.
UploadSound(log, c, rows, found) ==
    /\ RecordsSound(log, c, found)
    /\ \A i \in 1 .. Len(found), j \in 1 .. Len(rows) : rows[j].nonce < found[i].nonce

Holds(recs, n) == \E i \in 1 .. Len(recs) : recs[i].nonce = n

\* No listing up to the cursor is lost.
KeepsAll(log, c, rows, pending) ==
    \A j \in 1 .. c : log[j].kind = "created" =>
        \/ Holds(rows, log[j].nonce) \/ Holds(pending, log[j].nonce)
        \/ \E n \in j + 1 .. c : Creates(log[n], log[j].key)

Pending(j) == IF j.pc \in UploadSteps THEN j.found ELSE <<>>

TradeScanInv ==
    /\ ChainSound(tradeLog, listed, tradeNonce)
    /\ job \in Jobs /\ tradeCursor \in 0 .. Len(tradeLog)
    /\ RecordsSound(tradeLog, tradeCursor, tradeRows)
    /\ job.pc = "logs" => ReadingSound(tradeLog, tradeCursor, job.pos, job.top, job.found)
    /\ job.pc \in UploadSteps => UploadSound(tradeLog, tradeCursor, tradeRows, job.found)
    /\ lossless => KeepsAll(tradeLog, tradeCursor, tradeRows, Pending(job))

\* What the scanner holds stays sound when the log grows.
LEMMA MarksStay ==
    ASSUME NEW log, NEW more, Grown(log, more), NEW t, MarksTold(log, t)
    PROVE  MarksTold(more, t)
  <1>1. /\ DOMAIN log = 1 .. Len(log) /\ DOMAIN more = 1 .. Len(more) /\ Len(log) \in Nat
        /\ Len(more) \in Nat /\ \A j \in 1 .. Len(log) : more[j] = log[j] /\ j \in 1 .. Len(more)
    BY DEF Grown
  <1>2. ASSUME NEW kind, NEW k, NEW n, ToldClosed(log, kind, k, n) PROVE ToldClosed(more, kind, k, n)
    <2>1. PICK i \in 1 .. Len(log), j \in 1 .. Len(log) :
              /\ i < j /\ log[i] = Entry("created", k, n)
              /\ log[j].kind = kind /\ log[j].key = k /\ log[j].nonce >= n
              /\ \A between \in i + 1 .. j - 1 : ~Announces(log[between], k)
      BY <1>1, <1>2 DEF ToldClosed
    <2>2. \A between \in i + 1 .. j - 1 : more[between] = log[between]
      BY <1>1
    <2> QED
      BY <1>1, <2>1, <2>2 DEF ToldClosed
  <1> QED
    BY <1>2 DEF MarksTold

LEMMA RecordsStay ==
    ASSUME NEW log, NEW more, Grown(log, more), NEW c \in 0 .. Len(log), NEW recs,
           RecordsSound(log, c, recs)
    PROVE  RecordsSound(more, c, recs)
  <1>1. ASSUME NEW i \in 1 .. Len(recs) PROVE ListedBy(more, c, recs[i]) /\ MarksTold(more, recs[i])
    <2>1. ListedBy(log, c, recs[i]) /\ MarksTold(log, recs[i])
      BY DEF RecordsSound
    <2>2. PICK q \in 1 .. c : log[q] = Entry("created", recs[i].key, recs[i].nonce)
      BY <2>1 DEF ListedBy
    <2>3. Len(log) \in Nat
      BY DEF Grown
    <2>4. more[q] = log[q]
      BY <2>3 DEF Grown
    <2> QED
      BY <2>1, <2>2, <2>4, MarksStay DEF ListedBy
  <1> QED
    BY <1>1 DEF RecordsSound

LEMMA ReadingStays ==
    ASSUME NEW log, NEW more, Grown(log, more), NEW c, NEW p, NEW top, NEW found,
           ReadingSound(log, c, p, top, found)
    PROVE  ReadingSound(more, c, p, top, found)
  <1>1. c \in Nat /\ p \in c .. Len(log) /\ Len(log) \in Nat /\ Len(more) \in Nat
    BY DEF ReadingSound, Grown
  <1>2. p \in c .. Len(more) /\ \A q \in c + 1 .. p : more[q] = log[q]
    BY <1>1 DEF Grown
  <1>3. ASSUME NEW i \in 1 .. Len(found)
        PROVE  /\ \E q \in c + 1 .. p : ListedAt(more, found[i].key, found[i].nonce, p, q)
               /\ MarksTold(more, found[i])
    <2>1. PICK q \in c + 1 .. p : ListedAt(log, found[i].key, found[i].nonce, p, q)
      BY DEF ReadingSound
    <2>2. \A l \in q + 1 .. p : l \in c + 1 .. p
      BY <1>1
    <2>3. ListedAt(more, found[i].key, found[i].nonce, p, q)
      BY <1>2, <2>1, <2>2 DEF ListedAt
    <2>4. MarksTold(log, found[i])
      BY DEF ReadingSound
    <2> QED
      BY <2>3, <2>4, MarksStay
  <1>4. \A q \in c + 1 .. p : more[q].kind = "created" =>
          q <= top /\ \E i \in 1 .. Len(found) : found[i].key = more[q].key
    BY <1>2 DEF ReadingSound
  <1> QED
    BY <1>2, <1>3, <1>4 DEF ReadingSound

LEMMA KeepsAllStays ==
    ASSUME NEW log, NEW more, Grown(log, more), NEW c \in 0 .. Len(log), NEW rows, NEW pending,
           KeepsAll(log, c, rows, pending)
    PROVE  KeepsAll(more, c, rows, pending)
  <1>1. Len(log) \in Nat /\ \A j \in 1 .. c : more[j] = log[j]
    BY DEF Grown
  <1>2. \A j \in 1 .. c : \A n \in j + 1 .. c : n \in 1 .. c
    BY <1>1
  <1> SUFFICES ASSUME NEW j \in 1 .. c, more[j].kind = "created",
                      ~Holds(rows, more[j].nonce), ~Holds(pending, more[j].nonce)
               PROVE  \E n \in j + 1 .. c : Creates(more[n], more[j].key)
    BY DEF KeepsAll
  <1>3. more[j] = log[j]
    BY <1>1
  <1>4. PICK n \in j + 1 .. c : Creates(log[n], log[j].key)
    BY <1>3 DEF KeepsAll
  <1>5. more[n] = log[n]
    BY <1>1, <1>2
  <1> QED
    BY <1>3, <1>4, <1>5

LEMMA TradeScanInit == TradeScannerInit => TradeScanInv
  <1> SUFFICES ASSUME TradeScannerInit PROVE TradeScanInv
    OBVIOUS
  <1> USE DEF TradeScannerInit
  <1>1. <<>> \in Seq(TradeEntries) /\ <<>> \in Seq(TradeRecs) /\ Len(<<>>) = 0
    OBVIOUS
  <1>2. ChainSound(tradeLog, listed, tradeNonce)
    BY <1>1 DEF ChainSound, OpenAt, NoNonce
  <1>3. job \in Jobs /\ job.pc = "idle"
    BY <1>1 DEF NoJob, Jobs
  <1>4. RecordsSound(tradeLog, tradeCursor, tradeRows)
    BY <1>1 DEF RecordsSound
  <1>5. KeepsAll(tradeLog, tradeCursor, tradeRows, Pending(job))
    BY DEF KeepsAll
  <1> QED
    BY <1>1, <1>2, <1>3, <1>4, <1>5 DEF TradeScanInv, UploadSteps

\* The contract works on, whatever a scan is doing.
LEMMA ChainKeepsScan == TradeScanInv /\ TradeChain => TradeScanInv'
  <1> SUFFICES ASSUME TradeScanInv, TradeChain PROVE TradeScanInv'
    OBVIOUS
  <1>1. /\ ChainSound(tradeLog', listed', tradeNonce') /\ Grown(tradeLog, tradeLog')
        /\ UNCHANGED <<tradeCursor, tradeRows, job, tradeFaults, lossless>>
    BY ChainStep DEF TradeScanInv
  <1>2. tradeCursor \in 0 .. Len(tradeLog)
    BY DEF TradeScanInv
  <1>3. tradeCursor \in 0 .. Len(tradeLog')
    BY <1>1, <1>2 DEF Grown
  <1>4. RecordsSound(tradeLog', tradeCursor, tradeRows)
    BY <1>1, <1>2, RecordsStay DEF TradeScanInv
  <1>5. job.pc = "logs" => ReadingSound(tradeLog', tradeCursor, job.pos, job.top, job.found)
    BY <1>1, ReadingStays DEF TradeScanInv
  <1>6. job.pc \in UploadSteps => UploadSound(tradeLog', tradeCursor, tradeRows, job.found)
    BY <1>1, <1>2, RecordsStay DEF TradeScanInv, UploadSound
  <1>7. lossless => KeepsAll(tradeLog', tradeCursor, tradeRows, Pending(job))
    BY <1>1, <1>2, KeepsAllStays, Zenon DEF TradeScanInv
  <1>8. tradeCursor' = tradeCursor /\ tradeRows' = tradeRows /\ job' = job /\ (lossless' <=> lossless)
    BY <1>1, Zenon
  <1>9. job \in Jobs /\ Pending(job') = Pending(job)
    BY <1>8 DEF TradeScanInv, Pending
  <1> QED
    BY <1>1, <1>3, <1>4, <1>5, <1>6, <1>7, <1>8, <1>9, Zenon DEF TradeScanInv

-----------------------------------------------------------------------------
(* One entry of the log and the map of trades.                               *)

\* The record new is the record old, after the entry e of its NFT or another.
Remains(new, old, e) ==
    /\ new.key = old.key /\ new.nonce = old.nonce /\ ~Creates(e, old.key)
    /\ new.completed <=> old.completed \/ (e.kind = "completed" /\ e.key = old.key)
    /\ new.canceled <=> old.canceled \/ (e.kind = "cancelled" /\ e.key = old.key)

Applied(found, e, after) ==
    /\ after \in Seq(TradeRecs) /\ OncePerKey(after)
    /\ \A i \in 1 .. Len(after) :
          \/ e.kind = "created" /\ after[i] = Trade(e.key, e.nonce)
          \/ \E j \in 1 .. Len(found) : Remains(after[i], found[j], e)
    /\ \A j \in 1 .. Len(found) : \E i \in 1 .. Len(after) : after[i].key = found[j].key
    /\ e.kind = "created" => \E i \in 1 .. Len(after) : after[i].key = e.key

LEMMA PutIsApplied ==
    ASSUME NEW found \in Seq(TradeRecs), OncePerKey(found),
           NEW e \in TradeEntries, e.kind = "created", e.key \in Keys
    PROVE  Applied(found, e, PutTrade(found, Trade(e.key, e.nonce)))
  <1> DEFINE t == Trade(e.key, e.nonce)
             after == PutTrade(found, t)
  <1>1. /\ t \in TradeRecs /\ t.key = e.key
    BY DEF Trade, TradeRecs, TradeEntries
  <1>2. t = Trade(e.key, e.nonce)
    OBVIOUS
  <1>3. /\ Len(found) \in Nat /\ DOMAIN found = 1 .. Len(found)
        /\ \A i \in 1 .. Len(found) : found[i] \in TradeRecs
    OBVIOUS
  <1> HIDE DEF t
  <1>4. ASSUME NEW r, r.key # e.key PROVE Remains(r, r, e)
    BY <1>4, Zenon DEF Remains, Creates
  <1>5. CASE \E i \in DOMAIN found : found[i].key = t.key
    <2>1. after = [i \in DOMAIN found |-> IF found[i].key = t.key THEN t ELSE found[i]]
      BY <1>5 DEF PutTrade
    <2> HIDE DEF after
    <2>2. after \in Seq(TradeRecs) /\ Len(after) = Len(found)
      BY <1>1, <1>3, <2>1
    <2>3. \A i \in 1 .. Len(found) : after[i] = IF found[i].key = t.key THEN t ELSE found[i]
      BY <1>3, <2>1
    <2>4. \A i \in 1 .. Len(found) : after[i].key = found[i].key
      BY <2>3
    <2>5. OncePerKey(after)
      BY <2>2, <2>4 DEF OncePerKey
    <2>6. ASSUME NEW i \in 1 .. Len(after)
          PROVE  after[i] = t \/ \E j \in 1 .. Len(found) : Remains(after[i], found[j], e)
      BY <1>1, <1>4, <2>2, <2>3
    <2>7. \E i \in 1 .. Len(after) : after[i].key = e.key
      BY <1>1, <1>3, <1>5, <2>2, <2>4
    <2>8. Applied(found, e, after)
      BY <1>2, <2>2, <2>4, <2>5, <2>6, <2>7 DEF Applied
    <2> QED
      BY <1>2, <2>8 DEF after
  <1>6. CASE ~\E i \in DOMAIN found : found[i].key = t.key
    <2>1. after = Append(found, t)
      BY <1>6 DEF PutTrade
    <2> HIDE DEF after
    <2>2. /\ after \in Seq(TradeRecs) /\ Len(after) = Len(found) + 1 /\ after[Len(found) + 1] = t
          /\ \A i \in 1 .. Len(found) : after[i] = found[i] /\ found[i].key # e.key
      BY <1>1, <1>3, <1>6, <2>1
    <2>3. \A i \in 1 .. Len(after) : i \in 1 .. Len(found) \/ i = Len(found) + 1
      BY <1>3, <2>2
    <2>4. OncePerKey(after)
      <3> SUFFICES ASSUME NEW i \in 1 .. Len(after), NEW j \in 1 .. Len(after),
                          after[i].key = after[j].key
                   PROVE  i = j
        BY DEF OncePerKey
      <3> QED
        BY <1>1, <2>2, <2>3 DEF OncePerKey
    <2>5. ASSUME NEW i \in 1 .. Len(after)
          PROVE  after[i] = t \/ \E j \in 1 .. Len(found) : Remains(after[i], found[j], e)
      BY <1>4, <2>2, <2>3
    <2>6. \A j \in 1 .. Len(found) : \E i \in 1 .. Len(after) : after[i].key = found[j].key
      BY <1>3, <2>2
    <2>7. \E i \in 1 .. Len(after) : after[i].key = e.key
      BY <1>1, <1>3, <2>2
    <2>8. Applied(found, e, after)
      BY <1>2, <2>2, <2>4, <2>5, <2>6, <2>7 DEF Applied
    <2> QED
      BY <1>2, <2>8 DEF after
  <1> QED
    BY <1>5, <1>6

LEMMA CloseIsApplied ==
    ASSUME NEW found \in Seq(TradeRecs), OncePerKey(found),
           NEW e \in TradeEntries, Closes(e)
    PROVE  Applied(found, e, CloseTrade(found, e.key, e.kind))
  <1> DEFINE after == CloseTrade(found, e.key, e.kind)
  <1>1. /\ Len(found) \in Nat /\ DOMAIN found = 1 .. Len(found)
        /\ \A i \in 1 .. Len(found) : found[i] \in TradeRecs
    OBVIOUS
  <1>2. \A i \in 1 .. Len(found) : after[i] =
           IF found[i].key # e.key THEN found[i]
           ELSE IF e.kind = "completed" THEN [found[i] EXCEPT !.completed = TRUE]
           ELSE [found[i] EXCEPT !.canceled = TRUE]
    BY <1>1 DEF CloseTrade
  <1>3. ASSUME NEW i \in 1 .. Len(found)
        PROVE  after[i] \in TradeRecs /\ Remains(after[i], found[i], e)
    <2>1. found[i] \in TradeRecs
      BY <1>1
    <2>2. e.kind = "completed" \/ e.kind = "cancelled"
      BY DEF Closes
    <2> HIDE DEF after
    <2>3. CASE found[i].key # e.key
      BY <1>2, <2>1, <2>3, Zenon DEF Remains, Creates
    <2>4. CASE found[i].key = e.key /\ e.kind = "completed"
      <3>1. after[i] = [found[i] EXCEPT !.completed = TRUE]
        BY <1>2, <2>4
      <3>2. /\ after[i] \in TradeRecs /\ after[i].key = found[i].key
            /\ after[i].nonce = found[i].nonce /\ after[i].completed = TRUE
            /\ after[i].canceled = found[i].canceled
        BY <2>1, <3>1 DEF TradeRecs
      <3> QED
        BY <2>4, <3>2 DEF Remains, Creates
    <2>5. CASE found[i].key = e.key /\ e.kind = "cancelled"
      <3>1. after[i] = [found[i] EXCEPT !.canceled = TRUE]
        BY <1>2, <2>5
      <3>2. /\ after[i] \in TradeRecs /\ after[i].key = found[i].key
            /\ after[i].nonce = found[i].nonce /\ after[i].canceled = TRUE
            /\ after[i].completed = found[i].completed
        BY <2>1, <3>1 DEF TradeRecs
      <3> QED
        BY <2>5, <3>2 DEF Remains, Creates
    <2> QED
      BY <2>2, <2>3, <2>4, <2>5
  <1>4. after \in Seq(TradeRecs) /\ Len(after) = Len(found)
    <2>1. after = [i \in 1 .. Len(found) |-> after[i]]
      BY <1>1 DEF CloseTrade
    <2> HIDE DEF after
    <2> QED
      BY <1>1, <1>3, <2>1
  <1> HIDE DEF after
  <1>5. \A i \in 1 .. Len(found) : after[i].key = found[i].key
    BY <1>3 DEF Remains
  <1>6. OncePerKey(after)
    BY <1>4, <1>5 DEF OncePerKey
  <1>7. e.kind # "created"
    BY DEF Closes
  <1>8. Applied(found, e, after)
    BY <1>3, <1>4, <1>5, <1>6, <1>7 DEF Applied
  <1> QED
    BY <1>8 DEF after

LEMMA EntryIsApplied ==
    ASSUME NEW found \in Seq(TradeRecs), OncePerKey(found), NEW e \in TradeEntries,
           e.kind = "created" => e.key \in Keys
    PROVE  Applied(found, e, ApplyToLive(found, e))
  <1>1. CASE e.kind = "created"
    <2>1. ApplyToLive(found, e) = PutTrade(found, Trade(e.key, e.nonce))
      BY <1>1 DEF ApplyToLive
    <2> QED
      BY <1>1, <2>1, PutIsApplied
  <1>2. CASE Closes(e)
    <2>1. ApplyToLive(found, e) = CloseTrade(found, e.key, e.kind)
      BY <1>2 DEF ApplyToLive, Closes
    <2> QED
      BY <1>2, <2>1, CloseIsApplied
  <1>3. CASE e.kind # "created" /\ ~Closes(e)
    <2>1. ApplyToLive(found, e) = found
      BY <1>3 DEF ApplyToLive, Closes
    <2>2. ~\E k : Creates(e, k)
      BY <1>3 DEF Creates
    <2>3. \A j \in 1 .. Len(found) : Remains(found[j], found[j], e)
      BY <1>3, <2>2, Zenon DEF Remains, Closes
    <2> QED
      BY <1>3, <2>1, <2>3 DEF Applied
  <1> QED
    BY <1>1, <1>2, <1>3

\* An entry closes the listing the map holds, if it holds one, or one that has
\* taken its place unannounced.
LEMMA MarkIsTold ==
    ASSUME NEW log, NEW open, NEW count, ChainSound(log, open, count),
           NEW p \in Nat, p < Len(log), NEW q \in 1 .. p,
           NEW t, ListedAt(log, t.key, t.nonce, p, q), MarksTold(log, t),
           NEW r, Remains(r, t, log[p + 1])
    PROVE  MarksTold(log, r)
  <1> DEFINE e == log[p + 1]
  <1>1. log \in Seq(TradeEntries) /\ Len(log) \in Nat /\ DOMAIN log = 1 .. Len(log)
    BY DEF ChainSound
  <1>2. p + 1 \in 1 .. Len(log) /\ q \in 1 .. Len(log) /\ e \in TradeEntries
    BY <1>1
  <1>3. ASSUME Closes(e), e.key = t.key PROVE ToldClosed(log, e.kind, t.key, t.nonce)
    <2>1. Covers(log, e.key, e.nonce, p)
      <3>1. Covers(log, e.key, e.nonce, (p + 1) - 1)
        BY <1>2, <1>3 DEF ChainSound
      <3>2. (p + 1) - 1 = p
        OBVIOUS
      <3> QED
        BY <3>1, <3>2
    <2>2. /\ log[q] = Entry("created", t.key, t.nonce)
          /\ \A l \in q + 1 .. p : ~Announces(log[l], t.key)
      BY DEF ListedAt, Creates, Announces
    <2>3. Creates(log[q], t.key) /\ log[q].nonce = t.nonce
      BY <2>2 DEF Creates, Entry
    <2> HIDE DEF e
    <2>4. log[q].nonce \in Nat /\ e.nonce \in Nat
      <3>1. log[q] \in TradeEntries
        BY <1>1, <1>2
      <3> QED
        BY <1>2, <3>1 DEF TradeEntries
    <2>5. e.nonce >= t.nonce
      BY <1>3, <2>1, <2>3, <2>4 DEF Covers
    <2>6. (p + 1) - 1 = p /\ q < p + 1
      OBVIOUS
    <2> QED
      BY <1>1, <1>2, <1>3, <2>2, <2>5, <2>6 DEF ToldClosed, e
  <1> HIDE DEF e
  <1>4. Remains(r, t, e)
    BY DEF e
  <1>5. ASSUME r.completed PROVE ToldClosed(log, "completed", r.key, r.nonce)
    <2>1. t.completed \/ (e.kind = "completed" /\ e.key = t.key)
      BY <1>4, <1>5, Zenon DEF Remains
    <2>2. CASE t.completed
      BY <1>4, <2>2, Zenon DEF Remains, MarksTold
    <2>3. CASE e.kind = "completed" /\ e.key = t.key
      BY <1>3, <1>4, <2>3, Zenon DEF Closes, Remains
    <2> QED
      BY <2>1, <2>2, <2>3
  <1>6. ASSUME r.canceled PROVE ToldClosed(log, "cancelled", r.key, r.nonce)
    <2>1. t.canceled \/ (e.kind = "cancelled" /\ e.key = t.key)
      BY <1>4, <1>6, Zenon DEF Remains
    <2>2. CASE t.canceled
      BY <1>4, <2>2, Zenon DEF Remains, MarksTold
    <2>3. CASE e.kind = "cancelled" /\ e.key = t.key
      BY <1>3, <1>4, <2>3, Zenon DEF Closes, Remains
    <2> QED
      BY <2>1, <2>2, <2>3
  <1> QED
    BY <1>5, <1>6, Zenon DEF MarksTold

\* The map and the position of a scan, one entry later.
LEMMA ReadOneMore ==
    ASSUME NEW log, NEW open, NEW count, ChainSound(log, open, count),
           NEW c, NEW p, NEW top, NEW found, ReadingSound(log, c, p, top, found), p < Len(log),
           NEW after, Applied(found, log[p + 1], after)
    PROVE  ReadingSound(log, c, p + 1,
                        IF log[p + 1].kind = "indexed" THEN top ELSE p + 1, after)
  <1> DEFINE e == log[p + 1]
             top1 == IF e.kind = "indexed" THEN top ELSE p + 1
  <1>1. log \in Seq(TradeEntries) /\ Len(log) \in Nat /\ c \in Nat /\ p \in c .. Len(log)
    BY DEF ChainSound, ReadingSound
  <1>2. /\ p \in Nat /\ p + 1 \in c .. Len(log) /\ p + 1 \in 1 .. Len(log) /\ e \in TradeEntries
        /\ \A q \in c + 1 .. p : q \in 1 .. p /\ q \in c + 1 .. p + 1
        /\ \A q \in c + 1 .. p + 1 : q \in c + 1 .. p \/ q = p + 1
    BY <1>1
  <1>3. top1 = 0 \/ top1 \in c + 1 .. p + 1
    BY <1>1 DEF ReadingSound
  <1>4. Applied(found, e, after) /\ e = log[p + 1]
    OBVIOUS
  <1> HIDE DEF e
  <1>5. ASSUME NEW i \in 1 .. Len(after)
        PROVE  /\ \E q \in c + 1 .. p + 1 : ListedAt(log, after[i].key, after[i].nonce, p + 1, q)
               /\ MarksTold(log, after[i])
    <2>1. CASE e.kind = "created" /\ after[i] = Trade(e.key, e.nonce)
      <3>1. /\ after[i].key = e.key /\ after[i].nonce = e.nonce
            /\ after[i].completed = FALSE /\ after[i].canceled = FALSE
        BY <2>1 DEF Trade
      <3>2. e = Entry("created", after[i].key, after[i].nonce)
        BY <1>2, <2>1, <3>1 DEF TradeEntries, Entry
      <3>3. ListedAt(log, after[i].key, after[i].nonce, p + 1, p + 1)
        BY <1>2, <1>4, <3>2 DEF ListedAt
      <3>4. p + 1 \in c + 1 .. p + 1
        BY <1>1
      <3> QED
        BY <3>1, <3>3, <3>4 DEF MarksTold
    <2>2. CASE \E j \in 1 .. Len(found) : Remains(after[i], found[j], e)
      <3>1. PICK j \in 1 .. Len(found) : Remains(after[i], found[j], e)
        BY <2>2
      <3>2. PICK q \in c + 1 .. p : ListedAt(log, found[j].key, found[j].nonce, p, q)
        BY DEF ReadingSound
      <3>3. MarksTold(log, found[j])
        BY DEF ReadingSound
      <3>4. MarksTold(log, after[i])
        BY <1>2, <1>4, <3>1, <3>2, <3>3, MarkIsTold
      <3>5. after[i].key = found[j].key /\ after[i].nonce = found[j].nonce /\ ~Creates(e, found[j].key)
        BY <3>1, Zenon DEF Remains
      <3>6. \A l \in q + 1 .. p + 1 : ~Creates(log[l], found[j].key)
        <4> TAKE l \in q + 1 .. p + 1
        <4>1. l \in q + 1 .. p \/ l = p + 1
          BY <1>2, <3>2
        <4> QED
          BY <1>4, <3>2, <3>5, <4>1 DEF ListedAt
      <3>7. ListedAt(log, after[i].key, after[i].nonce, p + 1, q)
        BY <3>2, <3>5, <3>6 DEF ListedAt
      <3> QED
        BY <1>2, <3>2, <3>4, <3>7
    <2> QED
      BY <1>4, <2>1, <2>2 DEF Applied
  <1>6. ASSUME NEW q \in c + 1 .. p + 1, log[q].kind = "created"
        PROVE  q <= top1 /\ \E i \in 1 .. Len(after) : after[i].key = log[q].key
    <2>1. CASE q = p + 1
      <3>1. e.kind = "created" /\ log[q].key = e.key
        BY <1>4, <1>6, <2>1
      <3> QED
        BY <1>1, <1>4, <2>1, <3>1 DEF Applied
    <2>2. CASE q \in c + 1 .. p
      <3>1. q <= top /\ \E i \in 1 .. Len(found) : found[i].key = log[q].key
        BY <1>6, <2>2 DEF ReadingSound
      <3>2. \E i \in 1 .. Len(after) : after[i].key = log[q].key
        BY <1>4, <3>1 DEF Applied
      <3>3. q <= top1
        BY <1>1, <2>2, <3>1
      <3> QED
        BY <3>2, <3>3
    <2> QED
      BY <1>2, <2>1, <2>2
  <1> HIDE DEF top1
  <1>7. ReadingSound(log, c, p + 1, top1, after)
    BY <1>1, <1>2, <1>3, <1>4, <1>5, <1>6 DEF ReadingSound, Applied
  <1> QED
    BY <1>7 DEF top1, e

-----------------------------------------------------------------------------
(* The steps of a scan.                                                      *)

LEMMA StartKeepsScan == TradeScanInv /\ StartTradeScan => TradeScanInv'
  <1> SUFFICES ASSUME TradeScanInv, StartTradeScan PROVE TradeScanInv'
    OBVIOUS
  <1>1. /\ tradeLog' = tradeLog /\ listed' = listed /\ tradeNonce' = tradeNonce
        /\ tradeCursor' = tradeCursor /\ tradeRows' = tradeRows /\ (lossless' <=> lossless)
    BY Zenon DEF StartTradeScan, chainVars
  <1>2. /\ tradeLog \in Seq(TradeEntries) /\ Len(tradeLog) \in Nat
        /\ tradeCursor \in 0 .. Len(tradeLog) /\ tradeCursor \in Nat
    BY DEF TradeScanInv, ChainSound
  <1>3. /\ job' \in Jobs /\ job'.pc = "logs" /\ job'.pos = tradeCursor /\ job'.top = 0
        /\ job'.found = <<>>
    <2>1. <<>> \in Seq(TradeRecs) /\ tradeCursor \in Nat
      BY <1>2
    <2>2. job' = [NoJob EXCEPT !.pc = "logs", !.pos = tradeCursor]
      BY DEF StartTradeScan, LastTimestamp
    <2>3. NoJob \in Jobs
      BY <2>1 DEF NoJob, Jobs
    <2>4. job' \in Jobs
      BY <2>1, <2>2, <2>3 DEF Jobs
    <2> QED
      BY <2>2, <2>4 DEF NoJob
  <1>4. <<>> \in Seq(TradeRecs) /\ Len(<<>>) = 0
    OBVIOUS
  <1>5. ReadingSound(tradeLog, tradeCursor, tradeCursor, 0, <<>>)
    BY <1>2, <1>4 DEF ReadingSound, OncePerKey
  <1>6. Pending(job') = Pending(job) /\ job'.pc \notin UploadSteps
    BY <1>3 DEF StartTradeScan, Pending, UploadSteps
  <1> QED
    BY <1>1, <1>3, <1>5, <1>6, Zenon DEF TradeScanInv

LEMMA AbortKeepsScan == TradeScanInv /\ Abort /\ UNCHANGED chainVars => TradeScanInv'
  <1> SUFFICES ASSUME TradeScanInv, Abort, UNCHANGED chainVars PROVE TradeScanInv'
    OBVIOUS
  <1>1. /\ tradeLog' = tradeLog /\ listed' = listed /\ tradeNonce' = tradeNonce
        /\ tradeCursor' = tradeCursor /\ tradeRows' = tradeRows
    BY Zenon DEF Abort, chainVars
  <1>2. lossless' => lossless /\ job.pc = "logs"
    BY Zenon DEF Abort
  <1>3. job' \in Jobs /\ job'.pc = "idle"
    BY DEF Abort, NoJob, Jobs
  <1>4. Pending(job') = <<>> /\ (job.pc = "logs" => Pending(job) = <<>>) /\ job'.pc \notin UploadSteps
    BY <1>3 DEF Pending, UploadSteps
  <1>5. lossless' => KeepsAll(tradeLog, tradeCursor, tradeRows, Pending(job'))
    BY <1>2, <1>4 DEF TradeScanInv
  <1>6. job'.pc # "logs"
    BY <1>3
  <1> QED
    BY <1>1, <1>3, <1>4, <1>5, <1>6, Zenon DEF TradeScanInv

LEMMA ReadKeepsScan == TradeScanInv /\ ReadTradeEntry => TradeScanInv'
  <1> SUFFICES ASSUME TradeScanInv, ReadTradeEntry PROVE TradeScanInv'
    OBVIOUS
  <1> DEFINE e == tradeLog[job.pos + 1]
  <1>0. /\ tradeLog \in Seq(TradeEntries) /\ job \in Jobs /\ job.pc = "logs"
        /\ job.pos < Len(tradeLog) /\ UNCHANGED chainVars
    BY DEF TradeScanInv, ChainSound, ReadTradeEntry
  <1>1. CASE e.kind = "foreign"
    <2>1. Abort
      BY <1>1 DEF ReadTradeEntry
    <2> QED
      BY <1>0, <2>1, AbortKeepsScan
  <1>2. CASE e.kind # "foreign"
    <2>1. job' = Absorb(e) /\ UNCHANGED <<tradeCursor, tradeRows, lossless>>
      BY <1>2 DEF ReadTradeEntry
    <2>2. /\ job.pos \in Nat /\ job.pos + 1 \in 1 .. Len(tradeLog) /\ e \in TradeEntries
          /\ job.found \in Seq(TradeRecs)
      BY <1>0 DEF Jobs
    <2>3. e.kind = "created" => e.key \in Keys
      BY <2>2 DEF TradeScanInv, ChainSound
    <2>4. ReadingSound(tradeLog, tradeCursor, job.pos, job.top, job.found)
      BY <1>0 DEF TradeScanInv
    <2> DEFINE after == ApplyToLive(job.found, e)
    <2>5. Applied(job.found, e, after)
      <3>1. OncePerKey(job.found)
        BY <2>4 DEF ReadingSound
      <3> HIDE DEF e
      <3> QED
        BY <2>2, <2>3, <3>1, EntryIsApplied
    <2>6. job' = [job EXCEPT !.pos = job.pos + 1,
                             !.top = IF e.kind = "indexed" THEN job.top ELSE job.pos + 1,
                             !.found = after,
                             !.floating = job.floating \/ (e.kind \in {"completed", "cancelled"}
                                                             /\ ~HasTrade(job.found, e.key))]
      <3> HIDE DEF e
      <3> QED
        BY <1>0, <2>1, Zenon DEF Absorb, ApplyToLive
    <2>7. ReadingSound(tradeLog, tradeCursor, job.pos + 1,
                       IF e.kind = "indexed" THEN job.top ELSE job.pos + 1, after)
      BY <1>0, <2>4, <2>5, ReadOneMore DEF TradeScanInv
    <2> DEFINE fl == job.floating \/ (e.kind \in {"completed", "cancelled"}
                                        /\ ~HasTrade(job.found, e.key))
    <2>8. fl \in BOOLEAN
      OBVIOUS
    <2> HIDE DEF e, after, fl
    <2>9. after \in Seq(TradeRecs)
      BY <2>5 DEF Applied
    <2>10. /\ job' \in Jobs /\ job'.pc = "logs" /\ job'.pos = job.pos + 1 /\ job'.found = after
           /\ job'.top = IF e.kind = "indexed" THEN job.top ELSE job.pos + 1
      <3>1. job' = [job EXCEPT !.pos = job.pos + 1,
                               !.top = IF e.kind = "indexed" THEN job.top ELSE job.pos + 1,
                               !.found = after, !.floating = fl]
        BY <2>6 DEF fl
      <3> QED
        <4> DEFINE top1 == IF e.kind = "indexed" THEN job.top ELSE job.pos + 1
        <4>1. top1 \in Nat /\ job.pos + 1 \in Nat
          BY <1>0, <2>2 DEF Jobs
        <4>2. job' = [job EXCEPT !.pos = job.pos + 1, !.top = top1, !.found = after, !.floating = fl]
          BY <3>1
        <4> HIDE DEF top1
        <4>3. job' \in Jobs
          BY <1>0, <2>8, <2>9, <4>1, <4>2 DEF Jobs
        <4>4. job'.pc = "logs" /\ job'.pos = job.pos + 1 /\ job'.found = after /\ job'.top = top1
          BY <1>0, <4>2 DEF Jobs
        <4> QED
          BY <4>3, <4>4 DEF top1
    <2>11. Pending(job') = Pending(job) /\ job'.pc \notin UploadSteps
      BY <1>0, <2>10 DEF Pending, UploadSteps
    <2>12. /\ tradeLog' = tradeLog /\ listed' = listed /\ tradeNonce' = tradeNonce
           /\ tradeCursor' = tradeCursor /\ tradeRows' = tradeRows /\ (lossless' <=> lossless)
      BY <1>0, <2>1, Zenon DEF chainVars
    <2>13. ReadingSound(tradeLog, tradeCursor, job'.pos, job'.top, job'.found)
      BY <2>7, <2>10
    <2> QED
      BY <2>10, <2>11, <2>12, <2>13, Zenon DEF TradeScanInv
  <1> QED
    BY <1>1, <1>2

\* When the cursor is saved: what the map holds is sound to upload, and with
\* it nothing up to the new cursor is lost.
LEMMA ReadIsSoundToUpload ==
    ASSUME NEW log, NEW open, NEW count, ChainSound(log, open, count),
           NEW c, NEW p, NEW top, NEW found, ReadingSound(log, c, p, top, found),
           NEW rows, RecordsSound(log, c, rows)
    PROVE  LET c1 == IF top # 0 THEN top ELSE c
           IN  /\ c1 \in 0 .. Len(log) /\ RecordsSound(log, c1, rows)
               /\ UploadSound(log, c1, rows, found)
               /\ KeepsAll(log, c, rows, <<>>) => KeepsAll(log, c1, rows, found)
  <1> DEFINE c1 == IF top # 0 THEN top ELSE c
  <1>1. log \in Seq(TradeEntries) /\ Len(log) \in Nat /\ c \in Nat /\ p \in c .. Len(log)
    BY DEF ChainSound, ReadingSound
  <1>2. c1 \in c .. p /\ (top # 0 => c1 = top)
    BY <1>1 DEF ReadingSound
  <1>3. top = 0 => \A q \in c + 1 .. p : log[q].kind # "created"
    BY <1>1 DEF ReadingSound
  <1> HIDE DEF c1
  <1>4. /\ c1 \in 0 .. Len(log) /\ 1 .. c \subseteq 1 .. c1 /\ p \in Nat
        /\ \A q \in c + 1 .. p : q \in 1 .. Len(log) /\ q \in 1 .. p
        /\ \A q \in 1 .. c : q \in 1 .. Len(log)
    BY <1>1, <1>2
  <1>5. ASSUME NEW i \in 1 .. Len(found)
        PROVE  \E q \in c + 1 .. p : /\ ListedAt(log, found[i].key, found[i].nonce, p, q) /\ q \in 1 .. c1
                                     /\ log[q].kind = "created" /\ log[q].nonce = found[i].nonce
                                     /\ log[q].key = found[i].key
    <2>1. PICK q \in c + 1 .. p : ListedAt(log, found[i].key, found[i].nonce, p, q)
      BY DEF ReadingSound
    <2>2. /\ log[q].kind = "created" /\ log[q].nonce = found[i].nonce
          /\ log[q].key = found[i].key
      BY <2>1 DEF ListedAt, Entry
    <2>3. q <= top
      BY <2>2 DEF ReadingSound
    <2>4. q \in 1 .. c1
      BY <1>1, <1>2, <1>3, <2>2, <2>3
    <2> QED
      BY <2>1, <2>2, <2>4
  <1>6. RecordsSound(log, c1, rows)
    <2>1. \A i \in 1 .. Len(rows) : ListedBy(log, c1, rows[i])
      BY <1>4 DEF RecordsSound, ListedBy
    <2> QED
      BY <2>1 DEF RecordsSound
  <1>7. RecordsSound(log, c1, found)
    <2>1. ASSUME NEW i \in 1 .. Len(found) PROVE ListedBy(log, c1, found[i]) /\ MarksTold(log, found[i])
      <3>1. PICK q \in 1 .. c1 : ListedAt(log, found[i].key, found[i].nonce, p, q)
        BY <1>5
      <3> QED
        BY <3>1 DEF ListedBy, ListedAt, ReadingSound
    <2>2. ASSUME NEW i \in 1 .. Len(found), NEW j \in 1 .. Len(found), found[i].nonce = found[j].nonce
          PROVE  i = j
      <3>1. PICK q \in c + 1 .. p : log[q].kind = "created" /\ log[q].nonce = found[i].nonce
                                      /\ log[q].key = found[i].key
        BY <1>5
      <3>2. PICK r \in c + 1 .. p : log[r].kind = "created" /\ log[r].nonce = found[j].nonce
                                      /\ log[r].key = found[j].key
        BY <1>5
      <3>3. log[q].nonce \in Nat /\ log[r].nonce \in Nat
        <4>1. q \in 1 .. Len(log) /\ r \in 1 .. Len(log)
          BY <1>4
        <4>2. log[q] \in TradeEntries /\ log[r] \in TradeEntries
          BY <1>1, <4>1
        <4> QED
          BY <4>2 DEF TradeEntries
      <3>4. ~(q < r) /\ ~(r < q)
        BY <1>4, <2>2, <3>1, <3>2, <3>3 DEF ChainSound
      <3>5. q = r
        BY <1>1, <3>4
      <3> QED
        BY <3>1, <3>2, <3>5 DEF ReadingSound, OncePerKey
    <2> QED
      BY <2>1, <2>2 DEF RecordsSound, ReadingSound
  <1>8. ASSUME NEW i \in 1 .. Len(found), NEW j \in 1 .. Len(rows) PROVE rows[j].nonce < found[i].nonce
    <2>1. PICK q \in c + 1 .. p : log[q].kind = "created" /\ log[q].nonce = found[i].nonce
      BY <1>5
    <2>2. PICK r \in 1 .. c : log[r] = Entry("created", rows[j].key, rows[j].nonce)
      BY DEF RecordsSound, ListedBy
    <2>3. log[r].kind = "created" /\ log[r].nonce = rows[j].nonce
      BY <2>2 DEF Entry
    <2>4. r < q
      BY <1>1
    <2> QED
      BY <1>4, <2>1, <2>3, <2>4 DEF ChainSound
  <1>9. ASSUME KeepsAll(log, c, rows, <<>>) PROVE KeepsAll(log, c1, rows, found)
    <2> SUFFICES ASSUME NEW j \in 1 .. c1, log[j].kind = "created",
                        ~Holds(rows, log[j].nonce), ~Holds(found, log[j].nonce)
                 PROVE  \E n \in j + 1 .. c1 : Creates(log[n], log[j].key)
      BY DEF KeepsAll
    <2>1. CASE j \in 1 .. c
      <3>1. ~Holds(<<>>, log[j].nonce)
        BY DEF Holds
      <3>2. PICK n \in j + 1 .. c : Creates(log[n], log[j].key)
        BY <1>9, <2>1, <3>1 DEF KeepsAll
      <3>3. n \in j + 1 .. c1
        BY <1>1, <1>2, <2>1
      <3> QED
        BY <3>2, <3>3
    <2>2. CASE j \in c + 1 .. p
      <3>1. PICK i \in 1 .. Len(found) : found[i].key = log[j].key
        BY <2>2 DEF ReadingSound
      <3>2. PICK q \in c + 1 .. p : /\ ListedAt(log, found[i].key, found[i].nonce, p, q) /\ q \in 1 .. c1
                                    /\ log[q].kind = "created" /\ log[q].nonce = found[i].nonce
                                    /\ log[q].key = found[i].key
        BY <1>5
      <3>3. q # j
        BY <3>1, <3>2 DEF Holds
      <3>4. j \notin q + 1 .. p
        BY <3>1, <3>2 DEF ListedAt, Creates
      <3>5. q \in j + 1 .. c1
        BY <1>1, <1>2, <2>2, <3>2, <3>3, <3>4
      <3> QED
        BY <3>1, <3>2, <3>5 DEF Creates
    <2> QED
      BY <1>1, <1>2, <2>1, <2>2
  <1>10. UploadSound(log, c1, rows, found)
    BY <1>7, <1>8 DEF UploadSound
  <1> QED
    BY <1>4, <1>6, <1>9, <1>10 DEF c1

\* While no row is as new, the filter on the nonce leaves the map as it is.
LEMMA NewTradesAreAll ==
    ASSUME NEW found \in Seq(TradeRecs), NEW m, \A i \in 1 .. Len(found) : IsNew(found[i], m)
    PROVE  NewTrades(found, m) = found
  <1> DEFINE n == Len(found)
             Next1(f, i) == IF IsNew(found[i], m) THEN Append(f[i-1], found[i]) ELSE f[i-1]
             Eq(f) == f = [i \in 0 .. n |-> IF i = 0 THEN <<>> ELSE Next1(f, i)]
             Sol == CHOOSE f : Eq(f)
             g == [i \in 0 .. n |-> SubSeq(found, 1, i)]
  <1>1. NewTrades(found, m) = Sol[n]
    BY Zenon DEF NewTrades
  <1>2. n \in Nat /\ SubSeq(found, 1, 0) = <<>> /\ SubSeq(found, 1, n) = found
    OBVIOUS
  <1>3. Eq(g)
    <2>1. \A i \in 1 .. n : Next1(g, i) = SubSeq(found, 1, i)
      <3> SUFFICES ASSUME NEW i \in 1 .. n PROVE Next1(g, i) = SubSeq(found, 1, i)
        OBVIOUS
      <3>1. i - 1 \in 0 .. n
        OBVIOUS
      <3>2. g[i-1] = SubSeq(found, 1, i - 1)
        BY <3>1
      <3> QED
        BY <3>2, SubSeqByOne
    <2> HIDE DEF n, Next1
    <2>2. \A i \in 0 .. n : i # 0 => i \in 1 .. n
      BY <1>2
    <2> QED
      BY <1>2, <2>1, <2>2
  <1>4. Eq(Sol)
    <2> HIDE DEF Eq, g
    <2> QED
      BY <1>3
  <1>5. Sol[0] = <<>> /\ \A i \in 1 .. n : Sol[i] = Append(Sol[i-1], found[i])
    <2> HIDE DEF Sol, n, Next1
    <2>1. Sol[0] = <<>> /\ \A i \in 1 .. n : Sol[i] = Next1(Sol, i)
      BY <1>2, <1>4
    <2> QED
      BY <2>1 DEF Next1, n
  <1> DEFINE S == {k \in Nat : k <= n => Sol[k] = SubSeq(found, 1, k)}
  <1>6. 0 \in S
    <2> HIDE DEF Sol
    <2> QED
      BY <1>2, <1>5
  <1>7. ASSUME NEW k \in Nat, k \in S PROVE k + 1 \in S
    <2> HIDE DEF Sol
    <2> SUFFICES ASSUME k + 1 <= n PROVE Sol[k+1] = SubSeq(found, 1, k + 1)
      OBVIOUS
    <2>1. Sol[k] = SubSeq(found, 1, k) /\ k + 1 \in 1 .. n /\ (k + 1) - 1 = k
      BY <1>2, <1>7
    <2>2. Sol[k+1] = Append(Sol[k], found[k+1])
      BY <1>5, <2>1
    <2>3. Append(SubSeq(found, 1, (k + 1) - 1), found[k+1]) = SubSeq(found, 1, k + 1)
      BY <2>1, SubSeqByOne
    <2> QED
      BY <2>1, <2>2, <2>3
  <1>8. Nat \subseteq S
    <2> HIDE DEF S
    <2> QED
      BY <1>6, <1>7, InductiveSet
  <1>9. Sol[n] = SubSeq(found, 1, n)
    <2> HIDE DEF Sol
    <2> QED
      BY <1>2, <1>8
  <1> QED
    BY <1>1, <1>2, <1>9

LEMMA PendingIsNew ==
    ASSUME TradeScanInv, job.pc \in UploadSteps
    PROVE  NewTrades(job.found, MaxRowNonce) = job.found
  <1>1. /\ job.found \in Seq(TradeRecs) /\ tradeRows \in Seq(TradeRecs)
        /\ Len(tradeRows) \in Nat /\ DOMAIN tradeRows = 1 .. Len(tradeRows)
        /\ \A i \in 1 .. Len(tradeRows) : tradeRows[i].nonce \in Nat
    <2>1. job.found \in Seq(TradeRecs) /\ tradeRows \in Seq(TradeRecs)
      BY DEF TradeScanInv, RecordsSound, UploadSound
    <2>2. \A i \in 1 .. Len(tradeRows) : tradeRows[i] \in TradeRecs
      BY <2>1
    <2> QED
      BY <2>1, <2>2 DEF TradeRecs
  <1>2. PICK n \in {0} \cup {tradeRows[i].nonce : i \in DOMAIN tradeRows} :
              \A i \in DOMAIN tradeRows : tradeRows[i].nonce <= n
    <2> DEFINE s == [i \in 1 .. Len(tradeRows) |-> tradeRows[i].nonce]
    <2>1. \A i \in 1 .. Len(tradeRows) : s[i] = tradeRows[i].nonce /\ s[i] \in Nat
      BY <1>1
    <2> HIDE DEF s
    <2>2. PICK n \in {0} \cup {s[i] : i \in 1 .. Len(tradeRows)} : \A i \in 1 .. Len(tradeRows) : s[i] <= n
      BY <1>1, <2>1, GreatestOfList
    <2> QED
      BY <1>1, <2>1, <2>2
  <1>3. MaxRowNonce \in {0} \cup {tradeRows[i].nonce : i \in DOMAIN tradeRows}
    BY <1>2 DEF MaxRowNonce
  <1>4. ASSUME NEW i \in 1 .. Len(job.found) PROVE IsNew(job.found[i], MaxRowNonce)
    <2>1. UploadSound(tradeLog, tradeCursor, tradeRows, job.found)
      BY DEF TradeScanInv
    <2>2. PICK q \in 1 .. tradeCursor :
               tradeLog[q] = Entry("created", job.found[i].key, job.found[i].nonce)
      BY <2>1 DEF UploadSound, RecordsSound, ListedBy
    <2>3. tradeLog[q].kind = "created" /\ tradeLog[q].nonce = job.found[i].nonce
      BY <2>2 DEF Entry
    <2>4. q \in 1 .. Len(tradeLog) /\ tradeNonce \in Nat
      BY DEF TradeScanInv, ChainSound
    <2>5. job.found[i].nonce \in 1 .. tradeNonce
      BY <2>3, <2>4 DEF TradeScanInv, ChainSound
    <2>6. job.found[i].nonce > 0
      BY <2>4, <2>5
    <2>7. \A j \in 1 .. Len(tradeRows) : tradeRows[j].nonce < job.found[i].nonce
      BY <2>1 DEF UploadSound
    <2> QED
      BY <1>1, <1>3, <2>5, <2>6, <2>7 DEF IsNew
  <1> QED
    BY <1>1, <1>4, NewTradesAreAll

LEMMA UploadedRows ==
    ASSUME NEW log, NEW c, NEW rows, RecordsSound(log, c, rows),
           NEW found, UploadSound(log, c, rows, found), NEW sent \in 0 .. Len(found)
    PROVE  LET more == rows \o SubSeq(found, 1, sent)
           IN  /\ RecordsSound(log, c, more)
               /\ \A n : Holds(rows, n) => Holds(more, n)
               /\ sent = Len(found) => \A n : Holds(found, n) => Holds(more, n)
  <1> DEFINE added == SubSeq(found, 1, sent)
             more == rows \o added
  <1>1. /\ rows \in Seq(TradeRecs) /\ Len(rows) \in Nat
        /\ found \in Seq(TradeRecs) /\ Len(found) \in Nat
        /\ \A i \in 1 .. Len(found) : found[i] \in TradeRecs
        /\ \A i \in 1 .. Len(rows) : rows[i] \in TradeRecs
    BY DEF RecordsSound, UploadSound
  <1>2. /\ added \in Seq(TradeRecs) /\ Len(added) = sent
        /\ \A i \in 1 .. sent : added[i] = found[i] /\ i \in 1 .. Len(found)
    BY <1>1
  <1> HIDE DEF added
  <1>3. /\ more \in Seq(TradeRecs) /\ Len(more) = Len(rows) + sent
        /\ \A i \in 1 .. Len(rows) + sent :
              more[i] = IF i <= Len(rows) THEN rows[i] ELSE added[i - Len(rows)]
    BY <1>1, <1>2, ConcatProperties
  <1> HIDE DEF more
  <1>4. \A i \in 1 .. Len(rows) : more[i] = rows[i] /\ i \in 1 .. Len(more)
    BY <1>1, <1>3
  <1>5. ASSUME NEW i \in 1 .. sent
        PROVE  more[Len(rows) + i] = found[i] /\ Len(rows) + i \in 1 .. Len(more)
    <2>1. /\ Len(rows) + i \in 1 .. Len(rows) + sent /\ ~(Len(rows) + i <= Len(rows))
          /\ (Len(rows) + i) - Len(rows) = i
      BY <1>1
    <2> QED
      BY <1>2, <1>3, <2>1
  <1>6. \A i \in 1 .. Len(more) :
           i \in 1 .. Len(rows) \/ \E j \in 1 .. sent : i = Len(rows) + j
    <2> TAKE i \in 1 .. Len(more)
    <2>1. CASE i > Len(rows)
      <3>1. i - Len(rows) \in 1 .. sent /\ i = Len(rows) + (i - Len(rows))
        BY <1>1, <1>3, <2>1
      <3> QED
        BY <3>1
    <2> QED
      BY <1>1, <1>3, <2>1
  <1>7. ASSUME NEW i \in 1 .. Len(more) PROVE ListedBy(log, c, more[i]) /\ MarksTold(log, more[i])
    <2>1. CASE i \in 1 .. Len(rows)
      BY <1>4, <2>1 DEF RecordsSound
    <2>2. CASE \E j \in 1 .. sent : i = Len(rows) + j
      <3>1. PICK j \in 1 .. sent : i = Len(rows) + j
        BY <2>2
      <3>2. more[i] = found[j] /\ j \in 1 .. Len(found)
        BY <1>2, <1>5, <3>1
      <3> QED
        BY <3>2 DEF UploadSound, RecordsSound
    <2> QED
      BY <1>6, <2>1, <2>2
  <1>8. ASSUME NEW i \in 1 .. Len(more), NEW j \in 1 .. Len(more), more[i].nonce = more[j].nonce
        PROVE  i = j
    <2>1. \A a \in 1 .. Len(rows), b \in 1 .. sent :
             more[a].nonce \in Nat /\ more[Len(rows) + b].nonce \in Nat
               /\ more[a].nonce < more[Len(rows) + b].nonce
      BY <1>1, <1>2, <1>4, <1>5 DEF UploadSound, TradeRecs
    <2>2. CASE i \in 1 .. Len(rows) /\ j \in 1 .. Len(rows)
      BY <1>4, <1>8, <2>2 DEF RecordsSound
    <2>3. ASSUME NEW a \in 1 .. sent, i = Len(rows) + a, NEW b \in 1 .. sent, j = Len(rows) + b
          PROVE  i = j
      <3>1. found[a].nonce = found[b].nonce /\ a \in 1 .. Len(found) /\ b \in 1 .. Len(found)
        BY <1>2, <1>5, <1>8, <2>3
      <3>2. a = b
        BY <3>1 DEF UploadSound, RecordsSound
      <3> QED
        BY <2>3, <3>2
    <2>4. ASSUME NEW a \in 1 .. sent, i \in 1 .. Len(rows), j = Len(rows) + a PROVE FALSE
      <3>1. /\ more[i].nonce \in Nat /\ more[Len(rows) + a].nonce \in Nat
            /\ more[i].nonce < more[Len(rows) + a].nonce
        BY <2>1, <2>4
      <3>2. more[i].nonce = more[Len(rows) + a].nonce
        BY <1>8, <2>4
      <3> QED
        BY <3>1, <3>2
    <2>5. ASSUME NEW a \in 1 .. sent, j \in 1 .. Len(rows), i = Len(rows) + a PROVE FALSE
      <3>1. /\ more[j].nonce \in Nat /\ more[Len(rows) + a].nonce \in Nat
            /\ more[j].nonce < more[Len(rows) + a].nonce
        BY <2>1, <2>5
      <3>2. more[j].nonce = more[Len(rows) + a].nonce
        BY <1>8, <2>5
      <3> QED
        BY <3>1, <3>2
    <2> QED
      BY <1>6, <2>2, <2>3, <2>4, <2>5
  <1>9. RecordsSound(log, c, more)
    BY <1>3, <1>7, <1>8 DEF RecordsSound
  <1>10. \A n : Holds(rows, n) => Holds(more, n)
    BY <1>4 DEF Holds
  <1>11. sent = Len(found) => \A n : Holds(found, n) => Holds(more, n)
    BY <1>5 DEF Holds
  <1> QED
    BY <1>9, <1>10, <1>11 DEF more, added

LEMMA SaveKeepsScan == TradeScanInv /\ PostTradeCursor => TradeScanInv'
  <1> SUFFICES ASSUME TradeScanInv, PostTradeCursor PROVE TradeScanInv'
    OBVIOUS
  <1> DEFINE c1 == IF job.top # 0 THEN job.top ELSE tradeCursor
  <1>1. /\ tradeLog' = tradeLog /\ listed' = listed /\ tradeNonce' = tradeNonce
        /\ tradeRows' = tradeRows /\ (lossless' <=> lossless) /\ job.pc = "logs"
        /\ tradeCursor' = c1 /\ job' = [job EXCEPT !.pc = "accounts"]
    BY Zenon DEF PostTradeCursor, chainVars
  <1>2. job' \in Jobs /\ job'.pc = "accounts" /\ job'.found = job.found
    BY <1>1 DEF TradeScanInv, Jobs, UploadSteps
  <1>3. Pending(job) = <<>> /\ Pending(job') = job.found /\ job'.pc # "logs"
    BY <1>1, <1>2 DEF Pending, UploadSteps
  <1>4. /\ c1 \in 0 .. Len(tradeLog) /\ RecordsSound(tradeLog, c1, tradeRows)
        /\ UploadSound(tradeLog, c1, tradeRows, job.found)
        /\ KeepsAll(tradeLog, tradeCursor, tradeRows, <<>>)
              => KeepsAll(tradeLog, c1, tradeRows, job.found)
    <2>1. /\ ChainSound(tradeLog, listed, tradeNonce)
          /\ ReadingSound(tradeLog, tradeCursor, job.pos, job.top, job.found)
          /\ RecordsSound(tradeLog, tradeCursor, tradeRows)
      BY <1>1 DEF TradeScanInv
    <2> QED
      BY <2>1, ReadIsSoundToUpload
  <1> HIDE DEF c1
  <1>5. lossless => KeepsAll(tradeLog, tradeCursor, tradeRows, <<>>)
    BY <1>3, Zenon DEF TradeScanInv
  <1> QED
    BY <1>1, <1>2, <1>3, <1>4, <1>5, Zenon DEF TradeScanInv

\* A step from one step of the upload to the next, the map unchanged.
LEMMA UploadGoesOn ==
    ASSUME TradeScanInv, job.pc \in UploadSteps, UNCHANGED <<chainVars, tradeCursor, tradeRows, lossless>>,
           job' \in Jobs, job'.pc \in UploadSteps, job'.found = job.found
    PROVE  TradeScanInv'
  <1>1. /\ tradeLog' = tradeLog /\ listed' = listed /\ tradeNonce' = tradeNonce
        /\ tradeCursor' = tradeCursor /\ tradeRows' = tradeRows /\ (lossless' <=> lossless)
    BY Zenon DEF chainVars
  <1>2. Pending(job') = Pending(job) /\ job'.pc # "logs"
    BY DEF Pending, UploadSteps
  <1> QED
    BY <1>1, <1>2, Zenon DEF TradeScanInv

LEMMA ResolveKeepsScan == TradeScanInv /\ ResolveAccounts => TradeScanInv'
  <1> SUFFICES ASSUME TradeScanInv, ResolveAccounts PROVE TradeScanInv'
    OBVIOUS
  <1>1. job \in Jobs /\ job.pc = "accounts" /\ job' = [job EXCEPT !.pc = "nonce"]
    BY DEF TradeScanInv, ResolveAccounts
  <1>2. job' \in Jobs /\ job'.pc \in UploadSteps /\ job'.found = job.found /\ job.pc \in UploadSteps
    BY <1>1 DEF Jobs, UploadSteps
  <1>3. UNCHANGED <<chainVars, tradeCursor, tradeRows, lossless>>
    BY DEF ResolveAccounts
  <1> QED
    BY <1>2, <1>3, UploadGoesOn

LEMMA FilterKeepsScan == TradeScanInv /\ ReadMaxNonce => TradeScanInv'
  <1> SUFFICES ASSUME TradeScanInv, ReadMaxNonce PROVE TradeScanInv'
    OBVIOUS
  <1>1. job \in Jobs /\ job.pc = "nonce" /\ job.pc \in UploadSteps
    BY DEF TradeScanInv, ReadMaxNonce, UploadSteps
  <1>2. job' = [job EXCEPT !.pc = "upload", !.found = NewTrades(job.found, MaxRowNonce)]
    BY DEF ReadMaxNonce
  <1>3. NewTrades(job.found, MaxRowNonce) = job.found
    BY <1>1, PendingIsNew
  <1>4. job' \in Jobs /\ job'.pc \in UploadSteps /\ job'.found = job.found
    BY <1>1, <1>2, <1>3 DEF Jobs, UploadSteps
  <1>5. UNCHANGED <<chainVars, tradeCursor, tradeRows, lossless>>
    BY DEF ReadMaxNonce
  <1> QED
    BY <1>1, <1>4, <1>5, UploadGoesOn

LEMMA UploadKeepsScan == TradeScanInv /\ UploadTrades => TradeScanInv'
  <1> SUFFICES ASSUME TradeScanInv, UploadTrades PROVE TradeScanInv'
    OBVIOUS
  <1>1. /\ tradeLog' = tradeLog /\ listed' = listed /\ tradeNonce' = tradeNonce
        /\ tradeCursor' = tradeCursor /\ job' = NoJob /\ job.pc = "upload"
    BY Zenon DEF UploadTrades, chainVars
  <1>2. PICK sent \in 0 .. Len(job.found) :
           /\ tradeRows' = tradeRows \o SubSeq(job.found, 1, sent)
           /\ IF sent = Len(job.found)
              THEN UNCHANGED <<tradeFaults, lossless>>
              ELSE Fault /\ lossless' = FALSE
    BY Zenon DEF UploadTrades
  <1>3. job.pc \in UploadSteps /\ Pending(job) = job.found
    BY <1>1 DEF Pending, UploadSteps
  <1>4. /\ RecordsSound(tradeLog, tradeCursor, tradeRows)
        /\ UploadSound(tradeLog, tradeCursor, tradeRows, job.found)
    BY <1>3 DEF TradeScanInv
  <1>5. /\ RecordsSound(tradeLog, tradeCursor, tradeRows')
        /\ \A n : Holds(tradeRows, n) => Holds(tradeRows', n)
        /\ sent = Len(job.found) => \A n : Holds(job.found, n) => Holds(tradeRows', n)
    BY <1>2, <1>4, UploadedRows
  <1>6. lossless' => sent = Len(job.found) /\ lossless
    BY <1>2, Zenon
  <1>7. job' \in Jobs /\ job'.pc = "idle" /\ Pending(job') = <<>> /\ job'.pc \notin UploadSteps
        /\ job'.pc # "logs"
    <2>1. <<>> \in Seq(TradeRecs)
      OBVIOUS
    <2> QED
      BY <1>1, <2>1 DEF NoJob, Jobs, Pending, UploadSteps
  <1>8. ASSUME lossless' PROVE KeepsAll(tradeLog, tradeCursor, tradeRows', <<>>)
    <2>1. KeepsAll(tradeLog, tradeCursor, tradeRows, job.found)
      BY <1>3, <1>6, <1>8, Zenon DEF TradeScanInv
    <2>2. \A n : Holds(job.found, n) => Holds(tradeRows', n)
      BY <1>5, <1>6, <1>8, Zenon
    <2> QED
      BY <1>5, <2>1, <2>2, Zenon DEF KeepsAll
  <1> QED
    BY <1>1, <1>5, <1>7, <1>8, Zenon DEF TradeScanInv

LEMMA TradeScanStep == TradeScanInv /\ [TradeChain \/ TradeScan]_tradeVars => TradeScanInv'
  <1> SUFFICES ASSUME TradeScanInv, [TradeChain \/ TradeScan]_tradeVars PROVE TradeScanInv'
    OBVIOUS
  <1>1. CASE UNCHANGED tradeVars
    <2>1. /\ tradeLog' = tradeLog /\ listed' = listed /\ tradeNonce' = tradeNonce
          /\ tradeCursor' = tradeCursor /\ tradeRows' = tradeRows /\ job' = job
          /\ (lossless' <=> lossless)
      BY <1>1, Zenon DEF tradeVars
    <2> QED
      BY <2>1, Zenon DEF TradeScanInv
  <1>2. CASE MarkRejects
    BY <1>2, AbortKeepsScan DEF MarkRejects
  <1>3. CASE TradeScanFails
    BY <1>3, AbortKeepsScan DEF TradeScanFails
  <1> QED
    BY <1>1, <1>2, <1>3, ChainKeepsScan, StartKeepsScan, ReadKeepsScan, SaveKeepsScan,
       ResolveKeepsScan, FilterKeepsScan, UploadKeepsScan, Zenon DEF TradeScan

\* The invariant of the trade scanner, whatever the contract emits meanwhile,
\* wherever the mirror's answers end and whenever a process dies.
THEOREM TradeScanInvariance == TradeScannerSpec => []TradeScanInv
  <1> QED
    BY TradeScanInit, TradeScanStep, PTL DEF TradeScannerSpec

\* Every row of the table is a listing the contract announced, stored once, and
\* says completed or canceled only when the log has closed that listing, or an
\* unannounced one that replaced it, before any other of the NFT was announced;
\* the listing is then no longer open.
THEOREM TradeRowsTellTheChainHolds == TradeScannerSpec => []TradeRowsTellTheChain
  <1>1. TradeScanInv => TradeRowsTellTheChain
    <2> SUFFICES ASSUME TradeScanInv PROVE TradeRowsTellTheChain
      OBVIOUS
    <2>1. /\ tradeLog \in Seq(TradeEntries) /\ Len(tradeLog) \in Nat
          /\ DOMAIN tradeLog = 1 .. Len(tradeLog) /\ tradeCursor \in 0 .. Len(tradeLog)
      BY DEF TradeScanInv, ChainSound
    <2>2. RecordsSound(tradeLog, tradeCursor, tradeRows)
      BY DEF TradeScanInv
    <2>3. DOMAIN tradeRows = 1 .. Len(tradeRows)
      BY <2>2 DEF RecordsSound
    <2>4. ASSUME NEW k \in Keys, NEW n \in Nat, NEW kind \in {"completed", "cancelled"},
                 ToldClosed(tradeLog, kind, k, n)
          PROVE  listed[k] # n
      <3>1. PICK i \in 1 .. Len(tradeLog), j \in 1 .. Len(tradeLog) :
                /\ i < j /\ tradeLog[i] = Entry("created", k, n)
                /\ tradeLog[j].kind = kind /\ tradeLog[j].key = k
        BY <2>1, <2>4 DEF ToldClosed
      <3>2. Creates(tradeLog[i], k) /\ tradeLog[i].nonce = n
        BY <3>1 DEF Creates, Entry
      <3>3. ClosedAfter(tradeLog, k, i, Len(tradeLog))
        <4>1. j \in i + 1 .. Len(tradeLog)
          BY <2>1, <3>1
        <4> QED
          BY <3>1, <4>1 DEF ClosedAfter, Closes
      <3>4. OpenAt(tradeLog, k, listed[k], tradeNonce)
        BY DEF TradeScanInv, ChainSound
      <3> QED
        BY <3>2, <3>3, <3>4 DEF OpenAt
    <2>5. ASSUME NEW i \in 1 .. Len(tradeRows)
          PROVE  /\ Emitted("created", tradeRows[i].key, tradeRows[i].nonce)
                 /\ tradeRows[i].completed =>
                       ToldClosed(tradeLog, "completed", tradeRows[i].key, tradeRows[i].nonce)
                 /\ tradeRows[i].canceled =>
                       ToldClosed(tradeLog, "cancelled", tradeRows[i].key, tradeRows[i].nonce)
                 /\ tradeRows[i].completed \/ tradeRows[i].canceled =>
                       listed[tradeRows[i].key] # tradeRows[i].nonce
                 /\ \A j \in 1 .. Len(tradeRows) : tradeRows[j].nonce = tradeRows[i].nonce => i = j
      <3>1. ListedBy(tradeLog, tradeCursor, tradeRows[i]) /\ MarksTold(tradeLog, tradeRows[i])
        BY <2>2 DEF RecordsSound
      <3>2. Emitted("created", tradeRows[i].key, tradeRows[i].nonce)
        BY <2>1, <3>1 DEF ListedBy, Emitted
      <3>3. \A j \in 1 .. Len(tradeRows) : tradeRows[j].nonce = tradeRows[i].nonce => i = j
        BY <2>2 DEF RecordsSound
      <3>4. tradeRows[i].key \in Keys /\ tradeRows[i].nonce \in Nat
        <4>1. tradeRows[i] \in TradeRecs
          BY <2>2 DEF RecordsSound
        <4> QED
          BY <4>1 DEF TradeRecs
      <3>5. \A kind \in {"completed", "cancelled"} :
               ToldClosed(tradeLog, kind, tradeRows[i].key, tradeRows[i].nonce)
                  => listed[tradeRows[i].key] # tradeRows[i].nonce
        BY <2>4, <3>4
      <3>6. "completed" \in {"completed", "cancelled"} /\ "cancelled" \in {"completed", "cancelled"}
        OBVIOUS
      <3> QED
        BY <3>1, <3>2, <3>3, <3>5, <3>6, Zenon DEF MarksTold
    <2> QED
      BY <2>3, <2>5 DEF TradeRowsTellTheChain
  <1> QED
    BY <1>1, TradeScanInvariance, PTL

\* The tables of both scanners say only what the two contracts have said.
THEOREM TablesTellTheChainHolds == EventScannersSpec => []TablesTellTheChain
  BY TradeRowsTellTheChainHolds, BidRowsTellTheChainHolds, PTL
     DEF EventScannersSpec, TablesTellTheChain

\* No listing up to the cursor is lost while every scan that saved its cursor
\* also finished its writes.
THEOREM LosslessScansKeepEveryTradeHolds == TradeScannerSpec => []LosslessScansKeepEveryTrade
  <1>1. TradeScanInv => LosslessScansKeepEveryTrade
    <2> SUFFICES ASSUME TradeScanInv, lossless, job.pc = "idle",
                        NEW j \in 1 .. tradeCursor, tradeLog[j].kind = "created"
                 PROVE  \/ \E i \in DOMAIN tradeRows : tradeRows[i].nonce = tradeLog[j].nonce
                        \/ \E n \in j + 1 .. tradeCursor :
                               tradeLog[n].kind = "created" /\ tradeLog[n].key = tradeLog[j].key
      BY Zenon DEF LosslessScansKeepEveryTrade
    <2>1. KeepsAll(tradeLog, tradeCursor, tradeRows, Pending(job))
      BY Zenon DEF TradeScanInv
    <2>2. Pending(job) = <<>>
      BY DEF Pending, UploadSteps
    <2>3. ~Holds(Pending(job), tradeLog[j].nonce)
      BY <2>2 DEF Holds
    <2>4. \/ Holds(tradeRows, tradeLog[j].nonce)
          \/ \E n \in j + 1 .. tradeCursor : Creates(tradeLog[n], tradeLog[j].key)
      BY <2>1, <2>3 DEF KeepsAll
    <2>5. DOMAIN tradeRows = 1 .. Len(tradeRows)
      BY DEF TradeScanInv, RecordsSound
    <2> QED
      BY <2>4, <2>5 DEF Holds, Creates
  <1> QED
    BY <1>1, TradeScanInvariance, PTL

-----------------------------------------------------------------------------
(* The live view: what the log shows to be open.                             *)

\* What the view has built from the first m entries of the log.
Shows(log, m, seen) ==
    /\ seen \in Seq(TradeRecs) /\ OncePerKey(seen)
    /\ \A i \in 1 .. Len(seen) :
          \E q \in 1 .. m : /\ ListedAt(log, seen[i].key, seen[i].nonce, m, q)
                            /\ seen[i].completed \/ seen[i].canceled
                                  <=> ClosedAfter(log, seen[i].key, q, m)
    /\ \A q \in 1 .. m : log[q].kind = "created" =>
          \E i \in 1 .. Len(seen) : seen[i].key = log[q].key

LEMMA ShowsOneMore ==
    ASSUME NEW log \in Seq(TradeEntries), NEW m \in Nat, m + 1 \in 1 .. Len(log),
           NEW seen, Shows(log, m, seen), NEW after, Applied(seen, log[m + 1], after)
    PROVE  Shows(log, m + 1, after)
  <1> DEFINE e == log[m + 1]
  <1>1. e \in TradeEntries /\ e = log[m + 1] /\ Applied(seen, e, after)
    OBVIOUS
  <1> HIDE DEF e
  <1>2. ASSUME NEW q \in 1 .. m, NEW l \in q + 1 .. m + 1
        PROVE  l \in q + 1 .. m \/ (l = m + 1 /\ log[l] = e)
    BY <1>1
  <1>3. ASSUME NEW i \in 1 .. Len(after)
        PROVE  \E q \in 1 .. m + 1 : /\ ListedAt(log, after[i].key, after[i].nonce, m + 1, q)
                                     /\ after[i].completed \/ after[i].canceled
                                           <=> ClosedAfter(log, after[i].key, q, m + 1)
    <2>1. CASE e.kind = "created" /\ after[i] = Trade(e.key, e.nonce)
      <3>1. /\ after[i].key = e.key /\ after[i].nonce = e.nonce
            /\ ~after[i].completed /\ ~after[i].canceled
        BY <2>1 DEF Trade
      <3>2. e = Entry("created", after[i].key, after[i].nonce)
        BY <1>1, <2>1, <3>1 DEF TradeEntries, Entry
      <3>3. ListedAt(log, after[i].key, after[i].nonce, m + 1, m + 1)
        BY <1>1, <3>2 DEF ListedAt
      <3>4. ~ClosedAfter(log, after[i].key, m + 1, m + 1) /\ m + 1 \in 1 .. m + 1
        BY DEF ClosedAfter
      <3> QED
        BY <3>1, <3>3, <3>4, Zenon
    <2>2. CASE \E j \in 1 .. Len(seen) : Remains(after[i], seen[j], e)
      <3>1. PICK j \in 1 .. Len(seen) : Remains(after[i], seen[j], e)
        BY <2>2
      <3>2. PICK q \in 1 .. m : /\ ListedAt(log, seen[j].key, seen[j].nonce, m, q)
                                /\ seen[j].completed \/ seen[j].canceled
                                      <=> ClosedAfter(log, seen[j].key, q, m)
        BY DEF Shows
      <3>3. after[i].key = seen[j].key /\ after[i].nonce = seen[j].nonce /\ ~Creates(e, seen[j].key)
        BY <3>1, Zenon DEF Remains
      <3>4. ListedAt(log, after[i].key, after[i].nonce, m + 1, q)
        BY <1>2, <3>2, <3>3 DEF ListedAt
      <3>5. ClosedAfter(log, seen[j].key, q, m + 1)
               <=> ClosedAfter(log, seen[j].key, q, m) \/ (Closes(e) /\ e.key = seen[j].key)
        <4>1. m + 1 \in q + 1 .. m + 1 /\ \A l \in q + 1 .. m : l \in q + 1 .. m + 1
          OBVIOUS
        <4> QED
          BY <1>1, <1>2, <4>1 DEF ClosedAfter
      <3>6. after[i].completed \/ after[i].canceled
               <=> \/ seen[j].completed \/ seen[j].canceled
                   \/ (e.kind = "completed" /\ e.key = seen[j].key)
                   \/ (e.kind = "cancelled" /\ e.key = seen[j].key)
        BY <3>1, Zenon DEF Remains
      <3>7. Closes(e) <=> e.kind = "completed" \/ e.kind = "cancelled"
        BY DEF Closes
      <3>8. after[i].completed \/ after[i].canceled <=> ClosedAfter(log, after[i].key, q, m + 1)
        BY <3>2, <3>3, <3>5, <3>6, <3>7, Zenon
      <3>9. q \in 1 .. m + 1
        OBVIOUS
      <3> QED
        BY <3>4, <3>8, <3>9, Zenon
    <2> QED
      BY <1>1, <2>1, <2>2 DEF Applied
  <1>4. ASSUME NEW q \in 1 .. m + 1, log[q].kind = "created"
        PROVE  \E i \in 1 .. Len(after) : after[i].key = log[q].key
    <2>1. CASE q = m + 1
      BY <1>1, <1>4, <2>1 DEF Applied
    <2>2. CASE q \in 1 .. m
      <3>1. \E j \in 1 .. Len(seen) : seen[j].key = log[q].key
        BY <1>4, <2>2 DEF Shows
      <3> QED
        BY <1>1, <3>1 DEF Applied
    <2> QED
      BY <2>1, <2>2
  <1>5. after \in Seq(TradeRecs) /\ OncePerKey(after)
    BY <1>1 DEF Applied
  <1> QED
    BY <1>3, <1>4, <1>5, Zenon DEF Shows

OpenOnes(seen) == {seen[i] : i \in {j \in DOMAIN seen : ~seen[j].completed /\ ~seen[j].canceled}}

LEMMA LiveTradesShow ==
    ASSUME NEW log, NEW open, NEW count, ChainSound(log, open, count), Len(log) <= TradeLogPage
    PROVE  \E seen : Shows(log, Len(log), seen) /\ LiveTrades(log) = OpenOnes(seen)
  <1> DEFINE n == IF Len(log) < TradeLogPage THEN Len(log) ELSE TradeLogPage
             Step(q, k) == ApplyToLive(q, log[k])
             T == {q \in Seq(TradeRecs) : OncePerKey(q)}
             G == [p \in T \X (1..n) |-> Step(p[1], p[2])]
             Eq(f) == f = [i \in 0 .. n |-> IF i = 0 THEN <<>> ELSE Step(f[i-1], i)]
             Sol == CHOOSE f : Eq(f)
  <1>1. LiveTrades(log) = OpenOnes(Sol[n])
    BY Zenon DEF LiveTrades, OpenOnes
  <1>2. /\ log \in Seq(TradeEntries) /\ Len(log) \in Nat /\ n = Len(log) /\ n \in Nat
        /\ \A k \in 1 .. n : log[k] \in TradeEntries
        /\ \A k \in 1 .. n : log[k].kind = "created" => log[k].key \in Keys
    BY TradeScannerAssumption DEF ChainSound
  <1> HIDE DEF n
  <1>3. ASSUME NEW q \in T, NEW k \in 1 .. n
        PROVE  Applied(q, log[k], Step(q, k)) /\ Step(q, k) \in T
    <2>1. Applied(q, log[k], Step(q, k))
      BY <1>2, EntryIsApplied
    <2> QED
      BY <2>1 DEF Applied
  <1>4. StepsOn(G, T, n)
    <2> HIDE DEF T, Step
    <2> QED
      BY <1>3 DEF StepsOn
  <1>5. <<>> \in T
    <2>1. <<>> \in Seq(TradeRecs) /\ Len(<<>>) = 0
      OBVIOUS
    <2> QED
      BY <2>1 DEF OncePerKey
  <1>6. PICK f : Follows(f, G, T, n, <<>>)
    <2> HIDE DEF T, G
    <2> QED
      BY <1>2, <1>4, <1>5, RecursionExists
  <1>7. Eq(f)
    <2> HIDE DEF T, Step
    <2>1. \A k \in 1 .. n : f[k-1] \in T
      BY <1>2, <1>6 DEF Follows
    <2>2. \A k \in 1 .. n : f[k] = Step(f[k-1], k)
      BY <1>6, <2>1 DEF Follows
    <2> QED
      BY <1>2, <1>6, <2>2 DEF Follows
  <1>8. Eq(Sol)
    <2> HIDE DEF Eq
    <2> QED
      BY <1>7
  <1>9. Sol[0] = <<>> /\ \A k \in 1 .. n : Sol[k] = Step(Sol[k-1], k)
    <2> HIDE DEF Sol, Step
    <2> QED
      BY <1>2, <1>8
  <1> HIDE DEF Sol
  <1> DEFINE S == {k \in Nat : k <= n => Shows(log, k, Sol[k])}
  <1>10. 0 \in S
    <2>1. <<>> \in Seq(TradeRecs) /\ Len(<<>>) = 0
      OBVIOUS
    <2>2. Shows(log, 0, <<>>)
      BY <2>1 DEF Shows, OncePerKey
    <2> QED
      BY <1>9, <2>2
  <1>11. ASSUME NEW k \in Nat, k \in S PROVE k + 1 \in S
    <2> SUFFICES ASSUME k + 1 <= n PROVE Shows(log, k + 1, Sol[k + 1])
      OBVIOUS
    <2>1. Shows(log, k, Sol[k]) /\ k + 1 \in 1 .. n /\ (k + 1) - 1 = k
      BY <1>2, <1>11
    <2>2. Sol[k] \in T
      BY <2>1 DEF Shows
    <2>3. Sol[k + 1] = Step(Sol[k], k + 1)
      <3> HIDE DEF Step
      <3> QED
        BY <1>9, <2>1
    <2>4. Applied(Sol[k], log[k + 1], Sol[k + 1])
      <3> HIDE DEF Step, T
      <3> QED
        BY <1>3, <2>1, <2>2, <2>3
    <2> QED
      BY <1>2, <2>1, <2>4, ShowsOneMore
  <1>12. Nat \subseteq S
    <2> HIDE DEF S
    <2> QED
      BY <1>10, <1>11, InductiveSet
  <1>13. Shows(log, Len(log), Sol[n])
    BY <1>2, <1>12
  <1> QED
    BY <1>1, <1>13

\* getLiveTradesFromEvents.js shows exactly those trades the contract has open
\* that it has announced, while the log fits in the one page it reads.
THEOREM LiveViewIsExactHolds == TradeScannerSpec => []LiveViewIsExact
  <1>1. TradeScanInv => LiveViewIsExact
    <2> DEFINE Announced == {l \in Keys : listed[l] # NoNonce /\ Emitted("created", l, listed[l])}
    <2> SUFFICES ASSUME TradeScanInv, Len(tradeLog) <= TradeLogPage
                 PROVE  LiveTrades(tradeLog) = {Trade(k, listed[k]) : k \in Announced}
      BY DEF LiveViewIsExact
    <2> DEFINE L == Len(tradeLog)
    <2>1. ChainSound(tradeLog, listed, tradeNonce)
      BY DEF TradeScanInv
    <2>2. PICK seen : Shows(tradeLog, L, seen) /\ LiveTrades(tradeLog) = OpenOnes(seen)
      BY <2>1, LiveTradesShow
    <2>3. /\ L \in Nat /\ tradeNonce \in Nat /\ DOMAIN tradeLog = 1 .. L
          /\ \A k \in Keys : OpenAt(tradeLog, k, listed[k], tradeNonce)
      BY <2>1 DEF ChainSound
    <2>4. /\ DOMAIN seen = 1 .. Len(seen) /\ \A i \in 1 .. Len(seen) : seen[i] \in TradeRecs
      BY <2>2 DEF Shows
    <2> HIDE DEF L
    <2>5. ASSUME NEW i \in 1 .. Len(seen), ~seen[i].completed, ~seen[i].canceled
          PROVE  seen[i].key \in Announced /\ seen[i] = Trade(seen[i].key, listed[seen[i].key])
      <3> DEFINE k == seen[i].key
      <3>1. k \in Keys /\ seen[i] \in TradeRecs
        BY <2>4 DEF TradeRecs
      <3>2. PICK q \in 1 .. L : ListedAt(tradeLog, k, seen[i].nonce, L, q) /\ ~ClosedAfter(tradeLog, k, q, L)
        BY <2>2, <2>5, Zenon DEF Shows
      <3> HIDE DEF k
      <3>3. OpenAt(tradeLog, k, listed[k], tradeNonce)
        BY <2>3, <3>1
      <3>4. /\ Creates(tradeLog[q], k) /\ tradeLog[q].nonce = seen[i].nonce
            /\ tradeLog[q] = Entry("created", k, seen[i].nonce)
        BY <3>2 DEF ListedAt, Creates, Entry
      <3>5. seen[i].nonce = listed[k]
        BY <3>2, <3>3, <3>4 DEF OpenAt, L
      <3>6. tradeLog[q].nonce \in 1 .. tradeNonce
        BY <2>1, <3>4 DEF ChainSound, Creates, L
      <3>7. listed[k] # NoNonce
        BY <2>3, <3>4, <3>5, <3>6 DEF NoNonce
      <3>8. Emitted("created", k, listed[k])
        BY <2>3, <3>4, <3>5 DEF Emitted
      <3>9. seen[i].completed = FALSE /\ seen[i].canceled = FALSE
        BY <2>5, <3>1 DEF TradeRecs
      <3>10. seen[i] = Trade(k, listed[k])
        BY <3>1, <3>5, <3>9 DEF TradeRecs, Trade, k
      <3> QED
        BY <3>1, <3>7, <3>8, <3>10 DEF k
    <2>6. ASSUME NEW k \in Announced
          PROVE  \E i \in 1 .. Len(seen) : ~seen[i].completed /\ ~seen[i].canceled /\ seen[i].key = k
      <3>1. k \in Keys /\ listed[k] # NoNonce
        OBVIOUS
      <3>2. PICK r \in 1 .. L : tradeLog[r] = Entry("created", k, listed[k])
        BY <2>3 DEF Emitted
      <3> HIDE DEF Announced
      <3>3. tradeLog[r].kind = "created" /\ tradeLog[r].key = k /\ tradeLog[r].nonce = listed[k]
        BY <3>2 DEF Entry
      <3>4. OpenAt(tradeLog, k, listed[k], tradeNonce)
        BY <2>3, <3>1
      <3>5. ~ClosedAfter(tradeLog, k, r, L) /\ Covers(tradeLog, k, listed[k], L)
        BY <3>1, <3>3, <3>4 DEF OpenAt, Creates, L
      <3>6. PICK i \in 1 .. Len(seen) : seen[i].key = k
        BY <2>2, <3>3 DEF Shows
      <3>7. PICK q \in 1 .. L : /\ ListedAt(tradeLog, k, seen[i].nonce, L, q)
                                /\ seen[i].completed \/ seen[i].canceled <=> ClosedAfter(tradeLog, k, q, L)
        BY <2>2, <3>6 DEF Shows
      <3>8. q = r
        <4>1. Creates(tradeLog[q], k) /\ tradeLog[q].kind = "created" /\ Creates(tradeLog[r], k)
          BY <3>3, <3>7 DEF ListedAt, Creates, Entry
        <4>2. ~(q < r)
          <5>1. r \notin q + 1 .. L
            BY <3>7, <4>1 DEF ListedAt
          <5> QED
            BY <2>3, <5>1
        <4>3. tradeLog[q].nonce <= tradeLog[r].nonce
          BY <3>3, <3>5, <4>1 DEF Covers
        <4>4. r < q => tradeLog[r].nonce < tradeLog[q].nonce
          BY <2>1, <3>3, <4>1 DEF ChainSound, L
        <4>5. tradeLog[q].nonce \in 1 .. tradeNonce /\ tradeLog[r].nonce \in 1 .. tradeNonce
          BY <2>1, <3>3, <4>1 DEF ChainSound, L
        <4> QED
          BY <2>3, <4>2, <4>3, <4>4, <4>5
      <3> QED
        BY <3>5, <3>6, <3>7, <3>8, Zenon
    <2>7. OpenOnes(seen) \subseteq {Trade(k, listed[k]) : k \in Announced}
      <3> HIDE DEF Announced
      <3> SUFFICES ASSUME NEW i \in DOMAIN seen, ~seen[i].completed, ~seen[i].canceled
                   PROVE  \E k \in Announced : seen[i] = Trade(k, listed[k])
        BY DEF OpenOnes
      <3> QED
        BY <2>4, <2>5
    <2>8. ASSUME NEW k \in Announced PROVE Trade(k, listed[k]) \in OpenOnes(seen)
      <3> HIDE DEF Announced
      <3>1. PICK i \in 1 .. Len(seen) : ~seen[i].completed /\ ~seen[i].canceled /\ seen[i].key = k
        BY <2>6
      <3>2. seen[i] = Trade(k, listed[k])
        BY <2>5, <3>1
      <3> QED
        BY <2>4, <3>1, <3>2, Zenon DEF OpenOnes
    <2> HIDE DEF Announced
    <2> QED
      BY <2>2, <2>7, <2>8
  <1> QED
    BY <1>1, TradeScanInvariance, PTL
===========================================================================
