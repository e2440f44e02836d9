----------------------------- MODULE HelperCalls -----------------------------
(***************************************************************************)
(* Calls of the helpers of LedgerHelpers and MirrorReads.  A call is given  *)
(* by a list and by what the network makes of it, and what it answers is a  *)
(* function of these; it leaves nothing behind for the next one.            *)
(***************************************************************************)
EXTENDS LedgerHelpers, MirrorReads

CONSTANTS
    SendLengths,      \* lengths of the lists that are submitted
    ReadLengths,      \* lengths of the lists that are read
    EventNames,
    EventLogs         \* logs that are read

LogEvents == [name : EventNames, known : BOOLEAN, data : BOOLEAN]

ASSUME HelpersAssumption ==
    /\ TransferBatch \in Nat \ {0} /\ AllowanceBatch \in Nat \ {0} /\ MirrorPage \in Nat \ {0}
    /\ SendLengths \subseteq Nat /\ ReadLengths \subseteq Nat
    /\ \A log \in EventLogs : log \in Seq(LogEvents)

VARIABLE probe     \* the call: a list and what the network makes of it

NoProbe == [kind |-> "none"]

\* What may become of so many transactions.
Fates(count) ==
    [applied : SUBSET (1 .. count), reached : SUBSET (1 .. count), heard : SUBSET (1 .. count)]

\* As many transactions as a list may take, and one to create a token first.
SendList(n) == \E net \in Fates(2 + n \div TransferBatch) :
    probe' = [kind |-> "send", length |-> n, net |-> net]

ReadList(n) == probe' = [kind |-> "read", length |-> n, log |-> <<>>]
ReadLog(log) == probe' = [kind |-> "read", length |-> 0, log |-> log]

Probing ==
    /\ probe = NoProbe
    /\ \/ \E n \in SendLengths : SendList(n)
       \/ \E n \in ReadLengths : ReadList(n)
       \/ \E log \in EventLogs : ReadLog(log)

ProbeSpec == probe = NoProbe /\ [][Probing]_probe

\* Whatever part of a long list is applied and whichever answers are lost, a
\* helper claims no more than was done, and no less unless an answer was lost;
\* no fee it offers is refused; and for any number of pages and any log what a
\* mirror helper returns does not pass for more than it is: see
\* HelpersTellTheTruth and NeverMisleads.
HelpersNeverMislead ==
    /\ probe.kind = "send" =>
          HelpersTellTheTruth(probe.length, probe.net) /\ FeesAreAccepted
    /\ probe.kind = "read" =>
          \A name \in EventNames :
             NeverMisleads([i \in 1 .. probe.length |-> i], probe.log, name)

=============================================================================
