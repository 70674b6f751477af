----------------------------- MODULE LossLedger -----------------------------
(***************************************************************************)
(* What the ingest queue promises its consumer, with no queue in it: the   *)
(* numbers are settled strictly in order, each of them exactly once, either *)
(* as a record delivered or as a number named lost, and a number may only  *)
(* be lost once Capacity newer ones exist.                                 *)
(***************************************************************************)
EXTENDS Naturals, Sequences

CONSTANT Capacity      \* how many of the newest numbers are always kept

VARIABLES
  issued,      \* the last number handed out
  settled,     \* every number up to this one is accounted for
  delivered,   \* the numbers handed to the consumer as records, in order
  lost         \* the numbers the consumer was told are lost

vars == <<issued, settled, delivered, lost>>

\* The run of numbers a+1, a+2, ..., b.
Consecutive(a, b) == [i \in 1..(b - a) |-> a + i]

Init ==
  /\ issued = 0
  /\ settled = 0
  /\ delivered = <<>>
  /\ lost = {}

Issue ==
  /\ issued' = issued + 1
  /\ UNCHANGED <<settled, delivered, lost>>

\* One answer to the consumer: report everything up to g lost, then deliver
\* everything after g up to h.
Settle(g, h) ==
  /\ settled <= g /\ g <= h /\ h <= issued
  /\ g > settled => g + Capacity <= issued
  /\ settled' = h
  /\ lost' = lost \cup ((settled + 1)..g)
  /\ delivered' = delivered \o Consecutive(g, h)
  /\ UNCHANGED issued

Next == Issue \/ \E g, h \in 0..issued : Settle(g, h)

Spec == Init /\ [][Next]_vars
=============================================================================
