------------------------------- MODULE Ingest -------------------------------
(***************************************************************************)
(* The hand-off from bleak's notification callback to the consumer: a      *)
(* numbered, bounded queue that drops its oldest record when it is full    *)
(* and keeps the account of what it dropped in a slot of its own.          *)
(*                                                                         *)
(* One action per public call.  A call never awaits, so on the collector's *)
(* event loop each of them is atomic; any interleaving of calls is allowed.*)
(* A payload is abstracted to its kind, and the pair of clocks stamped on  *)
(* an offer to the number of that offer: there is one stamp per offer.     *)
(***************************************************************************)
EXTENDS Integers, Sequences, FiniteSets

CONSTANTS
  Kinds,       \* the kinds of notification, telemetry and alert in the code
  MaxSize,     \* the constructor's maxsize, the gap's slot included
  MaxOffers,   \* bound on the calls of offer in a behaviour
  None         \* Python's None

\* A record waiting to be consumed, and the account of a run of losses.
Notification == [seq : Nat, kind : Kinds]
Gap == [first : Nat, last : Nat, at : Nat]

\* IngestMetrics
Metrics == [accepted : Nat, dropped : Nat, gaps : Nat, highWater : Nat,
            depth : Nat]

ASSUME IngestAssumption ==
  /\ MaxSize \in Nat /\ MaxSize >= 2      \* the constructor raises below two
  /\ MaxOffers \in Nat
  /\ None \notin Gap
  /\ None \notin Notification

VARIABLES
  seq,         \* _seq
  items,       \* _items, oldest first
  gap,         \* _gap
  latest,      \* latest, one cell per kind
  metrics,     \* metrics
  delivered,   \* history: the numbers handed to the consumer, in order
  lost,        \* history: the numbers some gap handed over has named
  settled,     \* history: the newest number handed over in either form
  gapsRead     \* history: how many gaps were handed over

queueVars == <<seq, items, gap, latest, metrics>>
consumerVars == <<delivered, lost, settled, gapsRead>>
vars == <<seq, items, gap, latest, metrics, delivered, lost, settled, gapsRead>>

\* One slot of the budget belongs to the gap, permanently.
Capacity == MaxSize - 1

Length(queue, hole) == Len(queue) + (IF hole = None THEN 0 ELSE 1)

\* Gap.count
Count(hole) == hole.last - hole.first + 1

LeastOf(a, b) == IF a <= b THEN a ELSE b
MostOf(a, b) == IF a >= b THEN a ELSE b

Init ==
  /\ seq = 0
  /\ items = <<>>
  /\ gap = None
  /\ latest = [k \in Kinds |-> None]
  /\ metrics = [accepted |-> 0, dropped |-> 0, gaps |-> 0,
                highWater |-> 0, depth |-> 0]
  /\ delivered = <<>>
  /\ lost = {}
  /\ settled = 0
  /\ gapsRead = 0

\* Mutant: the clocks move to the latest loss.
WidenGapRestamped(n, now) ==
  IF gap = None
  THEN [first |-> n, last |-> n, at |-> now]
  ELSE [first |-> LeastOf(gap.first, n), last |-> MostOf(gap.last, n),
        at |-> now]

\* _widen_gap: fold one lost number, evicted at the instant now, into the
\* pending gap.  The instant stays the one the hole opened at.
WidenGap(n, now) ==
  IF gap = None
  THEN [first |-> n, last |-> n, at |-> now]
  ELSE [first |-> LeastOf(gap.first, n), last |-> MostOf(gap.last, n),
        at |-> gap.at]

\* Mutant: only the loss that opens a gap is counted.
CountedOncePerGap(queue, hole, evicted) ==
  [accepted  |-> metrics.accepted + 1,
   dropped   |-> metrics.dropped + (IF gap = None THEN evicted ELSE 0),
   gaps      |-> IF gap = None /\ hole # None THEN metrics.gaps + 1
                                              ELSE metrics.gaps,
   highWater |-> MostOf(metrics.highWater, Length(queue, hole)),
   depth     |-> Length(queue, hole)]

\* Mutant: the high water mark is the room left, not the depth.
CountedAsRoom(queue, hole, evicted) ==
  [accepted  |-> metrics.accepted + 1,
   dropped   |-> metrics.dropped + evicted,
   gaps      |-> metrics.gaps,
   highWater |-> Capacity - Length(queue, hole),
   depth     |-> Length(queue, hole)]

\* What offer and its eviction loop count.
Counted(queue, hole, evicted) ==
  [accepted  |-> metrics.accepted + 1,
   dropped   |-> metrics.dropped + evicted,
   gaps      |-> IF gap = None /\ hole # None THEN metrics.gaps + 1
                                              ELSE metrics.gaps,
   highWater |-> MostOf(metrics.highWater, Length(queue, hole)),
   depth     |-> Length(queue, hole)]

\* The body of offer, once the eviction loop has left kept in the deque.
Enqueue(k, kept, hole, evicted) ==
  LET note == [seq |-> seq + 1, kind |-> k]
      queue == Append(kept, note)
  IN  /\ seq < MaxOffers
      /\ seq' = seq + 1
      /\ latest' = [latest EXCEPT ![k] = note]
      /\ items' = queue
      /\ gap' = hole
      /\ metrics' = Counted(queue, hole, evicted)
      /\ UNCHANGED consumerVars

\* offer, when the deque has room.
OfferWithRoom(k) == Len(items) < Capacity /\ Enqueue(k, items, gap, 0)

\* Mutant: the newest queued record is evicted, not the oldest.
OfferEvictingNewest(k) ==
  /\ Len(items) >= Capacity
  /\ Enqueue(k, SubSeq(items, 1, Capacity - 1),
             WidenGap(items[Capacity].seq, seq + 1), 1)

\* offer, when the deque is full.  It never holds more than Capacity records,
\* so the eviction loop runs exactly once.
OfferEvicting(k) ==
  /\ Len(items) >= Capacity
  /\ Enqueue(k, Tail(items), WidenGap(Head(items).seq, seq + 1), 1)

\* pop, with a gap pending: the gap goes first.
PopGap ==
  /\ gap # None
  /\ gap' = None
  /\ metrics' = [metrics EXCEPT !.depth = Length(items, None)]
  /\ lost' = lost \cup (gap.first..gap.last)
  /\ settled' = gap.last
  /\ gapsRead' = gapsRead + 1
  /\ UNCHANGED <<seq, items, latest, delivered>>

\* Mutant: pop prefers a record to a pending gap.
PopItemBeforeGap ==
  /\ items # <<>>
  /\ items' = Tail(items)
  /\ metrics' = [metrics EXCEPT !.depth = Length(Tail(items), gap)]
  /\ delivered' = Append(delivered, Head(items).seq)
  /\ settled' = Head(items).seq
  /\ UNCHANGED <<seq, gap, latest, lost, gapsRead>>

\* pop, with no gap pending.  On an empty queue it returns None and changes
\* nothing.
PopItem ==
  /\ gap = None
  /\ items # <<>>
  /\ items' = Tail(items)
  /\ metrics' = [metrics EXCEPT !.depth = Length(Tail(items), None)]
  /\ delivered' = Append(delivered, Head(items).seq)
  /\ settled' = Head(items).seq
  /\ UNCHANGED <<seq, gap, latest, lost, gapsRead>>

\* drain: the gap, when there is one, and then every record.
Drain ==
  /\ items' = <<>>
  /\ gap' = None
  /\ metrics' = [metrics EXCEPT !.depth = 0]
  /\ lost' = IF gap = None THEN lost ELSE lost \cup (gap.first..gap.last)
  /\ gapsRead' = IF gap = None THEN gapsRead ELSE gapsRead + 1
  /\ delivered' = delivered \o [i \in 1..Len(items) |-> items[i].seq]
  /\ settled' = IF items # <<>> THEN items[Len(items)].seq
                ELSE IF gap # None THEN gap.last ELSE settled
  /\ UNCHANGED <<seq, latest>>

Next ==
  \/ \E k \in Kinds : OfferWithRoom(k)
  \/ \E k \in Kinds : OfferEvicting(k)
  \/ PopGap
  \/ PopItem
  \/ Drain

Spec == Init /\ [][Next]_vars

-----------------------------------------------------------------------------

\* Type correctness of the queue and of the consumer's history.
TypeOK ==
  /\ seq \in Nat
  /\ items \in Seq(Notification)
  /\ gap \in Gap \cup {None}
  /\ latest \in [Kinds -> Notification \cup {None}]
  /\ metrics \in Metrics
  /\ delivered \in Seq(Nat)
  /\ lost \in SUBSET Nat
  /\ settled \in Nat
  /\ gapsRead \in Nat

\* The backlog is bounded and the published depth is the real one, with the
\* high water mark never below it and never above the configured size.
Bounded ==
  /\ Len(items) <= Capacity
  /\ metrics.depth = Length(items, gap)
  /\ metrics.depth <= metrics.highWater
  /\ metrics.highWater <= MaxSize

\* The numbers form one contiguous line: those settled, then those the pending
\* gap names, then those still queued, up to the last one handed out.
Contiguous ==
  /\ \A i \in 1..Len(items) : items[i].seq = seq - Len(items) + i
  /\ gap = None => settled = seq - Len(items)
  /\ gap # None => /\ gap.first = settled + 1
                   /\ gap.last = seq - Len(items)
                   /\ gap.first <= gap.last

\* A pending gap is dated by the offer that opened the hole, however many
\* losses were folded into it since, and the queue behind it is full.
GapDated ==
  gap # None => /\ gap.at = gap.first + Capacity
                /\ gap.last + Capacity <= seq

\* Nothing is dropped silently: what was accepted is delivered, queued or
\* counted as dropped, and every number counted as dropped has been named to
\* the consumer or is named by the pending gap.
NothingSilent ==
  /\ metrics.accepted = Len(delivered) + Len(items) + metrics.dropped
  /\ metrics.dropped
       = Cardinality(lost) + (IF gap = None THEN 0 ELSE Count(gap))
  /\ metrics.gaps = gapsRead + (IF gap = None THEN 0 ELSE 1)

\* The cell of a kind holds the newest notification of that kind whatever the
\* backlog dropped: nothing newer of the kind is queued, and while it is the
\* newest of all it is not lost.
CurrentView ==
  \A k \in Kinds :
    /\ latest[k] = None => \A i \in 1..Len(items) : items[i].kind # k
    /\ latest[k] # None =>
         /\ latest[k].kind = k
         /\ \A i \in 1..Len(items) :
              items[i].kind = k => items[i].seq <= latest[k].seq
         /\ latest[k].seq > seq - Len(items) =>
              \E i \in 1..Len(items) : items[i] = latest[k]

\* The queue keeps the ledger's promise: numbers are settled in order, once
\* each, and one is lost only when Capacity newer ones exist.
Ledger == INSTANCE LossLedger WITH issued <- seq

LedgerSpec == Ledger!Spec
=============================================================================
