---------------------------- MODULE IngestProofs ----------------------------
(***************************************************************************)
(* Proofs about the ingest queue, for every size of the queue and every    *)
(* number of offers.  The inductive invariant says that the settled        *)
(* numbers, the pending gap and the queued records form one contiguous     *)
(* line; type correctness and the bound on the backlog make it inductive.  *)
(***************************************************************************)
EXTENDS Ingest, FiniteSetTheorems, TLAPS

IInv == TypeOK /\ Bounded /\ Contiguous /\ GapDated

\* What Head, Tail and Append do to a queue of notifications, by position.
LEMMA QueueFacts ==
  ASSUME NEW S, NEW q \in Seq(S)
  PROVE  /\ Len(q) \in Nat
         /\ \A i \in 1..Len(q) : q[i] \in S
         /\ q # <<>> => /\ Len(q) >= 1
                        /\ Head(q) = q[1]
                        /\ Head(q) \in S
                        /\ Tail(q) \in Seq(S)
                        /\ Len(Tail(q)) = Len(q) - 1
                        /\ \A i \in 1..(Len(q) - 1) : Tail(q)[i] = q[i + 1]
         /\ \A e \in S : /\ Append(q, e) \in Seq(S)
                         /\ Len(Append(q, e)) = Len(q) + 1
                         /\ \A i \in 1..Len(q) : Append(q, e)[i] = q[i]
                         /\ Append(q, e)[Len(q) + 1] = e
  OBVIOUS

\* What offer counts is a well-formed IngestMetrics.
LEMMA CountedFacts ==
  ASSUME metrics \in Metrics, NEW queue, NEW hole, NEW evicted \in Nat,
         Len(queue) \in Nat
  PROVE  /\ Counted(queue, hole, evicted) \in Metrics
         /\ Counted(queue, hole, evicted).depth = Length(queue, hole)
         /\ Counted(queue, hole, evicted).highWater
              = MostOf(metrics.highWater, Length(queue, hole))
  <1>1. Length(queue, hole) \in Nat
    BY DEF Length
  <1>2. MostOf(metrics.highWater, Length(queue, hole)) \in Nat
    BY <1>1 DEF MostOf, Metrics
  <1> QED BY <1>1, <1>2 DEF Counted, Metrics

\* What pop and drain do to the metrics.
LEMMA DepthFacts ==
  ASSUME metrics \in Metrics, NEW depth \in Nat
  PROVE  /\ [metrics EXCEPT !.depth = depth] \in Metrics
         /\ [metrics EXCEPT !.depth = depth].depth = depth
         /\ [metrics EXCEPT !.depth = depth].highWater = metrics.highWater
  BY DEF Metrics

\* The initial state satisfies the inductive invariant.
LEMMA InitIInv == Init => IInv
  <1> SUFFICES ASSUME Init PROVE IInv
    OBVIOUS
  <1>1. /\ seq = 0 /\ gap = None /\ settled = 0 /\ Len(items) = 0
        /\ metrics.depth = 0 /\ metrics.highWater = 0
    BY DEF Init
  <1>2. TypeOK
    BY DEF Init, TypeOK, Metrics
  <1>3. Bounded
    BY <1>1, IngestAssumption DEF Bounded, Length, Capacity
  <1>4. Contiguous /\ GapDated
    BY <1>1 DEF Contiguous, GapDated
  <1> QED BY <1>2, <1>3, <1>4 DEF IInv

\* Every step keeps the inductive invariant.
LEMMA NextIInv == IInv /\ [Next]_vars => IInv'
  <1> SUFFICES ASSUME IInv, [Next]_vars PROVE IInv'
    OBVIOUS
  <1>a. /\ TypeOK /\ Bounded /\ Contiguous /\ GapDated
        /\ Capacity \in Nat /\ Capacity >= 1 /\ MaxSize = Capacity + 1
    BY IngestAssumption DEF IInv, Capacity
  <1>1. ASSUME NEW k \in Kinds, OfferWithRoom(k) PROVE IInv'
    <2> DEFINE note == [seq |-> seq + 1, kind |-> k]
    <2>1. note \in Notification
      BY <1>a DEF TypeOK, Notification
    <2>2. /\ items' = Append(items, note) /\ gap' = gap /\ seq' = seq + 1
          /\ Len(items) < Capacity
          /\ latest' = [latest EXCEPT ![k] = note]
          /\ metrics' = Counted(items', gap', 0)
          /\ UNCHANGED consumerVars
      BY <1>1 DEF OfferWithRoom, Enqueue
    <2>3. /\ items' \in Seq(Notification) /\ Len(items') = Len(items) + 1
          /\ \A i \in 1..Len(items) : items'[i] = items[i]
          /\ items'[Len(items) + 1] = note
          /\ Len(items) \in Nat
      BY <1>a, <2>1, <2>2, QueueFacts DEF TypeOK
    <2>a. /\ seq \in Nat /\ Len(items) \in Nat
          /\ seq' = seq + 1 /\ Len(items') = Len(items) + 1
      BY <1>a, <2>2, <2>3 DEF TypeOK
    <2>4. /\ metrics'.highWater = MostOf(metrics.highWater, Length(items', gap'))
          /\ metrics'.depth = Length(items', gap')
          /\ metrics' \in Metrics
      BY <1>a, <2>2, <2>3, CountedFacts DEF TypeOK
    <2>5. TypeOK'
      BY <1>a, <2>1, <2>2, <2>3, <2>4 DEF TypeOK, consumerVars
    <2>6. Bounded'
      BY <1>a, <2>2, <2>3, <2>4 DEF TypeOK, Bounded, Length, MostOf
    <2>7. Contiguous'
      <3>1. ASSUME NEW i \in 1..Len(items')
            PROVE  items'[i].seq = seq' - Len(items') + i
        <4>1. CASE i = Len(items) + 1
          <5>1. items'[i] = note /\ note.seq = seq + 1
            BY <4>1, <2>3
          <5> QED BY <5>1, <4>1, <2>a
        <4>2. CASE i # Len(items) + 1
          <5>1. i \in 1..Len(items)
            BY <4>2, <3>1, <2>a
          <5>2. items'[i].seq = seq - Len(items) + i
            BY <5>1, <1>a, <2>3 DEF Contiguous
          <5> QED BY <5>1, <5>2, <2>a
        <4> QED BY <4>1, <4>2
      <3>2. seq' - Len(items') = seq - Len(items)
        BY <2>a
      <3> QED BY <3>1, <3>2, <1>a, <2>2 DEF Contiguous, consumerVars
    <2>8. GapDated'
      BY <1>a, <2>2 DEF TypeOK, GapDated, Gap
    <2> QED BY <2>5, <2>6, <2>7, <2>8 DEF IInv
  <1>2. ASSUME NEW k \in Kinds, OfferEvicting(k) PROVE IInv'
    <2> DEFINE note == [seq |-> seq + 1, kind |-> k]
               oldest == Head(items)
    <2>1. note \in Notification
      BY <1>a DEF TypeOK, Notification
    <2>2. /\ items' = Append(Tail(items), note) /\ seq' = seq + 1
          /\ gap' = WidenGap(oldest.seq, seq + 1)
          /\ Len(items) >= Capacity
          /\ latest' = [latest EXCEPT ![k] = note]
          /\ metrics' = Counted(items', gap', 1)
          /\ UNCHANGED consumerVars
      BY <1>2 DEF OfferEvicting, Enqueue
    <2>3. /\ items # <<>> /\ Len(items) = Capacity
          /\ oldest \in Notification /\ oldest = items[1]
          /\ Tail(items) \in Seq(Notification)
          /\ Len(Tail(items)) = Capacity - 1
          /\ \A i \in 1..(Capacity - 1) : Tail(items)[i] = items[i + 1]
      BY <1>a, <2>2, QueueFacts DEF TypeOK, Bounded
    <2>4. /\ items' \in Seq(Notification) /\ Len(items') = Capacity
          /\ \A i \in 1..(Capacity - 1) : items'[i] = items[i + 1]
          /\ items'[Capacity] = note
      <3>1. /\ Append(Tail(items), note) \in Seq(Notification)
            /\ Len(Append(Tail(items), note)) = Len(Tail(items)) + 1
            /\ \A i \in 1..Len(Tail(items)) :
                 Append(Tail(items), note)[i] = Tail(items)[i]
            /\ Append(Tail(items), note)[Len(Tail(items)) + 1] = note
        BY <2>1, <2>3, QueueFacts
      <3>2. Len(Tail(items)) = Capacity - 1 /\ Capacity \in Nat
        BY <1>a, <2>3
      <3> HIDE DEF note
      <3> QED BY <2>2, <2>3, <3>1, <3>2
    <2>a. /\ seq \in Nat /\ Capacity \in Nat /\ Len(items) = Capacity
          /\ seq' = seq + 1 /\ Len(items') = Capacity
      BY <1>a, <2>2, <2>3, <2>4 DEF TypeOK
    <2>5. oldest.seq = seq - Capacity + 1 /\ oldest.seq \in Nat
      BY <1>a, <2>3 DEF Contiguous, Notification, TypeOK
    <2>6. /\ gap' \in Gap /\ gap' # None
          /\ gap'.first = settled + 1
          /\ gap'.last = oldest.seq
          /\ gap'.first <= gap'.last
          /\ gap'.at = gap'.first + Capacity
      <3>a. /\ seq \in Nat /\ settled \in Nat /\ Capacity \in Nat
            /\ Len(items) = Capacity
        BY <1>a, <2>3 DEF TypeOK
      <3>1. CASE gap = None
        <4>1. gap' = [first |-> oldest.seq, last |-> oldest.seq, at |-> seq + 1]
          BY <2>2, <3>1 DEF WidenGap
        <4>2. gap' \in Gap
          BY <4>1, <2>5, <3>a DEF Gap
        <4>3. settled = seq - Capacity
          BY <3>1, <3>a, <1>a DEF Contiguous
        <4>4. /\ gap'.first = oldest.seq /\ gap'.last = oldest.seq
              /\ gap'.at = seq + 1
          BY <4>1
        <4> QED BY <4>2, <4>3, <4>4, <2>5, <3>a, IngestAssumption
      <3>2. CASE gap # None
        <4>1. gap' = [first |-> LeastOf(gap.first, oldest.seq),
                      last |-> MostOf(gap.last, oldest.seq), at |-> gap.at]
          BY <2>2, <3>2 DEF WidenGap
        <4>2. /\ gap \in Gap /\ gap.first = settled + 1
              /\ gap.last = seq - Capacity /\ gap.first <= gap.last
              /\ gap.at = gap.first + Capacity
          BY <1>a, <2>3, <3>2 DEF TypeOK, Contiguous, GapDated
        <4>3. /\ gap.first \in Nat /\ gap.last \in Nat /\ gap.at \in Nat
              /\ seq \in Nat
          BY <4>2, <1>a DEF Gap, TypeOK
        <4>4. /\ LeastOf(gap.first, oldest.seq) = gap.first
              /\ MostOf(gap.last, oldest.seq) = oldest.seq
          BY <4>2, <4>3, <2>5, <1>a DEF LeastOf, MostOf
        <4>5. gap' = [first |-> gap.first, last |-> oldest.seq, at |-> gap.at]
          BY <4>1, <4>4
        <4>6. gap' \in Gap
          BY <4>5, <4>3, <2>5 DEF Gap
        <4>7. /\ gap'.first = gap.first /\ gap'.last = oldest.seq
              /\ gap'.at = gap.at
          BY <4>5
        <4> QED BY <4>6, <4>7, <4>2, <4>3, <2>5, <3>a, IngestAssumption
      <3> QED BY <3>1, <3>2
    <2>7. /\ metrics'.highWater = MostOf(metrics.highWater, Length(items', gap'))
          /\ metrics'.depth = Length(items', gap')
          /\ metrics' \in Metrics
      BY <1>a, <2>2, <2>4, CountedFacts DEF TypeOK
    <2>8. TypeOK'
      BY <1>a, <2>1, <2>2, <2>4, <2>6, <2>7 DEF TypeOK, consumerVars
    <2>9. Bounded'
      BY <1>a, <2>4, <2>6, <2>7 DEF TypeOK, Bounded, Length, MostOf
    <2>10. Contiguous'
      <3>1. ASSUME NEW i \in 1..Len(items')
            PROVE  items'[i].seq = seq' - Len(items') + i
        <4>1. CASE i = Capacity
          <5>1. items'[i] = note /\ note.seq = seq + 1
            BY <4>1, <2>4
          <5> QED BY <5>1, <4>1, <1>a, <2>2, <2>4 DEF TypeOK
        <4>2. CASE i # Capacity
          <5>1. i \in 1..(Capacity - 1) /\ i + 1 \in 1..Len(items)
            BY <4>2, <3>1, <1>a, <2>3, <2>4
          <5>2. items'[i].seq = seq - Len(items) + (i + 1)
            BY <5>1, <1>a, <2>4 DEF Contiguous
          <5> QED BY <5>1, <5>2, <2>a
        <4> QED BY <4>1, <4>2
      <3>2. settled' = settled
        BY <2>2 DEF consumerVars
      <3>3. gap'.last = seq' - Len(items')
        BY <2>a, <2>5, <2>6
      <3> QED BY <3>1, <3>2, <3>3, <2>6 DEF Contiguous
    <2>11. GapDated'
      BY <1>a, <2>2, <2>5, <2>6 DEF TypeOK, GapDated
    <2> QED BY <2>8, <2>9, <2>10, <2>11 DEF IInv
  <1>3. CASE PopGap
    <2>1. /\ Len(items) \in Nat /\ seq \in Nat
          /\ gap \in Gap /\ gap.last = seq - Len(items)
          /\ gap.first \in Nat /\ gap.last \in Nat
      BY <1>3, <1>a DEF PopGap, TypeOK, Contiguous, Gap
    <2>2. /\ gap' = None /\ settled' = gap.last /\ gapsRead' = gapsRead + 1
          /\ lost' = lost \cup (gap.first..gap.last)
          /\ UNCHANGED <<seq, items, latest, delivered>>
          /\ metrics' = [metrics EXCEPT !.depth = Len(items)]
      BY <1>3, <2>1 DEF PopGap, Length
    <2>3. /\ metrics'.depth = Len(items)
          /\ metrics'.highWater = metrics.highWater
          /\ metrics' \in Metrics
      BY <1>a, <2>1, <2>2, DepthFacts DEF TypeOK
    <2>4. lost' \in SUBSET Nat
      BY <1>a, <2>1, <2>2 DEF TypeOK
    <2>5. TypeOK'
      BY <1>a, <2>1, <2>2, <2>3, <2>4 DEF TypeOK
    <2>6. Bounded'
      <3>1. metrics.depth = Len(items) + 1
        BY <1>3, <1>a DEF PopGap, Bounded, Length
      <3> QED BY <3>1, <1>a, <2>1, <2>2, <2>3 DEF TypeOK, Bounded, Length, Metrics
    <2>7. Contiguous' /\ GapDated'
      BY <1>a, <2>1, <2>2 DEF Contiguous, GapDated
    <2> QED BY <2>5, <2>6, <2>7 DEF IInv
  <1>4. CASE PopItem
    <2>1. /\ Len(items) \in Nat /\ Len(items) >= 1 /\ seq \in Nat
          /\ Head(items) = items[1] /\ Head(items) \in Notification
          /\ Tail(items) \in Seq(Notification)
          /\ Len(Tail(items)) = Len(items) - 1
          /\ \A i \in 1..(Len(items) - 1) : Tail(items)[i] = items[i + 1]
      BY <1>4, <1>a, QueueFacts DEF PopItem, TypeOK
    <2>2. /\ Head(items).seq = seq - Len(items) + 1
          /\ Head(items).seq \in Nat
      BY <1>a, <2>1 DEF Contiguous, Notification
    <2>3. /\ gap = None /\ gap' = None /\ items' = Tail(items)
          /\ settled' = Head(items).seq
          /\ delivered' = Append(delivered, Head(items).seq)
          /\ UNCHANGED <<seq, latest, lost, gapsRead>>
          /\ metrics' = [metrics EXCEPT !.depth = Len(items) - 1]
      BY <1>4, <2>1 DEF PopItem, Length
    <2>4. /\ metrics'.depth = Len(items) - 1
          /\ metrics'.highWater = metrics.highWater
          /\ metrics' \in Metrics
      <3>1. Len(items) - 1 \in Nat /\ metrics \in Metrics
        BY <1>a, <2>1 DEF TypeOK
      <3> QED BY <3>1, <2>3, DepthFacts
    <2>5. delivered' \in Seq(Nat)
      <3>1. delivered \in Seq(Nat)
        BY <1>a DEF TypeOK
      <3> QED BY <3>1, <2>2, <2>3
    <2>6. TypeOK'
      BY <1>a, <2>1, <2>2, <2>3, <2>4, <2>5 DEF TypeOK
    <2>7. Bounded'
      <3>1. metrics.depth = Len(items)
        BY <1>a, <2>1, <2>3 DEF Bounded, Length
      <3>2. /\ Len(items) <= Capacity /\ metrics.depth <= metrics.highWater
            /\ metrics.highWater <= MaxSize /\ metrics.highWater \in Nat
        BY <1>a DEF Bounded, TypeOK, Metrics
      <3>3. Len(items') = Len(items) - 1 /\ gap' = None
        BY <2>1, <2>3
      <3>4. Length(items', gap') = Len(items) - 1
        BY <3>3, <2>1 DEF Length
      <3> QED BY <3>1, <3>2, <3>3, <3>4, <1>a, <2>1, <2>4 DEF Bounded
    <2>8. Contiguous'
      <3>1. \A i \in 1..Len(items') : items'[i].seq = seq' - Len(items') + i
        BY <1>a, <2>1, <2>3 DEF Contiguous
      <3> QED BY <3>1, <2>1, <2>2, <2>3 DEF Contiguous
    <2>9. GapDated'
      BY <2>3 DEF GapDated
    <2> QED BY <2>6, <2>7, <2>8, <2>9 DEF IInv
  <1>5. CASE Drain
    <2> DEFINE numbers == [i \in 1..Len(items) |-> items[i].seq]
    <2>1. /\ Len(items) \in Nat /\ seq \in Nat
          /\ \A i \in 1..Len(items) : items[i] \in Notification
          /\ items # <<>> => Len(items) >= 1
          /\ items = <<>> => Len(items) = 0
      <3>1. items \in Seq(Notification) /\ seq \in Nat
        BY <1>a DEF TypeOK
      <3>2. items = <<>> => Len(items) = 0
        OBVIOUS
      <3> QED BY <3>1, <3>2, QueueFacts
    <2>2. /\ items' = <<>> /\ gap' = None
          /\ metrics' = [metrics EXCEPT !.depth = 0]
          /\ UNCHANGED <<seq, latest>>
      BY <1>5 DEF Drain
    <2>3. delivered' \in Seq(Nat)
      <3>1. \A i \in 1..Len(items) : items[i].seq \in Nat
        BY <2>1 DEF Notification
      <3>2. numbers \in Seq(Nat)
        BY <2>1, <3>1
      <3> QED BY <3>2, <1>5, <1>a DEF Drain, TypeOK
    <2>4. settled' = seq
      <3>1. CASE items # <<>>
        <4>1. settled' = items[Len(items)].seq
          BY <3>1, <1>5 DEF Drain
        <4>2. items[Len(items)].seq = seq - Len(items) + Len(items)
          BY <3>1, <1>a, <2>1 DEF Contiguous
        <4> QED BY <4>1, <4>2, <2>1
      <3>2. CASE items = <<>> /\ gap # None
        <4>1. settled' = gap.last
          BY <3>2, <1>5 DEF Drain
        <4> QED BY <4>1, <3>2, <1>a, <2>1 DEF Contiguous
      <3>3. CASE items = <<>> /\ gap = None
        <4>1. settled' = settled
          BY <3>3, <1>5 DEF Drain
        <4> QED BY <4>1, <3>3, <1>a, <2>1 DEF Contiguous
      <3> QED BY <3>1, <3>2, <3>3
    <2>5. lost' \in SUBSET Nat /\ gapsRead' \in Nat
      BY <1>5, <1>a DEF Drain, TypeOK, Gap
    <2>6. /\ metrics'.depth = 0 /\ metrics'.highWater = metrics.highWater
          /\ metrics' \in Metrics
      BY <1>a, <2>2, DepthFacts DEF TypeOK
    <2>7. TypeOK'
      BY <1>a, <2>1, <2>2, <2>3, <2>4, <2>5, <2>6 DEF TypeOK
    <2>8. Bounded'
      <3>1. metrics.highWater \in Nat /\ Len(items') = 0
        BY <1>a, <2>2 DEF TypeOK, Metrics
      <3> QED BY <3>1, <1>a, <2>1, <2>2, <2>6 DEF Bounded, Length
    <2>9. Contiguous' /\ GapDated'
      BY <2>1, <2>2, <2>4 DEF Contiguous, GapDated
    <2> QED BY <2>7, <2>8, <2>9 DEF IInv
  <1>6. CASE UNCHANGED vars
    BY <1>6, <1>a DEF vars, IInv, TypeOK, Bounded, Contiguous, GapDated, Length
  <1> QED BY <1>1, <1>2, <1>3, <1>4, <1>5, <1>6 DEF Next

\* Every reachable state of the queue satisfies the inductive invariant.
THEOREM InductiveInvariant == Spec => []IInv
  BY InitIInv, NextIInv, PTL DEF Spec

\* The published depth is the real one and the backlog never exceeds the
\* configured size, whatever is offered and read.
THEOREM BacklogBounded == Spec => []Bounded
  BY InductiveInvariant, PTL DEF IInv

\* The variables keep their types.
THEOREM TypeCorrect == Spec => []TypeOK
  BY InductiveInvariant, PTL DEF IInv

\* A pending gap keeps the instant the hole opened at, and the newest Capacity
\* numbers are never inside it.
THEOREM GapDatedAtOpening == Spec => []GapDated
  BY InductiveInvariant, PTL DEF IInv

-----------------------------------------------------------------------------

\* The runs of numbers one answer to the consumer delivers.
LEMMA RunFacts ==
  ASSUME NEW a \in Nat
  PROVE  /\ Ledger!Consecutive(a, a) = <<>>
         /\ Ledger!Consecutive(a, a + 1) = <<a + 1>>
  BY DEF Ledger!Consecutive

\* Every step of the queue is a step of the ledger or leaves it alone.
LEMMA LedgerStep == IInv /\ [Next]_vars => [Ledger!Next]_Ledger!vars
  <1> SUFFICES ASSUME IInv, [Next]_vars PROVE [Ledger!Next]_Ledger!vars
    OBVIOUS
  <1>a. /\ seq \in Nat /\ settled \in Nat /\ delivered \in Seq(Nat)
        /\ lost \in SUBSET Nat /\ items \in Seq(Notification)
        /\ Len(items) \in Nat
        /\ Capacity \in Nat /\ Capacity >= 1
    BY IngestAssumption DEF IInv, TypeOK, Capacity
  <1>b. Contiguous /\ GapDated
    BY DEF IInv
  <1>c. gap # None => /\ gap.first \in Nat /\ gap.last \in Nat
    BY DEF IInv, TypeOK, Gap
  <1>1. ASSUME NEW k \in Kinds, OfferWithRoom(k) \/ OfferEvicting(k)
        PROVE  Ledger!Issue
    BY <1>1 DEF OfferWithRoom, OfferEvicting, Enqueue, Ledger!Issue, consumerVars
  <1>2. CASE PopGap
    <2>1. Ledger!Settle(gap.last, gap.last)
      <3>1. /\ gap # None /\ gap.first = settled + 1
            /\ gap.last = seq - Len(items) /\ gap.first <= gap.last
            /\ gap.last + Capacity <= seq
        BY <1>2, <1>b DEF PopGap, Contiguous, GapDated
      <3>2. /\ lost' = lost \cup (gap.first..gap.last) /\ settled' = gap.last
            /\ UNCHANGED <<seq, delivered>>
        BY <1>2 DEF PopGap
      <3>3. delivered \o <<>> = delivered
        BY <1>a
      <3>4. /\ settled <= gap.last /\ gap.last <= gap.last /\ gap.last <= seq
        BY <3>1, <1>a, <1>c
      <3>5. Ledger!Consecutive(gap.last, gap.last) = <<>>
        BY <3>1, <1>c, RunFacts
      <3>6. (settled + 1)..gap.last = gap.first..gap.last
        BY <3>1
      <3> QED BY <3>1, <3>2, <3>3, <3>4, <3>5, <3>6 DEF Ledger!Settle
    <2>2. gap.last \in 0..seq
      BY <1>2, <1>a, <1>b, <1>c DEF PopGap, Contiguous
    <2> QED BY <2>1, <2>2 DEF Ledger!Next
  <1>3. CASE PopItem
    <2>1. /\ Len(items) >= 1 /\ Head(items) = items[1]
      BY <1>3, <1>a, QueueFacts DEF PopItem
    <2>2. gap = None /\ settled = seq - Len(items)
      BY <1>3, <1>b DEF PopItem, Contiguous
    <2>3. Head(items).seq = settled + 1
      BY <2>1, <2>2, <1>a, <1>b DEF Contiguous
    <2>4. /\ lost' = lost /\ settled' = settled + 1 /\ seq' = seq
          /\ delivered' = Append(delivered, settled + 1)
      BY <1>3, <2>3 DEF PopItem
    <2>5. Append(delivered, settled + 1) = delivered \o <<settled + 1>>
      BY <1>a
    <2>6. Ledger!Settle(settled, settled + 1)
      <3>1. (settled + 1)..settled = {}
        BY <1>a
      <3>2. /\ settled <= settled /\ settled <= settled + 1
            /\ settled + 1 <= seq /\ ~(settled > settled)
        BY <2>1, <2>2, <1>a
      <3>3. Ledger!Consecutive(settled, settled + 1) = <<settled + 1>>
        BY <1>a, RunFacts
      <3>4. lost' = lost \cup ((settled + 1)..settled)
        BY <3>1, <2>4
      <3> QED BY <3>2, <3>3, <3>4, <2>4, <2>5 DEF Ledger!Settle
    <2>7. settled \in 0..seq /\ settled + 1 \in 0..seq
      BY <2>1, <2>2, <1>a
    <2> QED BY <2>6, <2>7 DEF Ledger!Next
  <1>4. CASE Drain
    <2> DEFINE g == seq - Len(items)
    <2>1. delivered' = delivered \o Ledger!Consecutive(g, seq)
      <3>1. [i \in 1..Len(items) |-> items[i].seq] = Ledger!Consecutive(g, seq)
        <4>1. seq - g = Len(items)
          BY <1>a
        <4>2. \A i \in 1..Len(items) : items[i].seq = g + i
          BY <1>b DEF Contiguous
        <4> QED BY <4>1, <4>2 DEF Ledger!Consecutive
      <3> QED BY <3>1, <1>4 DEF Drain
    <2>2. /\ settled <= g
          /\ g > settled => g + Capacity <= seq
          /\ lost' = lost \cup ((settled + 1)..g)
      <3>1. CASE gap = None
        <4>1. settled = g /\ lost' = lost
          BY <3>1, <1>4, <1>b DEF Drain, Contiguous
        <4>2. (settled + 1)..g = {}
          BY <4>1, <1>a
        <4> QED BY <4>1, <4>2, <1>a
      <3>2. CASE gap # None
        <4>1. /\ gap.first = settled + 1 /\ gap.last = g
              /\ gap.first <= gap.last /\ gap.last + Capacity <= seq
          BY <3>2, <1>b DEF Contiguous, GapDated
        <4>2. lost' = lost \cup (gap.first..gap.last)
          BY <3>2, <1>4 DEF Drain
        <4> QED BY <4>1, <4>2, <1>a
      <3> QED BY <3>1, <3>2
    <2>3. settled' = seq
      <3>1. CASE items # <<>>
        <4>1. Len(items) >= 1 /\ settled' = items[Len(items)].seq
          BY <3>1, <1>4, <1>a, QueueFacts DEF Drain
        <4>2. items[Len(items)].seq = seq - Len(items) + Len(items)
          BY <4>1, <1>a, <1>b DEF Contiguous
        <4> QED BY <4>1, <4>2, <1>a
      <3>2. CASE items = <<>>
        <4>1. Len(items) = 0
          BY <3>2
        <4>2. settled' = IF gap # None THEN gap.last ELSE settled
          BY <3>2, <1>4 DEF Drain
        <4> QED BY <4>1, <4>2, <1>a, <1>b DEF Contiguous
      <3> QED BY <3>1, <3>2
    <2>4. g <= seq /\ g \in 0..seq /\ seq \in 0..seq
      BY <2>2, <1>a
    <2>5. Ledger!Settle(g, seq)
      <3>1. UNCHANGED seq
        BY <1>4 DEF Drain
      <3>2. seq <= seq
        BY <1>a
      <3> HIDE DEF g
      <3> QED BY <2>1, <2>2, <2>3, <2>4, <3>1, <3>2 DEF Ledger!Settle
    <2> QED BY <2>4, <2>5 DEF Ledger!Next
  <1>5. CASE UNCHANGED vars
    BY <1>5 DEF vars, Ledger!vars
  <1> QED BY <1>1, <1>2, <1>3, <1>4, <1>5 DEF Next, Ledger!Next

\* The queue implements the ledger for every size: each number offered is
\* settled in order and exactly once, delivered or named lost, and a number is
\* lost only when Capacity newer ones exist.
THEOREM ImplementsLedger == Spec => LedgerSpec
  <1>1. Init => Ledger!Init
    BY DEF Init, Ledger!Init
  <1>2. Spec => []IInv
    BY InductiveInvariant
  <1> QED BY <1>1, <1>2, LedgerStep, PTL DEF Spec, LedgerSpec, Ledger!Spec

-----------------------------------------------------------------------------

\* What makes the conservation of numbers inductive: everything reported lost
\* is settled, so a new report never repeats a number.
SilentInv ==
  /\ NothingSilent
  /\ IsFiniteSet(lost)
  /\ lost \subseteq 1..settled

\* Reporting the run after the settled numbers adds exactly its length.
LEMMA ReportedOnce ==
  ASSUME NEW s \in Nat, NEW b \in Nat, s + 1 <= b,
         NEW L, IsFiniteSet(L), L \subseteq 1..s
  PROVE  /\ IsFiniteSet(L \cup ((s + 1)..b))
         /\ Cardinality(L \cup ((s + 1)..b)) = Cardinality(L) + (b - s)
         /\ L \cup ((s + 1)..b) \subseteq 1..b
  <1> DEFINE R == (s + 1)..b
  <1>1. IsFiniteSet(R) /\ Cardinality(R) = b - s
    BY FS_Interval
  <1>2. L \cap R = {}
    OBVIOUS
  <1>3. Cardinality(L \cap R) = 0
    BY <1>2, FS_EmptySet
  <1>4. Cardinality(L) \in Nat
    BY FS_CardinalityType
  <1>5. /\ IsFiniteSet(L \cup R)
        /\ Cardinality(L \cup R)
             = Cardinality(L) + Cardinality(R) - Cardinality(L \cap R)
    BY <1>1, FS_Union
  <1>6. L \cup R \subseteq 1..b
    OBVIOUS
  <1> QED BY <1>1, <1>3, <1>4, <1>5, <1>6

\* Every step keeps the account of what was dropped.
LEMMA NextSilent == IInv /\ SilentInv /\ [Next]_vars => SilentInv'
  <1> SUFFICES ASSUME IInv, SilentInv, [Next]_vars PROVE SilentInv'
    OBVIOUS
  <1>a. /\ seq \in Nat /\ settled \in Nat /\ delivered \in Seq(Nat)
        /\ items \in Seq(Notification) /\ metrics \in Metrics
        /\ Len(items) \in Nat /\ Len(delivered) \in Nat
        /\ gapsRead \in Nat /\ gap \in Gap \cup {None}
        /\ Capacity \in Nat /\ Capacity >= 1 /\ Len(items) <= Capacity
    BY IngestAssumption DEF IInv, TypeOK, Capacity, Bounded
  <1>b. /\ metrics.accepted \in Nat /\ metrics.dropped \in Nat
        /\ metrics.gaps \in Nat
    BY <1>a DEF Metrics
  <1>c. gap # None => /\ gap.first \in Nat /\ gap.last \in Nat
                      /\ gap.first = settled + 1 /\ gap.first <= gap.last
                      /\ gap.last = seq - Len(items)
    BY <1>a DEF IInv, Contiguous, Gap
  <1>d. gap = None => settled = seq - Len(items)
    BY DEF IInv, Contiguous
  <1>e. /\ metrics.accepted = Len(delivered) + Len(items) + metrics.dropped
        /\ metrics.dropped
             = Cardinality(lost) + (IF gap = None THEN 0 ELSE Count(gap))
        /\ metrics.gaps = gapsRead + (IF gap = None THEN 0 ELSE 1)
        /\ IsFiniteSet(lost) /\ lost \subseteq 1..settled
        /\ Cardinality(lost) \in Nat
    BY FS_CardinalityType DEF SilentInv, NothingSilent
  <1>1. ASSUME NEW k \in Kinds, OfferWithRoom(k) PROVE SilentInv'
    <2> DEFINE note == [seq |-> seq + 1, kind |-> k]
    <2>1. /\ items' = Append(items, note) /\ gap' = gap
          /\ metrics' = Counted(items', gap', 0)
          /\ UNCHANGED consumerVars
      BY <1>1 DEF OfferWithRoom, Enqueue
    <2>2. Len(items') = Len(items) + 1
      BY <1>a, <2>1
    <2>3. /\ metrics'.accepted = metrics.accepted + 1
          /\ metrics'.dropped = metrics.dropped
          /\ metrics'.gaps = metrics.gaps
      BY <1>b, <2>1 DEF Counted
    <2>4. UNCHANGED <<delivered, lost, settled, gapsRead>>
      BY <2>1 DEF consumerVars
    <2> QED BY <1>a, <1>b, <1>e, <2>1, <2>2, <2>3, <2>4 DEF SilentInv, NothingSilent
  <1>2. ASSUME NEW k \in Kinds, OfferEvicting(k) PROVE SilentInv'
    <2> DEFINE note == [seq |-> seq + 1, kind |-> k]
               oldest == Head(items)
    <2>1. /\ items' = Append(Tail(items), note)
          /\ gap' = WidenGap(oldest.seq, seq + 1)
          /\ metrics' = Counted(items', gap', 1)
          /\ UNCHANGED <<delivered, lost, settled, gapsRead>>
          /\ Len(items) >= 1
      BY <1>2, <1>a DEF OfferEvicting, Enqueue, consumerVars
    <2>2. /\ Head(items) = items[1] /\ Tail(items) \in Seq(Notification)
          /\ Len(Tail(items)) = Len(items) - 1
      BY <1>a, <2>1, QueueFacts
    <2>3. Len(items') = Len(items)
      BY <1>a, <2>1, <2>2
    <2>4. oldest.seq = seq - Len(items) + 1 /\ oldest.seq \in Nat
      <3>1. items[1].seq = seq - Len(items) + 1
        BY <1>a, <2>1 DEF IInv, Contiguous
      <3>2. items[1] \in Notification
        BY <1>a, <2>1
      <3> QED BY <2>2, <3>1, <3>2 DEF Notification
    <2>5. /\ gap' # None
          /\ Count(gap') = (IF gap = None THEN 0 ELSE Count(gap)) + 1
      <3>1. CASE gap = None
        <4>1. gap' = [first |-> oldest.seq, last |-> oldest.seq, at |-> seq + 1]
          BY <2>1, <3>1 DEF WidenGap
        <4>2. gap' \in Gap
          BY <4>1, <2>4, <1>a DEF Gap
        <4>3. gap'.first = oldest.seq /\ gap'.last = oldest.seq
          BY <4>1
        <4> QED BY <4>2, <4>3, <3>1, <2>4, IngestAssumption DEF Count
      <3>2. CASE gap # None
        <4>1. gap' = [first |-> LeastOf(gap.first, oldest.seq),
                      last |-> MostOf(gap.last, oldest.seq), at |-> gap.at]
          BY <2>1, <3>2 DEF WidenGap
        <4>2. /\ LeastOf(gap.first, oldest.seq) = gap.first
              /\ MostOf(gap.last, oldest.seq) = gap.last + 1
          BY <1>a, <1>c, <2>4, <3>2 DEF LeastOf, MostOf
        <4>3. gap' \in Gap
          BY <4>1, <4>2, <1>a, <1>c, <3>2 DEF Gap
        <4>4. gap'.first = gap.first /\ gap'.last = gap.last + 1
          BY <4>1, <4>2
        <4> QED BY <4>3, <4>4, <3>2, <1>c, IngestAssumption DEF Count
      <3> QED BY <3>1, <3>2
    <2>6. /\ metrics'.accepted = metrics.accepted + 1
          /\ metrics'.dropped = metrics.dropped + 1
          /\ metrics'.gaps = IF gap = None THEN metrics.gaps + 1 ELSE metrics.gaps
      BY <1>b, <2>1, <2>5 DEF Counted
    <2>7. Count(gap) \in Nat \/ gap = None
      BY <1>c DEF Count
    <2>8. Len(items') = Len(items) /\ delivered' = delivered /\ lost' = lost
      BY <2>1, <2>3
    <2>9. metrics'.accepted = Len(delivered') + Len(items') + metrics'.dropped
      BY <1>a, <1>b, <1>e, <2>6, <2>8
    <2>10. metrics'.dropped = Cardinality(lost') + Count(gap')
      BY <1>b, <1>e, <2>5, <2>6, <2>7, <2>8
    <2>11. metrics'.gaps = gapsRead' + 1
      BY <1>a, <1>b, <1>e, <2>1, <2>6
    <2> QED BY <1>e, <2>1, <2>5, <2>9, <2>10, <2>11 DEF SilentInv, NothingSilent
  <1>3. CASE PopGap
    <2>1. /\ gap # None /\ gap' = None /\ items' = items
          /\ lost' = lost \cup (gap.first..gap.last) /\ settled' = gap.last
          /\ gapsRead' = gapsRead + 1 /\ delivered' = delivered
          /\ metrics' = [metrics EXCEPT !.depth = Length(items, None)]
      BY <1>3 DEF PopGap
    <2>2. /\ metrics'.accepted = metrics.accepted
          /\ metrics'.dropped = metrics.dropped
          /\ metrics'.gaps = metrics.gaps
      BY <1>a, <2>1 DEF Metrics
    <2>3. /\ IsFiniteSet(lost')
          /\ Cardinality(lost') = Cardinality(lost) + Count(gap)
          /\ lost' \subseteq 1..settled'
      <3>1. Count(gap) = gap.last - settled
        BY <1>a, <1>c, <2>1 DEF Count
      <3>2. /\ settled + 1 <= gap.last /\ gap.last \in Nat
            /\ lost' = lost \cup ((settled + 1)..gap.last)
        BY <1>a, <1>c, <2>1
      <3>3. settled \in Nat /\ IsFiniteSet(lost) /\ lost \subseteq 1..settled
        BY <1>a, <1>e
      <3>4. /\ IsFiniteSet(lost \cup ((settled + 1)..gap.last))
            /\ Cardinality(lost \cup ((settled + 1)..gap.last))
                 = Cardinality(lost) + (gap.last - settled)
            /\ lost \cup ((settled + 1)..gap.last) \subseteq 1..gap.last
        BY <3>2, <3>3, ReportedOnce
      <3>5. settled' = gap.last
        BY <2>1
      <3> QED BY <3>1, <3>2, <3>4, <3>5
    <2>4. Count(gap) \in Nat
      BY <1>a, <1>c, <2>1 DEF Count
    <2> QED BY <1>a, <1>b, <1>e, <2>1, <2>2, <2>3, <2>4 DEF SilentInv, NothingSilent
  <1>4. CASE PopItem
    <2>1. /\ gap = None /\ gap' = None /\ items' = Tail(items)
          /\ items # <<>>
          /\ lost' = lost /\ settled' = Head(items).seq /\ gapsRead' = gapsRead
          /\ delivered' = Append(delivered, Head(items).seq)
          /\ metrics' = [metrics EXCEPT !.depth = Length(Tail(items), None)]
      BY <1>4 DEF PopItem
    <2>2. /\ Len(items) >= 1 /\ Head(items) = items[1]
          /\ Len(Tail(items)) = Len(items) - 1
      BY <1>a, <2>1, QueueFacts
    <2>3. /\ metrics'.accepted = metrics.accepted
          /\ metrics'.dropped = metrics.dropped
          /\ metrics'.gaps = metrics.gaps
      BY <1>a, <2>1 DEF Metrics
    <2>4. settled' = settled + 1
      <3>1. items[1].seq = seq - Len(items) + 1
        BY <1>a, <2>2 DEF IInv, Contiguous
      <3> QED BY <3>1, <1>a, <1>d, <2>1, <2>2
    <2>5. Len(delivered') = Len(delivered) + 1
      BY <1>a, <2>1
    <2>6. lost' \subseteq 1..settled'
      BY <1>a, <1>e, <2>1, <2>4
    <2> QED BY <1>a, <1>b, <1>e, <2>1, <2>2, <2>3, <2>5, <2>6 DEF SilentInv, NothingSilent
  <1>5. CASE Drain
    <2> DEFINE numbers == [i \in 1..Len(items) |-> items[i].seq]
    <2>1. /\ gap' = None /\ items' = <<>>
          /\ metrics' = [metrics EXCEPT !.depth = 0]
          /\ delivered' = delivered \o numbers
      BY <1>5 DEF Drain
    <2>2. /\ metrics'.accepted = metrics.accepted
          /\ metrics'.dropped = metrics.dropped
          /\ metrics'.gaps = metrics.gaps
      BY <1>a, <2>1 DEF Metrics
    <2>3. Len(delivered') = Len(delivered) + Len(items)
      <3>1. numbers \in Seq(Nat) /\ Len(numbers) = Len(items)
        <4>1. \A i \in 1..Len(items) : items[i] \in Notification
          BY <1>a, QueueFacts
        <4>2. \A i \in 1..Len(items) : items[i].seq \in Nat
          BY <4>1 DEF Notification
        <4>3. Len(items) \in Nat
          BY <1>a
        <4> QED BY <4>2, <4>3
      <3>2. delivered \in Seq(Nat)
        BY <1>a
      <3> HIDE DEF numbers
      <3>3. Len(delivered \o numbers) = Len(delivered) + Len(numbers)
        BY <3>1, <3>2
      <3> QED BY <3>1, <3>3, <2>1
    <2>4. settled' >= settled /\ settled' \in Nat
          /\ (gap # None => settled' >= gap.last)
      <3>1. CASE items # <<>>
        <4>1. Len(items) >= 1 /\ settled' = items[Len(items)].seq
          BY <3>1, <1>5, <1>a, QueueFacts DEF Drain
        <4>2. items[Len(items)].seq = seq - Len(items) + Len(items)
          BY <4>1, <1>a DEF IInv, Contiguous
        <4> QED BY <4>1, <4>2, <1>a, <1>c, <1>d
      <3>2. CASE items = <<>>
        <4>1. settled' = IF gap # None THEN gap.last ELSE settled
          BY <3>2, <1>5 DEF Drain
        <4> QED BY <4>1, <1>a, <1>c
      <3> QED BY <3>1, <3>2
    <2>5. /\ IsFiniteSet(lost') /\ lost' \subseteq 1..settled'
          /\ Cardinality(lost')
               = Cardinality(lost) + (IF gap = None THEN 0 ELSE Count(gap))
          /\ gapsRead' = gapsRead + (IF gap = None THEN 0 ELSE 1)
      <3>1. CASE gap = None
        <4>1. lost' = lost /\ gapsRead' = gapsRead
          BY <3>1, <1>5 DEF Drain
        <4> QED BY <4>1, <3>1, <1>a, <1>e, <2>4
      <3>2. CASE gap # None
        <4>1. /\ lost' = lost \cup (gap.first..gap.last)
              /\ gapsRead' = gapsRead + 1
          BY <3>2, <1>5 DEF Drain
        <4>2. Count(gap) = gap.last - settled
          BY <3>2, <1>a, <1>c DEF Count
        <4>3. /\ IsFiniteSet(lost') /\ lost' \subseteq 1..gap.last
              /\ Cardinality(lost') = Cardinality(lost) + (gap.last - settled)
          <5>1. /\ settled + 1 <= gap.last /\ gap.last \in Nat
                /\ lost' = lost \cup ((settled + 1)..gap.last)
            BY <1>a, <1>c, <3>2, <4>1
          <5> QED BY <1>a, <1>e, <5>1, ReportedOnce
        <4>4. lost' \subseteq 1..settled'
          BY <4>3, <3>2, <1>c, <2>4
        <4> QED BY <4>1, <4>2, <4>3, <4>4, <3>2
      <3> QED BY <3>1, <3>2
    <2>6. Len(items') = 0
      BY <2>1
    <2>7. Count(gap) \in Nat \/ gap = None
      BY <1>c DEF Count
    <2> QED BY <1>a, <1>b, <1>e, <2>1, <2>2, <2>3, <2>5, <2>6, <2>7
            DEF SilentInv, NothingSilent
  <1>6. CASE UNCHANGED vars
    BY <1>6 DEF vars, SilentInv, NothingSilent
  <1> QED BY <1>1, <1>2, <1>3, <1>4, <1>5, <1>6 DEF Next

\* Nothing is dropped silently: at every moment each number accepted is
\* delivered, queued, or counted as dropped and named in a gap.
THEOREM NothingDroppedSilently == Spec => []NothingSilent
  <1>1. Init => SilentInv
    <2> SUFFICES ASSUME Init PROVE SilentInv
      OBVIOUS
    <2>1. /\ gap = None /\ Len(delivered) = 0 /\ Len(items) = 0
          /\ metrics.accepted = 0 /\ metrics.dropped = 0 /\ metrics.gaps = 0
          /\ gapsRead = 0 /\ lost = {} /\ settled = 0
      BY DEF Init
    <2>2. IsFiniteSet(lost) /\ Cardinality(lost) = 0
      BY <2>1, FS_EmptySet
    <2> QED BY <2>1, <2>2 DEF SilentInv, NothingSilent
  <1>2. Spec => []IInv
    BY InductiveInvariant
  <1>3. SilentInv => NothingSilent
    BY DEF SilentInv
  <1> QED BY <1>1, <1>2, <1>3, NextSilent, PTL DEF Spec

-----------------------------------------------------------------------------
(***************************************************************************)
(* The view of each kind.                                                  *)
(***************************************************************************)

\* CurrentView needs to know that no cell runs ahead of the numbers given out.
ViewInv ==
  /\ CurrentView
  /\ \A k \in Kinds : latest[k] # None => latest[k].seq <= seq

\* A cell of a kind keeps its promise over queued records q, of the numbers
\* from after on.
Current(cell, k, q, after) ==
  /\ cell = None => \A i \in 1..Len(q) : q[i].kind # k
  /\ cell # None =>
       /\ cell.kind = k
       /\ \A i \in 1..Len(q) : q[i].kind = k => q[i].seq <= cell.seq
       /\ cell.seq > after => \E i \in 1..Len(q) : q[i] = cell

\* The oldest record of a contiguous queue may leave it.
LEMMA CurrentWithoutHead ==
  ASSUME NEW q \in Seq(Notification), q # <<>>, NEW cell \in Notification \cup {None},
         NEW k \in Kinds, NEW after \in Int,
         \A i \in 1..Len(q) : q[i].seq = after + i,
         Current(cell, k, q, after)
  PROVE  Current(cell, k, Tail(q), after + 1)
  <1>1. /\ Len(q) \in Nat /\ Len(q) >= 1 /\ Len(Tail(q)) = Len(q) - 1
        /\ \A i \in 1..(Len(q) - 1) : Tail(q)[i] = q[i + 1]
    BY QueueFacts
  <1>2. \A i \in 1..Len(Tail(q)) : i + 1 \in 1..Len(q) /\ Tail(q)[i] = q[i + 1]
    BY <1>1
  <1>3. ASSUME cell # None, cell.seq > after + 1
        PROVE  \E i \in 1..Len(Tail(q)) : Tail(q)[i] = cell
    <2>1. cell.seq \in Nat
      BY <1>3, IngestAssumption DEF Notification
    <2>2. PICK i \in 1..Len(q) : q[i] = cell
      BY <1>3, <2>1 DEF Current
    <2>3. cell.seq = after + i
      BY <2>2
    <2>4. i - 1 \in 1..Len(Tail(q)) /\ (i - 1) + 1 = i
      BY <1>1, <1>3, <2>3
    <2> QED BY <1>2, <2>2, <2>4
  <1>4. cell = None => \A i \in 1..Len(Tail(q)) : Tail(q)[i].kind # k
    BY <1>2 DEF Current
  <1>5. cell # None =>
          /\ cell.kind = k
          /\ \A i \in 1..Len(Tail(q)) : Tail(q)[i].kind = k => Tail(q)[i].seq <= cell.seq
    BY <1>2 DEF Current
  <1> QED BY <1>3, <1>4, <1>5 DEF Current

\* A new record becomes the newest of its kind, and no cell of another kind
\* is touched by it.
LEMMA CurrentWithNew ==
  ASSUME NEW q \in Seq(Notification), NEW cell \in Notification \cup {None},
         NEW k \in Kinds, NEW after \in Int, NEW n \in Nat, NEW kind \in Kinds,
         \A i \in 1..Len(q) : q[i].seq < n,
         Current(cell, k, q, after)
  PROVE  LET note == [seq |-> n, kind |-> kind]
         IN  Current(IF k = kind THEN note ELSE cell, k, Append(q, note), after)
  <1> DEFINE note == [seq |-> n, kind |-> kind]
  <1>1. note \in Notification /\ note.seq = n /\ note.kind = kind /\ note # None
    BY IngestAssumption DEF Notification
  <1> HIDE DEF note
  <1> DEFINE r == Append(q, note)
  <1>2. /\ Len(q) \in Nat /\ Len(r) = Len(q) + 1
        /\ \A i \in 1..Len(q) : r[i] = q[i]
        /\ r[Len(q) + 1] = note
    BY <1>1, QueueFacts
  <1> HIDE DEF r
  <1>3. 1..Len(r) = (1..Len(q)) \cup {Len(q) + 1}
    BY <1>2
  <1>4. CASE k = kind
    <2>1. \A i \in 1..Len(r) : r[i].seq <= note.seq
      <3>1. \A i \in 1..Len(q) : q[i].seq \in Nat
        <4>1. \A i \in 1..Len(q) : q[i] \in Notification
          BY QueueFacts
        <4> QED BY <4>1 DEF Notification
      <3> QED BY <1>1, <1>2, <1>3, <3>1
    <2>2. \E i \in 1..Len(r) : r[i] = note
      BY <1>2, <1>3
    <2>3. Current(note, k, r, after)
      BY <1>1, <1>4, <2>1, <2>2 DEF Current
    <2> QED BY <1>4, <2>3 DEF note, r
  <1>5. CASE k # kind
    <2>1. Current(cell, k, r, after)
      BY <1>1, <1>2, <1>3, <1>5 DEF Current
    <2> QED BY <1>5, <2>1 DEF note, r
  <1> QED BY <1>4, <1>5

\* The view as promises of its cells.
LEMMA ViewAsCells ==
  /\ CurrentView <=>
       \A k \in Kinds : Current(latest[k], k, items, seq - Len(items))
  /\ CurrentView' <=>
       \A k \in Kinds : Current(latest'[k], k, items', seq' - Len(items'))
  <1>1. CurrentView <=>
          \A k \in Kinds : Current(latest[k], k, items, seq - Len(items))
    BY DEF CurrentView, Current
  <1>2. CurrentView' <=>
          \A k \in Kinds : Current(latest'[k], k, items', seq' - Len(items'))
    BY DEF CurrentView, Current
  <1> QED BY <1>1, <1>2

LEMMA EnqueueKeepsView ==
  ASSUME IInv, ViewInv, NEW k \in Kinds, NEW kept \in Seq(Notification),
         NEW hole, NEW evicted, Enqueue(k, kept, hole, evicted),
         \A i \in 1..Len(kept) : kept[i].seq <= seq,
         \A j \in Kinds : Current(latest[j], j, kept, seq - Len(kept))
  PROVE  ViewInv'
  <1> DEFINE note == [seq |-> seq + 1, kind |-> k]
  <1>1. /\ seq' = seq + 1 /\ items' = Append(kept, note)
        /\ latest' = [latest EXCEPT ![k] = note]
    BY DEF Enqueue
  <1>2. /\ seq \in Nat /\ Len(kept) \in Nat
        /\ latest \in [Kinds -> Notification \cup {None}]
    BY DEF IInv, TypeOK
  <1>3. \A i \in 1..Len(kept) : kept[i].seq < seq + 1
    <2>1. \A i \in 1..Len(kept) : kept[i].seq \in Nat
      <3>1. \A i \in 1..Len(kept) : kept[i] \in Notification
        BY QueueFacts
      <3> QED BY <3>1 DEF Notification
    <2> QED BY <1>2, <2>1
  <1>4. note.seq = seq + 1
    OBVIOUS
  <1>5. Len(items') = Len(kept) + 1
    <2>1. note \in Notification
      BY <1>2 DEF Notification
    <2> QED BY <1>1, <2>1, QueueFacts
  <1>6. seq' - Len(items') = seq - Len(kept)
    BY <1>1, <1>2, <1>5
  <1>7. ASSUME NEW j \in Kinds
        PROVE  /\ Current(latest'[j], j, items', seq' - Len(items'))
               /\ latest'[j] # None => latest'[j].seq <= seq'
    <2>1. latest'[j] = IF j = k THEN note ELSE latest[j]
      BY <1>1, <1>2
    <2>2. Current(latest'[j], j, items', seq' - Len(items'))
      <3>1. seq - Len(kept) \in Int /\ seq + 1 \in Nat
        BY <1>2
      <3>2. latest[j] \in Notification \cup {None}
        BY <1>2
      <3>3. Current(latest[j], j, kept, seq - Len(kept))
        OBVIOUS
      <3>4. Current(IF j = k THEN note ELSE latest[j], j, Append(kept, note),
                    seq - Len(kept))
        BY <1>3, <3>1, <3>2, <3>3, CurrentWithNew
      <3> HIDE DEF note
      <3> QED BY <1>1, <1>6, <2>1, <3>4
    <2>3. latest'[j] # None => latest'[j].seq <= seq'
      <3>1. CASE j = k
        BY <1>1, <1>2, <1>4, <2>1, <3>1
      <3>2. CASE j # k
        <4>1. latest[j] # None => latest[j].seq \in Nat /\ latest[j].seq <= seq
          BY <1>2 DEF ViewInv, Notification
        <4> QED BY <1>1, <1>2, <2>1, <3>2, <4>1
      <3> QED BY <3>1, <3>2
    <2> QED BY <2>2, <2>3
  <1>8. CurrentView'
    BY <1>7, ViewAsCells
  <1> QED BY <1>7, <1>8 DEF ViewInv

\* Every step keeps the view.
LEMMA NextView == IInv /\ ViewInv /\ [Next]_vars => ViewInv'
  <1> SUFFICES ASSUME IInv, ViewInv, [Next]_vars PROVE ViewInv'
    OBVIOUS
  <1>1. /\ seq \in Nat /\ items \in Seq(Notification) /\ Len(items) \in Nat
        /\ latest \in [Kinds -> Notification \cup {None}]
        /\ \A i \in 1..Len(items) : items[i].seq = (seq - Len(items)) + i
    BY DEF IInv, TypeOK, Contiguous
  <1>2. \A k \in Kinds : Current(latest[k], k, items, seq - Len(items))
    BY ViewAsCells DEF ViewInv
  <1>3. \A k \in Kinds : latest[k] # None => latest[k].seq <= seq
    BY DEF ViewInv
  <1>4. ASSUME items # <<>>
        PROVE  /\ Tail(items) \in Seq(Notification)
               /\ Len(Tail(items)) = Len(items) - 1 /\ Len(items) >= 1
               /\ \A k \in Kinds :
                    Current(latest[k], k, Tail(items), seq - Len(Tail(items)))
               /\ \A i \in 1..Len(Tail(items)) : Tail(items)[i].seq <= seq
    <2>1. /\ Tail(items) \in Seq(Notification)
          /\ Len(Tail(items)) = Len(items) - 1 /\ Len(items) >= 1
          /\ \A i \in 1..(Len(items) - 1) : Tail(items)[i] = items[i + 1]
      BY <1>1, <1>4, QueueFacts
    <2>2. seq - Len(Tail(items)) = (seq - Len(items)) + 1 /\ seq - Len(items) \in Int
      BY <1>1, <2>1
    <2>3. ASSUME NEW k \in Kinds
          PROVE  Current(latest[k], k, Tail(items), seq - Len(Tail(items)))
      <3>1. latest[k] \in Notification \cup {None}
        BY <1>1
      <3> QED BY <1>1, <1>2, <1>4, <2>2, <3>1, CurrentWithoutHead
    <2>4. ASSUME NEW i \in 1..Len(Tail(items)) PROVE Tail(items)[i].seq <= seq
      <3>1. i + 1 \in 1..Len(items) /\ i \in 1..(Len(items) - 1)
        BY <1>1, <2>1
      <3>2. Tail(items)[i].seq = (seq - Len(items)) + (i + 1)
        BY <1>1, <2>1, <3>1
      <3> QED BY <1>1, <3>1, <3>2
    <2> QED BY <2>1, <2>3, <2>4
  <1>5. ASSUME NEW k \in Kinds, OfferWithRoom(k) PROVE ViewInv'
    <2>1. Enqueue(k, items, gap, 0)
      BY <1>5 DEF OfferWithRoom
    <2>2. \A i \in 1..Len(items) : items[i].seq <= seq
      BY <1>1
    <2> QED BY <1>1, <1>2, <2>1, <2>2, EnqueueKeepsView
  <1>6. ASSUME NEW k \in Kinds, OfferEvicting(k) PROVE ViewInv'
    <2>1. /\ Enqueue(k, Tail(items), WidenGap(Head(items).seq, seq + 1), 1)
          /\ Len(items) >= Capacity
      BY <1>6 DEF OfferEvicting
    <2>2. items # <<>>
      BY <2>1, IngestAssumption DEF Capacity
    <2> QED BY <1>4, <2>1, <2>2, EnqueueKeepsView
  <1>7. ASSUME items' = items, seq' = seq, latest' = latest PROVE ViewInv'
    BY <1>7 DEF ViewInv, CurrentView
  <1>8. CASE PopGap
    <2>1. items' = items /\ seq' = seq /\ latest' = latest
      BY <1>8, Zenon DEF PopGap
    <2> QED BY <1>7, <2>1
  <1>9. CASE PopItem
    <2>1. items # <<>> /\ items' = Tail(items) /\ seq' = seq /\ latest' = latest
      BY <1>9, Zenon DEF PopItem
    <2>2. \A k \in Kinds : Current(latest'[k], k, items', seq' - Len(items'))
      BY <1>4, <2>1
    <2>3. CurrentView'
      BY <2>2, ViewAsCells
    <2> QED BY <1>3, <2>1, <2>3 DEF ViewInv
  <1>10. CASE Drain
    <2>0. items' = <<>> /\ seq' = seq /\ latest' = latest
      BY <1>10, Zenon DEF Drain
    <2>1. items' = <<>> /\ Len(items') = 0 /\ seq' = seq /\ latest' = latest
      BY <2>0
    <2>2. ASSUME NEW k \in Kinds PROVE Current(latest'[k], k, items', seq' - Len(items'))
      <3>1. latest[k] # None =>
              latest[k].seq \in Nat /\ latest[k].seq <= seq /\ latest[k].kind = k
        BY <1>1, <1>2, <1>3 DEF Current, Notification
      <3> QED BY <1>1, <2>1, <3>1 DEF Current
    <2>3. CurrentView'
      BY <2>2, ViewAsCells
    <2> QED BY <1>3, <2>1, <2>3 DEF ViewInv
  <1>11. CASE UNCHANGED vars
    BY <1>7, <1>11 DEF vars
  <1> QED BY <1>5, <1>6, <1>8, <1>9, <1>10, <1>11 DEF Next

\* The cell of a kind holds the newest notification of that kind, whatever the
\* backlog dropped (latest in IngestQueue).
THEOREM ViewIsCurrent == Spec => []CurrentView
  <1>1. Init => ViewInv
    <2> SUFFICES ASSUME Init PROVE ViewInv
      OBVIOUS
    <2>1. items = <<>> /\ latest = [k \in Kinds |-> None]
      BY DEF Init
    <2> QED BY <2>1 DEF ViewInv, CurrentView
  <1>2. ViewInv => CurrentView
    BY DEF ViewInv
  <1> QED BY <1>1, <1>2, NextView, InductiveInvariant, PTL DEF Spec
=============================================================================
