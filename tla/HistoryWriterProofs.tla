------------------------ MODULE HistoryWriterProofs ------------------------
(***************************************************************************)
(* Proofs about the history writer, for every set of tables, every size of *)
(* the queue and of a batch, every clock, and any number of processes on   *)
(* one file.  The inductive invariant follows a row from the queue to the  *)
(* file, and the stop from the flag and its sentinel to the thread's local *)
(* halting.                                                                *)
(***************************************************************************)
EXTENDS HistoryWriter, TLAPS, SequenceTheorems, FiniteSetTheorems,
        WellFoundedInduction

\* The rows of the file carry sessions that have been begun, and stamps that
\* the clock has shown.
StoredRow == {r \in Row : r.session \in 1..begun /\ r.at \in Walls}
FileOK == file \in [Tables -> Seq(StoredRow)]

Counts ==
  /\ begun \in Nat /\ sessionId \in Nat /\ queued \in Nat /\ written \in Nat
  /\ errors \in Nat /\ sweepErrors \in Nat
  /\ halting \in BOOLEAN /\ flag \in BOOLEAN /\ inTx \in BOOLEAN

\* The sentinel has been put in the queue.
Told == queue # <<>> /\ queue[Len(queue)] = Sentinel

\* How many rows the queue holds: the sentinel comes after all of them.
QueuedRows == IF Told THEN Len(queue) - 1 ELSE Len(queue)

\* A row in the queue or in the batch carries the session, which has begun.
RowOK == {w \in Write : w.session = sessionId /\ sessionId # 0}

QueueOK ==
  /\ queue \in Seq(Write \cup {Sentinel})
  /\ \A i \in 1..QueuedRows : queue[i] \in RowOK
  /\ Told => flag

BatchOK == batch \in Seq(RowOK)

\* What came into the queue is in it, in the batch, written, or an error.
Accounts ==
  queued = QueuedRows + Len(batch) + written + (errors - sweepErrors)

\* Where the thread is, against the session and the connection.
ThreadOK ==
  /\ pc \in {"off", "open", "begin"} => sessionId = 0
  /\ pc \in {"get", "look", "commit", "between"} => sessionId # 0
  /\ pc = "ended" /\ sessionId = 0 => openError
  /\ sessionId # 0 /\ ~inTx /\ pc # "ended" => sessionId <= begun

\* What the loop knows of it.
LoopOK ==
  /\ handle \in {"none", "starting", "running", "stopping"}
  /\ flag <=> handle = "stopping"
  /\ handle = "none" <=> pc = "off"
  /\ handle = "running" /\ ~openError => sessionId # 0

\* The way of a stop: a thread that halts has seen the queue empty.
StopOK ==
  /\ halting => pc \in {"look", "commit", "between", "ended"}
  /\ halting => flag /\ queue = <<>>
  /\ halting /\ pc \in {"between", "ended"} => batch = <<>>
  /\ pc = "ended" /\ sessionId # 0 => halting

IInv ==
  /\ FileOK
  /\ Counts
  /\ QueueOK
  /\ BatchOK
  /\ Accounts
  /\ ThreadOK
  /\ LoopOK
  /\ StopOK

-----------------------------------------------------------------------------
(***************************************************************************)
(* Induction over the rows of a sequence, with the property as the set of  *)
(* the numbers that have it.                                               *)
(***************************************************************************)

Below == {p \in Nat \X Nat : p[1] < p[2]}

LEMMA BelowWellFounded == IsWellFoundedOn(Below, Nat)
  BY NatLessThanWellFounded DEF OpToRel, Below

\* A set of numbers that has 0, and the next of each of its members, has all.
LEMMA Induction ==
  ASSUME NEW S \in SUBSET Nat, 0 \in S, \A n \in S : n + 1 \in S
  PROVE  S = Nat
  <1> DEFINE Rest == Nat \ S
  <1>1. SUFFICES ASSUME Rest # {} PROVE FALSE
    OBVIOUS
  <1>2. PICK x \in Rest : \A y \in Rest : ~(<<y, x>> \in Below)
    BY <1>1, BelowWellFounded, WFMin
  <1>3. x # 0 /\ x - 1 \in Nat /\ x - 1 < x
    BY <1>2
  <1>4. <<x - 1, x>> \in Below
    BY <1>3 DEF Below
  <1>5. x - 1 \in S
    BY <1>2, <1>3, <1>4
  <1> QED BY <1>2, <1>3, <1>5

\* The rows picked among the first i, for every i up to n.
Pick(f, rows, places, i) ==
  IF i = 0 THEN <<>>
  ELSE IF i \in places THEN Append(f[i - 1], rows[i]) ELSE f[i - 1]

IsPicking(f, rows, places, n) == f = [i \in 0..n |-> Pick(f, rows, places, i)]

LEMMA PickingExists ==
  ASSUME NEW rows, NEW places, NEW n \in Nat
  PROVE  \E f : IsPicking(f, rows, places, n)
  <1> DEFINE S == {k \in Nat : \E f : IsPicking(f, rows, places, k)}
  <1>1. 0 \in S
    <2>1. IsPicking([i \in 0..0 |-> <<>>], rows, places, 0)
      BY DEF IsPicking, Pick
    <2> QED BY <2>1
  <1>2. ASSUME NEW k \in S PROVE k + 1 \in S
    <2>1. PICK f : IsPicking(f, rows, places, k)
      BY <1>2
    <2> DEFINE g == [i \in 0..(k + 1) |->
                       IF i = k + 1 THEN Pick(f, rows, places, k + 1) ELSE f[i]]
    <2>2. \A i \in 0..k : g[i] = f[i]
      OBVIOUS
    <2>3. \A i \in 0..k : f[i] = Pick(f, rows, places, i)
      BY <2>1 DEF IsPicking
    <2>4. ASSUME NEW i \in 0..(k + 1) PROVE g[i] = Pick(g, rows, places, i)
      <3>1. CASE i = k + 1
        <4>1. i # 0 /\ i - 1 = k /\ k \in 0..k
          BY <3>1
        <4>2. g[i - 1] = f[i - 1]
          BY <4>1, <2>2
        <4>3. g[i] = Pick(f, rows, places, i)
          BY <3>1
        <4> QED BY <4>2, <4>3 DEF Pick
      <3>2. CASE i # k + 1 /\ i # 0
        <4>1. i \in 0..k /\ i - 1 \in 0..k
          BY <3>2
        <4>2. g[i - 1] = f[i - 1] /\ g[i] = f[i]
          BY <4>1, <2>2
        <4> HIDE DEF g
        <4> QED BY <4>1, <4>2, <2>3 DEF Pick
      <3>3. CASE i = 0
        BY <3>3, <2>2, <2>3 DEF Pick
      <3> QED BY <3>1, <3>2, <3>3
    <2>5. IsPicking(g, rows, places, k + 1)
      BY <2>4 DEF IsPicking
    <2> QED BY <2>5
  <1> HIDE DEF S
  <1>3. S = Nat
    <2>1. S \subseteq Nat
      BY DEF S
    <2> QED BY <1>1, <1>2, <2>1, Induction
  <1> QED BY <1>3 DEF S

LEMMA PickedIsPicking ==
  ASSUME NEW rows, NEW places, Len(rows) \in Nat
  PROVE  \E f : /\ f[0] = <<>>
                /\ \A i \in 1..Len(rows) :
                     f[i] = IF i \in places THEN Append(f[i - 1], rows[i]) ELSE f[i - 1]
                /\ Picked(rows, places) = f[Len(rows)]
  <1> DEFINE picked[i \in 0..Len(rows)] ==
               IF i = 0 THEN <<>>
               ELSE IF i \in places THEN Append(picked[i - 1], rows[i])
                                    ELSE picked[i - 1]
  <1>1. \E f : IsPicking(f, rows, places, Len(rows))
    BY PickingExists
  <1>2. picked = [i \in 0..Len(rows) |->
                   IF i = 0 THEN <<>>
                   ELSE IF i \in places THEN Append(picked[i - 1], rows[i])
                                        ELSE picked[i - 1]]
    BY <1>1 DEF IsPicking, Pick
  <1>3. Picked(rows, places) = picked[Len(rows)]
    BY DEF Picked
  <1> HIDE DEF picked
  <1>4. picked[0] = <<>>
    BY <1>2
  <1>5. ASSUME NEW i \in 1..Len(rows)
        PROVE  picked[i] = IF i \in places THEN Append(picked[i - 1], rows[i])
                                           ELSE picked[i - 1]
    <2>1. i \in 0..Len(rows) /\ i # 0
      OBVIOUS
    <2>2. picked[i] = IF i = 0 THEN <<>>
                      ELSE IF i \in places THEN Append(picked[i - 1], rows[i])
                                           ELSE picked[i - 1]
      BY <1>2, <2>1, Zenon
    <2> QED BY <2>1, <2>2
  <1> QED BY <1>3, <1>4, <1>5

\* What is picked from rows of a kind is rows of that kind.
LEMMA PickedType ==
  ASSUME NEW Kind, NEW rows \in Seq(Kind), NEW places
  PROVE  Picked(rows, places) \in Seq(Kind)
  <1>1. PICK f : /\ f[0] = <<>>
                 /\ \A i \in 1..Len(rows) :
                      f[i] = IF i \in places THEN Append(f[i - 1], rows[i]) ELSE f[i - 1]
                 /\ Picked(rows, places) = f[Len(rows)]
    BY PickedIsPicking
  <1> DEFINE S == {n \in Nat : n <= Len(rows) => f[n] \in Seq(Kind)}
  <1>2. 0 \in S
    <2>1. f[0] \in Seq(Kind)
      BY <1>1, EmptySeq
    <2> QED BY <2>1
  <1>3. ASSUME NEW n \in S PROVE n + 1 \in S
    <2> SUFFICES ASSUME n + 1 <= Len(rows) PROVE f[n + 1] \in Seq(Kind)
      OBVIOUS
    <2>1. n \in Nat /\ n <= Len(rows) /\ n + 1 \in 1..Len(rows) /\ (n + 1) - 1 = n
      OBVIOUS
    <2>2. f[n] \in Seq(Kind) /\ rows[n + 1] \in Kind
      BY <2>1, ElementOfSeq
    <2>3. f[n + 1] = IF n + 1 \in places THEN Append(f[n], rows[n + 1]) ELSE f[n]
      BY <1>1, <2>1
    <2> HIDE DEF S
    <2> QED BY <2>2, <2>3, AppendProperties
  <1>4. S = Nat
    <2>1. S \subseteq Nat
      OBVIOUS
    <2> HIDE DEF S
    <2> QED BY <1>2, <1>3, <2>1, Induction
  <1> QED BY <1>1, <1>4

\* What is picked is a prefix, when the places are those of a prefix.
LEMMA PickedPrefix ==
  ASSUME NEW Kind, NEW rows \in Seq(Kind), NEW places, NEW n \in 0..Len(rows),
         \A i \in 1..Len(rows) : i \in places <=> i <= n
  PROVE  /\ Len(Picked(rows, places)) = n
         /\ \A i \in 1..n : Picked(rows, places)[i] = rows[i]
  <1>1. PICK f : /\ f[0] = <<>>
                 /\ \A i \in 1..Len(rows) :
                      f[i] = IF i \in places THEN Append(f[i - 1], rows[i]) ELSE f[i - 1]
                 /\ Picked(rows, places) = f[Len(rows)]
    BY PickedIsPicking
  <1> DEFINE Shortest(k) == IF k <= n THEN k ELSE n
             Is(k) == /\ f[k] \in Seq(Kind) /\ Len(f[k]) = Shortest(k)
                      /\ \A i \in 1..Shortest(k) : f[k][i] = rows[i]
             S == {k \in Nat : k <= Len(rows) => Is(k)}
  <1>2. 0 \in S
    <2>1. Is(0)
      <3>1. f[0] \in Seq(Kind) /\ Len(f[0]) = 0
        BY <1>1, EmptySeq
      <3>2. Shortest(0) = 0
        OBVIOUS
      <3> HIDE DEF Shortest
      <3> QED BY <3>1, <3>2
    <2> QED BY <2>1
  <1>3. ASSUME NEW k \in S PROVE k + 1 \in S
    <2> SUFFICES ASSUME k + 1 <= Len(rows) PROVE Is(k + 1)
      OBVIOUS
    <2>1. k \in Nat /\ k <= Len(rows) /\ k + 1 \in 1..Len(rows) /\ (k + 1) - 1 = k
      OBVIOUS
    <2>2. Is(k) /\ rows[k + 1] \in Kind
      BY <2>1, ElementOfSeq
    <2>3. f[k + 1] = IF k + 1 \in places THEN Append(f[k], rows[k + 1]) ELSE f[k]
      BY <1>1, <2>1
    <2> HIDE DEF S
    <2>4. CASE k + 1 <= n
      <3>1. f[k + 1] = Append(f[k], rows[k + 1])
        BY <2>1, <2>3, <2>4
      <3>2. f[k] \in Seq(Kind) /\ Len(f[k]) = k /\ \A i \in 1..k : f[k][i] = rows[i]
        BY <2>2, <2>1, <2>4
      <3>3. /\ f[k + 1] \in Seq(Kind) /\ Len(f[k + 1]) = k + 1
            /\ \A i \in 1..k : f[k + 1][i] = f[k][i]
            /\ f[k + 1][k + 1] = rows[k + 1]
        BY <3>1, <3>2, <2>2, AppendProperties
      <3>4. \A i \in 1..(k + 1) : f[k + 1][i] = rows[i]
        BY <3>2, <3>3, <2>1
      <3>5. Shortest(k + 1) = k + 1
        BY <2>4
      <3> QED BY <3>3, <3>4, <3>5
    <2>5. CASE ~(k + 1 <= n)
      <3>1. f[k + 1] = f[k]
        BY <2>1, <2>3, <2>5
      <3>2. Shortest(k + 1) = n /\ Shortest(k) = n
        BY <2>5, <2>1
      <3> HIDE DEF Shortest
      <3> QED BY <3>1, <3>2, <2>2
    <2> QED BY <2>4, <2>5
  <1>4. S = Nat
    <2>1. S \subseteq Nat
      OBVIOUS
    <2> HIDE DEF S
    <2> QED BY <1>2, <1>3, <2>1, Induction
  <1>5. Is(Len(rows))
    BY <1>4
  <1> QED BY <1>1, <1>5

-----------------------------------------------------------------------------
(***************************************************************************)
(* The rows that are waiting, and what a sweep and a batch leave.          *)
(***************************************************************************)

\* The rows in the queue come before its sentinel.
LEMMA QueuedRowsBound ==
  ASSUME QueueOK
  PROVE  /\ Len(queue) \in Nat /\ QueuedRows \in 0..Len(queue)
         /\ Told => QueuedRows = Len(queue) - 1
         /\ ~Told => QueuedRows = Len(queue)
  <1>1. Len(queue) \in Nat /\ (queue # <<>> => Len(queue) # 0)
    BY DEF QueueOK
  <1> QED BY <1>1 DEF QueuedRows, Told

\* What is waiting is what the queue and the batch hold.
LEMMA WaitingIs ==
  ASSUME QueueOK, BatchOK
  PROVE  /\ Waiting \in Seq(RowOK)
         /\ Len(Waiting) = QueuedRows + Len(batch)
  <1> DEFINE places == {i \in DOMAIN queue : queue[i] # Sentinel}
             rows == Picked(queue, places)
  <1>1. queue \in Seq(Write \cup {Sentinel}) /\ DOMAIN queue = 1..Len(queue)
    BY DEF QueueOK
  <1>2. QueuedRows \in 0..Len(queue) /\ Len(queue) \in Nat
    BY QueuedRowsBound
  <1>3. ASSUME NEW i \in 1..Len(queue) PROVE i \in places <=> i <= QueuedRows
    <2>1. CASE i <= QueuedRows
      <3>1. queue[i] \in RowOK
        BY <2>1, <1>2 DEF QueueOK
      <3>2. queue[i].session # 0
        BY <3>1 DEF RowOK
      <3>3. Sentinel.session = 0
        BY DEF Sentinel
      <3> QED BY <2>1, <3>2, <3>3, <1>1
    <2>2. CASE ~(i <= QueuedRows)
      <3>1. Told /\ i = Len(queue)
        BY <2>2, <1>2, QueuedRowsBound
      <3> QED BY <3>1, <2>2 DEF Told
    <2> QED BY <2>1, <2>2
  <1> HIDE DEF places
  <1>4. /\ Len(rows) = QueuedRows
        /\ \A i \in 1..QueuedRows : rows[i] = queue[i]
    BY <1>1, <1>2, <1>3, PickedPrefix
  <1>5. rows \in Seq(Write \cup {Sentinel})
    BY <1>1, PickedType
  <1>6. \A i \in 1..Len(rows) : rows[i] \in RowOK
    BY <1>4 DEF QueueOK
  <1> HIDE DEF rows
  <1>7. rows \in Seq(RowOK)
    <2>1. rows = [i \in 1..Len(rows) |-> rows[i]] /\ Len(rows) \in Nat
      BY <1>5
    <2> QED BY <2>1, <1>6, IsASeq
  <1>8. Waiting = rows \o batch
    BY DEF Waiting, rows, places
  <1> QED BY <1>7, <1>8, <1>4, ConcatProperties DEF BatchOK

\* A sweep keeps rows of the file only.
LEMMA NewestType ==
  ASSUME NEW Kind, NEW rows \in Seq(Kind) PROVE Newest(rows) \in Seq(Kind)
  <1> DEFINE few == Min({MaxRows, Len(rows)})
  <1>1. Len(rows) \in Nat /\ MaxRows \in Nat
    BY RetentionAssumption
  <1>2. few \in {MaxRows, Len(rows)} /\ few <= Len(rows)
    <2>1. CASE MaxRows <= Len(rows)
      <3>1. \A y \in {MaxRows, Len(rows)} : MaxRows <= y
        BY <2>1, <1>1
      <3> QED BY <3>1, <1>1 DEF Min
    <2>2. CASE ~(MaxRows <= Len(rows))
      <3>1. \A y \in {MaxRows, Len(rows)} : Len(rows) <= y
        BY <2>2, <1>1
      <3> QED BY <3>1, <1>1 DEF Min
    <2> QED BY <2>1, <2>2
  <1> HIDE DEF few
  <1>3. \A i \in (Len(rows) - few + 1)..Len(rows) : rows[i] \in Kind
    BY <1>1, <1>2, ElementOfSeq
  <1>4. Len(rows) - few + 1 \in Int
    BY <1>1, <1>2
  <1>5. SubSeq(rows, Len(rows) - few + 1, Len(rows)) \in Seq(Kind)
    BY <1>1, <1>3, <1>4, SubSeqProperties
  <1> QED BY <1>5 DEF Newest, few

LEMMA SweptType ==
  ASSUME FileOK, NEW wall
  PROVE  /\ Budgeted(file) \in [Tables -> Seq(StoredRow)]
         /\ Windowed(file, wall) \in [Tables -> Seq(StoredRow)]
  <1>1. \A t \in Tables : Newest(file[t]) \in Seq(StoredRow)
    BY NewestType DEF FileOK
  <1>2. ASSUME NEW t \in Tables, NEW cutoff PROVE Kept(file[t], cutoff) \in Seq(StoredRow)
    <2>1. file[t] \in Seq(StoredRow)
      BY DEF FileOK
    <2> QED BY <2>1, PickedType DEF Kept
  <1> QED BY <1>1, <1>2 DEF Budgeted, Windowed

\* A batch appends rows of its session to the tables.
LEMMA AppliedType ==
  ASSUME FileOK, BatchOK, Counts, sessionId <= begun
  PROVE  Applied(batch) \in [Tables -> Seq(StoredRow)]
  <1> SUFFICES ASSUME NEW t \in Tables PROVE Applied(batch)[t] \in Seq(StoredRow)
    BY DEF Applied
  <1> DEFINE own == Picked(batch, {i \in DOMAIN batch : batch[i].table = t})
             stored == [i \in 1..Len(own) |-> RowOf(own[i])]
  <1>1. own \in Seq(RowOK)
    BY PickedType DEF BatchOK
  <1>2. Applied(batch)[t] = file[t] \o stored
    BY DEF Applied
  <1> HIDE DEF own
  <1>3. ASSUME NEW i \in 1..Len(own) PROVE RowOf(own[i]) \in StoredRow
    <2>1. own[i] \in RowOK
      BY <1>1, ElementOfSeq
    <2>2. own[i].at \in Int /\ own[i].at \in Walls /\ own[i].session = sessionId /\ sessionId # 0
      <3>1. /\ own[i] \in Write /\ own[i].session = sessionId /\ sessionId # 0
        BY <2>1 DEF RowOK
      <3>2. own[i].at \in Walls
        BY <3>1 DEF Write
      <3>3. Walls \subseteq Int
        BY WriterAssumption
      <3> QED BY <3>1, <3>2, <3>3
    <2>3. sessionId \in 1..begun
      BY <2>2 DEF Counts
    <2> QED BY <2>2, <2>3 DEF RowOf, StoredRow, Row, Counts
  <1>4. stored \in Seq(StoredRow)
    BY <1>1, <1>3, IsASeq
  <1>5. file[t] \in Seq(StoredRow)
    BY DEF FileOK
  <1> HIDE DEF stored
  <1> QED BY <1>2, <1>4, <1>5, ConcatProperties

-----------------------------------------------------------------------------
(***************************************************************************)
(* What the parts of the invariant look at.                                *)
(***************************************************************************)

LEMMA FileFrame == FileOK /\ UNCHANGED <<file, begun>> => FileOK'
  BY DEF FileOK, StoredRow

LEMMA QueueFrame ==
  QueueOK /\ UNCHANGED <<queue, sessionId, flag>> =>
    QueueOK' /\ QueuedRows' = QueuedRows
  BY DEF QueueOK, QueuedRows, Told, RowOK

LEMMA BatchFrame == BatchOK /\ UNCHANGED <<batch, sessionId>> => BatchOK'
  BY DEF BatchOK, RowOK

\* The control of the thread and of the loop, apart from the data.
Control == ThreadOK /\ LoopOK /\ StopOK

LEMMA InitIInv == Init => IInv
  <1> SUFFICES ASSUME Init PROVE IInv
    OBVIOUS
  <1>1. FileOK
    BY EmptySeq DEF Init, FileOK
  <1>2. Counts
    BY DEF Init, Counts
  <1>3. queue = <<>> /\ batch = <<>> /\ ~Told /\ QueuedRows = 0
    BY DEF Init, Told, QueuedRows
  <1>4. QueueOK /\ BatchOK
    BY <1>3, EmptySeq DEF QueueOK, BatchOK
  <1>5. Accounts
    BY <1>3 DEF Init, Accounts
  <1>6. Control
    BY <1>3 DEF Init, Control, ThreadOK, LoopOK, StopOK
  <1> QED BY <1>1, <1>2, <1>4, <1>5, <1>6 DEF IInv, Control

LEMMA StartInv == IInv /\ Start => IInv'
  <1> SUFFICES ASSUME IInv, Start PROVE IInv'
    OBVIOUS
  <1>1. FileOK' /\ QueueOK' /\ QueuedRows' = QueuedRows /\ BatchOK'
    BY FileFrame, QueueFrame, BatchFrame
       DEF IInv, Start, fileVars, envVars, loopVars, threadVars, ThreadFrame
  <1>2. Counts' /\ Accounts'
    BY <1>1 DEF IInv, Counts, Accounts, Start, fileVars, envVars, loopVars, threadVars, ThreadFrame
  <1>3. Control'
    BY DEF IInv, Control, ThreadOK, LoopOK, StopOK, Start, fileVars, envVars, loopVars, threadVars, ThreadFrame
  <1> QED BY <1>1, <1>2, <1>3 DEF IInv, Control

LEMMA StartReturnsInv == IInv /\ StartReturns => IInv'
  <1> SUFFICES ASSUME IInv, StartReturns PROVE IInv'
    OBVIOUS
  <1>1. FileOK' /\ QueueOK' /\ QueuedRows' = QueuedRows /\ BatchOK'
    BY FileFrame, QueueFrame, BatchFrame
       DEF IInv, StartReturns, fileVars, envVars, loopVars, threadVars, ThreadFrame, Started
  <1>2. Counts' /\ Accounts'
    BY <1>1 DEF IInv, Counts, Accounts, StartReturns, fileVars, envVars, loopVars, threadVars, ThreadFrame, Started
  <1>3. Control'
    BY DEF IInv, Control, ThreadOK, LoopOK, StopOK, StartReturns, fileVars, envVars, loopVars, threadVars, ThreadFrame, Started
  <1> QED BY <1>1, <1>2, <1>3 DEF IInv, Control

LEMMA StartTimesOutInv == IInv /\ StartTimesOut => IInv'
  <1> SUFFICES ASSUME IInv, StartTimesOut PROVE IInv'
    OBVIOUS
  <1>1. FileOK' /\ QueueOK' /\ QueuedRows' = QueuedRows /\ BatchOK'
    BY FileFrame, QueueFrame, BatchFrame
       DEF IInv, StartTimesOut, fileVars, envVars, loopVars, threadVars, ThreadFrame, Started
  <1>2. Counts' /\ Accounts'
    BY <1>1 DEF IInv, Counts, Accounts, StartTimesOut, fileVars, envVars, loopVars, threadVars, ThreadFrame, Started
  <1>3. Control'
    BY DEF IInv, Control, ThreadOK, LoopOK, StopOK, StartTimesOut, fileVars, envVars, loopVars, threadVars, ThreadFrame, Started
  <1> QED BY <1>1, <1>2, <1>3 DEF IInv, Control

LEMMA DiskTurnsInv == IInv /\ DiskTurns => IInv'
  <1> SUFFICES ASSUME IInv, DiskTurns PROVE IInv'
    OBVIOUS
  <1>1. FileOK' /\ QueueOK' /\ QueuedRows' = QueuedRows /\ BatchOK'
    BY FileFrame, QueueFrame, BatchFrame
       DEF IInv, DiskTurns, fileVars, envVars, loopVars, threadVars, ThreadFrame
  <1>2. Counts' /\ Accounts'
    BY <1>1 DEF IInv, Counts, Accounts, DiskTurns, fileVars, envVars, loopVars, threadVars, ThreadFrame
  <1>3. Control'
    BY DEF IInv, Control, ThreadOK, LoopOK, StopOK, DiskTurns, fileVars, envVars, loopVars, threadVars, ThreadFrame
  <1> QED BY <1>1, <1>2, <1>3 DEF IInv, Control

LEMMA NotePruneInv == IInv /\ NotePrune => IInv'
  <1> SUFFICES ASSUME IInv, NotePrune PROVE IInv'
    OBVIOUS
  <1>1. FileOK' /\ QueueOK' /\ QueuedRows' = QueuedRows /\ BatchOK'
    BY FileFrame, QueueFrame, BatchFrame
       DEF IInv, NotePrune, fileVars, envVars, loopVars, threadVars, ThreadFrame
  <1>2. Counts' /\ Accounts'
    BY <1>1 DEF IInv, Counts, Accounts, NotePrune, fileVars, envVars, loopVars, threadVars, ThreadFrame
  <1>3. Control'
    BY DEF IInv, Control, ThreadOK, LoopOK, StopOK, NotePrune, fileVars, envVars, loopVars, threadVars, ThreadFrame
  <1> QED BY <1>1, <1>2, <1>3 DEF IInv, Control

LEMMA GoOnInv == IInv /\ GoOn => IInv'
  <1> SUFFICES ASSUME IInv, GoOn PROVE IInv'
    OBVIOUS
  <1>1. FileOK' /\ QueueOK' /\ QueuedRows' = QueuedRows /\ BatchOK'
    BY FileFrame, QueueFrame, BatchFrame
       DEF IInv, GoOn, fileVars, envVars, loopVars, threadVars, ThreadFrame
  <1>2. Counts' /\ Accounts'
    BY <1>1 DEF IInv, Counts, Accounts, GoOn, fileVars, envVars, loopVars, threadVars, ThreadFrame
  <1>3. Control'
    BY DEF IInv, Control, ThreadOK, LoopOK, StopOK, GoOn, fileVars, envVars, loopVars, threadVars, ThreadFrame
  <1> QED BY <1>1, <1>2, <1>3 DEF IInv, Control

LEMMA SweepDueInv == IInv /\ SweepDue => IInv'
  <1> SUFFICES ASSUME IInv, SweepDue PROVE IInv'
    OBVIOUS
  <1>1. FileOK' /\ QueueOK' /\ QueuedRows' = QueuedRows /\ BatchOK'
    BY FileFrame, QueueFrame, BatchFrame
       DEF IInv, SweepDue, fileVars, envVars, loopVars, threadVars, ThreadFrame
  <1>2. Counts' /\ Accounts'
    BY <1>1 DEF IInv, Counts, Accounts, SweepDue, fileVars, envVars, loopVars, threadVars, ThreadFrame
  <1>3. Control'
    BY DEF IInv, Control, ThreadOK, LoopOK, StopOK, SweepDue, fileVars, envVars, loopVars, threadVars, ThreadFrame
  <1> QED BY <1>1, <1>2, <1>3 DEF IInv, Control

LEMMA FinishInv == IInv /\ Finish => IInv'
  <1> SUFFICES ASSUME IInv, Finish PROVE IInv'
    OBVIOUS
  <1>1. FileOK' /\ QueueOK' /\ QueuedRows' = QueuedRows /\ BatchOK'
    BY FileFrame, QueueFrame, BatchFrame
       DEF IInv, Finish, fileVars, envVars, loopVars, threadVars, ThreadFrame
  <1>2. Counts' /\ Accounts'
    BY <1>1 DEF IInv, Counts, Accounts, Finish, fileVars, envVars, loopVars, threadVars, ThreadFrame
  <1>3. Control'
    BY DEF IInv, Control, ThreadOK, LoopOK, StopOK, Finish, fileVars, envVars, loopVars, threadVars, ThreadFrame
  <1> QED BY <1>1, <1>2, <1>3 DEF IInv, Control

\* A row is not the sentinel.
LEMMA RowNotSentinel == ASSUME NEW w \in RowOK PROVE w # Sentinel
  BY DEF RowOK, Sentinel

LEMMA OfferInv ==
  ASSUME NEW t \in Recorded, NEW wall \in Walls
  PROVE  IInv /\ Offer(t, wall) => IInv'
  <1> SUFFICES ASSUME IInv, Offer(t, wall) PROVE IInv'
    OBVIOUS
  <1> DEFINE row == [table |-> t, at |-> wall, session |-> sessionId]
  <1>1. /\ FileOK' /\ BatchOK'
        /\ UNCHANGED <<flag, sessionId, written, errors, sweepErrors, batch, begun,
                       pc, halting, inTx, handle, openError>>
    BY FileFrame, BatchFrame DEF IInv, Offer, fileVars, envVars, threadVars
  <1>2. sessionId # 0 /\ ~flag /\ handle = "running"
    BY DEF Offer, IInv, LoopOK
  <1>3. row \in RowOK
    BY <1>2 DEF RowOK, Write, IInv, Counts
  <1>4. ~Told /\ QueuedRows = Len(queue)
    BY <1>2, QueuedRowsBound DEF IInv, QueueOK
  <1> HIDE DEF row
  <1>5. CASE Len(queue) < QueueMax
    <2>1. queue' = Append(queue, row) /\ queued' = queued + 1
      BY <1>5 DEF Offer, row
    <2>2. /\ queue' \in Seq(Write \cup {Sentinel}) /\ Len(queue') = Len(queue) + 1
          /\ \A i \in 1..Len(queue) : queue'[i] = queue[i]
          /\ queue'[Len(queue) + 1] = row
      <3>1. queue \in Seq(Write \cup {Sentinel}) /\ row \in Write \cup {Sentinel}
        BY <1>3 DEF IInv, QueueOK, RowOK
      <3> QED BY <2>1, <3>1, AppendProperties
    <2>3. ~Told' /\ QueuedRows' = Len(queue) + 1
      BY <2>2, <1>3, RowNotSentinel DEF Told, QueuedRows, Sentinel
    <2>4. \A i \in 1..(Len(queue) + 1) : queue'[i] \in RowOK
      BY <2>2, <1>3, <1>4, QueuedRowsBound DEF IInv, QueueOK
    <2>5. QueueOK'
      BY <1>1, <2>2, <2>3, <2>4 DEF QueueOK, RowOK
    <2>6. Accounts' /\ Counts'
      BY <1>1, <1>4, <2>1, <2>3, QueuedRowsBound, LenProperties
         DEF IInv, Accounts, Counts, BatchOK
    <2>7. Control'
      BY <1>1, <1>2 DEF IInv, Control, ThreadOK, LoopOK, StopOK
    <2> QED BY <1>1, <2>5, <2>6, <2>7 DEF IInv, Control
  <1>6. CASE ~(Len(queue) < QueueMax)
    <2>1. UNCHANGED <<queue, queued>>
      BY <1>6 DEF Offer
    <2>2. QueueOK' /\ QueuedRows' = QueuedRows
      BY <1>1, <2>1, QueueFrame DEF IInv
    <2> QED BY <1>1, <2>1, <2>2
            DEF IInv, Counts, Accounts, ThreadOK, LoopOK, StopOK
  <1> QED BY <1>5, <1>6

LEMMA StopInv == IInv /\ Stop => IInv'
  <1> SUFFICES ASSUME IInv, Stop PROVE IInv'
    OBVIOUS
  <1>1. /\ FileOK' /\ BatchOK' /\ flag'
        /\ UNCHANGED <<sessionId, written, errors, sweepErrors, batch, begun,
                       queued, pc, halting, inTx, openError>>
        /\ handle = "running" /\ handle' = "stopping"
    BY FileFrame, BatchFrame DEF IInv, Stop, fileVars, envVars, threadVars
  <1>2. ~flag /\ ~halting
    BY <1>1 DEF IInv, LoopOK, StopOK
  <1>3. ~Told /\ QueuedRows = Len(queue) /\ Len(queue) \in Nat
    BY <1>2, QueuedRowsBound DEF IInv, QueueOK
  <1>4. QueueOK' /\ QueuedRows' = QueuedRows
    <2>1. CASE queue' = Append(queue, Sentinel)
      <3>1. /\ queue' \in Seq(Write \cup {Sentinel}) /\ Len(queue') = Len(queue) + 1
            /\ \A i \in 1..Len(queue) : queue'[i] = queue[i]
            /\ queue'[Len(queue) + 1] = Sentinel
        <4>1. queue \in Seq(Write \cup {Sentinel}) /\ Sentinel \in Write \cup {Sentinel}
          BY DEF IInv, QueueOK
        <4> QED BY <2>1, <4>1, AppendProperties
      <3>2. queue' # <<>>
        BY <3>1, <1>3
      <3>3. Told' /\ QueuedRows' = Len(queue)
        BY <3>1, <3>2, <1>3 DEF Told, QueuedRows, Sentinel
      <3>4. RowOK' = RowOK
        BY <1>1 DEF RowOK
      <3>5. \A i \in 1..QueuedRows' : queue'[i] \in RowOK'
        BY <3>1, <3>3, <3>4, <1>3 DEF IInv, QueueOK
      <3>6. queue' \in Seq(Write \cup {Sentinel}')
        BY <3>1 DEF Sentinel
      <3> QED BY <3>3, <3>5, <3>6, <1>1, <1>3 DEF QueueOK
    <2>2. CASE queue' = queue
      <3>1. ~Told' /\ QueuedRows' = QueuedRows /\ RowOK' = RowOK
        BY <2>2, <1>1, <1>3 DEF Told, QueuedRows, Sentinel, RowOK
      <3> QED BY <3>1, <2>2, <1>3 DEF IInv, QueueOK, Sentinel
    <2> QED BY <2>1, <2>2 DEF Stop
  <1>5. Counts' /\ Accounts'
    BY <1>1, <1>4 DEF IInv, Counts, Accounts
  <1>6. Control'
    BY <1>1, <1>2 DEF IInv, Control, ThreadOK, LoopOK, StopOK
  <1> QED BY <1>1, <1>4, <1>5, <1>6 DEF IInv, Control

LEMMA ExitInv == IInv /\ Exit => IInv'
  <1> SUFFICES ASSUME IInv, Exit PROVE IInv'
    OBVIOUS
  <1>1. FileOK'
    BY FileFrame DEF IInv, Exit, fileVars
  <1>2. queue' = <<>> /\ batch' = <<>>
    BY DEF Exit
  <1>3. ~Told' /\ QueuedRows' = 0
    BY <1>2 DEF Told, QueuedRows
  <1>4. QueueOK' /\ BatchOK'
    BY <1>2, <1>3, EmptySeq DEF QueueOK, BatchOK
  <1>5. Counts' /\ Accounts'
    <2>1. /\ queued' = 0 /\ written' = 0 /\ errors' = 0 /\ sweepErrors' = 0
          /\ begun' = begun /\ sessionId' = 0 /\ Len(batch') = 0
      BY <1>2 DEF Exit, fileVars
    <2>2. halting' = FALSE /\ flag' = FALSE /\ inTx' = FALSE
      BY DEF Exit
    <2>3. Accounts'
      BY <2>1, <1>3 DEF Accounts
    <2> QED BY <2>1, <2>2, <2>3 DEF IInv, Counts
  <1>6. Control'
    BY <1>2 DEF Control, ThreadOK, LoopOK, StopOK, Exit
  <1> QED BY <1>1, <1>4, <1>5, <1>6 DEF IInv, Control

\* An exception ends a thread without a session, and no other.
LEMMA RaisesInv ==
  ASSUME IInv, Raises, ThreadFrame, pc \in {"open", "budget", "window", "begin"}
  PROVE  IInv'
  <1>1. /\ UNCHANGED <<file, begun, queue, batch, sessionId, flag, written, queued,
                       halting, inTx, handle>>
    BY DEF Raises, ThreadFrame, fileVars, loopVars
  <1>2. FileOK' /\ QueueOK' /\ QueuedRows' = QueuedRows /\ BatchOK'
    BY <1>1, FileFrame, QueueFrame, BatchFrame DEF IInv
  <1>3. Counts' /\ Accounts'
    BY <1>1, <1>2, QueuedRowsBound, LenProperties
       DEF IInv, Counts, Accounts, Raises, BatchOK
  <1>4. ~halting
    BY DEF IInv, StopOK
  <1>5. Control'
    BY <1>1, <1>4 DEF IInv, Control, ThreadOK, LoopOK, StopOK, Raises
  <1> QED BY <1>2, <1>3, <1>5 DEF IInv, Control

LEMMA OpenInv == IInv /\ Open => IInv'
  <1> SUFFICES ASSUME IInv, Open PROVE IInv'
    OBVIOUS
  <1>1. CASE ~Openable
    BY <1>1, RaisesInv DEF Open
  <1>2. CASE Openable
    <2>1. /\ UNCHANGED <<file, begun, queue, batch, sessionId, flag, written, queued,
                         halting, inTx, handle, errors, sweepErrors, openError>>
          /\ pc = "open" /\ pc' = "budget"
      BY <1>2 DEF Open, ThreadFrame, loopVars
    <2>2. FileOK' /\ QueueOK' /\ QueuedRows' = QueuedRows /\ BatchOK'
      BY <2>1, FileFrame, QueueFrame, BatchFrame DEF IInv
    <2>3. Counts' /\ Accounts'
      BY <2>1, <2>2 DEF IInv, Counts, Accounts
    <2>4. Control'
      BY <2>1 DEF IInv, Control, ThreadOK, LoopOK, StopOK
    <2> QED BY <2>2, <2>3, <2>4 DEF IInv, Control
  <1> QED BY <1>1, <1>2

\* A step of a sweep that leaves rows of begun sessions only.
LEMMA SweepsInv ==
  ASSUME IInv, ThreadFrame, NEW writes, NEW swept, NEW next \in {"window", "note"},
         swept \in [Tables -> Seq(StoredRow)], Sweeps(writes, swept, next),
         pc \in {"budget", "window"}
  PROVE  IInv'
  <1>1. CASE Raises
    BY <1>1, RaisesInv
  <1>2. CASE ~Raises
    <2>1. /\ UNCHANGED <<begun, queue, batch, sessionId, flag, written, queued,
                         halting, inTx, handle, errors, sweepErrors, openError>>
          /\ file' = swept /\ pc' = next
      BY <1>2 DEF Sweeps, ThreadFrame, loopVars
    <2>2. FileOK'
      BY <2>1 DEF FileOK, StoredRow
    <2>3. QueueOK' /\ QueuedRows' = QueuedRows /\ BatchOK'
      BY <2>1, QueueFrame, BatchFrame DEF IInv
    <2>4. Counts' /\ Accounts'
      BY <2>1, <2>3 DEF IInv, Counts, Accounts
    <2>5. Control'
      BY <2>1 DEF IInv, Control, ThreadOK, LoopOK, StopOK
    <2> QED BY <2>2, <2>3, <2>4, <2>5 DEF IInv, Control
  <1> QED BY <1>1, <1>2

LEMMA BudgetInv == IInv /\ Budget => IInv'
  <1> SUFFICES ASSUME IInv, Budget PROVE IInv'
    OBVIOUS
  <1>1. /\ file \in [Tables -> Seq(StoredRow)]
        /\ Budgeted(file) \in [Tables -> Seq(StoredRow)]
    BY SweptType DEF IInv, FileOK
  <1>2. CASE Sweeps(FALSE, file, "window")
    BY <1>1, <1>2, SweepsInv DEF Budget
  <1>3. CASE Sweeps(TRUE, Budgeted(file), "window")
    BY <1>1, <1>3, SweepsInv DEF Budget
  <1> QED BY <1>2, <1>3 DEF Budget

LEMMA WindowInv == IInv /\ Window => IInv'
  <1> SUFFICES ASSUME IInv, Window PROVE IInv'
    OBVIOUS
  <1>1. file \in [Tables -> Seq(StoredRow)]
    BY DEF IInv, FileOK
  <1>2. CASE Sweeps(FALSE, file, "note")
    BY <1>1, <1>2, SweepsInv DEF Window
  <1>3. ASSUME NEW wall \in Walls,
               Sweeps(inTx \/ WindowWrites(file, wall), Windowed(file, wall), "note")
        PROVE  IInv'
    <2>1. Windowed(file, wall) \in [Tables -> Seq(StoredRow)]
      BY SweptType DEF IInv
    <2> QED BY <1>3, <2>1, SweepsInv DEF Window
  <1> QED BY <1>2, <1>3 DEF Window

LEMMA BeginInv == IInv /\ Begin => IInv'
  <1> SUFFICES ASSUME IInv, Begin PROVE IInv'
    OBVIOUS
  <1>1. CASE ~disk
    BY <1>1, RaisesInv DEF Begin
  <1>2. CASE disk
    <2>1. /\ UNCHANGED <<queue, batch, flag, written, queued, halting, inTx, handle,
                         errors, sweepErrors, openError>>
          /\ pc = "begin" /\ pc' = "get" /\ sessionId' = begun + 1
          /\ sessionId = 0 /\ begun \in Nat
      BY <1>2 DEF Begin, ThreadFrame, loopVars, IInv, ThreadOK, Counts
    <2>2. RowOK = {}
      BY <2>1 DEF RowOK
    <2>3. QueuedRows = 0 /\ batch = <<>>
      <3>1. QueuedRows = 0
        BY <2>2, QueuedRowsBound DEF IInv, QueueOK
      <3>2. batch = <<>>
        <4>1. batch \in Seq({})
          BY <2>2 DEF IInv, BatchOK
        <4>2. batch # <<>> => Head(batch) \in {}
          BY <4>1, HeadTailProperties
        <4> QED BY <4>2
      <3> QED BY <3>1, <3>2
    <2>4. QueuedRows' = QueuedRows /\ Told' = Told
      BY <2>1 DEF QueuedRows, Told, Sentinel
    <2>5. QueueOK'
      BY <2>1, <2>3, <2>4 DEF IInv, QueueOK, Sentinel
    <2>6. BatchOK'
      BY <2>1, <2>3, EmptySeq DEF BatchOK
    <2>7. FileOK' /\ begun' \in Nat /\ (inTx \/ begun' = begun + 1)
      <3>1. CASE inTx
        BY <1>2, <3>1, <2>1, FileFrame DEF Begin, IInv
      <3>2. CASE ~inTx
        <4>1. begun' = begun + 1
          BY <1>2, <3>2 DEF Begin
        <4>2. PICK wall \in Walls :
                file' = [file EXCEPT !["sessions"] =
                           Append(@, [at |-> wall, session |-> begun + 1])]
          BY <1>2, <3>2 DEF Begin
        <4>3. StoredRow \subseteq StoredRow'
          BY <4>1, <2>1 DEF StoredRow
        <4>4. [at |-> wall, session |-> begun + 1] \in StoredRow'
          <5>1. wall \in Int
            BY WriterAssumption
          <5>2. begun + 1 \in 1..begun' /\ begun + 1 \in Nat
            BY <4>1, <2>1
          <5> QED BY <5>1, <5>2 DEF StoredRow, Row
        <4>5. \A t \in Tables : file[t] \in Seq(StoredRow')
          BY <4>3, SeqMonotonic DEF IInv, FileOK
        <4>6. Append(file["sessions"], [at |-> wall, session |-> begun + 1])
                \in Seq(StoredRow')
          BY <4>4, <4>5, AppendProperties, RetentionAssumption
        <4>7. file' \in [Tables -> Seq(StoredRow')]
          BY <4>2, <4>5, <4>6 DEF IInv, FileOK
        <4> QED BY <4>1, <4>7, <2>1 DEF FileOK
      <3> QED BY <3>1, <3>2
    <2>8. Counts' /\ Accounts'
      BY <2>1, <2>4, <2>7 DEF IInv, Counts, Accounts
    <2>9. Control'
      <3>1. sessionId' # 0 /\ (sessionId' # 0 /\ ~inTx' => sessionId' <= begun')
        BY <2>1, <2>7
      <3> QED BY <2>1, <3>1 DEF IInv, Control, ThreadOK, LoopOK, StopOK
    <2> QED BY <2>5, <2>6, <2>7, <2>8, <2>9 DEF IInv, Control
  <1> QED BY <1>1, <1>2

LEMMA TakeInv == IInv /\ Take => IInv'
  <1> SUFFICES ASSUME IInv, Take PROVE IInv'
    OBVIOUS
  <1>1. /\ UNCHANGED <<file, begun, sessionId, flag, written, queued, inTx, handle,
                       errors, sweepErrors, openError>>
        /\ pc = "get" /\ pc' = "look" /\ sessionId # 0 /\ ~halting
    BY DEF Take, ThreadFrame, fileVars, loopVars, IInv, ThreadOK, StopOK
  <1>2. FileOK' /\ RowOK' = RowOK
    BY <1>1, FileFrame DEF IInv, RowOK
  <1>3. /\ queue \in Seq(Write \cup {Sentinel}) /\ Len(queue) \in Nat
        /\ batch \in Seq(RowOK) /\ Len(batch) \in Nat
        /\ QueuedRows \in 0..Len(queue)
        /\ Told => QueuedRows = Len(queue) - 1
        /\ ~Told => QueuedRows = Len(queue)
        /\ \A i \in 1..QueuedRows : queue[i] \in RowOK
    BY QueuedRowsBound, LenProperties DEF IInv, QueueOK, BatchOK
  <1>a. Len(queue) \in Nat /\ QueuedRows \in Nat /\ QueuedRows <= Len(queue)
    BY <1>3
  <1>4. CASE queue = <<>>
    <2>1. UNCHANGED <<queue, halting, batch>>
      BY <1>4 DEF Take
    <2>2. QueueOK' /\ QueuedRows' = QueuedRows /\ BatchOK'
      BY <1>1, <2>1, QueueFrame, BatchFrame DEF IInv
    <2>3. Counts' /\ Accounts'
      BY <1>1, <2>1, <2>2 DEF IInv, Counts, Accounts
    <2>4. Control'
      BY <1>1, <2>1 DEF IInv, Control, ThreadOK, LoopOK, StopOK
    <2> QED BY <1>2, <2>2, <2>3, <2>4 DEF IInv, Control
  <1>5. CASE queue # <<>>
    <2>1. /\ Head(queue) = queue[1] /\ Len(queue) >= 1
          /\ Tail(queue) \in Seq(Write \cup {Sentinel})
          /\ Len(Tail(queue)) = Len(queue) - 1
          /\ \A i \in 1..Len(Tail(queue)) : Tail(queue)[i] = queue[i + 1]
      <3>1. Head(queue) = queue[1] /\ Len(queue) # 0
        BY <1>3, <1>5
      <3> QED BY <3>1, <1>3, <1>5, HeadTailProperties
    <2>2. queue' = Tail(queue)
      BY <1>5 DEF Take
    <2>3. CASE Head(queue) = Sentinel
      <3>1. QueuedRows = 0
        <4>1. QueuedRows >= 1 => queue[1] \in RowOK
          BY <1>3
        <4>2. queue[1] \notin RowOK
          BY <2>1, <2>3, RowNotSentinel
        <4> QED BY <4>1, <4>2, <1>a
      <3>2. Told /\ Len(queue) = 1 /\ flag
        BY <3>1, <1>3, <2>1 DEF IInv, QueueOK
      <3>3. queue' = <<>> /\ halting' /\ halting' \in BOOLEAN /\ batch' = batch
        <4>1. queue' \in Seq(Write \cup {Sentinel}) /\ Len(queue') = 0
          BY <2>1, <2>2, <3>2
        <4>2. queue' = <<>>
          BY <4>1
        <4> QED BY <4>2, <1>5, <2>3 DEF Take
      <3>4. ~Told' /\ QueuedRows' = 0
        BY <3>3 DEF Told, QueuedRows
      <3>5. QueueOK' /\ BatchOK'
        BY <1>1, <3>3, <3>4, BatchFrame, EmptySeq DEF IInv, QueueOK
      <3>6. Counts' /\ Accounts'
        BY <1>1, <3>1, <3>3, <3>4 DEF IInv, Counts, Accounts
      <3>7. Control'
        BY <1>1, <3>2, <3>3 DEF IInv, Control, ThreadOK, LoopOK, StopOK
      <3> QED BY <1>2, <3>5, <3>6, <3>7 DEF IInv, Control
    <2>4. CASE Head(queue) # Sentinel
      <3>1. QueuedRows >= 1 /\ (Told => Len(queue) >= 2)
        <4>1. CASE Told
          <5>1. Len(queue) # 1
            BY <4>1, <2>1, <2>4 DEF Told
          <5>2. QueuedRows = Len(queue) - 1
            BY <4>1, <1>3
          <5> QED BY <5>1, <5>2, <2>1, <1>a
        <4>2. CASE ~Told
          <5>1. QueuedRows = Len(queue)
            BY <4>2, <1>3
          <5> QED BY <5>1, <4>2, <2>1
        <4> QED BY <4>1, <4>2
      <3>2. halting' = FALSE /\ batch' = Append(batch, Head(queue))
        BY <1>5, <2>4 DEF Take
      <3>3. Told' = Told
        <4>1. CASE Len(queue) = 1
          <5>1. queue' = <<>>
            BY <4>1, <2>1, <2>2
          <5> QED BY <5>1, <4>1, <3>1 DEF Told
        <4>2. CASE Len(queue) # 1
          <5>1. Len(queue') = Len(queue) - 1 /\ Len(queue) - 1 \in 1..Len(queue')
            BY <4>2, <2>1, <2>2, <1>a
          <5>2. Len(queue') # 0 /\ (Len(queue) - 1) + 1 = Len(queue)
            BY <5>1, <1>a
          <5>3. queue'[Len(queue')] = queue[Len(queue)]
            BY <5>1, <5>2, <2>1, <2>2
          <5>4. queue' # <<>>
            BY <5>2
          <5> QED BY <5>3, <5>4, <1>5 DEF Told, Sentinel
        <4> QED BY <4>1, <4>2
      <3>4. QueuedRows' = QueuedRows - 1
        BY <3>3, <2>1, <2>2, <1>3 DEF QueuedRows
      <3>5. \A i \in 1..QueuedRows' : queue'[i] \in RowOK
        <4> SUFFICES ASSUME NEW i \in 1..(QueuedRows - 1) PROVE queue'[i] \in RowOK
          BY <3>4
        <4>1. i \in 1..(Len(queue) - 1) /\ i + 1 \in 1..QueuedRows
          BY <1>a
        <4>2. queue'[i] = queue[i + 1]
          BY <4>1, <2>1, <2>2
        <4> QED BY <4>1, <4>2, <1>3
      <3>6. QueueOK'
        BY <1>1, <1>2, <2>1, <2>2, <3>3, <3>5 DEF IInv, QueueOK, Sentinel
      <3>7. batch' \in Seq(RowOK) /\ Len(batch') = Len(batch) + 1
        <4>1. Head(queue) \in RowOK
          <5>1. 1 \in 1..QueuedRows
            BY <3>1, <1>a
          <5> QED BY <5>1, <2>1, <1>3
        <4> QED BY <4>1, <3>2, <1>3, AppendProperties
      <3>8. BatchOK'
        BY <3>7, <1>2 DEF BatchOK
      <3>9. Counts' /\ Accounts'
        <4>1. halting' \in BOOLEAN
          BY <3>2
        <4> QED BY <4>1, <1>1, <1>3, <3>4, <3>7 DEF IInv, Counts, Accounts
      <3>10. Control'
        BY <1>1, <3>2 DEF IInv, Control, ThreadOK, LoopOK, StopOK
      <3> QED BY <1>2, <3>6, <3>8, <3>9, <3>10 DEF IInv, Control
    <2> QED BY <2>3, <2>4
  <1> QED BY <1>4, <1>5

LEMMA LookInv == ASSUME NEW late \in BOOLEAN PROVE IInv /\ Look(late) => IInv'
  <1> SUFFICES ASSUME IInv, Look(late) PROVE IInv'
    OBVIOUS
  <1>1. /\ UNCHANGED <<file, begun, sessionId, flag, written, queued, inTx, handle,
                       errors, sweepErrors, openError, queue, batch>>
        /\ pc = "look" /\ halting' = MustHalt
        /\ pc' = IF Due(late) /\ batch # <<>> THEN "commit" ELSE "between"
    BY DEF Look, ThreadFrame, fileVars, loopVars
  <1>2. FileOK' /\ QueueOK' /\ QueuedRows' = QueuedRows /\ BatchOK'
    BY <1>1, FileFrame, QueueFrame, BatchFrame DEF IInv
  <1>3. halting' \in BOOLEAN
    BY <1>1, Zenon DEF MustHalt, IInv, Counts
  <1>4. Counts' /\ Accounts'
    BY <1>1, <1>2, <1>3 DEF IInv, Counts, Accounts
  <1>5. Control'
    BY <1>1 DEF IInv, Control, ThreadOK, LoopOK, StopOK, MustHalt, Due
  <1> QED BY <1>2, <1>4, <1>5 DEF IInv, Control

LEMMA CommitInv == IInv /\ Commit => IInv'
  <1> SUFFICES ASSUME IInv, Commit PROVE IInv'
    OBVIOUS
  <1>1. /\ UNCHANGED <<begun, sessionId, flag, queued, inTx, handle,
                       sweepErrors, openError, queue, halting>>
        /\ pc = "commit" /\ pc' = "between" /\ batch' = <<>>
    BY DEF Commit, ThreadFrame, loopVars
  <1>2. QueueOK' /\ QueuedRows' = QueuedRows
    BY <1>1, QueueFrame DEF IInv
  <1>3. BatchOK'
    BY <1>1, EmptySeq DEF BatchOK
  <1>4. FileOK'
    <2>1. CASE disk /\ ~inTx
      <3>1. sessionId <= begun
        BY <1>1, <2>1 DEF IInv, ThreadOK
      <3>2. file' = Applied(batch)
        BY <2>1 DEF Commit
      <3> QED BY <3>1, <3>2, <1>1, AppliedType DEF IInv, FileOK, StoredRow
    <2>2. CASE ~(disk /\ ~inTx)
      BY <2>2, <1>1, FileFrame DEF Commit, IInv
    <2> QED BY <2>1, <2>2
  <1>5. Counts' /\ Accounts'
    <2>1. Len(batch) \in Nat /\ Len(batch') = 0 /\ QueuedRows \in Nat
      BY <1>1, QueuedRowsBound, LenProperties DEF IInv, BatchOK
    <2>2. \/ written' = written + Len(batch) /\ errors' = errors
          \/ errors' = errors + Len(batch) /\ written' = written
      BY DEF Commit
    <2> QED BY <1>1, <1>2, <2>1, <2>2 DEF IInv, Counts, Accounts
  <1>6. Control'
    BY <1>1 DEF IInv, Control, ThreadOK, LoopOK, StopOK
  <1> QED BY <1>2, <1>3, <1>4, <1>5, <1>6 DEF IInv, Control

LEMMA NextIInv == IInv /\ [Next]_vars => IInv'
  <1> SUFFICES ASSUME IInv, [Next]_vars PROVE IInv'
    OBVIOUS
  <1>1. CASE UNCHANGED vars
    <2>1. UNCHANGED <<file, begun, sessionId, flag, written, queued, inTx, handle,
                      errors, sweepErrors, openError, queue, batch, pc, halting>>
      BY <1>1 DEF vars, fileVars, envVars, loopVars, threadVars
    <2>2. FileOK' /\ QueueOK' /\ QueuedRows' = QueuedRows /\ BatchOK'
      BY <2>1, FileFrame, QueueFrame, BatchFrame DEF IInv
    <2>3. Counts' /\ Accounts' /\ Control'
      BY <2>1, <2>2 DEF IInv, Counts, Accounts, Control, ThreadOK, LoopOK, StopOK
    <2> QED BY <2>2, <2>3 DEF IInv, Control
  <1>2. CASE Start \/ StartReturns \/ StartTimesOut \/ Stop \/ Exit \/ DiskTurns
    BY <1>2, StartInv, StartReturnsInv, StartTimesOutInv, StopInv, ExitInv,
       DiskTurnsInv
  <1>3. ASSUME NEW t \in Recorded, NEW wall \in Walls, Offer(t, wall) PROVE IInv'
    BY <1>3, OfferInv
  <1>4. ASSUME NEW late \in BOOLEAN, Look(late) PROVE IInv'
    BY <1>4, LookInv
  <1>5. CASE Thread
    BY <1>4, <1>5, OpenInv, BudgetInv, WindowInv, NotePruneInv, BeginInv, TakeInv,
       CommitInv, GoOnInv, SweepDueInv, FinishInv DEF Thread
  <1> QED BY <1>1, <1>2, <1>3, <1>5 DEF Next

-----------------------------------------------------------------------------

\* Every reachable state of the history satisfies the inductive invariant.
THEOREM HistoryInvariant == Spec => []IInv
  BY InitIInv, NextIInv, PTL DEF Spec

\* Every row the queue took is waiting, written, or counted as an error.
THEOREM NoRowUnaccounted == Spec => []RowsAccounted
  <1>1. IInv => RowsAccounted
    BY WaitingIs DEF IInv, Accounts, RowsAccounted
  <1> QED BY <1>1, HistoryInvariant, PTL

\* A row carries the session it was recorded in, waiting or stored, and that
\* session has been begun.
THEOREM EveryRowHasASession == Spec => []RowsHaveSession
  <1>1. IInv => RowsHaveSession
    <2> SUFFICES ASSUME IInv PROVE RowsHaveSession
      OBVIOUS
    <2>1. Waiting \in Seq(RowOK)
      BY WaitingIs DEF IInv
    <2>2. ASSUME NEW i \in DOMAIN Waiting
          PROVE  Waiting[i].session = sessionId /\ sessionId # 0
      <3>1. Waiting[i] \in RowOK
        BY <2>1, ElementOfSeq
      <3> QED BY <3>1 DEF RowOK
    <2>3. ASSUME NEW t \in Tables, NEW i \in DOMAIN file[t]
          PROVE  file[t][i].session \in 1..begun
      <3>1. file[t] \in Seq(StoredRow)
        BY DEF IInv, FileOK
      <3>2. file[t][i] \in StoredRow
        BY <3>1, ElementOfSeq
      <3> QED BY <3>2 DEF StoredRow
    <2> QED BY <2>2, <2>3 DEF RowsHaveSession
  <1> QED BY <1>1, HistoryInvariant, PTL

\* A thread that began its session ends only when told to, with its queue and
\* its batch empty.
THEOREM StopDrainsAll == Spec => []StopDrains
  <1>1. IInv => StopDrains
    <2> SUFFICES ASSUME IInv, pc = "ended", sessionId # 0
                 PROVE  flag /\ Waiting = <<>>
      BY DEF StopDrains
    <2>1. flag /\ queue = <<>> /\ batch = <<>>
      BY DEF IInv, StopOK
    <2>2. QueuedRows = 0
      BY <2>1 DEF QueuedRows, Told
    <2>3. Waiting \in Seq(RowOK) /\ Len(Waiting) = 0
      BY <2>1, <2>2, WaitingIs DEF IInv
    <2> QED BY <2>1, <2>3
  <1> QED BY <1>1, HistoryInvariant, PTL

-----------------------------------------------------------------------------
(***************************************************************************)
(* The window of a sweep: what decides it, and what it leaves.             *)
(***************************************************************************)

LEMMA PlacesFinite == FileOK => IsFiniteSet(Places(file))
  <1> SUFFICES ASSUME FileOK PROVE IsFiniteSet(Places(file))
    OBVIOUS
  <1> DEFINE part == [t \in Tables |-> {t} \X DOMAIN file[t]]
             parts == {part[t] : t \in Tables}
  <1>1. IsFiniteSet(parts)
    <2>1. part \in Surjection(Tables, parts)
      BY DEF Surjection
    <2> QED BY <2>1, FS_Surjection, RetentionAssumption
  <1>2. ASSUME NEW t \in Tables PROVE IsFiniteSet(part[t])
    <2>1. file[t] \in Seq(StoredRow)
      BY DEF FileOK
    <2>2. DOMAIN file[t] = 1..Len(file[t]) /\ Len(file[t]) \in Int
      BY <2>1
    <2>3. IsFiniteSet(1..Len(file[t]))
      BY <2>2, FS_Interval
    <2>4. IsFiniteSet({t})
      BY FS_Singleton
    <2>5. IsFiniteSet({t} \X (1..Len(file[t])))
      BY <2>3, <2>4, FS_Product
    <2> QED BY <2>2, <2>5
  <1>3. \A T \in parts : IsFiniteSet(T)
    BY <1>2
  <1>4. Places(file) = UNION parts
    BY DEF Places
  <1> HIDE DEF parts
  <1> QED BY <1>1, <1>3, <1>4, FS_UNION

LEMMA StampsAreWalls ==
  ASSUME FileOK, NEW place \in Places(file)
  PROVE  StampAt(file, place) \in Walls /\ StampAt(file, place) \in Nat
  <1>1. PICK t \in Tables : place \in {t} \X DOMAIN file[t]
    BY DEF Places
  <1>2. place[1] = t /\ place[2] \in DOMAIN file[t] /\ file[t] \in Seq(StoredRow)
    BY <1>1 DEF FileOK
  <1>3. file[t][place[2]] \in StoredRow
    BY <1>2, ElementOfSeq
  <1> QED BY <1>2, <1>3, WriterAssumption DEF StampAt, StoredRow

\* The later the instant, the fewer rows are later than it; before the first
\* stamp all are.
LEMMA LaterFalls ==
  ASSUME FileOK, NEW a \in Int, NEW b \in Int, a <= b
  PROVE  /\ Later(file, b) <= Later(file, a)
         /\ Later(file, a) \in Nat /\ Later(file, b) \in Nat
  <1> DEFINE after(c) == {place \in Places(file) : StampAt(file, place) > c}
  <1>1. IsFiniteSet(after(a))
    BY PlacesFinite, FS_Subset
  <1>2. after(b) \in SUBSET after(a)
    BY StampsAreWalls
  <1>3. Cardinality(after(b)) <= Cardinality(after(a)) /\ IsFiniteSet(after(b))
    BY <1>1, <1>2, FS_Subset
  <1>4. Cardinality(after(a)) \in Nat /\ Cardinality(after(b)) \in Nat
    BY <1>1, <1>3, FS_CardinalityType
  <1> QED BY <1>3, <1>4 DEF Later

LEMMA AllLaterAtFirst == FileOK => Later(file, -1) = Total(file)
  <1> SUFFICES ASSUME FileOK PROVE Later(file, -1) = Total(file)
    OBVIOUS
  <1>1. \A place \in Places(file) : StampAt(file, place) > -1
    BY StampsAreWalls
  <1>2. {place \in Places(file) : StampAt(file, place) > -1} = Places(file)
    BY <1>1
  <1> QED BY <1>2 DEF Later, Total

\* Two instants that part the rows differently have a stamp between them.
LEMMA StampBetween ==
  ASSUME FileOK, NEW s \in Nat, Later(file, s - 1) # Later(file, s)
  PROVE  s \in Stamps(file)
  <1>1. SUFFICES ASSUME s \notin Stamps(file)
                 PROVE  Later(file, s - 1) = Later(file, s)
    OBVIOUS
  <1>2. ASSUME NEW place \in Places(file)
        PROVE  StampAt(file, place) > s - 1 <=> StampAt(file, place) > s
    <2>1. StampAt(file, place) \in Nat /\ StampAt(file, place) # s
      BY <1>1, StampsAreWalls DEF Stamps
    <2> QED BY <2>1
  <1>3. {place \in Places(file) : StampAt(file, place) > s - 1}
          = {place \in Places(file) : StampAt(file, place) > s}
    BY <1>2
  <1> QED BY <1>3 DEF Later

\* When RobustRank rows at most are later than an instant, the reference is not
\* later than it either.
LEMMA ReferenceNotAhead ==
  ASSUME FileOK, Total(file) > RobustRank, NEW instant \in Nat,
         Later(file, instant) <= RobustRank
  PROVE  ReferenceWall(file) \in Int /\ ReferenceWall(file) <= instant
  <1> DEFINE Ranked(s) == /\ Later(file, s) <= RobustRank
                          /\ Later(file, s - 1) > RobustRank
             Few == {n \in Nat : Later(file, n) <= RobustRank}
  <1>0. RobustRank \in Nat
    BY RetentionAssumption
  <1>1. PICK s \in Few : \A y \in Few : ~(<<y, s>> \in Below)
    <2>1. instant \in Few /\ Few \subseteq Nat
      OBVIOUS
    <2> HIDE DEF Few
    <2> QED BY <2>1, BelowWellFounded, WFMin
  <1>2. s \in Nat /\ Later(file, s) <= RobustRank
    BY <1>1
  <1>3. Later(file, s - 1) > RobustRank
    <2>1. CASE s = 0
      <3>1. s - 1 = -1
        BY <2>1
      <3> QED BY <3>1, AllLaterAtFirst
    <2>2. CASE s # 0
      <3>1. s - 1 \in Nat /\ s - 1 < s
        BY <1>2, <2>2
      <3>2. s - 1 \notin Few
        BY <1>1, <1>2, <3>1 DEF Below
      <3>3. Later(file, s - 1) \in Nat
        BY <3>1, LaterFalls
      <3> QED BY <1>0, <3>1, <3>2, <3>3
    <2> QED BY <2>1, <2>2
  <1>4. s \in Stamps(file)
    <2>1. Later(file, s - 1) # Later(file, s)
      <3>1. s \in Int /\ s - 1 \in Int /\ s - 1 <= s
        BY <1>2
      <3>2. Later(file, s) \in Nat /\ Later(file, s - 1) \in Nat
        BY <3>1, LaterFalls
      <3> QED BY <1>0, <1>2, <1>3, <3>2
    <2> QED BY <1>2, <2>1, StampBetween
  <1> DEFINE c == ReferenceWall(file)
  <1>5. c \in Stamps(file) /\ Ranked(c)
    <2>1. c = CHOOSE r \in Stamps(file) : Ranked(r)
      BY DEF ReferenceWall
    <2>2. \E r \in Stamps(file) : Ranked(r)
      BY <1>2, <1>3, <1>4
    <2> HIDE DEF Ranked, c
    <2> QED BY <2>1, <2>2
  <1>6. c \in Nat
    BY <1>5, StampsAreWalls DEF Stamps
  <1> HIDE DEF c
  <1>7. c <= instant
    <2>1. SUFFICES ASSUME c > instant PROVE FALSE
      BY <1>6
    <2>2. instant <= c - 1 /\ c - 1 \in Int /\ instant \in Int
      BY <1>6, <2>1
    <2>3. /\ Later(file, c - 1) <= Later(file, instant)
          /\ Later(file, c - 1) \in Nat /\ Later(file, instant) \in Nat
      BY <2>2, LaterFalls
    <2> QED BY <1>0, <1>5, <2>3
  <1> QED BY <1>6, <1>7 DEF c

\* One row more is picked or not.
LEMMA PickedAppend ==
  ASSUME NEW Kind, NEW rows \in Seq(Kind), NEW r \in Kind, NEW few, NEW more,
         \A i \in 1..Len(rows) : i \in few <=> i \in more
  PROVE  Picked(Append(rows, r), more)
           = IF Len(rows) + 1 \in more THEN Append(Picked(rows, few), r)
                                       ELSE Picked(rows, few)
  <1> DEFINE longer == Append(rows, r)
  <1>1. /\ Len(longer) = Len(rows) + 1 /\ Len(rows) \in Nat
        /\ longer[Len(rows) + 1] = r
        /\ \A i \in 1..Len(rows) : longer[i] = rows[i]
    BY AppendProperties
  <1> HIDE DEF longer
  <1>2. PICK f : /\ f[0] = <<>>
                 /\ \A i \in 1..Len(rows) :
                      f[i] = IF i \in few THEN Append(f[i - 1], rows[i]) ELSE f[i - 1]
                 /\ Picked(rows, few) = f[Len(rows)]
    BY <1>1, PickedIsPicking
  <1>3. PICK g : /\ g[0] = <<>>
                 /\ \A i \in 1..Len(longer) :
                      g[i] = IF i \in more THEN Append(g[i - 1], longer[i])
                                           ELSE g[i - 1]
                 /\ Picked(longer, more) = g[Len(longer)]
    BY <1>1, PickedIsPicking
  <1> DEFINE S == {k \in Nat : k <= Len(rows) => f[k] = g[k]}
  <1>4. ASSUME NEW k \in S PROVE k + 1 \in S
    <2> SUFFICES ASSUME k + 1 <= Len(rows) PROVE f[k + 1] = g[k + 1]
      OBVIOUS
    <2>1. /\ k + 1 \in 1..Len(rows) /\ k + 1 \in 1..Len(longer)
          /\ (k + 1) - 1 = k /\ f[k] = g[k]
      BY <1>1
    <2>2. f[k + 1] = IF k + 1 \in few THEN Append(f[k], rows[k + 1]) ELSE f[k]
      BY <1>2, <2>1
    <2>3. g[k + 1] = IF k + 1 \in more THEN Append(g[k], longer[k + 1]) ELSE g[k]
      BY <1>3, <2>1
    <2> QED BY <1>1, <2>1, <2>2, <2>3
  <1>5. S = Nat
    <2>1. S \subseteq Nat /\ 0 \in S
      BY <1>2, <1>3
    <2> HIDE DEF S
    <2> QED BY <1>4, <2>1, Induction
  <1>6. f[Len(rows)] = g[Len(rows)]
    BY <1>1, <1>5
  <1>7. /\ Len(rows) + 1 \in 1..Len(longer)
        /\ (Len(rows) + 1) - 1 = Len(rows)
    BY <1>1
  <1>8. g[Len(rows) + 1] = IF Len(rows) + 1 \in more
                           THEN Append(g[Len(rows)], longer[Len(rows) + 1])
                           ELSE g[Len(rows)]
    BY <1>3, <1>7
  <1> QED BY <1>1, <1>2, <1>3, <1>6, <1>8 DEF longer

\* The rows of a table from an instant on.
Recent(rows, instant) == Picked(rows, {i \in DOMAIN rows : rows[i].at >= instant})

LEMMA RecentAppend ==
  ASSUME NEW Kind, NEW rows \in Seq(Kind), NEW r \in Kind, NEW instant
  PROVE  Recent(Append(rows, r), instant)
           = IF r.at >= instant THEN Append(Recent(rows, instant), r)
                                ELSE Recent(rows, instant)
  <1> DEFINE longer == Append(rows, r)
             few == {i \in DOMAIN rows : rows[i].at >= instant}
             more == {i \in DOMAIN longer : longer[i].at >= instant}
  <1>1. /\ DOMAIN longer = 1..(Len(rows) + 1) /\ DOMAIN rows = 1..Len(rows)
        /\ Len(rows) \in Nat
        /\ longer[Len(rows) + 1] = r
        /\ \A i \in 1..Len(rows) : longer[i] = rows[i]
    BY AppendProperties
  <1> HIDE DEF longer
  <1>2. \A i \in 1..Len(rows) : i \in few <=> i \in more
    BY <1>1
  <1>3. Len(rows) + 1 \in more <=> r.at >= instant
    BY <1>1
  <1> HIDE DEF few, more
  <1>4. Picked(Append(rows, r), more)
          = IF Len(rows) + 1 \in more THEN Append(Picked(rows, few), r)
                                      ELSE Picked(rows, few)
    BY <1>2, PickedAppend
  <1> QED BY <1>3, <1>4 DEF Recent, longer, few, more

\* Removing what is older than a cutoff leaves what came after a later instant
\* as it was.
LEMMA RecentOfRecent ==
  ASSUME NEW rows \in Seq(Row), NEW cutoff \in Int, NEW instant \in Int,
         cutoff <= instant
  PROVE  Recent(Recent(rows, cutoff), instant) = Recent(rows, instant)
  <1> DEFINE wide == {i \in DOMAIN rows : rows[i].at >= cutoff}
             narrow == {i \in DOMAIN rows : rows[i].at >= instant}
  <1>0. DOMAIN rows = 1..Len(rows) /\ Len(rows) \in Nat
    OBVIOUS
  <1> HIDE DEF wide, narrow
  <1>1. PICK f : /\ f[0] = <<>>
                 /\ \A i \in 1..Len(rows) :
                      f[i] = IF i \in wide THEN Append(f[i - 1], rows[i]) ELSE f[i - 1]
                 /\ Picked(rows, wide) = f[Len(rows)]
    BY <1>0, PickedIsPicking
  <1>2. PICK g : /\ g[0] = <<>>
                 /\ \A i \in 1..Len(rows) :
                      g[i] = IF i \in narrow THEN Append(g[i - 1], rows[i])
                                             ELSE g[i - 1]
                 /\ Picked(rows, narrow) = g[Len(rows)]
    BY <1>0, PickedIsPicking
  <1> DEFINE S == {k \in Nat : k <= Len(rows) =>
                     f[k] \in Seq(Row) /\ Recent(f[k], instant) = g[k]}
  <1>3. 0 \in S
    <2>1. Recent(<<>>, instant) = <<>>
      <3>1. Len(<<>>) = 0
        OBVIOUS
      <3>2. PICK h : /\ h[0] = <<>>
                     /\ Recent(<<>>, instant) = h[Len(<<>>)]
        BY <3>1, PickedIsPicking DEF Recent
      <3> QED BY <3>1, <3>2
    <2>2. <<>> \in Seq(Row)
      BY EmptySeq
    <2> QED BY <1>1, <1>2, <2>1, <2>2
  <1>4. ASSUME NEW k \in S PROVE k + 1 \in S
    <2> SUFFICES ASSUME k + 1 <= Len(rows)
                 PROVE  f[k + 1] \in Seq(Row) /\ Recent(f[k + 1], instant) = g[k + 1]
      OBVIOUS
    <2>1. /\ k + 1 \in 1..Len(rows) /\ (k + 1) - 1 = k
          /\ f[k] \in Seq(Row) /\ Recent(f[k], instant) = g[k]
      OBVIOUS
    <2>2. rows[k + 1] \in Row /\ rows[k + 1].at \in Int
      <3>1. rows[k + 1] \in Row
        BY <2>1, ElementOfSeq
      <3> QED BY <3>1 DEF Row
    <2>3. f[k + 1] = IF k + 1 \in wide THEN Append(f[k], rows[k + 1]) ELSE f[k]
      BY <1>1, <2>1
    <2>4. g[k + 1] = IF k + 1 \in narrow THEN Append(g[k], rows[k + 1]) ELSE g[k]
      BY <1>2, <2>1
    <2>5. /\ k + 1 \in wide <=> rows[k + 1].at >= cutoff
          /\ k + 1 \in narrow <=> rows[k + 1].at >= instant
      BY <1>0, <2>1 DEF wide, narrow
    <2>6. Recent(Append(f[k], rows[k + 1]), instant)
            = IF rows[k + 1].at >= instant
              THEN Append(Recent(f[k], instant), rows[k + 1])
              ELSE Recent(f[k], instant)
      BY <2>1, <2>2, RecentAppend
    <2> HIDE DEF S
    <2>7. CASE rows[k + 1].at >= cutoff
      <3>1. f[k + 1] = Append(f[k], rows[k + 1])
        BY <2>3, <2>5, <2>7
      <3>2. f[k + 1] \in Seq(Row)
        BY <3>1, <2>1, <2>2, AppendProperties
      <3> QED BY <3>1, <3>2, <2>1, <2>4, <2>5, <2>6
    <2>8. CASE ~(rows[k + 1].at >= cutoff)
      <3>1. ~(rows[k + 1].at >= instant)
        BY <2>2, <2>8
      <3> QED BY <3>1, <2>1, <2>3, <2>4, <2>5, <2>8
    <2> QED BY <2>7, <2>8
  <1>5. S = Nat
    <2>1. S \subseteq Nat
      OBVIOUS
    <2> HIDE DEF S
    <2> QED BY <1>3, <1>4, <2>1, Induction
  <1>6. Recent(f[Len(rows)], instant) = g[Len(rows)]
    BY <1>0, <1>5
  <1> QED BY <1>1, <1>2, <1>6 DEF Recent, wide, narrow

\* What the window keeps of a table.
LEMMA WindowKeepsRecent ==
  ASSUME IInv, Total(file) > RobustRank, NEW instant \in Walls,
         Later(file, instant) <= RobustRank, NEW wall \in Walls, NEW t \in Tables
  PROVE  Recent(Windowed(file, wall)[t], instant - Retain)
           = Recent(file[t], instant - Retain)
  <1> DEFINE reference == Reference(file, wall)
             decided == ReferenceWall(file)
  <1>1. FileOK /\ instant \in Nat /\ wall \in Nat /\ Retain \in Nat /\ RobustRank \in Nat
    BY WriterAssumption, RetentionAssumption DEF IInv
  <1>2. decided \in Int /\ decided <= instant
    BY <1>1, ReferenceNotAhead
  <1>3. reference \in Int /\ reference <= instant
    <2>1. Total(file) # 0
      BY <1>1
    <2>2. reference = Min({wall, decided})
      BY <2>1 DEF Reference
    <2> HIDE DEF reference, decided
    <2>3. CASE wall <= decided
      <3>1. wall \in {wall, decided} /\ \A y \in {wall, decided} : wall <= y
        BY <2>3, <1>1
      <3>2. reference \in {wall, decided} /\ reference <= wall
        BY <2>2, <3>1 DEF Min
      <3> QED BY <3>2, <2>3, <1>1, <1>2
    <2>4. CASE ~(wall <= decided)
      <3>1. /\ decided \in {wall, decided}
            /\ \A y \in {wall, decided} : decided <= y
        BY <2>4, <1>1, <1>2
      <3>2. reference \in {wall, decided} /\ reference <= decided
        BY <2>2, <3>1 DEF Min
      <3> QED BY <3>2, <2>4, <1>1, <1>2
    <2> QED BY <2>3, <2>4
  <1> HIDE DEF reference, decided
  <1>4. /\ reference - Retain \in Int /\ instant - Retain \in Int
        /\ reference - Retain <= instant - Retain
    BY <1>1, <1>3
  <1>5. file[t] \in Seq(Row)
    <2>1. file[t] \in Seq(StoredRow) /\ StoredRow \subseteq Row
      BY <1>1 DEF FileOK, StoredRow
    <2> QED BY <2>1, SeqMonotonic
  <1>6. Recent(Recent(file[t], reference - Retain), instant - Retain)
          = Recent(file[t], instant - Retain)
    BY <1>4, <1>5, RecentOfRecent
  <1>7. \/ Windowed(file, wall)[t] = file[t]
        \/ Windowed(file, wall)[t] = Recent(file[t], reference - Retain)
    BY DEF Windowed, Kept, Recent, reference
  <1> QED BY <1>6, <1>7

\* As many as RobustRank rows ahead of an instant, and any clock at the sweep,
\* leave what is not older than the retention from that instant (prune and
\* reference_wall_ns).
THEOREM OutliersDecideNothing == Spec => OutliersDoNotDecide
  <1>1. IInv /\ [Next]_vars =>
          [pc = "window" /\ pc' = "note" /\ Total(file) > RobustRank =>
             \A instant \in Walls :
               Later(file, instant) <= RobustRank =>
                 \A t \in Tables :
                   LET recent(rows) ==
                         Picked(rows, {i \in DOMAIN rows :
                                         rows[i].at >= instant - Retain})
                   IN recent(file'[t]) = recent(file[t])]_vars
    <2> SUFFICES ASSUME IInv, Next, pc = "window", pc' = "note",
                        Total(file) > RobustRank, NEW instant \in Walls,
                        Later(file, instant) <= RobustRank, NEW t \in Tables
                 PROVE  Recent(file'[t], instant - Retain)
                          = Recent(file[t], instant - Retain)
      BY DEF Recent
    <2>1. file' = file \/ \E wall \in Walls : file' = Windowed(file, wall)
      <3>1. Window
        BY DEF Next, Thread, Start, StartReturns, StartTimesOut, Offer, Stop,
               Exit, DiskTurns, Open, Budget, NotePrune, Begin, Take, Look,
               Commit, GoOn, SweepDue, Finish, Raises, threadVars, loopVars
      <3>2. CASE Retain = 0
        BY <3>1, <3>2 DEF Window, Sweeps, Raises, fileVars
      <3>3. CASE Retain # 0
        BY <3>1, <3>3 DEF Window, Sweeps, Raises, fileVars
      <3> QED BY <3>2, <3>3
    <2> QED BY <2>1, WindowKeepsRecent
  <1> QED BY <1>1, HistoryInvariant, PTL DEF Spec, OutliersDoNotDecide
-----------------------------------------------------------------------------
(***************************************************************************)
(* Types: what the inductive invariant leaves out of TypeOK, and why the   *)
(* queue and the batch stay within their sizes.                            *)
(***************************************************************************)

\* What has its type whatever the invariant says.
RestOK ==
  /\ schema \in {"none", "2", "3", "other"}
  /\ disk \in BOOLEAN /\ openError \in BOOLEAN
  /\ pc \in {"off", "open", "budget", "window", "note", "begin", "get", "look",
             "commit", "between", "ended"}
  /\ starts \in 0..MaxStarts /\ sweeps \in 0..MaxSweeps
  /\ dropped \in Nat

\* A batch is looked at after every row it takes, and committed when it is full.
BoundsOK ==
  /\ Len(queue) <= QueueMax
  /\ Len(batch) <= BatchRows
  /\ pc \notin {"look", "commit", "ended"} => Len(batch) < BatchRows

\* The lengths are numbers.
LEMMA LengthsAre == IInv => Len(queue) \in Nat /\ Len(batch) \in Nat
  BY DEF IInv, QueueOK, BatchOK

LEMMA LoopRest ==
  ASSUME RestOK,
         \/ Start \/ StartReturns \/ StartTimesOut \/ Stop \/ Exit \/ DiskTurns
         \/ \E t \in Recorded, wall \in Walls : Offer(t, wall)
  PROVE  RestOK'
  <1>1. CASE Start
    <2>1. /\ schema' = schema /\ disk' = disk /\ openError' = openError
          /\ pc' = "open" /\ sweeps' = sweeps /\ dropped' = dropped
          /\ starts < MaxStarts /\ starts' = starts + 1
      BY <1>1 DEF Start, fileVars
    <2>2. starts' \in 0..MaxStarts
      BY <2>1, WriterAssumption DEF RestOK
    <2> QED BY <2>1, <2>2 DEF RestOK
  <1>2. CASE StartReturns \/ StartTimesOut \/ Stop
    BY <1>2 DEF RestOK, StartReturns, StartTimesOut, Stop, fileVars, envVars, threadVars
  <1>3. CASE Exit
    <2>1. 0 \in 0..MaxSweeps
      BY WriterAssumption
    <2> QED BY <1>3, <2>1 DEF RestOK, Exit, fileVars, envVars
  <1>4. CASE DiskTurns
    BY <1>4 DEF RestOK, DiskTurns, fileVars, loopVars, threadVars
  <1>5. ASSUME NEW t \in Recorded, NEW wall \in Walls, Offer(t, wall) PROVE RestOK'
    <2>1. dropped' \in {dropped, dropped + 1}
      BY <1>5 DEF Offer
    <2>2. dropped' \in Nat
      BY <2>1 DEF RestOK
    <2> QED BY <1>5, <2>2 DEF RestOK, Offer, fileVars, envVars, threadVars
  <1> QED BY <1>1, <1>2, <1>3, <1>4, <1>5

\* Where a step of the thread leads, and what it leaves alone.
LEMMA ThreadMoves ==
  ASSUME Thread
  PROVE  /\ UNCHANGED <<disk, starts, dropped>>
         /\ schema' \in {schema, "3"}
         /\ openError' \in {openError, TRUE}
         /\ sweeps' = sweeps \/ (sweeps < MaxSweeps /\ sweeps' = sweeps + 1)
         /\ pc' \in {"budget", "window", "note", "begin", "get", "look", "commit",
                     "between", "ended"}
  <1>1. CASE Open \/ Budget \/ Window \/ NotePrune \/ Begin
    BY <1>1 DEF Open, Budget, Window, NotePrune, Begin, Sweeps, Raises, ThreadFrame,
           envVars, loopVars, fileVars
  <1>2. CASE Take \/ Commit \/ GoOn \/ SweepDue \/ Finish
    BY <1>2 DEF Take, Commit, GoOn, SweepDue, Finish, ThreadFrame, envVars, loopVars,
           fileVars
  <1>3. CASE \E late \in BOOLEAN : Look(late)
    BY <1>3 DEF Look, ThreadFrame, envVars, loopVars, fileVars
  <1> QED BY <1>1, <1>2, <1>3 DEF Thread

LEMMA ThreadRest ==
  ASSUME RestOK, Thread PROVE RestOK'
  <1>1. sweeps' \in 0..MaxSweeps
    <2>1. sweeps' = sweeps \/ (sweeps < MaxSweeps /\ sweeps' = sweeps + 1)
      BY ThreadMoves
    <2> QED BY <2>1, WriterAssumption DEF RestOK
  <1> QED BY <1>1, ThreadMoves DEF RestOK

\* Steps that put nothing in the queue or the batch.
LEMMA FrameBounds ==
  ASSUME BoundsOK, UNCHANGED <<queue, batch>>,
         pc' \in {"look", "commit", "ended"} \/ pc \notin {"look", "commit", "ended"}
  PROVE  BoundsOK'
  BY DEF BoundsOK

\* The loop puts something in the queue only where there is room.
Grown ==
  /\ UNCHANGED <<batch, pc>>
  /\ \/ queue' = queue
     \/ Len(queue) < QueueMax /\ \E w : queue' = Append(queue, w)

LEMMA StopGrows == Stop => Grown
  <1> SUFFICES ASSUME Stop PROVE Grown
    OBVIOUS
  <1>1. UNCHANGED <<batch, pc>>
    BY DEF Stop, threadVars
  <1>2. queue' = IF Len(queue) < QueueMax THEN Append(queue, Sentinel) ELSE queue
    BY DEF Stop
  <1>3. CASE Len(queue) < QueueMax
    <2>1. queue' = Append(queue, Sentinel)
      BY <1>2, <1>3, Zenon
    <2> QED BY <1>1, <1>3, <2>1, Zenon DEF Grown
  <1>4. CASE ~(Len(queue) < QueueMax)
    <2>1. queue' = queue
      BY <1>2, <1>4, Zenon
    <2> QED BY <1>1, <2>1 DEF Grown
  <1> QED BY <1>3, <1>4

LEMMA OfferGrows ==
  ASSUME NEW t \in Recorded, NEW wall \in Walls PROVE Offer(t, wall) => Grown
  <1> SUFFICES ASSUME Offer(t, wall) PROVE Grown
    OBVIOUS
  <1>1. UNCHANGED <<batch, pc>>
    BY DEF Offer, threadVars
  <1>2. CASE Len(queue) < QueueMax
    <2>1. queue' = Append(queue, [table |-> t, at |-> wall, session |-> sessionId])
      BY <1>2, Zenon DEF Offer
    <2> QED BY <1>1, <1>2, <2>1, Zenon DEF Grown
  <1>3. CASE ~(Len(queue) < QueueMax)
    <2>1. queue' = queue
      BY <1>3, Zenon DEF Offer
    <2> QED BY <1>1, <2>1 DEF Grown
  <1> QED BY <1>2, <1>3

LEMMA LoopBounds ==
  ASSUME IInv, BoundsOK,
         \/ Start \/ StartReturns \/ StartTimesOut \/ Stop \/ Exit \/ DiskTurns
         \/ \E t \in Recorded, wall \in Walls : Offer(t, wall)
  PROVE  BoundsOK'
  <1>1. CASE Start
    <2>1. UNCHANGED <<queue, batch>> /\ pc = "off"
      BY <1>1 DEF Start, IInv, LoopOK
    <2> QED BY <2>1, FrameBounds
  <1>2. CASE StartReturns \/ StartTimesOut \/ DiskTurns
    BY <1>2, FrameBounds DEF StartReturns, StartTimesOut, DiskTurns, threadVars
  <1>3. CASE Exit
    <2>1. queue' = <<>> /\ batch' = <<>>
      BY <1>3 DEF Exit
    <2>2. Len(queue') = 0 /\ Len(batch') = 0
      BY <2>1
    <2>3. 0 <= QueueMax /\ 0 < BatchRows /\ 0 <= BatchRows
      BY WriterAssumption
    <2> QED BY <2>2, <2>3 DEF BoundsOK
  <1>4. CASE Stop \/ \E t \in Recorded, wall \in Walls : Offer(t, wall)
    <2>1. Grown
      BY <1>4, StopGrows, OfferGrows
    <2>2. Len(queue') <= QueueMax
      <3>1. CASE queue' = queue
        BY <3>1 DEF BoundsOK
      <3>2. ASSUME Len(queue) < QueueMax, NEW w, queue' = Append(queue, w)
            PROVE  Len(queue') <= QueueMax
        <4>1. Len(queue') = Len(queue) + 1
          BY <3>2 DEF IInv, QueueOK
        <4> DEFINE n == Len(queue)
        <4>2. n \in Nat /\ n < QueueMax
          BY <3>2, LengthsAre
        <4>3. n + 1 <= QueueMax
          <5> HIDE DEF n
          <5> QED BY <4>2, WriterAssumption
        <4> QED BY <4>1, <4>3
      <3> QED BY <2>1, <3>1, <3>2 DEF Grown
    <2> QED BY <2>1, <2>2 DEF BoundsOK, Grown
  <1> QED BY <1>1, <1>2, <1>3, <1>4

\* The steps of a sweep and of an opening move no row.
LEMMA SweepBounds ==
  ASSUME BoundsOK,
         Open \/ Budget \/ Window \/ NotePrune \/ Begin \/ GoOn \/ SweepDue \/ Finish
  PROVE  BoundsOK'
  <1>1. UNCHANGED <<queue, batch>> /\ pc \notin {"look", "commit", "ended"}
    BY DEF Open, Budget, Window, NotePrune, Begin, GoOn, SweepDue, Finish, Sweeps,
           Raises
  <1> QED BY <1>1, FrameBounds

LEMMA RowBounds ==
  ASSUME IInv, BoundsOK, Take \/ Commit \/ \E late \in BOOLEAN : Look(late)
  PROVE  BoundsOK'
  <1> DEFINE n == Len(queue)
             b == Len(batch)
  <1>1. n \in Nat /\ b \in Nat
    BY LengthsAre
  <1>2. QueueMax \in Nat \ {0} /\ BatchRows \in Nat \ {0}
    BY WriterAssumption
  <1>3. ASSUME Take PROVE BoundsOK'
    <2>1. /\ pc = "get" /\ pc' = "look"
          /\ \/ queue = <<>> /\ UNCHANGED <<queue, batch>>
             \/ /\ queue # <<>> /\ queue' = Tail(queue)
                /\ batch' = batch \/ batch' = Append(batch, Head(queue))
      BY <1>3 DEF Take
    <2>2. b < BatchRows /\ n <= QueueMax
      BY <2>1 DEF BoundsOK
    <2>3. Len(queue') <= QueueMax
      <3>1. CASE queue' = queue
        BY <3>1, <2>2
      <3>2. CASE queue # <<>> /\ queue' = Tail(queue)
        <4>1. Len(queue') = n - 1
          BY <3>2 DEF IInv, QueueOK
        <4>2. n - 1 <= QueueMax
          <5> HIDE DEF n
          <5> QED BY <1>1, <1>2, <2>2
        <4> QED BY <4>1, <4>2
      <3> QED BY <2>1, <3>1, <3>2
    <2>4. Len(batch') <= BatchRows
      <3>1. CASE batch' = batch
        <4>1. b <= BatchRows
          <5> HIDE DEF b
          <5> QED BY <1>1, <1>2, <2>2
        <4> QED BY <3>1, <4>1
      <3>2. CASE batch' = Append(batch, Head(queue))
        <4>1. Len(batch') = b + 1
          BY <3>2 DEF IInv, BatchOK
        <4>2. b + 1 <= BatchRows
          <5> HIDE DEF b
          <5> QED BY <1>1, <1>2, <2>2
        <4> QED BY <4>1, <4>2
      <3> QED BY <2>1, <3>1, <3>2
    <2> QED BY <2>1, <2>3, <2>4 DEF BoundsOK
  <1>4. ASSUME NEW late \in BOOLEAN, Look(late) PROVE BoundsOK'
    <2>1. /\ UNCHANGED <<queue, batch>>
          /\ pc' = "commit" \/ (pc' = "between" /\ (b < BatchRows \/ b = 0))
      <3>1. Len(batch) >= BatchRows => Due(late)
        BY DEF Due
      <3>2. batch = <<>> => b = 0
        OBVIOUS
      <3>3. b >= BatchRows \/ b < BatchRows
        <4> HIDE DEF b
        <4> QED BY <1>1, <1>2
      <3> QED BY <1>4, <3>1, <3>2, <3>3 DEF Look
    <2>2. b = 0 => b < BatchRows
      <3> HIDE DEF b
      <3> QED BY <1>2
    <2> QED BY <2>1, <2>2 DEF BoundsOK
  <1>5. ASSUME Commit PROVE BoundsOK'
    <2>1. queue' = queue /\ batch' = <<>>
      BY <1>5 DEF Commit
    <2>2. Len(batch') = 0
      BY <2>1
    <2>3. 0 < BatchRows /\ 0 <= BatchRows
      BY <1>2
    <2> QED BY <2>1, <2>2, <2>3 DEF BoundsOK
  <1> QED BY <1>3, <1>4, <1>5

\* Type correctness: among it, that neither the queue nor the batch of the
\* thread outgrows its size (WRITE_QUEUE_MAX, BATCH_ROWS).
THEOREM TypeCorrect == Spec => []TypeOK
  <1> DEFINE Types == RestOK /\ BoundsOK
  <1>1. Init => Types
    <2> SUFFICES ASSUME Init PROVE Types
      OBVIOUS
    <2>1. Len(queue) = 0 /\ Len(batch) = 0
      BY DEF Init
    <2>2. /\ 0 <= QueueMax /\ 0 < BatchRows /\ 0 <= BatchRows
          /\ 0 \in 0..MaxStarts /\ 0 \in 0..MaxSweeps /\ 0 \in Nat
      BY WriterAssumption
    <2>3. BoundsOK
      BY <2>1, <2>2 DEF BoundsOK
    <2>4. RestOK
      BY <2>2 DEF Init, RestOK
    <2> QED BY <2>3, <2>4
  <1>2. IInv /\ Types /\ [Next]_vars => Types'
    <2> SUFFICES ASSUME IInv, Types, [Next]_vars PROVE Types'
      OBVIOUS
    <2>1. CASE UNCHANGED vars
      BY <2>1 DEF vars, fileVars, envVars, loopVars, threadVars, RestOK, BoundsOK
    <2>2. CASE Thread
      BY <2>2, ThreadRest, SweepBounds, RowBounds DEF Thread
    <2>3. CASE \/ Start \/ StartReturns \/ StartTimesOut \/ Stop \/ Exit \/ DiskTurns
               \/ \E t \in Recorded, wall \in Walls : Offer(t, wall)
      BY <2>3, LoopRest, LoopBounds
    <2> QED BY <2>1, <2>2, <2>3 DEF Next
  <1>3. IInv /\ Types => TypeOK
    <2> SUFFICES ASSUME IInv, Types PROVE TypeOK
      OBVIOUS
    <2>1. file \in [Tables -> Seq(Row)]
      <3>1. StoredRow \subseteq Row
        BY DEF StoredRow
      <3>2. Seq(StoredRow) \subseteq Seq(Row)
        BY <3>1, SeqMonotonic
      <3> QED BY <3>2 DEF IInv, FileOK
    <2>2. batch \in Seq(Write)
      <3>1. RowOK \subseteq Write
        BY DEF RowOK
      <3>2. Seq(RowOK) \subseteq Seq(Write)
        BY <3>1, SeqMonotonic
      <3> QED BY <3>2 DEF IInv, BatchOK
    <2>3. /\ queue \in Seq(Write \cup {Sentinel}) /\ Len(queue) <= QueueMax
          /\ Len(batch) <= BatchRows
      BY DEF IInv, QueueOK, BoundsOK
    <2>4. /\ {queued, written, dropped, errors, sessionId, sweepErrors} \subseteq Nat
          /\ begun \in Nat /\ flag \in BOOLEAN
          /\ halting \in BOOLEAN /\ inTx \in BOOLEAN
      BY DEF IInv, Counts, RestOK
    <2>5. handle \in {"none", "starting", "running", "stopping"}
      BY DEF IInv, LoopOK
    <2> QED BY <2>1, <2>2, <2>3, <2>4, <2>5 DEF RestOK, TypeOK
  <1> QED BY <1>1, <1>2, <1>3, HistoryInvariant, PTL DEF Spec
=============================================================================
