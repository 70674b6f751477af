--------------------------- MODULE HistoryWriter ---------------------------
(***************************************************************************)
(* The history of the collector: HistoryWriter, which the event loop calls *)
(* and which never blocks it, its thread (_run), and the database the      *)
(* thread owns (History), over several processes on one file.  Every       *)
(* transaction is one step, and a statement that writes succeeds exactly   *)
(* when the disk answers; the wall clock reads anything, as it may on a    *)
(* board that keeps no time.                                               *)
(***************************************************************************)
EXTENDS Retention

CONSTANTS
  QueueMax,        \* WRITE_QUEUE_MAX
  BatchRows,       \* BATCH_ROWS
  MaxStarts,       \* bound: processes that open the history
  MaxOffers,       \* bound: rows offered by one process
  MaxSweeps,       \* bound: sweeps on the timer of one process
  Walls            \* what the wall clock may read

ASSUME WriterAssumption ==
  /\ {QueueMax, BatchRows} \subseteq Nat \ {0}
  /\ {MaxStarts, MaxOffers, MaxSweeps} \subseteq Nat
  /\ Walls \subseteq Nat

VARIABLES
  file,            \* the committed rows of every table
  schema,          \* the schema marker: "none" is a file not yet created
  begun,           \* sqlite_sequence: the newest id of a session
  disk,            \* whether the disk takes writes
  starts,          \* bound: processes so far
  handle,          \* the writer as the loop knows it
  openError, flag, \* _open_error is set; the event _stopping
  queue, queued, written, dropped, errors,
  sessionId,       \* _session_id
  pc, halting,     \* where the thread is; its local stopping
  batch,
  inTx,            \* the connection is inside a transaction
  sweeps,          \* bound: sweeps on the timer so far
  sweepErrors      \* history: the errors that were failed sweeps

fileVars == <<file, schema, begun>>
envVars == <<disk, starts>>
loopVars == <<handle, flag, queued, dropped>>
threadVars == <<pc, halting, batch, inTx, sweeps, written, errors, sweepErrors,
                sessionId>>
vars == <<fileVars, envVars, loopVars, openError, queue, threadVars>>

Recorded == Tables \ {"sessions"}
Write == [table : Recorded, at : Walls, session : Nat]
\* The None that wakes the thread for a stop; it names no table.
Sentinel == [table |-> "none", at |-> 0, session |-> 0]

\* _started: set when the session has begun, or when opening failed.
Started == pc = "ended" \/ sessionId # 0

Init ==
  /\ file = [t \in Tables |-> <<>>]
  /\ schema \in {"none", "2", "3", "other"}
  /\ begun = 0
  /\ disk \in BOOLEAN
  /\ starts = 0
  /\ handle = "none" /\ openError = FALSE /\ flag = FALSE
  /\ queue = <<>> /\ queued = 0 /\ written = 0 /\ dropped = 0 /\ errors = 0
  /\ sessionId = 0
  /\ pc = "off" /\ halting = FALSE /\ batch = <<>> /\ inTx = FALSE
  /\ sweeps = 0 /\ sweepErrors = 0

-----------------------------------------------------------------------------
(* The event loop. *)

Start ==
  /\ handle = "none" /\ starts < MaxStarts
  /\ handle' = "starting" /\ starts' = starts + 1
  /\ pc' = "open"
  /\ UNCHANGED <<fileVars, disk, openError, flag, queue, queued, written,
                 dropped, errors, sessionId, halting, batch, inTx, sweeps,
                 sweepErrors>>

StartReturns ==
  /\ handle = "starting" /\ Started
  /\ handle' = "running"
  /\ UNCHANGED <<fileVars, envVars, openError, flag, queue, queued, dropped,
                 threadVars>>

\* Mutant of StartTimesOut: a start that times out passes for a success.
StartTimesOutHealthy ==
  /\ handle = "starting" /\ ~Started
  /\ handle' = "running"
  /\ UNCHANGED <<fileVars, envVars, openError, flag, queue, queued, dropped,
                 threadVars>>

\* OPEN_TIMEOUT_SECONDS passed first: the thread goes on by itself.
StartTimesOut ==
  /\ handle = "starting" /\ ~Started
  /\ handle' = "running" /\ openError' = TRUE
  /\ UNCHANGED <<fileVars, envVars, flag, queue, queued, dropped, threadVars>>

\* _offer, with any of the four record methods before it.
Offer(t, wall) ==
  /\ handle = "running" /\ ~openError
  /\ queued + dropped < MaxOffers
  /\ IF Len(queue) < QueueMax
     THEN /\ queue' = Append(queue, [table |-> t, at |-> wall,
                                     session |-> sessionId])
          /\ queued' = queued + 1
          /\ UNCHANGED dropped
     ELSE /\ dropped' = dropped + 1
          /\ UNCHANGED <<queue, queued>>
  /\ UNCHANGED <<fileVars, envVars, handle, openError, flag, threadVars>>

\* stop: a full queue swallows the sentinel.  Its join, which ends with the
\* thread or after its timeout, changes nothing more; then the process ends.
Stop ==
  /\ handle = "running"
  /\ handle' = "stopping" /\ flag' = TRUE
  /\ queue' = IF Len(queue) < QueueMax THEN Append(queue, Sentinel) ELSE queue
  /\ UNCHANGED <<fileVars, envVars, openError, queued, dropped, threadVars>>

\* The process ends, at the end of its work or by a kill: SQLite keeps what
\* was committed and rolls an open transaction back.
Exit ==
  /\ handle # "none"
  /\ handle' = "none" /\ openError' = FALSE /\ flag' = FALSE
  /\ queue' = <<>> /\ queued' = 0 /\ written' = 0 /\ dropped' = 0 /\ errors' = 0
  /\ sessionId' = 0
  /\ pc' = "off" /\ halting' = FALSE /\ batch' = <<>> /\ inTx' = FALSE
  /\ sweeps' = 0 /\ sweepErrors' = 0
  /\ UNCHANGED <<fileVars, envVars>>

\* The environment: the disk stops or resumes answering.
DiskTurns ==
  /\ disk' = ~disk
  /\ UNCHANGED <<fileVars, starts, loopVars, openError, queue, threadVars>>

-----------------------------------------------------------------------------
(* The thread: opening. *)

\* What no step of the thread changes.
ThreadFrame == UNCHANGED <<envVars, loopVars>>

\* An exception before the session began ends the thread; one in a sweep of
\* the loop is an error more.
Raises ==
  /\ UNCHANGED <<fileVars, queue, halting, batch, inTx, written, sessionId,
                 sweeps>>
  /\ IF sessionId = 0
     THEN /\ openError' = TRUE /\ pc' = "ended"
          /\ UNCHANGED <<errors, sweepErrors>>
     ELSE /\ errors' = errors + 1 /\ sweepErrors' = sweepErrors + 1
          /\ pc' = "get"
          /\ UNCHANGED openError

\* open: _create and _check_version, which takes schema 2 along and refuses
\* any other.
Openable == disk /\ schema # "other"

Open ==
  /\ pc = "open"
  /\ IF Openable
     THEN /\ schema' = "3"
          /\ pc' = "budget"
          /\ UNCHANGED <<file, begun, openError, queue, halting, batch,
                         inTx, written, sessionId, sweeps, errors, sweepErrors>>
     ELSE Raises
  /\ ThreadFrame

\* A step of a sweep: the file becomes another, or the statement raises.
Sweeps(writes, swept, next) ==
  IF writes /\ (inTx \/ ~disk)
  THEN Raises
  ELSE /\ file' = swept
       /\ pc' = next
       /\ UNCHANGED <<schema, begun, openError, queue, halting, batch,
                      inTx, written, sessionId, sweeps, errors, sweepErrors>>

\* The row budget, then the window, each a transaction of its own.
Budget ==
  /\ pc = "budget"
  /\ IF MaxRows = 0 THEN Sweeps(FALSE, file, "window")
                    ELSE Sweeps(TRUE, Budgeted(file), "window")
  /\ ThreadFrame

Window ==
  /\ pc = "window"
  /\ IF Retain = 0
     THEN Sweeps(FALSE, file, "note")
     ELSE \E wall \in Walls :
            Sweeps(inTx \/ WindowWrites(file, wall),
                   Windowed(file, wall), "note")
  /\ ThreadFrame

\* _record_prune: its failure is suppressed, and leaves its BEGIN standing.
NotePrune ==
  /\ pc = "note"
  /\ inTx' = (inTx \/ ~disk)
  /\ pc' = IF sessionId = 0 THEN "begin" ELSE "get"
  /\ UNCHANGED <<fileVars, openError, queue, halting, batch, written, sessionId,
                 sweeps, errors, sweepErrors>>
  /\ ThreadFrame

\* begin_session, with the wall clock Sinks.start has read.  Inside a
\* transaction left open the row is never committed.
Begin ==
  /\ pc = "begin"
  /\ IF disk
     THEN /\ sessionId' = begun + 1
          /\ IF inTx THEN UNCHANGED <<file, begun>>
             ELSE /\ begun' = begun + 1
                  /\ \E wall \in Walls :
                       file' = [file EXCEPT !["sessions"] =
                         Append(@, [at |-> wall, session |-> begun + 1])]
          /\ pc' = "get"
          /\ UNCHANGED <<schema, openError, queue, halting, batch, inTx,
                         written, sweeps, errors, sweepErrors>>
     ELSE Raises
  /\ ThreadFrame

-----------------------------------------------------------------------------
(* The thread: its loop. *)

\* queue.get: an item, the sentinel, or the timeout on an empty queue.
Take ==
  /\ pc = "get"
  /\ IF queue = <<>> THEN UNCHANGED <<queue, halting, batch>>
     ELSE /\ queue' = Tail(queue)
          /\ halting' = (Head(queue) = Sentinel)
          /\ batch' = IF Head(queue) = Sentinel THEN batch
                                                ELSE Append(batch, Head(queue))
  /\ pc' = "look"
  /\ UNCHANGED <<fileVars, openError, inTx, written, sessionId, sweeps, errors,
                 sweepErrors>>
  /\ ThreadFrame

\* Mutant of MustHalt: the flag ends the loop whatever the queue holds.
MustHaltAtOnce == halting \/ flag

\* Mutant of MustHalt: only the sentinel ends the loop.
MustHaltBySentinel == halting

MustHalt == halting \/ (flag /\ queue = <<>>)

\* Mutant of Due: a batch waits until it is full.
DueByCount(late) == MustHalt \/ Len(batch) >= BatchRows

\* late: BATCH_SECONDS have passed since the last commit.
Due(late) == MustHalt \/ Len(batch) >= BatchRows \/ late

Look(late) ==
  /\ pc = "look"
  /\ halting' = MustHalt
  /\ pc' = IF Due(late) /\ batch # <<>> THEN "commit" ELSE "between"
  /\ UNCHANGED <<fileVars, openError, queue, batch, inTx, written, sessionId,
                 sweeps, errors, sweepErrors>>
  /\ ThreadFrame

RowOf(write) == [at |-> write.at, session |-> write.session]

\* The rows of a batch, each at the end of its table, in their order.
Applied(rows) ==
  [t \in Tables |->
     LET own == Picked(rows, {i \in DOMAIN rows : rows[i].table = t})
     IN  file[t] \o [i \in 1..Len(own) |-> RowOf(own[i])]]

\* Mutant of Commit: a failed batch is one error, whatever rows it held.
CommitCountedOnce ==
  /\ pc = "commit"
  /\ IF disk /\ ~inTx
     THEN /\ file' = Applied(batch)
          /\ written' = written + Len(batch)
          /\ UNCHANGED errors
     ELSE /\ errors' = errors + 1
          /\ UNCHANGED <<file, written>>
  /\ batch' = <<>>
  /\ pc' = "between"
  /\ UNCHANGED <<schema, begun, openError, queue, halting, inTx, sessionId,
                 sweeps, sweepErrors>>
  /\ ThreadFrame

\* apply: one transaction, all of the batch or none of it.
Commit ==
  /\ pc = "commit"
  /\ IF disk /\ ~inTx
     THEN /\ file' = Applied(batch)
          /\ written' = written + Len(batch)
          /\ UNCHANGED errors
     ELSE /\ errors' = errors + Len(batch)
          /\ UNCHANGED <<file, written>>
  /\ batch' = <<>>
  /\ pc' = "between"
  /\ UNCHANGED <<schema, begun, openError, queue, halting, inTx,
                 sessionId, sweeps, sweepErrors>>
  /\ ThreadFrame

\* Around again, or first a sweep when PRUNE_INTERVAL_SECONDS have passed.
GoOn ==
  /\ pc = "between" /\ ~halting
  /\ pc' = "get"
  /\ UNCHANGED <<fileVars, openError, queue, halting, batch, inTx, written,
                 sessionId, sweeps, errors, sweepErrors>>
  /\ ThreadFrame

SweepDue ==
  /\ pc = "between" /\ ~halting
  /\ sweeps < MaxSweeps
  /\ sweeps' = sweeps + 1
  /\ pc' = "budget"
  /\ UNCHANGED <<fileVars, openError, queue, halting, batch, inTx, written,
                 sessionId, errors, sweepErrors>>
  /\ ThreadFrame

\* close, which rolls back what is open.  (The ended_at that end_session
\* writes before it, or fails to, is read by nothing.)
Finish ==
  /\ pc = "between" /\ halting
  /\ pc' = "ended"
  /\ inTx' = FALSE
  /\ UNCHANGED <<file, schema, begun, openError, queue, halting, batch, written,
                 sessionId, sweeps, errors, sweepErrors>>
  /\ ThreadFrame

Thread ==
  \/ Open \/ Budget \/ Window \/ NotePrune \/ Begin
  \/ Take \/ (\E late \in BOOLEAN : Look(late)) \/ Commit
  \/ GoOn \/ SweepDue \/ Finish

Next ==
  \/ Start \/ StartReturns \/ StartTimesOut
  \/ \E t \in Recorded, wall \in Walls : Offer(t, wall)
  \/ Stop \/ Exit
  \/ DiskTurns
  \/ Thread

\* The thread is scheduled; BATCH_SECONDS pass again and again.
Spec == Init /\ [][Next]_vars /\ WF_vars(Thread) /\ SF_vars(Look(TRUE))

-----------------------------------------------------------------------------
(* Properties. *)

\* The types of the variables; the queue is within its size.
TypeOK ==
  /\ file \in [Tables -> Seq(Row)]
  /\ schema \in {"none", "2", "3", "other"}
  /\ begun \in Nat
  /\ disk \in BOOLEAN /\ starts \in 0..MaxStarts
  /\ handle \in {"none", "starting", "running", "stopping"}
  /\ openError \in BOOLEAN /\ flag \in BOOLEAN
  /\ queue \in Seq(Write \cup {Sentinel}) /\ Len(queue) <= QueueMax
  /\ {queued, written, dropped, errors, sessionId, sweepErrors} \subseteq Nat
  /\ pc \in {"off", "open", "budget", "window", "note", "begin", "get", "look",
             "commit", "between", "ended"}
  /\ halting \in BOOLEAN /\ inTx \in BOOLEAN
  /\ batch \in Seq(Write) /\ Len(batch) <= BatchRows
  /\ sweeps \in 0..MaxSweeps

Waiting ==
  Picked(queue, {i \in DOMAIN queue : queue[i] # Sentinel}) \o batch

\* Every row the queue took is waiting, written, or counted as an error:
\* queued, written and errors, which status publishes, tell the whole story.
RowsAccounted ==
  queued = Len(Waiting) + written + (errors - sweepErrors)

\* A row always carries the session it was recorded in: a start that timed
\* out must not let rows through under the session id zero.
RowsHaveSession ==
  /\ \A i \in DOMAIN Waiting : Waiting[i].session = sessionId /\ sessionId # 0
  /\ \A t \in Tables : \A i \in DOMAIN file[t] :
       file[t][i].session \in 1..begun

\* A thread that began its session ends only when it is told to, and only after
\* it has emptied the queue: no failure of the disk, of a batch or of a sweep
\* ends it, and a stop loses no row, also when a full queue swallowed the
\* sentinel.
StopDrains ==
  pc = "ended" /\ sessionId # 0 => flag /\ Waiting = <<>>

\* As many as RobustRank rows with a clock ahead of some instant, and a clock
\* that is wrong when the sweep runs, cannot make the window remove a row that
\* is not older than the retention counted from that instant.  (On a file with
\* no more rows than that the newest row decides.)
OutliersDoNotDecide ==
  [][pc = "window" /\ pc' = "note" /\ Total(file) > RobustRank =>
       \A instant \in Walls :
         Later(file, instant) <= RobustRank =>
           \A t \in Tables :
             LET recent(rows) ==
                   Picked(rows, {i \in DOMAIN rows :
                                   rows[i].at >= instant - Retain})
             IN recent(file'[t]) = recent(file[t])]_vars

\* A stop ends the thread, whatever was in the queue.
StopEnds == flag /\ Started ~> pc \in {"off", "ended"}

\* No row waits in the batch for ever: a quiet period does not leave the last
\* alert unwritten.
QuietFlush == batch # <<>> ~> batch = <<>>

\* What the test of the startup sweep says: the drive being recorded keeps its
\* session row, and no row is stored against a session that is not in the file.
DriveKeepsItsSession ==
  \A t \in Recorded : \A i \in DOMAIN file[t] :
    file[t][i].session = sessionId =>
      \E j \in DOMAIN file["sessions"] : file["sessions"][j].session = sessionId

\* What the comment at the timed sweep says: a failure of retention never
\* stops the recording.  A batch is written when the disk takes it.
SweepNeverStopsRecording ==
  [][pc = "commit" /\ pc' = "between" /\ disk => written' > written]_vars
=============================================================================
