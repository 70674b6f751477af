--------------------------- MODULE StatePublisher ---------------------------
(***************************************************************************)
(* The state documents.  The event loop takes a ticket, builds both        *)
(* documents and awaits a worker thread that writes them; cancelling the   *)
(* await does not stop the thread, so two writers can be alive at once.    *)
(*                                                                         *)
(* A document is abstracted to the incarnation of the process and the      *)
(* ticket that produced it.  A step of a writer is one critical section    *)
(* boundary of _write_atomic: creating the temporary, and what becomes of  *)
(* it, both under _PUBLISH_LOCK.  A crash may come between any two steps.  *)
(***************************************************************************)
EXTENDS Naturals, FiniteSets

CONSTANTS
  Detail,        \* BOOLEAN: the schema-2 document is written too
  MaxTickets,    \* bound on the publishes of one incarnation
  MaxCancels,    \* bound on the awaits cancelled in one incarnation
  MaxEpochs      \* bound on the incarnations of the process

ASSUME PublisherAssumption ==
  /\ Detail \in BOOLEAN
  /\ MaxTickets \in Nat /\ MaxCancels \in Nat /\ MaxEpochs \in Nat

VARIABLES
  epoch,         \* which incarnation of the process is running
  phase,         \* the collector's run(): running, in its last publish, closed
  ticket,        \* _publish_sequence: the last ticket taken
  awaited,       \* the ticket whose thread the loop awaits, 0 when none
  failures,      \* state.publish_failures
  cancels,       \* how many awaits were cancelled in this incarnation
  stage,         \* per ticket, what its writer is doing
  file,          \* per ticket, the document its writer is at
  lock,          \* _PUBLISH_LOCK: the ticket of its holder, 0 when free
  lastWritten,   \* _last_written
  disk,          \* the two documents in the state directory
  temps,         \* the temporaries in the state directory
  acked          \* history: the newest ticket awaited to a normal return

loopVars == <<phase, ticket, awaited, failures, cancels, acked>>
vars == <<epoch, phase, ticket, awaited, failures, cancels, stage, file, lock,
          lastWritten, disk, temps, acked>>

Tickets == 1..MaxTickets
Files == {"state-v2.json", "state.json"}
Documents == [epoch : Nat, ticket : Nat]
Temporaries == [epoch : Nat, file : Files, ticket : Nat]

FirstFile == IF Detail THEN "state-v2.json" ELSE "state.json"

Running == {"queued", "writing", "holding"}
Stages == {"none", "done", "failed", "cancelled"} \cup Running

Temporary(t) == [epoch |-> epoch, file |-> file[t], ticket |-> t]

\* d was produced no later than e: by an earlier incarnation, or by this one
\* on a ticket that is not newer.
NoLater(d, e) ==
  d.epoch < e.epoch \/ (d.epoch = e.epoch /\ d.ticket <= e.ticket)

NeverPublished == [epoch |-> 0, ticket |-> 0]

Init ==
  /\ epoch = 1
  /\ phase = "running"
  /\ ticket = 0
  /\ awaited = 0
  /\ failures = 0
  /\ cancels = 0
  /\ stage = [t \in Tickets |-> "none"]
  /\ file = [t \in Tickets |-> FirstFile]
  /\ lock = 0
  /\ lastWritten = [f \in Files |-> 0]
  /\ disk = [f \in Files |-> NeverPublished]
  /\ temps = {}
  /\ acked = 0

\* publish_state_async up to its await: take the ticket, build the documents,
\* hand them to a worker thread.  The last call is the one in run's finally.
Publish(last) ==
  /\ phase = "running"
  /\ awaited = 0
  /\ ticket < MaxTickets
  /\ ticket' = ticket + 1
  /\ awaited' = ticket'
  /\ stage' = [stage EXCEPT ![ticket'] = "queued"]
  /\ phase' = IF last THEN "stopping" ELSE "running"
  /\ UNCHANGED <<epoch, failures, cancels, file, lock, lastWritten, disk,
                 temps, acked>>

\* The await returns: normally when the thread did, and through the except
\* clause that counts the failure when it raised.
Return ==
  /\ awaited # 0
  /\ stage[awaited] \in {"done", "failed"}
  /\ failures' = IF stage[awaited] = "done" THEN 0 ELSE failures + 1
  /\ acked' = IF stage[awaited] = "done" THEN awaited ELSE acked
  /\ awaited' = 0
  /\ phase' = IF phase = "stopping" THEN "closed" ELSE phase
  /\ UNCHANGED <<epoch, ticket, cancels, stage, file, lock, lastWritten, disk,
                 temps>>

\* wait_for cancels the await at the trial deadline.  A thread that has not
\* started never will; one that has keeps running.
Cancel ==
  /\ awaited # 0
  /\ phase = "running"
  /\ cancels < MaxCancels
  /\ cancels' = cancels + 1
  /\ stage' = [stage EXCEPT ![awaited] =
                 IF @ = "queued" THEN "cancelled" ELSE @]
  /\ awaited' = 0
  /\ UNCHANGED <<epoch, phase, ticket, failures, file, lock, lastWritten, disk,
                 temps, acked>>

\* _write_documents starts on its thread, with _ensure_state_dir.
StartWriter(t) ==
  /\ stage[t] = "queued"
  /\ stage' = [stage EXCEPT ![t] = "writing"]
  /\ UNCHANGED <<epoch, loopVars, file, lock, lastWritten, disk, temps>>

\* _write_atomic takes the lock and creates the temporary.
CreateTemporary(t) ==
  /\ stage[t] = "writing"
  /\ lock = 0
  /\ lock' = t
  /\ stage' = [stage EXCEPT ![t] = "holding"]
  /\ temps' = temps \cup {Temporary(t)}
  /\ UNCHANGED <<epoch, loopVars, file, lastWritten, disk>>

\* _write_atomic returns to _write_documents, which goes on to state.json.
NextDocument(t) ==
  /\ lock' = 0
  /\ IF file[t] = "state-v2.json"
     THEN /\ file' = [file EXCEPT ![t] = "state.json"]
          /\ stage' = [stage EXCEPT ![t] = "writing"]
     ELSE /\ file' = file
          /\ stage' = [stage EXCEPT ![t] = "done"]

\* Mutant: the ticket is not compared with the one on disk.
ReplaceAlways(t) ==
  /\ stage[t] = "holding"
  /\ disk' = [disk EXCEPT ![file[t]] = [epoch |-> epoch, ticket |-> t]]
  /\ lastWritten' = [lastWritten EXCEPT ![file[t]] = t]
  /\ temps' = temps \ {Temporary(t)}
  /\ NextDocument(t)
  /\ UNCHANGED <<epoch, loopVars>>

\* Nothing newer has landed: the temporary replaces the document.
Replace(t) ==
  /\ stage[t] = "holding"
  /\ lastWritten[file[t]] <= t
  /\ disk' = [disk EXCEPT ![file[t]] = [epoch |-> epoch, ticket |-> t]]
  /\ lastWritten' = [lastWritten EXCEPT ![file[t]] = t]
  /\ temps' = temps \ {Temporary(t)}
  /\ NextDocument(t)
  /\ UNCHANGED <<epoch, loopVars>>

\* Mutant: the superseded temporary is left in the directory.
DiscardLeaking(t) ==
  /\ stage[t] = "holding"
  /\ lastWritten[file[t]] > t
  /\ NextDocument(t)
  /\ UNCHANGED <<epoch, loopVars, lastWritten, disk, temps>>

\* A newer document landed first: this one is dropped.
Discard(t) ==
  /\ stage[t] = "holding"
  /\ lastWritten[file[t]] > t
  /\ temps' = temps \ {Temporary(t)}
  /\ NextDocument(t)
  /\ UNCHANGED <<epoch, loopVars, lastWritten, disk>>

\* The directory or the temporary cannot be made, or the write, the chmod or
\* the rename fails: the temporary is removed if the card allows it, and the
\* exception leaves _write_documents, so a later document is not tried.
FailBefore(t) ==
  /\ stage[t] = "queued" \/ (stage[t] = "writing" /\ lock = 0)
  /\ stage' = [stage EXCEPT ![t] = "failed"]
  /\ UNCHANGED <<epoch, loopVars, file, lock, lastWritten, disk, temps>>

\* Mutant: each document swallows its own failure.
FailHoldingAndGoOn(t) ==
  /\ stage[t] = "holding"
  /\ temps' = temps \ {Temporary(t)}
  /\ NextDocument(t)
  /\ UNCHANGED <<epoch, loopVars, lastWritten, disk>>

\* Mutant: the lock is not released when the write raises.
FailHoldingLocked(t) ==
  /\ stage[t] = "holding"
  /\ stage' = [stage EXCEPT ![t] = "failed"]
  /\ temps' = temps \ {Temporary(t)}
  /\ UNCHANGED <<epoch, loopVars, file, lock, lastWritten, disk>>

\* The failure once the temporary exists.
FailHolding(t) ==
  /\ stage[t] = "holding"
  /\ stage' = [stage EXCEPT ![t] = "failed"]
  /\ lock' = 0
  /\ temps' \in {temps, temps \ {Temporary(t)}}
  /\ UNCHANGED <<epoch, loopVars, file, lastWritten, disk>>

\* Mutant: the newest ticket written is remembered across restarts, the
\* ticket counter is not.
NewProcessRemembering ==
  /\ epoch < MaxEpochs
  /\ epoch' = epoch + 1
  /\ phase' = "running"
  /\ ticket' = 0
  /\ awaited' = 0
  /\ failures' = 0
  /\ cancels' = 0
  /\ stage' = [t \in Tickets |-> "none"]
  /\ file' = [t \in Tickets |-> FirstFile]
  /\ lock' = 0
  /\ acked' = 0
  /\ temps' \in SUBSET temps
  /\ UNCHANGED <<disk, lastWritten>>

\* The next incarnation starts with an empty memory and the same directory,
\* and sweeps the temporaries that are old enough, whichever those are.
NewProcess ==
  /\ epoch < MaxEpochs
  /\ epoch' = epoch + 1
  /\ phase' = "running"
  /\ ticket' = 0
  /\ awaited' = 0
  /\ failures' = 0
  /\ cancels' = 0
  /\ stage' = [t \in Tickets |-> "none"]
  /\ file' = [t \in Tickets |-> FirstFile]
  /\ lock' = 0
  /\ lastWritten' = [f \in Files |-> 0]
  /\ acked' = 0
  /\ temps' \in SUBSET temps
  /\ disk' = disk

\* The process is killed, at any moment: what it renamed stays renamed.  (A
\* power cut may undo the last renames: nothing is synced to the card.)
Crash == NewProcess

\* A clean exit waits for the worker threads; systemd starts the next one.
Restart ==
  /\ phase = "closed"
  /\ \A t \in Tickets : stage[t] \notin Running
  /\ NewProcess

Writer(t) ==
  \/ StartWriter(t)
  \/ CreateTemporary(t)
  \/ Replace(t)
  \/ Discard(t)
  \/ FailBefore(t)
  \/ FailHolding(t)

Next ==
  \/ \E last \in BOOLEAN : Publish(last)
  \/ Return
  \/ Cancel
  \/ \E t \in Tickets : Writer(t)
  \/ Crash
  \/ Restart

\* The kernel keeps scheduling the worker threads and file operations return;
\* the event loop keeps running.
Fairness == WF_vars(Return) /\ \A t \in Tickets : WF_vars(Writer(t))

Spec == Init /\ [][Next]_vars /\ Fairness

-----------------------------------------------------------------------------

\* Type correctness.
TypeOK ==
  /\ epoch \in Nat \ {0}
  /\ phase \in {"running", "stopping", "closed"}
  /\ ticket \in 0..MaxTickets
  /\ awaited \in 0..ticket
  /\ failures \in Nat
  /\ cancels \in Nat
  /\ stage \in [Tickets -> Stages]
  /\ file \in [Tickets -> Files]
  /\ lock \in 0..MaxTickets
  /\ lastWritten \in [Files -> 0..MaxTickets]
  /\ disk \in [Files -> Documents]
  /\ temps \in SUBSET Temporaries
  /\ acked \in 0..ticket

\* A reader never sees a document go back in time, whatever writers overlap,
\* fail or outlive their await, and across restarts: streaming can never
\* replace stopped.
NeverBackwards == [][\A f \in Files : NoLater(disk[f], disk'[f])]_vars

\* The pair is written schema 2 first, so schema 2 is never behind schema 1,
\* even when a writer fails between the two documents or dies there.
PairNeverBehind == Detail => NoLater(disk["state.json"], disk["state-v2.json"])

\* A publish that returned normally stays published: the documents describe
\* its instant or a later one.  So once run has closed with its last publish
\* acknowledged, both documents say stopped, for good.
AcknowledgedLanded ==
  acked # 0 =>
    \A f \in Files \ (IF Detail THEN {} ELSE {"state-v2.json"}) :
      NoLater([epoch |-> epoch, ticket |-> acked], disk[f])

\* A temporary of the running process belongs to the writer that holds the
\* lock, or to one that failed and could not remove it: never two per publish.
TempsAccounted ==
  \A m \in temps :
    m.epoch = epoch =>
      /\ m.ticket \in Tickets
      /\ m.file = file[m.ticket]
      /\ stage[m.ticket] = "failed"
         \/ (stage[m.ticket] = "holding" /\ lock = m.ticket)

\* A publish never hangs the loop: its await ends, as long as file operations
\* do, even behind a writer that outlived its own await.
PublishReturns == awaited # 0 ~> awaited = 0
=============================================================================
