------------------------ MODULE StatePublisherProofs ------------------------
(***************************************************************************)
(* Proofs about the state documents, for every number of publishes,        *)
(* cancelled awaits and restarts.  The inductive invariant ties the        *)
(* memory of what was written to the directory, the lock to the writer in  *)
(* its critical section, and each writer's progress to what has landed.    *)
(***************************************************************************)
EXTENDS StatePublisher, TLAPS

\* What the process remembers having written is what the directory holds.
MemoryMatchesDisk ==
  \A f \in Files :
    /\ lastWritten[f] = 0 => disk[f].epoch < epoch
    /\ lastWritten[f] # 0 => disk[f] = [epoch |-> epoch, ticket |-> lastWritten[f]]

\* The lock is held by the one writer in its critical section.
LockHolder == \A t \in Tickets : stage[t] = "holding" <=> lock = t

\* A writer at the schema-1 document has put its schema-2 document, or a newer
\* one, on disk; one that is done has put both there.
Progress ==
  \A t \in Tickets :
    /\ Detail /\ file[t] = "state.json" => lastWritten["state-v2.json"] >= t
    /\ ~Detail => file[t] = "state.json"
    /\ stage[t] = "done" => /\ file[t] = "state.json"
                            /\ lastWritten["state.json"] >= t

\* What the loop was told has landed is on disk.
AckedWritten ==
  acked # 0 => /\ lastWritten["state.json"] >= acked
               /\ Detail => lastWritten["state-v2.json"] >= acked

\* A ticket not taken yet has no writer.
Untaken == \A t \in Tickets : t > ticket => stage[t] = "none"

\* No temporary comes from a process that has not started yet.
TempsKnown == \A m \in temps : m.epoch <= epoch

IInv ==
  /\ TypeOK
  /\ MemoryMatchesDisk
  /\ LockHolder
  /\ Progress
  /\ AckedWritten
  /\ PairNeverBehind
  /\ TempsAccounted
  /\ TempsKnown
  /\ Untaken

LEMMA InitIInv == Init => IInv
  <1> SUFFICES ASSUME Init PROVE IInv
    OBVIOUS
  <1> USE PublisherAssumption DEF Init
  <1>1. TypeOK
    BY DEF TypeOK, Tickets, Files, FirstFile, Stages, Running, Documents,
           NeverPublished, Temporaries
  <1>2. MemoryMatchesDisk /\ LockHolder
    BY DEF MemoryMatchesDisk, LockHolder, NeverPublished, Tickets, Files
  <1>3. Progress
    BY DEF Progress, FirstFile, Tickets, Files
  <1>4. AckedWritten /\ TempsAccounted /\ TempsKnown /\ Untaken
    BY DEF AckedWritten, TempsAccounted, TempsKnown, Untaken
  <1>5. PairNeverBehind
    BY DEF PairNeverBehind, NoLater, NeverPublished, Files
  <1> QED BY <1>1, <1>2, <1>3, <1>4, <1>5 DEF IInv

\* A document replaces another only with one that is no older.
LEMMA ReplaceForward ==
  ASSUME TypeOK, MemoryMatchesDisk, NEW t \in Tickets, Replace(t)
  PROVE  /\ \A f \in Files : NoLater(disk[f], disk'[f])
         /\ disk' = [disk EXCEPT ![file[t]] = [epoch |-> epoch, ticket |-> t]]
  <1>1. /\ file[t] \in Files /\ lastWritten[file[t]] <= t
        /\ disk' = [disk EXCEPT ![file[t]] = [epoch |-> epoch, ticket |-> t]]
        /\ disk \in [Files -> Documents]
        /\ epoch \in Nat /\ t \in Nat
    BY PublisherAssumption DEF TypeOK, Replace, Tickets
  <1>2. ASSUME NEW f \in Files PROVE NoLater(disk[f], disk'[f])
    <2>1. CASE f = file[t]
      <3>1. disk'[f] = [epoch |-> epoch, ticket |-> t]
        BY <1>1, <2>1
      <3>2. CASE lastWritten[f] = 0
        <4>1. disk[f].epoch < epoch
          BY <3>2 DEF MemoryMatchesDisk
        <4> QED BY <3>1, <4>1 DEF NoLater
      <3>3. CASE lastWritten[f] # 0
        <4>1. disk[f] = [epoch |-> epoch, ticket |-> lastWritten[f]]
          BY <3>3 DEF MemoryMatchesDisk
        <4> QED BY <3>1, <4>1, <1>1, <2>1 DEF NoLater
      <3> QED BY <3>2, <3>3
    <2>2. CASE f # file[t]
      <3>1. disk'[f] = disk[f] /\ disk[f] \in Documents
        BY <1>1, <2>2
      <3> QED BY <3>1 DEF NoLater, Documents
    <2> QED BY <2>1, <2>2
  <1> QED BY <1>1, <1>2

\* An earlier document stays no later than what replaces a later one.
LEMMA NoLaterTransitive ==
  ASSUME NEW a \in Documents, NEW b \in Documents, NEW c \in Documents,
         NoLater(a, b), NoLater(b, c)
  PROVE  NoLater(a, c)
  BY DEF NoLater, Documents

\* A step in which nothing lands and no writer moves keeps what relates them.
LEMMA LandingUntouched ==
  ASSUME IInv, UNCHANGED <<epoch, lastWritten, disk>>
  PROVE  MemoryMatchesDisk' /\ PairNeverBehind'
  BY DEF IInv, MemoryMatchesDisk, PairNeverBehind, NoLater

\* The facts every step starts from.
LEMMA StartingPoint ==
  ASSUME IInv
  PROVE  /\ TypeOK /\ LockHolder /\ Progress /\ AckedWritten
         /\ TempsAccounted /\ TempsKnown /\ Untaken
         /\ MemoryMatchesDisk /\ PairNeverBehind
         /\ MaxTickets \in Nat /\ Tickets = 1..MaxTickets /\ Detail \in BOOLEAN
         /\ stage \in [Tickets -> Stages] /\ file \in [Tickets -> Files]
         /\ ticket \in 0..MaxTickets /\ awaited \in 0..ticket
  BY PublisherAssumption DEF IInv, Tickets, TypeOK

\* A publish keeps the invariant.
LEMMA PublishStep ==
  ASSUME IInv, NEW last \in BOOLEAN, Publish(last)
  PROVE  IInv'
  <1>1. /\ ticket < MaxTickets /\ ticket' = ticket + 1 /\ awaited' = ticket'
        /\ phase' \in {"running", "stopping"}
        /\ stage' = [stage EXCEPT ![ticket'] = "queued"]
        /\ UNCHANGED <<epoch, failures, cancels, file, lock, lastWritten, disk,
                       temps, acked>>
    BY DEF Publish
  <1>2. /\ ticket' \in Tickets /\ ticket \in Nat /\ awaited' \in 0..ticket'
        /\ ticket' \in 0..MaxTickets
    BY <1>1, StartingPoint
  <1>3. stage[ticket'] = "none"
    BY <1>1, <1>2, StartingPoint DEF Untaken
  <1>4. /\ stage' \in [Tickets -> Stages]
        /\ stage'[ticket'] = "queued"
        /\ \A t \in Tickets : t # ticket' => stage'[t] = stage[t]
    BY <1>1, <1>2, StartingPoint DEF Stages, Running
  <1>5. TypeOK'
    <2>1. acked' \in 0..ticket'
      BY <1>1, <1>2, StartingPoint DEF TypeOK
    <2> QED BY <1>1, <1>2, <1>4, <2>1, StartingPoint DEF TypeOK
  <1>6. LockHolder'
    <2>1. lock # ticket'
      BY <1>2, <1>3, StartingPoint DEF LockHolder
    <2> QED BY <1>1, <1>4, <2>1, StartingPoint DEF LockHolder
  <1>7. Progress'
    BY <1>1, <1>4, StartingPoint DEF Progress
  <1>8. AckedWritten' /\ TempsKnown'
    BY <1>1, StartingPoint DEF AckedWritten, TempsKnown
  <1>9. TempsAccounted'
    <2>1. ASSUME NEW m \in temps, m.epoch = epoch
          PROVE  /\ m.ticket \in Tickets /\ m.file = file[m.ticket]
                 /\ stage'[m.ticket] = "failed"
                    \/ (stage'[m.ticket] = "holding" /\ lock = m.ticket)
      <3>1. /\ m.ticket \in Tickets /\ m.file = file[m.ticket]
            /\ stage[m.ticket] = "failed"
               \/ (stage[m.ticket] = "holding" /\ lock = m.ticket)
        BY <2>1, StartingPoint DEF TempsAccounted
      <3>2. m.ticket # ticket'
        BY <3>1, <1>3
      <3> QED BY <3>1, <3>2, <1>4
    <2> QED BY <2>1, <1>1 DEF TempsAccounted
  <1>10. Untaken'
    <2>1. ASSUME NEW t \in Tickets, t > ticket' PROVE stage'[t] = "none"
      <3>1. t # ticket' /\ t > ticket
        BY <2>1, <1>1, <1>2, StartingPoint
      <3> QED BY <3>1, <1>4, StartingPoint DEF Untaken
    <2> QED BY <2>1 DEF Untaken
  <1> QED BY <1>1, <1>5, <1>6, <1>7, <1>8, <1>9, <1>10, LandingUntouched DEF IInv

\* The end of an await keeps the invariant.
LEMMA ReturnStep ==
  ASSUME IInv, Return
  PROVE  IInv'
  <1>1. /\ awaited # 0 /\ awaited' = 0
        /\ stage[awaited] \in {"done", "failed"}
        /\ failures' = IF stage[awaited] = "done" THEN 0 ELSE failures + 1
        /\ acked' = IF stage[awaited] = "done" THEN awaited ELSE acked
        /\ phase' \in {"closed", phase}
        /\ UNCHANGED <<epoch, ticket, cancels, stage, file, lock, lastWritten,
                       disk, temps>>
    BY DEF Return
  <1>2. awaited \in Tickets /\ awaited \in 0..ticket /\ ticket \in Nat
    BY <1>1, StartingPoint
  <1>3. TypeOK'
    <2>1. failures' \in Nat /\ acked' \in 0..ticket /\ 0 \in 0..ticket
      BY <1>1, <1>2, StartingPoint DEF TypeOK
    <2> QED BY <1>1, <2>1, StartingPoint DEF TypeOK
  <1>4. AckedWritten'
    <2>1. CASE stage[awaited] = "done"
      <3>1. /\ lastWritten["state.json"] >= awaited
            /\ Detail => lastWritten["state-v2.json"] >= awaited
        BY <2>1, <1>2, StartingPoint DEF Progress
      <3> QED BY <1>1, <2>1, <3>1 DEF AckedWritten
    <2>2. CASE stage[awaited] # "done"
      BY <1>1, <2>2, StartingPoint DEF AckedWritten
    <2> QED BY <2>1, <2>2
  <1>5. LockHolder' /\ Progress' /\ TempsKnown' /\ TempsAccounted' /\ Untaken'
    BY <1>1, StartingPoint
       DEF LockHolder, Progress, TempsKnown, TempsAccounted, Untaken
  <1> QED BY <1>1, <1>3, <1>4, <1>5, LandingUntouched DEF IInv

\* A step that only moves one writer between states without a temporary, and
\* not to done, keeps the invariant.
LEMMA StageOnlyStep ==
  ASSUME IInv, NEW t \in Tickets, NEW s \in {"writing", "failed", "cancelled"},
         stage[t] \in {"queued", "writing"},
         stage' = [stage EXCEPT ![t] = s],
         awaited' \in 0..ticket, cancels' \in Nat,
         UNCHANGED <<epoch, phase, ticket, failures, file, lock, lastWritten,
                     disk, temps, acked>>
  PROVE  IInv'
  <1>1. /\ stage' \in [Tickets -> Stages] /\ stage'[t] = s
        /\ \A u \in Tickets : u # t => stage'[u] = stage[u]
    BY StartingPoint DEF Stages, Running
  <1>2. TypeOK'
    BY <1>1, StartingPoint DEF TypeOK
  <1>3. LockHolder'
    BY <1>1, StartingPoint DEF LockHolder
  <1>4. Progress'
    BY <1>1, StartingPoint DEF Progress
  <1>5. AckedWritten' /\ TempsKnown'
    BY StartingPoint DEF AckedWritten, TempsKnown
  <1>6. TempsAccounted'
    BY <1>1, StartingPoint DEF TempsAccounted
  <1>7. Untaken'
    BY <1>1, StartingPoint DEF Untaken
  <1> QED BY <1>2, <1>3, <1>4, <1>5, <1>6, <1>7, LandingUntouched DEF IInv

\* A cancelled await keeps the invariant.
LEMMA CancelStep ==
  ASSUME IInv, Cancel
  PROVE  IInv'
  <1>1. /\ awaited # 0 /\ awaited' = 0 /\ cancels' = cancels + 1
        /\ stage' = [stage EXCEPT ![awaited] =
                       IF @ = "queued" THEN "cancelled" ELSE @]
        /\ UNCHANGED <<epoch, phase, ticket, failures, file, lock, lastWritten,
                       disk, temps, acked>>
    BY DEF Cancel
  <1>2. /\ awaited \in Tickets /\ awaited' \in 0..ticket /\ cancels' \in Nat
        /\ ticket \in Nat
    BY <1>1, StartingPoint DEF TypeOK
  <1>3. CASE stage[awaited] = "queued"
    <2>1. stage' = [stage EXCEPT ![awaited] = "cancelled"]
      BY <1>1, <1>3
    <2> QED BY <1>1, <1>2, <1>3, <2>1, StageOnlyStep
  <1>4. CASE stage[awaited] # "queued"
    <2>1. stage' = stage
      BY <1>1, <1>2, <1>4, StartingPoint
    <2>2. TypeOK'
      BY <1>1, <1>2, <2>1, StartingPoint DEF TypeOK
    <2>3. /\ LockHolder' /\ Progress' /\ AckedWritten' /\ TempsKnown'
          /\ TempsAccounted' /\ Untaken'
      BY <1>1, <2>1, StartingPoint
         DEF LockHolder, Progress, AckedWritten, TempsKnown, TempsAccounted, Untaken
    <2> QED BY <1>1, <2>2, <2>3, LandingUntouched DEF IInv
  <1> QED BY <1>3, <1>4

\* Starting a writer, and a failure before there is a temporary.
LEMMA QuietWriterStep ==
  ASSUME IInv, NEW t \in Tickets, StartWriter(t) \/ FailBefore(t)
  PROVE  IInv'
  <1>1. awaited' \in 0..ticket /\ cancels' \in Nat
    BY StartingPoint DEF StartWriter, FailBefore, loopVars, TypeOK
  <1>2. CASE StartWriter(t)
    <2>1. /\ stage[t] \in {"queued", "writing"}
          /\ stage' = [stage EXCEPT ![t] = "writing"]
          /\ UNCHANGED <<epoch, phase, ticket, failures, file, lock, lastWritten,
                         disk, temps, acked>>
      BY <1>2 DEF StartWriter, loopVars
    <2> QED BY <1>1, <2>1, StageOnlyStep
  <1>3. CASE FailBefore(t)
    <2>1. /\ stage[t] \in {"queued", "writing"}
          /\ stage' = [stage EXCEPT ![t] = "failed"]
          /\ UNCHANGED <<epoch, phase, ticket, failures, file, lock, lastWritten,
                         disk, temps, acked>>
      BY <1>3 DEF FailBefore, loopVars
    <2> QED BY <1>1, <2>1, StageOnlyStep
  <1> QED BY <1>2, <1>3

\* Entering the critical section keeps the invariant.
LEMMA CreateStep ==
  ASSUME IInv, NEW t \in Tickets, CreateTemporary(t)
  PROVE  IInv'
  <1>1. /\ stage[t] = "writing" /\ lock = 0 /\ lock' = t
        /\ stage' = [stage EXCEPT ![t] = "holding"]
        /\ temps' = temps \cup {Temporary(t)}
        /\ UNCHANGED <<epoch, file, lastWritten, disk>>
        /\ UNCHANGED <<phase, ticket, awaited, failures, cancels, acked>>
    BY DEF CreateTemporary, loopVars
  <1>2. /\ stage' \in [Tickets -> Stages] /\ stage'[t] = "holding"
        /\ \A u \in Tickets : u # t => stage'[u] = stage[u]
    BY <1>1, StartingPoint DEF Stages, Running
  <1>3. /\ Temporary(t) \in Temporaries
        /\ Temporary(t).epoch = epoch /\ Temporary(t).ticket = t
        /\ Temporary(t).file = file[t]
    BY StartingPoint DEF Temporary, Temporaries, TypeOK, Tickets
  <1>4. TypeOK'
    BY <1>1, <1>2, <1>3, StartingPoint DEF TypeOK
  <1>5. LockHolder'
    BY <1>1, <1>2, StartingPoint DEF LockHolder
  <1>6. Progress' /\ AckedWritten' /\ Untaken'
    BY <1>1, <1>2, StartingPoint DEF Progress, AckedWritten, Untaken
  <1>7. TempsKnown'
    BY <1>1, <1>3, StartingPoint DEF TempsKnown, TypeOK
  <1>8. TempsAccounted'
    <2>1. ASSUME NEW m \in temps', m.epoch = epoch
          PROVE  /\ m.ticket \in Tickets /\ m.file = file[m.ticket]
                 /\ stage'[m.ticket] = "failed"
                    \/ (stage'[m.ticket] = "holding" /\ lock' = m.ticket)
      <3>1. CASE m = Temporary(t)
        BY <3>1, <1>1, <1>2, <1>3
      <3>2. CASE m # Temporary(t)
        <4>1. m \in temps
          BY <3>2, <1>1
        <4>2. /\ m.ticket \in Tickets /\ m.file = file[m.ticket]
              /\ stage[m.ticket] = "failed"
                 \/ (stage[m.ticket] = "holding" /\ lock = m.ticket)
          BY <2>1, <4>1, StartingPoint DEF TempsAccounted
        <4>3. m.ticket # t /\ stage[m.ticket] = "failed"
          BY <4>2, <1>1, StartingPoint
        <4> QED BY <4>2, <4>3, <1>2
      <3> QED BY <3>1, <3>2
    <2> QED BY <2>1, <1>1 DEF TempsAccounted
  <1> QED BY <1>1, <1>4, <1>5, <1>6, <1>7, <1>8, LandingUntouched DEF IInv

\* What leaving the critical section does to the writer, the lock and the
\* directory's temporaries.
LEMMA LeavingFacts ==
  ASSUME IInv, NEW t \in Tickets, NextDocument(t), stage[t] = "holding",
         temps' = temps \ {Temporary(t)}, UNCHANGED <<epoch, loopVars>>
  PROVE  /\ stage' \in [Tickets -> Stages] /\ stage'[t] \in {"writing", "done"}
         /\ file' \in [Tickets -> Files] /\ file'[t] = "state.json"
         /\ stage'[t] = "done" => file[t] = "state.json"
         /\ \A u \in Tickets : u # t => stage'[u] = stage[u] /\ file'[u] = file[u]
         /\ lock = t /\ LockHolder' /\ TempsKnown' /\ TempsAccounted' /\ Untaken'
         /\ lock' \in 0..MaxTickets
         /\ temps' \in SUBSET Temporaries
  <1>1. lock = t /\ lock' = 0 /\ 0 \in 0..MaxTickets
    BY StartingPoint DEF LockHolder, NextDocument
  <1>2. /\ stage' \in [Tickets -> Stages] /\ stage'[t] \in {"writing", "done"}
        /\ \A u \in Tickets : u # t => stage'[u] = stage[u]
    BY StartingPoint DEF NextDocument, Stages, Running
  <1>3. /\ file' \in [Tickets -> Files] /\ file'[t] = "state.json"
        /\ stage'[t] = "done" => file[t] = "state.json"
        /\ \A u \in Tickets : u # t => file'[u] = file[u]
    BY StartingPoint DEF NextDocument, Files
  <1>4. LockHolder'
    BY <1>1, <1>2, StartingPoint DEF LockHolder
  <1>5. TempsKnown' /\ temps' \in SUBSET Temporaries
    BY StartingPoint DEF TempsKnown, TypeOK
  <1>6. Untaken'
    <2>1. t <= ticket /\ ticket' = ticket
      BY StartingPoint DEF Untaken, loopVars
    <2> QED BY <1>2, <2>1, StartingPoint DEF Untaken
  <1>7. TempsAccounted'
    <2>1. ASSUME NEW m \in temps', m.epoch = epoch
          PROVE  /\ m.ticket \in Tickets /\ m.file = file'[m.ticket]
                 /\ stage'[m.ticket] = "failed"
                    \/ (stage'[m.ticket] = "holding" /\ lock' = m.ticket)
      <3>1. m \in temps /\ m # Temporary(t) /\ m \in Temporaries
        BY StartingPoint DEF TypeOK
      <3>2. /\ m.ticket \in Tickets /\ m.file = file[m.ticket]
            /\ stage[m.ticket] = "failed"
               \/ (stage[m.ticket] = "holding" /\ lock = m.ticket)
        BY <2>1, <3>1, StartingPoint DEF TempsAccounted
      <3>3. m.ticket # t
        BY <2>1, <3>1, <3>2 DEF Temporary, Temporaries
      <3>4. stage[m.ticket] = "failed"
        BY <3>2, <3>3, <1>1
      <3> QED BY <3>2, <3>3, <3>4, <1>2, <1>3
    <2>2. epoch' = epoch
      OBVIOUS
    <2> QED BY <2>1, <2>2 DEF TempsAccounted
  <1> QED BY <1>1, <1>2, <1>3, <1>4, <1>5, <1>6, <1>7

\* A replaced document keeps the invariant.
LEMMA ReplaceStep ==
  ASSUME IInv, NEW t \in Tickets, Replace(t)
  PROVE  IInv'
  <1>1. /\ stage[t] = "holding" /\ lastWritten[file[t]] <= t
        /\ disk' = [disk EXCEPT ![file[t]] = [epoch |-> epoch, ticket |-> t]]
        /\ lastWritten' = [lastWritten EXCEPT ![file[t]] = t]
        /\ temps' = temps \ {Temporary(t)}
        /\ NextDocument(t)
        /\ UNCHANGED <<epoch, loopVars>>
    BY DEF Replace
  <1>2. /\ stage' \in [Tickets -> Stages] /\ stage'[t] \in {"writing", "done"}
        /\ file' \in [Tickets -> Files] /\ file'[t] = "state.json"
        /\ stage'[t] = "done" => file[t] = "state.json"
        /\ \A u \in Tickets : u # t => stage'[u] = stage[u] /\ file'[u] = file[u]
        /\ LockHolder' /\ TempsKnown' /\ TempsAccounted' /\ Untaken'
        /\ lock' \in 0..MaxTickets
        /\ temps' \in SUBSET Temporaries
    BY <1>1, LeavingFacts
  <1>3. /\ t \in Nat /\ t # 0 /\ epoch \in Nat /\ file[t] \in Files
        /\ lastWritten \in [Files -> 0..MaxTickets] /\ disk \in [Files -> Documents]
    BY StartingPoint DEF TypeOK
  <1>4. /\ lastWritten' \in [Files -> 0..MaxTickets]
        /\ lastWritten'[file[t]] = t
        /\ \A f \in Files : f # file[t] => lastWritten'[f] = lastWritten[f]
        /\ \A f \in Files : lastWritten'[f] >= lastWritten[f]
    BY <1>1, <1>3, StartingPoint
  <1>5. /\ disk' \in [Files -> Documents]
        /\ disk'[file[t]] = [epoch |-> epoch, ticket |-> t]
        /\ \A f \in Files : f # file[t] => disk'[f] = disk[f]
    BY <1>1, <1>3 DEF Documents
  <1>6. TypeOK'
    BY <1>1, <1>2, <1>4, <1>5, StartingPoint DEF TypeOK, loopVars
  <1>7. MemoryMatchesDisk'
    BY <1>1, <1>3, <1>4, <1>5, StartingPoint DEF MemoryMatchesDisk
  <1>8. Progress'
    <2>1. ASSUME NEW u \in Tickets
          PROVE  /\ Detail /\ file'[u] = "state.json"
                      => lastWritten'["state-v2.json"] >= u
                 /\ ~Detail => file'[u] = "state.json"
                 /\ stage'[u] = "done" => /\ file'[u] = "state.json"
                                          /\ lastWritten'["state.json"] >= u
      <3>1. /\ Detail /\ file[u] = "state.json" => lastWritten["state-v2.json"] >= u
            /\ ~Detail => file[u] = "state.json"
            /\ stage[u] = "done" => /\ file[u] = "state.json"
                                    /\ lastWritten["state.json"] >= u
        BY StartingPoint DEF Progress
      <3>2. /\ "state.json" \in Files /\ "state-v2.json" \in Files
            /\ file[t] \in {"state.json", "state-v2.json"}
            /\ u \in Nat
        BY <1>3, StartingPoint DEF Files
      <3>3. CASE u # t
        BY <3>1, <3>2, <3>3, <1>2, <1>3, <1>4
      <3>4. CASE u = t
        <4>1. CASE file[t] = "state.json"
          BY <4>1, <3>1, <3>2, <3>4, <1>2, <1>3, <1>4
        <4>2. CASE file[t] = "state-v2.json"
          BY <4>2, <3>2, <3>4, <1>2, <1>3, <1>4
        <4> QED BY <4>1, <4>2, <3>2
      <3> QED BY <3>3, <3>4
    <2> QED BY <2>1 DEF Progress
  <1>9. AckedWritten'
    <2>1. acked' = acked /\ acked \in Nat
      BY <1>1, StartingPoint DEF loopVars, TypeOK
    <2>2. "state.json" \in Files /\ "state-v2.json" \in Files
      BY DEF Files
    <2> QED BY <2>1, <2>2, <1>3, <1>4, StartingPoint DEF AckedWritten
  <1>10. PairNeverBehind'
    <2> SUFFICES ASSUME Detail
                 PROVE  NoLater(disk'["state.json"], disk'["state-v2.json"])
      BY DEF PairNeverBehind
    <2>1. /\ "state.json" \in Files /\ "state-v2.json" \in Files
          /\ file[t] \in {"state.json", "state-v2.json"}
      BY <1>3 DEF Files
    <2>2. CASE file[t] = "state.json"
      <3>1. lastWritten["state-v2.json"] >= t
        BY <2>2, StartingPoint DEF Progress
      <3>2. disk["state-v2.json"]
              = [epoch |-> epoch, ticket |-> lastWritten["state-v2.json"]]
        BY <2>1, <3>1, <1>3, StartingPoint DEF MemoryMatchesDisk
      <3>3. disk'["state-v2.json"] = disk["state-v2.json"]
        BY <2>1, <2>2, <1>5
      <3> QED BY <2>2, <3>1, <3>2, <3>3, <1>5 DEF NoLater
    <2>3. CASE file[t] = "state-v2.json"
      <3>1. disk'["state.json"] = disk["state.json"]
        BY <2>1, <2>3, <1>5
      <3>2. NoLater(disk["state.json"], disk["state-v2.json"])
        BY StartingPoint DEF PairNeverBehind
      <3>3. NoLater(disk["state-v2.json"], disk'["state-v2.json"])
        BY <2>1, ReplaceForward, StartingPoint
      <3> QED BY <2>1, <3>1, <3>2, <3>3, <1>3, <1>5, NoLaterTransitive
    <2> QED BY <2>1, <2>2, <2>3
  <1> QED BY <1>2, <1>6, <1>7, <1>8, <1>9, <1>10 DEF IInv

\* A superseded write keeps the invariant.
LEMMA DiscardStep ==
  ASSUME IInv, NEW t \in Tickets, Discard(t)
  PROVE  IInv'
  <1>1. /\ stage[t] = "holding" /\ lastWritten[file[t]] > t
        /\ temps' = temps \ {Temporary(t)}
        /\ NextDocument(t)
        /\ UNCHANGED <<epoch, loopVars>> /\ UNCHANGED <<lastWritten, disk>>
    BY DEF Discard
  <1>2. /\ stage' \in [Tickets -> Stages] /\ stage'[t] \in {"writing", "done"}
        /\ file' \in [Tickets -> Files] /\ file'[t] = "state.json"
        /\ stage'[t] = "done" => file[t] = "state.json"
        /\ \A u \in Tickets : u # t => stage'[u] = stage[u] /\ file'[u] = file[u]
        /\ LockHolder' /\ TempsKnown' /\ TempsAccounted' /\ Untaken'
        /\ lock' \in 0..MaxTickets
        /\ temps' \in SUBSET Temporaries
    BY <1>1, LeavingFacts
  <1>3. TypeOK'
    BY <1>1, <1>2, StartingPoint DEF TypeOK, loopVars
  <1>4. Progress'
    <2>1. ASSUME NEW u \in Tickets
          PROVE  /\ Detail /\ file'[u] = "state.json"
                      => lastWritten["state-v2.json"] >= u
                 /\ ~Detail => file'[u] = "state.json"
                 /\ stage'[u] = "done" => /\ file'[u] = "state.json"
                                          /\ lastWritten["state.json"] >= u
      <3>1. /\ Detail /\ file[u] = "state.json" => lastWritten["state-v2.json"] >= u
            /\ ~Detail => file[u] = "state.json"
            /\ stage[u] = "done" => /\ file[u] = "state.json"
                                    /\ lastWritten["state.json"] >= u
        BY StartingPoint DEF Progress
      <3>2. /\ file[t] \in {"state.json", "state-v2.json"} /\ t \in Nat
            /\ lastWritten \in [Files -> 0..MaxTickets]
        BY StartingPoint DEF Files, TypeOK
      <3>3. CASE u # t
        BY <3>1, <3>3, <1>2
      <3>4. CASE u = t
        <4>1. lastWritten[file[t]] >= t
          BY <1>1, <3>2, StartingPoint
        <4> QED BY <4>1, <3>1, <3>2, <3>4, <1>2
      <3> QED BY <3>3, <3>4
    <2> QED BY <2>1, <1>1 DEF Progress
  <1>5. AckedWritten'
    BY <1>1, StartingPoint DEF AckedWritten, loopVars
  <1> QED BY <1>1, <1>2, <1>3, <1>4, <1>5, LandingUntouched DEF IInv

\* A failure in the critical section keeps the invariant.
LEMMA FailHoldingStep ==
  ASSUME IInv, NEW t \in Tickets, FailHolding(t)
  PROVE  IInv'
  <1>1. /\ stage[t] = "holding" /\ lock' = 0
        /\ stage' = [stage EXCEPT ![t] = "failed"]
        /\ temps' \in SUBSET temps
        /\ UNCHANGED <<epoch, file, lastWritten, disk>>
        /\ UNCHANGED <<phase, ticket, awaited, failures, cancels, acked>>
    BY DEF FailHolding, loopVars
  <1>2. /\ stage' \in [Tickets -> Stages] /\ stage'[t] = "failed"
        /\ \A u \in Tickets : u # t => stage'[u] = stage[u]
        /\ lock = t
    BY <1>1, StartingPoint DEF Stages, LockHolder
  <1>3. TypeOK'
    BY <1>1, <1>2, StartingPoint DEF TypeOK
  <1>4. LockHolder'
    BY <1>1, <1>2, StartingPoint DEF LockHolder
  <1>5. Progress' /\ AckedWritten' /\ TempsKnown'
    BY <1>1, <1>2, StartingPoint DEF Progress, AckedWritten, TempsKnown
  <1>6. TempsAccounted'
    BY <1>1, <1>2, StartingPoint DEF TempsAccounted
  <1>7. Untaken'
    BY <1>1, <1>2, StartingPoint DEF Untaken
  <1> QED BY <1>1, <1>3, <1>4, <1>5, <1>6, <1>7, LandingUntouched DEF IInv

\* A new incarnation of the process keeps the invariant.
LEMMA NewProcessStep ==
  ASSUME IInv, NewProcess
  PROVE  IInv'
  <1>1. /\ epoch' = epoch + 1 /\ epoch \in Nat \ {0}
        /\ disk' = disk /\ temps' \in SUBSET temps
        /\ phase' = "running" /\ ticket' = 0 /\ awaited' = 0 /\ failures' = 0
        /\ cancels' = 0 /\ lock' = 0 /\ acked' = 0
        /\ stage' = [t \in Tickets |-> "none"]
        /\ file' = [t \in Tickets |-> FirstFile]
        /\ lastWritten' = [f \in Files |-> 0]
    BY StartingPoint DEF NewProcess, TypeOK
  <1>2. /\ FirstFile \in Files
        /\ Detail => FirstFile = "state-v2.json"
        /\ ~Detail => FirstFile = "state.json"
    BY DEF FirstFile, Files
  <1>3. TypeOK'
    BY <1>1, <1>2, StartingPoint DEF TypeOK, Stages
  <1>4. MemoryMatchesDisk'
    <2>1. ASSUME NEW f \in Files PROVE disk[f].epoch < epoch + 1
      <3>1. disk[f] \in Documents /\ lastWritten[f] \in Nat
        BY StartingPoint DEF TypeOK
      <3>2. CASE lastWritten[f] = 0
        <4>1. disk[f].epoch < epoch
          BY <3>2, StartingPoint DEF MemoryMatchesDisk
        <4>2. disk[f].epoch \in Nat /\ epoch \in Nat
          BY <3>1, <1>1 DEF Documents
        <4> QED BY <4>1, <4>2
      <3>3. CASE lastWritten[f] # 0
        <4>1. disk[f] = [epoch |-> epoch, ticket |-> lastWritten[f]]
          BY <3>3, StartingPoint DEF MemoryMatchesDisk
        <4>2. disk[f].epoch = epoch /\ epoch \in Nat
          BY <4>1, <1>1
        <4> QED BY <4>2
      <3> QED BY <3>2, <3>3
    <2> QED BY <2>1, <1>1 DEF MemoryMatchesDisk
  <1>5. LockHolder' /\ Untaken'
    BY <1>1, StartingPoint DEF LockHolder, Untaken
  <1>6. Progress'
    BY <1>1, <1>2 DEF Progress
  <1>7. AckedWritten' /\ PairNeverBehind'
    BY <1>1, StartingPoint DEF AckedWritten, PairNeverBehind, NoLater
  <1>8. TempsKnown' /\ TempsAccounted'
    <2>1. ASSUME NEW m \in temps' PROVE m.epoch < epoch + 1
      <3>1. m \in Temporaries /\ m.epoch <= epoch
        BY <1>1, StartingPoint DEF TypeOK, TempsKnown
      <3> QED BY <3>1, <1>1 DEF Temporaries
    <2>2. \A m \in temps' : m.epoch \in Nat
      BY <1>1, StartingPoint DEF TypeOK, Temporaries
    <2> QED BY <2>1, <2>2, <1>1 DEF TempsKnown, TempsAccounted
  <1> QED BY <1>3, <1>4, <1>5, <1>6, <1>7, <1>8 DEF IInv

\* Every step keeps the inductive invariant.
LEMMA NextIInv == IInv /\ [Next]_vars => IInv'
  <1> SUFFICES ASSUME IInv, [Next]_vars PROVE IInv'
    OBVIOUS
  <1>1. CASE \E last \in BOOLEAN : Publish(last)
    BY <1>1, PublishStep
  <1>2. CASE Return
    BY <1>2, ReturnStep
  <1>3. CASE Cancel
    BY <1>3, CancelStep
  <1>4. ASSUME NEW t \in Tickets, Writer(t) PROVE IInv'
    BY <1>4, QuietWriterStep, CreateStep, ReplaceStep, DiscardStep,
       FailHoldingStep DEF Writer
  <1>5. CASE Crash \/ Restart
    BY <1>5, NewProcessStep DEF Crash, Restart
  <1>6. CASE UNCHANGED vars
    BY <1>6 DEF vars, IInv, TypeOK, MemoryMatchesDisk, LockHolder, Progress,
       AckedWritten, PairNeverBehind, NoLater, TempsAccounted, TempsKnown, Untaken
  <1> QED BY <1>1, <1>2, <1>3, <1>4, <1>5, <1>6 DEF Next

-----------------------------------------------------------------------------

\* Every reachable state of the publisher satisfies the inductive invariant.
THEOREM InductiveInvariant == Spec => []IInv
  BY InitIInv, NextIInv, PTL DEF Spec

\* The variables keep their types.
THEOREM TypeCorrect == Spec => []TypeOK
  BY InductiveInvariant, PTL DEF IInv

\* Schema 2 is never behind schema 1, whatever fails or dies between them.
THEOREM PairOrder == Spec => []PairNeverBehind
  BY InductiveInvariant, PTL DEF IInv

\* Temporaries never accumulate within one incarnation beyond the failed
\* writes whose removal also failed.
THEOREM TemporariesAccounted == Spec => []TempsAccounted
  BY InductiveInvariant, PTL DEF IInv

\* A publish that returned normally stays published.
THEOREM AcknowledgedStays == Spec => []AcknowledgedLanded
  <1>1. IInv => AcknowledgedLanded
    <2> SUFFICES ASSUME IInv, acked # 0,
                        NEW f \in Files \ (IF Detail THEN {} ELSE {"state-v2.json"})
                 PROVE  NoLater([epoch |-> epoch, ticket |-> acked], disk[f])
      BY DEF AcknowledgedLanded
    <2>1. /\ f \in {"state.json", "state-v2.json"}
          /\ f = "state-v2.json" => Detail
          /\ acked \in Nat /\ lastWritten[f] \in Nat
      BY StartingPoint DEF Files, TypeOK
    <2>2. lastWritten[f] >= acked
      BY <2>1, StartingPoint DEF AckedWritten
    <2>3. disk[f] = [epoch |-> epoch, ticket |-> lastWritten[f]]
      BY <2>1, <2>2, StartingPoint DEF MemoryMatchesDisk
    <2> QED BY <2>1, <2>2, <2>3 DEF NoLater
  <1> QED BY <1>1, InductiveInvariant, PTL

\* No document ever goes back in time, across overlapping writers, failures
\* and restarts.
THEOREM DocumentsMoveForward == Spec => NeverBackwards
  <1>1. IInv /\ [Next]_vars => [\A f \in Files : NoLater(disk[f], disk'[f])]_vars
    <2> SUFFICES ASSUME IInv, [Next]_vars
                 PROVE  \A f \in Files : NoLater(disk[f], disk'[f])
      OBVIOUS
    <2>1. CASE disk' = disk
      <3>1. \A f \in Files : disk[f] \in Documents
        BY StartingPoint DEF TypeOK
      <3> QED BY <2>1, <3>1 DEF NoLater, Documents
    <2>2. ASSUME NEW t \in Tickets, Replace(t)
          PROVE  \A f \in Files : NoLater(disk[f], disk'[f])
      BY <2>2, ReplaceForward, StartingPoint
    <2>3. disk' = disk \/ \E t \in Tickets : Replace(t)
      BY DEF Next, Publish, Return, Cancel, Writer, StartWriter, CreateTemporary,
             Discard, FailBefore, FailHolding, Crash, Restart, NewProcess, vars
    <2> QED BY <2>1, <2>2, <2>3
  <1> QED BY <1>1, InductiveInvariant, PTL DEF Spec, NeverBackwards
=============================================================================
