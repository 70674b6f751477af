----------------------------- MODULE PumpProofs -----------------------------
(***************************************************************************)
(* Proofs about the pump on a clock, for every heartbeat, probe interval,  *)
(* silence limit and duration of a probe or a publish.  The inductive      *)
(* invariant says, for each await of the pump, how late the await may end  *)
(* after its round began, and how old what the round has consumed, or left *)
(* in the queue, may be by then.                                           *)
(***************************************************************************)
EXTENDS Pump, TLAPS

\* The last reading this session can count on: its start when there is none.
Last == IF latestAt <= 0 THEN 0 ELSE latestAt

\* The gate was asked in the round in progress, and the await ends within the
\* probe and the span; or the round found it asked within the interval, and
\* the await ends within the span.
GateWithin(span) ==
  \/ lastHealth = round /\ due <= round + ProbeTime + span
  \/ round - lastHealth < ObdInterval /\ due <= round + span

\* Telemetry that arrived in time has been recorded, or waits in the queue.
HeardCounted == heard <= Last \/ "telemetry" \in queue

\* What waits in the queue arrived since the round began.
QueueSinceRound ==
  /\ queue # {} => spoke >= round
  /\ queued # -1 => queued >= round

WaitingInv ==
  /\ now <= due
  /\ GateWithin(Heartbeat + PublishTime)
  /\ queue # {} => now - spoke <= ProbeTime + PublishTime
  /\ queued # -1 => now - queued <= ProbeTime + PublishTime
  /\ told = -1
  /\ round - Last <= Silence
  /\ HeardCounted

PublishingInv ==
  /\ now <= due
  /\ GateWithin(PublishTime)
  /\ QueueSinceRound
  /\ told = -1
  /\ round - Last <= Silence
  /\ HeardCounted

ProbingInv ==
  /\ now <= due
  /\ lastHealth = round /\ due <= round + ProbeTime
  /\ QueueSinceRound
  /\ told # -1 => events /\ round - told <= ProbeTime + PublishTime
  /\ round - Last <= Silence + ProbeTime + PublishTime + Heartbeat
  /\ heard <= Last

\* In every await: a reading is recorded within a publish and a probe of its
\* arrival, and a transition that is remembered as queued is in the queue.
Arrivals ==
  /\ Last <= spoke + ProbeTime + PublishTime
  /\ queued # -1 => "transition" \in queue

\* The type invariant, the numbers apart from the rest.
Times ==
  /\ now \in 0..MaxTime /\ due \in Nat /\ round \in 0..now
  /\ latestAt \in {-2 * Silence} \cup 0..now
  /\ lastHealth \in 0..now
  /\ lastPublish \in {-Heartbeat} \cup 0..now
  /\ spoke \in 0..now /\ heard \in 0..now
  /\ queued \in -1..now /\ told \in -1..now

Labels ==
  /\ pc \in {"waiting", "probing", "publishing", "over"}
  /\ events \in BOOLEAN
  /\ queue \subseteq Kinds
  /\ linked \in BOOLEAN
  /\ note \in {"", "link dropped", "no packets", "obd-blocked"}

IInv ==
  /\ Times
  /\ Labels
  /\ pc # "over" => Arrivals /\ note = ""
  /\ pc = "waiting" => WaitingInv
  /\ pc = "publishing" => PublishingInv
  /\ pc = "probing" => ProbingInv
  /\ SpeakingKeepsAlive

-----------------------------------------------------------------------------
(***************************************************************************)
(* What the operators of the model compute.                                *)
(***************************************************************************)

\* The largest of two numbers is the one not below the other.
LEMMA MaxOfTwo ==
  ASSUME NEW a \in Int, NEW b \in Int
  PROVE  Max({a, b}) = IF a >= b THEN a ELSE b
  <1>1. CASE a >= b
    <2>1. \A y \in {a, b} : a >= y
      BY <1>1
    <2>2. \A x \in {a, b} : (\A y \in {a, b} : x >= y) => x = a
      BY <1>1
    <2> QED BY <1>1, <2>1, <2>2 DEF Max
  <1>2. CASE ~(a >= b)
    <2>1. \A y \in {a, b} : b >= y
      BY <1>2
    <2>2. \A x \in {a, b} : (\A y \in {a, b} : x >= y) => x = b
      BY <1>2
    <2> QED BY <1>2, <2>1, <2>2 DEF Max
  <1> QED BY <1>1, <1>2

\* A session is silent since its last reading.
LEMMA SilentForIs ==
  ASSUME NEW at \in Int, NEW latest \in Int
  PROVE  SilentFor(at, latest) = at - (IF latest <= 0 THEN 0 ELSE latest)
  <1>1. Max({0, latest}) = IF 0 >= latest THEN 0 ELSE latest
    BY MaxOfTwo
  <1> QED BY <1>1 DEF SilentFor

\* The four ends of a round's checks.
LEMMA ChecksCases ==
  ASSUME NEW at, NEW moved, NEW latest, Checks(at, moved, latest)
  PROVE  \/ End("link dropped")
         \/ SilentFor(at, latest) > Silence /\ End("no packets")
         \/ ~(SilentFor(at, latest) > Silence) /\ Publish(at)
         \/ /\ ~(SilentFor(at, latest) > Silence) /\ ~moved
            /\ Wait /\ UNCHANGED <<lastPublish, note>>
  BY Zenon DEF Checks

-----------------------------------------------------------------------------

\* The numbers among the variables, and that no time is in the future.
LEMMA Numbers ==
  Times => /\ now \in Nat /\ due \in Nat
           /\ round \in Nat /\ round <= now
           /\ latestAt \in Int /\ latestAt <= now
           /\ lastHealth \in Nat /\ lastHealth <= now
           /\ lastPublish \in Int /\ lastPublish <= now
           /\ spoke \in Nat /\ spoke <= now
           /\ heard \in Nat /\ heard <= now
           /\ queued \in Int /\ -1 <= queued /\ queued <= now
           /\ told \in Int /\ -1 <= told /\ told <= now
           /\ Last \in Nat /\ Last <= now
  BY PumpAssumption DEF Times, Last

LEMMA InitIInv == Init => IInv
  <1> SUFFICES ASSUME Init PROVE IInv
    OBVIOUS
  <1> USE PumpAssumption
  <1>2. /\ now = 0 /\ due = Heartbeat /\ round = 0 /\ lastHealth = 0
        /\ spoke = 0 /\ heard = 0 /\ queued = -1 /\ told = -1 /\ queue = {}
        /\ lastPublish = -Heartbeat /\ latestAt \in {-2 * Silence, 0}
    BY DEF Init
  <1>3. Last = 0
    BY <1>2 DEF Last
  <1>1. Times
    BY <1>2 DEF Times
  <1>7. Labels
    BY DEF Init, Labels
  <1>4. Arrivals
    BY <1>2, <1>3 DEF Arrivals
  <1>6. WaitingInv
    BY <1>2, <1>3 DEF WaitingInv, GateWithin, HeardCounted
  <1>5. pc = "waiting" /\ note = ""
    BY DEF Init
  <1> QED BY <1>1, <1>7, <1>4, <1>5, <1>6 DEF IInv, SpeakingKeepsAlive

LEMMA TickInv == IInv /\ Tick => IInv'
  <1> SUFFICES ASSUME IInv, Tick PROVE IInv'
    OBVIOUS
  <1> USE PumpAssumption
  <1>1. /\ now < MaxTime /\ now < due /\ now' = now + 1
        /\ UNCHANGED <<due, round, events, latestAt, lastHealth, lastPublish,
                       queue, linked, spoke, heard, queued, told>>
        /\ Times /\ Labels
    BY DEF Tick, history, pumpVars, IInv
  <1>2. pc' = pc /\ note' = note /\ pc # "over"
    BY DEF Tick
  <1>3. Times'
    BY <1>1, Numbers DEF Times
  <1>9. Labels'
    BY <1>1, <1>2 DEF Labels
  <1>4. Arrivals => Arrivals'
    BY <1>1, Numbers DEF Arrivals, Last
  <1>5. queue = {} /\ Arrivals /\ WaitingInv => WaitingInv'
    BY <1>1, Numbers DEF Arrivals, WaitingInv, GateWithin, HeardCounted, Last
  <1>6. PublishingInv => PublishingInv'
    BY <1>1, Numbers DEF PublishingInv, GateWithin, QueueSinceRound, HeardCounted, Last
  <1>7. ProbingInv => ProbingInv'
    BY <1>1, Numbers DEF ProbingInv, QueueSinceRound, Last
  <1>8. pc = "waiting" => queue = {}
    BY DEF Tick
  <1> QED BY <1>2, <1>3, <1>4, <1>5, <1>6, <1>7, <1>8, <1>9, Zenon
          DEF IInv, SpeakingKeepsAlive

LEMMA NotifyInv ==
  ASSUME NEW kind \in Kinds PROVE IInv /\ Notify(kind) => IInv'
  <1> SUFFICES ASSUME IInv, Notify(kind) PROVE IInv'
    OBVIOUS
  <1> USE PumpAssumption
  <1>1. /\ queue' = queue \cup {kind} /\ spoke' = now
        /\ UNCHANGED <<now, due, round, events, latestAt, lastHealth,
                       lastPublish, linked, told>>
        /\ heard' \in {heard, now} /\ (heard' # heard => kind = "telemetry")
        /\ queued' \in {queued, now}
        /\ (queued = -1 /\ queued' # -1 => kind = "transition")
        /\ (queued # -1 => queued' = queued)
        /\ Times /\ Labels
    BY DEF Notify, pumpVars, IInv
  <1>2. /\ pc' = pc /\ note' = note /\ pc # "over"
        /\ pc = "probing" => heard' = heard
    BY DEF Notify
  <1>3. Times'
    BY <1>1, Numbers DEF Times
  <1>9. Labels'
    BY <1>1, <1>2 DEF Labels
  <1>4. Arrivals => Arrivals'
    BY <1>1, Numbers DEF Arrivals, Last
  <1>5. WaitingInv => WaitingInv'
    BY <1>1, Numbers DEF WaitingInv, GateWithin, HeardCounted, Last
  <1>6. PublishingInv => PublishingInv'
    BY <1>1, Numbers DEF PublishingInv, GateWithin, QueueSinceRound, HeardCounted, Last
  <1>7. ProbingInv /\ heard' = heard => ProbingInv'
    BY <1>1, Numbers DEF ProbingInv, QueueSinceRound, Last
  <1> QED BY <1>2, <1>3, <1>4, <1>5, <1>6, <1>7, <1>9, Zenon
          DEF IInv, SpeakingKeepsAlive

LEMMA DropInv == IInv /\ Drop => IInv'
  <1> SUFFICES ASSUME IInv, Drop PROVE IInv'
    OBVIOUS
  <1>1. /\ UNCHANGED <<now, pc, due, round, events, latestAt, lastHealth,
                       lastPublish, queue, note, spoke, heard, queued, told>>
        /\ linked' \in BOOLEAN
    BY DEF Drop, pumpVars, history
  <1>2. Times' /\ Labels'
    BY <1>1 DEF IInv, Times, Labels
  <1>3. /\ Arrivals' = Arrivals /\ WaitingInv' = WaitingInv
        /\ PublishingInv' = PublishingInv /\ ProbingInv' = ProbingInv
    BY <1>1 DEF Arrivals, WaitingInv, PublishingInv, ProbingInv, GateWithin,
         QueueSinceRound, HeardCounted, Last
  <1> QED BY <1>1, <1>2, <1>3 DEF IInv, SpeakingKeepsAlive

\* What the wait over a round leaves behind: all that waited is recorded, and
\* recorded in time.
LEMMA Consumed ==
  ASSUME IInv, Round
  PROVE  /\ Times' /\ heard' <= Last' /\ Last' <= spoke' + ProbeTime + PublishTime
         /\ now - Last' <= Silence + ProbeTime + PublishTime + Heartbeat
         /\ told = -1
         /\ queued # -1 => /\ "transition" \in queue
                           /\ now - queued <= ProbeTime + PublishTime
  <1> USE PumpAssumption
  <1>a. Times
    BY DEF IInv
  <1>1. Times /\ Arrivals /\ WaitingInv
    BY DEF IInv, Round
  <1>2. /\ now' = now /\ round' = now /\ UNCHANGED <<spoke, heard>>
        /\ latestAt' = LatestAt
        /\ queue # {} \/ now = due
    BY DEF Round
  <1>3. queued # -1 => /\ "transition" \in queue
                       /\ now - queued <= ProbeTime + PublishTime
    BY <1>1 DEF WaitingInv, Arrivals
  <1>4. /\ Last' \in Nat /\ Last <= Last' /\ Last' <= now
        /\ Last' = Last \/ Last' = now
        /\ "telemetry" \in queue => Last' = now
        /\ "telemetry" \notin queue => Last' = Last
    <2>1. CASE "telemetry" \in queue
      <3>1. latestAt' = now
        BY <2>1, <1>2 DEF LatestAt
      <3>2. Last' = now
        BY <3>1, <1>a, Numbers DEF Last
      <3> QED BY <3>2, <2>1, <1>a, Numbers
    <2>2. CASE "telemetry" \notin queue
      BY <2>2, <1>a, <1>2, Numbers DEF Last, LatestAt
    <2> QED BY <2>1, <2>2
  <1>5. heard' <= Last'
    BY <1>1, <1>2, <1>4, Numbers DEF WaitingInv, HeardCounted
  <1>6. Last' <= spoke' + ProbeTime + PublishTime
    <2>1. CASE "telemetry" \in queue
      BY <2>1, <1>1, <1>2, <1>4, Numbers DEF WaitingInv
    <2>2. CASE "telemetry" \notin queue
      BY <2>2, <1>1, <1>2, <1>4 DEF Arrivals
    <2> QED BY <2>1, <2>2
  <1>7. now - Last' <= Silence + ProbeTime + PublishTime + Heartbeat
    BY <1>1, <1>4, Numbers DEF WaitingInv, GateWithin
  <1>8. Times'
    <2>1. /\ due' \in Nat
          /\ lastHealth' = lastHealth \/ lastHealth' = now
          /\ lastPublish' = lastPublish \/ lastPublish' = now
      <3>1. CASE ProbeDue
        BY <3>1, <1>1, Numbers DEF Round
      <3>2. CASE ~ProbeDue
        <4>1. /\ Checks(now, "transition" \in queue, latestAt')
              /\ lastHealth' = lastHealth
          BY <3>2 DEF Round
        <4>2. \/ due' = due /\ lastPublish' = lastPublish
              \/ due' = now + PublishTime /\ lastPublish' = now
              \/ due' = now + Heartbeat /\ lastPublish' = lastPublish
          BY <4>1, ChecksCases DEF End, Publish, Wait
        <4> QED BY <4>1, <4>2, <1>a, Numbers
      <3> QED BY <3>1, <3>2
    <2>2. /\ queued' = -1
          /\ told' \in {-1, queued, told}
      BY DEF Round, Shown
    <2>3. latestAt' = latestAt \/ latestAt' = now
      BY <1>2 DEF LatestAt
    <2> QED BY <2>1, <2>2, <2>3, <1>1, <1>2, Numbers DEF Times
  <1>9. told = -1
    BY <1>1 DEF WaitingInv
  <1> QED BY <1>3, <1>5, <1>6, <1>7, <1>8, <1>9

LEMMA RoundInv == IInv /\ Round => IInv'
  <1> SUFFICES ASSUME IInv, Round PROVE IInv'
    OBVIOUS
  <1> USE PumpAssumption
  <1>1. Times /\ WaitingInv
    BY DEF IInv, Round
  <1>a. Times' /\ note = "" /\ Labels
    BY Consumed DEF IInv, Round
  <1>b. /\ now - Last' <= Silence + ProbeTime + PublishTime + Heartbeat
        /\ heard' <= Last' /\ Last' \in Nat
        /\ queued # -1 => /\ "transition" \in queue
                          /\ now - queued <= ProbeTime + PublishTime
    BY Consumed, <1>1, Numbers DEF Round, LatestAt, Last
  <1>2. /\ now' = now /\ round' = now /\ UNCHANGED <<spoke, heard>>
        /\ queue' = {} /\ queued' = -1
        /\ events' = ("transition" \in queue)
    BY DEF Round
  <1>c. linked' \in BOOLEAN /\ events' \in BOOLEAN /\ queue' \subseteq Kinds
    <2>1. linked' = linked /\ linked \in BOOLEAN
      BY <1>a DEF Round, Labels
    <2>2. events' \in BOOLEAN
      <3>1. events' = ("transition" \in queue)
        BY DEF Round
      <3>2. ("transition" \in queue) \in BOOLEAN
        OBVIOUS
      <3> QED BY <3>1, <3>2, Zenon
    <2> QED BY <2>1, <2>2, <1>2
  <1>3. Arrivals'
    BY <1>2, Consumed DEF Arrivals
  <1>4. QueueSinceRound' /\ HeardCounted'
    BY <1>2, Consumed DEF QueueSinceRound, HeardCounted
  <1>5. told' \in {-1, queued}
    BY Consumed DEF Round, Shown
  <1>6. CASE ProbeDue
    <2>1. /\ due' = now + ProbeTime /\ lastHealth' = now
          /\ pc' = "probing" /\ note' = note
      BY <1>6 DEF Round
    <2>t. /\ due' = now + ProbeTime /\ lastHealth' = now
      BY <2>1
    <2>2. ProbingInv'
      <3>1. told' # -1 => events' /\ round' - told' <= ProbeTime + PublishTime
        BY <1>1, <1>2, <1>5, <1>b, Numbers
      <3>2. round' - Last' <= Silence + ProbeTime + PublishTime + Heartbeat
        BY <1>2, <1>b
      <3>3. now' <= due' /\ lastHealth' = round' /\ due' <= round' + ProbeTime
        BY <2>t, <1>1, <1>2, Numbers
      <3> QED BY <3>1, <3>2, <3>3, <1>4, <1>b DEF ProbingInv
    <2>3. Labels'
      BY <1>a, <1>c, <2>1 DEF Labels
    <2> QED BY <1>a, <1>3, <2>1, <2>2, <2>3 DEF IInv, SpeakingKeepsAlive
  <1>7. CASE ~ProbeDue
    <2>1. /\ Checks(now, "transition" \in queue, latestAt')
          /\ lastHealth' = lastHealth /\ linked' = linked
      BY <1>7 DEF Round
    <2>2. now - lastHealth < ObdInterval
      BY <1>7, <1>1, Numbers DEF ProbeDue
    <2>3. SilentFor(now, latestAt') = now - Last'
      <3>1. now \in Int /\ latestAt' \in Int
        BY <1>1, Numbers DEF Round, LatestAt
      <3> QED BY <3>1, SilentForIs DEF Last
    <2>c. linked' \in BOOLEAN /\ events' \in BOOLEAN /\ queue' \subseteq Kinds
      BY <1>c
    <2>4. CASE End("link dropped")
      BY <2>4, <2>c, <1>a DEF End, IInv, Labels, SpeakingKeepsAlive
    <2>5. CASE SilentFor(now, latestAt') > Silence /\ End("no packets")
      <3>1. round' - heard' > Silence
        <4>1. now - Last' > Silence
          BY <2>5, <2>3
        <4>2. round' = now /\ heard' <= Last' /\ Last' \in Nat /\ heard' = heard
          BY <1>2, <1>b
        <4> QED BY <4>1, <4>2, <1>1, Numbers
      <3> QED BY <3>1, <2>5, <2>c, <1>a DEF End, IInv, Labels, SpeakingKeepsAlive
    <2>6. CASE ~(SilentFor(now, latestAt') > Silence) /\ Publish(now)
      <3>1. /\ due' = now + PublishTime /\ pc' = "publishing" /\ note' = note
            /\ told' = -1
        BY <2>6 DEF Publish, Round, Shown
      <3>2. PublishingInv'
        <4>1. /\ due' = now + PublishTime /\ told' = -1
              /\ lastHealth' = lastHealth /\ now - Last' <= Silence
          BY <3>1, <2>1, <2>3, <2>6, <1>1, <1>b, Numbers
        <4> QED BY <4>1, <2>2, <1>1, <1>2, <1>4, Numbers
                DEF PublishingInv, GateWithin
      <3> QED BY <3>1, <3>2, <2>c, <1>a, <1>3 DEF IInv, Labels, SpeakingKeepsAlive
    <2>7. CASE /\ ~(SilentFor(now, latestAt') > Silence)
               /\ ~("transition" \in queue)
               /\ Wait /\ UNCHANGED <<lastPublish, note>>
      <3>1. /\ due' = now + Heartbeat /\ pc' = "waiting" /\ note' = note
            /\ told' = -1
        BY <2>7, <1>5, Consumed DEF Wait
      <3>2. WaitingInv'
        <4>1. /\ due' = now + Heartbeat /\ told' = -1
              /\ lastHealth' = lastHealth /\ now - Last' <= Silence
          BY <3>1, <2>1, <2>3, <2>7, <1>1, <1>b, Numbers
        <4> QED BY <4>1, <2>2, <1>1, <1>2, <1>4, Numbers
                DEF WaitingInv, GateWithin
      <3> QED BY <3>1, <3>2, <2>c, <1>a, <1>3 DEF IInv, Labels, SpeakingKeepsAlive
    <2> QED BY <2>1, <2>4, <2>5, <2>6, <2>7, ChecksCases
  <1> QED BY <1>6, <1>7

LEMMA ProbeReturnsInv == IInv /\ ProbeReturns => IInv'
  <1> SUFFICES ASSUME IInv, ProbeReturns PROVE IInv'
    OBVIOUS
  <1> USE PumpAssumption
  <1>1. Times /\ Arrivals /\ ProbingInv
    BY DEF IInv, ProbeReturns
  <1>2. /\ UNCHANGED <<now, round, latestAt, lastHealth, queue, spoke, heard, queued>>
        /\ told' \in {-1, told}
    BY DEF ProbeReturns, Shown
  <1>a. Labels /\ note = ""
    BY DEF IInv, ProbeReturns
  <1>b. /\ linked' \in BOOLEAN /\ events' \in BOOLEAN /\ queue' \subseteq Kinds
    BY <1>a, <1>2 DEF Labels, ProbeReturns
  <1>3. Last' = Last /\ Arrivals' = Arrivals
    BY <1>2 DEF Last, Arrivals
  <1>4. SilentFor(round, latestAt) = round - Last
    <2>1. round \in Int /\ latestAt \in Int
      BY <1>1, Numbers
    <2> QED BY <2>1, SilentForIs DEF Last
  <1>5. \/ End("obd-blocked")
        \/ End("link dropped")
        \/ SilentFor(round, latestAt) > Silence /\ End("no packets")
        \/ ~(SilentFor(round, latestAt) > Silence) /\ Publish(round)
        \/ /\ ~(SilentFor(round, latestAt) > Silence) /\ ~events
           /\ Wait /\ UNCHANGED <<lastPublish, note>>
    BY ChecksCases DEF ProbeReturns
  <1>6. Times'
    <2>1. \/ due' = due /\ lastPublish' = lastPublish
          \/ due' = now + PublishTime /\ lastPublish' = round
          \/ due' = now + Heartbeat /\ lastPublish' = lastPublish
      BY <1>5 DEF End, Publish, Wait
    <2>2. due' \in Nat /\ lastPublish' \in {-Heartbeat} \cup 0..now
      BY <2>1, <1>1, Numbers DEF Times
    <2> QED BY <2>2, <1>1, <1>2, Numbers DEF Times
  <1>7. QueueSinceRound' /\ HeardCounted'
    BY <1>1, <1>2, <1>3 DEF QueueSinceRound, HeardCounted, ProbingInv
  <1>8. CASE End("obd-blocked") \/ End("link dropped")
    BY <1>8, <1>6, <1>b DEF End, IInv, Labels, SpeakingKeepsAlive
  <1>9. CASE SilentFor(round, latestAt) > Silence /\ End("no packets")
    <2>1. round' - heard' > Silence
      <3>1. round - Last > Silence
        BY <1>9, <1>4
      <3> QED BY <3>1, <1>1, <1>2, Numbers DEF ProbingInv
    <2> QED BY <2>1, <1>9, <1>6, <1>b DEF End, IInv, Labels, SpeakingKeepsAlive
  <1>10. CASE ~(SilentFor(round, latestAt) > Silence) /\ Publish(round)
    <2>1. /\ due' = now + PublishTime /\ pc' = "publishing" /\ note' = note
          /\ told' = -1
      BY <1>10 DEF Publish, ProbeReturns, Shown
    <2>2. PublishingInv'
      <3>1. /\ due' = now + PublishTime /\ told' = -1 /\ round - Last <= Silence
        BY <2>1, <1>10, <1>4, <1>1, Numbers
      <3> QED BY <3>1, <1>1, <1>2, <1>3, <1>7, Numbers
              DEF PublishingInv, GateWithin, ProbingInv
    <2> QED BY <2>1, <2>2, <1>1, <1>3, <1>6, <1>a, <1>b DEF IInv, Labels, SpeakingKeepsAlive
  <1>11. CASE /\ ~(SilentFor(round, latestAt) > Silence) /\ ~events
              /\ Wait /\ UNCHANGED <<lastPublish, note>>
    <2>1. due' = now + Heartbeat /\ pc' = "waiting" /\ note' = note
      BY <1>11 DEF Wait
    <2>2. WaitingInv'
      <3>1. due' = now + Heartbeat /\ told' = -1 /\ round - Last <= Silence
        BY <2>1, <1>2, <1>11, <1>4, <1>1, Numbers DEF ProbingInv
      <3> QED BY <3>1, <1>1, <1>2, <1>3, <1>7, Numbers
              DEF WaitingInv, GateWithin, ProbingInv, QueueSinceRound
    <2> QED BY <2>1, <2>2, <1>1, <1>3, <1>6, <1>a, <1>b DEF IInv, Labels, SpeakingKeepsAlive
  <1> QED BY <1>5, <1>8, <1>9, <1>10, <1>11

LEMMA PublishReturnsInv == IInv /\ PublishReturns => IInv'
  <1> SUFFICES ASSUME IInv, PublishReturns PROVE IInv'
    OBVIOUS
  <1> USE PumpAssumption
  <1>1. Times /\ Arrivals /\ PublishingInv
    BY DEF IInv, PublishReturns
  <1>2. /\ UNCHANGED <<now, round, events, latestAt, lastHealth, lastPublish,
                       queue, linked, spoke, heard, queued, told>>
        /\ due' = now + Heartbeat
    BY DEF PublishReturns, Wait, pumpVars, history
  <1>3. Labels' /\ Labels /\ pc' = "waiting" /\ note' = note /\ note = ""
    BY DEF PublishReturns, Wait, pumpVars, IInv, Labels
  <1>4. Times'
    BY <1>1, <1>2, Numbers DEF Times
  <1>5. Arrivals'
    BY <1>1, <1>2 DEF Arrivals, Last
  <1>6. WaitingInv'
    BY <1>1, <1>2, Numbers
       DEF WaitingInv, PublishingInv, GateWithin, QueueSinceRound, HeardCounted, Last
  <1> QED BY <1>3, <1>4, <1>5, <1>6 DEF IInv, SpeakingKeepsAlive

LEMMA NextIInv == IInv /\ [Next]_vars => IInv'
  <1> SUFFICES ASSUME IInv, [Next]_vars PROVE IInv'
    OBVIOUS
  <1>1. CASE UNCHANGED vars
    <2>1. UNCHANGED <<now, pc, due, round, events, latestAt, lastHealth, lastPublish,
                      queue, linked, note, spoke, heard, queued, told>>
      BY <1>1 DEF vars, pumpVars, history
    <2>2. Times' = Times /\ Labels' = Labels
      BY <2>1 DEF Times, Labels
    <2>3. /\ Arrivals' = Arrivals /\ WaitingInv' = WaitingInv
          /\ PublishingInv' = PublishingInv /\ ProbingInv' = ProbingInv
      BY <2>1 DEF Arrivals, WaitingInv, PublishingInv, ProbingInv, GateWithin,
           QueueSinceRound, HeardCounted, Last
    <2> QED BY <2>1, <2>2, <2>3 DEF IInv, SpeakingKeepsAlive
  <1>2. CASE Next
    BY <1>2, TickInv, NotifyInv, DropInv, RoundInv, ProbeReturnsInv,
       PublishReturnsInv DEF Next
  <1> QED BY <1>1, <1>2

-----------------------------------------------------------------------------

\* Every reachable state of the pump satisfies the inductive invariant.
THEOREM PumpInvariant == Spec => []IInv
  BY InitIInv, NextIInv, PTL DEF Spec

\* The variables keep their types, and no await outlasts its bound.
THEOREM PumpTypes == Spec => []TypeOK
  <1>1. IInv => TypeOK
    BY Zenon DEF IInv, TypeOK, Times, Labels, WaitingInv, PublishingInv, ProbingInv
  <1> QED BY <1>1, PumpInvariant, PTL

\* No session is given up as silent while telemetry keeps arriving, nor for
\* the silence of an earlier one.
THEOREM SpeakersLive == Spec => []SpeakingKeepsAlive
  BY PumpInvariant, PTL DEF IInv

\* How long after the last packet a session can still be held.
THEOREM SilenceBound == Spec => []SilenceNoticed
  <1>1. IInv => SilenceNoticed
    <2> SUFFICES ASSUME IInv, pc # "over"
                 PROVE  now - spoke <= Silence + Heartbeat + 2 * PublishTime
                                         + 3 * ProbeTime
      BY DEF SilenceNoticed
    <2>1. Times /\ Arrivals /\ (WaitingInv \/ PublishingInv \/ ProbingInv)
      BY DEF IInv, Labels
    <2> QED BY <2>1, Numbers, PumpAssumption
            DEF Arrivals, WaitingInv, PublishingInv, ProbingInv, GateWithin
  <1> QED BY <1>1, PumpInvariant, PTL

\* How long the OBD gate can go unasked, whatever the probe, the publishes and
\* the packets do.
THEOREM GateBound == Spec => []GateCadence
  <1>1. IInv => GateCadence
    <2> SUFFICES ASSUME IInv, pc # "over"
                 PROVE  now - lastHealth < Max({ObdInterval, ProbeTime + 1})
                                             + Heartbeat + PublishTime
      BY DEF GateCadence
    <2>1. Times /\ (WaitingInv \/ PublishingInv \/ ProbingInv)
      BY DEF IInv, Labels
    <2>2. Max({ObdInterval, ProbeTime + 1})
            = IF ObdInterval >= ProbeTime + 1 THEN ObdInterval ELSE ProbeTime + 1
      BY MaxOfTwo, PumpAssumption
    <2> QED BY <2>1, <2>2, Numbers, PumpAssumption
            DEF WaitingInv, PublishingInv, ProbingInv, GateWithin
  <1> QED BY <1>1, PumpInvariant, PTL

\* No transition, queued or consumed, waits for the heartbeat.
THEOREM TransitionBound == Spec => []TransitionsPublished
  <1>1. IInv => TransitionsPublished
    <2> SUFFICES ASSUME IInv, pc # "over", NEW oldest \in {queued, told} \ {-1}
                 PROVE  now - oldest <= PublishTime + 2 * ProbeTime
      BY DEF TransitionsPublished
    <2>1. Times /\ (WaitingInv \/ PublishingInv \/ ProbingInv)
      BY DEF IInv, Labels
    <2> QED BY <2>1, Numbers, PumpAssumption
            DEF WaitingInv, PublishingInv, ProbingInv, GateWithin, QueueSinceRound
  <1> QED BY <1>1, PumpInvariant, PTL
=============================================================================
