-------------------------------- MODULE Pump --------------------------------
(***************************************************************************)
(* _Session._pump on a clock: the wait for a packet or the heartbeat, the  *)
(* OBD probe, the link check, the silence limit, and the publish on a      *)
(* transition or a heartbeat.  Times are ticks from the moment the pump    *)
(* starts (streaming_since).  Time passes only in the pump's three awaits: *)
(* its wait, the probe's thread and a publish; what lies between them is   *)
(* one step.  A stop request and the deadline are in module Collector.     *)
(***************************************************************************)
EXTENDS Integers, FiniteSets, FiniteSetsExt

CONSTANTS
  Heartbeat,       \* collector.heartbeat_seconds
  ObdInterval,     \* obd.interval_seconds
  Silence,         \* SILENCE_TIMEOUT_SECONDS
  ProbeTime,       \* bound: the longest an OBD probe takes
  PublishTime,     \* bound: the longest a publish takes
  MaxTime          \* bound: when the clock stops

ASSUME PumpAssumption ==
  /\ Heartbeat \in Nat \ {0} /\ ObdInterval \in Nat \ {0}
  /\ Silence \in Nat
  /\ ProbeTime \in Nat /\ PublishTime \in Nat /\ MaxTime \in Nat

VARIABLES
  now,             \* the monotonic clock
  pc,              \* the await the pump is in, or "over"
  due,             \* when that await ends at the latest
  round,           \* the pump's local now: when its round began
  events,          \* its local events: the round consumed a transition
  queue,           \* the kinds of the packets in the ingest queue
  latestAt,        \* state.latest_at
  lastHealth, lastPublish,
  linked,          \* client.is_connected
  note,            \* why the session ends
  spoke,           \* history: when the last packet arrived
  heard,           \* history: when the last telemetry packet arrived that the
                   \* round in progress could see
  queued,          \* history: when the oldest transition in the queue
                   \* arrived, -1 when there is none
  told             \* history: the same for the oldest that was consumed and
                   \* that no publish has shown

pumpVars == <<round, events, latestAt, lastHealth, lastPublish>>
history == <<spoke, heard, queued, told>>
vars == <<now, pc, due, pumpVars, queue, linked, note, history>>

\* An alert snapshot that changes no track makes no transition.
Kinds == {"telemetry", "alert", "transition"}

\* A session may inherit the reading of an earlier one, long before it began.
Init ==
  /\ now = 0
  /\ pc = "waiting"
  /\ due = Heartbeat
  /\ round = 0
  /\ events = FALSE
  /\ queue = {}
  /\ latestAt \in {-2 * Silence, 0}
  /\ lastHealth = 0
  /\ lastPublish = -Heartbeat
  /\ linked = TRUE
  /\ note = ""
  /\ spoke = 0
  /\ heard = 0
  /\ queued = -1
  /\ told = -1

-----------------------------------------------------------------------------

Tick ==
  /\ now < MaxTime
  /\ now < due
  /\ pc = "waiting" => queue = {}
  /\ pc # "over"
  /\ now' = now + 1
  /\ UNCHANGED <<pc, due, pumpVars, queue, linked, note, history>>

\* _on_notification.
Notify(kind) ==
  /\ pc # "over"
  /\ linked
  /\ queue' = queue \cup {kind}
  /\ spoke' = now
  /\ heard' = IF kind = "telemetry" /\ pc # "probing" THEN now ELSE heard
  /\ queued' = IF kind = "transition" /\ queued = -1 THEN now ELSE queued
  /\ UNCHANGED <<now, pc, due, pumpVars, linked, note, told>>

\* The link drops without a word.
Drop ==
  /\ linked
  /\ linked' = FALSE
  /\ UNCHANGED <<now, pc, due, pumpVars, queue, note, history>>

-----------------------------------------------------------------------------

\* The head of the loop: wait for a packet, a heartbeat at most.
Wait ==
  /\ pc' = "waiting"
  /\ due' = now + Heartbeat

End(why) ==
  /\ pc' = "over"
  /\ note' = why
  /\ UNCHANGED <<due, lastPublish>>

Publish(at) ==
  /\ pc' = "publishing"
  /\ due' = now + PublishTime
  /\ lastPublish' = at
  /\ UNCHANGED note

\* A publish shows what was consumed before it.
Shown(consumed) == told' = IF pc' = "publishing" THEN -1 ELSE consumed

\* Mutant of SilentFor: the silence of an earlier session is charged too.
SilentSinceReading(at, latest) == at - latest

\* Mutant of SilentFor: a session that never had a reading is not silent.
SilentOnceRead(at, latest) == IF latest < 0 THEN 0 ELSE at - Max({0, latest})

\* How long a session has been without telemetry, from the pump's start at 0.
SilentFor(at, latest) == at - Max({0, latest})

\* Mutant of Checks: a publish waits for the heartbeat.
ChecksOnHeartbeat(at, moved, latest) ==
  CASE ~linked -> End("link dropped")
    [] linked /\ SilentFor(at, latest) > Silence -> End("no packets")
    [] OTHER ->
         IF at - lastPublish >= Heartbeat
         THEN Publish(at)
         ELSE Wait /\ UNCHANGED <<lastPublish, note>>

\* The rest of a round that began at the given time.
Checks(at, moved, latest) ==
  CASE ~linked -> End("link dropped")
    [] linked /\ SilentFor(at, latest) > Silence -> End("no packets")
    [] OTHER ->
         IF moved \/ at - lastPublish >= Heartbeat
         THEN Publish(at)
         ELSE Wait /\ UNCHANGED <<lastPublish, note>>

\* Mutant of ProbeDue: only a quiet round probes.
ProbeDueWhenQuiet == queue = {} /\ now - lastHealth >= ObdInterval

ProbeDue == now - lastHealth >= ObdInterval

\* record_telemetry dates a reading from when it is consumed.
LatestAt == IF "telemetry" \in queue THEN now ELSE latestAt

\* The wait is over: consume, and probe when the probe is due.
Round ==
  /\ pc = "waiting"
  /\ queue # {} \/ now = due
  /\ round' = now
  /\ events' = ("transition" \in queue)
  /\ latestAt' = LatestAt
  /\ queue' = {}
  /\ IF ProbeDue
     THEN /\ pc' = "probing"
          /\ due' = now + ProbeTime
          /\ lastHealth' = now
          /\ UNCHANGED <<lastPublish, note>>
     ELSE /\ Checks(now, "transition" \in queue, latestAt')
          /\ UNCHANGED lastHealth
  /\ queued' = -1
  /\ Shown(IF told = -1 THEN queued ELSE told)
  /\ UNCHANGED <<now, linked, spoke, heard>>

\* The probe answers; the round goes on with the time it began at.
ProbeReturns ==
  /\ pc = "probing"
  /\ \/ End("obd-blocked")
     \/ Checks(round, events, latestAt)
  /\ Shown(told)
  /\ UNCHANGED <<now, round, events, latestAt, lastHealth, queue, linked,
                 spoke, heard, queued>>

PublishReturns ==
  /\ pc = "publishing"
  /\ Wait
  /\ UNCHANGED <<now, pumpVars, queue, linked, note, history>>

Next ==
  \/ Tick
  \/ \E kind \in Kinds : Notify(kind)
  \/ Drop
  \/ Round
  \/ ProbeReturns
  \/ PublishReturns

Spec == Init /\ [][Next]_vars

-----------------------------------------------------------------------------
(***************************************************************************)
(* Properties.                                                             *)
(***************************************************************************)

\* Every variable has its type, and no await of the pump outlasts its bound.
TypeOK ==
  /\ now \in 0..MaxTime
  /\ pc \in {"waiting", "probing", "publishing", "over"}
  /\ due \in Nat /\ (pc # "over" => now <= due)
  /\ round \in 0..now
  /\ events \in BOOLEAN
  /\ queue \subseteq Kinds
  /\ latestAt \in {-2 * Silence} \cup 0..now
  /\ lastHealth \in 0..now
  /\ lastPublish \in {-Heartbeat} \cup 0..now
  /\ linked \in BOOLEAN
  /\ note \in {"", "link dropped", "no packets", "obd-blocked"}
  /\ spoke \in 0..now /\ heard \in 0..now
  /\ queued \in -1..now /\ told \in -1..now

\* A session is given up as silent only after a full silence limit in which
\* neither it began nor a telemetry packet came that the round could see, so
\* no session is charged for an earlier one's silence (the comment on
\* streaming_since in _pump).
SpeakingKeepsAlive == note = "no packets" => round - heard > Silence

\* A session in which nothing is received any more is given up within a
\* heartbeat of the limit and the time that publishes and probes take, the two
\* rounds at either end included ("nothing else detects it", _pump).
SilenceNoticed ==
  pc # "over" =>
    now - spoke <= Silence + Heartbeat + 2 * PublishTime + 3 * ProbeTime

\* The OBD gate is asked again within its interval, or a probe that outlasts
\* the interval, and one round of the pump (docs/CONFIGURATION.md: the check
\* happens when the streaming loop wakes).
GateCadence ==
  pc # "over" =>
    now - lastHealth
      < Max({ObdInterval, ProbeTime + 1}) + Heartbeat + PublishTime

\* A transition is published without waiting for the heartbeat: it waits for
\* no more than the publish and the probes that are in its way.
TransitionsPublished ==
  pc # "over" =>
    \A oldest \in {queued, told} \ {-1} :
      now - oldest <= PublishTime + 2 * ProbeTime
=============================================================================
