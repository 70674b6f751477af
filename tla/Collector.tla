------------------------------ MODULE Collector ------------------------------
(***************************************************************************)
(* The run loop of the collector and the session it holds: the OBD gate,   *)
(* the detector's link, the streaming pump, the teardown, the backoff and  *)
(* the trial deadline that cancels a session wherever it is waiting.       *)
(*                                                                         *)
(* One asyncio task runs all of it, so a step is the code between two      *)
(* awaits; stop requests, notifications and the deadline come between      *)
(* steps.  stage names the await the session is in.  Bounded awaits return *)
(* or raise, never hang; how long they take is abstracted, so whether a    *)
(* probe, a heartbeat or the silence limit is due is a free choice (module *)
(* Pump keeps the clock).  Publishing is reduced to the document built by  *)
(* the call (module StatePublisher has the writers).  An alert snapshot is *)
(* the set of threats it shows and whether it could be read in full; a     *)
(* telemetry packet takes room in the queue and changes nothing else.  A   *)
(* threat matches its own track.                                           *)
(***************************************************************************)
EXTENDS Naturals, Sequences, FiniteSets

CONSTANTS
  Threats,           \* the threats the detector may report
  QueueSize,         \* records the ingest queue holds beside the gap
  LastAttempt        \* the last attempt whose backoff can be computed

ASSUME CollectorAssumption ==
  /\ QueueSize \in Nat \ {0}
  /\ LastAttempt \in Nat \ {0}

VARIABLES
  pc,                \* where run() is
  stop,              \* the stop event
  deadline,          \* of a trial, ahead or passed; none for a continuous run
  obd,               \* state.obd.healthy
  attempt,           \* the backoff's attempt counter
  everCompatible,    \* ever_compatible
  stage,             \* the await _Session.run is in
  link,              \* a BLE link is held
  subscribed,        \* subscriptions to be stopped at teardown
  queue,             \* the session's ingest queue, oldest first
  hole,              \* its gap is pending
  open,              \* the tracks the session's tracker holds open
  missed,            \* those of them the last snapshot did not show
  transitions,       \* the pump has transitions it has not published
  cancelled,         \* the session is being cancelled
  status, connected, compatible, note, alerts, tracks,   \* CollectorState
  doc,               \* the last document built for publishing
  live,              \* history: threats started and not ended in the events
  asked              \* history: a signal asked for the stop

runVars == <<pc, attempt, everCompatible>>
sessionVars == <<stage, link, subscribed, queue, hole, open, missed,
                 transitions, cancelled>>
stateVars == <<obd, status, connected, compatible, note, alerts, tracks>>
outward == <<doc, live>>
vars == <<runVars, stop, deadline, sessionVars, stateVars, outward, asked>>

InTrial == deadline # "none"
Expired == deadline = "passed"

Kinds == {"telemetry", "alert"}
Snapshots == [kind : {"alert"}, shows : SUBSET Threats, recognised : BOOLEAN]
Telemetry == [kind : {"telemetry"}]

\* The awaits of a session that holds the link and may be receiving.
Streaming == {"announcing", "waiting", "probing", "blocked", "refreshing",
              "unsubscribing"}
\* The awaits of the try block whose finally tears the session down.
Guarded == {"degraded", "announcing", "waiting", "probing", "blocked",
            "refreshing"}
Stages == {"none", "opening", "reading", "absent", "subscribing", "degraded",
           "releasing"} \cup Streaming

Init ==
  /\ pc = "top"
  /\ stop = FALSE
  /\ deadline \in {"none", "ahead"}
  /\ obd = FALSE
  /\ attempt = 0
  /\ everCompatible = FALSE
  /\ stage = "none"
  /\ link = FALSE
  /\ subscribed = {}
  /\ queue = <<>>
  /\ hole = FALSE
  /\ open = {}
  /\ missed = {}
  /\ transitions = FALSE
  /\ cancelled = FALSE
  /\ status = "starting"
  /\ connected = FALSE
  /\ compatible = FALSE
  /\ note = ""
  /\ alerts = {}
  /\ tracks = {}
  /\ doc = [status |-> "none", connected |-> FALSE, compatible |-> FALSE,
            note |-> "", alerts |-> {}, tracks |-> {}]
  /\ live = {}
  /\ asked = FALSE

-----------------------------------------------------------------------------
(***************************************************************************)
(* Consuming the queue.                                                    *)
(***************************************************************************)

\* AlertTracker.observe: a second miss in a row ends a track, and a snapshot
\* that could not be read in full charges no misses.
Observe(v, s) ==
  IF s.kind = "telemetry" THEN v ELSE
  LET gone == IF s.recognised THEN v.missed \ s.shows ELSE {}
  IN  [alerts |-> s.shows,
       open   |-> (v.open \cup s.shows) \ gone,
       missed |-> IF s.recognised THEN (v.open \ s.shows) \ gone
                                  ELSE v.missed \ s.shows,
       live   |-> (v.live \cup (s.shows \ v.open)) \ gone,
       moved  |-> v.moved \/ gone # {} \/ s.shows \ v.open # {}]

\* The view before any record of a pass is consumed.
Unseen == [alerts |-> alerts, open |-> open, missed |-> missed,
           live |-> live, moved |-> FALSE]

\* _consume and _dispatch: every queued record is applied in order.
Consumed(records) ==
  LET seen[i \in 0..Len(records)] ==
        IF i = 0 THEN Unseen ELSE Observe(seen[i - 1], records[i])
  IN  seen[Len(records)]

\* The document publish_state_async builds from the state as it now is.
Published ==
  doc' = [status |-> status', connected |-> connected',
          compatible |-> compatible', note |-> note', alerts |-> alerts',
          tracks |-> tracks']

\* _Session._publish copies the open tracks into the state first.
SessionPublished == tracks' = open' /\ Published

-----------------------------------------------------------------------------
(***************************************************************************)
(* The run loop.                                                           *)
(***************************************************************************)

\* The loop goes round: the probe starts on its thread.
GoRound ==
  /\ pc = "top"
  /\ ~stop /\ ~Expired
  /\ pc' = "gating"
  /\ UNCHANGED <<stop, deadline, attempt, everCompatible, sessionVars, stateVars,
                 outward, asked>>

\* Mutant of Gate: the verdict is published and not obeyed.
GateIgnored ==
  /\ pc = "gating"
  /\ connected' = FALSE
  /\ obd' \in BOOLEAN
  /\ status' = "connecting"
  /\ pc' = "connecting"
  /\ UNCHANGED <<compatible, attempt, note, alerts, tracks>>
  /\ Published
  /\ UNCHANGED <<stop, deadline, everCompatible, sessionVars, live, asked>>

\* The probe's verdict on the OBD link: connect, or back off.
Gate ==
  /\ pc = "gating"
  /\ connected' = FALSE
  /\ obd' \in BOOLEAN
  /\ IF obd'
     THEN /\ status' = "connecting"
          /\ pc' = "connecting"
          /\ UNCHANGED <<compatible, attempt>>
     ELSE /\ status' = "obd-blocked"
          /\ compatible' = FALSE
          /\ attempt' = attempt + 1
          /\ pc' = "paused"
  /\ UNCHANGED <<note, alerts, tracks>>
  /\ Published
  /\ UNCHANGED <<stop, deadline, everCompatible, sessionVars, live, asked>>

\* A fresh session, with a queue and a tracker of its own.
BeginSession ==
  /\ pc = "connecting"
  /\ ~Expired
  /\ pc' = "session"
  /\ stage' = "opening"
  /\ subscribed' = {}
  /\ queue' = <<>>
  /\ hole' = FALSE
  /\ open' = {}
  /\ missed' = {}
  /\ transitions' = FALSE
  /\ cancelled' = FALSE
  /\ UNCHANGED <<stop, deadline, attempt, everCompatible, link, stateVars,
                 outward, asked>>

\* run leaves its loop: stop or the deadline, found between sessions.
LeaveLoop ==
  /\ \/ pc = "top" /\ (stop \/ Expired)
     \/ pc = "connecting" /\ Expired
  /\ pc' = "finishing"
  /\ UNCHANGED <<stop, deadline, attempt, everCompatible, sessionVars, stateVars,
                 outward, asked>>

\* A timeout of any kind is put down to the deadline when there is one.
TimeoutNote == IF InTrial THEN "trial deadline" ELSE "session timed out"

\* Mutant of EndSession: state.connected is not reset on the way out.
EndSessionConnected(result) ==
  /\ stage' = "none"
  /\ link' = FALSE
  /\ note' = note
  /\ everCompatible' = (everCompatible \/ compatible)
  /\ UNCHANGED <<obd, compatible, connected, alerts, tracks>>
  /\ IF stop \/ Expired
     THEN /\ pc' = "finishing"
          /\ UNCHANGED <<attempt, status, doc>>
     ELSE /\ pc' = "paused"
          /\ attempt' \in IF result = "returned" THEN {0, attempt + 1}
                                                 ELSE {attempt + 1}
          /\ status' = "reconnecting"
          /\ Published
  /\ UNCHANGED <<stop, deadline, subscribed, queue, hole, open, missed,
                 transitions, cancelled, live, asked>>

\* After session.run returned or raised, up to the publish of reconnecting.
EndSession(result) ==
  /\ stage' = "none"
  /\ link' = FALSE
  /\ connected' = FALSE
  /\ note' = CASE result = "failed" -> "session failed"
               [] result = "timed out" \/ cancelled -> TimeoutNote
               [] OTHER -> note
  /\ everCompatible' = (everCompatible \/ compatible)
  /\ UNCHANGED <<obd, compatible, alerts, tracks>>
  /\ IF stop \/ Expired
     THEN /\ pc' = "finishing"
          /\ UNCHANGED <<attempt, status, doc>>
     ELSE /\ pc' = "paused"
          /\ attempt' \in IF result = "returned" THEN {0, attempt + 1}
                                                 ELSE {attempt + 1}
          /\ status' = "reconnecting"
          /\ Published
  /\ UNCHANGED <<stop, deadline, subscribed, queue, hole, open, missed,
                 transitions, cancelled, live, asked>>

\* _wait after a computed backoff: it elapses, or stop or the deadline ends it.
Resume ==
  /\ pc = "paused"
  /\ attempt <= LastAttempt
  /\ pc' = "top"
  /\ UNCHANGED <<stop, deadline, attempt, everCompatible, sessionVars, stateVars,
                 outward, asked>>

\* next_backoff raises OverflowError: the float power has no value.
BackoffRaises ==
  /\ pc = "paused"
  /\ attempt > LastAttempt
  /\ pc' = "finishing"
  /\ UNCHANGED <<stop, deadline, attempt, everCompatible, sessionVars, stateVars,
                 outward, asked>>

\* The finally of run, up to the publish of stopped.
Finish ==
  /\ pc = "finishing"
  /\ pc' = "closing"
  /\ stop' = TRUE
  /\ connected' = FALSE
  /\ compatible' = FALSE
  /\ status' = "stopped"
  /\ note' = IF note = "" THEN "clean shutdown" ELSE note
  /\ UNCHANGED <<obd, alerts, tracks>>
  /\ Published
  /\ UNCHANGED <<deadline, attempt, everCompatible, sessionVars, live, asked>>

\* The sinks close and run returns.
Close ==
  /\ pc = "closing"
  /\ pc' = "exited"
  /\ UNCHANGED <<stop, deadline, attempt, everCompatible, sessionVars, stateVars,
                 outward, asked>>

-----------------------------------------------------------------------------
(***************************************************************************)
(* The session.                                                            *)
(***************************************************************************)

\* The link is up: check_compatibility, and for a table that lacks an
\* attribute, the publish that says so.
Connect ==
  /\ stage = "opening"
  /\ link' = TRUE
  /\ connected' = TRUE
  /\ UNCHANGED <<alerts, open>>
  /\ \/ /\ compatible' = TRUE
        /\ note' = ""
        /\ stage' = "reading"
        /\ UNCHANGED <<status, tracks, doc>>
     \/ /\ compatible' = FALSE
        /\ status' = "incompatible"
        /\ note' = "attributes absent"
        /\ stage' = "absent"
        /\ SessionPublished
  /\ UNCHANGED <<runVars, stop, deadline, obd, subscribed, queue, hole, missed,
                 transitions, cancelled, live, asked>>

\* The connect, or anything else before the first read, raises.
ConnectFails ==
  /\ stage = "opening"
  /\ \E result \in {"failed", "timed out"} : EndSession(result)

\* What one pass of the consumer does to the view, the tracker and the events.
Consume(records) ==
  LET seen == Consumed(records)
  IN  /\ alerts' = seen.alerts
      /\ open' = seen.open
      /\ missed' = seen.missed
      /\ live' = seen.live
      /\ queue' = <<>>
      /\ hole' = FALSE

NoteAfterConsume == IF hole THEN "notifications dropped" ELSE note

\* The two bounded reads; an alert snapshot came back or did not.
ReadInitial ==
  /\ stage = "reading"
  /\ \E payload \in {<<>>} \cup {<<s>> : s \in Snapshots} : Consume(payload)
  /\ stage' = "subscribing"
  /\ UNCHANGED <<runVars, stop, deadline, obd, status, connected, compatible,
                 note, tracks, link, subscribed, transitions, cancelled, doc,
                 asked>>

\* The two bounded subscriptions, any of which may fail, and the publish of
\* streaming, or of degraded when there is none.
Subscribe ==
  /\ stage = "subscribing"
  /\ subscribed' \in SUBSET Kinds
  /\ note' = IF subscribed' = Kinds THEN note ELSE "partial subscription"
  /\ status' = IF subscribed' = {} THEN "degraded" ELSE "streaming"
  /\ stage' = IF subscribed' = {} THEN "degraded" ELSE "announcing"
  /\ UNCHANGED <<runVars, stop, deadline, obd, connected, compatible, alerts,
                 link, queue, hole, open, missed, transitions, cancelled, live,
                 asked>>
  /\ SessionPublished

\* _on_notification, as soon as the subscription is being made; the oldest
\* record makes room.
Notify(s) ==
  /\ stage = "subscribing" \/ (stage \in Streaming /\ s.kind \in subscribed)
  /\ IF Len(queue) < QueueSize
     THEN queue' = Append(queue, s) /\ hole' = hole
     ELSE queue' = Append(Tail(queue), s) /\ hole' = TRUE
  /\ UNCHANGED <<runVars, stop, deadline, stateVars, stage, link, subscribed,
                 open, missed, transitions, cancelled, outward, asked>>

\* Mutant of PumpHead: the pump does not look at the deadline.
PumpHeadTimeless == IF stop THEN "unsubscribing" ELSE "waiting"

\* The head of the pump's loop: leave on stop or at the deadline, else wait.
PumpHead == IF stop \/ Expired THEN "unsubscribing" ELSE "waiting"

\* A publish inside the session returns.
PublishReturns ==
  /\ \/ stage \in {"announcing", "refreshing"} /\ stage' = PumpHead
     \/ stage \in {"blocked", "degraded"} /\ stage' = "unsubscribing"
     \/ stage = "absent" /\ stage' = "releasing"
  /\ UNCHANGED <<runVars, stop, deadline, stateVars, link, subscribed, queue,
                 hole, open, missed, transitions, cancelled, outward, asked>>

\* The rest of a round of the pump, once the OBD gate has had its say: the
\* link is down, or silent for too long, or there is something to publish
\* (a transition or the heartbeat), or nothing.
Checks(moved, remark) ==
  \/ /\ note' \in {"link dropped", "no packets"}
     /\ stage' = "unsubscribing"
     /\ UNCHANGED <<tracks, doc>>
  \/ /\ note' = remark
     /\ stage' = "refreshing"
     /\ SessionPublished
  \/ /\ ~moved
     /\ note' = remark
     /\ stage' = PumpHead
     /\ UNCHANGED <<tracks, doc>>

\* A round of the pump: stop ends it; otherwise the queue is consumed and,
\* when the OBD probe is due, the probe starts on its thread.
PumpRound ==
  /\ stage = "waiting"
  /\ ~stop
  /\ Consume(queue)
  /\ UNCHANGED <<obd, status, connected, compatible>>
  /\ \/ /\ transitions' = Consumed(queue).moved
        /\ note' = NoteAfterConsume
        /\ stage' = "probing"
        /\ UNCHANGED <<tracks, doc>>
     \/ /\ transitions' = FALSE
        /\ Checks(Consumed(queue).moved, NoteAfterConsume)
  /\ UNCHANGED <<runVars, stop, deadline, link, subscribed, cancelled, asked>>

\* Mutant of PumpStops: the wait is not raced against the stop event.
PumpStopsUnheard ==
  /\ stage = "waiting"
  /\ stop
  /\ stage' = "waiting"
  /\ UNCHANGED <<runVars, stop, deadline, stateVars, link, subscribed, queue,
                 hole, open, missed, transitions, cancelled, outward, asked>>

PumpStops ==
  /\ stage = "waiting"
  /\ stop
  /\ stage' = "unsubscribing"
  /\ UNCHANGED <<runVars, stop, deadline, stateVars, link, subscribed, queue,
                 hole, open, missed, transitions, cancelled, outward, asked>>

\* Mutant of ProbeReturns: an unhealthy OBD link is noted and streaming goes on.
ProbeNoted ==
  /\ stage = "probing"
  /\ obd' \in BOOLEAN
  /\ transitions' = FALSE
  /\ UNCHANGED <<connected, compatible, alerts, open, status>>
  /\ Checks(transitions, note)
  /\ UNCHANGED <<runVars, stop, deadline, link, subscribed, queue, hole, missed,
                 cancelled, live, asked>>

\* The probe in the pump answers.
ProbeReturns ==
  /\ stage = "probing"
  /\ obd' \in BOOLEAN
  /\ transitions' = FALSE
  /\ UNCHANGED <<connected, compatible, alerts, open>>
  /\ IF obd'
     THEN UNCHANGED status /\ Checks(transitions, note)
     ELSE /\ status' = "obd-blocked"
          /\ note' = note
          /\ stage' = "blocked"
          /\ SessionPublished
  /\ UNCHANGED <<runVars, stop, deadline, link, subscribed, queue, hole, missed,
                 cancelled, live, asked>>

\* One bounded stop_notify of the finally, telemetry first; its failure is
\* suppressed.
Unsubscribe ==
  /\ stage = "unsubscribing"
  /\ subscribed # {}
  /\ subscribed' = IF "telemetry" \in subscribed THEN subscribed \ {"telemetry"}
                                                 ELSE {}
  /\ UNCHANGED <<runVars, stop, deadline, stateVars, stage, link, queue, hole,
                 open, missed, transitions, cancelled, outward, asked>>

\* Mutant of Teardown: what is on screen is cleared, the tracks are not closed.
TeardownWithoutClose ==
  /\ stage = "unsubscribing"
  /\ subscribed = {}
  /\ LET seen == Consumed(queue)
     IN  live' = seen.live /\ open' = seen.open /\ missed' = seen.missed
  /\ alerts' = {}
  /\ tracks' = {}
  /\ queue' = <<>>
  /\ hole' = FALSE
  /\ note' = NoteAfterConsume
  /\ stage' = "releasing"
  /\ UNCHANGED <<runVars, stop, deadline, obd, status, connected, compatible,
                 link, subscribed, transitions, cancelled, doc, asked>>

\* Mutant of Teardown: the alerts are cleared and the open-track list is not.
TeardownKeepingTracks ==
  /\ stage = "unsubscribing"
  /\ subscribed = {}
  /\ LET seen == Consumed(queue)
     IN  live' = seen.live \ seen.open
  /\ open' = {}
  /\ missed' = {}
  /\ alerts' = {}
  /\ tracks' = tracks
  /\ queue' = <<>>
  /\ hole' = FALSE
  /\ note' = NoteAfterConsume
  /\ stage' = "releasing"
  /\ UNCHANGED <<runVars, stop, deadline, obd, status, connected, compatible,
                 link, subscribed, transitions, cancelled, doc, asked>>

\* The rest of the finally, which does not wait: consume what is left, end
\* every open track, forget what was on screen.
Teardown ==
  /\ stage = "unsubscribing"
  /\ subscribed = {}
  /\ LET seen == Consumed(queue)
     IN  live' = seen.live \ seen.open
  /\ open' = {}
  /\ missed' = {}
  /\ alerts' = {}
  /\ tracks' = {}
  /\ queue' = <<>>
  /\ hole' = FALSE
  /\ note' = NoteAfterConsume
  /\ stage' = "releasing"
  /\ UNCHANGED <<runVars, stop, deadline, obd, status, connected, compatible,
                 link, subscribed, transitions, cancelled, doc, asked>>

\* Leaving the async with disconnects, and may raise.
Release ==
  /\ stage = "releasing"
  /\ \E result \in {"returned", "failed", "timed out"} : EndSession(result)

\* wait_for cancels the session at the trial deadline, at whatever await it is
\* in.  A cancelled try block still runs its finally; a finally cancelled in
\* one of its own awaits runs no further, because suppress(Exception) does not
\* catch a cancellation; the link is released in every case.
Cancel ==
  /\ Expired
  /\ ~cancelled
  /\ cancelled' = TRUE
  /\ \/ /\ stage \in {"opening", "reading", "absent", "releasing"}
        /\ stage' = "releasing"
        /\ subscribed' = subscribed
     \/ /\ stage = "subscribing"
        /\ subscribed' \in {{}, {"telemetry"}}
        /\ stage' = "unsubscribing"
     \/ /\ stage \in Guarded
        /\ stage' = "unsubscribing"
        /\ subscribed' = subscribed
     \/ /\ stage = "unsubscribing"
        /\ subscribed # {}
        /\ stage' = "releasing"
        /\ subscribed' = subscribed
  /\ UNCHANGED <<runVars, stop, deadline, stateVars, link, queue, hole, open,
                 missed, transitions, outward, asked>>

-----------------------------------------------------------------------------

\* SIGTERM or SIGINT sets the stop event.
Signal ==
  /\ pc # "exited"
  /\ ~asked
  /\ stop' = TRUE
  /\ asked' = TRUE
  /\ UNCHANGED <<runVars, deadline, sessionVars, stateVars, outward>>

\* The duration of a trial runs out.
Expire ==
  /\ deadline = "ahead"
  /\ deadline' = "passed"
  /\ UNCHANGED <<runVars, stop, sessionVars, stateVars, outward, asked>>

Task ==
  \/ GoRound
  \/ Gate
  \/ BeginSession
  \/ LeaveLoop
  \/ Resume
  \/ BackoffRaises
  \/ Finish
  \/ Close
  \/ Connect
  \/ ConnectFails
  \/ ReadInitial
  \/ Subscribe
  \/ PublishReturns
  \/ PumpRound
  \/ PumpStops
  \/ ProbeReturns
  \/ Unsubscribe
  \/ Teardown
  \/ Release
  \/ Cancel

Next ==
  \/ Task
  \/ \E s \in Snapshots \cup Telemetry : Notify(s)
  \/ Signal
  \/ Expire

\* Every await of the task is bounded, and a trial's time passes.  Nothing is
\* assumed of the detector, the signals or the OBD link.
Spec == Init /\ [][Next]_vars /\ WF_vars(Task) /\ WF_vars(Expire)

-----------------------------------------------------------------------------
(***************************************************************************)
(* Properties.                                                             *)
(***************************************************************************)

Statuses == {"starting", "connecting", "streaming", "reconnecting",
             "obd-blocked", "incompatible", "degraded", "stopped"}

Notes ==
  {"", "partial subscription", "link dropped", "notifications dropped",
   "no packets", "trial deadline", "session timed out", "session failed",
   "clean shutdown", "attributes absent"}

\* Every variable has its type: the ingest queue stays within its size,
\* attempts stop one past the last whose backoff has a value, and a miss is
\* only charged to a track that is open.
TypeOK ==
  /\ pc \in {"top", "gating", "connecting", "session", "paused", "finishing",
            "closing", "exited"}
  /\ stop \in BOOLEAN /\ obd \in BOOLEAN
  /\ deadline \in {"none", "ahead", "passed"}
  /\ asked \in BOOLEAN /\ everCompatible \in BOOLEAN
  /\ attempt \in 0..(LastAttempt + 1)
  /\ stage \in Stages
  /\ link \in BOOLEAN /\ hole \in BOOLEAN
  /\ transitions \in BOOLEAN /\ cancelled \in BOOLEAN
  /\ subscribed \subseteq Kinds
  /\ queue \in Seq(Snapshots \cup Telemetry) /\ Len(queue) <= QueueSize
  /\ open \subseteq Threats /\ missed \subseteq open
  /\ live \subseteq Threats
  /\ status \in Statuses
  /\ connected \in BOOLEAN /\ compatible \in BOOLEAN
  /\ note \in Notes
  /\ alerts \subseteq Threats /\ tracks \subseteq Threats
  /\ doc \in [status : Statuses \cup {"none"}, connected : BOOLEAN,
              compatible : BOOLEAN, note : Notes,
              alerts : SUBSET Threats, tracks : SUBSET Threats]

\* The link is held by a session only, between connect and release, and once
\* the loop is past a session neither the state nor the document last
\* published says that the detector is connected (the finally clauses of
\* _Session.run and of run, and the publish that follows each).
LinkReleased ==
  /\ link => stage \notin {"none", "opening"}
  /\ stage # "none" => pc = "session"
  /\ stage = "none" => ~connected
  /\ pc \in {"top", "gating", "connecting", "paused", "closing", "exited"} =>
       ~doc.connected

\* No session of a continuous collector leaves a threat live in the history:
\* what was started was ended by the time the session is over, whether it
\* stopped, dropped, was blocked, timed out or failed (the finally of
\* _Session.run).
NoThreatLeftLive == ~InTrial /\ stage = "none" => live = {}

\* A document that a continuous collector publishes without a link shows no
\* alert and no open track, of this session or of an earlier one
\* (CollectorState.clear_alerts: "a stale threat reads exactly like a live one").
NothingLatched ==
  ~InTrial /\ ~doc.connected => doc.alerts = {} /\ doc.tracks = {}

\* The detector's link is opened only on the word of a healthy OBD probe, and
\* after the document that announces it (run: "Never open the detector link
\* while the OBDLink is unhealthy").
LinkOnlyWhenGated ==
  [][~link /\ link' => obd /\ doc.status = "connecting"]_vars

\* A held link is let go of once a probe says that the OBD link is unhealthy
\* (_pump: "The OBDLink comes first").
BlockedReleases == ~obd ~> ~link

\* A stop request ends the collector from wherever it is waiting: connecting,
\* reading, streaming, probing, publishing, tearing down or backing off.
StopHonoured == stop ~> pc = "exited"

\* A trial ends: once its duration has elapsed, the collector exits (the
\* duration argument of run: "the same code path, with a hard stop").
ExpiryHonoured == Expired ~> pc = "exited"

\* What the comment in the finally of _Session.run says, of every session: any
\* threat still open when the link goes away must be ended rather than left
\* live in the history forever.
ThreatsEndWithSession == stage = "none" => live = {}

\* What the docstring of run says: it runs "until stopped, or until
\* *duration* elapses", so it winds up only after a signal or the deadline.
StopsOnlyWhenAsked ==
  pc \in {"finishing", "closing", "exited"} => asked \/ Expired

\* What the docstring of AlertSnapshot.uncertain says: a packet that could not
\* be read does not make an alert disappear from the state file.  A track no
\* readable snapshot has missed is still shown in the state's alerts.
UnmissedThreatsShown == open \ missed \subseteq alerts
=============================================================================
