# A TLA+ model of the Uniden R8 collector

`uniden_r8` reads a radar detector over Bluetooth Low Energy on a small board
that also carries the vehicle's OBD-II link. This directory holds TLA+ modules
translated from its source, TLC configurations that check them on small
instances, and TLAPS proofs of the results that matter most. Paths below are
relative to the repository (`src/uniden_r8/collector.py`, `docs/…`).

## Inventory

The long-running process is `collect`: one asyncio loop, a few worker threads,
and files in a state directory.

| Component | Source | State | Operations | Talks to |
|---|---|---|---|---|
| Run loop | `collector.py` `run`, `_wait`, `next_backoff` | stop event, deadline, attempt, ever_compatible | probe, connect, session, back off, shut down | OBD probe (thread), session, publisher, sinks |
| Link session | `collector.py` `_Session` | link, subscriptions, ingest queue, tracker, wake event | connect, read, subscribe, pump, tear down | bleak, queue, tracker, sinks |
| Ingest queue | `events.py` `Ingest` | sequence number, bounded deque, gap, latest, metrics | `offer` (bleak's callback), `pop`, `drain` | session |
| Alert tracker | `events.py` `AlertTracker` | open tracks, next id | `observe`, `close` | session; events go to every sink |
| Collector state | `collector.py` `CollectorState` | status, note, link, alerts, tracks, metrics | record, clear, build documents | session, run loop, publisher |
| State publisher | `collector.py` `publish_state_async`, `_write_atomic` | ticket counter, newest ticket written, lock, two files | publish, sweep temporaries | worker threads, file system |
| OBD probe | `collector.py` `make_obd_probe` | none | three read-only queries | systemd, rfcomm |
| Instance lock | `collector.py` `SingleInstanceLock` | a file lock | acquire, release | other processes |
| Sinks | `collector.py` `Sinks` | the optional outputs | start, close, status | history, GNSS, MQTT, feed |
| History writer | `storage.py` `HistoryWriter` | queue, batch, counters, thread | record, start, stop | session, database |
| History database | `storage.py` `History` | SQLite tables, meta | open, migrate, prune, queries | writer thread, CLI |
| State feed | `feed.py` `StateFeed` | viewers with bounded backlogs | publish, serve, stop | browsers |
| MQTT publisher | `mqtt.py` `MqttPublisher` | client, connected, errors | start, publish, announce, stop | broker |
| GNSS client | `gnss.py` `GnssClient` | latest fix, connection | run, consume, fix | gpsd |
| Packet parsing | `telemetry.py` | none | `parse_telemetry`, `parse_alert_snapshot` | session, one-shot receive |
| One-shot receive | `telemetry.py` `receive` | one bounded window | connect, read, listen, store | bleak, private store |
| Inspection, survey, identity | `inspection.py`, `survey.py`, `identity.py` | none kept | bounded reads | bleak |
| Pairing | `pairing.py` | a bluetoothctl child and its lines | scan, pair, untrust, disconnect | bluetoothctl |
| Discovery | `discovery.py` | none | one bounded scan, classification | bleak |
| GATT registry, privacy, evidence, audit, config, POI difference, CLI | the rest | tables, files, pure functions | checks and formatting | all |

What is hard here: notifications arrive on the loop between any two awaits; a
cancelled await does not stop the thread behind it; a trial deadline cancels a
session wherever it waits, its teardown included; the detector, the OBD link,
the card and the process itself fail independently; and the published state is
read by a display that has no other way to know that it is old. The hazards
are listed line by line in `PROJECT.json`, each with the properties that watch
it.

## Modules

| Module | Models | EXTENDS / INSTANCE |
|---|---|---|
| `LossLedger` | what the ingest queue promises, without a queue | – |
| `Ingest` | `events.py` `Ingest`, `Gap`, `IngestMetrics` | refines `LossLedger` |
| `MCIngest` | TLC instance: symmetry of the kinds | `Ingest` |
| `IngestProofs` | theorems about `Ingest` | `Ingest`, TLAPS |
| `StatePublisher` | the ticketed writers of the two state documents | – |
| `StatePublisherProofs` | theorems about `StatePublisher` | `StatePublisher`, TLAPS |
| `Encounters` | what the event stream promises about encounters | – |
| `AlertTracker` | `match_cost`, `_assign`, `observe`, `close`, over several sessions | refines `Encounters` |
| `MCAlertTracker` | TLC instances: alerts that compete for tracks | `AlertTracker` |
| `AlertTrackerProofs` | theorems about `AlertTracker` | `AlertTracker`, TLAPS |
| `Collector` | `run` and `_Session`: the whole life cycle of the link | – |
| `CollectorProofs` | theorems about `Collector` | `Collector`, TLAPS |
| `Pump` | `_Session._pump` on a clock | – |
| `PumpProofs` | theorems about `Pump` | `Pump`, TLAPS |
| `Retention` | `prune` and the reference it measures from, as operators | – |
| `HistoryWriter` | the writer of the history, its thread and its file, over several processes | extends `Retention` |
| `HistoryWriterProofs` | theorems about `HistoryWriter` and the operators of `Retention` | `HistoryWriter`, TLAPS |
| `StateFeed` | the viewers of the feed, their backlogs and handlers | – |
| `MqttPublisher` | the publisher, its paho client and the broker's retained topics | – |
| `GnssClient` | the gpsd client, its fix and its staleness | – |
| `Outlets` | `Sinks`: the three above with the run that publishes, stops, dies and restarts | extends them |
| `OutletsProofs` | theorems about `Outlets` | `Outlets`, TLAPS |
| `Detector` | the bond, the trust and the link, as BlueZ has them | – |
| `Pairing` | `pair` and BlueZ's exchange with the detector | extends `Detector` |
| `OneShot` | the session of `identity`, `live`, `inspect` and `survey` | extends `Detector` |
| `CommandLine` | the one-shot commands, one after the other | extends `Pairing`, `OneShot` |
| `CommandLineProofs` | theorems about `CommandLine` and `Parsing` | `CommandLine`, `Parsing`, TLAPS |
| `Fields` | what the parsers make of one field | – |
| `AlertPacket`, `TelemetryPacket` | `parse_alert_snapshot`, `parse_telemetry` as operators | extend `Fields` |
| `RecordLayout` | the record walk of `inspection` and the difference of `poi_diff` as operators | – |
| `Parsing`, `MCParsing` | the parsers against what was sent; the packets of the run | extend the three above |

Definitions named as mutants ("Mutant of …") are not part of the model: each is
a plausible wrong version of the definition it precedes, and shows that the
property it is listed with in `PROJECT.json` fails when the code is wrong.

### Ingest

One action per public call; a call never awaits, so each is atomic on the loop.
A payload is its kind; the pair of clocks taken by an offer is the number of the
offer, since there is one stamp per offer. `OfferWithRoom` and `OfferEvicting`
are `offer` with and without the eviction loop (which runs once at most,
because the deque never exceeds its capacity: proved). `PopGap` and `PopItem`
are the branches of `pop`. `delivered`, `lost`, `settled` and `gapsRead` are
history variables of what the consumer was handed.

### StatePublisher

The loop takes a ticket and awaits a thread. The thread's steps are the
critical sections of `_write_atomic`: `CreateTemporary` enters it and writes
the temporary; `Replace` and `Discard` leave it by the two branches of the
ticket comparison; `FailBefore` and `FailHolding` are an OSError outside and
inside. `NextDocument` is the loop of `_write_documents`. `Cancel` is `wait_for`
at a trial deadline, which leaves a started thread running. `Crash` may come
between any two steps; `Restart` is systemd's `Restart=always` after a clean
exit, which waits for the worker threads. A document is the incarnation and
the ticket that produced it. What is shown holds for a process that dies:
`_write_atomic` syncs neither the file nor the directory, so a power cut may
take back the last renames, which is not represented. Nor is how old a temporary
is: the sweep of a new process may take any that earlier ones left. A process
sees its own tickets only, so every
incarnation starts with empty memory and a full directory.

### Collector

Everything `run` and `_Session` do to the link and to the state, as steps
between awaits. `pc` is where `run` is; `stage` is the await the session is in.

| Code | Actions |
|---|---|
| loop head, probe, `obd-blocked` or `connecting` | `GoRound`, `Gate` |
| `_Session(...)`, `async with` entering | `BeginSession`, `Connect`, `ConnectFails` |
| two reads, two `start_notify` | `ReadInitial`, `Subscribe` |
| bleak's callback | `Notify` |
| `_pump` | `PumpHead`, `PumpRound`, `PumpStops`, `ProbeReturns`, `Checks`, `PublishReturns` |
| the `finally` of `_Session.run` | `Unsubscribe` (one await each), `Teardown` (no await) |
| leaving `async with`, the `except` clauses | `Release`, `EndSession` |
| `wait_for` at the trial deadline | `Expire`, `Cancel` |
| `next_backoff`, `_wait` | `Resume`, `BackoffRaises` |
| the `finally` of `run` | `Finish`, `Close` |
| signal handlers | `Signal` |

Abstracted: how long a bounded await takes (so whether a probe, the heartbeat
or the silence limit is due is a free choice; `Pump` has the clock), the
contents of packets (an alert snapshot is the set of threats it shows and
whether it could be read), the matching (a threat matches its own track; the
real matcher is in `AlertTracker`), sinks (their `start` and `close` are not
represented, the events they receive are, as `live`), and the publisher (the
document is what `publish_state_async` builds at the call). `cancelled` sessions
follow asyncio: a cancelled `try` runs its `finally`; a cancelled `finally`
runs no further, since `contextlib.suppress(Exception)` does not catch
`CancelledError`; `async with` releases the link in each case.

### Pump

The same loop with time. Awaits are the only places where time passes: the wait
(a heartbeat at most, cut short by a packet), the probe's thread (`ProbeTime`)
and a publish (`PublishTime`). A round uses the time it began at even after the
probe, as the code does. The local `events` is kept as whether the round saw a
transition. Two histories follow the oldest transition that no publish has
shown: `queued` while it is in the queue, `told` once it has been consumed. The
bound of `GateCadence` is the interval, or the length of a probe where that is
longer, since the interval counts from the beginning of the round that probes.

### AlertTracker

Costs are in twentieths and frequencies in twentieths of the band's tolerance,
so that every cost is an integer and comparisons are those of the code.
`Assign` is the greedy loop, as the set of the pairs it takes; `Observe` the
rest of the call. The monotonic
clock is the position of the snapshot in its session. `Close` and `Reconnect`
are the end of a link session and the next `_Session`, which makes a new
tracker. `announced`, `ended` and `sightings` are history.

### HistoryWriter and Retention

The loop's calls are `Start`, `StartReturns` or `StartTimesOut`, `Offer` and
`Stop`; the thread (`_run`) opens the file, sweeps, begins its session and goes
round `Take`, `Look`, `Commit` and now and then a sweep, until `Finish`. A sweep
is three steps, because `prune` is three transactions: `Budget`, `Window`,
`NotePrune`. `Look` is a step of its own, because a stop can come between the
`get` and the look at the flag. `Raises` is what an exception does: before the
session it ends the thread, in a sweep it is an error more.

`Picked` is what a `SELECT` or a `DELETE` leaves of a table. A table is the
sequence of its rows; a row keeps its wall clock and its session.
Every read of the clock gives any of `Walls`. A statement that writes succeeds
exactly when `disk` is TRUE and the connection is not in a transaction left open
(`inTx`), since the `BEGIN` before it would raise. `Exit` may come at any step:
the file keeps what was committed. (A power cut may also cost the last commits,
which `synchronous=NORMAL` accepts; that is not represented.) Whether
`BATCH_SECONDS` or the six hours between sweeps have passed is a free choice.
Left out: columns, `ended_at`, the record of a sweep in `meta` and the counters
`pruned` and `prune_refused`, none of which decides anything.

No row is offered while `stop` waits: `Sinks.close` runs after the last session
of `run` has ended.

### StateFeed, MqttPublisher, GnssClient and Outlets

`Outlets` is `Sinks` with everything it owns. `Goes` walks the run through the
awaits of `start` and `close` in the order of the code; `Finish` is the
`finally` of `run`, which is reached from the loop and from a start that raises;
`PublishBegins` and `PublishEnds` are `_publish` around the await of its file
writes, `Dispatch` is `_dispatch` of one transition. Publishes and events are
numbered together, so a frame, a retained state and a viewer's stream are
sequences of numbers.

A handler of the feed runs between two awaits without a break, so `Join` and
`Flush` are single steps; it waits for a frame (`Woken`, or `Keepalive` when
none comes) or for its socket to drain (`Drained`, or `DrainFails` after
`WRITE_TIMEOUT_SECONDS`). A request can be read while the feed is stopped, and
then joins a feed that will not tell it to leave: `Join` does not look at the
server, as the code does not. The broker publishes the will of a lost
connection when it notices (`BrokerNotices`) or when the same client id
connects again, whichever comes first. `start` has no await and is one step with
two ends: "online" gets through, or (`MqttStartsUnheard`) the broker refuses the
connection or it drops before, which `start` is not told. A fix is its validity, its satellites and
its age in ticks; `word` is the receiver's last TPV, kept as history.

Left out: the availability topic and Home Assistant's discovery documents, the
event topic (not retained), the routes of the feed other than `/events` (one
reply), the length of the backoff of the GNSS client.

### Detector, Pairing, OneShot and CommandLine

A command runs to its end before the next begins. `Pairing` is the dialogue with
`bluetoothctl`: `lines` is the queue its reader thread fills, and a line is what
the dialogue makes of it. BlueZ's exchange with the detector is a process of its
own, so its verdict can arrive after the 60 seconds of the attempt that began it
and be drained, or be read by the next one. `device_info` answers or does not, and
no answer reads as "no" for every field: it returns an empty dict when
`bluetoothctl` failed or timed out. `OneShot` is the shape the four sessions
share: what differs is whether they check the services, subscribe, have a
ceiling and write a capture. Any read, subscribe or unsubscribe may hang. The
ceiling may fire at every await, the disconnect included; BlueZ has been asked
for it by then and is taken to carry it out, while the session reports that it
was never connected.

Left out: the scan before the first attempt (its failure is a note only), the
verbs the guard refuses, what a session reads.

### Fields, AlertPacket, TelemetryPacket, RecordLayout and Parsing

The parsers are functions; `Parsing` gives them a life. `sent` is a packet of
the detector, or the records of an earlier capture, and `received` what came of
it: cut anywhere (`Cut`), a field that reads as a word nobody knows (`Garble`),
a database that was written to, reordered or cut between two captures. The
properties compare what is read from the two. A field is a word of a small
vocabulary that holds one of each kind the code tells apart; records have the
real lengths of the candidate layouts, and their bytes are chosen so that a
wrong layout can account for a blob as well. Nothing is recursive: the walk is a
recursive function.

Three assumptions say which inputs the detector and the link can make.
`JunkAssumption`: junk is a word nobody knows, so it is none of those that answer
by themselves (the empty group or slot, the fix, no fix). `PacketAssumption`:
packets are fields split into parts; in a telemetry packet that is long enough
to be read, the POI group is absent or has several parts, since a warning has
its kind, distance and limit. `RecordAssumption`: the records of the detector
have the length that the layout it uses gives their first byte.

Left out: the length limits of `_safe_word` and `_safe_group`, the printed
descriptions, coordinates and distances.

## Runs

| Run | Instance and bounds | Shows |
|---|---|---|
| `ingest` | two kinds, size 3 (two records and a gap), 7 offers, symmetric kinds | dated gaps, nothing silent, current view, refinement of the ledger |
| `publisher` | both documents, 3 tickets, 1 cancelled await, 2 incarnations | no document goes back in time, an acknowledged publish stays, temporaries are accounted for, a publish returns |
| `collector` | one threat, queue of 1, the third failed attempt in a row raises; a continuous run and a trial are both initial states | gating and release of the link, ends of threats, no latched alerts, `obd-blocked` lets go, stop and the deadline are honoured |
| `tracker` | four alerts of two families, 2 slots, 3 snapshots a session, 2 sessions, tolerance 1 | stable matching, open unless absent, ends dated when seen, refinement of the encounter stream |
| `pump` | heartbeat 4, OBD interval 5, silence 5, probe and publish at most 1, 16 ticks | a speaking session is kept, a silent one given up in time, the gate's cadence, prompt transitions |
| `outlets` | one outlet at a time, two viewers for one place, a backlog of two, four publishes or events, fixes stale after one tick, two processes | viewers miss nothing that was not counted, a fix is the receiver's last word, the close ends, the status is right up to the first connection lost or refused and after the end |
| `commands` | two commands, two attempts, two reads, two subscriptions | a status of zero is earned, the link is given back |
| `parsing` | packets of one and two slots out of five, 32 telemetry packets, databases of up to three of three records, two steps of harm | a detection is not read as over, damage is not read as a measurement, a possible position is withheld, records are new by content |
| `history` | two processes, three rows each offered to a queue of one, batches of two, one timed sweep, two clock readings two apart, retention 1, rank 1, fractions judged from two rows, budget two | rows are accounted for and carry a session, a stop drains and ends, the last row is flushed, outliers do not move the window |

Why the bounds are enough. Seven offers into a queue of two overflow it several
times, so gaps are opened, widened, read and opened again. Three tickets are
one writer outliving its await, one overtaking it, and one after it; two
incarnations make every order of a crash and a restart. One threat and a queue
of one already overflow, drop, start, miss twice and end; the loop is cyclic,
so later sessions inherit the state of earlier ones without a bound on their
number, and `LastAttempt` is the only cap (the code's is 1024, see below). Three
snapshots are a start, a miss, and the second miss or the return; the second
session shows what survives a reconnect. Sixteen ticks hold three silence
limits; intervals that do not divide each other make every phase occur. A queue
of one is full while a row is being written, so rows are dropped and the
sentinel is swallowed; two processes leave rows of an earlier session, and a
session table that the budget, the window and the refusal all reach. The outlets
share nothing but the run, so one at a time is every interleaving of each with
it; four publishes overflow a backlog of two before and after it is written out;
a second process is enough to meet the will of the first. Two attempts are one
that is answered late and one that hears it; two commands are one that leaves a
detector bonded, trusted or linked and one that finds it so. Two steps of harm
are a cut of a packet that was garbled, a record moved and another stored; two
slots are one that is harmed beside one that is not.

`CHECK_DEADLOCK FALSE` is used where the system may stop: a collector that
exited, a publisher that closed, a tracker at its bounds, a clock at its last
tick.

### Runs that are expected to fail

Each states what a comment or document says and what TLC finds the code not to
do; the quotations are in `PROJECT.json` under `findings`.

| Run | Claim | What happens |
|---|---|---|
| `history_session` | the drive being recorded keeps its session row | a timed sweep deletes the row of a session begun under a stale clock |
| `history_sweep` | a failure of retention never stops the recording | `_record_prune` leaves its transaction open, and every later `BEGIN` raises |
| `outlets_status` | `<base>/status` is published "on connect" | `start` publishes "online" once; after a lost connection the will says "offline", or "online" never arrived; paho reconnects by itself, and nothing says "online" again |

Both history findings can be reproduced on the code with two dozen lines of
Python and a second connection that holds the write lock.

Further configurations reproduce a smaller disagreement each. They are not part
of the regular runs; `tlc -config X.cfg M` shows the behaviour.

| Configuration | Property | Claim | What happens |
|---|---|---|---|
| `CollectorTrialThreats.cfg` | `ThreatsEndWithSession` | `collector.py:1383`: "any threat still open when the link goes away must be ended" | a trial deadline inside `stop_notify` cancels the rest of the `finally`: `suppress(Exception)` does not catch `CancelledError` |
| `CollectorStops.cfg` | `StopsOnlyWhenAsked` | `collector.py:1524`: "Run the collector until stopped" | `next_backoff` computes `2.0 ** 1024` before it caps, and raises; `LastAttempt` stands for 1024 |
| `CollectorUnreadable.cfg` | `UnmissedThreatsShown` | `telemetry.py:1023`: what the hold prevents is that "the alert disappears from the state file" | `_apply` replaces `state.alerts` for an unreadable packet too, while the tracks are held |
| `AlertTrackerCloseCalls.cfg` | `CloseCallsFlagged` | `events.py:63`: two tracks within the margin are flagged ambiguous | the slot's two best scores are compared, not the winner's |
| `CommandLineSurvey.cfg` | `SurveyEnds` | `survey.py:71`: "Ceiling on the whole connect-enumerate-disconnect cycle." | `SESSION_CEILING_SECONDS` is used nowhere; a descriptor read that hangs holds the link |

Smaller disagreements met on the way, which have no run: `SILENCE_TIMEOUT_SECONDS`
is called the longest time "without a single packet" (`collector.py:188`), while
only telemetry counts (`latest_at`, `collector.py:1478`), so alert packets alone
do not keep a session; `docs/CAPABILITIES.md:190` calls the retention reference
the tenth-newest row, while `OFFSET ROBUST_RANK` is the eleventh; the pump
publishes the
note `"no packets"` (`collector.py:1480`), which the closed set of
`docs/SCHEMA.md:129` lacks; `docs/SCHEMA.md:978` says that track ids start at 1
per collector run, while each session makes its own tracker
(`collector.py:1143`, and its own docstring says one per link); and the pump's
wait starts anew after every packet, so a document can be rewritten almost two
heartbeats after the last, though `docs/CONFIGURATION.md:152` calls the
heartbeat the floor.

From the newer modules: `pair --use-bond` is always refused, because a bonded
address is a protected one (`pairing.py:414`), and the `PairingRefused` of
`bonded_detector_address` is not caught there (`cli.py:466`). A verdict that
arrives between two attempts is drained (`pairing.py:445`), so `pair` can report
failure and leave a bond. `device_info` has no answer to a failed
`bluetoothctl`, so the postconditions of `pair` hold of a detector nobody looked
at. The ceiling of `live` cancels into a `finally` whose `stop_notify` may hang,
which `wait_for` then awaits. After a session's `clear_alerts` only the files
are published, so broker and feed keep the last alert (`docs/SCHEMA.md:1243`
admits it); the availability topic is retained and not covered by the will;
`published` of the publisher counts messages of quality 0 that were lost. The
satellites of an earlier gpsd session are attached to the fixes of the next. A
packet that is cut exactly at the end of a slot is not noticed; a telemetry
packet that is too short to decode reads as no warning in the schema-1 document
(`collector.py:640`), and an unknown mute code as not muted
(`collector.py:539`). Degrees without a fraction, degrees that are not adjacent,
and the fields behind the GPS group are outside the coordinate tripwire.
`poi_diff` compares contents as a set, so a second copy of a known record is not
reported, and when the earlier capture does not walk every old record is new.

What is weaker than it looks: `NoThreatLeftLive` and `NothingLatched` are stated
for the continuous collector, because a trial violates them
(`CollectorTrialThreats.cfg`); the published `stopped` document can then still
show the alert. `SuccessIsEarned` speaks of the looks that were answered.
`StatusHonest` ends at the first connection that is lost or refused. `LinkFreed` excepts an
unsubscribe that hangs after the ceiling, and `survey`. `NewRecordsByContent`
speaks of sets of contents. `NeverFalselyClear` says nothing of slots that are
missing behind a cut. `AcknowledgedLanded` speaks of one process at a time: a
restart forgets what was acknowledged. `TempsAccounted` speaks of the
temporaries of the running process and not of the sweep. `OutletsEnd` tests that
the GNSS task is cancelled; the other steps of the close are taken to return.
`SpeakingKeepsAlive` counts the telemetry that a round could see: one that
arrives while the round awaits its probe is consumed by the next, and a session
that was over the limit when the round began is given up in spite of it.

## Fairness

`Collector`: weak fairness of the task and of the deadline. Every await of the
task is bounded in the code (connect by bleak's timeout, setup and teardown by
`SETUP_TIMEOUT_SECONDS`, the probe by its subprocess timeouts, the waits by the
heartbeat and the backoff), so the task is never enabled for ever without a
step. The detector, the signals and the OBD link are assumed to do nothing.
Leaving `async with` (the disconnect) and a publish are taken to return, which
the code leaves to bleak and to the card.
`StatePublisher`: weak fairness of each writer thread and of the await's return;
`PublishReturns` is the only property that uses it. `HistoryWriter`: weak
fairness of the thread, whose statements end after `busy_timeout` at the latest,
and strong fairness of a look that finds `BATCH_SECONDS` passed. `Ingest`, `AlertTracker` and
`Pump` have safety properties only; in `Pump` the clock may not pass an
await's bound, so a bound on elapsed time is an invariant.
`Outlets`: weak fairness of the steps of `start` and `close`: the GNSS task is
cancelled, `wait_closed` of the feed and the join of the history thread have
timeouts, paho's disconnect does not wait for the broker. The broker finds out
about a lost connection by its keepalive. Viewers, receiver and reconnects are
assumed to do nothing. `CommandLine`: weak fairness of what a timeout of bleak,
the window or the ceiling ends, and of the disconnect; a read, a subscribe and an
unsubscribe may hang for ever.

## Proofs

Checked by TLAPS for every value of the constants under the assumptions named in
the modules.

`IngestProofs` assumes `IngestAssumption` (the size is at least two, as the
constructor demands). The inductive invariant is the type, the bound on the
queue and the contiguity of the numbers: neither the size nor the date of a gap
is inductive without knowing that queued numbers are the newest ones in a row.
From it: `BacklogBounded`, `TypeCorrect`, `GapDatedAtOpening`, and
`ImplementsLedger`, where an offer maps to `Issue`, a pop or a drain to
`Settle`, and a call on an empty queue to a stutter. `NothingDroppedSilently`
adds that the numbers reported lost form finite runs, disjoint because they are
settled in order, so their cardinalities add up. `ViewIsCurrent` follows a
second invariant, that no cell runs ahead of the numbers given out.

`StatePublisherProofs` assumes `PublisherAssumption`. The inductive invariant
says what a thread that holds the lock implies: only the holder is between its
temporary and its rename, the newest ticket written of this incarnation is the
ticket on disk, and a writer that is at the second document has landed, or been
overtaken on, the first. From it: `TypeCorrect`, `PairOrder`,
`TemporariesAccounted`, `AcknowledgedStays`, and the action property
`DocumentsMoveForward`.

`OutletsProofs` proves two invariants of `Outlets`. `FixHandedOutIsCurrent`
needs no assumption: the fix that is kept has the validity and the age of the
receiver's last word, whatever was lost and reconnected in between, and what is
handed out copies both at once. `ViewersKeptUpToDate` assumes `FeedAssumption`
(a place and a backlog of at least one). Its inductive invariant adds to the
property what makes it last: a handler that does not stream has no backlog, the
frame that ends a stream is never in the backlog of one who holds a place,
nobody is connected before the feed listens or after the process is gone (so a
restart may count from zero), and the numbers of a whole stream rise, not only
neighbours. `OfferedExtends` is the lemma about `_Client.offer`: the new frame
comes last whether or not the oldest had to go, and the length and the count of
the dropped together grow by one.

A third, small invariant gives `OnlineUntilTheLinkIsLost`, the safety half of
`StatusHonest`: a publisher that was heard and never lost its connection has it, has left no
will with the broker, and was the last to speak.

`CommandLineProofs` proves the action property `SuccessIsEarned`, with no
assumption. The invariant behind it: a line that says the pairing succeeded,
heard yet or still in the queue, leaves a bond, so an answer that belongs to an
earlier attempt is as good as one to the present; where there is a bond no
exchange runs, so nothing sets the trust behind a look that found none; and a
session that was cut short reports that it was never connected. `LinkIsGivenBack`,
the safety half of `LinkFreed`, adds that BlueZ pairs for the pair command only,
so that nothing but a trusted device's own return can put a link up between the
disconnect and the report.

Its second part is about `Parsing`, for every packet and every database, with
the three assumptions above. `ParsingInv` says what any number of cuts, garbled
parts and changes leaves standing: a packet only loses fields; a slot that is
received as empty was sent as empty; while a telemetry packet is long enough to
be read, its groups have the parts that were sent or junk in their place; the
later capture is whole, or only its last record is cut. `DetectionsAreNotLost`
follows since each slot is read from its own fields: one that was sent as a
detection is not received as empty, so it reads as that detection or as
unreadable. `DamageIsNoReading` goes through what a group can read as: a group
that lost parts ends the packet, and is read only when the packet is long enough
without it. `NewRecordsAreByContent` needs what `Walk` computes. It is a recursive
function that goes forward; `WalkExists` and `WalkOfWhole` go backward, from the
end of the blob to its first byte, each record being taken where `BlobIsLaid`
says that it was laid. `WalkOfCut` finds that the walk of a cut capture ends at a
record that does not fit, so that no difference is reported.

`CollectorProofs` assumes `CollectorAssumption`. `LinkReleased`,
`NoThreatLeftLive` and `NothingLatched` are not inductive alone: the invariant
says which awaits of a session find it blank (no open track, no alert, no
published track), that what the history has live is what the tracker has open,
and that the gate's word still stands between the probe and the connect, from
which the action property `LinkOnlyWhenGated` follows as well. The three
properties except a trial, whose deadline may cut the teardown short; the
invariant excepts no more than the session that was cancelled.
`OnlyTheDeadlineLeavesTraces` is what that says of a trial: a threat left live,
or an alert shown without a link, is left by a session that the deadline
cancelled, and the collector that left it is on its way out. `TypeCorrect` has a
part of its own for each group of variables; a session counts an attempt only
while its loop can still compute the backoff.
`ConsumedIsPass` is the lemma about `_consume`: a pass is the records applied
one after another, and keeps what one record keeps.

`PumpProofs` assumes `PumpAssumption`: the heartbeat and the interval are not
zero, nothing else. The invariant says of each await how late it may end after
its round began, and how old what the round consumed, or what waits in the
queue, may be by then. `SpeakersLive`, `SilenceBound`, `GateBound` and
`TransitionBound` are sums of those bounds.

`HistoryWriterProofs` assumes `WriterAssumption` and `RetentionAssumption`. The
invariant follows a row from the queue to the file (the sentinel is behind every
row, a row carries the session of its process, counts add up) and a stop from
the flag and the sentinel to the local `halting`. From it: `NoRowUnaccounted`,
`EveryRowHasASession`, `StopDrainsAll`. `OutliersDecideNothing` is about the
sweep: `ReferenceNotAhead` shows that the stamp at the rank exists (the number
of rows later than an instant falls from all of them to none, and steps only at
a stamp) and is no later than any instant that few enough rows are ahead of;
`RecentOfRecent` that removing what is older than a cutoff leaves what is newer
than a later one. `TypeCorrect` holds because a batch is looked at after every
row it takes, and committed when it is full.

`AlertTrackerProofs` assumes `AlertTrackerAssumption`. `AssignIsGreedy` unrolls
the loop of `_assign`; `AssignIsStable` shows that it is one-to-one and that
every candidate it did not take meets one it took that is as good or better,
whence `TheMatchingIsStable`. The invariant ties the tracks to the snapshots of
the session: an open track remembers exactly the first, the last and the number
of those that showed it and the readable ones since, and a closed one was absent
longer than the tolerance. From it: `OpenExactlyWhilePresent` and
`EndsAreDatedWhenSeen`. `TrackerTellsEncounters` is the refinement: what has
been announced and not ended is what is open, `Snapshot` maps to a step of the
stream that starts, updates and ends, `Close` to hanging up, and a snapshot that
changes nothing it tells of to a stutter.

Four proofs go over the records of a sequence or the rounds of a loop. The
induction theorems of the library take the property as an operator, which the
provers cannot instantiate; `Induction` states it for the set of the numbers
that have the property and follows from the well-foundedness of the naturals.
The recursion is in functions local to a definition (`Consumed`, `Picked`,
`Assign`, `Walk`), whose existence is a lemma.

Only model-checked: the liveness properties (`PublishReturns`, `StopHonoured`,
`BlockedReleases`, `ExpiryHonoured`, `StopEnds`, `QuietFlush`, `OutletsEnd`, the
second halves of `StatusHonest` and `LinkFreed`), because TLAPS does not reason
about fairness. Every invariant and every other action property that a passing
run checks is a theorem, and so are the two refinements. `BacklogBounded`,
`TrackerTypes`, `OnlyTheDeadlineLeavesTraces`, the type invariants of `Collector`,
`HistoryWriter`, `Pump` and `StatePublisher` and the invariants behind the
theorems are proved and no run checks them; `Contiguous` is a conjunct of the
invariant of `IngestProofs`.

## Not modelled, and the plan

Modelled first was what the rest of the program depends on: the hand-off, the
published state, the life of the link and the history; then the outlets, the
one-shot commands and the parsers. Their safety properties are proved. Where
the plan could go on is the parts listed as partly modelled.

Not modelled: the loop watchdog (it measures and decides nothing), the OBD probe
(three read-only queries; its verdict is a free Boolean), the instance lock (one
advisory `flock`, whose exclusion and release are the kernel's), the wait for the
bond in `collect` (a loop around a read with a capped delay), discovery (one
bounded scan and a classification by name), configuration (read and validated
once), and the budget of a shutdown against `TimeoutStopSec` (a sum of
constants).

Left out for good: text of documents, scrubbing and privacy filters (string
rewriting), file modes and the private store (pure I/O), the GATT table and the
static audit (data and a syntax check), the scripts, and argument parsing.
