------------------------------ MODULE Outlets ------------------------------
(***************************************************************************)
(* Sinks: everything the collector sends data to, started and stopped      *)
(* together.  Composes the feed, the MQTT publisher and the GNSS client    *)
(* with the run that publishes through them, the stop request, a crash and *)
(* a restart.  The history writer has a module of its own and is a step    *)
(* here.  A publish is a number; the fix it carries is the one at hand     *)
(* when it begins.                                                         *)
(***************************************************************************)
EXTENDS StateFeed, MqttPublisher, GnssClient

CONSTANTS
  Settings,      \* the sets of outlets that may be enabled
  MaxPublishes,  \* bound on the states and events of one process
  MaxRuns        \* bound on the processes

ASSUME OutletsAssumption ==
  /\ Settings \subseteq SUBSET {"feed", "mqtt", "gnss"}
  /\ MaxPublishes \in Nat /\ MaxRuns \in Nat

VARIABLES
  enabled,       \* config: which outlets are on
  at,            \* where run() is
  stop,          \* the stop event
  writing,       \* _publish awaits the state files
  published,     \* bound: states and events of this process
  runs,          \* bound: processes
  handed         \* history: the fix last handed out, with the word on it

runVars == <<enabled, at, stop, writing, published, runs, handed>>
vars == <<feedVars, mqttVars, gnssVars, runVars>>

NotHanded == [fix |-> NoFix, word |-> NoWord]

Init ==
  /\ FeedInit
  /\ MqttInit
  /\ GnssInit
  /\ enabled \in Settings
  /\ at = "start history"
  /\ stop = FALSE
  /\ writing = FALSE
  /\ published = 0
  /\ runs = 1
  /\ handed = NotHanded

\* The run goes from one place to the next.
Goes(from, to) ==
  /\ at = from
  /\ at' = to
  /\ UNCHANGED <<enabled, stop, published, runs, handed>>

StartHistory ==
  /\ Goes("start history", "start gnss")
  /\ UNCHANGED <<feedVars, mqttVars, gnssVars, writing>>

StartGnss ==
  /\ Goes("start gnss", "start mqtt")
  /\ IF "gnss" \in enabled THEN GnssStart ELSE UNCHANGED gnssVars
  /\ UNCHANGED <<feedVars, mqttVars, writing>>

StartMqtt ==
  /\ Goes("start mqtt", "start feed")
  /\ IF "mqtt" \in enabled
     THEN MqttStarts \/ MqttStartsUnheard \/ MqttStartFails
     ELSE UNCHANGED mqttVars
  /\ UNCHANGED <<feedVars, gnssVars, writing>>

StartFeed ==
  /\ Goes("start feed", "up")
  /\ \E bound \in BOOLEAN :
       IF "feed" \in enabled THEN FeedStart(bound) ELSE UNCHANGED feedVars
  /\ UNCHANGED <<mqttVars, gnssVars, writing>>

Starting == {"start history", "start gnss", "start mqtt", "start feed"}

\* The finally of run: stop is set and the stopped document is published, to
\* the files only.  It is reached from the loop, and from a start that raises.
Finish ==
  /\ at \in Starting \cup {"up"}
  /\ at' = "last publish"
  /\ stop' = TRUE
  /\ writing' = FALSE
  /\ UNCHANGED <<feedVars, mqttVars, gnssVars, enabled, published, runs,
                 handed>>

Signal ==
  /\ at \in Starting \cup {"up"}
  /\ ~stop
  /\ stop' = TRUE
  /\ UNCHANGED <<feedVars, mqttVars, gnssVars, enabled, at, writing, published,
                 runs, handed>>

LastPublish ==
  /\ Goes("last publish", "close gnss")
  /\ UNCHANGED <<feedVars, mqttVars, gnssVars, writing>>

\* Mutant of CloseGnss: the task is awaited and not cancelled.
CloseGnssPolitely ==
  /\ Goes("close gnss", "close feed")
  /\ gnss \in {"off", "done"}
  /\ UNCHANGED <<feedVars, mqttVars, gnssVars, writing>>

CloseGnss ==
  /\ Goes("close gnss", "close feed")
  /\ GnssCancelled
  /\ UNCHANGED <<feedVars, mqttVars, writing>>

CloseFeed ==
  /\ Goes("close feed", "feed closing")
  /\ FeedStop
  /\ UNCHANGED <<mqttVars, gnssVars, writing>>

FeedClosed ==
  /\ Goes("feed closing", "close mqtt")
  /\ FeedStopped
  /\ UNCHANGED <<mqttVars, gnssVars, writing>>

CloseMqtt ==
  /\ Goes("close mqtt", "close history")
  /\ MqttStop
  /\ UNCHANGED <<feedVars, gnssVars, writing>>

CloseHistory ==
  /\ Goes("close history", "exited")
  /\ FeedExit
  /\ GnssExit
  /\ UNCHANGED <<mqttVars, writing>>

\* The process dies, anywhere.
Crash ==
  /\ at # "exited"
  /\ at' = "exited"
  /\ FeedExit
  /\ GnssExit
  /\ MqttCrash
  /\ writing' = FALSE
  /\ UNCHANGED <<enabled, stop, published, runs, handed>>

Restart ==
  /\ at = "exited"
  /\ runs < MaxRuns
  /\ runs' = runs + 1
  /\ at' = "start history"
  /\ stop' = FALSE
  /\ published' = 0
  /\ handed' = NotHanded
  /\ UNCHANGED <<feedVars, mqttVars, gnssVars, enabled, writing>>

HandOut ==
  handed' = IF CurrentFix = NoFix THEN handed
            ELSE [fix |-> CurrentFix, word |-> word]

\* _publish up to its await, with the fix.
PublishBegins ==
  /\ at = "up"
  /\ ~writing
  /\ published < MaxPublishes
  /\ writing' = TRUE
  /\ HandOut
  /\ UNCHANGED <<feedVars, mqttVars, gnssVars, enabled, at, stop, published,
                 runs>>

\* The files are written; the copies go outward.
PublishEnds ==
  /\ writing
  /\ writing' = FALSE
  /\ published' = published + 1
  /\ IF "mqtt" \in enabled THEN MqttState(published') ELSE UNCHANGED mqttVars
  /\ IF "feed" \in enabled THEN FeedState(published') ELSE UNCHANGED feedVars
  /\ UNCHANGED <<gnssVars, enabled, at, stop, runs, handed>>

\* _dispatch of one transition, with the fix.
Dispatch ==
  /\ at = "up"
  /\ ~writing
  /\ published < MaxPublishes
  /\ published' = published + 1
  /\ HandOut
  /\ IF "feed" \in enabled THEN FeedEvent(published') ELSE UNCHANGED feedVars
  /\ UNCHANGED <<mqttVars, gnssVars, enabled, at, stop, writing, runs>>

\* The outlets by themselves, beside the run.
FeedMoves ==
  /\ at # "exited"
  /\ FeedStep(published)
  /\ UNCHANGED <<mqttVars, gnssVars, runVars>>

MqttMoves ==
  /\ MqttStep
  /\ UNCHANGED <<feedVars, gnssVars, runVars>>

GnssMoves ==
  /\ GnssStep \/ GnssLoses(stop) \/ (stop /\ GnssStops)
  /\ UNCHANGED <<feedVars, mqttVars, runVars>>

StartStep == StartHistory \/ StartGnss \/ StartMqtt \/ StartFeed
CloseStep ==
  \/ LastPublish \/ CloseGnss \/ CloseFeed \/ FeedClosed \/ CloseMqtt
  \/ CloseHistory
RunStep == PublishBegins \/ PublishEnds \/ Dispatch

Next ==
  \/ StartStep \/ CloseStep \/ RunStep \/ Finish \/ Signal \/ Crash \/ Restart
  \/ FeedMoves \/ MqttMoves \/ GnssMoves

\* Every step of the shutdown is bounded; the broker finds out.  Connections
\* come back only if they like.
Fairness ==
  /\ WF_vars(CloseStep)
  /\ WF_vars(BrokerNotices /\ UNCHANGED <<feedVars, gnssVars, runVars>>)
  /\ WF_vars(StartStep)

Spec == Init /\ [][Next]_vars /\ Fairness
-----------------------------------------------------------------------------
\* A viewer's stream starts with the state at hand when it joined, goes
\* forward, ends in the newest publish, and what is missing was counted; the
\* places are held by those who stream, and nobody else.  The bounds of
\* feed.py hold.
UpToDate(v) ==
  LET stream == written[v] \o queue[v]
      newest == stream[Len(stream)]
  IN /\ handler[v] \in Streaming
     /\ Len(queue[v]) <= ClientQueue
     /\ Head(stream).kind = "state"
     /\ \A i \in 2..Len(stream) : stream[i - 1].n < stream[i].n
     /\ Len(stream) + dropped[v] = 1 + (published - joined[v])
     /\ published > joined[v] => newest.n = published

ViewersUpToDate ==
  /\ Cardinality(clients) <= MaxClients
  /\ server = "listening" =>
       \A v \in Viewers : handler[v] \in Streaming => v \in clients
  /\ \A v \in clients : UpToDate(v)

\* A fix that was handed to a publish or an alert is the receiver's last word,
\* and it spoke recently enough: a lost fix is never reported as a position.
FixIsLastWord ==
  handed.fix # NoFix =>
    /\ handed.word.valid
    /\ handed.word.age <= StaleAfter
    /\ handed.fix.age = handed.word.age

\* Close ends, whatever the receiver, the broker and the viewers do.
OutletsEnd == (at = "last publish") ~> (at = "exited")

\* The status topic says online from the start of the publisher to the first
\* loss or refusal of its connection, the late will of an earlier process or
\* not; and when the process is gone it stops saying so.
StatusHonest ==
  /\ [](client /\ ~lost => status = "online")
  /\ (at = "exited") ~> (at # "exited" \/ status # "online")

\* docs/SCHEMA.md: <base>/status is published "on connect": a publisher that
\* is connected says online in the end.
ConnectedSaysOnline ==
  (at = "up" /\ client /\ link = "up")
    ~> (at # "up" \/ link # "up" \/ status = "online")
=============================================================================
