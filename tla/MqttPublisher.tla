--------------------------- MODULE MqttPublisher ---------------------------
(***************************************************************************)
(* The MQTT publisher, its paho client and the broker: the retained status *)
(* topic, the last will, and a connection that drops and comes back.  The  *)
(* client reconnects on a thread of its own; the publisher is not told.    *)
(* The quality of service is 0: what is published on a dropped connection  *)
(* is lost.  The availability topic and the discovery documents are        *)
(* published beside the status and left out.                               *)
(***************************************************************************)
EXTENDS Naturals

VARIABLES
  client,        \* _client is not None
  link,          \* the TCP connection: "none", "up", "down"
  will,          \* the broker has yet to publish the will of a lost connection
  status,        \* the retained <base>/status: "unset", "online", "offline"
  stateTopic,    \* the retained <base>/state: the number of a publish
  lost           \* history: the connection was lost, or refused, since start

mqttVars == <<client, link, will, status, stateTopic, lost>>

MqttInit ==
  /\ client = FALSE
  /\ link = "none"
  /\ will = FALSE
  /\ status = "unset"
  /\ stateTopic = 0
  /\ lost = FALSE

\* paho is missing, or connect raised: the publisher stays off for good.
MqttStartFails == UNCHANGED mqttVars

\* Mutant of MqttStarts: every process connects under an id of its own.
MqttStartsAnew ==
  /\ client' = TRUE
  /\ link' = "up"
  /\ status' = "online"
  /\ lost' = FALSE
  /\ UNCHANGED <<will, stateTopic>>

\* MqttPublisher.start, up to the publish of "online", with no await.  The
\* client id is fixed: the broker ends what is left of an earlier connection,
\* publishing its will first.
MqttStarts ==
  /\ client' = TRUE
  /\ link' = "up"
  /\ will' = FALSE
  /\ status' = "online"
  /\ lost' = FALSE
  /\ UNCHANGED stateTopic

\* start, when connect has sent its packet and the broker refuses it, or takes
\* it and the connection drops before "online" is through.  Neither is an error
\* to start, which reports success; paho tries again.
MqttStartsUnheard ==
  /\ client' = TRUE
  /\ link' = "down"
  /\ lost' = TRUE
  /\ \/ UNCHANGED <<will, status>>
     \/ /\ will' = TRUE
        /\ status' = IF will THEN "offline" ELSE status
  /\ UNCHANGED stateTopic

\* _publish, of the state document.
MqttState(n) ==
  /\ stateTopic' = IF client /\ link = "up" THEN n ELSE stateTopic
  /\ UNCHANGED <<client, link, will, status, lost>>

LinkDrops ==
  /\ link = "up"
  /\ link' = "down"
  /\ will' = TRUE
  /\ lost' = TRUE
  /\ UNCHANGED <<client, status, stateTopic>>

BrokerNotices ==
  /\ will
  /\ will' = FALSE
  /\ status' = "offline"
  /\ UNCHANGED <<client, link, stateTopic, lost>>

\* paho reconnects.  start published "online" once; nothing does again.
Reconnects ==
  /\ client
  /\ link = "down"
  /\ link' = "up"
  /\ will' = FALSE
  /\ status' = IF will THEN "offline" ELSE status
  /\ UNCHANGED <<client, stateTopic, lost>>

\* MqttPublisher.stop: the goodbye, and a disconnect that discards the will.
MqttStop ==
  /\ status' = IF client /\ link = "up" THEN "offline" ELSE status
  /\ client' = FALSE
  /\ link' = "none"
  /\ UNCHANGED <<will, stateTopic, lost>>

\* The process dies: the connection ends without a disconnect.
MqttCrash ==
  /\ will' = (will \/ link = "up")
  /\ client' = FALSE
  /\ link' = "none"
  /\ UNCHANGED <<status, stateTopic, lost>>

MqttStep == LinkDrops \/ BrokerNotices \/ Reconnects
=============================================================================
