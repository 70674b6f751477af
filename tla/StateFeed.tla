----------------------------- MODULE StateFeed -----------------------------
(***************************************************************************)
(* The live feed: viewers of /events, each with a bounded backlog and a    *)
(* handler of its own on the collector's event loop.  Between two awaits a *)
(* handler runs to the end: joining, and writing out a backlog, are one    *)
(* step each.  A frame is its kind and the number of the publish it shows. *)
(***************************************************************************)
EXTENDS Naturals, Sequences, SequencesExt, FiniteSets

CONSTANTS
  Viewers,       \* who may connect
  MaxClients,    \* MAX_CLIENTS
  ClientQueue    \* CLIENT_QUEUE

ASSUME FeedAssumption ==
  /\ MaxClients \in Nat \ {0}
  /\ ClientQueue \in Nat \ {0}

VARIABLES
  server,        \* _server: "none", "listening", "closing"
  shown,         \* _state, as the number of the publish it came from
  clients,       \* _clients
  handler,       \* per viewer: what its connection is at
  queue,         \* per viewer: _Client.queue
  dropped,       \* per viewer: _Client.dropped
  written,       \* history: per viewer, the frames written to its stream
  joined         \* history: per viewer, how much was published when it joined

feedVars == <<server, shown, clients, handler, queue, dropped, written, joined>>

StateFrame(n) == [kind |-> "state", n |-> n]
AlertFrame(n) == [kind |-> "alert", n |-> n]
EndFrame == [kind |-> "end", n |-> 0]

\* A handler that holds a stream waits for a frame or drains what it wrote.
Streaming == {"waiting", "draining"}

FeedInit ==
  /\ server = "none"
  /\ shown = 0
  /\ clients = {}
  /\ handler = [v \in Viewers |-> "away"]
  /\ queue = [v \in Viewers |-> << >>]
  /\ dropped = [v \in Viewers |-> 0]
  /\ written = [v \in Viewers |-> << >>]
  /\ joined = [v \in Viewers |-> 0]

\* StateFeed.start: the port is bound, or it is not and the feed stays off.
FeedStart(bound) ==
  /\ server' = IF bound THEN "listening" ELSE "none"
  /\ UNCHANGED <<shown, clients, handler, queue, dropped, written, joined>>

\* Mutant of Offered: a full backlog refuses the new frame.
OfferedKeepingOldest(q, f) == IF Len(q) < ClientQueue THEN Append(q, f) ELSE q

\* _Client.offer: the oldest frame makes room.
Offered(q, f) == Append(IF Len(q) < ClientQueue THEN q ELSE Tail(q), f)

Broadcast(f) ==
  /\ queue' = [v \in Viewers |->
                IF v \in clients THEN Offered(queue[v], f) ELSE queue[v]]
  /\ dropped' = [v \in Viewers |->
                  IF v \in clients /\ Len(queue[v]) >= ClientQueue
                  THEN dropped[v] + 1 ELSE dropped[v]]

FeedState(n) ==
  /\ shown' = n
  /\ Broadcast(StateFrame(n))
  /\ UNCHANGED <<server, clients, handler, written, joined>>

FeedEvent(n) ==
  /\ Broadcast(AlertFrame(n))
  /\ UNCHANGED <<server, shown, clients, handler, written, joined>>

Accept(v) ==
  /\ server = "listening"
  /\ handler[v] = "away"
  /\ handler' = [handler EXCEPT ![v] = "request"]
  /\ UNCHANGED <<server, shown, clients, queue, dropped, written, joined>>

\* _route: no request in time, or one that is no request.
RequestFails(v) ==
  /\ handler[v] = "request"
  /\ handler' = [handler EXCEPT ![v] = "away"]
  /\ UNCHANGED <<server, shown, clients, queue, dropped, written, joined>>

\* _respond: any other route, or too many viewers.
Reply(v) ==
  /\ handler[v] = "request"
  /\ handler' = [handler EXCEPT ![v] = "replying"]
  /\ UNCHANGED <<server, shown, clients, queue, dropped, written, joined>>

Replied(v) ==
  /\ handler[v] = "replying"
  /\ handler' = [handler EXCEPT ![v] = "away"]
  /\ UNCHANGED <<server, shown, clients, queue, dropped, written, joined>>

\* _stream up to its first drain.  It does not look whether the feed has been
\* stopped: a request that was being read then joins a closed feed.
Join(v, n) ==
  /\ handler[v] = "request"
  /\ Cardinality(clients) < MaxClients
  /\ clients' = clients \cup {v}
  /\ written' = [written EXCEPT ![v] = <<StateFrame(shown)>>]
  /\ joined' = [joined EXCEPT ![v] = n]
  /\ handler' = [handler EXCEPT ![v] = "draining"]
  /\ UNCHANGED <<server, shown, queue, dropped>>

Forget(v) ==
  /\ handler' = [handler EXCEPT ![v] = "away"]
  /\ queue' = [queue EXCEPT ![v] = << >>]
  /\ dropped' = [dropped EXCEPT ![v] = 0]
  /\ written' = [written EXCEPT ![v] = << >>]
  /\ joined' = [joined EXCEPT ![v] = 0]

\* The end of _stream, whatever ended it: the client is forgotten.
Leave(v) ==
  /\ clients' = clients \ {v}
  /\ Forget(v)

\* The backlog is written out, up to the frame that means close.
Flush(v) ==
  /\ queue[v] # << >>
  /\ IF Contains(queue[v], EndFrame)
     THEN Leave(v)
     ELSE /\ written' = [written EXCEPT ![v] = @ \o queue[v]]
          /\ queue' = [queue EXCEPT ![v] = << >>]
          /\ handler' = [handler EXCEPT ![v] = "draining"]
          /\ UNCHANGED <<clients, dropped, joined>>
  /\ UNCHANGED <<server, shown>>

Woken(v) ==
  /\ handler[v] = "waiting"
  /\ Flush(v)

Keepalive(v) ==
  /\ handler[v] = "waiting"
  /\ handler' = [handler EXCEPT ![v] = "draining"]
  /\ UNCHANGED <<server, shown, clients, queue, dropped, written, joined>>

Drained(v) ==
  /\ handler[v] = "draining"
  /\ \/ Flush(v)
     \/ /\ queue[v] = << >>
        /\ handler' = [handler EXCEPT ![v] = "waiting"]
        /\ UNCHANGED <<server, shown, clients, queue, dropped, written, joined>>

\* The viewer is slow for too long, or its connection is gone.
DrainFails(v) ==
  /\ handler[v] = "draining"
  /\ Leave(v)
  /\ UNCHANGED <<server, shown>>

\* StateFeed.stop up to its await: every viewer is told, and forgotten.
FeedStop ==
  /\ Broadcast(EndFrame)
  /\ clients' = {}
  /\ server' = IF server = "none" THEN "none" ELSE "closing"
  /\ UNCHANGED <<shown, handler, written, joined>>

\* wait_closed returned or timed out.
FeedStopped ==
  /\ server' = "none"
  /\ UNCHANGED <<shown, clients, handler, queue, dropped, written, joined>>

\* asyncio cancels the handlers that are left, and the process ends.
FeedExit ==
  /\ server' = "none"
  /\ shown' = 0
  /\ clients' = {}
  /\ handler' = [v \in Viewers |-> "away"]
  /\ queue' = [v \in Viewers |-> << >>]
  /\ dropped' = [v \in Viewers |-> 0]
  /\ written' = [v \in Viewers |-> << >>]
  /\ joined' = [v \in Viewers |-> 0]

FeedStep(n) ==
  \E v \in Viewers :
    \/ Accept(v) \/ RequestFails(v) \/ Reply(v) \/ Replied(v) \/ Join(v, n)
    \/ Woken(v) \/ Keepalive(v) \/ Drained(v) \/ DrainFails(v)
=============================================================================
