--------------------------- MODULE CollectorProofs ---------------------------
(***************************************************************************)
(* Proofs about the run loop and its sessions, for every set of threats,   *)
(* size of the queue, and number of sessions.  The inductive invariant     *)
(* says which of the session's traces are empty at which of its awaits: a  *)
(* session that shows nothing yet, or is over, has no open track, and what *)
(* the history has live is what the tracker has open.  A session that the  *)
(* deadline of a trial cancelled, which may cut its teardown short, is     *)
(* excepted; it is the last one of its collector.                          *)
(***************************************************************************)
EXTENDS Collector, TLAPS, WellFoundedInduction

\* The awaits of a session that has consumed nothing, or has been torn down.
Blank == {"none", "opening", "reading", "absent", "releasing"}

\* The gate's word still stands when the session opens its link.
Gated ==
  pc = "connecting" \/ stage = "opening" => obd /\ doc.status = "connecting"

\* What the history has live is what the tracker has open.
LiveIsOpen == live = open

\* Only the deadline of a trial cancels a session, and none follows it.
LastIfCancelled ==
  cancelled => Expired /\ pc \in {"session", "finishing", "closing", "exited"}

\* A session that has shown nothing, or is torn down, leaves nothing behind.
BlankShowsNothing ==
  ~cancelled /\ stage \in Blank => open = {} /\ alerts = {} /\ tracks = {}

\* A session between the connect and its end says that it is connected.
ConnectedInSession ==
  ~cancelled /\ stage \notin {"none", "opening"} => connected

\* No document of a collector without a link shows what is not there.
NothingShown ==
  ~cancelled /\ ~doc.connected => doc.alerts = {} /\ doc.tracks = {}

IInv ==
  /\ stage \in Stages
  /\ queue \in Seq(Snapshots \cup Telemetry)
  /\ LinkReleased
  /\ Gated
  /\ LiveIsOpen
  /\ BlankShowsNothing
  /\ ConnectedInSession
  /\ NothingShown
  /\ LastIfCancelled

-----------------------------------------------------------------------------
(***************************************************************************)
(* Induction over the records of a pass.  The theorems of the library take *)
(* the property as an operator; here it is the set of the numbers that     *)
(* have it.                                                                *)
(***************************************************************************)

Below == {p \in Nat \X Nat : p[1] < p[2]}

LEMMA BelowWellFounded == IsWellFoundedOn(Below, Nat)
  BY NatLessThanWellFounded DEF OpToRel, Below

\* A set of numbers that has 0, and the next of each of its members, has all.
LEMMA Induction ==
  ASSUME NEW S \in SUBSET Nat, 0 \in S, \A n \in S : n + 1 \in S
  PROVE  S = Nat
  <1> DEFINE Rest == Nat \ S
  <1>1. SUFFICES ASSUME Rest # {} PROVE FALSE
    OBVIOUS
  <1>2. PICK x \in Rest : \A y \in Rest : ~(<<y, x>> \in Below)
    BY <1>1, BelowWellFounded, WFMin
  <1>3. x # 0 /\ x - 1 \in Nat /\ x - 1 < x
    BY <1>2
  <1>4. <<x - 1, x>> \in Below
    BY <1>3 DEF Below
  <1>5. x - 1 \in S
    BY <1>2, <1>3, <1>4
  <1> QED BY <1>2, <1>3, <1>5

\* The views of a pass after each of the first n records.
IsPass(seen, records, n) ==
  seen = [i \in 0..n |-> IF i = 0 THEN Unseen ELSE Observe(seen[i - 1], records[i])]

\* A pass has a view after each of its records.
LEMMA PassExists ==
  ASSUME NEW records, NEW n \in Nat
  PROVE  \E seen : IsPass(seen, records, n)
  <1> DEFINE S == {k \in Nat : \E seen : IsPass(seen, records, k)}
  <1>1. 0 \in S
    <2>1. IsPass([i \in 0..0 |-> Unseen], records, 0)
      BY DEF IsPass
    <2> QED BY <2>1
  <1>2. ASSUME NEW k \in S PROVE k + 1 \in S
    <2>1. PICK f : IsPass(f, records, k)
      BY <1>2
    <2> DEFINE g == [i \in 0..(k + 1) |->
                       IF i = k + 1 THEN Observe(f[k], records[k + 1]) ELSE f[i]]
    <2>2. \A i \in 0..k : g[i] = f[i]
      OBVIOUS
    <2>3. \A i \in 0..k : f[i] = IF i = 0 THEN Unseen ELSE Observe(f[i - 1], records[i])
      BY <2>1 DEF IsPass
    <2>4. ASSUME NEW i \in 0..(k + 1)
          PROVE  g[i] = IF i = 0 THEN Unseen ELSE Observe(g[i - 1], records[i])
      <3>1. CASE i = k + 1
        <4>1. i # 0 /\ i - 1 = k /\ k \in 0..k
          BY <3>1
        <4> QED BY <4>1, <3>1, <2>2
      <3>2. CASE i # k + 1 /\ i # 0
        <4>1. i \in 0..k /\ i - 1 \in 0..k
          BY <3>2
        <4> QED BY <4>1, <3>2, <2>2, <2>3
      <3>3. CASE i = 0
        BY <3>3, <2>2, <2>3
      <3> QED BY <3>1, <3>2, <3>3
    <2>5. IsPass(g, records, k + 1)
      BY <2>4 DEF IsPass
    <2> QED BY <2>5
  <1> HIDE DEF S
  <1>3. S = Nat
    <2>1. S \subseteq Nat
      BY DEF S
    <2> QED BY <1>1, <1>2, <2>1, Induction
  <1> QED BY <1>3 DEF S

\* The last view of a pass comes of applying the records one after another.
LEMMA ConsumedIsPass ==
  ASSUME NEW records, Len(records) \in Nat
  PROVE  \E seen : /\ seen[0] = Unseen
                   /\ \A i \in 1..Len(records) :
                        seen[i] = Observe(seen[i - 1], records[i])
                   /\ Consumed(records) = seen[Len(records)]
  <1> DEFINE seen[i \in 0..Len(records)] ==
               IF i = 0 THEN Unseen ELSE Observe(seen[i - 1], records[i])
  <1>1. \E f : IsPass(f, records, Len(records))
    BY PassExists
  <1>2. seen = [i \in 0..Len(records) |->
                 IF i = 0 THEN Unseen ELSE Observe(seen[i - 1], records[i])]
    BY <1>1 DEF IsPass
  <1>3. Consumed(records) = seen[Len(records)]
    BY DEF Consumed
  <1> HIDE DEF seen
  <1>4. seen[0] = Unseen
    BY <1>2
  <1>5. ASSUME NEW i \in 1..Len(records)
        PROVE  seen[i] = Observe(seen[i - 1], records[i])
    BY <1>2
  <1> QED BY <1>3, <1>4, <1>5

LEMMA ObserveAgrees ==
  ASSUME NEW v, NEW s, v.live = v.open
  PROVE  Observe(v, s).live = Observe(v, s).open
  <1>1. CASE s.kind = "telemetry"
    BY <1>1 DEF Observe
  <1>2. CASE s.kind # "telemetry"
    <2> DEFINE gone == IF s.recognised THEN v.missed \ s.shows ELSE {}
    <2>1. /\ Observe(v, s).live = (v.live \cup (s.shows \ v.open)) \ gone
          /\ Observe(v, s).open = (v.open \cup s.shows) \ gone
      BY <1>2 DEF Observe
    <2> HIDE DEF gone
    <2> QED BY <2>1
  <1> QED BY <1>1, <1>2

\* A pass starts and ends in the events the threats it opens and closes in the
\* tracker.
LEMMA ConsumedAgrees ==
  ASSUME NEW records, Len(records) \in Nat, live = open
  PROVE  Consumed(records).live = Consumed(records).open
  <1>1. PICK seen : /\ seen[0] = Unseen
                    /\ \A i \in 1..Len(records) :
                         seen[i] = Observe(seen[i - 1], records[i])
                    /\ Consumed(records) = seen[Len(records)]
    BY ConsumedIsPass
  <1> DEFINE S == {n \in Nat : n <= Len(records) => seen[n].live = seen[n].open}
  <1>2. 0 \in S
    <2>1. Unseen.live = Unseen.open
      BY DEF Unseen
    <2> QED BY <2>1, <1>1
  <1>3. ASSUME NEW n \in S PROVE n + 1 \in S
    <2> SUFFICES ASSUME n + 1 <= Len(records)
                 PROVE  seen[n + 1].live = seen[n + 1].open
      OBVIOUS
    <2>1. n \in Nat /\ n <= Len(records) /\ n + 1 \in 1..Len(records) /\ (n + 1) - 1 = n
      OBVIOUS
    <2>2. seen[n].live = seen[n].open
      BY <2>1
    <2>3. seen[n + 1] = Observe(seen[n], records[n + 1])
      BY <1>1, <2>1
    <2> HIDE DEF S
    <2> QED BY <2>2, <2>3, ObserveAgrees
  <1>4. S = Nat
    <2>1. S \subseteq Nat
      OBVIOUS
    <2> HIDE DEF S
    <2> QED BY <1>2, <1>3, <2>1, Induction
  <1> QED BY <1>1, <1>4

-----------------------------------------------------------------------------

LEMMA InitIInv == Init => IInv
  <1> SUFFICES ASSUME Init PROVE IInv
    OBVIOUS
  <1>1. queue \in Seq(Snapshots \cup Telemetry)
    <2>1. queue = <<>>
      BY DEF Init
    <2> QED BY <2>1
  <1>2. doc.connected = FALSE /\ doc.alerts = {} /\ doc.tracks = {}
    BY DEF Init
  <1>3. LinkReleased
    BY <1>2 DEF Init, LinkReleased
  <1> QED BY <1>1, <1>2, <1>3 DEF Init, IInv, Stages, Gated, LiveIsOpen,
             BlankShowsNothing, ConnectedInSession, NothingShown, LastIfCancelled

LEMMA GoRoundInv == IInv /\ GoRound => IInv'
  BY DEF IInv, GoRound, vars, runVars, sessionVars, stateVars, outward, Stages, Streaming,
     LinkReleased, Gated, LiveIsOpen, BlankShowsNothing, ConnectedInSession,
     NothingShown, LastIfCancelled, InTrial, Expired

\* What a published document says.
LEMMA PublishedSays ==
  ASSUME Published
  PROVE  /\ doc'.status = status' /\ doc'.connected = connected'
         /\ doc'.alerts = alerts' /\ doc'.tracks = tracks'
  BY DEF Published

LEMMA GateInv == IInv /\ Gate => IInv'
  <1> SUFFICES ASSUME IInv, Gate PROVE IInv'
    OBVIOUS
  <1>1. /\ pc = "gating" /\ connected' = FALSE
        /\ \/ pc' = "connecting" /\ obd' /\ status' = "connecting"
           \/ pc' = "paused"
        /\ UNCHANGED <<deadline, cancelled, stage, link, queue, open, live, alerts, tracks>>
    BY DEF Gate, sessionVars
  <1>2. /\ doc'.status = status' /\ doc'.connected = FALSE
        /\ doc'.alerts = alerts /\ doc'.tracks = tracks
    BY <1>1, PublishedSays DEF Gate
  <1>3. stage = "none"
    BY <1>1 DEF IInv, LinkReleased
  <1> QED BY <1>1, <1>2, <1>3 DEF IInv, LinkReleased, Gated, LiveIsOpen, BlankShowsNothing,
             ConnectedInSession, NothingShown, LastIfCancelled, InTrial, Expired, Blank, Stages, Streaming

LEMMA BeginSessionInv == IInv /\ BeginSession => IInv'
  BY DEF IInv, BeginSession, Blank, vars, runVars, sessionVars, stateVars, outward, Stages, Streaming,
     LinkReleased, Gated, LiveIsOpen, BlankShowsNothing, ConnectedInSession,
     NothingShown, LastIfCancelled, InTrial, Expired

LEMMA LeaveLoopInv == IInv /\ LeaveLoop => IInv'
  BY DEF IInv, LeaveLoop, vars, runVars, sessionVars, stateVars, outward, Stages, Streaming,
     LinkReleased, Gated, LiveIsOpen, BlankShowsNothing, ConnectedInSession,
     NothingShown, LastIfCancelled, InTrial, Expired

LEMMA ResumeInv == IInv /\ Resume => IInv'
  BY DEF IInv, Resume, vars, runVars, sessionVars, stateVars, outward, Stages, Streaming,
     LinkReleased, Gated, LiveIsOpen, BlankShowsNothing, ConnectedInSession,
     NothingShown, LastIfCancelled, InTrial, Expired

LEMMA BackoffRaisesInv == IInv /\ BackoffRaises => IInv'
  BY DEF IInv, BackoffRaises, vars, runVars, sessionVars, stateVars, outward, Stages, Streaming,
     LinkReleased, Gated, LiveIsOpen, BlankShowsNothing, ConnectedInSession,
     NothingShown, LastIfCancelled, InTrial, Expired

LEMMA FinishInv == IInv /\ Finish => IInv'
  <1> SUFFICES ASSUME IInv, Finish PROVE IInv'
    OBVIOUS
  <1>1. /\ pc = "finishing" /\ connected' = FALSE /\ pc' = "closing"
        /\ UNCHANGED <<deadline, cancelled, stage, link, queue, open, live, alerts, tracks>>
    BY DEF Finish, sessionVars
  <1>2. /\ doc'.connected = FALSE /\ doc'.alerts = alerts /\ doc'.tracks = tracks
    BY <1>1, PublishedSays DEF Finish
  <1>3. stage = "none"
    BY <1>1 DEF IInv, LinkReleased
  <1> QED BY <1>1, <1>2, <1>3 DEF IInv, LinkReleased, Gated, LiveIsOpen, BlankShowsNothing,
             ConnectedInSession, NothingShown, LastIfCancelled, InTrial, Expired, Blank, Stages, Streaming

LEMMA CloseInv == IInv /\ Close => IInv'
  BY DEF IInv, Close, vars, runVars, sessionVars, stateVars, outward, Stages, Streaming,
     LinkReleased, Gated, LiveIsOpen, BlankShowsNothing, ConnectedInSession,
     NothingShown, LastIfCancelled, InTrial, Expired

LEMMA ConnectInv == IInv /\ Connect => IInv'
  <1> SUFFICES ASSUME IInv, Connect PROVE IInv'
    OBVIOUS
  <1>1. /\ stage = "opening" /\ link' = TRUE /\ connected' = TRUE
        /\ UNCHANGED <<pc, deadline, cancelled, queue, open, live, alerts>>
        /\ \/ stage' = "reading" /\ UNCHANGED <<tracks, doc>>
           \/ stage' = "absent" /\ SessionPublished
    BY DEF Connect, runVars
  <1>2. CASE stage' = "reading" /\ UNCHANGED <<tracks, doc>>
    BY <1>1, <1>2 DEF IInv, LinkReleased, Gated, LiveIsOpen, BlankShowsNothing,
             ConnectedInSession, NothingShown, LastIfCancelled, InTrial, Expired, Blank, Stages, Streaming
  <1>3. CASE stage' = "absent" /\ SessionPublished
    <2>1. tracks' = open' /\ doc'.connected = TRUE
      BY <1>1, <1>3, PublishedSays DEF SessionPublished
    <2> QED BY <1>1, <1>3, <2>1 DEF IInv, LinkReleased, Gated, LiveIsOpen, BlankShowsNothing,
             ConnectedInSession, NothingShown, LastIfCancelled, InTrial, Expired, Blank, Stages, Streaming
  <1> QED BY <1>1, <1>2, <1>3

\* A session that ends with nothing on screen leaves nothing behind.
LEMMA EndSessionInv ==
  ASSUME IInv, NEW result, EndSession(result), stage \in Blank, stage # "none"
  PROVE  IInv'
  <1>1. /\ stage' = "none" /\ link' = FALSE /\ connected' = FALSE
        /\ UNCHANGED <<deadline, cancelled, queue, open, live, alerts, tracks>>
        /\ \/ pc' = "finishing" /\ UNCHANGED doc
           \/ pc' = "paused" /\ ~Expired /\ Published
    BY Zenon DEF EndSession
  <1>2. CASE pc' = "finishing" /\ UNCHANGED doc
    BY <1>1, <1>2 DEF IInv, LinkReleased, Gated, LiveIsOpen, BlankShowsNothing,
             ConnectedInSession, NothingShown, LastIfCancelled, InTrial, Expired, Blank, Stages, Streaming
  <1>3. CASE pc' = "paused" /\ ~Expired /\ Published
    <2>1. /\ doc'.connected = FALSE /\ doc'.alerts = alerts' /\ doc'.tracks = tracks'
      BY <1>1, <1>3, PublishedSays
    <2> QED BY <1>1, <1>3, <2>1 DEF IInv, LinkReleased, Gated, LiveIsOpen, BlankShowsNothing,
             ConnectedInSession, NothingShown, LastIfCancelled, InTrial, Expired, Blank, Stages, Streaming
  <1> QED BY <1>1, <1>2, <1>3

LEMMA ConnectFailsInv == IInv /\ ConnectFails => IInv'
  <1> SUFFICES ASSUME IInv, ConnectFails PROVE IInv'
    OBVIOUS
  <1>1. PICK result \in {"failed", "timed out"} : EndSession(result)
    BY DEF ConnectFails
  <1>2. stage = "opening"
    BY DEF ConnectFails
  <1> QED BY <1>1, <1>2, EndSessionInv DEF Blank

LEMMA ReadInitialInv == IInv /\ ReadInitial => IInv'
  <1> SUFFICES ASSUME IInv, ReadInitial PROVE IInv'
    OBVIOUS
  <1>1. PICK payload \in {<<>>} \cup {<<s>> : s \in Snapshots} : Consume(payload)
    BY DEF ReadInitial
  <1>2. Len(payload) \in Nat
    OBVIOUS
  <1>3. /\ stage = "reading" /\ stage' = "subscribing"
        /\ UNCHANGED <<pc, deadline, cancelled, connected, link, doc, tracks>>
    BY DEF ReadInitial, runVars
  <1>4. queue' = <<>> /\ (live = open => live' = open')
    BY <1>1, <1>2, ConsumedAgrees DEF Consume
  <1>5. queue' \in Seq(Snapshots \cup Telemetry)
    BY <1>4
  <1> QED BY <1>3, <1>4, <1>5 DEF IInv, LinkReleased, Gated, LiveIsOpen, BlankShowsNothing,
             ConnectedInSession, NothingShown, LastIfCancelled, InTrial, Expired, Blank, Stages, Streaming

LEMMA SubscribeInv == IInv /\ Subscribe => IInv'
  <1> SUFFICES ASSUME IInv, Subscribe PROVE IInv'
    OBVIOUS
  <1>1. /\ stage = "subscribing" /\ stage' \in {"degraded", "announcing"}
        /\ UNCHANGED <<pc, deadline, cancelled, connected, alerts, link, queue, open, live>>
    BY DEF Subscribe, runVars
  <1>2. doc'.connected = connected
    BY <1>1, PublishedSays DEF Subscribe, SessionPublished
  <1> QED BY <1>1, <1>2 DEF IInv, LinkReleased, Gated, LiveIsOpen, BlankShowsNothing,
             ConnectedInSession, NothingShown, LastIfCancelled, InTrial, Expired, Blank, Stages, Streaming

LEMMA PublishReturnsInv == IInv /\ PublishReturns => IInv'
  BY DEF IInv, PublishReturns, PumpHead, Blank, vars, runVars, sessionVars, stateVars, outward, Stages, Streaming,
     LinkReleased, Gated, LiveIsOpen, BlankShowsNothing, ConnectedInSession,
     NothingShown, LastIfCancelled, InTrial, Expired

\* A round's checks leave the session among its streaming awaits.
LEMMA ChecksAgain ==
  ASSUME NEW moved, NEW remark, Checks(moved, remark), UNCHANGED connected
  PROVE  stage' \in Streaming /\ (UNCHANGED doc \/ doc'.connected = connected)
  BY PublishedSays DEF Checks, PumpHead, SessionPublished, Streaming

LEMMA PumpRoundInv == IInv /\ PumpRound => IInv'
  <1> SUFFICES ASSUME IInv, PumpRound PROVE IInv'
    OBVIOUS
  <1>1. /\ stage = "waiting" /\ Consume(queue)
        /\ UNCHANGED <<pc, deadline, cancelled, connected, link>>
        /\ \/ stage' = "probing" /\ UNCHANGED <<tracks, doc>>
           \/ Checks(Consumed(queue).moved, NoteAfterConsume)
    BY DEF PumpRound, runVars
  <1>2. Len(queue) \in Nat
    BY DEF IInv
  <1>3. queue' = <<>> /\ (live = open => live' = open')
    BY <1>1, <1>2, ConsumedAgrees DEF Consume
  <1>4. queue' \in Seq(Snapshots \cup Telemetry)
    BY <1>3
  <1>5. /\ stage' \in Streaming
        /\ \/ UNCHANGED doc
           \/ doc'.connected = connected
    BY <1>1, ChecksAgain DEF Streaming
  <1> QED BY <1>1, <1>3, <1>4, <1>5 DEF IInv, LinkReleased, Gated, LiveIsOpen, BlankShowsNothing,
             ConnectedInSession, NothingShown, LastIfCancelled, InTrial, Expired, Blank, Stages, Streaming

LEMMA PumpStopsInv == IInv /\ PumpStops => IInv'
  BY DEF IInv, PumpStops, Blank, vars, runVars, sessionVars, stateVars, outward, Stages, Streaming,
     LinkReleased, Gated, LiveIsOpen, BlankShowsNothing, ConnectedInSession,
     NothingShown, LastIfCancelled, InTrial, Expired

LEMMA ProbeReturnsInv == IInv /\ ProbeReturns => IInv'
  <1> SUFFICES ASSUME IInv, ProbeReturns PROVE IInv'
    OBVIOUS
  <1>1. /\ stage = "probing"
        /\ UNCHANGED <<pc, deadline, cancelled, connected, link, queue, open, live, alerts>>
        /\ \/ Checks(transitions, note)
           \/ stage' = "blocked" /\ SessionPublished
    BY DEF ProbeReturns, runVars
  <1>2. /\ stage' \in Streaming
        /\ \/ UNCHANGED doc
           \/ doc'.connected = connected
    BY <1>1, ChecksAgain, PublishedSays DEF Streaming, SessionPublished
  <1> QED BY <1>1, <1>2 DEF IInv, LinkReleased, Gated, LiveIsOpen, BlankShowsNothing,
             ConnectedInSession, NothingShown, LastIfCancelled, InTrial, Expired, Blank, Stages, Streaming

LEMMA UnsubscribeInv == IInv /\ Unsubscribe => IInv'
  BY DEF IInv, Unsubscribe, Blank, vars, runVars, sessionVars, stateVars, outward, Stages, Streaming,
     LinkReleased, Gated, LiveIsOpen, BlankShowsNothing, ConnectedInSession,
     NothingShown, LastIfCancelled, InTrial, Expired

LEMMA TeardownInv == IInv /\ Teardown => IInv'
  <1> SUFFICES ASSUME IInv, Teardown PROVE IInv'
    OBVIOUS
  <1>1. /\ stage = "unsubscribing" /\ stage' = "releasing"
        /\ UNCHANGED <<pc, deadline, cancelled, connected, link, doc>>
        /\ live' = Consumed(queue).live \ Consumed(queue).open
        /\ open' = {} /\ alerts' = {} /\ tracks' = {} /\ queue' = <<>>
    BY DEF Teardown, runVars
  <1>2. Len(queue) \in Nat
    BY DEF IInv
  <1>3. live = open => live' = {}
    BY <1>1, <1>2, ConsumedAgrees
  <1>4. queue' \in Seq(Snapshots \cup Telemetry)
    BY <1>1
  <1> QED BY <1>1, <1>3, <1>4 DEF IInv, LinkReleased, Gated, LiveIsOpen, BlankShowsNothing,
             ConnectedInSession, NothingShown, LastIfCancelled, InTrial, Expired, Blank, Stages, Streaming

LEMMA ReleaseInv == IInv /\ Release => IInv'
  <1> SUFFICES ASSUME IInv, Release PROVE IInv'
    OBVIOUS
  <1>1. PICK result \in {"returned", "failed", "timed out"} : EndSession(result)
    BY DEF Release
  <1>2. stage = "releasing"
    BY DEF Release
  <1> QED BY <1>1, <1>2, EndSessionInv DEF Blank

LEMMA CancelInv == IInv /\ Cancel => IInv'
  BY DEF IInv, Cancel, Blank, Guarded, vars, runVars, sessionVars, stateVars, outward, Stages, Streaming,
     LinkReleased, Gated, LiveIsOpen, BlankShowsNothing, ConnectedInSession,
     NothingShown, LastIfCancelled, InTrial, Expired

LEMMA SignalInv == IInv /\ Signal => IInv'
  BY DEF IInv, Signal, vars, runVars, sessionVars, stateVars, outward, Stages, Streaming,
     LinkReleased, Gated, LiveIsOpen, BlankShowsNothing, ConnectedInSession,
     NothingShown, LastIfCancelled, InTrial, Expired

LEMMA ExpireInv == IInv /\ Expire => IInv'
  BY DEF IInv, Expire, vars, runVars, sessionVars, stateVars, outward, Stages, Streaming,
     LinkReleased, Gated, LiveIsOpen, BlankShowsNothing, ConnectedInSession,
     NothingShown, LastIfCancelled, InTrial, Expired

LEMMA NotifyInv ==
  ASSUME NEW s \in Snapshots \cup Telemetry PROVE IInv /\ Notify(s) => IInv'
  <1> SUFFICES ASSUME IInv, Notify(s) PROVE IInv'
    OBVIOUS
  <1>1. /\ UNCHANGED <<pc, deadline, cancelled, obd, connected, alerts, tracks, stage, link,
                       open, live, doc>>
        /\ \/ Len(queue) < QueueSize /\ queue' = Append(queue, s)
           \/ ~(Len(queue) < QueueSize) /\ queue' = Append(Tail(queue), s)
    BY DEF Notify, runVars, stateVars, outward
  <1>2. queue' \in Seq(Snapshots \cup Telemetry)
    <2>1. queue \in Seq(Snapshots \cup Telemetry)
      BY DEF IInv
    <2>2. ~(Len(queue) < QueueSize) => queue # <<>>
      BY <2>1, CollectorAssumption
    <2> QED BY <1>1, <2>1, <2>2
  <1> QED BY <1>1, <1>2 DEF IInv, LinkReleased, Gated, LiveIsOpen, BlankShowsNothing,
             ConnectedInSession, NothingShown, LastIfCancelled, InTrial, Expired, Blank, Stages, Streaming

LEMMA NextIInv == IInv /\ [Next]_vars => IInv'
  <1> SUFFICES ASSUME IInv, [Next]_vars PROVE IInv'
    OBVIOUS
  <1>1. CASE UNCHANGED vars
    BY <1>1 DEF vars, runVars, sessionVars, stateVars, outward, IInv, LinkReleased, Gated, LiveIsOpen, BlankShowsNothing,
             ConnectedInSession, NothingShown, LastIfCancelled, InTrial, Expired, Blank, Stages, Streaming
  <1>2. CASE Task
    BY <1>2, GoRoundInv, GateInv, BeginSessionInv, LeaveLoopInv, ResumeInv,
       BackoffRaisesInv, FinishInv, CloseInv, ConnectInv, ConnectFailsInv,
       ReadInitialInv, SubscribeInv, PublishReturnsInv, PumpRoundInv,
       PumpStopsInv, ProbeReturnsInv, UnsubscribeInv, TeardownInv, ReleaseInv,
       CancelInv DEF Task
  <1>3. ASSUME NEW s \in Snapshots \cup Telemetry, Notify(s) PROVE IInv'
    BY <1>3, NotifyInv
  <1>4. CASE Signal \/ Expire
    BY <1>4, SignalInv, ExpireInv
  <1> QED BY <1>1, <1>2, <1>3, <1>4 DEF Next

-----------------------------------------------------------------------------

\* Every reachable state of the collector satisfies the inductive invariant.
THEOREM CollectorInvariant == Spec => []IInv
  BY InitIInv, NextIInv, PTL DEF Spec

\* The link is a session's, and past a session nothing says "connected".
THEOREM LinkIsReleased == Spec => []LinkReleased
  BY CollectorInvariant, PTL DEF IInv

\* No session of a continuous collector leaves a threat live in the history.
THEOREM ThreatsEnd == Spec => []NoThreatLeftLive
  <1>1. IInv => NoThreatLeftLive
    BY DEF IInv, NoThreatLeftLive, LiveIsOpen, BlankShowsNothing, Blank,
           LastIfCancelled, InTrial, Expired
  <1> QED BY <1>1, CollectorInvariant, PTL

\* No document of a continuous collector without a link shows an alert.
THEOREM NothingStaysOnScreen == Spec => []NothingLatched
  <1>1. IInv => NothingLatched
    BY DEF IInv, NothingLatched, NothingShown, LastIfCancelled, InTrial, Expired
  <1> QED BY <1>1, CollectorInvariant, PTL

\* A trial leaves a threat live in the history, or an alert in a document that
\* says that there is no link, only when its deadline cancelled the session, and
\* then the collector is on its way out: no session, and no start of one, is
\* behind it (the wait_for around session.run).
TracesLeft ==
  \/ stage = "none" /\ live # {}
  \/ ~doc.connected /\ doc.alerts \cup doc.tracks # {}

TracesAreOfTheDeadline ==
  TracesLeft => /\ cancelled /\ Expired
                /\ pc \in {"session", "finishing", "closing", "exited"}

THEOREM OnlyTheDeadlineLeavesTraces == Spec => []TracesAreOfTheDeadline
  <1>1. IInv => TracesAreOfTheDeadline
    BY DEF IInv, TracesAreOfTheDeadline, TracesLeft, LiveIsOpen, BlankShowsNothing, Blank,
           NothingShown, LastIfCancelled
  <1> QED BY <1>1, CollectorInvariant, PTL

LEMMA EndSessionUnlinks ==
  ASSUME NEW result, EndSession(result) PROVE link' = FALSE
  BY Zenon DEF EndSession

\* The link is opened only on the word of a healthy OBD probe.
THEOREM GatedLink == Spec => LinkOnlyWhenGated
  <1>1. IInv /\ [Next]_vars => [~link /\ link' => obd /\ doc.status = "connecting"]_vars
    <2> SUFFICES ASSUME IInv, [Next]_vars, ~link, link'
                 PROVE  obd /\ doc.status = "connecting"
      OBVIOUS
    <2>1. Connect \/ link' = link \/ link' = FALSE
      BY EndSessionUnlinks DEF Next, Task, GoRound, Gate, BeginSession, LeaveLoop, Resume,
             BackoffRaises, Finish, Close, ConnectFails, ReadInitial, Subscribe,
             PublishReturns, PumpRound, PumpStops, ProbeReturns, Unsubscribe,
             Teardown, Release, Cancel, Notify, Signal, Expire, sessionVars, vars
    <2> QED BY <2>1 DEF IInv, Gated, Connect
  <1> QED BY <1>1, CollectorInvariant, PTL DEF Spec, LinkOnlyWhenGated
-----------------------------------------------------------------------------
(***************************************************************************)
(* Types.  The parts of TypeOK, so that a step is asked about those it     *)
(* touches, and what bounds the attempts: only a loop that can still       *)
(* compute its backoff counts another one.                                 *)
(***************************************************************************)

LoopTypes ==
  /\ pc \in {"top", "gating", "connecting", "session", "paused", "finishing",
            "closing", "exited"}
  /\ deadline \in {"none", "ahead", "passed"}
  /\ stop \in BOOLEAN /\ obd \in BOOLEAN
  /\ asked \in BOOLEAN /\ everCompatible \in BOOLEAN

AttemptTypes ==
  /\ attempt \in 0..(LastAttempt + 1)
  /\ pc \in {"top", "gating", "connecting", "session"} => attempt <= LastAttempt

LinkTypes ==
  /\ stage \in Stages
  /\ link \in BOOLEAN
  /\ transitions \in BOOLEAN /\ cancelled \in BOOLEAN
  /\ subscribed \subseteq Kinds

QueueTypes ==
  /\ queue \in Seq(Snapshots \cup Telemetry) /\ Len(queue) <= QueueSize
  /\ hole \in BOOLEAN

TrackTypes ==
  /\ open \subseteq Threats /\ missed \subseteq open
  /\ live \subseteq Threats /\ alerts \subseteq Threats

ShownTypes ==
  /\ status \in Statuses
  /\ connected \in BOOLEAN /\ compatible \in BOOLEAN
  /\ note \in Notes
  /\ tracks \subseteq Threats

Documents ==
  [status : Statuses \cup {"none"}, connected : BOOLEAN, compatible : BOOLEAN,
   note : Notes, alerts : SUBSET Threats, tracks : SUBSET Threats]

DocTypes == doc \in Documents

Types ==
  /\ LoopTypes
  /\ AttemptTypes
  /\ LinkTypes
  /\ QueueTypes
  /\ TrackTypes
  /\ ShownTypes
  /\ DocTypes

\* A view of a pass.
IsView(v) ==
  /\ v.open \subseteq Threats /\ v.missed \subseteq v.open
  /\ v.live \subseteq Threats /\ v.alerts \subseteq Threats
  /\ v.moved \in BOOLEAN

LEMMA ObserveViews ==
  ASSUME NEW v, IsView(v), NEW s \in Snapshots \cup Telemetry
  PROVE  IsView(Observe(v, s))
  <1>1. CASE s.kind = "telemetry"
    BY <1>1 DEF Observe
  <1>2. CASE s.kind # "telemetry"
    <2> DEFINE gone == IF s.recognised THEN v.missed \ s.shows ELSE {}
    <2>1. s.shows \subseteq Threats
      <3>1. s \in Snapshots
        BY <1>2 DEF Telemetry
      <3> QED BY <3>1 DEF Snapshots
    <2>2. /\ Observe(v, s).alerts = s.shows
          /\ Observe(v, s).open = (v.open \cup s.shows) \ gone
          /\ Observe(v, s).missed = IF s.recognised
                                    THEN (v.open \ s.shows) \ gone
                                    ELSE v.missed \ s.shows
          /\ Observe(v, s).live = (v.live \cup (s.shows \ v.open)) \ gone
          /\ Observe(v, s).moved = (v.moved \/ gone # {} \/ s.shows \ v.open # {})
      BY <1>2 DEF Observe
    <2>3. ~s.recognised => gone = {}
      OBVIOUS
    <2> HIDE DEF gone
    <2> QED BY <2>1, <2>2, <2>3 DEF IsView
  <1> QED BY <1>1, <1>2

\* A pass leaves a view, whatever is in the queue.
LEMMA ConsumedViews ==
  ASSUME TrackTypes, NEW records \in Seq(Snapshots \cup Telemetry)
  PROVE  IsView(Consumed(records))
  <1> DEFINE n == Len(records)
  <1>1. n \in Nat /\ \A i \in 1..n : records[i] \in Snapshots \cup Telemetry
    OBVIOUS
  <1>2. PICK seen : /\ seen[0] = Unseen
                    /\ \A i \in 1..n : seen[i] = Observe(seen[i - 1], records[i])
                    /\ Consumed(records) = seen[n]
    BY <1>1, ConsumedIsPass
  <1> HIDE DEF n
  <1> DEFINE S == {k \in Nat : k <= n => IsView(seen[k])}
  <1>3. 0 \in S
    <2>1. IsView(Unseen)
      BY DEF Unseen, IsView, TrackTypes
    <2> QED BY <1>2, <2>1
  <1>4. ASSUME NEW k \in S PROVE k + 1 \in S
    <2> SUFFICES ASSUME k + 1 <= n PROVE IsView(seen[k + 1])
      OBVIOUS
    <2>1. k \in Nat /\ k <= n /\ k + 1 \in 1..n /\ (k + 1) - 1 = k
      BY <1>1
    <2>2. IsView(seen[k])
      BY <2>1
    <2>3. seen[k + 1] = Observe(seen[k], records[k + 1])
      BY <1>2, <2>1
    <2>4. records[k + 1] \in Snapshots \cup Telemetry
      BY <1>1, <2>1
    <2> HIDE DEF S
    <2> QED BY <2>2, <2>3, <2>4, ObserveViews
  <1>5. S = Nat
    <2>1. S \subseteq Nat
      OBVIOUS
    <2> HIDE DEF S
    <2> QED BY <1>3, <1>4, <2>1, Induction
  <1>6. n \in S
    BY <1>1, <1>5
  <1> QED BY <1>1, <1>2, <1>6

\* What is published is a document.
LEMMA PublishedTyped ==
  ASSUME Published, ShownTypes', alerts' \subseteq Threats
  PROVE  DocTypes'
  <1>1. /\ status' \in Statuses \cup {"none"}
        /\ connected' \in BOOLEAN /\ compatible' \in BOOLEAN
        /\ note' \in Notes
        /\ alerts' \in SUBSET Threats /\ tracks' \in SUBSET Threats
    BY DEF ShownTypes
  <1> HIDE DEF Statuses, Notes
  <1> QED BY <1>1, Zenon DEF Published, DocTypes, Documents

LEMMA InitTypes == Init => Types
  <1> SUFFICES ASSUME Init PROVE Types
    OBVIOUS
  <1>1. queue \in Seq(Snapshots \cup Telemetry) /\ Len(queue) = 0
    <2>1. queue = <<>>
      BY DEF Init
    <2> QED BY <2>1
  <1>2. LoopTypes /\ LinkTypes /\ TrackTypes /\ ShownTypes
    BY DEF Init, LoopTypes, LinkTypes, Stages, TrackTypes, ShownTypes, Statuses,
           Notes
  <1>3. AttemptTypes
    <2>1. attempt = 0
      BY DEF Init
    <2>2. 0 \in 0..(LastAttempt + 1) /\ 0 <= LastAttempt
      BY CollectorAssumption
    <2> QED BY <2>1, <2>2 DEF AttemptTypes
  <1>4. QueueTypes
    <2>1. 0 <= QueueSize
      BY CollectorAssumption
    <2>2. hole = FALSE
      BY DEF Init
    <2> QED BY <1>1, <2>1, <2>2 DEF QueueTypes
  <1>5. DocTypes
    BY DEF Init, DocTypes, Documents, Notes
  <1> QED BY <1>2, <1>3, <1>4, <1>5 DEF Types

\* Steps that leave the view of the session and what was published alone.
Quiet == UNCHANGED <<status, connected, compatible, note, tracks, doc, live>>

LEMMA QuietTypes ==
  ASSUME ShownTypes, DocTypes, Quiet PROVE ShownTypes' /\ DocTypes'
  BY DEF ShownTypes, DocTypes, Quiet

LEMMA RoundTypes ==
  ASSUME Types, GoRound \/ LeaveLoop \/ Resume \/ BackoffRaises \/ Close
  PROVE  Types'
  <1>1. /\ Quiet
        /\ UNCHANGED <<deadline, stop, obd, asked, everCompatible, attempt, stage,
                       link, transitions, cancelled, subscribed, queue, hole, open,
                       missed, alerts>>
        /\ pc' \in {"gating", "top", "finishing", "exited"}
        /\ pc' = "gating" => pc = "top"
        /\ pc' = "top" => attempt <= LastAttempt
    BY DEF GoRound, LeaveLoop, Resume, BackoffRaises, Close, Quiet, sessionVars,
           stateVars, outward
  <1>2. LoopTypes' /\ AttemptTypes'
    BY <1>1 DEF Types, LoopTypes, AttemptTypes
  <1>3. LinkTypes' /\ QueueTypes' /\ TrackTypes'
    BY <1>1 DEF Types, LinkTypes, QueueTypes, TrackTypes, Quiet
  <1> QED BY <1>1, <1>2, <1>3, QuietTypes DEF Types

LEMMA BeginSessionTypes ==
  ASSUME Types, BeginSession PROVE Types'
  <1>1. /\ Quiet /\ pc = "connecting" /\ pc' = "session" /\ stage' = "opening"
        /\ UNCHANGED <<deadline, stop, obd, asked, everCompatible, attempt, link,
                       alerts>>
        /\ subscribed' = {} /\ queue' = <<>> /\ hole' = FALSE /\ open' = {}
        /\ missed' = {} /\ transitions' = FALSE /\ cancelled' = FALSE
    BY DEF BeginSession, Quiet, stateVars, outward
  <1>2. queue' \in Seq(Snapshots \cup Telemetry) /\ Len(queue') = 0
    BY <1>1
  <1>3. LoopTypes' /\ AttemptTypes'
    BY <1>1 DEF Types, LoopTypes, AttemptTypes
  <1>4. QueueTypes'
    <2>1. 0 <= QueueSize
      BY CollectorAssumption
    <2> QED BY <1>1, <1>2, <2>1 DEF QueueTypes
  <1>5. LinkTypes' /\ TrackTypes'
    BY <1>1 DEF Types, LinkTypes, Stages, TrackTypes, Quiet
  <1> QED BY <1>1, <1>3, <1>4, <1>5, QuietTypes DEF Types

LEMMA GateTypes ==
  ASSUME Types, Gate PROVE Types'
  <1>1. /\ UNCHANGED <<deadline, stop, asked, everCompatible, stage, link,
                       transitions, cancelled, subscribed, queue, hole, open,
                       missed, live, note, alerts, tracks>>
        /\ pc = "gating" /\ connected' = FALSE /\ obd' \in BOOLEAN
        /\ Published
    BY DEF Gate, sessionVars
  <1>2. \/ /\ status' = "connecting" /\ pc' = "connecting"
           /\ compatible' = compatible /\ attempt' = attempt
        \/ /\ status' = "obd-blocked" /\ pc' = "paused"
           /\ compatible' = FALSE /\ attempt' = attempt + 1
    BY DEF Gate
  <1>3. LoopTypes' /\ AttemptTypes'
    BY <1>1, <1>2, CollectorAssumption DEF Types, LoopTypes, AttemptTypes
  <1>4. LinkTypes' /\ QueueTypes' /\ TrackTypes'
    BY <1>1 DEF Types, LinkTypes, QueueTypes, TrackTypes
  <1>5. ShownTypes'
    BY <1>1, <1>2 DEF Types, ShownTypes, Statuses
  <1>6. DocTypes'
    BY <1>1, <1>4, <1>5, PublishedTyped DEF TrackTypes
  <1> QED BY <1>3, <1>4, <1>5, <1>6 DEF Types

LEMMA FinishTypes ==
  ASSUME Types, Finish PROVE Types'
  <1>1. /\ UNCHANGED <<deadline, attempt, obd, asked, everCompatible, stage, link,
                       transitions, cancelled, subscribed, queue, hole, open,
                       missed, live, alerts, tracks>>
        /\ pc' = "closing" /\ stop' = TRUE
        /\ connected' = FALSE /\ compatible' = FALSE /\ status' = "stopped"
        /\ note' \in {note, "clean shutdown"}
        /\ Published
    BY DEF Finish, sessionVars
  <1>2. LoopTypes' /\ AttemptTypes'
    BY <1>1 DEF Types, LoopTypes, AttemptTypes
  <1>3. LinkTypes' /\ QueueTypes' /\ TrackTypes'
    BY <1>1 DEF Types, LinkTypes, QueueTypes, TrackTypes
  <1>4. ShownTypes'
    BY <1>1 DEF Types, ShownTypes, Statuses, Notes
  <1>5. DocTypes'
    BY <1>1, <1>3, <1>4, PublishedTyped DEF TrackTypes
  <1> QED BY <1>2, <1>3, <1>4, <1>5 DEF Types

\* A session ends while its loop can still compute a backoff.
LEMMA EndSessionTypes ==
  ASSUME Types, pc = "session", NEW result, EndSession(result) PROVE Types'
  <1>1. /\ UNCHANGED <<deadline, stop, obd, asked, compatible, transitions,
                       cancelled, subscribed, queue, hole, open, missed, live,
                       alerts, tracks>>
        /\ stage' = "none" /\ link' = FALSE /\ connected' = FALSE
        /\ everCompatible' = (everCompatible \/ compatible)
    BY Zenon DEF EndSession
  <1>2. note' = CASE result = "failed" -> "session failed"
                  [] result = "timed out" \/ cancelled -> TimeoutNote
                  [] OTHER -> note
    BY Zenon DEF EndSession
  <1>3. \/ pc' = "finishing" /\ attempt' = attempt /\ status' = status /\ doc' = doc
        \/ /\ pc' = "paused" /\ attempt' \in {0, attempt + 1}
           /\ status' = "reconnecting" /\ Published
    <2>1. CASE stop \/ Expired
      BY <2>1, Zenon DEF EndSession
    <2>2. CASE ~(stop \/ Expired)
      <3>1. /\ pc' = "paused" /\ status' = "reconnecting" /\ Published
            /\ attempt' \in IF result = "returned" THEN {0, attempt + 1}
                                                   ELSE {attempt + 1}
        BY <2>2, Zenon DEF EndSession
      <3>2. attempt' \in {0, attempt + 1}
        BY <3>1, Zenon
      <3> QED BY <3>1, <3>2
    <2> QED BY <2>1, <2>2
  <1>4. LoopTypes'
    BY <1>1, <1>3 DEF Types, LoopTypes, ShownTypes
  <1>5. AttemptTypes'
    BY <1>3, CollectorAssumption DEF Types, AttemptTypes
  <1>6. LinkTypes' /\ QueueTypes' /\ TrackTypes'
    BY <1>1 DEF Types, LinkTypes, Stages, QueueTypes, TrackTypes
  <1>7. note' \in Notes
    <2>1. TimeoutNote \in Notes
      BY DEF TimeoutNote, Notes
    <2>2. "session failed" \in Notes
      BY DEF Notes
    <2>3. note \in Notes
      BY DEF Types, ShownTypes
    <2> HIDE DEF Notes, TimeoutNote
    <2>4. note' \in {"session failed", TimeoutNote, note}
      BY <1>2
    <2> QED BY <2>1, <2>2, <2>3, <2>4
  <1>8. ShownTypes'
    BY <1>1, <1>3, <1>7 DEF Types, ShownTypes, Statuses
  <1>9. DocTypes'
    BY <1>3, <1>6, <1>8, PublishedTyped DEF Types, DocTypes, TrackTypes
  <1> QED BY <1>4, <1>5, <1>6, <1>8, <1>9 DEF Types
\* A step within the session, or beside the loop, leaves the loop where it is.
LEMMA LoopKept ==
  ASSUME Types, UNCHANGED <<pc, attempt, everCompatible>>,
         deadline' \in {deadline, "passed"},
         stop' \in BOOLEAN, asked' \in BOOLEAN, obd' \in BOOLEAN
  PROVE  LoopTypes' /\ AttemptTypes'
  BY DEF Types, LoopTypes, AttemptTypes

\* What the session has heard, and what it shows, is as it was.
Unheard == UNCHANGED <<queue, hole, open, missed, live, alerts>>

LEMMA UnheardTypes ==
  ASSUME Types, Unheard PROVE QueueTypes' /\ TrackTypes'
  BY DEF Types, QueueTypes, TrackTypes, Unheard

\* Steps of the session, and beside it, that only move it on.
LEMMA MoveTypes ==
  ASSUME Types,
         PublishReturns \/ PumpStops \/ Unsubscribe \/ Cancel \/ Signal \/ Expire
  PROVE  Types'
  <1>1. /\ Quiet /\ Unheard
        /\ UNCHANGED <<pc, attempt, everCompatible, link, transitions>>
        /\ deadline' \in {deadline, "passed"}
        /\ stop' \in {stop, TRUE} /\ asked' \in {asked, TRUE} /\ obd' = obd
        /\ cancelled' \in {cancelled, TRUE}
    BY DEF PublishReturns, PumpStops, Unsubscribe, Cancel, Signal, Expire, Quiet,
           Unheard, runVars, sessionVars, stateVars, outward
  <1>2. /\ stage' \in Stages
        /\ subscribed' \subseteq Kinds
    BY DEF PublishReturns, PumpHead, PumpStops, Unsubscribe, Cancel, Signal, Expire,
           sessionVars, Types, LinkTypes, Stages, Streaming, Kinds
  <1>3. stop' \in BOOLEAN /\ asked' \in BOOLEAN /\ obd' \in BOOLEAN
    BY <1>1 DEF Types, LoopTypes
  <1>4. LoopTypes' /\ AttemptTypes'
    BY <1>1, <1>3, LoopKept
  <1>5. LinkTypes'
    BY <1>1, <1>2 DEF Types, LinkTypes
  <1> QED BY <1>1, <1>4, <1>5, QuietTypes, UnheardTypes DEF Types

LEMMA ConnectTypes ==
  ASSUME Types, Connect PROVE Types'
  <1>1. /\ Unheard
        /\ UNCHANGED <<pc, attempt, everCompatible, deadline, stop, asked, obd,
                       transitions, cancelled, subscribed>>
        /\ link' = TRUE /\ connected' = TRUE
    BY DEF Connect, Unheard, runVars
  <1>2. \/ /\ compatible' = TRUE /\ note' = "" /\ stage' = "reading"
           /\ UNCHANGED <<status, tracks, doc>>
        \/ /\ compatible' = FALSE /\ status' = "incompatible"
           /\ note' = "attributes absent" /\ stage' = "absent"
           /\ tracks' = open' /\ Published
    BY DEF Connect, SessionPublished
  <1>3. LoopTypes' /\ AttemptTypes'
    BY <1>1, LoopKept DEF Types, LoopTypes
  <1>4. LinkTypes'
    BY <1>1, <1>2 DEF Types, LinkTypes, Stages
  <1>5. QueueTypes' /\ TrackTypes'
    BY <1>1, UnheardTypes
  <1>6. ShownTypes'
    BY <1>1, <1>2, <1>5 DEF Types, ShownTypes, TrackTypes, Statuses, Notes
  <1>7. DocTypes'
    BY <1>2, <1>5, <1>6, PublishedTyped DEF Types, DocTypes, TrackTypes
  <1> QED BY <1>3, <1>4, <1>5, <1>6, <1>7 DEF Types

LEMMA SubscribeTypes ==
  ASSUME Types, Subscribe PROVE Types'
  <1>1. /\ Unheard
        /\ UNCHANGED <<pc, attempt, everCompatible, deadline, stop, asked, obd,
                       link, transitions, cancelled, connected, compatible>>
        /\ subscribed' \subseteq Kinds
        /\ note' \in {note, "partial subscription"}
        /\ status' \in {"degraded", "streaming"}
        /\ stage' \in {"degraded", "announcing"}
        /\ tracks' = open' /\ Published
    BY DEF Subscribe, SessionPublished, Unheard, runVars
  <1>2. LoopTypes' /\ AttemptTypes'
    BY <1>1, LoopKept DEF Types, LoopTypes
  <1>3. LinkTypes'
    BY <1>1 DEF Types, LinkTypes, Stages, Streaming
  <1>4. QueueTypes' /\ TrackTypes'
    BY <1>1, UnheardTypes
  <1>5. ShownTypes'
    BY <1>1, <1>4 DEF Types, ShownTypes, TrackTypes, Statuses, Notes
  <1>6. DocTypes'
    BY <1>1, <1>4, <1>5, PublishedTyped DEF TrackTypes
  <1> QED BY <1>2, <1>3, <1>4, <1>5, <1>6 DEF Types

\* What a pass leaves is typed, and its queue empty.
LEMMA ConsumeTypes ==
  ASSUME TrackTypes, NEW records \in Seq(Snapshots \cup Telemetry),
         Consume(records)
  PROVE  QueueTypes' /\ TrackTypes' /\ Consumed(records).moved \in BOOLEAN
  <1>1. IsView(Consumed(records))
    BY ConsumedViews
  <1>2. /\ alerts' = Consumed(records).alerts /\ open' = Consumed(records).open
        /\ missed' = Consumed(records).missed /\ live' = Consumed(records).live
        /\ queue' = <<>> /\ hole' = FALSE
    BY DEF Consume
  <1>3. queue' \in Seq(Snapshots \cup Telemetry) /\ Len(queue') = 0
    BY <1>2
  <1>4. 0 <= QueueSize
    BY CollectorAssumption
  <1>5. QueueTypes'
    BY <1>2, <1>3, <1>4 DEF QueueTypes
  <1> QED BY <1>1, <1>2, <1>5 DEF IsView, TrackTypes

LEMMA ReadInitialTypes ==
  ASSUME Types, ReadInitial PROVE Types'
  <1>1. PICK payload \in {<<>>} \cup {<<s>> : s \in Snapshots} : Consume(payload)
    BY DEF ReadInitial
  <1>2. payload \in Seq(Snapshots \cup Telemetry)
    <2>1. CASE payload = <<>>
      BY <2>1
    <2>2. ASSUME NEW s \in Snapshots, payload = <<s>>
          PROVE  payload \in Seq(Snapshots \cup Telemetry)
      <3>1. s \in Snapshots \cup Telemetry
        OBVIOUS
      <3> HIDE DEF Snapshots, Telemetry
      <3> QED BY <2>2, <3>1
    <2> QED BY <1>1, <2>1, <2>2
  <1>3. /\ UNCHANGED <<pc, attempt, everCompatible, deadline, stop, asked, obd,
                       status, connected, compatible, note, tracks, link,
                       subscribed, transitions, cancelled, doc>>
        /\ stage' = "subscribing"
    BY DEF ReadInitial, runVars
  <1>4. LoopTypes' /\ AttemptTypes'
    BY <1>3, LoopKept DEF Types, LoopTypes
  <1>5. LinkTypes' /\ ShownTypes' /\ DocTypes'
    BY <1>3 DEF Types, LinkTypes, Stages, ShownTypes, DocTypes
  <1>6. QueueTypes' /\ TrackTypes'
    BY <1>1, <1>2, ConsumeTypes DEF Types
  <1> QED BY <1>4, <1>5, <1>6 DEF Types

LEMMA NotifyTypes ==
  ASSUME Types, NEW s \in Snapshots \cup Telemetry, Notify(s) PROVE Types'
  <1> DEFINE n == Len(queue)
  <1>1. /\ Quiet
        /\ UNCHANGED <<pc, attempt, everCompatible, deadline, stop, asked, obd,
                       alerts, stage, link, subscribed, open, missed,
                       transitions, cancelled>>
        /\ \/ n < QueueSize /\ queue' = Append(queue, s) /\ hole' = hole
           \/ ~(n < QueueSize) /\ queue' = Append(Tail(queue), s) /\ hole' = TRUE
    BY DEF Notify, Quiet, runVars, stateVars, outward
  <1>2. queue \in Seq(Snapshots \cup Telemetry) /\ n \in Nat /\ n <= QueueSize
    BY DEF Types, QueueTypes
  <1>3. ~(n < QueueSize) => queue # <<>> /\ n = QueueSize
    <2>1. ~(n < QueueSize) => n = QueueSize /\ n # 0
      <3> HIDE DEF n
      <3> QED BY <1>2, CollectorAssumption
    <2> QED BY <2>1
  <1>4. ASSUME n < QueueSize PROVE QueueTypes'
    <2>1. queue' \in Seq(Snapshots \cup Telemetry) /\ Len(queue') = n + 1
      BY <1>1, <1>2, <1>4
    <2>2. n + 1 <= QueueSize
      <3> HIDE DEF n
      <3> QED BY <1>2, <1>4, CollectorAssumption
    <2>3. hole' = hole /\ hole \in BOOLEAN
      BY <1>1, <1>4 DEF Types, QueueTypes
    <2>4. Len(queue') <= QueueSize
      <3> HIDE DEF n
      <3> QED BY <2>1, <2>2
    <2>5. hole' \in BOOLEAN
      BY <2>3
    <2> QED BY <2>1, <2>4, <2>5, Zenon DEF QueueTypes
  <1>5. ASSUME ~(n < QueueSize) PROVE QueueTypes'
    <2>1. queue' = Append(Tail(queue), s) /\ hole' = TRUE /\ queue # <<>>
      BY <1>1, <1>3, <1>5
    <2>2. /\ Tail(queue) \in Seq(Snapshots \cup Telemetry)
          /\ Len(Tail(queue)) = n - 1
      BY <1>2, <2>1
    <2>3. /\ queue' \in Seq(Snapshots \cup Telemetry)
          /\ Len(queue') = (n - 1) + 1
      BY <2>1, <2>2
    <2>4. (n - 1) + 1 <= QueueSize
      <3> HIDE DEF n
      <3> QED BY <1>2
    <2>5. Len(queue') <= QueueSize
      <3> HIDE DEF n
      <3> QED BY <2>3, <2>4
    <2>6. hole' \in BOOLEAN
      BY <2>1
    <2> QED BY <2>3, <2>5, <2>6, Zenon DEF QueueTypes
  <1>6. QueueTypes'
    BY <1>4, <1>5
  <1>7. LoopTypes' /\ AttemptTypes'
    BY <1>1, LoopKept DEF Types, LoopTypes
  <1>8. LinkTypes' /\ TrackTypes'
    BY <1>1 DEF Types, LinkTypes, TrackTypes, Quiet
  <1> QED BY <1>1, <1>6, <1>7, <1>8, QuietTypes DEF Types
\* A round's checks: the document is published or left, the note is one of those
\* a session makes.
LEMMA ChecksTypes ==
  ASSUME TrackTypes', ShownTypes, DocTypes, NEW moved, NEW remark \in Notes,
         Checks(moved, remark),
         status' \in Statuses, UNCHANGED <<connected, compatible>>
  PROVE  stage' \in Streaming /\ ShownTypes' /\ DocTypes'
  <1>1. \/ /\ note' \in {"link dropped", "no packets"} /\ stage' = "unsubscribing"
           /\ UNCHANGED <<tracks, doc>>
        \/ note' = remark /\ stage' = "refreshing" /\ SessionPublished
        \/ note' = remark /\ stage' = PumpHead /\ UNCHANGED <<tracks, doc>>
    BY DEF Checks
  <1>2. note' \in Notes
    BY <1>1 DEF Notes
  <1>3. stage' \in Streaming
    BY <1>1 DEF Streaming, PumpHead
  <1>4. tracks' \subseteq Threats
    BY <1>1 DEF SessionPublished, TrackTypes, ShownTypes
  <1>5. ShownTypes'
    BY <1>2, <1>4 DEF ShownTypes
  <1>6. DocTypes'
    <2>1. doc' = doc \/ Published
      BY <1>1 DEF SessionPublished
    <2> QED BY <1>5, <2>1, PublishedTyped DEF DocTypes, TrackTypes
  <1> QED BY <1>3, <1>5, <1>6

LEMMA NoteTyped == Types => NoteAfterConsume \in Notes
  BY DEF Types, ShownTypes, NoteAfterConsume, Notes

LEMMA PumpRoundTypes ==
  ASSUME Types, PumpRound PROVE Types'
  <1>1. /\ Consume(queue)
        /\ UNCHANGED <<pc, attempt, everCompatible, deadline, stop, asked, obd,
                       status, connected, compatible, link, subscribed, cancelled>>
        /\ \/ /\ transitions' = Consumed(queue).moved
              /\ note' = NoteAfterConsume
              /\ stage' = "probing" /\ UNCHANGED <<tracks, doc>>
           \/ /\ transitions' = FALSE
              /\ Checks(Consumed(queue).moved, NoteAfterConsume)
    BY DEF PumpRound, runVars
  <1>2. QueueTypes' /\ TrackTypes' /\ Consumed(queue).moved \in BOOLEAN
    BY <1>1, ConsumeTypes DEF Types, QueueTypes
  <1>3. LoopTypes' /\ AttemptTypes'
    BY <1>1, LoopKept DEF Types, LoopTypes
  <1>4. stage' \in Streaming /\ ShownTypes' /\ DocTypes'
    <2>1. CASE note' = NoteAfterConsume /\ stage' = "probing" /\ UNCHANGED <<tracks, doc>>
      <3>1. note' \in Notes
        BY <2>1, NoteTyped
      <3>2. stage' \in Streaming
        BY <2>1 DEF Streaming
      <3> QED BY <1>1, <2>1, <3>1, <3>2 DEF Types, ShownTypes, DocTypes
    <2>2. CASE Checks(Consumed(queue).moved, NoteAfterConsume)
      <3>1. status' \in Statuses
        BY <1>1 DEF Types, ShownTypes
      <3> QED BY <1>1, <1>2, <2>2, <3>1, NoteTyped, ChecksTypes DEF Types
    <2> QED BY <1>1, <2>1, <2>2
  <1>5. LinkTypes'
    <2>1. transitions' \in BOOLEAN
      BY <1>1, <1>2
    <2>2. stage' \in Stages
      BY <1>4 DEF Stages
    <2> QED BY <1>1, <2>1, <2>2 DEF Types, LinkTypes
  <1> QED BY <1>2, <1>3, <1>4, <1>5 DEF Types

LEMMA ProbeReturnsTypes ==
  ASSUME Types, ProbeReturns PROVE Types'
  <1>1. /\ Unheard
        /\ UNCHANGED <<pc, attempt, everCompatible, deadline, stop, asked, link,
                       subscribed, cancelled, connected, compatible>>
        /\ obd' \in BOOLEAN /\ transitions' = FALSE
        /\ \/ status' = status /\ Checks(transitions, note)
           \/ /\ status' = "obd-blocked" /\ note' = note /\ stage' = "blocked"
              /\ tracks' = open' /\ Published
    BY DEF ProbeReturns, SessionPublished, Unheard, runVars
  <1>2. LoopTypes' /\ AttemptTypes'
    BY <1>1, LoopKept DEF Types, LoopTypes
  <1>3. QueueTypes' /\ TrackTypes'
    BY <1>1, UnheardTypes
  <1>4. stage' \in Streaming /\ ShownTypes' /\ DocTypes'
    <2>1. CASE status' = status /\ Checks(transitions, note)
      <3>1. status' \in Statuses /\ note \in Notes
        BY <2>1 DEF Types, ShownTypes
      <3> QED BY <1>1, <1>3, <2>1, <3>1, ChecksTypes DEF Types
    <2>2. CASE /\ status' = "obd-blocked" /\ note' = note /\ stage' = "blocked"
               /\ tracks' = open' /\ Published
      <3>1. stage' \in Streaming
        BY <2>2 DEF Streaming
      <3>2. status' \in Statuses
        BY <2>2 DEF Statuses
      <3>3. ShownTypes'
        BY <1>1, <1>3, <2>2, <3>2 DEF Types, ShownTypes, TrackTypes
      <3> QED BY <1>3, <2>2, <3>1, <3>3, PublishedTyped DEF TrackTypes
    <2> QED BY <1>1, <2>1, <2>2
  <1>5. LinkTypes'
    BY <1>1, <1>4 DEF Types, LinkTypes, Stages
  <1> QED BY <1>2, <1>3, <1>4, <1>5 DEF Types

LEMMA TeardownTypes ==
  ASSUME Types, Teardown PROVE Types'
  <1>1. /\ UNCHANGED <<pc, attempt, everCompatible, deadline, stop, asked, obd,
                       status, connected, compatible, link, subscribed,
                       transitions, cancelled, doc>>
        /\ live' = Consumed(queue).live \ Consumed(queue).open
        /\ open' = {} /\ missed' = {} /\ alerts' = {} /\ tracks' = {}
        /\ queue' = <<>> /\ hole' = FALSE
        /\ note' = NoteAfterConsume /\ stage' = "releasing"
    BY DEF Teardown, runVars
  <1>2. IsView(Consumed(queue))
    BY ConsumedViews DEF Types, QueueTypes
  <1>3. queue' \in Seq(Snapshots \cup Telemetry) /\ Len(queue') = 0
    BY <1>1
  <1>4. 0 <= QueueSize
    BY CollectorAssumption
  <1>5. QueueTypes'
    BY <1>1, <1>3, <1>4 DEF QueueTypes
  <1>6. TrackTypes'
    BY <1>1, <1>2 DEF TrackTypes, IsView
  <1>7. LoopTypes' /\ AttemptTypes'
    BY <1>1, LoopKept DEF Types, LoopTypes
  <1>8. LinkTypes' /\ DocTypes'
    BY <1>1 DEF Types, LinkTypes, Stages, DocTypes
  <1>9. ShownTypes'
    <2>1. note' \in Notes
      BY <1>1, NoteTyped
    <2> QED BY <1>1, <2>1 DEF Types, ShownTypes
  <1> QED BY <1>5, <1>6, <1>7, <1>8, <1>9 DEF Types

\* Every step keeps the types; that a session ends within its loop is the
\* inductive invariant's.
LEMMA NextTypes ==
  ASSUME IInv, Types, [Next]_vars PROVE Types'
  <1>1. CASE UNCHANGED vars
    BY <1>1 DEF vars, runVars, sessionVars, stateVars, outward, Types, LoopTypes,
       AttemptTypes, LinkTypes, QueueTypes, TrackTypes, ShownTypes, DocTypes
  <1>2. CASE ConnectFails \/ Release
    <2>1. pc = "session"
      BY <1>2 DEF ConnectFails, Release, IInv, LinkReleased
    <2>2. PICK result : EndSession(result)
      BY <1>2 DEF ConnectFails, Release
    <2> QED BY <2>1, <2>2, EndSessionTypes
  <1>3. CASE Task /\ ~(ConnectFails \/ Release)
    BY <1>3, RoundTypes, BeginSessionTypes, GateTypes, FinishTypes, MoveTypes,
       ConnectTypes, SubscribeTypes, ReadInitialTypes, PumpRoundTypes,
       ProbeReturnsTypes, TeardownTypes DEF Task
  <1>4. CASE \E s \in Snapshots \cup Telemetry : Notify(s)
    BY <1>4, NotifyTypes
  <1>5. CASE Signal \/ Expire
    BY <1>5, MoveTypes
  <1> QED BY <1>1, <1>2, <1>3, <1>4, <1>5 DEF Next

\* Type correctness: among it, that the ingest queue never outgrows its size,
\* that a miss is only charged to a track that is open, and that the backoff is
\* never asked for an attempt more than one past the last it can compute.
THEOREM TypeCorrect == Spec => []TypeOK
  <1>1. Types => TypeOK
    BY DEF Types, LoopTypes, AttemptTypes, LinkTypes, QueueTypes, TrackTypes,
           ShownTypes, DocTypes, Documents, TypeOK
  <1> QED BY <1>1, CollectorInvariant, InitTypes, NextTypes, PTL DEF Spec
=============================================================================
