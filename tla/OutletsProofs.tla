--------------------------- MODULE OutletsProofs ---------------------------
(***************************************************************************)
(* Proofs about the outlets, for every number of viewers, publishes and    *)
(* processes: the fix that is handed out, and what the viewers of the feed *)
(* have been told.                                                         *)
(***************************************************************************)
EXTENDS Outlets, FiniteSetTheorems, SequenceTheorems, TLAPS

-----------------------------------------------------------------------------
(* The fix that is handed out.                                             *)

Fixes == [valid : BOOLEAN, satellites : Nat, age : Nat]
Words == [valid : BOOLEAN, age : Nat]

\* The fix that is kept is the receiver's last word on it, as old as that.
FixFollowsWord ==
  /\ fix \in Fixes
  /\ word \in Words
  /\ satellites \in Nat
  /\ fix.valid = word.valid
  /\ fix.age = word.age

FixInv == FixFollowsWord /\ FixIsLastWord

LEMMA InitFixInv == Init => FixInv
  <1> SUFFICES ASSUME Init PROVE FixInv
    OBVIOUS
  <1>1. FixFollowsWord
    BY DEF Init, GnssInit, NoFix, NoWord, FixFollowsWord, Fixes, Words
  <1>2. handed.fix = NoFix
    BY DEF Init, NotHanded
  <1> QED BY <1>1, <1>2 DEF FixInv, FixIsLastWord

\* No step of the client breaks it.
LEMMA GnssKeepsFix ==
  ASSUME FixFollowsWord,
         \/ GnssStep \/ GnssLoses(stop) \/ GnssStops \/ GnssStart
         \/ GnssCancelled \/ GnssExit \/ UNCHANGED gnssVars
  PROVE  FixFollowsWord'
  <1> USE DEF FixFollowsWord, Fixes, Words
  <1>1. CASE GnssConnects \/ GnssRetries \/ GnssLoses(stop) \/ GnssStops
             \/ GnssCancelled \/ UNCHANGED gnssVars
    BY <1>1 DEF GnssConnects, GnssRetries, GnssLoses, GnssStops, GnssCancelled,
                gnssVars
  <1>2. CASE GnssStart \/ GnssExit
    <2>1. fix' = NoFix /\ word' = NoWord /\ satellites' = 0
      BY <1>2 DEF GnssStart, GnssExit
    <2>2. NoFix \in Fixes /\ NoWord \in Words
      BY DEF NoFix, NoWord
    <2>3. NoFix.valid = NoWord.valid /\ NoFix.age = NoWord.age
      BY DEF NoFix, NoWord
    <2> QED BY <2>1, <2>2, <2>3
  <1>3. CASE GnssLine
    <2>1. CASE \E valid \in BOOLEAN : Tpv(valid)
      BY <2>1 DEF Tpv, FixAfter
    <2>2. CASE \E used \in {1, 2} : Sky(used)
      BY <2>2 DEF Sky
    <2> QED BY <1>3, <2>1, <2>2 DEF GnssLine
  <1>4. CASE GnssTick
    <2>1. Older(fix.age) \in Nat
      BY DEF Older
    <2> QED BY <1>4, <2>1 DEF GnssTick
  <1> QED BY <1>1, <1>2, <1>3, <1>4 DEF GnssStep

\* Handing out the fix takes the word with it.
LEMMA HandOutIsLastWord ==
  ASSUME FixInv, HandOut, UNCHANGED <<fix, word>>
  PROVE  FixIsLastWord'
  <1>1. CASE CurrentFix = NoFix
    BY <1>1 DEF HandOut, FixInv, FixIsLastWord
  <1>2. CASE CurrentFix # NoFix
    BY <1>2 DEF HandOut, FixInv, FixFollowsWord, FixIsLastWord, CurrentFix
  <1> QED BY <1>1, <1>2

LEMMA NextFixInv == FixInv /\ [Next]_vars => FixInv'
  <1> SUFFICES ASSUME FixInv, [Next]_vars PROVE FixInv'
    OBVIOUS
  <1>1. FixFollowsWord'
    <2>1. \/ GnssStep \/ GnssLoses(stop) \/ GnssStops \/ GnssStart
          \/ GnssCancelled \/ GnssExit \/ UNCHANGED gnssVars
      BY DEF Next, vars, StartStep, StartHistory, StartGnss, StartMqtt,
             StartFeed, CloseStep, LastPublish, CloseGnss, CloseFeed,
             FeedClosed, CloseMqtt, CloseHistory, RunStep, PublishBegins,
             PublishEnds, Dispatch, Finish, Signal, Crash, Restart, FeedMoves,
             MqttMoves, GnssMoves
    <2> QED BY <2>1, GnssKeepsFix DEF FixInv
  <1>2. FixIsLastWord'
    <2>1. CASE PublishBegins \/ Dispatch
      BY <2>1, HandOutIsLastWord DEF PublishBegins, Dispatch, gnssVars
    <2>2. CASE Restart
      BY <2>2 DEF Restart, NotHanded, FixIsLastWord
    <2>3. CASE UNCHANGED handed
      BY <2>3 DEF FixInv, FixIsLastWord
    <2> QED
      BY <2>1, <2>2, <2>3
      DEF Next, vars, runVars, StartStep, StartHistory, StartGnss, StartMqtt,
          StartFeed, CloseStep, LastPublish, CloseGnss, CloseFeed, FeedClosed,
          CloseMqtt, CloseHistory, RunStep, PublishEnds, Finish, Signal, Crash,
          FeedMoves, MqttMoves, GnssMoves, Goes
  <1> QED BY <1>1, <1>2 DEF FixInv

\* A fix that was handed to a publish or an alert is the receiver's last word,
\* and it spoke recently enough: for every staleness and any history of
\* reports, losses, reconnects and restarts (GnssClient.fix).
THEOREM FixHandedOutIsCurrent == Spec => []FixIsLastWord
  <1>1. FixInv => FixIsLastWord
    BY DEF FixInv
  <1> QED BY <1>1, InitFixInv, NextFixInv, PTL DEF Spec
-----------------------------------------------------------------------------
(* What a viewer has been told.                                            *)

Frames == [kind : {"state", "alert", "end"}, n : Nat]
Handlers == {"away", "request", "replying", "waiting", "draining"}

FeedTyped ==
  /\ published \in Nat
  /\ shown \in Nat
  /\ shown <= published
  /\ clients \subseteq Viewers
  /\ IsFiniteSet(clients)
  /\ handler \in [Viewers -> Handlers]
  /\ queue \in [Viewers -> Seq(Frames)]
  /\ written \in [Viewers -> Seq(Frames)]
  /\ dropped \in [Viewers -> Nat]
  /\ joined \in [Viewers -> Nat]

\* The places are held by those who stream; a handler that does not stream has
\* no backlog.
Places ==
  /\ Cardinality(clients) <= MaxClients
  /\ \A v \in clients : handler[v] \in Streaming
  /\ server = "listening" =>
       \A v \in Viewers : handler[v] \in Streaming => v \in clients
  /\ \A v \in Viewers :
       handler[v] \notin Streaming => queue[v] = << >> /\ dropped[v] = 0

\* Nobody is connected to a feed that is not up yet, or never will be.
Quiet ==
  /\ at \in Starting \cup {"exited"} \/ "feed" \notin enabled =>
       /\ server # "listening"
       /\ \A v \in Viewers : handler[v] = "away"
  /\ at = "exited" => shown = 0

\* What was written to a viewer, and what it will be sent.
Stream(v) == written[v] \o queue[v]

Rising(s) == \A i, j \in 1..Len(s) : i < j => s[i].n < s[j].n
UpTo(s, n) == \A i \in 1..Len(s) : s[i].n <= n
NoEnd(q) == \A i \in 1..Len(q) : q[i].kind # "end"

\* After n publishes: w is written, q waits, d were dropped, j came before.
Heard(w, q, d, j, n) ==
  /\ w # << >>
  /\ w[1].kind = "state"
  /\ Len(q) <= ClientQueue
  /\ NoEnd(q)
  /\ Rising(w \o q)
  /\ UpTo(w \o q, n)
  /\ j <= n
  /\ Len(w \o q) + d + j = 1 + n
  /\ n > j => (w \o q)[Len(w \o q)].n = n

Told(v) == Heard(written[v], queue[v], dropped[v], joined[v], published)

FeedInv ==
  /\ FeedTyped
  /\ Places
  /\ Quiet
  /\ \A v \in clients : Told(v)

LEMMA FeedInvSuffices == FeedInv => ViewersUpToDate
  <1> SUFFICES ASSUME FeedInv, NEW v \in clients PROVE UpToDate(v)
    BY DEF FeedInv, Places, ViewersUpToDate
  <1> USE DEF FeedInv, FeedTyped
  <1>1. /\ Told(v) /\ handler[v] \in Streaming /\ v \in Viewers
        /\ written[v] \in Seq(Frames) /\ queue[v] \in Seq(Frames)
        /\ dropped[v] \in Nat /\ joined[v] \in Nat
    BY DEF Places
  <1>2. /\ Stream(v) \in Seq(Frames)
        /\ Len(Stream(v)) = Len(written[v]) + Len(queue[v])
        /\ Len(written[v]) >= 1
        /\ Stream(v)[1] = written[v][1]
    BY <1>1 DEF Stream, Told, Heard
  <1>3. Head(Stream(v)).kind = "state"
    BY <1>1, <1>2 DEF Stream, Told, Heard
  <1>4. \A i \in 2..Len(Stream(v)) : Stream(v)[i - 1].n < Stream(v)[i].n
    <2> SUFFICES ASSUME NEW i \in 2..Len(Stream(v))
                 PROVE  Stream(v)[i - 1].n < Stream(v)[i].n
      OBVIOUS
    <2>1. /\ i - 1 \in 1..Len(Stream(v)) /\ i \in 1..Len(Stream(v))
          /\ i - 1 < i
      BY <1>2
    <2>2. Rising(Stream(v))
      BY <1>1 DEF Stream, Told, Heard
    <2> QED BY <2>1, <2>2 DEF Rising
  <1>5. Len(Stream(v)) + dropped[v] = 1 + (published - joined[v])
    BY <1>1, <1>2 DEF Stream, Told, Heard
  <1> QED BY <1>1, <1>3, <1>4, <1>5 DEF UpToDate, Told, Heard, Stream

LEMMA InitFeedInv == Init => FeedInv
  <1> SUFFICES ASSUME Init PROVE FeedInv
    OBVIOUS
  <1>a. /\ published = 0 /\ shown = 0 /\ clients = {} /\ server = "none"
        /\ handler = [v \in Viewers |-> "away"]
        /\ queue = [v \in Viewers |-> << >>]
        /\ written = [v \in Viewers |-> << >>]
        /\ dropped = [v \in Viewers |-> 0]
        /\ joined = [v \in Viewers |-> 0]
    BY DEF Init, FeedInit
  <1>1. FeedTyped
    <2>2. IsFiniteSet(clients)
      BY <1>a, FS_EmptySet
    <2>3. /\ handler \in [Viewers -> Handlers]
          /\ dropped \in [Viewers -> Nat] /\ joined \in [Viewers -> Nat]
      BY <1>a DEF Handlers
    <2>4. << >> \in Seq(Frames)
      BY EmptySeq
    <2>5. /\ queue \in [Viewers -> Seq(Frames)]
          /\ written \in [Viewers -> Seq(Frames)]
      BY <1>a, <2>4
    <2> QED BY <1>a, <2>2, <2>3, <2>5 DEF FeedTyped
  <1>2. Places
    <2>1. Cardinality(clients) = 0
      BY <1>a, FS_EmptySet
    <2>2. Cardinality(clients) <= MaxClients
      BY <2>1, FeedAssumption
    <2> QED BY <1>a, <2>2 DEF Places
  <1>3. Quiet
    BY <1>a DEF Quiet
  <1> QED BY <1>a, <1>1, <1>2, <1>3 DEF FeedInv

\* All of s but its last is what old holds, less the one after the first k when
\* d is 1.
Keeps(s, old, k, d) ==
  /\ Len(s) = Len(old) + 1 - d
  /\ \A i \in 1..(Len(s) - 1) : s[i] = IF i <= k THEN old[i] ELSE old[i + d]

\* A sequence that keeps frames of a rising one, in their order, and ends with
\* the next frame is rising.
LEMMA RisingExtended ==
  ASSUME NEW old \in Seq(Frames), NEW s \in Seq(Frames), NEW f \in Frames,
         NEW n \in Nat, f.n = n + 1, Rising(old), UpTo(old, n), Len(s) >= 1,
         NEW k \in Nat, NEW d \in {0, 1}, Keeps(s, old, k, d),
         s[Len(s)] = f
  PROVE  /\ Rising(s)
         /\ UpTo(s, n + 1)
         /\ s[Len(s)].n = n + 1
  <1> DEFINE g(i) == IF i <= k THEN i ELSE i + d
  <1>1. /\ Len(old) \in Nat /\ Len(s) \in Nat
        /\ \A i \in 1..Len(old) : old[i].n \in Nat
    <2>1. \A i \in 1..Len(old) : old[i] \in Frames
      BY ElementOfSeq
    <2> QED BY <2>1, LenProperties DEF Frames
  <1>2. \A i \in 1..(Len(s) - 1) : g(i) \in 1..Len(old) /\ s[i] = old[g(i)]
    BY <1>1 DEF Keeps
  <1>3. \A i, j \in 1..(Len(s) - 1) : i < j => g(i) < g(j)
    BY <1>1
  <1>4. \A i \in 1..(Len(s) - 1) : s[i].n <= n /\ s[i].n \in Nat
    <2> HIDE DEF g
    <2> QED BY <1>1, <1>2 DEF UpTo
  <1>5. Rising(s)
    <2> SUFFICES ASSUME NEW i \in 1..Len(s), NEW j \in 1..Len(s), i < j
                 PROVE  s[i].n < s[j].n
      BY DEF Rising
    <2>1. i \in 1..(Len(s) - 1)
      BY <1>1
    <2>2. CASE j = Len(s)
      <3>1. s[j].n = n + 1
        BY <2>2
      <3>2. s[i].n <= n /\ s[i].n \in Nat
        BY <2>1, <1>4
      <3> QED BY <3>1, <3>2
    <2>3. CASE j \in 1..(Len(s) - 1)
      <3> HIDE DEF g
      <3> QED BY <2>1, <2>3, <1>2, <1>3 DEF Rising
    <2>4. Len(s) \in Nat
      BY <1>1
    <2>5. j = Len(s) \/ j \in 1..(Len(s) - 1)
      BY <2>4
    <2> QED BY <2>2, <2>3, <2>5
  <1>6. UpTo(s, n + 1)
    <2> SUFFICES ASSUME NEW i \in 1..Len(s) PROVE s[i].n <= n + 1
      BY DEF UpTo
    <2>1. CASE i = Len(s)
      BY <2>1
    <2>2. CASE i \in 1..(Len(s) - 1)
      BY <2>2, <1>4
    <2> QED BY <1>1, <2>1, <2>2
  <1> QED BY <1>5, <1>6

\* A frame that is offered comes last, whether it takes the place of the oldest
\* one in the backlog or not (_Client.offer).
LEMMA OfferedExtends ==
  ASSUME NEW w \in Seq(Frames), NEW q \in Seq(Frames), NEW f \in Frames,
         NEW n \in Nat, w # << >>, Len(q) <= ClientQueue, NoEnd(q),
         f.kind # "end", f.n = n + 1, Rising(w \o q), UpTo(w \o q, n)
  PROVE  LET t == Offered(q, f)
             s == w \o t
         IN /\ t \in Seq(Frames)
            /\ Len(t) <= ClientQueue
            /\ NoEnd(t)
            /\ Rising(s)
            /\ UpTo(s, n + 1)
            /\ s[Len(s)].n = n + 1
            /\ Len(s) = IF Len(q) >= ClientQueue
                        THEN Len(w \o q) ELSE Len(w \o q) + 1
  <1> DEFINE t == Offered(q, f)
             s == w \o t
             old == w \o q
  <1> HIDE DEF t, s, old
  <1>0. /\ ClientQueue \in Nat /\ ClientQueue >= 1
        /\ Len(w) \in Nat /\ Len(w) >= 1 /\ Len(q) \in Nat
    BY FeedAssumption, EmptySeq, LenProperties
  <1>1. /\ old \in Seq(Frames) /\ Len(old) = Len(w) + Len(q)
        /\ \A i \in 1..Len(old) :
             old[i] = IF i <= Len(w) THEN w[i] ELSE q[i - Len(w)]
    BY ConcatProperties DEF old
  <1>2. CASE Len(q) < ClientQueue
    <2>1. t = Append(q, f)
      BY <1>2 DEF Offered, t
    <2>2. /\ t \in Seq(Frames) /\ Len(t) = Len(q) + 1
          /\ \A i \in 1..Len(q) : t[i] = q[i]
          /\ t[Len(t)] = f
      BY <2>1
    <2>3. /\ s \in Seq(Frames) /\ Len(s) = Len(w) + Len(t)
          /\ \A i \in 1..Len(s) :
               s[i] = IF i <= Len(w) THEN w[i] ELSE t[i - Len(w)]
      <3>1. t \in Seq(Frames)
        BY <2>2
      <3> QED BY <3>1, ConcatProperties DEF s
    <2>4. Len(s) = Len(old) + 1 /\ s[Len(s)] = f
      <3>1. /\ Len(s) = Len(w) + Len(q) + 1 /\ Len(s) \in 1..Len(s)
            /\ ~(Len(s) <= Len(w)) /\ Len(s) - Len(w) = Len(t)
        BY <1>0, <2>2, <2>3
      <3> QED BY <1>1, <2>2, <2>3, <3>1
    <2>5. \A i \in 1..(Len(s) - 1) : s[i] = old[i]
      <3> SUFFICES ASSUME NEW i \in 1..(Len(s) - 1) PROVE s[i] = old[i]
        OBVIOUS
      <3>1. i \in 1..Len(s) /\ i \in 1..Len(old)
        BY <1>0, <1>1, <2>4
      <3>2. CASE i <= Len(w)
        BY <1>1, <2>3, <3>1, <3>2
      <3>3. CASE ~(i <= Len(w))
        <4>1. i - Len(w) \in 1..Len(q)
          BY <1>0, <1>1, <2>4, <3>3
        <4> QED BY <1>1, <2>2, <2>3, <3>1, <3>3, <4>1
      <3> QED BY <3>2, <3>3
    <2>6. NoEnd(t)
      BY <1>0, <2>2 DEF NoEnd
    <2>7. Rising(s) /\ UpTo(s, n + 1) /\ s[Len(s)].n = n + 1
      <3>1. Rising(old) /\ UpTo(old, n)
        BY DEF old
      <3>2. /\ Len(w) \in Nat /\ 0 \in {0, 1} /\ Len(s) >= 1
            /\ Len(s) = Len(old) + 1 - 0
        BY <1>0, <1>1, <2>4
      <3>3. \A i \in 1..(Len(s) - 1) :
              s[i] = IF i <= Len(w) THEN old[i] ELSE old[i + 0]
        BY <1>0, <2>3, <2>5
      <3>4. old \in Seq(Frames) /\ s \in Seq(Frames) /\ s[Len(s)] = f
        BY <1>1, <2>3, <2>4
      <3>5. Keeps(s, old, Len(w), 0)
        BY <3>2, <3>3 DEF Keeps
      <3> QED BY <3>1, <3>2, <3>4, <3>5, RisingExtended
    <2>8. Len(t) <= ClientQueue
      BY <1>0, <1>2, <2>2
    <2>9. ~(Len(q) >= ClientQueue)
      BY <1>0, <1>2
    <2> QED BY <2>2, <2>4, <2>6, <2>7, <2>8, <2>9 DEF t, s, old
  <1>3. CASE Len(q) >= ClientQueue
    <2>1. t = Append(Tail(q), f)
      BY <1>3, <1>0 DEF Offered, t
    <2>2. /\ Tail(q) \in Seq(Frames) /\ Len(Tail(q)) = Len(q) - 1
          /\ \A i \in 1..(Len(q) - 1) : Tail(q)[i] = q[i + 1]
      <3>1. q # << >>
        BY <1>0, <1>3, EmptySeq
      <3> QED BY <3>1, HeadTailProperties
    <2>3. /\ t \in Seq(Frames) /\ Len(t) = Len(q)
          /\ \A i \in 1..(Len(q) - 1) : t[i] = q[i + 1]
          /\ t[Len(t)] = f
      BY <1>0, <2>1, <2>2
    <2>4. /\ s \in Seq(Frames) /\ Len(s) = Len(w) + Len(t)
          /\ \A i \in 1..Len(s) :
               s[i] = IF i <= Len(w) THEN w[i] ELSE t[i - Len(w)]
      <3>1. t \in Seq(Frames)
        BY <2>3
      <3> QED BY <3>1, ConcatProperties DEF s
    <2>5. Len(s) = Len(old) /\ s[Len(s)] = f
      <3>1. /\ Len(s) = Len(w) + Len(q) /\ Len(s) \in 1..Len(s)
            /\ ~(Len(s) <= Len(w)) /\ Len(s) - Len(w) = Len(t)
        BY <1>0, <1>3, <2>3, <2>4
      <3> QED BY <1>1, <2>3, <2>4, <3>1
    <2>6. \A i \in 1..(Len(s) - 1) :
            s[i] = IF i <= Len(w) THEN old[i] ELSE old[i + 1]
      <3> SUFFICES ASSUME NEW i \in 1..(Len(s) - 1)
                   PROVE  s[i] = IF i <= Len(w) THEN old[i] ELSE old[i + 1]
        OBVIOUS
      <3>1. /\ i \in 1..Len(s) /\ i \in 1..Len(old)
            /\ i + 1 \in 1..Len(old)
        BY <1>0, <1>1, <2>5
      <3>2. CASE i <= Len(w)
        BY <1>1, <2>4, <3>1, <3>2
      <3>3. CASE ~(i <= Len(w))
        <4>1. /\ i - Len(w) \in 1..(Len(q) - 1)
              /\ ~(i + 1 <= Len(w))
              /\ (i + 1) - Len(w) = (i - Len(w)) + 1
          BY <1>0, <1>1, <2>5, <3>3
        <4> QED BY <1>1, <2>3, <2>4, <3>1, <3>3, <4>1
      <3> QED BY <3>2, <3>3
    <2>7. NoEnd(t)
      BY <1>0, <1>3, <2>3 DEF NoEnd
    <2>8. Rising(s) /\ UpTo(s, n + 1) /\ s[Len(s)].n = n + 1
      <3>1. Rising(old) /\ UpTo(old, n)
        BY DEF old
      <3>2. /\ Len(w) \in Nat /\ 1 \in {0, 1} /\ Len(s) >= 1
            /\ Len(s) = Len(old) + 1 - 1
        BY <1>0, <1>1, <2>5
      <3>4. old \in Seq(Frames) /\ s \in Seq(Frames) /\ s[Len(s)] = f
        BY <1>1, <2>4, <2>5
      <3>5. Keeps(s, old, Len(w), 1)
        BY <2>6, <3>2 DEF Keeps
      <3> QED BY <3>1, <3>2, <3>4, <3>5, RisingExtended
    <2> QED BY <1>3, <2>3, <2>5, <2>7, <2>8 DEF t, s, old
  <1> QED BY <1>0, <1>2, <1>3

LEMMA OfferedHeard ==
  ASSUME NEW w \in Seq(Frames), NEW q \in Seq(Frames), NEW d \in Nat,
         NEW j \in Nat, NEW n \in Nat, Heard(w, q, d, j, n),
         NEW f \in Frames, f.kind # "end", f.n = n + 1,
         NEW e \in Nat, e = IF Len(q) >= ClientQueue THEN d + 1 ELSE d
  PROVE  Heard(w, Offered(q, f), e, j, n + 1)
  <1> DEFINE t == Offered(q, f)
  <1>1. /\ t \in Seq(Frames)
        /\ Len(t) <= ClientQueue
        /\ NoEnd(t)
        /\ Rising(w \o t)
        /\ UpTo(w \o t, n + 1)
        /\ (w \o t)[Len(w \o t)].n = n + 1
        /\ Len(w \o t) = IF Len(q) >= ClientQueue
                         THEN Len(w \o q) ELSE Len(w \o q) + 1
    BY OfferedExtends DEF Heard
  <1>2. Len(w \o t) \in Nat /\ Len(w \o q) \in Nat
    BY <1>1, ConcatProperties, LenProperties
  <1>3. /\ w # << >> /\ w[1].kind = "state" /\ j <= n
        /\ Len(w \o q) + d + j = 1 + n
    BY DEF Heard
  <1> HIDE DEF t
  <1>4. j <= n + 1 /\ Len(w \o t) + e + j = 1 + (n + 1)
    <2>1. CASE Len(q) >= ClientQueue
      <3>1. e = d + 1 /\ Len(w \o t) = Len(w \o q)
        BY <1>1, <2>1
      <3> QED BY <1>2, <1>3, <3>1
    <2>2. CASE ~(Len(q) >= ClientQueue)
      <3>1. e = d /\ Len(w \o t) = Len(w \o q) + 1
        BY <1>1, <2>2
      <3> QED BY <1>2, <1>3, <3>1
    <2> QED BY <2>1, <2>2
  <1> QED BY <1>1, <1>3, <1>4 DEF Heard, t

LEMMA OfferedType ==
  ASSUME NEW q \in Seq(Frames), NEW f \in Frames
  PROVE  Offered(q, f) \in Seq(Frames)
  <1> USE FeedAssumption
  <1>1. CASE Len(q) < ClientQueue
    BY <1>1 DEF Offered
  <1>2. CASE ~(Len(q) < ClientQueue)
    <2>1. q # << >>
      BY <1>2, EmptySeq
    <2>2. Tail(q) \in Seq(Frames)
      BY <2>1, HeadTailProperties
    <2> QED BY <1>2, <2>2 DEF Offered
  <1> QED BY <1>1, <1>2

\* A publish that reaches the viewers: whoever has been told the publishes so
\* far is told this one as well.
LEMMA BroadcastKeeps ==
  ASSUME FeedInv, NEW f \in Frames, f.kind # "end", f.n = published + 1,
         Broadcast(f), published' = published + 1, at # "exited",
         shown' \in {shown, published + 1},
         UNCHANGED <<server, clients, handler, written, joined, at, enabled>>
  PROVE  FeedInv'
  <1> USE DEF FeedInv
  <1>1. FeedTyped'
    <2>1. \A v \in Viewers : Offered(queue[v], f) \in Seq(Frames)
      BY OfferedType DEF FeedTyped
    <2>2. queue' \in [Viewers -> Seq(Frames)]
      BY <2>1 DEF FeedTyped, Broadcast
    <2>3. dropped' \in [Viewers -> Nat]
      BY DEF FeedTyped, Broadcast
    <2>4. shown' \in Nat /\ shown' <= published'
      BY DEF FeedTyped
    <2> QED BY <2>2, <2>3, <2>4 DEF FeedTyped
  <1>2. Places'
    <2>1. \A v \in Viewers :
            handler[v] \notin Streaming =>
              queue'[v] = queue[v] /\ dropped'[v] = dropped[v]
      BY DEF Places, Broadcast
    <2> QED BY <2>1 DEF Places
  <1>3. Quiet'
    BY DEF Quiet
  <1>4. ASSUME NEW v \in clients' PROVE Told(v)'
    <2>1. v \in clients /\ v \in Viewers /\ Told(v)
      BY DEF FeedTyped
    <2>2. /\ queue'[v] = Offered(queue[v], f)
          /\ dropped'[v] = IF Len(queue[v]) >= ClientQueue
                           THEN dropped[v] + 1 ELSE dropped[v]
      BY <2>1 DEF Broadcast
    <2>3. /\ written[v] \in Seq(Frames) /\ queue[v] \in Seq(Frames)
          /\ dropped[v] \in Nat /\ joined[v] \in Nat /\ published \in Nat
      BY <2>1 DEF FeedTyped
    <2>4. dropped'[v] \in Nat
      BY <1>1, <2>1 DEF FeedTyped
    <2>5. Heard(written[v], Offered(queue[v], f), dropped'[v], joined[v],
                published + 1)
      BY <2>1, <2>2, <2>3, <2>4, OfferedHeard DEF Told
    <2> QED BY <2>2, <2>5 DEF Told
  <1> QED BY <1>1, <1>2, <1>3, <1>4

\* Nothing happens at the feed, and the run may go on.
LEMMA FeedStill ==
  ASSUME FeedInv, UNCHANGED feedVars, published' = published, Quiet'
  PROVE  FeedInv'
  <1>1. FeedTyped' /\ Places'
    BY DEF FeedInv, FeedTyped, Places, feedVars
  <1>2. ASSUME NEW v \in clients' PROVE Told(v)'
    BY DEF FeedInv, Told, feedVars
  <1> QED BY <1>1, <1>2 DEF FeedInv

\* A publish beside a feed that is off.
LEMMA FeedOff ==
  ASSUME FeedInv, UNCHANGED <<feedVars, at, enabled>>, "feed" \notin enabled,
         published' = published + 1
  PROVE  FeedInv'
  <1>1. clients = {}
    BY DEF FeedInv, FeedTyped, Places, Quiet, Streaming
  <1>2. FeedTyped'
    BY DEF FeedInv, FeedTyped, feedVars
  <1>3. Places' /\ Quiet'
    BY DEF FeedInv, Places, Quiet, feedVars
  <1> QED BY <1>1, <1>2, <1>3 DEF FeedInv, feedVars

\* The process is gone, and its connections with it.
LEMMA ExitKeeps ==
  ASSUME FeedInv, FeedExit, published' = published
  PROVE  FeedInv'
  <1>a. /\ shown' = 0 /\ clients' = {} /\ server' = "none"
        /\ handler' = [v \in Viewers |-> "away"]
        /\ queue' = [v \in Viewers |-> << >>]
        /\ written' = [v \in Viewers |-> << >>]
        /\ dropped' = [v \in Viewers |-> 0]
        /\ joined' = [v \in Viewers |-> 0]
    BY DEF FeedExit
  <1>1. FeedTyped'
    <2>1. IsFiniteSet(clients')
      BY <1>a, FS_EmptySet
    <2>2. /\ handler' \in [Viewers -> Handlers]
          /\ dropped' \in [Viewers -> Nat] /\ joined' \in [Viewers -> Nat]
      BY <1>a DEF Handlers
    <2>3. << >> \in Seq(Frames)
      BY EmptySeq
    <2>4. /\ queue' \in [Viewers -> Seq(Frames)]
          /\ written' \in [Viewers -> Seq(Frames)]
      BY <1>a, <2>3
    <2> QED BY <1>a, <2>1, <2>2, <2>4 DEF FeedTyped, FeedInv
  <1>2. Places'
    <2>1. Cardinality(clients') = 0
      BY <1>a, FS_EmptySet
    <2>2. Cardinality(clients') <= MaxClients
      BY <2>1, FeedAssumption
    <2>3. \A v \in Viewers : handler'[v] \notin Streaming
      BY <1>a DEF Streaming
    <2> QED BY <1>a, <2>2, <2>3 DEF Places
  <1>3. Quiet'
    BY <1>a DEF Quiet
  <1> QED BY <1>a, <1>1, <1>2, <1>3 DEF FeedInv

\* The viewers are told that it ends, and are no longer the feed's.
LEMMA StopKeeps ==
  ASSUME FeedInv, FeedStop, published' = published, Quiet'
  PROVE  FeedInv'
  <1> USE DEF FeedInv
  <1>a. clients' = {} /\ EndFrame \in Frames
    BY DEF FeedStop, EndFrame, Frames
  <1>1. FeedTyped'
    <2>1. \A v \in Viewers : Offered(queue[v], EndFrame) \in Seq(Frames)
      BY <1>a, OfferedType DEF FeedTyped
    <2>2. queue' \in [Viewers -> Seq(Frames)]
      BY <2>1 DEF FeedTyped, FeedStop, Broadcast
    <2>0. Broadcast(EndFrame)
      BY DEF FeedStop
    <2>3. dropped' \in [Viewers -> Nat]
      <3>1. dropped \in [Viewers -> Nat]
        BY DEF FeedTyped
      <3>2. dropped' = [v \in Viewers |->
              IF v \in clients /\ Len(queue[v]) >= ClientQueue
              THEN dropped[v] + 1 ELSE dropped[v]]
        BY <2>0 DEF Broadcast
      <3>3. \A v \in Viewers : dropped[v] \in Nat /\ dropped[v] + 1 \in Nat
        BY <3>1
      <3> QED BY <3>2, <3>3
    <2>4. IsFiniteSet(clients')
      BY <1>a, FS_EmptySet
    <2> QED BY <1>a, <2>2, <2>3, <2>4 DEF FeedTyped, FeedStop
  <1>2. Places'
    <2>0. Cardinality(clients') = 0
      BY <1>a, FS_EmptySet
    <2>1. Cardinality(clients') <= MaxClients
      <3>1. 0 <= MaxClients
        BY FeedAssumption
      <3> QED BY <2>0, <3>1
    <2>2. \A v \in Viewers :
            handler[v] \notin Streaming =>
              queue'[v] = queue[v] /\ dropped'[v] = dropped[v]
      BY DEF Places, FeedStop, Broadcast
    <2>3. server' # "listening" /\ handler' = handler
      BY DEF FeedStop
    <2> QED BY <1>a, <2>1, <2>2, <2>3 DEF Places
  <1> QED BY <1>a, <1>1, <1>2

\* The feed comes up, or it does not, and nobody is connected yet.
LEMMA StartKeeps ==
  ASSUME FeedInv, at = "start feed", at' = "up", "feed" \in enabled,
         published' = published, enabled' = enabled,
         NEW bound \in BOOLEAN, FeedStart(bound)
  PROVE  FeedInv'
  <1>1. FeedTyped' /\ Quiet'
    BY DEF FeedInv, FeedTyped, Quiet, FeedStart, Starting
  <1>2. \A v \in Viewers : handler[v] \notin Streaming
    BY DEF FeedInv, Quiet, Starting, Streaming
  <1>3. Places'
    BY <1>2 DEF FeedInv, Places, FeedStart
  <1>4. ASSUME NEW v \in clients' PROVE Told(v)'
    BY DEF FeedInv, Told, FeedStart
  <1> QED BY <1>1, <1>3, <1>4 DEF FeedInv

\* A new process counts its publishes from the start.
LEMMA RestartKeeps ==
  ASSUME FeedInv, UNCHANGED feedVars, published' = 0, clients = {}, shown = 0,
         Quiet'
  PROVE  FeedInv'
  <1>3. FeedTyped'
    <2>1. shown' = 0 /\ published' = 0
      BY DEF feedVars
    <2>2. 0 \in Nat /\ 0 <= 0
      OBVIOUS
    <2>3. /\ UNCHANGED <<clients, handler, queue, written, dropped, joined>>
          /\ FeedTyped
      BY DEF FeedInv, feedVars
    <2> QED BY <2>1, <2>2, <2>3 DEF FeedTyped
  <1>4. Places'
    BY DEF FeedInv, Places, feedVars
  <1> QED BY <1>3, <1>4 DEF FeedInv, feedVars
-----------------------------------------------------------------------------
(* One viewer's handler takes a step.                                      *)

\* What is v's own after the step.
Own(v, h, q, d, w, j) ==
  /\ handler' = [handler EXCEPT ![v] = h]
  /\ queue' = [queue EXCEPT ![v] = q]
  /\ dropped' = [dropped EXCEPT ![v] = d]
  /\ written' = [written EXCEPT ![v] = w]
  /\ joined' = [joined EXCEPT ![v] = j]

LEMMA ViewerKeeps ==
  ASSUME FeedInv, NEW v \in Viewers, NEW h \in Handlers,
         NEW q \in Seq(Frames), NEW d \in Nat, NEW w \in Seq(Frames),
         NEW j \in Nat, Own(v, h, q, d, w, j),
         UNCHANGED <<server, shown, published, at, enabled>>,
         handler[v] # "away" \/ server = "listening",
         at # "exited",
         clients' \subseteq Viewers, IsFiniteSet(clients'),
         Cardinality(clients') <= MaxClients,
         \A u \in Viewers : u # v => (u \in clients' <=> u \in clients),
         v \in clients' => h \in Streaming /\ Heard(w, q, d, j, published),
         server = "listening" /\ h \in Streaming => v \in clients',
         h \notin Streaming => q = << >> /\ d = 0
  PROVE  FeedInv'
  <1> USE DEF FeedInv
  <1>a. /\ \A u \in Viewers \ {v} :
             /\ handler'[u] = handler[u]
             /\ queue'[u] = queue[u]
             /\ dropped'[u] = dropped[u]
             /\ written'[u] = written[u]
             /\ joined'[u] = joined[u]
        /\ handler'[v] = h /\ queue'[v] = q /\ dropped'[v] = d
        /\ written'[v] = w /\ joined'[v] = j
    BY DEF FeedTyped, Own
  <1>1. FeedTyped'
    BY DEF FeedTyped, Own
  <1>2. Places'
    BY <1>a DEF Places
  <1>3. Quiet'
    BY DEF Quiet
  <1>4. ASSUME NEW u \in clients' PROVE Told(u)'
    <2>1. CASE u = v
      BY <1>a, <2>1 DEF Told
    <2>2. CASE u # v
      BY <1>a, <2>2 DEF Told
    <2> QED BY <2>1, <2>2
  <1> QED BY <1>1, <1>2, <1>3, <1>4

\* v moves on and nothing else changes.
LEMMA MovesKeeps ==
  ASSUME FeedInv, NEW v \in Viewers, NEW h \in Handlers, at # "exited",
         handler' = [handler EXCEPT ![v] = h],
         handler[v] # "away" \/ server = "listening",
         h \in Streaming <=> handler[v] \in Streaming,
         UNCHANGED <<server, shown, clients, queue, dropped, written, joined,
                     published, at, enabled>>
  PROVE  FeedInv'
  <1>1. Own(v, h, queue[v], dropped[v], written[v], joined[v])
    BY DEF Own, FeedInv, FeedTyped
  <1>2. /\ queue[v] \in Seq(Frames) /\ dropped[v] \in Nat
        /\ written[v] \in Seq(Frames) /\ joined[v] \in Nat
        /\ clients' \subseteq Viewers /\ IsFiniteSet(clients')
        /\ Cardinality(clients') <= MaxClients
        /\ \A u \in Viewers : u # v => (u \in clients' <=> u \in clients)
    BY DEF FeedInv, FeedTyped, Places
  <1>3. /\ v \in clients' =>
             /\ h \in Streaming
             /\ Heard(written[v], queue[v], dropped[v], joined[v], published)
        /\ server = "listening" /\ h \in Streaming => v \in clients'
        /\ h \notin Streaming => queue[v] = << >> /\ dropped[v] = 0
    BY DEF FeedInv, Places, Told
  <1> QED BY <1>1, <1>2, <1>3, ViewerKeeps

\* v leaves, and its place is free.
LEMMA LeaveKeeps ==
  ASSUME FeedInv, NEW v \in Viewers, Leave(v), handler[v] # "away",
         at # "exited", UNCHANGED <<server, shown, published, at, enabled>>
  PROVE  FeedInv'
  <1>1. Own(v, "away", << >>, 0, << >>, 0)
    BY DEF Leave, Forget, Own
  <1>2. << >> \in Seq(Frames) /\ "away" \in Handlers /\ "away" \notin Streaming
    BY EmptySeq DEF Handlers, Streaming
  <1>3. clients' = clients \ {v} /\ clients' \subseteq Viewers
    BY DEF Leave, FeedInv, FeedTyped
  <1>4. IsFiniteSet(clients') /\ Cardinality(clients') <= Cardinality(clients)
    BY <1>3, FS_Subset DEF FeedInv, FeedTyped
  <1>5. Cardinality(clients') <= MaxClients
    <2>1. Cardinality(clients) \in Nat /\ Cardinality(clients') \in Nat
      BY <1>4, FS_CardinalityType DEF FeedInv, FeedTyped
    <2> QED BY <1>4, <2>1, FeedAssumption DEF FeedInv, Places
  <1> QED BY <1>1, <1>2, <1>3, <1>4, <1>5, ViewerKeeps

LEMMA JoinKeeps ==
  ASSUME FeedInv, NEW v \in Viewers, Join(v, published), at # "exited",
         UNCHANGED <<published, at, enabled>>
  PROVE  FeedInv'
  <1> DEFINE w == <<StateFrame(shown)>>
  <1>a. /\ queue[v] = << >> /\ dropped[v] = 0 /\ handler[v] = "request"
        /\ published \in Nat /\ shown \in Nat /\ shown <= published
    BY DEF Join, FeedInv, FeedTyped, Places, Streaming
  <1>1. Own(v, "draining", << >>, 0, w, published)
    BY <1>a DEF Join, Own, FeedInv, FeedTyped
  <1>2. StateFrame(shown) \in Frames /\ StateFrame(shown).n = shown
        /\ StateFrame(shown).kind = "state"
    BY <1>a DEF StateFrame, Frames
  <1>3. /\ << >> \in Seq(Frames) /\ w \in Seq(Frames) /\ Len(w) = 1
        /\ w[1] = StateFrame(shown) /\ w # << >>
    BY <1>2, EmptySeq
  <1>4. w \o << >> = w
    BY <1>3, ConcatEmptySeq
  <1>5. Heard(w, << >>, 0, published, published)
    <2> HIDE DEF w
    <2>1. Rising(w) /\ UpTo(w, published)
      BY <1>a, <1>2, <1>3 DEF Rising, UpTo
    <2>2. NoEnd(<< >>) /\ Len(<< >>) = 0 /\ 0 <= ClientQueue
      BY FeedAssumption DEF NoEnd
    <2>3. Len(w \o << >>) + 0 + published = 1 + published
      <3>1. 1 + 0 + published = 1 + published
        BY <1>a
      <3> QED BY <1>3, <1>4, <3>1
    <2>4. published <= published /\ ~(published > published)
      BY <1>a
    <2> QED BY <1>2, <1>3, <1>4, <2>1, <2>2, <2>3, <2>4 DEF Heard
  <1>6. clients' = clients \cup {v} /\ clients' \subseteq Viewers
    BY DEF Join, FeedInv, FeedTyped
  <1>7. IsFiniteSet(clients') /\ Cardinality(clients') <= MaxClients
    <2>1. /\ IsFiniteSet(clients') /\ Cardinality(clients) \in Nat
          /\ Cardinality(clients') = IF v \in clients THEN Cardinality(clients)
                                     ELSE Cardinality(clients) + 1
      BY <1>6, FS_AddElement, FS_CardinalityType DEF FeedInv, FeedTyped
    <2>2. Cardinality(clients) < MaxClients /\ MaxClients \in Nat
      BY FeedAssumption DEF Join
    <2> QED BY <2>1, <2>2
  <1>8. "draining" \in Handlers /\ "draining" \in Streaming
    BY DEF Handlers, Streaming
  <1>9. UNCHANGED <<server, shown>>
    BY DEF Join
  <1> HIDE DEF w
  <1>10. /\ handler[v] # "away" \/ server = "listening"
         /\ \A u \in Viewers : u # v => (u \in clients' <=> u \in clients)
         /\ v \in clients' /\ 0 \in Nat
    BY <1>a, <1>6
  <1> QED
    BY <1>a, <1>1, <1>3, <1>5, <1>6, <1>7, <1>8, <1>9, <1>10, ViewerKeeps

\* What waited is written: the viewer has been told the same.
LEMMA FlushHeard ==
  ASSUME NEW w \in Seq(Frames), NEW q \in Seq(Frames), NEW d \in Nat,
         NEW j \in Nat, NEW n \in Nat, Heard(w, q, d, j, n)
  PROVE  w \o q \in Seq(Frames) /\ Heard(w \o q, << >>, d, j, n)
  <1> DEFINE s == w \o q
  <1>1. /\ s \in Seq(Frames) /\ Len(s) = Len(w) + Len(q)
        /\ \A i \in 1..Len(s) :
             s[i] = IF i <= Len(w) THEN w[i] ELSE q[i - Len(w)]
    BY ConcatProperties
  <1>2. s \o << >> = s
    BY <1>1, ConcatEmptySeq
  <1>3. Len(w) \in Nat /\ Len(w) >= 1 /\ Len(q) \in Nat
    BY EmptySeq, LenProperties DEF Heard
  <1>4. NoEnd(<< >>) /\ Len(<< >>) <= ClientQueue
    BY FeedAssumption DEF NoEnd
  <1>5. /\ w[1].kind = "state" /\ Rising(s) /\ UpTo(s, n) /\ j <= n
        /\ Len(s) + d + j = 1 + n
        /\ n > j => s[Len(s)].n = n
    BY DEF Heard
  <1> HIDE DEF s
  <1>6. 1 \in 1..Len(s) /\ 1 <= Len(w) /\ s # << >>
    BY <1>1, <1>3, EmptySeq
  <1>7. s[1].kind = "state"
    BY <1>1, <1>5, <1>6
  <1> QED BY <1>1, <1>2, <1>4, <1>5, <1>6, <1>7 DEF Heard, s

LEMMA FlushKeeps ==
  ASSUME FeedInv, NEW v \in Viewers, Flush(v), handler[v] \in Streaming,
         at # "exited", UNCHANGED <<published, at, enabled>>
  PROVE  FeedInv'
  <1>0. handler[v] # "away" /\ UNCHANGED <<server, shown>>
    BY DEF Streaming, Flush
  <1>1. CASE Contains(queue[v], EndFrame)
    BY <1>0, <1>1, LeaveKeeps DEF Flush
  <1>2. CASE ~Contains(queue[v], EndFrame)
    <2> DEFINE w == written[v] \o queue[v]
    <2>1. /\ written[v] \in Seq(Frames) /\ queue[v] \in Seq(Frames)
          /\ dropped[v] \in Nat /\ joined[v] \in Nat /\ published \in Nat
      BY DEF FeedInv, FeedTyped
    <2>2. w \in Seq(Frames) /\ << >> \in Seq(Frames)
      BY <2>1, ConcatProperties, EmptySeq
    <2>3. Own(v, "draining", << >>, dropped[v], w, joined[v])
      BY <1>2 DEF Flush, Own, FeedInv, FeedTyped
    <2>4. "draining" \in Handlers /\ "draining" \in Streaming
      BY DEF Handlers, Streaming
    <2>5. v \in clients =>
            Heard(w, << >>, dropped[v], joined[v], published)
      BY <2>1, FlushHeard DEF FeedInv, Told
    <2>6. server = "listening" => v \in clients
      BY DEF FeedInv, Places
    <2>7. /\ clients' = clients /\ clients \subseteq Viewers
          /\ IsFiniteSet(clients) /\ Cardinality(clients) <= MaxClients
      BY <1>2 DEF Flush, FeedInv, FeedTyped, Places
    <2>8. /\ clients' \subseteq Viewers /\ IsFiniteSet(clients')
          /\ Cardinality(clients') <= MaxClients
          /\ \A u \in Viewers : u # v => (u \in clients' <=> u \in clients)
      BY <2>7
    <2>9. /\ v \in clients' => /\ "draining" \in Streaming
                               /\ Heard(w, << >>, dropped[v], joined[v],
                                        published)
          /\ server = "listening" /\ "draining" \in Streaming => v \in clients'
          /\ "draining" \notin Streaming => << >> = << >> /\ dropped[v] = 0
      BY <2>4, <2>5, <2>6, <2>7
    <2> HIDE DEF w
    <2> QED BY <1>0, <2>1, <2>2, <2>3, <2>4, <2>8, <2>9, ViewerKeeps
  <1> QED BY <1>1, <1>2

LEMMA FeedStepKeeps ==
  ASSUME FeedInv, FeedStep(published), at # "exited",
         UNCHANGED <<published, at, enabled>>
  PROVE  FeedInv'
  <1> PICK v \in Viewers :
        \/ Accept(v) \/ RequestFails(v) \/ Reply(v) \/ Replied(v)
        \/ Join(v, published) \/ Woken(v) \/ Keepalive(v) \/ Drained(v)
        \/ DrainFails(v)
    BY DEF FeedStep
  <1> USE DEF Handlers, Streaming
  <1>1. CASE Accept(v)
    BY <1>1, MovesKeeps DEF Accept
  <1>2. CASE RequestFails(v)
    BY <1>2, MovesKeeps DEF RequestFails
  <1>3. CASE Reply(v)
    BY <1>3, MovesKeeps DEF Reply
  <1>4. CASE Replied(v)
    BY <1>4, MovesKeeps DEF Replied
  <1>5. CASE Join(v, published)
    BY <1>5, JoinKeeps
  <1>6. CASE Woken(v)
    BY <1>6, FlushKeeps DEF Woken
  <1>7. CASE Keepalive(v)
    BY <1>7, MovesKeeps DEF Keepalive
  <1>8. CASE Drained(v)
    <2>1. CASE Flush(v)
      BY <1>8, <2>1, FlushKeeps DEF Drained
    <2>2. CASE ~Flush(v)
      BY <1>8, <2>2, MovesKeeps DEF Drained
    <2> QED BY <2>1, <2>2
  <1>9. CASE DrainFails(v)
    BY <1>9, LeaveKeeps DEF DrainFails
  <1> QED BY <1>1, <1>2, <1>3, <1>4, <1>5, <1>6, <1>7, <1>8, <1>9
-----------------------------------------------------------------------------
(* Every step of the run and of its outlets.                               *)

\* The steps that leave the feed alone.
LEMMA StillSteps ==
  ASSUME FeedInv,
         \/ StartHistory \/ StartGnss \/ StartMqtt \/ Finish \/ Signal
         \/ LastPublish \/ CloseGnss \/ CloseMqtt \/ PublishBegins
         \/ MqttMoves \/ GnssMoves \/ UNCHANGED vars
  PROVE  FeedInv'
  <1>1. UNCHANGED <<feedVars, enabled>> /\ published' = published
    BY DEF StartHistory, StartGnss, StartMqtt, Finish, Signal, LastPublish,
           CloseGnss, CloseMqtt, PublishBegins, MqttMoves, GnssMoves, vars,
           runVars, Goes
  <1>2. /\ at' \in Starting => at \in Starting
        /\ at' # "exited" \/ at = "exited"
    BY DEF StartHistory, StartGnss, StartMqtt, Finish, Signal, LastPublish,
           CloseGnss, CloseMqtt, PublishBegins, MqttMoves, GnssMoves, vars,
           runVars, Goes, Starting
  <1>3. Quiet'
    BY <1>1, <1>2 DEF FeedInv, Quiet, feedVars
  <1> QED BY <1>1, <1>3, FeedStill

LEMMA StartFeedKeeps == FeedInv /\ StartFeed => FeedInv'
  <1> SUFFICES ASSUME FeedInv, StartFeed PROVE FeedInv'
    OBVIOUS
  <1>1. /\ at = "start feed" /\ at' = "up" /\ enabled' = enabled
        /\ published' = published
    BY DEF StartFeed, Goes
  <1>2. CASE "feed" \in enabled
    <2>1. PICK bound \in BOOLEAN : FeedStart(bound)
      BY <1>2 DEF StartFeed
    <2> QED BY <1>1, <1>2, <2>1, StartKeeps
  <1>3. CASE "feed" \notin enabled
    <2>1. UNCHANGED feedVars
      BY <1>3 DEF StartFeed
    <2>2. Quiet'
      BY <1>1, <1>3, <2>1 DEF FeedInv, Quiet, feedVars
    <2> QED BY <1>1, <2>1, <2>2, FeedStill
  <1> QED BY <1>2, <1>3

\* A publish is one more than those before it, and not the end.
LEMMA FrameOfPublish ==
  ASSUME NEW n \in Nat
  PROVE  /\ StateFrame(n + 1) \in Frames /\ AlertFrame(n + 1) \in Frames
         /\ StateFrame(n + 1).n = n + 1 /\ AlertFrame(n + 1).n = n + 1
         /\ StateFrame(n + 1).kind # "end" /\ AlertFrame(n + 1).kind # "end"
  BY DEF StateFrame, AlertFrame, Frames

LEMMA PublishKeeps ==
  ASSUME FeedInv, PublishEnds \/ Dispatch, at # "exited"
  PROVE  FeedInv'
  <1>1. UNCHANGED <<at, enabled>> /\ published' = published + 1
    BY DEF PublishEnds, Dispatch
  <1>2. CASE "feed" \notin enabled
    <2>1. UNCHANGED feedVars
      BY <1>2 DEF PublishEnds, Dispatch
    <2> QED BY <1>1, <1>2, <2>1, FeedOff
  <1>3. CASE "feed" \in enabled
    <2>1. published \in Nat
      BY DEF FeedInv, FeedTyped
    <2>2. CASE PublishEnds
      <3>1. FeedState(published + 1)
        BY <1>1, <1>3, <2>2 DEF PublishEnds
      <3>2. /\ Broadcast(StateFrame(published + 1)) /\ shown' = published + 1
            /\ UNCHANGED <<server, clients, handler, written, joined>>
        BY <3>1 DEF FeedState
      <3> QED BY <1>1, <2>1, <3>2, FrameOfPublish, BroadcastKeeps
    <2>3. CASE Dispatch
      <3>1. FeedEvent(published + 1)
        BY <1>1, <1>3, <2>3 DEF Dispatch
      <3>2. /\ Broadcast(AlertFrame(published + 1)) /\ shown' = shown
            /\ UNCHANGED <<server, clients, handler, written, joined>>
        BY <3>1 DEF FeedEvent
      <3> QED BY <1>1, <2>1, <3>2, FrameOfPublish, BroadcastKeeps
    <2> QED BY <2>2, <2>3
  <1> QED BY <1>2, <1>3

LEMMA CloseKeeps == FeedInv /\ (CloseFeed \/ FeedClosed) => FeedInv'
  <1> SUFFICES ASSUME FeedInv, CloseFeed \/ FeedClosed PROVE FeedInv'
    OBVIOUS
  <1>1. /\ at' \notin Starting \cup {"exited"} /\ enabled' = enabled
        /\ published' = published
    BY DEF CloseFeed, FeedClosed, Goes, Starting
  <1>2. server' # "listening" /\ handler' = handler
    BY DEF CloseFeed, FeedClosed, FeedStop, FeedStopped
  <1>3. Quiet'
    BY <1>1, <1>2 DEF FeedInv, Quiet
  <1>4. CASE CloseFeed
    BY <1>1, <1>3, <1>4, StopKeeps DEF CloseFeed
  <1>5. CASE FeedClosed
    <2>1. /\ UNCHANGED <<shown, clients, handler, queue, dropped, written,
                         joined>>
          /\ server' # "listening"
      BY <1>2, <1>5 DEF FeedClosed, FeedStopped
    <2>2. FeedTyped' /\ Places'
      BY <1>1, <2>1 DEF FeedInv, FeedTyped, Places
    <2>3. ASSUME NEW v \in clients' PROVE Told(v)'
      BY <1>1, <2>1 DEF FeedInv, Told
    <2> QED BY <1>3, <2>2, <2>3 DEF FeedInv
  <1> QED BY <1>4, <1>5

LEMMA RestartsKeep == FeedInv /\ Restart => FeedInv'
  <1> SUFFICES ASSUME FeedInv, Restart PROVE FeedInv'
    OBVIOUS
  <1>1. /\ at = "exited" /\ UNCHANGED feedVars /\ published' = 0
        /\ at' = "start history" /\ enabled' = enabled
    BY DEF Restart
  <1>2. /\ shown = 0 /\ server # "listening"
        /\ \A v \in Viewers : handler[v] = "away"
    BY <1>1 DEF FeedInv, Quiet
  <1>3. clients = {}
    BY <1>2 DEF FeedInv, FeedTyped, Places, Streaming
  <1>4. Quiet'
    BY <1>1, <1>2 DEF Quiet, feedVars
  <1> QED BY <1>1, <1>2, <1>3, <1>4, RestartKeeps

\* The state files are awaited only by a run that is up.
WritesUp == writing => at = "up"

LEMMA NextWritesUp == WritesUp /\ [Next]_vars => WritesUp'
  <1> SUFFICES ASSUME WritesUp, [Next]_vars PROVE WritesUp'
    OBVIOUS
  <1>1. CASE PublishBegins
    BY <1>1 DEF PublishBegins, WritesUp
  <1>2. CASE writing' = FALSE
    BY <1>2 DEF WritesUp
  <1>3. CASE UNCHANGED <<writing, at>>
    BY <1>3 DEF WritesUp
  <1>4. CASE writing' = writing /\ at # "up"
    BY <1>4 DEF WritesUp
  <1> QED
    BY <1>1, <1>2, <1>3, <1>4
    DEF Next, vars, runVars, StartStep, StartHistory, StartGnss, StartMqtt,
        StartFeed, CloseStep, LastPublish, CloseGnss, CloseFeed, FeedClosed,
        CloseMqtt, CloseHistory, RunStep, PublishEnds, Dispatch, Finish, Signal,
        Crash, Restart, FeedMoves, MqttMoves, GnssMoves, Goes

LEMMA NextFeedInv == FeedInv /\ WritesUp /\ [Next]_vars => FeedInv'
  <1> SUFFICES ASSUME FeedInv, WritesUp, [Next]_vars PROVE FeedInv'
    OBVIOUS
  <1>1. CASE \/ StartHistory \/ StartGnss \/ StartMqtt \/ Finish \/ Signal
             \/ LastPublish \/ CloseGnss \/ CloseMqtt \/ PublishBegins
             \/ MqttMoves \/ GnssMoves \/ UNCHANGED vars
    BY <1>1, StillSteps
  <1>2. CASE StartFeed
    BY <1>2, StartFeedKeeps
  <1>3. CASE CloseFeed \/ FeedClosed
    BY <1>3, CloseKeeps
  <1>4. CASE CloseHistory \/ Crash
    <2>1. FeedExit /\ published' = published
      BY <1>4 DEF CloseHistory, Crash, Goes
    <2> QED BY <2>1, ExitKeeps
  <1>5. CASE Restart
    BY <1>5, RestartsKeep
  <1>6. CASE PublishEnds \/ Dispatch
    <2>1. at # "exited"
      BY <1>6 DEF PublishEnds, Dispatch, WritesUp
    <2> QED BY <1>6, <2>1, PublishKeeps
  <1>7. CASE FeedMoves
    <2>1. FeedStep(published) /\ at # "exited"
          /\ UNCHANGED <<published, at, enabled>>
      BY <1>7 DEF FeedMoves, runVars
    <2> QED BY <2>1, FeedStepKeeps
  <1> QED
    BY <1>1, <1>2, <1>3, <1>4, <1>5, <1>6, <1>7
    DEF Next, StartStep, CloseStep, RunStep

\* Every viewer that holds a place has been told, or will be sent, the state
\* at hand when it joined and then every publish in order up to the newest,
\* less those that were counted as dropped; and no more than MAX_CLIENTS hold
\* one: for any number of viewers, any places and any backlog (_Client.offer,
\* StateFeed._stream, StateFeed.stop).
THEOREM ViewersKeptUpToDate == Spec => []ViewersUpToDate
  <1>1. Init => FeedInv /\ WritesUp
    BY InitFeedInv DEF Init, WritesUp
  <1>2. FeedInv /\ WritesUp /\ [Next]_vars => (FeedInv /\ WritesUp)'
    BY NextFeedInv, NextWritesUp
  <1>3. FeedInv /\ WritesUp => ViewersUpToDate
    BY FeedInvSuffices
  <1> QED BY <1>1, <1>2, <1>3, PTL DEF Spec

-----------------------------------------------------------------------------
(* The retained status.                                                    *)

\* The safety half of StatusHonest.
OnlineUntilLost == client /\ ~lost => status = "online"

\* A publisher whose connection was never lost has it, left no will with the
\* broker, and is the last that spoke on the topic.
StatusInv ==
  client /\ ~lost => link = "up" /\ ~will /\ status = "online"

\* No call of the publisher and nothing on the connection breaks it.
LEMMA MqttKeepsStatus ==
  ASSUME StatusInv,
         \/ MqttStarts \/ MqttStartsUnheard
         \/ (\E n \in {published'} : MqttState(n)) \/ MqttStep
         \/ MqttStop \/ MqttCrash \/ UNCHANGED mqttVars
  PROVE  StatusInv'
  BY DEF StatusInv, MqttStarts, MqttStartsUnheard, MqttState, MqttStep,
         LinkDrops, BrokerNotices, Reconnects, MqttStop, MqttCrash, mqttVars

\* What a step of the outlets does to the publisher.
LEMMA StatusStep ==
  ASSUME [Next]_vars
  PROVE  \/ MqttStarts \/ MqttStartsUnheard
         \/ (\E n \in {published'} : MqttState(n)) \/ MqttStep
         \/ MqttStop \/ MqttCrash \/ UNCHANGED mqttVars
  <1>1. CASE StartStep
    BY <1>1 DEF StartStep, StartHistory, StartGnss, StartMqtt, StartFeed,
                MqttStartFails
  <1>2. CASE CloseStep
    BY <1>2 DEF CloseStep, LastPublish, CloseGnss, CloseFeed, FeedClosed,
                CloseMqtt, CloseHistory
  <1>3. CASE RunStep
    BY <1>3 DEF RunStep, PublishBegins, PublishEnds, Dispatch
  <1>4. CASE Finish \/ Signal \/ Crash \/ Restart \/ UNCHANGED vars
    BY <1>4 DEF Finish, Signal, Crash, Restart, vars
  <1>5. CASE FeedMoves \/ MqttMoves \/ GnssMoves
    BY <1>5 DEF FeedMoves, MqttMoves, GnssMoves
  <1> QED BY <1>1, <1>2, <1>3, <1>4, <1>5 DEF Next

\* From a start that was heard to the first loss of the connection the
\* retained status says online: the will of an earlier process is published
\* before it or not at all (MqttPublisher.start, whose client id is fixed).
THEOREM OnlineUntilTheLinkIsLost == Spec => []OnlineUntilLost
  <1>1. Init => StatusInv
    BY DEF Init, MqttInit, StatusInv
  <1>2. StatusInv /\ [Next]_vars => StatusInv'
    BY StatusStep, MqttKeepsStatus
  <1>3. StatusInv => OnlineUntilLost
    BY DEF StatusInv, OnlineUntilLost
  <1> QED BY <1>1, <1>2, <1>3, PTL DEF Spec
=============================================================================
