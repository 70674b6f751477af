------------------------- MODULE AlertTrackerProofs -------------------------
(***************************************************************************)
(* Proofs about the alert tracker, for every set of alerts, every miss     *)
(* tolerance, snapshots of any size, and any number of them and of link    *)
(* sessions.  The first part is about the greedy matching of one snapshot; *)
(* the second follows the tracks from snapshot to snapshot, with an        *)
(* inductive invariant that ties what a track remembers to the sightings   *)
(* it was made of.                                                         *)
(***************************************************************************)
EXTENDS AlertTracker, TLAPS, FiniteSetTheorems, SequenceTheorems,
        WellFoundedInduction

-----------------------------------------------------------------------------
(***************************************************************************)
(* Numbers.                                                                *)
(***************************************************************************)

Below == {p \in Nat \X Nat : p[1] < p[2]}

LEMMA BelowWellFounded == IsWellFoundedOn(Below, Nat)
  BY NatLessThanWellFounded DEF OpToRel, Below

\* A set of numbers that is not empty has a least member.
LEMMA LeastOf ==
  ASSUME NEW S \in SUBSET Nat, S # {}
  PROVE  \E m \in S : \A n \in S : m <= n
  <1>1. PICK m \in S : \A n \in S : ~(<<n, m>> \in Below)
    BY BelowWellFounded, WFMin
  <1>2. ASSUME NEW n \in S PROVE m <= n
    <2>1. m \in Nat /\ n \in Nat /\ ~(<<n, m>> \in Nat \X Nat /\ n < m)
      BY <1>1 DEF Below
    <2> QED BY <2>1
  <1> QED BY <1>2

\* A set of numbers that has 0, and the next of each of its members, has all.
LEMMA Induction ==
  ASSUME NEW S \in SUBSET Nat, 0 \in S, \A n \in S : n + 1 \in S
  PROVE  S = Nat
  <1> DEFINE Missing == Nat \ S
  <1>1. SUFFICES ASSUME Missing # {} PROVE FALSE
    OBVIOUS
  <1>2. PICK x \in Missing : \A y \in Missing : x <= y
    BY <1>1, LeastOf
  <1>3. x # 0 /\ x - 1 \in Nat /\ x - 1 < x
    BY <1>2
  <1>4. x - 1 \in S
    BY <1>2, <1>3
  <1> QED BY <1>2, <1>3, <1>4

-----------------------------------------------------------------------------
(***************************************************************************)
(* The greedy matching.                                                    *)
(***************************************************************************)

Candidate == [cost : Nat, slot : Nat, track : Nat]

\* The pairs left when the best of them is taken.
Rest(left) == {c \in left : c.slot # Best(left).slot /\ c.track # Best(left).track}

Take(g, left) == IF left = {} THEN {} ELSE {Best(left)} \cup g[Rest(left)]

\* Candidates have a best one: one of the least cost.
LEMMA BestIsBest ==
  ASSUME NEW left \in SUBSET Candidate, left # {}
  PROVE  Best(left) \in left /\ \A d \in left : Best(left).cost <= d.cost
  <1> DEFINE costs == {c.cost : c \in left}
  <1>1. PICK k \in costs : \A n \in costs : k <= n
    <2>1. costs \in SUBSET Nat /\ costs # {}
      BY DEF Candidate
    <2> QED BY <2>1, LeastOf
  <1> DEFINE cheap == {c \in left : c.cost = k}
             slots == {c.slot : c \in cheap}
  <1>2. PICK i \in slots : \A n \in slots : i <= n
    <2>1. slots \in SUBSET Nat /\ slots # {}
      BY DEF Candidate
    <2> QED BY <2>1, LeastOf
  <1> DEFINE first == {c \in cheap : c.slot = i}
             ids == {c.track : c \in first}
  <1>3. PICK t \in ids : \A n \in ids : t <= n
    <2>1. ids \in SUBSET Nat /\ ids # {}
      BY DEF Candidate
    <2> QED BY <2>1, LeastOf
  <1>4. PICK b \in first : b.track = t
    OBVIOUS
  <1>5. ASSUME NEW d \in left \ {b} PROVE Better(b, d)
    <2>1. /\ b.cost = k /\ b.slot = i /\ b.track = t /\ b \in left
          /\ k \in Nat /\ i \in Nat /\ t \in Nat
      BY <1>4 DEF Candidate
    <2>2. d.cost \in Nat /\ d.slot \in Nat /\ d.track \in Nat
      BY DEF Candidate
    <2>3. k <= d.cost
      BY <1>1
    <2>4. d.cost = k => i <= d.slot
      BY <1>2
    <2>5. d.cost = k /\ d.slot = i => t <= d.track
      BY <1>3
    <2>6. ~(d.cost = k /\ d.slot = i /\ d.track = t)
      BY <2>1 DEF Candidate
    <2> QED BY <2>1, <2>2, <2>3, <2>4, <2>5, <2>6 DEF Better
  <1>6. Best(left) \in left /\ \A d \in left \ {Best(left)} : Better(Best(left), d)
    BY <1>4, <1>5 DEF Best
  <1> QED BY <1>6 DEF Better, Candidate

\* The best candidate leaves fewer of them.
LEMMA RestIsSmaller ==
  ASSUME NEW left \in SUBSET Candidate, left # {}, IsFiniteSet(left)
  PROVE  /\ Rest(left) \in SUBSET left
         /\ Cardinality(Rest(left)) \in Nat /\ Cardinality(left) \in Nat
         /\ Cardinality(Rest(left)) < Cardinality(left)
  <1>1. Rest(left) \in SUBSET left
    BY DEF Rest
  <1>2. Rest(left) # left
    BY BestIsBest DEF Rest
  <1> QED BY <1>1, <1>2, FS_Subset, FS_CardinalityType

Small(pairs, n) == {left \in SUBSET pairs : Cardinality(left) <= n}

IsGreedy(g, pairs, n) == g = [left \in Small(pairs, n) |-> Take(g, left)]

\* The recursion of _assign is well founded: it takes from ever fewer pairs.
LEMMA GreedyExists ==
  ASSUME NEW pairs \in SUBSET Candidate, IsFiniteSet(pairs), NEW n \in Nat
  PROVE  \E g : IsGreedy(g, pairs, n)
  <1> DEFINE S == {k \in Nat : \E g : IsGreedy(g, pairs, k)}
  <1>0. ASSUME NEW left \in SUBSET pairs
        PROVE  left \in SUBSET Candidate /\ IsFiniteSet(left) /\ Cardinality(left) \in Nat
    BY FS_Subset, FS_CardinalityType
  <1>1. 0 \in S
    <2> DEFINE g == [left \in Small(pairs, 0) |-> {}]
    <2>1. ASSUME NEW left \in Small(pairs, 0) PROVE left = {}
      BY <1>0, FS_EmptySet DEF Small
    <2>2. g = [left \in Small(pairs, 0) |-> Take(g, left)]
      BY <2>1 DEF Take
    <2> HIDE DEF g
    <2> QED BY <2>2 DEF IsGreedy
  <1>2. ASSUME NEW k \in S PROVE k + 1 \in S
    <2>1. PICK f : IsGreedy(f, pairs, k)
      BY <1>2
    <2> DEFINE g == [left \in Small(pairs, k + 1) |-> Take(f, left)]
    <2>2. ASSUME NEW left \in Small(pairs, k) PROVE left \in Small(pairs, k + 1) /\ g[left] = f[left]
      <3>1. left \in Small(pairs, k + 1)
        BY <1>0 DEF Small
      <3>2. f[left] = Take(f, left)
        BY <2>1 DEF IsGreedy
      <3> QED BY <3>1, <3>2
    <2>3. ASSUME NEW left \in Small(pairs, k + 1), left # {} PROVE Rest(left) \in Small(pairs, k)
      <3>1. left \in SUBSET pairs /\ Cardinality(left) <= k + 1
        BY DEF Small
      <3>2. Cardinality(Rest(left)) < Cardinality(left) /\ Rest(left) \in SUBSET left
            /\ Cardinality(Rest(left)) \in Nat /\ Cardinality(left) \in Nat
        BY <3>1, <1>0, <2>3, RestIsSmaller
      <3>3. Cardinality(Rest(left)) <= k
        BY <3>1, <3>2
      <3> QED BY <3>1, <3>2, <3>3 DEF Small
    <2>4. ASSUME NEW left \in Small(pairs, k + 1) PROVE g[left] = Take(g, left)
      <3>1. g[left] = Take(f, left)
        OBVIOUS
      <3> HIDE DEF g
      <3>2. Take(g, left) = Take(f, left)
        BY <2>2, <2>3 DEF Take
      <3> QED BY <3>1, <3>2
    <2>5. g = [left \in Small(pairs, k + 1) |-> g[left]]
      OBVIOUS
    <2> HIDE DEF g
    <2>6. IsGreedy(g, pairs, k + 1)
      BY <2>4, <2>5 DEF IsGreedy
    <2> QED BY <2>6
  <1> HIDE DEF S
  <1>3. S = Nat
    <2>1. S \subseteq Nat
      BY DEF S
    <2> QED BY <1>1, <1>2, <2>1, Induction
  <1> QED BY <1>3 DEF S

\* _assign is the value of a function that obeys its recursion.
LEMMA AssignIsGreedy ==
  ASSUME NEW pairs \in SUBSET Candidate, IsFiniteSet(pairs)
  PROVE  \E g : /\ \A left \in SUBSET pairs : g[left] = Take(g, left)
                /\ Assign(pairs) = g[pairs]
  <1> DEFINE greedy[left \in SUBSET pairs] ==
               IF left = {} THEN {}
               ELSE LET best == Best(left)
                        rest == {c \in left : /\ c.slot # best.slot
                                             /\ c.track # best.track}
                    IN  {best} \cup greedy[rest]
  <1>1. Small(pairs, Cardinality(pairs)) = SUBSET pairs
    BY FS_Subset DEF Small
  <1>2. \E g : g = [left \in SUBSET pairs |-> Take(g, left)]
    <2>1. Cardinality(pairs) \in Nat
      BY FS_CardinalityType
    <2>2. PICK g : IsGreedy(g, pairs, Cardinality(pairs))
      BY <2>1, GreedyExists
    <2> QED BY <1>1, <2>2 DEF IsGreedy
  <1>3. greedy = [left \in SUBSET pairs |-> Take(greedy, left)]
    BY <1>2 DEF Take, Rest
  <1>4. Assign(pairs) = greedy[pairs]
    BY DEF Assign
  <1> HIDE DEF greedy
  <1>5. \A left \in SUBSET pairs : greedy[left] = Take(greedy, left)
    BY <1>3
  <1> QED BY <1>4, <1>5

OneToOne(taken) ==
  \A w, x \in taken : w.slot = x.slot \/ w.track = x.track => w = x

\* Each of the pairs has lost against a pair that was taken, or was taken.
Settled(taken, pairs) ==
  \A c \in pairs : \E w \in taken : /\ w.slot = c.slot \/ w.track = c.track
                                   /\ w.cost <= c.cost

\* The greedy assignment takes candidates, no slot and no track twice, and
\* leaves out only what lost against one it took (_assign).
LEMMA AssignIsStable ==
  ASSUME NEW pairs \in SUBSET Candidate, IsFiniteSet(pairs)
  PROVE  /\ Assign(pairs) \in SUBSET pairs
         /\ OneToOne(Assign(pairs))
         /\ Settled(Assign(pairs), pairs)
  <1>1. PICK g : /\ \A left \in SUBSET pairs : g[left] = Take(g, left)
                 /\ Assign(pairs) = g[pairs]
    BY AssignIsGreedy
  <1> DEFINE Good(left) == /\ g[left] \in SUBSET left
                           /\ OneToOne(g[left])
                           /\ Settled(g[left], left)
             S == {n \in Nat : \A left \in SUBSET pairs :
                                 Cardinality(left) <= n => Good(left)}
  <1>2. ASSUME NEW left \in SUBSET pairs
        PROVE  left \in SUBSET Candidate /\ IsFiniteSet(left) /\ Cardinality(left) \in Nat
    BY FS_Subset, FS_CardinalityType
  <1>3. Good({})
    BY <1>1 DEF Take, OneToOne, Settled
  <1>4. 0 \in S
    <2>1. ASSUME NEW left \in SUBSET pairs, Cardinality(left) <= 0 PROVE left = {}
      BY <1>2, <2>1, FS_EmptySet
    <2> HIDE DEF Good
    <2> QED BY <1>3, <2>1
  <1>5. ASSUME NEW n \in S PROVE n + 1 \in S
    <2> SUFFICES ASSUME NEW left \in SUBSET pairs, Cardinality(left) <= n + 1, left # {}
                 PROVE  Good(left)
      <3> HIDE DEF Good
      <3> QED BY <1>3
    <2>1. left \in SUBSET Candidate /\ IsFiniteSet(left)
      BY <1>2
    <2>2. /\ Rest(left) \in SUBSET left /\ Cardinality(Rest(left)) \in Nat
          /\ Cardinality(left) \in Nat /\ Cardinality(Rest(left)) < Cardinality(left)
      BY <2>1, RestIsSmaller
    <2>3. Good(Rest(left))
      <3>1. Rest(left) \in SUBSET pairs /\ Cardinality(Rest(left)) <= n /\ n \in Nat
        BY <2>2
      <3> HIDE DEF Good
      <3> QED BY <3>1
    <2>4. Best(left) \in left /\ \A d \in left : Best(left).cost <= d.cost
      BY <2>1, BestIsBest
    <2>5. g[left] = {Best(left)} \cup g[Rest(left)]
      BY <1>1 DEF Take
    <2>6. \A w \in g[Rest(left)] : w.slot # Best(left).slot /\ w.track # Best(left).track
      BY <2>3 DEF Rest
    <2>7. g[left] \in SUBSET left
      BY <2>2, <2>3, <2>4, <2>5
    <2>8. OneToOne(g[left])
      BY <2>3, <2>5, <2>6 DEF OneToOne
    <2>9. Settled(g[left], left)
      <3>1. ASSUME NEW c \in left
            PROVE  \E w \in g[left] : /\ w.slot = c.slot \/ w.track = c.track
                                      /\ w.cost <= c.cost
        <4>1. CASE c \in Rest(left)
          BY <2>3, <2>5, <4>1 DEF Settled
        <4>2. CASE c \notin Rest(left)
          BY <2>4, <2>5, <4>2 DEF Rest
        <4> QED BY <4>1, <4>2
      <3> QED BY <3>1 DEF Settled
    <2> QED BY <2>7, <2>8, <2>9
  <1> HIDE DEF Good
  <1>6. S = Nat
    <2>1. S \in SUBSET Nat
      OBVIOUS
    <2> HIDE DEF S
    <2> QED BY <1>4, <1>5, <2>1, Induction
  <1>7. Good(pairs)
    <2>1. Cardinality(pairs) \in Nat /\ pairs \in SUBSET pairs
      BY FS_CardinalityType
    <2> QED BY <1>6, <2>1
  <1> QED BY <1>1, <1>7 DEF Good

-----------------------------------------------------------------------------
(***************************************************************************)
(* The invariant.                                                          *)
(***************************************************************************)

Numbers == nextTrackId \in Nat \ {0} /\ link \in 1..MaxLinks /\ up \in BOOLEAN

Sighting == [claimed : SUBSET (1..(nextTrackId - 1)), readable : BOOLEAN]
SightingsOK == sightings \in Seq(Sighting)

Track == [alert : Alerts, first : Nat, last : Nat, samples : Nat,
          misses : Nat, ambiguous : BOOLEAN]

TracksOK ==
  /\ DOMAIN tracks \in SUBSET (1..(nextTrackId - 1))
  /\ \A t \in DOMAIN tracks : tracks[t] \in Track /\ tracks[t].misses <= MissTolerance

\* The snapshots that showed a track, and the readable ones since the last.
SeenIn(t) == {n \in DOMAIN sightings : t \in sightings[n].claimed}
Absences(t) ==
  {n \in DOMAIN sightings :
    /\ sightings[n].readable
    /\ \A m \in n..Len(sightings) : t \notin sightings[m].claimed}

\* What an open track remembers is what the snapshots of its session showed.
Remembers ==
  \A t \in DOMAIN tracks :
    /\ tracks[t].first \in SeenIn(t) /\ tracks[t].last \in SeenIn(t)
    /\ \A n \in SeenIn(t) : tracks[t].first <= n /\ n <= tracks[t].last
    /\ tracks[t].samples = Cardinality(SeenIn(t))
    /\ tracks[t].misses = Cardinality(Absences(t))

\* A track that was closed in a session that goes on was absent too long.
ClosedWereAbsent ==
  up => \A t \in 1..(nextTrackId - 1) :
          t \notin DOMAIN tracks => Cardinality(Absences(t)) > MissTolerance

\* No track outlives its link.
NoneWhenDown == ~up => DOMAIN tracks = {}

\* The encounters told of: those not ended are the open tracks of the link,
\* and no id of the link is told of before it is given out.
LedgerOK ==
  /\ announced \ ended = {<<link, t>> : t \in DOMAIN tracks}
  /\ ended \subseteq announced
  /\ announced \subseteq (1..link) \X (Nat \ {0})
  /\ \A t \in Nat : <<link, t>> \in announced => t < nextTrackId

IInv ==
  /\ Numbers
  /\ SightingsOK
  /\ TracksOK
  /\ Remembers
  /\ ClosedWereAbsent
  /\ NoneWhenDown
  /\ LedgerOK
  /\ EndsDatedWhenSeen

-----------------------------------------------------------------------------
(***************************************************************************)
(* What one snapshot does.                                                 *)
(***************************************************************************)

\* Numbered by how many of them are smaller, numbers get numbers in a row.
LEMMA Ranks ==
  ASSUME NEW S \in SUBSET Nat, IsFiniteSet(S), NEW a \in Nat
  PROVE  {a + Cardinality({j \in S : j < i}) : i \in S}
           = a..(a + Cardinality(S) - 1)
  <1> DEFINE Under(i) == {j \in S : j < i}
             f == [i \in S |-> a + Cardinality(Under(i))]
             T == a..(a + Cardinality(S) - 1)
  <1>1. Cardinality(S) \in Nat
    BY FS_CardinalityType
  <1>2. ASSUME NEW i \in S PROVE IsFiniteSet(Under(i)) /\ Cardinality(Under(i)) \in Nat
    BY FS_Subset, FS_CardinalityType
  <1>3. ASSUME NEW i \in S PROVE Cardinality(Under(i)) < Cardinality(S)
    <2>1. Under(i) \in SUBSET S /\ i \notin Under(i)
      OBVIOUS
    <2> HIDE DEF Under
    <2>2. Cardinality(Under(i)) <= Cardinality(S) /\ Cardinality(Under(i)) # Cardinality(S)
      BY <2>1, FS_Subset
    <2> QED BY <2>2, <1>1, <1>2
  <1>4. ASSUME NEW i \in S, NEW k \in S, i < k
        PROVE  Cardinality(Under(i)) < Cardinality(Under(k))
    <2>1. Under(i) \in SUBSET Under(k) /\ i \in Under(k) /\ i \notin Under(i)
      <3>1. \A j \in S : j \in Nat /\ i \in Nat /\ k \in Nat
        OBVIOUS
      <3>2. \A j \in S : j < i => j < k
        BY <3>1, <1>4
      <3>3. Under(i) \in SUBSET Under(k)
        BY <3>2
      <3>4. i \in Under(k)
        BY <1>4
      <3>5. i \notin Under(i)
        BY <3>1
      <3> QED BY <3>3, <3>4, <3>5
    <2>2. Cardinality(Under(i)) \in Nat /\ IsFiniteSet(Under(k)) /\ Cardinality(Under(k)) \in Nat
      BY <1>2
    <2> HIDE DEF Under
    <2>3. Cardinality(Under(i)) <= Cardinality(Under(k)) /\ Cardinality(Under(i)) # Cardinality(Under(k))
      BY <2>1, <2>2, FS_Subset
    <2> QED BY <2>2, <2>3
  <1>5. f \in [S -> T]
    <2> HIDE DEF Under
    <2>1. ASSUME NEW i \in S PROVE a + Cardinality(Under(i)) \in T
      BY <1>1, <1>2, <1>3
    <2> QED BY <2>1
  <1>6. ASSUME NEW i \in S, NEW k \in S, f[i] = f[k] PROVE i = k
    <2>1. f[i] = a + Cardinality(Under(i)) /\ f[k] = a + Cardinality(Under(k))
      OBVIOUS
    <2>2. i \in Nat /\ k \in Nat
      OBVIOUS
    <2> HIDE DEF Under, f
    <2>3. Cardinality(Under(i)) = Cardinality(Under(k))
      BY <2>1, <1>2, <1>6
    <2> QED BY <2>2, <2>3, <1>2, <1>4
  <1>7. IsFiniteSet(T) /\ Cardinality(T) = Cardinality(S)
    <2>1. a \in Int /\ a + Cardinality(S) - 1 \in Int
      BY <1>1
    <2>2. /\ IsFiniteSet(a..(a + Cardinality(S) - 1))
          /\ Cardinality(a..(a + Cardinality(S) - 1))
               = IF a > a + Cardinality(S) - 1 THEN 0 ELSE (a + Cardinality(S) - 1) - a + 1
      BY <2>1, FS_Interval
    <2> QED BY <1>1, <2>2
  <1>8. f \in Injection(S, T)
    BY <1>5, <1>6 DEF Injection, IsInjective
  <1>9. f \in Surjection(S, T)
    <2> HIDE DEF f, T
    <2> QED BY <1>7, <1>8, FS_Injection
  <1>10. \A y \in T : \E i \in S : f[i] = y
    BY <1>9 DEF Surjection
  <1>11. {f[i] : i \in S} = T
    <2> HIDE DEF f, T
    <2> QED BY <1>5, <1>10
  <1> QED BY <1>11

\* The slots of a snapshot are counted from one, and hold alerts.
LEMMA SlotsOK ==
  ASSUME NEW slots \in Snapshots
  PROVE  /\ DOMAIN slots \in SUBSET Nat /\ IsFiniteSet(DOMAIN slots)
         /\ \A i \in DOMAIN slots : slots[i] \in Alerts
  <1>1. PICK n \in 0..MaxSlots : slots \in [1..n -> Alerts]
    BY DEF Snapshots, BoundedSeq, SeqOf
  <1>2. DOMAIN slots = 1..n /\ n \in Int
    BY <1>1, AlertTrackerAssumption
  <1> QED BY <1>1, <1>2, FS_Interval

\* A cost of match_cost is a number.
LEMMA MatchCostIsNat ==
  ASSUME NEW old \in Alerts, NEW new \in Alerts
  PROVE  MatchCost(old, new) \in Nat
  <1>1. DirectionCost(old.direction, new.direction) \in Nat
    <2>1. DirectionCost(old.direction, new.direction) \in {0, 6, 10, 16}
      BY Zenon DEF DirectionCost
    <2> QED BY <2>1
  <1>2. ASSUME NEW x \in Nat, NEW y \in Nat PROVE Apart(x, y) \in Nat
    BY DEF Apart
  <1>3. (IF BothKnown(old.freq, new.freq) THEN Apart(old.freq, new.freq) ELSE 10) \in Nat
    BY <1>2, AlertTrackerAssumption DEF BothKnown
  <1>4. (IF BothKnown(old.strength, new.strength)
         THEN 2 * Apart(old.strength, new.strength) ELSE 0) \in Nat
    <2>1. BothKnown(old.strength, new.strength) => Apart(old.strength, new.strength) \in Nat
      BY <1>2, AlertTrackerAssumption DEF BothKnown
    <2> QED BY <2>1
  <1>5. (IF old.band # new.band THEN 10 ELSE 0) \in Nat
    OBVIOUS
  <1> QED BY <1>1, <1>3, <1>4, <1>5 DEF MatchCost

\* The candidates of a snapshot are finitely many pairs of a slot and a track.
LEMMA ScoredOK ==
  ASSUME Numbers, TracksOK, NEW slots \in Snapshots
  PROVE  /\ Scored(slots) \in SUBSET Candidate /\ IsFiniteSet(Scored(slots))
         /\ \A c \in Scored(slots) : c.slot \in DOMAIN slots /\ c.track \in DOMAIN tracks
  <1> DEFINE all == (DOMAIN slots) \X (DOMAIN tracks)
             matching == {p \in all : Matches(tracks[p[2]].alert, slots[p[1]])}
             Pair(p) == [cost |-> MatchCost(tracks[p[2]].alert, slots[p[1]]),
                         slot |-> p[1], track |-> p[2]]
  <1>1. IsFiniteSet(DOMAIN tracks)
    <2>1. IsFiniteSet(1..(nextTrackId - 1))
      BY FS_Interval DEF Numbers
    <2> QED BY <2>1, FS_Subset DEF TracksOK
  <1>2. IsFiniteSet(matching)
    <2>1. IsFiniteSet(all)
      BY <1>1, SlotsOK, FS_Product
    <2>2. matching \in SUBSET all
      OBVIOUS
    <2> QED BY <2>1, <2>2, FS_Subset
  <1>3. Scored(slots) = {Pair(p) : p \in matching}
    BY DEF Scored
  <1>4. IsFiniteSet({Pair(p) : p \in matching})
    <2> DEFINE image == {Pair(p) : p \in matching}
               f == [p \in matching |-> Pair(p)]
    <2> HIDE DEF Pair, matching
    <2>1. f \in Surjection(matching, image)
      BY DEF Surjection
    <2> QED BY <1>2, <2>1, FS_Surjection
  <1>5. ASSUME NEW p \in matching
        PROVE  /\ Pair(p) \in Candidate
               /\ Pair(p).slot \in DOMAIN slots /\ Pair(p).track \in DOMAIN tracks
    <2>1. p[1] \in DOMAIN slots /\ p[2] \in DOMAIN tracks
      OBVIOUS
    <2>2. p[1] \in Nat /\ p[2] \in Nat
      BY <2>1, SlotsOK DEF TracksOK, Numbers
    <2>3. slots[p[1]] \in Alerts /\ tracks[p[2]].alert \in Alerts
      BY <2>1, SlotsOK DEF TracksOK, Track
    <2>4. MatchCost(tracks[p[2]].alert, slots[p[1]]) \in Nat
      BY <2>3, MatchCostIsNat
    <2> QED BY <2>1, <2>2, <2>4 DEF Candidate
  <1> HIDE DEF Pair, matching
  <1> QED BY <1>3, <1>4, <1>5

\* The tracks a snapshot is folded into, and those its unmatched slots start.
Kept(assigned) == {c.track : c \in assigned}
Born == nextTrackId..(nextTrackId' - 1)

\* The tracks a snapshot ends: those it misses once too often.
Gone(assigned, readable) ==
  {t \in DOMAIN tracks \ Kept(assigned) :
     readable /\ tracks[t].misses + 1 > MissTolerance}

\* What a snapshot leaves of the tracks.
TracksStep(assigned, readable) ==
  /\ DOMAIN tracks' = (DOMAIN tracks \cup Born) \ Gone(assigned, readable)
  /\ \A t \in DOMAIN tracks' : tracks'[t] \in Track
  /\ \A t \in Born :
       /\ tracks'[t].first = Now /\ tracks'[t].last = Now
       /\ tracks'[t].samples = 1 /\ tracks'[t].misses = 0
  /\ \A t \in Kept(assigned) :
       /\ tracks'[t].first = tracks[t].first /\ tracks'[t].last = Now
       /\ tracks'[t].samples = tracks[t].samples + 1 /\ tracks'[t].misses = 0
  /\ \A t \in DOMAIN tracks \ (Kept(assigned) \cup Gone(assigned, readable)) :
       /\ tracks'[t].first = tracks[t].first /\ tracks'[t].last = tracks[t].last
       /\ tracks'[t].samples = tracks[t].samples
       /\ tracks'[t].misses = IF readable THEN tracks[t].misses + 1
                                          ELSE tracks[t].misses

Of(kind, happened) == {e.track : e \in {x \in happened : x.kind = kind}}

\* What a snapshot tells.
EventsStep(assigned, readable) ==
  /\ Of("alert_start", events') = Born
  /\ Of("alert_update", events') \in SUBSET Kept(assigned)
  /\ Of("alert_end", events') = Gone(assigned, readable)
  /\ \A e \in events' : e.kind = "alert_end" =>
       /\ e.track \in Gone(assigned, readable)
       /\ e.at = tracks[e.track].last
       /\ e.duration = tracks[e.track].last - tracks[e.track].first
       /\ e.samples = tracks[e.track].samples

LEMMA StartedTrack ==
  ASSUME Now \in Nat, NEW alert \in Alerts, NEW t
  PROVE  /\ StartOf(t, alert) \in Track
         /\ StartOf(t, alert).first = Now /\ StartOf(t, alert).last = Now
         /\ StartOf(t, alert).samples = 1 /\ StartOf(t, alert).misses = 0
  <1>1. StartOf(t, alert) \in Track
    BY DEF StartOf, Track
  <1>2. /\ StartOf(t, alert).first = Now /\ StartOf(t, alert).last = Now
        /\ StartOf(t, alert).samples = 1 /\ StartOf(t, alert).misses = 0
    BY DEF StartOf
  <1> QED BY <1>1, <1>2

LEMMA AbsorbedTrack ==
  ASSUME Now \in Nat, NEW track \in Track, NEW alert \in Alerts, NEW close \in BOOLEAN
  PROVE  /\ Absorb(track, alert, close) \in Track
         /\ Absorb(track, alert, close).first = track.first
         /\ Absorb(track, alert, close).last = Now
         /\ Absorb(track, alert, close).samples = track.samples + 1
         /\ Absorb(track, alert, close).misses = 0
  <1>1. track.ambiguous \in BOOLEAN /\ track.samples + 1 \in Nat
    BY DEF Track
  <1>2. (track.ambiguous \/ close) \in BOOLEAN
    OBVIOUS
  <1>3. Absorb(track, alert, close) \in Track
    BY <1>1, <1>2, Zenon DEF Absorb, Track
  <1>4. /\ Absorb(track, alert, close).first = track.first
        /\ Absorb(track, alert, close).last = Now
        /\ Absorb(track, alert, close).samples = track.samples + 1
        /\ Absorb(track, alert, close).misses = 0
    BY Zenon DEF Absorb, Track
  <1> QED BY <1>3, <1>4

LEMMA MissedTrack ==
  ASSUME NEW track \in Track, NEW readable \in BOOLEAN
  PROVE  /\ Missed(track, readable) \in Track
         /\ Missed(track, readable).first = track.first
         /\ Missed(track, readable).last = track.last
         /\ Missed(track, readable).samples = track.samples
         /\ Missed(track, readable).misses = IF readable THEN track.misses + 1
                                                         ELSE track.misses
  <1>1. track.misses + 1 \in Nat
    BY DEF Track
  <1>2. Missed(track, readable) \in Track
    BY <1>1, Zenon DEF Missed, Track
  <1>3. /\ Missed(track, readable).first = track.first
        /\ Missed(track, readable).last = track.last
        /\ Missed(track, readable).samples = track.samples
        /\ Missed(track, readable).misses = IF readable THEN track.misses + 1
                                                        ELSE track.misses
    BY Zenon DEF Missed, Track
  <1> QED BY <1>2, <1>3

LEMMA ObserveSteps ==
  ASSUME Numbers, SightingsOK, TracksOK, NEW slots \in Snapshots,
         NEW readable \in BOOLEAN, NEW assigned, NEW close,
         \A c \in assigned : c.slot \in DOMAIN slots /\ c.track \in DOMAIN tracks,
         Observe(slots, readable, assigned, close)
  PROVE  /\ nextTrackId' \in Nat /\ nextTrackId <= nextTrackId'
         /\ TracksStep(assigned, readable)
         /\ EventsStep(assigned, readable)
         /\ sightings' = Append(sightings, [claimed |-> Kept(assigned) \cup Born,
                                            readable |-> readable])
  <1> DEFINE unmatched == DOMAIN slots \ {c.slot : c \in assigned}
             NewId(i) == nextTrackId + Cardinality({j \in unmatched : j < i})
             born == {NewId(i) : i \in unmatched}
             claimed == Kept(assigned) \cup born
             SlotOf(t) == CHOOSE i \in DOMAIN slots :
                     \/ \E c \in assigned : c.slot = i /\ c.track = t
                     \/ i \in unmatched /\ NewId(i) = t
             Seen(t) == IF t \in born THEN StartOf(t, slots[SlotOf(t)])
                        ELSE Absorb(tracks[t], slots[SlotOf(t)], SlotOf(t) \in close)
             after == [t \in DOMAIN tracks \cup born |->
                         IF t \in claimed THEN Seen(t) ELSE Missed(tracks[t], readable)]
             gone == {t \in DOMAIN after : Expired(after[t])}
             changed == {t \in Kept(assigned) : tracks[t].alert # slots[SlotOf(t)]}
             starts == {[kind |-> "alert_start", track |-> t, at |-> Now,
                         correlation |-> "new"] : t \in born}
             updates == {[kind |-> "alert_update", track |-> t, at |-> Now,
                          correlation |-> IF SlotOf(t) \in close THEN "ambiguous"
                                          ELSE "matched"] : t \in changed}
             ends == {EndOf(t, after[t], "timeout") : t \in gone}
  <1>0. /\ tracks' = [t \in DOMAIN after \ gone |-> after[t]]
        /\ nextTrackId' = nextTrackId + Cardinality(unmatched)
        /\ events' = starts \cup updates \cup ends
        /\ sightings' = Append(sightings, [claimed |-> claimed, readable |-> readable])
    BY DEF Observe, Kept
  <1>1. nextTrackId' = nextTrackId + Cardinality(unmatched)
    BY <1>0
  <1>2. unmatched \in SUBSET Nat /\ IsFiniteSet(unmatched) /\ Cardinality(unmatched) \in Nat
    <2>1. unmatched \in SUBSET DOMAIN slots
      OBVIOUS
    <2> QED BY <2>1, SlotsOK, FS_Subset, FS_CardinalityType
  <1>3. nextTrackId' \in Nat /\ nextTrackId <= nextTrackId'
    <2>1. nextTrackId \in Nat
      BY DEF Numbers
    <2> HIDE DEF unmatched
    <2> QED BY <2>1, <1>1, <1>2
  <1>4. born = Born
    <2>1. nextTrackId \in Nat
      BY DEF Numbers
    <2> HIDE DEF unmatched
    <2>2. born = nextTrackId..(nextTrackId + Cardinality(unmatched) - 1)
      BY <2>1, <1>2, Ranks
    <2>3. nextTrackId' - 1 = nextTrackId + Cardinality(unmatched) - 1
      BY <2>1, <1>1, <1>2
    <2> HIDE DEF born
    <2> QED BY <2>2, <2>3 DEF Born
  <1>5. DOMAIN tracks \cap Born = {} /\ Kept(assigned) \in SUBSET DOMAIN tracks
    BY DEF TracksOK, Numbers, Born, Kept
  <1>6. ASSUME NEW t \in claimed PROVE slots[SlotOf(t)] \in Alerts
    <2>1. \E i \in DOMAIN slots : \/ \E c \in assigned : c.slot = i /\ c.track = t
                                  \/ i \in unmatched /\ NewId(i) = t
      BY DEF Kept
    <2>2. SlotOf(t) \in DOMAIN slots
      BY <2>1
    <2> QED BY <2>2, SlotsOK
  <1>7. Now \in Nat
    BY DEF Now, SightingsOK
  <1> HIDE DEF unmatched, SlotOf, NewId, born
  <1>8. ASSUME NEW t \in Born
        PROVE  /\ after[t] \in Track
               /\ after[t].first = Now /\ after[t].last = Now
               /\ after[t].samples = 1 /\ after[t].misses = 0
    <2>1. after[t] = StartOf(t, slots[SlotOf(t)]) /\ slots[SlotOf(t)] \in Alerts
      BY <1>4, <1>6
    <2> QED BY <2>1, <1>7, StartedTrack
  <1>9. ASSUME NEW t \in Kept(assigned)
        PROVE  /\ after[t] \in Track
               /\ after[t].first = tracks[t].first /\ after[t].last = Now
               /\ after[t].samples = tracks[t].samples + 1 /\ after[t].misses = 0
    <2>1. t \in DOMAIN tracks /\ t \notin born
      BY <1>4, <1>5
    <2>2. after[t] = Absorb(tracks[t], slots[SlotOf(t)], SlotOf(t) \in close)
          /\ slots[SlotOf(t)] \in Alerts
      BY <2>1, <1>6
    <2>3. tracks[t] \in Track
      BY <2>1 DEF TracksOK
    <2> DEFINE flag == SlotOf(t) \in close
    <2>4. flag \in BOOLEAN
      OBVIOUS
    <2>5. after[t] = Absorb(tracks[t], slots[SlotOf(t)], flag)
      BY <2>2, Zenon
    <2> HIDE DEF after, flag
    <2> QED BY <2>2, <2>3, <2>4, <2>5, <1>7, AbsorbedTrack
  <1>10. ASSUME NEW t \in DOMAIN tracks \ Kept(assigned)
         PROVE  /\ after[t] \in Track
                /\ after[t].first = tracks[t].first /\ after[t].last = tracks[t].last
                /\ after[t].samples = tracks[t].samples
                /\ after[t].misses = IF readable THEN tracks[t].misses + 1
                                                 ELSE tracks[t].misses
    <2>1. after[t] = Missed(tracks[t], readable)
      BY <1>4, <1>5
    <2>2. tracks[t] \in Track
      BY DEF TracksOK
    <2> HIDE DEF after
    <2> QED BY <2>1, <2>2, MissedTrack
  <1>11. DOMAIN after = DOMAIN tracks \cup Born
    BY <1>4
  <1> HIDE DEF after
  <1>12. gone = Gone(assigned, readable)
    <2>1. ASSUME NEW t \in Born \cup Kept(assigned) PROVE ~Expired(after[t])
      BY <1>8, <1>9, AlertTrackerAssumption DEF Expired
    <2>2. ASSUME NEW t \in DOMAIN tracks \ Kept(assigned)
          PROVE  Expired(after[t]) <=> readable /\ tracks[t].misses + 1 > MissTolerance
      <3>1. tracks[t].misses \in Nat /\ tracks[t].misses <= MissTolerance
        BY DEF TracksOK, Track
      <3>2. after[t].misses = IF readable THEN tracks[t].misses + 1 ELSE tracks[t].misses
        BY <1>10
      <3> QED BY <3>1, <3>2, AlertTrackerAssumption DEF Expired
    <2> QED BY <2>1, <2>2, <1>5, <1>11 DEF Gone
  <1> HIDE DEF gone
  <1>13. TracksStep(assigned, readable)
    <2>0. tracks' = [t \in DOMAIN after \ gone |-> after[t]]
      BY <1>0
    <2>1. DOMAIN tracks' = (DOMAIN tracks \cup Born) \ Gone(assigned, readable)
      BY <2>0, <1>11, <1>12
    <2>2. \A t \in DOMAIN tracks' : tracks'[t] = after[t]
      BY <2>0
    <2>3. /\ Born \in SUBSET DOMAIN tracks' /\ Kept(assigned) \in SUBSET DOMAIN tracks'
          /\ DOMAIN tracks \ (Kept(assigned) \cup Gone(assigned, readable)) \in SUBSET DOMAIN tracks'
          /\ DOMAIN tracks' \in SUBSET (DOMAIN tracks \cup Born)
      BY <2>1, <1>5 DEF Gone
    <2>4. \A t \in DOMAIN tracks' : tracks'[t] \in Track
      BY <2>2, <2>3, <1>8, <1>9, <1>10
    <2> QED BY <2>1, <2>2, <2>3, <2>4, <1>8, <1>9, <1>10 DEF TracksStep
  <1>14. EventsStep(assigned, readable)
    <2>1. \A e \in starts : e.kind = "alert_start"
      OBVIOUS
    <2>2. \A e \in updates : e.kind = "alert_update" /\ e.track \in Kept(assigned)
      OBVIOUS
    <2>3. \A e \in ends : e.kind = "alert_end" /\ e.track \in Gone(assigned, readable)
      BY <1>12 DEF EndOf
    <2>4. {e.track : e \in starts} = Born
      <3>1. \A e \in starts : e.track \in Born
        BY <1>4
      <3>2. ASSUME NEW t \in Born PROVE \E e \in starts : e.track = t
        <4> DEFINE e == [kind |-> "alert_start", track |-> t, at |-> Now,
                         correlation |-> "new"]
        <4>1. e \in starts
          BY <1>4
        <4>2. e.track = t
          OBVIOUS
        <4> HIDE DEF e, starts
        <4> QED BY <4>1, <4>2
      <3> HIDE DEF starts
      <3> QED BY <3>1, <3>2
    <2>5. {e.track : e \in ends} = Gone(assigned, readable)
      <3>1. ASSUME NEW t \in Gone(assigned, readable) PROVE \E e \in ends : e.track = t
        <4>1. EndOf(t, after[t], "timeout") \in ends
          BY <1>12
        <4>2. EndOf(t, after[t], "timeout").track = t
          BY DEF EndOf
        <4> HIDE DEF ends
        <4> QED BY <4>1, <4>2
      <3> HIDE DEF ends
      <3> QED BY <2>3, <3>1
    <2>6. ASSUME NEW e \in ends
          PROVE  /\ e.at = tracks[e.track].last
                 /\ e.duration = tracks[e.track].last - tracks[e.track].first
                 /\ e.samples = tracks[e.track].samples
      <3>1. PICK t \in gone : e = EndOf(t, after[t], "timeout")
        OBVIOUS
      <3>2. /\ e.track = t /\ e.at = after[t].last
            /\ e.duration = after[t].last - after[t].first
            /\ e.samples = after[t].samples
        BY <3>1 DEF EndOf
      <3>3. t \in DOMAIN tracks \ Kept(assigned)
        BY <1>12 DEF Gone
      <3> QED BY <3>2, <3>3, <1>10
    <2> HIDE DEF starts, updates, ends
    <2>7. Of("alert_start", events') = {e.track : e \in starts}
      BY <1>0, <2>1, <2>2, <2>3 DEF Of
    <2>8. Of("alert_update", events') \in SUBSET Kept(assigned)
      BY <1>0, <2>1, <2>2, <2>3 DEF Of
    <2>9. Of("alert_end", events') = {e.track : e \in ends}
      BY <1>0, <2>1, <2>2, <2>3 DEF Of
    <2>10. \A e \in events' : e.kind = "alert_end" => e \in ends
      BY <1>0, <2>1, <2>2
    <2> QED BY <2>3, <2>4, <2>5, <2>6, <2>7, <2>8, <2>9, <2>10 DEF EventsStep
  <1> QED BY <1>0, <1>3, <1>4, <1>13, <1>14

LEMMA IdsGrow ==
  ASSUME NEW m \in Nat, NEW n \in Nat, m <= n
  PROVE  /\ 1..(m - 1) \in SUBSET (1..(n - 1))
         /\ (m..(n - 1)) \cap (1..(m - 1)) = {}
         /\ m # 0 => /\ m..(n - 1) \in SUBSET (1..(n - 1))
                     /\ 1..(n - 1) = (1..(m - 1)) \cup (m..(n - 1))
  OBVIOUS

\* What a snapshot adds to the sightings of each track.
LEMMA SightingsStep ==
  ASSUME Numbers, SightingsOK, nextTrackId' \in Nat, nextTrackId <= nextTrackId',
         NEW claimed \in SUBSET (1..(nextTrackId' - 1)), NEW readable \in BOOLEAN,
         sightings' = Append(sightings, [claimed |-> claimed, readable |-> readable])
  PROVE  /\ Now \in Nat /\ SightingsOK'
         /\ \A t : /\ t \in claimed => SeenIn(t)' = SeenIn(t) \cup {Now}
                   /\ t \notin claimed => SeenIn(t)' = SeenIn(t)
                   /\ t \in claimed => Absences(t)' = {}
                   /\ t \notin claimed /\ readable =>
                        Absences(t)' = Absences(t) \cup {Now}
                   /\ t \notin claimed /\ ~readable => Absences(t)' = Absences(t)
  <1> DEFINE new == [claimed |-> claimed, readable |-> readable]
  <1>1. Len(sightings) \in Nat /\ Now = Len(sightings) + 1 /\ Now \in Nat
        /\ DOMAIN sightings = 1..Len(sightings)
    BY DEF SightingsOK, Now
  <1>2. new.claimed = claimed /\ new.readable = readable
    OBVIOUS
  <1>3. sightings \in Seq(Sighting')
    <2>1. ASSUME NEW n \in 1..Len(sightings) PROVE sightings[n] \in Sighting'
      <3>1. sightings[n] \in Sighting
        BY <1>1, ElementOfSeq DEF SightingsOK
      <3>2. 1..(nextTrackId - 1) \in SUBSET (1..(nextTrackId' - 1))
        BY IdsGrow DEF Numbers
      <3> QED BY <3>1, <3>2 DEF Sighting
    <2>2. sightings = [n \in 1..Len(sightings) |-> sightings[n]]
      BY <1>1 DEF SightingsOK
    <2> QED BY <1>1, <2>1, <2>2, IsASeq
  <1>4. new \in Sighting'
    BY DEF Sighting
  <1> HIDE DEF new
  <1>5. /\ sightings' \in Seq(Sighting')
        /\ Len(sightings') = Len(sightings) + 1
        /\ \A n \in 1..Len(sightings) : sightings'[n] = sightings[n]
        /\ sightings'[Len(sightings) + 1] = new
    <2>1. sightings' = Append(sightings, new)
      BY DEF new
    <2> QED BY <1>3, <1>4, <2>1, AppendProperties
  <1>6. /\ DOMAIN sightings' = DOMAIN sightings \cup {Now} /\ Now \notin DOMAIN sightings
        /\ \A n \in DOMAIN sightings : sightings'[n] = sightings[n]
        /\ sightings'[Now] = new
    <2>1. DOMAIN sightings' = 1..(Len(sightings) + 1)
      BY <1>5
    <2> QED BY <1>1, <1>5, <2>1
  <1>7. ASSUME NEW n \in DOMAIN sightings
        PROVE  n..Len(sightings') = (n..Len(sightings)) \cup {Now}
               /\ n..Len(sightings) \in SUBSET DOMAIN sightings
    BY <1>1, <1>5
  <1>8. Now..Len(sightings') = {Now}
    BY <1>1, <1>5
  <1>9. ASSUME NEW t
        PROVE  /\ t \in claimed => SeenIn(t)' = SeenIn(t) \cup {Now}
               /\ t \notin claimed => SeenIn(t)' = SeenIn(t)
    BY <1>2, <1>6 DEF SeenIn
  <1>10. ASSUME NEW t, NEW n \in DOMAIN sightings
         PROVE  n \in Absences(t)' <=> n \in Absences(t) /\ t \notin claimed
    <2>1. n \in Absences(t)' <=> /\ sightings'[n].readable
                                 /\ \A m \in n..Len(sightings') : t \notin sightings'[m].claimed
      BY <1>6 DEF Absences
    <2>2. n \in Absences(t) <=> /\ sightings[n].readable
                                /\ \A m \in n..Len(sightings) : t \notin sightings[m].claimed
      BY DEF Absences
    <2>3. (\A m \in n..Len(sightings') : t \notin sightings'[m].claimed)
          <=> (\A m \in n..Len(sightings) : t \notin sightings[m].claimed) /\ t \notin claimed
      BY <1>2, <1>6, <1>7
    <2> QED BY <1>6, <2>1, <2>2, <2>3
  <1>11. ASSUME NEW t PROVE Now \in Absences(t)' <=> readable /\ t \notin claimed
    BY <1>2, <1>6, <1>8 DEF Absences
  <1>12. ASSUME NEW t
         PROVE  /\ Absences(t)' \in SUBSET (DOMAIN sightings \cup {Now})
                /\ Absences(t) \in SUBSET DOMAIN sightings
    BY <1>6 DEF Absences
  <1>13. ASSUME NEW t
         PROVE  /\ t \in claimed => Absences(t)' = {}
                /\ t \notin claimed /\ readable => Absences(t)' = Absences(t) \cup {Now}
                /\ t \notin claimed /\ ~readable => Absences(t)' = Absences(t)
    <2>1. \A n \in DOMAIN sightings :
            n \in Absences(t)' <=> n \in Absences(t) /\ t \notin claimed
      BY <1>10
    <2>2. Now \in Absences(t)' <=> readable /\ t \notin claimed
      BY <1>11
    <2>3. /\ Absences(t)' \in SUBSET (DOMAIN sightings \cup {Now})
          /\ Absences(t) \in SUBSET DOMAIN sightings
          /\ Now \notin DOMAIN sightings
      BY <1>6, <1>12
    <2>4. \A n : n \in Absences(t)' <=>
                 (n \in Absences(t) \/ (n = Now /\ readable)) /\ t \notin claimed
      BY <2>1, <2>2, <2>3
    <2> QED BY <2>4
  <1> QED BY <1>1, <1>5, <1>9, <1>13 DEF SightingsOK

\* The sightings and absences of a track can be counted.
LEMMA Countable ==
  ASSUME SightingsOK, NEW t
  PROVE  /\ IsFiniteSet(SeenIn(t)) /\ IsFiniteSet(Absences(t))
         /\ SeenIn(t) \in SUBSET (1..Len(sightings))
         /\ Len(sightings) \in Nat
         /\ Now \notin SeenIn(t) /\ Now \notin Absences(t)
         /\ Cardinality(SeenIn(t)) \in Nat /\ Cardinality(Absences(t)) \in Nat
         /\ Cardinality(SeenIn(t)) <= Len(sightings)
  <1>1. Len(sightings) \in Nat /\ DOMAIN sightings = 1..Len(sightings)
    BY DEF SightingsOK
  <1>2. IsFiniteSet(1..Len(sightings)) /\ Cardinality(1..Len(sightings)) = Len(sightings)
    <2>1. 1 \in Int /\ Len(sightings) \in Int
      BY <1>1
    <2>2. /\ IsFiniteSet(1..Len(sightings))
          /\ Cardinality(1..Len(sightings))
               = IF 1 > Len(sightings) THEN 0 ELSE Len(sightings) - 1 + 1
      BY <2>1, FS_Interval
    <2> QED BY <1>1, <2>2
  <1>3. /\ SeenIn(t) \in SUBSET (1..Len(sightings))
        /\ Absences(t) \in SUBSET (1..Len(sightings))
    BY <1>1 DEF SeenIn, Absences
  <1>4. Now \notin 1..Len(sightings)
    BY <1>1 DEF Now
  <1>5. /\ IsFiniteSet(SeenIn(t)) /\ IsFiniteSet(Absences(t))
        /\ Cardinality(SeenIn(t)) <= Len(sightings)
    BY <1>2, <1>3, FS_Subset
  <1> QED BY <1>1, <1>3, <1>4, <1>5, FS_CardinalityType

\* A track that was never given out was never seen.
LEMMA UngivenUnseen ==
  ASSUME SightingsOK, NEW t, t \notin 1..(nextTrackId - 1)
  PROVE  SeenIn(t) = {}
  <1>1. ASSUME NEW n \in DOMAIN sightings PROVE t \notin sightings[n].claimed
    <2>1. sightings[n] \in Sighting
      BY ElementOfSeq DEF SightingsOK
    <2> QED BY <2>1 DEF Sighting
  <1> QED BY <1>1 DEF SeenIn

Effects(assigned, readable) ==
  /\ nextTrackId' \in Nat /\ nextTrackId <= nextTrackId'
  /\ TracksStep(assigned, readable)
  /\ EventsStep(assigned, readable)
  /\ sightings' = Append(sightings, [claimed |-> Kept(assigned) \cup Born,
                                     readable |-> readable])

LEMMA SnapshotSteps ==
  ASSUME Numbers, SightingsOK, TracksOK, NEW slots \in Snapshots,
         NEW readable \in BOOLEAN, Snapshot(slots, readable)
  PROVE  \E assigned : /\ Kept(assigned) \in SUBSET DOMAIN tracks
                       /\ Effects(assigned, readable)
  <1> DEFINE pairs == Scored(slots)
             taken == Assign(pairs)
  <1>1. Observe(slots, readable, taken, Ambiguous(pairs, taken))
    BY DEF Snapshot
  <1>2. /\ pairs \in SUBSET Candidate /\ IsFiniteSet(pairs)
        /\ \A c \in pairs : c.slot \in DOMAIN slots /\ c.track \in DOMAIN tracks
    BY ScoredOK
  <1> HIDE DEF pairs
  <1>3. taken \in SUBSET pairs
    BY <1>2, AssignIsStable
  <1> HIDE DEF taken
  <1>4. \A c \in taken : c.slot \in DOMAIN slots /\ c.track \in DOMAIN tracks
    BY <1>2, <1>3
  <1>5. Kept(taken) \in SUBSET DOMAIN tracks
    BY <1>4 DEF Kept
  <1>6. Effects(taken, readable)
    BY <1>1, <1>4, ObserveSteps DEF Effects
  <1> QED BY <1>5, <1>6

\* The tracks after a snapshot remember what the snapshots showed.
LEMMA SnapshotRemembers ==
  ASSUME Numbers, SightingsOK, TracksOK, Remembers,
         NEW readable \in BOOLEAN, NEW assigned,
         Kept(assigned) \in SUBSET DOMAIN tracks, Effects(assigned, readable)
  PROVE  /\ SightingsOK' /\ TracksOK' /\ Remembers'
         /\ \A t \in Gone(assigned, readable) :
              /\ tracks[t].first \in SeenIn(t)' /\ tracks[t].last \in SeenIn(t)'
              /\ \A n \in SeenIn(t)' : tracks[t].first <= n /\ n <= tracks[t].last
              /\ tracks[t].samples = Cardinality(SeenIn(t)')
              /\ Cardinality(Absences(t)') > MissTolerance
         /\ \A t \in (1..(nextTrackId - 1)) \ DOMAIN tracks :
              /\ t \notin DOMAIN tracks'
              /\ Cardinality(Absences(t)) <= Cardinality(Absences(t)')
              /\ Cardinality(Absences(t)) \in Nat /\ Cardinality(Absences(t)') \in Nat
  <1> DEFINE claimed == Kept(assigned) \cup Born
  <1>1. /\ nextTrackId \in Nat /\ nextTrackId # 0 /\ nextTrackId' \in Nat
        /\ nextTrackId <= nextTrackId'
    BY DEF Effects, Numbers
  <1>2. /\ DOMAIN tracks \in SUBSET (1..(nextTrackId - 1))
        /\ \A t \in DOMAIN tracks : /\ tracks[t] \in Track
                                    /\ tracks[t].misses <= MissTolerance
    BY DEF TracksOK
  <1>3. TracksStep(assigned, readable)
    BY DEF Effects
  <1>4. /\ Born \in SUBSET (1..(nextTrackId' - 1))
        /\ Born \cap (1..(nextTrackId - 1)) = {}
        /\ 1..(nextTrackId - 1) \in SUBSET (1..(nextTrackId' - 1))
    BY <1>1, IdsGrow DEF Born
  <1>5. claimed \in SUBSET (1..(nextTrackId' - 1))
    BY <1>2, <1>4
  <1>6. sightings' = Append(sightings, [claimed |-> claimed, readable |-> readable])
    BY DEF Effects
  <1> HIDE DEF claimed
  <1>7. /\ Now \in Nat /\ SightingsOK'
        /\ \A t : /\ t \in claimed => SeenIn(t)' = SeenIn(t) \cup {Now}
                  /\ t \notin claimed => SeenIn(t)' = SeenIn(t)
                  /\ t \in claimed => Absences(t)' = {}
                  /\ t \notin claimed /\ readable =>
                       Absences(t)' = Absences(t) \cup {Now}
                  /\ t \notin claimed /\ ~readable => Absences(t)' = Absences(t)
    BY <1>1, <1>5, <1>6, SightingsStep
  <1>8. \A t : /\ IsFiniteSet(SeenIn(t)) /\ IsFiniteSet(Absences(t))
               /\ SeenIn(t) \in SUBSET (1..Len(sightings)) /\ Len(sightings) \in Nat
               /\ Now \notin SeenIn(t) /\ Now \notin Absences(t)
               /\ Cardinality(SeenIn(t)) \in Nat /\ Cardinality(Absences(t)) \in Nat
    BY Countable
  <1>9. \A t : /\ Cardinality(SeenIn(t) \cup {Now}) = Cardinality(SeenIn(t)) + 1
               /\ Cardinality(Absences(t) \cup {Now}) = Cardinality(Absences(t)) + 1
    BY <1>8, FS_AddElement
  <1>10. MissTolerance \in Nat
    BY AlertTrackerAssumption
  <1>11. ASSUME NEW t \in DOMAIN tracks
         PROVE  /\ tracks[t].first \in SeenIn(t) /\ tracks[t].last \in SeenIn(t)
                /\ \A n \in SeenIn(t) : tracks[t].first <= n /\ n <= tracks[t].last
                /\ tracks[t].samples = Cardinality(SeenIn(t))
                /\ tracks[t].misses = Cardinality(Absences(t))
    BY DEF Remembers
  \* A track the snapshot starts.
  <1>12. ASSUME NEW t \in Born
         PROVE  /\ tracks'[t].first \in SeenIn(t)' /\ tracks'[t].last \in SeenIn(t)'
                /\ \A n \in SeenIn(t)' : tracks'[t].first <= n /\ n <= tracks'[t].last
                /\ tracks'[t].samples = Cardinality(SeenIn(t)')
                /\ tracks'[t].misses = Cardinality(Absences(t)')
                /\ tracks'[t].misses = 0
    <2>1. t \in claimed /\ SeenIn(t) = {}
      BY <1>4, UngivenUnseen DEF claimed
    <2>2. SeenIn(t)' = {Now} /\ Absences(t)' = {}
      BY <2>1, <1>7
    <2>3. Cardinality(SeenIn(t)') = 1 /\ Cardinality(Absences(t)') = 0
      BY <2>2, FS_Singleton, FS_EmptySet
    <2>4. /\ tracks'[t].first = Now /\ tracks'[t].last = Now
          /\ tracks'[t].samples = 1 /\ tracks'[t].misses = 0
      BY <1>3 DEF TracksStep
    <2> QED BY <2>2, <2>3, <2>4, <1>7
  \* A track it was folded into.
  <1>13. ASSUME NEW t \in Kept(assigned)
         PROVE  /\ tracks'[t].first \in SeenIn(t)' /\ tracks'[t].last \in SeenIn(t)'
                /\ \A n \in SeenIn(t)' : tracks'[t].first <= n /\ n <= tracks'[t].last
                /\ tracks'[t].samples = Cardinality(SeenIn(t)')
                /\ tracks'[t].misses = Cardinality(Absences(t)')
                /\ tracks'[t].misses = 0
    <2>1. t \in claimed /\ t \in DOMAIN tracks
      BY DEF claimed
    <2>2. SeenIn(t)' = SeenIn(t) \cup {Now} /\ Absences(t)' = {}
      BY <2>1, <1>7
    <2>3. Cardinality(SeenIn(t)') = Cardinality(SeenIn(t)) + 1 /\ Cardinality(Absences(t)') = 0
      BY <2>2, <1>9, FS_EmptySet
    <2>4. /\ tracks'[t].first = tracks[t].first /\ tracks'[t].last = Now
          /\ tracks'[t].samples = tracks[t].samples + 1 /\ tracks'[t].misses = 0
      BY <1>3 DEF TracksStep
    <2>5. tracks[t].first \in SeenIn(t) /\ tracks[t].samples = Cardinality(SeenIn(t))
          /\ \A n \in SeenIn(t) : tracks[t].first <= n
      BY <2>1, <1>11
    <2>6. \A n \in SeenIn(t) : n <= Now
      BY <1>8 DEF Now
    <2>7. tracks[t].first <= Now /\ Now <= Now
      BY <2>5, <2>6, <1>7
    <2>8. \A n \in SeenIn(t)' : tracks'[t].first <= n /\ n <= tracks'[t].last
      BY <2>2, <2>4, <2>5, <2>6, <2>7
    <2> QED BY <2>2, <2>3, <2>4, <2>5, <2>8
  \* A track it does not show.
  <1>14. ASSUME NEW t \in DOMAIN tracks \ Kept(assigned)
         PROVE  /\ tracks[t].first \in SeenIn(t)' /\ tracks[t].last \in SeenIn(t)'
                /\ \A n \in SeenIn(t)' : tracks[t].first <= n /\ n <= tracks[t].last
                /\ tracks[t].samples = Cardinality(SeenIn(t)')
                /\ Cardinality(Absences(t)')
                     = IF readable THEN tracks[t].misses + 1 ELSE tracks[t].misses
    <2>1. t \notin claimed
      BY <1>2, <1>4 DEF claimed
    <2>2. SeenIn(t)' = SeenIn(t)
      BY <2>1, <1>7
    <2>3. Cardinality(Absences(t)')
            = IF readable THEN Cardinality(Absences(t)) + 1 ELSE Cardinality(Absences(t))
      BY <2>1, <1>7, <1>9
    <2> QED BY <2>2, <2>3, <1>11
  <1>15. DOMAIN tracks' = (DOMAIN tracks \cup Born) \ Gone(assigned, readable)
    BY <1>3 DEF TracksStep
  <1>16. ASSUME NEW t \in DOMAIN tracks \ (Kept(assigned) \cup Gone(assigned, readable))
         PROVE  /\ tracks'[t].first \in SeenIn(t)' /\ tracks'[t].last \in SeenIn(t)'
                /\ \A n \in SeenIn(t)' : tracks'[t].first <= n /\ n <= tracks'[t].last
                /\ tracks'[t].samples = Cardinality(SeenIn(t)')
                /\ tracks'[t].misses = Cardinality(Absences(t)')
                /\ tracks'[t].misses <= MissTolerance
    <2>1. /\ tracks'[t].first = tracks[t].first /\ tracks'[t].last = tracks[t].last
          /\ tracks'[t].samples = tracks[t].samples
          /\ tracks'[t].misses = IF readable THEN tracks[t].misses + 1
                                             ELSE tracks[t].misses
      BY <1>3 DEF TracksStep
    <2>2. tracks[t].misses \in Nat /\ tracks[t].misses <= MissTolerance
      BY <1>2 DEF Track
    <2>3. readable => ~(tracks[t].misses + 1 > MissTolerance)
      BY DEF Gone
    <2>4. tracks'[t].misses <= MissTolerance
      BY <2>1, <2>2, <2>3, <1>10
    <2> QED BY <2>1, <2>4, <1>14
  <1>17. ASSUME NEW t \in DOMAIN tracks'
         PROVE  \/ t \in Born \/ t \in Kept(assigned)
                \/ t \in DOMAIN tracks \ (Kept(assigned) \cup Gone(assigned, readable))
    BY <1>15
  <1>18. TracksOK'
    <2>1. DOMAIN tracks' \in SUBSET (1..(nextTrackId' - 1))
      BY <1>2, <1>4, <1>15
    <2>2. \A t \in DOMAIN tracks' : tracks'[t] \in Track
      BY <1>3 DEF TracksStep
    <2>3. \A t \in DOMAIN tracks' : tracks'[t].misses <= MissTolerance
      BY <1>10, <1>12, <1>13, <1>16, <1>17
    <2> QED BY <2>1, <2>2, <2>3 DEF TracksOK, Track
  <1>19. Remembers'
    <2>1. ASSUME NEW t \in DOMAIN tracks'
          PROVE  /\ tracks'[t].first \in SeenIn(t)' /\ tracks'[t].last \in SeenIn(t)'
                 /\ \A n \in SeenIn(t)' : tracks'[t].first <= n /\ n <= tracks'[t].last
                 /\ tracks'[t].samples = Cardinality(SeenIn(t)')
                 /\ tracks'[t].misses = Cardinality(Absences(t)')
      BY <1>12, <1>13, <1>16, <1>17
    <2> QED BY <2>1 DEF Remembers
  <1>20. ASSUME NEW t \in Gone(assigned, readable)
         PROVE  /\ tracks[t].first \in SeenIn(t)' /\ tracks[t].last \in SeenIn(t)'
                /\ \A n \in SeenIn(t)' : tracks[t].first <= n /\ n <= tracks[t].last
                /\ tracks[t].samples = Cardinality(SeenIn(t)')
                /\ Cardinality(Absences(t)') > MissTolerance
    <2>1. t \in DOMAIN tracks \ Kept(assigned) /\ readable
          /\ tracks[t].misses + 1 > MissTolerance
      BY DEF Gone
    <2> QED BY <2>1, <1>14
  <1>21. ASSUME NEW t \in (1..(nextTrackId - 1)) \ DOMAIN tracks
         PROVE  /\ t \notin DOMAIN tracks'
                /\ Cardinality(Absences(t)) <= Cardinality(Absences(t)')
                /\ Cardinality(Absences(t)) \in Nat /\ Cardinality(Absences(t)') \in Nat
    <2>1. t \notin Born /\ t \notin Kept(assigned) /\ t \notin claimed
      BY <1>4 DEF claimed
    <2>2. \/ Absences(t)' = Absences(t) \/ Absences(t)' = Absences(t) \cup {Now}
      BY <2>1, <1>7
    <2>3. /\ Cardinality(Absences(t)) <= Cardinality(Absences(t)')
          /\ Cardinality(Absences(t)) \in Nat /\ Cardinality(Absences(t)') \in Nat
      BY <2>2, <1>8, <1>9
    <2> QED BY <2>1, <2>3, <1>15
  <1> QED BY <1>7, <1>18, <1>19, <1>20, <1>21

\* What the history of events says after a step that recorded it.
LEMMA RecordedSteps ==
  ASSUME Recorded, NEW started, NEW done,
         Of("alert_start", events') = started, Of("alert_end", events') = done
  PROVE  /\ announced' = announced \cup {<<link, t>> : t \in started}
         /\ ended' = ended \cup {<<link, t>> : t \in done}
  <1> DEFINE Told(kind) == {<<link, e.track>> : e \in {x \in events' : x.kind = kind}}
  <1>1. announced' = announced \cup Told("alert_start") /\ ended' = ended \cup Told("alert_end")
    BY DEF Recorded
  <1>2. ASSUME NEW kind PROVE Told(kind) = {<<link, t>> : t \in Of(kind, events')}
    BY DEF Of
  <1> HIDE DEF Told
  <1> QED BY <1>1, <1>2

\* The ledger after a step that started some ids not given out before, and
\* ended some tracks.
LEMMA LedgerStep ==
  ASSUME Numbers, TracksOK, LedgerOK, nextTrackId' \in Nat, nextTrackId <= nextTrackId',
         link' = link, NEW started, NEW done,
         started \in SUBSET (nextTrackId..(nextTrackId' - 1)),
         done \in SUBSET DOMAIN tracks,
         DOMAIN tracks' = (DOMAIN tracks \cup started) \ done,
         announced' = announced \cup {<<link, t>> : t \in started},
         ended' = ended \cup {<<link, t>> : t \in done}
  PROVE  LedgerOK'
  <1>1. nextTrackId \in Nat /\ nextTrackId # 0 /\ link \in Nat /\ link # 0
    BY AlertTrackerAssumption DEF Numbers
  <1>2. /\ announced \ ended = {<<link, t>> : t \in DOMAIN tracks}
        /\ ended \in SUBSET announced
        /\ announced \in SUBSET ((1..link) \X (Nat \ {0}))
        /\ \A t \in Nat : <<link, t>> \in announced => t < nextTrackId
    BY DEF LedgerOK
  <1>3. \A t \in started : /\ t \in Nat \ {0} /\ ~(t < nextTrackId) /\ t < nextTrackId'
    BY <1>1
  <1>4. \A t \in started : <<link, t>> \notin announced /\ t \notin done
    <2>1. \A t \in done : t \in Nat /\ t < nextTrackId
      BY <1>1 DEF TracksOK
    <2> QED BY <1>2, <1>3, <2>1
  <1>5. announced' \ ended' = {<<link, t>> : t \in DOMAIN tracks'}
    <2>1. ASSUME NEW p \in announced' \ ended' PROVE p \in {<<link, t>> : t \in DOMAIN tracks'}
      <3>1. p \in announced \ ended \/ \E t \in started : p = <<link, t>>
        OBVIOUS
      <3> QED BY <1>2, <1>4, <3>1
    <2>2. ASSUME NEW t \in DOMAIN tracks' PROVE <<link, t>> \in announced' \ ended'
      <3>1. <<link, t>> \notin {<<link, u>> : u \in done}
        OBVIOUS
      <3>2. CASE t \in DOMAIN tracks
        BY <1>2, <3>1, <3>2
      <3>3. CASE t \in started
        BY <1>2, <1>4, <3>1, <3>3
      <3> QED BY <3>2, <3>3
    <2> QED BY <2>1, <2>2
  <1>6. ended' \in SUBSET announced'
    BY <1>2
  <1>7. announced' \in SUBSET ((1..link) \X (Nat \ {0}))
    BY <1>1, <1>2, <1>3
  <1>8. ASSUME NEW t \in Nat, <<link, t>> \in announced' PROVE t < nextTrackId'
    <2>1. CASE <<link, t>> \in announced
      BY <1>1, <1>2, <2>1
    <2>2. CASE t \in started
      BY <1>3, <2>2
    <2> QED BY <1>8, <2>1, <2>2
  <1> QED BY <1>5, <1>6, <1>7, <1>8 DEF LedgerOK

LEMMA SnapshotKeeps ==
  ASSUME IInv, NEW slots \in Snapshots, NEW readable \in BOOLEAN,
         Snapshot(slots, readable)
  PROVE  IInv'
  <1>1. Numbers /\ SightingsOK /\ TracksOK /\ Remembers /\ ClosedWereAbsent /\ LedgerOK
    BY DEF IInv
  <1>2. PICK assigned : /\ Kept(assigned) \in SUBSET DOMAIN tracks
                        /\ Effects(assigned, readable)
    BY <1>1, SnapshotSteps
  <1>3. up /\ up' = up /\ link' = link /\ Recorded
    BY DEF Snapshot
  <1>4. /\ nextTrackId' \in Nat /\ nextTrackId <= nextTrackId'
        /\ TracksStep(assigned, readable) /\ EventsStep(assigned, readable)
    BY <1>2 DEF Effects
  <1>5. nextTrackId \in Nat /\ nextTrackId # 0
    BY <1>1 DEF Numbers
  <1>6. Numbers'
    BY <1>1, <1>3, <1>4, <1>5 DEF Numbers
  <1>7. /\ SightingsOK' /\ TracksOK' /\ Remembers'
        /\ \A t \in Gone(assigned, readable) :
              /\ tracks[t].first \in SeenIn(t)' /\ tracks[t].last \in SeenIn(t)'
              /\ \A n \in SeenIn(t)' : tracks[t].first <= n /\ n <= tracks[t].last
              /\ tracks[t].samples = Cardinality(SeenIn(t)')
              /\ Cardinality(Absences(t)') > MissTolerance
        /\ \A t \in (1..(nextTrackId - 1)) \ DOMAIN tracks :
              /\ t \notin DOMAIN tracks'
              /\ Cardinality(Absences(t)) <= Cardinality(Absences(t)')
              /\ Cardinality(Absences(t)) \in Nat /\ Cardinality(Absences(t)') \in Nat
    BY <1>1, <1>2, SnapshotRemembers
  <1>8. DOMAIN tracks' = (DOMAIN tracks \cup Born) \ Gone(assigned, readable)
    BY <1>4 DEF TracksStep
  <1>9. ClosedWereAbsent'
    <2>1. ASSUME NEW t \in 1..(nextTrackId' - 1), t \notin DOMAIN tracks'
          PROVE  Cardinality(Absences(t)') > MissTolerance
      <3>1. t \in 1..(nextTrackId - 1) \/ t \in Born
        <4>1. 1..(nextTrackId' - 1)
                = (1..(nextTrackId - 1)) \cup (nextTrackId..(nextTrackId' - 1))
          BY <1>4, <1>5, IdsGrow
        <4> QED BY <4>1 DEF Born
      <3>2. CASE t \in Gone(assigned, readable)
        BY <1>7, <3>2
      <3>3. CASE t \notin DOMAIN tracks /\ t \in 1..(nextTrackId - 1)
        <4>1. Cardinality(Absences(t)) > MissTolerance
          BY <1>1, <1>3, <3>3 DEF ClosedWereAbsent
        <4>2. Cardinality(Absences(t)) <= Cardinality(Absences(t)')
          BY <1>7, <3>3
        <4>3. /\ Cardinality(Absences(t)) \in Nat /\ MissTolerance \in Nat
              /\ Cardinality(Absences(t)') \in Nat
          BY <1>7, <3>3, AlertTrackerAssumption
        <4> QED BY <4>1, <4>2, <4>3
      <3> QED BY <2>1, <3>1, <3>2, <3>3, <1>8
    <2> QED BY <2>1 DEF ClosedWereAbsent
  <1>10. NoneWhenDown'
    BY <1>3 DEF NoneWhenDown
  <1>11. LedgerOK'
    <2>1. /\ announced' = announced \cup {<<link, t>> : t \in Born}
          /\ ended' = ended \cup {<<link, t>> : t \in Gone(assigned, readable)}
      BY <1>3, <1>4, RecordedSteps DEF EventsStep
    <2>2. Born = nextTrackId..(nextTrackId' - 1)
      BY DEF Born
    <2>3. Gone(assigned, readable) \in SUBSET DOMAIN tracks
      BY DEF Gone
    <2> QED BY <1>1, <1>3, <1>4, <1>8, <2>1, <2>2, <2>3, LedgerStep
  <1>12. EndsDatedWhenSeen'
    <2>1. ASSUME NEW e \in events', e.kind = "alert_end"
          PROVE  LET seen == SeenIn(e.track)'
                 IN  /\ e.at \in seen /\ \A n \in seen : n <= e.at
                     /\ (e.at - e.duration) \in seen
                     /\ \A n \in seen : n >= e.at - e.duration
                     /\ e.samples = Cardinality(seen)
      <3>1. /\ e.track \in Gone(assigned, readable)
            /\ e.at = tracks[e.track].last
            /\ e.duration = tracks[e.track].last - tracks[e.track].first
            /\ e.samples = tracks[e.track].samples
        BY <1>4, <2>1 DEF EventsStep
      <3>2. tracks[e.track].last \in Nat /\ tracks[e.track].first \in Nat
        BY <1>1, <3>1 DEF TracksOK, Track, Gone
      <3>3. e.at - e.duration = tracks[e.track].first
        BY <3>1, <3>2
      <3>4. \A n \in SeenIn(e.track)' : n \in Nat
        BY <1>7 DEF SeenIn, SightingsOK
      <3> QED BY <1>7, <3>1, <3>2, <3>3, <3>4
    <2> QED BY <2>1 DEF EndsDatedWhenSeen, SeenIn
  <1> QED BY <1>6, <1>7, <1>9, <1>10, <1>11, <1>12 DEF IInv

\* The link goes away: every open track is ended, at its last sighting.
LEMMA CloseKeeps ==
  ASSUME IInv, Close
  PROVE  IInv'
  <1>1. Numbers /\ SightingsOK /\ TracksOK /\ Remembers /\ LedgerOK
    BY DEF IInv
  <1>2. /\ up' = FALSE /\ tracks' = <<>> /\ Recorded
        /\ nextTrackId' = nextTrackId /\ link' = link /\ sightings' = sightings
        /\ events' = {EndOf(t, tracks[t], "closed") : t \in DOMAIN tracks}
    BY DEF Close
  <1>3. DOMAIN tracks' = {}
    BY <1>2
  <1>4. ASSUME NEW e \in events'
        PROVE  /\ e.kind = "alert_end" /\ e.track \in DOMAIN tracks
               /\ e.at = tracks[e.track].last
               /\ e.duration = tracks[e.track].last - tracks[e.track].first
               /\ e.samples = tracks[e.track].samples
    BY <1>2 DEF EndOf
  <1>5. ASSUME NEW t \in DOMAIN tracks PROVE \E e \in events' : e.track = t
    <2> DEFINE e == EndOf(t, tracks[t], "closed")
    <2>1. e \in events'
      BY <1>2
    <2>2. e.track = t
      BY DEF EndOf
    <2> HIDE DEF e
    <2> QED BY <2>1, <2>2
  <1>6. Of("alert_start", events') = {} /\ Of("alert_end", events') = DOMAIN tracks
    BY <1>4, <1>5 DEF Of
  <1>7. Numbers'
    BY <1>1, <1>2 DEF Numbers
  <1>8. SightingsOK'
    BY <1>1, <1>2 DEF SightingsOK, Sighting
  <1>9. TracksOK' /\ Remembers' /\ ClosedWereAbsent' /\ NoneWhenDown'
    BY <1>2, <1>3 DEF TracksOK, Remembers, ClosedWereAbsent, NoneWhenDown
  <1>10. LedgerOK'
    <2>1. /\ announced' = announced \cup {<<link, t>> : t \in {}}
          /\ ended' = ended \cup {<<link, t>> : t \in DOMAIN tracks}
      BY <1>2, <1>6, RecordedSteps
    <2>2. nextTrackId' \in Nat /\ nextTrackId <= nextTrackId'
      BY <1>1, <1>2 DEF Numbers
    <2>3. DOMAIN tracks' = (DOMAIN tracks \cup {}) \ DOMAIN tracks
      BY <1>3
    <2> QED BY <1>1, <1>2, <2>1, <2>2, <2>3, LedgerStep
  <1>11. EndsDatedWhenSeen'
    <2>1. ASSUME NEW e \in events'
          PROVE  LET seen == SeenIn(e.track)
                 IN  /\ e.at \in seen /\ \A n \in seen : n <= e.at
                     /\ (e.at - e.duration) \in seen
                     /\ \A n \in seen : n >= e.at - e.duration
                     /\ e.samples = Cardinality(seen)
      <3>1. tracks[e.track].last \in Nat /\ tracks[e.track].first \in Nat
        BY <1>1, <1>4 DEF TracksOK, Track
      <3>2. e.at - e.duration = tracks[e.track].first
        BY <1>4, <3>1
      <3>3. \A n \in SeenIn(e.track) : n \in Nat
        BY <1>1 DEF SeenIn, SightingsOK
      <3> QED BY <1>1, <1>4, <3>1, <3>2, <3>3 DEF Remembers
    <2> QED BY <1>2, <2>1 DEF EndsDatedWhenSeen, SeenIn
  <1> QED BY <1>7, <1>8, <1>9, <1>10, <1>11 DEF IInv

\* The next session begins with a tracker that knows nothing.
LEMMA ReconnectKeeps ==
  ASSUME IInv, Reconnect
  PROVE  IInv'
  <1>1. Numbers /\ NoneWhenDown /\ LedgerOK
    BY DEF IInv
  <1>2. /\ ~up /\ link < MaxLinks /\ link' = link + 1 /\ up' = TRUE /\ tracks' = <<>>
        /\ nextTrackId' = 1 /\ events' = {} /\ sightings' = <<>>
        /\ announced' = announced /\ ended' = ended
    BY DEF Reconnect
  <1>3. DOMAIN tracks' = {} /\ DOMAIN tracks = {}
    BY <1>1, <1>2 DEF NoneWhenDown
  <1>4. link \in Nat /\ link # 0 /\ MaxLinks \in Nat
    BY <1>1, AlertTrackerAssumption DEF Numbers
  <1>5. Numbers'
    BY <1>2, <1>4 DEF Numbers
  <1>6. SightingsOK'
    BY <1>2, EmptySeq DEF SightingsOK
  <1>7. TracksOK' /\ Remembers' /\ ClosedWereAbsent' /\ NoneWhenDown'
    BY <1>2, <1>3 DEF TracksOK, Remembers, ClosedWereAbsent, NoneWhenDown
  <1>8. LedgerOK'
    <2>1. announced' \ ended' = {} /\ ended' \subseteq announced'
      BY <1>1, <1>2, <1>3 DEF LedgerOK
    <2>2. announced \in SUBSET ((1..link) \X (Nat \ {0}))
      BY <1>1 DEF LedgerOK
    <2>3. 1..link \in SUBSET (1..(link + 1)) /\ link + 1 \notin 1..link
      BY <1>4
    <2>4. announced' \in SUBSET ((1..link') \X (Nat \ {0}))
      BY <1>2, <2>2, <2>3
    <2>5. \A t : <<link', t>> \notin announced'
      BY <1>2, <2>2, <2>3
    <2> QED BY <1>3, <2>1, <2>4, <2>5 DEF LedgerOK
  <1>9. EndsDatedWhenSeen'
    BY <1>2 DEF EndsDatedWhenSeen
  <1> QED BY <1>5, <1>6, <1>7, <1>8, <1>9 DEF IInv

LEMMA Initially == Init => IInv
  <1> SUFFICES ASSUME Init PROVE IInv
    OBVIOUS
  <1>1. /\ tracks = <<>> /\ nextTrackId = 1 /\ link = 1 /\ up = TRUE /\ events = {}
        /\ sightings = <<>> /\ announced = {} /\ ended = {}
    BY DEF Init
  <1>2. DOMAIN tracks = {}
    BY <1>1
  <1>3. Numbers
    BY <1>1, AlertTrackerAssumption DEF Numbers
  <1>4. SightingsOK
    BY <1>1, EmptySeq DEF SightingsOK
  <1>5. TracksOK /\ Remembers /\ ClosedWereAbsent /\ NoneWhenDown
    BY <1>1, <1>2 DEF TracksOK, Remembers, ClosedWereAbsent, NoneWhenDown
  <1>6. LedgerOK
    BY <1>1, <1>2 DEF LedgerOK
  <1>7. EndsDatedWhenSeen
    BY <1>1 DEF EndsDatedWhenSeen
  <1> QED BY <1>3, <1>4, <1>5, <1>6, <1>7 DEF IInv

LEMMA StutterKeeps ==
  ASSUME IInv, UNCHANGED vars
  PROVE  IInv'
  <1>1. /\ tracks' = tracks /\ nextTrackId' = nextTrackId /\ link' = link /\ up' = up
        /\ events' = events /\ sightings' = sightings /\ announced' = announced
        /\ ended' = ended
    BY DEF vars
  <1>2. Numbers' /\ SightingsOK' /\ TracksOK' /\ NoneWhenDown' /\ LedgerOK'
    BY <1>1 DEF IInv, Numbers, SightingsOK, Sighting, TracksOK, NoneWhenDown, LedgerOK
  <1>3. Remembers' /\ ClosedWereAbsent'
    BY <1>1 DEF IInv, Remembers, ClosedWereAbsent, SeenIn, Absences
  <1>4. EndsDatedWhenSeen'
    BY <1>1 DEF IInv, EndsDatedWhenSeen
  <1> QED BY <1>2, <1>3, <1>4 DEF IInv

\* The tracker's invariant: what its tracks remember is what the snapshots of
\* the session showed, what it closed was absent too long, and what the stream
\* of events has announced and not ended is what it has open (AlertTracker).
THEOREM TrackerInvariant == Spec => []IInv
  <1>1. Init => IInv
    BY Initially
  <1>2. IInv /\ [Next]_vars => IInv'
    BY SnapshotKeeps, CloseKeeps, ReconnectKeeps, StutterKeeps DEF Next
  <1> QED BY <1>1, <1>2, PTL DEF Spec

\* The variables of the tracker have their types: an open track was given its
\* id, was seen no later than now, and is within its miss tolerance.
THEOREM TrackerTypes == Spec => []TypeOK
  <1>1. IInv => TypeOK
    <2> SUFFICES ASSUME IInv PROVE TypeOK
      OBVIOUS
    <2>1. Numbers /\ SightingsOK /\ TracksOK /\ Remembers /\ LedgerOK
      BY DEF IInv
    <2>2. ASSUME NEW t \in DOMAIN tracks
          PROVE  tracks[t] \in [alert : Alerts, first : 1..Len(sightings),
                                last : 1..Len(sightings), samples : 1..Len(sightings),
                                misses : 0..MissTolerance, ambiguous : BOOLEAN]
      <3>1. tracks[t] \in Track /\ tracks[t].misses <= MissTolerance
        BY <2>1 DEF TracksOK
      <3>2. /\ IsFiniteSet(SeenIn(t)) /\ SeenIn(t) \in SUBSET (1..Len(sightings))
            /\ Cardinality(SeenIn(t)) \in Nat /\ Len(sightings) \in Nat
            /\ Cardinality(SeenIn(t)) <= Len(sightings)
        BY <2>1, Countable
      <3>3. /\ tracks[t].first \in SeenIn(t) /\ tracks[t].last \in SeenIn(t)
            /\ tracks[t].samples = Cardinality(SeenIn(t))
        BY <2>1 DEF Remembers
      <3>4. Cardinality(SeenIn(t)) # 0
        BY <3>2, <3>3, FS_EmptySet
      <3>5. tracks[t].samples \in 1..Len(sightings)
        BY <3>2, <3>3, <3>4
      <3>6. tracks[t].misses \in 0..MissTolerance
        BY <3>1, AlertTrackerAssumption DEF Track
      <3>7. tracks[t].first \in 1..Len(sightings) /\ tracks[t].last \in 1..Len(sightings)
        BY <3>2, <3>3
      <3> QED BY <3>1, <3>5, <3>6, <3>7 DEF Track
    <2>3. DOMAIN tracks \subseteq 1..(nextTrackId - 1)
      BY <2>1 DEF TracksOK
    <2> QED BY <2>1, <2>2, <2>3 DEF TypeOK, Numbers, SightingsOK, Sighting, LedgerOK
  <1> QED BY <1>1, TrackerInvariant, PTL

\* While the link is up a track is open exactly as long as the readable
\* snapshots have not missed it more than MissTolerance times in a row (the
\* end pass of observe).
THEOREM OpenExactlyWhilePresent == Spec => []OpenUnlessAbsent
  <1>1. IInv => OpenUnlessAbsent
    <2> SUFFICES ASSUME IInv, up, NEW t \in 1..(nextTrackId - 1)
                 PROVE  t \in DOMAIN tracks <=> AbsentFor(t) <= MissTolerance
      BY DEF OpenUnlessAbsent
    <2>1. AbsentFor(t) = Cardinality(Absences(t)) /\ AbsentFor(t) \in Nat
      BY Countable DEF AbsentFor, Absences, IInv
    <2>2. t \in DOMAIN tracks => AbsentFor(t) <= MissTolerance
      BY <2>1 DEF IInv, Remembers, TracksOK
    <2>3. t \notin DOMAIN tracks => AbsentFor(t) > MissTolerance
      BY <2>1 DEF IInv, ClosedWereAbsent
    <2> QED BY <2>1, <2>2, <2>3, AlertTrackerAssumption
  <1> QED BY <1>1, TrackerInvariant, PTL

\* An end event is dated from the last snapshot that showed its track, its
\* duration runs from the first, and it counts the ones in between (_end).
THEOREM EndsAreDatedWhenSeen == Spec => []EndsDatedWhenSeen
  <1>1. IInv => EndsDatedWhenSeen
    BY DEF IInv
  <1> QED BY <1>1, TrackerInvariant, PTL

\* Whatever snapshot comes next, no slot and no track that match are kept
\* apart but by a partner that scored as well or better (_assign).
THEOREM TheMatchingIsStable == Spec => []MatchingStable
  <1>1. IInv => MatchingStable
    <2> SUFFICES ASSUME IInv, NEW slots \in Snapshots
                 PROVE  \A c \in Scored(slots) :
                          \E w \in Assign(Scored(slots)) :
                            /\ w.slot = c.slot \/ w.track = c.track
                            /\ w.cost <= c.cost
      BY DEF MatchingStable
    <2>1. Scored(slots) \in SUBSET Candidate /\ IsFiniteSet(Scored(slots))
      BY ScoredOK DEF IInv
    <2> QED BY <2>1, AssignIsStable DEF Settled
  <1> QED BY <1>1, TrackerInvariant, PTL

-----------------------------------------------------------------------------
(***************************************************************************)
(* The events make a stream of encounters.                                 *)
(***************************************************************************)

LEMMA SaidOf ==
  ASSUME NEW kind
  PROVE  /\ Said(kind) = {<<link, t>> : t \in Of(kind, events)}
         /\ Said(kind)' = {<<link', t>> : t \in Of(kind, events')}
  <1>1. Said(kind) = {<<link, t>> : t \in Of(kind, events)}
    BY DEF Said, Of
  <1>2. Said(kind)' = {<<link', t>> : t \in Of(kind, events')}
    BY DEF Said, Of
  <1> QED BY <1>1, <1>2

LEMMA SnapshotTells ==
  ASSUME IInv, NEW slots \in Snapshots, NEW readable \in BOOLEAN,
         Snapshot(slots, readable)
  PROVE  EncounterStream!Snapshot
  <1> DEFINE Started == Said("alert_start")'
             Updated == Said("alert_update")'
             Done == Said("alert_end")'
  <1>1. Numbers /\ SightingsOK /\ TracksOK /\ LedgerOK
    BY DEF IInv
  <1>2. PICK assigned : /\ Kept(assigned) \in SUBSET DOMAIN tracks
                        /\ Effects(assigned, readable)
    BY <1>1, SnapshotSteps
  <1>3. up /\ up' = up /\ link' = link /\ Recorded
    BY DEF Snapshot
  <1>4. EventsStep(assigned, readable)
    BY <1>2 DEF Effects
  <1>5. /\ announced' = announced \cup {<<link, t>> : t \in Born}
        /\ ended' = ended \cup {<<link, t>> : t \in Gone(assigned, readable)}
    BY <1>3, <1>4, RecordedSteps DEF EventsStep
  <1>6. /\ Started = {<<link, t>> : t \in Born}
        /\ Updated = {<<link, t>> : t \in Of("alert_update", events')}
        /\ Done = {<<link, t>> : t \in Gone(assigned, readable)}
    BY <1>3, <1>4, SaidOf DEF EventsStep
  <1>7. /\ announced \ ended = {<<link, t>> : t \in DOMAIN tracks}
        /\ ended \in SUBSET announced
    BY <1>1 DEF LedgerOK
  <1>8. \A t \in Born : <<link, t>> \notin announced
    <2>1. nextTrackId \in Nat /\ nextTrackId' \in Nat
      BY <1>1, <1>2 DEF Numbers, Effects
    <2>2. \A t \in Born : t \in Nat /\ ~(t < nextTrackId)
      BY <2>1 DEF Born
    <2> QED BY <1>1, <2>2 DEF LedgerOK
  <1>9. Started \cap announced = {}
    BY <1>6, <1>8
  <1>10. Updated \subseteq announced \ ended
    BY <1>2, <1>4, <1>6, <1>7 DEF EventsStep
  <1>11. Done \subseteq (announced \ ended) \ Updated
    <2>1. \A t \in Gone(assigned, readable) :
            t \in DOMAIN tracks /\ t \notin Of("alert_update", events')
      BY <1>4 DEF Gone, EventsStep
    <2> QED BY <1>6, <1>7, <2>1
  <1>12. announced' = announced \cup Started /\ ended' = ended \cup Done
    BY <1>5, <1>6
  <1> HIDE DEF Started, Updated, Done
  <1>13. announced' \ ended' = ((announced \ ended) \cup Started) \ Done
    BY <1>7, <1>9, <1>12
  <1>14. Started \cap ((announced \ ended) \cup ended) = {}
    BY <1>7, <1>9
  <1> QED BY <1>3, <1>10, <1>11, <1>12, <1>13, <1>14
          DEF EncounterStream!Snapshot, EncounterStream!Recorded, Started, Updated, Done

LEMMA CloseTells ==
  ASSUME IInv, Close
  PROVE  EncounterStream!HangUp
  <1> DEFINE Live == announced \ ended
  <1>1. /\ up /\ up' = FALSE /\ Recorded /\ link' = link
        /\ events' = {EndOf(t, tracks[t], "closed") : t \in DOMAIN tracks}
    BY DEF Close
  <1>2. ASSUME NEW e \in events' PROVE e.kind = "alert_end" /\ e.track \in DOMAIN tracks
    BY <1>1 DEF EndOf
  <1>3. ASSUME NEW t \in DOMAIN tracks PROVE \E e \in events' : e.track = t
    <2> DEFINE e == EndOf(t, tracks[t], "closed")
    <2>1. e \in events' /\ e.track = t
      BY <1>1 DEF EndOf
    <2> HIDE DEF e
    <2> QED BY <2>1
  <1>4. /\ Of("alert_start", events') = {} /\ Of("alert_update", events') = {}
        /\ Of("alert_end", events') = DOMAIN tracks
    BY <1>2, <1>3 DEF Of
  <1>5. Live = {<<link, t>> : t \in DOMAIN tracks}
    BY DEF IInv, LedgerOK
  <1>6. /\ Said("alert_start")' = {} /\ Said("alert_update")' = {}
        /\ Said("alert_end")' = Live
    <2>1. link' = link
      BY <1>1
    <2>2. ASSUME NEW kind PROVE Said(kind)' = {<<link, t>> : t \in Of(kind, events')}
      BY <2>1, SaidOf
    <2>3. /\ Said("alert_start")' = {<<link, t>> : t \in {}}
          /\ Said("alert_update")' = {<<link, t>> : t \in {}}
          /\ Said("alert_end")' = {<<link, t>> : t \in DOMAIN tracks}
      BY <1>4, <2>2
    <2> QED BY <1>5, <2>3
  <1>7. announced' = announced \cup {} /\ ended' = ended \cup Live
    <2>1. /\ announced' = announced \cup {<<link, t>> : t \in {}}
          /\ ended' = ended \cup {<<link, t>> : t \in DOMAIN tracks}
      BY <1>1, <1>4, RecordedSteps
    <2> QED BY <1>5, <2>1
  <1> DEFINE said == [start |-> Said("alert_start")', update |-> Said("alert_update")',
                      end |-> Said("alert_end")']
  <1>8. said = [start |-> {}, update |-> {}, end |-> Live]
    BY <1>6
  <1>9. said.start = {} /\ said.end = Live
    BY <1>6
  <1>10. announced' \ ended' = (Live \cup said.start) \ said.end
         /\ ended' = ended \cup said.end
    BY <1>7, <1>9
  <1>11. up /\ up' = FALSE
    BY <1>1
  <1> QED BY <1>8, <1>10, <1>11, Zenon
          DEF EncounterStream!HangUp, EncounterStream!Recorded

LEMMA ReconnectTells ==
  ASSUME IInv, Reconnect
  PROVE  EncounterStream!Reconnect
  <1>1. ~up /\ up' = TRUE /\ events' = {} /\ announced' = announced /\ ended' = ended
    BY DEF Reconnect
  <1>2. ASSUME NEW kind PROVE Said(kind)' = {}
    BY <1>1 DEF Said
  <1> QED BY <1>1, <1>2 DEF EncounterStream!Reconnect, EncounterStream!Nothing

\* The tracker implements the stream of encounters: each is announced once,
\* updated only while it lasts, ended once, and never comes back; and none
\* outlives its link (AlertTracker, over all the sessions of a run).
THEOREM TrackerTellsEncounters == Spec => EncounterSpec
  <1>1. Init => EncounterStream!Init
    <2> SUFFICES ASSUME Init PROVE EncounterStream!Init
      OBVIOUS
    <2>1. up = TRUE /\ events = {} /\ announced = {} /\ ended = {}
      BY DEF Init
    <2>2. ASSUME NEW kind PROVE Said(kind) = {}
      BY <2>1 DEF Said
    <2> QED BY <2>1, <2>2 DEF EncounterStream!Init, EncounterStream!Nothing
  <1>2. IInv /\ [Next]_vars
          => [EncounterStream!Next]_(EncounterStream!encounterVars)
    <2> SUFFICES ASSUME IInv, [Next]_vars
                 PROVE  [EncounterStream!Next]_(EncounterStream!encounterVars)
      OBVIOUS
    <2>1. ASSUME NEW slots \in Snapshots, NEW readable \in BOOLEAN,
                 Snapshot(slots, readable)
          PROVE  EncounterStream!Next
      BY <2>1, SnapshotTells DEF EncounterStream!Next
    <2>2. CASE Close
      BY <2>2, CloseTells DEF EncounterStream!Next
    <2>3. CASE Reconnect
      BY <2>3, ReconnectTells DEF EncounterStream!Next
    <2>4. CASE UNCHANGED vars
      BY <2>4 DEF vars, EncounterStream!encounterVars, Said
    <2> QED BY <2>1, <2>2, <2>3, <2>4 DEF Next
  <1> QED BY <1>1, <1>2, TrackerInvariant, PTL DEF Spec, EncounterSpec, EncounterStream!Spec
=============================================================================
