---------------------------- MODULE AlertTracker ----------------------------
(***************************************************************************)
(* AlertTracker of events.py: full snapshots of the detector's alert slots *)
(* become start, update and end events of tracks.  A slot is matched to an *)
(* open track by match_cost, greedily and best first; a track that the     *)
(* readable snapshots miss more than MissTolerance times in a row ends; a  *)
(* dropped link ends every open track.  The collector makes one tracker    *)
(* for each link session, and one history for all of them.                 *)
(*                                                                         *)
(* Costs are in twentieths, and a frequency is counted in twentieths of    *)
(* the tolerance of its band, so every cost of match_cost is an integer.   *)
(* The monotonic clock is the position of the snapshot in its session.     *)
(* Raw signal, mute codes, peaks and the walk of directions are left out:  *)
(* they decide no match and no event.                                      *)
(***************************************************************************)
EXTENDS Integers, Sequences, FiniteSets, SequencesExt

CONSTANTS
  Alerts,            \* the alerts a slot may decode to
  None,              \* no frequency, strength, direction or gun
  MissTolerance,     \* TRACK_MISS_TOLERANCE
  MaxSlots,          \* bound: slots of a snapshot
  MaxSnapshots,      \* bound: snapshots of a link session
  MaxLinks           \* bound: link sessions of a collector run

ASSUME AlertTrackerAssumption ==
  /\ \A a \in Alerts :
       /\ a.freq = None \/ a.freq \in Nat
       /\ a.strength = None \/ a.strength \in Nat
  /\ MissTolerance \in Nat
  /\ MaxSlots \in Nat /\ MaxSnapshots \in Nat /\ MaxLinks \in Nat \ {0}

VARIABLES
  tracks,            \* _tracks: a function from the open track ids
  nextTrackId,       \* _next_track_id
  link,              \* the number of the link session; the tracker's session
  up,                \* the link is up
  events,            \* the events the last call returned
  sightings,         \* history: of each snapshot of this session, the tracks
                     \* it was folded into and whether it was readable
  announced, ended   \* history: the <<link, track>> of the start and end events

vars == <<tracks, nextTrackId, link, up, events, sightings, announced, ended>>

Snapshots == BoundedSeq(Alerts, MaxSlots)
Now == Len(sightings) + 1

Init ==
  /\ tracks = <<>>
  /\ nextTrackId = 1
  /\ link = 1
  /\ up = TRUE
  /\ events = {}
  /\ sightings = <<>>
  /\ announced = {}
  /\ ended = {}

-----------------------------------------------------------------------------
(***************************************************************************)
(* Matching.                                                               *)
(***************************************************************************)

BandFamily(band) ==
  CASE band \in {"K", "K POP"} -> "K"
    [] band \in {"KA", "KA POP"} -> "KA"
    [] band \in {"MRCD", "MRCT"} -> "PHOTO"
    [] band \in {"RT3", "RT4"} -> "RT"
    [] OTHER -> band

Tolerance == 20            \* one band tolerance
MaxStrengthJump == 4       \* _MAX_STRENGTH_JUMP
AmbiguityMargin == 5       \* AMBIGUITY_MARGIN, 0.25

Apart(x, y) == IF x < y THEN y - x ELSE x - y
BothKnown(x, y) == x # None /\ y # None

\* match_cost is not None: no hard disagreement.
Matches(old, new) ==
  /\ BandFamily(old.band) = BandFamily(new.band)
  /\ old.gun = new.gun
  /\ BothKnown(old.freq, new.freq) => Apart(old.freq, new.freq) <= Tolerance
  /\ BothKnown(old.strength, new.strength) =>
       Apart(old.strength, new.strength) <= MaxStrengthJump

\* _DIRECTION_AXIS: one step along the axis is likelier than a jump over it.
DirectionCost(old, new) ==
  CASE old = new -> 0
    [] old # new /\ ~({old, new} \subseteq {"F", "S", "R"}) -> 10
    [] {old, new} = {"F", "R"} -> 16
    [] OTHER -> 6

\* match_cost, where it is not None.
MatchCost(old, new) ==
  (IF old.band # new.band THEN 10 ELSE 0)
  + (IF BothKnown(old.freq, new.freq) THEN Apart(old.freq, new.freq) ELSE 10)
  + DirectionCost(old.direction, new.direction)
  + (IF BothKnown(old.strength, new.strength)
     THEN 2 * Apart(old.strength, new.strength) ELSE 0)

\* The candidate pairs of a slot and an open track, with their costs.
Scored(slots) ==
  LET matching == {p \in (DOMAIN slots) \X (DOMAIN tracks) :
                     Matches(tracks[p[2]].alert, slots[p[1]])}
  IN  {[cost |-> MatchCost(tracks[p[2]].alert, slots[p[1]]),
        slot |-> p[1], track |-> p[2]] : p \in matching}

\* Mutant of Better: the pairs are taken in slot order, whatever their cost.
BetterBySlot(x, y) ==
  \/ x.slot < y.slot
  \/ x.slot = y.slot /\ x.track < y.track

\* scored.sort: best first, then by slot and by track.
Better(x, y) ==
  \/ x.cost < y.cost
  \/ x.cost = y.cost /\ x.slot < y.slot
  \/ x.cost = y.cost /\ x.slot = y.slot /\ x.track < y.track

Best(pairs) == CHOOSE c \in pairs : \A d \in pairs \ {c} : Better(c, d)

\* _assign: the candidates that are taken.  The best pair is taken, which
\* takes its slot and its track from the pairs left.
Assign(pairs) ==
  LET greedy[left \in SUBSET pairs] ==
        IF left = {} THEN {}
        ELSE LET best == Best(left)
                 rest == {c \in left : /\ c.slot # best.slot
                                      /\ c.track # best.track}
             IN  {best} \cup greedy[rest]
  IN  greedy[pairs]

\* _assign's second result: matched slots whose two best scores are close.
Ambiguous(pairs, assigned) ==
  {i \in {c.slot : c \in assigned} :
     LET own == {c \in pairs : c.slot = i}
         best == Best(own)
     IN  \E c \in own \ {best} : c.cost - best.cost < AmbiguityMargin}

-----------------------------------------------------------------------------
(***************************************************************************)
(* Lifecycle.                                                              *)
(***************************************************************************)

\* Mutant of StartOf: a new track is charged a miss by its own snapshot.
StartOfMissed(id, alert) ==
  [alert |-> alert, first |-> Now, last |-> Now, samples |-> 1, misses |-> 1,
   ambiguous |-> FALSE]

\* _start.
StartOf(id, alert) ==
  [alert |-> alert, first |-> Now, last |-> Now, samples |-> 1, misses |-> 0,
   ambiguous |-> FALSE]

\* absorb, after the ambiguity has been noted.
Absorb(track, alert, close) ==
  [track EXCEPT !.alert = alert, !.last = Now, !.samples = @ + 1,
                !.misses = 0, !.ambiguous = @ \/ close]

\* A snapshot that could be read charges a miss to a track it does not show.
Missed(track, readable) ==
  IF readable THEN [track EXCEPT !.misses = @ + 1] ELSE track

Expired(track) == track.misses > MissTolerance

\* Mutant of EndOf: an end is dated when the absence is noticed.
EndWhenNoticed(id, track, reason) ==
  [kind |-> "alert_end", track |-> id, at |-> Now,
   correlation |-> IF track.ambiguous THEN "ambiguous" ELSE reason,
   duration |-> Now - track.first, samples |-> track.samples]

\* _end.
EndOf(id, track, reason) ==
  [kind |-> "alert_end", track |-> id, at |-> track.last,
   correlation |-> IF track.ambiguous THEN "ambiguous" ELSE reason,
   duration |-> track.last - track.first, samples |-> track.samples]

\* observe, once _assign has matched the slots.
Observe(slots, readable, assigned, close) ==
  LET kept == {c.track : c \in assigned}
      unmatched == DOMAIN slots \ {c.slot : c \in assigned}
      NewId(i) == nextTrackId + Cardinality({j \in unmatched : j < i})
      born == {NewId(i) : i \in unmatched}
      claimed == kept \cup born
      SlotOf(t) == CHOOSE i \in DOMAIN slots :
                     \/ \E c \in assigned : c.slot = i /\ c.track = t
                     \/ i \in unmatched /\ NewId(i) = t
      Seen(t) == IF t \in born THEN StartOf(t, slots[SlotOf(t)])
                 ELSE Absorb(tracks[t], slots[SlotOf(t)], SlotOf(t) \in close)
      after == [t \in DOMAIN tracks \cup born |->
                  IF t \in claimed THEN Seen(t) ELSE Missed(tracks[t], readable)]
      gone == {t \in DOMAIN after : Expired(after[t])}
      changed == {t \in kept : tracks[t].alert # slots[SlotOf(t)]}
  IN  /\ tracks' = [t \in DOMAIN after \ gone |-> after[t]]
      /\ nextTrackId' = nextTrackId + Cardinality(unmatched)
      /\ events' =
           {[kind |-> "alert_start", track |-> t, at |-> Now,
             correlation |-> "new"] : t \in born}
           \cup
           {[kind |-> "alert_update", track |-> t, at |-> Now,
             correlation |-> IF SlotOf(t) \in close THEN "ambiguous"
                             ELSE "matched"] : t \in changed}
           \cup {EndOf(t, after[t], "timeout") : t \in gone}
      /\ sightings' = Append(sightings, [claimed |-> claimed,
                                         readable |-> readable])

Recorded ==
  LET Of(kind) == {<<link, e.track>> : e \in {x \in events' : x.kind = kind}}
  IN  /\ announced' = announced \cup Of("alert_start")
      /\ ended' = ended \cup Of("alert_end")

\* A snapshot arrives.
Snapshot(slots, readable) ==
  /\ up
  /\ Len(sightings) < MaxSnapshots
  /\ \E pairs \in {Scored(slots)} : \E assigned \in {Assign(pairs)} :
       Observe(slots, readable, assigned, Ambiguous(pairs, assigned))
  /\ Recorded
  /\ UNCHANGED <<link, up>>

\* Mutant of Close: the tracks are dropped and no end is told.
CloseSilently ==
  /\ up
  /\ up' = FALSE
  /\ events' = {}
  /\ tracks' = <<>>
  /\ Recorded
  /\ UNCHANGED <<nextTrackId, link, sightings>>

\* close, when the link goes away.
Close ==
  /\ up
  /\ up' = FALSE
  /\ events' = {EndOf(t, tracks[t], "closed") : t \in DOMAIN tracks}
  /\ tracks' = <<>>
  /\ Recorded
  /\ UNCHANGED <<nextTrackId, link, sightings>>

\* The next session of the same run, with a tracker of its own.
Reconnect ==
  /\ ~up
  /\ link < MaxLinks
  /\ link' = link + 1
  /\ up' = TRUE
  /\ tracks' = <<>>
  /\ nextTrackId' = 1
  /\ events' = {}
  /\ sightings' = <<>>
  /\ UNCHANGED <<announced, ended>>

Next ==
  \/ \E slots \in Snapshots, readable \in BOOLEAN : Snapshot(slots, readable)
  \/ Close
  \/ Reconnect

Spec == Init /\ [][Next]_vars

-----------------------------------------------------------------------------
(***************************************************************************)
(* Properties.                                                             *)
(***************************************************************************)

\* Every variable has its type; an open track's id was given out, and it was
\* seen no later than now and is within its miss tolerance.
TypeOK ==
  /\ nextTrackId \in Nat \ {0}
  /\ DOMAIN tracks \subseteq 1..(nextTrackId - 1)
  /\ \A t \in DOMAIN tracks :
       tracks[t] \in [alert : Alerts, first : 1..Len(sightings),
                     last : 1..Len(sightings), samples : 1..Len(sightings),
                     misses : 0..MissTolerance, ambiguous : BOOLEAN]
  /\ link \in 1..MaxLinks
  /\ up \in BOOLEAN
  /\ sightings \in Seq([claimed : SUBSET (1..(nextTrackId - 1)),
                        readable : BOOLEAN])
  /\ ended \subseteq announced
  /\ announced \subseteq (1..link) \X (Nat \ {0})

\* Whatever snapshot comes next, the greedy assignment is stable: a slot and a
\* track that match are not kept apart unless one of them went to a partner
\* that scored at least as well.  In particular no slot starts a new track
\* while an open track it matches is left unclaimed (_assign).
MatchingStable ==
  \A slots \in Snapshots :
    \A pairs \in {Scored(slots)} : \A assigned \in {Assign(pairs)} :
      \A c \in pairs :
        \E w \in assigned : /\ w.slot = c.slot \/ w.track = c.track
                           /\ w.cost <= c.cost

\* How many readable snapshots have come since the track was last seen.
AbsentFor(t) ==
  Cardinality({n \in DOMAIN sightings :
    /\ sightings[n].readable
    /\ \A m \in n..Len(sightings) : t \notin sightings[m].claimed})

\* While the link is up a track is open exactly as long as it has not been
\* absent from more than MissTolerance readable snapshots in a row: a dropped
\* or unreadable packet neither ends an encounter nor splits it in two, and a
\* threat that stopped is not kept (the end pass of observe).
OpenUnlessAbsent ==
  up => \A t \in 1..(nextTrackId - 1) :
          t \in DOMAIN tracks <=> AbsentFor(t) <= MissTolerance

\* An end event is dated from the last snapshot the track was seen in, its
\* duration runs from the first, and it counts the ones in between (_end:
\* "End a track at the last moment it was actually seen").
EndsDatedWhenSeen ==
  \A e \in {x \in events : x.kind = "alert_end"} :
    LET seen == {n \in DOMAIN sightings : e.track \in sightings[n].claimed}
    IN  /\ e.at \in seen /\ \A n \in seen : n <= e.at
        /\ (e.at - e.duration) \in seen /\ \A n \in seen : n >= e.at - e.duration
        /\ e.samples = Cardinality(seen)

\* The events of all sessions of a run make a stream of encounters, each named
\* by its session and its track: announced once, ended once, never updated
\* outside its life, and all ended when the link goes away.
Said(kind) == {<<link, e.track>> : e \in {x \in events : x.kind = kind}}
EncounterStream ==
  INSTANCE Encounters WITH
    live <- announced \ ended,
    over <- ended,
    said <- [start |-> Said("alert_start"), update |-> Said("alert_update"),
             end |-> Said("alert_end")]
EncounterSpec == EncounterStream!Spec

\* What the module docstring of events.py says: when two tracks score within
\* AMBIGUITY_MARGIN of each other, the one matched and another, the result is
\* flagged ambiguous.
CloseCallsFlagged ==
  \A slots \in Snapshots :
    \A pairs \in {Scored(slots)} : \A assigned \in {Assign(pairs)} :
      \A c, d \in pairs :
        /\ c.slot = d.slot /\ c.track # d.track
        /\ c \in assigned
        /\ Apart(c.cost, d.cost) < AmbiguityMargin
        => c.slot \in Ambiguous(pairs, assigned)
=============================================================================
