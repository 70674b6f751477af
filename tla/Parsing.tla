------------------------------ MODULE Parsing ------------------------------
(***************************************************************************)
(* The parsers, on what was sent and what arrived: an alert or telemetry   *)
(* packet that is cut short or has a word the vocabulary does not know,    *)
(* and a POI database that changes between two captures or is cut in the   *)
(* later one.  The parsers are functions; the steps are those of the       *)
(* detector and the link.                                                  *)
(***************************************************************************)
EXTENDS AlertPacket, TelemetryPacket, RecordLayout, FiniteSets

CONSTANTS
  AlertPackets,      \* the alert packets that are sent
  TelemetryPackets,  \* the telemetry packets that are sent
  Records,           \* the records of the POI database
  MaxRecords,        \* bound on the records of the database
  Junk,              \* the words a garbled field reads as
  MaxHarm            \* bound on the harm done to a packet

\* A text splits into fields, and a field into parts, of which there is at
\* least one.
Packets == Seq(Seq(STRING) \ {<< >>})

\* Junk is no word that answers by itself: an empty group or slot, a fix or
\* none; and None is no word.
ASSUME JunkAssumption ==
  /\ None \notin {"C", "D"}
  /\ Junk \subseteq STRING \ {"0", "C", "D"}

\* A POI group that warns has its parts.
ASSUME PacketAssumption ==
  /\ AlertPackets \subseteq Packets
  /\ TelemetryPackets \subseteq Packets
  /\ \A p \in TelemetryPackets :
       Len(p) >= Expected => Absent(p[2]) \/ Len(p[2]) > 1

\* The detector lays its records out by their first byte.
ASSUME RecordAssumption ==
  /\ {MaxRecords, MaxHarm} \subseteq Nat
  /\ \A r \in Records : /\ r \in Seq(0..255) \ {<< >>}
                         /\ r[1] \in DOMAIN Layouts.whole
                         /\ Len(r) = Layouts.whole[r[1]]

VARIABLES
  subject,       \* "alerts", "telemetry" or "poi"
  sent,          \* the packet as sent; the records of the earlier capture
  received,      \* the packet as it arrived; the records of the later capture
  harm           \* bound: steps of harm

parsingVars == <<subject, sent, received, harm>>

Databases == UNION {[1..n -> Records] : n \in 0..MaxRecords}

ParsingInit ==
  /\ \/ subject = "alerts" /\ sent \in AlertPackets
     \/ subject = "telemetry" /\ sent \in TelemetryPackets
     \/ subject = "poi" /\ sent \in Databases
  /\ received = sent
  /\ harm = 0

Harms ==
  /\ harm < MaxHarm
  /\ harm' = harm + 1
  /\ UNCHANGED <<subject, sent>>

\* What is left of a word that is cut.
Stubs(w) ==
  {"", w} \cup CASE w = "500"  -> {"5"}
                 [] w = "12.6" -> {"1"}
                 [] OTHER      -> {}

\* The packet ends in the middle of a field.
Cut ==
  /\ subject # "poi"
  /\ Harms
  /\ \E i \in DOMAIN received : \E j \in DOMAIN received[i] :
       \E stub \in Stubs(received[i][j]) :
         received' = Append(SubSeq(received, 1, i - 1),
                            Append(SubSeq(received[i], 1, j - 1), stub))

\* A field reads as a word nobody knows.
Garble ==
  /\ subject # "poi"
  /\ Harms
  /\ \E i \in DOMAIN received : \E j \in DOMAIN received[i] : \E w \in Junk :
       received' = [received EXCEPT ![i][j] = w]

\* The database: a record is stored anywhere, one is deleted, two change
\* places, the last one is cut.
Whole == \A i \in DOMAIN received : received[i] \in Records

Store ==
  /\ subject = "poi"
  /\ Harms
  /\ Whole
  /\ \E r \in Records : \E i \in 1..(Len(received) + 1) :
       received' = InsertAt(received, i, r)

Delete ==
  /\ subject = "poi"
  /\ Harms
  /\ Whole
  /\ \E i \in DOMAIN received : received' = RemoveAt(received, i)

Reorder ==
  /\ subject = "poi"
  /\ Harms
  /\ Whole
  /\ \E i, j \in DOMAIN received :
       /\ i < j
       /\ received' = [received EXCEPT ![i] = received[j], ![j] = received[i]]

CutCapture ==
  /\ subject = "poi"
  /\ Harms
  /\ Whole
  /\ received # << >>
  /\ \E n \in 1..(Len(Last(received)) - 1) :
       received' = Append(Front(received), SubSeq(Last(received), 1, n))

ParsingNext ==
  Cut \/ Garble \/ Store \/ Delete \/ Reorder \/ CutCapture

ParsingSpec == ParsingInit /\ [][ParsingNext]_parsingVars
-----------------------------------------------------------------------------
\* A reading of an alert is what was sent, if the fields it is read from
\* arrived as they were sent.
Readings(alert) ==
  [band |-> BandName(alert), strength |-> alert.strength,
   frequency |-> alert.frequency, gun |-> LaserGun(alert),
   direction |-> alert.direction, muted |-> Muted(alert)]

From ==
  [band |-> {3}, strength |-> {4}, frequency |-> {3, 6}, gun |-> {3, 6},
   direction |-> {7}, muted |-> {8}]

SameFields(i, fields) ==
  \A f \in fields :
    /\ f \in DOMAIN received[i]
    /\ sent[i][f] = received[i][f]

\* A damaged packet never reads as one in which a detection is over: the
\* detection is there, with every reading that came through unharmed, or the
\* snapshot is uncertain.  A packet that ends at the end of a slot is not
\* noticed: nothing is said of the slots behind.
NeverFalselyClear ==
  subject = "alerts" =>
    LET before == Snapshot(sent)
        after  == Snapshot(received)
    IN \A i \in DOMAIN before.slots :
         before.slots[i].state = "active" /\ i <= Len(received) =>
           \/ Uncertain(after)
           \/ /\ i \in DOMAIN after.slots
              /\ after.slots[i].state = "active"
              /\ LET was == Readings(before.slots[i].alert)
                     is  == Readings(after.slots[i].alert)
                 IN \A r \in DOMAIN From :
                      SameFields(i, From[r]) => is[r] = was[r]

\* Two degrees with a fraction, next to each other.
PairOfDegrees(parts) ==
  \E i \in 1..(Len(parts) - 1) :
    {parts[i], parts[i + 1]} \subseteq Decimals \ {"34.0"}

\* Whatever arrives, what may be a pair of coordinates goes no further than
\* the parser, and takes nothing but its own group with it.
PositionsWithheld ==
  LET reading == Telemetry(received)
      without(i) == Telemetry([received EXCEPT ![i] = <<"0">>])
  IN /\ ~PairOfDegrees(reading.poi.raw)
     /\ reading.poi.suspect =>
          reading = [without(2) EXCEPT !.poi = reading.poi]
     /\ reading.gps.suspect =>
          /\ reading = [without(3) EXCEPT !.gps = reading.gps]
          /\ Locked(reading.gps) = None

\* A packet that could not be read never reads as a measurement: the answer
\* of the detector on its fix is not turned round, and a warning that is gone
\* is gone from a packet that says it is not whole.
FailureIsNoReading ==
  LET before == Telemetry(sent)
      after  == Telemetry(received)
  IN /\ Locked(before.gps) # None =>
          Locked(after.gps) \in {Locked(before.gps), None}
     /\ before.poi.active /\ ~after.poi.active => ~after.parsed

ReadingsHonest ==
  subject = "telemetry" => PositionsWithheld /\ FailureIsNoReading

Blob(records) == FlattenSeq(records)

\* The layout the detector uses accounts for every whole database, and for no
\* capture that was cut; the records reported as added under it are those
\* whose content is new, wherever they and the others are now.
NewRecordsByContent ==
  subject = "poi" =>
    LET added == RecordsAdded(Blob(sent), Blob(received))
    IN /\ "whole" \in DOMAIN added <=> (Whole /\ received # << >>)
       /\ "whole" \in DOMAIN added =>
            {e.bytes : e \in added["whole"]} = ToSet(received) \ ToSet(sent)
=============================================================================
