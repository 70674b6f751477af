---------------------------- MODULE AlertPacket ----------------------------
(***************************************************************************)
(* parse_alert_snapshot.  A packet is a sequence of slots, a slot a        *)
(* sequence of fields: marker, id, band, strength, signal, info,           *)
(* direction, mute code and, in some, receive mode.  The packet of one     *)
(* slot of one empty field is the empty text.                              *)
(***************************************************************************)
EXTENDS Fields

NoText == << <<"">> >>

\* BANDS, with one of each kind.
GunIdBands == {"LASER"}
NoFrequencyBands == {"LASER", "MRCD"}
Bands == {"X", "K", "KA"} \cup NoFrequencyBands

Directions == {"F", "S", "R"}

MuteStates == {"1", "2", "3", "4", "5", "6"}
MutedCodes == MuteStates \ {"1"}

Guns == 20

Band(fields) ==
  LET band == At(fields, 3) IN IF band = None THEN None ELSE Upper(band)

\* The structural gate, and the one band that is not published: one that does
\* not sanitise.
Readable(fields) ==
  /\ Len(fields) >= 8
  /\ At(fields, 1) = "1"
  /\ IntOf(At(fields, 4)) \in 1..8
  /\ Band(fields) \in Bands \/ SafeWord(Band(fields)) # None

\* The info field is a frequency, the id of a gun or nothing, by the band.
Frequency(fields) ==
  IF Band(fields) \in Bands \ NoFrequencyBands
  THEN FloatOf(At(fields, 6)) ELSE None

GunId(fields) ==
  IF Band(fields) \in GunIdBands THEN IntOf(At(fields, 6)) ELSE None

Direction(fields) ==
  LET code == Upper(At(fields, 7))
  IN IF code \in Directions THEN code ELSE None

Alert(fields) ==
  [band |-> Band(fields),
   strength |-> IntOf(At(fields, 4)),
   signal |-> IntOf(At(fields, 5)),
   frequency |-> Frequency(fields),
   gun |-> GunId(fields),
   direction |-> Direction(fields),
   mute |-> SafeWord(At(fields, 8)),
   mode |-> SafeWord(At(fields, 9))]

Empty == [state |-> "empty"]
Unreadable == [state |-> "unreadable"]
Active(alert) == [state |-> "active", alert |-> alert]

\* _parse_slot
Slot(fields) ==
  CASE fields = <<"0">>  -> Empty
    [] Readable(fields)  -> Active(Alert(fields))
    [] OTHER             -> Unreadable

\* Mutant of Recognised: only a slot that was rejected makes a packet
\* uncertain.
RecognisedByCount(packet) ==
  packet = NoText \/ \A i \in DOMAIN packet : Slot(packet[i]) # Unreadable

\* AlertSnapshot.recognised
Recognised(packet) ==
  packet # NoText /\ \A i \in DOMAIN packet : Slot(packet[i]) # Unreadable

\* parse_alert_snapshot
Snapshot(packet) ==
  [slots |-> IF packet = NoText THEN << >>
             ELSE [i \in DOMAIN packet |-> Slot(packet[i])],
   recognised |-> Recognised(packet)]

\* AlertSnapshot.uncertain
Uncertain(snapshot) == ~snapshot.recognised

\* The public view of an alert: an allowlisted band or "unknown", a mute state
\* that is known or not, a gun of the list.
BandName(alert) == IF alert.band \in Bands THEN alert.band ELSE "unknown"

Muted(alert) ==
  IF alert.mute \in MuteStates THEN alert.mute \in MutedCodes ELSE None

LaserGun(alert) == IF alert.gun \in 0..(Guns - 1) THEN alert.gun ELSE None
=============================================================================
