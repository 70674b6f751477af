-------------------------- MODULE TelemetryPacket --------------------------
(***************************************************************************)
(* parse_telemetry.  A packet is a sequence of fields, a field a sequence  *)
(* of parts: voltage, POI group, GPS group and four words.                 *)
(***************************************************************************)
EXTENDS Fields

Expected == 7

CompassPoints == {"N", "NE"}
PoiKinds == {"SPEEDCAM", "REDLIGHT"}

\* Mutant of LooksLikeCoordinate: a sign is not expected.
LooksLikeNorthern(w) == w \in {"34.7", "12.6"}

\* _looks_like_coordinate: a fraction that is not zero, in range.
LooksLikeCoordinate(w) == w \in {"34.7", "12.6", "-118.2"}

\* A field that is not a group: one part, or a comma that no word carries.
Word(field) == IF Len(field) = 1 THEN At(field, 1) ELSE "<b>"

Absent(field) == field \in {<<"">>, <<"0">>}

NoGps == [evaluated |-> FALSE, present |-> FALSE, suspect |-> FALSE,
          direction |-> None, speed |-> None, altitude |-> None,
          status |-> None]

\* _parse_gps_group
Gps(field) ==
  CASE Absent(field) -> [NoGps EXCEPT !.evaluated = TRUE]
    [] ~Absent(field) /\ Len(field) # 4 -> NoGps
    [] Len(field) = 4 /\ LooksLikeCoordinate(field[1])
                      /\ LooksLikeCoordinate(field[2]) ->
         [NoGps EXCEPT !.present = TRUE, !.suspect = TRUE]
    [] OTHER ->
         [evaluated |-> TRUE, present |-> TRUE, suspect |-> FALSE,
          direction |-> IF field[1] \in CompassPoints THEN field[1] ELSE None,
          speed |-> IntOf(field[2]),
          altitude |-> IntOf(field[3]),
          status |-> SafeWord(At(field, 4))]

\* DetectorGps.locked: with a fix, without one, or unknown.
Locked(gps) ==
  CASE ~gps.evaluated -> None
    [] gps.evaluated /\ ~gps.present -> FALSE
    [] gps.present /\ gps.status = "C" -> TRUE
    [] gps.present /\ gps.status = "D" -> FALSE
    [] OTHER -> None

CoordinatePair(parts) ==
  \E i \in 1..(Len(parts) - 1) :
    LooksLikeCoordinate(parts[i]) /\ LooksLikeCoordinate(parts[i + 1])

\* _safe_group: every part sanitises or is empty, or nothing is kept.
SafeGroup(parts) ==
  IF \A i \in DOMAIN parts : parts[i] = "" \/ SafeWord(parts[i]) # None
  THEN parts ELSE << >>

Decoded(parts) ==
  /\ Len(parts) = 3
  /\ parts[1] \in PoiKinds
  /\ \A i \in {2, 3} : parts[i] \in DOMAIN Numerals

NoPoi == [active |-> FALSE, suspect |-> FALSE, raw |-> << >>, kind |-> None,
          distance |-> None, limit |-> None]

\* _parse_poi_group; the raw text is kept as its parts.
Poi(field) ==
  CASE Absent(field) -> NoPoi
    [] CoordinatePair(field) -> [NoPoi EXCEPT !.active = TRUE, !.suspect = TRUE]
    [] OTHER ->
         [active |-> TRUE, suspect |-> FALSE, raw |-> SafeGroup(field),
          kind |-> IF Decoded(field) THEN field[1] ELSE None,
          distance |-> IF Decoded(field) THEN IntOf(field[2]) ELSE None,
          limit |-> IF Decoded(field) THEN IntOf(field[3]) ELSE None]

Shape(packet) ==
  CASE Len(packet) = Expected -> "confirmed"
    [] Len(packet) > Expected -> "extended"
    [] Len(packet) \in 2..(Expected - 1) -> "short"
    [] OTHER -> "unreadable"

\* parse_telemetry: a packet that is too short is not decoded at all.
Telemetry(packet) ==
  IF Shape(packet) \in {"short", "unreadable"}
  THEN [voltage |-> None, poi |-> NoPoi, gps |-> NoGps,
        words |-> [i \in 4..7 |-> None], parsed |-> FALSE]
  ELSE LET voltage == FloatOf(Word(packet[1]))
       IN [voltage |-> voltage,
           poi |-> Poi(packet[2]),
           gps |-> Gps(packet[3]),
           words |-> [i \in 4..7 |-> SafeWord(Word(packet[i]))],
           parsed |-> voltage # None /\ Shape(packet) = "confirmed"]
=============================================================================
