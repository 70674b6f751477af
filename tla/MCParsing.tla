----------------------------- MODULE MCParsing -----------------------------
(***************************************************************************)
(* The packets and databases of the run: one slot of each kind of band,    *)
(* known or not, by itself and in pairs; the POI and GPS groups that were  *)
(* seen and those the tripwire is for; records whose bytes read as type    *)
(* bytes, so that a wrong layout can account for a blob too.               *)
(***************************************************************************)
EXTENDS Parsing

MCSlots ==
  {<<"0">>,
   <<"1", "00", "ka", "5", "35", "34.7", "f", "1">>,
   <<"1", "00", "LASER", "5", "35", "2", "S", "2", "9">>,
   <<"1", "00", "MRCD", "1", "", "", "R", "5">>,
   <<"1", "00", "zed", "2", "35", "34.7", "zed", "zed">>}

MCAlertPackets == {<<s>> : s \in MCSlots} \cup {<<s, t>> : s, t \in MCSlots}

MCPoiGroups ==
  {<<"0">>, <<"SPEEDCAM", "500", "35">>, <<"zed", "34.7", "-118.2">>,
   <<"-118.2", "34.7", "5">>}

MCGpsGroups ==
  {<<"0">>, <<"N", "35", "500", "C">>, <<"", "0", "0", "D">>,
   <<"34.7", "-118.2", "500", "C">>}

MCTelemetryPackets ==
  {<<<<"12.6">>, poi, gps, <<"0">>, <<"5">>, <<"0">>, <<"2">>>> \o more :
     poi \in MCPoiGroups, gps \in MCGpsGroups, more \in {<< >>, << <<"9">> >>}}

MCRecords ==
  {[b \in 1..13 |-> IF b = 1 THEN 1 ELSE 3], [b \in 1..10 |-> 3],
   [b \in 1..10 |-> IF b = 1 THEN 3 ELSE 0]}

MCJunk == {"", "zed", "<b>", "9", "nan", "34.7"}
=============================================================================
