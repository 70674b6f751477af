--------------------------- MODULE MCAlertTracker ---------------------------
(***************************************************************************)
(* Instances of AlertTracker.  PassingSources has two readings of one K    *)
(* source drifting within the tolerance, its reclassification as K POP at  *)
(* the other end of the car, and a Ka source.  CloseSources has three K    *)
(* readings within one tolerance of each other.                            *)
(***************************************************************************)
EXTENDS AlertTracker

Reading(band, freq, direction, strength) ==
  [band |-> band, gun |-> None, freq |-> freq, direction |-> direction,
   strength |-> strength]

PassingSources ==
  {Reading("K", 0, "F", 3), Reading("K", 16, "S", 5),
   Reading("K POP", 4, "R", 5), Reading("KA", 0, "F", 2)}

CloseSources ==
  {Reading("K", 0, "F", 3), Reading("K", 8, "F", 3), Reading("K", 10, "F", 3)}
=============================================================================
