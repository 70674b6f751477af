------------------------------ MODULE Detector ------------------------------
(***************************************************************************)
(* The detector as BlueZ knows it, shared by the commands that pair with   *)
(* it and the commands that open a link to it.                             *)
(***************************************************************************)
VARIABLES
  bonded,        \* BlueZ holds a bond
  trusted,       \* BlueZ reconnects to it by itself
  linked         \* a link is up; the detector does not advertise meanwhile

detectorVars == <<bonded, trusted, linked>>

DetectorInit ==
  /\ bonded \in BOOLEAN
  /\ trusted = FALSE
  /\ linked = FALSE

\* The detector goes out of range, or BlueZ comes back to a trusted device.
LinkGoes ==
  /\ linked
  /\ linked' = FALSE
  /\ UNCHANGED <<bonded, trusted>>

LinkReturns ==
  /\ bonded /\ trusted /\ ~linked
  /\ linked' = TRUE
  /\ UNCHANGED <<bonded, trusted>>
=============================================================================
