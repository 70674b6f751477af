------------------------------ MODULE Encounters ------------------------------
(***************************************************************************)
(* What the event stream promises about encounters with a threat: each one *)
(* is announced once, may be updated while it lasts, is ended once, and is *)
(* over for good.  When the link goes away every encounter is ended.       *)
(***************************************************************************)

VARIABLES
  up,        \* the link is up
  live,      \* the encounters announced and not ended
  over,      \* the encounters that were ended
  said       \* the encounters the last step started, updated and ended

encounterVars == <<up, live, over, said>>

Nothing == [start |-> {}, update |-> {}, end |-> {}]

Init ==
  /\ up = TRUE
  /\ live = {}
  /\ over = {}
  /\ said = Nothing

Recorded ==
  /\ live' = (live \cup said'.start) \ said'.end
  /\ over' = over \cup said'.end

\* A snapshot announces new encounters, updates live ones and ends others.
Snapshot ==
  /\ up
  /\ up' = up
  /\ said'.start \cap (live \cup over) = {}
  /\ said'.update \subseteq live
  /\ said'.end \subseteq live \ said'.update
  /\ Recorded

\* The link goes away and comes back.
HangUp ==
  /\ up
  /\ up' = FALSE
  /\ said' = [start |-> {}, update |-> {}, end |-> live]
  /\ Recorded

Reconnect ==
  /\ ~up
  /\ up' = TRUE
  /\ said' = Nothing
  /\ UNCHANGED <<live, over>>

Next == Snapshot \/ HangUp \/ Reconnect

Spec == Init /\ [][Next]_encounterVars
=============================================================================
