----------------------------- MODULE GnssClient -----------------------------
(***************************************************************************)
(* The gpsd client: one task that connects, reads a line at a time raced   *)
(* against the stop event, and reconnects after a wait.  The backoff is a  *)
(* free wait.  Time is counted in ticks, up to one past staleness; a fix   *)
(* is its validity, its satellites and its age.                            *)
(***************************************************************************)
EXTENDS Naturals

CONSTANT StaleAfter      \* stale_after_seconds, in ticks

ASSUME GnssAssumption == StaleAfter \in Nat

VARIABLES
  gnss,          \* the task: "off", "connect", "session", "backoff", "done"
  fix,           \* _fix
  satellites,    \* _satellites, 0 for None
  word           \* history: the receiver's last TPV and the time since

gnssVars == <<gnss, fix, satellites, word>>

NoFix == [valid |-> FALSE, satellites |-> 0, age |-> 0]
NoWord == [valid |-> FALSE, age |-> 0]

GnssInit ==
  /\ gnss = "off"
  /\ fix = NoFix
  /\ satellites = 0
  /\ word = NoWord

GnssStart ==
  /\ gnss' = "connect"
  /\ fix' = NoFix
  /\ satellites' = 0
  /\ word' = NoWord

\* _session: the connection is open and the watch command sent.
GnssConnects ==
  /\ gnss = "connect"
  /\ gnss' = "session"
  /\ UNCHANGED <<fix, satellites, word>>

\* gpsd is down, or a read raises; an end of file is a clean return that
\* waits as well.
GnssLoses(stop) ==
  /\ gnss \in {"connect", "session"}
  /\ gnss' = IF stop THEN "done" ELSE "backoff"
  /\ UNCHANGED <<fix, satellites, word>>

GnssRetries ==
  /\ gnss = "backoff"
  /\ gnss' = "connect"
  /\ UNCHANGED <<fix, satellites, word>>

\* Mutant of FixAfter: a report without a fix leaves the last one in place.
FixAfterValid(valid) ==
  IF valid THEN [valid |-> TRUE, satellites |-> satellites, age |-> 0] ELSE fix

\* parse_tpv in _consume, with the satellites of the last SKY report.
FixAfter(valid) == [valid |-> valid, satellites |-> satellites, age |-> 0]

Tpv(valid) ==
  /\ fix' = FixAfter(valid)
  /\ word' = [valid |-> valid, age |-> 0]
  /\ UNCHANGED <<gnss, satellites>>

Sky(used) ==
  /\ satellites' = used
  /\ UNCHANGED <<gnss, fix, word>>

\* A line of the session.  One that is malformed, too long or of another
\* class changes counters only.
GnssLine ==
  /\ gnss = "session"
  /\ \/ \E valid \in BOOLEAN : Tpv(valid)
     \/ \E used \in {1, 2} : Sky(used)

\* Neither wait of the task outlasts a stop; opening a connection does.
GnssStops ==
  /\ gnss \in {"session", "backoff"}
  /\ gnss' = "done"
  /\ UNCHANGED <<fix, satellites, word>>

GnssCancelled ==
  /\ gnss' = IF gnss = "off" THEN "off" ELSE "done"
  /\ UNCHANGED <<fix, satellites, word>>

GnssExit ==
  /\ gnss' = "off"
  /\ fix' = NoFix
  /\ satellites' = 0
  /\ word' = NoWord

Older(age) == IF age > StaleAfter THEN age ELSE age + 1

GnssTick ==
  /\ gnss # "off"
  /\ fix' = [fix EXCEPT !.age = Older(@)]
  /\ word' = [word EXCEPT !.age = Older(@)]
  /\ UNCHANGED <<gnss, satellites>>

\* The property fix of GnssClient.
CurrentFix == IF fix.valid /\ fix.age <= StaleAfter THEN fix ELSE NoFix

GnssStep == GnssConnects \/ GnssRetries \/ GnssLine \/ GnssTick
=============================================================================
