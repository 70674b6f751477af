------------------------------ MODULE OneShot ------------------------------
(***************************************************************************)
(* The commands that open the link once: identity, live, inspect, survey.  *)
(* One session each: connect, look at the services, read, subscribe and    *)
(* wait for a window (live, and survey when it listens), unsubscribe in a  *)
(* finally, disconnect.  Every await may return, raise what the session    *)
(* tolerates, or hang; a ceiling cancels the session of all but survey.    *)
(* Payloads are what the parser makes of them, and left out.               *)
(***************************************************************************)
EXTENDS Detector, Naturals

CONSTANTS
  Reads,         \* bound on the reads of a session
  Handlers       \* the characteristics live subscribes to

ASSUME OneShotAssumption == Reads \in Nat \ {0} /\ Handlers \in Nat \ {0}

VARIABLES
  command,       \* the command, "none" between two
  at,            \* where its session is; "off", or "over" when it reports
  left,          \* reads or subscriptions still to come
  subscribed,    \* established subscriptions
  raw,           \* a payload was retained
  cancelled,     \* the ceiling fired
  report,        \* what the session found: connected, compatible
  captured       \* the private capture was written

sessionVars ==
  <<command, at, left, subscribed, raw, cancelled, report, captured>>

Found(connected, compatible) ==
  [connected |-> connected, compatible |-> compatible]

OneShotInit ==
  /\ command = "none"
  /\ at = "off"
  /\ left = 0
  /\ subscribed = 0
  /\ raw = FALSE
  /\ cancelled = FALSE
  /\ report = Found(FALSE, FALSE)
  /\ captured = FALSE

SessionBegins(c) ==
  /\ command' = c
  /\ at' = "connect"
  /\ left' = Reads
  /\ subscribed' = 0
  /\ raw' = FALSE
  /\ cancelled' = FALSE
  /\ report' = Found(FALSE, FALSE)
  /\ captured' = FALSE
  /\ UNCHANGED detectorVars

\* check_compatibility, where the command does it: an incompatible device is
\* left alone.
Connected ==
  /\ at = "connect"
  /\ linked' = TRUE
  /\ \E compatible \in BOOLEAN :
       /\ report' = Found(TRUE, compatible)
       /\ at' = IF command \in {"live", "inspect"} /\ ~compatible
                THEN "release" ELSE "read"
  /\ UNCHANGED <<bonded, trusted, command, left, subscribed, raw, cancelled,
                 captured>>

\* The connect fails or times out: nothing was held.
ConnectFails ==
  /\ at = "connect"
  /\ at' = "over"
  /\ UNCHANGED <<detectorVars, command, left, subscribed, raw, cancelled,
                 report, captured>>

Subscriptions ==
  CASE command = "live"   -> {Handlers}
    [] command = "survey" -> {0, 1}
    [] OTHER              -> {0}

\* A read returns a payload or raises; either way the next one follows.
ReadReturns ==
  /\ at = "read"
  /\ raw' \in {raw, TRUE}
  /\ IF left > 1
     THEN left' = left - 1 /\ UNCHANGED at
     ELSE /\ left' \in Subscriptions
          /\ at' = IF left' = 0 THEN "release" ELSE "subscribe"
  /\ UNCHANGED <<detectorVars, command, subscribed, cancelled, report,
                 captured>>

SubscribeReturns ==
  /\ at = "subscribe"
  /\ left' = left - 1
  /\ subscribed' \in {subscribed, subscribed + 1}
  /\ at' = CASE left' > 0 -> "subscribe"
             [] left' = 0 /\ subscribed' > 0 -> "window"
             [] OTHER -> "release"
  /\ UNCHANGED <<detectorVars, command, raw, cancelled, report, captured>>

Notified ==
  /\ subscribed > 0
  /\ raw' = TRUE
  /\ UNCHANGED <<detectorVars, command, at, left, subscribed, cancelled, report,
                 captured>>

WindowEnds ==
  /\ at = "window"
  /\ at' = "unsubscribe"
  /\ UNCHANGED <<detectorVars, command, left, subscribed, raw, cancelled,
                 report, captured>>

UnsubscribeReturns ==
  /\ at = "unsubscribe"
  /\ subscribed' = subscribed - 1
  /\ at' = IF subscribed' = 0 THEN "release" ELSE at
  /\ UNCHANGED <<detectorVars, command, left, raw, cancelled, report, captured>>

\* Mutant of Ceiled: the ceiling is put on the window only.
CeiledWindow == command # "survey" /\ at = "window"

\* Where the wait_for around a session can cancel it: at every await, the
\* disconnect included.  survey has none.
Ceiled ==
  /\ command # "survey"
  /\ at \in {"connect", "read", "subscribe", "window", "unsubscribe", "release"}

\* The cancellation leaves through the finally blocks: a session that has
\* subscribed awaits its unsubscribes, and wait_for awaits the session.  One
\* that is cancelled while it unsubscribes skips the rest.  A disconnect that
\* is cancelled has been asked of BlueZ, which carries it out all the same.
Expire ==
  /\ Ceiled
  /\ ~cancelled
  /\ cancelled' = TRUE
  /\ at' = CASE at = "connect" -> "over"
             [] at \in {"subscribe", "window"} /\ subscribed > 0 ->
                  "unsubscribe"
             [] OTHER -> "release"
  /\ UNCHANGED <<detectorVars, command, left, subscribed, raw, report,
                 captured>>

Released ==
  /\ at = "release"
  /\ at' = "over"
  /\ linked' = FALSE
  /\ subscribed' = 0
  /\ UNCHANGED <<bonded, trusted, command, left, raw, cancelled, report,
                 captured>>

\* A session that the ceiling cancelled is reported as one that never
\* connected; what live received is captured all the same, what inspect read
\* is not.
Report ==
  /\ at = "over"
  /\ at' = "off"
  /\ report' = IF cancelled THEN Found(FALSE, FALSE) ELSE report
  /\ captured' \in
       {FALSE, CASE command = "live" -> raw
                 [] command = "inspect" -> raw /\ ~cancelled
                 [] command = "survey" -> report.connected
                 [] OTHER -> FALSE}
  /\ UNCHANGED <<detectorVars, command, left, subscribed, raw, cancelled>>

SessionStep ==
  \/ Connected \/ ConnectFails \/ ReadReturns \/ SubscribeReturns \/ Notified
  \/ WindowEnds \/ UnsubscribeReturns \/ Expire \/ Released \/ Report
=============================================================================
