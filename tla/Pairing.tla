------------------------------ MODULE Pairing ------------------------------
(***************************************************************************)
(* pair(): a dialogue with bluetoothctl through a queue of lines, in at    *)
(* most Attempts attempts, and the looks and corrections after it.  The    *)
(* exchange with the detector runs in BlueZ: it may outlive the 60 seconds *)
(* an attempt waits, and answer the next one or nobody.  A line is what    *)
(* the dialogue makes of it; the scan and the wording of details are left  *)
(* out.                                                                    *)
(***************************************************************************)
EXTENDS Detector, Naturals, Sequences

CONSTANT Attempts      \* attempts of pair()

ASSUME PairingAssumption == Attempts \in Nat \ {0}

VARIABLES
  talk,          \* where pair() is; "off" when it is not running
  attempt,       \* the attempt of the loop
  lines,         \* _Session._lines, what bluetoothctl printed
  exchange,      \* BlueZ: "none", "running", "asked" (for a confirmation)
  result,        \* PairingResult: paired, trusted, connected
  truth          \* history: what a deciding look would have found, and if it
                 \* was answered

pairVars == <<talk, attempt, lines, exchange, result, truth>>

NoResult == [paired |-> FALSE, trusted |-> FALSE, connected |-> FALSE]
Unlooked == [trusted |-> FALSE, linked |-> FALSE, answered |-> TRUE]

PairingInit ==
  /\ talk = "off"
  /\ attempt = 0
  /\ lines = << >>
  /\ exchange = "none"
  /\ result = NoResult
  /\ truth = Unlooked

\* The guard has passed: the agent is registered, the scan is over, the first
\* attempt is next.
PairBegins ==
  /\ talk' = "attempt"
  /\ attempt' = 1
  /\ lines' = << >>
  /\ result' = NoResult
  /\ truth' = Unlooked
  /\ UNCHANGED <<detectorVars, exchange>>

\* _Session.close: bluetoothctl goes, and with it the agent and the exchange.
PairCloses ==
  /\ talk = "judge"
  /\ talk' = "off"
  /\ exchange' = "none"
  /\ UNCHANGED <<attempt, lines, result, truth>>

\* drain, and the pair command; BlueZ refuses a device it is pairing with or
\* has a bond with.
SendPair ==
  /\ talk = "attempt"
  /\ talk' = "await"
  /\ IF bonded \/ exchange # "none"
     THEN lines' = <<"failed">> /\ UNCHANGED exchange
     ELSE lines' = << >> /\ exchange' = "running"
  /\ UNCHANGED <<detectorVars, attempt, result, truth>>

\* The loop after an attempt: done with the first success or the last failure.
Judged(paired) ==
  /\ result' = [result EXCEPT !.paired = paired]
  /\ IF paired \/ attempt = Attempts
     THEN talk' = "look trusted" /\ UNCHANGED attempt
     ELSE talk' = "attempt" /\ attempt' = attempt + 1

\* _await_pairing reads a line: a confirmation is answered, anything else it
\* waits for is the verdict.
Hear ==
  /\ talk = "await"
  /\ lines # << >>
  /\ lines' = Tail(lines)
  /\ IF Head(lines) = "confirm"
     THEN /\ exchange' = IF exchange = "asked" THEN "running" ELSE exchange
          /\ UNCHANGED <<talk, attempt, result>>
     ELSE /\ Judged(Head(lines) = "ok")
          /\ UNCHANGED exchange
  /\ UNCHANGED <<detectorVars, truth>>

Silence ==
  /\ talk = "await"
  /\ lines = << >>
  /\ Judged(FALSE)
  /\ UNCHANGED <<detectorVars, lines, exchange, truth>>

\* device_info: an answer, or none, which reads as "no".
Look(from, yes, no, seen, field) ==
  /\ talk = from
  /\ \E answered \in BOOLEAN :
       LET says == answered /\ seen
       IN /\ talk' = IF says THEN yes ELSE no
          /\ result' = [result EXCEPT ![field] = says]
          /\ truth' = [truth EXCEPT !.trusted = trusted, !.linked = linked,
                                    !.answered = answered /\ @]
  /\ UNCHANGED <<detectorVars, attempt, lines, exchange>>

LookTrusted ==
  Look("look trusted", "untrust", "look connected", trusted, "trusted")
LookAgain ==
  Look("look again", "look connected", "look connected", trusted, "trusted")
LookConnected ==
  Look("look connected", "disconnect", "look last", linked, "connected")
LookLast == Look("look last", "judge", "judge", linked, "connected")

\* A command that BlueZ may carry out or not before it is looked at.
Untrust ==
  /\ talk = "untrust"
  /\ talk' = "look again"
  /\ trusted' \in {trusted, FALSE}
  /\ UNCHANGED <<bonded, linked, attempt, lines, exchange, result, truth>>

Disconnect ==
  /\ talk = "disconnect"
  /\ talk' = "look last"
  /\ linked' \in {linked, FALSE}
  /\ UNCHANGED <<bonded, trusted, attempt, lines, exchange, result, truth>>

\* BlueZ, by itself.
ExchangeEnds ==
  /\ exchange # "none"
  /\ exchange' = "none"
  /\ \/ /\ bonded' = TRUE /\ linked' = TRUE
        /\ trusted' \in BOOLEAN
        /\ lines' = Append(lines, "ok")
     \/ /\ lines' = Append(lines, "failed")
        /\ UNCHANGED detectorVars
  /\ UNCHANGED <<talk, attempt, result, truth>>

ExchangeAsks ==
  /\ exchange = "running"
  /\ exchange' = "asked"
  /\ \E prompt \in {"confirm", "entry"} : lines' = Append(lines, prompt)
  /\ UNCHANGED <<detectorVars, talk, attempt, result, truth>>

Dialogue ==
  \/ SendPair \/ Hear \/ Silence
  \/ LookTrusted \/ LookAgain \/ LookConnected \/ LookLast
  \/ Untrust \/ Disconnect

BlueZ == ExchangeEnds \/ ExchangeAsks
=============================================================================
