---------------------------- MODULE CommandLine ----------------------------
(***************************************************************************)
(* The one-shot commands of the command line, one after the other on the   *)
(* same detector: how each finds it, what it runs, and the status it exits *)
(* with.  pair may go on to read the identity of what it paired with.      *)
(***************************************************************************)
EXTENDS Pairing, OneShot

CONSTANT MaxCommands     \* bound on the commands

ASSUME CommandLineAssumption == MaxCommands \in Nat

VARIABLES
  exit,          \* the status of the last command, NoExit while it runs
  readOn,        \* --then-read
  commands       \* bound: commands so far

cliVars == <<exit, readOn, commands>>
vars == <<detectorVars, pairVars, sessionVars, cliVars>>

NoExit == 9

Sessions == {"identity", "live", "inspect", "survey"}

Init ==
  /\ DetectorInit
  /\ PairingInit
  /\ OneShotInit
  /\ exit = 0
  /\ readOn = FALSE
  /\ commands = 0

Idle == command = "none"

Counts == commands < MaxCommands /\ commands' = commands + 1

\* The command ends before it has touched the detector: it is not confirmed,
\* the bond list cannot be read, no bonded detector is known or it is not
\* alone, nothing advertises.
GivesUp ==
  /\ Idle
  /\ Counts
  /\ exit' \in {1, 2}
  /\ UNCHANGED <<detectorVars, pairVars, sessionVars, readOn>>

\* live, inspect and survey resolve the bonded detector; identity looks for one
\* that advertises when there is none, which a linked one does not.
Resolves(c) == bonded \/ (c = "identity" /\ ~linked)

RunSession(c) ==
  /\ Idle
  /\ Counts
  /\ Resolves(c)
  /\ SessionBegins(c)
  /\ exit' = NoExit
  /\ UNCHANGED <<pairVars, readOn>>

\* pair: every bonded device is protected, with --use-bond too.
Guarded == ~bonded

RunPair ==
  /\ Idle
  /\ Counts
  /\ Guarded
  /\ ~linked
  /\ PairBegins
  /\ command' = "pair"
  /\ exit' = NoExit
  /\ readOn' \in BOOLEAN
  /\ UNCHANGED <<at, left, subscribed, raw, cancelled, report, captured>>

\* Mutant of Earned: the postconditions are a footnote.
EarnedByPairing == result.paired

\* The postconditions of _cmd_pair.
Earned == result.paired /\ ~result.trusted /\ ~result.connected

PairEnds ==
  /\ command = "pair"
  /\ PairCloses
  /\ IF Earned /\ readOn
     THEN SessionBegins("identity") /\ UNCHANGED exit
     ELSE /\ exit' = IF Earned THEN 0 ELSE 1
          /\ command' = "none"
          /\ UNCHANGED <<detectorVars, at, left, subscribed, raw, cancelled,
                         report, captured>>
  /\ UNCHANGED <<readOn, commands>>

\* What a command calls a success.
Succeeded ==
  IF command \in {"live", "inspect"}
  THEN report.compatible ELSE report.connected

SessionEnds ==
  /\ command \in Sessions
  /\ at = "off"
  /\ command' = "none"
  /\ exit' = IF Succeeded THEN 0 ELSE 1
  /\ UNCHANGED <<detectorVars, pairVars, at, left, subscribed, raw, cancelled,
                 report, captured, readOn, commands>>

PairMoves == (Dialogue \/ BlueZ) /\ UNCHANGED <<sessionVars, cliVars>>
SessionMoves == SessionStep /\ UNCHANGED <<pairVars, cliVars>>
DetectorMoves ==
  /\ LinkGoes \/ LinkReturns
  /\ UNCHANGED <<pairVars, sessionVars, cliVars>>

Next ==
  \/ GivesUp \/ (\E c \in Sessions : RunSession(c)) \/ RunPair
  \/ PairEnds \/ SessionEnds
  \/ PairMoves \/ SessionMoves \/ DetectorMoves

\* What is bounded by a timeout or by nothing but the loop.  A read, a
\* subscribe and an unsubscribe may hang; a disconnect of bleak returns.
Fairness ==
  WF_vars(/\ \/ Connected \/ ConnectFails \/ WindowEnds \/ Expire
             \/ Released \/ Report
          /\ UNCHANGED <<pairVars, cliVars>>)

Spec == Init /\ [][Next]_vars /\ Fairness
-----------------------------------------------------------------------------
\* A command that exits with 0, or goes on as if it would, has earned it: the
\* detector is bonded, whichever attempt the answer belonged to, and every look
\* that was answered found it untrusted and disconnected; a session was not cut
\* short.
SuccessIsEarned ==
  [][/\ PairCloses /\ (exit' = 0 \/ command' = "identity") =>
          /\ bonded
          /\ truth.answered => ~truth.trusted /\ ~truth.linked
     /\ command \in Sessions /\ command' = "none" /\ exit' = 0 =>
          report.connected /\ ~cancelled]_vars

\* The link is given back on every path out of a session, and a session that
\* has a ceiling ends, unless an unsubscribe hangs after the ceiling fired.
LinkFreed ==
  /\ [](at = "over" /\ report.connected => ~linked \/ trusted)
  /\ (at # "off" /\ command # "survey")
       ~> (at = "off" \/ (cancelled /\ at = "unsubscribe"))

\* survey.py: "Ceiling on the whole connect-enumerate-disconnect cycle."
SurveyEnds == (command = "survey") ~> (command # "survey")
=============================================================================
