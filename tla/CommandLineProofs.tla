------------------------- MODULE CommandLineProofs -------------------------
(***************************************************************************)
(* Proofs about what the one-shot commands report, in two parts.           *)
(*                                                                         *)
(* The sessions, for any number of attempts, reads, subscriptions and      *)
(* commands: what a command that reports success may be believed to have   *)
(* found.                                                                  *)
(*                                                                         *)
(* The parsers, for every packet, every damage to it and every database:   *)
(* a detection is not read away, a failure is no reading, and a difference *)
(* of two databases is one of their records.  ParsingInv says what damage  *)
(* leaves standing.  The walk over a database is a recursive function: it  *)
(* is shown to exist, and to find what was laid, from the end of the blob  *)
(* to its first byte.                                                      *)
(***************************************************************************)
EXTENDS CommandLine, Parsing, SequenceTheorems, TLAPS, WellFoundedInduction

Results == [paired : BOOLEAN, trusted : BOOLEAN, connected : BOOLEAN]
Truths == [trusted : BOOLEAN, linked : BOOLEAN, answered : BOOLEAN]
Reports == [connected : BOOLEAN, compatible : BOOLEAN]
Said == {"ok", "failed", "confirm", "entry"}

Typed ==
  /\ bonded \in BOOLEAN /\ trusted \in BOOLEAN /\ linked \in BOOLEAN
  /\ result \in Results
  /\ truth \in Truths
  /\ report \in Reports
  /\ cancelled \in BOOLEAN
  /\ lines \in Seq(Said)

\* A pairing that was announced, heard yet or not, has left a bond; and where
\* there is a bond, nothing is being exchanged any more.
BondBehind ==
  /\ \A i \in 1..Len(lines) : lines[i] = "ok" => bonded
  /\ result.paired => bonded
  /\ bonded => exchange = "none"

\* After the looks at the trust, and after the last look at the link.
TrustSeen == {"look connected", "disconnect", "look last", "judge"}

LooksStand ==
  result.paired /\ truth.answered =>
    /\ talk \in TrustSeen /\ ~result.trusted => ~trusted /\ ~truth.trusted
    /\ talk = "judge" /\ ~result.connected => ~truth.linked

\* Only a pair command talks, only the other commands hold a session.
OneAtATime ==
  /\ talk # "off" => command = "pair"
  /\ at # "off" => command \in Sessions

\* A session that was cut short reports that it found nothing.
CutShort ==
  /\ report.compatible => report.connected
  /\ at = "off" /\ cancelled => ~report.connected

EarnedInv == Typed /\ BondBehind /\ LooksStand /\ OneAtATime /\ CutShort

LEMMA InitEarnedInv == Init => EarnedInv
  <1> SUFFICES ASSUME Init PROVE EarnedInv
    OBVIOUS
  <1> USE DEF Init, DetectorInit, PairingInit, OneShotInit
  <1>1. Typed
    <2>1. << >> \in Seq(Said)
      BY EmptySeq
    <2> QED BY <2>1 DEF Typed, NoResult, Unlooked, Found, Results, Truths,
                        Reports
  <1>2. BondBehind
    <2>1. Len(lines) = 0
      OBVIOUS
    <2>2. \A i \in 1..Len(lines) : lines[i] = "ok" => bonded
      BY <2>1
    <2> QED BY <2>2 DEF BondBehind, NoResult
  <1>3. LooksStand /\ OneAtATime /\ CutShort
    BY DEF LooksStand, OneAtATime, CutShort, NoResult, Found
  <1> QED BY <1>1, <1>2, <1>3 DEF EarnedInv

\* What the bond and the lines may do: the bond stays, or comes with its line.
LEMMA BondStep ==
  ASSUME EarnedInv, lines' \in Seq(Said), bonded' \in BOOLEAN,
         bonded => bonded',
         result'.paired => result.paired \/ bonded',
         bonded' => exchange' = "none",
         \/ lines' = lines \/ lines' = << >>
         \/ lines # << >> /\ lines' = Tail(lines)
         \/ \E l \in Said : lines' = Append(lines, l) /\ (l = "ok" => bonded')
         \/ lines' = <<"failed">>
  PROVE  BondBehind'
  <1> USE DEF EarnedInv, Typed, BondBehind
  <1>1. ASSUME NEW i \in 1..Len(lines'), lines'[i] = "ok" PROVE bonded'
    <2>1. CASE lines' = lines
      BY <1>1, <2>1
    <2>2. CASE lines' = << >>
      <3>1. Len(lines') = 0
        BY <2>2
      <3> QED BY <1>1, <3>1
    <2>3. CASE lines # << >> /\ lines' = Tail(lines)
      <3>1. lines'[i] = lines[i + 1] /\ i + 1 \in 1..Len(lines)
        BY <1>1, <2>3
      <3> QED BY <1>1, <3>1
    <2>4. ASSUME NEW l \in Said, lines' = Append(lines, l), l = "ok" => bonded'
          PROVE  bonded'
      <3>1. CASE i \in 1..Len(lines)
        <4>1. lines'[i] = lines[i]
          BY <2>4, <3>1
        <4> QED BY <1>1, <3>1, <4>1
      <3>2. CASE i \notin 1..Len(lines)
        <4>1. i = Len(lines) + 1 /\ lines'[i] = l
          BY <1>1, <2>4, <3>2
        <4> QED BY <1>1, <2>4, <4>1
      <3> QED BY <3>1, <3>2
    <2>5. CASE lines' = <<"failed">>
      <3>1. i = 1 /\ lines'[i] = "failed"
        BY <1>1, <2>5
      <3> QED BY <1>1, <3>1
    <2> QED BY <2>1, <2>2, <2>3, <2>4, <2>5
  <1>2. result'.paired => bonded'
    OBVIOUS
  <1> QED BY <1>1, <1>2

\* Where a step comes from.
Dialogues ==
  (Dialogue \/ BlueZ) /\ UNCHANGED <<sessionVars, cliVars>>
Others ==
  \/ GivesUp \/ (\E c \in Sessions : RunSession(c)) \/ SessionEnds
  \/ SessionMoves \/ DetectorMoves \/ UNCHANGED vars

LEMMA StepCases ==
  [Next]_vars => Dialogues \/ RunPair \/ PairEnds \/ Others
  BY DEF Next, PairMoves, Dialogues, Others

LEMMA OthersLeavePairing ==
  ASSUME Others
  PROVE  UNCHANGED pairVars /\ bonded' = bonded /\ trusted' = trusted
  BY DEF Others, GivesUp, RunSession, SessionBegins, SessionEnds, SessionMoves,
         DetectorMoves, vars, detectorVars, LinkGoes, LinkReturns, SessionStep,
         Connected, ConnectFails, ReadReturns, SubscribeReturns, Notified,
         WindowEnds, UnsubscribeReturns, Expire, Released, Report

LEMMA DialogueKeeps ==
  ASSUME EarnedInv, Dialogues
  PROVE  EarnedInv'
  <1> USE DEF EarnedInv
  <1>a. UNCHANGED <<command, at, report, cancelled>>
    BY DEF Dialogues, sessionVars
  <1>b. /\ result \in Results /\ truth \in Truths /\ lines \in Seq(Said)
        /\ bonded \in BOOLEAN /\ trusted \in BOOLEAN /\ linked \in BOOLEAN
    BY DEF Typed
  <1>c. << >> \in Seq(Said) /\ <<"failed">> \in Seq(Said)
    BY EmptySeq DEF Said
  <1>d. CutShort'
    BY <1>a DEF CutShort
  <1>e. ASSUME lines' \in Seq(Said), result' \in Results, truth' \in Truths,
               bonded' \in BOOLEAN, trusted' \in BOOLEAN, linked' \in BOOLEAN
        PROVE  Typed'
    BY <1>a, <1>e DEF Typed
  <1>f. talk # "off" => OneAtATime'
    BY <1>a DEF OneAtATime
  <1>1. CASE SendPair
    <2>0. /\ talk = "attempt" /\ talk' = "await"
          /\ UNCHANGED <<bonded, trusted, linked, result, truth>>
          /\ lines' \in {<< >>, <<"failed">>}
          /\ bonded => exchange' = exchange
      BY <1>1 DEF SendPair, detectorVars
    <2>1. Typed'
      BY <1>b, <1>c, <1>e, <2>0
    <2>2. BondBehind'
      BY <1>b, <1>c, <2>0, BondStep DEF BondBehind
    <2>3. LooksStand'
      BY <2>0 DEF LooksStand, TrustSeen
    <2> QED BY <1>d, <1>f, <2>0, <2>1, <2>2, <2>3
  <1>2. CASE Hear \/ Silence
    <2>0. /\ talk = "await"
          /\ UNCHANGED <<bonded, trusted, linked, truth>>
          /\ lines' = lines \/ (lines # << >> /\ lines' = Tail(lines))
          /\ bonded => exchange = "none" /\ exchange' = "none"
          /\ \/ result' = result /\ talk' = "await"
             \/ /\ talk' \in {"attempt", "look trusted"}
                /\ \E paired \in BOOLEAN :
                     /\ result' = [result EXCEPT !.paired = paired]
                     /\ paired => lines # << >> /\ Head(lines) = "ok"
      BY <1>2 DEF Hear, Silence, Judged, detectorVars, BondBehind
    <2>1. lines # << >> /\ Head(lines) = "ok" => bonded
      <3>1. lines # << >> => Head(lines) = lines[1] /\ 1 \in 1..Len(lines)
        BY <1>b
      <3> QED BY <3>1 DEF BondBehind
    <2>2. result' \in Results /\ (result'.paired => result.paired \/ bonded')
      BY <1>b, <2>0, <2>1 DEF Results
    <2>3. lines' \in Seq(Said)
      <3>1. lines # << >> => Tail(lines) \in Seq(Said)
        BY <1>b, HeadTailProperties
      <3> QED BY <1>b, <2>0, <3>1
    <2>4. Typed'
      BY <1>b, <1>e, <2>0, <2>2, <2>3
    <2>5. BondBehind'
      BY <1>b, <2>0, <2>2, <2>3, BondStep
    <2>6. LooksStand'
      BY <2>0 DEF LooksStand, TrustSeen
    <2> QED BY <1>d, <1>f, <2>0, <2>4, <2>5, <2>6
  <1>3. CASE LookTrusted \/ LookAgain \/ LookConnected \/ LookLast
    <2>0. /\ talk \in {"look trusted", "look again", "look connected",
                       "look last"}
          /\ UNCHANGED <<bonded, trusted, linked, lines, exchange>>
      BY <1>3 DEF LookTrusted, LookAgain, LookConnected, LookLast, Look,
                  detectorVars
    <2>1. PICK answered \in BOOLEAN :
            /\ truth' = [truth EXCEPT !.trusted = trusted, !.linked = linked,
                                      !.answered = answered /\ @]
            /\ \/ /\ LookTrusted \/ LookAgain
                  /\ result' = [result EXCEPT !.trusted = answered /\ trusted]
                  /\ talk' \in {"untrust", "look connected"}
               \/ /\ LookConnected
                  /\ result' = [result EXCEPT !.connected = answered /\ linked]
                  /\ talk = "look connected"
                  /\ talk' \in {"disconnect", "look last"}
               \/ /\ LookLast
                  /\ result' = [result EXCEPT !.connected = answered /\ linked]
                  /\ talk = "look last"
                  /\ talk' = "judge"
      BY <1>3 DEF LookTrusted, LookAgain, LookConnected, LookLast, Look
    <2>2. /\ result' \in Results /\ truth' \in Truths
          /\ result'.paired = result.paired
      BY <1>b, <2>1 DEF Results, Truths
    <2>3. Typed'
      BY <1>b, <1>e, <2>0, <2>2
    <2>4. BondBehind'
      BY <2>0, <2>2 DEF BondBehind
    <2>5. /\ truth'.trusted = trusted /\ truth'.linked = linked
          /\ truth'.answered => answered /\ truth.answered
      BY <1>b, <2>1 DEF Truths
    <2>6. LooksStand'
      <3>1. CASE LookTrusted \/ LookAgain
        <4>1. /\ result'.trusted = (answered /\ trusted)
              /\ talk' \in {"untrust", "look connected"}
          BY <1>b, <2>1, <3>1
             DEF Results, LookTrusted, LookAgain, LookConnected, LookLast, Look
        <4> QED BY <2>0, <2>5, <4>1 DEF LooksStand
      <3>2. CASE LookConnected
        <4>1. /\ result'.trusted = result.trusted
              /\ talk = "look connected" /\ talk' # "judge"
          BY <1>b, <2>1, <3>2
             DEF Results, LookTrusted, LookAgain, LookConnected, LookLast, Look
        <4> QED BY <2>0, <2>2, <2>5, <4>1 DEF LooksStand, TrustSeen
      <3>3. CASE LookLast
        <4>1. /\ result'.trusted = result.trusted
              /\ result'.connected = (answered /\ linked)
              /\ talk = "look last"
          BY <1>b, <2>1, <3>3
             DEF Results, LookTrusted, LookAgain, LookConnected, LookLast, Look
        <4> QED BY <2>0, <2>2, <2>5, <4>1 DEF LooksStand, TrustSeen
      <3> QED BY <1>3, <3>1, <3>2, <3>3
    <2> QED BY <1>d, <1>f, <2>0, <2>3, <2>4, <2>6
  <1>4. CASE Untrust \/ Disconnect
    <2>0. /\ \/ talk = "untrust" /\ talk' = "look again"
             \/ talk = "disconnect" /\ talk' = "look last"
          /\ UNCHANGED <<bonded, result, truth, lines, exchange>>
          /\ trusted' \in BOOLEAN /\ linked' \in BOOLEAN
          /\ trusted' => trusted
      <3>1. CASE Untrust
        <4>1. /\ talk = "untrust" /\ talk' = "look again"
              /\ trusted' = trusted \/ trusted' = FALSE
              /\ UNCHANGED <<bonded, linked, result, truth, lines, exchange>>
          BY <3>1 DEF Untrust
        <4>2. trusted' \in BOOLEAN /\ (trusted' => trusted)
          <5>1. CASE trusted' = trusted
            BY <1>b, <5>1
          <5>2. CASE trusted' = FALSE
            BY <5>2
          <5> QED BY <4>1, <5>1, <5>2
        <4> QED BY <1>b, <4>1, <4>2
      <3>2. CASE Disconnect
        BY <3>2, <1>b DEF Disconnect
      <3> QED BY <1>4, <3>1, <3>2
    <2>1. Typed'
      BY <1>b, <1>e, <2>0
    <2>2. BondBehind'
      BY <2>0 DEF BondBehind
    <2>3. LooksStand'
      BY <2>0 DEF LooksStand, TrustSeen
    <2> QED BY <1>d, <1>f, <2>0, <2>1, <2>2, <2>3
  <1>5. CASE ExchangeEnds \/ ExchangeAsks
    <2>0. /\ exchange # "none" /\ ~bonded
          /\ UNCHANGED <<talk, result, truth>>
          /\ \E l \in Said : lines' = Append(lines, l) /\ (l = "ok" => bonded')
          /\ bonded' \in BOOLEAN /\ trusted' \in BOOLEAN /\ linked' \in BOOLEAN
          /\ bonded' => exchange' = "none"
      <3>1. exchange # "none" /\ ~bonded
        BY <1>5, <1>b DEF ExchangeEnds, ExchangeAsks, BondBehind
      <3>2. CASE ExchangeEnds
        BY <1>b, <3>1, <3>2 DEF ExchangeEnds, Said, detectorVars
      <3>3. CASE ExchangeAsks
        BY <1>b, <3>1, <3>3 DEF ExchangeAsks, Said, detectorVars
      <3> QED BY <1>5, <3>2, <3>3
    <2>1. ~result.paired
      BY <2>0 DEF BondBehind
    <2>2. lines' \in Seq(Said)
      BY <1>b, <2>0, AppendProperties
    <2>3. Typed'
      BY <1>b, <1>e, <2>0, <2>2
    <2>4. BondBehind'
      BY <2>0, <2>2, BondStep
    <2>5. LooksStand' /\ OneAtATime'
      BY <1>a, <2>0, <2>1 DEF LooksStand, OneAtATime
    <2> QED BY <1>d, <2>3, <2>4, <2>5
  <1> QED BY <1>1, <1>2, <1>3, <1>4, <1>5 DEF Dialogues, Dialogue, BlueZ

LEMMA RunPairKeeps == EarnedInv /\ RunPair => EarnedInv'
  <1> SUFFICES ASSUME EarnedInv, RunPair PROVE EarnedInv'
    OBVIOUS
  <1> USE DEF EarnedInv
  <1>1. /\ talk' = "attempt" /\ command' = "pair" /\ lines' = << >>
        /\ result' = NoResult /\ truth' = Unlooked
        /\ UNCHANGED <<bonded, trusted, linked, exchange, at, report,
                       cancelled>>
        /\ command = "none"
    BY DEF RunPair, PairBegins, Idle, detectorVars
  <1>2. Typed'
    <2>1. << >> \in Seq(Said)
      BY EmptySeq
    <2>2. NoResult \in Results /\ Unlooked \in Truths
      BY DEF NoResult, Unlooked, Results, Truths
    <2> QED BY <1>1, <2>1, <2>2 DEF Typed
  <1>3. BondBehind'
    <2>1. /\ \A i \in 1..Len(lines') : lines'[i] = "ok" => bonded'
          /\ ~result'.paired
      <3>1. Len(lines') = 0
        BY <1>1
      <3> QED BY <1>1, <3>1 DEF NoResult
    <2> QED BY <1>1, <2>1 DEF BondBehind
  <1>4. LooksStand' /\ CutShort'
    BY <1>1 DEF LooksStand, CutShort, NoResult
  <1>5. OneAtATime'
    BY <1>1 DEF OneAtATime, Sessions
  <1> QED BY <1>2, <1>3, <1>4, <1>5

LEMMA PairEndsKeeps == EarnedInv /\ PairEnds => EarnedInv'
  <1> SUFFICES ASSUME EarnedInv, PairEnds PROVE EarnedInv'
    OBVIOUS
  <1> USE DEF EarnedInv
  <1>1. /\ talk' = "off" /\ exchange' = "none" /\ command = "pair"
        /\ UNCHANGED <<bonded, trusted, linked, lines, result, truth>>
    BY DEF PairEnds, PairCloses, SessionBegins, detectorVars
  <1>2. \/ UNCHANGED <<at, report, cancelled>> /\ command' = "none"
        \/ /\ command' = "identity" /\ at' = "connect"
           /\ report' = Found(FALSE, FALSE) /\ cancelled' = FALSE
    BY DEF PairEnds, SessionBegins
  <1>3. Typed'
    <2>1. report' \in Reports /\ cancelled' \in BOOLEAN
      <3>1. report \in Reports /\ cancelled \in BOOLEAN
        BY DEF Typed
      <3>2. Found(FALSE, FALSE) \in Reports
        BY DEF Found, Reports
      <3> QED BY <1>2, <3>1, <3>2
    <2> QED BY <1>1, <2>1 DEF Typed
  <1>4. BondBehind' /\ LooksStand'
    BY <1>1 DEF BondBehind, LooksStand, TrustSeen
  <1>5. OneAtATime'
    BY <1>1, <1>2 DEF OneAtATime, Sessions
  <1>6. CutShort'
    BY <1>2 DEF CutShort, Found
  <1> QED BY <1>3, <1>4, <1>5, <1>6

\* A session moves with its command, and reports at its end.
LEMMA SessionKeeps ==
  ASSUME EarnedInv, SessionStep, command' = command, talk' = talk
  PROVE  /\ OneAtATime' /\ CutShort'
         /\ report' \in Reports /\ cancelled' \in BOOLEAN
         /\ linked' = linked \/ linked' \in BOOLEAN
  <1> USE DEF EarnedInv
  <1>0. /\ report \in Reports /\ cancelled \in BOOLEAN
    BY DEF Typed
  <1>1. CASE Connected
    <2>1. PICK compatible \in BOOLEAN : report' = Found(TRUE, compatible)
      BY <1>1 DEF Connected
    <2>2. report' \in Reports /\ report'.connected
      BY <2>1 DEF Found, Reports
    <2>3. /\ at # "off" /\ at' # "off" /\ cancelled' = cancelled
          /\ linked' = TRUE
      BY <1>1 DEF Connected
    <2> QED BY <1>0, <2>2, <2>3 DEF OneAtATime, CutShort
  <1>2. CASE ConnectFails \/ ReadReturns \/ SubscribeReturns \/ WindowEnds
             \/ UnsubscribeReturns
    <2>1. /\ at # "off" /\ at' # "off"
          /\ UNCHANGED <<linked, report, cancelled>>
      BY <1>2 DEF ConnectFails, ReadReturns, SubscribeReturns, WindowEnds,
                  UnsubscribeReturns, detectorVars
    <2> QED BY <1>0, <2>1 DEF OneAtATime, CutShort
  <1>3. CASE Notified
    <2>1. UNCHANGED <<at, linked, report, cancelled>>
      BY <1>3 DEF Notified, detectorVars
    <2> QED BY <1>0, <2>1 DEF OneAtATime, CutShort
  <1>4. CASE Expire
    <2>1. /\ at # "off" /\ at' # "off" /\ cancelled' = TRUE
          /\ UNCHANGED <<linked, report>>
      BY <1>4 DEF Expire, Ceiled, detectorVars
    <2> QED BY <1>0, <2>1 DEF OneAtATime, CutShort
  <1>5. CASE Released
    <2>1. /\ at # "off" /\ at' # "off" /\ linked' = FALSE
          /\ UNCHANGED <<report, cancelled>>
      BY <1>5 DEF Released
    <2> QED BY <1>0, <2>1 DEF OneAtATime, CutShort
  <1>6. CASE Report
    <2>1. /\ at' = "off" /\ UNCHANGED <<linked, cancelled>>
          /\ report' = IF cancelled THEN Found(FALSE, FALSE) ELSE report
      BY <1>6 DEF Report, detectorVars
    <2>2. report' \in Reports
      BY <1>0, <2>1 DEF Found, Reports
    <2>3. CutShort'
      <3>1. CASE cancelled
        BY <2>1, <3>1 DEF CutShort, Found
      <3>2. CASE ~cancelled
        BY <2>1, <3>2 DEF CutShort
      <3> QED BY <3>1, <3>2
    <2>4. OneAtATime'
      BY <2>1 DEF OneAtATime
    <2> QED BY <1>0, <2>1, <2>2, <2>3, <2>4
  <1> QED BY <1>1, <1>2, <1>3, <1>4, <1>5, <1>6 DEF SessionStep

LEMMA OthersKeep == EarnedInv /\ Others => EarnedInv'
  <1> SUFFICES ASSUME EarnedInv, Others PROVE EarnedInv'
    OBVIOUS
  <1> USE DEF EarnedInv
  <1>1. UNCHANGED <<talk, lines, exchange, result, truth, bonded, trusted>>
    BY OthersLeavePairing DEF pairVars
  <1>2. BondBehind' /\ LooksStand'
    BY <1>1 DEF BondBehind, LooksStand
  <1>3. ASSUME report' \in Reports, cancelled' \in BOOLEAN,
               linked' = linked \/ linked' \in BOOLEAN
        PROVE  Typed'
    <2>1. linked' \in BOOLEAN
      BY <1>3 DEF Typed
    <2> QED BY <1>1, <1>3, <2>1 DEF Typed
  <1>4. report \in Reports /\ cancelled \in BOOLEAN
    BY DEF Typed
  <1>5. CASE GivesUp \/ UNCHANGED vars \/ DetectorMoves
    <2>1. UNCHANGED <<command, at, report, cancelled>>
      BY <1>5 DEF GivesUp, DetectorMoves, vars, sessionVars
    <2>2. linked' = linked \/ linked' \in BOOLEAN
      BY <1>5 DEF GivesUp, DetectorMoves, LinkGoes, LinkReturns, vars,
                  detectorVars
    <2> QED BY <1>1, <1>2, <1>3, <1>4, <2>1, <2>2 DEF OneAtATime, CutShort
  <1>6. CASE \E c \in Sessions : RunSession(c)
    <2>1. /\ command = "none" /\ command' \in Sessions /\ at' = "connect"
          /\ report' = Found(FALSE, FALSE) /\ cancelled' = FALSE
          /\ linked' = linked
      BY <1>6 DEF RunSession, SessionBegins, Idle, detectorVars
    <2>2. report' \in Reports
      BY <2>1 DEF Found, Reports
    <2>3. OneAtATime' /\ CutShort'
      BY <1>1, <2>1 DEF OneAtATime, CutShort, Found
    <2> QED BY <1>2, <1>3, <2>1, <2>2, <2>3
  <1>7. CASE SessionEnds
    <2>1. /\ command \in Sessions /\ command' = "none" /\ at = "off"
          /\ UNCHANGED <<at, report, cancelled, linked>>
      BY <1>7 DEF SessionEnds, detectorVars
    <2>2. OneAtATime' /\ CutShort'
      BY <1>1, <2>1 DEF OneAtATime, CutShort, Sessions
    <2> QED BY <1>2, <1>3, <1>4, <2>1, <2>2
  <1>8. CASE SessionMoves
    <2>1. SessionStep /\ command' = command
      BY <1>8 DEF SessionMoves, cliVars, SessionStep, Connected, ConnectFails,
                  ReadReturns, SubscribeReturns, Notified, WindowEnds,
                  UnsubscribeReturns, Expire, Released, Report
    <2> QED BY <1>1, <1>2, <1>3, <2>1, SessionKeeps
  <1> QED BY <1>5, <1>6, <1>7, <1>8 DEF Others

\* What was earned when a command reports it.
LEMMA EarnedWhenReported ==
  ASSUME EarnedInv, [Next]_vars
  PROVE  /\ PairCloses /\ (exit' = 0 \/ command' = "identity") =>
              /\ bonded
              /\ truth.answered => ~truth.trusted /\ ~truth.linked
         /\ command \in Sessions /\ command' = "none" /\ exit' = 0 =>
              report.connected /\ ~cancelled
  <1> USE DEF EarnedInv
  <1>1. ASSUME PairCloses, exit' = 0 \/ command' = "identity"
        PROVE  bonded /\ (truth.answered => ~truth.trusted /\ ~truth.linked)
    <2>1. talk = "judge" /\ talk' = "off"
      BY <1>1 DEF PairCloses
    <2>2. PairEnds
      <3>1. CASE Dialogues
        BY <2>1, <3>1
        DEF Dialogues, Dialogue, BlueZ, SendPair, Hear, Silence, Judged,
            LookTrusted, LookAgain, LookConnected, LookLast, Look, Untrust,
            Disconnect, ExchangeEnds, ExchangeAsks
      <3>2. CASE RunPair
        BY <2>1, <3>2 DEF RunPair, PairBegins
      <3>3. CASE Others
        BY <2>1, <3>3, OthersLeavePairing DEF pairVars
      <3> QED BY <3>1, <3>2, <3>3, StepCases
    <2>3. result.paired /\ ~result.trusted /\ ~result.connected
      BY <1>1, <2>2 DEF PairEnds, Earned
    <2> QED BY <2>1, <2>3 DEF BondBehind, LooksStand, TrustSeen
  <1>2. ASSUME command \in Sessions, command' = "none", exit' = 0
        PROVE  report.connected /\ ~cancelled
    <2>1. SessionEnds
      BY <1>2
      DEF Next, vars, sessionVars, GivesUp, RunSession, RunPair, Idle, PairEnds,
          PairMoves, SessionMoves, DetectorMoves, Sessions, SessionBegins,
          SessionStep, Connected, ConnectFails, ReadReturns, SubscribeReturns,
          Notified, WindowEnds, UnsubscribeReturns, Expire, Released, Report
    <2>2. Succeeded /\ at = "off"
      BY <1>2, <2>1 DEF SessionEnds
    <2> QED BY <2>2 DEF Succeeded, CutShort, Typed
  <1> QED BY <1>1, <1>2

\* A command that exits with 0 has earned it: pair found the detector bonded,
\* and nothing that was answered said trusted or connected; a session had
\* connected and was not cut short.  For any number of attempts, of late
\* answers and of commands (_cmd_pair, pairing.pair, the sessions of cli.py).
THEOREM ReportedSuccessIsEarned == Spec => SuccessIsEarned
  <1>1. EarnedInv /\ [Next]_vars => EarnedInv'
    BY StepCases, DialogueKeeps, RunPairKeeps, PairEndsKeeps, OthersKeep
  <1>2. EarnedInv /\ [Next]_vars =>
          [/\ PairCloses /\ (exit' = 0 \/ command' = "identity") =>
                /\ bonded
                /\ truth.answered => ~truth.trusted /\ ~truth.linked
           /\ command \in Sessions /\ command' = "none" /\ exit' = 0 =>
                report.connected /\ ~cancelled]_vars
    BY EarnedWhenReported
  <1> QED BY <1>1, <1>2, InitEarnedInv, PTL DEF Spec, SuccessIsEarned

-----------------------------------------------------------------------------
(* The link that a session opened.                                         *)

\* The safety half of LinkFreed.
LinkGivenBack == at = "over" /\ report.connected => ~linked \/ trusted

\* BlueZ pairs for the pair command only: no exchange outlives its agent.  A
\* session reports a connection only after it had one, and has given the link
\* back when it reports, unless BlueZ came back to a trusted device.
FreedInv ==
  /\ command # "pair" => exchange = "none"
  /\ at = "connect" => ~report.connected
  /\ LinkGivenBack

LEMMA PairSideKeepsFreed ==
  ASSUME EarnedInv, FreedInv, Dialogues \/ RunPair \/ PairEnds
  PROVE  FreedInv'
  <1> USE DEF FreedInv
  <1>1. CASE Dialogues
    <2>1. UNCHANGED <<command, at, report>>
      BY <1>1 DEF Dialogues, sessionVars
    <2>2. command = "pair"
      BY <1>1 DEF Dialogues, Dialogue, BlueZ, SendPair, Hear, Silence,
             LookTrusted, LookAgain, LookConnected, LookLast, Look, Untrust,
             Disconnect, ExchangeEnds, ExchangeAsks, EarnedInv, OneAtATime
    <2>3. at = "off"
      BY <2>2 DEF EarnedInv, OneAtATime, Sessions
    <2> QED BY <2>1, <2>2, <2>3 DEF LinkGivenBack
  <1>2. CASE RunPair
    <2>1. command = "none" /\ command' = "pair" /\ at' = at
      BY <1>2 DEF RunPair, Idle
    <2>2. at = "off"
      BY <2>1 DEF EarnedInv, OneAtATime, Sessions
    <2> QED BY <2>1, <2>2 DEF LinkGivenBack
  <1>3. CASE PairEnds
    <2>1. exchange' = "none" /\ command = "pair"
      BY <1>3 DEF PairEnds, PairCloses
    <2>2. at = "off"
      BY <2>1 DEF EarnedInv, OneAtATime, Sessions
    <2>3. \/ at' = at
          \/ at' = "connect" /\ report' = Found(FALSE, FALSE)
      BY <1>3 DEF PairEnds, SessionBegins
    <2>4. ~Found(FALSE, FALSE).connected
      BY DEF Found
    <2> QED BY <2>1, <2>2, <2>3, <2>4 DEF LinkGivenBack
  <1> QED BY <1>1, <1>2, <1>3

LEMMA OthersKeepFreed ==
  ASSUME FreedInv, Others
  PROVE  FreedInv'
  <1> USE DEF FreedInv, LinkGivenBack
  <1>1. exchange' = exchange /\ trusted' = trusted
    BY OthersLeavePairing DEF pairVars
  <1>2. CASE GivesUp \/ UNCHANGED vars \/ DetectorMoves
    <2>1. UNCHANGED <<command, at, report>>
      BY <1>2 DEF GivesUp, DetectorMoves, vars, sessionVars
    <2>2. linked' => linked \/ trusted
      BY <1>2 DEF GivesUp, DetectorMoves, LinkGoes, LinkReturns, vars,
                  detectorVars
    <2> QED BY <1>1, <2>1, <2>2
  <1>3. CASE \E c \in Sessions : RunSession(c)
    <2>1. /\ command = "none" /\ at' = "connect"
          /\ report' = Found(FALSE, FALSE)
      BY <1>3 DEF RunSession, SessionBegins, Idle
    <2>2. ~Found(FALSE, FALSE).connected
      BY DEF Found
    <2> QED BY <1>1, <2>1, <2>2
  <1>4. CASE SessionEnds
    BY <1>1, <1>4 DEF SessionEnds, Sessions, detectorVars
  <1>5. CASE SessionMoves
    <2> SUFFICES ASSUME SessionStep, command' = command PROVE FreedInv'
      BY <1>5 DEF SessionMoves, SessionStep, Connected, ConnectFails,
                  ReadReturns, SubscribeReturns, Notified, WindowEnds,
                  UnsubscribeReturns, Expire, Released, Report
    <2>1. CASE Connected
      BY <1>1, <2>1 DEF Connected
    <2>2. CASE ConnectFails
      BY <1>1, <2>2 DEF ConnectFails
    <2>3. CASE ReadReturns \/ SubscribeReturns \/ Notified \/ WindowEnds
               \/ UnsubscribeReturns
      <3>1. at' \notin {"connect", "over"} \/ at' = at
        BY <2>3 DEF ReadReturns, SubscribeReturns, Notified, WindowEnds,
                    UnsubscribeReturns
      <3>2. UNCHANGED <<report, linked>>
        BY <2>3 DEF ReadReturns, SubscribeReturns, Notified, WindowEnds,
                    UnsubscribeReturns, detectorVars
      <3> QED BY <1>1, <3>1, <3>2
    <2>4. CASE Expire
      <3>1. /\ at' \notin {"connect", "over"} \/ (at = "connect" /\ at' = "over")
            /\ report' = report
        BY <2>4 DEF Expire
      <3> QED BY <1>1, <3>1
    <2>5. CASE Released
      BY <1>1, <2>5 DEF Released
    <2>6. CASE Report
      BY <1>1, <2>6 DEF Report
    <2> QED BY <2>1, <2>2, <2>3, <2>4, <2>5, <2>6 DEF SessionStep
  <1> QED BY <1>2, <1>3, <1>4, <1>5 DEF Others

\* A session that was connected has given the link back when it reports, on
\* every path out of it, the ceiling included; a link that is up then is
\* BlueZ's own, to a device it was told to trust (the async with of receive,
\* inspect, survey and read_identity).
THEOREM LinkIsGivenBack == Spec => []LinkGivenBack
  <1>1. Init => FreedInv
    BY DEF Init, PairingInit, OneShotInit, FreedInv, LinkGivenBack, Found
  <1>2. EarnedInv /\ FreedInv /\ [Next]_vars => FreedInv'
    BY StepCases, PairSideKeepsFreed, OthersKeepFreed
  <1>3. EarnedInv /\ [Next]_vars => EarnedInv'
    BY StepCases, DialogueKeeps, RunPairKeeps, PairEndsKeeps, OthersKeep
  <1>4. FreedInv => LinkGivenBack
    BY DEF FreedInv
  <1> QED BY <1>1, <1>2, <1>3, <1>4, InitEarnedInv, PTL DEF Spec
-----------------------------------------------------------------------------
(***************************************************************************)
(* The parsers.                                                            *)
(***************************************************************************)
\* The parts of fields: strings.  (The provers do not know of a literal that it
\* is one, so those that a cut leaves are named.)
Texts == STRING \cup {"", "0", "1", "5"}

Field == Seq(Texts) \ {<< >>}

\* A packet only loses fields.
PacketsOK ==
  subject # "poi" =>
    sent \in Seq(Field) /\ received \in Seq(Field) /\ Len(received) <= Len(sent)

\* A slot that says that it is empty was sent as one that says so.
EmptyStands ==
  subject = "alerts" =>
    \A i \in 1..Len(received) : received[i][1] = "0" => sent[i][1] = "0"

\* In a telemetry packet that is long enough to be read, the groups have the
\* parts that were sent, or junk in their place.
GroupsStand ==
  subject = "telemetry" =>
    /\ sent \in TelemetryPackets
    /\ Len(received) >= Expected =>
         \A k \in {2, 3} :
           /\ Len(received[k]) = Len(sent[k])
           /\ \A m \in 1..Len(sent[k]) :
                received[k][m] = sent[k][m] \/ received[k][m] \in Junk

\* The later capture is whole, or only its last record is cut.
Bytes == 0..255

LastIsCut(records) ==
  /\ records \in Seq(Seq(Bytes)) /\ records # << >>
  /\ \A i \in 1..(Len(records) - 1) : records[i] \in Records
  /\ \E r \in Records : \E n \in 1..(Len(r) - 1) :
       records[Len(records)] = SubSeq(r, 1, n)

CapturesStand ==
  subject = "poi" =>
    sent \in Seq(Records) /\ (received \in Seq(Records) \/ LastIsCut(received))

\* What damage leaves standing: a packet only loses fields, an empty slot was
\* sent as empty, a group keeps its parts or has junk for them, and the later
\* capture is whole but for a cut at its very end.
ParsingInv ==
  /\ subject \in {"alerts", "telemetry", "poi"}
  /\ PacketsOK
  /\ EmptyStands
  /\ GroupsStand
  /\ CapturesStand
-----------------------------------------------------------------------------
\* A field that is cut at its part j keeps the parts before it.
LEMMA FieldCut ==
  ASSUME NEW s \in Field, NEW j \in 1..Len(s), NEW stub \in Texts
  PROVE  LET t == Append(SubSeq(s, 1, j - 1), stub)
         IN /\ t \in Field /\ Len(t) = j
            /\ \A m \in 1..(j - 1) : t[m] = s[m]
            /\ t[j] = stub
  <1> DEFINE front == SubSeq(s, 1, j - 1)
  <1>1. Len(s) \in Nat /\ s \in Seq(Texts) /\ j \in Int /\ j - 1 \in Int
        /\ j - 1 >= 0
    BY LenProperties DEF Field
  <1>2. \A m \in 1..(j - 1) : s[m] \in Texts
    BY <1>1, ElementOfSeq
  <1>3. /\ front \in Seq(Texts)
        /\ Len(front) = IF 1 <= j - 1 THEN (j - 1) - 1 + 1 ELSE 0
        /\ \A m \in 1..((j - 1) - 1 + 1) : front[m] = s[1 + m - 1]
    BY <1>1, <1>2, SubSeqProperties
  <1>4. Len(front) = j - 1 /\ \A m \in 1..(j - 1) : front[m] = s[m]
    BY <1>1, <1>3
  <1> HIDE DEF front
  <1>5. /\ Append(front, stub) \in Seq(Texts)
        /\ Append(front, stub) # << >>
        /\ Len(Append(front, stub)) = Len(front) + 1
        /\ \A m \in 1..Len(front) : Append(front, stub)[m] = front[m]
        /\ Append(front, stub)[Len(front) + 1] = stub
    BY <1>3, AppendProperties
  <1>6. Len(front) + 1 = j
    BY <1>1, <1>4
  <1> QED BY <1>4, <1>5, <1>6 DEF Field, front

\* A packet that is cut in its field i keeps the fields before it.
LEMMA PacketCut ==
  ASSUME NEW p \in Seq(Field), NEW i \in 1..Len(p), NEW field \in Field
  PROVE  LET q == Append(SubSeq(p, 1, i - 1), field)
         IN /\ q \in Seq(Field) /\ Len(q) = i
            /\ \A k \in 1..(i - 1) : q[k] = p[k]
            /\ q[i] = field
  <1> DEFINE front == SubSeq(p, 1, i - 1)
  <1>1. Len(p) \in Nat /\ p \in Seq(Field) /\ i \in Int /\ i - 1 \in Int
        /\ i - 1 >= 0
    BY LenProperties DEF Field
  <1>2. \A m \in 1..(i - 1) : p[m] \in Field
    BY <1>1, ElementOfSeq
  <1>3. /\ front \in Seq(Field)
        /\ Len(front) = IF 1 <= i - 1 THEN (i - 1) - 1 + 1 ELSE 0
        /\ \A m \in 1..((i - 1) - 1 + 1) : front[m] = p[1 + m - 1]
    BY <1>1, <1>2, SubSeqProperties
  <1>4. Len(front) = i - 1 /\ \A m \in 1..(i - 1) : front[m] = p[m]
    BY <1>1, <1>3
  <1> HIDE DEF front
  <1>5. /\ Append(front, field) \in Seq(Field)
        /\ Len(Append(front, field)) = Len(front) + 1
        /\ \A m \in 1..Len(front) : Append(front, field)[m] = front[m]
        /\ Append(front, field)[Len(front) + 1] = field
    BY <1>3, AppendProperties
  <1> QED BY <1>1, <1>4, <1>5 DEF Field, front

\* A field with a part replaced.
LEMMA FieldGarbled ==
  ASSUME NEW s \in Field, NEW j \in 1..Len(s), NEW w \in Texts
  PROVE  LET t == [s EXCEPT ![j] = w]
         IN /\ t \in Field /\ Len(t) = Len(s)
            /\ \A m \in 1..Len(s) : t[m] = IF m = j THEN w ELSE s[m]
  <1>1. s \in Seq(Texts) /\ Len(s) \in Nat /\ Len(s) # 0
    BY LenProperties DEF Field
  <1>2. /\ [s EXCEPT ![j] = w] \in Seq(Texts)
        /\ Len([s EXCEPT ![j] = w]) = Len(s)
        /\ \A m \in 1..Len(s) : [s EXCEPT ![j] = w][m] = IF m = j THEN w ELSE s[m]
    BY <1>1, ExceptSeq
  <1>3. [s EXCEPT ![j] = w] # << >>
    BY <1>1, <1>2, EmptySeq
  <1> QED BY <1>1, <1>2, <1>3 DEF Field

\* A packet with a field replaced.
LEMMA PacketGarbled ==
  ASSUME NEW p \in Seq(Field), NEW i \in 1..Len(p), NEW field \in Field
  PROVE  LET q == [p EXCEPT ![i] = field]
         IN /\ q \in Seq(Field) /\ Len(q) = Len(p)
            /\ \A k \in 1..Len(p) : q[k] = IF k = i THEN field ELSE p[k]
  <1>1. p \in Seq(Field)
    BY DEF Field
  <1> QED BY <1>1, ExceptSeq DEF Field

\* What is left of a word is nothing, the word, or less than a marker.
LEMMA StubsAre ==
  ASSUME NEW w \in Texts, NEW stub \in Stubs(w)
  PROVE  stub \in Texts /\ (stub = "0" => w = "0")
  <1>1. stub \in {"", w, "5", "1"}
    BY Zenon DEF Stubs
  <1>2. "" \in Texts /\ "5" \in Texts /\ "1" \in Texts
    BY DEF Texts
  <1>3. "0" \notin {"", "5", "1"}
    OBVIOUS
  <1> QED BY <1>1, <1>2, <1>3, Zenon

LEMMA PacketsAre == Packets \subseteq Seq(Field)
  <1> DEFINE Strings == Seq(STRING) \ {<< >>}
  <1>1. Strings \subseteq Field
    <2>1. STRING \subseteq Texts
      BY DEF Texts
    <2> QED BY <2>1, SeqMonotonic DEF Field
  <1> HIDE DEF Strings
  <1>2. Seq(Strings) \subseteq Seq(Field)
    BY <1>1, SeqMonotonic
  <1> QED BY <1>2 DEF Packets, Strings
-----------------------------------------------------------------------------
\* What a cut does.
LEMMA CutEffect ==
  ASSUME PacketsOK, Cut
  PROVE  \E i \in 1..Len(received) : \E j \in 1..Len(received[i]) :
           /\ received' \in Seq(Field) /\ Len(received') = i
           /\ \A k \in 1..(i - 1) : received'[k] = received[k]
           /\ Len(received'[i]) = j
           /\ \A m \in 1..(j - 1) : received'[i][m] = received[i][m]
           /\ received[i] \in Field /\ received[i][j] \in Texts
           /\ received'[i][j] \in Stubs(received[i][j])
  <1>1. received \in Seq(Field) /\ DOMAIN received = 1..Len(received)
        /\ Len(received) \in Nat
    BY LenProperties DEF PacketsOK, Cut
  <1>2. PICK i \in DOMAIN received : \E j \in DOMAIN received[i] :
          \E stub \in Stubs(received[i][j]) :
            received' = Append(SubSeq(received, 1, i - 1),
                               Append(SubSeq(received[i], 1, j - 1), stub))
    BY DEF Cut
  <1>3. PICK j \in DOMAIN received[i] :
          \E stub \in Stubs(received[i][j]) :
            received' = Append(SubSeq(received, 1, i - 1),
                               Append(SubSeq(received[i], 1, j - 1), stub))
    BY <1>2
  <1>4. PICK stub \in Stubs(received[i][j]) :
            received' = Append(SubSeq(received, 1, i - 1),
                               Append(SubSeq(received[i], 1, j - 1), stub))
    BY <1>3
  <1>5. i \in 1..Len(received) /\ received[i] \in Field
    BY <1>1, ElementOfSeq
  <1>6. DOMAIN received[i] = 1..Len(received[i])
    BY <1>5, LenProperties DEF Field
  <1>7. j \in 1..Len(received[i])
    BY <1>6
  <1>8. received[i][j] \in Texts
    BY <1>5, <1>7, ElementOfSeq DEF Field
  <1>9. stub \in Texts
    BY <1>8, StubsAre
  <1> DEFINE field == Append(SubSeq(received[i], 1, j - 1), stub)
  <1>10. /\ field \in Field /\ Len(field) = j
         /\ \A m \in 1..(j - 1) : field[m] = received[i][m]
         /\ field[j] = stub
    BY <1>5, <1>7, <1>9, FieldCut
  <1>11. received' = Append(SubSeq(received, 1, i - 1), field)
    BY <1>4
  <1> HIDE DEF field
  <1>12. /\ received' \in Seq(Field) /\ Len(received') = i
         /\ \A k \in 1..(i - 1) : received'[k] = received[k]
         /\ received'[i] = field
    BY <1>1, <1>5, <1>10, <1>11, PacketCut
  <1> QED BY <1>5, <1>7, <1>8, <1>10, <1>12

\* What garbling does.
LEMMA GarbleEffect ==
  ASSUME PacketsOK, Garble
  PROVE  \E i \in 1..Len(received) : \E j \in 1..Len(received[i]) :
           /\ received' \in Seq(Field) /\ Len(received') = Len(received)
           /\ \A k \in 1..Len(received) : k # i => received'[k] = received[k]
           /\ received[i] \in Field
           /\ Len(received'[i]) = Len(received[i])
           /\ \A m \in 1..Len(received[i]) :
                m # j => received'[i][m] = received[i][m]
           /\ received'[i][j] \in Junk
  <1>1. received \in Seq(Field) /\ DOMAIN received = 1..Len(received)
        /\ Len(received) \in Nat
    BY LenProperties DEF PacketsOK, Garble
  <1>2. PICK i \in DOMAIN received : \E j \in DOMAIN received[i] : \E w \in Junk :
          received' = [received EXCEPT ![i][j] = w]
    BY DEF Garble
  <1>3. PICK j \in DOMAIN received[i] : \E w \in Junk :
          received' = [received EXCEPT ![i][j] = w]
    BY <1>2
  <1>4. PICK w \in Junk : received' = [received EXCEPT ![i][j] = w]
    BY <1>3
  <1>5. i \in 1..Len(received) /\ received[i] \in Field
    BY <1>1, ElementOfSeq
  <1>6. DOMAIN received[i] = 1..Len(received[i])
    BY <1>5, LenProperties DEF Field
  <1>7. j \in 1..Len(received[i])
    BY <1>6
  <1>8. w \in Texts
    BY JunkAssumption DEF Texts
  <1> DEFINE field == [received[i] EXCEPT ![j] = w]
  <1>10. /\ field \in Field /\ Len(field) = Len(received[i])
         /\ \A m \in 1..Len(received[i]) :
              field[m] = IF m = j THEN w ELSE received[i][m]
    BY <1>5, <1>7, <1>8, FieldGarbled
  <1>11. received' = [received EXCEPT ![i] = field]
    BY <1>4, Zenon
  <1> HIDE DEF field
  <1>12. /\ received' \in Seq(Field) /\ Len(received') = Len(received)
         /\ \A k \in 1..Len(received) :
              received'[k] = IF k = i THEN field ELSE received[k]
    BY <1>1, <1>5, <1>10, <1>11, PacketGarbled
  <1> QED BY <1>5, <1>7, <1>10, <1>12
-----------------------------------------------------------------------------
\* What is received to begin with is what was sent.
LEMMA InitParsingInv == ParsingInit => ParsingInv
  <1> SUFFICES ASSUME ParsingInit PROVE ParsingInv
    OBVIOUS
  <1>1. received = sent /\ subject \in {"alerts", "telemetry", "poi"}
    BY DEF ParsingInit
  <1>2. /\ subject = "alerts" => sent \in AlertPackets
        /\ subject = "telemetry" => sent \in TelemetryPackets
        /\ subject = "poi" => sent \in Databases
    BY DEF ParsingInit
  <1>3. PacketsOK
    <2>1. subject # "poi" => sent \in Packets
      BY <1>1, <1>2, PacketAssumption
    <2>2. subject # "poi" => sent \in Seq(Field)
      BY <2>1, PacketsAre
    <2> QED BY <1>1, <2>2, LenProperties DEF PacketsOK
  <1>4. EmptyStands
    BY <1>1 DEF EmptyStands
  <1>5. GroupsStand
    BY <1>1, <1>2 DEF GroupsStand
  <1>6. CapturesStand
    <2> SUFFICES ASSUME subject = "poi" PROVE sent \in Seq(Records)
      BY <1>1 DEF CapturesStand
    <2>1. PICK n \in 0..MaxRecords : sent \in [1..n -> Records]
      BY <1>2 DEF Databases
    <2>2. n \in Nat
      BY RecordAssumption
    <2> QED BY <2>1, <2>2, SeqDef
  <1> QED BY <1>1, <1>3, <1>4, <1>5, <1>6 DEF ParsingInv

\* A packet that is cut loses what is behind the cut, and nothing before it.
LEMMA CutKeepsInv == ParsingInv /\ Cut => ParsingInv'
  <1> SUFFICES ASSUME ParsingInv, Cut PROVE ParsingInv'
    OBVIOUS
  <1>1. subject # "poi" /\ subject' = subject /\ sent' = sent
    BY DEF Cut, Harms
  <1>2. /\ sent \in Seq(Field) /\ received \in Seq(Field)
        /\ Len(received) <= Len(sent)
        /\ Len(sent) \in Nat /\ Len(received) \in Nat
    BY <1>1, LenProperties DEF ParsingInv, PacketsOK
  <1>0. PICK i \in 1..Len(received) : \E j \in 1..Len(received[i]) :
           /\ received' \in Seq(Field) /\ Len(received') = i
           /\ \A k \in 1..(i - 1) : received'[k] = received[k]
           /\ Len(received'[i]) = j
           /\ \A m \in 1..(j - 1) : received'[i][m] = received[i][m]
           /\ received[i] \in Field /\ received[i][j] \in Texts
           /\ received'[i][j] \in Stubs(received[i][j])
    BY CutEffect DEF ParsingInv
  <1>3. PICK j \in 1..Len(received[i]) :
           /\ received' \in Seq(Field) /\ Len(received') = i
           /\ \A k \in 1..(i - 1) : received'[k] = received[k]
           /\ Len(received'[i]) = j
           /\ \A m \in 1..(j - 1) : received'[i][m] = received[i][m]
           /\ received[i] \in Field /\ received[i][j] \in Texts
           /\ received'[i][j] \in Stubs(received[i][j])
    BY <1>0
  <1>4. PacketsOK'
    BY <1>1, <1>2, <1>3 DEF PacketsOK
  <1>5. EmptyStands'
    <2> SUFFICES ASSUME subject = "alerts", NEW k \in 1..Len(received'),
                        received'[k][1] = "0"
                 PROVE  sent[k][1] = "0"
      BY <1>1 DEF EmptyStands
    <2>1. k \in 1..i /\ k \in 1..Len(received)
      BY <1>2, <1>3
    <2>2. SUFFICES received[k][1] = "0"
      BY <2>1 DEF ParsingInv, EmptyStands
    <2>3. CASE k # i
      <3>1. k \in 1..(i - 1)
        BY <2>1, <2>3
      <3> QED BY <3>1, <1>3
    <2>4. CASE k = i /\ j = 1
      BY <2>4, <1>3, StubsAre
    <2>5. CASE k = i /\ j # 1
      <3>1. Len(received[i]) \in Nat
        BY <1>3, LenProperties DEF Field
      <3>2. 1 \in 1..(j - 1)
        BY <2>5, <3>1
      <3> QED BY <2>5, <3>2, <1>3
    <2> QED BY <2>3, <2>4, <2>5
  <1>6. GroupsStand'
    <2> SUFFICES ASSUME subject = "telemetry"
                 PROVE  GroupsStand'
      BY <1>1 DEF GroupsStand
    <2>1. sent' \in TelemetryPackets
      BY <1>1 DEF ParsingInv, GroupsStand
    <2> SUFFICES ASSUME Len(received') >= Expected, NEW k \in {2, 3}
                 PROVE  /\ Len(received'[k]) = Len(sent[k])
                        /\ \A m \in 1..Len(sent[k]) :
                             \/ received'[k][m] = sent[k][m]
                             \/ received'[k][m] \in Junk
      BY <1>1, <2>1 DEF GroupsStand
    <2>2. k \in 1..(i - 1) /\ Len(received) >= Expected
      BY <1>2, <1>3 DEF Expected
    <2>3. received'[k] = received[k]
      BY <2>2, <1>3
    <2> QED BY <2>2, <2>3 DEF ParsingInv, GroupsStand
  <1>7. CapturesStand'
    BY <1>1 DEF CapturesStand
  <1> QED BY <1>1, <1>4, <1>5, <1>6, <1>7 DEF ParsingInv

\* A word that is garbled says nothing by itself.
LEMMA GarbleKeepsInv == ParsingInv /\ Garble => ParsingInv'
  <1> SUFFICES ASSUME ParsingInv, Garble PROVE ParsingInv'
    OBVIOUS
  <1>1. subject # "poi" /\ subject' = subject /\ sent' = sent
    BY DEF Garble, Harms
  <1>2. /\ sent \in Seq(Field) /\ received \in Seq(Field)
        /\ Len(received) <= Len(sent)
        /\ Len(sent) \in Nat /\ Len(received) \in Nat
    BY <1>1, LenProperties DEF ParsingInv, PacketsOK
  <1>0. PICK i \in 1..Len(received) : \E j \in 1..Len(received[i]) :
           /\ received' \in Seq(Field) /\ Len(received') = Len(received)
           /\ \A k \in 1..Len(received) : k # i => received'[k] = received[k]
           /\ received[i] \in Field
           /\ Len(received'[i]) = Len(received[i])
           /\ \A m \in 1..Len(received[i]) :
                m # j => received'[i][m] = received[i][m]
           /\ received'[i][j] \in Junk
    BY GarbleEffect DEF ParsingInv
  <1>3. PICK j \in 1..Len(received[i]) :
           /\ received' \in Seq(Field) /\ Len(received') = Len(received)
           /\ \A k \in 1..Len(received) : k # i => received'[k] = received[k]
           /\ received[i] \in Field
           /\ Len(received'[i]) = Len(received[i])
           /\ \A m \in 1..Len(received[i]) :
                m # j => received'[i][m] = received[i][m]
           /\ received'[i][j] \in Junk
    BY <1>0
  <1>4. PacketsOK'
    BY <1>1, <1>2, <1>3 DEF PacketsOK
  <1>5. EmptyStands'
    <2> SUFFICES ASSUME subject = "alerts", NEW k \in 1..Len(received'),
                        received'[k][1] = "0"
                 PROVE  sent[k][1] = "0"
      BY <1>1 DEF EmptyStands
    <2>1. k \in 1..Len(received)
      BY <1>3
    <2>2. SUFFICES received[k][1] = "0"
      BY <2>1 DEF ParsingInv, EmptyStands
    <2>3. CASE k # i
      BY <2>1, <2>3, <1>3
    <2>4. CASE k = i /\ j = 1
      <3>1. received'[i][1] \in Junk
        BY <2>4, <1>3
      <3> QED BY <2>4, <3>1, JunkAssumption
    <2>5. CASE k = i /\ j # 1
      <3>1. Len(received[i]) \in Nat
        BY <1>3, LenProperties DEF Field
      <3>2. 1 \in 1..Len(received[i])
        BY <3>1
      <3> QED BY <2>5, <3>2, <1>3
    <2> QED BY <2>3, <2>4, <2>5
  <1>6. GroupsStand'
    <2> SUFFICES ASSUME subject = "telemetry"
                 PROVE  GroupsStand'
      BY <1>1 DEF GroupsStand
    <2>1. sent' \in TelemetryPackets
      BY <1>1 DEF ParsingInv, GroupsStand
    <2> SUFFICES ASSUME Len(received') >= Expected, NEW k \in {2, 3}
                 PROVE  /\ Len(received'[k]) = Len(sent[k])
                        /\ \A m \in 1..Len(sent[k]) :
                             \/ received'[k][m] = sent[k][m]
                             \/ received'[k][m] \in Junk
      BY <1>1, <2>1 DEF GroupsStand
    <2>2. k \in 1..Len(received) /\ Len(received) >= Expected
      BY <1>2, <1>3 DEF Expected
    <2>3. /\ Len(received[k]) = Len(sent[k])
          /\ \A m \in 1..Len(sent[k]) :
               received[k][m] = sent[k][m] \/ received[k][m] \in Junk
      BY <2>2 DEF ParsingInv, GroupsStand
    <2>4. CASE k # i
      <3>1. received'[k] = received[k]
        BY <2>2, <2>4, <1>3
      <3> QED BY <3>1, <2>3
    <2>5. CASE k = i
      <3>1. Len(received'[k]) = Len(sent[k])
        BY <2>3, <2>5, <1>3
      <3>2. ASSUME NEW m \in 1..Len(sent[k])
            PROVE  received'[k][m] = sent[k][m] \/ received'[k][m] \in Junk
        <4>1. CASE m = j
          BY <4>1, <2>5, <1>3
        <4>2. CASE m # j
          <5>1. received'[k][m] = received[k][m]
            BY <4>2, <2>3, <2>5, <1>3
          <5> QED BY <5>1, <2>3
        <4> QED BY <4>1, <4>2
      <3> QED BY <3>1, <3>2
    <2> QED BY <2>4, <2>5
  <1>7. CapturesStand'
    BY <1>1 DEF CapturesStand
  <1> QED BY <1>1, <1>4, <1>5, <1>6, <1>7 DEF ParsingInv
-----------------------------------------------------------------------------
\* A record is bytes, of the length its first byte says.
LEMMA RecordsAre ==
  ASSUME NEW r \in Records
  PROVE  /\ r \in Seq(Bytes) /\ Len(r) \in Nat \ {0} /\ DOMAIN r = 1..Len(r)
         /\ r[1] \in DOMAIN Layouts.whole
         /\ Len(r) = Layouts.whole[r[1]]
  <1>1. /\ r \in Seq(Bytes) /\ r # << >>
        /\ r[1] \in DOMAIN Layouts.whole
        /\ Len(r) = Layouts.whole[r[1]]
    BY RecordAssumption DEF Bytes
  <1>2. Len(r) \in Nat \ {0} /\ DOMAIN r = 1..Len(r)
    BY <1>1, EmptySeq, LenProperties
  <1> QED BY <1>1, <1>2

\* What is left of a record that is cut.
LEMMA CutIs ==
  ASSUME NEW r \in Records, NEW n \in 1..(Len(r) - 1)
  PROVE  /\ SubSeq(r, 1, n) \in Seq(Bytes) /\ Len(SubSeq(r, 1, n)) = n
         /\ n \in Nat \ {0} /\ n < Len(r)
         /\ \A m \in 1..n : SubSeq(r, 1, n)[m] = r[m]
  <1>1. r \in Seq(Bytes) /\ Len(r) \in Nat
    BY RecordsAre
  <1>2. n \in Int /\ 1 \in Int /\ 1 <= n /\ n < Len(r)
    BY <1>1
  <1>3. \A m \in 1..n : r[m] \in Bytes
    <2> SUFFICES ASSUME NEW m \in 1..n PROVE r[m] \in Bytes
      OBVIOUS
    <2>1. m \in 1..Len(r)
      BY <1>1, <1>2
    <2> QED BY <1>1, <2>1, ElementOfSeq
  <1>4. /\ SubSeq(r, 1, n) \in Seq(Bytes)
        /\ Len(SubSeq(r, 1, n)) = IF 1 <= n THEN n - 1 + 1 ELSE 0
        /\ \A m \in 1..(n - 1 + 1) : SubSeq(r, 1, n)[m] = r[1 + m - 1]
    BY <1>2, <1>3, SubSeqProperties
  <1> QED BY <1>2, <1>4

\* It is no record: its first byte asks for more.
LEMMA CutIsNoRecord ==
  ASSUME NEW r \in Records, NEW n \in 1..(Len(r) - 1)
  PROVE  SubSeq(r, 1, n) \notin Records
  <1> DEFINE stub == SubSeq(r, 1, n)
  <1>1. /\ Len(stub) = n /\ n \in Nat \ {0} /\ n < Len(r)
        /\ \A m \in 1..n : stub[m] = r[m]
    BY CutIs
  <1> HIDE DEF stub
  <1>2. SUFFICES ASSUME stub \in Records PROVE FALSE
    BY DEF stub
  <1>3. Len(stub) = Layouts.whole[stub[1]] /\ Len(r) = Layouts.whole[r[1]]
    BY <1>2, RecordsAre
  <1>4. stub[1] = r[1]
    BY <1>1
  <1> QED BY <1>1, <1>3, <1>4

\* A capture whose last record is cut is not whole; any other is.
LEMMA WholeIs ==
  /\ received \in Seq(Records) => Whole
  /\ LastIsCut(received) => ~Whole
  <1>1. ASSUME received \in Seq(Records) PROVE Whole
    <2>1. DOMAIN received = 1..Len(received)
      BY <1>1, LenProperties
    <2> QED BY <1>1, <2>1, ElementOfSeq DEF Whole
  <1>2. ASSUME LastIsCut(received) PROVE ~Whole
    <2>1. DOMAIN received = 1..Len(received) /\ Len(received) \in Nat \ {0}
      BY <1>2, LenProperties, EmptySeq DEF LastIsCut
    <2>2. Len(received) \in DOMAIN received
      BY <2>1
    <2>3. received[Len(received)] \notin Records
      BY <1>2, CutIsNoRecord DEF LastIsCut
    <2> QED BY <2>2, <2>3 DEF Whole
  <1> QED BY <1>1, <1>2

\* What stores, deletes, reorders or cuts starts from a whole database.
LEMMA CaptureStepKeepsInv ==
  ASSUME ParsingInv, Store \/ Delete \/ Reorder \/ CutCapture
  PROVE  ParsingInv'
  <1>1. subject = "poi" /\ subject' = subject /\ sent' = sent /\ Whole
    BY DEF Store, Delete, Reorder, CutCapture, Harms
  <1>2. sent \in Seq(Records) /\ received \in Seq(Records)
    BY <1>1, WholeIs DEF ParsingInv, CapturesStand
  <1>3. Len(received) \in Nat /\ DOMAIN received = 1..Len(received)
        /\ \A i \in 1..Len(received) : received[i] \in Records
    BY <1>2, LenProperties, ElementOfSeq
  <1>4. SUFFICES received' \in Seq(Records) \/ LastIsCut(received')
    <2>1. CapturesStand'
      BY <1>1, <1>2, <1>4 DEF CapturesStand
    <2> QED BY <1>1, <2>1 DEF ParsingInv, PacketsOK, EmptyStands, GroupsStand
  \* A part of a sequence of records is a sequence of records.
  <1>5. ASSUME NEW m \in 1..(Len(received) + 1), NEW n \in 0..Len(received)
        PROVE  SubSeq(received, m, n) \in Seq(Records)
    <2>1. m \in Int /\ n \in Int /\ \A i \in m..n : received[i] \in Records
      BY <1>3
    <2> QED BY <2>1, SubSeqProperties
  <1>6. CASE Store
    <2>1. PICK r \in Records, i \in 1..(Len(received) + 1) :
            received' = InsertAt(received, i, r)
      BY <1>6 DEF Store
    <2>2. i \in 1..(Len(received) + 1) /\ i - 1 \in 0..Len(received)
          /\ 1 \in 1..(Len(received) + 1) /\ Len(received) \in 0..Len(received)
      BY <1>3
    <2>3. SubSeq(received, 1, i - 1) \in Seq(Records)
          /\ SubSeq(received, i, Len(received)) \in Seq(Records)
      BY <1>5, <2>2
    <2>4. <<r>> \in Seq(Records)
      OBVIOUS
    <2>5. SubSeq(received, 1, i - 1) \o <<r>> \in Seq(Records)
      BY <2>3, <2>4, ConcatProperties
    <2>6. InsertAt(received, i, r) \in Seq(Records)
      BY <2>3, <2>5, ConcatProperties DEF InsertAt
    <2> QED BY <2>1, <2>6
  <1>7. CASE Delete
    <2>1. PICK i \in DOMAIN received : received' = RemoveAt(received, i)
      BY <1>7 DEF Delete
    <2>2. i + 1 \in 1..(Len(received) + 1) /\ i - 1 \in 0..Len(received)
          /\ 1 \in 1..(Len(received) + 1) /\ Len(received) \in 0..Len(received)
      BY <1>3
    <2>3. SubSeq(received, 1, i - 1) \in Seq(Records)
          /\ SubSeq(received, i + 1, Len(received)) \in Seq(Records)
      BY <1>5, <2>2
    <2> QED BY <2>1, <2>3, ConcatProperties DEF RemoveAt
  <1>8. CASE Reorder
    <2>1. PICK i \in DOMAIN received, j \in DOMAIN received :
            received' = [received EXCEPT ![i] = received[j], ![j] = received[i]]
      BY <1>8 DEF Reorder
    <2> DEFINE once == [received EXCEPT ![i] = received[j]]
    <2>2. received' = [once EXCEPT ![j] = received[i]]
      BY <2>1, Zenon
    <2>3. once \in Seq(Records) /\ Len(once) = Len(received)
      BY <1>2, <1>3, ExceptSeq
    <2> HIDE DEF once
    <2> QED BY <1>3, <2>2, <2>3, ExceptSeq
  <1>9. CASE CutCapture
    <2>1. PICK n \in 1..(Len(Last(received)) - 1) :
            received' = Append(Front(received), SubSeq(Last(received), 1, n))
      BY <1>9 DEF CutCapture
    <2>2. received # << >>
      BY <1>9 DEF CutCapture
    <2>3. Len(received) \in Nat \ {0}
      BY <1>2, <2>2, EmptySeq
    <2> DEFINE r == received[Len(received)]
               stub == SubSeq(r, 1, n)
               front == SubSeq(received, 1, Len(received) - 1)
    <2>4. received' = Append(front, stub) /\ n \in 1..(Len(r) - 1)
      BY <2>1 DEF Front, Last
    <2>5. r \in Records
      BY <1>3, <2>3
    <2>6. stub \in Seq(Bytes)
      BY <2>4, <2>5, CutIs
    <2>7. /\ front \in Seq(Records)
          /\ Len(front) = Len(received) - 1
      <3>1. /\ 1 \in Int /\ Len(received) - 1 \in Int
            /\ \A i \in 1..(Len(received) - 1) : received[i] \in Records
        BY <1>3, <2>3
      <3>2. /\ front \in Seq(Records)
            /\ Len(front) = IF 1 <= Len(received) - 1
                            THEN (Len(received) - 1) - 1 + 1 ELSE 0
        BY <3>1, SubSeqProperties
      <3> DEFINE n1 == Len(received) - 1
      <3>3. n1 \in Nat
        BY <2>3
      <3>4. /\ front \in Seq(Records)
            /\ Len(front) = IF 1 <= n1 THEN n1 - 1 + 1 ELSE 0
        BY <3>2
      <3> HIDE DEF front, n1
      <3>5. (IF 1 <= n1 THEN n1 - 1 + 1 ELSE 0) = n1
        BY <3>3
      <3>6. Len(front) = n1
        BY <3>4, <3>5
      <3> QED BY <3>4, <3>6 DEF n1
    <2>8. front \in Seq(Seq(Bytes))
      <3>1. Records \subseteq Seq(Bytes)
        BY RecordsAre
      <3> QED BY <2>7, <3>1, SeqMonotonic
    <2>9. \A i \in 1..Len(front) : front[i] \in Records
      BY <2>7, ElementOfSeq
    <2> HIDE DEF front, stub, r
    <2>10. /\ received' \in Seq(Seq(Bytes)) /\ received' # << >>
           /\ Len(received') = Len(front) + 1
           /\ \A i \in 1..Len(front) : received'[i] = front[i]
           /\ received'[Len(front) + 1] = stub
      BY <2>4, <2>6, <2>8, AppendProperties
    <2>11. Len(received') - 1 = Len(front)
      BY <2>3, <2>7, <2>10
    <2>12. \A i \in 1..(Len(received') - 1) : received'[i] \in Records
      BY <2>9, <2>10, <2>11
    <2>13. received'[Len(received')] = SubSeq(r, 1, n)
      BY <2>10 DEF stub
    <2> QED BY <2>4, <2>5, <2>10, <2>12, <2>13 DEF LastIsCut
  <1> QED BY <1>6, <1>7, <1>8, <1>9

\* Damage, and every change of the database, leaves the invariant standing.
LEMMA NextKeepsParsingInv ==
  ParsingInv /\ [ParsingNext]_parsingVars => ParsingInv'
  <1> SUFFICES ASSUME ParsingInv, [ParsingNext]_parsingVars PROVE ParsingInv'
    OBVIOUS
  <1>1. CASE Cut
    BY <1>1, CutKeepsInv
  <1>2. CASE Garble
    BY <1>2, GarbleKeepsInv
  <1>3. CASE Store \/ Delete \/ Reorder \/ CutCapture
    BY <1>3, CaptureStepKeepsInv
  <1>4. CASE UNCHANGED parsingVars
    BY <1>4 DEF parsingVars, ParsingInv, PacketsOK, EmptyStands, GroupsStand,
                CapturesStand
  <1> QED BY <1>1, <1>2, <1>3, <1>4 DEF ParsingNext

\* Whatever is lost, garbled, changed and cut, in any order and number, what the
\* parsers of telemetry.py are given stands in this relation to what was sent.
THEOREM ParsingInvHolds == ParsingSpec => []ParsingInv
  BY InitParsingInv, NextKeepsParsingInv, PTL DEF ParsingSpec
-----------------------------------------------------------------------------
\* An active slot is one that reads as an alert.
LEMMA ActiveIsReadable ==
  ASSUME NEW s, Slot(s).state = "active"
  PROVE  Readable(s) /\ s # <<"0">>
  <1>1. CASE s = <<"0">>
    <2>1. Slot(s) = Empty
      <3>1. ~Readable(s)
        BY <1>1 DEF Readable
      <3> QED BY <1>1, <3>1 DEF Slot
    <2>2. Empty.state # "active"
      BY DEF Empty
    <2> QED BY <2>1, <2>2
  <1>2. CASE s # <<"0">> /\ ~Readable(s)
    <2>1. Slot(s) = Unreadable
      BY <1>2 DEF Slot
    <2>2. Unreadable.state # "active"
      BY DEF Unreadable
    <2> QED BY <2>1, <2>2
  <1> QED BY <1>1, <1>2

LEMMA ReadableIsActive ==
  ASSUME NEW s, Readable(s), s # <<"0">>
  PROVE  /\ Slot(s) = Active(Alert(s))
         /\ Slot(s).state = "active" /\ Slot(s).alert = Alert(s)
  <1>1. Slot(s) = Active(Alert(s))
    BY DEF Slot
  <1>2. Active(Alert(s)).state = "active" /\ Active(Alert(s)).alert = Alert(s)
    BY DEF Active
  <1> QED BY <1>1, <1>2

\* A marked slot does not read as the empty one.
LEMMA MarkedIsNotEmpty ==
  ASSUME NEW s \in Field, Readable(s)
  PROVE  s[1] # "0"
  <1>1. Len(s) \in Nat /\ DOMAIN s = 1..Len(s)
    BY LenProperties DEF Field
  <1>2. Len(s) >= 8 /\ At(s, 1) = "1"
    BY DEF Readable
  <1>3. 1 \in DOMAIN s
    BY <1>1, <1>2
  <1> QED BY <1>2, <1>3 DEF At

\* The readings of an alert depend on their fields only.
LEMMA ReadingFrom ==
  ASSUME NEW s, NEW t,
         NEW reading \in DOMAIN From,
         \A f \in From[reading] : At(s, f) = At(t, f)
  PROVE  Readings(Alert(s))[reading] = Readings(Alert(t))[reading]
  <1>1. reading \in {"band", "strength", "frequency", "gun", "direction", "muted"}
    BY DEF From
  <1>2. CASE reading = "band"
    <2>1. At(s, 3) = At(t, 3)
      BY <1>2 DEF From
    <2>2. Band(s) = Band(t)
      BY <2>1 DEF Band
    <2>3. BandName(Alert(s)) = BandName(Alert(t))
      BY <2>2 DEF BandName, Alert
    <2> QED BY <1>2, <2>3 DEF Readings
  <1>3. CASE reading = "strength"
    <2>1. At(s, 4) = At(t, 4)
      BY <1>3 DEF From
    <2>2. Alert(s).strength = Alert(t).strength
      BY <2>1 DEF Alert
    <2> QED BY <1>3, <2>2 DEF Readings
  <1>4. CASE reading = "frequency"
    <2>1. At(s, 3) = At(t, 3) /\ At(s, 6) = At(t, 6)
      BY <1>4 DEF From
    <2>2. Frequency(s) = Frequency(t)
      BY <2>1 DEF Frequency, Band
    <2>3. Alert(s).frequency = Alert(t).frequency
      BY <2>2 DEF Alert
    <2> QED BY <1>4, <2>3 DEF Readings
  <1>5. CASE reading = "gun"
    <2>1. At(s, 3) = At(t, 3) /\ At(s, 6) = At(t, 6)
      BY <1>5 DEF From
    <2>2. GunId(s) = GunId(t)
      BY <2>1 DEF GunId, Band
    <2>3. LaserGun(Alert(s)) = LaserGun(Alert(t))
      BY <2>2 DEF LaserGun, Alert
    <2> QED BY <1>5, <2>3 DEF Readings
  <1>6. CASE reading = "direction"
    <2>1. At(s, 7) = At(t, 7)
      BY <1>6 DEF From
    <2>2. Direction(s) = Direction(t)
      BY <2>1 DEF Direction
    <2>3. Alert(s).direction = Alert(t).direction
      BY <2>2 DEF Alert
    <2> QED BY <1>6, <2>3 DEF Readings
  <1>7. CASE reading = "muted"
    <2>1. At(s, 8) = At(t, 8)
      BY <1>7 DEF From
    <2>2. Alert(s).mute = Alert(t).mute
      BY <2>1 DEF Alert
    <2>3. Muted(Alert(s)) = Muted(Alert(t))
      BY <2>2 DEF Muted
    <2> QED BY <1>7, <2>3 DEF Readings
  <1> QED BY <1>1, <1>2, <1>3, <1>4, <1>5, <1>6, <1>7

\* A snapshot has a slot for each of the packet's, and is certain when all of
\* them could be read.
LEMMA SnapshotIs ==
  ASSUME NEW p \in Seq(Field)
  PROVE  /\ p # NoText => Snapshot(p).slots = [i \in 1..Len(p) |-> Slot(p[i])]
         /\ p = NoText => Snapshot(p).slots = << >>
         /\ ~Uncertain(Snapshot(p)) =>
              p # NoText /\ \A i \in 1..Len(p) : Slot(p[i]) # Unreadable
  <1>1. DOMAIN p = 1..Len(p)
    BY LenProperties
  <1> QED BY <1>1 DEF Snapshot, Uncertain, Recognised

\* An active slot was not sent as empty, so its slot is not received as empty: it
\* is active with the readings of the fields that stand, or it is unreadable.
LEMMA NeverFalselyClearStands == ParsingInv => NeverFalselyClear
  <1> SUFFICES ASSUME ParsingInv, subject = "alerts",
                      NEW i \in DOMAIN Snapshot(sent).slots,
                      Snapshot(sent).slots[i].state = "active",
                      i <= Len(received),
                      ~Uncertain(Snapshot(received))
               PROVE  /\ i \in DOMAIN Snapshot(received).slots
                      /\ Snapshot(received).slots[i].state = "active"
                      /\ LET was == Readings(Snapshot(sent).slots[i].alert)
                             is  == Readings(Snapshot(received).slots[i].alert)
                         IN \A r \in DOMAIN From :
                              SameFields(i, From[r]) => is[r] = was[r]
    BY DEF NeverFalselyClear
  <1>1. /\ sent \in Seq(Field) /\ received \in Seq(Field)
        /\ Len(sent) \in Nat /\ Len(received) \in Nat
        /\ Len(received) <= Len(sent)
    BY LenProperties DEF ParsingInv, PacketsOK
  <1>2. /\ i \in 1..Len(sent)
        /\ Snapshot(sent).slots[i] = Slot(sent[i])
    <2>1. sent # NoText
      <3> SUFFICES ASSUME sent = NoText PROVE FALSE
        OBVIOUS
      <3>1. Snapshot(sent).slots = << >>
        BY <1>1, SnapshotIs
      <3> QED BY <3>1
    <2>2. Snapshot(sent).slots = [k \in 1..Len(sent) |-> Slot(sent[k])]
      BY <1>1, <2>1, SnapshotIs
    <2> QED BY <2>2
  <1>3. i \in 1..Len(received)
    BY <1>1, <1>2
  <1>4. sent[i] \in Field /\ received[i] \in Field
    BY <1>1, <1>2, <1>3, ElementOfSeq
  <1>5. Readable(sent[i]) /\ Slot(sent[i]).alert = Alert(sent[i])
    BY <1>2, ActiveIsReadable, ReadableIsActive
  <1>6. received[i] # <<"0">>
    <2>1. sent[i][1] # "0"
      BY <1>4, <1>5, MarkedIsNotEmpty
    <2>2. received[i][1] # "0"
      BY <2>1, <1>3 DEF ParsingInv, EmptyStands
    <2> QED BY <2>2
  <1>7. /\ i \in DOMAIN Snapshot(received).slots
        /\ Snapshot(received).slots[i] = Slot(received[i])
        /\ Slot(received[i]) # Unreadable
    <2>1. received # NoText /\ Slot(received[i]) # Unreadable
      BY <1>1, <1>3, SnapshotIs
    <2>2. Snapshot(received).slots = [k \in 1..Len(received) |-> Slot(received[k])]
      BY <1>1, <2>1, SnapshotIs
    <2> QED BY <1>3, <2>1, <2>2
  <1>8. Readable(received[i])
    BY <1>6, <1>7 DEF Slot
  <1>9. /\ Slot(received[i]).state = "active"
        /\ Slot(received[i]).alert = Alert(received[i])
    BY <1>6, <1>8, ReadableIsActive
  <1>10. ASSUME NEW r \in DOMAIN From, SameFields(i, From[r])
         PROVE  Readings(Alert(received[i]))[r] = Readings(Alert(sent[i]))[r]
    <2>1. ASSUME NEW f \in From[r]
          PROVE  At(received[i], f) = At(sent[i], f)
      <3>1. f \in DOMAIN received[i] /\ sent[i][f] = received[i][f]
        BY <1>10 DEF SameFields
      <3>2. f \in DOMAIN sent[i]
        <4>1. Len(sent[i]) \in Nat /\ DOMAIN sent[i] = 1..Len(sent[i])
              /\ Len(sent[i]) >= 8
          BY <1>4, <1>5, LenProperties DEF Field, Readable
        <4>2. f \in 3..8
          BY <1>10 DEF From
        <4> QED BY <4>1, <4>2
      <3> QED BY <3>1, <3>2 DEF At
    <2> QED BY <1>10, <2>1, ReadingFrom
  <1> QED BY <1>2, <1>5, <1>7, <1>9, <1>10

\* parse_alert_snapshot: a damaged packet never reads as one in which a detection
\* is over, for every packet, and for any harm done to it.
THEOREM DetectionsAreNotLost == ParsingSpec => []NeverFalselyClear
  BY ParsingInvHolds, NeverFalselyClearStands, PTL
-----------------------------------------------------------------------------
\* What a packet that is long enough is read as.
Read(p) ==
  [voltage |-> FloatOf(Word(p[1])),
   poi |-> Poi(p[2]),
   gps |-> Gps(p[3]),
   words |-> [i \in 4..7 |-> SafeWord(Word(p[i]))],
   parsed |-> FloatOf(Word(p[1])) # None /\ Shape(p) = "confirmed"]

LEMMA TelemetryIs ==
  ASSUME NEW p \in Seq(Field)
  PROVE  /\ Len(p) >= Expected => Telemetry(p) = Read(p)
         /\ Len(p) < Expected => /\ Telemetry(p).poi = NoPoi
                                 /\ Telemetry(p).gps = NoGps
                                 /\ Telemetry(p).parsed = FALSE
  <1> DEFINE n == Len(p)
  <1>1. n \in Nat
    BY LenProperties
  <1>2. Shape(p) = CASE n = Expected -> "confirmed"
                     [] n > Expected -> "extended"
                     [] n \in 2..(Expected - 1) -> "short"
                     [] OTHER -> "unreadable"
    BY DEF Shape
  <1> HIDE DEF n
  <1>3. ASSUME n >= Expected PROVE Telemetry(p) = Read(p)
    <2>1. n = Expected \/ n > Expected
      BY <1>1, <1>3 DEF Expected
    <2>2. n \notin 2..(Expected - 1) /\ (n > Expected => n # Expected)
      BY <1>1, <1>3 DEF Expected
    <2>3. Shape(p) \in {"confirmed", "extended"}
      BY <1>2, <2>1, <2>2, Zenon
    <2>4. Shape(p) \notin {"short", "unreadable"}
      BY <2>3
    <2> QED BY <2>4, Zenon DEF Telemetry, Read
  <1>4. ASSUME n < Expected
        PROVE  /\ Telemetry(p).poi = NoPoi
               /\ Telemetry(p).gps = NoGps
               /\ Telemetry(p).parsed = FALSE
    <2>1. ~(n = Expected) /\ ~(n > Expected)
      BY <1>1, <1>4 DEF Expected
    <2>2. Shape(p) \in {"short", "unreadable"}
      BY <1>2, <2>1, Zenon
    <2> QED BY <2>2 DEF Telemetry
  <1> QED BY <1>3, <1>4 DEF n

\* A group that is absent is one part.
LEMMA AbsentIs ==
  ASSUME NEW field
  PROVE  /\ Absent(field) <=> (field = <<"">> \/ field = <<"0">>)
         /\ Absent(field) => Len(field) = 1
  <1>1. Absent(field) <=> (field = <<"">> \/ field = <<"0">>)
    BY DEF Absent
  <1>2. Len(<<"">>) = 1 /\ Len(<<"0">>) = 1
    OBVIOUS
  <1> QED BY <1>1, <1>2

\* The GPS group as it is read, case by case.
LEMMA GpsIs ==
  ASSUME NEW field \in Field
  PROVE  /\ Absent(field) =>
              /\ Gps(field).evaluated = TRUE /\ Gps(field).present = FALSE
              /\ Gps(field).suspect = FALSE
         /\ ~Absent(field) /\ Len(field) # 4 =>
              /\ Gps(field).evaluated = FALSE /\ Gps(field).suspect = FALSE
              /\ Gps(field).status = None
         /\ Len(field) = 4 =>
              \/ /\ Gps(field).evaluated = FALSE /\ Gps(field).suspect = TRUE
                 /\ Gps(field).status = None
              \/ /\ Gps(field).evaluated = TRUE /\ Gps(field).present = TRUE
                 /\ Gps(field).suspect = FALSE
                 /\ Gps(field).status = SafeWord(At(field, 4))
  <1>1. ASSUME Absent(field)
        PROVE  /\ Gps(field).evaluated = TRUE /\ Gps(field).present = FALSE
               /\ Gps(field).suspect = FALSE
    <2>1. Len(field) = 1
      BY <1>1, AbsentIs
    <2>2. Gps(field) = [NoGps EXCEPT !.evaluated = TRUE]
      BY <1>1, <2>1 DEF Gps
    <2> QED BY <2>2 DEF NoGps
  <1>2. ASSUME ~Absent(field), Len(field) # 4
        PROVE  /\ Gps(field).evaluated = FALSE /\ Gps(field).suspect = FALSE
               /\ Gps(field).status = None
    <2>1. Gps(field) = NoGps
      BY <1>2 DEF Gps
    <2> QED BY <2>1 DEF NoGps
  <1>3. ASSUME Len(field) = 4
        PROVE  \/ /\ Gps(field).evaluated = FALSE /\ Gps(field).suspect = TRUE
                  /\ Gps(field).status = None
               \/ /\ Gps(field).evaluated = TRUE /\ Gps(field).present = TRUE
                  /\ Gps(field).suspect = FALSE
                  /\ Gps(field).status = SafeWord(At(field, 4))
    <2>1. ~Absent(field)
      <3>1. 4 # 1
        OBVIOUS
      <3> QED BY <1>3, <3>1, AbsentIs, Zenon
    <2>2. CASE LooksLikeCoordinate(field[1]) /\ LooksLikeCoordinate(field[2])
      <3>1. Gps(field) = [NoGps EXCEPT !.present = TRUE, !.suspect = TRUE]
        BY <1>3, <2>1, <2>2, Zenon DEF Gps
      <3> DEFINE once == [NoGps EXCEPT !.present = TRUE]
      <3>2. Gps(field) = [once EXCEPT !.suspect = TRUE]
        BY <3>1, Zenon
      <3>3. /\ once.evaluated = FALSE /\ once.status = None
            /\ DOMAIN once = DOMAIN NoGps
        BY DEF NoGps
      <3>4. {"evaluated", "suspect", "status"} \subseteq DOMAIN NoGps
        BY DEF NoGps
      <3> HIDE DEF once
      <3> QED BY <3>2, <3>3, <3>4
    <2>3. CASE ~(LooksLikeCoordinate(field[1]) /\ LooksLikeCoordinate(field[2]))
      <3>1. Gps(field) =
              [evaluated |-> TRUE, present |-> TRUE, suspect |-> FALSE,
               direction |-> IF field[1] \in CompassPoints THEN field[1] ELSE None,
               speed |-> IntOf(field[2]),
               altitude |-> IntOf(field[3]),
               status |-> SafeWord(At(field, 4))]
        BY <1>3, <2>1, <2>3 DEF Gps
      <3> QED BY <3>1
    <2> QED BY <2>2, <2>3
  <1> QED BY <1>1, <1>2, <1>3

\* The detector's word on its fix.
LEMMA LockedIs ==
  ASSUME NEW gps
  PROVE  /\ gps.evaluated = FALSE /\ gps.status \notin {"C", "D"} =>
              Locked(gps) = None
         /\ gps.evaluated = TRUE /\ gps.present = FALSE => Locked(gps) = FALSE
         /\ gps.evaluated = TRUE /\ gps.present = TRUE =>
              /\ gps.status = "C" => Locked(gps) = TRUE
              /\ gps.status = "D" => Locked(gps) = FALSE
              /\ gps.status \notin {"C", "D"} => Locked(gps) = None
  <1>1. ASSUME gps.evaluated = FALSE, gps.status \notin {"C", "D"}
        PROVE  Locked(gps) = None
    BY <1>1, Zenon DEF Locked
  <1>2. ASSUME gps.evaluated = TRUE, gps.present = FALSE
        PROVE  Locked(gps) = FALSE
    BY <1>2, Zenon DEF Locked
  <1>3. ASSUME gps.evaluated = TRUE, gps.present = TRUE, gps.status = "C"
        PROVE  Locked(gps) = TRUE
    BY <1>3 DEF Locked
  <1>4. ASSUME gps.evaluated = TRUE, gps.present = TRUE, gps.status = "D"
        PROVE  Locked(gps) = FALSE
    BY <1>4 DEF Locked
  <1>5. ASSUME gps.evaluated = TRUE, gps.present = TRUE,
               gps.status \notin {"C", "D"}
        PROVE  Locked(gps) = None
    BY <1>5, Zenon DEF Locked
  <1> QED BY <1>1, <1>2, <1>3, <1>4, <1>5

\* The POI group as it is read: it is active unless it is absent, and no pair
\* of degrees is in what is kept of it.
LEMMA PoiIs ==
  ASSUME NEW field \in Field
  PROVE  /\ Absent(field) => Poi(field).active = FALSE
         /\ ~Absent(field) => Poi(field).active = TRUE
         /\ ~PairOfDegrees(Poi(field).raw)
  <1>1. ~PairOfDegrees(<< >>)
    <2>1. Len(<< >>) = 0
      OBVIOUS
    <2>2. 1..(0 - 1) = {}
      OBVIOUS
    <2> QED BY <2>1, <2>2 DEF PairOfDegrees
  <1>2. CASE Absent(field)
    <2>1. Poi(field) = NoPoi
      <3>1. Absent(field) = TRUE
        BY <1>2 DEF Absent
      <3>2. CASE CoordinatePair(field)
        <4>1. Len(field) = 1
          BY <1>2, AbsentIs
        <4>2. 1..(1 - 1) = {}
          OBVIOUS
        <4> QED BY <3>2, <4>1, <4>2 DEF CoordinatePair
      <3>3. CASE ~CoordinatePair(field)
        BY <1>2, <3>3, Zenon DEF Poi
      <3> QED BY <3>2, <3>3
    <2>2. NoPoi.active = FALSE /\ NoPoi.raw = << >>
      BY DEF NoPoi
    <2> QED BY <1>1, <1>2, <2>1, <2>2
  <1>3. CASE ~Absent(field) /\ CoordinatePair(field)
    <2> DEFINE once == [NoPoi EXCEPT !.active = TRUE]
    <2>1. Poi(field) = [NoPoi EXCEPT !.active = TRUE, !.suspect = TRUE]
      BY <1>3, Zenon DEF Poi
    <2>2. Poi(field) = [once EXCEPT !.suspect = TRUE]
      BY <2>1, Zenon
    <2>3. once.active = TRUE /\ once.raw = << >> /\ DOMAIN once = DOMAIN NoPoi
          /\ {"active", "raw"} \subseteq DOMAIN NoPoi
      BY DEF NoPoi
    <2> HIDE DEF once
    <2>4. Poi(field).active = TRUE /\ Poi(field).raw = << >>
      BY <2>2, <2>3
    <2> QED BY <1>1, <1>3, <2>4
  <1>4. CASE ~Absent(field) /\ ~CoordinatePair(field)
    <2>1. Poi(field) =
            [active |-> TRUE, suspect |-> FALSE, raw |-> SafeGroup(field),
             kind |-> IF Decoded(field) THEN field[1] ELSE None,
             distance |-> IF Decoded(field) THEN IntOf(field[2]) ELSE None,
             limit |-> IF Decoded(field) THEN IntOf(field[3]) ELSE None]
      BY <1>4, Zenon DEF Poi
    <2>2. Poi(field).active = TRUE /\ Poi(field).raw = SafeGroup(field)
      BY <2>1
    <2>3. SafeGroup(field) = field \/ SafeGroup(field) = << >>
      BY DEF SafeGroup
    <2>4. ~PairOfDegrees(field)
      <3>1. ASSUME NEW w, w \in Decimals \ {"34.0"}
            PROVE  LooksLikeCoordinate(w)
        BY <3>1 DEF Decimals, LooksLikeCoordinate
      <3> QED BY <1>4, <3>1 DEF PairOfDegrees, CoordinatePair
    <2> QED BY <1>1, <1>4, <2>2, <2>3, <2>4
  <1> QED BY <1>2, <1>3, <1>4

\* A reading with one group replaced.
Reading(voltage, poi, gps, words, parsed) ==
  [voltage |-> voltage, poi |-> poi, gps |-> gps, words |-> words,
   parsed |-> parsed]

LEMMA ReadingExcept ==
  ASSUME NEW v, NEW x, NEW y, NEW g, NEW h, NEW w, NEW b
  PROVE  /\ Reading(v, x, g, w, b) = [Reading(v, y, g, w, b) EXCEPT !.poi = x]
         /\ Reading(v, x, g, w, b) = [Reading(v, x, h, w, b) EXCEPT !.gps = g]
  BY DEF Reading

\* What a packet is read as, with its verdict named apart from its groups.
LEMMA ReadIs ==
  ASSUME NEW p
  PROVE  \E b : /\ b = (FloatOf(Word(p[1])) # None /\ Shape(p) = "confirmed")
                /\ Read(p) = Reading(FloatOf(Word(p[1])), Poi(p[2]), Gps(p[3]),
                                     [i \in 4..7 |-> SafeWord(Word(p[i]))], b)
  BY Zenon DEF Read, Reading

\* Whatever arrives, what may be a position goes no further.
LEMMA PositionsWithheldStands ==
  ASSUME received \in Seq(Field)
  PROVE  PositionsWithheld
  <1> DEFINE reading == Telemetry(received)
             without(i) == Telemetry([received EXCEPT ![i] = <<"0">>])
  <1>1. ~PairOfDegrees(reading.poi.raw)
    <2>1. CASE Len(received) >= Expected
      <3>1. reading.poi = Poi(received[2])
        <4>1. reading = Read(received)
          BY <2>1, TelemetryIs
        <4>2. Read(received).poi = Poi(received[2])
          BY DEF Read
        <4> QED BY <4>1, <4>2
      <3>2. received[2] \in Field
        <4>1. Len(received) \in Nat
          BY LenProperties
        <4>2. 2 \in 1..Len(received)
          BY <2>1, <4>1 DEF Expected
        <4> QED BY <4>2, ElementOfSeq
      <3> QED BY <3>1, <3>2, PoiIs
    <2>2. CASE ~(Len(received) >= Expected)
      <3>1. Len(received) \in Nat
        BY LenProperties
      <3>2. Len(received) < Expected
        BY <2>2, <3>1 DEF Expected
      <3>3. reading.poi = NoPoi
        BY <3>2, TelemetryIs
      <3>4. NoPoi.raw = << >> /\ Len(<< >>) = 0 /\ 1..(0 - 1) = {}
        BY DEF NoPoi
      <3> QED BY <3>3, <3>4 DEF PairOfDegrees
    <2> QED BY <2>1, <2>2
  \* What is suspect was read.
  <1>2. ASSUME reading.poi.suspect \/ reading.gps.suspect
        PROVE  Len(received) >= Expected /\ Len(received) \in Nat
    <2>1. Len(received) \in Nat
      BY LenProperties
    <2>2. SUFFICES ASSUME Len(received) < Expected PROVE FALSE
      BY <2>1 DEF Expected
    <2>3. reading.poi = NoPoi /\ reading.gps = NoGps
      BY <2>2, TelemetryIs
    <2>4. NoPoi.suspect = FALSE /\ NoGps.suspect = FALSE
      BY DEF NoPoi, NoGps
    <2> QED BY <1>2, <2>3, <2>4
  \* A group that is read as absent changes nothing but its own reading.
  <1>3. ASSUME NEW k \in {2, 3}, Len(received) >= Expected
        PROVE  LET p == [received EXCEPT ![k] = <<"0">>]
               IN /\ reading = Read(received) /\ without(k) = Read(p)
                  /\ Shape(p) = Shape(received)
                  /\ \A i \in 1..7 : i # k => p[i] = received[i]
    <2> DEFINE p == [received EXCEPT ![k] = <<"0">>]
    <2>1. Len(received) \in Nat
      BY LenProperties
    <2>2. k \in 1..Len(received) /\ \A i \in 1..7 : i \in 1..Len(received)
      BY <1>3, <2>1 DEF Expected
    <2>3. <<"0">> \in Field
      <3>1. "0" \in Texts
        BY DEF Texts
      <3> QED BY <3>1 DEF Field
    <2>4. /\ p \in Seq(Field) /\ Len(p) = Len(received)
          /\ \A i \in 1..Len(received) :
               p[i] = IF i = k THEN <<"0">> ELSE received[i]
      BY <2>2, <2>3, PacketGarbled
    <2>5. reading = Read(received)
      BY <1>3, TelemetryIs
    <2>6. Telemetry(p) = Read(p)
      BY <1>3, <2>4, TelemetryIs
    <2>7. Shape(p) = Shape(received)
      BY <2>4 DEF Shape
    <2>8. \A i \in 1..7 : i # k => p[i] = received[i]
      BY <2>2, <2>4
    <2> QED BY <2>5, <2>6, <2>7, <2>8
  <1>4. ASSUME reading.poi.suspect
        PROVE  reading = [without(2) EXCEPT !.poi = reading.poi]
    <2> DEFINE p == [received EXCEPT ![2] = <<"0">>]
    <2>1. /\ reading = Read(received) /\ without(2) = Read(p)
          /\ Shape(p) = Shape(received)
          /\ \A i \in 1..7 : i # 2 => p[i] = received[i]
      BY <1>2, <1>3, <1>4
    <2>2. p[1] = received[1] /\ p[3] = received[3]
          /\ \A i \in 4..7 : p[i] = received[i]
      BY <2>1
    <2> HIDE DEF p
    <2>3. Read(received) = [Read(p) EXCEPT !.poi = Read(received).poi]
      <3> DEFINE words(q) == [i \in 4..7 |-> SafeWord(Word(q[i]))]
      <3>1. words(p) = words(received)
        BY <2>2
      <3>2. PICK b : /\ b = (FloatOf(Word(p[1])) # None /\ Shape(p) = "confirmed")
                     /\ Read(p) = Reading(FloatOf(Word(p[1])), Poi(p[2]),
                                          Gps(p[3]), words(p), b)
        BY ReadIs
      <3>3. PICK c : /\ c = (/\ FloatOf(Word(received[1])) # None
                             /\ Shape(received) = "confirmed")
                     /\ Read(received)
                          = Reading(FloatOf(Word(received[1])), Poi(received[2]),
                                    Gps(received[3]), words(received), c)
        BY ReadIs
      <3>4. b = c
        BY <2>1, <2>2, <3>2, <3>3, Zenon
      <3>5. Read(received).poi = Poi(received[2])
        BY DEF Read
      <3> DEFINE v == FloatOf(Word(received[1]))
                 w == words(received)
                 whole == Reading(v, Poi(received[2]), Gps(received[3]), w, b)
                 rest == Reading(v, Poi(p[2]), Gps(received[3]), w, b)
      <3>6. Read(received) = whole
        BY <3>3, <3>4
      <3>7. Read(p) = rest
        <4> HIDE DEF words
        <4> QED BY <2>2, <3>1, <3>2
      <3>8. whole = [rest EXCEPT !.poi = Poi(received[2])]
        BY ReadingExcept
      <3> HIDE DEF whole, rest
      <3> QED BY <3>5, <3>6, <3>7, <3>8
    <2> QED BY <2>1, <2>3
  <1>5. ASSUME reading.gps.suspect
        PROVE  /\ reading = [without(3) EXCEPT !.gps = reading.gps]
               /\ Locked(reading.gps) = None
    <2> DEFINE p == [received EXCEPT ![3] = <<"0">>]
    <2>1. /\ reading = Read(received) /\ without(3) = Read(p)
          /\ Shape(p) = Shape(received)
          /\ \A i \in 1..7 : i # 3 => p[i] = received[i]
      BY <1>2, <1>3, <1>5
    <2>2. p[1] = received[1] /\ p[2] = received[2]
          /\ \A i \in 4..7 : p[i] = received[i]
      BY <2>1
    <2> HIDE DEF p
    <2>3. Read(received) = [Read(p) EXCEPT !.gps = Read(received).gps]
      <3> DEFINE words(q) == [i \in 4..7 |-> SafeWord(Word(q[i]))]
      <3>1. words(p) = words(received)
        BY <2>2
      <3>2. PICK b : /\ b = (FloatOf(Word(p[1])) # None /\ Shape(p) = "confirmed")
                     /\ Read(p) = Reading(FloatOf(Word(p[1])), Poi(p[2]),
                                          Gps(p[3]), words(p), b)
        BY ReadIs
      <3>3. PICK c : /\ c = (/\ FloatOf(Word(received[1])) # None
                             /\ Shape(received) = "confirmed")
                     /\ Read(received)
                          = Reading(FloatOf(Word(received[1])), Poi(received[2]),
                                    Gps(received[3]), words(received), c)
        BY ReadIs
      <3>4. b = c
        BY <2>1, <2>2, <3>2, <3>3, Zenon
      <3>5. Read(received).gps = Gps(received[3])
        BY DEF Read
      <3> DEFINE v == FloatOf(Word(received[1]))
                 w == words(received)
                 whole == Reading(v, Poi(received[2]), Gps(received[3]), w, b)
                 rest == Reading(v, Poi(received[2]), Gps(p[3]), w, b)
      <3>6. Read(received) = whole
        BY <3>3, <3>4
      <3>7. Read(p) = rest
        <4> HIDE DEF words
        <4> QED BY <2>2, <3>1, <3>2
      <3>8. whole = [rest EXCEPT !.gps = Gps(received[3])]
        BY ReadingExcept
      <3> HIDE DEF whole, rest
      <3> QED BY <3>5, <3>6, <3>7, <3>8
    <2>4. reading.gps.evaluated = FALSE /\ reading.gps.status = None
      <3>1. reading.gps = Gps(received[3])
        BY <2>1 DEF Read
      <3>2. received[3] \in Field
        <4>1. 3 \in 1..Len(received)
          BY <1>2, <1>5 DEF Expected
        <4> QED BY <4>1, ElementOfSeq
      <3>3. Gps(received[3]).suspect
        BY <1>5, <3>1
      <3> QED BY <3>1, <3>2, <3>3, GpsIs
    <2>5. Locked(reading.gps) = None
      BY <2>4, LockedIs, JunkAssumption
    <2> QED BY <2>1, <2>3, <2>5
  <1> QED BY <1>1, <1>4, <1>5 DEF PositionsWithheld

\* The detector's word on its fix, by the GPS group.
LEMMA LockedOf ==
  ASSUME NEW field \in Field
  PROVE  /\ Absent(field) => Locked(Gps(field)) = FALSE
         /\ ~Absent(field) /\ Len(field) # 4 => Locked(Gps(field)) = None
         /\ Len(field) = 4 =>
              \/ Locked(Gps(field)) = None
              \/ SafeWord(At(field, 4)) = "C" /\ Locked(Gps(field)) = TRUE
              \/ SafeWord(At(field, 4)) = "D" /\ Locked(Gps(field)) = FALSE
  <1>1. ASSUME Absent(field) PROVE Locked(Gps(field)) = FALSE
    BY <1>1, GpsIs, LockedIs
  <1>2. ASSUME ~Absent(field), Len(field) # 4
        PROVE  Locked(Gps(field)) = None
    <2>1. Gps(field).evaluated = FALSE /\ Gps(field).status = None
      BY <1>2, GpsIs
    <2> QED BY <2>1, LockedIs, JunkAssumption
  <1>3. ASSUME Len(field) = 4
        PROVE  \/ Locked(Gps(field)) = None
               \/ SafeWord(At(field, 4)) = "C" /\ Locked(Gps(field)) = TRUE
               \/ SafeWord(At(field, 4)) = "D" /\ Locked(Gps(field)) = FALSE
    <2>1. CASE Gps(field).evaluated = FALSE /\ Gps(field).status = None
      BY <2>1, LockedIs, JunkAssumption
    <2>2. CASE /\ Gps(field).evaluated = TRUE /\ Gps(field).present = TRUE
               /\ Gps(field).status = SafeWord(At(field, 4))
      <3>1. CASE Gps(field).status = "C"
        BY <2>2, <3>1, LockedIs
      <3>2. CASE Gps(field).status = "D"
        BY <2>2, <3>2, LockedIs
      <3>3. CASE Gps(field).status \notin {"C", "D"}
        BY <2>2, <3>3, LockedIs
      <3> QED BY <3>1, <3>2, <3>3
    <2> QED BY <1>3, <2>1, <2>2, GpsIs
  <1> QED BY <1>1, <1>2, <1>3

\* A word that says fix or no fix is in the packet as it is.
LEMMA SafeWordIs ==
  ASSUME NEW field, NEW w \in {"C", "D"}, SafeWord(At(field, 4)) = w
  PROVE  field[4] = w
  BY JunkAssumption DEF SafeWord, At

\* A packet that could not be read never reads as a measurement.
LEMMA FailureIsNoReadingStands ==
  ASSUME ParsingInv, subject = "telemetry"
  PROVE  FailureIsNoReading
  <1> DEFINE before == Telemetry(sent)
             after == Telemetry(received)
  <1>1. /\ sent \in Seq(Field) /\ received \in Seq(Field)
        /\ Len(sent) \in Nat /\ Len(received) \in Nat
        /\ Len(received) <= Len(sent)
    BY LenProperties DEF ParsingInv, PacketsOK
  <1>2. CASE Len(received) < Expected
    <2>1. after.gps = NoGps /\ after.parsed = FALSE
      BY <1>1, <1>2, TelemetryIs
    <2>2. NoGps.evaluated = FALSE /\ NoGps.status = None
      BY DEF NoGps
    <2>3. Locked(after.gps) = None
      BY <2>1, <2>2, LockedIs, JunkAssumption
    <2> QED BY <2>1, <2>3 DEF FailureIsNoReading
  <1>3. CASE Len(received) >= Expected
    <2>1. Len(sent) >= Expected
      BY <1>1, <1>3 DEF Expected
    <2>2. \A k \in {2, 3} :
            /\ Len(received[k]) = Len(sent[k])
            /\ \A m \in 1..Len(sent[k]) :
                 received[k][m] = sent[k][m] \/ received[k][m] \in Junk
      BY <1>3 DEF ParsingInv, GroupsStand
    <2>3. \A k \in {2, 3} : sent[k] \in Field /\ received[k] \in Field
      <3> SUFFICES ASSUME NEW k \in {2, 3}
                   PROVE  sent[k] \in Field /\ received[k] \in Field
        OBVIOUS
      <3>1. k \in 1..Len(sent) /\ k \in 1..Len(received)
        BY <1>1, <1>3, <2>1 DEF Expected
      <3> QED BY <1>1, <3>1, ElementOfSeq
    <2>4. /\ before.gps = Gps(sent[3]) /\ after.gps = Gps(received[3])
          /\ before.poi = Poi(sent[2]) /\ after.poi = Poi(received[2])
      <3>1. before = Read(sent) /\ after = Read(received)
        BY <1>1, <1>3, <2>1, TelemetryIs
      <3>2. /\ Read(sent).gps = Gps(sent[3])
            /\ Read(received).gps = Gps(received[3])
            /\ Read(sent).poi = Poi(sent[2])
            /\ Read(received).poi = Poi(received[2])
        BY DEF Read
      <3> QED BY <3>1, <3>2
    <2>5. Locked(before.gps) # None =>
            Locked(after.gps) \in {Locked(before.gps), None}
      <3> SUFFICES ASSUME Locked(Gps(sent[3])) # None,
                          Locked(Gps(received[3])) # None
                   PROVE  Locked(Gps(received[3])) = Locked(Gps(sent[3]))
        BY <2>4
      <3>1. sent[3] \in Field /\ received[3] \in Field
            /\ Len(received[3]) = Len(sent[3])
        BY <2>2, <2>3
      <3>2. CASE Absent(sent[3])
        <4>0. 1 # 4
          OBVIOUS
        <4>1. Len(received[3]) # 4
          BY <3>1, <3>2, <4>0, AbsentIs, Zenon
        <4>2. Absent(received[3])
          BY <3>1, <4>1, LockedOf
        <4> QED BY <3>1, <3>2, <4>2, LockedOf
      <3>3. CASE Len(sent[3]) = 4
        <4>1. 4 # 1
          OBVIOUS
        <4>2. ~Absent(received[3])
          BY <3>1, <3>3, <4>1, AbsentIs, Zenon
        <4>3. PICK w \in {"C", "D"} :
                /\ SafeWord(At(received[3], 4)) = w
                /\ Locked(Gps(received[3])) = (w = "C")
          BY <3>1, <3>3, LockedOf
        <4>4. received[3][4] = w
          BY <4>3, SafeWordIs
        <4>5. 4 \in 1..Len(sent[3])
          BY <3>3
        <4>6. received[3][4] = sent[3][4]
          BY <2>2, <4>4, <4>5, JunkAssumption
        <4>7. PICK x \in {"C", "D"} :
                /\ SafeWord(At(sent[3], 4)) = x
                /\ Locked(Gps(sent[3])) = (x = "C")
          BY <3>1, <3>3, LockedOf
        <4>8. sent[3][4] = x
          BY <4>7, SafeWordIs
        <4> QED BY <4>3, <4>4, <4>6, <4>7, <4>8
      <3>4. Absent(sent[3]) \/ Len(sent[3]) = 4
        BY <3>1, LockedOf
      <3> QED BY <3>2, <3>3, <3>4
    <2>6. before.poi.active => after.poi.active
      <3> SUFFICES ASSUME before.poi.active PROVE ~Absent(received[2])
        BY <2>3, <2>4, PoiIs
      <3>1. ~Absent(sent[2])
        BY <2>3, <2>4, PoiIs
      <3>2. sent \in TelemetryPackets
        BY DEF ParsingInv, GroupsStand
      <3>3. Len(sent[2]) > 1
        BY <2>1, <3>1, <3>2, PacketAssumption
      <3>4. Len(received[2]) = Len(sent[2])
        BY <2>2
      <3>5. Len(received[2]) # 1
        <4> DEFINE n == Len(sent[2])
        <4>1. n \in Nat /\ n > 1
          BY <2>3, <3>3, LenProperties DEF Field
        <4>2. n # 1
          <5> HIDE DEF n
          <5> QED BY <4>1
        <4> QED BY <3>4, <4>2, Zenon
      <3> QED BY <3>5, AbsentIs
    <2> QED BY <2>5, <2>6 DEF FailureIsNoReading
  <1>4. Len(received) < Expected \/ Len(received) >= Expected
    BY <1>1 DEF Expected
  <1> QED BY <1>2, <1>3, <1>4

\* Both halves of the honesty of a reading.
LEMMA ReadingsHonestStands == ParsingInv => ReadingsHonest
  <1> SUFFICES ASSUME ParsingInv, subject = "telemetry"
               PROVE  PositionsWithheld /\ FailureIsNoReading
    BY DEF ReadingsHonest
  <1>1. received \in Seq(Field)
    BY DEF ParsingInv, PacketsOK
  <1> QED BY <1>1, PositionsWithheldStands, FailureIsNoReadingStands

\* parse_telemetry: what was damaged never reads as a measurement, and nothing
\* that may be a position goes further, for every packet whose POI group, where
\* it is long enough to be read and warns, has its kind, distance and limit, and
\* any harm done to it.
THEOREM DamageIsNoReading == ParsingSpec => []ReadingsHonest
  BY ParsingInvHolds, ReadingsHonestStands, PTL
-----------------------------------------------------------------------------
\* The numbers by their order, to be well founded.
Below == {p \in Nat \X Nat : p[1] < p[2]}

\* No descent among the numbers goes on for ever.
LEMMA BelowWellFounded == IsWellFoundedOn(Below, Nat)
  BY NatLessThanWellFounded DEF OpToRel, Below

\* A set of numbers that has 0, and the next of each of its members, has all.
LEMMA Induction ==
  ASSUME NEW S \in SUBSET Nat, 0 \in S, \A n \in S : n + 1 \in S
  PROVE  S = Nat
  <1> DEFINE Rest == Nat \ S
  <1>1. SUFFICES ASSUME Rest # {} PROVE FALSE
    OBVIOUS
  <1>2. PICK x \in Rest : \A y \in Rest : ~(<<y, x>> \in Below)
    BY <1>1, BelowWellFounded, WFMin
  <1>3. x # 0 /\ x - 1 \in Nat /\ x - 1 < x
    BY <1>2
  <1>4. <<x - 1, x>> \in Below
    BY <1>3 DEF Below
  <1>5. x - 1 \in S
    BY <1>2, <1>3, <1>4
  <1> QED BY <1>2, <1>3, <1>5

-----------------------------------------------------------------------------
\* The records laid one behind another, the first i of them for i up to n.
IsLaying(f, seqs, n) ==
  f = [i \in 1..n |-> IF i = 1 THEN seqs[i] ELSE f[i - 1] \o seqs[i]]

\* There is such a laying, for every number of records.
LEMMA LayingExists ==
  ASSUME NEW seqs, NEW n \in Nat
  PROVE  \E f : IsLaying(f, seqs, n)
  <1> DEFINE S == {k \in Nat : \E f : IsLaying(f, seqs, k)}
  <1>1. 0 \in S
    <2>1. 1..0 = {}
      OBVIOUS
    <2>2. IsLaying([i \in 1..0 |-> << >>], seqs, 0)
      BY <2>1 DEF IsLaying
    <2> QED BY <2>2
  <1>2. ASSUME NEW k \in S PROVE k + 1 \in S
    <2>1. PICK f : IsLaying(f, seqs, k)
      BY <1>2
    <2> DEFINE next == IF k + 1 = 1 THEN seqs[k + 1] ELSE f[k] \o seqs[k + 1]
               g == [i \in 1..(k + 1) |-> IF i = k + 1 THEN next ELSE f[i]]
    <2>2. k \in Nat /\ \A i \in 1..k : g[i] = f[i]
      <3>1. k \in Nat
        BY <1>2
      <3>2. ASSUME NEW i \in 1..k PROVE i \in 1..(k + 1) /\ i # k + 1
        BY <3>1
      <3> HIDE DEF next
      <3> QED BY <3>1, <3>2
    <2>3. \A i \in 1..k : f[i] = IF i = 1 THEN seqs[i] ELSE f[i - 1] \o seqs[i]
      BY <2>1 DEF IsLaying
    <2>4. ASSUME NEW i \in 1..(k + 1)
          PROVE  g[i] = IF i = 1 THEN seqs[i] ELSE g[i - 1] \o seqs[i]
      <3>1. CASE i = k + 1
        <4>1. g[i] = next
          BY <3>1
        <4>2. CASE k = 0
          BY <3>1, <4>1, <4>2
        <4>3. CASE k # 0
          <5>1. k \in 1..k /\ k + 1 # 1 /\ i - 1 = k /\ i # 1
            BY <2>2, <3>1, <4>3
          <5>2. g[i - 1] = f[k]
            BY <2>2, <5>1
          <5>3. next = f[k] \o seqs[k + 1]
            BY <5>1
          <5> HIDE DEF g, next
          <5> QED BY <3>1, <4>1, <5>1, <5>2, <5>3
        <4> QED BY <4>2, <4>3
      <3>2. CASE i # k + 1
        <4>1. i \in 1..k /\ (i # 1 => i - 1 \in 1..k)
          BY <2>2, <3>2
        <4>2. g[i] = f[i] /\ (i # 1 => g[i - 1] = f[i - 1])
          BY <2>2, <4>1
        <4> HIDE DEF g
        <4> QED BY <2>3, <4>1, <4>2
      <3> QED BY <3>1, <3>2
    <2>5. IsLaying(g, seqs, k + 1)
      BY <2>4 DEF IsLaying
    <2> QED BY <2>5
  <1> HIDE DEF S
  <1>3. S = Nat
    <2>1. S \subseteq Nat
      BY DEF S
    <2> QED BY <1>1, <1>2, <2>1, Induction
  <1> QED BY <1>3 DEF S

\* Blob is the last of them, so that its recursion can be unfolded.
LEMMA BlobIsLaying ==
  ASSUME NEW seqs, Len(seqs) \in Nat \ {0}
  PROVE  \E f : /\ f[1] = seqs[1]
                /\ \A i \in 2..Len(seqs) : f[i] = f[i - 1] \o seqs[i]
                /\ Blob(seqs) = f[Len(seqs)]
  <1> DEFINE flatten[i \in 1..Len(seqs)] ==
               IF i = 1 THEN seqs[i] ELSE flatten[i - 1] \o seqs[i]
  <1>1. \E f : IsLaying(f, seqs, Len(seqs))
    BY LayingExists
  <1>2. flatten = [i \in 1..Len(seqs) |->
                    IF i = 1 THEN seqs[i] ELSE flatten[i - 1] \o seqs[i]]
    BY <1>1 DEF IsLaying
  <1>3. Blob(seqs) = flatten[Len(seqs)]
    BY DEF Blob, FlattenSeq
  <1> HIDE DEF flatten
  <1>4. flatten[1] = seqs[1]
    BY <1>2
  <1>5. ASSUME NEW i \in 2..Len(seqs)
        PROVE  flatten[i] = flatten[i - 1] \o seqs[i]
    <2>1. i \in 1..Len(seqs) /\ i # 1
      OBVIOUS
    <2>2. flatten[i] = IF i = 1 THEN seqs[i] ELSE flatten[i - 1] \o seqs[i]
      BY <1>2, <2>1, Zenon
    <2> QED BY <2>1, <2>2
  <1> QED BY <1>3, <1>4, <1>5
-----------------------------------------------------------------------------
\* Where each record of a blob ends, and that its bytes are those before.
Ends(seqs) == [0..Len(seqs) -> Nat]

IsLaid(end, seqs, blob) ==
  /\ end \in Ends(seqs)
  /\ end[0] = 0 /\ end[Len(seqs)] = Len(blob)
  /\ \A k \in 1..Len(seqs) :
       /\ end[k] = end[k - 1] + Len(seqs[k])
       /\ end[k] <= Len(blob)
       /\ \A m \in 1..Len(seqs[k]) : blob[end[k - 1] + m] = seqs[k][m]

\* In a blob each record has its place.
LEMMA BlobIsLaid ==
  ASSUME NEW B, NEW seqs \in Seq(Seq(B))
  PROVE  Blob(seqs) \in Seq(B) /\ \E end : IsLaid(end, seqs, Blob(seqs))
  <1> DEFINE N == Len(seqs)
  <1>1. N \in Nat /\ \A k \in 1..N : seqs[k] \in Seq(B) /\ Len(seqs[k]) \in Nat
    BY LenProperties, ElementOfSeq
  <1>2. CASE seqs = << >>
    <2>1. N = 0 /\ Blob(seqs) = << >> /\ 1..0 = {}
      BY <1>2 DEF Blob, FlattenSeq
    <2> DEFINE end == [i \in 0..0 |-> 0]
    <2>2. end \in [0..0 -> Nat] /\ end[0] = 0
      OBVIOUS
    <2>3. Len(<< >>) = 0 /\ << >> \in Seq(B)
      OBVIOUS
    <2> HIDE DEF end
    <2>4. IsLaid(end, seqs, Blob(seqs))
      BY <2>1, <2>2, <2>3 DEF IsLaid, Ends
    <2> QED BY <2>1, <2>3, <2>4
  <1>3. CASE seqs # << >>
    <2>1. N \in Nat \ {0}
      BY <1>3, EmptySeq
    <2>2. PICK f : /\ f[1] = seqs[1]
                   /\ \A i \in 2..N : f[i] = f[i - 1] \o seqs[i]
                   /\ Blob(seqs) = f[N]
      BY <2>1, BlobIsLaying
    <2> HIDE DEF N
    \* Every laying is bytes.
    <2>3. \A i \in 1..N : f[i] \in Seq(B)
      <3> DEFINE S == {n \in Nat : n + 1 <= N => f[n + 1] \in Seq(B)}
      <3>1. 0 \in S
        <4>1. 1 \in 1..N /\ 0 + 1 = 1
          BY <2>1
        <4>2. f[1] \in Seq(B)
          BY <1>1, <2>2, <4>1
        <4> QED BY <4>1, <4>2
      <3>2. ASSUME NEW n \in S PROVE n + 1 \in S
        <4> SUFFICES ASSUME (n + 1) + 1 <= N PROVE f[(n + 1) + 1] \in Seq(B)
          OBVIOUS
        <4>1. n \in Nat /\ n + 1 <= N /\ n + 2 \in 1..N /\ n + 2 \in 2..N
              /\ (n + 1) + 1 = n + 2 /\ (n + 2) - 1 = n + 1
          BY <2>1
        <4>2. f[n + 1] \in Seq(B) /\ seqs[n + 2] \in Seq(B)
          BY <1>1, <4>1
        <4>3. f[n + 2] = f[n + 1] \o seqs[n + 2]
          BY <2>2, <4>1
        <4> HIDE DEF S
        <4> QED BY <4>1, <4>2, <4>3, ConcatProperties
      <3>3. S = Nat
        <4>1. S \subseteq Nat
          OBVIOUS
        <4> HIDE DEF S
        <4> QED BY <3>1, <3>2, <4>1, Induction
      <3>4. ASSUME NEW i \in 1..N PROVE f[i] \in Seq(B)
        <4>1. i - 1 \in Nat /\ (i - 1) + 1 = i /\ i <= N
          BY <2>1
        <4>2. i - 1 \in S
          BY <3>3, <4>1
        <4> QED BY <4>1, <4>2
      <3> QED BY <3>4
    <2>4. \A i \in 1..N : Len(f[i]) \in Nat
      BY <2>3, LenProperties
    \* A step adds the next record behind.
    <2>5. ASSUME NEW i \in 2..N
          PROVE  /\ Len(f[i]) = Len(f[i - 1]) + Len(seqs[i])
                 /\ \A b \in 1..Len(f[i - 1]) : f[i][b] = f[i - 1][b]
                 /\ \A m \in 1..Len(seqs[i]) :
                      f[i][Len(f[i - 1]) + m] = seqs[i][m]
      <3>1. i \in 1..N /\ i - 1 \in 1..N
        BY <2>1
      <3>2. /\ f[i - 1] \in Seq(B) /\ seqs[i] \in Seq(B)
            /\ Len(f[i - 1]) \in Nat /\ Len(seqs[i]) \in Nat
        BY <1>1, <2>3, <2>4, <3>1
      <3>3. f[i] = f[i - 1] \o seqs[i]
        BY <2>2
      <3> DEFINE s == f[i - 1]
                 t == seqs[i]
                 ls == Len(s)
                 lt == Len(t)
      <3>4. /\ Len(s \o t) = ls + lt
            /\ \A b \in 1..(ls + lt) : (s \o t)[b] = IF b <= ls THEN s[b]
                                                     ELSE t[b - ls]
        BY <3>2, ConcatProperties
      <3>5. ls \in Nat /\ lt \in Nat
        BY <3>2
      <3> HIDE DEF s, t, ls, lt
      <3>6. ASSUME NEW b \in 1..ls PROVE (s \o t)[b] = s[b]
        <4>1. b \in 1..(ls + lt) /\ b <= ls
          BY <3>5
        <4> QED BY <3>4, <4>1
      <3>7. ASSUME NEW m \in 1..lt PROVE (s \o t)[ls + m] = t[m]
        <4>1. ls + m \in 1..(ls + lt) /\ ~(ls + m <= ls) /\ (ls + m) - ls = m
          BY <3>5
        <4> QED BY <3>4, <4>1
      <3> QED BY <3>3, <3>4, <3>6, <3>7 DEF s, t, ls, lt
    \* What is laid stays where it is.
    <2>6. ASSUME NEW i \in 1..N
          PROVE  /\ Len(f[i]) <= Len(f[N])
                 /\ \A b \in 1..Len(f[i]) : f[N][b] = f[i][b]
      <3> DEFINE Stays(j) == /\ Len(f[i]) <= Len(f[j])
                             /\ \A b \in 1..Len(f[i]) : f[j][b] = f[i][b]
                 S == {d \in Nat : i + d <= N => Stays(i + d)}
      <3>1. 0 \in S
        <4>1. i + 0 = i /\ i \in Nat
          BY <2>1
        <4>2. Len(f[i]) <= Len(f[i])
          BY <2>4
        <4>3. Stays(i)
          BY <4>2
        <4> HIDE DEF Stays
        <4> QED BY <4>1, <4>3
      <3>2. ASSUME NEW d \in S PROVE d + 1 \in S
        <4> SUFFICES ASSUME i + (d + 1) <= N PROVE Stays(i + (d + 1))
          OBVIOUS
        <4> DEFINE j == i + (d + 1)
        <4>1. /\ d \in Nat /\ i + d <= N /\ i + d = j - 1
              /\ j \in 2..N /\ j \in 1..N /\ j - 1 \in 1..N
          BY <2>1
        <4>2. Stays(j - 1)
          BY <4>1
        <4> HIDE DEF j, S
        <4>3. /\ Len(f[j]) = Len(f[j - 1]) + Len(seqs[j])
              /\ \A b \in 1..Len(f[j - 1]) : f[j][b] = f[j - 1][b]
          BY <2>5, <4>1
        <4>4. Len(f[j - 1]) \in Nat /\ Len(seqs[j]) \in Nat /\ Len(f[i]) \in Nat
          BY <1>1, <2>4, <4>1
        <4>5. Len(f[i]) <= Len(f[j])
          <5> DEFINE a == Len(f[i])
                     b == Len(f[j - 1])
                     c == Len(seqs[j])
          <5>1. a \in Nat /\ b \in Nat /\ c \in Nat /\ a <= b
            BY <4>2, <4>4
          <5>2. a <= b + c
            <6> HIDE DEF a, b, c
            <6> QED BY <5>1
          <5> QED BY <4>3, <5>2
        <4>6. ASSUME NEW b \in 1..Len(f[i]) PROVE f[j][b] = f[i][b]
          <5>1. b \in 1..Len(f[j - 1])
            BY <4>2, <4>4
          <5> QED BY <4>2, <4>3, <5>1
        <4> QED BY <4>5, <4>6 DEF j
      <3>3. S = Nat
        <4>1. S \subseteq Nat
          OBVIOUS
        <4> HIDE DEF S
        <4> QED BY <3>1, <3>2, <4>1, Induction
      <3>4. N - i \in Nat /\ i + (N - i) = N
        BY <2>1
      <3>5. N - i \in S
        BY <3>3, <3>4
      <3>6. Stays(N)
        <4> HIDE DEF Stays
        <4>1. i + (N - i) <= N => Stays(i + (N - i))
          BY <3>5
        <4> QED BY <2>1, <3>4, <4>1
      <3> QED BY <3>6
    <2> DEFINE end == [i \in 0..N |-> IF i = 0 THEN 0 ELSE Len(f[i])]
    <2>7. end \in [0..N -> Nat] /\ end[0] = 0
          /\ \A i \in 1..N : end[i] = Len(f[i])
      <3>1. ASSUME NEW i \in 0..N PROVE i = 0 \/ i \in 1..N
        BY <2>1
      <3>2. ASSUME NEW i \in 1..N PROVE i # 0 /\ i \in 0..N
        BY <2>1
      <3>3. 0 \in 0..N
        BY <2>1
      <3> QED BY <2>4, <3>1, <3>2, <3>3
    <2> HIDE DEF end
    <2>8. ASSUME NEW k \in 1..N
          PROVE  /\ end[k] = end[k - 1] + Len(seqs[k])
                 /\ \A m \in 1..Len(seqs[k]) :
                      f[k][end[k - 1] + m] = seqs[k][m]
      <3>1. CASE k = 1
        <4>1. k - 1 = 0 /\ end[k - 1] = 0 /\ end[k] = Len(seqs[k])
          BY <2>2, <2>7, <3>1
        <4>2. Len(seqs[k]) \in Nat
          BY <1>1
        <4>3. ASSUME NEW m \in 1..Len(seqs[k]) PROVE 0 + m = m
          BY <4>2
        <4> QED BY <2>2, <3>1, <4>1, <4>2, <4>3
      <3>2. CASE k # 1
        <4>1. k \in 2..N /\ k - 1 \in 1..N
          BY <2>1, <3>2
        <4>2. end[k] = Len(f[k]) /\ end[k - 1] = Len(f[k - 1])
          BY <2>7, <4>1
        <4> QED BY <2>5, <4>1, <4>2
      <3> QED BY <3>1, <3>2
    <2>9. ASSUME NEW k \in 1..N
          PROVE  /\ end[k] <= Len(f[N])
                 /\ \A m \in 1..Len(seqs[k]) :
                      f[N][end[k - 1] + m] = seqs[k][m]
      <3>1. end[k] = Len(f[k]) /\ end[k] \in Nat /\ end[k - 1] \in Nat
            /\ Len(seqs[k]) \in Nat
        <4>1. k \in 0..N /\ k - 1 \in 0..N
          BY <2>1
        <4> QED BY <1>1, <2>7, <4>1
      <3>2. ASSUME NEW m \in 1..Len(seqs[k])
            PROVE  f[N][end[k - 1] + m] = seqs[k][m]
        <4>1. end[k - 1] + m \in 1..Len(f[k])
          BY <2>8, <3>1
        <4>2. f[N][end[k - 1] + m] = f[k][end[k - 1] + m]
          BY <2>6, <4>1
        <4> QED BY <2>8, <4>2
      <3> QED BY <2>6, <3>1, <3>2
    <2>10. end[N] = Len(f[N]) /\ f[N] \in Seq(B)
      <3>1. N \in 1..N
        BY <2>1
      <3> QED BY <2>3, <2>7, <3>1
    <2>11. IsLaid(end, seqs, f[N])
      BY <2>7, <2>8, <2>9, <2>10 DEF IsLaid, Ends, N
    <2> QED BY <2>2, <2>10, <2>11
  <1> QED BY <1>2, <1>3
-----------------------------------------------------------------------------
\* One step of the walk, from what the walk finds behind it.
WalkStep(from, blob, table, o) ==
  LET kind == blob[o + 1]
  IN CASE o = Len(blob) -> << >>
       [] o < Len(blob) /\ kind \notin DOMAIN table ->
            <<Entry(o, << >>, FALSE, FALSE)>>
       [] OTHER ->
            IF o + table[kind] > Len(blob)
            THEN <<Entry(o, << >>, TRUE, FALSE)>>
            ELSE <<Entry(o, SubSeq(blob, o + 1, o + table[kind]),
                         TRUE, TRUE)>> \o from[o + table[kind]]

\* A step, case by case.
LEMMA WalkStepIs ==
  ASSUME NEW from, NEW blob, NEW table, NEW o \in Nat,
         Len(blob) \in Nat, o <= Len(blob),
         \A kind \in DOMAIN table : table[kind] \in Nat \ {0}
  PROVE  /\ o = Len(blob) => WalkStep(from, blob, table, o) = << >>
         /\ o < Len(blob) /\ blob[o + 1] \notin DOMAIN table =>
              WalkStep(from, blob, table, o) = <<Entry(o, << >>, FALSE, FALSE)>>
         /\ o < Len(blob) /\ blob[o + 1] \in DOMAIN table =>
              /\ o + table[blob[o + 1]] > Len(blob) =>
                   WalkStep(from, blob, table, o) = <<Entry(o, << >>, TRUE, FALSE)>>
              /\ o + table[blob[o + 1]] <= Len(blob) =>
                   WalkStep(from, blob, table, o) =
                     <<Entry(o, SubSeq(blob, o + 1, o + table[blob[o + 1]]),
                             TRUE, TRUE)>> \o from[o + table[blob[o + 1]]]
  <1> DEFINE L == Len(blob)
             kind == blob[o + 1]
             short == <<Entry(o, << >>, TRUE, FALSE)>>
             unknown == <<Entry(o, << >>, FALSE, FALSE)>>
             fits == <<Entry(o, SubSeq(blob, o + 1, o + table[kind]),
                             TRUE, TRUE)>> \o from[o + table[kind]]
  <1>1. WalkStep(from, blob, table, o)
          = CASE o = L -> << >>
              [] o < L /\ kind \notin DOMAIN table -> unknown
              [] OTHER -> IF o + table[kind] > L THEN short ELSE fits
    BY DEF WalkStep
  <1>2. L \in Nat /\ o <= L
    OBVIOUS
  <1> HIDE DEF L, kind, short, unknown, fits
  <1>3. o < L => o # L
    BY <1>2
  <1>4. ASSUME o = L PROVE WalkStep(from, blob, table, o) = << >>
    <2>1. ~(o < L)
      BY <1>2, <1>4
    <2> QED BY <1>1, <1>4, <2>1, Zenon
  <1>5. ASSUME o < L, kind \notin DOMAIN table
        PROVE  WalkStep(from, blob, table, o) = unknown
    BY <1>1, <1>3, <1>5, Zenon
  <1>6. ASSUME o < L, kind \in DOMAIN table, o + table[kind] > L
        PROVE  WalkStep(from, blob, table, o) = short
    BY <1>1, <1>3, <1>6, Zenon
  <1>7. ASSUME o < L, kind \in DOMAIN table, o + table[kind] <= L
        PROVE  WalkStep(from, blob, table, o) = fits
    <2>1. table[kind] \in Nat
      BY <1>7
    <2>2. ~(o + table[kind] > L)
      BY <1>2, <1>7, <2>1
    <2> QED BY <1>1, <1>3, <1>7, <2>2, Zenon
  <1> QED BY <1>4, <1>5, <1>6, <1>7 DEF L, kind, short, unknown, fits

\* A record that does not fit ends the walk.
LEMMA ShortStep ==
  ASSUME NEW from, NEW blob, NEW table, NEW o \in Nat,
         Len(blob) \in Nat, o < Len(blob),
         \A kind \in DOMAIN table : table[kind] \in Nat \ {0},
         blob[o + 1] \in DOMAIN table, o + table[blob[o + 1]] > Len(blob)
  PROVE  WalkStep(from, blob, table, o) = <<Entry(o, << >>, TRUE, FALSE)>>
  <1> DEFINE L == Len(blob)
  <1>1. o <= L
    <2>1. L \in Nat /\ o < L
      OBVIOUS
    <2> HIDE DEF L
    <2> QED BY <2>1
  <1>2. o <= Len(blob)
    BY <1>1
  <1> HIDE DEF L
  <1> QED BY <1>2, WalkStepIs

\* What a record that fits adds to what is found behind it.
Taken(blob, table, o, behind) ==
  <<Entry(o, SubSeq(blob, o + 1, o + table[blob[o + 1]]), TRUE, TRUE)>> \o behind

\* A record that fits is taken.
LEMMA FittingStep ==
  ASSUME NEW from, NEW blob, NEW table, NEW o \in Nat,
         Len(blob) \in Nat, o < Len(blob),
         \A kind \in DOMAIN table : table[kind] \in Nat \ {0},
         blob[o + 1] \in DOMAIN table, o + table[blob[o + 1]] <= Len(blob)
  PROVE  WalkStep(from, blob, table, o) =
           Taken(blob, table, o, from[o + table[blob[o + 1]]])
  <1> DEFINE L == Len(blob)
  <1>1. o <= L
    <2>1. L \in Nat /\ o < L
      OBVIOUS
    <2> HIDE DEF L
    <2> QED BY <2>1
  <1>2. o <= Len(blob)
    BY <1>1
  <1> HIDE DEF L
  <1> QED BY <1>2, WalkStepIs DEF Taken

\* A step depends on what is behind it only.
LEMMA WalkStepLocal ==
  ASSUME NEW f, NEW g, NEW blob, NEW table, NEW o \in Nat,
         Len(blob) \in Nat, o <= Len(blob),
         \A kind \in DOMAIN table : table[kind] \in Nat \ {0},
         \A i \in (o + 1)..Len(blob) : f[i] = g[i]
  PROVE  WalkStep(f, blob, table, o) = WalkStep(g, blob, table, o)
  <1> DEFINE L == Len(blob)
             size == table[blob[o + 1]]
  <1>1. CASE o = L
    BY <1>1, WalkStepIs
  <1>2. CASE o < L /\ blob[o + 1] \notin DOMAIN table
    BY <1>2, WalkStepIs
  <1>3. CASE o < L /\ blob[o + 1] \in DOMAIN table /\ o + size > L
    <2>1. ASSUME NEW h
          PROVE  WalkStep(h, blob, table, o) = <<Entry(o, << >>, TRUE, FALSE)>>
      BY <1>3, ShortStep
    <2> QED BY <2>1
  <1>4. CASE o < L /\ blob[o + 1] \in DOMAIN table /\ o + size <= L
    <2>1. size \in Nat \ {0}
      BY <1>4
    <2>2. o + size \in (o + 1)..L
      <3>1. L \in Nat /\ o + size <= L
        BY <1>4
      <3> HIDE DEF L, size
      <3> QED BY <2>1, <3>1
    <2>3. f[o + size] = g[o + size]
      BY <2>2
    <2>4. /\ WalkStep(f, blob, table, o) = Taken(blob, table, o, f[o + size])
          /\ WalkStep(g, blob, table, o) = Taken(blob, table, o, g[o + size])
      BY <1>4, FittingStep
    <2> HIDE DEF size
    <2> QED BY <2>3, <2>4
  <1>5. o = L \/ o < L
    <2>1. L \in Nat /\ o <= L
      OBVIOUS
    <2> HIDE DEF L
    <2> QED BY <2>1
  <1>6. ASSUME o < L, blob[o + 1] \in DOMAIN table
        PROVE  o + size > L \/ o + size <= L
    <2>1. size \in Nat /\ L \in Nat
      BY <1>6
    <2> HIDE DEF size, L
    <2> QED BY <2>1
  <1> QED BY <1>1, <1>2, <1>3, <1>4, <1>5, <1>6

\* The walks from each of the last d + 1 offsets of a blob.
IsWalk(f, blob, table, d) ==
  f = [o \in (Len(blob) - d)..Len(blob) |-> WalkStep(f, blob, table, o)]

\* There are such walks, from the end of the blob to its first byte.
LEMMA WalkExists ==
  ASSUME NEW blob, NEW table, Len(blob) \in Nat,
         \A kind \in DOMAIN table : table[kind] \in Nat \ {0}
  PROVE  \E f : IsWalk(f, blob, table, Len(blob))
  <1> DEFINE L == Len(blob)
             S == {d \in Nat : d <= L => \E f : IsWalk(f, blob, table, d)}
  <1>1. 0 \in S
    <2>1. \A o \in (L - 0)..L : o = L
      <3>1. L \in Nat
        OBVIOUS
      <3> HIDE DEF L
      <3> QED BY <3>1
    <2> DEFINE f == [o \in (L - 0)..L |-> << >>]
    <2>2. ASSUME NEW o \in (L - 0)..L PROVE WalkStep(f, blob, table, o) = << >>
      <3>1. o \in Nat /\ o = Len(blob) /\ o <= Len(blob)
        BY <2>1
      <3> HIDE DEF f
      <3> QED BY <3>1, WalkStepIs
    <2>3. IsWalk(f, blob, table, 0)
      BY <2>2 DEF IsWalk
    <2> QED BY <2>3
  <1>2. ASSUME NEW d \in S PROVE d + 1 \in S
    <2> SUFFICES ASSUME d + 1 <= L
                 PROVE  \E f : IsWalk(f, blob, table, d + 1)
      OBVIOUS
    <2>1. d \in Nat /\ L \in Nat
      OBVIOUS
    <2>2. d <= L
      <3> HIDE DEF S, L
      <3> QED BY <2>1
    <2>3. PICK f : IsWalk(f, blob, table, d)
      BY <2>2
    <2> HIDE DEF S
    <2> DEFINE first == L - (d + 1)
               g == [o \in first..L |->
                       IF o = first THEN WalkStep(f, blob, table, first) ELSE f[o]]
    <2>4. first \in Nat /\ first <= L /\ first + 1 = L - d /\ first \in first..L
      <3> HIDE DEF L
      <3> QED BY <2>1
    <2>5. \A o \in (L - d)..L : f[o] = WalkStep(f, blob, table, o)
      BY <2>3 DEF IsWalk
    <2>6. ASSUME NEW o \in (L - d)..L
          PROVE  o \in first..L /\ o # first /\ o \in Nat /\ o <= L
      <3> HIDE DEF first, L
      <3> QED BY <2>1, <2>4
    <2>7. ASSUME NEW o \in first..L
          PROVE  o = first \/ o \in (L - d)..L
      <3> HIDE DEF first, L
      <3> QED BY <2>1, <2>4
    <2>8. \A o \in (L - d)..L : g[o] = f[o]
      BY <2>6
    <2>9. ASSUME NEW o \in first..L
          PROVE  g[o] = WalkStep(g, blob, table, o)
      <3>1. /\ o \in Nat /\ o <= Len(blob)
            /\ \A i \in (o + 1)..Len(blob) : f[i] = g[i]
        <4>1. o \in Nat /\ o <= L
          BY <2>4, <2>6, <2>7
        <4>2. ASSUME NEW i \in (o + 1)..L PROVE i \in (L - d)..L
          <5>1. first <= o
            <6> HIDE DEF first, L
            <6> QED BY <2>1, <2>4
          <5> HIDE DEF first, L
          <5> QED BY <2>1, <2>4, <4>1, <5>1
        <4> HIDE DEF g
        <4> QED BY <2>8, <4>1, <4>2
      <3>2. WalkStep(f, blob, table, o) = WalkStep(g, blob, table, o)
        <4> HIDE DEF g, first, L
        <4> QED BY <3>1, WalkStepLocal
      <3>3. CASE o = first
        <4>1. g[o] = WalkStep(f, blob, table, o)
          BY <2>4, <3>3
        <4> QED BY <3>2, <4>1
      <3>4. CASE o \in (L - d)..L
        <4>1. g[o] = WalkStep(f, blob, table, o)
          BY <2>5, <2>8, <3>4
        <4> QED BY <3>2, <4>1
      <3> QED BY <2>7, <3>3, <3>4
    <2>10. g = [o \in first..L |-> WalkStep(g, blob, table, o)]
      BY <2>9
    <2>11. IsWalk(g, blob, table, d + 1)
      <3> HIDE DEF g
      <3> QED BY <2>10 DEF IsWalk
    <2> QED BY <2>11
  <1>3. S = Nat
    <2>1. S \subseteq Nat
      OBVIOUS
    <2> HIDE DEF S
    <2> QED BY <1>1, <1>2, <2>1, Induction
  <1>4. L \in S /\ L <= L
    <2>1. L \in Nat
      OBVIOUS
    <2> HIDE DEF S, L
    <2> QED BY <1>3, <2>1
  <1> QED BY <1>4

\* Walk is the first of them, so that its recursion can be unfolded.
LEMMA WalkIs ==
  ASSUME NEW blob, NEW table, Len(blob) \in Nat,
         \A kind \in DOMAIN table : table[kind] \in Nat \ {0}
  PROVE  \E from : /\ Walk(blob, table) = from[0]
                   /\ \A o \in 0..Len(blob) :
                        from[o] = WalkStep(from, blob, table, o)
  <1> DEFINE from[o \in 0..Len(blob)] ==
               LET kind == blob[o + 1]
               IN CASE o = Len(blob) -> << >>
                    [] o < Len(blob) /\ kind \notin DOMAIN table ->
                         <<Entry(o, << >>, FALSE, FALSE)>>
                    [] OTHER ->
                         IF o + table[kind] > Len(blob)
                         THEN <<Entry(o, << >>, TRUE, FALSE)>>
                         ELSE <<Entry(o, SubSeq(blob, o + 1, o + table[kind]),
                                      TRUE, TRUE)>> \o from[o + table[kind]]
  <1>1. \E f : f = [o \in 0..Len(blob) |-> WalkStep(f, blob, table, o)]
    <2>1. Len(blob) - Len(blob) = 0
      OBVIOUS
    <2> QED BY <2>1, WalkExists DEF IsWalk
  <1>2. from = [o \in 0..Len(blob) |-> WalkStep(from, blob, table, o)]
    BY <1>1 DEF WalkStep
  <1>3. Walk(blob, table) = from[0]
    BY DEF Walk
  <1> HIDE DEF from
  <1> QED BY <1>2, <1>3
-----------------------------------------------------------------------------
\* Every size of the layout that the detector uses is a positive number.
LEMMA LayoutIs ==
  \A kind \in DOMAIN Layouts.whole : Layouts.whole[kind] \in Nat \ {0}
  <1> DEFINE sizes == <<13, 12, 10>>
             table == [kind \in 1..3 |-> sizes[kind]]
  <1>1. Layouts.whole = table
    BY DEF Layouts
  <1>2. \A kind \in 1..3 : sizes[kind] \in Nat \ {0}
    OBVIOUS
  <1> HIDE DEF sizes
  <1> QED BY <1>1, <1>2

\* What a walk is made of.
Entries == [offset : Nat, bytes : Seq(Bytes), known : BOOLEAN, fits : BOOLEAN]

\* The fields of an entry are what it was made from.
LEMMA EntryIs ==
  ASSUME NEW o \in Nat, NEW bytes \in Seq(Bytes), NEW known \in BOOLEAN,
         NEW fits \in BOOLEAN
  PROVE  /\ Entry(o, bytes, known, fits) \in Entries
         /\ Entry(o, bytes, known, fits).bytes = bytes
         /\ Entry(o, bytes, known, fits).known = known
         /\ Entry(o, bytes, known, fits).fits = fits
  BY DEF Entry, Entries

\* What comes before the entries of a walk moves them by one.
LEMMA EntryBefore ==
  ASSUME NEW e \in Entries, NEW behind \in Seq(Entries)
  PROVE  /\ <<e>> \o behind \in Seq(Entries)
         /\ Len(<<e>> \o behind) = Len(behind) + 1
         /\ (<<e>> \o behind)[1] = e
         /\ \A i \in 1..Len(behind) : (<<e>> \o behind)[i + 1] = behind[i]
  <1>1. <<e>> \in Seq(Entries) /\ Len(<<e>>) = 1 /\ <<e>>[1] = e
    OBVIOUS
  <1> DEFINE s == <<e>>
             n == Len(behind)
  <1>2. n \in Nat
    BY LenProperties
  <1>3. s \in Seq(Entries) /\ Len(s) = 1 /\ s[1] = e
    BY <1>1
  <1> HIDE DEF s, n
  <1>4. /\ s \o behind \in Seq(Entries)
        /\ Len(s \o behind) = 1 + n
        /\ \A i \in 1..(1 + n) :
             (s \o behind)[i] = IF i <= 1 THEN s[i] ELSE behind[i - 1]
    <2>1. /\ s \o behind \in Seq(Entries)
          /\ Len(s \o behind) = Len(s) + Len(behind)
          /\ \A i \in 1..(Len(s) + Len(behind)) :
               (s \o behind)[i] = IF i <= Len(s) THEN s[i]
                                  ELSE behind[i - Len(s)]
      BY <1>3, ConcatProperties
    <2> QED BY <1>3, <2>1 DEF n
  <1>5. (s \o behind)[1] = e
    BY <1>2, <1>3, <1>4
  <1>6. ASSUME NEW i \in 1..n PROVE (s \o behind)[i + 1] = behind[i]
    <2>1. i + 1 \in 1..(1 + n) /\ ~(i + 1 <= 1) /\ (i + 1) - 1 = i
      BY <1>2
    <2> QED BY <1>4, <2>1
  <1>7. 1 + n = n + 1
    BY <1>2
  <1> QED BY <1>4, <1>5, <1>6, <1>7 DEF s, n

\* Where a whole record is laid, the walk takes it and goes on behind it.
LEMMA StepOverRecord ==
  ASSUME NEW seqs \in Seq(Seq(Bytes)), NEW blob \in Seq(Bytes), NEW end,
         IsLaid(end, seqs, blob),
         NEW k \in 1..Len(seqs), seqs[k] \in Records,
         NEW from
  PROVE  /\ end[k - 1] \in 0..Len(blob)
         /\ WalkStep(from, blob, Layouts.whole, end[k - 1])
              = <<Entry(end[k - 1], seqs[k], TRUE, TRUE)>> \o from[end[k]]
  <1> DEFINE o == end[k - 1]
             r == seqs[k]
             n == Len(r)
             L == Len(blob)
  <1>1. k \in 0..Len(seqs) /\ k - 1 \in 0..Len(seqs)
    <2>1. Len(seqs) \in Nat
      BY LenProperties
    <2> QED BY <2>1
  <1>2. o \in Nat /\ end[k] \in Nat
    BY <1>1 DEF IsLaid, Ends
  <1>3. /\ end[k] = o + n /\ end[k] <= L
        /\ \A m \in 1..n : blob[o + m] = r[m]
    BY DEF IsLaid
  <1>4. /\ r \in Seq(Bytes) /\ n \in Nat \ {0}
        /\ r[1] \in DOMAIN Layouts.whole /\ n = Layouts.whole[r[1]]
    BY RecordsAre
  <1>5. L \in Nat
    BY LenProperties
  <1> HIDE DEF o, r, n, L
  <1>6. o < L /\ o \in 0..L /\ 1 \in 1..n /\ o + n <= L
    <2>1. o + n <= L /\ n \in Nat \ {0}
      BY <1>3, <1>4
    <2> QED BY <1>2, <1>5, <2>1
  <1>7. blob[o + 1] = r[1]
    BY <1>3, <1>6
  <1>8. WalkStep(from, blob, Layouts.whole, o)
          = Taken(blob, Layouts.whole, o, from[o + n])
    <2>1. Len(blob) \in Nat /\ o < Len(blob) /\ o + n <= Len(blob)
      BY <1>5, <1>6 DEF L
    <2>2. blob[o + 1] \in DOMAIN Layouts.whole
          /\ Layouts.whole[blob[o + 1]] = n
      BY <1>4, <1>7
    <2>3. o + Layouts.whole[blob[o + 1]] <= Len(blob)
      BY <2>1, <2>2
    <2>4. WalkStep(from, blob, Layouts.whole, o)
            = Taken(blob, Layouts.whole, o, from[o + Layouts.whole[blob[o + 1]]])
      BY <1>2, <2>1, <2>2, <2>3, LayoutIs, FittingStep
    <2> QED BY <2>2, <2>4
  <1>9. SubSeq(blob, o + 1, o + n) = r
    <2> DEFINE part == SubSeq(blob, o + 1, o + n)
    <2>1. o + 1 \in Int /\ o + n \in Int /\ o + 1 <= o + n
          /\ (o + n) - (o + 1) + 1 = n
      <3>1. n \in Nat /\ n >= 1
        <4>1. n \in Nat \ {0}
          BY <1>4
        <4> QED BY <4>1
      <3> QED BY <1>2, <3>1
    <2>2. \A i \in (o + 1)..(o + n) : blob[i] \in Bytes
      <3> SUFFICES ASSUME NEW i \in (o + 1)..(o + n) PROVE blob[i] \in Bytes
        OBVIOUS
      <3> HIDE DEF part
      <3>1. i \in 1..L
        <4>1. o \in Nat /\ n \in Nat /\ L \in Nat /\ o + n <= L
          BY <1>2, <1>4, <1>5, <1>6
        <4>2. i \in Int /\ o + 1 <= i /\ i <= o + n
          BY <4>1
        <4> QED BY <4>1, <4>2
      <3> QED BY <3>1, ElementOfSeq DEF L
    <2>3. /\ part \in Seq(Bytes)
          /\ Len(part) = IF o + 1 <= o + n THEN (o + n) - (o + 1) + 1 ELSE 0
          /\ \A i \in 1..((o + n) - (o + 1) + 1) : part[i] = blob[(o + 1) + i - 1]
      BY <2>1, <2>2, SubSeqProperties
    <2>4. Len(part) = n
      BY <2>1, <2>3
    <2>5. ASSUME NEW i \in 1..n PROVE part[i] = r[i]
      <3>1. (o + 1) + i - 1 = o + i
        BY <1>2
      <3>2. part[i] = blob[o + i]
        BY <2>1, <2>3, <3>1
      <3> QED BY <1>3, <3>2
    <2> HIDE DEF part
    <2>6. part = r
      BY <1>4, <2>3, <2>4, <2>5, SeqEqual DEF n
    <2> QED BY <2>6 DEF part
  <1>10. Taken(blob, Layouts.whole, o, from[o + n])
           = <<Entry(o, r, TRUE, TRUE)>> \o from[end[k]]
    BY <1>3, <1>4, <1>7, <1>9 DEF Taken
  <1> QED BY <1>6, <1>8, <1>10 DEF o, r, L

\* The walk of a whole database finds its records, one after another.
LEMMA WalkOfWhole ==
  ASSUME NEW seqs \in Seq(Records)
  PROVE  LET walk == Walk(Blob(seqs), Layouts.whole)
         IN /\ walk \in Seq(Entries) /\ Len(walk) = Len(seqs)
            /\ \A i \in 1..Len(seqs) :
                 walk[i].bytes = seqs[i] /\ walk[i].known /\ walk[i].fits
  <1> DEFINE N == Len(seqs)
             blob == Blob(seqs)
             walk == Walk(blob, Layouts.whole)
  <1>1. N \in Nat /\ \A k \in 1..N : seqs[k] \in Records
    BY LenProperties, ElementOfSeq
  <1>2. seqs \in Seq(Seq(Bytes))
    <2>1. Records \subseteq Seq(Bytes)
      BY RecordsAre
    <2> QED BY <2>1, SeqMonotonic
  <1>3. blob \in Seq(Bytes) /\ \E end : IsLaid(end, seqs, blob)
    BY <1>2, BlobIsLaid
  <1> HIDE DEF blob
  <1>4. PICK end : IsLaid(end, seqs, blob)
    BY <1>3
  <1>5. Len(blob) \in Nat
    BY <1>3, LenProperties
  <1>6. PICK from : /\ walk = from[0]
                    /\ \A o \in 0..Len(blob) :
                         from[o] = WalkStep(from, blob, Layouts.whole, o)
    BY <1>5, LayoutIs, WalkIs
  <1> DEFINE Rest(k) == from[end[k]]
             Is(k) == /\ Rest(k) \in Seq(Entries) /\ Len(Rest(k)) = N - k
                      /\ \A i \in 1..(N - k) :
                           /\ Rest(k)[i].bytes = seqs[k + i]
                           /\ Rest(k)[i].known = TRUE
                           /\ Rest(k)[i].fits = TRUE
             S == {d \in Nat : d <= N => Is(N - d)}
  <1>7. 0 \in S
    <2>1. end[N] = Len(blob)
      BY <1>4 DEF IsLaid
    <2>2. Rest(N) = << >>
      <3> DEFINE L == Len(blob)
      <3>1. L \in Nat
        BY <1>5
      <3>2. L \in 0..L /\ L <= L
        <4> HIDE DEF L
        <4> QED BY <3>1
      <3>3. WalkStep(from, blob, Layouts.whole, L) = << >>
        BY <3>1, <3>2, LayoutIs, WalkStepIs
      <3> QED BY <1>6, <2>1, <3>2, <3>3
    <2>3. N - N = 0 /\ N - 0 = N /\ 1..0 = {} /\ Len(<< >>) = 0
          /\ << >> \in Seq(Entries)
      BY <1>1
    <2> HIDE DEF Rest, N
    <2>4. Is(N)
      BY <2>2, <2>3
    <2> QED BY <2>3, <2>4
  <1>8. ASSUME NEW d \in S PROVE d + 1 \in S
    <2> SUFFICES ASSUME d + 1 <= N PROVE Is(N - (d + 1))
      <3>1. d + 1 \in Nat
        <4> HIDE DEF Is, N
        <4> QED BY <1>8
      <3> HIDE DEF Is, N
      <3> QED BY <3>1
    <2> DEFINE k == N - d
    <2>0. d \in Nat /\ (d <= N => Is(N - d))
      <3> HIDE DEF Is, N
      <3> QED BY <1>8
    <2> HIDE DEF S
    <2>1. d <= N /\ k \in 1..N /\ N - (d + 1) = k - 1
          /\ N - (k - 1) = (N - k) + 1 /\ N - k \in Nat
      <3> HIDE DEF N, Is
      <3> QED BY <1>1, <2>0
    <2>2. Is(k)
      BY <2>0, <2>1
    <2> HIDE DEF k
    <2>3. seqs[k] \in Records
      BY <1>1, <2>1
    <2>4. /\ end[k - 1] \in 0..Len(blob)
          /\ WalkStep(from, blob, Layouts.whole, end[k - 1])
               = <<Entry(end[k - 1], seqs[k], TRUE, TRUE)>> \o from[end[k]]
      BY <1>2, <1>3, <1>4, <2>1, <2>3, StepOverRecord
    <2> DEFINE e == Entry(end[k - 1], seqs[k], TRUE, TRUE)
    <2>5. Rest(k - 1) = <<e>> \o Rest(k)
      BY <1>6, <2>4
    <2>6. /\ e \in Entries /\ e.bytes = seqs[k] /\ e.known = TRUE
          /\ e.fits = TRUE
      <3>1. end[k - 1] \in Nat
        BY <1>5, <2>4
      <3>2. seqs[k] \in Seq(Bytes)
        BY <2>3, RecordsAre
      <3> QED BY <3>1, <3>2, EntryIs
    <2> HIDE DEF e
    <2>7. Rest(k) \in Seq(Entries) /\ Len(Rest(k)) = N - k
          /\ \A i \in 1..(N - k) : /\ Rest(k)[i].bytes = seqs[k + i]
                                   /\ Rest(k)[i].known = TRUE
                                   /\ Rest(k)[i].fits = TRUE
      BY <2>2
    <2> HIDE DEF Rest
    <2>8. /\ Rest(k - 1) \in Seq(Entries)
          /\ Len(Rest(k - 1)) = (N - k) + 1
          /\ Rest(k - 1)[1] = e
          /\ \A i \in 1..(N - k) : Rest(k - 1)[i + 1] = Rest(k)[i]
      <3> DEFINE behind == Rest(k)
      <3>1. behind \in Seq(Entries) /\ Len(behind) = N - k
        BY <2>7
      <3>2. /\ <<e>> \o behind \in Seq(Entries)
            /\ Len(<<e>> \o behind) = Len(behind) + 1
            /\ (<<e>> \o behind)[1] = e
            /\ \A i \in 1..Len(behind) : (<<e>> \o behind)[i + 1] = behind[i]
        <4> HIDE DEF behind
        <4> QED BY <2>6, <3>1, EntryBefore
      <3> QED BY <2>5, <3>1, <3>2
    <2>9. ASSUME NEW i \in 1..(N - (k - 1))
          PROVE  /\ Rest(k - 1)[i].bytes = seqs[(k - 1) + i]
                 /\ Rest(k - 1)[i].known = TRUE
                 /\ Rest(k - 1)[i].fits = TRUE
      <3>1. CASE i = 1
        <4>1. (k - 1) + i = k
          BY <2>1, <3>1
        <4> QED BY <2>6, <2>8, <3>1, <4>1
      <3>2. CASE i # 1
        <4> DEFINE j == i - 1
        <4>1. j \in 1..(N - k) /\ j + 1 = i /\ (k - 1) + i = k + j
          <5> HIDE DEF N
          <5> QED BY <1>1, <2>1, <3>2
        <4> HIDE DEF j
        <4>2. Rest(k - 1)[i] = Rest(k)[j]
          BY <2>8, <4>1
        <4> QED BY <2>7, <4>1, <4>2
      <3> QED BY <3>1, <3>2
    <2>10. Is(k - 1)
      <3> HIDE DEF N
      <3> QED BY <2>1, <2>8, <2>9
    <2> QED BY <2>1, <2>10
  <1>9. S = Nat
    <2>1. S \subseteq Nat
      OBVIOUS
    <2> HIDE DEF S
    <2> QED BY <1>7, <1>8, <2>1, Induction
  <1>10. Is(0)
    <2>1. N \in S /\ N <= N /\ N - N = 0
      <3> HIDE DEF S, N
      <3> QED BY <1>1, <1>9
    <2>2. Is(N - N)
      <3> HIDE DEF Is, N
      <3> QED BY <2>1
    <2> HIDE DEF Is
    <2> QED BY <2>1, <2>2
  <1>11. Rest(0) = walk
    <2>1. end[0] = 0
      BY <1>4 DEF IsLaid
    <2> QED BY <1>6, <2>1
  <1>12. N - 0 = N /\ \A i \in 1..N : 0 + i = i
    <2> HIDE DEF N
    <2> QED BY <1>1
  <1>13. /\ walk \in Seq(Entries) /\ Len(walk) = N
         /\ \A i \in 1..N : /\ walk[i].bytes = seqs[i]
                            /\ walk[i].known = TRUE /\ walk[i].fits = TRUE
    <2> HIDE DEF Rest, walk, N
    <2> QED BY <1>10, <1>11, <1>12
  <1> QED BY <1>13 DEF blob

\* The walk of a capture that was cut ends at a record that does not fit.
LEMMA WalkOfCut ==
  ASSUME NEW seqs, LastIsCut(seqs)
  PROVE  \E i \in DOMAIN Walk(Blob(seqs), Layouts.whole) :
           ~Walk(Blob(seqs), Layouts.whole)[i].fits
  <1> DEFINE N == Len(seqs)
             blob == Blob(seqs)
             walk == Walk(blob, Layouts.whole)
  <1>1. seqs \in Seq(Seq(Bytes)) /\ N \in Nat \ {0}
        /\ \A k \in 1..(N - 1) : seqs[k] \in Records
    BY EmptySeq DEF LastIsCut
  <1>2. PICK r \in Records : \E n \in 1..(Len(r) - 1) : seqs[N] = SubSeq(r, 1, n)
    BY DEF LastIsCut
  <1>3. PICK n \in 1..(Len(r) - 1) : seqs[N] = SubSeq(r, 1, n)
    BY <1>2
  <1>4. blob \in Seq(Bytes) /\ \E end : IsLaid(end, seqs, blob)
    BY <1>1, BlobIsLaid
  <1> HIDE DEF blob
  <1>5. PICK end : IsLaid(end, seqs, blob)
    BY <1>4
  <1>6. Len(blob) \in Nat
    BY <1>4, LenProperties
  <1>7. PICK from : /\ walk = from[0]
                    /\ \A o \in 0..Len(blob) :
                         from[o] = WalkStep(from, blob, Layouts.whole, o)
    BY <1>6, LayoutIs, WalkIs
  <1> DEFINE Rest(k) == from[end[k]]
             Is(k) == /\ Rest(k) \in Seq(Entries)
                      /\ \E i \in 1..Len(Rest(k)) : Rest(k)[i].fits = FALSE
             S == {d \in Nat : d <= N - 1 => Is((N - 1) - d)}
  <1>8. Is(N - 1)
    <2> DEFINE o == end[N - 1]
               L == Len(blob)
               size == Len(r)
    <2>1. N \in 1..N /\ N \in 0..N /\ N - 1 \in 0..N
      <3> HIDE DEF N
      <3> QED BY <1>1
    <2>2. o \in Nat /\ end[N] = L
      BY <1>5, <2>1 DEF IsLaid, Ends
    <2>3. Len(seqs[N]) = n /\ n \in Nat \ {0} /\ n < size /\ seqs[N][1] = r[1]
      <3>1. /\ Len(SubSeq(r, 1, n)) = n /\ n \in Nat \ {0} /\ n < Len(r)
            /\ \A m \in 1..n : SubSeq(r, 1, n)[m] = r[m]
        BY <1>3, CutIs
      <3>2. 1 \in 1..n
        BY <3>1
      <3> QED BY <1>3, <3>1, <3>2
    <2>4. end[N] = o + n /\ blob[o + 1] = r[1]
      <3>1. /\ end[N] = o + Len(seqs[N])
            /\ \A m \in 1..Len(seqs[N]) : blob[o + m] = seqs[N][m]
        BY <1>5, <2>1 DEF IsLaid
      <3>2. 1 \in 1..n
        BY <2>3
      <3> QED BY <2>3, <3>1, <3>2
    <2>5. /\ r[1] \in DOMAIN Layouts.whole /\ Layouts.whole[r[1]] = size
          /\ size \in Nat
      BY <1>2, RecordsAre
    <2> HIDE DEF o, size
    <2>6. o + n = L /\ o < L /\ o + size > L /\ o \in 0..L
      <3>1. L \in Nat
        BY <1>6
      <3> HIDE DEF L
      <3> QED BY <2>2, <2>3, <2>4, <2>5, <3>1
    <2>7. WalkStep(from, blob, Layouts.whole, o) = <<Entry(o, << >>, TRUE, FALSE)>>
      <3>1. o + Layouts.whole[blob[o + 1]] > Len(blob)
        BY <2>4, <2>5, <2>6
      <3>2. blob[o + 1] \in DOMAIN Layouts.whole /\ o < Len(blob)
        BY <2>4, <2>5, <2>6
      <3> QED BY <1>6, <2>2, <3>1, <3>2, LayoutIs, ShortStep
    <2>8. from[o] = <<Entry(o, << >>, TRUE, FALSE)>>
      BY <1>7, <2>6, <2>7
    <2> DEFINE e == Entry(o, << >>, TRUE, FALSE)
    <2>9. e \in Entries /\ e.fits = FALSE
      <3>1. << >> \in Seq(Bytes)
        OBVIOUS
      <3> QED BY <2>2, <3>1, EntryIs
    <2> HIDE DEF e
    <2>10. <<e>> \in Seq(Entries) /\ Len(<<e>>) = 1 /\ <<e>>[1].fits = FALSE
      BY <2>9
    <2>11. Rest(N - 1) = <<e>>
      BY <2>8 DEF e, o
    <2>12. 1 \in 1..1
      OBVIOUS
    <2> HIDE DEF Rest
    <2> QED BY <2>10, <2>11, <2>12
  <1>9. 0 \in S
    <2>1. (N - 1) - 0 = N - 1
      <3> HIDE DEF N
      <3> QED BY <1>1
    <2> HIDE DEF Is
    <2> QED BY <1>8, <2>1
  <1>10. ASSUME NEW d \in S PROVE d + 1 \in S
    <2> SUFFICES ASSUME d + 1 <= N - 1 PROVE Is((N - 1) - (d + 1))
      <3>1. d + 1 \in Nat
        <4> HIDE DEF Is, N
        <4> QED BY <1>10
      <3> HIDE DEF Is, N
      <3> QED BY <3>1
    <2> DEFINE k == (N - 1) - d
    <2>1. d \in Nat /\ (d <= N - 1 => Is(k))
      <3> HIDE DEF Is, N
      <3> QED BY <1>10
    <2> HIDE DEF S
    <2>2. d <= N - 1 /\ k \in 1..(N - 1) /\ k \in 1..N
          /\ (N - 1) - (d + 1) = k - 1
      <3> HIDE DEF N, Is
      <3> QED BY <1>1, <2>1
    <2>3. Is(k)
      <3> HIDE DEF Is, k
      <3> QED BY <2>1, <2>2
    <2> HIDE DEF k
    <2>4. seqs[k] \in Records
      BY <1>1, <2>2
    <2>5. /\ end[k - 1] \in 0..Len(blob)
          /\ WalkStep(from, blob, Layouts.whole, end[k - 1])
               = <<Entry(end[k - 1], seqs[k], TRUE, TRUE)>> \o from[end[k]]
      <3>1. seqs \in Seq(Seq(Bytes)) /\ blob \in Seq(Bytes) /\ k \in 1..Len(seqs)
        BY <1>1, <1>4, <2>2
      <3> QED BY <1>5, <2>4, <3>1, StepOverRecord
    <2> DEFINE e == Entry(end[k - 1], seqs[k], TRUE, TRUE)
               behind == Rest(k)
    <2>6. Rest(k - 1) = <<e>> \o behind
      BY <1>7, <2>5
    <2>7. e \in Entries
      <3>1. end[k - 1] \in Nat
        BY <1>6, <2>5
      <3>2. seqs[k] \in Seq(Bytes)
        BY <2>4, RecordsAre
      <3> QED BY <3>1, <3>2, EntryIs
    <2>8. behind \in Seq(Entries)
          /\ \E i \in 1..Len(behind) : behind[i].fits = FALSE
      BY <2>3
    <2> HIDE DEF e, behind, Rest
    <2>9. /\ <<e>> \o behind \in Seq(Entries)
          /\ Len(<<e>> \o behind) = Len(behind) + 1
          /\ \A i \in 1..Len(behind) : (<<e>> \o behind)[i + 1] = behind[i]
      BY <2>7, <2>8, EntryBefore
    <2>10. PICK i \in 1..Len(behind) : behind[i].fits = FALSE
      BY <2>8
    <2>11. i + 1 \in 1..(Len(behind) + 1)
      <3>1. Len(behind) \in Nat
        BY <2>8, LenProperties
      <3> QED BY <3>1
    <2>12. Is(k - 1)
      BY <2>6, <2>9, <2>10, <2>11
    <2> HIDE DEF Is
    <2> QED BY <2>2, <2>12
  <1>11. S = Nat
    <2>1. S \subseteq Nat
      OBVIOUS
    <2> HIDE DEF S
    <2> QED BY <1>9, <1>10, <2>1, Induction
  <1>12. Is(0)
    <2>1. N - 1 \in S /\ N - 1 <= N - 1 /\ (N - 1) - (N - 1) = 0
      <3> HIDE DEF S, N
      <3> QED BY <1>1, <1>11
    <2>2. Is((N - 1) - (N - 1))
      <3> HIDE DEF Is, N
      <3> QED BY <2>1
    <2> HIDE DEF Is
    <2> QED BY <2>1, <2>2
  <1>13. Rest(0) = walk
    <2>1. end[0] = 0
      BY <1>5 DEF IsLaid
    <2> QED BY <1>7, <2>1
  <1>14. walk \in Seq(Entries) /\ \E i \in 1..Len(walk) : walk[i].fits = FALSE
    <2> HIDE DEF Rest, walk
    <2> QED BY <1>12, <1>13
  <1>15. DOMAIN walk = 1..Len(walk)
    <2> HIDE DEF walk
    <2> QED BY <1>14, LenProperties
  <1>16. \E i \in DOMAIN walk : ~walk[i].fits
    <2> HIDE DEF walk
    <2> QED BY <1>14, <1>15
  <1> QED BY <1>16 DEF blob

\* What a whole database is accounted for with.
LEMMA AccountedIs ==
  ASSUME NEW seqs \in Seq(Records)
  PROVE  /\ Exact(Blob(seqs), Layouts.whole) <=> seqs # << >>
         /\ {e.bytes : e \in Accounted(Blob(seqs), Layouts.whole)} = ToSet(seqs)
  <1> DEFINE walk == Walk(Blob(seqs), Layouts.whole)
  <1>1. /\ walk \in Seq(Entries) /\ Len(walk) = Len(seqs)
        /\ \A i \in 1..Len(seqs) :
             walk[i].bytes = seqs[i] /\ walk[i].known /\ walk[i].fits
    BY WalkOfWhole
  <1>2. Exact(Blob(seqs), Layouts.whole)
          <=> walk # << >> /\ \A i \in DOMAIN walk : walk[i].known /\ walk[i].fits
    BY DEF Exact
  <1>3. Accounted(Blob(seqs), Layouts.whole)
          = {e \in ToSet(walk) : e.known /\ e.fits}
    BY DEF Accounted
  <1> HIDE DEF walk
  <1>4. DOMAIN walk = 1..Len(seqs) /\ DOMAIN seqs = 1..Len(seqs)
    BY <1>1, LenProperties
  <1>5. walk = << >> <=> seqs = << >>
    <2>1. Len(<< >>) = 0
      OBVIOUS
    <2>2. walk # << >> => Len(walk) # 0
      BY <1>1, EmptySeq
    <2>3. seqs # << >> => Len(seqs) # 0
      BY EmptySeq
    <2> QED BY <1>1, <2>1, <2>2, <2>3
  <1>6. Exact(Blob(seqs), Layouts.whole) <=> seqs # << >>
    BY <1>1, <1>2, <1>4, <1>5
  <1> DEFINE found == Accounted(Blob(seqs), Layouts.whole)
  <1>7. ASSUME NEW e \in found PROVE e.bytes \in ToSet(seqs)
    <2>1. PICK i \in DOMAIN walk : e = walk[i]
      BY <1>3 DEF ToSet
    <2> QED BY <1>1, <1>4, <2>1 DEF ToSet
  <1>8. ASSUME NEW r \in ToSet(seqs) PROVE \E e \in found : e.bytes = r
    <2>1. PICK i \in DOMAIN seqs : r = seqs[i]
      BY DEF ToSet
    <2>2. walk[i] \in ToSet(walk)
      BY <1>4, <2>1 DEF ToSet
    <2>3. walk[i] \in found /\ walk[i].bytes = r
      BY <1>1, <1>3, <1>4, <2>1, <2>2
    <2> QED BY <2>3
  <1> HIDE DEF found
  <1>9. {e.bytes : e \in found} = ToSet(seqs)
    BY <1>7, <1>8
  <1> QED BY <1>6, <1>9 DEF found

\* Under the detector's layout a cut capture is not exact, and a whole one is
\* told from the earlier one by the content of its records.
LEMMA NewRecordsByContentStands == ParsingInv => NewRecordsByContent
  <1> SUFFICES ASSUME ParsingInv, subject = "poi"
               PROVE  LET added == RecordsAdded(Blob(sent), Blob(received))
                      IN /\ "whole" \in DOMAIN added <=> (Whole /\ received # << >>)
                         /\ "whole" \in DOMAIN added =>
                              {e.bytes : e \in added["whole"]}
                                = ToSet(received) \ ToSet(sent)
    BY DEF NewRecordsByContent
  <1> DEFINE before == Blob(sent)
             after == Blob(received)
             table == Layouts.whole
             added == RecordsAdded(before, after)
  <1>1. sent \in Seq(Records) /\ (received \in Seq(Records) \/ LastIsCut(received))
    BY DEF ParsingInv, CapturesStand
  <1>2. DOMAIN Layouts = {"whole", "header"} /\ Layouts["whole"] = table
    BY DEF Layouts
  <1> HIDE DEF before, after, table
  <1>3. /\ "whole" \in DOMAIN added <=> Exact(after, table)
        /\ Exact(after, table) =>
             added["whole"] = IF before = after THEN {}
                              ELSE New(before, after, table)
    BY <1>2 DEF RecordsAdded
  <1> HIDE DEF added
  <1>4. CASE received \in Seq(Records)
    <2>1. Exact(after, table) <=> received # << >>
      BY <1>4, AccountedIs DEF after, table
    <2>2. Whole
      BY <1>4, WholeIs
    <2>3. {e.bytes : e \in Accounted(before, table)} = ToSet(sent)
      BY <1>1, AccountedIs DEF before, table
    <2>4. {e.bytes : e \in Accounted(after, table)} = ToSet(received)
      BY <1>4, AccountedIs DEF after, table
    <2>5. ASSUME Exact(after, table)
          PROVE  {e.bytes : e \in added["whole"]} = ToSet(received) \ ToSet(sent)
      <3>1. CASE before = after
        <4>1. added["whole"] = {} /\ ToSet(received) = ToSet(sent)
          BY <1>3, <2>3, <2>4, <2>5, <3>1
        <4> QED BY <4>1
      <3>2. CASE before # after
        <4>1. added["whole"] = {e \in Accounted(after, table) :
                                  e.bytes \notin ToSet(sent)}
          BY <1>3, <2>3, <2>5, <3>2 DEF New
        <4> QED BY <2>4, <4>1
      <3> QED BY <3>1, <3>2
    <2> QED BY <1>3, <2>1, <2>2, <2>5 DEF added, before, after
  <1>5. CASE LastIsCut(received)
    <2>1. ~Whole
      BY <1>5, WholeIs
    <2>2. ~Exact(after, table)
      <3>1. \E i \in DOMAIN Walk(after, table) : ~Walk(after, table)[i].fits
        BY <1>5, WalkOfCut DEF after, table
      <3> QED BY <3>1 DEF Exact
    <2> QED BY <1>3, <2>1, <2>2 DEF added, before, after
  <1> QED BY <1>1, <1>4, <1>5

\* diff_payloads: the records reported as added are those whose content is new,
\* and none is reported of a capture that was cut, for every database and every
\* number of changes to it.
THEOREM NewRecordsAreByContent == ParsingSpec => []NewRecordsByContent
  BY ParsingInvHolds, NewRecordsByContentStands, PTL
=============================================================================
