-------------------------- MODULE ConnectionService --------------------------
(***************************************************************************)
(* internal/services/connection_check.go: Open() with its first check, the *)
(* loop of connection checks and Close(), over brokers that come and go.   *)
(* The first check is made by the caller of Open(), those after it by the  *)
(* goroutine of the loop: lpc is where the check, and then the loop, is.   *)
(* EntryPoint has it in a process, with an interval from the environment.  *)
(***************************************************************************)
EXTENDS Integers, FiniteSets

CONSTANTS BrokerIds,
          Dynamic,       \* the value -1 of EXPECTED_CLUSTER_SIZE
          MaxScalings,   \* bound on the brokers that come or go
          MaxFaults      \* bound on the failures

ASSUME ConnectionAssumption == MaxScalings \in Nat /\ MaxFaults \in Nat /\ Dynamic \in Int

VARIABLES
  running, scalings, \* the brokers that run, and how many came or went
  expected,  \* EXPECTED_CLUSTER_SIZE
  interval,  \* CONNECTION_CHECK_INTERVAL_MS as the duration given to the ticker
  admin,     \* cs.admin: "nil", "open", or "broken" by the brokers
  known,     \* ids of cs.brokers
  todo,      \* brokers that the check has still to connect to
  reported,  \* what the metrics were last told of each broker
  opc, lpc,
  faults     \* failures so far

brokerVars == <<running, scalings>>
configVars == <<expected, interval>>
checkVars == <<admin, known, todo, reported, lpc>>
connectionVars == <<brokerVars, configVars, checkVars, opc, faults>>

-----------------------------------------------------------------------------
\* Plausible slips in the code below, for the mutation runs.
AdminKept == admin
LoopNotAwaited == TRUE
NoFirstCheck == "checked"
DescribedIfDynamic(B) == expected = Dynamic
-----------------------------------------------------------------------------
ConnectionInit ==
  /\ running \in (SUBSET BrokerIds) \ {{}} /\ scalings = 0
  /\ admin = "nil" /\ known = {} /\ todo = {}
  /\ reported = [b \in BrokerIds |-> "unknown"]
  /\ opc = "new" /\ lpc = "none"
  /\ faults = 0

Fault == faults < MaxFaults /\ faults' = faults + 1
NoFault == UNCHANGED faults

-------------------------------- (* brokers *) -------------------------------
Scaling ==
  /\ scalings < MaxScalings /\ scalings' = scalings + 1
  /\ UNCHANGED <<configVars, checkVars, opc, faults>>

ConnectionBrokerUp == Scaling /\ \E b \in BrokerIds \ running : running' = running \cup {b}
ConnectionBrokerDown == Scaling /\ \E b \in running : running # {b} /\ running' = running \ {b}

\* The brokers close the connections of the admin client, which will not recover.
ConnectionBreaks ==
  /\ admin = "open" /\ admin' = "broken" /\ Fault
  /\ UNCHANGED <<brokerVars, configVars, known, todo, reported, lpc, opc>>

--------------------------- (* connectionCheck() *) --------------------------
Check == UNCHANGED <<brokerVars, configVars, opc>>

\* The check returns to Open() or to the loop.
CheckReturns == lpc' = IF opc = "opening" THEN "checked" ELSE "waiting"

CreateAdmin ==
  /\ lpc = "admin" /\ admin = "nil" /\ Check
  /\ \/ admin' = "open" /\ lpc' = "describe" /\ NoFault
     \/ CheckReturns /\ Fault /\ UNCHANGED admin
  /\ UNCHANGED <<known, todo, reported>>

HasAdmin ==
  /\ lpc = "admin" /\ admin # "nil" /\ Check /\ NoFault
  /\ lpc' = "describe"
  /\ UNCHANGED <<admin, known, todo, reported>>

\* Whether the list B of brokers is not to be used again.
ToBeDescribed(B) == expected = Dynamic \/ expected # Cardinality(B)

ConnectTo(B) == lpc' = "connect" /\ todo' = B

UseKnown ==
  /\ lpc = "describe" /\ ~ToBeDescribed(known) /\ Check /\ NoFault
  /\ ConnectTo(known)
  /\ UNCHANGED <<admin, known, reported>>

Describe ==
  /\ lpc = "describe" /\ ToBeDescribed(known) /\ admin = "open" /\ Check /\ NoFault
  /\ known' = running /\ ConnectTo(running)
  /\ UNCHANGED <<admin, reported>>

\* The admin client after a disconnection, and the list after any error.
AdminAfterDisconnection == "nil"
KnownAfterError == {}

DescribeFails ==
  /\ lpc = "describe" /\ ToBeDescribed(known) /\ Check
  /\ \/ admin = "broken" /\ admin' = AdminAfterDisconnection /\ NoFault
     \/ admin = "open" /\ admin' \in {admin, AdminAfterDisconnection} /\ Fault
  /\ known' = KnownAfterError
  /\ CheckReturns
  /\ UNCHANGED <<todo, reported>>

\* Closing the admin client after a disconnection fails, which ends the process.
CloseAfterDisconnectionFails ==
  /\ lpc = "describe" /\ ToBeDescribed(known) /\ admin # "nil" /\ Fault
  /\ opc' = "panicked" /\ lpc' = "exited"
  /\ UNCHANGED <<brokerVars, configVars, admin, known, todo, reported>>

\* b.Open, b.Connected and b.Close: a broker that runs may not answer either.
Connect(b) ==
  /\ lpc = "connect" /\ b \in todo /\ Check
  /\ todo' = todo \ {b}
  /\ \/ /\ reported' = [reported EXCEPT ![b] = IF b \in running THEN "up" ELSE "down"]
        /\ NoFault
     \/ b \in running /\ reported' = [reported EXCEPT ![b] = "down"] /\ Fault
  /\ UNCHANGED <<admin, known, lpc>>

CheckEnds ==
  /\ lpc = "connect" /\ todo = {} /\ Check /\ NoFault
  /\ CheckReturns
  /\ UNCHANGED <<admin, known, todo, reported>>

----------------------- (* Open(), the loop and Close() *) -------------------
Control == UNCHANGED <<brokerVars, configVars, known, todo, reported>> /\ NoFault

\* Open() makes a first check before there is a loop.
FirstCheck == "admin"

OpenCalled ==
  /\ opc = "new" /\ Control
  /\ opc' = "opening" /\ lpc' = FirstCheck
  /\ UNCHANGED admin

\* NewTicker panics at an interval that is not positive.
LoopStarts ==
  /\ opc = "opening" /\ lpc = "checked" /\ Control
  /\ IF interval > 0 THEN opc' = "open" /\ lpc' = "waiting"
                     ELSE opc' = "panicked" /\ UNCHANGED lpc
  /\ UNCHANGED admin

\* Of a tick and the stop channel, select takes either.
ConnectionTick ==
  /\ opc \in {"open", "closing"} /\ lpc = "waiting" /\ Control
  /\ lpc' = "admin"
  /\ UNCHANGED <<opc, admin>>

ConnectionLoopExits ==
  /\ opc = "closing" /\ lpc = "waiting" /\ Control
  /\ lpc' = "exited"
  /\ UNCHANGED <<opc, admin>>

CloseCalled ==
  /\ opc = "open" /\ Control
  /\ opc' = "closing"
  /\ UNCHANGED <<lpc, admin>>

LoopAwaited == lpc = "exited"

\* Close() calls the admin client, whether there is one or not; if it fails to close,
\* the process ends as it does by a panic.
CloseAdmin ==
  /\ opc = "closing" /\ LoopAwaited
  /\ \/ opc' = (IF admin = "nil" THEN "panicked" ELSE "closed") /\ NoFault
     \/ opc' = "panicked" /\ admin # "nil" /\ Fault
  /\ admin' = "nil"
  /\ UNCHANGED <<brokerVars, configVars, known, todo, reported, lpc>>
-----------------------------------------------------------------------------
CheckStep ==
  \/ CreateAdmin \/ HasAdmin \/ UseKnown \/ Describe \/ DescribeFails
  \/ (\E b \in todo : Connect(b)) \/ CheckEnds

ConnectionStep == CheckStep \/ LoopStarts \/ ConnectionTick \/ CloseAdmin

\* What nothing has to make happen.
ConnectionEnvironment ==
  \/ ConnectionBrokerUp \/ ConnectionBrokerDown \/ ConnectionBreaks
  \/ CloseAfterDisconnectionFails

ConnectionNext ==
  \/ ConnectionStep \/ ConnectionLoopExits
  \/ OpenCalled \/ CloseCalled \/ ConnectionEnvironment

\* Any interval and any expected size, in a process that does nothing else.
ConnectionSpec ==
  /\ ConnectionInit /\ expected \in Int /\ interval \in Int
  /\ [][ConnectionNext]_connectionVars
-----------------------------------------------------------------------------
\* The variables keep their types.
ConnectionTypeOK ==
  /\ running \in (SUBSET BrokerIds) \ {{}} /\ scalings \in 0 .. MaxScalings
  /\ expected \in Int /\ interval \in Int
  /\ admin \in {"nil", "open", "broken"}
  /\ known \subseteq BrokerIds /\ todo \subseteq known
  /\ reported \in [BrokerIds -> {"unknown", "up", "down"}]
  /\ opc \in {"new", "opening", "open", "closing", "closed", "panicked"}
  /\ lpc \in {"none", "admin", "describe", "connect", "checked", "waiting", "exited"}
  /\ faults \in 0 .. MaxFaults

\* Without a failure and with an interval that a ticker takes, Close() finds an
\* admin client to close, though only the checks create it.
PanicNeedsFault == opc = "panicked" => faults > 0 \/ interval <= 0

Loop ==
  CASE opc \in {"new", "opening", "panicked"} -> "none"
    [] opc = "closed" -> "closed"
    [] opc \in {"open", "closing"} /\ lpc = "waiting" -> "waiting"
    [] opc \in {"open", "closing"} /\ lpc = "exited" -> "returned"
    [] OTHER -> "working"

TL == INSTANCE TickerLoop WITH loop <- Loop, stop <- (opc \in {"closing", "closed"})

\* The service is a TickerLoop: Close() asks the loop to stop, lets the check that
\* is going on end, and closes the admin client only once the loop has returned.
ConnectionImplementsLoop == TL!Spec

\* The service knows the brokers that run, or the expected number of brokers that
\* it once saw, and has told of each of them whether it runs.
ReportsAreRight ==
  /\ known = running \/ (expected # Dynamic /\ expected = Cardinality(known))
  /\ \A b \in known : reported[b] = IF b \in running THEN "up" ELSE "down"

\* As long as no broker comes or goes and nothing fails, the reports are right from
\* the moment Open() returns, the size that is expected being reached or not, and
\* no later check makes them wrong, not even halfway.
QuietReportsAreRight ==
  scalings = 0 /\ faults = 0 /\ opc \notin {"new", "opening"} => ReportsAreRight
=============================================================================
