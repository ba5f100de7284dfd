--------------------------- MODULE EntryPoint_proofs ---------------------------
(***************************************************************************)
(* What holds of the process in every environment, for every width of the  *)
(* integers and every set of brokers: a canary that is up has tickers that *)
(* tick and rings that hold something, its backoffs are exact, and its     *)
(* connection service keeps, inside the process, what it promises alone:   *)
(* its types, the loop it implements, and an admin client to close unless  *)
(* something has failed.                                                   *)
(***************************************************************************)
EXTENDS EntryPoint, TLAPS

-----------------------------------------------------------------------------
(* A ConnectionService by itself. *)

\* Where the checks are while Open() and Close() are where they are.
ControlInv ==
  /\ opc = "new" => lpc = "none"
  /\ opc = "opening" => lpc \in {"admin", "describe", "connect", "checked"}
  /\ opc \in {"open", "closing"} => lpc \in {"admin", "describe", "connect", "waiting", "exited"}
  /\ lpc = "exited" => opc \in {"closing", "closed", "panicked"}
  /\ opc \in {"closed", "panicked"} => lpc \in {"checked", "exited"}
  /\ lpc # "connect" => todo = {}

\* Without a failure, the first check creates an admin client for good.
AdminInv ==
  faults = 0 =>
    /\ admin # "broken"
    /\ opc # "closed" /\ lpc \notin {"none", "admin"} => admin = "open"
    /\ opc \in {"open", "closing"} => admin = "open"

ConnectionInv == ConnectionTypeOK /\ ControlInv /\ AdminInv /\ PanicNeedsFault

LEMMA ConnectionInitInv == ConnectionInit /\ expected \in Int /\ interval \in Int => ConnectionInv
  BY ConnectionAssumption
  DEF ConnectionInit, ConnectionInv, ConnectionTypeOK, ControlInv, AdminInv, PanicNeedsFault

\* The steps of a check.
LEMMA CheckStepInv == ConnectionInv /\ CheckStep => ConnectionInv'
<1> SUFFICES ASSUME ConnectionInv, CheckStep PROVE ConnectionInv'
  OBVIOUS
<1> USE ConnectionAssumption
    DEF ConnectionInv, ConnectionTypeOK, ControlInv, AdminInv, PanicNeedsFault,
        Check, CheckReturns, ConnectTo, Fault, NoFault, brokerVars, configVars
<1>1. CASE CreateAdmin
  BY <1>1 DEF CreateAdmin
<1>2. CASE HasAdmin
  BY <1>2 DEF HasAdmin
<1>3. CASE UseKnown
  BY <1>3 DEF UseKnown
<1>4. CASE Describe
  BY <1>4 DEF Describe
<1>5. CASE DescribeFails
  BY <1>5 DEF DescribeFails, AdminAfterDisconnection, KnownAfterError
<1>6. ASSUME NEW b \in todo, Connect(b) PROVE ConnectionInv'
  BY <1>6 DEF Connect
<1>7. CASE CheckEnds
  BY <1>7 DEF CheckEnds
<1>8. QED BY <1>1, <1>2, <1>3, <1>4, <1>5, <1>6, <1>7 DEF CheckStep

\* The steps of Open(), the loop and Close().
LEMMA ControlStepInv ==
  /\ ConnectionInv
  /\ OpenCalled \/ LoopStarts \/ ConnectionTick \/ ConnectionLoopExits \/ CloseCalled \/ CloseAdmin
  => ConnectionInv'
<1> SUFFICES ASSUME ConnectionInv,
                    \/ OpenCalled \/ LoopStarts \/ ConnectionTick
                    \/ ConnectionLoopExits \/ CloseCalled \/ CloseAdmin
             PROVE  ConnectionInv'
  OBVIOUS
<1> USE ConnectionAssumption
    DEF ConnectionInv, ConnectionTypeOK, ControlInv, AdminInv, PanicNeedsFault,
        Control, Fault, NoFault, brokerVars, configVars
<1>1. CASE OpenCalled
  BY <1>1 DEF OpenCalled, FirstCheck
<1>2. CASE LoopStarts
  BY <1>2 DEF LoopStarts
<1>3. CASE ConnectionTick
  BY <1>3 DEF ConnectionTick
<1>4. CASE ConnectionLoopExits
  BY <1>4 DEF ConnectionLoopExits
<1>5. CASE CloseCalled
  BY <1>5 DEF CloseCalled
<1>6. CASE CloseAdmin
  BY <1>6 DEF CloseAdmin, LoopAwaited
<1>7. QED BY <1>1, <1>2, <1>3, <1>4, <1>5, <1>6

\* What the brokers do, and a close that fails.
LEMMA EnvironmentInv == ConnectionInv /\ ConnectionEnvironment => ConnectionInv'
<1> SUFFICES ASSUME ConnectionInv, ConnectionEnvironment PROVE ConnectionInv'
  OBVIOUS
<1> USE ConnectionAssumption
    DEF ConnectionInv, ConnectionTypeOK, ControlInv, AdminInv, PanicNeedsFault,
        Scaling, Fault, brokerVars, configVars, checkVars
<1>1. CASE ConnectionBrokerUp
  BY <1>1 DEF ConnectionBrokerUp
<1>2. CASE ConnectionBrokerDown
  BY <1>2 DEF ConnectionBrokerDown
<1>3. CASE ConnectionBreaks
  BY <1>3 DEF ConnectionBreaks
<1>4. CASE CloseAfterDisconnectionFails
  BY <1>4 DEF CloseAfterDisconnectionFails
<1>5. QED BY <1>1, <1>2, <1>3, <1>4 DEF ConnectionEnvironment

LEMMA ConnectionStepInv == ConnectionInv /\ [ConnectionNext]_connectionVars => ConnectionInv'
<1> SUFFICES ASSUME ConnectionInv, [ConnectionNext]_connectionVars PROVE ConnectionInv'
  OBVIOUS
<1>1. CASE UNCHANGED connectionVars
  BY <1>1 DEF ConnectionInv, ConnectionTypeOK, ControlInv, AdminInv, PanicNeedsFault,
              connectionVars, brokerVars, configVars, checkVars
<1>2. QED BY <1>1, CheckStepInv, ControlStepInv, EnvironmentInv
             DEF ConnectionNext, ConnectionStep

LEMMA ConnectionInvariance == ConnectionSpec => []ConnectionInv
  BY ConnectionInitInv, ConnectionStepInv, PTL DEF ConnectionSpec

\* The variables of the connection service keep their types.
THEOREM ConnectionTypeCorrect == ConnectionSpec => []ConnectionTypeOK
  BY ConnectionInvariance, PTL DEF ConnectionInv

\* Close() panics on an admin client that is not there, or Open() on its ticker,
\* only after a failure or with an interval that no ticker takes.
THEOREM PanicOnlyAfterFault == ConnectionSpec => []PanicNeedsFault
  BY ConnectionInvariance, PTL DEF ConnectionInv
-----------------------------------------------------------------------------
\* As long as nothing fails and no broker comes or goes: what a check has got to.
Reported(b) == reported[b] = IF b \in running THEN "up" ELSE "down"
KnownIsRight == known = running \/ (expected # Dynamic /\ expected = Cardinality(known))

QuietInv ==
  scalings = 0 /\ faults = 0 =>
    /\ \A b \in known : b \in todo \/ lpc \in {"admin", "describe"} \/ Reported(b)
    /\ lpc \in {"connect", "checked"} => KnownIsRight
    /\ opc \notin {"new", "opening"} => KnownIsRight /\ \A b \in known : Reported(b)

LEMMA QuietCheckStep == ConnectionInv /\ QuietInv /\ CheckStep => QuietInv'
<1> SUFFICES ASSUME ConnectionInv, QuietInv, CheckStep, scalings' = 0, faults' = 0
             PROVE  QuietInv'
  BY DEF QuietInv
<1>0. UNCHANGED <<running, scalings, expected, opc>>
  BY DEF CheckStep, CreateAdmin, HasAdmin, UseKnown, Describe, DescribeFails, Connect,
         CheckEnds, Check, brokerVars, configVars
<1>1. faults \in Nat /\ (Fault => faults' > 0) /\ faults = 0
  BY ConnectionAssumption
  DEF ConnectionInv, ConnectionTypeOK, Fault, CheckStep, CreateAdmin, HasAdmin, UseKnown,
      Describe, DescribeFails, Connect, CheckEnds, NoFault
<1> USE <1>0, <1>1 DEF QuietInv, Reported, KnownIsRight, CheckReturns, ConnectTo
<1>2. CASE CreateAdmin
  BY <1>2 DEF CreateAdmin, ConnectionInv, ControlInv
<1>3. CASE HasAdmin
  BY <1>3 DEF HasAdmin
<1>4. CASE UseKnown
  BY <1>4 DEF UseKnown, ToBeDescribed
<1>5. CASE Describe
  BY <1>5 DEF Describe, ToBeDescribed
<1>6. CASE DescribeFails
  BY <1>6 DEF DescribeFails, ConnectionInv, AdminInv
<1>7. ASSUME NEW b \in todo, Connect(b) PROVE QuietInv'
  BY <1>7 DEF Connect, ConnectionInv, ConnectionTypeOK
<1>8. CASE CheckEnds
  BY <1>8 DEF CheckEnds
<1>9. QED BY <1>2, <1>3, <1>4, <1>5, <1>6, <1>7, <1>8 DEF CheckStep

LEMMA QuietStep == ConnectionInv /\ QuietInv /\ [ConnectionNext]_connectionVars => QuietInv'
<1> SUFFICES ASSUME ConnectionInv, QuietInv, [ConnectionNext]_connectionVars PROVE QuietInv'
  OBVIOUS
<1>1. CASE OpenCalled \/ LoopStarts \/ ConnectionTick \/ ConnectionLoopExits \/ CloseCalled
           \/ CloseAdmin
  <2>0. \/ UNCHANGED faults
        \/ faults' # 0 /\ CloseAdmin
    BY <1>1, ConnectionAssumption
    DEF OpenCalled, LoopStarts, ConnectionTick, ConnectionLoopExits, CloseCalled, CloseAdmin,
        Control, NoFault, Fault, ConnectionInv, ConnectionTypeOK
  <2>1. UNCHANGED <<running, scalings, expected, known, todo, reported>>
    BY <1>1 DEF OpenCalled, LoopStarts, ConnectionTick, ConnectionLoopExits, CloseCalled,
                CloseAdmin, Control, brokerVars, configVars
  <2>2. ConnectionTypeOK /\ ControlInv
    BY DEF ConnectionInv
  <2> USE <2>0, <2>1, <2>2 DEF QuietInv, Reported, KnownIsRight, ConnectionTypeOK, ControlInv
  <2>3. CASE OpenCalled
    BY <2>3 DEF OpenCalled, FirstCheck
  <2>4. CASE LoopStarts
    BY <2>4 DEF LoopStarts
  <2>5. CASE ConnectionTick \/ ConnectionLoopExits
    BY <2>5 DEF ConnectionTick, ConnectionLoopExits
  <2>6. CASE CloseCalled \/ CloseAdmin
    BY <2>6 DEF CloseCalled, CloseAdmin
  <2>7. QED BY <1>1, <2>3, <2>4, <2>5, <2>6
<1>2. CASE ConnectionEnvironment
  <2>1. scalings' > 0 \/ faults' > 0
    BY <1>2, ConnectionAssumption
    DEF ConnectionEnvironment, ConnectionBrokerUp, ConnectionBrokerDown, ConnectionBreaks,
        CloseAfterDisconnectionFails, Scaling, Fault, ConnectionInv, ConnectionTypeOK
  <2>2. QED BY <2>1 DEF QuietInv
<1>3. CASE UNCHANGED connectionVars
  BY <1>3 DEF QuietInv, Reported, KnownIsRight, connectionVars, brokerVars, configVars, checkVars
<1>4. QED BY <1>1, <1>2, <1>3, QuietCheckStep DEF ConnectionNext, ConnectionStep

LEMMA QuietIsRight == QuietInv => QuietReportsAreRight
  BY DEF QuietInv, QuietReportsAreRight, ReportsAreRight, Reported, KnownIsRight

LEMMA QuietInit == ConnectionInit => QuietInv
  BY DEF ConnectionInit, QuietInv

\* For any brokers and any number of them expected, Open() returns with reports that
\* are right and no check makes them wrong, while nothing fails and the brokers stay.
THEOREM ReportsRightWhenQuiet == ConnectionSpec => []QuietReportsAreRight
  BY QuietInit, QuietStep, QuietIsRight, ConnectionInvariance, PTL DEF ConnectionSpec
-----------------------------------------------------------------------------
\* What Loop is, for the provers.
LoopCases ==
  /\ opc \in {"new", "opening", "panicked"} => Loop = "none"
  /\ opc = "closed" => Loop = "closed"
  /\ opc \in {"open", "closing"} /\ lpc = "waiting" => Loop = "waiting"
  /\ opc \in {"open", "closing"} /\ lpc = "exited" => Loop = "returned"
  /\ opc \in {"open", "closing"} /\ lpc \notin {"waiting", "exited"} => Loop = "working"

LEMMA LoopIs == LoopCases
  BY Zenon DEF LoopCases, Loop

LEMMA LoopIsNext == LoopCases'
  BY LoopIs, PTL

\* The steps of a check are work of the loop, or come before there is one; only
\* the end of a check is a step of the abstract loop.
LEMMA CheckRefines == ConnectionInv /\ CheckStep => TL!TickDone \/ UNCHANGED TL!vars
<1> SUFFICES ASSUME ConnectionInv, CheckStep PROVE TL!TickDone \/ UNCHANGED TL!vars
  OBVIOUS
<1>1. /\ opc' = opc /\ lpc \in {"admin", "describe", "connect"}
      /\ lpc' \in {"describe", "connect"} \/ CheckReturns
  BY DEF CheckStep, CreateAdmin, HasAdmin, UseKnown, Describe, DescribeFails, Connect,
         CheckEnds, Check, ConnectTo
<1>2. opc \in {"opening", "open", "closing"}
  BY <1>1 DEF ConnectionInv, ControlInv, ConnectionTypeOK
<1>3. CASE opc = "opening"
  BY <1>1, <1>3, LoopIs, LoopIsNext DEF LoopCases, TL!vars
<1>4. CASE opc # "opening" /\ lpc' \in {"describe", "connect"}
  BY <1>1, <1>2, <1>4, LoopIs, LoopIsNext DEF LoopCases, TL!vars
<1>5. CASE opc # "opening" /\ CheckReturns
  BY <1>1, <1>2, <1>5, LoopIs, LoopIsNext DEF LoopCases, TL!TickDone, CheckReturns
<1>6. QED BY <1>1, <1>3, <1>4, <1>5

\* Open(), the loop and Close() are those of the abstract loop.
LEMMA ControlRefines ==
  ASSUME ConnectionInv, \/ OpenCalled \/ LoopStarts \/ ConnectionTick
              \/ ConnectionLoopExits \/ CloseCalled \/ CloseAdmin
  PROVE  TL!Next \/ UNCHANGED TL!vars
<1> USE LoopIs, LoopIsNext DEF LoopCases, Control
<1>1. CASE OpenCalled
  BY <1>1 DEF OpenCalled, TL!vars
<1>2. CASE LoopStarts
  BY <1>2 DEF LoopStarts, TL!vars, TL!Next, TL!Open
<1>3. CASE ConnectionTick
  BY <1>3 DEF ConnectionTick, TL!Next, TL!Tick
<1>4. CASE ConnectionLoopExits
  BY <1>4 DEF ConnectionLoopExits, TL!Next, TL!Return
<1>5. CASE CloseCalled
  <2>1. lpc \in {"admin", "describe", "connect", "waiting"}
    BY <1>5 DEF CloseCalled, ConnectionInv, ControlInv
  <2>2. QED BY <1>5, <2>1 DEF CloseCalled, TL!Next, TL!AskToStop
<1>6. CASE CloseAdmin
  BY <1>6 DEF CloseAdmin, LoopAwaited, TL!Next, TL!CloseReturns, TL!Die
<1>7. QED BY <1>1, <1>2, <1>3, <1>4, <1>5, <1>6

LEMMA ConnectionStepRefines == ConnectionInv /\ [ConnectionNext]_connectionVars => [TL!Next]_(TL!vars)
<1> SUFFICES ASSUME ConnectionInv, [ConnectionNext]_connectionVars PROVE TL!Next \/ UNCHANGED TL!vars
  OBVIOUS
<1>1. ASSUME UNCHANGED <<opc, lpc>> PROVE UNCHANGED TL!vars
  BY <1>1, LoopIs, LoopIsNext DEF Loop, TL!vars
<1>2. CASE CheckStep
  BY <1>2, CheckRefines DEF TL!Next
<1>3. CASE ConnectionBrokerUp \/ ConnectionBrokerDown \/ ConnectionBreaks
  BY <1>1, <1>3 DEF ConnectionBrokerUp, ConnectionBrokerDown, ConnectionBreaks, Scaling, checkVars
<1>4. CASE CloseAfterDisconnectionFails
  <2>1. opc' = "panicked"
    BY <1>4 DEF CloseAfterDisconnectionFails
  <2>2. TL!Die
    BY <2>1, LoopIsNext DEF LoopCases, TL!Die
  <2>3. QED BY <2>2 DEF TL!Next
<1>5. CASE UNCHANGED connectionVars
  BY <1>1, <1>5 DEF connectionVars, checkVars
<1>6. QED BY <1>2, <1>3, <1>4, <1>5, ControlRefines
          DEF ConnectionNext, ConnectionStep, ConnectionEnvironment

\* The connection service is a TickerLoop: its Close() closes the admin client
\* under no check.
THEOREM ConnectionRefinesLoop == ConnectionSpec => ConnectionImplementsLoop
<1>1. ConnectionInit => TL!Init
  BY LoopIs DEF ConnectionInit, LoopCases, TL!Init
<1>2. QED BY <1>1, ConnectionInvariance, ConnectionStepRefines, PTL
             DEF ConnectionSpec, ConnectionImplementsLoop, TL!Spec

-----------------------------------------------------------------------------
(* A Backoff by itself. *)

\* That the delays are exact is inductive with the bound of the retries: the first
\* delay that does not fit is less than twice what fits, and nothing is shifted any
\* further.
BackoffInv ==
  /\ BackoffTypeOK /\ DelayIsExact /\ RetriesAreBounded

\* A value that fits is itself, and the next ones up to twice as much are negative.
LEMMA WrapValues ==
  ASSUME NEW x \in 1 .. 2 * Half - 1
  PROVE  /\ x < Half => Wrap(x) = x
         /\ x >= Half => Wrap(x) < 0
<1>0. Half \in Nat /\ Half > 0
  BY BackoffAssumption
<1>1. ASSUME x < Half PROVE Wrap(x) = x
  <2>1. x + Half \in 0 .. 2 * Half - 1
    BY <1>0, <1>1
  <2>2. \A y \in 0 .. 2 * Half - 1 : y % (2 * Half) = y
    BY <1>0
  <2>3. QED BY <1>0, <2>1, <2>2 DEF Wrap
<1>2. ASSUME x >= Half PROVE Wrap(x) < 0
  <2>1. x - Half \in 0 .. Half - 1
    BY <1>0, <1>2
  <2>2. (x + Half) % (2 * Half) = x - Half
    <3>1. x + Half = (x - Half) + 2 * Half
      BY <1>0
    <3>2. \A y \in 0 .. Half - 1 : (y + 2 * Half) % (2 * Half) = y
      BY <1>0
    <3>3. QED BY <2>1, <3>1, <3>2
  <2>3. QED BY <1>0, <2>2 DEF Wrap
<1>3. QED BY <1>1, <1>2

\* A Backoff starts with a scale and a maximum that are positive.
LEMMA NewIsSound ==
  ASSUME NEW s \in Durations
  PROVE  ActualScale(s) \in 1 .. Half - 1 /\ ActualMax(s) \in 1 .. Half - 1
  BY BackoffAssumption DEF Durations, ActualScale, ActualMax

LEMMA BackoffInitSound ==
  ASSUME NEW a \in Int, NEW s \in Durations, NEW m \in Durations, BackoffInit(a, s, m)
  PROVE  BackoffInv
<1>1. ActualScale(s) \in 1 .. Half - 1 /\ ActualMax(m) \in 1 .. Half - 1
  BY NewIsSound
<1>2. None \in Int /\ Half \in Nat
  BY BackoffAssumption DEF None
<1>3. QED BY <1>1, <1>2
          DEF BackoffInit, BackoffInv, BackoffTypeOK, DelayIsExact, RetriesAreBounded

LEMMA BackoffStepSound == BackoffInv /\ [BackoffNext]_backoffVars => BackoffInv'
<1> SUFFICES ASSUME BackoffInv, [BackoffNext]_backoffVars PROVE BackoffInv'
  OBVIOUS
<1> USE DEF BackoffInv, RetriesAreBounded
<1>0. Half \in Nat /\ Half > 0 /\ None \in Int
  BY BackoffAssumption DEF None
<1>1. ASSUME NEW a \in Int, NEW s \in Durations, NEW m \in Durations, NewBackoff(a, s, m)
      PROVE  BackoffInv'
  <2>1. ActualScale(s) \in 1 .. Half - 1 /\ ActualMax(m) \in 1 .. Half - 1
    BY NewIsSound
  <2>2. QED BY <1>0, <1>1, <2>1 DEF NewBackoff, BackoffTypeOK, DelayIsExact
<1>2. ASSUME Delay PROVE BackoffInv'
  <2>1. ASSUME NEW e \in {"exceeded", "overflow"}, DelayFails(e) PROVE BackoffInv'
    BY <1>0, <1>2, <2>1 DEF Delay, DelayFails, BackoffTypeOK, DelayIsExact
  <2>2. ASSUME ~AttemptsExceeded, ~Overflows(Shift), Granted PROVE BackoffInv'
    <3>1. shifted \in 1 .. Half - 1 /\ Shift = shifted
      BY <2>2, <1>0, WrapValues DEF BackoffTypeOK, Overflows, Shift
    <3>2. /\ delay' = IF shifted > max THEN max ELSE shifted
          /\ delayError' = "none" /\ attempt' = attempt + 1 /\ shifted' = 2 * shifted
          /\ UNCHANGED <<maxAttempts, scale, max>>
      BY <1>2, <2>2, <3>1 DEF Delay, Granted, NextAttempt
    <3>3. BackoffTypeOK' /\ DelayIsExact'
      BY <1>0, <3>1, <3>2 DEF BackoffTypeOK, DelayIsExact
    <3>4. attempt \in Nat /\ maxAttempts \in Int /\ attempt # maxAttempts
      BY <2>2 DEF BackoffTypeOK, AttemptsExceeded
    <3>5. RetriesAreBounded'
      BY <1>0, <3>1, <3>2, <3>4
    <3>6. QED BY <3>3, <3>5
  <2>3. QED BY <1>2, <2>1, <2>2 DEF Delay
<1>3. CASE UNCHANGED backoffVars
  BY <1>3 DEF backoffVars, BackoffTypeOK, DelayIsExact
<1>4. QED BY <1>1, <1>2, <1>3 DEF BackoffNext

LEMMA BackoffInvariance == BackoffSpec => []BackoffInv
<1>1. BackoffBegins => BackoffInv
  BY BackoffInitSound DEF BackoffBegins
<1>2. QED BY <1>1, BackoffStepSound, PTL DEF BackoffSpec

\* The delays that Consume(), Start() and newClientWithRetry sleep are exactly
\* scale * 2^attempt capped at the maximum, whatever was configured: the shift
\* that wraps round is always reported.  They are as many as were asked for at most,
\* and who asked for any number gets an error in the end.
THEOREM BackoffsAreSound == BackoffSpec => []BackoffIsSound
  BY BackoffInvariance, PTL DEF BackoffInv, BackoffIsSound

-----------------------------------------------------------------------------
(* The environment. *)

\* A number of an environment, however its text reads, is an int.
LEMMA NumberInRange ==
  ASSUME env \in Environments, NEW name \in Numbers
  PROVE  Number(name) \in Durations
<1>1. Default[name] \in Durations /\ Half \in Nat /\ Half > 0
  BY EntryAssumption, BackoffAssumption
<1>2. env[name] \in {Unset, Malformed, TooBig, TooSmall} \/ env[name] \in Durations
  BY EntryAssumption
<1>3. {0, Half - 1, 0 - Half} \subseteq Durations
  BY <1>1 DEF Durations
<1>4. QED BY <1>1, <1>2, <1>3 DEF Number, LookupInt

LEMMA NumberIsInt ==
  ASSUME env \in Environments, NEW name \in Numbers
  PROVE  Number(name) \in Int
  BY NumberInRange, BackoffAssumption DEF Durations

LEMMA WrapInRange == ASSUME NEW x \in Int PROVE Wrap(x) \in Durations
<1>1. Half \in Nat /\ Half > 0
  BY BackoffAssumption
<1>2. (x + Half) % (2 * Half) \in 0 .. 2 * Half - 1
  BY <1>1
<1>3. QED BY <1>1, <1>2 DEF Wrap, Durations

LEMMA MillisInRange ==
  ASSUME env \in Environments, NEW name \in Numbers
  PROVE  Millis(name) \in Durations
<1>1. Number(name) * Millisecond \in Int
  BY NumberIsInt, EntryAssumption
<1>2. QED BY <1>1, WrapInRange DEF Millis

\* What fits is left as it is.
LEMMA WrapFits == ASSUME NEW x \in Durations PROVE Wrap(x) = x
<1>1. Half \in Nat /\ Half > 0
  BY BackoffAssumption
<1>2. x + Half \in 0 .. 2 * Half - 1 /\ x \in Int
  BY <1>1 DEF Durations
<1>3. \A y \in 0 .. 2 * Half - 1 : y % (2 * Half) = y
  BY <1>1
<1>4. QED BY <1>1, <1>2, <1>3 DEF Wrap

\* A product that is positive as a duration is positive, or wraps round.
LEMMA WrapPositive ==
  ASSUME NEW n \in Int, Wrap(n * Millisecond) > 0
  PROVE  n > 0 \/ n * Millisecond < 0 - Half
<1>1. Half \in Nat /\ Half > 0 /\ Millisecond \in Nat \ {0}
  BY BackoffAssumption, EntryAssumption
<1>2. ASSUME n <= 0 PROVE n * Millisecond <= 0 /\ n * Millisecond \in Int
  BY <1>1, <1>2
<1>3. ASSUME n <= 0, n * Millisecond >= 0 - Half PROVE FALSE
  <2>1. n * Millisecond \in Durations
    BY <1>1, <1>2, <1>3 DEF Durations
  <2>2. Wrap(n * Millisecond) = n * Millisecond
    BY <2>1, WrapFits
  <2>3. QED BY <1>2, <1>3, <2>2
<1>4. QED BY <1>1, <1>2, <1>3

LEMMA DivIsLess == ASSUME NEW a \in Nat, NEW b \in Nat \ {0} PROVE a \div b \in 0 .. a
  OBVIOUS

\* The integer division that sizes the rings: by a positive interval it does not wrap
\* round, and a quotient of at least one means a window no shorter than it.
LEMMA QuotientCases ==
  ASSUME NEW x \in Durations, NEW y \in Durations, y # 0
  PROVE  /\ Quotient(x, y) \in Int
         /\ Quotient(x, y) > 0 /\ y > 0 => y <= x
<1> DEFINE m(z) == IF z < 0 THEN 0 - z ELSE z
           q == IF (x < 0) = (y < 0) THEN m(x) \div m(y) ELSE 0 - (m(x) \div m(y))
<1>1. x \in Int /\ y \in Int /\ Half \in Nat /\ m(x) \in Nat /\ m(y) \in Nat \ {0}
  BY BackoffAssumption DEF Durations
<1>2. Quotient(x, y) = Wrap(q)
  BY DEF Quotient
<1>3. m(x) \div m(y) \in 0 .. m(x)
  BY <1>1, DivIsLess
<1>4. Quotient(x, y) \in Int
  <2>1. q \in Int
    BY <1>3
  <2> HIDE DEF q
  <2>2. QED BY <1>1, <1>2, <2>1, WrapInRange DEF Durations
<1>5. ASSUME Quotient(x, y) > 0, y > 0 PROVE y <= x
  <2>1. CASE x < 0
    <3>1. q \in Durations /\ q <= 0
      BY <1>1, <1>3, <1>5, <2>1 DEF Durations
    <3> HIDE DEF q
    <3>2. Quotient(x, y) = q
      BY <1>2, <3>1, WrapFits
    <3>3. q \in Int
      BY <1>1, <3>1 DEF Durations
    <3>4. QED BY <1>5, <3>1, <3>2, <3>3
  <2>2. CASE x >= 0
    <3>1. q = x \div y /\ x \div y \in 0 .. x
      BY <1>1, <1>3, <1>5, <2>2
    <3>2. q \in Durations
      BY <1>1, <3>1 DEF Durations
    <3> HIDE DEF q
    <3>3. Quotient(x, y) = q
      BY <1>2, <3>2, WrapFits
    <3>4. \A a \in Nat, b \in Nat \ {0} : a < b => a \div b = 0
      OBVIOUS
    <3>5. QED BY <1>1, <1>5, <2>2, <3>1, <3>3, <3>4
  <2>3. QED BY <1>1, <2>1, <2>2
<1>6. QED BY <1>4, <1>5
-----------------------------------------------------------------------------
\* What the steps of the process leave of the other modules' variables.
KeepsConnection == UNCHANGED <<brokerVars, configVars, checkVars, opc>>

LEMMA StepOfConnection ==
  [Next]_vars => ConnectionNext \/ (KeepsConnection /\ (UNCHANGED faults \/ Fault))
<1> SUFFICES ASSUME [Next]_vars
             PROVE  ConnectionNext \/ (KeepsConnection /\ (UNCHANGED faults \/ Fault))
  OBVIOUS
<1> USE DEF KeepsConnection, connectionVars
<1>1. CASE \/ LoadConfig \/ StartWatcher \/ NewStatusService \/ Notify \/ OpenStatus
           \/ StartTicker \/ TakeSignal \/ CloseStatus \/ CloseRest \/ ConnectionPanics
           \/ Signal \/ WatcherTicker \/ StatusTick
  BY <1>1 DEF LoadConfig, StartWatcher, NewStatusService, Notify, OpenStatus, StartTicker,
              TakeSignal, CloseStatus, CloseRest, ConnectionPanics, Signal, WatcherTicker,
              StatusTick, Only
<1>2. CASE CreateSaramaConfig \/ CreateProducerClient \/ CreateConsumerClient \/ NewServices
  BY <1>2 DEF CreateSaramaConfig, CreateProducerClient, CreateConsumerClient, NewServices, Only
<1>3. CASE OpenConnection
  BY <1>3 DEF OpenConnection, ConnectionNext
<1>4. CASE FirstReconcile
  BY <1>4 DEF FirstReconcile, NoFault
<1>5. CASE StopManager
  BY <1>5 DEF StopManager, ConnectionNext
<1>6. CASE \/ InProcess(ConnectionStep) \/ InProcess(ConnectionLoopExits)
           \/ InProcess(ConnectionEnvironment)
  BY <1>6 DEF InProcess, ConnectionNext
<1>7. CASE UNCHANGED vars
  BY <1>7 DEF vars
<1>8. QED BY <1>1, <1>2, <1>3, <1>4, <1>5, <1>6, <1>7 DEF Next, MainStep, Ended

LEMMA StepOfBackoff ==
  ASSUME env \in Environments, [Next]_vars
  PROVE  [BackoffNext]_backoffVars /\ env' = env
<1>1. NewBootstrapBackoff => BackoffNext
  <2>1. Number("maxAttempts") \in Int /\ Millis("backoffScale") \in Durations
    BY NumberIsInt, MillisInRange DEF Numbers
  <2>2. MaxDefault \in Durations
    BY BackoffAssumption DEF Durations
  <2>3. QED BY <2>1, <2>2 DEF NewBootstrapBackoff, BackoffNext
<1>2. ASSUME NEW at, RetryOrDie(at) PROVE BackoffNext /\ env' = env
  BY <1>2 DEF RetryOrDie, BackoffNext, Goes
<1> USE DEF Goes, Dies, Only
<1>3. CASE \/ LoadConfig \/ StartWatcher \/ NewStatusService \/ Notify \/ NewServices
           \/ OpenConnection \/ StartTicker \/ TakeSignal \/ StopManager \/ CloseStatus \/ CloseRest
           \/ ConnectionPanics
  BY <1>3 DEF LoadConfig, StartWatcher, NewStatusService, Notify, NewServices, OpenConnection,
              StartTicker, TakeSignal, StopManager, CloseStatus, CloseRest, ConnectionPanics
<1>4. CASE CreateSaramaConfig \/ OpenStatus
  BY <1>1, <1>4 DEF CreateSaramaConfig, OpenStatus
<1>5. CASE CreateProducerClient \/ CreateConsumerClient \/ FirstReconcile
  BY <1>1, <1>2, <1>5 DEF CreateProducerClient, CreateConsumerClient, FirstReconcile
<1>6. CASE \/ Signal \/ WatcherTicker \/ StatusTick
           \/ InProcess(ConnectionStep) \/ InProcess(ConnectionLoopExits)
           \/ InProcess(ConnectionEnvironment) \/ UNCHANGED vars
  BY <1>6 DEF Signal, WatcherTicker, StatusTick, InProcess, mainVars, vars
<1>7. QED BY <1>3, <1>4, <1>5, <1>6 DEF Next, MainStep, Ended
-----------------------------------------------------------------------------
\* A failure elsewhere in the process leaves the connection service as it is.
LEMMA ConnectionInvElsewhere ==
  ConnectionInv /\ KeepsConnection /\ (UNCHANGED faults \/ Fault) => ConnectionInv'
  BY ConnectionAssumption
  DEF KeepsConnection, Fault, ConnectionInv, ConnectionTypeOK, ControlInv, AdminInv,
      PanicNeedsFault, brokerVars, configVars, checkVars

\* What the components are by themselves, they are in the process.
PartsInv == env \in Environments /\ ConnectionInv /\ BackoffInv

LEMMA PartsInit == Init => PartsInv
<1> SUFFICES ASSUME Init PROVE PartsInv
  OBVIOUS
<1>1. env \in Environments
  BY DEF Init
<1>2. expected \in Int /\ interval \in Int
  <2>1. Number("expectedClusterSize") \in Int
    BY <1>1, NumberIsInt DEF Numbers
  <2>2. Millis("connectionInterval") \in Int
    BY <1>1, MillisInRange DEF Numbers, Durations
  <2>3. QED BY <2>1, <2>2 DEF Init
<1>3. ConnectionInv
  BY <1>2, ConnectionInitInv DEF Init
<1>4. 0 \in Int /\ 0 \in Durations
  BY BackoffAssumption DEF Durations
<1>5. BackoffInv
  BY <1>4, BackoffInitSound DEF Init
<1>6. QED BY <1>1, <1>3, <1>5 DEF PartsInv

LEMMA PartsStep == PartsInv /\ [Next]_vars => PartsInv'
<1> SUFFICES ASSUME PartsInv, [Next]_vars PROVE PartsInv'
  OBVIOUS
<1>1. [BackoffNext]_backoffVars /\ env' = env
  BY StepOfBackoff DEF PartsInv
<1>2. BackoffInv'
  BY <1>1, BackoffStepSound DEF PartsInv
<1>3. ConnectionInv'
  BY StepOfConnection, ConnectionStepInv, ConnectionInvElsewhere DEF PartsInv
<1>4. QED BY <1>1, <1>2, <1>3 DEF PartsInv

LEMMA PartsInvariance == Spec => []PartsInv
  BY PartsInit, PartsStep, PTL DEF Spec

\* Whatever is configured, the delays of newClientWithRetry and of Start() are
\* exact, and something that never succeeds is given up.
THEOREM ProcessBacksOffSoundly == Spec => []BackoffIsSound
<1>1. PartsInv => BackoffIsSound
  BY DEF PartsInv, BackoffInv, BackoffIsSound
<1>2. QED BY <1>1, PartsInvariance, PTL

\* In every environment the connection service panics only after a failure, or at
\* its ticker.
THEOREM ProcessPanicNeedsFault == Spec => []PanicNeedsFault
<1>1. PartsInv => PanicNeedsFault
  BY DEF PartsInv, ConnectionInv
<1>2. QED BY <1>1, PartsInvariance, PTL

\* A failure elsewhere in the process does not matter either.
THEOREM ProcessReportsRightWhenQuiet == Spec => []QuietReportsAreRight
<1>1. Init => QuietInv
  BY QuietInit DEF Init
<1>2. PartsInv /\ QuietInv /\ [Next]_vars => QuietInv'
  <2> SUFFICES ASSUME PartsInv, QuietInv, [Next]_vars PROVE QuietInv'
    OBVIOUS
  <2>1. CASE ConnectionNext
    BY <2>1, QuietStep DEF PartsInv
  <2>2. CASE KeepsConnection /\ UNCHANGED faults
    BY <2>2 DEF KeepsConnection, QuietInv, Reported, KnownIsRight, brokerVars, configVars,
                checkVars
  <2>3. CASE Fault
    <3>1. faults' # 0
      BY <2>3 DEF Fault, PartsInv, ConnectionInv, ConnectionTypeOK
    <3>2. QED BY <3>1 DEF QuietInv
  <2>4. QED BY <2>1, <2>2, <2>3, StepOfConnection
<1>3. QED BY <1>1, <1>2, QuietIsRight, PartsInvariance, PTL DEF Spec

\* In the process, and through its signals, the connection service is a TickerLoop.
THEOREM ProcessRefinesLoop == Spec => ConnectionImplementsLoop
<1>1. Init => TL!Init
  BY LoopIs DEF Init, ConnectionInit, LoopCases, TL!Init
<1>2. PartsInv /\ [Next]_vars => [TL!Next]_(TL!vars)
  <2> SUFFICES ASSUME PartsInv, [Next]_vars PROVE TL!Next \/ UNCHANGED TL!vars
    OBVIOUS
  <2>1. CASE ConnectionNext
    BY <2>1, ConnectionStepRefines DEF PartsInv
  <2>2. CASE KeepsConnection
    BY <2>2, LoopIs, LoopIsNext DEF KeepsConnection, checkVars, Loop, TL!vars
  <2>3. QED BY <2>1, <2>2, StepOfConnection
<1>3. QED BY <1>1, <1>2, PartsInvariance, PTL DEF Spec, ConnectionImplementsLoop, TL!Spec
-----------------------------------------------------------------------------
\* The variables of the process itself.
Places ==
  {"config", "watcher", "status", "notify", "sarama", "producerClient", "consumerClient",
   "services", "open", "opening", "reconcile", "ticker", "up", "stop", "closeConnection", "closeRest",
   "exited", "dead", "hung"}

MainTypes ==
  /\ pc \in Places /\ signalled \in BOOLEAN /\ queued \in 0 .. 1
  /\ watcher \in {"none", "new", "runs"} /\ status \in {"none", "open", "sampled", "closed"}

LEMMA MainTypesStep == MainTypes /\ [Next]_vars => MainTypes'
<1> SUFFICES ASSUME MainTypes, [Next]_vars PROVE MainTypes'
  OBVIOUS
<1> USE DEF MainTypes, Places, Goes, Dies, RetryOrDie, Only
<1>1. CASE LoadConfig \/ StartWatcher \/ NewStatusService \/ Notify
  BY <1>1 DEF LoadConfig, StartWatcher, NewStatusService, Notify
<1>2. CASE CreateSaramaConfig \/ CreateProducerClient \/ CreateConsumerClient \/ NewServices
  BY <1>2 DEF CreateSaramaConfig, CreateProducerClient, CreateConsumerClient, NewServices, Only
<1>3. CASE OpenConnection \/ OpenStatus \/ FirstReconcile \/ StartTicker
  BY <1>3 DEF OpenConnection, OpenStatus, FirstReconcile, StartTicker
<1>4. CASE TakeSignal \/ StopManager \/ CloseStatus \/ CloseRest \/ ConnectionPanics
  BY <1>4 DEF TakeSignal, StopManager, CloseStatus, CloseRest, ConnectionPanics
<1>5. CASE Signal
  <2>1. UNCHANGED <<watcher, status>> /\ signalled' = TRUE
    BY <1>5 DEF Signal
  <2>2. \/ pc' = "dead" /\ queued' = queued
        \/ pc' = pc /\ queued' = 1
    BY <1>5 DEF Signal, Queued
  <2>3. QED BY <2>1, <2>2
<1>6. CASE \/ WatcherTicker \/ StatusTick
           \/ InProcess(ConnectionStep) \/ InProcess(ConnectionLoopExits)
           \/ InProcess(ConnectionEnvironment) \/ UNCHANGED vars
  BY <1>6 DEF WatcherTicker, StatusTick, InProcess, vars, mainVars
<1>7. QED BY <1>1, <1>2, <1>3, <1>4, <1>5, <1>6 DEF Next, MainStep, Ended

\* The process, with its connection service and backoffs, keeps its types from
\* start to end in every environment.
THEOREM ProcessTypeCorrect == Spec => []TypeOK
<1>1. Init => MainTypes
  <2>1. 0 \in 0 .. 1
    OBVIOUS
  <2>2. QED BY <2>1, Zenon DEF Init, MainTypes, Places
<1>2. PartsInv /\ MainTypes => TypeOK
  BY DEF PartsInv, MainTypes, Places, ConnectionInv, BackoffInv, TypeOK
<1>3. QED BY <1>1, <1>2, MainTypesStep, PartsInvariance, PTL DEF Spec
-----------------------------------------------------------------------------
\* Once signalled, the process has the signal in its channel or is on its way out.
LEMMA SignalStep == MainTypes /\ SignalIsKept /\ [Next]_vars => SignalIsKept'
<1> SUFFICES ASSUME MainTypes, SignalIsKept, [Next]_vars PROVE SignalIsKept'
  OBVIOUS
<1> USE DEF SignalIsKept, Stopping, Goes, Dies, RetryOrDie, Only
<1>1. CASE LoadConfig \/ StartWatcher \/ NewStatusService \/ Notify
  BY <1>1 DEF LoadConfig, StartWatcher, NewStatusService, Notify
<1>2. CASE CreateSaramaConfig \/ CreateProducerClient \/ CreateConsumerClient \/ NewServices
  BY <1>2 DEF CreateSaramaConfig, CreateProducerClient, CreateConsumerClient, NewServices, Only
<1>3. CASE OpenConnection \/ OpenStatus \/ FirstReconcile \/ StartTicker
  BY <1>3 DEF OpenConnection, OpenStatus, FirstReconcile, StartTicker
<1>4. CASE TakeSignal
  <2>1. queued = 1
    BY <1>4 DEF TakeSignal, MainTypes
  <2>2. QED BY <1>4, <2>1 DEF TakeSignal
<1>5. CASE StopManager \/ CloseStatus \/ CloseRest
  BY <1>5 DEF StopManager, CloseStatus, CloseRest
<1>6. CASE ConnectionPanics
  BY <1>6 DEF ConnectionPanics
<1>7. CASE Signal
  <2>1. ~signalled /\ signalled' = TRUE
    BY <1>7 DEF Signal
  <2>2. \/ pc' = "dead" /\ queued' = queued
        \/ pc' = pc /\ queued' = 1
    BY <1>7 DEF Signal, Queued
  <2>3. QED BY <2>1, <2>2
<1>8. CASE \/ WatcherTicker \/ StatusTick
           \/ InProcess(ConnectionStep) \/ InProcess(ConnectionLoopExits)
           \/ InProcess(ConnectionEnvironment) \/ UNCHANGED vars
  BY <1>8 DEF WatcherTicker, StatusTick, InProcess, vars, mainVars
<1>9. QED BY <1>1, <1>2, <1>3, <1>4, <1>5, <1>6, <1>7, <1>8 DEF Next, MainStep, Ended

\* In every environment, a signal that comes once signal.Notify has been called is
\* there when main() comes to read it, even in the midst of the retries of the
\* start, and main() stops nothing before.
THEOREM SignalAlwaysKept == Spec => []SignalIsKept
<1>1. Init => MainTypes /\ SignalIsKept
  <2>1. 0 \in 0 .. 1 /\ 0 # 1
    OBVIOUS
  <2>2. QED BY <2>1, Zenon DEF Init, MainTypes, Places, SignalIsKept, Stopping
<1>2. QED BY <1>1, MainTypesStep, SignalStep, PTL DEF Spec
-----------------------------------------------------------------------------
\* What has to be so on the way up.
UpInv ==
  /\ interval = Millis("connectionInterval")
  /\ opc \in {"open", "closing", "closed"} => interval > 0
  /\ status \in {"open", "sampled"} => Millis("statusInterval") > 0
  /\ status = "sampled" => Buckets > 0
  /\ pc \in {"reconcile", "ticker", "up"} => interval > 0 /\ Millis("statusInterval") > 0
  /\ pc = "up" => Millis("reconcileInterval") > 0

LEMMA UpInit == Init => UpInv
  BY DEF Init, ConnectionInit, UpInv

\* The interval stays, and a connection service that opens has a positive one.
LEMMA IntervalKept ==
  [Next]_vars => interval' = interval /\ (opc' \in {"open", "closing", "closed"} =>
                                            interval > 0 \/ opc \in {"open", "closing", "closed"})
<1> SUFFICES ASSUME [Next]_vars
             PROVE  /\ interval' = interval
                    /\ opc' \in {"open", "closing", "closed"} =>
                         interval > 0 \/ opc \in {"open", "closing", "closed"}
  OBVIOUS
<1>1. CASE KeepsConnection
  BY <1>1 DEF KeepsConnection, configVars
<1>2. CASE CheckStep
  BY <1>2 DEF CheckStep, CreateAdmin, HasAdmin, UseKnown, Describe, DescribeFails, Connect,
              CheckEnds, Check, configVars
<1>3. CASE LoopStarts \/ ConnectionTick \/ CloseAdmin \/ ConnectionLoopExits \/ OpenCalled
             \/ CloseCalled
  BY <1>3 DEF LoopStarts, ConnectionTick, CloseAdmin, ConnectionLoopExits, OpenCalled,
              CloseCalled, Control, configVars
<1>4. CASE ConnectionEnvironment
  BY <1>4 DEF ConnectionEnvironment, ConnectionBrokerUp, ConnectionBrokerDown, ConnectionBreaks,
              CloseAfterDisconnectionFails, Scaling, configVars
<1>5. QED BY <1>1, <1>2, <1>3, <1>4, StepOfConnection DEF ConnectionNext, ConnectionStep

LEMMA UpStep == PartsInv /\ UpInv /\ [Next]_vars => UpInv'
<1> SUFFICES ASSUME PartsInv, UpInv, [Next]_vars PROVE UpInv'
  OBVIOUS
<1>1. env' = env
  BY StepOfBackoff DEF PartsInv
<1>2. /\ \A name \in Numbers : Millis(name)' = Millis(name)
      /\ Buckets' = Buckets
  BY <1>1 DEF Millis, Number, Buckets
<1>3. /\ status' \in {"open", "sampled"} => status \in {"open", "sampled"} \/ Millis("statusInterval") > 0
      /\ status' = "sampled" => status = "sampled" \/ Buckets > 0
      /\ pc' \in {"reconcile", "ticker", "up"} =>
           \/ pc \in {"reconcile", "ticker", "up"}
           \/ opc = "open" /\ Millis("statusInterval") > 0
      /\ pc' = "up" => pc = "up" \/ Millis("reconcileInterval") > 0
  <2> USE DEF Goes, Dies, RetryOrDie, Only
  <2>1. CASE \/ LoadConfig \/ StartWatcher \/ NewStatusService \/ Notify \/ CreateSaramaConfig
             \/ CreateProducerClient \/ CreateConsumerClient \/ NewServices \/ OpenConnection
    BY <2>1 DEF LoadConfig, StartWatcher, NewStatusService, Notify, CreateSaramaConfig,
                CreateProducerClient, CreateConsumerClient, NewServices, OpenConnection
  <2>2. CASE OpenStatus \/ FirstReconcile \/ StartTicker
    BY <2>2 DEF OpenStatus, FirstReconcile, StartTicker
  <2>3. CASE TakeSignal \/ StopManager \/ CloseStatus \/ CloseRest \/ ConnectionPanics
    BY <2>3 DEF TakeSignal, StopManager, CloseStatus, CloseRest, ConnectionPanics
  <2>4. CASE Signal \/ WatcherTicker \/ StatusTick
    BY <2>4 DEF Signal, WatcherTicker, StatusTick
  <2>5. CASE \/ InProcess(ConnectionStep) \/ InProcess(ConnectionLoopExits)
             \/ InProcess(ConnectionEnvironment) \/ UNCHANGED vars
    BY <2>5 DEF InProcess, vars, mainVars
  <2>6. QED BY <2>1, <2>2, <2>3, <2>4, <2>5 DEF Next, MainStep, Ended
<1>4. /\ Millis("connectionInterval")' = Millis("connectionInterval")
      /\ Millis("statusInterval")' = Millis("statusInterval")
      /\ Millis("reconcileInterval")' = Millis("reconcileInterval")
  BY <1>2 DEF Numbers
<1>5. QED BY <1>2, <1>3, <1>4, IntervalKept DEF UpInv

LEMMA UpInvariance == Spec => []UpInv
  BY UpInit, UpStep, PartsInvariance, PTL DEF Spec

\* In every environment, a canary that is up has tickers that tick and, once it has
\* sampled, rings of at least one bucket over a window that is no shorter than the
\* interval.
THEOREM UpSoundly == Spec => []UpIsSound
<1>1. PartsInv /\ UpInv => UpIsSound
  <2> SUFFICES ASSUME PartsInv, UpInv PROVE UpIsSound
    OBVIOUS
  <2> DEFINE x == Number("statusWindow")
             y == Number("statusInterval")
  <2>1. /\ x \in Int /\ y \in Int /\ x \in Durations /\ y \in Durations
        /\ Millisecond \in Nat \ {0} /\ MaxBufferBuckets \in Nat \ {0}
    BY NumberInRange, NumberIsInt, EntryAssumption DEF PartsInv, Numbers
  <2>2. ASSUME status = "sampled"
        PROVE  /\ Buckets \in 1 .. MaxBufferBuckets
               /\ y \in 1 .. x \/ y * Millisecond < 0 - Half
    <3>1. Wrap(y * Millisecond) > 0 /\ Capped(x, y) > 0
      BY <2>2 DEF UpInv, Millis, Buckets
    <3>2. y > 0 \/ y * Millisecond < 0 - Half
      BY <2>1, <3>1, WrapPositive
    <3>3. y # 0
      BY <2>1, <3>2, BackoffAssumption
    <3>4. Quotient(x, y) \in Int /\ (Quotient(x, y) > 0 /\ y > 0 => y <= x)
      BY <2>1, <3>3, QuotientCases
    <3>5. Quotient(x, y) > 0
      BY <2>1, <3>1, <3>4 DEF Capped
    <3>6. Buckets \in 1 .. MaxBufferBuckets
      BY <2>1, <3>4, <3>5 DEF Buckets, Capped
    <3>7. QED BY <2>1, <3>2, <3>4, <3>5, <3>6
  <2>3. ASSUME pc = "up",
               NEW name \in {"reconcileInterval", "connectionInterval", "statusInterval"}
        PROVE  Millis(name) > 0
    BY <2>3 DEF UpInv
  <2>4. QED BY <2>2, <2>3 DEF UpIsSound
<1>2. QED BY <1>1, PartsInvariance, UpInvariance, PTL
=============================================================================
