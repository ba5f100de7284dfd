------------------------------ MODULE EntryPoint ------------------------------
(***************************************************************************)
(* cmd/main.go: the life of the process from its environment variables to  *)
(* its end, with the configuration that internal/config/canary_config.go   *)
(* makes of them, the retries of newClientWithRetry and of Start(), and    *)
(* the signal that stops it.  Of Start() and Stop() it has what depends on *)
(* the configuration: tickers, rings, backoff; CanaryManager has the rest. *)
(*                                                                         *)
(* pc is where the main goroutine is.  "dead" is the end by a panic, by    *)
(* glog.Fatalf or by a signal nobody handles; "hung" is a reconcile that   *)
(* waits for ever for a reassignment, which CanaryManager has (Hung).      *)
(***************************************************************************)
EXTENDS ConnectionService, Backoff

CONSTANTS
  Environments,      \* the environments to consider: variable -> its text
  Unset, Malformed,  \* no text; one that does not parse
  Refused,           \* one that parses, and that a library does not take
  TooBig, TooSmall,  \* numbers beyond the range of int
  Default,           \* the defaults of the numbers
  Millisecond,       \* 10^6 in the code
  MaxBufferBuckets   \* see TimeWindowRing

Numbers == {"maxAttempts", "backoffScale", "expectedClusterSize", "reconcileInterval",
            "connectionInterval", "watcherInterval", "statusInterval", "statusWindow"}

ASSUME EntryAssumption ==
  /\ Millisecond \in Nat \ {0} /\ MaxBufferBuckets \in Nat \ {0}
  /\ Default \in [Numbers -> Durations]
  /\ \A e \in Environments, name \in Numbers :
       e[name] \in {Unset, Malformed, TooBig, TooSmall} \/ e[name] \in Durations

VARIABLES
  env,      \* the environment
  pc,
  signalled, queued,  \* SIGINT or SIGTERM has come; how many wait in signals
  watcher,  \* the goroutine of the DynamicConfigWatcher: "none", "new", "runs"
  status    \* the status check loop: "none", "open", "sampled", "closed"

mainVars == <<env, pc, signalled, queued, watcher, status>>
vars == <<mainVars, backoffVars, connectionVars>>

-----------------------------------------------------------------------------
\* Plausible slips in the code below, for the mutation runs.
QueuedIfAwaited == IF pc = "up" THEN 1 ELSE 0
------------------------- (* NewCanaryConfig() *) ----------------------------
\* lookupIntEnv: the error of Atoi is dropped, its value kept.
LookupInt(text, default) ==
  CASE text = Unset -> default
    [] text = Malformed -> 0
    [] text = TooBig -> Half - 1
    [] text = TooSmall -> 0 - Half
    [] OTHER -> text

LookupBool(text) == text = TRUE

Number(name) == LookupInt(env[name], Default[name])

\* A number of milliseconds as a time.Duration.
Millis(name) == Wrap(Number(name) * Millisecond)

\* A list of pairs, a list of buckets or a tracing exporter that does not parse
\* ends the process.
ConfigFails == \E name \in {"topicConfig", "labels", "buckets", "tracing"} : env[name] = Malformed

\* ParseKafkaVersion, NewTLSConfig if TLS is on, SetAuthConfig.
SaramaConfigFails ==
  \/ env.kafkaVersion = Malformed
  \/ LookupBool(env.tlsEnabled) /\ env.tlsCert = Malformed
  \/ env.sasl = Malformed

--------------------------- (* NewTimeWindowRing *) --------------------------
\* The division of Go rounds towards 0, and wraps round for the least dividend by -1.
Quotient(x, y) ==
  LET magnitude(z) == IF z < 0 THEN 0 - z ELSE z
      q == magnitude(x) \div magnitude(y)
  IN  Wrap(IF (x < 0) = (y < 0) THEN q ELSE 0 - q)

\* A slip, as those above.
NotCapped(size, sampling) == Quotient(size, sampling)

Capped(size, sampling) ==
  IF Quotient(size, sampling) > MaxBufferBuckets THEN MaxBufferBuckets
                                                 ELSE Quotient(size, sampling)

Buckets == Capped(Number("statusWindow"), Number("statusInterval"))

\* A division by zero, or a slice of negative length.
RingFails == Number("statusInterval") # 0 => Buckets < 0

----------------------------- (* main(), Start() *) --------------------------
Init ==
  /\ env \in Environments
  /\ pc = "config" /\ signalled = FALSE /\ queued = 0
  /\ watcher = "none" /\ status = "none"
  /\ BackoffInit(0, 0, 0)
  /\ ConnectionInit
  /\ expected = Number("expectedClusterSize") /\ interval = Millis("connectionInterval")

Alive == pc \notin {"exited", "dead"}

\* The main goroutine goes from one place to another, and nothing else happens.
Goes(from, to) ==
  /\ pc = from /\ pc' = to
  /\ UNCHANGED <<env, signalled, queued>>
Dies(from) == Goes(from, "dead")
Only(changed) == UNCHANGED <<backoffVars, connectionVars>> /\ UNCHANGED changed

LoadConfig ==
  /\ \/ Dies("config") /\ ConfigFails
     \/ Goes("config", "watcher") /\ ~ConfigFails
  /\ Only(<<watcher, status>>)

\* NewDynamicConfigWatcher starts a goroutine, if there is a file to watch.
StartWatcher ==
  /\ Goes("watcher", "status")
  /\ watcher' = IF env.configFile # Unset /\ Number("watcherInterval") > 0 THEN "new" ELSE "none"
  /\ Only(status)

NewStatusService ==
  /\ \/ Dies("status") /\ RingFails
     \/ Goes("status", "notify") /\ ~RingFails
  /\ Only(<<watcher, status>>)

Notify == Goes("notify", "sarama") /\ Only(<<watcher, status>>)

\* The backoff of newClientWithRetry and of Start().
NewBootstrapBackoff == NewBackoff(Number("maxAttempts"), Millis("backoffScale"), MaxDefault)

CreateSaramaConfig ==
  /\ \/ Dies("sarama") /\ SaramaConfigFails /\ UNCHANGED backoffVars
     \/ Goes("sarama", "producerClient") /\ ~SaramaConfigFails /\ NewBootstrapBackoff
  /\ UNCHANGED <<watcher, status, connectionVars>>

\* What failed is tried again after a delay, or given up with a fatal error.
RetryOrDie(at) ==
  /\ pc = at /\ Delay
  /\ Goes(at, IF delayError' = "none" THEN at ELSE "dead")

CreateProducerClient ==
  /\ \/ Goes("producerClient", "consumerClient") /\ NewBootstrapBackoff
     \/ RetryOrDie("producerClient")
  /\ UNCHANGED <<watcher, status, connectionVars>>

CreateConsumerClient ==
  /\ \/ Goes("consumerClient", "services") /\ UNCHANGED backoffVars
     \/ RetryOrDie("consumerClient")
  /\ UNCHANGED <<watcher, status, connectionVars>>

\* A metric is not registered with any label, and there are versions of Kafka
\* without consumer groups.
ServicesFail == env.labels = Refused \/ env.kafkaVersion = Refused

\* The constructors of the services, which register metrics and make the sync
\* producer and the consumer group of the clients.
NewServices ==
  /\ \/ Dies("services") /\ ServicesFail
     \/ Goes("services", "open") /\ ~ServicesFail
  /\ Only(<<watcher, status>>)

OpenConnection ==
  /\ Goes("open", "opening") /\ OpenCalled
  /\ UNCHANGED <<watcher, status, backoffVars>>

\* NewTicker panics at an interval that is not positive.
OpenStatus ==
  /\ opc = "open"
  /\ \/ /\ Goes("opening", "reconcile") /\ Millis("statusInterval") > 0
        /\ status' = "open" /\ NewBootstrapBackoff
     \/ Dies("opening") /\ Millis("statusInterval") <= 0 /\ UNCHANGED <<status, backoffVars>>
  /\ UNCHANGED <<watcher, connectionVars>>

\* A topic of its size, or one that was there before, is reconciled, consumed
\* and sent to; a cluster without the expected size is waited for.
FirstReconcile ==
  /\ \/ Goes("reconcile", "ticker") /\ NoFault /\ UNCHANGED backoffVars
     \/ /\ RetryOrDie("reconcile") /\ NoFault
        /\ expected # Dynamic /\ expected # Cardinality(running)
     \/ /\ Dies("reconcile") \/ Goes("reconcile", "hung")
        /\ Fault /\ UNCHANGED backoffVars
  /\ UNCHANGED <<watcher, status, brokerVars, configVars, checkVars, opc>>

StartTicker ==
  /\ \/ Goes("ticker", "up") /\ Millis("reconcileInterval") > 0
     \/ Dies("ticker") /\ Millis("reconcileInterval") <= 0
  /\ Only(<<watcher, status>>)

---------------------------- (* main(), Stop() *) ----------------------------
TakeSignal ==
  /\ queued > 0
  /\ pc = "up" /\ pc' = "stop" /\ queued' = queued - 1
  /\ UNCHANGED <<env, signalled>> /\ Only(<<watcher, status>>)

\* Stop() up to the close of the topic service, then that of the connection
\* service.  A reconcile hangs, or a client fails to close, which is fatal.
StopManager ==
  /\ \/ Goes("stop", "closeConnection") /\ CloseCalled
     \/ /\ Goes("stop", "hung") \/ Dies("stop")
        /\ Fault /\ UNCHANGED <<brokerVars, configVars, checkVars, opc>>
  /\ UNCHANGED <<watcher, status, backoffVars>>

CloseStatus ==
  /\ opc = "closed" /\ Goes("closeConnection", "closeRest")
  /\ status' = "closed"
  /\ Only(watcher)

\* The HTTP server, the watcher, which is not waited for, and both clients.
CloseRest == Goes("closeRest", "exited") /\ Only(<<watcher, status>>)

\* A panic of the connection service is one of the main goroutine, in it.
ConnectionPanics ==
  /\ Alive /\ opc = "panicked"
  /\ Dies(pc) /\ Only(<<watcher, status>>)

---------------------- (* signals and other goroutines *) --------------------
\* The channel of signals has room for one.
Queued == 1

\* A signal kills a process that has not called signal.Notify yet.
Signal ==
  /\ Alive /\ ~signalled
  /\ signalled' = TRUE
  /\ IF pc \in {"config", "watcher", "status", "notify"}
     THEN pc' = "dead" /\ UNCHANGED queued
     ELSE queued' = Queued /\ UNCHANGED pc
  /\ UNCHANGED env /\ Only(<<watcher, status>>)

WatcherTicker ==
  /\ Alive /\ watcher = "new"
  /\ \/ Millis("watcherInterval") > 0 /\ watcher' = "runs" /\ Goes(pc, pc)
     \/ Millis("watcherInterval") <= 0 /\ Dies(pc) /\ UNCHANGED watcher
  /\ Only(status)

\* The first Put into a ring without buckets divides by zero.
StatusTick ==
  /\ Alive /\ status \in {"open", "sampled"}
  /\ \/ Buckets > 0 /\ status' = "sampled" /\ Goes(pc, pc)
     \/ Buckets = 0 /\ Dies(pc) /\ UNCHANGED status
  /\ Only(watcher)

InProcess(step) == Alive /\ step /\ UNCHANGED <<mainVars, backoffVars>>
-----------------------------------------------------------------------------
MainStep ==
  \/ LoadConfig \/ StartWatcher \/ NewStatusService \/ Notify \/ CreateSaramaConfig
  \/ CreateProducerClient \/ CreateConsumerClient \/ NewServices
  \/ OpenConnection \/ OpenStatus \/ FirstReconcile \/ StartTicker
  \/ TakeSignal \/ StopManager \/ CloseStatus \/ CloseRest \/ ConnectionPanics

Ended == ~Alive /\ UNCHANGED vars

Next ==
  \/ MainStep \/ Signal \/ WatcherTicker \/ StatusTick
  \/ InProcess(ConnectionStep) \/ InProcess(ConnectionLoopExits)
  \/ InProcess(ConnectionEnvironment)
  \/ Ended

Spec == Init /\ [][Next]_vars

\* The main goroutine and the connection loop go on, and select does not
\* overlook the stop channel for ever.  Nothing makes a signal come, a broker
\* come or go, or anything succeed.
Fairness ==
  /\ WF_vars(MainStep) /\ WF_vars(InProcess(ConnectionStep))
  /\ SF_vars(InProcess(ConnectionLoopExits))

FairSpec == Spec /\ Fairness
-----------------------------------------------------------------------------
\* The variables keep their types.
TypeOK ==
  /\ BackoffTypeOK /\ ConnectionTypeOK
  /\ env \in Environments
  /\ pc \in {"config", "watcher", "status", "notify", "sarama", "producerClient",
             "consumerClient", "services", "open", "opening", "reconcile", "ticker", "up", "stop",
             "closeConnection", "closeRest", "exited", "dead", "hung"}
  /\ signalled \in BOOLEAN /\ queued \in 0 .. 1
  /\ watcher \in {"none", "new", "runs"} /\ status \in {"none", "open", "sampled", "closed"}

\* Where Stop() and what follows it in main() are.
Stopping == {"stop", "closeConnection", "closeRest", "exited"}

\* Whatever the environment, a status that has been sampled has rings as
\* RingAssumption of TimeWindowRing wants them (or an interval so far out of range
\* that it wraps round), and a canary that is up has tickers that tick.
UpIsSound ==
  /\ status = "sampled" =>
       /\ Buckets \in 1 .. MaxBufferBuckets
       /\ \/ Number("statusInterval") \in 1 .. Number("statusWindow")
          \/ Number("statusInterval") * Millisecond < 0 - Half
  /\ pc = "up" =>
       \A name \in {"reconcileInterval", "connectionInterval", "statusInterval"} : Millis(name) > 0

\* A signal that has come waits in the channel until the main goroutine takes it,
\* however far the start has got; and only a signal makes the canary stop.
SignalIsKept ==
  /\ signalled => queued = 1 \/ pc \in Stopping \cup {"dead", "hung"}
  /\ queued = 1 \/ pc \in Stopping => signalled

\* Once the brokers stay and requests succeed, a canary that runs reports of the
\* brokers that run, or of the expected number of brokers that it once saw,
\* whether they run, for good.
ReportsFollowCluster == <>[](Alive /\ opc = "open" => ReportsAreRight)

Retrying == pc \in {"producerClient", "consumerClient", "reconcile"}

\* The creation of the clients, and the wait for the expected size, end with or
\* without success, for any number of attempts that is configured: if it is never
\* reached, the delay overflows in the end.
BootstrapEnds == Retrying ~> ~Retrying

\* A signal ends the process whenever it comes, during the start too, unless a
\* reconcile hangs.
SignalEnds == signalled ~> pc \in {"exited", "dead", "hung"}
=============================================================================
