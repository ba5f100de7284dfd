---------------------------- MODULE CanaryManager ----------------------------
(***************************************************************************)
(* internal/workers/canary_manager.go: Start(), the reconcile loop and     *)
(* Stop(), over the topic service and the two clients.  Of the producer    *)
(* and the consumer it has what the manager keeps in step with the topic:  *)
(* the metadata that each one's Sarama client has cached.  Consume() is    *)
(* one step here; ConsumerService has its inside, and ConnectionService    *)
(* that of the connection check, which only opens and closes here.         *)
(*                                                                         *)
(* mpc is where the goroutine that reconciles is: the main goroutine until *)
(* Start() returns, then the loop's.  spc is where Stop() is.              *)
(***************************************************************************)
EXTENDS TopicService

CONSTANT BootstrapBackoffMaxAttempts

ASSUME BoundsAssumption ==
  {MaxScalings, MaxFaults, BootstrapBackoffMaxAttempts} \subseteq Nat

VARIABLES
  mpc, spc,
  backoff,         \* attempt of the backoff in Start()
  producerKnown,   \* partitions in the metadata of the producer's client
  consumerLeaders, \* leaders in the metadata of the consumer's client
  missed,          \* the last Send addressed a partition the producer did not know
  missedFirst      \* so did the Send of Start(), and none since has found it known

managerVars == <<mpc, spc, backoff>>
clientVars == <<producerKnown, consumerLeaders, missed, missedFirst>>
vars == <<kafkaVars, topicVars, managerVars, clientVars>>

-----------------------------------------------------------------------------
\* Plausible slips in the code below, for the mutation runs.
StopAtOnce == TRUE
NeverExhausted == FALSE
-----------------------------------------------------------------------------
\* A process starts: the clients it creates fetch the metadata there is.
FreshClients ==
  /\ producerKnown' = NumPartitions
  /\ consumerLeaders' = leaders
  /\ missed' = FALSE
  /\ missedFirst' = FALSE

Init ==
  /\ KafkaInit /\ TopicInit
  /\ mpc = "open"
  /\ spc = "run"
  /\ backoff = 0
  /\ producerKnown = NumPartitions
  /\ consumerLeaders = leaders
  /\ missed = FALSE
  /\ missedFirst = FALSE

ResultTaken == result' = NoResult /\ UNCHANGED <<expected, admin, initialized, tpc, described, error, faults>>

\* The manager has seen that Reconcile() returned.
Returned ==
  /\ tpc = "done"
  /\ tpc' = "idle" /\ error' = "none"
  /\ UNCHANGED <<expected, admin, initialized, described, result, faults>>

------------------------------- (* Start() *) --------------------------------
\* The connection check and the status service start their loops.
OpenServices ==
  /\ mpc = "open"
  /\ mpc' = "start"
  /\ UNCHANGED <<kafkaVars, topicVars, spc, backoff, clientVars>>

StartReconcile ==
  /\ mpc = "start"
  /\ mpc' = "starting"
  /\ ReconcileCalled
  /\ UNCHANGED <<expected, admin, initialized, described, result, error, faults,
                 kafkaVars, spc, backoff, clientVars>>

BackoffExhausted == backoff = BootstrapBackoffMaxAttempts

\* A cluster without the expected size is waited for, as long as the backoff
\* lasts; any other error is fatal.
StartReconciled ==
  /\ mpc = "starting" /\ Returned
  /\ \/ error = "none" /\ mpc' = "consume" /\ UNCHANGED backoff
     \/ /\ error = "size" /\ ~BackoffExhausted
        /\ backoff' = backoff + 1 /\ mpc' = "start"
     \/ error = "size" /\ BackoffExhausted /\ mpc' = "fatal" /\ UNCHANGED backoff
     \/ error \in {"disconnected", "other"} /\ mpc' = "fatal" /\ UNCHANGED backoff
  /\ UNCHANGED <<kafkaVars, spc, clientVars>>

\* The consumer joins the group, for which Sarama refreshes its metadata, or
\* Consume() gives up, which is fatal.
Consume ==
  /\ mpc = "consume"
  /\ \/ mpc' = "firstSend" /\ consumerLeaders' = leaders /\ UNCHANGED topicVars
     \/ mpc' = "fatal" /\ Fault /\ UNCHANGED consumerLeaders
        /\ UNCHANGED <<expected, admin, initialized, tpc, described, result, error>>
  /\ UNCHANGED <<kafkaVars, spc, backoff, producerKnown, missed, missedFirst>>

\* Send: one message to each partition of the result. A client that knows no
\* partition yet asks; one that knows too few fails the others.
Send ==
  /\ producerKnown' = IF producerKnown = 0 THEN NumPartitions ELSE producerKnown
  /\ missed' = (result.partitions > producerKnown')

FirstSend ==
  /\ mpc = "firstSend" /\ Send
  /\ missedFirst' = missed'
  /\ mpc' = "idle"
  /\ ResultTaken
  /\ UNCHANGED <<kafkaVars, spc, backoff, consumerLeaders>>

\* The process dies, and a Stop() that has been called with it.
Dies ==
  /\ mpc' = "fatal" /\ spc' = IF spc = "run" THEN "run" ELSE "dead"
  /\ tpc' = "idle" /\ described' = NotDescribed /\ error' = "none"
  /\ UNCHANGED <<expected, admin, initialized, result, kafkaVars, backoff, clientVars>>

\* At any moment, in the middle of a reconcile or of Stop() too: killed, or by the
\* panic of ConsumerService.
Crash == mpc # "fatal" /\ spc # "closed" /\ Dies /\ Fault

\* Kubernetes restarts the container of a process that has died.
Restart ==
  /\ mpc = "fatal" /\ spc = "run"
  /\ mpc' = "open" /\ backoff' = 0
  /\ admin' = "nil" /\ initialized' = FALSE /\ result' = NoResult
  /\ FreshClients
  /\ UNCHANGED <<expected, tpc, described, error, faults, kafkaVars, spc>>

--------------------------- (* the reconcile loop *) -------------------------
Tick ==
  /\ mpc = "idle"
  /\ mpc' = "reconciling"
  /\ ReconcileCalled
  /\ UNCHANGED <<expected, admin, initialized, described, result, error, faults,
                 kafkaVars, spc, backoff, clientVars>>

Reconciled ==
  /\ mpc = "reconciling" /\ Returned
  /\ \/ error # "none" /\ mpc' = "idle"
     \/ error = "none" /\ mpc' = IF result.refresh THEN "refreshProducer" ELSE "checkLeaders"
  /\ UNCHANGED <<kafkaVars, spc, backoff, clientVars>>

\* An error of either Refresh is only counted.
RefreshProducer ==
  /\ mpc = "refreshProducer"
  /\ mpc' = "checkLeaders"
  /\ \/ producerKnown' = NumPartitions /\ UNCHANGED topicVars
     \/ Fault /\ UNCHANGED <<expected, admin, initialized, tpc, described, result, error>>
        /\ UNCHANGED producerKnown
  /\ UNCHANGED <<kafkaVars, spc, backoff, consumerLeaders, missed, missedFirst>>

LeadersDiffer(known) == -1 \in Range(known) \/ known # result.leaders

\* Leaders(): the client refreshes its metadata by itself if a leader is
\* missing, and returns an error if it still is.
CheckLeaders ==
  /\ mpc = "checkLeaders"
  /\ consumerLeaders' = IF -1 \in Range(consumerLeaders) THEN leaders ELSE consumerLeaders
  /\ mpc' = IF LeadersDiffer(consumerLeaders') THEN "refreshConsumer" ELSE "send"
  /\ UNCHANGED <<kafkaVars, topicVars, spc, backoff, producerKnown, missed, missedFirst>>

RefreshConsumer ==
  /\ mpc = "refreshConsumer"
  /\ mpc' = "send"
  /\ \/ consumerLeaders' = leaders /\ UNCHANGED topicVars
     \/ Fault /\ UNCHANGED <<expected, admin, initialized, tpc, described, result, error>>
        /\ UNCHANGED consumerLeaders
  /\ UNCHANGED <<kafkaVars, spc, backoff, producerKnown, missed, missedFirst>>

LoopSend ==
  /\ mpc = "send" /\ Send
  /\ missedFirst' = (missedFirst /\ missed')
  /\ mpc' = "idle"
  /\ ResultTaken
  /\ UNCHANGED <<kafkaVars, spc, backoff, consumerLeaders>>

\* The loop sees the stop channel closed, between two reconciles.
LoopStops ==
  /\ mpc = "idle" /\ spc = "wait"
  /\ mpc' = "exited"
  /\ UNCHANGED <<kafkaVars, topicVars, spc, backoff, clientVars>>

\* Every 10 minutes Sarama refreshes the metadata of a client by itself.
ProducerBackgroundRefresh ==
  /\ spc \in {"run", "wait"} /\ mpc # "fatal"
  /\ producerKnown' = NumPartitions
  /\ UNCHANGED <<kafkaVars, topicVars, managerVars, consumerLeaders, missed, missedFirst>>

ConsumerBackgroundRefresh ==
  /\ spc \in {"run", "wait"} /\ mpc # "fatal"
  /\ consumerLeaders' = leaders
  /\ UNCHANGED <<kafkaVars, topicVars, managerVars, producerKnown, missed, missedFirst>>

-------------------------------- (* Stop() *) --------------------------------
Started == mpc \notin {"open", "start", "starting", "consume", "firstSend", "fatal"}

StopCalled ==
  /\ spc = "run" /\ Started
  /\ spc' = "wait"
  /\ UNCHANGED <<kafkaVars, topicVars, mpc, backoff, clientVars>>

LoopHasExited == mpc = "exited"

\* One step of Stop(), whose failure ends the process.
Closes(from, to) ==
  \/ spc = from /\ spc' = to /\ UNCHANGED <<kafkaVars, topicVars, mpc, backoff, clientVars>>
  \/ spc = from /\ Dies /\ Fault

\* glog.Fatalf, if the producer or the consumer group fails to close.
CloseProducer == LoopHasExited /\ Closes("wait", "closeConsumer")
CloseConsumer == Closes("closeConsumer", "closeTopic")

\* So it does if the admin client fails to close.
CloseTopic ==
  \/ /\ spc = "closeTopic"
     /\ spc' = "closeConnection" /\ admin' = "nil"
     /\ UNCHANGED <<kafkaVars, expected, initialized, tpc, described, result, error, faults,
                    mpc, backoff, clientVars>>
  \/ spc = "closeTopic" /\ admin # "nil" /\ Dies /\ Fault

\* Reconcile() closes it too, after a disconnection; that this fails is part of the
\* failure that the disconnection was.
CloseAfterDisconnectionFails ==
  tpc = "failed" /\ error = "disconnected" /\ Dies /\ UNCHANGED faults

\* Close() of the connection check panics if a failure has left it no client.
CloseConnection == Closes("closeConnection", "closeStatus")

CloseStatus ==
  /\ spc = "closeStatus"
  /\ spc' = "closed"
  /\ UNCHANGED <<kafkaVars, topicVars, mpc, backoff, clientVars>>
-----------------------------------------------------------------------------
TopicStep == (ReconcileStep \/ BreakConnection) /\ UNCHANGED <<managerVars, clientVars>>
KafkaStep == KafkaNext /\ UNCHANGED <<topicVars, managerVars, clientVars>>

ManagerStep ==
  \/ OpenServices \/ StartReconcile \/ StartReconciled \/ Consume \/ FirstSend \/ Restart
  \/ Tick \/ Reconciled \/ RefreshProducer \/ CheckLeaders \/ RefreshConsumer \/ LoopSend
  \/ CloseProducer \/ CloseConsumer \/ CloseTopic
  \/ CloseConnection \/ CloseStatus

Closed == spc \in {"closed", "dead"} /\ UNCHANGED vars

Next ==
  \/ TopicStep \/ KafkaStep \/ ManagerStep
  \/ Crash \/ CloseAfterDisconnectionFails \/ LoopStops \/ StopCalled
  \/ ProducerBackgroundRefresh \/ ConsumerBackgroundRefresh \/ Closed

Spec == Init /\ [][Next]_vars

\* The loop and the manager go on, the controller does its work, the producer's
\* client refreshes in the background, and select does not overlook the stop
\* channel for ever.  Nothing makes a broker come or go, a request fail, the
\* process die, or Stop.
Fairness ==
  /\ WF_vars(ReconcileStep /\ UNCHANGED <<managerVars, clientVars>>)
  /\ WF_vars(ManagerStep) /\ SF_vars(LoopStops)
  /\ WF_vars(ProducerBackgroundRefresh)
  /\ WF_vars(KafkaSettles /\ UNCHANGED <<topicVars, managerVars, clientVars>>)

FairSpec == Spec /\ Fairness
-----------------------------------------------------------------------------
Closing == {"closeConsumer", "closeTopic", "closeConnection", "closeStatus", "closed"}

\* The variables keep their types.
TypeOK ==
  /\ KafkaTypeOK /\ TopicTypeOK
  /\ mpc \in {"open", "start", "starting", "consume", "firstSend", "fatal", "idle", "reconciling",
              "refreshProducer", "checkLeaders", "refreshConsumer", "send", "exited"}
  /\ spc \in {"run", "wait", "dead"} \cup Closing
  /\ backoff \in 0 .. BootstrapBackoffMaxAttempts
  /\ producerKnown \in 0 .. Cardinality(BrokerIds)
  /\ DOMAIN consumerLeaders \subseteq 0 .. Cardinality(BrokerIds) - 1
  /\ missed \in BOOLEAN /\ missedFirst \in BOOLEAN

\* Every Send reaches for all the partitions that the topic has by then, whichever
\* way the reconcile before it took: also those above the number of brokers, of which
\* the comment on Reconcile() says that they "are considered orphans and the
\* producer will not send messages to him".
SendCoversTopic ==
  mpc \in {"consume", "firstSend", "send"} => result.partitions = NumPartitions

\* The producer is never sent to a partition that its metadata lacks, but after
\* a failure, or since the Send of Start(), which no Refresh precedes.
MissHasCause == missed => faults > 0 \/ missedFirst

\* Stop() closes the clients under nobody: the loop has exited, and no reconcile
\* of the topic is going on.
NothingRunsWhileClosing ==
  spc \in Closing => mpc = "exited" /\ tpc = "idle"

\* With an expected cluster size, the topic is created for that many brokers, and a
\* canary that has started leaves it as it is, whatever comes and goes.
StaticTopicIsLeftAlone ==
  [][expected # Dynamic =>
       /\ NoTopic /\ ~NoTopic' => NumPartitions' = expected
       /\ initialized => UNCHANGED assignment]_vars

\* n partitions that are laid out over the brokers B.
LayoutOver(B, n) == [p \in 0 .. n - 1 |-> RequestedAssignments(n, B)[p]]

\* Every partition has the replicas that some set of brokers asks for: the last
\* described one whose request for it arrived and was accepted.
PartitionsLaidOut ==
  \A p \in Partitions : \E B \in Clusters : assignment[p] = LayoutOver(B, NumPartitions)[p]

\* A dynamic reconcile that returns without an error, whichever way it took, has
\* laid all the partitions there are now out over the brokers it was told of.
ReconcileLaysOut ==
  [][tpc # "done" /\ tpc' = "done" /\ error' = "none" /\ expected = Dynamic
       => assignment' = RequestedAssignments(NumPartitions', described.brokers)]_vars

\* A reconcile that is told of the brokers over which the topic is laid out leaves
\* it alone: it moves no replica, creates no partition.
LaidOutIsLeftAlone ==
  [][~NoTopic /\ assignment = RequestedAssignments(NumPartitions, described.brokers)
       => assignment' = assignment /\ moving' \subseteq moving]_vars

TY == INSTANCE TopicLayout WITH Layout <- LayoutOver

\* The topic is created as a whole, moved towards one layout at a time, which a refusal
\* may leave half done, and extended only when all of it is laid out over the
\* brokers over which the new partitions are.
TopicKeepsLayout == TY!Spec

\* Waiting in alterAssignments for a movement to a broker that is gone.
Hung ==
  /\ tpc = "list" /\ admin = "open"
  /\ \E p \in moving : ~(Range(assignment[p]) \subseteq brokers)

WaitsForSize == NoTopic /\ expected # Dynamic /\ expected # Cardinality(brokers)

InStep ==
  /\ ~NoTopic
  /\ consumerLeaders = leaders
  /\ producerKnown = NumPartitions
  /\ expected = Dynamic => assignment = RequestedAssignments(NumPartitions, brokers)

\* Once brokers stop coming and going and requests stop failing, the topic is
\* laid out over the brokers and both clients know its partitions and leaders,
\* unless the canary waits for the expected size, hangs in a reassignment, or
\* is stopped.
Settles == <>[](InStep \/ WaitsForSize \/ Hung \/ spc # "run")

\* Stop() returns, unless the reconcile it waits for hangs or the process dies on
\* the way: killed, by glog.Fatalf when a client fails to close, or by the panic
\* of the connection check.
StopReturns == spc = "wait" ~> (spc \in {"closed", "dead"} \/ Hung)

Loop ==
  CASE mpc \in {"open", "start", "starting", "consume", "firstSend", "fatal"} -> "none"
    [] mpc = "idle" /\ spc \notin Closing -> "waiting"
    [] mpc \in {"reconciling", "refreshProducer", "checkLeaders", "refreshConsumer", "send"}
         /\ spc \notin Closing -> "working"
    [] mpc = "exited" /\ spc \notin Closing -> "returned"
    [] OTHER -> "closed"

TL == INSTANCE TickerLoop WITH loop <- Loop, stop <- spc \notin {"run", "dead"}

\* The reconcile loop of the manager is a ticker loop: Start() opens one, after
\* its first reconcile, and Stop() closes what it uses once it has returned.
ManagerImplementsLoop == TL!Spec

\* The comment on RefreshProducerMetadata, "if a refresh metadata is needed":
\* without failures, no Send finds the producer's metadata too old.
SendsKnownPartitions == missed => faults > 0
=============================================================================
