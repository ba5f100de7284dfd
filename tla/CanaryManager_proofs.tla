------------------------- MODULE CanaryManager_proofs -------------------------
(***************************************************************************)
(* The canary manager closes the clients under nobody, implements          *)
(* TickerLoop, leaves a topic of static size as it was created, sends to   *)
(* every partition of the topic, and to none that the producer does not    *)
(* know without a cause, and keeps its types: for every set of brokers,    *)
(* every expected size, and every bound on scalings, failures, attempts.   *)
(***************************************************************************)
EXTENDS CanaryManager, TopicAssignments_proofs

Starting == {"open", "start", "starting", "consume", "firstSend", "fatal"}
Working == {"reconciling", "refreshProducer", "checkLeaders", "refreshConsumer", "send"}

\* Where the loop and the reconcile are while Stop() is where it is.
ControlInv ==
  /\ mpc \in Starting \cup Working \cup {"idle", "exited"}
  /\ spc \in {"run", "wait", "dead"} \cup Closing
  /\ tpc # "idle" => mpc \in {"starting", "reconciling"}
  /\ mpc \in Starting \ {"fatal"} => spc = "run"
  /\ mpc = "fatal" => spc \in {"run", "dead"}
  /\ spc = "dead" => mpc = "fatal"
  /\ mpc = "exited" => spc # "run"
  /\ spc \in Closing => mpc = "exited"

LEMMA ControlInit == Init => ControlInv
  BY DEF Init, TopicInit, ControlInv, Starting, Working, Closing

\* A step of Reconcile() is one of a reconcile that is going on.
LEMMA OnlyInReconcile == ReconcileStep => tpc # "idle" /\ tpc' # "idle"
<1> SUFFICES ASSUME ReconcileStep PROVE tpc # "idle" /\ tpc' # "idle"
  OBVIOUS
<1> USE DEF Proceed, Fail, Finish, Decide, Request, AnswerLost
<1>1. CASE OpenAdmin
  BY <1>1 DEF OpenAdmin
<1>2. CASE DescribeCluster
  BY <1>2 DEF DescribeCluster
<1>3. CASE DescribeTopic
  BY <1>3 DEF DescribeTopic
<1>4. CASE AlterConfig
  BY <1>4 DEF AlterConfig
<1>5. CASE CreateTopic
  BY <1>5 DEF CreateTopic
<1>6. CASE DescribeAgain
  BY <1>6 DEF DescribeAgain
<1>7. CASE Alter
  BY <1>7 DEF Alter
<1>8. CASE ListMoves
  BY <1>8 DEF ListMoves, Reassigned
<1>9. CASE CreatePartitions
  BY <1>9 DEF CreatePartitions, Reassigned
<1>10. CASE RequestFails
  BY <1>10 DEF RequestFails
<1>11. CASE ReconcileFailed
  BY <1>11 DEF ReconcileFailed
<1>12. QED BY <1>1, <1>2, <1>3, <1>4, <1>5, <1>6, <1>7, <1>8, <1>9, <1>10, <1>11
              DEF ReconcileStep

LEMMA ControlStep == ControlInv /\ [Next]_vars => ControlInv'
<1> SUFFICES ASSUME ControlInv, [Next]_vars PROVE ControlInv'
  OBVIOUS
<1> USE DEF ControlInv, Starting, Working, Closing
<1>1. CASE TopicStep
  <2>1. UNCHANGED <<mpc, spc>>
    BY <1>1 DEF TopicStep, managerVars
  <2>2. tpc # "idle" \/ tpc' = tpc
    BY <1>1, OnlyInReconcile DEF TopicStep, BreakConnection
  <2>3. QED BY <2>1, <2>2
<1>2. CASE KafkaStep
  BY <1>2 DEF KafkaStep, topicVars, managerVars
<1>3. CASE OpenServices \/ StartReconcile \/ StartReconciled \/ Consume \/ FirstSend
  BY <1>3 DEF OpenServices, StartReconcile, StartReconciled, Consume, FirstSend,
              ReconcileCalled, Returned, ResultTaken, topicVars
<1>4. CASE Restart \/ Dies
  BY <1>4 DEF Restart, Dies
<1>5. CASE Tick \/ Reconciled \/ RefreshProducer \/ CheckLeaders \/ RefreshConsumer \/ LoopSend
  BY <1>5 DEF Tick, Reconciled, RefreshProducer, CheckLeaders, RefreshConsumer, LoopSend,
              ReconcileCalled, Returned, ResultTaken, topicVars
<1>6. CASE LoopStops \/ StopCalled
  BY <1>6 DEF LoopStops, StopCalled, Started, topicVars
<1>7. CASE ~Dies /\ (CloseProducer \/ CloseConsumer \/ CloseTopic \/ CloseConnection \/ CloseStatus)
  BY <1>7 DEF CloseProducer, CloseConsumer, CloseTopic, CloseConnection, CloseStatus,
              Closes, LoopHasExited, topicVars
<1>8. CASE ProducerBackgroundRefresh \/ ConsumerBackgroundRefresh
  BY <1>8 DEF ProducerBackgroundRefresh, ConsumerBackgroundRefresh, topicVars, managerVars
<1>9. CASE UNCHANGED vars
  BY <1>9 DEF vars, topicVars, managerVars
<1>10. QED BY <1>1, <1>2, <1>3, <1>4, <1>5, <1>6, <1>7, <1>8, <1>9
              DEF Next, ManagerStep, Closed, Crash, CloseAfterDisconnectionFails

LEMMA Control == Spec => []ControlInv
  BY ControlInit, ControlStep, PTL DEF Spec

\* Stop() closes the clients under no reconcile, of the loop or of Start().
THEOREM NothingClosedInUse == Spec => []NothingRunsWhileClosing
<1>1. ControlInv => NothingRunsWhileClosing
  BY DEF ControlInv, NothingRunsWhileClosing, Closing
<1>2. QED BY <1>1, Control, PTL
-----------------------------------------------------------------------------
\* What Loop is, for the provers.
LoopCases ==
  /\ mpc \in Starting => Loop = "none"
  /\ mpc = "idle" /\ spc \notin Closing => Loop = "waiting"
  /\ mpc \in Working /\ spc \notin Closing => Loop = "working"
  /\ mpc = "exited" /\ spc \notin Closing => Loop = "returned"
  /\ mpc \notin Starting /\ spc \in Closing => Loop = "closed"

LEMMA LoopIs == LoopCases
<1>1. mpc \in Starting => Loop = "none"
  BY Zenon DEF Loop, Starting
<1>2. mpc = "idle" /\ spc \notin Closing => Loop = "waiting"
  BY Zenon DEF Loop
<1>3. mpc \in Working /\ spc \notin Closing => Loop = "working"
  BY Zenon DEF Loop, Working
<1>4. mpc = "exited" /\ spc \notin Closing => Loop = "returned"
  BY Zenon DEF Loop
<1>5. mpc \notin Starting /\ spc \in Closing => Loop = "closed"
  BY Zenon DEF Loop, Starting
<1>6. QED BY <1>1, <1>2, <1>3, <1>4, <1>5 DEF LoopCases

LEMMA LoopIsNext == LoopCases'
  BY LoopIs, PTL

LEMMA LoopStep == ControlInv /\ ControlInv' /\ [Next]_vars => [TL!Next]_(TL!vars)
<1> SUFFICES ASSUME ControlInv, ControlInv', [Next]_vars PROVE TL!Next \/ UNCHANGED TL!vars
  OBVIOUS
<1> USE LoopIs, LoopIsNext DEF LoopCases, ControlInv, Starting, Working, Closing
<1>1. ASSUME UNCHANGED <<mpc, spc>> PROVE UNCHANGED TL!vars
  BY <1>1 DEF TL!vars
<1>2. CASE \/ TopicStep \/ KafkaStep \/ ProducerBackgroundRefresh \/ ConsumerBackgroundRefresh
           \/ UNCHANGED vars
  BY <1>1, <1>2 DEF TopicStep, KafkaStep, ProducerBackgroundRefresh, ConsumerBackgroundRefresh,
                    vars, managerVars
<1>3. CASE OpenServices \/ StartReconcile \/ StartReconciled \/ Consume \/ Restart
  BY <1>3 DEF OpenServices, StartReconcile, StartReconciled, Consume, Restart, TL!vars
<1>4. CASE FirstSend
  BY <1>4 DEF FirstSend, TL!Next, TL!Open
<1>5. CASE Dies
  BY <1>5 DEF Dies, TL!Next, TL!Die
<1>6. CASE Tick
  BY <1>6 DEF Tick, TL!Next, TL!Tick
<1>7. CASE Reconciled
  BY <1>7 DEF Reconciled, TL!Next, TL!TickDone, TL!vars
<1>8. CASE RefreshProducer \/ CheckLeaders \/ RefreshConsumer
  BY <1>8 DEF RefreshProducer, CheckLeaders, RefreshConsumer, TL!vars
<1>9. CASE LoopSend
  BY <1>9 DEF LoopSend, TL!Next, TL!TickDone
<1>10. CASE LoopStops
  BY <1>10 DEF LoopStops, TL!Next, TL!Return
<1>11. CASE StopCalled
  BY <1>11 DEF StopCalled, Started, TL!Next, TL!AskToStop
<1>12. CASE CloseProducer /\ ~Dies
  BY <1>12 DEF CloseProducer, Closes, LoopHasExited, TL!Next, TL!CloseReturns
<1>13. CASE ~Dies /\ (CloseConsumer \/ CloseTopic \/ CloseConnection \/ CloseStatus)
  BY <1>13 DEF CloseConsumer, CloseTopic, CloseConnection, CloseStatus, Closes, TL!vars
<1>14. QED BY <1>2, <1>3, <1>4, <1>5, <1>6, <1>7, <1>8, <1>9, <1>10, <1>11, <1>12, <1>13
              DEF Next, ManagerStep, Closed, Crash, CloseAfterDisconnectionFails

\* The reconcile loop of the manager is a TickerLoop.
THEOREM ManagerRefinesLoop == Spec => ManagerImplementsLoop
<1>1. Init => TL!Init
  BY LoopIs DEF Init, LoopCases, Starting, TL!Init
<1>2. QED BY <1>1, Control, LoopStep, PTL DEF Spec, ManagerImplementsLoop, TL!Spec
-----------------------------------------------------------------------------
\* The requests of a reconcile that come after DescribeCluster, and those that
\* come after it has seen that there is a topic.
Described == {"describeTopic", "alterConfig", "create", "describeAgain", "alter", "list", "grow"}
TopicSeen == {"alterConfig", "describeAgain", "alter", "list", "grow"}

ClusterInv ==
  /\ brokers \subseteq BrokerIds /\ brokers # {}
  /\ IsFiniteSet(Partitions)

DescribedInv ==
  /\ described = [brokers |-> described.brokers, partitions |-> described.partitions,
                  leaders |-> described.leaders]
  /\ described.brokers \subseteq BrokerIds /\ described.partitions \in Nat
  /\ tpc \in Described => described.brokers # {}

\* A canary that is initialized knows that there is a topic, and one that is about
\* to change it is dynamic or not initialized yet.
StaticInv ==
  /\ initialized \/ tpc \in TopicSeen => Partitions # {}
  /\ tpc = "create" => ~initialized /\ Creates(described.brokers)
  /\ tpc \in {"alter", "list", "grow"} => expected = Dynamic \/ ~initialized

TopicInv == ClusterInv /\ DescribedInv /\ StaticInv

LEMMA NoTopicIsEmpty == IsFiniteSet(Partitions) => (NoTopic <=> Partitions = {})
  BY FS_EmptySet DEF NoTopic, NumPartitions

LEMMA PartitionsRequested ==
  ASSUME NEW n \in Nat, NEW B \in SUBSET BrokerIds, B # {}
  PROVE  /\ DOMAIN RequestedAssignments(n, B) = 0 .. MaxOf(n, Cardinality(B)) - 1
         /\ Cardinality(B) \in Nat \ {0}
         /\ IsFiniteSet(DOMAIN RequestedAssignments(n, B))
         /\ DOMAIN RequestedAssignments(n, B) # {}
<1>1. Cardinality(B) \in Nat \ {0}
  BY BrokersAssumption, FS_Subset, FS_CardinalityType, FS_EmptySet
<1>2. DOMAIN RequestedAssignments(n, B) = 0 .. MaxOf(n, Cardinality(B)) - 1
  BY DEF RequestedAssignments, RequestedPartitions
<1>3. MaxOf(n, Cardinality(B)) \in Nat \ {0}
  BY <1>1 DEF MaxOf
<1>4. IsFiniteSet(0 .. MaxOf(n, Cardinality(B)) - 1)
  BY <1>3, FS_Interval
<1>5. QED BY <1>1, <1>2, <1>3, <1>4

LEMMA TopicInvInit == Init => TopicInv
<1> SUFFICES ASSUME Init PROVE TopicInv
  OBVIOUS
<1>1. brokers \subseteq BrokerIds /\ brokers # {}
  BY DEF Init, KafkaInit
<1>2. IsFiniteSet(Partitions)
  <2>1. CASE assignment = << >>
    <3>1. DOMAIN assignment = {}
      BY <2>1
    <3>2. QED BY <3>1, FS_EmptySet DEF Partitions
  <2>2. ASSUME NEW B \in (SUBSET BrokerIds) \ {{}}, assignment = RequestedAssignments(0, B)
        PROVE  IsFiniteSet(Partitions)
    BY <2>2, PartitionsRequested DEF Partitions
  <2>3. QED BY <2>1, <2>2 DEF Init, KafkaInit
<1>3. QED BY <1>1, <1>2 DEF Init, TopicInit, NotDescribed, TopicInv, ClusterInv, DescribedInv,
                            StaticInv, Described, TopicSeen

\* The cluster changes no assignment by itself.
LEMMA KafkaNextInv == TopicInv /\ KafkaStep => TopicInv' /\ assignment' = assignment
<1> SUFFICES ASSUME TopicInv, KafkaStep PROVE TopicInv' /\ assignment' = assignment
  OBVIOUS
<1>1. assignment' = assignment /\ brokers' \subseteq BrokerIds /\ brokers' # {}
  BY DEF KafkaStep, KafkaNext, BrokerUp, BrokerDown, ElectLeader, ElectPreferred, FinishMove,
         TopicInv, ClusterInv
<1>2. UNCHANGED topicVars
  BY DEF KafkaStep
<1>3. QED BY <1>1, <1>2 DEF topicVars, TopicInv, ClusterInv, DescribedInv, StaticInv, Partitions,
                            Creates

\* A request that adds partitions leaves those there are, and one that moves
\* replicas leaves the partitions as they are.
LEMMA OverDomain ==
  ASSUME NEW f, NEW g PROVE DOMAIN Over(f, g) = DOMAIN f \cup DOMAIN g
  BY DEF Over

LEMMA RequestKeeps ==
  ASSUME NEW replicas, IsFiniteSet(DOMAIN replicas), ClusterInv, AddPartitions(replicas)
  PROVE  Partitions' = Partitions \cup DOMAIN replicas /\ ClusterInv'
<1>1. Partitions' = Partitions \cup DOMAIN replicas /\ brokers' = brokers
  BY OverDomain DEF AddPartitions, Partitions
<1>2. IsFiniteSet(Partitions \cup DOMAIN replicas)
  BY FS_Union DEF ClusterInv
<1>3. QED BY <1>1, <1>2 DEF ClusterInv

LEMMA MoveKeeps ==
  ASSUME NEW replicas, NEW accepted, ClusterInv, MoveReplicas(replicas, accepted)
  PROVE  Partitions' = Partitions /\ ClusterInv'
  BY DEF MoveReplicas, ClusterInv, Partitions

LEMMA ReplicasOfRequest ==
  ASSUME DescribedInv
  PROVE  /\ IsFiniteSet(DOMAIN Current(described.brokers, described.partitions))
         /\ IsFiniteSet(DOMAIN Missing(described.brokers, described.partitions))
<1>1. Cardinality(described.brokers) \in Nat
  BY BrokersAssumption, FS_Subset, FS_CardinalityType DEF DescribedInv
<1>2. /\ IsFiniteSet(0 .. described.partitions - 1)
      /\ IsFiniteSet(described.partitions .. Cardinality(described.brokers) - 1)
  <2>1. described.partitions \in Int /\ described.partitions - 1 \in Int
    BY DEF DescribedInv
  <2>2. Cardinality(described.brokers) - 1 \in Int
    BY <1>1
  <2>3. IsFiniteSet(0 .. described.partitions - 1)
    BY <2>1, FS_Interval
  <2>4. IsFiniteSet(described.partitions .. Cardinality(described.brokers) - 1)
    BY <2>1, <2>2, FS_Interval
  <2>5. QED BY <2>3, <2>4
<1>3. QED BY <1>2 DEF Current, Missing

\* A step of Reconcile(): the requests that change the cluster, and the others.
LEMMA AskStepInv ==
  /\ TopicInv
  /\ OpenAdmin \/ DescribeCluster \/ DescribeTopic \/ AlterConfig \/ DescribeAgain \/ ListMoves
       \/ RequestFails \/ ReconcileFailed
  => TopicInv' /\ assignment' = assignment
<1> SUFFICES ASSUME TopicInv,
                    \/ OpenAdmin \/ DescribeCluster \/ DescribeTopic \/ AlterConfig
                    \/ DescribeAgain \/ ListMoves \/ RequestFails \/ ReconcileFailed
             PROVE  TopicInv' /\ assignment' = assignment
  OBVIOUS
<1>1. assignment' = assignment /\ brokers' = brokers /\ expected' = expected
  BY DEF OpenAdmin, DescribeCluster, DescribeTopic, AlterConfig, DescribeAgain, ListMoves,
         RequestFails, ReconcileFailed, kafkaVars
<1>2. ClusterInv' /\ NumPartitions \in Nat /\ (NoTopic <=> Partitions = {})
  BY <1>1, NoTopicIsEmpty, FS_CardinalityType DEF TopicInv, ClusterInv, Partitions, NumPartitions
<1> USE <1>1, <1>2
    DEF TopicInv, ClusterInv, DescribedInv, StaticInv, Described, TopicSeen, Partitions,
        Proceed, Fail, Finish, NoFault, NotDescribed, Creates
<1>3. CASE OpenAdmin
  BY <1>3 DEF OpenAdmin
<1>4. CASE DescribeCluster
  BY <1>4 DEF DescribeCluster
<1>5. CASE DescribeTopic
  <2>1. tpc = "describeTopic" /\ described.brokers # {}
    BY <1>5 DEF DescribeTopic
  <2>2. CASE NoTopic
    BY <1>5, <2>1, <2>2 DEF DescribeTopic
  <2>3. CASE ~NoTopic
    <3> DEFINE seen == [brokers |-> described.brokers, partitions |-> NumPartitions,
                        leaders |-> leaders]
    <3>1. seen.brokers = described.brokers /\ seen.partitions = NumPartitions
          /\ seen = [brokers |-> seen.brokers, partitions |-> seen.partitions,
                     leaders |-> seen.leaders]
      OBVIOUS
    <3>2. \/ ~initialized /\ Proceed("alterConfig") /\ described' = seen
          \/ initialized /\ Decide(seen)
      BY <1>5, <2>3 DEF DescribeTopic
    <3> HIDE DEF seen
    <3>3. DescribedInv'
      BY <2>1, <3>1, <3>2 DEF Decide
    <3>4. \/ tpc' = "alterConfig" \/ tpc' = "done"
          \/ tpc' = "alter" /\ expected' = Dynamic
      BY <3>2 DEF Decide, Reassigns
    <3>5. Partitions' # {}
      BY <2>3
    <3>6. StaticInv'
      BY <3>4, <3>5
    <3>7. QED BY <3>3, <3>6
  <2>4. QED BY <2>2, <2>3
<1>6. CASE AlterConfig
  BY <1>6 DEF AlterConfig, Decide, Reassigns
<1>7. CASE DescribeAgain
  BY <1>7 DEF DescribeAgain
<1>8. CASE ListMoves
  BY <1>8 DEF ListMoves, Reassigned
<1>9. CASE RequestFails
  BY <1>9 DEF RequestFails
<1>10. CASE ReconcileFailed
  BY <1>10 DEF ReconcileFailed
<1>11. QED BY <1>3, <1>4, <1>5, <1>6, <1>7, <1>8, <1>9, <1>10

LEMMA ChangeStepInv == TopicInv /\ (CreateTopic \/ Alter \/ CreatePartitions) => TopicInv'
<1> SUFFICES ASSUME TopicInv, CreateTopic \/ Alter \/ CreatePartitions PROVE TopicInv'
  OBVIOUS
<1>1. ASSUME NEW replicas, IsFiniteSet(DOMAIN replicas),
             AddPartitions(replicas) \/ UNCHANGED kafkaVars
      PROVE  /\ ClusterInv' /\ Partitions \subseteq Partitions'
             /\ UNCHANGED kafkaVars \/ DOMAIN replicas \subseteq Partitions'
  <2>1. CASE UNCHANGED kafkaVars
    BY <2>1 DEF kafkaVars, TopicInv, ClusterInv, Partitions
  <2>2. QED BY <1>1, <2>1, RequestKeeps DEF TopicInv
<1>2. /\ expected' = expected
      /\ described' = described \/ described' = NotDescribed
      /\ initialized' = initialized \/ tpc' = "done"
  BY DEF CreateTopic, Alter, CreatePartitions, Request, AnswerLost, Reassigned, Proceed, Fail,
         Finish
<1> USE DEF DescribedInv, StaticInv, Described, TopicSeen, NotDescribed
<1>3. CASE CreateTopic
  <2> DEFINE replicas == RequestedAssignments(0, described.brokers)
  <2>1. IsFiniteSet(DOMAIN replicas) /\ DOMAIN replicas # {}
    BY <1>3, PartitionsRequested DEF CreateTopic, TopicInv
  <2>2. /\ \/ AddPartitions(replicas) /\ tpc' = "describeAgain" /\ described' = described
           \/ /\ AddPartitions(replicas) \/ UNCHANGED kafkaVars
              /\ tpc' = "failed" /\ described' = NotDescribed
        /\ initialized' = initialized
    BY <1>3 DEF CreateTopic, Request, AnswerLost, Proceed, Fail
  <2> HIDE DEF replicas
  <2>3. ClusterInv' /\ Partitions \subseteq Partitions'
    BY <1>1, <2>1, <2>2
  <2>4. tpc' = "describeAgain" => Partitions' # {}
    BY <2>1, <2>2, RequestKeeps DEF TopicInv
  <2>5. DescribedInv'
    <3>1. tpc = "create"
      BY <1>3 DEF CreateTopic
    <3>2. QED BY <2>2, <3>1 DEF TopicInv
  <2>6. StaticInv'
    <3>1. initialized' => Partitions' # {}
      BY <2>2, <2>3, Zenon DEF TopicInv
    <3>2. tpc' \in {"describeAgain", "failed"}
      BY <2>2
    <3>3. QED BY <2>4, <3>1, <3>2
  <2>7. QED BY <2>3, <2>5, <2>6 DEF TopicInv
<1>4. CASE Alter
  <2> DEFINE replicas == Current(described.brokers, described.partitions)
  <2>1. /\ \E accepted : MoveReplicas(replicas, accepted)
        /\ \/ tpc' = "list" /\ described' = described
           \/ tpc' = "failed" /\ described' = NotDescribed
        /\ initialized' = initialized /\ tpc = "alter"
    BY <1>4 DEF Alter, AnswerLost, Proceed, Fail
  <2> HIDE DEF replicas
  <2>2. ClusterInv' /\ Partitions' = Partitions
    BY <2>1, MoveKeeps DEF TopicInv
  <2>3. Partitions # {} /\ (expected = Dynamic \/ ~initialized)
    BY <2>1 DEF TopicInv
  <2>4. DescribedInv'
    BY <2>1 DEF TopicInv
  <2>5. StaticInv'
    <3>1. Partitions' # {} /\ (expected' = Dynamic \/ ~initialized')
      BY <1>2, <2>1, <2>2, <2>3, Zenon
    <3>2. tpc' \in {"list", "failed"}
      BY <2>1
    <3>3. QED BY <3>1, <3>2
  <2>6. QED BY <2>2, <2>4, <2>5 DEF TopicInv
<1>5. CASE CreatePartitions
  <2> DEFINE replicas == Missing(described.brokers, described.partitions)
  <2>1. IsFiniteSet(DOMAIN replicas)
    BY ReplicasOfRequest DEF TopicInv
  <2>2. /\ AddPartitions(replicas) \/ UNCHANGED kafkaVars
        /\ tpc' \in {"done", "failed"} /\ described' = NotDescribed
    BY <1>5 DEF CreatePartitions, Request, AnswerLost, Reassigned, Finish, Fail
  <2> HIDE DEF replicas
  <2>3. ClusterInv' /\ Partitions \subseteq Partitions'
    BY <1>1, <2>1, <2>2
  <2>4. Partitions # {}
    BY <1>5 DEF CreatePartitions, TopicInv
  <2>5. QED BY <2>2, <2>3, <2>4 DEF TopicInv
<1>6. QED BY <1>3, <1>4, <1>5

\* The manager changes no assignment but by Reconcile().
LEMMA OthersInv ==
  TopicInv /\ [Next]_vars =>
    \/ ReconcileStep
    \/ TopicInv' /\ assignment' = assignment
<1> SUFFICES ASSUME TopicInv, [Next]_vars, ~ReconcileStep
             PROVE  TopicInv' /\ assignment' = assignment
  OBVIOUS
<1> USE DEF TopicInv, ClusterInv, DescribedInv, StaticInv, Described, TopicSeen, Partitions, Creates
<1>1. CASE KafkaStep
  BY <1>1, KafkaNextInv
<1>2. CASE BreakConnection /\ UNCHANGED <<managerVars, clientVars>>
  BY <1>2 DEF BreakConnection, kafkaVars
<1>3. CASE /\ ~Dies
           /\ \/ OpenServices \/ StopCalled \/ LoopStops \/ CloseProducer \/ CloseConsumer
              \/ CheckLeaders \/ CloseConnection \/ CloseStatus
              \/ ProducerBackgroundRefresh \/ ConsumerBackgroundRefresh \/ UNCHANGED vars
  <2>1. UNCHANGED <<kafkaVars, topicVars>>
    BY <1>3 DEF OpenServices, StopCalled, LoopStops, CloseProducer, CloseConsumer, CheckLeaders,
                CloseConnection, Closes, CloseStatus, ProducerBackgroundRefresh, ConsumerBackgroundRefresh, vars
  <2>2. QED BY <2>1 DEF kafkaVars, topicVars
<1>4. CASE StartReconcile \/ Tick
  BY <1>4 DEF StartReconcile, Tick, ReconcileCalled, kafkaVars
<1>5. CASE StartReconciled \/ Reconciled
  BY <1>5 DEF StartReconciled, Reconciled, Returned, kafkaVars
<1>6. CASE Consume \/ RefreshProducer \/ RefreshConsumer
  BY <1>6 DEF Consume, RefreshProducer, RefreshConsumer, kafkaVars, topicVars
<1>7. CASE FirstSend \/ LoopSend
  BY <1>7 DEF FirstSend, LoopSend, ResultTaken, kafkaVars
<1>8. CASE Dies \/ Restart
  BY <1>8 DEF Dies, Restart, NotDescribed, kafkaVars
<1>9. CASE CloseTopic /\ ~Dies
  BY <1>9 DEF CloseTopic, kafkaVars
<1>10. QED BY <1>1, <1>2, <1>3, <1>4, <1>5, <1>6, <1>7, <1>8, <1>9
              DEF Next, ManagerStep, TopicStep, Closed, Crash, CloseAfterDisconnectionFails

LEMMA TopicInvStep == TopicInv /\ [Next]_vars => TopicInv'
  BY OthersInv, AskStepInv, ChangeStepInv DEF ReconcileStep

LEMMA TopicInvariance == Spec => []TopicInv
  BY TopicInvInit, TopicInvStep, PTL DEF Spec

\* With an expected cluster size, the topic is created with a partition for each
\* of the brokers that are expected, and no step of a canary that is initialized
\* changes its assignments.
THEOREM StaticTopicNotTouched == Spec => StaticTopicIsLeftAlone
<1>1. ASSUME TopicInv, [Next]_vars, initialized, expected # Dynamic
      PROVE  UNCHANGED assignment
  <2>1. ~CreateTopic /\ ~Alter /\ ~CreatePartitions
    BY <1>1 DEF CreateTopic, Alter, CreatePartitions, TopicInv, StaticInv
  <2>2. QED BY <1>1, <2>1, OthersInv, AskStepInv DEF ReconcileStep
<1>2. ASSUME TopicInv, TopicInv', [Next]_vars, NoTopic, ~NoTopic', expected # Dynamic
      PROVE  NumPartitions' = expected
  <2> USE <1>2
  <2>1. Partitions = {} /\ Partitions' # {}
    <3>1. (NoTopic <=> Partitions = {})
      BY NoTopicIsEmpty DEF TopicInv, ClusterInv
    <3>2. (NoTopic <=> Partitions = {})'
      BY NoTopicIsEmpty, PTL DEF TopicInv, ClusterInv
    <3>3. QED BY <3>1, <3>2
  <2>2. assignment' # assignment /\ ~Alter /\ ~CreatePartitions
    BY <2>1 DEF Alter, CreatePartitions, TopicInv, StaticInv, TopicSeen, Partitions
  <2>3. CreateTopic
    BY <2>2, OthersInv, AskStepInv DEF ReconcileStep
  <2> DEFINE replicas == RequestedAssignments(0, described.brokers)
  <2>4. AddPartitions(replicas)
    BY <2>2, <2>3 DEF CreateTopic, Request, kafkaVars
  <2>5. /\ described.brokers \in SUBSET BrokerIds /\ described.brokers # {}
        /\ Cardinality(described.brokers) = expected
    BY <2>3 DEF CreateTopic, TopicInv, DescribedInv, StaticInv, Described, Creates
  <2>6. /\ DOMAIN replicas = 0 .. MaxOf(0, expected) - 1 /\ expected \in Nat \ {0}
        /\ IsFiniteSet(DOMAIN replicas)
    BY <2>5, PartitionsRequested
  <2> HIDE DEF replicas
  <2>7. Partitions' = 0 .. expected - 1
    BY <2>1, <2>4, <2>6, RequestKeeps DEF TopicInv, MaxOf
  <2>8. Cardinality(0 .. expected - 1) = expected
    BY <2>6, FS_Interval
  <2>9. QED BY <2>7, <2>8 DEF NumPartitions
<1>3. TopicInv /\ TopicInv' /\ [Next]_vars
        => [expected # Dynamic => /\ NoTopic /\ ~NoTopic' => NumPartitions' = expected
                                  /\ initialized => UNCHANGED assignment]_vars
  BY <1>1, <1>2
<1>4. QED BY <1>3, TopicInvariance, PTL DEF Spec, StaticTopicIsLeftAlone

-----------------------------------------------------------------------------
\* What a reconcile has seen of the topic, and what it reports of it: mpc is one
\* of these when a Send is on its way.
Covered == {"consume", "firstSend", "refreshProducer", "checkLeaders", "refreshConsumer", "send"}

Numbered == NumPartitions \in Nat /\ Partitions = 0 .. NumPartitions - 1

SeenInv ==
  /\ tpc \in {"alterConfig", "alter", "list", "grow"} => described.partitions = NumPartitions
  /\ tpc = "grow" => described.partitions < Cardinality(described.brokers)
  /\ tpc = "create" => NumPartitions = 0
  /\ tpc = "describeAgain" => NumPartitions = Cardinality(described.brokers)

ReportInv ==
  /\ tpc \notin {"failed", "done"} => error = "none"
  /\ tpc = "failed" => error # "none"
  /\ tpc = "done" /\ error = "none" => result.partitions = NumPartitions
  /\ mpc \in Covered => result.partitions = NumPartitions

CoverInv == Numbered /\ SeenInv /\ ReportInv

LEMMA CountOfNumbers ==
  ASSUME NEW n \in Nat PROVE Cardinality(0 .. n - 1) = n
  BY FS_Interval

LEMMA MaxIsNat ==
  ASSUME NEW x \in Nat, NEW y \in Nat
  PROVE  MaxOf(x, y) \in Nat /\ MaxOf(x, y) >= x /\ MaxOf(x, y) >= y /\ MaxOf(0, y) = y
  BY DEF MaxOf

LEMMA CoverInit == Init => CoverInv
<1> SUFFICES ASSUME Init PROVE CoverInv
  OBVIOUS
<1>1. \E n \in Nat : Partitions = 0 .. n - 1
  <2>1. CASE assignment = << >>
    <3>1. DOMAIN assignment = 0 .. 0 - 1
      BY <2>1
    <3>2. QED BY <3>1 DEF Partitions
  <2>2. ASSUME NEW B \in (SUBSET BrokerIds) \ {{}}, assignment = RequestedAssignments(0, B)
        PROVE  \E n \in Nat : Partitions = 0 .. n - 1
    <3>1. /\ Partitions = 0 .. MaxOf(0, Cardinality(B)) - 1
          /\ Cardinality(B) \in Nat
      BY <2>2, PartitionsRequested DEF Partitions
    <3>2. QED BY <3>1, MaxIsNat
  <2>3. QED BY <2>1, <2>2 DEF Init, KafkaInit
<1>2. Numbered
  BY <1>1, CountOfNumbers DEF Numbered, NumPartitions
<1>3. QED BY <1>2 DEF Init, TopicInit, CoverInv, SeenInv, ReportInv, Covered

\* The requests that change nothing in the cluster.
LEMMA AskCovers ==
  ASSUME TopicInv, CoverInv, mpc' = mpc, mpc \notin Covered,
         \/ OpenAdmin \/ DescribeCluster \/ DescribeTopic \/ AlterConfig
         \/ DescribeAgain \/ ListMoves \/ RequestFails \/ ReconcileFailed
  PROVE  CoverInv'
<1>1. assignment' = assignment /\ brokers' = brokers /\ expected' = expected
  BY DEF OpenAdmin, DescribeCluster, DescribeTopic, AlterConfig, DescribeAgain, ListMoves,
         RequestFails, ReconcileFailed, kafkaVars
<1>2. /\ Numbered' /\ NumPartitions' = NumPartitions
      /\ NumPartitions \in Nat /\ (NoTopic <=> NumPartitions = 0)
  BY <1>1 DEF CoverInv, Numbered, NumPartitions, Partitions, NoTopic
<1>3. Cardinality(described.brokers) \in Nat /\ described.partitions \in Nat
  BY BrokersAssumption, FS_Subset, FS_CardinalityType DEF TopicInv, DescribedInv
<1>4. \A err : Fail(err) /\ err # "none" => SeenInv' /\ ReportInv'
  BY <1>2 DEF Fail, SeenInv, ReportInv
<1> USE <1>2 DEF CoverInv, SeenInv, ReportInv, Proceed, NoFault
<1>5. CASE OpenAdmin
  BY <1>4, <1>5 DEF OpenAdmin
<1>6. CASE DescribeCluster
  BY <1>6 DEF DescribeCluster
<1>7. CASE DescribeTopic
  <2> DEFINE seen == [brokers |-> described.brokers, partitions |-> NumPartitions,
                      leaders |-> leaders]
  <2>1. \/ NoTopic /\ Proceed("create") /\ NoFault
        \/ Fail("size")
        \/ Proceed("alterConfig") /\ NoFault /\ described' = seen
        \/ Decide(seen) /\ NoFault
    BY <1>7 DEF DescribeTopic
  <2>2. seen.partitions = NumPartitions /\ tpc = "describeTopic"
    BY <1>7 DEF DescribeTopic
  <2> HIDE DEF seen
  <2>3. CASE NoTopic /\ Proceed("create") /\ NoFault
    BY <2>2, <2>3
  <2>4. CASE Fail("size")
    BY <1>4, <2>4
  <2>5. CASE Proceed("alterConfig") /\ NoFault /\ described' = seen
    BY <2>2, <2>5
  <2>6. CASE Decide(seen) /\ NoFault
    BY <2>2, <2>6 DEF Decide, Finish
  <2>7. QED BY <2>1, <2>3, <2>4, <2>5, <2>6
<1>8. CASE AlterConfig
  BY <1>8 DEF AlterConfig, Decide, Finish
<1>9. CASE DescribeAgain
  BY <1>9 DEF DescribeAgain, Finish
<1>10. CASE ListMoves
  <2>1. tpc = "list" /\ error' = error /\ error = "none" /\ described.partitions = NumPartitions
    BY <1>10 DEF ListMoves, ListLoopEnds
  <2>2. CASE described.partitions < Cardinality(described.brokers)
    BY <1>10, <2>1, <2>2 DEF ListMoves
  <2>3. CASE ~(described.partitions < Cardinality(described.brokers))
    <3>1. tpc' = "done" /\ result'.partitions = PartitionsAfter(described)
      BY <1>10, <2>3 DEF ListMoves, Reassigned, Finish
    <3>2. PartitionsAfter(described) = described.partitions
      BY <1>3, <2>3 DEF PartitionsAfter, MaxOf
    <3>3. QED BY <2>1, <3>1, <3>2
  <2>4. QED BY <2>2, <2>3
<1>11. CASE RequestFails
  <2>1. Fail("disconnected") \/ Fail("other")
    BY <1>11 DEF RequestFails
  <2>2. QED BY <1>4, <2>1
<1>12. CASE ReconcileFailed
  BY <1>12 DEF ReconcileFailed
<1>13. QED BY <1>5, <1>6, <1>7, <1>8, <1>9, <1>10, <1>11, <1>12

\* Those that change the topic.
LEMMA ChangeCovers ==
  ASSUME TopicInv, CoverInv, mpc' = mpc, mpc \notin Covered,
         CreateTopic \/ Alter \/ CreatePartitions
  PROVE  CoverInv'
<1>0. Cardinality(described.brokers) \in Nat /\ described.partitions \in Nat
  BY BrokersAssumption, FS_Subset, FS_CardinalityType DEF TopicInv, DescribedInv
<1>1. ASSUME NEW replicas, IsFiniteSet(DOMAIN replicas), NEW n \in Nat,
             Partitions \cup DOMAIN replicas = 0 .. n - 1,
             AddPartitions(replicas)
      PROVE  Numbered' /\ NumPartitions' = n
  <2>1. Partitions' = 0 .. n - 1
    BY <1>1, RequestKeeps DEF TopicInv
  <2>2. QED BY <2>1, CountOfNumbers DEF Numbered, NumPartitions
<1>2. UNCHANGED kafkaVars => Numbered'
  BY DEF kafkaVars, CoverInv, Numbered, NumPartitions, Partitions
<1>3. \A err : Fail(err) /\ err # "none" => SeenInv' /\ ReportInv'
  BY DEF Fail, SeenInv, ReportInv
<1>4. CASE CreateTopic
  <2> DEFINE replicas == RequestedAssignments(0, described.brokers)
             n == Cardinality(described.brokers)
  <2>1. /\ tpc = "create" /\ error = "none" /\ NumPartitions = 0
        /\ \/ AddPartitions(replicas) /\ Proceed("describeAgain") /\ UNCHANGED <<described, error>>
           \/ /\ AddPartitions(replicas) \/ UNCHANGED kafkaVars
              /\ Fail("disconnected") \/ Fail("other")
    BY <1>4 DEF CreateTopic, Request, AnswerLost, NoFault, CoverInv, SeenInv, ReportInv
  <2>2. described.brokers \in SUBSET BrokerIds /\ described.brokers # {}
    BY <2>1 DEF TopicInv, DescribedInv, Described
  <2>3. IsFiniteSet(DOMAIN replicas) /\ DOMAIN replicas = 0 .. n - 1
    BY <1>0, <2>2, PartitionsRequested, MaxIsNat
  <2>4. Partitions \cup DOMAIN replicas = 0 .. n - 1
    BY <2>1, <2>3 DEF CoverInv, Numbered
  <2> HIDE DEF replicas, n
  <2>5. n \in Nat /\ n = Cardinality(described.brokers)
    BY <1>0 DEF n
  <2>6. AddPartitions(replicas) => Numbered' /\ NumPartitions' = n
    BY <1>1, <2>3, <2>4, <2>5
  <2>7. CASE AddPartitions(replicas) /\ Proceed("describeAgain") /\ UNCHANGED <<described, error>>
    BY <2>1, <2>5, <2>6, <2>7 DEF Proceed, CoverInv, SeenInv, ReportInv
  <2>8. CASE Fail("disconnected") \/ Fail("other")
    BY <1>2, <1>3, <2>1, <2>6, <2>8 DEF CoverInv
  <2>9. QED BY <2>1, <2>7, <2>8
<1>5. CASE Alter
  <2> DEFINE replicas == Current(described.brokers, described.partitions)
  <2>1. /\ tpc = "alter" /\ error = "none" /\ described.partitions = NumPartitions
        /\ \E accepted : MoveReplicas(replicas, accepted)
        /\ \/ Proceed("list") /\ UNCHANGED <<described, error>>
           \/ Fail("disconnected") \/ Fail("other")
    BY <1>5 DEF Alter, AnswerLost, NoFault, CoverInv, SeenInv, ReportInv
  <2> HIDE DEF replicas
  <2>2. Numbered' /\ NumPartitions' = NumPartitions
    BY <2>1, MoveKeeps DEF TopicInv, CoverInv, Numbered, NumPartitions
  <2>3. CASE Proceed("list") /\ UNCHANGED <<described, error>>
    BY <2>1, <2>2, <2>3 DEF Proceed, CoverInv, SeenInv, ReportInv
  <2>4. CASE Fail("disconnected") \/ Fail("other")
    BY <1>3, <2>2, <2>4 DEF CoverInv
  <2>5. QED BY <2>1, <2>3, <2>4
<1>6. CASE CreatePartitions
  <2> DEFINE replicas == Missing(described.brokers, described.partitions)
             n == Cardinality(described.brokers)
  <2>1. /\ tpc = "grow" /\ error = "none" /\ described.partitions = NumPartitions
        /\ described.partitions < n
        /\ \/ AddPartitions(replicas) /\ Reassigned /\ UNCHANGED error
           \/ /\ AddPartitions(replicas) \/ UNCHANGED kafkaVars
              /\ Fail("disconnected") \/ Fail("other")
    BY <1>6 DEF CreatePartitions, Request, AnswerLost, NoFault, CoverInv, SeenInv, ReportInv
  <2>2. /\ IsFiniteSet(DOMAIN replicas)
        /\ DOMAIN replicas = described.partitions .. n - 1
    BY ReplicasOfRequest DEF TopicInv, Missing
  <2>3. PartitionsAfter(described) = n
    BY <1>0, <2>1 DEF PartitionsAfter, MaxOf
  <2> HIDE DEF replicas, n
  <2>4. n \in Nat
    BY <1>0 DEF n
  <2>5. Partitions \cup DOMAIN replicas = 0 .. n - 1
    BY <1>0, <2>1, <2>2, <2>4 DEF CoverInv, Numbered
  <2>6. AddPartitions(replicas) => Numbered' /\ NumPartitions' = n
    BY <1>1, <2>2, <2>4, <2>5
  <2>7. CASE AddPartitions(replicas) /\ Reassigned /\ UNCHANGED error
    <3>1. tpc' = "done" /\ result'.partitions = n
      BY <2>3, <2>7 DEF Reassigned, Finish
    <3>2. QED BY <2>1, <2>6, <2>7, <3>1 DEF CoverInv, SeenInv, ReportInv
  <2>8. CASE Fail("disconnected") \/ Fail("other")
    BY <1>2, <1>3, <2>1, <2>6, <2>8 DEF CoverInv
  <2>9. QED BY <2>1, <2>7, <2>8
<1>7. QED BY <1>4, <1>5, <1>6

\* All the other steps.
LEMMA CoverStep == ControlInv /\ TopicInv /\ CoverInv /\ [Next]_vars => CoverInv'
<1> SUFFICES ASSUME ControlInv, TopicInv, CoverInv, [Next]_vars PROVE CoverInv'
  OBVIOUS
<1>0. /\ mpc \in Covered => tpc = "idle"
      /\ tpc # "idle" => mpc \in {"starting", "reconciling"}
  BY DEF ControlInv, Covered
<1>1. ASSUME UNCHANGED assignment
      PROVE  Numbered' /\ NumPartitions' = NumPartitions
  BY <1>1 DEF CoverInv, Numbered, NumPartitions, Partitions
<1> USE DEF CoverInv, SeenInv, ReportInv, Covered
<1>2. CASE ReconcileStep /\ UNCHANGED <<managerVars, clientVars>>
  <2>1. mpc' = mpc /\ mpc \notin Covered
    BY <1>0, <1>2, OnlyInReconcile DEF managerVars
  <2>2. QED BY <1>2, <2>1, AskCovers, ChangeCovers DEF ReconcileStep
<1>3. CASE BreakConnection /\ UNCHANGED <<managerVars, clientVars>>
  BY <1>1, <1>3 DEF BreakConnection, kafkaVars, managerVars
<1>4. CASE KafkaStep
  BY <1>1, <1>4, KafkaNextInv DEF KafkaStep, topicVars, managerVars
<1>5. CASE /\ ~Dies
           /\ \/ OpenServices \/ StopCalled \/ LoopStops \/ CloseProducer \/ CloseConsumer
              \/ CloseConnection \/ CloseStatus
              \/ ProducerBackgroundRefresh \/ ConsumerBackgroundRefresh \/ UNCHANGED vars
  <2>1. /\ UNCHANGED <<kafkaVars, topicVars>>
        /\ mpc' = mpc \/ mpc' \notin Covered
    BY <1>5 DEF OpenServices, StopCalled, LoopStops, CloseProducer, CloseConsumer, Closes,
                CloseConnection, CloseStatus, ProducerBackgroundRefresh, ConsumerBackgroundRefresh, vars, managerVars
  <2>2. QED BY <1>1, <2>1 DEF kafkaVars, topicVars
<1>6. CASE StartReconcile \/ Tick
  <2>1. /\ UNCHANGED <<kafkaVars, result, error, described>> /\ tpc = "idle"
        /\ mpc' \notin Covered /\ tpc' \in {"openAdmin", "describeCluster"}
    BY <1>0, <1>6 DEF StartReconcile, Tick, ReconcileCalled
  <2>2. QED BY <1>1, <2>1 DEF kafkaVars
<1>7. CASE StartReconciled \/ Reconciled
  <2>1. /\ tpc = "done" /\ tpc' = "idle" /\ error' = "none"
        /\ UNCHANGED <<kafkaVars, result>>
        /\ mpc' \in Covered => error = "none"
    BY <1>7 DEF StartReconciled, Reconciled, Returned
  <2>2. QED BY <1>1, <2>1 DEF kafkaVars
<1>8. CASE Consume \/ RefreshProducer \/ CheckLeaders \/ RefreshConsumer
  <2>1. /\ mpc \in Covered /\ tpc = "idle" /\ UNCHANGED <<kafkaVars, tpc, result, error, described>>
    BY <1>0, <1>8 DEF Consume, RefreshProducer, CheckLeaders, RefreshConsumer, topicVars
  <2>2. QED BY <1>1, <2>1 DEF kafkaVars
<1>9. CASE FirstSend \/ LoopSend
  <2>1. /\ tpc = "idle" /\ mpc' = "idle" /\ UNCHANGED <<kafkaVars, tpc, error>>
    BY <1>0, <1>9 DEF FirstSend, LoopSend, ResultTaken
  <2>2. QED BY <1>1, <2>1 DEF kafkaVars
<1>10. CASE Dies \/ Restart
  <2>1. /\ tpc' = "idle" /\ error' = "none" /\ mpc' \in {"fatal", "open"} /\ UNCHANGED kafkaVars
    BY <1>0, <1>10 DEF Dies, Restart
  <2>2. QED BY <1>1, <2>1 DEF kafkaVars
<1>11. CASE CloseTopic /\ ~Dies
  <2>1. UNCHANGED <<kafkaVars, tpc, result, error, described, mpc>>
    BY <1>11 DEF CloseTopic
  <2>2. QED BY <1>1, <2>1 DEF kafkaVars
<1>12. QED BY <1>2, <1>3, <1>4, <1>5, <1>6, <1>7, <1>8, <1>9, <1>10, <1>11
              DEF Next, ManagerStep, TopicStep, Closed, Crash, CloseAfterDisconnectionFails

LEMMA Covers == Spec => []CoverInv
  BY CoverInit, CoverStep, Control, TopicInvariance, PTL DEF Spec

\* Whichever way Reconcile() took, and whatever failed in it and was made up for
\* later, the partitions that Start() and the loop send to are all there are.
THEOREM EverySendCovers == Spec => []SendCoversTopic
<1>1. CoverInv => SendCoversTopic
  BY DEF CoverInv, ReportInv, Covered, SendCoversTopic
<1>2. QED BY <1>1, Covers, PTL

-----------------------------------------------------------------------------
\* Why the producer may not know a partition.  A canary that has reconciled once
\* is initialized, and once it has sent without a miss its metadata is that of the
\* topic or about to be refreshed.
KnownInv ==
  /\ faults \in Nat /\ producerKnown \in Nat
  /\ mpc \in {"consume", "firstSend"} \cup Working \cup {"idle", "exited"} => initialized
  /\ tpc = "done" /\ error = "none" => initialized
  /\ faults = 0 /\ ~missedFirst /\ mpc \in Working \cup {"idle"} =>
       \/ producerKnown >= NumPartitions
       \/ tpc = "done" /\ error = "none" /\ result.refresh
       \/ mpc = "refreshProducer"

\* The process dies, of a failure or of one there was before.
Death == Dies /\ (Fault \/ UNCHANGED faults)

MissInv == KnownInv /\ MissHasCause

LEMMA MissInit == Init => MissInv
  BY CoverInit DEF Init, TopicInit, CoverInv, Numbered, MissInv, KnownInv, MissHasCause, Working

\* No request of Reconcile() goes uncounted when it fails, and those that add
\* partitions to a topic that is there make it ask for a refresh.
LEMMA ReconcileKnows ==
  ASSUME TopicInv, CoverInv, ReconcileStep, faults \in Nat
  PROVE  /\ tpc # "done" /\ faults' \in {faults, faults + 1}
         /\ initialized => initialized'
         /\ tpc' = "done" /\ error' = "none" => initialized'
         /\ initialized /\ faults' = faults =>
              \/ NumPartitions' = NumPartitions
              \/ tpc' = "done" /\ error' = "none" /\ result'.refresh
<1> USE DEF Proceed, Fail, NoFault, Fault
<1>1. UNCHANGED assignment => NumPartitions' = NumPartitions
  BY DEF NumPartitions, Partitions
<1>2. CASE OpenAdmin \/ DescribeCluster \/ AlterConfig \/ DescribeAgain \/ RequestFails
  BY <1>1, <1>2 DEF OpenAdmin, DescribeCluster, AlterConfig, DescribeAgain, RequestFails,
                    Decide, Finish, kafkaVars
<1>3. CASE DescribeTopic
  BY <1>1, <1>3 DEF DescribeTopic, Decide, Finish, kafkaVars
<1>4. CASE ListMoves
  BY <1>1, <1>4 DEF ListMoves, ListLoopEnds, Reassigned, Finish, kafkaVars
<1>5. CASE ReconcileFailed
  BY <1>1, <1>5 DEF ReconcileFailed, kafkaVars, CoverInv, ReportInv
<1>6. CASE CreateTopic
  <2>1. ~initialized
    BY <1>6 DEF CreateTopic, TopicInv, StaticInv
  <2>2. /\ tpc = "create" /\ tpc' \in {"describeAgain", "failed"}
        /\ faults' \in {faults, faults + 1}
    BY <1>6 DEF CreateTopic, Request, AnswerLost
  <2>3. QED BY <2>1, <2>2
<1>7. CASE Alter
  <2>1. tpc = "alter" /\ tpc' \in {"list", "failed"} /\ faults' \in {faults, faults + 1}
        /\ initialized' = initialized
    BY <1>7 DEF Alter, AnswerLost
  <2>2. NumPartitions' = NumPartitions
    BY <1>7, MoveKeeps DEF Alter, TopicInv, NumPartitions
  <2>3. QED BY <2>1, <2>2
<1>8. CASE CreatePartitions
  <2> DEFINE replicas == Missing(described.brokers, described.partitions)
  <2>1. /\ tpc = "grow" /\ error = "none"
        /\ \/ Reassigned /\ error' = error /\ faults' = faults
           \/ (Fail("disconnected") \/ Fail("other")) /\ faults' = faults + 1
           \/ Fail("other") /\ faults' = faults /\ UNCHANGED kafkaVars
    BY <1>8 DEF CreatePartitions, Request, AnswerLost, CoverInv, ReportInv
  <2>2. Cardinality(described.brokers) \in Nat /\ described.partitions \in Nat
        /\ described.partitions < Cardinality(described.brokers)
    BY <2>1, BrokersAssumption, FS_Subset, FS_CardinalityType
       DEF TopicInv, DescribedInv, CoverInv, SeenInv
  <2>3. RefreshNeeded(described.brokers, described.partitions) = TRUE
    BY <2>2 DEF RefreshNeeded
  <2>4. CASE Reassigned /\ error' = error /\ faults' = faults
    <3>1. tpc' = "done" /\ initialized' = TRUE /\ result'.refresh = TRUE
      BY <2>3, <2>4 DEF Reassigned, Finish
    <3>2. QED BY <2>1, <2>4, <3>1
  <2>5. CASE Fail("disconnected") \/ Fail("other")
    BY <1>1, <2>1, <2>5 DEF kafkaVars
  <2>6. QED BY <2>1, <2>4, <2>5
<1>9. QED BY <1>2, <1>3, <1>4, <1>5, <1>6, <1>7, <1>8 DEF ReconcileStep

LEMMA MissStep == ControlInv /\ TopicInv /\ CoverInv /\ MissInv /\ [Next]_vars => MissInv'
<1> SUFFICES ASSUME ControlInv, TopicInv, CoverInv, MissInv, [Next]_vars PROVE MissInv'
  OBVIOUS
<1>0. /\ mpc \notin {"starting", "reconciling"} => tpc = "idle"
      /\ NumPartitions \in Nat
      /\ mpc \in Covered => result.partitions = NumPartitions
  BY DEF ControlInv, CoverInv, Numbered, ReportInv
<1>1. UNCHANGED assignment => NumPartitions' = NumPartitions
  BY DEF NumPartitions, Partitions
<1>2. CASE ReconcileStep /\ UNCHANGED <<managerVars, clientVars>>
  <2>1. /\ mpc' = mpc /\ mpc \in {"starting", "reconciling"}
        /\ UNCHANGED <<producerKnown, missed, missedFirst>>
    BY <1>0, <1>2, OnlyInReconcile DEF managerVars, clientVars
  <2>2. /\ tpc # "done" /\ faults' \in {faults, faults + 1}
        /\ initialized => initialized'
        /\ tpc' = "done" /\ error' = "none" => initialized'
        /\ initialized /\ faults' = faults =>
             \/ NumPartitions' = NumPartitions
             \/ tpc' = "done" /\ error' = "none" /\ result'.refresh
    BY <1>2, ReconcileKnows DEF MissInv, KnownInv
  <2>3. faults' = 0 => faults = 0 /\ faults' = faults
    BY <2>2 DEF MissInv, KnownInv
  <2>4. KnownInv'
    BY <2>1, <2>2, <2>3 DEF MissInv, KnownInv, Working
  <2>5. MissHasCause'
    BY <2>1, <2>2 DEF MissInv, KnownInv, MissHasCause
  <2>6. QED BY <2>4, <2>5 DEF MissInv
<1>3. CASE BreakConnection /\ UNCHANGED <<managerVars, clientVars>>
  BY <1>1, <1>3 DEF BreakConnection, Fault, kafkaVars, managerVars, clientVars,
                    MissInv, KnownInv, MissHasCause, Working
<1>4. CASE KafkaStep
  BY <1>1, <1>4, KafkaNextInv DEF KafkaStep, topicVars, managerVars, clientVars,
                             MissInv, KnownInv, MissHasCause, Working
<1>5. CASE /\ ~Death
           /\ \/ OpenServices \/ StopCalled \/ LoopStops \/ CloseProducer \/ CloseConsumer
              \/ CloseConnection \/ CloseStatus \/ CheckLeaders \/ ConsumerBackgroundRefresh
              \/ UNCHANGED vars
  <2>1. /\ UNCHANGED <<kafkaVars, topicVars, producerKnown, missed, missedFirst>>
        /\ \/ mpc' = mpc
           \/ mpc = "checkLeaders" /\ mpc' \in {"refreshConsumer", "send"}
           \/ mpc = "open" /\ mpc' = "start"
           \/ mpc = "idle" /\ mpc' = "exited"
    BY <1>5 DEF Death, OpenServices, StopCalled, LoopStops, CloseProducer, CloseConsumer, Closes,
                CloseConnection, CloseStatus, CheckLeaders, ConsumerBackgroundRefresh, vars, managerVars, clientVars
  <2>2. QED BY <1>1, <2>1 DEF kafkaVars, topicVars, MissInv, KnownInv, MissHasCause, Working
<1>6. CASE StartReconcile \/ Tick
  <2>1. /\ UNCHANGED <<kafkaVars, initialized, faults, producerKnown, missed, missedFirst>>
        /\ tpc = "idle" /\ tpc' \in {"openAdmin", "describeCluster"}
        /\ \/ mpc = "start" /\ mpc' = "starting"
           \/ mpc = "idle" /\ mpc' = "reconciling"
    BY <1>0, <1>6 DEF StartReconcile, Tick, ReconcileCalled, clientVars
  <2>2. QED BY <1>1, <2>1 DEF kafkaVars, MissInv, KnownInv, MissHasCause, Working
<1>7. CASE StartReconciled \/ Reconciled
  <2>1. /\ UNCHANGED <<kafkaVars, initialized, faults, producerKnown, missed, missedFirst>>
        /\ tpc = "done" /\ tpc' = "idle"
        /\ \/ mpc = "starting" /\ mpc' = "consume" /\ error = "none"
           \/ mpc = "starting" /\ mpc' \in {"start", "fatal"}
           \/ mpc = "reconciling" /\ mpc' = "idle" /\ error # "none"
           \/ mpc = "reconciling" /\ mpc' = "refreshProducer" /\ error = "none" /\ result.refresh
           \/ mpc = "reconciling" /\ mpc' = "checkLeaders" /\ error = "none" /\ ~result.refresh
    BY <1>7 DEF StartReconciled, Reconciled, Returned, clientVars
  <2>2. QED BY <1>1, <2>1 DEF kafkaVars, MissInv, KnownInv, MissHasCause, Working
<1>8. CASE Consume \/ RefreshConsumer
  <2>1. /\ UNCHANGED <<kafkaVars, tpc, error, initialized, producerKnown, missed, missedFirst>>
        /\ faults' \in {faults, faults + 1} /\ tpc = "idle"
        /\ \/ mpc = "consume" /\ mpc' \in {"firstSend", "fatal"}
           \/ mpc = "refreshConsumer" /\ mpc' = "send"
    BY <1>0, <1>8 DEF Consume, RefreshConsumer, Fault, topicVars
  <2>2. QED BY <1>1, <2>1 DEF kafkaVars, MissInv, KnownInv, MissHasCause, Working
<1>9. CASE RefreshProducer \/ ProducerBackgroundRefresh
  <2>1. /\ UNCHANGED <<kafkaVars, tpc, error, initialized, result, missed, missedFirst>>
        /\ \/ producerKnown' = NumPartitions /\ faults' = faults
           \/ UNCHANGED producerKnown /\ faults' = faults + 1
        /\ mpc' \in {mpc, "checkLeaders"}
        /\ mpc' # mpc => mpc = "refreshProducer"
    <3>1. CASE RefreshProducer
      BY <3>1 DEF RefreshProducer, Fault, topicVars
    <3>2. CASE ProducerBackgroundRefresh
      BY <3>2 DEF ProducerBackgroundRefresh, topicVars, managerVars
    <3>3. QED BY <1>9, <3>1, <3>2
  <2>2. /\ NumPartitions' = NumPartitions /\ NumPartitions \in Nat
        /\ faults \in Nat /\ faults' \in Nat /\ (faults' = 0 => faults = 0)
    BY <1>0, <1>1, <2>1 DEF kafkaVars, MissInv, KnownInv
  <2>3. KnownInv'
    <3>1. mpc' \in {"consume", "firstSend"} \cup Working \cup {"idle", "exited"} => initialized'
      BY <2>1 DEF MissInv, KnownInv, Working
    <3>2. tpc' = "done" /\ error' = "none" => initialized'
      BY <2>1 DEF MissInv, KnownInv
    <3>3. ASSUME faults' = 0, ~missedFirst', mpc' \in Working \cup {"idle"}
          PROVE  \/ producerKnown' >= NumPartitions'
                 \/ tpc' = "done" /\ error' = "none" /\ result'.refresh
                 \/ mpc' = "refreshProducer"
      <4>1. CASE producerKnown' = NumPartitions
        BY <2>2, <4>1
      <4>2. CASE UNCHANGED producerKnown /\ faults' = faults + 1
        BY <2>2, <3>3, <4>2
      <4>3. QED BY <2>1, <4>1, <4>2
    <3>4. producerKnown' \in Nat
      BY <2>1, <2>2 DEF MissInv, KnownInv
    <3>5. QED BY <2>2, <3>1, <3>2, <3>3, <3>4 DEF KnownInv
  <2>4. (faults' > 0 \/ faults' = faults) /\ (faults > 0 => faults' > 0)
    BY <2>1, <2>2
  <2>5. MissHasCause'
    BY <2>1, <2>4, Zenon DEF MissInv, MissHasCause
  <2>6. QED BY <2>3, <2>5 DEF MissInv
<1>10. CASE FirstSend \/ LoopSend
  <2>1. /\ UNCHANGED <<kafkaVars, initialized, faults, tpc>>
        /\ mpc \in {"firstSend", "send"} /\ mpc' = "idle"
        /\ producerKnown' = IF producerKnown = 0 THEN NumPartitions ELSE producerKnown
    BY <1>10 DEF FirstSend, LoopSend, Send, ResultTaken
  <2>2. result.partitions = NumPartitions /\ tpc' = "idle" /\ initialized'
    BY <1>0, <2>1 DEF Covered, MissInv, KnownInv, Working
  <2>3. missed' <=> result.partitions > producerKnown'
    BY <1>10, Zenon DEF FirstSend, LoopSend, Send
  <2>4. \/ missedFirst' <=> missed'
        \/ mpc = "send" /\ (missedFirst' <=> missedFirst /\ missed')
    BY <1>10, Zenon DEF FirstSend, LoopSend
  <2>5. producerKnown' \in Nat /\ (~missed' => producerKnown' >= NumPartitions)
    BY <1>0, <2>1, <2>2, <2>3 DEF MissInv, KnownInv
  <2>6. mpc = "send" /\ faults = 0 /\ ~missedFirst => ~missed'
    BY <1>0, <2>1, <2>2, <2>3 DEF MissInv, KnownInv, Working
  <2>7. faults' = 0 /\ ~missedFirst' => ~missed'
    BY <2>1, <2>4, <2>6
  <2>8. KnownInv'
    BY <1>1, <2>1, <2>2, <2>5, <2>7 DEF kafkaVars, MissInv, KnownInv, Working
  <2>9. MissHasCause'
    BY <2>1, <2>7 DEF MissInv, KnownInv, MissHasCause
  <2>10. QED BY <2>8, <2>9 DEF MissInv
<1>11. CASE Death
  <2>1. /\ mpc' = "fatal" /\ tpc' = "idle" /\ faults' \in {faults, faults + 1}
        /\ UNCHANGED <<producerKnown, missed, missedFirst>>
    BY <1>11 DEF Death, Dies, Fault, clientVars
  <2>2. /\ faults' \in Nat /\ producerKnown' \in Nat
        /\ faults > 0 => faults' > 0
    BY <2>1 DEF MissInv, KnownInv
  <2>3. KnownInv'
    BY <2>1, <2>2 DEF KnownInv, Working
  <2>4. MissHasCause'
    BY <2>1, <2>2, Zenon DEF MissInv, MissHasCause
  <2>5. QED BY <2>3, <2>4 DEF MissInv
<1>12. CASE Restart
  <2>1. /\ mpc = "fatal" /\ mpc' = "open" /\ tpc' = tpc /\ faults' = faults
        /\ producerKnown' = NumPartitions /\ missed' = FALSE
    BY <1>12 DEF Restart, FreshClients
  <2>2. tpc' = "idle" /\ producerKnown' \in Nat
    BY <1>0, <2>1
  <2>3. QED BY <2>1, <2>2 DEF MissInv, KnownInv, MissHasCause, Working
<1>13. CASE CloseTopic /\ ~Death
  <2>1. UNCHANGED <<kafkaVars, tpc, error, initialized, result, faults, mpc, producerKnown,
                    missed, missedFirst>>
    BY <1>13 DEF Death, CloseTopic, clientVars
  <2>2. QED BY <1>1, <2>1 DEF kafkaVars, MissInv, KnownInv, MissHasCause, Working
<1>14. QED BY <1>2, <1>3, <1>4, <1>5, <1>6, <1>7, <1>8, <1>9, <1>10, <1>11, <1>12, <1>13
              DEF Next, ManagerStep, TopicStep, Closed, Crash, CloseAfterDisconnectionFails, Death

\* A message is sent to a partition that the producer does not know only after a
\* failure, or since the Send of Start(): the refresh that Reconcile() asks for
\* is asked for whenever it is needed.
THEOREM EveryMissHasCause == Spec => []MissHasCause
<1>1. Spec => []MissInv
  BY MissInit, MissStep, Control, TopicInvariance, Covers, PTL DEF Spec
<1>2. MissInv => MissHasCause
  BY DEF MissInv
<1>3. QED BY <1>1, <1>2, PTL
-----------------------------------------------------------------------------
(* The types.  A leader is a broker because replicas are tuples of one to   *)
(* three brokers, and a request names only brokers that run.                *)

MostPartitions == Cardinality(BrokerIds)

ClusterTypes ==
  /\ Partitions \subseteq 0 .. MostPartitions - 1
  /\ \A p \in Partitions : DOMAIN assignment[p] \subseteq 1 .. 3
  /\ leaders \in [Partitions -> BrokerIds \cup {-1}]
  /\ moving \subseteq Partitions
  /\ scalings \in 0 .. MaxScalings

CanaryTypes ==
  /\ expected \in ExpectedClusterSizes /\ admin \in {"nil", "open", "broken"}
  /\ initialized \in BOOLEAN
  /\ tpc \in {"idle", "openAdmin", "describeCluster", "failed", "done"} \cup Described
  /\ error \in {"none", "size", "disconnected", "other"}
  /\ missed \in BOOLEAN /\ missedFirst \in BOOLEAN

Counts ==
  /\ faults \in 0 .. MaxFaults /\ backoff \in 0 .. BootstrapBackoffMaxAttempts
  /\ {described.partitions, result.partitions, producerKnown} \subseteq 0 .. MostPartitions
  /\ DOMAIN consumerLeaders \subseteq 0 .. MostPartitions - 1

LEMMA AtMostAll ==
  /\ MostPartitions \in Nat
  /\ \A B \in SUBSET BrokerIds : Cardinality(B) \in 0 .. MostPartitions
<1>1. IsFiniteSet(BrokerIds)
  BY BrokersAssumption
<1>2. MostPartitions \in Nat
  BY <1>1, FS_CardinalityType DEF MostPartitions
<1>3. ASSUME NEW B \in SUBSET BrokerIds PROVE Cardinality(B) \in 0 .. MostPartitions
  <2>1. IsFiniteSet(B) /\ Cardinality(B) <= MostPartitions
    BY <1>1, FS_Subset DEF MostPartitions
  <2>2. Cardinality(B) \in Nat
    BY <2>1, FS_CardinalityType
  <2>3. QED BY <1>2, <2>1, <2>2
<1>4. QED BY <1>2, <1>3

LEMMA CountInRange ==
  ASSUME Numbered, Partitions \subseteq 0 .. MostPartitions - 1
  PROVE  NumPartitions \in 0 .. MostPartitions
<1>1. MostPartitions \in Nat /\ NumPartitions \in Nat /\ Partitions = 0 .. NumPartitions - 1
  BY AtMostAll DEF Numbered
<1>2. CASE NumPartitions = 0
  BY <1>1, <1>2
<1>3. CASE NumPartitions # 0
  <2>1. NumPartitions - 1 \in 0 .. NumPartitions - 1
    BY <1>1, <1>3
  <2>2. QED BY <1>1, <2>1
<1>4. QED BY <1>2, <1>3

LEMMA FirstAliveIsBroker ==
  ASSUME NEW replicas, DOMAIN replicas \subseteq 1 .. 3, brokers \subseteq BrokerIds
  PROVE  FirstAlive(replicas) \in BrokerIds \cup {-1}
<1> DEFINE alive == {r \in DOMAIN replicas : replicas[r] \in brokers}
<1>1. CASE alive = {}
  BY <1>1 DEF FirstAlive
<1>2. CASE alive # {}
  <2>1. \E r \in alive : \A s \in alive : r <= s
    <3>1. alive \subseteq 1 .. 3
      OBVIOUS
    <3> HIDE DEF alive
    <3>2. CASE 1 \in alive
      BY <3>1, <3>2
    <3>3. CASE 1 \notin alive /\ 2 \in alive
      BY <3>1, <3>3
    <3>4. CASE 1 \notin alive /\ 2 \notin alive
      <4>1. \A r \in alive : r = 3
        BY <3>1, <3>4
      <4>2. QED BY <1>2, <4>1
    <3>5. QED BY <3>2, <3>3, <3>4
  <2> DEFINE first == CHOOSE r \in alive : \A s \in alive : r <= s
  <2>2. first \in alive
    BY <2>1
  <2>3. FirstAlive(replicas) = replicas[first]
    BY <1>2 DEF FirstAlive
  <2>4. replicas[first] \in BrokerIds
    BY <2>2
  <2>5. QED BY <2>3, <2>4
<1>3. QED BY <1>1, <1>2

\* What the requests ask for: one to three replicas of each partition.
Tuples(replicas) ==
  \A p \in DOMAIN replicas : DOMAIN replicas[p] \subseteq 1 .. 3 /\ 1 \in DOMAIN replicas[p]

LEMMA RequestsAreTuples ==
  ASSUME NEW n \in Nat, NEW B \in SUBSET BrokerIds, B # {}
  PROVE  /\ Tuples(RequestedAssignments(n, B))
         /\ Tuples(Current(B, n)) /\ DOMAIN Current(B, n) = 0 .. n - 1
         /\ Tuples(Missing(B, n)) /\ DOMAIN Missing(B, n) \subseteq 0 .. MostPartitions - 1
<1>1. Cardinality(B) \in Nat \ {0} /\ Cardinality(B) \in 0 .. MostPartitions
  BY PartitionsRequested, AtMostAll
<1>2. ReplicationFactor(B) \in 1 .. 3
  BY <1>1 DEF ReplicationFactor, MinOf
<1> DEFINE a == RequestedAssignments(n, B)
<1>3. DOMAIN a = 0 .. MaxOf(n, Cardinality(B)) - 1
  BY PartitionsRequested
<1>4. \A p \in DOMAIN a : DOMAIN a[p] = 1 .. ReplicationFactor(B)
  BY DEF RequestedAssignments
<1> HIDE DEF a
<1>5. \A p \in DOMAIN a : DOMAIN a[p] \subseteq 1 .. 3 /\ 1 \in DOMAIN a[p]
  BY <1>2, <1>4
<1>6. 0 .. n - 1 \subseteq DOMAIN a /\ n .. Cardinality(B) - 1 \subseteq DOMAIN a
  BY <1>1, <1>3 DEF MaxOf
<1>7. Tuples(Current(B, n)) /\ DOMAIN Current(B, n) = 0 .. n - 1
  BY <1>5, <1>6 DEF Tuples, Current, a
<1>8. Tuples(Missing(B, n)) /\ DOMAIN Missing(B, n) = n .. Cardinality(B) - 1
  BY <1>5, <1>6 DEF Tuples, Missing, a
<1>9. n .. Cardinality(B) - 1 \subseteq 0 .. MostPartitions - 1
  BY <1>1, AtMostAll
<1>10. QED BY <1>5, <1>7, <1>8, <1>9 DEF Tuples, a

-----------------------------------------------------------------------------
LEMMA ClusterTypesInit == Init => ClusterTypes
<1> SUFFICES ASSUME Init PROVE ClusterTypes
  OBVIOUS
<1>1. /\ Partitions \subseteq 0 .. MostPartitions - 1
      /\ \A p \in Partitions : DOMAIN assignment[p] \subseteq 1 .. 3
  <2>1. CASE assignment = << >>
    BY <2>1 DEF Partitions
  <2>2. ASSUME NEW B \in (SUBSET BrokerIds) \ {{}}, assignment = RequestedAssignments(0, B)
        PROVE  /\ Partitions \subseteq 0 .. MostPartitions - 1
               /\ \A p \in Partitions : DOMAIN assignment[p] \subseteq 1 .. 3
    <3>1. /\ DOMAIN assignment = 0 .. MaxOf(0, Cardinality(B)) - 1 /\ Tuples(assignment)
          /\ Cardinality(B) \in Nat
      BY <2>2, PartitionsRequested, RequestsAreTuples
    <3>2. MaxOf(0, Cardinality(B)) = Cardinality(B) /\ Cardinality(B) \in 0 .. MostPartitions
      BY <2>2, <3>1, MaxIsNat, AtMostAll
    <3>3. QED BY <3>1, <3>2, AtMostAll DEF Partitions, Tuples
  <2>3. QED BY <2>1, <2>2 DEF Init, KafkaInit
<1>2. leaders \in [Partitions -> BrokerIds \cup {-1}]
  <2>1. brokers \subseteq BrokerIds /\ leaders = [p \in Partitions |-> FirstAlive(assignment[p])]
    BY DEF Init, KafkaInit
  <2>2. \A p \in Partitions : FirstAlive(assignment[p]) \in BrokerIds \cup {-1}
    BY <1>1, <2>1, FirstAliveIsBroker
  <2>3. QED BY <2>1, <2>2
<1>3. moving = {} /\ scalings \in 0 .. MaxScalings
  BY BoundsAssumption DEF Init, KafkaInit
<1>4. QED BY <1>1, <1>2, <1>3 DEF ClusterTypes

\* What brokers that come and go and the controller do.
LEMMA ClusterTypesKafka == TopicInv /\ ClusterTypes /\ KafkaNext => ClusterTypes'
<1> SUFFICES ASSUME TopicInv, ClusterTypes, KafkaNext PROVE ClusterTypes'
  OBVIOUS
<1>1. assignment' = assignment /\ Partitions' = Partitions
  BY DEF KafkaNext, BrokerUp, BrokerDown, ElectLeader, ElectPreferred, FinishMove, Partitions
<1> USE <1>1 DEF ClusterTypes
<1>2. CASE BrokerUp \/ BrokerDown
  <2>1. UNCHANGED <<leaders, moving>> /\ scalings < MaxScalings /\ scalings' = scalings + 1
    BY <1>2 DEF BrokerUp, BrokerDown
  <2>2. scalings' \in 0 .. MaxScalings
    BY <2>1, BoundsAssumption
  <2>3. QED BY <2>1, <2>2
<1>3. ASSUME NEW p \in Partitions, ElectLeader(p) \/ ElectPreferred(p) PROVE ClusterTypes'
  <2>1. FirstAlive(assignment[p]) \in BrokerIds \cup {-1} /\ brokers \subseteq BrokerIds
    BY FirstAliveIsBroker DEF TopicInv, ClusterInv
  <2>2. PICK b \in BrokerIds \cup {-1} : leaders' = [leaders EXCEPT ![p] = b]
    BY <1>3, <2>1 DEF ElectLeader, ElectPreferred
  <2>3. UNCHANGED <<moving, scalings>>
    BY <1>3 DEF ElectLeader, ElectPreferred
  <2>4. QED BY <2>2, <2>3
<1>4. ASSUME NEW p \in Partitions, FinishMove(p) PROVE ClusterTypes'
  <2>1. UNCHANGED <<leaders, scalings>> /\ moving' \subseteq moving
    BY <1>4 DEF FinishMove
  <2>2. QED BY <2>1
<1>5. QED BY <1>2, <1>3, <1>4 DEF KafkaNext

\* What a request of the canary does.
LEMMA ClusterTypesAdd ==
  ASSUME NEW replicas, TopicInv, ClusterTypes, Tuples(replicas), Accepts(replicas),
         AddPartitions(replicas), DOMAIN replicas \subseteq 0 .. MostPartitions - 1
  PROVE  ClusterTypes'
<1> DEFINE firsts == [p \in DOMAIN replicas |-> replicas[p][1]]
<1>1. \A f, g : \A p \in DOMAIN Over(f, g) :
        Over(f, g)[p] = IF p \in DOMAIN f THEN f[p] ELSE g[p]
  BY OverDomain DEF Over
<1>2. /\ assignment' = Over(assignment, replicas) /\ leaders' = Over(leaders, firsts)
      /\ moving' = moving /\ scalings' = scalings
  BY Zenon DEF AddPartitions
<1>3. Partitions' = Partitions \cup DOMAIN replicas
  BY <1>2, OverDomain DEF Partitions
<1>4. \A p \in Partitions' : DOMAIN assignment'[p] \subseteq 1 .. 3
  BY <1>1, <1>2, <1>3, OverDomain DEF ClusterTypes, Tuples, Partitions
<1>5. leaders' \in [Partitions' -> BrokerIds \cup {-1}]
  <2>1. \A p \in DOMAIN replicas : firsts[p] \in BrokerIds
    BY DEF Tuples, Accepts, Range, TopicInv, ClusterInv
  <2>2. DOMAIN firsts = DOMAIN replicas
    OBVIOUS
  <2> HIDE DEF firsts
  <2>3. DOMAIN leaders' = Partitions'
    BY <1>2, <1>3, <2>2, OverDomain DEF ClusterTypes
  <2>4. ASSUME NEW p \in Partitions' PROVE leaders'[p] \in BrokerIds \cup {-1}
    BY <1>1, <1>2, <1>3, <2>1, <2>2, <2>3 DEF ClusterTypes
  <2>5. leaders' = [p \in Partitions' |-> leaders'[p]]
    BY <1>2, <2>3 DEF Over
  <2>6. QED BY <2>4, <2>5
<1>6. Partitions' \subseteq 0 .. MostPartitions - 1 /\ moving' \subseteq Partitions'
  BY <1>2, <1>3 DEF ClusterTypes
<1>7. QED BY <1>2, <1>4, <1>5, <1>6 DEF ClusterTypes

LEMMA ClusterTypesMove ==
  ASSUME NEW replicas, ClusterTypes, Tuples(replicas), DOMAIN replicas = Partitions,
         NEW accepted \in SUBSET DOMAIN replicas, MoveReplicas(replicas, accepted)
  PROVE  ClusterTypes'
<1>1. /\ assignment' = [p \in Partitions |->
                          IF p \in accepted THEN replicas[p] ELSE assignment[p]]
      /\ leaders' = leaders /\ scalings' = scalings
      /\ moving' \subseteq moving \cup Partitions
  BY DEF MoveReplicas
<1>2. Partitions' = Partitions
  BY <1>1 DEF Partitions
<1>3. \A p \in Partitions : DOMAIN assignment'[p] \subseteq 1 .. 3
  BY <1>1 DEF ClusterTypes, Tuples
<1>4. QED BY <1>1, <1>2, <1>3 DEF ClusterTypes

LEMMA WhatChangesCluster ==
  [Next]_vars => KafkaNext \/ CreateTopic \/ Alter \/ CreatePartitions \/ UNCHANGED kafkaVars
<1> SUFFICES ASSUME [Next]_vars
             PROVE  KafkaNext \/ CreateTopic \/ Alter \/ CreatePartitions \/ UNCHANGED kafkaVars
  OBVIOUS
<1>1. CASE KafkaStep
  BY <1>1 DEF KafkaStep
<1>2. CASE TopicStep
  BY <1>2 DEF TopicStep, ReconcileStep, OpenAdmin, DescribeCluster, DescribeTopic, AlterConfig,
              DescribeAgain, ListMoves, RequestFails, ReconcileFailed, BreakConnection
<1>3. CASE OpenServices \/ StartReconcile \/ StartReconciled \/ Consume \/ FirstSend \/ Restart
             \/ Dies
  BY <1>3 DEF OpenServices, StartReconcile, StartReconciled, Consume, FirstSend, Restart, Dies
<1>4. CASE Tick \/ Reconciled \/ RefreshProducer \/ CheckLeaders \/ RefreshConsumer \/ LoopSend
  BY <1>4 DEF Tick, Reconciled, RefreshProducer, CheckLeaders, RefreshConsumer, LoopSend
<1>5. CASE /\ ~Dies
           /\ \/ CloseProducer \/ CloseConsumer \/ CloseTopic \/ CloseConnection \/ CloseStatus
              \/ LoopStops \/ StopCalled
  BY <1>5 DEF CloseProducer, CloseConsumer, CloseTopic, CloseConnection, Closes, CloseStatus,
              LoopStops, StopCalled
<1>6. CASE ProducerBackgroundRefresh \/ ConsumerBackgroundRefresh \/ UNCHANGED vars
  BY <1>6 DEF ProducerBackgroundRefresh, ConsumerBackgroundRefresh, vars
<1>7. QED BY <1>1, <1>2, <1>3, <1>4, <1>5, <1>6
             DEF Next, ManagerStep, Closed, Crash, CloseAfterDisconnectionFails

LEMMA ClusterTypesStep ==
  TopicInv /\ CoverInv /\ ClusterTypes /\ [Next]_vars => ClusterTypes'
<1> SUFFICES ASSUME TopicInv, CoverInv, ClusterTypes, [Next]_vars PROVE ClusterTypes'
  OBVIOUS
<1>1. CASE UNCHANGED kafkaVars
  BY <1>1 DEF kafkaVars, ClusterTypes, Partitions
<1>2. CASE KafkaNext
  BY <1>2, ClusterTypesKafka
<1> DEFINE B == described.brokers
           n == described.partitions
<1>3. n \in Nat /\ B \in SUBSET BrokerIds /\ (tpc \in Described => B # {})
  BY DEF TopicInv, DescribedInv
<1>4. CASE CreateTopic
  <2> DEFINE replicas == RequestedAssignments(0, B)
  <2>1. /\ B # {}
        /\ (Accepts(replicas) /\ AddPartitions(replicas)) \/ UNCHANGED kafkaVars
    BY <1>3, <1>4 DEF CreateTopic, Request, Described
  <2>2. /\ Tuples(replicas) /\ DOMAIN replicas = 0 .. MaxOf(0, Cardinality(B)) - 1
        /\ Cardinality(B) \in Nat
    BY <1>3, <2>1, RequestsAreTuples, PartitionsRequested
  <2>3. MaxOf(0, Cardinality(B)) = Cardinality(B) /\ Cardinality(B) \in 0 .. MostPartitions
    BY <1>3, <2>2, MaxIsNat, AtMostAll
  <2>4. DOMAIN replicas \subseteq 0 .. MostPartitions - 1
    BY <2>2, <2>3, AtMostAll
  <2> HIDE DEF replicas
  <2>5. QED BY <1>1, <2>1, <2>2, <2>4, ClusterTypesAdd
<1>5. CASE Alter
  <2> DEFINE replicas == Current(B, n)
  <2>1. /\ B # {} /\ n = NumPartitions
        /\ \E accepted \in SUBSET DOMAIN replicas : MoveReplicas(replicas, accepted)
    BY <1>3, <1>5 DEF Alter, Described, CoverInv, SeenInv
  <2>2. Tuples(replicas) /\ DOMAIN replicas = Partitions
    BY <1>3, <2>1, RequestsAreTuples DEF CoverInv, Numbered
  <2> HIDE DEF replicas
  <2>3. QED BY <2>1, <2>2, ClusterTypesMove
<1>6. CASE CreatePartitions
  <2> DEFINE replicas == Missing(B, n)
  <2>1. /\ B # {}
        /\ (Accepts(replicas) /\ AddPartitions(replicas)) \/ UNCHANGED kafkaVars
    BY <1>3, <1>6 DEF CreatePartitions, Request, Described
  <2>2. Tuples(replicas) /\ DOMAIN replicas \subseteq 0 .. MostPartitions - 1
    BY <1>3, <2>1, RequestsAreTuples
  <2> HIDE DEF replicas
  <2>3. QED BY <1>1, <2>1, <2>2, ClusterTypesAdd
<1>7. QED BY <1>1, <1>2, <1>4, <1>5, <1>6, WhatChangesCluster

LEMMA ClusterTypesInvariance == Spec => []ClusterTypes
  BY ClusterTypesInit, ClusterTypesStep, TopicInvariance, Covers, PTL DEF Spec
-----------------------------------------------------------------------------
\* What a step of Reconcile() leaves.
LEMMA ReconcileTypes ==
  ASSUME TopicInv, CoverInv, ClusterTypes, CanaryTypes, Counts, ReconcileStep
  PROVE  /\ expected' = expected /\ admin' \in {"nil", "open", "broken"}
         /\ initialized' = initialized \/ initialized' = TRUE
         /\ tpc' \in {"describeCluster", "failed", "done"} \cup Described
         /\ error' \in {"none", "size", "disconnected", "other"}
         /\ faults' = faults \/ Fault
         /\ {described'.partitions, result'.partitions} \subseteq 0 .. MostPartitions
<1> DEFINE B == described.brokers
           most == MostPartitions
<1>1. /\ NumPartitions \in 0 .. most /\ Cardinality(B) \in 0 .. most
      /\ described.partitions \in 0 .. most /\ result.partitions \in 0 .. most /\ 0 \in 0 .. most
  <2>1. NumPartitions \in 0 .. most
    BY CountInRange DEF CoverInv, ClusterTypes
  <2>2. Cardinality(B) \in 0 .. most
    BY AtMostAll DEF TopicInv, DescribedInv
  <2>3. QED BY <2>1, <2>2, AtMostAll DEF Counts
<1>2. PartitionsAfter(described) \in 0 .. most
  BY <1>1 DEF PartitionsAfter, MaxOf
<1> USE <1>1 DEF CanaryTypes, Described
<1> HIDE DEF most
<1>3. \A err : Fail(err) => /\ tpc' = "failed" /\ error' = err /\ initialized' = initialized
                            /\ described'.partitions = 0 /\ result'.partitions = 0
  BY DEF Fail, NotDescribed, NoResult
<1>4. \A l, k, r : Finish(l, k, r) => /\ tpc' = "done" /\ initialized' = TRUE
                                      /\ described'.partitions = 0 /\ result'.partitions = k
  BY DEF Finish, NotDescribed
<1>5. \A pc : Proceed(pc) => tpc' = pc /\ initialized' = initialized /\ result' = result
  BY DEF Proceed
<1>6. NoFault => faults' = faults /\ error' = error
  BY DEF NoFault
<1>7. CASE OpenAdmin
  BY <1>3, <1>5, <1>6, <1>7 DEF OpenAdmin, most
<1>8. CASE DescribeCluster
  <2>1. described'.partitions = described.partitions
    BY <1>8 DEF DescribeCluster, TopicInv, DescribedInv
  <2>2. QED BY <1>5, <1>6, <1>8, <2>1 DEF DescribeCluster, most
<1>9. CASE DescribeTopic
  <2> DEFINE seen == [brokers |-> B, partitions |-> NumPartitions, leaders |-> leaders]
  <2>1. /\ expected' = expected /\ admin' = admin
        /\ \/ Proceed("create") /\ NoFault /\ UNCHANGED described
           \/ Fail("size") /\ UNCHANGED faults
           \/ Proceed("alterConfig") /\ NoFault /\ described' = seen
           \/ Decide(seen) /\ NoFault
    BY <1>9 DEF DescribeTopic
  <2>2. seen.partitions = NumPartitions
    OBVIOUS
  <2> HIDE DEF seen
  <2>3. CASE Decide(seen) /\ NoFault
    BY <1>4, <1>5, <1>6, <2>1, <2>2, <2>3 DEF Decide, most
  <2>4. QED BY <1>3, <1>5, <1>6, <2>1, <2>2, <2>3 DEF most
<1>10. CASE AlterConfig
  BY <1>4, <1>5, <1>6, <1>10 DEF AlterConfig, Decide, most
<1>11. CASE DescribeAgain
  BY <1>4, <1>6, <1>11 DEF DescribeAgain, most
<1>12. CASE ListMoves
  <2>1. Reassigned => /\ tpc' = "done" /\ initialized' = TRUE /\ described'.partitions = 0
                      /\ result'.partitions = PartitionsAfter(described)
    BY <1>4 DEF Reassigned
  <2>2. /\ expected' = expected /\ admin' = admin /\ error' = error
        /\ faults' = faults \/ Fault
    BY <1>6, <1>12 DEF ListMoves, ListLoopEnds
  <2>3. QED BY <1>2, <1>5, <1>12, <2>1, <2>2 DEF ListMoves, most
<1>13. CASE CreateTopic \/ Alter \/ CreatePartitions
  <2>1. /\ expected' = expected /\ admin' = admin
        /\ \/ \/ Proceed("describeAgain") /\ UNCHANGED described
              \/ Proceed("list") /\ UNCHANGED described
              \/ Reassigned
           \/ Fail("other") \/ Fail("disconnected")
        /\ \/ NoFault
           \/ Fault /\ (Fail("other") \/ Fail("disconnected"))
           \/ UNCHANGED faults /\ Fail("other")
    BY <1>13 DEF CreateTopic, Alter, CreatePartitions, Request, AnswerLost
  <2>2. Reassigned => /\ tpc' = "done" /\ initialized' = TRUE /\ described'.partitions = 0
                      /\ result'.partitions = PartitionsAfter(described)
    BY <1>4 DEF Reassigned
  <2>3. QED BY <1>2, <1>3, <1>5, <1>6, <2>1, <2>2 DEF most
<1>14. CASE RequestFails
  BY <1>3, <1>14 DEF RequestFails, most
<1>15. CASE ReconcileFailed
  BY <1>15 DEF ReconcileFailed, AdminAfterDisconnection, most
<1>16. QED BY <1>7, <1>8, <1>9, <1>10, <1>11, <1>12, <1>13, <1>14, <1>15 DEF ReconcileStep

LEMMA FaultInRange == faults \in 0 .. MaxFaults /\ Fault => faults' \in 0 .. MaxFaults
  BY BoundsAssumption DEF Fault

\* What the other steps leave of the canary.
LEMMA CanaryTypesStep ==
  TopicInv /\ CoverInv /\ ClusterTypes /\ CanaryTypes /\ Counts /\ [Next]_vars => CanaryTypes'
<1> SUFFICES ASSUME TopicInv, CoverInv, ClusterTypes, CanaryTypes, Counts, [Next]_vars
             PROVE  CanaryTypes'
  OBVIOUS
<1> USE DEF CanaryTypes
<1>1. CASE ReconcileStep /\ UNCHANGED <<managerVars, clientVars>>
  <2>1. UNCHANGED <<missed, missedFirst>>
    BY <1>1 DEF clientVars
  <2>2. QED BY <1>1, <2>1, ReconcileTypes, Zenon
<1>2. CASE BreakConnection /\ UNCHANGED <<managerVars, clientVars>>
  BY <1>2 DEF BreakConnection, clientVars
<1>3. CASE /\ ~Dies
           /\ \/ KafkaStep \/ OpenServices \/ StopCalled \/ LoopStops \/ CloseProducer
              \/ CloseConsumer \/ CheckLeaders \/ CloseConnection \/ CloseStatus
              \/ ProducerBackgroundRefresh \/ ConsumerBackgroundRefresh \/ UNCHANGED vars
  BY <1>3 DEF KafkaStep, OpenServices, StopCalled, LoopStops, CloseProducer, CloseConsumer,
              CheckLeaders, Closes, CloseConnection, CloseStatus, ProducerBackgroundRefresh,
              ConsumerBackgroundRefresh,
              vars, topicVars, clientVars
<1>4. CASE StartReconcile \/ Tick
  <2>1. /\ UNCHANGED <<expected, admin, initialized, error, missed, missedFirst>>
        /\ tpc' \in {"openAdmin", "describeCluster"}
    BY <1>4 DEF StartReconcile, Tick, ReconcileCalled, clientVars
  <2>2. QED BY <2>1
<1>5. CASE StartReconciled \/ Reconciled
  BY <1>5 DEF StartReconciled, Reconciled, Returned, clientVars
<1>6. CASE Consume \/ RefreshProducer \/ RefreshConsumer
  BY <1>6 DEF Consume, RefreshProducer, RefreshConsumer, topicVars
<1>7. CASE FirstSend \/ LoopSend
  <2>1. UNCHANGED <<expected, admin, initialized, tpc, error>>
    BY <1>7 DEF FirstSend, LoopSend, ResultTaken
  <2>2. missed' \in BOOLEAN
    <3>1. missed' = (result.partitions > producerKnown')
      BY <1>7, Zenon DEF FirstSend, LoopSend, Send
    <3>2. QED BY <3>1
  <2>3. missedFirst' \in BOOLEAN
    <3>1. missedFirst' = missed' \/ missedFirst' = (missedFirst /\ missed')
      BY <1>7, Zenon DEF FirstSend, LoopSend
    <3>2. QED BY <2>2, <3>1, Zenon
  <2>4. QED BY <2>1, <2>2, <2>3, Zenon
<1>8. CASE Dies \/ Restart
  BY <1>8 DEF Dies, Restart, FreshClients, clientVars
<1>9. CASE CloseTopic /\ ~Dies
  BY <1>9 DEF CloseTopic, clientVars
<1>10. QED BY <1>1, <1>2, <1>3, <1>4, <1>5, <1>6, <1>7, <1>8, <1>9
              DEF Next, ManagerStep, TopicStep, Closed, Crash, CloseAfterDisconnectionFails

LEMMA CountsStep ==
  TopicInv /\ CoverInv /\ ClusterTypes /\ CanaryTypes /\ Counts /\ [Next]_vars => Counts'
<1> SUFFICES ASSUME TopicInv, CoverInv, ClusterTypes, CanaryTypes, Counts, [Next]_vars
             PROVE  Counts'
  OBVIOUS
<1>1. /\ MostPartitions \in Nat /\ NumPartitions \in 0 .. MostPartitions
      /\ DOMAIN leaders \subseteq 0 .. MostPartitions - 1
  BY AtMostAll, CountInRange DEF CoverInv, ClusterTypes
<1>2. NotDescribed.partitions = 0 /\ NoResult.partitions = 0 /\ 0 \in 0 .. MostPartitions
  BY <1>1 DEF NotDescribed, NoResult
<1>3. Fault => faults' \in 0 .. MaxFaults
  BY FaultInRange DEF Counts
<1> HIDE DEF MostPartitions
<1> USE <1>1, <1>2, <1>3 DEF Counts
<1>4. CASE ReconcileStep /\ UNCHANGED <<managerVars, clientVars>>
  <2>1. UNCHANGED <<backoff, producerKnown, consumerLeaders>>
    BY <1>4 DEF managerVars, clientVars
  <2>2. QED BY <1>4, <2>1, ReconcileTypes
<1>5. CASE BreakConnection /\ UNCHANGED <<managerVars, clientVars>>
  BY <1>5 DEF BreakConnection, managerVars, clientVars
<1>6. CASE /\ ~Death
           /\ \/ KafkaStep \/ OpenServices \/ StopCalled \/ LoopStops \/ CloseProducer
              \/ CloseConsumer \/ CheckLeaders \/ CloseConnection \/ CloseStatus
              \/ ProducerBackgroundRefresh \/ ConsumerBackgroundRefresh \/ UNCHANGED vars
  BY <1>6 DEF Death, KafkaStep, OpenServices, StopCalled, LoopStops, CloseProducer, CloseConsumer,
              CheckLeaders, Closes, CloseConnection, CloseStatus, ProducerBackgroundRefresh,
              ConsumerBackgroundRefresh,
              vars, topicVars, managerVars, clientVars
<1>7. CASE StartReconcile \/ Tick \/ Reconciled
  BY <1>7 DEF StartReconcile, Tick, Reconciled, Returned, clientVars
<1>8. CASE StartReconciled
  <2>1. UNCHANGED <<described, result, faults, producerKnown, consumerLeaders>>
    BY <1>8 DEF StartReconciled, Returned, clientVars
  <2>2. \/ backoff' = backoff
        \/ backoff # BootstrapBackoffMaxAttempts /\ backoff' = backoff + 1
    BY <1>8 DEF StartReconciled, BackoffExhausted
  <2>3. backoff' \in 0 .. BootstrapBackoffMaxAttempts
    BY <2>2, BoundsAssumption
  <2>4. QED BY <2>1, <2>3
<1>9. CASE Consume \/ RefreshProducer \/ RefreshConsumer
  BY <1>9 DEF Consume, RefreshProducer, RefreshConsumer, topicVars
<1>10. CASE FirstSend \/ LoopSend
  BY <1>10 DEF FirstSend, LoopSend, Send, ResultTaken
<1>11. CASE Death
  BY <1>11 DEF Death, Dies, clientVars
<1>12. CASE Restart
  <2>1. 0 \in 0 .. BootstrapBackoffMaxAttempts
    BY BoundsAssumption
  <2>2. QED BY <1>12, <2>1 DEF Restart, FreshClients
<1>13. CASE CloseTopic /\ ~Death
  BY <1>13 DEF Death, CloseTopic, clientVars
<1>14. QED BY <1>4, <1>5, <1>6, <1>7, <1>8, <1>9, <1>10, <1>11, <1>12, <1>13
              DEF Next, ManagerStep, TopicStep, Closed, Crash, CloseAfterDisconnectionFails, Death

LEMMA CanaryTypesInit == Init => CanaryTypes /\ Counts
<1> SUFFICES ASSUME Init PROVE CanaryTypes /\ Counts
  OBVIOUS
<1>1. /\ MostPartitions \in Nat /\ NumPartitions \in 0 .. MostPartitions
      /\ DOMAIN leaders \subseteq 0 .. MostPartitions - 1
  BY AtMostAll, CountInRange, CoverInit, ClusterTypesInit DEF CoverInv, ClusterTypes
<1>2. CanaryTypes
  BY DEF Init, TopicInit, CanaryTypes
<1>3. Counts
  BY <1>1, BoundsAssumption DEF Init, TopicInit, NotDescribed, NoResult, Counts
<1>4. QED BY <1>2, <1>3

\* The cluster, the reconcile, the manager and the metadata of its clients keep
\* their types: there are never more partitions than brokers there have been, and
\* a leader is a broker or none.
THEOREM CanaryTypeCorrect == Spec => []TypeOK
<1>1. Spec => [](CanaryTypes /\ Counts)
  BY CanaryTypesInit, CanaryTypesStep, CountsStep, TopicInvariance, Covers,
     ClusterTypesInvariance, PTL DEF Spec
<1>2. ControlInv /\ TopicInv /\ CoverInv /\ ClusterTypes /\ CanaryTypes /\ Counts => TypeOK
  <2> SUFFICES ASSUME ControlInv, TopicInv, CoverInv, ClusterTypes, CanaryTypes, Counts
               PROVE  TypeOK
    OBVIOUS
  <2>1. KafkaTypeOK
    <3>1. NumPartitions \in 0 .. MostPartitions /\ Partitions = 0 .. NumPartitions - 1
      BY CountInRange DEF CoverInv, Numbered, ClusterTypes
    <3>2. QED BY <3>1 DEF KafkaTypeOK, MostPartitions, ClusterTypes, TopicInv, ClusterInv
  <2>2. TopicTypeOK
    BY DEF TopicTypeOK, CanaryTypes, Counts, MostPartitions, Described, TopicInv, DescribedInv
  <2>3. QED BY <2>1, <2>2
            DEF TypeOK, ControlInv, Starting, Working, CanaryTypes, Counts, MostPartitions
<1>3. QED BY <1>1, <1>2, Control, TopicInvariance, Covers, ClusterTypesInvariance, PTL
-----------------------------------------------------------------------------
(* The layout of the topic.  A request is cut off or refused in part, or a *)
(* broker comes or goes, between the requests of a reconcile; still each   *)
(* of them lays out what it changes over the brokers that this reconcile   *)
(* was told of, and one that follows another finds all of it laid out so.  *)

\* The forms that requests and layouts take are one.
LEMMA LayoutIs ==
  ASSUME NEW n \in Nat, NEW B \in Clusters
  PROVE  /\ LayoutOver(B, n) = [p \in 0 .. n - 1 |-> Replicas(B, p)]
         /\ Current(B, n) = LayoutOver(B, n)
         /\ RequestedAssignments(0, B) = LayoutOver(B, Cardinality(B))
         /\ n >= Cardinality(B) => RequestedAssignments(n, B) = LayoutOver(B, n)
         /\ n < Cardinality(B) =>
              Missing(B, n) = [p \in n .. Cardinality(B) - 1 |-> Replicas(B, p)]
<1> DEFINE N == Cardinality(B)
           m == MaxOf(n, N)
<1>1. N \in Nat \ {0}
  BY ClusterSize
<1>2. m \in Nat /\ m >= n /\ m >= N /\ (n >= N => m = n) /\ (n < N => m = N) /\ MaxOf(0, N) = N
  BY <1>1 DEF MaxOf
<1>3. /\ RequestedAssignments(n, B) = [p \in 0 .. m - 1 |-> Replicas(B, p)]
      /\ \A p \in 0 .. m - 1 : RequestedAssignments(n, B)[p] = Replicas(B, p)
      /\ RequestedAssignments(0, B) = [p \in 0 .. MaxOf(0, N) - 1 |-> Replicas(B, p)]
  BY ReplicasOf
<1> HIDE DEF N, m
<1>4. \A k \in Nat : LayoutOver(B, k) = [p \in 0 .. k - 1 |-> Replicas(B, p)]
  <2> SUFFICES ASSUME NEW k \in Nat
               PROVE  LayoutOver(B, k) = [p \in 0 .. k - 1 |-> Replicas(B, p)]
    OBVIOUS
  <2>1. \A p \in 0 .. MaxOf(k, Cardinality(B)) - 1 : RequestedAssignments(k, B)[p] = Replicas(B, p)
    BY ReplicasOf
  <2>2. MaxOf(k, Cardinality(B)) \in Nat /\ MaxOf(k, Cardinality(B)) >= k
    BY <1>1 DEF MaxOf, N
  <2>3. \A p \in 0 .. k - 1 : RequestedAssignments(k, B)[p] = Replicas(B, p)
    BY <2>1, <2>2
  <2>4. QED BY <2>3 DEF LayoutOver
<1>5. Current(B, n) = LayoutOver(B, n)
  BY DEF Current, LayoutOver
<1>6. n < N => Missing(B, n) = [p \in n .. N - 1 |-> Replicas(B, p)]
  <2>1. n < N => \A p \in n .. N - 1 : RequestedAssignments(n, B)[p] = Replicas(B, p)
    BY <1>1, <1>2, <1>3
  <2>2. QED BY <2>1 DEF Missing, N
<1>7. RequestedAssignments(0, B) = LayoutOver(B, N)
  BY <1>1, <1>2, <1>3, <1>4
<1>8. n >= N => RequestedAssignments(n, B) = LayoutOver(B, n)
  BY <1>2, <1>3, <1>4
<1>9. QED BY <1>4, <1>5, <1>6, <1>7, <1>8 DEF N

\* What the two kinds of requests make of the assignments.
LEMMA OverIs ==
  ASSUME NEW f, NEW g, NEW h, h = [p \in DOMAIN h |-> h[p]],
         DOMAIN h = DOMAIN f \cup DOMAIN g,
         \A p \in DOMAIN h : h[p] = IF p \in DOMAIN f THEN f[p] ELSE g[p]
  PROVE  Over(f, g) = h
  BY DEF Over

\* Before each request that follows another one in a reconcile, the topic is as
\* that one has left it.
LayoutInv ==
  /\ PartitionsLaidOut
  /\ tpc \in {"describeAgain", "list", "grow"} =>
       assignment = LayoutOver(described.brokers, NumPartitions)

LEMMA DescribedCluster ==
  ASSUME TopicInv, CoverInv
  PROVE  /\ tpc \in Described => described.brokers \in Clusters
         /\ described.partitions \in Nat /\ NumPartitions \in Nat
         /\ Partitions = 0 .. NumPartitions - 1
         /\ Cardinality(described.brokers) \in Nat
<1>1. Cardinality(described.brokers) \in Nat
  BY FiniteBrokers DEF TopicInv, DescribedInv
<1>2. QED BY <1>1 DEF TopicInv, DescribedInv, CoverInv, Numbered, Clusters

LEMMA CreateLaysOut ==
  ASSUME TopicInv, CoverInv, CreateTopic
  PROVE  /\ NumPartitions = 0 /\ described.brokers \in Clusters
         /\ \/ assignment' = LayoutOver(described.brokers, Cardinality(described.brokers))
            \/ UNCHANGED kafkaVars /\ tpc' = "failed"
<1> DEFINE B == described.brokers
           replicas == RequestedAssignments(0, B)
<1>1. tpc = "create" /\ B \in Clusters /\ NumPartitions = 0 /\ Partitions = {}
  BY DescribedCluster DEF CreateTopic, Described, CoverInv, SeenInv
<1>2. AddPartitions(replicas) \/ (UNCHANGED kafkaVars /\ tpc' = "failed")
  BY DEF CreateTopic, Request, Fail
<1>3. replicas = LayoutOver(B, Cardinality(B)) /\ Cardinality(B) \in Nat
  BY <1>1, LayoutIs, ClusterSize
<1>4. LayoutOver(B, Cardinality(B)) = [p \in 0 .. Cardinality(B) - 1 |-> Replicas(B, p)]
  BY <1>1, <1>3, LayoutIs
<1>5. ASSUME AddPartitions(replicas) PROVE assignment' = replicas
  <2>1. assignment' = Over(assignment, replicas) /\ DOMAIN assignment = {}
    BY <1>1, <1>5 DEF AddPartitions, Partitions
  <2>2. replicas = [p \in DOMAIN replicas |-> replicas[p]]
    BY <1>3, <1>4
  <2> HIDE DEF replicas
  <2>3. /\ DOMAIN replicas = DOMAIN assignment \cup DOMAIN replicas
        /\ \A p \in DOMAIN replicas :
             replicas[p] = IF p \in DOMAIN assignment THEN assignment[p] ELSE replicas[p]
    BY <2>1
  <2>4. Over(assignment, replicas) = replicas
    BY <2>2, <2>3, OverIs
  <2>5. QED BY <2>1, <2>4
<1>6. QED BY <1>1, <1>2, <1>3, <1>5

LEMMA AlterLaysOut ==
  ASSUME TopicInv, CoverInv, Alter
  PROVE  LET B == described.brokers
             n == NumPartitions
         IN  /\ n \in Nat \ {0} /\ B \in Clusters /\ Partitions = 0 .. n - 1
             /\ \E accepted \in SUBSET Partitions : MoveReplicas(LayoutOver(B, n), accepted)
             /\ \/ tpc' = "failed"
                \/ assignment' = LayoutOver(B, n) /\ tpc' = "list" /\ described' = described
<1> DEFINE B == described.brokers
           n == NumPartitions
           replicas == LayoutOver(B, n)
<1>1. /\ tpc = "alter" /\ B \in Clusters /\ n \in Nat /\ Partitions = 0 .. n - 1
      /\ described.partitions = n /\ Partitions # {}
  BY DescribedCluster DEF Alter, Described, CoverInv, SeenInv, TopicInv, StaticInv, TopicSeen
<1>2. /\ Current(B, n) = replicas /\ replicas = [p \in 0 .. n - 1 |-> Replicas(B, p)]
      /\ DOMAIN replicas = Partitions
  BY <1>1, LayoutIs
<1> HIDE DEF replicas
<1>3. PICK accepted \in SUBSET Partitions :
        /\ MoveReplicas(replicas, accepted)
        /\ \/ tpc' = "failed"
           \/ accepted = Partitions /\ tpc' = "list" /\ described' = described
  BY <1>1, <1>2 DEF Alter, AnswerLost, Proceed, Fail
<1>4. ASSUME accepted = Partitions PROVE assignment' = replicas
  <2>1. assignment' = [p \in Partitions |-> replicas[p]]
    BY <1>3, <1>4 DEF MoveReplicas
  <2>2. replicas = [p \in Partitions |-> replicas[p]]
    BY <1>1, <1>2
  <2>3. QED BY <2>1, <2>2
<1>5. n # 0
  BY <1>1
<1>6. QED BY <1>1, <1>3, <1>4, <1>5 DEF replicas

LEMMA GrowLaysOut ==
  ASSUME TopicInv, CoverInv, LayoutInv, CreatePartitions
  PROVE  LET B == described.brokers
         IN  /\ NumPartitions \in 1 .. Cardinality(B) - 1 /\ B \in Clusters
             /\ assignment = LayoutOver(B, NumPartitions)
             /\ \/ assignment' = LayoutOver(B, Cardinality(B))
                \/ UNCHANGED kafkaVars /\ tpc' = "failed"
<1> DEFINE B == described.brokers
           n == NumPartitions
           N == Cardinality(B)
           replicas == Missing(B, n)
<1>1. /\ tpc = "grow" /\ B \in Clusters /\ n \in Nat /\ Partitions = 0 .. n - 1
      /\ described.partitions = n /\ n < N /\ N \in Nat /\ Partitions # {}
      /\ assignment = LayoutOver(B, n)
  BY DescribedCluster
     DEF CreatePartitions, Described, CoverInv, SeenInv, TopicInv, StaticInv, TopicSeen, LayoutInv
<1>2. AddPartitions(replicas) \/ (UNCHANGED kafkaVars /\ tpc' = "failed")
  BY <1>1 DEF CreatePartitions, Request, Fail
<1>3. /\ assignment = [p \in 0 .. n - 1 |-> Replicas(B, p)]
      /\ replicas = [p \in n .. N - 1 |-> Replicas(B, p)]
      /\ LayoutOver(B, N) = [p \in 0 .. N - 1 |-> Replicas(B, p)]
  BY <1>1, LayoutIs
<1> HIDE DEF replicas, N, n, B
<1>4. ASSUME AddPartitions(replicas) PROVE assignment' = LayoutOver(B, N)
  <2>1. assignment' = Over(assignment, replicas)
    BY <1>4 DEF AddPartitions
  <2>2. DOMAIN assignment = 0 .. n - 1 /\ DOMAIN replicas = n .. N - 1
    BY <1>3
  <2> DEFINE whole == LayoutOver(B, N)
  <2>3. /\ DOMAIN whole = 0 .. N - 1 /\ whole = [p \in DOMAIN whole |-> whole[p]]
        /\ \A p \in 0 .. N - 1 : whole[p] = Replicas(B, p)
    BY <1>3
  <2> HIDE DEF whole
  <2>4. (0 .. n - 1) \cup (n .. N - 1) = 0 .. N - 1
    BY <1>1 DEF n, N, B
  <2>5. \A p \in 0 .. N - 1 :
          whole[p] = IF p \in DOMAIN assignment THEN assignment[p] ELSE replicas[p]
    BY <1>1, <1>3, <2>2, <2>3, <2>4
  <2>6. /\ DOMAIN whole = DOMAIN assignment \cup DOMAIN replicas
        /\ \A p \in DOMAIN whole :
             whole[p] = IF p \in DOMAIN assignment THEN assignment[p] ELSE replicas[p]
    BY <2>2, <2>3, <2>4, <2>5
  <2>7. Over(assignment, replicas) = whole
    <3>1. whole = [p \in DOMAIN whole |-> whole[p]]
      BY <2>3
    <3>2. QED BY <2>6, <3>1, OverIs
  <2>8. QED BY <2>1, <2>7 DEF whole
<1>5. n # 0
  BY <1>1 DEF n
<1>6. QED BY <1>1, <1>2, <1>4, <1>5 DEF B, N, n

\* After a request that has arrived.
LEMMA CountOfLayout ==
  ASSUME NEW n \in Nat, NEW B \in Clusters
  PROVE  Cardinality(DOMAIN LayoutOver(B, n)) = n
  BY CountOfNumbers DEF LayoutOver

\* What a step may do to the assignments, the requests and the movements.
LEMMA LayoutChange ==
  ASSUME ControlInv, TopicInv, CoverInv, LayoutInv, [Next]_vars
  PROVE  LET B == described.brokers
             n == NumPartitions
         IN  \/ assignment' = assignment /\ ~CreateTopic /\ ~Alter /\ ~CreatePartitions
             \/ UNCHANGED kafkaVars /\ tpc' = "failed"
             \/ /\ CreateTopic /\ n = 0 /\ B \in Clusters
                /\ assignment' = LayoutOver(B, Cardinality(B))
             \/ /\ Alter /\ n \in Nat \ {0} /\ B \in Clusters /\ Partitions = 0 .. n - 1
                /\ \E accepted \in SUBSET Partitions : MoveReplicas(LayoutOver(B, n), accepted)
                /\ \/ tpc' = "failed"
                   \/ assignment' = LayoutOver(B, n) /\ tpc' = "list" /\ described' = described
             \/ /\ CreatePartitions /\ n \in 1 .. Cardinality(B) - 1 /\ B \in Clusters
                /\ assignment = LayoutOver(B, n)
                /\ assignment' = LayoutOver(B, Cardinality(B))
<1>1. CASE CreateTopic
  BY <1>1, CreateLaysOut
<1>2. CASE Alter
  BY <1>2, AlterLaysOut
<1>3. CASE CreatePartitions
  BY <1>3, GrowLaysOut
<1>4. CASE ~CreateTopic /\ ~Alter /\ ~CreatePartitions
  BY <1>4, OthersInv, AskStepInv DEF ReconcileStep
<1>5. QED BY <1>1, <1>2, <1>3, <1>4

\* The manager and the cluster take a reconcile no further.
LEMMA OthersLeaveReconcile ==
  ASSUME [Next]_vars, ~ReconcileStep
  PROVE  \/ tpc' = tpc /\ described' = described
         \/ tpc' \in {"idle", "openAdmin", "describeCluster"}
<1>1. CASE BreakConnection /\ UNCHANGED <<managerVars, clientVars>>
  BY <1>1 DEF BreakConnection
<1>2. CASE /\ ~Dies
           /\ \/ KafkaStep \/ OpenServices \/ StopCalled \/ LoopStops \/ CloseProducer
              \/ CloseConsumer \/ CheckLeaders \/ CloseConnection \/ CloseStatus
              \/ ProducerBackgroundRefresh \/ ConsumerBackgroundRefresh \/ UNCHANGED vars
  BY <1>2 DEF KafkaStep, OpenServices, StopCalled, LoopStops, CloseProducer, CloseConsumer,
              CheckLeaders, Closes, CloseConnection, CloseStatus, ProducerBackgroundRefresh,
              ConsumerBackgroundRefresh,
              vars, topicVars
<1>3. CASE StartReconcile \/ Tick \/ StartReconciled \/ Reconciled
  BY <1>3 DEF StartReconcile, Tick, StartReconciled, Reconciled, ReconcileCalled, Returned
<1>4. CASE Consume \/ RefreshProducer \/ RefreshConsumer
  BY <1>4 DEF Consume, RefreshProducer, RefreshConsumer, topicVars
<1>5. CASE FirstSend \/ LoopSend
  BY <1>5 DEF FirstSend, LoopSend, ResultTaken
<1>6. CASE Dies
  BY <1>6 DEF Dies
<1>7. CASE ~Dies /\ (Restart \/ CloseTopic)
  BY <1>7 DEF Restart, CloseTopic
<1>8. QED BY <1>1, <1>2, <1>3, <1>4, <1>5, <1>6, <1>7
             DEF Next, ManagerStep, TopicStep, Closed, Crash, CloseAfterDisconnectionFails

\* What a request that is neither of these leaves to the next.
LEMMA LayoutKept ==
  ASSUME [Next]_vars, ~CreateTopic, ~Alter, ~CreatePartitions
  PROVE  /\ tpc' # "describeAgain" \/ tpc = "describeAgain"
         /\ tpc' # "list" \/ tpc = "list"
         /\ tpc' # "grow" \/ tpc \in {"list", "grow"}
         /\ tpc' \in {"describeAgain", "list", "grow"} => described' = described
<1>1. CASE ReconcileStep
  <2> USE DEF Proceed, Fail, Finish, Decide, Reassigned
  <2>1. CASE OpenAdmin \/ DescribeCluster \/ AlterConfig \/ DescribeAgain
    BY <2>1 DEF OpenAdmin, DescribeCluster, AlterConfig, DescribeAgain
  <2>2. CASE DescribeTopic
    BY <2>2 DEF DescribeTopic
  <2>3. CASE ListMoves
    BY <2>3 DEF ListMoves
  <2>4. CASE RequestFails \/ ReconcileFailed
    BY <2>4 DEF RequestFails, ReconcileFailed
  <2>5. QED BY <1>1, <2>1, <2>2, <2>3, <2>4 DEF ReconcileStep
<1>2. CASE ~ReconcileStep
  BY <1>2, OthersLeaveReconcile
<1>3. QED BY <1>1, <1>2

LEMMA WholeIsLaidOut ==
  ASSUME NEW B \in Clusters, NEW m \in Nat, assignment = LayoutOver(B, m)
  PROVE  NumPartitions = m /\ PartitionsLaidOut
<1>1. NumPartitions = m
  BY CountOfLayout DEF NumPartitions, Partitions
<1>2. QED BY <1>1 DEF PartitionsLaidOut

LEMMA LayoutInit == Init => LayoutInv
<1> SUFFICES ASSUME Init PROVE LayoutInv
  OBVIOUS
<1>1. CASE assignment = << >>
  BY <1>1 DEF Init, TopicInit, LayoutInv, PartitionsLaidOut, Partitions
<1>2. ASSUME NEW B \in Clusters, assignment = RequestedAssignments(0, B) PROVE LayoutInv
  <2>1. assignment = LayoutOver(B, Cardinality(B)) /\ Cardinality(B) \in Nat
    BY <1>2, LayoutIs, ClusterSize
  <2>2. PartitionsLaidOut
    BY <2>1, WholeIsLaidOut
  <2>3. QED BY <2>2 DEF Init, TopicInit, LayoutInv
<1>3. QED BY <1>1, <1>2 DEF Init, KafkaInit, Clusters

LEMMA LayoutStep == ControlInv /\ TopicInv /\ CoverInv /\ LayoutInv /\ [Next]_vars => LayoutInv'
<1> SUFFICES ASSUME ControlInv, TopicInv, CoverInv, LayoutInv, [Next]_vars PROVE LayoutInv'
  OBVIOUS
<1> DEFINE B == described.brokers
           n == NumPartitions
<1>1. ASSUME assignment' = assignment PROVE NumPartitions' = n /\ PartitionsLaidOut'
  BY <1>1 DEF NumPartitions, Partitions, LayoutInv, PartitionsLaidOut
<1>2. ASSUME NEW m \in Nat, B \in Clusters, assignment' = LayoutOver(B, m)
      PROVE  NumPartitions' = m /\ PartitionsLaidOut'
  <2>1. NumPartitions' = m
    BY <1>2, CountOfLayout DEF NumPartitions, Partitions
  <2>2. QED BY <1>2, <2>1 DEF PartitionsLaidOut
<1>3. CASE assignment' = assignment /\ ~CreateTopic /\ ~Alter /\ ~CreatePartitions
  BY <1>1, <1>3, LayoutKept DEF LayoutInv
<1>4. CASE UNCHANGED kafkaVars /\ tpc' = "failed"
  BY <1>1, <1>4 DEF kafkaVars, LayoutInv
<1>5. CASE CreateTopic /\ B \in Clusters /\ assignment' = LayoutOver(B, Cardinality(B))
  <2>1. NumPartitions' = Cardinality(B) /\ PartitionsLaidOut'
    BY <1>2, <1>5, ClusterSize
  <2>2. (tpc' = "describeAgain" /\ described' = described) \/ tpc' = "failed"
    BY <1>5 DEF CreateTopic, Request, AnswerLost, Proceed, Fail
  <2>3. QED BY <1>5, <2>1, <2>2 DEF LayoutInv
<1>6. CASE /\ Alter /\ n \in Nat \ {0} /\ B \in Clusters
           /\ assignment' = LayoutOver(B, n) /\ tpc' = "list" /\ described' = described
  <2>1. NumPartitions' = n /\ PartitionsLaidOut'
    BY <1>2, <1>6
  <2>2. QED BY <1>6, <2>1 DEF LayoutInv
<1>7. ASSUME Alter, n \in Nat \ {0}, B \in Clusters, Partitions = 0 .. n - 1, tpc' = "failed",
             NEW accepted \in SUBSET Partitions, MoveReplicas(LayoutOver(B, n), accepted)
      PROVE  LayoutInv'
  <2>1. assignment' = [p \in Partitions |->
                        IF p \in accepted THEN LayoutOver(B, n)[p] ELSE assignment[p]]
    BY <1>7 DEF MoveReplicas
  <2>2. Partitions' = Partitions /\ NumPartitions' = n
    BY <2>1 DEF Partitions, NumPartitions
  <2>3. ASSUME NEW p \in Partitions
        PROVE  \E C \in Clusters : assignment'[p] = LayoutOver(C, n)[p]
    <3>1. CASE p \in accepted
      BY <1>7, <2>1, <3>1
    <3>2. CASE p \notin accepted
      BY <2>1, <3>2 DEF LayoutInv, PartitionsLaidOut
    <3>3. QED BY <3>1, <3>2
  <2>4. PartitionsLaidOut'
    BY <2>2, <2>3 DEF PartitionsLaidOut
  <2>5. QED BY <1>7, <2>4 DEF LayoutInv
<1>8. CASE CreatePartitions /\ B \in Clusters /\ assignment' = LayoutOver(B, Cardinality(B))
  <2>1. NumPartitions' = Cardinality(B) /\ PartitionsLaidOut'
    BY <1>2, <1>8, ClusterSize
  <2>2. tpc' \in {"done", "failed"}
    BY <1>8 DEF CreatePartitions, Request, AnswerLost, Reassigned, Finish, Fail
  <2>3. QED BY <2>1, <2>2 DEF LayoutInv
<1>9. QED BY <1>3, <1>4, <1>5, <1>6, <1>7, <1>8, LayoutChange

LEMMA LayoutInvariance == Spec => []LayoutInv
  BY LayoutInit, LayoutStep, Control, TopicInvariance, Covers, PTL DEF Spec

\* Whatever fails in a reconcile, or is refused in part, and wherever the process
\* dies, each partition has the replicas that some set of brokers asks for.
THEOREM EveryPartitionLaidOut == Spec => []PartitionsLaidOut
  BY LayoutInvariance, PTL DEF LayoutInv

\* TopicLayout, for the provers.
LEMMA SizeIs == \A S : TY!Cardinality(S) = Cardinality(S)
  BY Zenon DEF TY!Cardinality, Cardinality

LEMMA CountIs == TY!Count = NumPartitions
  BY SizeIs DEF TY!Count, NumPartitions, Partitions

LEMMA LayoutStepRefines ==
  ControlInv /\ TopicInv /\ CoverInv /\ LayoutInv /\ [Next]_vars => [TY!Next]_assignment
<1> SUFFICES ASSUME ControlInv, TopicInv, CoverInv, LayoutInv, [Next]_vars,
                    assignment' # assignment
             PROVE  TY!Next
  OBVIOUS
<1> DEFINE B == described.brokers
           n == NumPartitions
<1>1. ~UNCHANGED kafkaVars
  BY DEF kafkaVars
<1>2. CASE n = 0 /\ B \in Clusters /\ assignment' = LayoutOver(B, Cardinality(B))
  BY <1>2, CountIs, SizeIs DEF TY!Next, TY!Create
<1>3. CASE /\ B \in Clusters
           /\ \E moved \in SUBSET Partitions : MoveReplicas(LayoutOver(B, n), moved)
  <2>1. PICK moved \in SUBSET DOMAIN assignment :
          assignment' = [p \in DOMAIN assignment |->
                           IF p \in moved THEN LayoutOver(B, n)[p] ELSE assignment[p]]
    BY <1>3 DEF MoveReplicas, Partitions
  <2>2. TY!Move(B)
    BY <2>1, CountIs DEF TY!Move
  <2>3. QED BY <1>3, <2>2 DEF TY!Next
<1>4. CASE /\ n \in 1 .. Cardinality(B) - 1 /\ B \in Clusters /\ assignment = LayoutOver(B, n)
           /\ assignment' = LayoutOver(B, Cardinality(B))
  BY <1>4, CountIs, SizeIs DEF TY!Next, TY!Grow
<1>5. QED BY <1>1, <1>2, <1>3, <1>4, LayoutChange

\* Reconcile(), request by request and with all its failures, does to the topic
\* what TopicLayout does: creates it as a whole, moves any part of it towards one
\* layout, and extends it only when all of it is laid out alike.
THEOREM ManagerRefinesLayout == Spec => TopicKeepsLayout
<1>1. Init => TY!Init
  <2> SUFFICES ASSUME Init, assignment # << >>
               PROVE  \E B \in Clusters : assignment = LayoutOver(B, Cardinality(B))
    BY SizeIs DEF TY!Init
  <2>1. PICK B \in Clusters : assignment = RequestedAssignments(0, B)
    BY DEF Init, KafkaInit, Clusters
  <2>2. assignment = LayoutOver(B, Cardinality(B))
    BY <2>1, LayoutIs
  <2>3. QED BY <2>2
<1>2. QED BY <1>1, LayoutStepRefines, LayoutInvariance, Control, TopicInvariance, Covers, PTL
             DEF Spec, TopicKeepsLayout, TY!Spec

\* The last step of a reconcile that returns without an error.
LEMMA ReconcileReturns ==
  ASSUME TopicInv, CoverInv, LayoutInv, [Next]_vars,
         tpc # "done", tpc' = "done", error' = "none", expected = Dynamic
  PROVE  LET B == described.brokers
         IN  \/ /\ B \in Clusters /\ assignment' = assignment
                /\ assignment = LayoutOver(B, NumPartitions) /\ NumPartitions >= Cardinality(B)
             \/ CreatePartitions
<1> DEFINE B == described.brokers
           n == NumPartitions
<1>1. ReconcileStep
  BY OthersLeaveReconcile
<1>2. /\ tpc \in Described => B \in Clusters
      /\ n \in Nat /\ Cardinality(B) \in Nat
  BY DescribedCluster
<1> USE DEF Proceed, Fail
<1>3. CASE OpenAdmin \/ DescribeCluster \/ DescribeTopic \/ AlterConfig \/ RequestFails
             \/ CreateTopic \/ Alter
  BY <1>3 DEF OpenAdmin, DescribeCluster, DescribeTopic, AlterConfig, RequestFails, CreateTopic,
              Alter, Request, AnswerLost, Decide, Reassigns
<1>4. CASE DescribeAgain
  <2>1. tpc = "describeAgain" /\ assignment' = assignment
    BY <1>4 DEF DescribeAgain, kafkaVars
  <2>2. n = Cardinality(B) /\ assignment = LayoutOver(B, n)
    BY <2>1 DEF CoverInv, SeenInv, LayoutInv
  <2>3. QED BY <1>2, <2>1, <2>2 DEF Described
<1>5. CASE ListMoves
  <2>1. tpc = "list" /\ assignment' = assignment /\ ~(described.partitions < Cardinality(B))
    BY <1>5 DEF ListMoves, kafkaVars
  <2>2. described.partitions = n /\ assignment = LayoutOver(B, n)
    BY <2>1 DEF CoverInv, SeenInv, LayoutInv
  <2>3. QED BY <1>2, <2>1, <2>2 DEF Described
<1>6. CASE ReconcileFailed
  BY <1>6 DEF ReconcileFailed, CoverInv, ReportInv
<1>7. QED BY <1>1, <1>3, <1>4, <1>5, <1>6 DEF ReconcileStep

\* A reconcile in "dynamic" mode that returns without an error has laid out all the
\* partitions, those it found and those it has added, over the brokers it was told of.
THEOREM ReconcileAlwaysLaysOut == Spec => ReconcileLaysOut
<1>1. ControlInv /\ TopicInv /\ CoverInv /\ LayoutInv /\ [Next]_vars =>
        [tpc # "done" /\ tpc' = "done" /\ error' = "none" /\ expected = Dynamic
           => assignment' = RequestedAssignments(NumPartitions', described.brokers)]_vars
  <2> SUFFICES ASSUME ControlInv, TopicInv, CoverInv, LayoutInv, [Next]_vars,
                      tpc # "done", tpc' = "done", error' = "none", expected = Dynamic
               PROVE  assignment' = RequestedAssignments(NumPartitions', described.brokers)
    OBVIOUS
  <2> DEFINE B == described.brokers
             n == NumPartitions
  <2>1. ASSUME B \in Clusters, NEW m \in Nat, m >= Cardinality(B), assignment' = LayoutOver(B, m)
        PROVE  assignment' = RequestedAssignments(NumPartitions', B)
    <3>1. NumPartitions' = m
      BY <2>1, CountOfLayout DEF NumPartitions, Partitions
    <3>2. QED BY <2>1, <3>1, LayoutIs
  <2>2. CASE CreatePartitions
    <3>1. B \in Clusters /\ assignment' = LayoutOver(B, Cardinality(B))
      BY <2>2, GrowLaysOut
    <3>2. Cardinality(B) \in Nat /\ Cardinality(B) >= Cardinality(B)
      BY <3>1, ClusterSize
    <3>3. QED BY <2>1, <3>1, <3>2
  <2>3. CASE /\ B \in Clusters /\ assignment' = assignment
             /\ assignment = LayoutOver(B, n) /\ n >= Cardinality(B)
    <3>1. n \in Nat
      BY DescribedCluster
    <3>2. QED BY <2>1, <2>3, <3>1
  <2>4. QED BY <2>2, <2>3, ReconcileReturns
<1>2. QED BY <1>1, LayoutInvariance, Control, TopicInvariance, Covers, PTL
             DEF Spec, ReconcileLaysOut

\* What the cluster and the other steps make of the movements.
LEMMA MovesEnd ==
  [Next]_vars /\ ~CreateTopic /\ ~Alter /\ ~CreatePartitions => moving' \subseteq moving
<1>1. KafkaNext => moving' \subseteq moving
  BY DEF KafkaNext, BrokerUp, BrokerDown, ElectLeader, ElectPreferred, FinishMove
<1>2. UNCHANGED kafkaVars => moving' \subseteq moving
  BY DEF kafkaVars
<1>3. QED BY <1>1, <1>2, WhatChangesCluster

\* A reconcile that finds the topic laid out over the brokers it is told of moves
\* no replica and adds no partition, in any of its steps.
THEOREM LaidOutAlwaysLeftAlone == Spec => LaidOutIsLeftAlone
<1>1. ControlInv /\ TopicInv /\ CoverInv /\ LayoutInv /\ [Next]_vars =>
        [~NoTopic /\ assignment = RequestedAssignments(NumPartitions, described.brokers)
           => assignment' = assignment /\ moving' \subseteq moving]_vars
  <2> SUFFICES ASSUME ControlInv, TopicInv, CoverInv, LayoutInv, [Next]_vars, ~NoTopic,
                      assignment = RequestedAssignments(NumPartitions, described.brokers)
               PROVE  assignment' = assignment /\ moving' \subseteq moving
    OBVIOUS
  <2> DEFINE B == described.brokers
             n == NumPartitions
  <2>1. n \in Nat /\ n # 0
    BY DescribedCluster DEF NoTopic
  <2>2. ASSUME B \in Clusters PROVE n >= Cardinality(B) /\ assignment = LayoutOver(B, n)
    <3>1. DOMAIN assignment = 0 .. MaxOf(n, Cardinality(B)) - 1 /\ Cardinality(B) \in Nat
      BY <2>1, <2>2, ReplicasOf, ClusterSize
    <3>2. MaxOf(n, Cardinality(B)) \in Nat
      BY <2>1, <3>1 DEF MaxOf
    <3>3. n = MaxOf(n, Cardinality(B))
      <4>1. Cardinality(DOMAIN assignment) = MaxOf(n, Cardinality(B))
        BY <3>1, <3>2, CountOfNumbers
      <4>2. QED BY <4>1 DEF NumPartitions, Partitions
    <3>4. n >= Cardinality(B)
      BY <2>1, <3>1, <3>3 DEF MaxOf
    <3>5. QED BY <2>1, <2>2, <3>4, LayoutIs
  <2>3. CASE CreateTopic
    BY <2>1, <2>3, CreateLaysOut
  <2>4. CASE Alter
    <3> DEFINE replicas == LayoutOver(B, n)
    <3>1. B \in Clusters /\ \E accepted \in SUBSET Partitions : MoveReplicas(replicas, accepted)
      BY <2>4, AlterLaysOut
    <3>2. assignment = replicas /\ assignment = [p \in Partitions |-> assignment[p]]
      <4>1. replicas = [p \in 0 .. n - 1 |-> Replicas(B, p)]
        BY <2>1, <3>1, LayoutIs
      <4>2. assignment = replicas
        BY <2>2, <3>1
      <4> HIDE DEF replicas
      <4>3. QED BY <4>1, <4>2 DEF Partitions
    <3> HIDE DEF replicas
    <3>3. PICK accepted \in SUBSET Partitions : MoveReplicas(replicas, accepted)
      BY <3>1
    <3>4. assignment' = assignment
      <4>1. assignment' = [p \in Partitions |-> assignment[p]]
        BY <3>2, <3>3 DEF MoveReplicas
      <4>2. QED BY <3>2, <4>1
    <3>5. moving' = moving
      <4>1. {p \in accepted : Range(replicas[p]) # Range(assignment[p])} = {}
        BY <3>2
      <4>2. QED BY <3>3, <4>1 DEF MoveReplicas
    <3>6. QED BY <3>4, <3>5
  <2>5. CASE CreatePartitions
    <3>1. B \in Clusters /\ n \in 1 .. Cardinality(B) - 1
      BY <2>5, GrowLaysOut
    <3>2. QED BY <2>2, <3>1, ClusterSize
  <2>6. CASE ~CreateTopic /\ ~Alter /\ ~CreatePartitions
    <3>1. assignment' = assignment
      BY <2>6, OthersInv, AskStepInv DEF ReconcileStep
    <3>2. QED BY <2>6, <3>1, MovesEnd
  <2>7. QED BY <2>3, <2>4, <2>5, <2>6
<1>2. QED BY <1>1, LayoutInvariance, Control, TopicInvariance, Covers, PTL
             DEF Spec, LaidOutIsLeftAlone

\* No request, whatever was lost or cut off before it, leaves a partition with two
\* replicas on the same broker.
THEOREM ReplicasStayApart ==
  Spec => [](\A p \in Partitions : Cardinality(Range(assignment[p])) = Len(assignment[p]))
<1>1. CoverInv /\ PartitionsLaidOut =>
        \A p \in Partitions : Cardinality(Range(assignment[p])) = Len(assignment[p])
  <2> SUFFICES ASSUME CoverInv, PartitionsLaidOut, NEW p \in Partitions
               PROVE  Cardinality(Range(assignment[p])) = Len(assignment[p])
    OBVIOUS
  <2>1. NumPartitions \in Nat /\ p \in 0 .. NumPartitions - 1
    BY DEF CoverInv, Numbered
  <2>2. PICK B \in Clusters : assignment[p] = LayoutOver(B, NumPartitions)[p]
    BY DEF PartitionsLaidOut
  <2>3. assignment[p] = RequestedAssignments(NumPartitions, B)[p]
    BY <2>1, <2>2 DEF LayoutOver
  <2>4. p \in 0 .. MaxOf(NumPartitions, Cardinality(B)) - 1
    BY <2>1, ClusterSize DEF MaxOf
  <2>5. QED BY <2>1, <2>3, <2>4, DistinctReplicas
<1>2. QED BY <1>1, LayoutInvariance, Covers, PTL DEF LayoutInv
=============================================================================
