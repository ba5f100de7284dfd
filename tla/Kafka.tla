-------------------------------- MODULE Kafka --------------------------------
(***************************************************************************)
(* The Kafka cluster as internal/services/topic.go uses it through the     *)
(* admin client: brokers that come and go, and the canary topic.  External *)
(* code; the canary changes it only by the requests of TopicService.       *)
(***************************************************************************)
EXTENDS TopicAssignments, Sequences, Functions, TLC

CONSTANT MaxScalings  \* bound on the brokers that come or go

VARIABLES
  brokers,     \* the brokers that run
  assignment,  \* partition -> replicas, once movements end; empty: no topic
  leaders,     \* partition -> its leader, -1 for none
  moving,      \* partitions whose reassignment is going on
  scalings     \* brokers that came or went so far

kafkaVars == <<brokers, assignment, leaders, moving, scalings>>

-----------------------------------------------------------------------------
Partitions == DOMAIN assignment
NumPartitions == Cardinality(Partitions)
NoTopic == NumPartitions = 0

\* A leader elected for the replicas: the first that runs.
FirstAlive(replicas) ==
  LET alive == {r \in DOMAIN replicas : replicas[r] \in brokers}
  IN  IF alive = {} THEN -1
      ELSE replicas[CHOOSE r \in alive : \A s \in alive : r <= s]

\* No topic, or the one a canary left to a cluster of brokers of then.
KafkaInit ==
  /\ brokers \in (SUBSET BrokerIds) \ {{}}
  /\ \/ assignment = << >>
     \/ \E B \in (SUBSET BrokerIds) \ {{}} : assignment = RequestedAssignments(0, B)
  /\ leaders = [p \in Partitions |-> FirstAlive(assignment[p])]
  /\ moving = {}
  /\ scalings = 0

BrokerUp ==
  /\ scalings < MaxScalings
  /\ \E b \in BrokerIds \ brokers : brokers' = brokers \cup {b}
  /\ scalings' = scalings + 1
  /\ UNCHANGED <<assignment, leaders, moving>>

BrokerDown ==
  /\ scalings < MaxScalings
  /\ \E b \in brokers : brokers # {b} /\ brokers' = brokers \ {b}
  /\ scalings' = scalings + 1
  /\ UNCHANGED <<assignment, leaders, moving>>

\* The controller gives a partition another leader when its leader is gone or
\* not a replica any more.
ElectLeader(p) ==
  /\ leaders[p] \notin Range(assignment[p]) \cap brokers
  /\ leaders' = [leaders EXCEPT ![p] = FirstAlive(assignment[p])]
  /\ leaders' # leaders
  /\ UNCHANGED <<brokers, assignment, moving, scalings>>

\* It may also bring the leadership back to the preferred leader.
ElectPreferred(p) ==
  /\ assignment[p][1] \in brokers /\ leaders[p] # assignment[p][1]
  /\ leaders' = [leaders EXCEPT ![p] = assignment[p][1]]
  /\ UNCHANGED <<brokers, assignment, moving, scalings>>

\* A movement of replicas ends if all its brokers run.
FinishMove(p) ==
  /\ p \in moving /\ Range(assignment[p]) \subseteq brokers
  /\ moving' = moving \ {p}
  /\ UNCHANGED <<brokers, assignment, leaders, scalings>>

KafkaNext ==
  \/ BrokerUp \/ BrokerDown
  \/ \E p \in Partitions : ElectLeader(p) \/ ElectPreferred(p) \/ FinishMove(p)

\* What the controller does sooner or later.
KafkaSettles == \E p \in Partitions : ElectLeader(p) \/ FinishMove(p)

KafkaTypeOK ==
  /\ brokers \in (SUBSET BrokerIds) \ {{}}
  /\ \E n \in 0 .. Cardinality(BrokerIds) : Partitions = 0 .. n - 1
  /\ leaders \in [Partitions -> BrokerIds \cup {-1}]
  /\ moving \subseteq Partitions
  /\ scalings \in 0 .. MaxScalings

-------------------------- (* requests of the canary *) ----------------------
\* One that adds partitions is refused if it names a broker that does not run.
Accepts(replicas) == \A p \in DOMAIN replicas : Range(replicas[p]) \subseteq brokers

\* f, and g where f is not defined: the @@ of TLC, which the provers do not know.
Over(f, g) ==
  [p \in DOMAIN f \cup DOMAIN g |-> IF p \in DOMAIN f THEN f[p] ELSE g[p]]

\* CreateTopic, or CreatePartitions, with these replicas.
AddPartitions(replicas) ==
  /\ assignment' = Over(assignment, replicas)
  /\ leaders' = Over(leaders, [p \in DOMAIN replicas |-> replicas[p][1]])
  /\ UNCHANGED <<brokers, moving, scalings>>

\* A reassignment is decided partition by partition: one is refused if a replica is
\* added on a broker that does not run.  For a partition that is moving already
\* the controller goes by its replicas before that movement, which are not in the
\* model: if the request names such a broker, it may be accepted or refused.
Decided(replicas, accepted) ==
  \A p \in DOMAIN replicas :
    LET gone == Range(replicas[p]) \ brokers IN
    /\ gone = {} => p \in accepted
    /\ p \notin moving => (p \in accepted <=> gone \subseteq Range(assignment[p]))

\* AlterPartitionReassignments: an accepted partition whose replicas change starts
\* moving.
MoveReplicas(replicas, accepted) ==
  /\ assignment' = [p \in Partitions |-> IF p \in accepted THEN replicas[p] ELSE assignment[p]]
  /\ moving' = moving \cup {p \in accepted : Range(replicas[p]) # Range(assignment[p])}
  /\ UNCHANGED <<brokers, leaders, scalings>>
=============================================================================
