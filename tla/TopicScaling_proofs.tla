-------------------------- MODULE TopicScaling_proofs --------------------------
(***************************************************************************)
(* What each reconcile leaves of the topic, for every set of brokers and   *)
(* racks: replicas on distinct brokers, every broker in the lead, and      *)
(* racks that are all of one size alternate.                               *)
(***************************************************************************)
EXTENDS TopicScaling, TopicAssignments_proofs

-----------------------------------------------------------------------------
(* The topic: what each reconcile leaves is what it has requested. *)

ScalingInv ==
  \/ described = {} /\ assignment = << >>
  \/ /\ described \in Clusters
     /\ \E n \in 0 .. Cardinality(BrokerIds) : assignment = RequestedAssignments(n, described)

LEMMA PartitionsOf ==
  ASSUME NEW n \in 0 .. Cardinality(BrokerIds), NEW B \in Clusters
  PROVE  LET a == RequestedAssignments(n, B)
         IN  /\ DOMAIN a = 0 .. MaxOf(n, Cardinality(B)) - 1
             /\ Cardinality(DOMAIN a) = MaxOf(n, Cardinality(B))
             /\ MaxOf(n, Cardinality(B)) \in 0 .. Cardinality(BrokerIds)
<1>1. Cardinality(BrokerIds) \in Nat /\ Cardinality(B) \in Nat /\ n \in Nat
      /\ Cardinality(B) <= Cardinality(BrokerIds)
  <2>1. IsFiniteSet(BrokerIds) /\ B \in SUBSET BrokerIds
    BY BrokersAssumption DEF Clusters
  <2>2. QED BY <2>1, FS_Subset, FS_CardinalityType
<1>2. MaxOf(n, Cardinality(B)) \in 0 .. Cardinality(BrokerIds)
  BY <1>1 DEF MaxOf
<1> DEFINE m == MaxOf(n, Cardinality(B))
<1>3. DOMAIN RequestedAssignments(n, B) = 0 .. m - 1
  BY DEF RequestedAssignments, RequestedPartitions
<1> HIDE DEF m
<1>4. Cardinality(0 .. m - 1) = m
  BY <1>2, FS_Interval DEF m
<1>5. QED BY <1>2, <1>3, <1>4 DEF m

LEMMA ScalingStep == ScalingInv /\ [Next]_vars => ScalingInv'
<1> SUFFICES ASSUME ScalingInv, [Next]_vars PROVE ScalingInv'
  OBVIOUS
<1>1. CASE UNCHANGED vars
  BY <1>1 DEF vars, ScalingInv
<1>2. ASSUME NEW B \in Clusters, CreateTopic(B) PROVE ScalingInv'
  <2>1. 0 \in 0 .. Cardinality(BrokerIds)
    BY BrokersAssumption, FS_CardinalityType
  <2>2. QED BY <1>2, <2>1 DEF CreateTopic, ScalingInv
<1>3. ASSUME NEW B \in Clusters, Reassign(B) PROVE ScalingInv'
  <2>1. CurrentPartitions \in 0 .. Cardinality(BrokerIds)
    <3>1. CASE described = {} /\ assignment = << >>
      <4>1. CurrentPartitions = 0
        BY <3>1, FS_EmptySet DEF CurrentPartitions
      <4>2. QED BY <1>3, <4>1 DEF Reassign
    <3>2. CASE ~ (described = {} /\ assignment = << >>)
      BY <3>2, PartitionsOf DEF ScalingInv, CurrentPartitions
    <3>3. QED BY <3>1, <3>2
  <2>2. QED BY <1>3, <2>1 DEF Reassign, ScalingInv
<1>4. QED BY <1>1, <1>2, <1>3 DEF Next

LEMMA ScalingInvariance == Spec => []ScalingInv
<1>1. Init => ScalingInv
  BY DEF Init, ScalingInv
<1>2. QED BY <1>1, ScalingStep, PTL DEF Spec

\* Partitions are numbered from 0 and their replicas are brokers, whatever brokers
\* come and go between any reconciles.
THEOREM ScalingTypeCorrect == Spec => []TypeOK
<1>1. ScalingInv => TypeOK
  <2> SUFFICES ASSUME ScalingInv PROVE TypeOK
    OBVIOUS
  <2>1. CASE described = {} /\ assignment = << >>
    <3>1. 0 \in 0 .. Cardinality(BrokerIds) /\ 0 .. 0 - 1 = {} /\ DOMAIN assignment = {}
      BY <2>1, BrokersAssumption, FS_CardinalityType
    <3>2. QED BY <2>1, <3>1 DEF TypeOK
  <2>2. ASSUME NEW n \in 0 .. Cardinality(BrokerIds), described \in Clusters,
               assignment = RequestedAssignments(n, described)
        PROVE  TypeOK
    <3> DEFINE m == MaxOf(n, Cardinality(described))
    <3>1. m \in 0 .. Cardinality(BrokerIds) /\ DOMAIN assignment = 0 .. m - 1
      BY <2>2, PartitionsOf
    <3>2. ASSUME NEW p \in DOMAIN assignment PROVE Range(assignment[p]) \subseteq BrokerIds
      <4>1. /\ DOMAIN assignment[p] = 1 .. ReplicationFactor(described)
            /\ \A r \in 1 .. ReplicationFactor(described) : assignment[p][r] \in described
        BY <2>2, <3>1, ReplicasAre
      <4>2. QED BY <2>2, <4>1 DEF Range, Clusters
    <3>3. described \in SUBSET BrokerIds
      BY <2>2 DEF Clusters
    <3> HIDE DEF m
    <3>4. QED BY <3>1, <3>2, <3>3 DEF TypeOK
  <2>3. QED BY <2>1, <2>2 DEF ScalingInv
<1>2. QED BY <1>1, ScalingInvariance, PTL

\* No partition ever gets two replicas on the same broker, for any set of brokers,
\* in any racks or none.
THEOREM ReplicasAlwaysDistinct == Spec => []ReplicasOnDistinctBrokers
<1>1. ScalingInv => ReplicasOnDistinctBrokers
  <2> SUFFICES ASSUME ScalingInv, NEW p \in DOMAIN assignment
               PROVE  Cardinality(Range(assignment[p])) = Len(assignment[p])
    BY DEF ReplicasOnDistinctBrokers
  <2>1. PICK n \in 0 .. Cardinality(BrokerIds) :
          described \in Clusters /\ assignment = RequestedAssignments(n, described)
    BY DEF ScalingInv
  <2>2. p \in 0 .. MaxOf(n, Cardinality(described)) - 1
    BY <2>1, PartitionsOf
  <2>3. QED BY <2>1, <2>2, DistinctReplicas
<1>2. QED BY <1>1, ScalingInvariance, PTL

\* Every broker leads a partition after each reconcile, and none two more than
\* another, for any number of brokers and partitions.
THEOREM EveryBrokerAlwaysLeads == Spec => []EveryBrokerLeads
<1>1. ScalingInv => EveryBrokerLeads
  <2> SUFFICES ASSUME ScalingInv PROVE EveryBrokerLeads
    OBVIOUS
  <2> DEFINE Led(b) == Cardinality({p \in DOMAIN assignment : assignment[p][1] = b})
  <2>1. CASE described = {}
    BY <2>1 DEF EveryBrokerLeads
  <2>2. ASSUME NEW n \in 0 .. Cardinality(BrokerIds), described \in Clusters,
               assignment = RequestedAssignments(n, described),
               NEW b \in described, NEW c \in described
        PROVE  Led(b) \in Nat \ {0} /\ Led(b) <= Led(c) + 1
    <3> DEFINE N == Cardinality(described)
               m == MaxOf(n, N)
    <3>1. N \in Nat \ {0} /\ described \in SUBSET BrokerIds /\ n \in Nat
      BY <2>2, ClusterSize
    <3>2. m \in Nat /\ m >= N
      BY <3>1 DEF MaxOf
    <3>3. Place(described, b) \in 0 .. N - 1 /\ Place(described, c) \in 0 .. N - 1
      BY <3>1, OrderIs
    <3>4. /\ Led(b) = Cardinality(Turns(m, N, Place(described, b)))
          /\ Led(c) = Cardinality(Turns(m, N, Place(described, c)))
      <4> DEFINE a == RequestedAssignments(n, described)
      <4>1. /\ {p \in DOMAIN a : a[p][1] = b} = Turns(m, N, Place(described, b))
            /\ {p \in DOMAIN a : a[p][1] = c} = Turns(m, N, Place(described, c))
        BY <2>2, <3>1, LeadsInTurn
      <4>2. a = assignment
        BY <2>2
      <4> HIDE DEF a
      <4>3. QED BY <4>1, <4>2
    <3> HIDE DEF m, N, Led
    <3>5. QED BY <3>1, <3>2, <3>3, <3>4, TurnsAlike
  <2>3. CASE described # {}
    <3>1. \A b, c \in described : Led(b) \in Nat \ {0} /\ Led(b) <= Led(c) + 1
      BY <2>2, <2>3 DEF ScalingInv
    <3>2. QED BY <3>1 DEF EveryBrokerLeads
  <2>4. QED BY <2>1, <2>3
<1>2. QED BY <1>1, ScalingInvariance, PTL

-----------------------------------------------------------------------------
(* The racks.  In racks of the same size, two brokers of one rack have one of *)
(* every other rack between them, and one of every other rack around them.    *)

Racked(B) == \A b \in B : Rack[b] # NoRack
Even(B) == \A b, c \in B : Cardinality(RackMates(B, b)) = Cardinality(RackMates(B, c))

LEMMA FitsInInterval ==
  ASSUME NEW S, NEW lo \in Int, NEW hi \in Int, lo <= hi + 1, NEW f \in [S -> lo .. hi],
         \A x, y \in S : f[x] = f[y] => x = y
  PROVE  IsFiniteSet(S) /\ Cardinality(S) <= hi - lo + 1
<1>1. f \in Injection(S, lo .. hi)
  BY DEF Injection, IsInjective
<1>2. IsFiniteSet(lo .. hi) /\ Cardinality(lo .. hi) = hi - lo + 1
  BY FS_Interval
<1>3. QED BY <1>1, <1>2, FS_Injection

\* Two brokers of a rack, and a third in another rack.
LEMMA BetweenAndAround ==
  ASSUME NEW B \in SUBSET BrokerIds, Racked(B), Even(B),
         NEW b \in B, NEW c \in B, Rack[b] = Rack[c], Precedes(B, b, c),
         NEW e \in B, Rack[e] # Rack[b]
  PROVE  /\ \E d \in B : Rack[d] = Rack[e] /\ Precedes(B, b, d) /\ Precedes(B, d, c)
         /\ \E d \in B : Rack[d] = Rack[e] /\ (Precedes(B, c, d) \/ Precedes(B, d, b))
<1> DEFINE t == RankInRack(B, b)
           u == RankInRack(B, c)
           s == Cardinality(RackMates(B, e))
           F == FirstOfRack(B, b)
           G == FirstOfRack(B, e)
<1>1. \A x, y \in B : Precedes(B, x, y) <=> RackAlternated(B, x, y)
  BY DEF Precedes, Racked
<1>2. /\ t \in Int /\ u \in Int /\ s \in Nat
      /\ t \in 0 .. s - 1 /\ u \in 0 .. s - 1
  <2>1. /\ t \in Int /\ t \in 0 .. Cardinality(RackMates(B, b)) - 1
        /\ u \in Int /\ u \in 0 .. Cardinality(RackMates(B, c)) - 1
    BY RankInRackIs
  <2>2. Cardinality(RackMates(B, b)) = s /\ Cardinality(RackMates(B, c)) = s
    BY DEF Even
  <2>3. RackMates(B, e) \in SUBSET BrokerIds
    BY DEF RackMates
  <2>4. QED BY <2>1, <2>2, <2>3, FiniteBrokers
<1>3. F \in Int /\ G \in Int /\ F # G /\ FirstOfRack(B, c) = F
  BY FirstOfRackIs
<1>4. t < u
  BY <1>1, <1>2, <1>3 DEF RackAlternated
<1>5. ASSUME NEW i \in 0 .. s - 1
      PROVE  \E d \in B : Rack[d] = Rack[e] /\ RankInRack(B, d) = i /\ FirstOfRack(B, d) = G
  <2>1. PICK d \in RackMates(B, e) : RankInRack(B, d) = i
    BY RankInRackIs
  <2>2. d \in B /\ Rack[d] = Rack[e]
    BY DEF RackMates
  <2>3. QED BY <2>1, <2>2, FirstOfRackIs
<1> HIDE DEF t, u, s, F, G
<1>6. CASE F < G
  <2>1. PICK d \in B : Rack[d] = Rack[e] /\ RankInRack(B, d) = t /\ FirstOfRack(B, d) = G
    BY <1>2, <1>5
  <2>2. PICK x \in B : Rack[x] = Rack[e] /\ RankInRack(B, x) = u /\ FirstOfRack(B, x) = G
    BY <1>2, <1>5
  <2>3. Precedes(B, b, d) /\ Precedes(B, d, c)
    BY <1>1, <1>4, <1>6, <2>1 DEF RackAlternated, t, u, F
  <2>4. Precedes(B, c, x)
    BY <1>1, <1>3, <1>6, <2>2 DEF RackAlternated, u
  <2>5. QED BY <2>1, <2>2, <2>3, <2>4
<1>7. CASE ~ (F < G)
  <2>1. G < F /\ t + 1 \in 0 .. s - 1 /\ t < t + 1 /\ (t + 1 < u \/ t + 1 = u)
    BY <1>2, <1>3, <1>4, <1>7
  <2>2. PICK d \in B : Rack[d] = Rack[e] /\ RankInRack(B, d) = t + 1 /\ FirstOfRack(B, d) = G
    BY <1>5, <2>1
  <2>3. PICK x \in B : Rack[x] = Rack[e] /\ RankInRack(B, x) = t /\ FirstOfRack(B, x) = G
    BY <1>2, <1>5
  <2>4. RackAlternated(B, b, d)
    BY <2>1, <2>2 DEF RackAlternated, t
  <2>5. RackAlternated(B, d, c)
    BY <1>3, <2>1, <2>2 DEF RackAlternated, u
  <2>6. RackAlternated(B, x, b)
    BY <2>1, <2>3 DEF RackAlternated, t, F
  <2>7. QED BY <1>1, <2>2, <2>3, <2>4, <2>5, <2>6
<1>8. QED BY <1>6, <1>7

LEMMA RackMatesApart ==
  ASSUME NEW B \in Clusters, Racked(B), Even(B),
         NEW b \in B, NEW c \in B, Rack[b] = Rack[c], Place(B, b) < Place(B, c)
  PROVE  LET gap == Place(B, c) - Place(B, b)
             racks == Cardinality(RacksOf(B))
         IN  racks <= gap /\ racks <= Cardinality(B) - gap
<1> DEFINE others == RacksOf(B) \ {Rack[b]}
           N == Cardinality(B)
           x == Place(B, b)
           y == Place(B, c)
<1>1. /\ B \in SUBSET BrokerIds /\ N \in Nat \ {0} /\ IsFiniteSet(B)
      /\ x \in 0 .. N - 1 /\ y \in 0 .. N - 1
  BY ClusterSize, OrderIs
<1>2. /\ \A d \in B : Place(B, d) \in 0 .. N - 1
      /\ \A d, e \in B : Precedes(B, d, e) <=> Place(B, d) < Place(B, e)
      /\ \A d, e \in B : Place(B, d) = Place(B, e) => d = e
  BY <1>1, OrderIs
<1>3. Precedes(B, b, c)
  BY <1>2
<1>4. /\ \A r \in others : \E d \in B : Rack[d] = r /\ x < Place(B, d) /\ Place(B, d) < y
      /\ \A r \in others : \E d \in B : Rack[d] = r /\ (y < Place(B, d) \/ Place(B, d) < x)
  <2> SUFFICES ASSUME NEW r \in others
               PROVE  /\ \E d \in B : Rack[d] = r /\ x < Place(B, d) /\ Place(B, d) < y
                      /\ \E d \in B : Rack[d] = r /\ (y < Place(B, d) \/ Place(B, d) < x)
    OBVIOUS
  <2>1. PICK e \in B : Rack[e] = r /\ Rack[e] # Rack[b]
    BY DEF RacksOf
  <2>2. /\ \E d \in B : Rack[d] = r /\ Precedes(B, b, d) /\ Precedes(B, d, c)
        /\ \E d \in B : Rack[d] = r /\ (Precedes(B, c, d) \/ Precedes(B, d, b))
    BY <1>1, <1>3, <2>1, BetweenAndAround
  <2>3. QED BY <1>2, <2>2
<1> HIDE DEF others, N, x, y
<1>5. IsFiniteSet(others) /\ Cardinality(others) <= (y - 1) - (x + 1) + 1
  <2> DEFINE at == [r \in others |->
               CHOOSE d \in B : Rack[d] = r /\ x < Place(B, d) /\ Place(B, d) < y]
             f == [r \in others |-> Place(B, at[r])]
  <2>1. \A r \in others :
          at[r] \in B /\ Rack[at[r]] = r /\ x < Place(B, at[r]) /\ Place(B, at[r]) < y
    BY <1>4
  <2> HIDE DEF at
  <2>2. f \in [others -> x + 1 .. y - 1]
    BY <1>1, <1>2, <2>1
  <2>3. \A q, r \in others : f[q] = f[r] => q = r
    BY <1>2, <2>1
  <2> HIDE DEF f
  <2>4. x + 1 \in Int /\ y - 1 \in Int /\ x + 1 <= y - 1 + 1
    BY <1>1 DEF x, y
  <2>5. QED BY <2>2, <2>3, <2>4, FitsInInterval
<1>6. Cardinality(others) <= (x - 1) - (y + 1 - N) + 1
  <2> DEFINE at == [r \in others |->
               CHOOSE d \in B : Rack[d] = r /\ (y < Place(B, d) \/ Place(B, d) < x)]
             f == [r \in others |->
               IF y < Place(B, at[r]) THEN Place(B, at[r]) - N ELSE Place(B, at[r])]
  <2>1. \A r \in others :
          at[r] \in B /\ Rack[at[r]] = r /\ (y < Place(B, at[r]) \/ Place(B, at[r]) < x)
    BY <1>4
  <2> HIDE DEF at
  <2>2. f \in [others -> y + 1 - N .. x - 1]
    BY <1>1, <1>2, <2>1
  <2>3. \A q, r \in others : f[q] = f[r] => q = r
    <3>1. \A r \in others : Place(B, at[r]) \in 0 .. N - 1
      BY <1>2, <2>1
    <3>2. \A q, r \in others : f[q] = f[r] => Place(B, at[q]) = Place(B, at[r])
      BY <1>1, <3>1
    <3>3. QED BY <1>2, <2>1, <3>2
  <2> HIDE DEF f
  <2>4. y + 1 - N \in Int /\ x - 1 \in Int /\ y + 1 - N <= x - 1 + 1
    BY <1>1
  <2>5. QED BY <2>2, <2>3, <2>4, FitsInInterval
<1>7. Cardinality(RacksOf(B)) = Cardinality(others) + 1 /\ Cardinality(others) \in Nat
  <2>1. RacksOf(B) = others \cup {Rack[b]} /\ Rack[b] \notin others
    BY DEF RacksOf, others
  <2>2. QED BY <1>5, <2>1, FS_AddElement, FS_CardinalityType
<1>8. QED BY <1>1, <1>5, <1>6, <1>7 DEF x, y, N

LEMMA ReplicasInRacks ==
  ASSUME NEW n \in Nat, NEW B \in Clusters, Racked(B), Even(B),
         ReplicationFactor(B) <= Cardinality(RacksOf(B)), Cardinality(RacksOf(B)) \in Nat,
         NEW p \in 0 .. MaxOf(n, Cardinality(B)) - 1
  PROVE  LET a == RequestedAssignments(n, B)
         IN  Cardinality(RacksOf(Range(a[p]))) = Len(a[p])
<1> DEFINE f == RequestedAssignments(n, B)[p]
           R == ReplicationFactor(B)
           N == Cardinality(B)
           K == Cardinality(RacksOf(B))
           g == [r \in 1 .. R |-> Rack[f[r]]]
<1>1. /\ DOMAIN f = 1 .. R /\ Len(f) = R /\ R \in 1 .. 3
      /\ \A r \in 1 .. R : f[r] \in B /\ Place(B, f[r]) = (p + (r - 1)) % N
  BY ReplicasAre, ClusterSize
<1>2. N \in Nat \ {0} /\ R <= N /\ p \in Nat /\ R <= K /\ K \in Nat
  BY ClusterSize DEF MaxOf
<1>3. \A r, s \in 1 .. R : r # s => Place(B, f[r]) # Place(B, f[s])
  <2>1. \A r, s \in 1 .. R : r # s => f[r] # f[s]
    BY ReplicasApart
  <2>2. B \in SUBSET BrokerIds
    BY DEF Clusters
  <2> HIDE DEF f, R
  <2>3. \A r \in 1 .. R : Order[B][Place(B, f[r])] = f[r]
    BY <1>1, <2>2, OrderIs
  <2>4. QED BY <2>1, <2>3
<1> HIDE DEF f, R, N, K
<1>4. ASSUME NEW r \in 1 .. R, NEW s \in 1 .. R, Place(B, f[r]) < Place(B, f[s])
      PROVE  Rack[f[r]] # Rack[f[s]]
  <2> SUFFICES ASSUME Rack[f[r]] = Rack[f[s]] PROVE FALSE
    OBVIOUS
  <2> DEFINE j == r - 1  k == s - 1
  <2>1. j \in 0 .. N - 1 /\ k \in 0 .. N - 1 /\ j - k < R /\ k - j < R
    BY <1>1, <1>2
  <2> HIDE DEF j, k
  <2>2. /\ p % N \in 0 .. N - 1
        /\ (p + j) % N = IF (p % N) + j < N THEN (p % N) + j ELSE (p % N) + j - N
        /\ (p + k) % N = IF (p % N) + k < N THEN (p % N) + k ELSE (p % N) + k - N
    BY <1>2, <2>1, ModShift
  <2>3. Place(B, f[r]) = (p + j) % N /\ Place(B, f[s]) = (p + k) % N
    BY <1>1 DEF j, k
  <2>4. /\ K <= Place(B, f[s]) - Place(B, f[r])
        /\ K <= N - (Place(B, f[s]) - Place(B, f[r]))
    BY <1>1, <1>4, RackMatesApart DEF K, N
  <2> DEFINE m == p % N  v == (p + j) % N  w == (p + k) % N
  <2>5. /\ m \in 0 .. N - 1
        /\ v = IF m + j < N THEN m + j ELSE m + j - N
        /\ w = IF m + k < N THEN m + k ELSE m + k - N
        /\ v < w /\ K <= w - v /\ K <= N - (w - v)
    BY <1>4, <2>2, <2>3, <2>4
  <2>6. R \in Int /\ N \in Int /\ K \in Int /\ m \in Int /\ j \in Int /\ k \in Int /\ R <= N /\ R <= K
    BY <1>1, <1>2, <2>1, <2>2
  <2> HIDE DEF m, v, w
  <2>7. CASE m + j < N /\ m + k < N
    <3>1. v = m + j /\ w = m + k
      BY <2>5, <2>7
    <3>2. QED BY <2>1, <2>5, <2>6, <3>1
  <2>8. CASE m + j < N /\ ~(m + k < N)
    <3>1. v = m + j /\ w = m + k - N
      BY <2>5, <2>8
    <3>2. QED BY <2>1, <2>5, <2>6, <3>1
  <2>9. CASE ~(m + j < N) /\ m + k < N
    <3>1. v = m + j - N /\ w = m + k
      BY <2>5, <2>9
    <3>2. QED BY <2>1, <2>5, <2>6, <3>1
  <2>10. CASE ~(m + j < N) /\ ~(m + k < N)
    <3>1. v = m + j - N /\ w = m + k - N
      BY <2>5, <2>10
    <3>2. QED BY <2>1, <2>5, <2>6, <3>1
  <2>11. QED BY <2>7, <2>8, <2>9, <2>10
<1>5. \A r, s \in 1 .. R : r # s => g[r] # g[s]
  <2>1. \A r \in 1 .. R : Place(B, f[r]) \in Int
    BY <1>1, <1>2, DivMod
  <2>2. QED BY <1>3, <1>4, <2>1
<1>6. g \in Bijection(1 .. R, RacksOf(Range(f)))
  <2>1. /\ g \in [1 .. R -> RacksOf(Range(f))]
        /\ \A y \in RacksOf(Range(f)) : \E r \in 1 .. R : g[r] = y
    BY <1>1 DEF Range, RacksOf
  <2>2. QED BY <1>5, <2>1 DEF Bijection, Injection, Surjection, IsInjective
<1>7. IsFiniteSet(1 .. R) /\ Cardinality(1 .. R) = R
  BY <1>1, UpTo
<1>8. Cardinality(RacksOf(Range(f))) = R
  BY <1>6, <1>7, FS_Bijection DEF ExistsBijection
<1>9. QED BY <1>1, <1>8 DEF f

\* In racks of the same size, and as many as replicas, the replicas of a partition
\* are in distinct racks, for any number of racks and brokers.
THEOREM ReplicasAlwaysSpread == Spec => []ReplicasSpreadOverRacks
<1>1. ScalingInv => ReplicasSpreadOverRacks
  <2> SUFFICES ASSUME ScalingInv,
                      \A b \in described : Rack[b] # NoRack,
                      \A r, s \in RacksOf(described) :
                        Cardinality(BrokersIn(r)) = Cardinality(BrokersIn(s)),
                      ~ (Cardinality(RacksOf(described)) < ReplicationFactor(described)),
                      NEW p \in DOMAIN assignment
               PROVE  Cardinality(RacksOf(Range(assignment[p]))) = Len(assignment[p])
    BY DEF ReplicasSpreadOverRacks
  <2>1. PICK n \in 0 .. Cardinality(BrokerIds) :
          described \in Clusters /\ assignment = RequestedAssignments(n, described)
    BY DEF ScalingInv
  <2>2. p \in 0 .. MaxOf(n, Cardinality(described)) - 1 /\ n \in Nat
    BY <2>1, PartitionsOf, BrokersAssumption, FS_CardinalityType
  <2>3. Racked(described)
    BY DEF Racked
  <2>4. Even(described)
    <3>1. \A b \in described : RackMates(described, b) = BrokersIn(Rack[b])
                               /\ Rack[b] \in RacksOf(described)
      BY DEF RackMates, BrokersIn, RacksOf
    <3>2. QED BY <3>1 DEF Even
  <2>5. Cardinality(RacksOf(described)) \in Nat
    <3> DEFINE f == [b \in described |-> Rack[b]]
    <3>1. f \in Surjection(described, RacksOf(described))
      BY DEF Surjection, RacksOf
    <3>2. IsFiniteSet(described)
      BY <2>1, ClusterSize
    <3> HIDE DEF f
    <3>3. QED BY <3>1, <3>2, FS_Surjection, FS_CardinalityType
  <2>6. ReplicationFactor(described) <= Cardinality(RacksOf(described))
    BY <2>1, <2>5, ClusterSize
  <2>7. QED BY <2>1, <2>2, <2>3, <2>4, <2>5, <2>6, ReplicasInRacks
<1>2. QED BY <1>1, ScalingInvariance, PTL

-----------------------------------------------------------------------------
(* The configuration. *)

AtMostTwo(c) == "min.insync.replicas" \in DOMAIN c => c["min.insync.replicas"] \in 1 .. 2

\* Neither the brokers' default nor TOPIC_CONFIG wants three replicas in sync.
ConfiguredForTwo == AtMostTwo(TopicConfig) /\ BrokerDefault["min.insync.replicas"] \in 1 .. 2

LEMMA ConfigStep ==
  ASSUME ConfiguredForTwo, AtMostTwo(config), [Next]_vars PROVE AtMostTwo(config')
<1>1. CASE UNCHANGED vars
  BY <1>1 DEF vars
<1>2. ASSUME NEW B \in Clusters, CreateTopic(B) PROVE AtMostTwo(config')
  <2>1. MinInsyncReplicas(B) \in 1 .. 2
    BY ClusterSize DEF MinInsyncReplicas, MaxOf
  <2>2. config'["min.insync.replicas"] = MinInsyncReplicas(B)
    BY <1>2 DEF CreateTopic
  <2>3. QED BY <2>1, <2>2 DEF AtMostTwo
<1>3. ASSUME NEW B \in Clusters, Reassign(B) PROVE AtMostTwo(config')
  BY <1>3 DEF Reassign, AlteredConfig, ConfiguredForTwo
<1>4. QED BY <1>1, <1>2, <1>3 DEF Next

\* However many brokers the topic was created on, and whatever brokers have come and
\* gone since: reconciled over three or more it takes records with acks=all with any
\* one of them down, over two with both up, if no one configures it for three
\* replicas in sync.
THEOREM AlwaysWritable ==
  ASSUME ConfiguredForTwo PROVE Spec => []WritableWithSpare
<1>1. Init => AtMostTwo(config)
  BY DEF Init, AtMostTwo
<1>2. AtMostTwo(config) /\ [Next]_vars => AtMostTwo(config)'
  BY ConfigStep
<1>3. Spec => []AtMostTwo(config)
  BY <1>1, <1>2, PTL DEF Spec
<1>4. ASSUME ScalingInv, AtMostTwo(config), Cardinality(described) > 1, NEW p \in DOMAIN assignment
      PROVE  LET replicas == Range(assignment[p])
             IN  /\ IsFiniteSet(replicas) /\ replicas # {}
                 /\ Cardinality(replicas) = ReplicationFactor(described)
                 /\ Entry("min.insync.replicas") \in 1 .. 2
  <2>1. PICK n \in 0 .. Cardinality(BrokerIds) :
          described \in Clusters /\ assignment = RequestedAssignments(n, described)
    BY <1>4 DEF ScalingInv
  <2>2. p \in 0 .. MaxOf(n, Cardinality(described)) - 1 /\ n \in Nat
    BY <1>4, <2>1, PartitionsOf, BrokersAssumption, FS_CardinalityType
  <2>3. /\ Len(assignment[p]) = ReplicationFactor(described)
        /\ Cardinality(Range(assignment[p])) = Len(assignment[p])
        /\ Range(assignment[p]) \subseteq described
    <3>1. /\ DOMAIN assignment[p] = 1 .. ReplicationFactor(described)
          /\ Len(assignment[p]) = ReplicationFactor(described)
          /\ \A r \in 1 .. ReplicationFactor(described) : assignment[p][r] \in described
      BY <2>1, <2>2, ReplicasAre
    <3>2. Cardinality(Range(assignment[p])) = Len(assignment[p])
      BY <2>1, <2>2, DistinctReplicas
    <3>3. Range(assignment[p]) \subseteq described
      BY <3>1 DEF Range
    <3>4. QED BY <3>1, <3>2, <3>3
  <2>4. ReplicationFactor(described) \in 1 .. 3 /\ IsFiniteSet(described)
    BY <2>1, ClusterSize
  <2>5. IsFiniteSet(Range(assignment[p]))
    BY <2>3, <2>4, FS_Subset
  <2>6. Range(assignment[p]) # {}
    BY <2>3, <2>4, FS_EmptySet
  <2>7. Entry("min.insync.replicas") \in 1 .. 2
    BY <1>4 DEF Entry, AtMostTwo, ConfiguredForTwo
  <2>8. QED BY <2>3, <2>5, <2>6, <2>7
<1>5. ASSUME ScalingInv PROVE Cardinality(described) \in Nat
  <2>1. CASE described = {}
    BY <2>1, FS_EmptySet
  <2>2. CASE described \in Clusters
    BY <2>2, ClusterSize
  <2>3. QED BY <1>5, <2>1, <2>2 DEF ScalingInv
<1>6. ASSUME ScalingInv, AtMostTwo(config), Cardinality(described) > 1 PROVE Writable({})
  <2> SUFFICES ASSUME NEW p \in DOMAIN assignment
               PROVE  Entry("min.insync.replicas") <= Cardinality(Range(assignment[p]) \ {})
    BY DEF Writable
  <2>1. Range(assignment[p]) \ {} = Range(assignment[p])
    OBVIOUS
  <2>2. ReplicationFactor(described) >= 2 /\ ReplicationFactor(described) \in Int
    BY <1>5, <1>6 DEF ReplicationFactor, MinOf
  <2>3. QED BY <1>4, <1>6, <2>1, <2>2
<1>7. ASSUME ScalingInv, AtMostTwo(config), Cardinality(described) > 2, NEW b \in described
      PROVE  Writable({b})
  <2> SUFFICES ASSUME NEW p \in DOMAIN assignment
               PROVE  Entry("min.insync.replicas") <= Cardinality(Range(assignment[p]) \ {b})
    BY DEF Writable
  <2> DEFINE replicas == Range(assignment[p])
  <2>1. ReplicationFactor(described) = 3 /\ Cardinality(described) > 1
    BY <1>5, <1>7 DEF ReplicationFactor, MinOf
  <2>2. /\ IsFiniteSet(replicas) /\ Cardinality(replicas) = 3
        /\ Entry("min.insync.replicas") \in 1 .. 2
    BY <1>4, <1>7, <2>1
  <2> HIDE DEF replicas
  <2>3. Cardinality(replicas \ {b}) \in {2, 3}
    BY <2>2, FS_RemoveElement
  <2>4. QED BY <2>2, <2>3 DEF replicas
<1>8. ScalingInv /\ AtMostTwo(config) => WritableWithSpare
  BY <1>6, <1>7 DEF WritableWithSpare
<1>9. QED BY <1>3, <1>8, ScalingInvariance, PTL

\* TOPIC_CONFIG is empty, or what it makes of the topic is cleaned up by deletion:
\* it says so, or says nothing of it where the brokers' default does.
ConfiguredToDelete ==
  \/ TopicConfig = << >>
  \/ IF "cleanup.policy" \in DOMAIN TopicConfig
     THEN TopicConfig["cleanup.policy"] = "delete"
     ELSE BrokerDefault["cleanup.policy"] = "delete"

LEMMA CleanupStep ==
  ASSUME ConfiguredToDelete, ScalingInv, CleanupIsDelete, [Next]_vars PROVE CleanupIsDelete'
<1> USE DEF CleanupIsDelete, Entry
<1>1. CASE UNCHANGED vars
  BY <1>1 DEF vars
<1>2. ASSUME NEW B \in Clusters, CreateTopic(B) PROVE CleanupIsDelete'
  <2>1. "cleanup.policy" \in DOMAIN config' /\ config'["cleanup.policy"] = "delete"
    BY <1>2 DEF CreateTopic
  <2>2. QED BY <2>1
<1>3. ASSUME NEW B \in Clusters, Reassign(B) PROVE CleanupIsDelete'
  <2>1. assignment # << >>
    BY <1>3, FS_EmptySet DEF Reassign, CurrentPartitions
  <2>2. config' = config \/ (TopicConfig # << >> /\ config' = TopicConfig)
    BY <1>3 DEF Reassign, AlteredConfig
  <2>3. QED BY <2>1, <2>2 DEF ConfiguredToDelete
<1>4. QED BY <1>1, <1>2, <1>3 DEF Next

\* The other side of the finding on the changelog: "delete" is forced when the topic
\* is created, whatever brokers come and go and however often the canary restarts,
\* and holds for good as long as TOPIC_CONFIG does not take it back.
THEOREM CleanupKept == ASSUME ConfiguredToDelete PROVE Spec => []CleanupIsDelete
<1>1. Init => CleanupIsDelete
  BY DEF Init, CleanupIsDelete
<1>2. ScalingInv /\ CleanupIsDelete /\ [Next]_vars => CleanupIsDelete'
  BY CleanupStep
<1>3. QED BY <1>1, <1>2, ScalingInvariance, PTL DEF Spec
=============================================================================
