------------------------ MODULE TopicAssignments_proofs ------------------------
(***************************************************************************)
(* The requested assignments for every set of brokers and racks: the order *)
(* of the brokers has each of them once, so that partitions take their     *)
(* replicas in turn.                                                       *)
(***************************************************************************)
EXTENDS TopicAssignments, Sequences, Functions, FiniteSetTheorems, TLAPS

-----------------------------------------------------------------------------
(* Remainders. *)

LEMMA TimesAtLeast ==
  ASSUME NEW n \in Nat \ {0}, NEW d \in Int
  PROVE  d > 0 => n * d >= n
  OBVIOUS
LEMMA ModSmallIndex ==
  ASSUME NEW n \in Nat \ {0}, NEW p \in 0 .. n - 1 PROVE p % n = p
  OBVIOUS

LEMMA DivMod ==
  ASSUME NEW n \in Nat \ {0}, NEW x \in Int
  PROVE  x \div n \in Int /\ x % n \in 0 .. n - 1 /\ x = n * (x \div n) + (x % n)
  OBVIOUS
LEMMA ModUnique ==
  ASSUME NEW n \in Nat \ {0}, NEW q \in Int, NEW r \in 0 .. n - 1
  PROVE  (n * q + r) % n = r
<1> DEFINE x == n * q + r
<1>1. x \in Int
  OBVIOUS
<1>2. x \div n \in Int /\ x % n \in 0 .. n - 1 /\ x = n * (x \div n) + (x % n)
  BY <1>1, DivMod
<1> DEFINE c == x \div n
<1>3. n * q + r = n * c + (x % n)
  BY <1>2
<1>4. n * (q - c) = n * q - n * c /\ n * (c - q) = n * c - n * q
  BY <1>2
<1>5. ~ (q - c > 0) /\ ~ (c - q > 0)
  <2>1. CASE q - c > 0
    <3>1. n * (q - c) >= n
      BY <1>2, <2>1, TimesAtLeast
    <3> QED BY <3>1, <1>2, <1>3, <1>4
  <2>2. CASE c - q > 0
    <3>1. n * (c - q) >= n
      BY <1>2, <2>2, TimesAtLeast
    <3> QED BY <3>1, <1>2, <1>3, <1>4
  <2> QED BY <2>1, <2>2
<1>6. q = c
  BY <1>2, <1>5
<1>7. QED BY <1>2, <1>3, <1>6
LEMMA ModOnce ==
  ASSUME NEW n \in Nat \ {0}, NEW q \in Int PROVE (q + n) % n = q % n
<1>1. q \div n \in Int /\ q % n \in 0 .. n - 1 /\ q = n * (q \div n) + (q % n)
  BY DivMod
<1> DEFINE c == (q \div n) + 1
<1>2. c \in Int /\ q + n = n * c + (q % n)
  BY <1>1
<1> HIDE DEF c
<1>3. QED BY <1>1, <1>2, ModUnique

LEMMA ModShift ==
  ASSUME NEW n \in Nat \ {0}, NEW p \in Nat, NEW k \in 0 .. n - 1
  PROVE  /\ p % n \in 0 .. n - 1
         /\ (p + k) % n = IF (p % n) + k < n THEN (p % n) + k ELSE (p % n) + k - n
<1> DEFINE q == p \div n
           r == p % n
<1>1. q \in Int /\ r \in 0 .. n - 1 /\ p = n * q + r
  BY DivMod
<1> HIDE DEF q, r
<1>2. CASE r + k < n
  <2>1. p + k = n * q + (r + k) /\ r + k \in 0 .. n - 1
    BY <1>1, <1>2
  <2>2. (p + k) % n = r + k
    BY <2>1, <1>1, ModUnique
  <2>3. QED BY <1>1, <1>2, <2>2 DEF r
<1>3. CASE ~ (r + k < n)
  <2> DEFINE c == q + 1
  <2>1. c \in Int /\ p + k = n * c + (r + k - n) /\ r + k - n \in 0 .. n - 1
    BY <1>1, <1>3
  <2> HIDE DEF c
  <2>2. (p + k) % n = r + k - n
    BY <2>1, <1>1, ModUnique
  <2>3. QED BY <1>1, <1>3, <2>2 DEF r
<1>4. QED BY <1>2, <1>3

\* A strict total order on a finite set numbers it.
LEMMA RankBijection ==
  ASSUME NEW B, IsFiniteSet(B), NEW below \in [B -> SUBSET B],
         \A b \in B : b \notin below[b],
         \A b, c \in B : b \in below[c] => below[b] \subseteq below[c],
         \A b, c \in B : b = c \/ b \in below[c] \/ c \in below[b]
  PROVE  /\ \A b \in B : Cardinality(below[b]) \in 0 .. Cardinality(B) - 1
         /\ \A b, c \in B : b \in below[c] <=> Cardinality(below[b]) < Cardinality(below[c])
         /\ \A i \in 0 .. Cardinality(B) - 1 : \E b \in B : Cardinality(below[b]) = i
<1> DEFINE rank == [b \in B |-> Cardinality(below[b])]
           n == Cardinality(B)
<1>1. n \in Nat
  BY FS_CardinalityType
<1>2. ASSUME NEW b \in B PROVE IsFiniteSet(below[b]) /\ Cardinality(below[b]) \in 0 .. n - 1
  <2>1. IsFiniteSet(below[b]) /\ Cardinality(below[b]) <= n
    BY FS_Subset
  <2>2. Cardinality(below[b]) \in Nat
    BY <2>1, FS_CardinalityType
  <2>3. Cardinality(below[b]) # n
    BY FS_Subset
  <2>4. QED BY <1>1, <2>1, <2>2, <2>3
<1>3. ASSUME NEW b \in B, NEW c \in B, b \in below[c]
      PROVE  Cardinality(below[b]) < Cardinality(below[c])
  <2>1. /\ below[b] \in SUBSET below[c] /\ below[b] # below[c]
        /\ Cardinality(below[b]) \in Nat /\ Cardinality(below[c]) \in Nat
    BY <1>1, <1>2, <1>3
  <2>2. /\ Cardinality(below[b]) <= Cardinality(below[c])
        /\ Cardinality(below[b]) # Cardinality(below[c])
    BY <1>2, <2>1, FS_Subset
  <2>3. QED BY <2>1, <2>2
<1>4. ASSUME NEW b \in B, NEW c \in B
      PROVE  b \in below[c] <=> Cardinality(below[b]) < Cardinality(below[c])
  <2>1. Cardinality(below[b]) \in Nat /\ Cardinality(below[c]) \in Nat
    BY <1>1, <1>2
  <2>2. QED BY <1>3, <2>1
<1>5. rank \in Injection(B, 0 .. n - 1)
  <2>1. rank \in [B -> 0 .. n - 1]
    BY <1>2
  <2>2. ASSUME NEW b \in B, NEW c \in B, b # c PROVE rank[b] # rank[c]
    <3>1. rank[b] \in Nat /\ rank[c] \in Nat
      BY <1>1, <1>2
    <3>2. QED BY <1>3, <2>2, <3>1
  <2>3. QED BY <2>1, <2>2 DEF Injection, IsInjective
<1>6. Cardinality(0 .. n - 1) = n /\ IsFiniteSet(0 .. n - 1)
  BY <1>1, FS_Interval
<1>7. rank \in Surjection(B, 0 .. n - 1)
  BY <1>5, <1>6, FS_Injection
<1>8. ASSUME NEW i \in 0 .. n - 1 PROVE \E b \in B : Cardinality(below[b]) = i
  BY <1>7 DEF Surjection
<1>9. QED BY <1>2, <1>4, <1>8

-----------------------------------------------------------------------------
(* The order of the brokers. *)

RackMates(B, b) == {c \in B : Rack[c] = Rack[b]}

LEMMA FiniteBrokers ==
  ASSUME NEW B \in SUBSET BrokerIds
  PROVE  IsFiniteSet(B) /\ Cardinality(B) \in Nat /\ B \subseteq Int
  BY BrokersAssumption, FS_Subset, FS_CardinalityType

\* The ids number a set of brokers.
LEMMA RankById ==
  ASSUME NEW B \in SUBSET BrokerIds
  PROVE  LET rank(b) == Cardinality({c \in B : c < b})
         IN  /\ \A b \in B : rank(b) \in 0 .. Cardinality(B) - 1
             /\ \A b, c \in B : b < c <=> rank(b) < rank(c)
             /\ \A i \in 0 .. Cardinality(B) - 1 : \E b \in B : rank(b) = i
<1> DEFINE below == [b \in B |-> {c \in B : c < b}]
<1>1. IsFiniteSet(B) /\ B \subseteq Int /\ below \in [B -> SUBSET B]
  BY FiniteBrokers
<1>2. \A b, c \in B : b \in below[c] <=> b < c
  OBVIOUS
<1>4. \A b \in B : below[b] = {c \in B : c < b}
  OBVIOUS
<1> HIDE DEF below
<1>3. /\ \A b \in B : b \notin below[b]
      /\ \A b, c \in B : b \in below[c] => below[b] \subseteq below[c]
      /\ \A b, c \in B : b = c \/ b \in below[c] \/ c \in below[b]
  <2>1. \A b, c, d \in B : ~ (b < b) /\ (b < c /\ c < d => b < d) /\ (b = c \/ b < c \/ c < b)
    BY <1>1
  <2>2. ASSUME NEW b \in B, NEW c \in B, b \in below[c] PROVE below[b] \subseteq below[c]
    BY <1>2, <1>4, <2>1, <2>2
  <2>3. QED BY <1>2, <2>1, <2>2
<1>5. /\ \A b \in B : Cardinality(below[b]) \in 0 .. Cardinality(B) - 1
      /\ \A b, c \in B : b \in below[c] <=> Cardinality(below[b]) < Cardinality(below[c])
      /\ \A i \in 0 .. Cardinality(B) - 1 : \E b \in B : Cardinality(below[b]) = i
  BY <1>1, <1>3, RankBijection
<1>6. QED BY <1>2, <1>4, <1>5

\* The brokers of a rack are numbered by their ids, and the first is the least.
LEMMA RankInRackIs ==
  ASSUME NEW B \in SUBSET BrokerIds, NEW b \in B
  PROVE  /\ RackMates(B, b) \in SUBSET BrokerIds
         /\ RankInRack(B, b) \in Int
         /\ RankInRack(B, b) \in 0 .. Cardinality(RackMates(B, b)) - 1
         /\ \A c \in RackMates(B, b) : b < c <=> RankInRack(B, b) < RankInRack(B, c)
         /\ \A i \in 0 .. Cardinality(RackMates(B, b)) - 1 :
              \E c \in RackMates(B, b) : RankInRack(B, c) = i
<1> DEFINE M == RackMates(B, b)
<1>1. M \in SUBSET BrokerIds /\ b \in M
  BY DEF RackMates
<1>2. ASSUME NEW c \in M PROVE RankInRack(B, c) = Cardinality({d \in M : d < c})
  <2>1. {d \in M : d < c} = {d \in B : Rack[d] = Rack[c] /\ d < c}
    BY DEF RackMates
  <2>2. QED BY <2>1 DEF RankInRack
<1> HIDE DEF M
<1>3. /\ \A c \in M : Cardinality({d \in M : d < c}) \in 0 .. Cardinality(M) - 1
      /\ \A c, e \in M : c < e <=> Cardinality({d \in M : d < c}) < Cardinality({d \in M : d < e})
      /\ \A i \in 0 .. Cardinality(M) - 1 : \E c \in M : Cardinality({d \in M : d < c}) = i
  BY <1>1, RankById
<1>4. \A c \in M : RankInRack(B, c) \in 0 .. Cardinality(M) - 1
  BY <1>2, <1>3
<1>5. ASSUME NEW c \in M, NEW e \in M PROVE c < e <=> RankInRack(B, c) < RankInRack(B, e)
  <2>1. /\ RankInRack(B, c) = Cardinality({d \in M : d < c})
        /\ RankInRack(B, e) = Cardinality({d \in M : d < e})
    BY <1>2
  <2>2. QED BY <1>3, <2>1
<1>6. \A i \in 0 .. Cardinality(M) - 1 : \E c \in M : RankInRack(B, c) = i
  BY <1>2, <1>3
<1>7. RankInRack(B, b) \in Int
  BY <1>1, <1>4, FiniteBrokers
<1>8. QED BY <1>1, <1>4, <1>5, <1>6, <1>7 DEF M

LEMMA FirstOfRackIs ==
  ASSUME NEW B \in SUBSET BrokerIds, NEW b \in B
  PROVE  /\ FirstOfRack(B, b) \in B /\ FirstOfRack(B, b) \in Int
         /\ Rack[FirstOfRack(B, b)] = Rack[b]
         /\ \A c \in B : Rack[c] = Rack[b] => FirstOfRack(B, c) = FirstOfRack(B, b)
<1>1. PICK c \in RackMates(B, b) : RankInRack(B, c) = 0
  <2>1. 0 \in 0 .. Cardinality(RackMates(B, b)) - 1
    BY RankInRackIs, FiniteBrokers
  <2>2. QED BY <2>1, RankInRackIs
<1>2. c \in B /\ Rack[c] = Rack[b]
  BY <1>1 DEF RackMates
<1>3. ASSUME NEW d \in B, Rack[d] = Rack[b] PROVE c <= d
  <2>1. RankInRack(B, d) \in Nat /\ d \in RackMates(B, c) /\ c \in RackMates(B, d)
    <3>1. RankInRack(B, d) \in 0 .. Cardinality(RackMates(B, d)) - 1
      BY RankInRackIs
    <3>2. QED BY <1>2, <1>3, <3>1, FiniteBrokers, RankInRackIs DEF RackMates
  <2>2. ~ (d < c)
    BY <1>1, <2>1, RankInRackIs
  <2>3. QED BY <1>2, <2>2, FiniteBrokers
<1>4. \E e \in B : Rack[e] = Rack[b] /\ \A d \in B : Rack[d] = Rack[b] => e <= d
  BY <1>2, <1>3
<1>5. FirstOfRack(B, b) \in B /\ Rack[FirstOfRack(B, b)] = Rack[b]
  BY <1>4 DEF FirstOfRack
<1>6. \A d \in B : Rack[d] = Rack[b] => FirstOfRack(B, d) = FirstOfRack(B, b)
  BY DEF FirstOfRack
<1>7. QED BY <1>5, <1>6, FiniteBrokers

\* Brokers with the same place in racks with the same first broker are one.
LEMMA RackPlaceIsUnique ==
  ASSUME NEW B \in SUBSET BrokerIds, NEW b \in B, NEW c \in B,
         RankInRack(B, b) = RankInRack(B, c), FirstOfRack(B, b) = FirstOfRack(B, c)
  PROVE  b = c
<1>1. b \in RackMates(B, c) /\ c \in RackMates(B, b)
  <2>1. Rack[b] = Rack[c]
    BY FirstOfRackIs
  <2>2. QED BY <2>1 DEF RackMates
<1>2. ~ (b < c) /\ ~ (c < b)
  <2>1. RankInRack(B, b) \in Int /\ RankInRack(B, c) \in Int
    BY RankInRackIs
  <2>2. /\ b < c => RankInRack(B, b) < RankInRack(B, c)
        /\ c < b => RankInRack(B, c) < RankInRack(B, b)
    BY <1>1, RankInRackIs
  <2>3. QED BY <2>1, <2>2
<1>3. QED BY <1>2, FiniteBrokers

LEMMA PrecedesIsOrder ==
  ASSUME NEW B \in SUBSET BrokerIds
  PROVE  /\ \A b \in B : ~ Precedes(B, b, b)
         /\ \A b, c, d \in B : Precedes(B, b, c) /\ Precedes(B, c, d) => Precedes(B, b, d)
         /\ \A b, c \in B : b = c \/ Precedes(B, b, c) \/ Precedes(B, c, b)
<1>1. CASE \A d \in B : Rack[d] # NoRack
  <2>1. \A b \in B : RankInRack(B, b) \in Int /\ FirstOfRack(B, b) \in Int
    BY RankInRackIs, FirstOfRackIs
  <2>2. \A b, c \in B : Precedes(B, b, c) <=> RackAlternated(B, b, c)
    BY <1>1 DEF Precedes
  <2>3. \A b, c \in B : b = c \/ RackAlternated(B, b, c) \/ RackAlternated(B, c, b)
    BY <2>1, RackPlaceIsUnique DEF RackAlternated
  <2>4. /\ \A b \in B : ~ RackAlternated(B, b, b)
        /\ \A b, c, d \in B :
             RackAlternated(B, b, c) /\ RackAlternated(B, c, d) => RackAlternated(B, b, d)
    BY <2>1 DEF RackAlternated
  <2>5. QED BY <2>2, <2>3, <2>4
<1>2. CASE ~ \A d \in B : Rack[d] # NoRack
  <2>1. \A b, c \in B : Precedes(B, b, c) <=> b < c
    BY <1>2 DEF Precedes
  <2>2. QED BY <2>1, FiniteBrokers
<1>3. QED BY <1>1, <1>2

Place(B, b) == Cardinality({c \in B : Precedes(B, c, b)})

\* The order of the brokers has each of them once.
LEMMA OrderIs ==
  ASSUME NEW B \in SUBSET BrokerIds
  PROVE  /\ \A b \in B : Place(B, b) \in 0 .. Cardinality(B) - 1
         /\ \A b, c \in B : Precedes(B, b, c) <=> Place(B, b) < Place(B, c)
         /\ \A i \in 0 .. Cardinality(B) - 1 : Order[B][i] \in B /\ Place(B, Order[B][i]) = i
         /\ \A b \in B : Order[B][Place(B, b)] = b
<1> DEFINE below == [b \in B |-> {c \in B : Precedes(B, c, b)}]
<1>1. IsFiniteSet(B) /\ Cardinality(B) \in Nat /\ below \in [B -> SUBSET B]
  BY FiniteBrokers
<1>2. \A b, c \in B : b \in below[c] <=> Precedes(B, b, c)
  OBVIOUS
<1>3. \A b \in B : Cardinality(below[b]) = Place(B, b) /\ below[b] \subseteq B
  BY DEF Place
<1> HIDE DEF below
<1>4. /\ \A b \in B : b \notin below[b]
      /\ \A b, c \in B : b \in below[c] => below[b] \subseteq below[c]
      /\ \A b, c \in B : b = c \/ b \in below[c] \/ c \in below[b]
  BY <1>2, <1>3, PrecedesIsOrder
<1>5. /\ \A b \in B : Cardinality(below[b]) \in 0 .. Cardinality(B) - 1
      /\ \A b, c \in B : b \in below[c] <=> Cardinality(below[b]) < Cardinality(below[c])
      /\ \A i \in 0 .. Cardinality(B) - 1 : \E b \in B : Cardinality(below[b]) = i
  BY <1>1, <1>4, RankBijection
<1>6. /\ \A b \in B : Place(B, b) \in 0 .. Cardinality(B) - 1
      /\ \A b, c \in B : Precedes(B, b, c) <=> Place(B, b) < Place(B, c)
      /\ \A i \in 0 .. Cardinality(B) - 1 : \E b \in B : Place(B, b) = i
  BY <1>2, <1>3, <1>5
<1>7. ASSUME NEW i \in 0 .. Cardinality(B) - 1
      PROVE  Order[B][i] \in B /\ Place(B, Order[B][i]) = i
  <2>1. Order[B][i] = CHOOSE b \in B : Place(B, b) = i
    BY DEF Order, Place
  <2>2. QED BY <1>6, <2>1
<1>8. ASSUME NEW b \in B PROVE Order[B][Place(B, b)] = b
  <2> DEFINE c == Order[B][Place(B, b)]
  <2>1. c \in B /\ Place(B, c) = Place(B, b) /\ Place(B, b) \in 0 .. Cardinality(B) - 1
    BY <1>6, <1>7
  <2> HIDE DEF c
  <2>2. ~ Precedes(B, b, c) /\ ~ Precedes(B, c, b)
    BY <1>1, <1>6, <2>1
  <2>3. c = b
    BY <2>1, <2>2, PrecedesIsOrder
  <2>4. QED BY <2>3 DEF c
<1>9. QED BY <1>6, <1>7, <1>8

-----------------------------------------------------------------------------
(* The requested replicas. *)

LEMMA ClusterSize ==
  ASSUME NEW B \in Clusters
  PROVE  /\ B \in SUBSET BrokerIds /\ IsFiniteSet(B) /\ Cardinality(B) \in Nat \ {0}
         /\ ReplicationFactor(B) \in 1 .. 3 /\ ReplicationFactor(B) <= Cardinality(B)
<1>1. B \in SUBSET BrokerIds /\ B # {}
  BY DEF Clusters
<1>2. IsFiniteSet(B) /\ Cardinality(B) \in Nat \ {0}
  BY <1>1, FiniteBrokers, FS_EmptySet
<1>3. QED BY <1>1, <1>2 DEF ReplicationFactor, MinOf

\* The replicas of a partition, which depend on the brokers and its number alone.
Replicas(B, p) == [r \in 1 .. ReplicationFactor(B) |-> Order[B][ReplicaIndex(B, p, r)]]

LEMMA ReplicasOf ==
  ASSUME NEW n \in Nat, NEW B \in Clusters
  PROVE  /\ RequestedAssignments(n, B) = [p \in 0 .. MaxOf(n, Cardinality(B)) - 1 |-> Replicas(B, p)]
         /\ \A p \in 0 .. MaxOf(n, Cardinality(B)) - 1 : RequestedAssignments(n, B)[p] = Replicas(B, p)
<1>1. RequestedAssignments(n, B) = [p \in 0 .. MaxOf(n, Cardinality(B)) - 1 |-> Replicas(B, p)]
  BY DEF RequestedAssignments, RequestedPartitions, Replicas
<1>2. QED BY <1>1

\* The r-th replica of partition p has the place in the order that the code gives it.
LEMMA ReplicasAre ==
  ASSUME NEW n \in Nat, NEW B \in Clusters,
         NEW p \in 0 .. MaxOf(n, Cardinality(B)) - 1
  PROVE  LET a == RequestedAssignments(n, B)
         IN  /\ DOMAIN a = 0 .. MaxOf(n, Cardinality(B)) - 1
             /\ a[p] \in Seq(B) /\ DOMAIN a[p] = 1 .. ReplicationFactor(B)
             /\ Len(a[p]) = ReplicationFactor(B)
             /\ \A r \in 1 .. ReplicationFactor(B) :
                  a[p][r] \in B /\ Place(B, a[p][r]) = (p + (r - 1)) % Cardinality(B)
<1> DEFINE a == RequestedAssignments(n, B)
           R == ReplicationFactor(B)
           N == Cardinality(B)
<1>1. /\ DOMAIN a = 0 .. MaxOf(n, N) - 1
      /\ a[p] = [r \in 1 .. R |-> Order[B][ReplicaIndex(B, p, r)]]
  BY DEF RequestedAssignments, RequestedPartitions
<1>2. R \in 1 .. 3 /\ N \in Nat \ {0} /\ p \in Nat /\ B \in SUBSET BrokerIds
  BY ClusterSize DEF MaxOf
<1>3. ASSUME NEW r \in 1 .. R
      PROVE  a[p][r] \in B /\ Place(B, a[p][r]) = (p + (r - 1)) % N
  <2>1. p + r - 1 = p + (r - 1) /\ p + (r - 1) \in Int
    BY <1>2
  <2>2. ReplicaIndex(B, p, r) = (p + (r - 1)) % N /\ (p + (r - 1)) % N \in 0 .. N - 1
    BY <1>2, <2>1, DivMod DEF ReplicaIndex
  <2>3. a[p][r] = Order[B][(p + (r - 1)) % N]
    BY <1>1, <2>2
  <2>4. QED BY <1>2, <2>2, <2>3, OrderIs
<1>4. a[p] \in [1 .. R -> B] /\ DOMAIN a[p] = 1 .. R
  <2>1. \A r \in 1 .. R : a[p][r] \in B
    BY <1>3
  <2> HIDE DEF a
  <2>2. a[p] = [r \in 1 .. R |-> a[p][r]]
    BY <1>1
  <2>3. QED BY <2>1, <2>2
<1> HIDE DEF a, R, N
<1>5. a[p] \in Seq(B) /\ Len(a[p]) = R
  BY <1>2, <1>4
<1>6. QED BY <1>1, <1>3, <1>4, <1>5 DEF a, R, N

LEMMA ReplicasApart ==
  ASSUME NEW n \in Nat, NEW B \in Clusters,
         NEW p \in 0 .. MaxOf(n, Cardinality(B)) - 1,
         NEW r \in 1 .. ReplicationFactor(B), NEW s \in 1 .. ReplicationFactor(B), r # s
  PROVE  RequestedAssignments(n, B)[p][r] # RequestedAssignments(n, B)[p][s]
<1> DEFINE N == Cardinality(B)
<1>1. /\ N \in Nat \ {0} /\ p \in Nat
      /\ r - 1 \in 0 .. N - 1 /\ s - 1 \in 0 .. N - 1 /\ r - 1 # s - 1
  BY ClusterSize DEF MaxOf
<1> DEFINE j == r - 1  k == s - 1
<1> HIDE DEF N, j, k
<1>2. /\ p % N \in 0 .. N - 1
      /\ (p + j) % N = IF (p % N) + j < N THEN (p % N) + j ELSE (p % N) + j - N
      /\ (p + k) % N = IF (p % N) + k < N THEN (p % N) + k ELSE (p % N) + k - N
  BY <1>1, ModShift DEF j, k
<1>3. (p + j) % N # (p + k) % N
  BY <1>1, <1>2 DEF j, k
<1>4. QED BY <1>3, ReplicasAre DEF N, j, k

LEMMA UpTo ==
  ASSUME NEW n \in Nat PROVE IsFiniteSet(1 .. n) /\ Cardinality(1 .. n) = n
  BY FS_Interval

LEMMA DistinctReplicas ==
  ASSUME NEW n \in Nat, NEW B \in Clusters,
         NEW p \in 0 .. MaxOf(n, Cardinality(B)) - 1
  PROVE  LET a == RequestedAssignments(n, B)
         IN  Cardinality(Range(a[p])) = Len(a[p])
<1> DEFINE f == RequestedAssignments(n, B)[p]
           R == ReplicationFactor(B)
<1>1. DOMAIN f = 1 .. R /\ Len(f) = R /\ f \in Seq(B) /\ R \in 1 .. 3
  BY ReplicasAre, ClusterSize
<1>2. \A r, s \in 1 .. R : r # s => f[r] # f[s]
  BY ReplicasApart
<1> HIDE DEF f, R
<1>3. f \in Bijection(1 .. R, Range(f))
  <2>1. f \in [1 .. R -> Range(f)] /\ \A y \in Range(f) : \E r \in 1 .. R : f[r] = y
    BY <1>1 DEF Range
  <2>2. QED BY <1>2, <2>1 DEF Bijection, Injection, Surjection, IsInjective
<1>4. IsFiniteSet(1 .. R) /\ Cardinality(1 .. R) = R
  BY <1>1, UpTo
<1>5. Cardinality(Range(f)) = R
  BY <1>3, <1>4, FS_Bijection DEF ExistsBijection
<1>6. QED BY <1>1, <1>5 DEF f

\* The partitions whose first replica is the broker at i: every n-th from i on.
Turns(m, n, i) == {p \in 0 .. m - 1 : p % n = i}

LEMMA TurnsAlike ==
  ASSUME NEW n \in Nat \ {0}, NEW m \in Nat, m >= n, NEW i \in 0 .. n - 1, NEW j \in 0 .. n - 1
  PROVE  /\ Cardinality(Turns(m, n, i)) \in Nat \ {0}
         /\ Cardinality(Turns(m, n, i)) <= Cardinality(Turns(m, n, j)) + 1
<1> DEFINE I == Turns(m, n, i)  J == Turns(m, n, j)
           d == IF i <= j THEN n - (j - i) ELSE i - j
<1>1. IsFiniteSet(I) /\ IsFiniteSet(J) /\ Cardinality(I) \in Nat /\ Cardinality(J) \in Nat
  <2>1. IsFiniteSet(0 .. m - 1) /\ I \in SUBSET (0 .. m - 1) /\ J \in SUBSET (0 .. m - 1)
    BY FS_Interval DEF Turns
  <2>2. QED BY <2>1, FS_Subset, FS_CardinalityType
<1>2. i \in I
  BY ModSmallIndex DEF Turns
<1>3. Cardinality(I \ {i}) = Cardinality(I) - 1 /\ IsFiniteSet(I \ {i}) /\ Cardinality(I) # 0
  BY <1>1, <1>2, FS_RemoveElement, FS_EmptySet
<1>4. ASSUME NEW p \in I \ {i} PROVE p - d \in J
  <2>1. p \in 0 .. m - 1 /\ p % n = i /\ p # i
    BY DEF Turns
  <2>2. p >= n
    BY <2>1, ModSmallIndex
  <2>3. d \in 1 .. n
    OBVIOUS
  <2> DEFINE q == p - d
  <2>4. q \in 0 .. m - 1 /\ q + d = p
    BY <2>1, <2>2, <2>3
  <2>5. q % n = j
    <3>1. CASE d = n
      <4>1. i = j
        BY <3>1
      <4>2. (q + n) % n = q % n
        <5>1. q \in Int
          BY <2>4
        <5> HIDE DEF q
        <5>2. QED BY <5>1, ModOnce
      <4>3. QED BY <2>1, <2>4, <3>1, <4>1, <4>2
    <3>2. CASE d # n
      <4>1. d \in 0 .. n - 1 /\ q \in Nat
        BY <2>3, <2>4, <3>2
      <4>2. d = n - (j - i) \/ d = i - j
        OBVIOUS
      <4> HIDE DEF q, d
      <4>3. q % n \in 0 .. n - 1 /\ i = IF (q % n) + d < n THEN (q % n) + d ELSE (q % n) + d - n
        BY <2>1, <2>4, <4>1, ModShift
      <4>4. QED BY <4>1, <4>2, <4>3
    <3>3. QED BY <3>1, <3>2
  <2>6. QED BY <2>4, <2>5 DEF Turns
<1>5. Cardinality(I \ {i}) <= Cardinality(J)
  <2> DEFINE f == [p \in I \ {i} |-> p - d]
  <2>1. f \in [I \ {i} -> J]
    BY <1>4
  <2>2. \A p, q \in I \ {i} : f[p] = f[q] => p = q
    <3>1. I \subseteq Int /\ d \in Int
      BY DEF Turns
    <3> HIDE DEF d
    <3>2. QED BY <3>1
  <2> HIDE DEF f
  <2>3. f \in Injection(I \ {i}, J)
    BY <2>1, <2>2 DEF Injection, IsInjective
  <2>4. QED BY <1>1, <2>3, FS_Injection
<1> HIDE DEF I, J
<1>6. Cardinality(I) \in Nat \ {0} /\ Cardinality(I) <= Cardinality(J) + 1
  BY <1>1, <1>3, <1>5
<1>7. QED BY <1>6 DEF I, J

\* The first replicas take turns in the order of the brokers.
LEMMA LeadsInTurn ==
  ASSUME NEW n \in Nat, NEW B \in Clusters, NEW b \in B
  PROVE  LET a == RequestedAssignments(n, B)
         IN  {p \in DOMAIN a : a[p][1] = b}
               = Turns(MaxOf(n, Cardinality(B)), Cardinality(B), Place(B, b))
<1> DEFINE a == RequestedAssignments(n, B)
           m == MaxOf(n, Cardinality(B))
           N == Cardinality(B)
<1>1. B \in SUBSET BrokerIds /\ N \in Nat \ {0} /\ 1 \in 1 .. ReplicationFactor(B) /\ N - 1 \in Nat
  BY ClusterSize
<1>2. DOMAIN a = 0 .. m - 1
  BY DEF RequestedAssignments, RequestedPartitions
<1>3. ASSUME NEW p \in 0 .. m - 1 PROVE a[p][1] = b <=> p % N = Place(B, b)
  <2>1. a[p][1] \in B /\ Place(B, a[p][1]) = (p + (1 - 1)) % N
    BY <1>1, ReplicasAre
  <2>2. p + (1 - 1) = p
    BY <1>1 DEF MaxOf
  <2>3. Place(B, a[p][1]) = p % N
    BY <2>1, <2>2
  <2> HIDE DEF a, N
  <2>4. Order[B][Place(B, a[p][1])] = a[p][1] /\ Order[B][Place(B, b)] = b
    BY <1>1, <2>1, OrderIs
  <2>5. QED BY <2>3, <2>4
<1>4. QED BY <1>2, <1>3 DEF Turns
=============================================================================
