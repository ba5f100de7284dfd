------------------------- MODULE StatusService_proofs -------------------------
(***************************************************************************)
(* The status handler and the status check, access by access: for any size *)
(* of the rings, any number of claims and of records, the indexes stay in  *)
(* the buffers, the two rings stay level between the checks, an answer     *)
(* that no check disturbs is exact, and the handler panics only when asked *)
(* before the first check has ended.                                       *)
(***************************************************************************)
EXTENDS StatusService, TLAPS

Length == Ring(NoRing)!BufferSize
Slots == Ring(NoRing)!Slots

Rings == [buffer : [Slots -> Values], tail : Slots \cup {-1}, head : Slots \cup {-1},
          count : 0 .. Length]

-----------------------------------------------------------------------------
(* The operators of the ring. *)

LEMMA SlotFacts ==
  /\ Length \in Nat \ {0} /\ Slots = 0 .. Length - 1
  /\ \A r : Ring(r)!BufferSize = Length /\ Ring(r)!Slots = Slots
<1>1. Length \in Nat \ {0}
  BY StatusAssumption DEF Length, Ring!BufferSize
<1>2. Slots = 0 .. Length - 1
  BY DEF Slots, Length, Ring!Slots
<1>3. ASSUME NEW r PROVE Ring(r)!BufferSize = Length /\ Ring(r)!Slots = Slots
  BY DEF Slots, Length, Ring!Slots, Ring!BufferSize
<1>4. QED BY <1>1, <1>2, <1>3

\* The slot after i, and the tail of a ring whose head has moved to h, without a
\* modulo.
NextOf(i) == IF i + 1 = Length THEN 0 ELSE i + 1
TailOf(t, h) == IF h = t THEN NextOf(t) ELSE IF t = -1 THEN 0 ELSE t
CountOf(c) == IF c < Length THEN c + 1 ELSE c

\* The slot of the ith sample from the tail.
SlotOf(t, i) == IF t + i - 1 < Length THEN t + i - 1 ELSE t + i - 1 - Length

LEMMA ModSmall ==
  ASSUME NEW n \in Nat \ {0}, NEW x \in 0 .. n - 1 PROVE x % n = x
  OBVIOUS

LEMMA ModOnce ==
  ASSUME NEW n \in Nat \ {0}, NEW x \in n .. 2 * n - 1 PROVE x % n = x - n
  OBVIOUS

LEMMA NextIs ==
  ASSUME NEW i \in Slots \cup {-1}, NEW r
  PROVE  Ring(r)!NextSlot(i) = NextOf(i) /\ NextOf(i) \in Slots
<1>1. Length \in Nat \ {0} /\ i + 1 \in 0 .. Length
  BY SlotFacts
<1>2. Ring(r)!NextSlot(i) = (i + 1) % Length
  BY SlotFacts DEF Ring!NextSlot
<1>3. CASE i + 1 = Length
  BY <1>1, <1>2, <1>3, ModOnce, SlotFacts DEF NextOf
<1>4. CASE i + 1 < Length
  BY <1>1, <1>2, <1>4, ModSmall, SlotFacts DEF NextOf
<1>5. QED BY <1>1, <1>3, <1>4

LEMMA TailIs ==
  ASSUME NEW r, r.tail \in Slots \cup {-1}, NEW h \in Slots
  PROVE  Ring(r)!TailAfter(h) = TailOf(r.tail, h) /\ TailOf(r.tail, h) \in Slots
<1>1. Ring(r)!NextSlot(r.tail) = NextOf(r.tail) /\ NextOf(r.tail) \in Slots
  BY NextIs
<1>2. 0 \in Slots
  BY SlotFacts
<1>3. QED BY <1>1, <1>2 DEF Ring!TailAfter, TailOf

LEMMA CountIs ==
  ASSUME NEW r, r.count \in 0 .. Length
  PROVE  Ring(r)!CountAfter = CountOf(r.count) /\ CountOf(r.count) \in 0 .. Length
  BY SlotFacts DEF Ring!CountAfter, CountOf

LEMMA SlotOfIs ==
  ASSUME NEW t \in Slots, NEW i \in 1 .. Length
  PROVE  (t + i - 1) % Length = SlotOf(t, i) /\ SlotOf(t, i) \in Slots
<1>1. /\ Length \in Nat \ {0} /\ t \in Nat /\ i \in Nat
      /\ t + i - 1 \in 0 .. 2 * Length - 1
  BY SlotFacts
<1>2. CASE t + i - 1 < Length
  BY <1>1, <1>2, ModSmall, SlotFacts DEF SlotOf
<1>3. CASE t + i - 1 >= Length
  <2>1. t + i - 1 \in Length .. 2 * Length - 1 /\ t + i - 1 - Length \in 0 .. Length - 1
    BY <1>1, <1>3, SlotFacts
  <2>2. (t + i - 1) % Length = t + i - 1 - Length
    <3>1. PICK x : x \in Length .. 2 * Length - 1 /\ x = t + i - 1
      BY <2>1
    <3>2. x % Length = x - Length
      BY <1>1, <3>1, ModOnce
    <3>3. QED BY <1>1, <3>1, <3>2
  <2>3. SlotOf(t, i) = t + i - 1 - Length
    BY <1>1, <1>3, <2>1 DEF SlotOf
  <2>4. QED BY <2>1, <2>2, <2>3, SlotFacts
<1>4. QED BY <1>1, <1>2, <1>3

LEMMA RingTypes == \A r \in Rings : Ring(r)!TypeOK
<1> SUFFICES ASSUME NEW r \in Rings PROVE Ring(r)!TypeOK
  OBVIOUS
<1>1. /\ r.buffer \in [Slots -> Values] /\ r.tail \in Slots \cup {-1}
      /\ r.head \in Slots \cup {-1} /\ r.count \in 0 .. Length
  BY DEF Rings
<1>2. Ring(r)!Slots = Slots /\ Ring(r)!BufferSize = Length
  BY SlotFacts
<1>3. QED BY <1>1, <1>2 DEF Ring!TypeOK

-----------------------------------------------------------------------------
(* A ring with buffer b, tail t, head h and count c, and the window w of its *)
(* reader, between two Puts and after each access of the Put of v.           *)

Shape(t, h, c) ==
  \/ c = 0 /\ t = -1 /\ h = -1
  \/ c \in 1 .. Length - 1 /\ t = 0 /\ h = c - 1
  \/ c = Length /\ h \in Slots /\ t = NextOf(h)

\* The same, with the head one slot ahead.
MovedShape(t, h, c) ==
  \/ c = 0 /\ t = -1 /\ h = 0
  \/ c \in 1 .. Length - 1 /\ t = 0 /\ h = c
  \/ c = Length /\ h \in Slots /\ t = h

Holds(b, t, h, c, w) ==
  /\ w \in Seq(Values) /\ Len(w) = c /\ Shape(t, h, c)
  /\ \A i \in 1 .. Len(w) : b[SlotOf(t, i)] = w[i]

Moved(b, t, h, c, w) ==
  /\ w \in Seq(Values) /\ Len(w) = c /\ MovedShape(t, h, c)
  /\ \A i \in 1 .. Len(w) : b[SlotOf(t, i)] = w[i]

Stored(b, t, h, c, w, v) ==
  /\ w \in Seq(Values) /\ Len(w) = c /\ MovedShape(t, h, c)
  /\ b[h] = v
  /\ \A i \in 1 .. Len(w) : SlotOf(t, i) # h => b[SlotOf(t, i)] = w[i]

SlideOf(w, v) == IF Len(w) < Length THEN Append(w, v) ELSE Append(Tail(w), v)

Tailed(b, t, h, c, w, v) ==
  /\ w \in Seq(Values) /\ Len(w) = c /\ c \in 0 .. Length
  /\ Holds(b, t, h, CountOf(c), SlideOf(w, v))

LEMMA HeadMoves ==
  ASSUME NEW b, NEW t, NEW h, NEW c, NEW w, Holds(b, t, h, c, w)
  PROVE  Moved(b, t, NextOf(h), c, w)
<1>1. MovedShape(t, NextOf(h), c)
  BY SlotFacts DEF Holds, Shape, MovedShape, NextOf
<1>2. QED BY <1>1 DEF Holds, Moved

LEMMA SlotStores ==
  ASSUME NEW b \in [Slots -> Values], NEW t, NEW h, NEW c, NEW w, NEW v,
         Moved(b, t, h, c, w)
  PROVE  Stored([b EXCEPT ![h] = v], t, h, c, w, v)
<1>1. h \in Slots
  BY SlotFacts DEF Moved, MovedShape
<1>2. ASSUME NEW i \in 1 .. Len(w) PROVE SlotOf(t, i) \in Slots
  <2>1. t \in Slots /\ i \in 1 .. Length
    BY SlotFacts DEF Moved, MovedShape
  <2>2. QED BY <2>1, SlotOfIs
<1>3. QED BY <1>1, <1>2 DEF Moved, Stored

LEMMA TailMoves ==
  ASSUME NEW b, NEW t, NEW h, NEW c, NEW w, NEW v \in Values, Stored(b, t, h, c, w, v)
  PROVE  Tailed(b, TailOf(t, h), h, c, w, v)
<1>0. Length \in Nat \ {0} /\ Slots = 0 .. Length - 1
  BY SlotFacts
<1>1. w \in Seq(Values) /\ Len(w) = c /\ b[h] = v /\ c \in 0 .. Length
  BY <1>0 DEF Stored, MovedShape
<1>2. CASE c < Length
  <2>1. /\ h = c /\ TailOf(t, h) = 0
        /\ CountOf(c) = c + 1 /\ SlideOf(w, v) = Append(w, v)
    BY <1>0, <1>1, <1>2 DEF Stored, MovedShape, TailOf, CountOf, SlideOf
  <2>2. Shape(0, c, c + 1)
    BY <1>0, <1>1, <1>2 DEF Shape, NextOf
  <2>3. ASSUME NEW i \in 1 .. c PROVE b[SlotOf(0, i)] = w[i]
    <3>1. t = 0 /\ SlotOf(0, i) = i - 1
      BY <1>0, <1>1, <1>2 DEF Stored, MovedShape, SlotOf
    <3>2. QED BY <1>1, <2>1, <3>1 DEF Stored
  <2>4. b[SlotOf(0, c + 1)] = v
    BY <1>0, <1>1, <1>2, <2>1 DEF SlotOf
  <2>5. Append(w, v) \in Seq(Values) /\ Len(Append(w, v)) = c + 1
    BY <1>1
  <2>6. \A i \in 1 .. c + 1 : Append(w, v)[i] = IF i <= c THEN w[i] ELSE v
    BY <1>1
  <2>7. QED BY <1>1, <2>1, <2>2, <2>3, <2>4, <2>5, <2>6 DEF Tailed, Holds
<1>3. CASE c = Length
  <2>1. /\ h \in Slots /\ t = h /\ TailOf(t, h) = NextOf(h)
        /\ CountOf(c) = c /\ SlideOf(w, v) = Append(Tail(w), v)
    BY <1>0, <1>1, <1>3 DEF Stored, MovedShape, TailOf, CountOf, SlideOf
  <2>2. Shape(NextOf(h), h, c)
    BY <1>3, <2>1 DEF Shape
  <2>3. ASSUME NEW i \in 1 .. c - 1 PROVE b[SlotOf(NextOf(h), i)] = w[i + 1]
    <3>1. SlotOf(NextOf(h), i) = SlotOf(h, i + 1) /\ SlotOf(h, i + 1) # h
      BY <1>0, <1>1, <1>3, <2>1 DEF SlotOf, NextOf
    <3>2. QED BY <1>1, <2>1, <3>1 DEF Stored
  <2>4. b[SlotOf(NextOf(h), c)] = v
    BY <1>0, <1>1, <1>3, <2>1 DEF SlotOf, NextOf
  <2>5. /\ Append(Tail(w), v) \in Seq(Values) /\ Len(Append(Tail(w), v)) = c
        /\ \A i \in 1 .. c : Append(Tail(w), v)[i] = IF i <= c - 1 THEN w[i + 1] ELSE v
    <3>1. Tail(w) \in Seq(Values) /\ Len(Tail(w)) = c - 1
      BY <1>0, <1>1, <1>3
    <3>2. \A i \in 1 .. c - 1 : Tail(w)[i] = w[i + 1]
      BY <1>0, <1>1, <1>3
    <3>3. QED BY <1>0, <1>1, <1>3, <3>1, <3>2
  <2>6. QED BY <1>1, <2>1, <2>2, <2>3, <2>4, <2>5 DEF Tailed, Holds
<1>4. QED BY <1>0, <1>1, <1>2, <1>3

-----------------------------------------------------------------------------
(* The records: no counter runs ahead of the messages. *)

RecordInv ==
  /\ sending \in BOOLEAN
  /\ counters \in [Kinds -> Values]
  /\ delivered \in 0 .. MaxRecords /\ taken \in 0 .. delivered
  /\ redelivered \in 0 .. MaxRedelivered
  /\ delivered <= counters.produced + (IF sending THEN 1 ELSE 0)
  /\ counters.produced + (IF sending THEN 1 ELSE 0) <= MaxRecords
  /\ counters.consumed <= taken + redelivered
  /\ loaded \in [Claims -> Values \cup {None}]
  /\ \A c \in Claims : loaded[c] # None => loaded[c] < taken + redelivered

LEMMA RecordStep ==
  ASSUME RecordInv,
         SendMessage \/ CountProduced \/ (\E c \in Claims : LoadConsumed(c) \/ StoreConsumed(c))
         \/ Redeliver \/ UNCHANGED recordVars
  PROVE  RecordInv'
<1> USE StatusAssumption DEF RecordInv, Values, Kinds, None
<1>1. CASE SendMessage
  BY <1>1 DEF SendMessage
<1>2. CASE CountProduced
  <2>1. counters' = [counters EXCEPT !["produced"] = counters["produced"] + 1]
    BY <1>2 DEF CountProduced
  <2>2. counters'["produced"] = counters["produced"] + 1
    BY <2>1
  <2>3. counters'["consumed"] = counters["consumed"]
    BY <2>1
  <2>4. counters["produced"] + 1 <= MaxRecords /\ counters["produced"] \in Nat
    BY <1>2 DEF CountProduced
  <2>5. counters' \in [Kinds -> Values]
    BY <2>1, <2>4
  <2>6. /\ sending = TRUE /\ sending' = FALSE
        /\ delivered' = delivered /\ taken' = taken /\ loaded' = loaded
        /\ redelivered' = redelivered
    BY <1>2 DEF CountProduced
  <2>7. delivered' <= counters'["produced"] + (IF sending' THEN 1 ELSE 0)
    BY <2>2, <2>4, <2>6
  <2>8. counters'["produced"] + (IF sending' THEN 1 ELSE 0) <= MaxRecords
    BY <2>2, <2>4, <2>6
  <2>9. QED BY <2>3, <2>5, <2>6, <2>7, <2>8
<1>3. ASSUME NEW c \in Claims, LoadConsumed(c) PROVE RecordInv'
  BY <1>3 DEF LoadConsumed
<1>4. ASSUME NEW c \in Claims, StoreConsumed(c) PROVE RecordInv'
  BY <1>4 DEF StoreConsumed
<1>5. CASE Redeliver
  <2>1. PICK n \in 1 .. taken : taken' = taken - n /\ redelivered' = redelivered + n
    BY <1>5 DEF Redeliver
  <2>2. redelivered' \in 0 .. MaxRedelivered /\ taken' \in 0 .. delivered
        /\ taken' + redelivered' = taken + redelivered
    BY <1>5, <2>1 DEF Redeliver
  <2>3. UNCHANGED <<sending, delivered, loaded, counters>>
    BY <1>5 DEF Redeliver
  <2>4. QED BY <2>2, <2>3
<1>6. CASE UNCHANGED recordVars
  BY <1>6 DEF recordVars
<1>7. QED BY <1>1, <1>2, <1>3, <1>4, <1>5, <1>6

-----------------------------------------------------------------------------
(* The rings. *)

SamplerTypes ==
  /\ samples \in [Kinds -> Rings]
  /\ running \in BOOLEAN /\ sampled \in Values
  /\ at \in {"load", "head", "slot", "tail", "count"} /\ which \in Kinds
  /\ DOMAIN windows = Kinds

\* How far a Put into the ring k is.
RingState(k) ==
  LET b == samples[k].buffer  t == samples[k].tail
      h == samples[k].head    c == samples[k].count  w == windows[k]
  IN  CASE k # which \/ at \in {"load", "head"} -> Holds(b, t, h, c, w)
        [] k = which /\ at = "slot" -> Moved(b, t, h, c, w)
        [] k = which /\ at = "tail" -> Stored(b, t, h, c, w, sampled)
        [] k = which /\ at = "count" -> Tailed(b, t, h, c, w, sampled)

\* The produced ring is one Put ahead of the consumed one, or level with it.
InStep ==
  LET p == samples["produced"]  c == samples["consumed"]
  IN  /\ p.count = IF which = "produced" THEN c.count ELSE CountOf(c.count)
      /\ p.head = IF (which = "produced") <=> (at \in {"load", "head"})
                  THEN c.head ELSE NextOf(c.head)

SamplerInv == SamplerTypes /\ (\A k \in Kinds : RingState(k)) /\ InStep

LEMMA RingFields ==
  ASSUME NEW r \in Rings
  PROVE  /\ r.buffer \in [Slots -> Values] /\ r.tail \in Slots \cup {-1}
         /\ r.head \in Slots \cup {-1} /\ r.count \in 0 .. Length
  BY DEF Rings

\* A Put changes one field of one ring.
LEMMA OneRing ==
  ASSUME samples \in [Kinds -> Rings], which \in Kinds, NEW r \in Rings,
         samples' = [samples EXCEPT ![which] = r]
  PROVE  /\ samples' \in [Kinds -> Rings] /\ samples'[which] = r
         /\ \A k \in Kinds : k # which => samples'[k] = samples[k]
  OBVIOUS

LEMMA SetHead ==
  ASSUME NEW r \in Rings, NEW x \in Slots \cup {-1}
  PROVE  LET q == [r EXCEPT !.head = x]
         IN  q \in Rings /\ q.head = x /\ q.tail = r.tail /\ q.count = r.count /\ q.buffer = r.buffer
  BY DEF Rings
LEMMA SetTail ==
  ASSUME NEW r \in Rings, NEW x \in Slots \cup {-1}
  PROVE  LET q == [r EXCEPT !.tail = x]
         IN  q \in Rings /\ q.tail = x /\ q.head = r.head /\ q.count = r.count /\ q.buffer = r.buffer
  BY DEF Rings
LEMMA SetCount ==
  ASSUME NEW r \in Rings, NEW x \in 0 .. Length
  PROVE  LET q == [r EXCEPT !.count = x]
         IN  q \in Rings /\ q.count = x /\ q.head = r.head /\ q.tail = r.tail /\ q.buffer = r.buffer
  BY DEF Rings
LEMMA SetSlot ==
  ASSUME NEW r \in Rings, NEW b \in [Slots -> Values]
  PROVE  LET q == [r EXCEPT !.buffer = b]
         IN  q \in Rings /\ q.buffer = b /\ q.head = r.head /\ q.tail = r.tail /\ q.count = r.count
  BY DEF Rings

LEMMA MoveHeadStep ==
  ASSUME SamplerInv, MoveHead PROVE SamplerInv'
<1> DEFINE r == samples[which]
           q == [r EXCEPT !.head = NextOf(r.head)]
<1>1. r \in Rings
  BY DEF SamplerInv, SamplerTypes
<1>2. r.head \in Slots \cup {-1}
  BY <1>1, RingFields
<1>3. NextOf(r.head) \in Slots /\ Ring(r)!NextSlot(r.head) = NextOf(r.head)
  BY <1>2, NextIs
<1>4. samples' = [samples EXCEPT ![which] = q]
  BY <1>3 DEF MoveHead, PutInto
<1>5. /\ q \in Rings /\ q.head = NextOf(r.head) /\ q.tail = r.tail
      /\ q.count = r.count /\ q.buffer = r.buffer
  BY <1>1, <1>3, SetHead
<1> HIDE DEF q, r
<1>6. /\ samples' \in [Kinds -> Rings] /\ samples'[which] = q
      /\ \A k \in Kinds : k # which => samples'[k] = samples[k]
  BY <1>4, <1>5, OneRing DEF SamplerInv, SamplerTypes
<1>7. /\ at = "head" /\ at' = "slot" /\ which' = which /\ sampled' = sampled
      /\ windows' = windows /\ running' = running
  BY DEF MoveHead, Access
<1>8. SamplerTypes'
  BY <1>6, <1>7 DEF SamplerInv, SamplerTypes
<1>9. ASSUME NEW k \in Kinds PROVE RingState(k)'
  <2>1. Holds(samples[k].buffer, samples[k].tail, samples[k].head, samples[k].count, windows[k])
    BY <1>7, Zenon DEF SamplerInv, RingState
  <2>2. CASE k = which
    <3>1. Moved(r.buffer, r.tail, NextOf(r.head), r.count, windows[k])
      BY <2>1, <2>2, HeadMoves DEF r
    <3>2. QED BY <1>5, <1>6, <1>7, <2>2, <3>1 DEF RingState
  <2>3. CASE k # which
    BY <1>6, <1>7, <2>1, <2>3 DEF RingState
  <2>4. QED BY <2>2, <2>3
<1>10. InStep'
  <2>1. CASE which = "produced"
    BY <1>5, <1>6, <1>7, <2>1 DEF SamplerInv, InStep, Kinds, r
  <2>2. CASE which = "consumed"
    BY <1>5, <1>6, <1>7, <2>2 DEF SamplerInv, InStep, Kinds, r
  <2>3. QED BY <2>1, <2>2 DEF SamplerInv, SamplerTypes, Kinds
<1>11. QED BY <1>8, <1>9, <1>10 DEF SamplerInv

LEMMA StoreSlotStep ==
  ASSUME SamplerInv, StoreSlot PROVE SamplerInv'
<1> DEFINE r == samples[which]
           b == [r.buffer EXCEPT ![r.head] = sampled]
           q == [r EXCEPT !.buffer = b]
<1>1. r \in Rings /\ sampled \in Values
  BY DEF SamplerInv, SamplerTypes
<1>2. r.buffer \in [Slots -> Values]
  BY <1>1, RingFields
<1>3. b \in [Slots -> Values]
  BY <1>1, <1>2
<1>4. samples' = [samples EXCEPT ![which] = q]
  BY DEF StoreSlot, PutInto
<1>5. /\ q \in Rings /\ q.buffer = b
      /\ q.head = r.head /\ q.tail = r.tail /\ q.count = r.count
  BY <1>1, <1>3, SetSlot
<1> HIDE DEF q
<1>6. /\ samples' \in [Kinds -> Rings] /\ samples'[which] = q
      /\ \A k \in Kinds : k # which => samples'[k] = samples[k]
  BY <1>4, <1>5, OneRing DEF SamplerInv, SamplerTypes
<1>7. /\ at = "slot" /\ at' = "tail" /\ which' = which /\ sampled' = sampled
      /\ windows' = windows /\ running' = running
  BY DEF StoreSlot, Access
<1>8. SamplerTypes'
  BY <1>6, <1>7 DEF SamplerInv, SamplerTypes
<1>9. ASSUME NEW k \in Kinds PROVE RingState(k)'
  <2>1. CASE k = which
    <3>1. Moved(r.buffer, r.tail, r.head, r.count, windows[k])
      BY <1>7, <2>1 DEF SamplerInv, RingState
    <3>2. Stored(b, r.tail, r.head, r.count, windows[k], sampled)
      BY <1>2, <3>1, SlotStores
    <3>3. QED BY <1>5, <1>6, <1>7, <2>1, <3>2 DEF RingState
  <2>2. CASE k # which
    BY <1>6, <1>7, <2>2 DEF SamplerInv, RingState
  <2>3. QED BY <2>1, <2>2
<1> HIDE DEF r
<1>10. InStep'
  <2>1. CASE which = "produced"
    BY <1>5, <1>6, <1>7, <2>1 DEF SamplerInv, InStep, Kinds, r
  <2>2. CASE which = "consumed"
    BY <1>5, <1>6, <1>7, <2>2 DEF SamplerInv, InStep, Kinds, r
  <2>3. QED BY <2>1, <2>2 DEF SamplerInv, SamplerTypes, Kinds
<1>11. QED BY <1>8, <1>9, <1>10 DEF SamplerInv

LEMMA MoveTailStep ==
  ASSUME SamplerInv, MoveTail PROVE SamplerInv'
<1> DEFINE r == samples[which]
           q == [r EXCEPT !.tail = TailOf(r.tail, r.head)]
<1>1. r \in Rings /\ sampled \in Values
  BY DEF SamplerInv, SamplerTypes
<1>2. /\ at = "tail" /\ at' = "count" /\ which' = which /\ sampled' = sampled
      /\ windows' = windows /\ running' = running
  BY DEF MoveTail, Access
<1>3. Stored(r.buffer, r.tail, r.head, r.count, windows[which], sampled)
  BY <1>2 DEF SamplerInv, SamplerTypes, RingState
<1>4. r.head \in Slots /\ r.tail \in Slots \cup {-1}
  BY <1>1, <1>3, RingFields, SlotFacts DEF Stored, MovedShape
<1>5. /\ TailOf(r.tail, r.head) \in Slots
      /\ Ring(r)!TailAfter(r.head) = TailOf(r.tail, r.head)
  BY <1>4, TailIs
<1>6. samples' = [samples EXCEPT ![which] = q]
  BY <1>5 DEF MoveTail, PutInto
<1>7. /\ q \in Rings /\ q.tail = TailOf(r.tail, r.head)
      /\ q.head = r.head /\ q.count = r.count /\ q.buffer = r.buffer
  BY <1>1, <1>5, SetTail
<1> HIDE DEF q
<1>8. /\ samples' \in [Kinds -> Rings] /\ samples'[which] = q
      /\ \A k \in Kinds : k # which => samples'[k] = samples[k]
  BY <1>6, <1>7, OneRing DEF SamplerInv, SamplerTypes
<1>9. SamplerTypes'
  BY <1>2, <1>8 DEF SamplerInv, SamplerTypes
<1>10. ASSUME NEW k \in Kinds PROVE RingState(k)'
  <2>1. CASE k = which
    <3>1. Tailed(r.buffer, TailOf(r.tail, r.head), r.head, r.count, windows[k], sampled)
      BY <1>1, <1>3, <2>1, TailMoves
    <3>2. QED BY <1>2, <1>7, <1>8, <2>1, <3>1 DEF RingState
  <2>2. CASE k # which
    BY <1>2, <1>8, <2>2 DEF SamplerInv, RingState
  <2>3. QED BY <2>1, <2>2
<1> HIDE DEF r
<1>11. InStep'
  <2>1. CASE which = "produced"
    BY <1>2, <1>7, <1>8, <2>1 DEF SamplerInv, InStep, Kinds, r
  <2>2. CASE which = "consumed"
    BY <1>2, <1>7, <1>8, <2>2 DEF SamplerInv, InStep, Kinds, r
  <2>3. QED BY <2>1, <2>2 DEF SamplerInv, SamplerTypes, Kinds
<1>12. QED BY <1>9, <1>10, <1>11 DEF SamplerInv

LEMMA StoreCountStep ==
  ASSUME SamplerInv, StoreCount PROVE SamplerInv'
<1> DEFINE r == samples[which]
           q == [r EXCEPT !.count = CountOf(r.count)]
<1>1. r \in Rings /\ which \in Kinds /\ DOMAIN windows = Kinds
  BY DEF SamplerInv, SamplerTypes
<1>2. /\ at = "count" /\ at' = "load" /\ sampled' = 0 /\ running' = running
      /\ which' = IF which = "produced" THEN "consumed" ELSE "produced"
  BY DEF StoreCount, Access
<1>3. Tailed(r.buffer, r.tail, r.head, r.count, windows[which], sampled)
  BY <1>2, Zenon DEF SamplerInv, SamplerTypes, RingState
<1>4. Ring(r)!CountAfter = CountOf(r.count) /\ CountOf(r.count) \in 0 .. Length
  BY <1>3, CountIs DEF Tailed
<1>5. samples' = [samples EXCEPT ![which] = q]
  BY <1>4 DEF StoreCount, PutInto
<1>6. /\ q \in Rings /\ q.count = CountOf(r.count)
      /\ q.head = r.head /\ q.tail = r.tail /\ q.buffer = r.buffer
  BY <1>1, <1>4, SetCount
<1> HIDE DEF q
<1>7. /\ samples' \in [Kinds -> Rings] /\ samples'[which] = q
      /\ \A k \in Kinds : k # which => samples'[k] = samples[k]
  BY <1>5, <1>6, OneRing DEF SamplerInv, SamplerTypes
<1>8. Ring(samples[which])!SW!Slide(windows[which], sampled) = SlideOf(windows[which], sampled)
  BY SlotFacts DEF Ring!SW!Slide, SlideOf
<1>9. /\ DOMAIN windows' = Kinds
      /\ windows'[which] = SlideOf(windows[which], sampled)
      /\ \A k \in Kinds : k # which => windows'[k] = windows[k]
  BY <1>1, <1>8 DEF StoreCount
<1>10. SamplerTypes'
  BY <1>1, <1>2, <1>7, <1>9, StatusAssumption DEF SamplerInv, SamplerTypes, Values, Kinds
<1>11. ASSUME NEW k \in Kinds PROVE RingState(k)'
  <2>1. CASE k = which
    <3>1. Holds(r.buffer, r.tail, r.head, CountOf(r.count), SlideOf(windows[k], sampled))
      BY <1>3, <2>1 DEF Tailed
    <3>2. QED BY <1>2, <1>6, <1>7, <1>9, <2>1, <3>1 DEF RingState
  <2>2. CASE k # which
    BY <1>2, <1>7, <1>9, <2>2 DEF SamplerInv, RingState
  <2>3. QED BY <2>1, <2>2
<1> HIDE DEF r
<1>12. InStep'
  <2>1. CASE which = "produced"
    BY <1>2, <1>6, <1>7, <2>1 DEF SamplerInv, InStep, Kinds, r
  <2>2. CASE which = "consumed"
    BY <1>2, <1>6, <1>7, <2>2 DEF SamplerInv, InStep, Kinds, r
  <2>3. QED BY <1>1, <2>1, <2>2 DEF Kinds
<1>13. QED BY <1>10, <1>11, <1>12 DEF SamplerInv

\* The steps that move no ring.
LEMMA SamplerRests ==
  ASSUME SamplerInv, LoadCounter \/ Close \/ UNCHANGED samplerVars, RecordInv
  PROVE  SamplerInv'
<1>1. CASE LoadCounter
  <2>1. /\ at = "load" /\ at' = "head" /\ UNCHANGED <<samples, which, windows, running>>
        /\ sampled' = counters[which]
    BY <1>1 DEF LoadCounter, Access
  <2>2. SamplerTypes'
    BY <2>1 DEF SamplerInv, SamplerTypes, RecordInv
  <2>3. ASSUME NEW k \in Kinds PROVE RingState(k)'
    BY <2>1, Zenon DEF SamplerInv, RingState
  <2>4. InStep'
    BY <2>1 DEF SamplerInv, InStep
  <2>5. QED BY <2>2, <2>3, <2>4 DEF SamplerInv
<1>2. CASE Close \/ UNCHANGED samplerVars
  <2>1. UNCHANGED <<samples, at, which, sampled, windows>> /\ running' \in BOOLEAN
    BY <1>2 DEF Close, samplerVars, SamplerInv, SamplerTypes
  <2>2. QED BY <2>1 DEF SamplerInv, SamplerTypes, RingState, InStep
<1>3. QED BY <1>1, <1>2

-----------------------------------------------------------------------------
(* What the rings hold between two checks, and in the middle of one. *)

\* A window is as long as its ring has counted, and one that is not empty has a
\* ring with both its indexes set.
LEMMA IndexesSet ==
  ASSUME SamplerInv, NEW k \in Kinds
  PROVE  /\ windows[k] \in Seq(Values) /\ Len(windows[k]) = samples[k].count
         /\ samples[k].count \in 0 .. Length
         /\ windows[k] # << >> => samples[k].head \in Slots /\ samples[k].tail \in Slots
<1> DEFINE b == samples[k].buffer  t == samples[k].tail
           h == samples[k].head    c == samples[k].count  w == windows[k]
<1>1. \/ Holds(b, t, h, c, w) \/ Moved(b, t, h, c, w) \/ Stored(b, t, h, c, w, sampled)
      \/ Tailed(b, t, h, c, w, sampled)
  BY Zenon DEF SamplerInv, SamplerTypes, RingState
<1> HIDE DEF b, t, h, c, w
<1>2. w \in Seq(Values) /\ Len(w) = c
  BY <1>1 DEF Holds, Moved, Stored, Tailed
<1>3. c \in 0 .. Length
  BY <1>1, SlotFacts DEF Holds, Moved, Stored, Tailed, Shape, MovedShape
<1>4. ASSUME w # << >> PROVE h \in Slots /\ t \in Slots
  <2>1. c > 0
    BY <1>2, <1>4
  <2>2. CASE Holds(b, t, h, c, w)
    BY <2>1, <2>2, SlotFacts DEF Holds, Shape, NextOf
  <2>3. CASE Moved(b, t, h, c, w) \/ Stored(b, t, h, c, w, sampled)
    BY <2>1, <2>3, SlotFacts DEF Moved, Stored, MovedShape
  <2>4. CASE Tailed(b, t, h, c, w, sampled)
    <3>1. Shape(t, h, CountOf(c)) /\ CountOf(c) > 0
      BY <1>3, <2>1, <2>4 DEF Tailed, Holds, CountOf
    <3>2. QED BY <3>1, SlotFacts DEF Shape, NextOf
  <2>5. QED BY <1>1, <2>2, <2>3, <2>4
<1>5. QED BY <1>2, <1>3, <1>4 DEF b, t, h, c, w

\* The produced ring is never behind.
LEMMA BothSampled ==
  ASSUME SamplerInv, windows["consumed"] # << >> PROVE windows["produced"] # << >>
<1>1. /\ samples["consumed"].count # 0 /\ samples["consumed"].count \in 0 .. Length
      /\ windows["consumed"] \in Seq(Values) /\ windows["produced"] \in Seq(Values)
      /\ Len(windows["produced"]) = samples["produced"].count
  BY IndexesSet DEF Kinds
<1>2. samples["produced"].count # 0
  BY <1>1, SlotFacts DEF SamplerInv, InStep, CountOf
<1>3. QED BY <1>1, <1>2

\* Between two checks the rings are level, and each holds its window.
LEMMA RingsLevel ==
  ASSUME SamplerInv, Idle
  PROVE  /\ samples["produced"].head = samples["consumed"].head
         /\ samples["produced"].tail = samples["consumed"].tail
         /\ samples["produced"].count = samples["consumed"].count
         /\ \A k \in Kinds : Holds(samples[k].buffer, samples[k].tail, samples[k].head,
                                  samples[k].count, windows[k])
<1>1. at = "load" /\ which = "produced"
  BY DEF Idle
<1>2. /\ samples["produced"].head = samples["consumed"].head
      /\ samples["produced"].count = samples["consumed"].count
  BY <1>1 DEF SamplerInv, InStep
<1>3. \A k \in Kinds : Holds(samples[k].buffer, samples[k].tail, samples[k].head,
                            samples[k].count, windows[k])
  BY <1>1 DEF SamplerInv, RingState
<1>4. \A k \in Kinds : Shape(samples[k].tail, samples[k].head, samples[k].count)
  BY <1>3 DEF Holds
<1>5. samples["produced"].tail = samples["consumed"].tail
  BY <1>2, <1>4, SlotFacts DEF Shape, Kinds
<1>6. QED BY <1>2, <1>3, <1>5

LEMMA LevelInStep == SamplerInv => RingsInStep
<1> SUFFICES ASSUME SamplerInv, Idle
             PROVE  /\ \A f \in {"head", "tail", "count"} :
                         samples.produced[f] = samples.consumed[f]
                    /\ \A k \in Kinds : Ring(samples[k])!Window = windows[k]
  BY DEF RingsInStep
<1>1. \A f \in {"head", "tail", "count"} : samples.produced[f] = samples.consumed[f]
  BY RingsLevel
<1>2. ASSUME NEW k \in Kinds PROVE Ring(samples[k])!Window = windows[k]
  <2> DEFINE r == samples[k]  w == windows[k]
  <2>1. Holds(r.buffer, r.tail, r.head, r.count, w)
    BY RingsLevel
  <2>2. w \in Seq(Values) /\ Len(w) = r.count
    BY <2>1 DEF Holds
  <2>3. Ring(r)!Window = [i \in 1 .. r.count |-> r.buffer[(r.tail + i - 1) % Length]]
    BY SlotFacts DEF Ring!Window
  <2>4. ASSUME NEW i \in 1 .. r.count PROVE r.buffer[(r.tail + i - 1) % Length] = w[i]
    <3>1. r.tail \in Slots /\ i \in 1 .. Length
      BY <2>1, SlotFacts DEF Holds, Shape, NextOf
    <3>2. (r.tail + i - 1) % Length = SlotOf(r.tail, i)
      BY <3>1, SlotOfIs
    <3>3. QED BY <2>1, <2>2, <3>2 DEF Holds
  <2> HIDE DEF r, w
  <2>5. Ring(r)!Window = [i \in 1 .. r.count |-> w[i]]
    BY <2>3, <2>4
  <2>6. w = [i \in 1 .. Len(w) |-> w[i]]
    BY <2>2
  <2>7. QED BY <2>2, <2>5, <2>6 DEF r, w
<1>3. QED BY <1>1, <1>2

\* The newest and the oldest sample are where the indexes of the ring are.
LEMMA EndsOfRing ==
  ASSUME NEW b, NEW t, NEW h, NEW c, NEW w, Holds(b, t, h, c, w), w # << >>
  PROVE  h \in Slots /\ t \in Slots /\ b[h] = w[Len(w)] /\ b[t] = w[1]
<1>1. c > 0 /\ c \in 1 .. Length /\ Len(w) = c /\ w \in Seq(Values)
  BY SlotFacts DEF Holds, Shape
<1>2. h \in Slots /\ t \in Slots /\ SlotOf(t, 1) = t /\ SlotOf(t, c) = h
  BY <1>1, SlotFacts DEF Holds, Shape, NextOf, SlotOf
<1>3. QED BY <1>1, <1>2 DEF Holds

-----------------------------------------------------------------------------
(* The handler, while the rings change under it. *)

HandlerInv ==
  /\ hpc \in {"idle", "count", "empty", "index", "value", "reply"}
  /\ disturbed \in BOOLEAN /\ sawFirst \in BOOLEAN
  /\ index \in Slots \cup {None}
  /\ values \in Seq(Values)
  /\ hpc \in {"idle", "count", "empty"} => values = << >>
  /\ hpc \in {"index", "value"} => Len(values) <= 3
  /\ hpc = "reply" => Len(values) = 4
  /\ sawFirst => windows["consumed"] # << >>
  /\ sawFirst /\ hpc = "value" => index # None
  /\ answer.kind \in {"none", "noData", "panic", "percentage"}
  /\ answer.kind = "panic" => ~sawFirst

\* The steps of others: a window that is not empty stays so.
LEMMA HandlerRests ==
  ASSUME SamplerInv, HandlerInv,
         UNCHANGED <<hpc, index, values, answer, sawFirst>>, disturbed' \in BOOLEAN,
         StoreCount \/ UNCHANGED windows
  PROVE  HandlerInv'
<1>1. windows["consumed"] # << >> => windows'["consumed"] # << >>
  <2>1. CASE StoreCount
    <3> DEFINE w == windows["consumed"]
    <3>1. windows'["consumed"] = w \/ windows'["consumed"] = SlideOf(w, sampled)
      <4>1. Ring(samples[which])!SW!Slide(windows[which], sampled) = SlideOf(windows[which], sampled)
        BY SlotFacts DEF Ring!SW!Slide, SlideOf
      <4>2. QED BY <2>1, <4>1 DEF StoreCount, SamplerInv, SamplerTypes, Kinds
    <3>2. w \in Seq(Values) /\ sampled \in Values
      BY IndexesSet DEF SamplerInv, SamplerTypes, Kinds
    <3>3. w # << >> => SlideOf(w, sampled) # << >>
      <4> HIDE DEF w
      <4> SUFFICES ASSUME w # << >> PROVE Len(SlideOf(w, sampled)) # 0
        OBVIOUS
      <4>1. Tail(w) \in Seq(Values)
        BY <3>2
      <4>2. Len(Append(w, sampled)) # 0 /\ Len(Append(Tail(w), sampled)) # 0
        BY <3>2, <4>1
      <4>3. QED BY <4>2 DEF SlideOf
    <3>4. QED BY <3>1, <3>3
  <2>2. CASE UNCHANGED windows
    BY <2>2
  <2>3. QED BY <2>1, <2>2
<1>2. QED BY <1>1 DEF HandlerInv

\* Which index the handler loads next.
LEMMA ReadsInRings ==
  ASSUME NEW n \in 1 .. 4 PROVE Reads[n][1] \in Kinds /\ Reads[n][2] \in {"head", "tail"}
  BY DEF Reads, Kinds

LEMMA HandlerStep ==
  ASSUME SamplerInv, HandlerInv,
         \/ StatusRequest \/ ReadCount \/ CheckEmpty \/ LoadIndex \/ LoadValue \/ Reply
  PROVE  HandlerInv'
<1>1. CASE StatusRequest
  <2>1. /\ hpc = "idle" /\ hpc' = "count" /\ answer' = NoAnswer /\ disturbed' = ~Idle
        /\ sawFirst' = (windows["consumed"] # << >>) /\ UNCHANGED <<windows, index, values>>
    BY <1>1 DEF StatusRequest, samplerVars
  <2>2. answer'.kind = "none"
    BY <2>1 DEF NoAnswer
  <2>3. disturbed' \in BOOLEAN /\ sawFirst' \in BOOLEAN
    BY <2>1, Zenon DEF Idle
  <2>4. QED BY <2>1, <2>2, <2>3 DEF HandlerInv
<1>2. CASE ReadCount
  BY <1>2 DEF ReadCount, samplerVars, HandlerInv
<1>3. CASE CheckEmpty
  <2>1. UNCHANGED <<windows, disturbed, sawFirst>> /\ hpc = "empty"
    BY <1>3 DEF CheckEmpty, samplerVars
  <2>2. CASE Respond(NoData)
    <3>1. answer'.kind = "noData" /\ hpc' = "idle" /\ index' = None /\ values' = << >>
      BY <2>2 DEF Respond, NoData, NoAnswer
    <3>2. QED BY <2>1, <3>1 DEF HandlerInv
  <2>3. CASE hpc' = "index" /\ UNCHANGED <<counted, index, values, answer>>
    BY <2>1, <2>3 DEF HandlerInv
  <2>4. QED BY <1>3, <2>2, <2>3 DEF CheckEmpty
<1>4. CASE LoadIndex
  <2> DEFINE n == Len(values) + 1
  <2>1. /\ hpc = "index" /\ hpc' = "value" /\ index' = IndexOf(Reads[n][1], Reads[n][2])
        /\ UNCHANGED <<windows, values, answer, disturbed, sawFirst>>
    BY <1>4 DEF LoadIndex, samplerVars
  <2>2. n \in 1 .. 4
    BY <2>1 DEF HandlerInv
  <2>3. Reads[n][1] \in Kinds
    BY <2>2, ReadsInRings
  <2> HIDE DEF n
  <2>4. \A k \in Kinds : \A e : IndexOf(k, e) \in Slots \cup {None}
    BY RingFields DEF SamplerInv, SamplerTypes, IndexOf, None
  <2>5. ASSUME sawFirst PROVE index' # None
    <3>1. \A k \in Kinds : windows[k] # << >>
      BY <2>5, BothSampled DEF HandlerInv, Kinds
    <3>2. \A k \in Kinds : \A e : IndexOf(k, e) \in Slots
      BY <3>1, IndexesSet DEF IndexOf
    <3>3. QED BY <2>1, <2>3, <3>2, SlotFacts DEF None
  <2>6. QED BY <2>1, <2>3, <2>4, <2>5 DEF HandlerInv
<1>5. CASE LoadValue
  <2> DEFINE n == Len(values) + 1
  <2>1. hpc = "value" /\ UNCHANGED <<windows, disturbed, sawFirst>>
    BY <1>5 DEF LoadValue, samplerVars
  <2>2. CASE index = None
    <3>1. Respond([NoAnswer EXCEPT !.kind = "panic"])
      BY <1>5, <2>2 DEF LoadValue
    <3>2. answer'.kind = "panic" /\ hpc' = "idle" /\ index' = None /\ values' = << >>
      BY <3>1 DEF Respond, NoAnswer
    <3>3. QED BY <2>1, <2>2, <3>2 DEF HandlerInv
  <2>3. CASE index # None
    <3>1. /\ values' = Append(values, samples[Reads[n][1]].buffer[index])
          /\ index' = None /\ hpc' = IF Len(values) = 3 THEN "reply" ELSE "index"
          /\ UNCHANGED answer
      BY <1>5, <2>3 DEF LoadValue
    <3>2. n \in 1 .. 4
      BY <2>1 DEF HandlerInv
    <3>3. samples[Reads[n][1]].buffer \in [Slots -> Values] /\ index \in Slots
      BY <2>3, <3>2, ReadsInRings, RingFields DEF SamplerInv, SamplerTypes, HandlerInv
    <3>4. values' \in Seq(Values) /\ Len(values') = Len(values) + 1
      BY <3>1, <3>3 DEF HandlerInv
    <3>5. values \in Seq(Values) /\ Len(values) <= 3
      BY <2>1 DEF HandlerInv
    <3>6. PICK m \in Nat : m = Len(values) /\ m <= 3
      BY <3>5
    <3>7. /\ m = 3 => hpc' = "reply" /\ Len(values') = 4
          /\ m # 3 => hpc' = "index" /\ Len(values') <= 3
      BY <3>1, <3>4, <3>6
    <3>8. QED BY <2>1, <3>1, <3>4, <3>7 DEF HandlerInv
  <2>4. QED BY <2>2, <2>3
<1>6. CASE Reply
  <2>1. /\ UNCHANGED <<windows, disturbed, sawFirst>>
        /\ Respond(StatusOf(counted, values[1] - values[2], values[3] - values[4]))
    BY <1>6 DEF Reply, samplerVars
  <2>2. \A n, x, y : StatusOf(n, x, y).kind \in {"noData", "percentage"}
    BY DEF StatusOf, NoAnswer
  <2>3. /\ hpc' = "idle" /\ index' = None /\ values' = << >>
        /\ answer'.kind \in {"noData", "percentage"}
    BY <2>1, <2>2 DEF Respond
  <2>4. QED BY <2>1, <2>3 DEF HandlerInv
<1>7. QED BY <1>1, <1>2, <1>3, <1>4, <1>5, <1>6

-----------------------------------------------------------------------------
(* The handler, while nobody disturbs it. *)

\* What the handler should find: the ends of the two windows.
Expected ==
  LET c == windows["consumed"]  p == windows["produced"]
  IN  <<c[Len(c)], c[1], p[Len(p)], p[1]>>

QuietInv ==
  ~disturbed =>
    /\ Idle
    /\ hpc \in {"empty", "index", "value", "reply"} => counted = Len(windows["consumed"])
    /\ hpc \in {"index", "value", "reply"} =>
         /\ windows["produced"] # << >>
         /\ \A j \in 1 .. Len(values) : values[j] = Expected[j]
    /\ hpc = "value" =>
         index = IndexOf(Reads[Len(values) + 1][1], Reads[Len(values) + 1][2])
    /\ answer.kind # "none" => answer = Reference

LEMMA QuietRests ==
  ASSUME QuietInv, disturbed' \/ UNCHANGED <<handlerVars, samples, windows, at, which>>
  PROVE  QuietInv'
<1>1. CASE disturbed'
  BY <1>1 DEF QuietInv
<1>2. CASE UNCHANGED <<handlerVars, samples, windows, at, which>>
  <2>1. Idle' = Idle /\ Expected' = Expected /\ Reference' = Reference
    BY <1>2 DEF Idle, Expected, Reference, Over, StatusOf
  <2>2. \A k, e : IndexOf(k, e)' = IndexOf(k, e)
    BY <1>2 DEF IndexOf
  <2>3. QED BY <1>2, <2>1, <2>2 DEF QuietInv, handlerVars, IndexOf, Reads
<1>3. QED BY <1>1, <1>2

\* What the handler reads at an index that it has loaded from a ring at rest.
LEMMA QuietRead ==
  ASSUME SamplerInv, Idle, windows["produced"] # << >>, NEW n \in 1 .. 4
  PROVE  /\ IndexOf(Reads[n][1], Reads[n][2]) # None
         /\ samples[Reads[n][1]].buffer[IndexOf(Reads[n][1], Reads[n][2])] = Expected[n]
<1>1. windows["consumed"] # << >>
  <2>1. /\ Len(windows["produced"]) = samples["produced"].count
        /\ Len(windows["consumed"]) = samples["consumed"].count
        /\ windows["produced"] \in Seq(Values) /\ windows["consumed"] \in Seq(Values)
    BY IndexesSet DEF Kinds
  <2>2. Len(windows["produced"]) # 0
    BY <2>1
  <2>3. QED BY <2>1, <2>2, RingsLevel
<1>2. ASSUME NEW k \in Kinds
      PROVE  /\ samples[k].head \in Slots /\ samples[k].tail \in Slots
             /\ samples[k].buffer[samples[k].head] = windows[k][Len(windows[k])]
             /\ samples[k].buffer[samples[k].tail] = windows[k][1]
  <2>1. Holds(samples[k].buffer, samples[k].tail, samples[k].head, samples[k].count, windows[k])
    BY RingsLevel
  <2>2. windows[k] # << >>
    BY <1>1 DEF Kinds
  <2>3. QED BY <2>1, <2>2, EndsOfRing
<1>3. -1 \notin Slots
  BY SlotFacts
<1>4. n = 1 \/ n = 2 \/ n = 3 \/ n = 4
  OBVIOUS
<1>5. QED BY <1>2, <1>3, <1>4 DEF Reads, IndexOf, Expected, Kinds, None

LEMMA QuietStep ==
  ASSUME SamplerInv, HandlerInv, QuietInv,
         \/ StatusRequest \/ ReadCount \/ CheckEmpty \/ LoadIndex \/ LoadValue \/ Reply
  PROVE  QuietInv'
<1> SUFFICES ASSUME ~disturbed' PROVE QuietInv'
  BY DEF QuietInv
<1>1. UNCHANGED <<samples, windows, at, which>>
  BY DEF StatusRequest, ReadCount, CheckEmpty, LoadIndex, LoadValue, Reply, samplerVars
<1>2. /\ Idle' = Idle /\ Expected' = Expected /\ Reference' = Reference
  BY <1>1 DEF Idle, Expected, Reference, Over, StatusOf
<1>3. CASE StatusRequest
  <2>1. hpc' = "count" /\ answer' = NoAnswer /\ disturbed' = ~Idle
    BY <1>3 DEF StatusRequest
  <2>2. answer'.kind = "none"
    BY <2>1 DEF NoAnswer
  <2>3. QED BY <1>2, <2>1, <2>2 DEF QuietInv
<1>4. ~StatusRequest => ~disturbed
  BY DEF ReadCount, CheckEmpty, LoadIndex, LoadValue, Reply
<1>5. ASSUME ~StatusRequest PROVE Idle
  BY <1>4, <1>5 DEF QuietInv
<1>6. CASE ReadCount
  <2>1. /\ hpc = "count" /\ hpc' = "empty" /\ counted' = samples["consumed"].count
        /\ UNCHANGED <<values, answer, disturbed>>
    BY <1>6 DEF ReadCount
  <2>2. counted' = Len(windows["consumed"])
    BY <2>1, IndexesSet DEF Kinds
  <2>3. QED BY <1>1, <1>2, <2>1, <2>2 DEF QuietInv
<1>7. CASE CheckEmpty
  <2>1. /\ hpc = "empty" /\ Idle /\ UNCHANGED disturbed
    BY <1>5, <1>7 DEF CheckEmpty, StatusRequest
  <2>2. /\ counted = Len(windows["consumed"])
        /\ Len(windows["consumed"]) = Len(windows["produced"])
        /\ Len(windows["produced"]) = samples["produced"].count
        /\ windows["produced"] \in Seq(Values)
    BY <1>4, <1>7, <2>1, IndexesSet, RingsLevel DEF QuietInv, StatusRequest, Kinds
  <2>3. Ring(samples.produced)!IsEmpty <=> samples["produced"].count = 0
    <3>1. Shape(samples["produced"].tail, samples["produced"].head, samples["produced"].count)
      BY <2>1, RingsLevel DEF Holds, Kinds
    <3>2. QED BY <3>1, SlotFacts DEF Shape, Ring!IsEmpty
  <2>4. CASE samples["produced"].count = 0
    <3>1. Respond(NoData)
      BY <1>7, <2>3, <2>4 DEF CheckEmpty
    <3>2. windows["produced"] = << >> /\ counted = 0
      BY <2>2, <2>4
    <3>3. Reference = [NoAnswer EXCEPT !.kind = "noData"]
      BY <3>2 DEF Reference
    <3>4. NoData = [NoAnswer EXCEPT !.kind = "noData"]
      <4> DEFINE empty == [NoAnswer EXCEPT !.kind = "noData"]
      <4>1. empty = [kind |-> "noData", counted |-> 0, consumed |-> 0, produced |-> 0]
        BY DEF NoAnswer
      <4>2. NoData = [empty EXCEPT !.counted = counted]
        BY DEF NoData
      <4> HIDE DEF empty
      <4>3. [empty EXCEPT !.counted = 0] = empty
        BY <4>1
      <4>4. NoData = empty
        BY <3>2, <4>2, <4>3
      <4>5. QED BY <4>4 DEF empty
    <3>5. answer' = Reference /\ hpc' = "idle"
      BY <3>1, <3>3, <3>4 DEF Respond
    <3>6. QED BY <1>2, <2>1, <3>5 DEF QuietInv
  <2>5. CASE samples["produced"].count # 0
    <3>1. hpc' = "index" /\ UNCHANGED <<counted, index, values, answer>>
      BY <1>7, <2>3, <2>5 DEF CheckEmpty
    <3>2. windows["produced"] # << >>
      BY <2>2, <2>5
    <3>3. values = << >>
      BY <2>1 DEF HandlerInv
    <3>4. \A j \in 1 .. Len(values) : values[j] = Expected[j]
      BY <3>3
    <3>5. answer.kind # "none" => answer = Reference
      BY <1>4, <2>1 DEF QuietInv, StatusRequest
    <3>6. QED BY <1>1, <1>2, <2>1, <2>2, <3>1, <3>2, <3>4, <3>5 DEF QuietInv
  <2>6. QED BY <2>4, <2>5
<1>8. CASE LoadIndex
  <2>1. /\ hpc = "index" /\ hpc' = "value"
        /\ index' = IndexOf(Reads[Len(values) + 1][1], Reads[Len(values) + 1][2])
        /\ UNCHANGED <<counted, values, answer, disturbed>>
    BY <1>8 DEF LoadIndex
  <2>2. \A k, e : IndexOf(k, e)' = IndexOf(k, e)
    BY <1>1 DEF IndexOf
  <2>3. index' = IndexOf(Reads[Len(values) + 1][1], Reads[Len(values) + 1][2])'
    BY <1>1, <2>1 DEF IndexOf, Reads
  <2>4. ~disturbed /\ Idle
    BY <1>4, <1>5, <2>1 DEF StatusRequest
  <2>5. QED BY <1>1, <1>2, <2>1, <2>3, <2>4 DEF QuietInv
<1>9. CASE LoadValue
  <2> DEFINE n == Len(values) + 1
  <2>1. hpc = "value" /\ UNCHANGED disturbed /\ ~disturbed /\ Idle
    BY <1>4, <1>5, <1>9 DEF LoadValue, StatusRequest
  <2>2. /\ counted = Len(windows["consumed"]) /\ windows["produced"] # << >>
        /\ \A j \in 1 .. Len(values) : values[j] = Expected[j]
        /\ index = IndexOf(Reads[n][1], Reads[n][2])
        /\ answer.kind # "none" => answer = Reference
    BY <2>1 DEF QuietInv
  <2>3. n \in 1 .. 4 /\ values \in Seq(Values)
    BY <2>1 DEF HandlerInv
  <2>4. /\ index # None /\ samples[Reads[n][1]].buffer[index] = Expected[n]
    BY <2>1, <2>2, <2>3, QuietRead
  <2>5. /\ values' = Append(values, Expected[n]) /\ UNCHANGED <<counted, answer>>
        /\ hpc' \in {"reply", "index"}
    BY <1>9, <2>4 DEF LoadValue
  <2>6. ASSUME NEW j \in 1 .. Len(values') PROVE values'[j] = Expected[j]
    <3>1. PICK m \in Nat : m = Len(values)
      BY <2>3
    <3>2. Expected[n] \in Values
      <4>1. samples[Reads[n][1]].buffer \in [Slots -> Values] /\ index \in Slots
        BY <2>3, <2>4, ReadsInRings, RingFields DEF SamplerInv, SamplerTypes, HandlerInv
      <4>2. QED BY <2>4, <4>1
    <3>3. Len(values') = m + 1 /\ j \in 1 .. m + 1
      BY <2>3, <2>5, <3>1, <3>2
    <3>4. values'[j] = IF j = m + 1 THEN Expected[n] ELSE values[j]
      BY <2>3, <2>5, <3>1, <3>2, <3>3
    <3>5. QED BY <2>2, <3>1, <3>3, <3>4
  <2>7. QED BY <1>1, <1>2, <2>1, <2>2, <2>5, <2>6 DEF QuietInv
<1>10. CASE Reply
  <2>1. hpc = "reply" /\ ~disturbed /\ Idle /\ UNCHANGED disturbed
    BY <1>4, <1>5, <1>10 DEF Reply, StatusRequest
  <2>2. Len(values) = 4
    BY <2>1 DEF HandlerInv
  <2>3. /\ counted = Len(windows["consumed"]) /\ windows["produced"] # << >>
        /\ \A j \in 1 .. 4 : values[j] = Expected[j]
    BY <2>1, <2>2 DEF QuietInv
  <2>4. /\ values[1] - values[2] = Over(windows["consumed"])
        /\ values[3] - values[4] = Over(windows["produced"])
    BY <2>3 DEF Expected, Over
  <2>5. answer' = StatusOf(counted, values[1] - values[2], values[3] - values[4])
        /\ hpc' = "idle"
    BY <1>10 DEF Reply, Respond
  <2>6. answer' = Reference
    BY <2>3, <2>4, <2>5 DEF Reference
  <2>7. QED BY <1>2, <2>1, <2>5, <2>6 DEF QuietInv
<1>11. QED BY <1>3, <1>6, <1>7, <1>8, <1>9, <1>10

-----------------------------------------------------------------------------
(* The invariant of the specification, and the theorems. *)

StatusInv == RecordInv /\ SamplerInv /\ HandlerInv /\ QuietInv

LEMMA StatusInit == Init => StatusInv
<1> SUFFICES ASSUME Init PROVE StatusInv
  OBVIOUS
<1>1. RecordInv
  <2>1. /\ sending = FALSE /\ delivered = 0 /\ taken = 0 /\ redelivered = 0
        /\ counters = [k \in Kinds |-> 0] /\ loaded = [c \in Claims |-> None]
    BY DEF Init
  <2>2. counters["produced"] = 0 /\ counters["consumed"] = 0 /\ counters \in [Kinds -> Values]
    BY <2>1, StatusAssumption DEF Kinds, Values
  <2>3. loaded \in [Claims -> Values \cup {None}] /\ \A c \in Claims : loaded[c] = None
    BY <2>1
  <2>4. (IF sending THEN 1 ELSE 0) = 0 /\ sending \in BOOLEAN
    BY <2>1
  <2>5. /\ delivered \in 0 .. MaxRecords /\ taken \in 0 .. delivered
        /\ delivered <= 0 + 0 /\ 0 + 0 <= MaxRecords /\ 0 <= taken + redelivered
        /\ redelivered \in 0 .. MaxRedelivered
    BY <2>1, StatusAssumption
  <2>6. \A c \in Claims : loaded[c] # None => loaded[c] < taken + redelivered
    BY <2>3
  <2>7. QED BY <2>2, <2>3, <2>4, <2>5, <2>6 DEF RecordInv
<1>2. /\ \A k \in Kinds : samples[k] = NewRing /\ windows[k] = << >>
      /\ samples = [k \in Kinds |-> NewRing] /\ windows = [k \in Kinds |-> << >>]
      /\ at = "load" /\ which = "produced" /\ sampled = 0 /\ running = TRUE
  BY DEF Init
<1>3. /\ NewRing \in Rings
      /\ NewRing.tail = -1 /\ NewRing.head = -1 /\ NewRing.count = 0
  <2>1. [i \in Ring(NoRing)!Slots |-> 0] \in [Slots -> Values]
    BY StatusAssumption DEF Slots, Values
  <2>2. NewRing = [buffer |-> [i \in Ring(NoRing)!Slots |-> 0],
                   tail |-> -1, head |-> -1, count |-> 0]
    BY DEF NewRing, NoRing
  <2>3. QED BY <2>1, <2>2, SlotFacts DEF Rings
<1>4. SamplerInv
  <2>1. SamplerTypes
    BY <1>2, <1>3, StatusAssumption DEF SamplerTypes, Kinds, Values
  <2>2. ASSUME NEW k \in Kinds PROVE RingState(k)
    <3>1. Holds(NewRing.buffer, NewRing.tail, NewRing.head, NewRing.count, << >>)
      BY <1>3, SlotFacts DEF Holds, Shape
    <3>2. QED BY <1>2, <3>1 DEF RingState
  <2>3. InStep
    BY <1>2 DEF InStep, Kinds
  <2>4. QED BY <2>1, <2>2, <2>3 DEF SamplerInv
<1>5. /\ hpc = "idle" /\ index = None /\ values = << >>
      /\ disturbed = FALSE /\ sawFirst = FALSE /\ answer.kind = "none"
  <2>1. answer = NoAnswer
    BY DEF Init
  <2>2. answer.kind = "none"
    BY <2>1 DEF NoAnswer
  <2>3. QED BY <2>2 DEF Init
<1>6. HandlerInv
  <2>0. disturbed \in BOOLEAN /\ sawFirst \in BOOLEAN
    BY <1>5, Zenon
  <2>1. values \in Seq(Values)
    BY <1>5
  <2>2. index \in Slots \cup {None} /\ ~sawFirst
    BY <1>5
  <2>3. QED BY <1>5, <2>0, <2>1, <2>2 DEF HandlerInv
<1>7. QuietInv
  <2>1. Idle
    BY <1>2 DEF Idle
  <2>2. QED BY <1>5, <2>1 DEF QuietInv
<1>8. QED BY <1>1, <1>4, <1>6, <1>7 DEF StatusInv

LEMMA StatusStep == StatusInv /\ [Next]_vars => StatusInv'
<1> SUFFICES ASSUME StatusInv, [Next]_vars PROVE StatusInv'
  OBVIOUS
<1>0. RecordInv /\ SamplerInv /\ HandlerInv /\ QuietInv
  BY DEF StatusInv
<1>1. ASSUME SendMessage \/ CountProduced
             \/ (\E c \in Claims : LoadConsumed(c) \/ StoreConsumed(c)) \/ Redeliver
      PROVE  StatusInv'
  <2>1. UNCHANGED <<samplerVars, handlerVars>>
    BY <1>1 DEF SendMessage, CountProduced, LoadConsumed, StoreConsumed, Redeliver
  <2>2. /\ UNCHANGED <<hpc, index, values, answer, sawFirst, windows>>
        /\ UNCHANGED <<handlerVars, samples, windows, at, which>> /\ disturbed' = disturbed
    BY <2>1 DEF samplerVars, handlerVars
  <2>3. RecordInv'
    BY <1>0, <1>1, RecordStep
  <2>4. SamplerInv'
    BY <1>0, <2>1, SamplerRests
  <2>5. HandlerInv'
    BY <1>0, <2>2, HandlerRests DEF HandlerInv
  <2>6. QuietInv'
    BY <1>0, <2>2, QuietRests
  <2>7. QED BY <2>3, <2>4, <2>5, <2>6 DEF StatusInv
<1>2. ASSUME LoadCounter \/ MoveHead \/ StoreSlot \/ MoveTail \/ StoreCount
      PROVE  StatusInv'
  <2>1. /\ disturbed' = TRUE /\ UNCHANGED recordVars
        /\ UNCHANGED <<hpc, index, values, answer, sawFirst>>
        /\ StoreCount \/ UNCHANGED windows
    BY <1>2 DEF LoadCounter, MoveHead, StoreSlot, MoveTail, StoreCount, Access
  <2>2. RecordInv'
    BY <1>0, <2>1, RecordStep
  <2>3. SamplerInv'
    BY <1>0, <1>2, SamplerRests, MoveHeadStep, StoreSlotStep, MoveTailStep, StoreCountStep
  <2>4. HandlerInv'
    BY <1>0, <2>1, HandlerRests
  <2>5. QuietInv'
    BY <1>0, <2>1, QuietRests
  <2>6. QED BY <2>2, <2>3, <2>4, <2>5 DEF StatusInv
<1>3. ASSUME Close \/ UNCHANGED vars PROVE StatusInv'
  <2>1. /\ Close \/ UNCHANGED samplerVars
        /\ UNCHANGED recordVars
        /\ UNCHANGED <<hpc, index, values, answer, sawFirst, windows>>
        /\ UNCHANGED <<handlerVars, samples, windows, at, which>> /\ disturbed' = disturbed
    BY <1>3 DEF Close, vars, samplerVars, handlerVars
  <2>2. RecordInv' /\ SamplerInv'
    BY <1>0, <2>1, RecordStep, SamplerRests
  <2>3. HandlerInv'
    BY <1>0, <2>1, HandlerRests DEF HandlerInv
  <2>4. QuietInv'
    BY <1>0, <2>1, QuietRests
  <2>5. QED BY <2>2, <2>3, <2>4 DEF StatusInv
<1>4. ASSUME StatusRequest \/ ReadCount \/ CheckEmpty \/ LoadIndex \/ LoadValue \/ Reply
      PROVE  StatusInv'
  <2>1. UNCHANGED <<recordVars, samplerVars>>
    BY <1>4 DEF StatusRequest, ReadCount, CheckEmpty, LoadIndex, LoadValue, Reply
  <2>2. RecordInv' /\ SamplerInv'
    BY <1>0, <2>1, RecordStep, SamplerRests
  <2>3. HandlerInv' /\ QuietInv'
    BY <1>0, <1>4, HandlerStep, QuietStep
  <2>4. QED BY <2>2, <2>3 DEF StatusInv
<1>5. QED BY <1>1, <1>2, <1>3, <1>4 DEF Next

LEMMA StatusInvariant == Spec => []StatusInv
<1>1. QED BY StatusInit, StatusStep, PTL DEF Spec

\* Every reachable state has its types: in particular head and tail never leave
\* the buffer, at any access of Put that a handler may come between, and the
\* counters never run ahead of the records.
THEOREM StatusTypeCorrect == Spec => []TypeOK
<1>1. StatusInv => TypeOK
  <2> SUFFICES ASSUME StatusInv PROVE TypeOK
    OBVIOUS
  <2>1. \A k \in Kinds : Ring(samples[k])!TypeOK
    BY RingTypes DEF StatusInv, SamplerInv, SamplerTypes
  <2>2. QED BY <2>1 DEF StatusInv, RecordInv, SamplerInv, SamplerTypes, HandlerInv, TypeOK
<1>2. QED BY <1>1, StatusInvariant, PTL

\* Between two checks of the loop the two rings hold the windows of the same
\* checks, although statusCheck puts into one after the other.
THEOREM RingsStayInStep == Spec => []RingsInStep
<1>1. StatusInv => RingsInStep
  BY LevelInStep DEF StatusInv
<1>2. QED BY <1>1, StatusInvariant, PTL

\* StatusHandler answers with the percentage, and the time, of the two windows
\* whenever no check was at work between its request and its answer.
THEOREM QuietAnswersExact == Spec => []QuietAnswerIsExact
<1>1. StatusInv => QuietAnswerIsExact
  BY DEF StatusInv, QuietInv, QuietAnswerIsExact
<1>2. QED BY <1>1, StatusInvariant, PTL

\* consumedPercentage indexes a ring with -1 only for a request that came before
\* the first check had ended, however its accesses and those of Put interleave.
THEOREM PanicsBeforeFirstCheck == Spec => []PanicOnlyBeforeFirstCheck
<1>1. StatusInv => PanicOnlyBeforeFirstCheck
  BY DEF StatusInv, HandlerInv, PanicOnlyBeforeFirstCheck
<1>2. QED BY <1>1, StatusInvariant, PTL
=============================================================================
