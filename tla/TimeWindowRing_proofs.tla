----------------------- MODULE TimeWindowRing_proofs -----------------------
(***************************************************************************)
(* TimeWindowRing keeps its types and its indexes consistent, and          *)
(* implements SlidingWindow, for every window, sampling, cap and values.   *)
(***************************************************************************)
EXTENDS TimeWindowRing, TLAPS

\* The inductive invariant.
Inv == TypeOK /\ IndexInv

\* A modulo by n is the identity below n and subtracts n once up to 2n.
LEMMA ModSmall ==
  ASSUME NEW n \in Nat \ {0}, NEW x \in 0 .. n - 1
  PROVE x % n = x
  OBVIOUS

LEMMA ModOnce ==
  ASSUME NEW n \in Nat \ {0}, NEW x \in n .. 2 * n - 1
  PROVE x % n = x - n
  OBVIOUS

\* The buffer has at least one bucket.
LEMMA BufferSizePositive == BufferSize \in Nat \ {0}
  BY RingAssumption DEF BufferSize

\* NextSlot goes round the buffer.
LEMMA NextSlotWraps ==
  ASSUME NEW i \in -1 .. BufferSize - 1
  PROVE  /\ NextSlot(i) \in Slots
         /\ i + 1 = BufferSize => NextSlot(i) = 0
         /\ i + 1 < BufferSize => NextSlot(i) = i + 1
<1>1. CASE i + 1 = BufferSize
  BY <1>1, BufferSizePositive, ModOnce DEF NextSlot, Slots
<1>2. CASE i + 1 < BufferSize
  BY <1>2, BufferSizePositive, ModSmall DEF NextSlot, Slots
<1>3. QED BY <1>1, <1>2, BufferSizePositive

\* What Put does in an empty, a filling and a full ring.
LEMMA PutCases ==
  ASSUME Inv, NEW v \in Values, Put(v)
  PROVE  /\ count = 0 => head' = 0 /\ tail' = 0 /\ count' = 1
         /\ count \in 1 .. BufferSize - 1
              => head' = count /\ tail' = 0 /\ count' = count + 1
         /\ count = BufferSize
              => /\ head' = tail /\ tail' = NextSlot(tail)
                 /\ tail \in Slots /\ count' = count
         /\ buffer' = [buffer EXCEPT ![head'] = v]
         /\ head' \in Slots
<1> USE BufferSizePositive
<1>0. /\ head \in -1 .. BufferSize - 1 /\ tail \in -1 .. BufferSize - 1
      /\ count \in 0 .. BufferSize
  BY DEF Inv, TypeOK, Slots
<1>1. /\ head' = NextSlot(head) /\ tail' = TailAfter(NextSlot(head))
      /\ count' = CountAfter /\ buffer' = [buffer EXCEPT ![head'] = v]
  BY DEF Put
<1>2. head' \in Slots
  BY <1>0, <1>1, NextSlotWraps
<1>3. ASSUME count = 0 PROVE head' = 0 /\ tail' = 0 /\ count' = 1
  <2>1. head = -1 /\ tail = -1
    BY <1>3 DEF Inv, IndexInv, IsEmpty
  <2>2. NextSlot(head) = 0
    BY <2>1, NextSlotWraps
  <2>3. QED BY <1>1, <1>3, <2>1, <2>2 DEF TailAfter, CountAfter
<1>4. ASSUME count \in 1 .. BufferSize - 1
      PROVE  head' = count /\ tail' = 0 /\ count' = count + 1
  <2>1. tail = 0 /\ head = count - 1
    BY <1>4 DEF Inv, IndexInv
  <2>2. NextSlot(head) = count
    BY <1>4, <2>1, NextSlotWraps
  <2>3. QED BY <1>1, <1>4, <2>1, <2>2 DEF TailAfter, CountAfter
<1>5. ASSUME count = BufferSize
      PROVE  /\ head' = tail /\ tail' = NextSlot(tail)
             /\ tail \in Slots /\ count' = count
  <2>1. tail = NextSlot(head)
    BY <1>5 DEF Inv, IndexInv
  <2>2. tail \in Slots
    BY <1>0, <2>1, NextSlotWraps
  <2>3. QED BY <1>1, <1>5, <2>1, <2>2 DEF TailAfter, CountAfter
<1>6. QED BY <1>1, <1>2, <1>3, <1>4, <1>5

LEMMA InitInv == Init => Inv
  BY BufferSizePositive, RingAssumption DEF Init, Inv, TypeOK, IndexInv, IsEmpty, Slots

LEMMA PutKeepsInv ==
  ASSUME Inv, NEW v \in Values, Put(v)
  PROVE  Inv'
<1> USE BufferSizePositive
<1>0. count \in 0 .. BufferSize
  BY DEF Inv, TypeOK
<1>1. buffer' \in [Slots -> Values]
  BY PutCases DEF Inv, TypeOK
<1>2. CASE count = 0
  <2>1. head' = 0 /\ tail' = 0 /\ count' = 1
    BY <1>2, PutCases
  <2>2. BufferSize = 1 => NextSlot(0) = 0
    BY NextSlotWraps
  <2>3. QED BY <1>1, <2>1, <2>2 DEF Inv, TypeOK, IndexInv, IsEmpty, Slots, NextSlot
<1>3. CASE count \in 1 .. BufferSize - 1
  <2>1. head' = count /\ tail' = 0 /\ count' = count + 1
    BY <1>3, PutCases
  <2>2. count + 1 = BufferSize => NextSlot(count) = 0
    BY <1>3, NextSlotWraps
  <2>3. QED BY <1>1, <1>3, <2>1, <2>2 DEF Inv, TypeOK, IndexInv, IsEmpty, Slots, NextSlot
<1>4. CASE count = BufferSize
  <2>1. head' = tail /\ tail' = NextSlot(tail) /\ tail \in Slots /\ count' = count
    BY <1>4, PutCases
  <2>2. tail' \in Slots
    BY <2>1, NextSlotWraps DEF Slots
  <2>3. QED BY <1>1, <1>4, <2>1, <2>2 DEF Inv, TypeOK, IndexInv, IsEmpty, Slots, NextSlot
<1>5. QED BY <1>0, <1>2, <1>3, <1>4

LEMMA StepKeepsInv == Inv /\ [Next]_vars => Inv'
<1>1. ASSUME Inv, Next PROVE Inv'
  BY <1>1, PutKeepsInv DEF Next
<1>2. ASSUME Inv, UNCHANGED vars PROVE Inv'
  BY <1>2 DEF Inv, TypeOK, IndexInv, IsEmpty, vars, NextSlot
<1>3. QED BY <1>1, <1>2

LEMMA InvAlways == Spec => []Inv
  BY InitInv, StepKeepsInv, PTL DEF Spec

\* TimeWindowRing.Put keeps both indexes inside the buffer, whatever the window.
THEOREM TypeCorrect == Spec => []TypeOK
<1>1. Inv => TypeOK
  BY DEF Inv
<1>2. QED BY <1>1, InvAlways, PTL

\* TimeWindowRing.Put keeps tail, head and count consistent with each other.
THEOREM IndexesConsistent == Spec => []IndexInv
<1>1. Inv => IndexInv
  BY DEF Inv
<1>2. QED BY <1>1, InvAlways, PTL

-----------------------------------------------------------------------------
\* Sequences given as functions: the SMT backend needs to be told their length.
LEMMA FunctionIsSequence ==
  ASSUME NEW n \in Nat, NEW S, NEW F \in [1 .. n -> S]
  PROVE  F \in Seq(S) /\ Len(F) = n
  OBVIOUS

\* The slot of the i-th sample, with the modulo resolved.
LEMMA WindowSlot ==
  ASSUME NEW t \in Slots, NEW i \in 1 .. BufferSize
  PROVE  (t + i - 1) % BufferSize =
           IF t + i - 1 < BufferSize THEN t + i - 1 ELSE t + i - 1 - BufferSize
<1> USE BufferSizePositive DEF Slots
<1>1. CASE t + i - 1 < BufferSize
  <2>1. t + i - 1 \in 0 .. BufferSize - 1
    BY <1>1
  <2>2. QED BY <1>1, <2>1, ModSmall
<1>2. CASE ~(t + i - 1 < BufferSize)
  <2>1. t + i - 1 \in BufferSize .. 2 * BufferSize - 1
    BY <1>2
  <2>2. QED BY <1>2, <2>1, ModOnce
<1>3. QED BY <1>1, <1>2

LEMMA WindowIsSequence ==
  ASSUME Inv
  PROVE  Window \in [1 .. count -> Values] /\ Window \in Seq(Values) /\ Len(Window) = count
<1> USE BufferSizePositive
<1>1. count \in 0 .. BufferSize /\ buffer \in [Slots -> Values]
  BY DEF Inv, TypeOK
<1>2. count # 0 => tail \in Slots
  <2>1. count \in 1 .. BufferSize - 1 => tail \in Slots
    BY DEF Inv, IndexInv, Slots
  <2>2. count = BufferSize => tail \in Slots
    <3>1. head \in -1 .. BufferSize - 1
      BY DEF Inv, TypeOK, Slots
    <3>2. QED BY <3>1, NextSlotWraps DEF Inv, IndexInv
  <2>3. QED BY <1>1, <2>1, <2>2
<1>3. ASSUME NEW i \in 1 .. count PROVE (tail + i - 1) % BufferSize \in Slots
  <2>1. tail \in Slots /\ i \in 1 .. BufferSize
    BY <1>1, <1>2
  <2>2. QED BY <2>1, WindowSlot DEF Slots
<1>4. Window \in [1 .. count -> Values]
  BY <1>1, <1>3 DEF Window
<1>5. QED BY <1>1, <1>4, FunctionIsSequence

\* In a ring that is filling, the sample enters on the right.
LEMMA PutAppends ==
  ASSUME Inv, NEW v \in Values, Put(v), count < BufferSize
  PROVE  Window' = Append(Window, v)
<1> USE BufferSizePositive
<1>1. count \in 0 .. BufferSize /\ count' = count + 1 /\ tail' = 0 /\ head' = count
  BY PutCases DEF Inv, TypeOK
<1>2. buffer \in [Slots -> Values] /\ buffer' = [buffer EXCEPT ![head'] = v]
  BY PutCases DEF Inv, TypeOK
<1>3. ASSUME NEW i \in 1 .. count + 1 PROVE Window'[i] = buffer'[i - 1]
  <2>1. (0 + i - 1) % BufferSize = i - 1
    BY <1>1, WindowSlot DEF Slots
  <2>2. Window'[i] = buffer'[(tail' + i - 1) % BufferSize]
    BY <1>1 DEF Window
  <2>3. QED BY <1>1, <2>1, <2>2
<1>4. ASSUME NEW i \in 1 .. count PROVE Window[i] = buffer[i - 1]
  <2>1. tail = 0
    BY <1>1 DEF Inv, IndexInv
  <2>2. (0 + i - 1) % BufferSize = i - 1
    BY <1>1, WindowSlot DEF Slots
  <2>3. QED BY <2>1, <2>2 DEF Window
<1>5. ASSUME NEW i \in 1 .. count + 1
      PROVE  Window'[i] = Append(Window, v)[i]
  <2>1. CASE i = count + 1
    <3>1. buffer'[i - 1] = v
      BY <1>1, <1>2, <2>1 DEF Slots
    <3>2. QED BY <1>3, <2>1, <3>1, WindowIsSequence
  <2>2. CASE i \in 1 .. count
    <3>1. buffer'[i - 1] = buffer[i - 1]
      BY <1>1, <1>2, <2>2 DEF Slots
    <3>2. QED BY <1>3, <1>4, <2>2, <3>1, WindowIsSequence
  <2>3. i = count + 1 \/ i \in 1 .. count
    BY <1>1
  <2>4. QED BY <2>1, <2>2, <2>3
<1>6. Window' \in Seq(Values) /\ Len(Window') = count + 1
  <2>1. Window' = [i \in 1 .. count + 1 |-> Window'[i]]
    BY <1>1 DEF Window
  <2>2. \A i \in 1 .. count + 1 : buffer'[i - 1] \in Values
    BY <1>1, <1>2 DEF Slots
  <2>3. Window' \in [1 .. count + 1 -> Values]
    BY <1>3, <2>1, <2>2
  <2>4. QED BY <1>1, <2>3, FunctionIsSequence
<1>7. Append(Window, v) \in Seq(Values) /\ Len(Append(Window, v)) = count + 1
  BY <1>1, WindowIsSequence
<1>8. QED BY <1>1, <1>5, <1>6, <1>7

\* In a full ring, the oldest sample leaves on the left.
LEMMA PutSlides ==
  ASSUME Inv, NEW v \in Values, Put(v), count = BufferSize
  PROVE  Window' = Append(Tail(Window), v)
<1> USE BufferSizePositive
<1>1. /\ count' = count /\ tail \in Slots /\ head' = tail /\ tail' = NextSlot(tail)
      /\ tail' \in Slots /\ count \in Nat
  <2>1. tail \in Slots /\ count' = count /\ head' = tail /\ tail' = NextSlot(tail)
    BY PutCases
  <2>2. QED BY <2>1, NextSlotWraps DEF Slots
<1>2. buffer \in [Slots -> Values] /\ buffer' = [buffer EXCEPT ![tail] = v]
  BY <1>1, PutCases DEF Inv, TypeOK
<1>3. tail' = IF tail + 1 = BufferSize THEN 0 ELSE tail + 1
  BY <1>1, NextSlotWraps DEF Slots
<1> DEFINE S(i) == IF tail + i < BufferSize THEN tail + i ELSE tail + i - BufferSize
<1>4. ASSUME NEW i \in 1 .. count PROVE Window'[i] = buffer'[S(i)]
  <2>1. (tail' + i - 1) % BufferSize = S(i)
    BY <1>1, <1>3, WindowSlot DEF Slots
  <2>2. Window'[i] = buffer'[(tail' + i - 1) % BufferSize]
    BY <1>1 DEF Window
  <2>3. QED BY <2>1, <2>2
<1>5. ASSUME NEW i \in 1 .. count - 1 PROVE Window[i + 1] = buffer[S(i)]
  <2>1. (tail + (i + 1) - 1) % BufferSize = S(i)
    BY <1>1, WindowSlot DEF Slots
  <2>2. Window[i + 1] = buffer[(tail + (i + 1) - 1) % BufferSize]
    BY <1>1 DEF Window
  <2>3. QED BY <2>1, <2>2
<1>6. /\ Window \in Seq(Values) /\ Len(Window) = count /\ Window # <<>>
  BY <1>1, WindowIsSequence
<1>7. /\ Tail(Window) \in Seq(Values) /\ Len(Tail(Window)) = count - 1
      /\ \A i \in 1 .. count - 1 : Tail(Window)[i] = Window[i + 1]
  BY <1>1, <1>6
<1>8. ASSUME NEW i \in 1 .. count
      PROVE  Window'[i] = Append(Tail(Window), v)[i]
  <2>1. CASE i = count
    <3>1. buffer'[S(i)] = v
      BY <1>1, <1>2, <2>1 DEF Slots
    <3>2. Append(Tail(Window), v)[i] = v
      BY <1>1, <1>7, <2>1
    <3>3. QED BY <1>4, <3>1, <3>2
  <2>2. CASE i \in 1 .. count - 1
    <3>1. S(i) \in Slots /\ S(i) # tail
      BY <1>1, <2>2 DEF Slots
    <3>2. buffer'[S(i)] = buffer[S(i)]
      BY <1>2, <3>1
    <3>3. Append(Tail(Window), v)[i] = Window[i + 1]
      BY <1>1, <1>7, <2>2
    <3>4. QED BY <1>4, <1>5, <2>2, <3>2, <3>3
  <2>3. i = count \/ i \in 1 .. count - 1
    BY <1>1
  <2>4. QED BY <2>1, <2>2, <2>3
<1>9. Window' \in Seq(Values) /\ Len(Window') = count
  <2>1. Window' = [i \in 1 .. count |-> Window'[i]]
    BY <1>1 DEF Window
  <2>2. \A i \in 1 .. count : buffer'[S(i)] \in Values
    BY <1>1, <1>2 DEF Slots
  <2>3. Window' \in [1 .. count -> Values]
    BY <1>4, <2>1, <2>2
  <2>4. QED BY <1>1, <2>3, FunctionIsSequence
<1>10. Append(Tail(Window), v) \in Seq(Values) /\ Len(Append(Tail(Window), v)) = count
  BY <1>1, <1>7
<1>11. QED BY <1>1, <1>8, <1>9, <1>10

\* The ring is a sliding window over its last BufferSize samples, whatever the
\* window, the sampling interval and the cap on the buckets.
THEOREM RingRefinesWindow == Spec => ImplementsSlidingWindow
<1>1. Init => SW!Init
  <2>1. ASSUME Init PROVE Window = <<>>
    BY <2>1 DEF Init, Window
  <2>2. QED BY <2>1 DEF SW!Init
<1>2. ASSUME Inv, [Next]_vars PROVE [SW!Next]_Window
  <2>1. ASSUME NEW v \in Values, Put(v) PROVE SW!Put(v)
    <3>1. count \in 0 .. BufferSize /\ Len(Window) = count
      BY <1>2, WindowIsSequence DEF Inv, TypeOK
    <3>2. CASE count < BufferSize
      BY <1>2, <2>1, <3>1, <3>2, PutAppends DEF SW!Put, SW!Slide
    <3>3. CASE count = BufferSize
      BY <1>2, <2>1, <3>1, <3>3, PutSlides, BufferSizePositive DEF SW!Put, SW!Slide
    <3>4. QED BY <3>1, <3>2, <3>3, BufferSizePositive
  <2>2. CASE Next
    BY <2>1, <2>2 DEF Next, SW!Next
  <2>3. CASE UNCHANGED vars
    BY <2>3 DEF vars, Window
  <2>4. QED BY <1>2, <2>2, <2>3
<1>3. QED BY <1>1, <1>2, InvAlways, PTL DEF Spec, ImplementsSlidingWindow, SW!Spec
=============================================================================
