--------------------------- MODULE SPMCQueueProofs ---------------------------
(***************************************************************************)
(* Theorems about SPMCQueue, for every capacity, set of consumers, set of  *)
(* values and bound: IInv is inductive, hence the safety properties, and   *)
(* every step of the ring is a step of the atomic bounded FIFO queue.      *)
(***************************************************************************)
EXTENDS SPMCQueue, SequenceTheorems, TLAPS

-----------------------------------------------------------------------------
(* Slots: indices closer than the capacity live in different slots. *)

\* Division with remainder, as slots[i & mask] uses it.
LEMMA DivMod ==
  ASSUME NEW N \in Nat \ {0}, NEW a \in Nat
  PROVE  /\ a = N * (a \div N) + (a % N)
         /\ a \div N \in Int
         /\ a % N \in 0 .. N - 1
  OBVIOUS

\* A positive multiple of N is at least N.
LEMMA PositiveMultiple ==
  ASSUME NEW N \in Nat \ {0}, NEW k \in Int, 0 < N * k
  PROVE  N * k >= N
  <1>1. k > 0
    OBVIOUS
  <1> QED
    BY <1>1

\* Two indices less than N apart do not share a slot of an N-slot ring: try_push
\* writing index writeIdx spares every index from readIdx on.
LEMMA SlotsDistinct ==
  ASSUME NEW a \in Nat, NEW b \in Nat, a < b, b - a < Capacity
  PROVE  Slot(a) # Slot(b)
  <1> SUFFICES ASSUME a % Capacity = b % Capacity
               PROVE  FALSE
    BY DEF Slot
  <1> DEFINE qa == a \div Capacity
             qb == b \div Capacity
  <1>1. /\ a = Capacity * qa + (a % Capacity)
        /\ b = Capacity * qb + (b % Capacity)
        /\ qa \in Int /\ qb \in Int /\ a % Capacity \in Int
    BY DivMod, CapacityAssumption
  <1> HIDE DEF qa, qb
  <1>2. b - a = Capacity * (qb - qa)
    BY <1>1, CapacityAssumption
  <1>3. b - a >= Capacity
    BY <1>1, <1>2, PositiveMultiple, CapacityAssumption
  <1> QED
    BY <1>3, CapacityAssumption

\* Every index has a slot.
LEMMA SlotInRange ==
  ASSUME NEW a \in Nat
  PROVE  Slot(a) \in 0 .. Capacity - 1
  BY DivMod, CapacityAssumption DEF Slot

-----------------------------------------------------------------------------
(* Sequences: a piece that agrees with s from m + 1 on extends s's m-prefix. *)

\* What a consumer read at indices m, m + 1, ... of the log is that part of it.
LEMMA PieceOfLog ==
  ASSUME NEW S, NEW s \in Seq(S), NEW T, NEW t \in Seq(T), NEW m \in Nat,
         m + Len(t) <= Len(s), \A j \in 1 .. Len(t) : t[j] = s[m + j]
  PROVE  t = SubSeq(s, m + 1, m + Len(t))
<1> DEFINE n == Len(t)
           u == SubSeq(s, m + 1, m + n)
<1>1. n \in Nat
  BY LenProperties
<1>2. \A i \in m + 1 .. m + n : s[i] \in S
  BY <1>1, ElementOfSeq
<1>3. u \in Seq(S) /\ Len(u) = n /\ \A i \in 1 .. n : u[i] = s[m + i]
  <2>1. /\ u \in Seq(S)
        /\ Len(u) = IF m + 1 <= m + n THEN m + n - (m + 1) + 1 ELSE 0
        /\ \A i \in 1 .. m + n - (m + 1) + 1 : u[i] = s[m + 1 + i - 1]
    BY <1>1, <1>2, SubSeqProperties
  <2> HIDE DEF u
  <2> QED
    BY <2>1, <1>1
<1>4. \A i \in 1 .. n : t[i] = u[i]
  BY <1>3
<1>5. t \in Seq(S \cup T) /\ u \in Seq(S \cup T)
  BY <1>3, SeqMonotonic
<1> HIDE DEF u
<1> QED
  BY <1>3, <1>4, <1>5, SeqEqual DEF u

\* Appending that piece to what was popped before gives the longer prefix.
LEMMA PrefixExtended ==
  ASSUME NEW S, NEW s \in Seq(S), NEW m \in Nat, NEW n \in Nat,
         m + n <= Len(s)
  PROVE  SubSeq(s, 1, m) \o SubSeq(s, m + 1, m + n) = SubSeq(s, 1, m + n)
<1>1. 1 \in 1 .. Len(s) + 1 /\ m \in 1 - 1 .. Len(s) /\ m + n \in m .. Len(s)
  BY LenProperties
<1> QED
  BY <1>1, ConcatAdjacentSubSeq

-----------------------------------------------------------------------------
(* Type correctness. *)

\* Every step of try_push, try_pop and try_pop_many keeps the types.
LEMMA NextTypeOK == TypeOK /\ [Next]_vars => TypeOK'
<1> USE CapacityAssumption, ValueAssumption, BoundsAssumption
<1> SUFFICES ASSUME TypeOK, [Next]_vars
             PROVE  TypeOK'
  OBVIOUS
<1> USE DEF TypeOK, producerVars, consumerVars
<1>1. ASSUME NEW v \in Value, PushBegin(v) PROVE TypeOK'
  BY <1>1 DEF PushBegin
<1>2. CASE PushReload
  BY <1>2 DEF PushReload
<1>3. CASE PushWrite
  BY <1>3 DEF PushWrite
<1>4. CASE PushPublish
  BY <1>4 DEF PushPublish
<1>5. ASSUME NEW c \in Consumers, PopBegin(c) PROVE TypeOK'
  BY <1>5 DEF PopBegin, PopStart
<1>6. ASSUME NEW c \in Consumers, PopManyBegin(c) PROVE TypeOK'
  <2>1. PICK n \in 0 .. MaxMany : PopStart(c, n)
    BY <1>6 DEF PopManyBegin
  <2>2. n \in Nat /\ want' \in [Consumers -> Nat]
    BY <2>1 DEF PopStart
  <2> QED
    BY <2>1, <2>2 DEF PopStart
<1>7. ASSUME NEW c \in Consumers, PopLoadRead(c) PROVE TypeOK'
  <2>1. << >> \in Seq(Value \cup {NoValue})
    OBVIOUS
  <2>2. rval' \in [Consumers -> Seq(Value \cup {NoValue})]
    BY <1>7, <2>1 DEF PopLoadRead
  <2> QED
    BY <1>7, <2>2 DEF PopLoadRead
<1>8. ASSUME NEW c \in Consumers, PopLoadCache(c) PROVE TypeOK'
  BY <1>8 DEF PopLoadCache
<1>9. ASSUME NEW c \in Consumers, PopLoadWrite(c) PROVE TypeOK'
  BY <1>9 DEF PopLoadWrite
<1>10. ASSUME NEW c \in Consumers, PopStoreCache(c) PROVE TypeOK'
  BY <1>10 DEF PopStoreCache
<1>11. ASSUME NEW c \in Consumers, PopReadSlot(c) PROVE TypeOK'
  <2> DEFINE i == lr[c] + Len(rval[c])
  <2>a. i \in Nat
    BY <1>11
  <2> HIDE DEF i
  <2>0. Slot(i) \in 0 .. Capacity - 1
    BY <2>a, SlotInRange
  <2> DEFINE x == slots[Slot(i)]
  <2>1. x \in Value \cup {NoValue}
    BY <2>0
  <2>2. Append(rval[c], x) \in Seq(Value \cup {NoValue})
    BY <2>1, AppendProperties
  <2> HIDE DEF x
  <2>3. rval' \in [Consumers -> Seq(Value \cup {NoValue})]
    BY <1>11, <2>2 DEF PopReadSlot, x, i
  <2> QED
    BY <1>11, <2>3 DEF PopReadSlot
<1>12. ASSUME NEW c \in Consumers, PopTake(c) PROVE TypeOK'
  <2>1. rval[c] \in Seq(Value \cup {NoValue}) /\ newReadIdx(c) \in Nat
    BY <1>12 DEF newReadIdx
  <2>2. popped' \in Seq(Value \cup {NoValue})
    BY <1>12, <2>1, ConcatProperties DEF PopTake
  <2> QED
    BY <1>12, <2>1, <2>2 DEF PopTake
<1>13. ASSUME NEW c \in Consumers, PopRetry(c) PROVE TypeOK'
  BY <1>13 DEF PopRetry
<1>14. CASE UNCHANGED vars
  BY <1>14 DEF vars
<1> QED
  BY <1>1, <1>2, <1>3, <1>4, <1>5, <1>6, <1>7, <1>8, <1>9, <1>10, <1>11,
     <1>12, <1>13, <1>14 DEF Next, Producer, Consumer

\* Every variable keeps its type through every step of try_push, try_pop and
\* try_pop_many.
THEOREM TypeCorrect == Spec => []TypeOK
<1>1. Init => TypeOK
  BY CapacityAssumption DEF Init, TypeOK
<1> QED
  BY <1>1, NextTypeOK, PTL DEF Spec

-----------------------------------------------------------------------------
(* The inductive invariant. *)

\* A ring fresh from create_queue satisfies the invariant.
LEMMA InitIInv == Init => IInv
<1> SUFFICES ASSUME Init
             PROVE  IInv
  OBVIOUS
<1> USE CapacityAssumption, ValueAssumption DEF Init
<1>1. TypeOK
  BY DEF TypeOK
<1>2. writeIdx = Len(pushed) /\ IndicesOrdered /\ UnreadIntact /\ ProducerInv
  BY DEF IndicesOrdered, UnreadIntact, ProducerInv
<1>3. PoppedIsPushedPrefix
  BY DEF PoppedIsPushedPrefix
<1>4. \A c \in Consumers : ConsumerInv(c)
  BY DEF ConsumerInv
<1> QED
  BY <1>1, <1>2, <1>3, <1>4 DEF IInv

\* Storing the value in its slot spares every unread slot, because the
\* producer's cached read index only lags behind.
LEMMA PushWriteIInv == IInv /\ TypeOK' /\ PushWrite => IInv'
<1> SUFFICES ASSUME IInv, TypeOK', PushWrite
             PROVE  IInv'
  OBVIOUS
<1> USE CapacityAssumption DEF PushWrite, producerVars, consumerVars
<1>1. writeIdx + 1 - readIdxCache <= Capacity
  BY DEF IInv, ProducerInv, Fits
<1>2. ASSUME NEW i \in readIdx .. writeIdx - 1
      PROVE  slots'[Slot(i)] = pushed[i + 1]
  <2>1. i \in Nat /\ i < writeIdx /\ writeIdx - i < Capacity
    BY <1>1, <1>2 DEF IInv, TypeOK, IndicesOrdered
  <2>2. Slot(i) # Slot(writeIdx) /\ Slot(i) \in 0 .. Capacity - 1
    BY <2>1, SlotsDistinct, SlotInRange DEF IInv, TypeOK
  <2>3. slots[Slot(i)] = pushed[i + 1]
    BY <1>2 DEF IInv, UnreadIntact
  <2> QED
    BY <2>2, <2>3 DEF IInv, TypeOK
<1>3. UnreadIntact'
  BY <1>2 DEF UnreadIntact
<1>4. Slot(writeIdx) \in 0 .. Capacity - 1
  BY SlotInRange DEF IInv, TypeOK
<1>5. ProducerInv'
  BY <1>1, <1>4 DEF IInv, TypeOK, ProducerInv, Fits
<1>6. \A c \in Consumers : ConsumerInv(c)'
  BY DEF IInv, ConsumerInv, newReadIdx
<1> QED
  BY <1>3, <1>5, <1>6 DEF IInv, IndicesOrdered, PoppedIsPushedPrefix

\* Publishing extends the log by the value that is already in its slot.
LEMMA PushPublishIInv == IInv /\ TypeOK' /\ PushPublish => IInv'
<1> SUFFICES ASSUME IInv, TypeOK', PushPublish
             PROVE  IInv'
  OBVIOUS
<1> USE CapacityAssumption DEF PushPublish, producerVars, consumerVars
<1>1. /\ pushed \in Seq(Value) /\ pval \in Value
      /\ writeIdx = Len(pushed) /\ writeIdx \in Nat
      /\ readIdx \in Nat /\ readIdx <= writeIdx
  BY DEF IInv, TypeOK, IndicesOrdered
<1>2. /\ Len(pushed') = writeIdx + 1
      /\ \A i \in 1 .. writeIdx : pushed'[i] = pushed[i]
      /\ pushed'[writeIdx + 1] = pval
  BY <1>1
<1>3. IndicesOrdered'
  BY DEF IInv, TypeOK, IndicesOrdered, ProducerInv, Fits
<1>4. UnreadIntact'
  <2> SUFFICES ASSUME NEW i \in readIdx .. writeIdx
               PROVE  slots[Slot(i)] = pushed'[i + 1]
    BY <1>1 DEF UnreadIntact
  <2>1. CASE i = writeIdx
    BY <2>1, <1>2 DEF IInv, ProducerInv
  <2>2. CASE i # writeIdx
    <3>1. i \in readIdx .. writeIdx - 1 /\ i + 1 \in 1 .. writeIdx
      BY <1>1, <2>2
    <3> QED
      BY <3>1, <1>2 DEF IInv, UnreadIntact
  <2> QED
    BY <2>1, <2>2
<1>5. PoppedIsPushedPrefix'
  <2>1. SubSeq(pushed', 1, readIdx) = SubSeq(pushed, 1, readIdx)
    BY <1>1, <1>2
  <2> QED
    BY <2>1 DEF IInv, PoppedIsPushedPrefix
<1>6. ASSUME NEW c \in Consumers
      PROVE  ConsumerInv(c)'
  <2>1. ConsumerInv(c) /\ lr[c] \in Nat /\ lw[c] \in Nat /\ want[c] \in Nat
        /\ Len(rval[c]) \in Nat
    BY <1>6 DEF IInv, TypeOK
  <2>2. ASSUME cpc[c] = "read", lr[c] = readIdx, NEW j \in 1 .. Len(rval[c])
        PROVE  rval[c][j] = pushed'[lr[c] + j]
    <3>1. lr[c] + j \in 1 .. writeIdx
      BY <2>1, <2>2, <1>1 DEF ConsumerInv, newReadIdx
    <3> QED
      BY <3>1, <2>1, <2>2, <1>2 DEF ConsumerInv
  <2>3. cpc[c] = "read" => newReadIdx(c)' = newReadIdx(c)
    BY DEF newReadIdx
  <2>4. cpc[c] \in {"storeC", "read"} => lw[c] <= writeIdx + 1
    BY <2>1, <1>1 DEF ConsumerInv
  <2> QED
    BY <2>1, <2>2, <2>3, <2>4 DEF ConsumerInv
<1> QED
  BY <1>2, <1>3, <1>4, <1>5, <1>6 DEF IInv, ProducerInv

\* A pop advances readIdx over exactly the values it has read: all of them were
\* pushed, they are no more than it wanted, and it has at least one unless it
\* wanted none.
LEMMA TakeSpan ==
  ASSUME NEW n \in Nat, NEW r \in Nat, NEW w \in Nat, NEW l \in Nat,
         NEW end, end = IF r + w > l THEN l ELSE r + w,
         r < l, r + n <= end, r + n >= end
  PROVE  /\ end = r + n /\ r + n <= l
         /\ n \in 0 .. w /\ (n > 0 \/ w = 0)
<1>1. CASE r + w > l
  BY <1>1
<1>2. CASE ~(r + w > l)
  BY <1>2
<1> QED
  BY <1>1, <1>2

\* What the guard of the compare-and-swap and the invariant say of a pop.
LEMMA TakeFacts ==
  ASSUME IInv, NEW c \in Consumers, PopTake(c)
  PROVE  LET n == Len(rval[c])
         IN  /\ pushed \in Seq(Value) /\ rval[c] \in Seq(Value \cup {NoValue})
             /\ n \in Nat /\ readIdx \in Nat /\ want[c] \in Nat
             /\ writeIdx = Len(pushed) /\ writeIdx \in Nat
             /\ readIdx' = readIdx + n /\ readIdx + n <= writeIdx
             /\ n \in 0 .. want[c] /\ (n > 0 \/ want[c] = 0)
             /\ \A j \in 1 .. n : rval[c][j] = pushed[readIdx + j]
<1> DEFINE n == Len(rval[c])
<1>1. /\ pushed \in Seq(Value) /\ rval[c] \in Seq(Value \cup {NoValue})
      /\ readIdx \in Nat /\ want[c] \in Nat /\ lw[c] \in Nat
      /\ writeIdx = Len(pushed) /\ writeIdx \in Nat
  BY DEF IInv, TypeOK
<1>2. n \in Nat
  BY <1>1, LenProperties
<1>3. /\ cpc[c] = "read" /\ lr[c] = readIdx /\ readIdx' = newReadIdx(c)
      /\ readIdx + n >= newReadIdx(c)
  BY DEF PopTake, ReadDone
<1>4. /\ readIdx < lw[c] /\ lw[c] <= writeIdx /\ readIdx + n <= newReadIdx(c)
      /\ \A j \in 1 .. n : rval[c][j] = pushed[readIdx + j]
  BY <1>3 DEF IInv, ConsumerInv
<1>5. newReadIdx(c) = IF readIdx + want[c] > lw[c] THEN lw[c] ELSE readIdx + want[c]
  BY <1>3 DEF newReadIdx
<1> HIDE DEF n
<1>6. /\ newReadIdx(c) = readIdx + n /\ readIdx + n <= lw[c]
      /\ n \in 0 .. want[c] /\ (n > 0 \/ want[c] = 0)
  BY ONLY <1>1, <1>2, <1>3, <1>4, <1>5, TakeSpan
<1>7. readIdx + n <= writeIdx
  BY ONLY <1>1, <1>2, <1>4, <1>6
<1> QED
  BY ONLY <1>1, <1>2, <1>3, <1>4, <1>6, <1>7 DEF n

\* The successful compare-and-swap: the consumer's values are the next ones of
\* the log, and every other consumer that read the same index will now fail.
LEMMA PopTakeIInv ==
  ASSUME IInv, TypeOK', NEW c \in Consumers, PopTake(c)
  PROVE  IInv'
<1> USE CapacityAssumption DEF PopTake, ReadDone, producerVars, consumerVars
<1> DEFINE n == Len(rval[c])
<1>1. /\ pushed \in Seq(Value) /\ writeIdx = Len(pushed)
      /\ rval[c] \in Seq(Value \cup {NoValue}) /\ n \in Nat
      /\ readIdx \in Nat /\ writeIdx \in Nat
  BY ONLY IInv, PopTake(c), TakeFacts
<1>2. readIdx' = readIdx + n /\ readIdx + n <= writeIdx
  BY ONLY IInv, PopTake(c), TakeFacts
<1>3. \A j \in 1 .. n : rval[c][j] = pushed[readIdx + j]
  BY ONLY IInv, PopTake(c), TakeFacts
<1> HIDE DEF n
<1>4a. IndicesOrdered'
  <2>1. IndicesOrdered /\ readIdxCache \in Nat /\ n \in Nat
    BY <1>1 DEF IInv, TypeOK
  <2>2. readIdxCache <= readIdx' /\ readIdx' <= writeIdx
    BY <2>1, <1>1, <1>2 DEF IndicesOrdered
  <2> QED
    BY <2>1, <2>2 DEF IndicesOrdered
<1>4. UnreadIntact'
  <2>1. \A i \in readIdx' .. writeIdx - 1 : i \in readIdx .. writeIdx - 1
    BY <1>1, <1>2
  <2> QED
    BY <2>1 DEF IInv, UnreadIntact
<1>5. PoppedIsPushedPrefix'
  <2>1. rval[c] = SubSeq(pushed, readIdx + 1, readIdx + n)
    BY <1>1, <1>2, <1>3, PieceOfLog DEF n
  <2>2. SubSeq(pushed, 1, readIdx) \o SubSeq(pushed, readIdx + 1, readIdx + n)
          = SubSeq(pushed, 1, readIdx + n)
    BY <1>1, <1>2, PrefixExtended
  <2> QED
    BY <2>1, <2>2, <1>2 DEF IInv, PoppedIsPushedPrefix
<1>6. ASSUME NEW d \in Consumers
      PROVE  ConsumerInv(d)'
  <2>1. CASE d = c
    BY <2>1 DEF IInv, TypeOK, ConsumerInv
  <2>2. CASE d # c
    <3>1. ConsumerInv(d) /\ lr[d] \in Nat /\ cpc'[d] = cpc[d]
      BY <1>6, <2>2 DEF IInv, TypeOK
    <3>2. newReadIdx(d)' = newReadIdx(d)
      BY DEF newReadIdx
    <3>3. CASE n = 0
      BY <3>1, <3>2, <3>3, <1>1, <1>2 DEF ConsumerInv
    <3>4. CASE n > 0
      <4>1. /\ lr[d] <= readIdx => lr[d] <= readIdx'
            /\ lr[d] <= readIdx => lr[d] # readIdx'
        BY <3>1, <3>4, <1>1, <1>2
      <4> QED
        BY <3>1, <3>2, <4>1 DEF ConsumerInv
    <3> QED
      BY <3>3, <3>4, <1>1
  <2> QED
    BY <2>1, <2>2
<1> QED
  BY <1>4a, <1>4, <1>5, <1>6 DEF IInv, ProducerInv, Fits

\* Reading one slot: it is unread, hence holds the value pushed for its index,
\* if no other consumer moved readIdx since this one loaded it.
LEMMA PopReadSlotIInv ==
  ASSUME IInv, TypeOK', NEW c \in Consumers, PopReadSlot(c)
  PROVE  IInv'
<1> USE DEF PopReadSlot, producerVars, consumerVars
<1> DEFINE n == Len(rval[c])
           x == slots[Slot(lr[c] + n)]
<1>1. /\ rval[c] \in Seq(Value \cup {NoValue}) /\ n \in Nat
      /\ lr[c] \in Nat /\ lw[c] \in Nat /\ want[c] \in Nat
      /\ ConsumerInv(c) /\ rval'[c] = Append(rval[c], x)
  BY DEF IInv, TypeOK
<1>2. x \in Value \cup {NoValue}
  BY <1>1, SlotInRange DEF IInv, TypeOK
<1>3. /\ Len(rval'[c]) = n + 1 /\ rval'[c][n + 1] = x
      /\ \A j \in 1 .. n : rval'[c][j] = rval[c][j]
  BY <1>1, <1>2
<1>4. lr[c] + n < newReadIdx(c) /\ newReadIdx(c) <= lw[c] /\ newReadIdx(c) \in Nat
  BY <1>1 DEF newReadIdx
<1>5. ASSUME lr[c] = readIdx
      PROVE  x = pushed[lr[c] + n + 1]
  <2>1. lr[c] + n \in readIdx .. writeIdx - 1
    BY <1>1, <1>4, <1>5 DEF IInv, TypeOK, ConsumerInv
  <2> QED
    BY <2>1 DEF IInv, UnreadIntact
<1> HIDE DEF n, x
<1>6. ConsumerInv(c)'
  <2>1. newReadIdx(c)' = newReadIdx(c) /\ cpc'[c] = "read"
    BY DEF newReadIdx
  <2>2. lr[c] + Len(rval'[c]) <= newReadIdx(c)
    BY <1>1, <1>3, <1>4
  <2>3. ASSUME lr[c] = readIdx, NEW j \in 1 .. n + 1
        PROVE  rval'[c][j] = pushed[lr[c] + j]
    <3>1. CASE j = n + 1
      BY <3>1, <2>3, <1>1, <1>3, <1>5
    <3>2. CASE j \in 1 .. n
      BY <3>2, <2>3, <1>1, <1>3 DEF ConsumerInv, n
    <3>3. j = n + 1 \/ j \in 1 .. n
      BY <2>3, <1>1
    <3> QED
      BY <3>1, <3>2, <3>3
  <2> QED
    BY <2>1, <2>2, <2>3, <1>1, <1>3 DEF ConsumerInv
<1>7. ASSUME NEW d \in Consumers, d # c
      PROVE  ConsumerInv(d)'
  BY <1>7 DEF IInv, TypeOK, ConsumerInv, newReadIdx
<1> QED
  BY <1>6, <1>7 DEF IInv, IndicesOrdered, UnreadIntact, PoppedIsPushedPrefix,
                    ProducerInv, Fits

\* A consumer that does not move keeps its part of the invariant while the
\* indices and the log stay as they are.
LEMMA ConsumerUntouched ==
  ASSUME NEW d \in Consumers, ConsumerInv(d),
         writeIdx' = writeIdx, readIdx' = readIdx, pushed' = pushed,
         cpc'[d] = cpc[d], want'[d] = want[d], lr'[d] = lr[d],
         lw'[d] = lw[d], rval'[d] = rval[d]
  PROVE  ConsumerInv(d)'
<1>1. newReadIdx(d)' = newReadIdx(d)
  BY DEF newReadIdx
<1> QED
  BY <1>1 DEF ConsumerInv

\* Every step of every thread preserves the invariant.
LEMMA NextIInv == IInv /\ [Next]_vars => IInv'
<1> SUFFICES ASSUME IInv, [Next]_vars
             PROVE  IInv'
  OBVIOUS
<1>t. TypeOK'
  BY NextTypeOK DEF IInv
<1> USE DEF producerVars, consumerVars
<1>1. ASSUME NEW v \in Value, PushBegin(v)
      PROVE  IInv'
  BY <1>1, <1>t DEF IInv, PushBegin, IndicesOrdered, UnreadIntact,
     PoppedIsPushedPrefix, ProducerInv, Fits, ConsumerInv, newReadIdx
<1>2. CASE PushReload
  <2>1. IndicesOrdered' /\ ProducerInv'
    BY <1>2, CapacityAssumption DEF IInv, TypeOK, PushReload, IndicesOrdered, ProducerInv, Fits
  <2>2. \A c \in Consumers : ConsumerInv(c)'
    BY <1>2 DEF IInv, PushReload, ConsumerInv, newReadIdx
  <2> QED
    BY <1>2, <1>t, <2>1, <2>2 DEF IInv, PushReload, UnreadIntact, PoppedIsPushedPrefix
<1>3. CASE PushWrite
  BY <1>3, <1>t, PushWriteIInv
<1>4. CASE PushPublish
  BY <1>4, <1>t, PushPublishIInv
\* The remaining steps of a consumer change nothing but its own locals and the
\* shared writeIdxCache.
<1>5. ASSUME NEW c \in Consumers,
             PopBegin(c) \/ PopManyBegin(c) \/ PopLoadRead(c) \/ PopLoadCache(c)
               \/ PopLoadWrite(c) \/ PopStoreCache(c) \/ PopRetry(c)
      PROVE  IInv'
  <2> USE DEF PopBegin, PopManyBegin, PopStart, PopLoadRead, PopLoadCache,
              PopLoadWrite, PopStoreCache, PopRetry, ReadDone
  <2>1. UNCHANGED <<slots, writeIdx, readIdx, producerVars, pushed, popped>>
    BY <1>5
  <2>2. IndicesOrdered'
    BY <1>5, <2>1 DEF IInv, TypeOK, IndicesOrdered, ConsumerInv
  <2>3. ConsumerInv(c)'
    <3>1. ConsumerInv(c) /\ TypeOK /\ IndicesOrdered
      BY DEF IInv
    <3>2. CASE PopBegin(c) \/ PopManyBegin(c) \/ PopRetry(c)
      BY <3>1, <3>2 DEF TypeOK, ConsumerInv
    <3>3. CASE PopLoadRead(c)
      BY <3>1, <3>3 DEF TypeOK, ConsumerInv
    <3>4. CASE PopLoadCache(c) \/ PopStoreCache(c)
      <4>1. lr[c] \in Nat /\ lw'[c] \in Nat /\ want[c] \in Nat /\ rval[c] = << >>
        BY <3>1, <3>4 DEF TypeOK, ConsumerInv
      <4>2. lr'[c] = lr[c] /\ want'[c] = want[c] /\ rval'[c] = << >> /\ Len(<< >>) = 0
        BY <4>1, <3>4
      <4>3. lr[c] < lw'[c] => lr[c] + Len(rval'[c]) <= newReadIdx(c)'
        BY <4>1, <4>2 DEF newReadIdx
      <4> QED
        BY <3>1, <3>4, <4>2, <4>3 DEF TypeOK, IndicesOrdered, ConsumerInv
    <3>5. CASE PopLoadWrite(c)
      BY <3>1, <3>5 DEF TypeOK, IndicesOrdered, ConsumerInv
    <3> QED
      BY <1>5, <3>2, <3>3, <3>4, <3>5
  <2>4. ASSUME NEW d \in Consumers, d # c
        PROVE  ConsumerInv(d)'
    <3>1. /\ cpc'[d] = cpc[d] /\ want'[d] = want[d] /\ lr'[d] = lr[d]
          /\ lw'[d] = lw[d] /\ rval'[d] = rval[d]
      BY <1>5, <2>4 DEF IInv, TypeOK
    <3> QED
      BY ONLY IInv, <2>1, <2>4, <3>1, ConsumerUntouched DEF IInv
  <2> QED
    BY <1>t, <2>1, <2>2, <2>3, <2>4 DEF IInv, UnreadIntact, PoppedIsPushedPrefix,
                                        ProducerInv, Fits
<1>6. ASSUME NEW c \in Consumers, PopReadSlot(c)
      PROVE  IInv'
  BY <1>6, <1>t, PopReadSlotIInv
<1>7. ASSUME NEW c \in Consumers, PopTake(c)
      PROVE  IInv'
  BY <1>7, <1>t, PopTakeIInv
<1>8. CASE UNCHANGED vars
  BY <1>8 DEF vars, IInv, TypeOK, IndicesOrdered, UnreadIntact,
              PoppedIsPushedPrefix, ProducerInv, Fits, ConsumerInv, newReadIdx
<1> QED
  BY <1>1, <1>2, <1>3, <1>4, <1>5, <1>6, <1>7, <1>8 DEF Next, Producer, Consumer

\* IInv holds in every reachable state of the ring.
THEOREM Invariance == Spec => []IInv
  BY InitIInv, NextIInv, PTL DEF Spec

\* No value is lost, duplicated, reordered or invented by try_push, try_pop and
\* try_pop_many, for every capacity and any number of consumers.
THEOREM ExactlyOnceInOrder == Spec => []PoppedIsPushedPrefix
<1>1. IInv => PoppedIsPushedPrefix
  BY DEF IInv
<1> QED
  BY <1>1, Invariance, PTL

\* try_push never overwrites a value that no consumer has taken.
THEOREM NoOverwrite == Spec => []UnreadIntact
<1>1. IInv => UnreadIntact
  BY DEF IInv
<1> QED
  BY <1>1, Invariance, PTL

\* The indices and their caches stay in order, within the capacity.
THEOREM IndexOrder == Spec => []IndicesOrdered
<1>1. IInv => IndicesOrdered
  BY DEF IInv
<1> QED
  BY <1>1, Invariance, PTL

\* assert(readIdx < writeIdxCache) never fires.
THEOREM AssertionHolds == Spec => []PopAssertHolds
<1>1. IInv => PopAssertHolds
  BY DEF IInv, ConsumerInv, PopAssertHolds
<1> QED
  BY <1>1, Invariance, PTL

-----------------------------------------------------------------------------
(* Refinement: linearisation points of the ring's operations. *)

\* The state of a consumer as the caller of BoundedFIFO sees it.
AbsState(c) ==
  IF cpc[c] = "idle" THEN "idle"
  ELSE IF cpc[c] = "storeC" /\ lr[c] = lw[c] THEN "empty" ELSE "busy"

\* A step that leaves the producer, the log and every consumer's abstract state
\* alone is a stutter of the queue.
LEMMA Stutter ==
  ASSUME UNCHANGED <<pushed, readIdx, popped, pval, want>>,
         (ppc # "idle")' = (ppc # "idle"),
         \A c \in Consumers : AbsState(c)' = AbsState(c)
  PROVE  UNCHANGED Abstract!vars
  BY DEF Abstract!vars, AbsState

\* The four steps of try_push: the call offers the value, the reload of a full
\* ring refuses it, the release store accepts it.
LEMMA PushRefines ==
  ASSUME IInv, Producer
  PROVE  [Abstract!Next]_(Abstract!vars)
<1> USE DEF producerVars, consumerVars
<1>1. ASSUME NEW v \in Value, PushBegin(v)
      PROVE  Abstract!Offer(v)
  BY <1>1 DEF PushBegin, Abstract!Offer
<1>2. CASE PushReload /\ ppc' = "idle"
  <2>1. Len(pushed) - readIdx = Capacity
    BY <1>2, CapacityAssumption DEF PushReload, Fits, IInv, TypeOK, IndicesOrdered
  <2>2. Abstract!Refuse
    BY <1>2, <2>1 DEF PushReload, Abstract!Refuse, Abstract!Length
  <2> QED
    BY <2>2 DEF Abstract!Next
<1>3. CASE PushReload /\ ppc' # "idle"
  BY <1>3, Stutter DEF PushReload, AbsState
<1>4. CASE PushWrite
  BY <1>4, Stutter DEF PushWrite, AbsState
<1>5. CASE PushPublish
  <2>1. Len(pushed) - readIdx < Capacity
    BY <1>5, CapacityAssumption DEF PushPublish, IInv, TypeOK, ProducerInv, Fits, IndicesOrdered
  <2>2. Abstract!Accept
    BY <1>5, <2>1 DEF PushPublish, Abstract!Accept, Abstract!Length
  <2> QED
    BY <2>2 DEF Abstract!Next
<1> QED
  BY <1>1, <1>2, <1>3, <1>4, <1>5 DEF Producer, Abstract!Next

\* The steps of a pop: the successful compare-and-swap takes the values, and the
\* load of writeIdx that equals the loaded readIdx finds the queue empty.
LEMMA PopRefines ==
  ASSUME IInv, IInv', NEW c \in Consumers, Consumer(c)
  PROVE  [Abstract!Next]_(Abstract!vars)
<1> USE DEF producerVars, consumerVars
<1>1. CASE PopBegin(c) \/ PopManyBegin(c)
  <2>1. PICK k \in 0 .. MaxMany \cup {1} : PopStart(c, k)
    BY <1>1 DEF PopBegin, PopManyBegin
  <2>2. [d \in Consumers |-> AbsState(d)]'
          = [[d \in Consumers |-> AbsState(d)] EXCEPT ![c] = "busy"]
    BY <2>1 DEF PopStart, AbsState, IInv, TypeOK
  <2>3. Abstract!Ask(c)
    BY <1>1, <2>1, <2>2 DEF PopStart, AbsState, Abstract!Ask
  <2> QED
    BY <2>3 DEF Abstract!Next
<1>2. CASE PopLoadRead(c) \/ PopLoadCache(c) \/ PopReadSlot(c) \/ PopRetry(c)
  <2>1. \A d \in Consumers : AbsState(d)' = AbsState(d)
    BY <1>2 DEF IInv, TypeOK, AbsState, PopLoadRead, PopLoadCache, PopReadSlot,
                PopRetry, ReadDone
  <2> QED
    BY <1>2, <2>1, Stutter DEF PopLoadRead, PopLoadCache, PopReadSlot, PopRetry
<1>3. CASE PopLoadWrite(c) /\ lr[c] # writeIdx
  <2>1. \A d \in Consumers : AbsState(d)' = AbsState(d)
    BY <1>3 DEF IInv, TypeOK, AbsState, PopLoadWrite
  <2> QED
    BY <1>3, <2>1, Stutter DEF PopLoadWrite
<1>4. CASE PopLoadWrite(c) /\ lr[c] = writeIdx
  <2>1. Len(pushed) - readIdx = 0
    BY <1>4 DEF PopLoadWrite, IInv, TypeOK, ConsumerInv, IndicesOrdered
  <2>2. Abstract!FindEmpty(c)
    BY <1>4, <2>1 DEF PopLoadWrite, IInv, TypeOK, Abstract!FindEmpty, Abstract!Length
  <2> QED
    BY <2>2 DEF Abstract!Next
<1>5. CASE PopStoreCache(c) /\ lr[c] # lw[c]
  <2>1. \A d \in Consumers : AbsState(d)' = AbsState(d)
    BY <1>5 DEF IInv, TypeOK, AbsState, PopStoreCache
  <2> QED
    BY <1>5, <2>1, Stutter DEF PopStoreCache
<1>6. CASE PopStoreCache(c) /\ lr[c] = lw[c]
  <2>1. Abstract!ReturnEmpty(c)
    BY <1>6 DEF PopStoreCache, IInv, TypeOK, Abstract!ReturnEmpty
  <2> QED
    BY <2>1 DEF Abstract!Next
<1>7. CASE PopTake(c)
  <2> DEFINE n == Len(rval[c])
  <2>1. /\ pushed \in Seq(Value) /\ rval[c] \in Seq(Value \cup {NoValue})
        /\ n \in Nat /\ readIdx \in Nat /\ want[c] \in Nat
        /\ readIdx' = readIdx + n /\ readIdx + n <= Len(pushed)
        /\ n \in 0 .. want[c] /\ (n > 0 \/ want[c] = 0)
        /\ \A j \in 1 .. n : rval[c][j] = pushed[readIdx + j]
    BY <1>7, TakeFacts
  <2>2. rval[c] = SubSeq(pushed, readIdx + 1, readIdx + n)
    BY <2>1, PieceOfLog
  <2> HIDE DEF n
  <2>3. Abstract!Take(c)
    <3>1. AbsState(c) = "busy"
      BY <1>7 DEF PopTake, ReadDone, AbsState
    <3>2. [d \in Consumers |-> AbsState(d)]'
            = [[d \in Consumers |-> AbsState(d)] EXCEPT ![c] = "idle"]
      BY <1>7 DEF PopTake, AbsState, IInv, TypeOK
    <3>3. n <= Len(pushed) - readIdx
      BY <2>1
    <3> QED
      BY <1>7, <2>1, <2>2, <3>1, <3>2, <3>3
         DEF PopTake, Abstract!Take, Abstract!Length, AbsState
  <2> QED
    BY <2>3 DEF Abstract!Next
<1> QED
  BY <1>1, <1>2, <1>3, <1>4, <1>5, <1>6, <1>7 DEF Consumer

\* The lock-free ring implements the atomic bounded FIFO queue: every push is
\* accepted or refused and every pop served or turned away at one instant
\* within the call.
THEOREM Refinement == Spec => ImplementsFIFO
<1>1. Init => Abstract!Init
  BY ValueAssumption DEF Init, Abstract!Init
<1>2. IInv /\ IInv' /\ [Next]_vars => [Abstract!Next]_(Abstract!vars)
  <2> SUFFICES ASSUME IInv, IInv', [Next]_vars
               PROVE  [Abstract!Next]_(Abstract!vars)
    OBVIOUS
  <2>1. CASE UNCHANGED vars
    BY <2>1, Stutter DEF vars, producerVars, consumerVars, AbsState
  <2> QED
    BY <2>1, PushRefines, PopRefines DEF Next
<1> QED
  BY <1>1, <1>2, Invariance, PTL DEF Spec, ImplementsFIFO, Abstract!Spec
=============================================================================
