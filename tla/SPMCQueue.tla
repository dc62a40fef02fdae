------------------------------ MODULE SPMCQueue ------------------------------
(***************************************************************************)
(* The lock-free ring of src/SPMCQueue.c: one producer thread calls        *)
(* try_push, any number of consumer threads call try_pop and try_pop_many. *)
(* Every load, store and compare-and-swap of a shared location is a step   *)
(* of its own; memory is sequentially consistent here (SPMCQueueRA drops   *)
(* that assumption).                                                       *)
(***************************************************************************)
EXTENDS Integers, Sequences

CONSTANTS
  Capacity,   \* slots of the ring (create_queue insists on a power of two)
  Consumers,  \* threads that pop
  Value,      \* what is pushed
  NoValue,    \* content of a slot that was never written
  MaxPush,    \* bound: calls of try_push that may succeed
  MaxMany     \* bound: largest "howmany" passed to try_pop_many

ASSUME CapacityAssumption == Capacity \in Nat \ {0}
ASSUME ValueAssumption == NoValue \notin Value
ASSUME BoundsAssumption == MaxPush \in Nat /\ MaxMany \in Nat

VARIABLES
  slots,          \* queue->slots
  writeIdx,       \* queue->writeIdx, stored by the producer only
  readIdx,        \* queue->readIdx, swapped by the consumers
  readIdxCache,   \* queue->readIdxCache, private to the producer
  writeIdxCache,  \* queue->writeIdxCache, shared by the consumers
  ppc, pval,      \* producer: where it is in try_push, and its argument
  cpc,            \* consumer: where it is in try_pop / try_pop_many
  want,           \* howmany (1 in try_pop)
  lr, lw,         \* consumer locals readIdx and writeIdxCache
  rval,           \* the values read so far (rval / values[])
  pushed,         \* history: every value whose push was published, in order
  popped          \* history: every value a successful pop returned, in order

producerVars == <<readIdxCache, ppc, pval>>
consumerVars == <<cpc, want, lr, lw, rval>>
vars == <<slots, writeIdx, readIdx, writeIdxCache, producerVars, consumerVars,
          pushed, popped>>

Slot(i) == i % Capacity

Init ==
  /\ slots = [i \in 0 .. Capacity - 1 |-> NoValue]
  /\ writeIdx = 0 /\ readIdx = 0 /\ writeIdxCache = 0 /\ readIdxCache = 0
  /\ ppc = "idle" /\ pval = NoValue
  /\ cpc = [c \in Consumers |-> "idle"]
  /\ want = [c \in Consumers |-> 0]
  /\ lr = [c \in Consumers |-> 0]
  /\ lw = [c \in Consumers |-> 0]
  /\ rval = [c \in Consumers |-> << >>]
  /\ pushed = << >> /\ popped = << >>

-----------------------------------------------------------------------------
(* Producer: try_push(queue, value). *)

\* Mutants: off by one in the test for a full ring.
FitsOneMore(cache) == writeIdx - cache <= Capacity
FitsOneLess(cache) == writeIdx + 1 - cache < Capacity

Fits(cache) == writeIdx + 1 - cache <= Capacity

\* Mutant: the argument is not what is pushed.
PushBeginUnset(v) ==
  /\ ppc = "idle" /\ Len(pushed) < MaxPush
  /\ ppc' = IF Fits(readIdxCache) THEN "write" ELSE "reload"
  /\ UNCHANGED <<slots, writeIdx, readIdx, writeIdxCache, readIdxCache, pval,
                 consumerVars, pushed, popped>>

\* Load writeIdx (only this thread stores it) and test against the cached
\* read index, which no other thread touches.
PushBegin(v) ==
  /\ ppc = "idle" /\ Len(pushed) < MaxPush
  /\ pval' = v
  /\ ppc' = IF Fits(readIdxCache) THEN "write" ELSE "reload"
  /\ UNCHANGED <<slots, writeIdx, readIdx, writeIdxCache, readIdxCache,
                 consumerVars, pushed, popped>>

\* The cached index said full: load readIdx and test once more; a queue that
\* is still full makes try_push return false.
PushReload ==
  /\ ppc = "reload"
  /\ readIdxCache' = readIdx
  /\ ppc' = IF Fits(readIdxCache') THEN "write" ELSE "idle"
  /\ UNCHANGED <<slots, writeIdx, readIdx, writeIdxCache, pval, consumerVars,
                 pushed, popped>>

PushWrite ==
  /\ ppc = "write"
  /\ slots' = [slots EXCEPT ![Slot(writeIdx)] = pval]
  /\ ppc' = "publish"
  /\ UNCHANGED <<writeIdx, readIdx, writeIdxCache, readIdxCache, pval,
                 consumerVars, pushed, popped>>

PushPublish ==
  /\ ppc = "publish"
  /\ writeIdx' = writeIdx + 1
  /\ pushed' = Append(pushed, pval)
  /\ ppc' = "idle"
  /\ UNCHANGED <<slots, readIdx, writeIdxCache, readIdxCache, pval,
                 consumerVars, popped>>

-----------------------------------------------------------------------------
(* Consumer c: try_pop, and try_pop_many with its bound on what to take. *)

PopStart(c, n) ==
  /\ cpc[c] = "idle"
  /\ want' = [want EXCEPT ![c] = n]
  /\ cpc' = [cpc EXCEPT ![c] = "loadR"]
  /\ UNCHANGED <<slots, writeIdx, readIdx, writeIdxCache, producerVars, lr, lw,
                 rval, pushed, popped>>

PopBegin(c) == PopStart(c, 1)

PopManyBegin(c) == \E n \in 0 .. MaxMany : PopStart(c, n)

PopLoadRead(c) ==
  /\ cpc[c] = "loadR"
  /\ lr' = [lr EXCEPT ![c] = readIdx]
  /\ rval' = [rval EXCEPT ![c] = << >>]
  /\ cpc' = [cpc EXCEPT ![c] = "loadC"]
  /\ UNCHANGED <<slots, writeIdx, readIdx, writeIdxCache, producerVars, want,
                 lw, pushed, popped>>

PopLoadCache(c) ==
  /\ cpc[c] = "loadC"
  /\ lw' = [lw EXCEPT ![c] = writeIdxCache]
  /\ cpc' = [cpc EXCEPT ![c] = IF lr[c] >= writeIdxCache THEN "loadW" ELSE "read"]
  /\ UNCHANGED <<slots, writeIdx, readIdx, writeIdxCache, producerVars, want,
                 lr, rval, pushed, popped>>

PopLoadWrite(c) ==
  /\ cpc[c] = "loadW"
  /\ lw' = [lw EXCEPT ![c] = writeIdx]
  /\ cpc' = [cpc EXCEPT ![c] = "storeC"]
  /\ UNCHANGED <<slots, writeIdx, readIdx, writeIdxCache, producerVars, want,
                 lr, rval, pushed, popped>>

\* Mutant: readIdx is loaded after writeIdx.
PopStoreCacheSwapped(c) ==
  /\ cpc[c] = "storeC"
  /\ writeIdxCache' = lw[c] /\ lr' = [lr EXCEPT ![c] = readIdx]
  /\ cpc' = [cpc EXCEPT ![c] = IF readIdx = lw[c] THEN "idle"
                               ELSE IF readIdx < lw[c] THEN "read" ELSE "abort"]
  /\ UNCHANGED <<slots, writeIdx, readIdx, producerVars, want, lw, rval, pushed,
                 popped>>

\* Store the fresh write index in the shared cache; an empty queue ends the
\* call with nothing, and a write index behind the read index fails the
\* assertion.
PopStoreCache(c) ==
  /\ cpc[c] = "storeC"
  /\ writeIdxCache' = lw[c]
  /\ cpc' = [cpc EXCEPT ![c] = IF lr[c] = lw[c] THEN "idle"
                               ELSE IF lr[c] < lw[c] THEN "read" ELSE "abort"]
  /\ UNCHANGED <<slots, writeIdx, readIdx, producerVars, want, lr, lw, rval,
                 pushed, popped>>

newReadIdx(c) ==
  IF lr[c] + want[c] > lw[c] THEN lw[c] ELSE lr[c] + want[c]

\* One slot per step: the producer and other consumers run in between.
PopReadSlot(c) ==
  /\ cpc[c] = "read"
  /\ lr[c] + Len(rval[c]) < newReadIdx(c)
  /\ rval' = [rval EXCEPT ![c] = Append(@, slots[Slot(lr[c] + Len(rval[c]))])]
  /\ UNCHANGED <<slots, writeIdx, readIdx, writeIdxCache, producerVars, cpc,
                 want, lr, lw, pushed, popped>>

ReadDone(c) == cpc[c] = "read" /\ lr[c] + Len(rval[c]) >= newReadIdx(c)

\* Mutant: a plain store instead of the compare-and-swap.
PopTakeBlind(c) ==
  /\ ReadDone(c)
  /\ readIdx' = newReadIdx(c)
  /\ popped' = popped \o rval[c]
  /\ cpc' = [cpc EXCEPT ![c] = "idle"]
  /\ UNCHANGED <<slots, writeIdx, writeIdxCache, producerVars, want, lr, lw,
                 rval, pushed>>

\* The compare-and-swap succeeds: the values read become the result.
PopTake(c) ==
  /\ ReadDone(c)
  /\ readIdx = lr[c]
  /\ readIdx' = newReadIdx(c)
  /\ popped' = popped \o rval[c]
  /\ cpc' = [cpc EXCEPT ![c] = "idle"]
  /\ UNCHANGED <<slots, writeIdx, writeIdxCache, producerVars, want, lr, lw,
                 rval, pushed>>

\* Mutant: a retry does not load readIdx again.
PopRetryStale(c) ==
  /\ ReadDone(c)
  /\ cpc' = [cpc EXCEPT ![c] = "read"]
  /\ rval' = [rval EXCEPT ![c] = << >>]
  /\ UNCHANGED <<slots, writeIdx, readIdx, writeIdxCache, producerVars, want,
                 lr, lw, pushed, popped>>

\* It fails, because another consumer moved readIdx or because a weak
\* compare-and-swap may fail spuriously: the loop starts over.
PopRetry(c) ==
  /\ ReadDone(c)
  /\ cpc' = [cpc EXCEPT ![c] = "loadR"]
  /\ UNCHANGED <<slots, writeIdx, readIdx, writeIdxCache, producerVars, want,
                 lr, lw, rval, pushed, popped>>

-----------------------------------------------------------------------------
Producer ==
  (\E v \in Value : PushBegin(v)) \/ PushReload \/ PushWrite \/ PushPublish

Consumer(c) ==
  \/ PopBegin(c) \/ PopManyBegin(c)
  \/ PopLoadRead(c) \/ PopLoadCache(c) \/ PopLoadWrite(c) \/ PopStoreCache(c)
  \/ PopReadSlot(c) \/ PopTake(c) \/ PopRetry(c)

Next == Producer \/ \E c \in Consumers : Consumer(c)

Spec == Init /\ [][Next]_vars

\* A call that was entered keeps running; nobody is obliged to enter one. A
\* weak compare-and-swap does not fail spuriously for ever.
Fairness ==
  /\ WF_vars(PushReload \/ PushWrite \/ PushPublish)
  /\ \A c \in Consumers :
       /\ WF_vars(PopLoadRead(c) \/ PopLoadCache(c) \/ PopLoadWrite(c)
                    \/ PopStoreCache(c) \/ PopReadSlot(c) \/ PopTake(c) \/ PopRetry(c))
       /\ SF_vars(PopTake(c))

FairSpec == Spec /\ Fairness
-----------------------------------------------------------------------------
(* What the ring guarantees. *)

\* The shape of the state: create_queue's indices and slots and the locals of
\* try_push and try_pop stay in range; a slot never gets a value that was not
\* offered.
TypeOK ==
  /\ slots \in [0 .. Capacity - 1 -> Value \cup {NoValue}]
  /\ writeIdx \in Nat /\ readIdx \in Nat
  /\ writeIdxCache \in Nat /\ readIdxCache \in Nat
  /\ ppc \in {"idle", "reload", "write", "publish"}
  /\ pval \in Value \cup {NoValue} /\ (ppc # "idle" => pval \in Value)
  /\ cpc \in [Consumers -> {"idle", "loadR", "loadC", "loadW", "storeC", "read",
                         "abort"}]
  /\ want \in [Consumers -> Nat]
  /\ lr \in [Consumers -> Nat] /\ lw \in [Consumers -> Nat]
  /\ rval \in [Consumers -> Seq(Value \cup {NoValue})]
  /\ pushed \in Seq(Value)
  /\ popped \in Seq(Value \cup {NoValue})

\* The values handed out by try_pop and try_pop_many, over all consumers in
\* the order of their compare-and-swaps, are exactly the values pushed, in
\* push order: nothing is lost, duplicated, reordered or made up.
PoppedIsPushedPrefix == popped = SubSeq(pushed, 1, readIdx)

\* Between readIdx and writeIdx every slot still holds the value pushed for
\* that index: try_push never overwrites what no consumer has taken, however
\* stale the producer's readIdxCache is.
UnreadIntact ==
  \A i \in readIdx .. writeIdx - 1 : slots[Slot(i)] = pushed[i + 1]

\* The indices of the ring never cross, the ring never holds more than
\* Capacity values, and both caches lag behind what they cache (the shared
\* writeIdxCache may move backwards, but never ahead of writeIdx).
IndicesOrdered ==
  /\ readIdxCache <= readIdx
  /\ readIdx <= writeIdx
  /\ writeIdx <= readIdxCache + Capacity
  /\ writeIdxCache <= writeIdx

\* assert(readIdx < writeIdxCache) in try_pop and try_pop_many never fails,
\* although the two indices are loaded one after the other.
PopAssertHolds == \A c \in Consumers : cpc[c] # "abort"

\* Lock freedom of the consumers: while a value is waiting and a consumer is
\* inside a pop that wants one, some consumer eventually takes it. A failed
\* compare-and-swap means that another one succeeded.
Wanting(c) == cpc[c] # "idle" /\ want[c] > 0
PopProgress ==
  \A k \in 0 .. MaxPush - 1 :
    (readIdx = k /\ k < writeIdx /\ \E c \in Consumers : Wanting(c))
      ~> (readIdx > k \/ \A c \in Consumers : ~Wanting(c))

\* The ring implements a bounded FIFO queue whose operations are atomic: a push
\* is accepted only with room and refused only when full, a pop takes a
\* nonempty prefix, and reports an empty queue only if the queue was empty at
\* some moment during the call.
Abstract ==
  INSTANCE BoundedFIFO WITH
    log <- pushed,
    taken <- readIdx,
    out <- popped,
    offering <- ppc # "idle",
    offer <- pval,
    cst <- [c \in Consumers |->
              IF cpc[c] = "idle" THEN "idle"
              ELSE IF cpc[c] = "storeC" /\ lr[c] = lw[c] THEN "empty" ELSE "busy"]
ImplementsFIFO == Abstract!Spec
-----------------------------------------------------------------------------
(* The inductive invariant behind the theorems of SPMCQueueProofs. *)

\* try_push touches a slot only with room for it, and publishes what it wrote.
ProducerInv ==
  /\ ppc \in {"write", "publish"} => Fits(readIdxCache)
  /\ ppc = "publish" => slots[Slot(writeIdx)] = pval

\* A consumer's copies lag behind the shared indices, and what it has read is
\* what was pushed for as long as its compare-and-swap can still succeed.
ConsumerInv(c) ==
  /\ cpc[c] # "abort"
  /\ cpc[c] \in {"loadC", "loadW", "storeC", "read"} => lr[c] <= readIdx
  /\ cpc[c] \in {"loadC", "loadW", "storeC"} => rval[c] = << >>
  /\ cpc[c] \in {"storeC", "read"} => lr[c] <= lw[c] /\ lw[c] <= writeIdx
  /\ cpc[c] = "read" =>
       /\ lr[c] < lw[c]
       /\ lr[c] + Len(rval[c]) <= newReadIdx(c)
       /\ lr[c] = readIdx =>
            \A j \in 1 .. Len(rval[c]) : rval[c][j] = pushed[lr[c] + j]

\* What try_push and try_pop rely on between any two of their steps: the
\* indices are ordered, unread slots are intact, what was popped is a prefix of
\* what was pushed, and every thread's private copies are consistent with that.
IInv ==
  /\ TypeOK
  /\ writeIdx = Len(pushed)
  /\ IndicesOrdered
  /\ UnreadIntact
  /\ PoppedIsPushedPrefix
  /\ ProducerInv
  /\ \A c \in Consumers : ConsumerInv(c)
=============================================================================
