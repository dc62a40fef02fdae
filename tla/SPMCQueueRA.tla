----------------------------- MODULE SPMCQueueRA -----------------------------
(***************************************************************************)
(* The ring of src/SPMCQueue.c under the memory orders it asks for. Every  *)
(* atomic location is the list of the values stored in it. A thread's view *)
(* says how far into each list it must already look: a load may return any *)
(* value at or after that point. A release store attaches the storing      *)
(* thread's view to the value, an acquire load adopts it, a relaxed load   *)
(* does not. Slots are plain memory: a read that is not ordered after the  *)
(* write it wants is a data race, and returns that value or an older       *)
(* content of the slot.                                                    *)
(***************************************************************************)
EXTENDS Integers, Sequences, FiniteSetsExt

CONSTANTS
  Capacity,   \* slots of the ring
  Consumers,  \* threads that pop
  MaxPush,    \* bound: pushes; the n-th push pushes the value n
  MaxMany     \* bound: largest "howmany"

ASSUME CapacityAssumption == Capacity \in Nat \ {0}
ASSUME BoundsAssumption == MaxPush \in Nat /\ MaxMany \in Nat

VARIABLES
  slotWrites,     \* how many slots were written; write i goes to Slot(i - 1)
  writeIdxs,      \* stores to writeIdx: element i is the view released with i - 1
  readIdxs,       \* stores to readIdx: records [val, view]
  caches,         \* stores to writeIdxCache: values
  view,           \* per thread: positions in the three lists
  readIdxCache, ppc,
  cpc, want, lr, lw, rval,
  popped          \* history: the values returned by successful pops

vars == <<slotWrites, writeIdxs, readIdxs, caches, view, readIdxCache, ppc,
          cpc, want, lr, lw, rval, popped>>

Producer == "producer"
Threads == Consumers \cup {Producer}
Slot(i) == i % Capacity

View == [w : Nat, r : Nat, c : Nat]
Join(a, b) == [f \in {"w", "r", "c"} |-> Max({a[f], b[f]})]
Start == [w |-> 1, r |-> 1, c |-> 1]

writeIdx == Len(writeIdxs) - 1
readIdx == readIdxs[Len(readIdxs)].val

Init ==
  /\ slotWrites = 0
  /\ writeIdxs = <<Start>>
  /\ readIdxs = <<[val |-> 0, view |-> Start]>>
  /\ caches = <<0>>
  /\ view = [t \in Threads |-> Start]
  /\ readIdxCache = 0 /\ ppc = "idle"
  /\ cpc = [c \in Consumers |-> "idle"]
  /\ want = [c \in Consumers |-> 0]
  /\ lr = [c \in Consumers |-> 0]
  /\ lw = [c \in Consumers |-> 0]
  /\ rval = [c \in Consumers |-> << >>]
  /\ popped = << >>

-----------------------------------------------------------------------------
(* Producer: try_push. *)

\* Mutant: off by one in the test for a full ring.
FitsOneMore(cache) == writeIdx - cache <= Capacity

Fits(cache) == writeIdx + 1 - cache <= Capacity

PushBegin ==
  /\ ppc = "idle" /\ writeIdx < MaxPush
  /\ ppc' = IF Fits(readIdxCache) THEN "write" ELSE "reload"
  /\ UNCHANGED <<slotWrites, writeIdxs, readIdxs, caches, view, readIdxCache,
                 cpc, want, lr, lw, rval, popped>>

\* Acquire load of readIdx.
PushReload ==
  /\ ppc = "reload"
  /\ \E p \in view[Producer].r .. Len(readIdxs) :
       /\ readIdxCache' = readIdxs[p].val
       /\ view' = [view EXCEPT ![Producer] =
                     Join([@ EXCEPT !.r = p], readIdxs[p].view)]
  /\ ppc' = IF Fits(readIdxCache') THEN "write" ELSE "idle"
  /\ UNCHANGED <<slotWrites, writeIdxs, readIdxs, caches,
                 cpc, want, lr, lw, rval, popped>>

PushWrite ==
  /\ ppc = "write"
  /\ slotWrites' = slotWrites + 1
  /\ ppc' = "publish"
  /\ UNCHANGED <<writeIdxs, readIdxs, caches, view, readIdxCache,
                 cpc, want, lr, lw, rval, popped>>

\* Release store of writeIdx.
PushPublish ==
  /\ ppc = "publish"
  /\ view' = [view EXCEPT ![Producer].w = Len(writeIdxs) + 1]
  /\ writeIdxs' = Append(writeIdxs, view'[Producer])
  /\ ppc' = "idle"
  /\ UNCHANGED <<slotWrites, readIdxs, caches, readIdxCache,
                 cpc, want, lr, lw, rval, popped>>

-----------------------------------------------------------------------------
(* Consumer c: try_pop and try_pop_many. *)

PopStart(c, n) ==
  /\ cpc[c] = "idle"
  /\ want' = [want EXCEPT ![c] = n]
  /\ cpc' = [cpc EXCEPT ![c] = "loadR"]
  /\ UNCHANGED <<slotWrites, writeIdxs, readIdxs, caches, view, readIdxCache,
                 ppc, lr, lw, rval, popped>>

PopBegin(c) == PopStart(c, 1)

PopManyBegin(c) == \E n \in 2 .. MaxMany : PopStart(c, n)

\* Relaxed load of readIdx: the view attached to the value is not adopted.
PopLoadRead(c) ==
  /\ cpc[c] = "loadR"
  /\ \E p \in view[c].r .. Len(readIdxs) :
       /\ lr' = [lr EXCEPT ![c] = readIdxs[p].val]
       /\ view' = [view EXCEPT ![c].r = p]
  /\ rval' = [rval EXCEPT ![c] = << >>]
  /\ cpc' = [cpc EXCEPT ![c] = "loadC"]
  /\ UNCHANGED <<slotWrites, writeIdxs, readIdxs, caches, readIdxCache, ppc,
                 want, lw, popped>>

\* Relaxed load of writeIdxCache.
PopLoadCache(c) ==
  /\ cpc[c] = "loadC"
  /\ \E p \in view[c].c .. Len(caches) :
       /\ lw' = [lw EXCEPT ![c] = caches[p]]
       /\ view' = [view EXCEPT ![c].c = p]
  /\ cpc' = [cpc EXCEPT ![c] = IF lr[c] >= lw'[c] THEN "loadW" ELSE "read"]
  /\ UNCHANGED <<slotWrites, writeIdxs, readIdxs, caches, readIdxCache, ppc,
                 want, lr, rval, popped>>

\* Mutant: a relaxed load, which does not order the slot reads.
PopLoadWriteRelaxed(c) ==
  /\ cpc[c] = "loadW"
  /\ \E p \in view[c].w .. Len(writeIdxs) : lw' = [lw EXCEPT ![c] = p - 1]
  /\ cpc' = [cpc EXCEPT ![c] = "storeC"]
  /\ UNCHANGED <<slotWrites, writeIdxs, readIdxs, caches, view, readIdxCache,
                 ppc, want, lr, rval, popped>>

\* Mutant: off by one, the slot being written counts as published.
PopLoadWriteNext(c) ==
  /\ cpc[c] = "loadW"
  /\ \E p \in view[c].w .. Len(writeIdxs) :
       /\ lw' = [lw EXCEPT ![c] = p]
       /\ view' = [view EXCEPT ![c] = Join([@ EXCEPT !.w = p], writeIdxs[p])]
  /\ cpc' = [cpc EXCEPT ![c] = "storeC"]
  /\ UNCHANGED <<slotWrites, writeIdxs, readIdxs, caches, readIdxCache, ppc,
                 want, lr, rval, popped>>

\* Acquire load of writeIdx.
PopLoadWrite(c) ==
  /\ cpc[c] = "loadW"
  /\ \E p \in view[c].w .. Len(writeIdxs) :
       /\ lw' = [lw EXCEPT ![c] = p - 1]
       /\ view' = [view EXCEPT ![c] = Join([@ EXCEPT !.w = p], writeIdxs[p])]
  /\ cpc' = [cpc EXCEPT ![c] = "storeC"]
  /\ UNCHANGED <<slotWrites, writeIdxs, readIdxs, caches, readIdxCache, ppc,
                 want, lr, rval, popped>>

\* Relaxed store of writeIdxCache (storing the value it already holds adds
\* nothing a load could tell apart), then the test for empty and the assertion.
PopStoreCache(c) ==
  /\ cpc[c] = "storeC"
  /\ caches' = IF caches[Len(caches)] = lw[c] THEN caches
               ELSE Append(caches, lw[c])
  /\ view' = [view EXCEPT ![c].c = Len(caches')]
  /\ cpc' = [cpc EXCEPT ![c] = IF lr[c] = lw[c] THEN "idle"
                               ELSE IF lr[c] < lw[c] THEN "read" ELSE "abort"]
  /\ UNCHANGED <<slotWrites, writeIdxs, readIdxs, readIdxCache, ppc, want, lr,
                 lw, rval, popped>>

newReadIdx(c) ==
  IF lr[c] + want[c] > lw[c] THEN lw[c] ELSE lr[c] + want[c]

\* The contents slot i may show to c: what the latest write to it that is
\* ordered before this read left there, or any later write. 0 is the
\* uninitialised memory of a fresh queue.
Contents(c, i) ==
  LET writes == {0} \cup {n \in 1 .. slotWrites : Slot(n - 1) = Slot(i)}
      known == Max({n \in writes : n < view[c].w})
  IN  {n \in writes : n >= known}

PopReadSlot(c) ==
  /\ cpc[c] = "read"
  /\ lr[c] + Len(rval[c]) < newReadIdx(c)
  /\ \E v \in Contents(c, lr[c] + Len(rval[c])) :
       rval' = [rval EXCEPT ![c] = Append(@, v)]
  /\ UNCHANGED <<slotWrites, writeIdxs, readIdxs, caches, view, readIdxCache,
                 ppc, cpc, want, lr, lw, popped>>

ReadDone(c) == cpc[c] = "read" /\ lr[c] + Len(rval[c]) >= newReadIdx(c)

\* Release compare-and-swap: it sees the last value of readIdx, and continues
\* the release sequence of the swaps before it.
PopTake(c) ==
  /\ ReadDone(c)
  /\ readIdx = lr[c]
  /\ view' = [view EXCEPT ![c].r = Len(readIdxs) + 1]
  /\ readIdxs' = Append(readIdxs,
                   [val |-> newReadIdx(c),
                    view |-> Join(view'[c], readIdxs[Len(readIdxs)].view)])
  /\ popped' = popped \o rval[c]
  /\ cpc' = [cpc EXCEPT ![c] = "idle"]
  /\ UNCHANGED <<slotWrites, writeIdxs, caches, readIdxCache, ppc, want, lr,
                 lw, rval>>

\* The swap fails because readIdx moved, or spuriously.
PopRetry(c) ==
  /\ ReadDone(c)
  /\ cpc' = [cpc EXCEPT ![c] = "loadR"]
  /\ UNCHANGED <<slotWrites, writeIdxs, readIdxs, caches, view, readIdxCache,
                 ppc, want, lr, lw, rval, popped>>

-----------------------------------------------------------------------------
Next ==
  \/ PushBegin \/ PushReload \/ PushWrite \/ PushPublish
  \/ \E c \in Consumers :
       \/ PopBegin(c) \/ PopManyBegin(c)
       \/ PopLoadRead(c) \/ PopLoadCache(c) \/ PopLoadWrite(c)
       \/ PopStoreCache(c) \/ PopReadSlot(c) \/ PopTake(c) \/ PopRetry(c)

Spec == Init /\ [][Next]_vars

-----------------------------------------------------------------------------
\* The shape of the state: the indices and views of try_push, try_pop and
\* try_pop_many stay in range, so that no index passes the last push.
TypeOK ==
  /\ slotWrites \in 0 .. MaxPush
  /\ writeIdxs \in Seq(View)
  /\ readIdxs \in Seq([val : 0 .. MaxPush, view : View])
  /\ caches \in Seq(0 .. MaxPush)
  /\ view \in [Threads -> View]
  /\ readIdxCache \in 0 .. MaxPush
  /\ ppc \in {"idle", "reload", "write", "publish"}
  /\ cpc \in [Consumers -> {"idle", "loadR", "loadC", "loadW", "storeC", "read",
                            "abort"}]
  /\ want \in [Consumers -> 0 .. MaxMany]
  /\ lr \in [Consumers -> 0 .. MaxPush] /\ lw \in [Consumers -> 0 .. MaxPush]
  /\ rval \in [Consumers -> Seq(0 .. MaxPush)]
  /\ popped \in Seq(0 .. MaxPush)

\* The values returned by try_pop and try_pop_many, in the order of their
\* compare-and-swaps, are the values pushed, each once and in push order; no
\* pop returns what a slot held before the push it stands for.
PoppedInPushOrder == \A i \in DOMAIN popped : popped[i] = i

\* assert(readIdx < writeIdxCache): a consumer that loads readIdx and then
\* writeIdx never finds the write index behind.
PopAssertHolds == \A c \in Consumers : cpc[c] # "abort"

\* try_push accepts a value only while the ring has room, although the readIdx
\* it loads may be stale.
WithinCapacity == slotWrites - readIdx <= Capacity /\ readIdx <= writeIdx
=============================================================================
