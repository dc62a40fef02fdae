----------------------------- MODULE RtpProcInv -----------------------------
(***************************************************************************)
(* The inductive invariant of RtpProc, the operators on its table and its  *)
(* schedule list, and the steps of the worker and of the clock.            *)
(***************************************************************************)
EXTENDS RtpProc, TLAPS

-----------------------------------------------------------------------------
(* The inductive invariant. *)

Commands ==
  [type : {"create", "close"}, ch : Channels, waiter : BOOLEAN]
  \cup {Cmd("shutdown", NoChannel, FALSE)}

Calls ==
  [pc : {"idle", "wait", "join"}, op : {"none", "create", "close", "shutdown"},
   ch : Channels \cup {NoChannel}]

ChannelStates == [held : BOOLEAN, made : BOOLEAN, closed : BOOLEAN]

WorkerPcs ==
  {"detach", "batch", "callback", "selfwait", "steal", "complete", "due", "wait", "exit",
   "exited"}

Types ==
  /\ accepting \in BOOLEAN /\ shutdown_queued \in BOOLEAN /\ worker_running \in BOOLEAN
  /\ busy \in BOOLEAN /\ waiter \in [done : BOOLEAN, status : {"ok", "ENOMEM"}]
  /\ close_exc \in SUBSET Channels
  /\ queue \in Seq(Commands) /\ batch \in Seq(Commands)
  /\ slots \in Seq(Channels \cup {NoChannel}) /\ sched \in Seq(Channels)
  /\ due \in [Channels -> Int] /\ \A c \in Channels : due[c] >= -MaxLate
  /\ cb_exc \in SUBSET Channels
  /\ wpc \in WorkerPcs /\ status \in {"ok", "ENOMEM"} /\ taken \in SUBSET Channels
  /\ cb \in [ch : Channels \cup {NoChannel}, first : BOOLEAN, now : Int, deadline : Int]
  /\ stop_seen \in BOOLEAN
  /\ call \in [Threads -> Calls] /\ chan \in [Channels -> ChannelStates]
  /\ ended \in SUBSET Channels /\ failed \in SUBSET Channels
  /\ outcome \in [Channels -> {"none", "clean", "own", "other", "local"}]

\* A thread in a synchronous method, and the command it waits for.
Waits(t) == call[t].pc = "wait"
Awaited(t) == Cmd(call[t].op, call[t].ch, TRUE)

Pending == Range(queue) \cup Range(batch)

\* The waiter has one owner: a thread, or the worker in its own callback.
CallInv ==
  /\ \A t \in Threads : Waits(t) =>
       busy /\ call[t].op \in {"create", "close"} /\ call[t].ch \in Channels
  /\ \A t \in Threads : ~Waits(t) => call[t].ch = NoChannel
  /\ \A t, u \in Threads : Waits(t) /\ Waits(u) => t = u
  /\ wpc = "selfwait" => busy /\ \A t \in Threads : ~Waits(t)

\* One command at most has the waiter, the one its owner waits for; it is pending
\* until the waiter is done.
WaitInv ==
  /\ \A t \in Threads : Waits(t) => waiter.done \/ Awaited(t) \in Pending
  /\ \A m \in Pending : m.waiter =>
       /\ ~waiter.done
       /\ wpc = "selfwait" \/ \E t \in Threads : Waits(t) /\ m = Awaited(t)
  /\ \A i, j \in DOMAIN queue : queue[i].waiter /\ queue[j].waiter => i = j
  /\ \A i, j \in DOMAIN batch : batch[i].waiter /\ batch[j].waiter => i = j
  /\ \A i \in DOMAIN queue, j \in DOMAIN batch : ~(queue[i].waiter /\ batch[j].waiter)

\* SHUTDOWN is the last command of all.
StopInv ==
  /\ shutdown_queued = ~accepting
  /\ accepting => ~stop_seen /\ \A m \in Pending : m.type # "shutdown"
  /\ \A i \in DOMAIN queue : queue[i].type = "shutdown" => i = Len(queue)
  /\ \A i \in DOMAIN batch : batch[i].type = "shutdown" => i = Len(batch) /\ queue = << >>
  /\ stop_seen => queue = << >> /\ (batch = << >> \/ (wpc = "complete" /\ Len(batch) = 1))

\* What the worker has in hand at each of its points.
WorkInv ==
  /\ wpc \in {"detach", "due", "wait", "exit", "exited"} => batch = << >>
  /\ wpc \in {"exit", "exited"} => stop_seen
  /\ wpc \in {"callback", "selfwait"} =>
       /\ cb.ch \in Channels
       /\ cb.first => batch # << >> /\ Head(batch).type = "create" /\ Head(batch).ch = cb.ch
       /\ ~cb.first => batch = << >>
  /\ wpc \notin {"callback", "selfwait"} => cb = NoCallback
  /\ wpc \in {"steal", "complete"} => batch # << >>
  /\ wpc = "steal" => Head(batch).type = "close" /\ taken \subseteq {Head(batch).ch}
  /\ wpc # "steal" => taken = {}
  /\ wpc = "exited" => slots = << >>

\* close_exc holds the exception of the channel a thread is closing, or nothing.
ExcInv ==
  close_exc # {} =>
    \E t \in Threads : Waits(t) /\ call[t].op = "close" /\ close_exc = {call[t].ch}

\* create_channel has returned, with the channel or with an error.
Settled(c) == chan[c].held \/ chan[c].closed

\* A channel is closed only after it was created, and created once.
LifeInv ==
  /\ \A c \in Channels : Settled(c) => chan[c].made
  /\ \A t \in Threads : Waits(t) =>
       /\ call[t].op = "create" => chan[call[t].ch].made /\ ~Settled(call[t].ch)
       /\ call[t].op = "close" => chan[call[t].ch].held
  /\ \A m \in Pending :
       /\ m.type = "create" => m.waiter /\ chan[m.ch].made /\ ~Settled(m.ch)
       /\ m.type = "close" => Settled(m.ch)
       /\ m.type = "close" /\ ~m.waiter => chan[m.ch].closed /\ ~chan[m.ch].held
  /\ \A c \in Channels : outcome[c] # "none" => chan[c].closed

\* The worker knows nothing of the channel.
Absent(c) ==
  c \notin Range(slots) /\ c \notin Range(sched) /\ cb.ch # c /\ c \notin cb_exc

\* Which channels are absent: those not added yet and those removed.
AbsentInv ==
  /\ \A c \in Channels : ~chan[c].made => Absent(c)
  /\ \A i \in DOMAIN queue : queue[i].type = "create" => Absent(queue[i].ch)
  /\ \A i \in DOMAIN batch : batch[i].type = "create" /\ (i > 1 \/ wpc = "batch") =>
       Absent(batch[i].ch)
  /\ wpc \in {"steal", "complete"} /\ Head(batch).type = "close" => Absent(Head(batch).ch)
  /\ \A t \in Threads : Waits(t) /\ call[t].op = "close" /\ waiter.done =>
       Absent(call[t].ch)
  /\ \A c \in Channels : outcome[c] \in {"clean", "own", "other"} => Absent(c)

\* The schedule list: sorted, without repetition, of channels in the table.
Sorted(list, d) ==
  \A i, j \in 1..Len(list) : i < j => d[list[i]] <= d[list[j]] /\ list[i] # list[j]

SchedInv ==
  /\ Sorted(sched, due)
  /\ Range(sched) \subseteq Range(slots)
  /\ cb.ch \notin Range(sched)
  /\ cb.ch # NoChannel => cb.ch \in Range(slots)
  /\ \A i, j \in DOMAIN slots : slots[i] = slots[j] /\ slots[i] # NoChannel => i = j
  /\ NoneForgotten

IInv ==
  /\ Types /\ CallInv /\ WaitInv /\ StopInv /\ WorkInv /\ ExcInv /\ LifeInv /\ AbsentInv
  /\ SchedInv /\ ExceptionIsOwn

\* With one thread, and callbacks that call neither close() nor shutdown(): a
\* command is accepted until its caller has returned, and an exception is stored,
\* or on its way to the close() that waits, until that close() has raised it.
SoleInv ==
  /\ \A t \in Threads : Waits(t) =>
       accepting /\ (call[t].op = "close" => ~chan[call[t].ch].closed)
  /\ \A c \in failed :
       \/ c \in cb_exc
       \/ wpc = "steal" /\ taken = {c}
       \/ close_exc = {c}
       \/ outcome[c] \in {"own", "local"}
       \/ chan[c].closed /\ ~chan[c].held
       \/ wpc = "exited"
  /\ ExceptionRaised

-----------------------------------------------------------------------------
(* Induction over the slots of the table, and the operators on the list. *)

\* What the lemmas on the table and the list take from arithmetic: a set of numbers
\* has a least element, and an interval has as many members as it is long. Proved as
\* Count before the theorems are drawn.
Counting ==
  /\ \A S \in SUBSET Nat : S # {} => \E m \in S : \A n \in S : m <= n
  /\ \A n \in Nat : Cardinality(1..n) = n
  /\ \A n \in Nat : \A S \in SUBSET (1..n) : Cardinality(S) \in 0..n

\* A set with 0 and, with each number below n, the next one, has all up to n.
LEMMA UpTo ==
  ASSUME Counting, NEW n \in Nat, NEW S, 0 \in S,
         \A i \in 1..n : i - 1 \in S => i \in S
  PROVE  \A i \in 0..n : i \in S
<1> DEFINE T == {i \in 0..n : i \notin S}
<1>1. SUFFICES ASSUME T # {} PROVE FALSE
  BY Zenon
<1>2. PICK m \in T : \A i \in T : m <= i
  <2>1. T \subseteq Nat
    OBVIOUS
  <2> HIDE DEF T
  <2> QED
    BY <1>1, <2>1, Zenon DEF Counting
<1>3. m \in 1..n /\ m \notin S
  OBVIOUS
<1>4. m - 1 \in T
  BY <1>3
<1> QED
  BY <1>2, <1>4

\* The channels due no later than c come first in a sorted list.
LEMMA BeforeFacts ==
  ASSUME Counting, NEW list \in Seq(Channels), NEW d \in [Channels -> Int], NEW c \in Channels
  PROVE  LET before == {i \in 1..Len(list) : d[list[i]] <= d[c]}
         IN  /\ Cardinality(before) \in 0..Len(list)
             /\ Sorted(list, d) => before = 1..Cardinality(before)
<1> DEFINE before == {i \in 1..Len(list) : d[list[i]] <= d[c]}
           T == (1..(Len(list) + 1)) \ before
<1>1. Cardinality(before) \in 0..Len(list)
  <2>1. Len(list) \in Nat /\ before \in SUBSET (1..Len(list))
    OBVIOUS
  <2> HIDE DEF before
  <2> QED
    BY <2>1, Zenon DEF Counting
<1>2. ASSUME Sorted(list, d) PROVE before = 1..Cardinality(before)
  <2>1. T \subseteq Nat /\ T # {}
    <3>1. Len(list) + 1 \in T
      OBVIOUS
    <3> QED
      BY <3>1
  <2>2. PICK m \in T : \A n \in T : m <= n
    <3> HIDE DEF T
    <3> QED
      BY <2>1, Zenon DEF Counting
  <2>3. m \in 1..(Len(list) + 1) /\ m \notin before
    BY Zenon
  <2>4. \A i \in 1..(m - 1) : i \in before
    <3> SUFFICES ASSUME NEW i \in 1..(m - 1), i \notin before PROVE FALSE
      BY Zenon
    <3>1. i \in T
      BY <2>3
    <3> QED
      BY <2>2, <2>3, <3>1
  <2>5. \A i \in before : i \in 1..(m - 1)
    <3> SUFFICES ASSUME NEW i \in before, i >= m PROVE FALSE
      BY <2>3
    <3>1. m \in 1..Len(list) /\ i # m /\ i \in 1..Len(list)
      BY <2>3
    <3>2. d[list[m]] <= d[list[i]]
      BY <1>2, <2>3, <3>1 DEF Sorted
    <3>3. d[list[m]] \in Int /\ d[list[i]] \in Int /\ d[c] \in Int
      BY <3>1
    <3> QED
      BY <2>3, <3>1, <3>2, <3>3
  <2>6. before = 1..(m - 1)
    BY <2>4, <2>5, SMTT(30)
  <2>7. Cardinality(1..(m - 1)) = m - 1
    BY <2>3 DEF Counting
  <2> QED
    BY <2>6, <2>7, Zenon
<1> QED
  BY <1>1, <1>2, Zenon

\* What schedule_channel does to the list: the channel joins it, and it stays
\* sorted.
LEMMA ScheduledFacts ==
  ASSUME Counting, NEW list \in Seq(Channels), NEW d \in [Channels -> Int], NEW c \in Channels
  PROVE  /\ Scheduled(list, d, c) \in Seq(Channels)
         /\ Range(Scheduled(list, d, c)) = Range(list) \cup {c}
         /\ Sorted(list, d) /\ c \notin Range(list) => Sorted(Scheduled(list, d, c), d)
<1> DEFINE before == {i \in 1..Len(list) : d[list[i]] <= d[c]}
           k == Cardinality(before)
           new == Scheduled(list, d, c)
<1>1. k \in 0..Len(list) /\ (Sorted(list, d) => before = 1..k)
  BY BeforeFacts, Zenon
<1>2. new = [i \in 1..(Len(list) + 1) |-> IF i <= k THEN list[i]
                                          ELSE IF i = k + 1 THEN c ELSE list[i - 1]]
  BY Zenon DEF Scheduled
<1>3. \A i \in before : d[list[i]] <= d[c]
  BY Zenon
<1>4. \A i \in 1..Len(list) : i \notin before => d[c] <= d[list[i]]
  OBVIOUS
<1> HIDE DEF before, k, new
<1>5. new \in Seq(Channels) /\ Len(new) = Len(list) + 1
  BY <1>1, <1>2
<1>6. Range(new) = Range(list) \cup {c}
  <2>1. Range(new) \subseteq Range(list) \cup {c}
    BY <1>1, <1>2, <1>5, SMTT(30) DEF Range
  <2>2. c \in Range(new)
    <3>1. k + 1 \in DOMAIN new /\ new[k + 1] = c
      BY <1>1, <1>2
    <3> QED
      BY <3>1, Zenon DEF Range
  <2>3. \A i \in 1..Len(list) : list[i] \in Range(new)
    <3> SUFFICES ASSUME NEW i \in 1..Len(list) PROVE list[i] \in Range(new)
      BY Zenon
    <3>1. \E j \in DOMAIN new : new[j] = list[i]
      <4>1. CASE i <= k
        BY <1>1, <1>2, <4>1
      <4>2. CASE i > k
        <5>1. i + 1 \in DOMAIN new /\ new[i + 1] = list[i]
          BY <1>1, <1>2, <4>2
        <5> QED
          BY <5>1, Zenon
      <4> QED
        BY <1>1, <4>1, <4>2
    <3> QED
      BY <3>1, Zenon DEF Range
  <2>4. Range(list) \subseteq Range(new)
    BY <2>3 DEF Range
  <2> QED
    BY <2>1, <2>2, <2>4, Zenon
<1>7. ASSUME Sorted(list, d), c \notin Range(list) PROVE Sorted(new, d)
  <2> SUFFICES ASSUME NEW i \in 1..Len(new), NEW j \in 1..Len(new), i < j
               PROVE  d[new[i]] <= d[new[j]] /\ new[i] # new[j]
    BY Zenon DEF Sorted
  <2>1. \A n \in 1..Len(list) : list[n] # c
    BY <1>7 DEF Range
  <2>2. before = 1..k
    BY <1>1, <1>7, Zenon
  <2>8. \A a, b \in 1..Len(list) : a < b => d[list[a]] <= d[list[b]] /\ list[a] # list[b]
    BY <1>7, Zenon DEF Sorted
  <2>3. CASE j <= k
    <3>1. new[i] = list[i] /\ new[j] = list[j] /\ i \in 1..Len(list) /\ j \in 1..Len(list)
      BY <1>1, <1>2, <1>5, <2>3, SMTT(30)
    <3> QED
      BY <2>8, <3>1, Zenon
  <2>4. CASE j = k + 1
    <3>1. i \in before /\ new[i] = list[i] /\ new[j] = c /\ i \in 1..Len(list)
      BY <1>1, <1>2, <1>5, <2>2, <2>4
    <3> QED
      BY <1>3, <2>1, <3>1, Zenon
  <2>5. CASE j > k + 1 /\ i = k + 1
    <3>1. new[i] = c /\ new[j] = list[j - 1] /\ j - 1 \in 1..Len(list) /\ j - 1 \notin before
      BY <1>1, <1>2, <1>5, <2>2, <2>5
    <3> QED
      BY <1>4, <2>1, <3>1, Zenon
  <2>6. CASE j > k + 1 /\ i <= k
    <3>1. new[i] = list[i] /\ new[j] = list[j - 1] /\ i < j - 1
      BY <1>1, <1>2, <1>5, <2>6, SMTT(30)
    <3>2. i \in 1..Len(list) /\ j - 1 \in 1..Len(list)
      BY <1>1, <1>5, <2>6
    <3> QED
      BY <2>8, <3>1, <3>2, Zenon
  <2>7. CASE i > k + 1
    <3>1. new[i] = list[i - 1] /\ new[j] = list[j - 1] /\ i - 1 < j - 1
      BY <1>1, <1>2, <1>5, <2>7, SMTT(30)
    <3>2. i - 1 \in 1..Len(list) /\ j - 1 \in 1..Len(list)
      BY <1>1, <1>5, <2>7
    <3> QED
      BY <2>8, <3>1, <3>2, Zenon
  <2> QED
    BY <1>1, <2>3, <2>4, <2>5, <2>6, <2>7
<1> QED
  BY <1>5, <1>6, <1>7, Zenon DEF new

\* Being sorted depends on the times of the channels listed alone.
LEMMA SortedAgree ==
  ASSUME NEW list \in Seq(Channels), NEW d, NEW e, Sorted(list, d),
         \A c \in Range(list) : e[c] = d[c]
  PROVE  Sorted(list, e)
<1>1. \A i \in 1..Len(list) : list[i] \in Range(list)
  BY DEF Range
<1> QED
  BY <1>1, Zenon DEF Sorted

\* What unschedule_channel does to the list: the channel leaves it, and it stays
\* sorted.
LEMMA UnscheduledFacts ==
  ASSUME NEW list \in Seq(Channels), NEW d \in [Channels -> Int], NEW c \in Channels,
         Sorted(list, d)
  PROVE  /\ Unscheduled(list, c) \in Seq(Channels)
         /\ Range(Unscheduled(list, c)) = Range(list) \ {c}
         /\ Sorted(Unscheduled(list, c), d)
<1>1. CASE c \notin Range(list)
  <2>1. Unscheduled(list, c) = list
    BY <1>1, Zenon DEF Unscheduled
  <2> QED
    BY <1>1, <2>1, Zenon
<1>2. CASE c \in Range(list)
  <2> DEFINE k == CHOOSE i \in 1..Len(list) : list[i] = c
             new == Unscheduled(list, c)
  <2>1. k \in 1..Len(list) /\ list[k] = c
    BY <1>2, SMTT(30) DEF Range
  <2>2. new = [i \in 1..(Len(list) - 1) |-> IF i < k THEN list[i] ELSE list[i + 1]]
    BY <1>2, Zenon DEF Unscheduled
  <2> HIDE DEF k, new
  <2>3. new \in Seq(Channels) /\ Len(new) = Len(list) - 1
    BY <2>1, <2>2
  <2>4. \A a, b \in 1..Len(list) : a < b => d[list[a]] <= d[list[b]] /\ list[a] # list[b]
    BY Zenon DEF Sorted
  <2>5. \A i \in 1..Len(list) : i # k => list[i] # c
    BY <2>1, <2>4
  <2>6. Range(new) \subseteq Range(list) \ {c}
    <3> SUFFICES ASSUME NEW i \in DOMAIN new PROVE new[i] \in Range(list) \ {c}
      BY Zenon DEF Range
    <3>1. \E j \in 1..Len(list) : j # k /\ new[i] = list[j]
      <4>1. CASE i < k
        BY <2>1, <2>2, <4>1, SMTT(30)
      <4>2. CASE i >= k
        <5>1. i + 1 \in 1..Len(list) /\ i + 1 # k /\ new[i] = list[i + 1]
          BY <2>1, <2>2, <4>2
        <5> QED
          BY <5>1, Zenon
      <4> QED
        BY <2>1, <2>2, <4>1, <4>2
    <3> QED
      BY <2>5, <3>1 DEF Range
  <2>7. Range(list) \ {c} \subseteq Range(new)
    <3> SUFFICES ASSUME NEW j \in 1..Len(list), list[j] # c PROVE list[j] \in Range(new)
      BY DEF Range
    <3>1. \E i \in DOMAIN new : new[i] = list[j]
      <4>1. CASE j < k
        <5>1. j \in DOMAIN new /\ new[j] = list[j]
          BY <2>1, <2>2, <4>1
        <5> QED
          BY <5>1, Zenon
      <4>2. CASE j > k
        <5>1. j - 1 \in DOMAIN new /\ new[j - 1] = list[j]
          BY <2>1, <2>2, <4>2
        <5> QED
          BY <5>1, Zenon
      <4> QED
        BY <2>1, <4>1, <4>2
    <3> QED
      BY <3>1, Zenon DEF Range
  <2>8. Sorted(new, d)
    <3> SUFFICES ASSUME NEW i \in 1..Len(new), NEW j \in 1..Len(new), i < j
                 PROVE  d[new[i]] <= d[new[j]] /\ new[i] # new[j]
      BY Zenon DEF Sorted
    <3> DEFINE a == IF i < k THEN i ELSE i + 1
               b == IF j < k THEN j ELSE j + 1
    <3>1. a \in 1..Len(list) /\ new[i] = list[a]
      BY <2>1, <2>2, <2>3, SMTT(30)
    <3>2. b \in 1..Len(list) /\ new[j] = list[b]
      BY <2>1, <2>2, <2>3, SMTT(30)
    <3>3. a < b
      <4>1. i \in Int /\ j \in Int /\ k \in Int /\ i < j
        BY <2>1, <2>3
      <4> QED
        BY ONLY <4>1
    <3> HIDE DEF a, b
    <3> QED
      BY <2>4, <3>1, <3>2, <3>3, Zenon
  <2> QED
    BY <2>3, <2>6, <2>7, <2>8, Zenon DEF new
<1> QED
  BY <1>1, <1>2, Zenon

\* What rebuild_schedule_list leaves: the scheduled channels that have a slot,
\* sorted.
LEMMA RebuiltFacts ==
  ASSUME Counting, slots \in Seq(Channels \cup {NoChannel}), sched \in Seq(Channels),
         due \in [Channels -> Int],
         \A i, j \in DOMAIN slots : slots[i] = slots[j] /\ slots[i] # NoChannel => i = j
  PROVE  /\ Rebuilt \in Seq(Channels)
         /\ Range(Rebuilt) = Range(sched) \cap Range(slots)
         /\ Sorted(Rebuilt, due)
<1> DEFINE N == Len(slots)
           Step(l, i) == IF slots[i] \in Range(sched) THEN Scheduled(l, due, slots[i]) ELSE l
           IsRun(f, n) == f = [i \in 0..n |-> IF i = 0 THEN << >> ELSE Step(f[i - 1], i)]
           S == {n \in 0..N : \E f : IsRun(f, n)}
           run == CHOOSE f : IsRun(f, N)
           Good(l, n) == /\ l \in Seq(Channels)
                         /\ Range(l) = {c \in Range(sched) : \E i \in 1..n : slots[i] = c}
                         /\ Sorted(l, due)
<1>1. N \in Nat
  OBVIOUS
<1>2. Rebuilt = run[N]
  BY Zenon DEF Rebuilt
<1>3. \A l, i : slots[i] \in Range(sched) => Step(l, i) = Scheduled(l, due, slots[i])
  BY Zenon
<1>4. \A l, i : slots[i] \notin Range(sched) => Step(l, i) = l
  BY Zenon
<1> HIDE DEF Step
<1>5. 0 \in S
  <2> DEFINE f == [i \in 0..0 |-> << >>]
  <2>1. IsRun(f, 0)
    OBVIOUS
  <2> HIDE DEF f, IsRun
  <2> QED
    BY <1>1, <2>1
<1>6. ASSUME NEW n \in 1..N, n - 1 \in S PROVE n \in S
  <2>1. PICK f : IsRun(f, n - 1)
    BY <1>6, Zenon
  <2> DEFINE g == [i \in 0..n |-> IF i = n THEN Step(f[n - 1], n) ELSE f[i]]
             h == [i \in 0..n |-> IF i = 0 THEN << >> ELSE Step(g[i - 1], i)]
  <2>2. \A i \in 0..(n - 1) : f[i] = IF i = 0 THEN << >> ELSE Step(f[i - 1], i)
    BY <2>1, Zenon
  <2>3. \A i \in 0..n : g[i] = h[i]
    BY <1>1, <2>2
  <2>4. g = h
    BY <2>3, Zenon
  <2>5. IsRun(g, n)
    BY <2>4, Zenon
  <2> HIDE DEF g, IsRun
  <2> QED
    BY <1>1, <2>5
<1>7. IsRun(run, N)
  <2>1. \A n \in 1..N : n - 1 \in S => n \in S
    BY <1>6, Zenon
  <2> HIDE DEF S
  <2>2. \A n \in 0..N : n \in S
    BY <1>1, <1>5, <2>1, UpTo, Zenon
  <2>3. \E f : IsRun(f, N)
    BY <1>1, <2>2 DEF S
  <2> QED
    BY <2>3, Zenon
<1> HIDE DEF run
<1>8. run[0] = << >> /\ \A i \in 1..N : run[i] = Step(run[i - 1], i)
  <2>1. \A i \in 0..N : run[i] = IF i = 0 THEN << >> ELSE Step(run[i - 1], i)
    BY <1>7, Zenon
  <2> QED
    BY <1>1, <2>1
<1> HIDE DEF IsRun
<1> DEFINE G == {n \in 0..N : Good(run[n], n)}
<1>9. 0 \in G
  <2>1. << >> \in Seq(Channels) /\ Len(<< >>) = 0 /\ Range(<< >>) = {}
    BY DEF Range
  <2>2. {c \in Range(sched) : \E i \in 1..0 : slots[i] = c} = {}
    OBVIOUS
  <2>3. Sorted(<< >>, due)
    BY <2>1 DEF Sorted
  <2>4. Good(run[0], 0)
    BY <1>8, <2>1, <2>2, <2>3, Zenon
  <2> HIDE DEF Good
  <2> QED
    BY <1>1, <2>4
<1>10. ASSUME NEW n \in 1..N, n - 1 \in G PROVE n \in G
  <2> DEFINE l == run[n - 1]
  <2>1. Good(l, n - 1) /\ run[n] = Step(l, n)
    BY <1>8, <1>10, Zenon
  <2> HIDE DEF l
  <2>2. \A c : (\E i \in 1..n : slots[i] = c) <=> (\E i \in 1..(n - 1) : slots[i] = c) \/ slots[n] = c
    BY <1>1
  <2>3. CASE slots[n] \notin Range(sched)
    <3>1. run[n] = l
      BY <1>4, <2>1, <2>3, Zenon
    <3>2. \A c \in Range(sched) : (\E i \in 1..n : slots[i] = c) <=> (\E i \in 1..(n - 1) : slots[i] = c)
      BY <2>2, <2>3, Zenon
    <3>3. {c \in Range(sched) : \E i \in 1..n : slots[i] = c}
            = {c \in Range(sched) : \E i \in 1..(n - 1) : slots[i] = c}
      BY ONLY <3>2, Zenon
    <3>4. Good(run[n], n)
      BY ONLY <2>1, <3>1, <3>3, Zenon
    <3> HIDE DEF Good
    <3> QED
      BY <1>1, <3>4
  <2>4. CASE slots[n] \in Range(sched)
    <3>1. run[n] = Scheduled(l, due, slots[n])
      BY <1>3, <2>1, <2>4, Zenon
    <3>2. slots[n] \in Channels
      BY <2>4 DEF Range
    <3>3. slots[n] \notin Range(l)
      <4>1. \A i \in 1..(n - 1) : slots[i] # slots[n]
        BY <1>1, <3>2, SizesAssumption, SMTT(30)
      <4> QED
        BY <2>1, <4>1, Zenon
    <3>4. /\ run[n] \in Seq(Channels)
          /\ Range(run[n]) = Range(l) \cup {slots[n]}
          /\ Sorted(run[n], due)
      <4>1. l \in Seq(Channels) /\ Sorted(l, due)
        BY <2>1, Zenon
      <4> DEFINE c == slots[n]
      <4>2. c \in Channels /\ c \notin Range(l)
        BY <3>2, <3>3, Zenon
      <4> HIDE DEF c, Good, N
      <4>3. /\ Scheduled(l, due, c) \in Seq(Channels)
            /\ Range(Scheduled(l, due, c)) = Range(l) \cup {c}
            /\ Sorted(Scheduled(l, due, c), due)
        BY <4>1, <4>2, ScheduledFacts, Zenon
      <4> QED
        BY <3>1, <4>3, Zenon DEF c
    <3>5. Range(run[n]) = {c \in Range(sched) : \E i \in 1..n : slots[i] = c}
      BY <2>1, <2>2, <2>4, <3>4, Zenon
    <3> QED
      BY <3>4, <3>5
  <2> QED
    BY <2>3, <2>4, Zenon
<1>11. Good(run[N], N)
  <2>1. \A n \in 1..N : n - 1 \in G => n \in G
    BY <1>10, Zenon
  <2> HIDE DEF G
  <2>2. \A n \in 0..N : n \in G
    BY <1>1, <1>9, <2>1, UpTo, Zenon
  <2> HIDE DEF Good
  <2> QED
    BY <1>1, <2>2 DEF G
<1>12. {c \in Range(sched) : \E i \in 1..N : slots[i] = c} = Range(sched) \cap Range(slots)
  BY DEF Range
<1> QED
  BY <1>2, <1>11, <1>12, Zenon

\* What alloc_channel_slot does: the channel gets a slot of its own, the others
\* keep theirs, and a moved array leaves the same channels on the list, sorted.
LEMMA AllocFacts ==
  ASSUME Counting, slots \in Seq(Channels \cup {NoChannel}), sched \in Seq(Channels),
         due \in [Channels -> Int], SchedInv, NEW c \in Channels, c \notin Range(slots),
         AllocSlot(c)
  PROVE  /\ slots' \in Seq(Channels \cup {NoChannel}) /\ sched' \in Seq(Channels)
         /\ \A x \in Channels : x \in Range(slots') <=> x \in Range(slots) \/ x = c
         /\ \A i, j \in DOMAIN slots' : slots'[i] = slots'[j] /\ slots'[i] # NoChannel => i = j
         /\ Range(sched') = Range(sched) /\ Sorted(sched', due)
<1>1. \A i, j \in DOMAIN slots : slots[i] = slots[j] /\ slots[i] # NoChannel => i = j
  BY Zenon DEF SchedInv
<1>2. \A i \in DOMAIN slots : slots[i] # c
  BY Zenon DEF Range
<1>3. c # NoChannel
  BY SizesAssumption, Zenon
<1>4. CASE FreeSlots # {}
  <2> DEFINE k == CHOOSE i \in FreeSlots : \A j \in FreeSlots : i <= j
  <2>1. slots' = [slots EXCEPT ![k] = c] /\ sched' = sched
    BY <1>4, Zenon DEF AllocSlot
  <2>2. k \in FreeSlots
    <3>1. FreeSlots \subseteq Nat
      BY DEF FreeSlots
    <3>2. \E i \in FreeSlots : \A j \in FreeSlots : i <= j
      BY <1>4, <3>1, Zenon DEF Counting
    <3> QED
      BY <3>2, Zenon
  <2>3. k \in DOMAIN slots /\ slots[k] = NoChannel
    BY <2>2 DEF FreeSlots
  <2> HIDE DEF k
  <2>4. /\ slots' \in Seq(Channels \cup {NoChannel}) /\ DOMAIN slots' = DOMAIN slots
        /\ slots'[k] = c /\ \A i \in DOMAIN slots : i # k => slots'[i] = slots[i]
    BY <2>1, <2>3
  <2>5. \A x \in Channels : x \in Range(slots') <=> x \in Range(slots) \/ x = c
    <3>1. \A x \in Channels : x # slots[k]
      BY <2>3, SizesAssumption, Zenon
    <3> QED
      BY <2>3, <2>4, <3>1, Zenon DEF Range
  <2>6. \A i, j \in DOMAIN slots' : slots'[i] = slots'[j] /\ slots'[i] # NoChannel => i = j
    BY <1>1, <1>2, <2>3, <2>4, Zenon
  <2> QED
    BY <2>1, <2>4, <2>5, <2>6, Zenon DEF SchedInv
<1>5. CASE FreeSlots = {}
  <2>1. /\ slots' = [i \in 1..Grown |-> CASE i <= Len(slots) -> slots[i]
                                          [] i = Len(slots) + 1 -> c
                                          [] OTHER -> NoChannel]
        /\ sched' \in {sched, Rebuilt}
    BY <1>5, Zenon DEF AllocSlot
  <2>2. Grown \in Nat /\ Grown >= Len(slots) + 1
    <3>1. Len(slots) \in Nat /\ (slots = << >> => Len(slots) = 0) /\ (slots # << >> => Len(slots) > 0)
      OBVIOUS
    <3> QED
      BY <3>1, SizesAssumption DEF Grown
  <2>3. slots' \in Seq(Channels \cup {NoChannel}) /\ DOMAIN slots' = 1..Grown
    <3>1. ASSUME NEW i \in 1..Grown PROVE slots'[i] \in Channels \cup {NoChannel}
      <4>1. CASE i <= Len(slots)
        <5>1. slots'[i] = slots[i] /\ i \in 1..Len(slots)
          BY <2>1, <2>2, <4>1
        <5> QED
          BY <5>1
      <4>2. CASE ~(i <= Len(slots)) /\ i = Len(slots) + 1
        BY <2>1, <4>2, Zenon
      <4>3. CASE ~(i <= Len(slots)) /\ i # Len(slots) + 1
        BY <2>1, <4>3, Zenon
      <4> QED
        BY <4>1, <4>2, <4>3, Zenon
    <3>2. slots' = [i \in 1..Grown |-> slots'[i]]
      BY <2>1
    <3> QED
      BY <2>2, <3>1, <3>2, SMTT(30)
  <2>4. /\ \A i \in 1..Len(slots) : slots'[i] = slots[i]
        /\ slots'[Len(slots) + 1] = c
        /\ \A i \in 1..Grown : i > Len(slots) + 1 => slots'[i] = NoChannel
    <3>1. \A i \in 1..Len(slots) : i \in 1..Grown /\ i <= Len(slots)
      BY <2>2
    <3>2. Len(slots) + 1 \in 1..Grown /\ ~(Len(slots) + 1 <= Len(slots))
      BY <2>2
    <3>3. \A i \in 1..Grown : i > Len(slots) + 1 => ~(i <= Len(slots)) /\ i # Len(slots) + 1
      BY <2>2
    <3>4. \A i \in 1..Len(slots) : slots'[i] = slots[i]
      BY <2>1, <3>1
    <3>5. slots'[Len(slots) + 1] = c
      BY <2>1, <3>2, Zenon
    <3>6. \A i \in 1..Grown : i > Len(slots) + 1 => slots'[i] = NoChannel
      BY <2>1, <3>3, Zenon
    <3> QED
      BY <3>4, <3>5, <3>6, Zenon
  <2>5. Len(slots) \in Nat /\ DOMAIN slots = 1..Len(slots)
    OBVIOUS
  <2>6. \A x \in Channels : x \in Range(slots') <=> x \in Range(slots) \/ x = c
    <3> SUFFICES ASSUME NEW x \in Channels
                 PROVE  x \in Range(slots') <=> x \in Range(slots) \/ x = c
      BY Zenon
    <3>1. ASSUME x \in Range(slots') PROVE x \in Range(slots) \/ x = c
      <4>1. PICK i \in 1..Grown : slots'[i] = x
        BY <2>3, <3>1, Zenon DEF Range
      <4>2. x # NoChannel
        BY SizesAssumption, Zenon
      <4>3. i \in 1..Len(slots) \/ i = Len(slots) + 1
        BY <2>4, <2>5, <4>1, <4>2
      <4> QED
        BY <2>4, <2>5, <4>1, <4>3, Zenon DEF Range
    <3>2. ASSUME x \in Range(slots) PROVE x \in Range(slots')
      <4>1. PICK i \in 1..Len(slots) : slots[i] = x
        BY <2>5, <3>2, Zenon DEF Range
      <4>2. i \in 1..Grown /\ slots'[i] = x
        BY <2>2, <2>4, <2>5, <4>1
      <4> QED
        BY <2>3, <4>2, Zenon DEF Range
    <3>3. c \in Range(slots')
      <4>1. Len(slots) + 1 \in 1..Grown
        BY <2>2, <2>5
      <4> QED
        BY <2>3, <2>4, <4>1, Zenon DEF Range
    <3> QED
      BY <3>1, <3>2, <3>3, Zenon
  <2>7. \A i, j \in DOMAIN slots' : slots'[i] = slots'[j] /\ slots'[i] # NoChannel => i = j
    <3> SUFFICES ASSUME NEW i \in 1..Grown, NEW j \in 1..Grown, slots'[i] = slots'[j],
                        slots'[i] # NoChannel
                 PROVE  i = j
      BY <2>3, Zenon
    <3>1. i \in 1..Len(slots) \/ i = Len(slots) + 1
      BY <2>4, <2>5
    <3>2. j \in 1..Len(slots) \/ j = Len(slots) + 1
      BY <2>4, <2>5
    <3>3. CASE i \in 1..Len(slots) /\ j \in 1..Len(slots)
      BY <1>1, <2>4, <2>5, <3>3, Zenon
    <3> QED
      BY <1>2, <2>4, <2>5, <3>1, <3>2, <3>3, Zenon
  <2>8. sched' \in Seq(Channels) /\ Range(sched') = Range(sched) /\ Sorted(sched', due)
    <3>1. /\ Rebuilt \in Seq(Channels) /\ Range(Rebuilt) = Range(sched) \cap Range(slots)
          /\ Sorted(Rebuilt, due)
      BY <1>1, RebuiltFacts, Zenon
    <3>2. Range(sched) \subseteq Range(slots) /\ Sorted(sched, due)
      BY Zenon DEF SchedInv
    <3> QED
      BY <2>1, <3>1, <3>2, Zenon
  <2> QED
    BY <2>3, <2>6, <2>7, <2>8, Zenon
<1> QED
  BY <1>4, <1>5, Zenon

-----------------------------------------------------------------------------
(* Init and the steps that move the worker only. *)

\* A new RtpProc: no command, no channel.
LEMMA InitIInv == Init => IInv
<1> SUFFICES ASSUME Init PROVE IInv
  BY Zenon
<1>1. Range(<< >>) = {} /\ Len(<< >>) = 0 /\ DOMAIN << >> = {}
  BY DEF Range
<1>2. /\ queue = << >> /\ batch = << >> /\ slots = << >> /\ sched = << >>
      /\ call = [t \in Threads |-> Idle] /\ wpc = "detach" /\ cb = NoCallback
      /\ chan = [c \in Channels |-> [held |-> FALSE, made |-> FALSE, closed |-> FALSE]]
      /\ outcome = [c \in Channels |-> "none"] /\ due = [c \in Channels |-> 0]
  BY Zenon DEF Init
<1>3. \A t \in Threads : call[t] = Idle
  BY <1>2, Zenon
<1>4. \A c \in Channels : ~chan[c].held /\ ~chan[c].made /\ ~chan[c].closed
  BY <1>2, Zenon
<1>5. Types
  <2>1. Idle \in Calls
    BY Zenon DEF Idle, Calls
  <2>2. chan \in [Channels -> ChannelStates]
    BY <1>2, Zenon DEF ChannelStates
  <2>3. NoCallback \in [ch : Channels \cup {NoChannel}, first : BOOLEAN, now : Int, deadline : Int]
    BY DEF NoCallback
  <2>4. due \in [Channels -> Int] /\ \A c \in Channels : due[c] >= -MaxLate
    BY <1>2, SizesAssumption
  <2>5. /\ queue \in Seq(Commands) /\ batch \in Seq(Commands) /\ sched \in Seq(Channels)
        /\ slots \in Seq(Channels \cup {NoChannel})
    BY <1>2
  <2>6. call \in [Threads -> Calls]
    BY <1>2, <2>1, Zenon
  <2>7. waiter \in [done : BOOLEAN, status : {"ok", "ENOMEM"}]
    BY Zenon DEF Init, NotReset
  <2>8. outcome \in [Channels -> {"none", "clean", "own", "other", "local"}]
    BY <1>2, Zenon
  <2> QED
    BY <1>2, <2>2, <2>3, <2>4, <2>5, <2>6, <2>7, <2>8, Zenon DEF Init, Types, WorkerPcs
<1>6. CallInv
  BY <1>2, <1>3, Zenon DEF CallInv, Waits, Idle
<1>7. WaitInv
  BY <1>1, <1>2, <1>3, Zenon DEF WaitInv, Waits, Idle, Pending
<1>8. StopInv
  BY <1>1, Zenon DEF Init, StopInv, Pending
<1>9. WorkInv
  BY Zenon DEF Init, WorkInv
<1>10. ExcInv
  BY Zenon DEF Init, ExcInv
<1>11. LifeInv
  BY <1>1, <1>2, <1>3, <1>4, Zenon DEF LifeInv, Settled, Waits, Idle, Pending
<1>12. AbsentInv
  <2>1. \A c \in Channels : Absent(c)
    BY <1>1, SizesAssumption, Zenon DEF Init, Absent, NoCallback
  <2> QED
    BY <1>1, <1>2, <1>3, <2>1, Zenon DEF AbsentInv, Waits, Idle
<1>13. SchedInv
  BY <1>1, <1>2, SizesAssumption DEF SchedInv, Sorted, NoCallback, NoneForgotten, Active
<1>14. ExceptionIsOwn
  BY <1>2, Zenon DEF ExceptionIsOwn
<1> QED
  BY <1>5, <1>6, <1>7, <1>8, <1>9, <1>10, <1>11, <1>12, <1>13, <1>14, Zenon DEF IInv

\* The state that CallInv, ExcInv, LifeInv, SchedInv and ExceptionIsOwn look at,
\* apart from the pending commands and the worker's place.
callState == <<call, busy, close_exc, chan, outcome>>

\* Steps of the worker that leave the threads and their channels alone keep what
\* is said of these.
LEMMA CallsKept ==
  ASSUME IInv, UNCHANGED callState, wpc' = "selfwait" => wpc = "selfwait"
  PROVE  CallInv' /\ ExcInv' /\ ExceptionIsOwn'
<1>1. call' = call /\ busy' = busy /\ close_exc' = close_exc /\ outcome' = outcome
  BY Zenon DEF callState
<1>2. CallInv'
  BY <1>1, Zenon DEF IInv, CallInv, Waits
<1>3. ExcInv'
  BY <1>1, Zenon DEF IInv, ExcInv, Waits
<1>4. ExceptionIsOwn'
  BY <1>1, Zenon DEF IInv, ExceptionIsOwn
<1> QED
  BY <1>2, <1>3, <1>4, Zenon

\* The worker goes from one point of its loop to the next: BatchDone, NoneDue, Wait.
LEMMA LoopKeeps ==
  ASSUME IInv, BatchDone \/ NoneDue \/ Wait
  PROVE  IInv'
<1>1. UNCHANGED <<cmdVars, close_exc, tabVars, batch, status, taken, cb, stop_seen, call,
                  chan, history>>
  BY Zenon DEF BatchDone, NoneDue, Wait
<1>2. UNCHANGED callState /\ UNCHANGED <<queue, batch, slots, sched, due, cb_exc, cb, taken>>
  BY <1>1, Zenon DEF callState, cmdVars, tabVars, history
<1>3. /\ wpc' \in {"detach", "wait", "due", "exit"} /\ wpc \in {"batch", "due", "wait"}
      /\ batch = << >> /\ (wpc' = "exit" => stop_seen)
  BY Zenon DEF BatchDone, NoneDue, Wait, IInv, WorkInv
<1>4. Types'
  BY <1>1, <1>3 DEF IInv, Types, WorkerPcs, cmdVars, tabVars, history
<1>5. CallInv' /\ ExcInv' /\ ExceptionIsOwn'
  BY <1>2, <1>3, CallsKept, Zenon
<1>6. WaitInv'
  BY <1>1, <1>3, ZenonT(60) DEF IInv, WaitInv, Waits, Awaited, Pending, cmdVars
<1>7. StopInv'
  BY <1>1, <1>3, Zenon DEF IInv, StopInv, Pending, cmdVars
<1>8. WorkInv'
  BY <1>1, <1>3, Zenon DEF IInv, WorkInv, tabVars
<1>9. LifeInv'
  BY <1>1, Zenon DEF IInv, LifeInv, Settled, Waits, Pending, cmdVars, history
<1>10. AbsentInv'
  <2>1. DOMAIN batch = {}
    BY <1>3
  <2> QED
    BY <1>1, <1>3, <2>1, Zenon DEF IInv, AbsentInv, Absent, Waits, cmdVars, tabVars, history
<1>11. SchedInv'
  BY <1>1, Zenon DEF IInv, SchedInv, Sorted, NoneForgotten, Active, tabVars, history
<1> QED
  BY <1>4, <1>5, <1>6, <1>7, <1>8, <1>9, <1>10, <1>11, Zenon DEF IInv

\* detach_commands: the commands queued become the batch.
LEMMA DetachKeeps ==
  ASSUME IInv, Detach
  PROVE  IInv'
<1>1. /\ wpc = "detach" /\ batch' = queue /\ queue' = << >> /\ wpc' = "batch"
      /\ UNCHANGED <<accepting, shutdown_queued, worker_running, busy, waiter, close_exc,
                     tabVars, status, taken, cb, stop_seen, call, chan, history>>
  BY Zenon DEF Detach
<1>2. batch = << >> /\ DOMAIN << >> = {} /\ Range(<< >>) = {}
  BY <1>1 DEF IInv, WorkInv, Range
<1>3. Pending' = Pending
  BY <1>1, <1>2, Zenon DEF Pending
<1>4. Types'
  BY <1>1 DEF IInv, Types, WorkerPcs, tabVars, history
<1>5. CallInv' /\ ExcInv' /\ ExceptionIsOwn'
  BY <1>1, CallsKept, Zenon DEF callState, history
<1>6. WaitInv'
  BY <1>1, <1>2, <1>3, Zenon DEF IInv, WaitInv, Waits, Awaited
<1>7. StopInv'
  BY <1>1, <1>2, <1>3, Zenon DEF IInv, StopInv
<1>8. WorkInv'
  BY <1>1, Zenon DEF IInv, WorkInv, tabVars
<1>9. LifeInv'
  BY <1>1, <1>3, Zenon DEF IInv, LifeInv, Settled, Waits, history
<1>10. AbsentInv'
  BY <1>1, <1>2 DEF IInv, AbsentInv, Absent, Waits, tabVars, history
<1>11. SchedInv'
  BY <1>1 DEF IInv, SchedInv, Sorted, NoneForgotten, Active, tabVars, history
<1> QED
  BY <1>4, <1>5, <1>6, <1>7, <1>8, <1>9, <1>10, <1>11, Zenon DEF IInv

\* SHUTDOWN: it is the last command, and no other will come.
LEMMA RunShutdownKeeps ==
  ASSUME IInv, RunShutdown
  PROVE  IInv'
<1>1. /\ wpc = "batch" /\ batch # << >> /\ Head(batch).type = "shutdown"
      /\ stop_seen' = TRUE /\ wpc' = "complete"
      /\ UNCHANGED <<cmdVars, close_exc, tabVars, batch, status, taken, cb, call, chan, history>>
  BY Zenon DEF RunShutdown, Executing
<1>2. 1 \in DOMAIN batch /\ batch[1] = Head(batch)
  BY <1>1 DEF IInv, Types
<1>3. Len(batch) = 1 /\ queue = << >> /\ batch[1] \in Pending
  BY <1>1, <1>2, Zenon DEF IInv, StopInv, Pending, Range
<1>4. Types'
  BY <1>1 DEF IInv, Types, WorkerPcs, cmdVars, tabVars, history
<1>5. CallInv' /\ ExcInv' /\ ExceptionIsOwn'
  BY <1>1, CallsKept, Zenon DEF callState, cmdVars, history
<1>6. WaitInv'
  BY <1>1, Zenon DEF IInv, WaitInv, Waits, Awaited, Pending, cmdVars
<1>7. StopInv'
  BY <1>1, <1>2, <1>3, Zenon DEF IInv, StopInv, Pending, cmdVars
<1>8. WorkInv'
  BY <1>1, Zenon DEF IInv, WorkInv, tabVars
<1>9. LifeInv'
  BY <1>1, Zenon DEF IInv, LifeInv, Settled, Waits, Pending, cmdVars, history
<1>10. AbsentInv'
  BY <1>1, Zenon DEF IInv, AbsentInv, Absent, Waits, cmdVars, tabVars, history
<1>11. SchedInv'
  BY <1>1 DEF IInv, SchedInv, Sorted, NoneForgotten, Active, tabVars, history
<1> QED
  BY <1>4, <1>5, <1>6, <1>7, <1>8, <1>9, <1>10, <1>11, Zenon DEF IInv

-----------------------------------------------------------------------------
(* Steps of the worker that execute a command. *)

\* A command the worker executes for somebody is the one a thread waits for.
LEMMA HeadAwaited ==
  ASSUME IInv, batch # << >>, wpc # "selfwait"
  PROVE  /\ 1 \in DOMAIN batch /\ batch[1] = Head(batch) /\ Head(batch) \in Commands
         /\ Head(batch) \in Pending
         /\ Head(batch).waiter => \E t \in Threads : Waits(t) /\ Head(batch) = Awaited(t)
<1>1. 1 \in DOMAIN batch /\ batch[1] = Head(batch) /\ Head(batch) \in Commands
  BY DEF IInv, Types
<1>2. Head(batch) \in Pending
  BY <1>1, Zenon DEF Pending, Range
<1> QED
  BY <1>1, <1>2, Zenon DEF IInv, WaitInv

\* A command that creates or closes has a channel.
LEMMA CommandChannel ==
  ASSUME NEW m \in Commands, m.type # "shutdown"
  PROVE  m.ch \in Channels /\ m.type \in {"create", "close"} /\ m.waiter \in BOOLEAN
BY DEF Commands, Cmd

\* What removing the first command of the batch leaves.
LEMMA TailFacts ==
  ASSUME NEW s \in Seq(Commands), s # << >>
  PROVE  /\ Tail(s) \in Seq(Commands) /\ Len(s) \in Nat /\ Len(Tail(s)) = Len(s) - 1
         /\ \A i \in DOMAIN Tail(s) : i + 1 \in DOMAIN s /\ i + 1 > 1 /\ Tail(s)[i] = s[i + 1]
         /\ \A i \in DOMAIN s : i # 1 => s[i] \in Range(Tail(s))
         /\ Range(Tail(s)) \subseteq Range(s)
<1>1. /\ Tail(s) \in Seq(Commands) /\ Len(s) \in Nat /\ Len(Tail(s)) = Len(s) - 1
      /\ \A i \in DOMAIN Tail(s) : i + 1 \in DOMAIN s /\ i + 1 > 1 /\ Tail(s)[i] = s[i + 1]
  OBVIOUS
<1>2. ASSUME NEW i \in DOMAIN s, i # 1 PROVE s[i] \in Range(Tail(s))
  <2>1. i - 1 \in DOMAIN Tail(s) /\ Tail(s)[i - 1] = s[i]
    BY <1>2
  <2> QED
    BY <2>1, Zenon DEF Range
<1>3. Range(Tail(s)) \subseteq Range(s)
  BY <1>1, Zenon DEF Range
<1> QED
  BY <1>1, <1>2, <1>3, Zenon

\* The command is done, and its waiter, if it has one, is woken.
LEMMA CompleteKeeps ==
  ASSUME IInv, Complete
  PROVE  IInv'
<1> DEFINE h == Head(batch)
<1>1. /\ wpc = "complete" /\ wpc' = "batch" /\ batch' = Tail(batch) /\ status' = "ok"
      /\ waiter' = IF h.waiter THEN [done |-> TRUE, status |-> status] ELSE waiter
      /\ UNCHANGED <<accepting, shutdown_queued, worker_running, busy, queue, close_exc,
                     tabVars, taken, cb, stop_seen, call, chan, history>>
  BY Zenon DEF Complete
<1>2. batch # << >>
  BY <1>1, Zenon DEF IInv, WorkInv
<1>3. /\ 1 \in DOMAIN batch /\ batch[1] = h /\ h \in Commands /\ h \in Pending
      /\ h.waiter => \E t \in Threads : Waits(t) /\ h = Awaited(t)
  BY <1>1, <1>2, HeadAwaited, Zenon
<1>4. /\ batch' \in Seq(Commands) /\ Len(batch) \in Nat /\ Len(batch') = Len(batch) - 1
      /\ \A i \in DOMAIN batch' : i + 1 \in DOMAIN batch /\ i + 1 > 1 /\ batch'[i] = batch[i + 1]
      /\ \A i \in DOMAIN batch : i # 1 => batch[i] \in Range(batch')
      /\ Range(batch') \subseteq Range(batch)
  BY <1>1, <1>2, TailFacts DEF IInv, Types
<1>5. DOMAIN batch = 1..Len(batch) /\ DOMAIN batch' = 1..Len(batch') /\ DOMAIN queue \subseteq Nat
  BY <1>4 DEF IInv, Types
<1> HIDE DEF h
<1>6. Pending' \subseteq Pending
  BY <1>1, <1>4, Zenon DEF Pending
<1>7. Types'
  <2>1. waiter' \in [done : BOOLEAN, status : {"ok", "ENOMEM"}]
    BY <1>1, Zenon DEF IInv, Types
  <2> QED
    BY <1>1, <1>4, <2>1, ZenonT(60) DEF IInv, Types, WorkerPcs, tabVars, history
<1>8. CallInv' /\ ExcInv' /\ ExceptionIsOwn'
  BY <1>1, CallsKept, Zenon DEF callState, history
<1>9. WaitInv'
  <2>1. \A t \in Threads : Waits(t)' = Waits(t) /\ Awaited(t)' = Awaited(t)
    BY <1>1, Zenon DEF Waits, Awaited
  <2>2. \A i \in DOMAIN queue : ~(queue[i].waiter /\ h.waiter)
    BY <1>3, Zenon DEF IInv, WaitInv
  <2>3. \A i \in DOMAIN batch' : ~(batch'[i].waiter /\ h.waiter)
    <3> SUFFICES ASSUME NEW i \in DOMAIN batch', batch'[i].waiter, h.waiter PROVE FALSE
      BY Zenon
    <3>1. i + 1 \in DOMAIN batch /\ batch[i + 1].waiter /\ i + 1 # 1
      BY <1>4, <1>5
    <3> QED
      BY <1>3, <3>1, Zenon DEF IInv, WaitInv
  <2>4. ASSUME NEW t \in Threads, Waits(t) PROVE waiter'.done \/ Awaited(t) \in Pending'
    <3>1. CASE h.waiter
      BY <1>1, <3>1, Zenon
    <3>2. CASE ~h.waiter
      <4>1. waiter' = waiter /\ Awaited(t).waiter
        BY <1>1, <3>2, Zenon DEF Awaited, Cmd
      <4>2. ASSUME Awaited(t) \in Range(batch) PROVE Awaited(t) \in Range(batch')
        <5>1. PICK i \in DOMAIN batch : batch[i] = Awaited(t)
          BY <4>2, Zenon DEF Range
        <5>2. i # 1
          BY <1>3, <3>2, <4>1, <5>1, Zenon
        <5> QED
          BY <1>4, <5>1, <5>2, Zenon
      <4> QED
        BY <1>1, <2>4, <4>1, <4>2, Zenon DEF IInv, WaitInv, Pending
    <3> QED
      BY <3>1, <3>2, Zenon
  <2>5. ASSUME NEW m \in Pending', m.waiter
        PROVE  ~waiter'.done /\ \E t \in Threads : Waits(t) /\ m = Awaited(t)
    <3>1. ~h.waiter
      BY <1>1, <2>2, <2>3, <2>5, Zenon DEF Pending, Range
    <3> QED
      BY <1>1, <1>6, <2>5, <3>1, Zenon DEF IInv, WaitInv
  <2>6. \A i, j \in DOMAIN queue' : queue'[i].waiter /\ queue'[j].waiter => i = j
    BY <1>1, Zenon DEF IInv, WaitInv
  <2>7. ASSUME NEW i \in DOMAIN batch', NEW j \in DOMAIN batch', batch'[i].waiter, batch'[j].waiter
        PROVE  i = j
    <3>1. i + 1 = j + 1
      BY <1>4, <2>7, Zenon DEF IInv, WaitInv
    <3> QED
      BY <1>5, <3>1
  <2>8. \A i \in DOMAIN queue', j \in DOMAIN batch' : ~(queue'[i].waiter /\ batch'[j].waiter)
    BY <1>1, <1>4 DEF IInv, WaitInv
  <2> QED
    BY <2>1, <2>4, <2>5, <2>6, <2>7, <2>8, Zenon DEF WaitInv
<1>10. StopInv'
  <2>1. ASSUME NEW i \in DOMAIN batch', batch'[i].type = "shutdown"
        PROVE  i = Len(batch') /\ queue' = << >>
    <3>1. i + 1 = Len(batch) /\ queue = << >>
      BY <1>4, <2>1, Zenon DEF IInv, StopInv
    <3> QED
      BY <1>1, <1>4, <1>5, <3>1
  <2>2. stop_seen => Len(batch) = 1 /\ queue = << >>
    BY <1>2, Zenon DEF IInv, StopInv
  <2>3. Len(batch) = 1 => batch' = << >>
    BY <1>4
  <2>4. \A i \in DOMAIN queue' : queue'[i].type = "shutdown" => i = Len(queue')
    BY <1>1, Zenon DEF IInv, StopInv
  <2>5. accepting' => ~stop_seen' /\ \A m \in Pending' : m.type # "shutdown"
    BY <1>1, <1>6, Zenon DEF IInv, StopInv
  <2> QED
    BY <1>1, <2>1, <2>2, <2>3, <2>4, <2>5, Zenon DEF IInv, StopInv
<1>11. WorkInv'
  BY <1>1, Zenon DEF IInv, WorkInv, tabVars
<1>12. LifeInv'
  BY <1>1, <1>6, Zenon DEF IInv, LifeInv, Settled, Waits, history
<1>13. AbsentInv'
  <2>1. \A c : Absent(c)' <=> Absent(c)
    BY <1>1, Zenon DEF Absent, tabVars
  <2>2. \A i \in DOMAIN batch' : batch'[i].type = "create" => Absent(batch'[i].ch)
    BY <1>4, Zenon DEF IInv, AbsentInv
  <2>3. ASSUME NEW t \in Threads, Waits(t), call[t].op = "close", waiter'.done
        PROVE  Absent(call[t].ch)
    <3>1. CASE h.waiter
      <4>1. h.type = "close" /\ h.ch = call[t].ch
        BY <1>3, <2>3, <3>1 DEF IInv, CallInv, Awaited, Cmd
      <4> QED
        BY <1>1, <4>1, Zenon DEF IInv, AbsentInv, h
    <3>2. CASE ~h.waiter
      BY <1>1, <2>3, <3>2, Zenon DEF IInv, AbsentInv
    <3> QED
      BY <3>1, <3>2, Zenon
  <2> QED
    BY <1>1, <2>1, <2>2, <2>3, Zenon DEF IInv, AbsentInv, Waits, history
<1>14. SchedInv'
  BY <1>1, Zenon DEF IInv, SchedInv, Sorted, NoneForgotten, Active, tabVars, history
<1> QED
  BY <1>7, <1>8, <1>9, <1>10, <1>11, <1>12, <1>13, <1>14, Zenon DEF IInv

\* The exception taken is handed to the close() that waits for this command: it
\* is the exception of that call's channel.
LEMMA StealExcKeeps ==
  ASSUME IInv, StealExc
  PROVE  IInv'
<1>1. /\ wpc = "steal" /\ wpc' = "complete" /\ taken' = {}
      /\ close_exc' = IF Head(batch).waiter /\ taken # {} THEN taken ELSE close_exc
      /\ UNCHANGED <<cmdVars, tabVars, batch, status, cb, stop_seen, call, chan, history>>
  BY Zenon DEF StealExc
<1>2. batch # << >> /\ Head(batch).type = "close" /\ taken \subseteq {Head(batch).ch}
  BY <1>1, Zenon DEF IInv, WorkInv
<1>3. Head(batch).waiter => \E t \in Threads : Waits(t) /\ Head(batch) = Awaited(t)
  BY <1>1, <1>2, HeadAwaited, Zenon
<1>4. Types'
  BY <1>1 DEF IInv, Types, WorkerPcs, cmdVars, tabVars, history
<1>5. CallInv'
  BY <1>1, Zenon DEF IInv, CallInv, Waits, cmdVars
<1>6. ExcInv'
  <2>1. CASE Head(batch).waiter /\ taken # {}
    <3>1. PICK t \in Threads : Waits(t) /\ Head(batch) = Awaited(t)
      BY <1>3, <2>1, Zenon
    <3>2. call[t].op = "close" /\ taken = {call[t].ch}
      BY <1>2, <2>1, <3>1 DEF Awaited, Cmd
    <3>3. Waits(t)' /\ call'[t].op = "close" /\ close_exc' = {call'[t].ch}
      BY <1>1, <2>1, <3>1, <3>2, Zenon DEF Waits
    <3> QED
      BY <3>3, Zenon DEF ExcInv
  <2>2. CASE ~(Head(batch).waiter /\ taken # {})
    BY <1>1, <2>2, Zenon DEF IInv, ExcInv, Waits
  <2> QED
    BY <2>1, <2>2, Zenon
<1>7. ExceptionIsOwn'
  BY <1>1, Zenon DEF IInv, ExceptionIsOwn, history
<1>8. WaitInv'
  BY <1>1, Zenon DEF IInv, WaitInv, Waits, Awaited, Pending, cmdVars
<1>9. StopInv'
  BY <1>1, <1>2, Zenon DEF IInv, StopInv, Pending, cmdVars
<1>10. WorkInv'
  BY <1>1, Zenon DEF IInv, WorkInv, tabVars
<1>11. LifeInv'
  BY <1>1, Zenon DEF IInv, LifeInv, Settled, Waits, Pending, cmdVars, history
<1>12. AbsentInv'
  BY <1>1, Zenon DEF IInv, AbsentInv, Absent, Waits, cmdVars, tabVars, history
<1>13. SchedInv'
  BY <1>1, Zenon DEF IInv, SchedInv, Sorted, NoneForgotten, Active, tabVars, history
<1> QED
  BY <1>4, <1>5, <1>6, <1>7, <1>8, <1>9, <1>10, <1>11, <1>12, <1>13, Zenon DEF IInv

\* REMOVE: the worker forgets the channel.
LEMMA RunRemoveKeeps ==
  ASSUME IInv, RunRemove
  PROVE  IInv'
<1>2. PICK c \in Channels : c = Head(batch).ch
  <2>1. wpc = "batch" /\ batch # << >> /\ Head(batch).type = "close"
    BY Zenon DEF RunRemove, Executing
  <2>2. Head(batch) \in Commands
    BY <2>1, HeadAwaited, Zenon
  <2> QED
    BY <2>1, <2>2, CommandChannel, Zenon
<1>1. /\ wpc = "batch" /\ batch # << >> /\ Head(batch).type = "close" /\ wpc' = "steal"
      /\ taken' = cb_exc \cap {c} /\ cb_exc' = cb_exc \ {c}
      /\ slots' = [i \in DOMAIN slots |-> IF slots[i] = c THEN NoChannel ELSE slots[i]]
      /\ sched' = Unscheduled(sched, c) /\ due' = [due EXCEPT ![c] = 0]
      /\ UNCHANGED <<cmdVars, close_exc, batch, status, cb, stop_seen, call, chan, history>>
  BY <1>2, Zenon DEF RunRemove, Executing
<1>3. cb = NoCallback /\ cb.ch = NoChannel /\ c # NoChannel
  BY <1>1, SizesAssumption DEF IInv, WorkInv, NoCallback
<1>4. /\ slots \in Seq(Channels \cup {NoChannel}) /\ sched \in Seq(Channels)
      /\ due \in [Channels -> Int] /\ Sorted(sched, due)
  BY Zenon DEF IInv, Types, SchedInv
<1>5. /\ sched' \in Seq(Channels) /\ Range(sched') = Range(sched) \ {c} /\ Sorted(sched', due)
  BY <1>1, <1>4, UnscheduledFacts, Zenon
<1>6. /\ due' \in [Channels -> Int] /\ due'[c] = 0
      /\ \A x \in Channels : x # c => due'[x] = due[x]
  BY <1>1, <1>4
<1>7. Sorted(sched', due')
  <2>1. \A x \in Range(sched') : due'[x] = due[x]
    <3>1. Range(sched') \subseteq Channels
      BY <1>5 DEF Range
    <3> QED
      BY <1>5, <1>6, <3>1, Zenon
  <2> QED
    BY <1>5, <2>1, SortedAgree, Zenon
<1>8. /\ slots' \in Seq(Channels \cup {NoChannel}) /\ DOMAIN slots' = DOMAIN slots
      /\ \A i \in DOMAIN slots : slots'[i] = IF slots[i] = c THEN NoChannel ELSE slots[i]
  <2>1. /\ slots' = [i \in DOMAIN slots |-> IF slots[i] = c THEN NoChannel ELSE slots[i]]
        /\ slots \in Seq(Channels \cup {NoChannel})
    BY <1>1, <1>4, Zenon
  <2> QED
    BY ONLY <2>1
<1>9. \A x \in Channels : x \in Range(slots') <=> x \in Range(slots) /\ x # c
  <2>1. \A x \in Channels : x # NoChannel
    BY SizesAssumption, Zenon
  <2> QED
    BY <1>8, <2>1, Zenon DEF Range
<1>10. \A x \in Channels : Absent(x) => Absent(x)'
  BY <1>1, <1>5, <1>9, Zenon DEF Absent
<1>11. Absent(c)'
  BY <1>1, <1>3, <1>5, <1>9, Zenon DEF Absent
<1>12. Types'
  <2>1. \A x \in Channels : due'[x] >= -MaxLate
    <3>1. 0 >= -MaxLate
      BY SizesAssumption
    <3> QED
      BY <1>6, <3>1, Zenon DEF IInv, Types
  <2> QED
    BY <1>1, <1>5, <1>6, <1>8, <2>1, ZenonT(60) DEF IInv, Types, WorkerPcs, cmdVars, history
<1>13. CallInv' /\ ExcInv' /\ ExceptionIsOwn'
  BY <1>1, CallsKept, Zenon DEF callState, cmdVars, history
<1>14. WaitInv'
  BY <1>1, Zenon DEF IInv, WaitInv, Waits, Awaited, Pending, cmdVars
<1>15. StopInv'
  BY <1>1, Zenon DEF IInv, StopInv, Pending, cmdVars
<1>16. WorkInv'
  BY <1>1, <1>2, Zenon DEF IInv, WorkInv
<1>17. LifeInv'
  BY <1>1, Zenon DEF IInv, LifeInv, Settled, Waits, Pending, cmdVars, history
<1>18. AbsentInv'
  <2>1. \A m \in Pending : m.type = "create" => m.ch \in Channels
    <3>1. Pending \subseteq Commands
      BY DEF IInv, Types, Pending, Range
    <3> QED
      BY <3>1, CommandChannel, Zenon
  <2>2. \A i \in DOMAIN queue : queue[i] \in Pending
    BY Zenon DEF Pending, Range
  <2>3. \A i \in DOMAIN batch : batch[i] \in Pending
    BY Zenon DEF Pending, Range
  <2>4. \A x \in Channels : ~chan'[x].made => Absent(x)'
    BY <1>1, <1>10, Zenon DEF IInv, AbsentInv
  <2>5. (\A i \in DOMAIN queue : queue[i].type = "create" => Absent(queue[i].ch))'
    BY <1>1, <1>10, <2>1, <2>2, Zenon DEF IInv, AbsentInv, cmdVars
  <2>6. (\A i \in DOMAIN batch : batch[i].type = "create" => Absent(batch[i].ch))'
    BY <1>1, <1>10, <2>1, <2>3, Zenon DEF IInv, AbsentInv
  <2>7. Absent(Head(batch).ch)'
    BY <1>1, <1>2, <1>11, Zenon
  <2>8. (\A t \in Threads : Waits(t) /\ call[t].op = "close" /\ waiter.done => Absent(call[t].ch))'
    BY <1>1, <1>10, Zenon DEF IInv, AbsentInv, CallInv, Waits, cmdVars
  <2>9. \A x \in Channels : outcome'[x] \in {"clean", "own", "other"} => Absent(x)'
    BY <1>1, <1>10, Zenon DEF IInv, AbsentInv, history
  <2> QED
    BY <2>4, <2>5, <2>6, <2>7, <2>8, <2>9, Zenon DEF AbsentInv
<1>9a. SchedInv'
  <2>1. Range(sched') \subseteq Range(slots')
    <3>1. Range(sched') \subseteq Channels
      BY <1>5 DEF Range
    <3> QED
      BY <1>5, <1>9, <3>1, Zenon DEF IInv, SchedInv
  <2>2. cb'.ch \notin Range(sched')
    BY <1>1, <1>5, Zenon DEF IInv, SchedInv
  <2>3. \A i, j \in DOMAIN slots' : slots'[i] = slots'[j] /\ slots'[i] # NoChannel => i = j
    BY <1>8, Zenon DEF IInv, SchedInv
  <2>4. NoneForgotten'
    <3>1. Active' \subseteq Active \ {c}
      <4>1. Active' \subseteq Channels
        BY <1>8 DEF Active, Range
      <4> QED
        BY <1>9, <4>1, SizesAssumption, Zenon DEF Active
    <3> QED
      BY <1>1, <1>5, <3>1, Zenon DEF IInv, SchedInv, NoneForgotten, history
  <2> QED
    BY <1>1, <1>3, <1>7, <2>1, <2>2, <2>3, <2>4, Zenon DEF SchedInv
<1> QED
  BY <1>12, <1>13, <1>14, <1>15, <1>16, <1>17, <1>18, <1>9a, Zenon DEF IInv

\* The channel of an ADD about to be executed is new, and no other ADD is pending.
LEMMA HeadCreates ==
  ASSUME IInv, Executing("create")
  PROVE  LET c == Head(batch).ch
         IN  /\ c \in Channels /\ Absent(c) /\ chan[c].made /\ ~Settled(c)
             /\ \A i \in DOMAIN queue : queue[i].type # "create"
             /\ \A i \in DOMAIN batch : i > 1 => batch[i].type # "create"
<1> DEFINE h == Head(batch)
<1>1. wpc = "batch" /\ batch # << >> /\ h.type = "create"
  BY Zenon DEF Executing
<1>2. 1 \in DOMAIN batch /\ batch[1] = h /\ h \in Commands /\ h \in Pending
  BY <1>1, HeadAwaited, Zenon
<1> HIDE DEF h
<1>3. h.ch \in Channels
  BY <1>1, <1>2, CommandChannel, Zenon
<1>4. h.waiter /\ chan[h.ch].made /\ ~Settled(h.ch)
  BY <1>1, <1>2, Zenon DEF IInv, LifeInv
<1>5. Absent(h.ch)
  BY <1>1, <1>2, Zenon DEF IInv, AbsentInv
<1>6. \A i \in DOMAIN queue : queue[i].type # "create"
  <2>1. \A i \in DOMAIN queue : queue[i] \in Pending
    BY Zenon DEF Pending, Range
  <2> QED
    BY <1>2, <1>4, <2>1, Zenon DEF IInv, LifeInv, WaitInv
<1>7. ASSUME NEW i \in DOMAIN batch, i > 1, batch[i].type = "create" PROVE FALSE
  <2>1. batch[i] \in Pending
    BY Zenon DEF Pending, Range
  <2>2. batch[i].waiter
    BY <1>7, <2>1, Zenon DEF IInv, LifeInv
  <2>3. i = 1
    BY <1>2, <1>4, <2>2, Zenon DEF IInv, WaitInv
  <2> QED
    BY <1>7, <2>3
<1> QED
  BY <1>3, <1>4, <1>5, <1>6, <1>7, Zenon DEF h

\* ADD: the channel gets a slot and its callback is run, or there is no memory.
LEMMA RunAddKeeps ==
  ASSUME Counting, IInv, RunAdd
  PROVE  IInv'
<1> DEFINE c == Head(batch).ch
<1>1. /\ wpc = "batch" /\ batch # << >> /\ Head(batch).type = "create"
      /\ UNCHANGED <<cmdVars, close_exc, due, cb_exc, batch, taken, stop_seen, call, chan,
                     failed, outcome>>
  BY Zenon DEF RunAdd, Executing
<1>2. /\ c \in Channels /\ Absent(c) /\ chan[c].made /\ ~Settled(c)
      /\ \A i \in DOMAIN queue : queue[i].type # "create"
      /\ \A i \in DOMAIN batch : i > 1 => batch[i].type # "create"
  BY HeadCreates, Zenon DEF RunAdd
<1>3. \/ /\ AllocSlot(c) /\ wpc' = "callback" /\ status' = status /\ ended' = ended
         /\ cb' = [ch |-> c, first |-> TRUE, now |-> 0, deadline |-> 0]
      \/ /\ AllocSlot(c) /\ wpc' = "complete" /\ status' = status /\ ended' = ended \cup {c}
         /\ cb' = cb
      \/ status' = "ENOMEM" /\ wpc' = "complete" /\ UNCHANGED <<slots, sched, cb, ended>>
  <2> DEFINE run == [ch |-> c, first |-> TRUE, now |-> 0, deadline |-> 0]
  <2>1. run.ch = c /\ run.first
    OBVIOUS
  <2>2. \/ AllocSlot(c) /\ Invoke(run) /\ status' = status
        \/ status' = "ENOMEM" /\ wpc' = "complete" /\ UNCHANGED <<slots, sched, cb, ended>>
    BY Zenon DEF RunAdd
  <2> HIDE DEF c, run
  <2> QED
    BY <2>1, <2>2, Zenon DEF Invoke, run
<1>4. cb = NoCallback /\ taken = {}
  BY <1>1, Zenon DEF IInv, WorkInv
<1>5. c \notin Range(slots) /\ c \notin Range(sched) /\ c # NoChannel
  BY <1>2, SizesAssumption, Zenon DEF Absent
<1> HIDE DEF c
<1>6. /\ slots' \in Seq(Channels \cup {NoChannel}) /\ sched' \in Seq(Channels)
      /\ \A x \in Channels : x # c => (x \in Range(slots') <=> x \in Range(slots))
      /\ \A i, j \in DOMAIN slots' : slots'[i] = slots'[j] /\ slots'[i] # NoChannel => i = j
      /\ Range(sched') = Range(sched) /\ Sorted(sched', due)
      /\ wpc' = "callback" => c \in Range(slots')
      /\ c \in Range(slots') => wpc' = "callback" \/ c \in ended'
  <2>1. /\ slots \in Seq(Channels \cup {NoChannel}) /\ sched \in Seq(Channels)
        /\ due \in [Channels -> Int] /\ SchedInv
    BY Zenon DEF IInv, Types
  <2>2. CASE AllocSlot(c) /\ (wpc' = "callback" \/ c \in ended')
    BY <1>2, <1>5, <2>1, <2>2, AllocFacts, Zenon
  <2>3. CASE wpc' = "complete" /\ UNCHANGED <<slots, sched, cb>>
    BY <1>5, <2>1, <2>3, Zenon DEF SchedInv
  <2> QED
    BY <1>3, <2>2, <2>3, Zenon
<1>7. \A x \in Channels : x # c /\ Absent(x) => Absent(x)'
  BY <1>1, <1>3, <1>6 DEF Absent
<1>8. Types'
  <2>1. cb' \in [ch : Channels \cup {NoChannel}, first : BOOLEAN, now : Int, deadline : Int]
    <3>1. CASE cb' = [ch |-> c, first |-> TRUE, now |-> 0, deadline |-> 0]
      BY <1>2, <3>1
    <3>2. CASE cb' = cb
      BY <3>2, Zenon DEF IInv, Types
    <3> QED
      BY <1>3, <3>1, <3>2, Zenon
  <2>2. status' \in {"ok", "ENOMEM"} /\ wpc' \in WorkerPcs /\ ended' \in SUBSET Channels
    BY <1>2, <1>3, Zenon DEF IInv, Types, WorkerPcs
  <2> QED
    BY <1>1, <1>6, <2>1, <2>2, ZenonT(60) DEF IInv, Types, cmdVars
<1>9. CallInv' /\ ExcInv' /\ ExceptionIsOwn'
  BY <1>1, <1>3, CallsKept, Zenon DEF callState, cmdVars
<1>10. WaitInv'
  BY <1>1, Zenon DEF IInv, WaitInv, Waits, Awaited, Pending, cmdVars
<1>11. StopInv'
  BY <1>1, <1>3, Zenon DEF IInv, StopInv, Pending, cmdVars
<1>12. WorkInv'
  <2>1. wpc' = "callback" => cb'.ch = c /\ cb'.first
    BY <1>3
  <2> QED
    BY <1>1, <1>2, <1>3, <1>4, <2>1, Zenon DEF WorkInv, c
<1>13. LifeInv'
  BY <1>1, Zenon DEF IInv, LifeInv, Settled, Waits, Pending, cmdVars
<1>14. AbsentInv'
  <2>1. \A x \in Channels : ~chan'[x].made => Absent(x)'
    BY <1>1, <1>2, <1>7, Zenon DEF IInv, AbsentInv
  <2>2. (\A t \in Threads : Waits(t) /\ call[t].op = "close" /\ waiter.done => Absent(call[t].ch))'
    <3>1. \A t \in Threads : Waits(t) /\ call[t].op = "close" => call[t].ch \in Channels \ {c}
      BY <1>2, Zenon DEF IInv, CallInv, LifeInv, Settled
    <3> QED
      BY <1>1, <1>7, <3>1, Zenon DEF IInv, AbsentInv, Waits, cmdVars
  <2>3. \A x \in Channels : outcome'[x] \in {"clean", "own", "other"} => Absent(x)'
    <3>1. \A x \in Channels : outcome[x] # "none" => x # c
      BY <1>2, Zenon DEF IInv, LifeInv, Settled
    <3> QED
      BY <1>1, <1>7, <3>1, Zenon DEF IInv, AbsentInv
  <2> QED
    BY <1>1, <1>2, <1>3, <2>1, <2>2, <2>3, Zenon DEF AbsentInv, cmdVars
<1>15. SchedInv'
  <2>1. Range(sched') \subseteq Range(slots')
    <3>1. \A x \in Range(sched) : x \in Channels /\ x # c /\ x \in Range(slots)
      <4>1. Range(sched) \subseteq Channels
        BY DEF IInv, Types, Range
      <4> QED
        BY <1>5, <4>1, Zenon DEF IInv, SchedInv
    <3> QED
      BY <1>6, <3>1, Zenon
  <2>2. cb'.ch \notin Range(sched') /\ (cb'.ch # NoChannel => cb'.ch \in Range(slots'))
    <3>1. CASE wpc' = "callback"
      <4>1. cb'.ch = c
        BY <1>3, <3>1
      <4> QED
        BY <1>5, <1>6, <3>1, <4>1, Zenon
    <3>2. CASE wpc' = "complete"
      <4>1. cb' = cb
        BY <1>3, <3>2, Zenon
      <4> QED
        BY <1>4, <1>6, <4>1, Zenon DEF IInv, SchedInv, NoCallback
    <3> QED
      BY <1>3, <3>1, <3>2, Zenon
  <2>3. NoneForgotten'
    <3> SUFFICES ASSUME NEW x \in Active' \ ended' PROVE x \in Range(sched') \/ cb'.ch = x
      BY Zenon DEF NoneForgotten
    <3>1. x \in Channels
      BY <1>6 DEF Active, Range
    <3>2. CASE x = c
      <4>1. wpc' = "callback"
        BY <1>6, <3>2, Zenon DEF Active
      <4> QED
        BY <1>3, <3>2, <4>1
    <3>3. CASE x # c
      <4>1. x \in Active \ ended
        BY <1>3, <1>6, <3>1, <3>3, Zenon DEF Active
      <4>2. x \in Range(sched) \/ cb.ch = x
        BY <4>1, Zenon DEF IInv, SchedInv, NoneForgotten
      <4>3. cb.ch # x
        BY <1>4, <3>1, SizesAssumption, Zenon DEF NoCallback
      <4> QED
        BY <1>6, <4>2, <4>3, Zenon
    <3> QED
      BY <3>2, <3>3, Zenon
  <2> QED
    BY <1>1, <1>6, <2>1, <2>2, <2>3, Zenon DEF SchedInv
<1> QED
  BY <1>8, <1>9, <1>10, <1>11, <1>12, <1>13, <1>14, <1>15, Zenon DEF IInv

-----------------------------------------------------------------------------
(* Steps of the worker around the callbacks, its end, and the clock. *)

\* pop_due_channel: the head of the list is run.
LEMMA PopDueKeeps ==
  ASSUME IInv, PopDue
  PROVE  IInv'
<1> DEFINE run == [ch |-> Head(sched), first |-> FALSE, now |-> 0, deadline |-> due[Head(sched)]]
<1>1. /\ wpc = "due" /\ sched # << >> /\ sched' = Tail(sched) /\ Invoke(run)
      /\ UNCHANGED <<cmdVars, close_exc, slots, due, cb_exc, batch, status, taken, stop_seen,
                     call, chan, failed, outcome>>
  BY Zenon DEF PopDue, DueNow
<1>2. batch = << >> /\ DOMAIN batch = {} /\ cb = NoCallback /\ taken = {}
  BY <1>1 DEF IInv, WorkInv
<1>3. sched \in Seq(Channels) /\ due \in [Channels -> Int] /\ Sorted(sched, due)
  BY Zenon DEF IInv, Types, SchedInv
<1>4. /\ Head(sched) \in Channels /\ Head(sched) = sched[1] /\ sched' \in Seq(Channels)
      /\ Len(sched') = Len(sched) - 1 /\ Len(sched) \in Nat /\ 1 \in DOMAIN sched
      /\ DOMAIN sched = 1..Len(sched) /\ DOMAIN sched' = 1..Len(sched')
      /\ \A i \in 1..Len(sched') : i + 1 \in 1..Len(sched) /\ sched'[i] = sched[i + 1]
  BY <1>1, <1>3
<1>5. Range(sched') \subseteq Range(sched) /\ Head(sched) \in Range(sched)
  <2>1. \A i \in DOMAIN sched' : sched'[i] \in Range(sched)
    BY <1>4, Zenon DEF Range
  <2>2. Head(sched) \in Range(sched)
    BY <1>4, Zenon DEF Range
  <2> QED
    BY <2>1, <2>2, Zenon DEF Range
<1>6. Range(sched) \subseteq Range(sched') \cup {Head(sched)}
  <2> SUFFICES ASSUME NEW i \in DOMAIN sched, i # 1 PROVE sched[i] \in Range(sched')
    BY <1>4 DEF Range
  <2>1. i - 1 \in DOMAIN sched' /\ sched'[i - 1] = sched[i]
    BY <1>4
  <2> QED
    BY <2>1, Zenon DEF Range
<1>7. Head(sched) \notin Range(sched')
  <2> SUFFICES ASSUME NEW i \in 1..Len(sched') PROVE sched'[i] # Head(sched)
    BY <1>4, Zenon DEF Range
  <2>1. i + 1 \in 1..Len(sched) /\ 1 \in 1..Len(sched) /\ 1 < i + 1
    BY <1>4
  <2> QED
    BY <1>3, <1>4, <2>1 DEF Sorted
<1>8. Sorted(sched', due)
  <2> SUFFICES ASSUME NEW i \in 1..Len(sched'), NEW j \in 1..Len(sched'), i < j
               PROVE  due[sched'[i]] <= due[sched'[j]] /\ sched'[i] # sched'[j]
    BY Zenon DEF Sorted
  <2>1. i + 1 \in 1..Len(sched) /\ j + 1 \in 1..Len(sched) /\ i + 1 < j + 1
    BY <1>4
  <2>2. sched'[i] = sched[i + 1] /\ sched'[j] = sched[j + 1]
    BY <1>4, Zenon
  <2>3. \A a, b \in 1..Len(sched) : a < b =>
          due[sched[a]] <= due[sched[b]] /\ sched[a] # sched[b]
    BY <1>3, Zenon DEF Sorted
  <2> QED
    BY <2>1, <2>2, <2>3, Zenon
<1>9. /\ run.ch = Head(sched) /\ ~run.first
      /\ run \in [ch : Channels \cup {NoChannel}, first : BOOLEAN, now : Int, deadline : Int]
  BY <1>3, <1>4
<1> HIDE DEF run
<1>9a. \/ wpc' = "callback" /\ cb' = run /\ ended' = ended
       \/ wpc' = "due" /\ cb' = NoCallback /\ ended' = ended \cup {Head(sched)}
  BY <1>1, <1>2, <1>9, Zenon DEF Invoke
<1>10. \A x \in Channels : Absent(x) => Absent(x)'
  <2>1. NoCallback.ch = NoChannel /\ NoChannel \notin Channels
    BY SizesAssumption, Zenon DEF NoCallback
  <2> QED
    BY <1>1, <1>5, <1>9, <1>9a, <2>1, Zenon DEF Absent
<1>11. Types'
  <2>1. cb' \in [ch : Channels \cup {NoChannel}, first : BOOLEAN, now : Int, deadline : Int]
    BY <1>2, <1>9, <1>9a, Zenon DEF IInv, Types
  <2>2. wpc' \in WorkerPcs /\ ended' \in SUBSET Channels
    BY <1>4, <1>9a, Zenon DEF IInv, Types, WorkerPcs
  <2> QED
    BY <1>1, <1>4, <2>1, <2>2, ZenonT(60) DEF IInv, Types, cmdVars
<1>12. CallInv' /\ ExcInv' /\ ExceptionIsOwn'
  BY <1>1, <1>9a, CallsKept, Zenon DEF callState, cmdVars
<1>13. WaitInv'
  BY <1>1, Zenon DEF IInv, WaitInv, Waits, Awaited, Pending, cmdVars
<1>14. StopInv'
  BY <1>1, <1>9a, Zenon DEF IInv, StopInv, Pending, cmdVars
<1>15. WorkInv'
  BY <1>1, <1>2, <1>4, <1>9, <1>9a, Zenon DEF IInv, WorkInv
<1>16. LifeInv'
  BY <1>1, Zenon DEF IInv, LifeInv, Settled, Waits, Pending, cmdVars
<1>17. AbsentInv'
  <2>1. \A x \in Channels : ~chan'[x].made => Absent(x)'
    BY <1>1, <1>10, Zenon DEF IInv, AbsentInv
  <2>2. (\A i \in DOMAIN queue : queue[i].type = "create" => Absent(queue[i].ch))'
    <3>1. \A i \in DOMAIN queue : queue[i].type = "create" => queue[i].ch \in Channels
      BY CommandChannel DEF IInv, Types
    <3> QED
      BY <1>1, <1>10, <3>1, Zenon DEF IInv, AbsentInv, cmdVars
  <2>3. (\A t \in Threads : Waits(t) /\ call[t].op = "close" /\ waiter.done => Absent(call[t].ch))'
    BY <1>1, <1>10, Zenon DEF IInv, AbsentInv, CallInv, Waits, cmdVars
  <2>4. \A x \in Channels : outcome'[x] \in {"clean", "own", "other"} => Absent(x)'
    BY <1>1, <1>10, Zenon DEF IInv, AbsentInv
  <2> QED
    BY <1>1, <1>2, <1>9a, <2>1, <2>2, <2>3, <2>4, Zenon DEF AbsentInv
<1>18. SchedInv'
  <2>1. NoneForgotten'
    <3>1. \A x \in Active : x # cb.ch
      BY <1>2, Zenon DEF Active, NoCallback
    <3> QED
      BY <1>1, <1>6, <1>9, <1>9a, <3>1, Zenon DEF IInv, SchedInv, NoneForgotten, Active
  <2>2. /\ Range(sched') \subseteq Range(slots') /\ cb'.ch \notin Range(sched')
        /\ cb'.ch # NoChannel => cb'.ch \in Range(slots')
    <3>1. Range(sched) \subseteq Range(slots) /\ cb.ch \notin Range(sched) /\ cb.ch = NoChannel
      BY <1>2, Zenon DEF IInv, SchedInv, NoCallback
    <3> QED
      BY <1>1, <1>2, <1>5, <1>7, <1>9, <1>9a, <3>1, Zenon
  <2> QED
    BY <1>1, <1>8, <2>1, <2>2, Zenon DEF IInv, SchedInv
<1> QED
  BY <1>11, <1>12, <1>13, <1>14, <1>15, <1>16, <1>17, <1>18, Zenon DEF IInv

\* When a callback returns, what it leaves in the table and on the list is all
\* there is to show.
LEMMA CallbackEnd ==
  ASSUME IInv, wpc = "callback", wpc' = AfterCallback, cb' = NoCallback,
         UNCHANGED <<cmdVars, close_exc, slots, batch, status, taken, stop_seen, call, chan,
                     outcome>>,
         \A x \in Channels : Absent(x) => Absent(x)', Types', SchedInv'
  PROVE  IInv'
<1>1. wpc' \in {"complete", "due"} /\ (wpc' = "complete" <=> cb.first)
  BY Zenon DEF AfterCallback
<1>2. /\ cb.first => batch # << >> /\ Head(batch).type = "create"
      /\ ~cb.first => batch = << >>
      /\ taken = {}
  BY Zenon DEF IInv, WorkInv
<1>3. CallInv' /\ ExcInv' /\ ExceptionIsOwn'
  BY <1>1, CallsKept, Zenon DEF callState, cmdVars
<1>4. WaitInv'
  BY <1>1, Zenon DEF IInv, WaitInv, Waits, Awaited, Pending, cmdVars
<1>5. StopInv'
  BY <1>1, Zenon DEF IInv, StopInv, Pending, cmdVars
<1>6. WorkInv'
  BY <1>1, <1>2, Zenon DEF WorkInv
<1>7. LifeInv'
  BY Zenon DEF IInv, LifeInv, Settled, Waits, Pending, cmdVars
<1>8. AbsentInv'
  <2>1. \A x \in Channels : ~chan'[x].made => Absent(x)'
    BY Zenon DEF IInv, AbsentInv
  <2>2. (\A i \in DOMAIN queue : queue[i].type = "create" => Absent(queue[i].ch))'
    <3>1. queue \in Seq(Commands)
      BY Zenon DEF IInv, Types
    <3>2. \A i \in DOMAIN queue : queue[i] \in Commands
      BY ONLY <3>1
    <3>3. \A i \in DOMAIN queue : queue[i].type = "create" => queue[i].ch \in Channels
      BY <3>2, CommandChannel, Zenon
    <3>4. queue' = queue
      BY Zenon DEF cmdVars
    <3> QED
      BY <3>3, <3>4, Zenon DEF IInv, AbsentInv
  <2>3. (\A i \in DOMAIN batch : batch[i].type = "create" /\ i > 1 => Absent(batch[i].ch))'
    <3>1. batch \in Seq(Commands)
      BY Zenon DEF IInv, Types
    <3>2. \A i \in DOMAIN batch : batch[i] \in Commands
      BY ONLY <3>1
    <3>3. \A i \in DOMAIN batch : batch[i].type = "create" => batch[i].ch \in Channels
      BY <3>2, CommandChannel, Zenon
    <3> QED
      BY <3>3, Zenon DEF IInv, AbsentInv
  <2>4. (\A t \in Threads : Waits(t) /\ call[t].op = "close" /\ waiter.done => Absent(call[t].ch))'
    BY Zenon DEF IInv, AbsentInv, CallInv, Waits, cmdVars
  <2>5. \A x \in Channels : outcome'[x] \in {"clean", "own", "other"} => Absent(x)'
    BY Zenon DEF IInv, AbsentInv
  <2> QED
    BY <1>1, <1>2, <2>1, <2>2, <2>3, <2>4, <2>5, Zenon DEF AbsentInv
<1> QED
  BY <1>3, <1>4, <1>5, <1>6, <1>7, <1>8, Zenon DEF IInv

\* The callback asks to be run again.
LEMMA CallbackNextKeeps ==
  ASSUME Counting, IInv, CallbackNext
  PROVE  IInv'
<1>1. /\ wpc = "callback" /\ wpc' = AfterCallback /\ cb' = NoCallback
      /\ UNCHANGED <<cmdVars, close_exc, slots, cb_exc, batch, status, taken, stop_seen, call,
                     chan, history>>
  BY Zenon DEF CallbackNext
<1>2. PICK c \in Channels : c = cb.ch
  BY <1>1, Zenon DEF IInv, WorkInv
<1>3. PICK next \in Int : /\ next >= -MaxLate /\ due' = [due EXCEPT ![c] = next]
                          /\ sched' = Scheduled(sched, due', c)
  <2> DEFINE asked(p) == (IF cb.first THEN cb.now ELSE cb.deadline) + p
             next(p) == IF cb.first /\ asked(p) < cb.now THEN cb.now ELSE asked(p)
  <2>1. PICK p \in Periods : /\ next(p) >= -MaxLate
                             /\ due' = [due EXCEPT ![cb.ch] = next(p)]
                             /\ sched' = Scheduled(sched, due', cb.ch)
    BY Zenon DEF CallbackNext
  <2>2. cb.now \in Int /\ cb.deadline \in Int /\ p \in Int
    BY SizesAssumption, Zenon DEF IInv, Types
  <2>3. next(p) \in Int
    BY <2>2
  <2> HIDE DEF next
  <2> QED
    BY <1>2, <2>1, <2>3, Zenon
<1>4. /\ sched \in Seq(Channels) /\ due \in [Channels -> Int] /\ Sorted(sched, due)
      /\ c \notin Range(sched) /\ c \in Range(slots) /\ Range(sched) \subseteq Range(slots)
  BY <1>2, SizesAssumption, Zenon DEF IInv, Types, SchedInv
<1>5. due' \in [Channels -> Int] /\ \A x \in Channels : x # c => due'[x] = due[x]
  BY <1>3, <1>4, Zenon
<1>6. Sorted(sched, due')
  <2>1. \A x \in Range(sched) : due'[x] = due[x]
    <3>1. Range(sched) \subseteq Channels
      BY <1>4 DEF Range
    <3> QED
      BY <1>4, <1>5, <3>1, Zenon
  <2> QED
    BY <1>4, <2>1, SortedAgree, Zenon
<1>7. sched' \in Seq(Channels) /\ Range(sched') = Range(sched) \cup {c} /\ Sorted(sched', due')
  BY <1>3, <1>4, <1>5, <1>6, ScheduledFacts, Zenon
<1>8. cb'.ch = NoChannel /\ c # NoChannel
  BY <1>1, SizesAssumption, Zenon DEF NoCallback
<1>9. \A x \in Channels : Absent(x) => Absent(x)'
  BY <1>1, <1>2, <1>7, <1>8, SizesAssumption, Zenon DEF Absent
<1>10. Types'
  <2>1. \A x \in Channels : due'[x] >= -MaxLate
    <3>1. due'[c] = next /\ next >= -MaxLate
      BY <1>3, <1>4, Zenon
    <3>2. \A x \in Channels : due[x] >= -MaxLate
      BY Zenon DEF IInv, Types
    <3> QED
      BY <1>5, <3>1, <3>2, Zenon
  <2>2. cb' \in [ch : Channels \cup {NoChannel}, first : BOOLEAN, now : Int, deadline : Int]
    BY <1>1 DEF NoCallback
  <2>3. wpc' \in WorkerPcs
    BY <1>1, Zenon DEF WorkerPcs, AfterCallback
  <2> QED
    BY <1>1, <1>5, <1>7, <2>1, <2>2, <2>3, ZenonT(60) DEF IInv, Types, cmdVars, history
<1>11. SchedInv'
  <2>1. NoneForgotten'
    BY <1>1, <1>2, <1>7, Zenon DEF IInv, SchedInv, NoneForgotten, Active, history
  <2>2. NoChannel \notin Range(sched')
    BY <1>7, SizesAssumption DEF Range
  <2> QED
    BY <1>1, <1>4, <1>7, <1>8, <2>1, <2>2, Zenon DEF IInv, SchedInv
<1> QED
  BY <1>1, <1>9, <1>10, <1>11, CallbackEnd, Zenon DEF history

\* The callback returns None or raises.
LEMMA CallbackStopKeeps ==
  ASSUME IInv, CallbackNone \/ CallbackRaise
  PROVE  IInv'
<1>1. /\ wpc = "callback" /\ wpc' = AfterCallback /\ cb' = NoCallback
      /\ UNCHANGED <<cmdVars, close_exc, slots, sched, due, batch, status, taken, stop_seen,
                     call, chan, outcome>>
      /\ ended' = ended \cup {cb.ch}
      /\ failed' \in {failed, failed \cup {cb.ch}} /\ cb_exc' \in {cb_exc, cb_exc \cup {cb.ch}}
  BY Zenon DEF CallbackNone, CallbackRaise, tabVars
<1>2. cb.ch \in Channels
  BY <1>1, Zenon DEF IInv, WorkInv
<1>3. cb'.ch = NoChannel
  BY <1>1, Zenon DEF NoCallback
<1>4. \A x \in Channels : Absent(x) => Absent(x)'
  BY <1>1, <1>3, SizesAssumption, Zenon DEF Absent
<1>5. Types'
  <2>1. cb' \in [ch : Channels \cup {NoChannel}, first : BOOLEAN, now : Int, deadline : Int]
    BY <1>1 DEF NoCallback
  <2> QED
    BY <1>1, <1>2, <2>1 DEF IInv, Types, WorkerPcs, AfterCallback, cmdVars
<1>6. SchedInv'
  <2>1. NoneForgotten'
    BY <1>1, Zenon DEF IInv, SchedInv, NoneForgotten, Active
  <2>2. NoChannel \notin Range(sched)
    BY SizesAssumption DEF IInv, Types, Range
  <2> QED
    BY <1>1, <1>3, <2>1, <2>2, Zenon DEF IInv, SchedInv
<1> QED
  BY <1>1, <1>4, <1>5, <1>6, CallbackEnd, Zenon

\* A command joins the end of the queue.
LEMMA AppendFacts ==
  ASSUME NEW s \in Seq(Commands), NEW m \in Commands
  PROVE  /\ Append(s, m) \in Seq(Commands) /\ Len(s) \in Nat
         /\ DOMAIN s = 1..Len(s) /\ DOMAIN Append(s, m) = 1..(Len(s) + 1)
         /\ Len(Append(s, m)) = Len(s) + 1 /\ Append(s, m)[Len(s) + 1] = m
         /\ \A i \in 1..Len(s) : Append(s, m)[i] = s[i]
         /\ Range(Append(s, m)) = Range(s) \cup {m}
<1>1. /\ Append(s, m) \in Seq(Commands) /\ Len(s) \in Nat
      /\ DOMAIN s = 1..Len(s) /\ DOMAIN Append(s, m) = 1..(Len(s) + 1)
      /\ Len(Append(s, m)) = Len(s) + 1 /\ Append(s, m)[Len(s) + 1] = m
      /\ \A i \in 1..Len(s) : Append(s, m)[i] = s[i]
  <2> DEFINE C == Commands
  <2> HIDE DEF C
  <2>1. s \in Seq(C) /\ m \in C
    BY Zenon DEF C
  <2>2. /\ Append(s, m) \in Seq(C) /\ Len(s) \in Nat
        /\ DOMAIN s = 1..Len(s) /\ DOMAIN Append(s, m) = 1..(Len(s) + 1)
        /\ Len(Append(s, m)) = Len(s) + 1 /\ Append(s, m)[Len(s) + 1] = m
        /\ \A i \in 1..Len(s) : Append(s, m)[i] = s[i]
    BY ONLY <2>1
  <2> QED
    BY <2>2, Zenon DEF C
<1>2. m \in Range(Append(s, m))
  BY <1>1 DEF Range
<1>3. \A i \in DOMAIN s : s[i] \in Range(Append(s, m))
  BY <1>1 DEF Range
<1>4. \A i \in DOMAIN Append(s, m) : Append(s, m)[i] \in Range(s) \cup {m}
  BY <1>1 DEF Range
<1> QED
  BY <1>1, <1>2, <1>3, <1>4 DEF Range

\* The table, the list and the callback are as they were: so are the channels
\* absent from them, and SchedInv.
LEMMA TableKept ==
  ASSUME IInv, UNCHANGED <<slots, sched, due, cb_exc, cb, ended>>
  PROVE  (\A x : Absent(x)' <=> Absent(x)) /\ SchedInv'
<1>1. \A x : Absent(x)' <=> Absent(x)
  BY Zenon DEF Absent
<1>2. SchedInv'
  BY Zenon DEF IInv, SchedInv, Sorted, NoneForgotten, Active
<1> QED
  BY <1>1, <1>2, Zenon

\* Nobody begins or ends to wait.
SameWaits ==
  \A t \in Threads : \/ Waits(t) /\ call'[t] = call[t]
                     \/ ~Waits(t) /\ ~Waits(t)' /\ call'[t].ch = NoChannel

\* SHUTDOWN is queued once, as the last command.
LEMMA QueueShutdownKeeps ==
  ASSUME IInv, QueueShutdown, SameWaits,
         UNCHANGED <<busy, waiter, batch, stop_seen, wpc, chan, outcome>>
  PROVE  /\ queue' \in Seq(Commands) /\ WaitInv' /\ StopInv' /\ LifeInv'
         /\ \A i \in DOMAIN queue' : queue'[i].type # "create" \/ (i \in DOMAIN queue /\ queue'[i] = queue[i])
<1> DEFINE m == Cmd("shutdown", NoChannel, FALSE)
<1>1. /\ queue' = IF shutdown_queued THEN queue ELSE Append(queue, m)
      /\ shutdown_queued' = TRUE /\ accepting' = FALSE
  BY Zenon DEF QueueShutdown
<1>2. m \in Commands /\ ~m.waiter /\ m.type = "shutdown" /\ queue \in Seq(Commands)
  BY Zenon DEF IInv, Types, Commands, Cmd
<1>5. \A t \in Threads : Waits(t)' = Waits(t) /\ (Waits(t) => call'[t] = call[t])
  BY Zenon DEF SameWaits, Waits
<1>3. CASE shutdown_queued
  <2>1. queue' = queue
    BY <1>1, <1>3, Zenon
  <2>2. WaitInv'
    BY <1>5, <2>1, Zenon DEF IInv, WaitInv, Awaited, Pending
  <2>3. StopInv'
    BY <1>1, <2>1, Zenon DEF IInv, StopInv, Pending
  <2>4. LifeInv'
    BY <1>5, <2>1, Zenon DEF IInv, LifeInv, Settled, Pending
  <2> QED
    BY <1>2, <2>1, <2>2, <2>3, <2>4, Zenon
<1>4. CASE ~shutdown_queued
  <2>1. queue' = Append(queue, m)
    BY <1>1, <1>4, Zenon
  <2> HIDE DEF m
  <2>2. /\ queue' \in Seq(Commands) /\ Len(queue) \in Nat
        /\ DOMAIN queue = 1..Len(queue) /\ DOMAIN queue' = 1..(Len(queue) + 1)
        /\ Len(queue') = Len(queue) + 1 /\ queue'[Len(queue) + 1] = m
        /\ \A i \in 1..Len(queue) : queue'[i] = queue[i]
        /\ Range(queue') = Range(queue) \cup {m}
    BY <1>2, <2>1, AppendFacts
  <2>3. \A i \in DOMAIN queue' :
          (i = Len(queue) + 1 /\ queue'[i] = m) \/ (i \in DOMAIN queue /\ queue'[i] = queue[i])
    BY <2>2
  <2>4. Pending' = Pending \cup {m}
    BY <2>2, Zenon DEF Pending
  <2>5. accepting /\ ~stop_seen /\ \A x \in Pending : x.type # "shutdown"
    BY <1>4, Zenon DEF IInv, StopInv
  <2>6. WaitInv'
    <3>1. \A t \in Threads : Waits(t)' = Waits(t) /\ (Waits(t) => Awaited(t)' = Awaited(t))
      BY <1>5, Zenon DEF Awaited
    <3>2. \A i \in DOMAIN queue' : queue'[i].waiter => i \in DOMAIN queue /\ queue'[i] = queue[i]
      BY <1>2, <2>3, Zenon
    <3>3. \A i, j \in DOMAIN queue' : queue'[i].waiter /\ queue'[j].waiter => i = j
      BY <3>2, Zenon DEF IInv, WaitInv
    <3>4. \A i \in DOMAIN queue', j \in DOMAIN batch' : ~(queue'[i].waiter /\ batch'[j].waiter)
      BY <3>2, Zenon DEF IInv, WaitInv
    <3> QED
      BY <1>2, <2>4, <3>1, <3>3, <3>4, Zenon DEF IInv, WaitInv
  <2>7. StopInv'
    <3>1. \A i \in DOMAIN queue : queue[i] \in Pending
      BY Zenon DEF Pending, Range
    <3>2. \A i \in DOMAIN batch : batch[i] \in Pending
      BY Zenon DEF Pending, Range
    <3>3. \A i \in DOMAIN queue' : queue'[i].type = "shutdown" => i = Len(queue')
      BY <2>2, <2>3, <2>5, <3>1, Zenon
    <3> QED
      BY <1>1, <2>5, <3>2, <3>3, Zenon DEF StopInv
  <2>8. LifeInv'
    BY <1>2, <1>5, <2>4, Zenon DEF IInv, LifeInv, Settled
  <2> QED
    BY <1>2, <2>2, <2>3, <2>6, <2>7, <2>8, Zenon
<1> QED
  BY <1>3, <1>4, Zenon

\* The callback calls shutdown().
LEMMA CallbackShutdownKeeps ==
  ASSUME IInv, CallbackShutdown
  PROVE  IInv'
<1>1. /\ QueueShutdown /\ worker_running' = FALSE
      /\ UNCHANGED <<busy, waiter, close_exc, tabVars, workVars, call, chan, history>>
  BY Zenon DEF CallbackShutdown
<1>2. /\ queue' \in Seq(Commands) /\ WaitInv' /\ StopInv' /\ LifeInv'
      /\ \A i \in DOMAIN queue' : queue'[i].type # "create" \/ (i \in DOMAIN queue /\ queue'[i] = queue[i])
  <2>1. SameWaits
    BY <1>1, Zenon DEF SameWaits, Waits, IInv, CallInv
  <2> QED
    BY <1>1, <2>1, QueueShutdownKeeps, Zenon DEF workVars, history
<1>3. (\A x : Absent(x)' <=> Absent(x)) /\ SchedInv'
  BY <1>1, TableKept, Zenon DEF tabVars, workVars, history
<1>4. Types'
  BY <1>1, <1>2, Zenon DEF IInv, Types, QueueShutdown, tabVars, workVars, history
<1>5. CallInv' /\ ExcInv' /\ ExceptionIsOwn'
  BY <1>1, CallsKept, Zenon DEF callState, workVars, history
<1>6. WorkInv'
  BY <1>1, Zenon DEF IInv, WorkInv, tabVars, workVars
<1>7. AbsentInv'
  BY <1>1, <1>2, <1>3, Zenon DEF IInv, AbsentInv, Waits, workVars, history
<1> QED
  BY <1>2, <1>3, <1>4, <1>5, <1>6, <1>7, Zenon DEF IInv

\* clear_channels, and the end of the worker: no command is left.
LEMMA ExitKeeps ==
  ASSUME IInv, Exit
  PROVE  IInv'
<1>1. /\ wpc = "exit" /\ wpc' = "exited" /\ queue' = << >>
      /\ slots' = << >> /\ sched' = << >> /\ cb_exc' = {}
      /\ UNCHANGED <<accepting, shutdown_queued, worker_running, busy, waiter, close_exc, due,
                     batch, status, taken, cb, stop_seen, call, chan, history>>
  BY Zenon DEF Exit, Cleared
<1>2. queue = << >> /\ batch = << >> /\ stop_seen /\ cb = NoCallback
  BY <1>1, Zenon DEF IInv, WorkInv, StopInv
<1>3. Range(<< >>) = {} /\ DOMAIN << >> = {} /\ Len(<< >>) = 0
  BY DEF Range
<1>4. \A x \in Channels : Absent(x)'
  BY <1>1, <1>2, <1>3, SizesAssumption, Zenon DEF Absent, NoCallback
<1>5. Types'
  <2>1. sched' \in Seq(Channels) /\ slots' \in Seq(Channels \cup {NoChannel})
    BY <1>1
  <2> QED
    BY <1>1, <1>2, <2>1 DEF IInv, Types, WorkerPcs, history
<1>6. CallInv' /\ ExcInv' /\ ExceptionIsOwn'
  BY <1>1, CallsKept, Zenon DEF callState, history
<1>7. WaitInv'
  BY <1>1, <1>2, ZenonT(60) DEF IInv, WaitInv, Waits, Awaited, Pending
<1>8. StopInv'
  BY <1>1, <1>2, Zenon DEF IInv, StopInv, Pending
<1>9. WorkInv'
  BY <1>1, <1>2, Zenon DEF IInv, WorkInv
<1>10. LifeInv'
  BY <1>1, <1>2, Zenon DEF IInv, LifeInv, Settled, Waits, Pending, history
<1>11. AbsentInv'
  BY <1>1, <1>2, <1>3, <1>4, Zenon DEF IInv, AbsentInv, CallInv, Waits
<1>12. SchedInv'
  BY <1>1, <1>2, <1>3 DEF SchedInv, Sorted, NoneForgotten, Active, NoCallback
<1> QED
  BY <1>5, <1>6, <1>7, <1>8, <1>9, <1>10, <1>11, <1>12, Zenon DEF IInv

\* Time passes: the scheduled channels come closer alike.
LEMMA TickKeeps ==
  ASSUME IInv, Tick
  PROVE  IInv'
<1>1. /\ \A c \in Range(sched) : due[c] > -MaxLate
      /\ due' = [c \in Channels |-> IF c \in Range(sched) THEN due[c] - 1 ELSE due[c]]
      /\ cb' = IF wpc = "callback" THEN [cb EXCEPT !.now = @ - 1, !.deadline = @ - 1] ELSE cb
      /\ UNCHANGED <<cmdVars, close_exc, slots, sched, cb_exc, batch, wpc, status, taken,
                     stop_seen, call, chan, history>>
  BY Zenon DEF Tick
<1>2. /\ cb' \in [ch : Channels \cup {NoChannel}, first : BOOLEAN, now : Int, deadline : Int]
      /\ cb'.ch = cb.ch /\ cb'.first = cb.first
  <2>1. cb \in [ch : Channels \cup {NoChannel}, first : BOOLEAN, now : Int, deadline : Int]
    BY Zenon DEF IInv, Types
  <2>2. CASE wpc = "callback"
    <3>1. cb' = [ch |-> cb.ch, first |-> cb.first, now |-> cb.now - 1, deadline |-> cb.deadline - 1]
      BY <1>1, <2>1, <2>2, Zenon
    <3> QED
      BY <2>1, <3>1
  <2>3. CASE wpc # "callback"
    BY <1>1, <2>1, <2>3, Zenon
  <2> QED
    BY <2>2, <2>3, Zenon
<1>3. due \in [Channels -> Int] /\ sched \in Seq(Channels) /\ Sorted(sched, due)
  BY Zenon DEF IInv, Types, SchedInv
<1>4. due' \in [Channels -> Int]
  BY <1>1, <1>3
<1>5. Sorted(sched, due')
  <2>1. \A i \in 1..Len(sched) : due[sched[i]] \in Int /\ due'[sched[i]] = due[sched[i]] - 1
    <3>1. \A i \in 1..Len(sched) : sched[i] \in Channels /\ sched[i] \in Range(sched)
      BY <1>3 DEF Range
    <3> QED
      BY <1>1, <1>3, <3>1, Zenon
  <2> QED
    BY <1>3, <2>1 DEF Sorted
<1>6. \A x : Absent(x)' <=> Absent(x)
  BY <1>1, <1>2, Zenon DEF Absent
<1>7. Types'
  <2>1. \A x \in Channels : due'[x] >= -MaxLate
    BY <1>1, <1>3, SizesAssumption, SMTT(30) DEF IInv, Types
  <2> QED
    BY <1>1, <1>2, <1>4, <2>1 DEF IInv, Types, cmdVars, history
<1>8. CallInv' /\ ExcInv' /\ ExceptionIsOwn'
  BY <1>1, CallsKept, Zenon DEF callState, cmdVars, history
<1>9. WaitInv'
  BY <1>1, Zenon DEF IInv, WaitInv, Waits, Awaited, Pending, cmdVars
<1>10. StopInv'
  BY <1>1, Zenon DEF IInv, StopInv, Pending, cmdVars
<1>11. WorkInv'
  BY <1>1, <1>2, Zenon DEF IInv, WorkInv
<1>12. LifeInv'
  BY <1>1, Zenon DEF IInv, LifeInv, Settled, Waits, Pending, cmdVars, history
<1>13. AbsentInv'
  BY <1>1, <1>6, Zenon DEF IInv, AbsentInv, Waits, cmdVars, history
<1>14. SchedInv'
  BY <1>1, <1>2, <1>5, Zenon DEF IInv, SchedInv, NoneForgotten, Active, history
<1> QED
  BY <1>7, <1>8, <1>9, <1>10, <1>11, <1>12, <1>13, <1>14, Zenon DEF IInv

=============================================================================
