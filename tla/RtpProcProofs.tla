---------------------------- MODULE RtpProcProofs ----------------------------
(***************************************************************************)
(* Theorems about RtpProc for every number of threads and channels, every  *)
(* capacity and every period: who waits for which command, which channels  *)
(* the worker holds, and in which order it runs them.                      *)
(***************************************************************************)
EXTENDS RtpProcInv

-----------------------------------------------------------------------------
(* Steps of the Python threads. *)

\* create_channel makes one channel, the other channels stay.
LEMMA MadeFacts ==
  ASSUME IInv, NEW c \in Channels, chan' = [chan EXCEPT ![c].made = TRUE]
  PROVE  /\ chan' \in [Channels -> ChannelStates]
         /\ chan'[c].made = TRUE /\ chan'[c].held = chan[c].held /\ chan'[c].closed = chan[c].closed
         /\ \A x \in Channels : x # c => chan'[x] = chan[x]
<1>1. chan \in [Channels -> ChannelStates] /\ chan[c] \in ChannelStates
  BY Zenon DEF IInv, Types
<1>2. /\ chan' \in [Channels -> ChannelStates] /\ chan'[c] = [chan[c] EXCEPT !.made = TRUE]
      /\ \A x \in Channels : x # c => chan'[x] = chan[x]
  BY <1>1, Zenon DEF ChannelStates
<1>3. chan'[c].made = TRUE /\ chan'[c].held = chan[c].held /\ chan'[c].closed = chan[c].closed
  BY <1>1, <1>2, Zenon DEF ChannelStates
<1> QED
  BY <1>2, <1>3, Zenon

\* close() marks one channel closed.
LEMMA ClosedFacts ==
  ASSUME IInv, NEW c \in Channels, chan' = [chan EXCEPT ![c].closed = TRUE]
  PROVE  /\ chan' \in [Channels -> ChannelStates]
         /\ chan'[c].made = chan[c].made /\ chan'[c].held = chan[c].held /\ chan'[c].closed = TRUE
         /\ \A x \in Channels : x # c => chan'[x] = chan[x]
<1>1. chan \in [Channels -> ChannelStates] /\ chan[c] \in ChannelStates
  BY Zenon DEF IInv, Types
<1>2. /\ chan' \in [Channels -> ChannelStates] /\ chan'[c] = [chan[c] EXCEPT !.closed = TRUE]
      /\ \A x \in Channels : x # c => chan'[x] = chan[x]
  BY <1>1, Zenon DEF ChannelStates
<1>3. chan'[c].made = chan[c].made /\ chan'[c].held = chan[c].held /\ chan'[c].closed = TRUE
  BY <1>1, <1>2, Zenon DEF ChannelStates
<1> QED
  BY <1>2, <1>3, Zenon

\* create_channel returns, or the last reference to a channel goes.
LEMMA HeldFacts ==
  ASSUME IInv, NEW c \in Channels, NEW b \in BOOLEAN,
         NEW d \in BOOLEAN, chan' = [chan EXCEPT ![c].held = b, ![c].closed = d]
  PROVE  /\ chan' \in [Channels -> ChannelStates]
         /\ chan'[c].made = chan[c].made /\ chan'[c].held = b /\ chan'[c].closed = d
         /\ \A x \in Channels : x # c => chan'[x] = chan[x]
<1>1. chan \in [Channels -> ChannelStates] /\ chan[c] \in ChannelStates
  BY Zenon DEF IInv, Types
<1> DEFINE h == [chan EXCEPT ![c].held = b]
<1>2. /\ h \in [Channels -> ChannelStates] /\ h[c] = [chan[c] EXCEPT !.held = b]
      /\ \A x \in Channels : x # c => h[x] = chan[x]
  BY <1>1, Zenon DEF ChannelStates
<1>3. chan' = [h EXCEPT ![c].closed = d]
  BY <1>1, Zenon
<1> HIDE DEF h
<1>4. /\ chan' \in [Channels -> ChannelStates] /\ chan'[c] = [h[c] EXCEPT !.closed = d]
      /\ \A x \in Channels : x # c => chan'[x] = chan[x]
  BY <1>2, <1>3 DEF ChannelStates
<1>5. h[c].held = b /\ h[c].made = chan[c].made /\ h[c] \in ChannelStates
  BY <1>1, <1>2, Zenon DEF ChannelStates
<1>6. chan'[c].made = chan[c].made /\ chan'[c].held = b /\ chan'[c].closed = d
  BY <1>4, <1>5, Zenon DEF ChannelStates
<1> QED
  BY <1>4, <1>6, Zenon

\* While the waiter is free nobody waits, no command has it, and close_exc is
\* empty.
LEMMA NobodyWaits ==
  ASSUME IInv, ~busy
  PROVE  /\ wpc # "selfwait" /\ \A t \in Threads : ~Waits(t)
         /\ \A m \in Pending : ~m.waiter
         /\ close_exc = {}
<1>1. wpc # "selfwait" /\ \A t \in Threads : ~Waits(t)
  BY Zenon DEF IInv, CallInv
<1> QED
  BY <1>1, Zenon DEF IInv, WaitInv, ExcInv

\* A command of a channel is queued.
LEMMA QueuedFacts ==
  ASSUME IInv, accepting, NEW m \in Commands, m.type # "shutdown", queue' = Append(queue, m),
         UNCHANGED <<accepting, shutdown_queued, stop_seen, batch>>
  PROVE  /\ queue' \in Seq(Commands) /\ Pending' = Pending \cup {m} /\ StopInv'
         /\ \A i \in DOMAIN queue' :
              (i = Len(queue) + 1 /\ queue'[i] = m) \/ (i \in DOMAIN queue /\ queue'[i] = queue[i])
<1>1. queue \in Seq(Commands)
  BY Zenon DEF IInv, Types
<1>2. /\ queue' \in Seq(Commands) /\ Len(queue) \in Nat
      /\ DOMAIN queue = 1..Len(queue) /\ DOMAIN queue' = 1..(Len(queue) + 1)
      /\ Len(queue') = Len(queue) + 1 /\ queue'[Len(queue) + 1] = m
      /\ \A i \in 1..Len(queue) : queue'[i] = queue[i]
      /\ Range(queue') = Range(queue) \cup {m}
  BY <1>1, AppendFacts
<1>3. \A i \in DOMAIN queue' :
        (i = Len(queue) + 1 /\ queue'[i] = m) \/ (i \in DOMAIN queue /\ queue'[i] = queue[i])
  BY <1>2
<1>4. Pending' = Pending \cup {m}
  BY <1>2, Zenon DEF Pending
<1>5. StopInv'
  <2>1. ~stop_seen /\ shutdown_queued = ~accepting /\ \A x \in Pending : x.type # "shutdown"
    BY Zenon DEF IInv, StopInv
  <2>2. \A i \in DOMAIN queue : queue[i] \in Pending
    BY Zenon DEF Pending, Range
  <2>3. \A i \in DOMAIN batch : batch[i] \in Pending
    BY Zenon DEF Pending, Range
  <2>4. \A i \in DOMAIN queue' : queue'[i].type # "shutdown"
    BY <1>3, <2>1, <2>2, Zenon
  <2> QED
    BY <1>4, <2>1, <2>3, <2>4, Zenon DEF StopInv
<1> QED
  BY <1>2, <1>3, <1>4, <1>5, Zenon

\* The command has the waiter: it is the only one.
LEMMA SubmittedWaits ==
  ASSUME IInv, ~busy, accepting, NEW m \in Commands, m.type # "shutdown", m.waiter,
         queue' = Append(queue, m), waiter' = NotReset,
         UNCHANGED <<accepting, shutdown_queued, stop_seen, batch>>,
         \A t \in Threads : Waits(t)' => Awaited(t)' = m,
         wpc' = "selfwait" \/ \E t \in Threads : Waits(t)'
  PROVE  WaitInv'
<1>1. \A x \in Pending : ~x.waiter
  BY NobodyWaits, Zenon
<1>2. /\ Pending' = Pending \cup {m}
      /\ \A i \in DOMAIN queue' :
           (i = Len(queue) + 1 /\ queue'[i] = m) \/ (i \in DOMAIN queue /\ queue'[i] = queue[i])
  BY QueuedFacts, Zenon
<1>3. \A i \in DOMAIN queue : ~queue[i].waiter
  BY <1>1, Zenon DEF Pending, Range
<1>4. \A i \in DOMAIN batch : ~batch[i].waiter
  BY <1>1, Zenon DEF Pending, Range
<1>5. ~waiter'.done
  BY Zenon DEF NotReset
<1>6. \A i, j \in DOMAIN queue' : queue'[i].waiter /\ queue'[j].waiter => i = j
  BY <1>2, <1>3
<1>7. \A x \in Pending' : x.waiter => x = m
  BY <1>1, <1>2, Zenon
<1> QED
  BY <1>2, <1>4, <1>5, <1>6, <1>7, Zenon DEF WaitInv

\* create_channel queues its command and waits.
LEMMA CreateChannelKeeps ==
  ASSUME IInv, NEW t \in Threads, CreateChannel(t)
  PROVE  IInv'
<1>1. PICK c \in Channels : ~chan[c].made /\ chan' = [chan EXCEPT ![c].made = TRUE] /\ Submit(t, "create", c)
  BY Zenon DEF CreateChannel
<1> DEFINE m == Cmd("create", c, TRUE)
<1>2. /\ call[t].pc = "idle" /\ ~busy /\ accepting /\ busy' = TRUE /\ waiter' = NotReset
      /\ queue' = Append(queue, m)
      /\ call' = [call EXCEPT ![t] = [pc |-> "wait", op |-> "create", ch |-> c]]
      /\ UNCHANGED <<accepting, shutdown_queued, worker_running, close_exc, tabVars,
                     workVars, history>>
  BY <1>1, Zenon DEF CreateChannel, Submit
<1>3. m \in Commands /\ m.type = "create" /\ m.waiter /\ m.ch = c
  BY Zenon DEF Commands, Cmd
<1>4. /\ wpc # "selfwait" /\ (\A u \in Threads : ~Waits(u)) /\ (\A x \in Pending : ~x.waiter)
      /\ close_exc = {}
  BY <1>2, NobodyWaits, Zenon
<1>5. /\ call' \in [Threads -> Calls] /\ call'[t].pc = "wait" /\ call'[t].op = "create"
      /\ call'[t].ch = c /\ \A u \in Threads : u # t => call'[u] = call[u]
  BY <1>2, Zenon DEF IInv, Types, Calls
<1>6. \A u \in Threads : Waits(u)' <=> u = t
  BY <1>4, <1>5, Zenon DEF Waits
<1>7. Awaited(t)' = m
  BY <1>5, Zenon DEF Awaited
<1>8. /\ chan' \in [Channels -> ChannelStates]
      /\ chan'[c].made = TRUE /\ chan'[c].held = chan[c].held /\ chan'[c].closed = chan[c].closed
      /\ \A x \in Channels : x # c => chan'[x] = chan[x]
  BY <1>1, MadeFacts, Zenon
<1>9. \A x \in Channels : Settled(x)' <=> Settled(x)
  BY <1>8, Zenon DEF Settled
<1> HIDE DEF m
<1>10. /\ queue' \in Seq(Commands) /\ Pending' = Pending \cup {m} /\ StopInv'
       /\ \A i \in DOMAIN queue' :
            (i = Len(queue) + 1 /\ queue'[i] = m) \/ (i \in DOMAIN queue /\ queue'[i] = queue[i])
  BY <1>2, <1>3, QueuedFacts, Zenon DEF workVars
<1>11. WaitInv'
  BY <1>2, <1>3, <1>6, <1>7, SubmittedWaits, Zenon DEF workVars
<1>12. (\A x : Absent(x)' <=> Absent(x)) /\ SchedInv'
  BY <1>2, TableKept, Zenon DEF tabVars, workVars, history
<1>13. Types'
  <2>1. waiter' \in [done : BOOLEAN, status : {"ok", "ENOMEM"}]
    BY <1>2, Zenon DEF NotReset
  <2> QED
    BY <1>2, <1>5, <1>8, <1>10, <2>1, Zenon DEF IInv, Types, tabVars, workVars, history
<1>14. CallInv'
  BY <1>2, <1>4, <1>5, <1>6, Zenon DEF IInv, CallInv, workVars
<1>15. WorkInv'
  BY <1>2, Zenon DEF IInv, WorkInv, tabVars, workVars
<1>16. ExcInv'
  BY <1>2, <1>4, Zenon DEF ExcInv
<1>17. LifeInv'
  <2>1. ~Settled(c)
    BY <1>1, Zenon DEF IInv, LifeInv
  <2>2. Pending \subseteq Commands
    BY DEF IInv, Types, Pending, Range
  <2>3. \A x \in Pending : x.type # "shutdown" => x.ch \in Channels
    BY <2>2, CommandChannel, Zenon
  <2>4. \A x \in Pending' : /\ x.type = "create" => x.waiter /\ chan'[x.ch].made /\ ~Settled(x.ch)
                            /\ x.type = "close" => Settled(x.ch)
                            /\ x.type = "close" /\ ~x.waiter => chan'[x.ch].closed /\ ~chan'[x.ch].held
    <3>1. \A x \in Pending : x.type # "create"
      BY <1>4, Zenon DEF IInv, LifeInv
    <3>2. \A x \in Pending : x.type = "close" => x.ch # c
      BY <2>1, Zenon DEF IInv, LifeInv
    <3>3. \A x \in Pending : x.type = "close" =>
            Settled(x.ch) /\ (~x.waiter => chan'[x.ch].closed /\ ~chan'[x.ch].held)
      BY <1>8, <2>3, <3>2, Zenon DEF IInv, LifeInv
    <3> QED
      BY <1>3, <1>8, <1>10, <2>1, <3>1, <3>3, Zenon
  <2>5. \A x \in Channels : Settled(x) => chan'[x].made
    BY <1>8, Zenon DEF IInv, LifeInv
  <2>6. \A x \in Channels : outcome'[x] # "none" => chan'[x].closed
    BY <1>2, <1>8, Zenon DEF IInv, LifeInv, history
  <2>7. \A x \in Pending' : x.type # "shutdown" => x.ch \in Channels
    BY <1>3, <1>10, <2>3, Zenon
  <2>8. \A x \in Pending' : (x.type = "create" => ~Settled(x.ch)') /\ (x.type = "close" => Settled(x.ch)')
    BY <1>9, <2>4, <2>7, Zenon
  <2> QED
    BY <1>5, <1>6, <1>8, <1>9, <2>1, <2>4, <2>5, <2>6, <2>8 DEF LifeInv
<1>18. AbsentInv'
  <2>1. Absent(c)
    BY <1>1, Zenon DEF IInv, AbsentInv
  <2>2. (\A i \in DOMAIN queue : queue[i].type = "create" => Absent(queue[i].ch))'
    BY <1>3, <1>10, <1>12, <2>1, Zenon DEF IInv, AbsentInv
  <2>3. \A x \in Channels : ~chan'[x].made => ~chan[x].made
    BY <1>8, Zenon
  <2> QED
    BY <1>2, <1>5, <1>6, <1>12, <2>2, <2>3, Zenon DEF IInv, AbsentInv, workVars, history
<1>19. ExceptionIsOwn'
  BY <1>2, Zenon DEF IInv, ExceptionIsOwn, history
<1> QED
  BY <1>10, <1>11, <1>12, <1>13, <1>14, <1>15, <1>16, <1>17, <1>18, <1>19, Zenon DEF IInv

\* close() while another method has the waiter: close_exc is cleared, nothing else.
LEMMA CloseRefusedKeeps ==
  ASSUME IInv, close_exc' = {},
         UNCHANGED <<cmdVars, tabVars, workVars, call, chan, history>>
  PROVE  IInv'
<1>1. Types'
  BY DEF IInv, Types, cmdVars, tabVars, workVars, history
<1>2. CallInv' /\ WaitInv' /\ StopInv'
  BY Zenon DEF IInv, CallInv, WaitInv, StopInv, Waits, Awaited, Pending, cmdVars, workVars
<1>3. WorkInv'
  BY Zenon DEF IInv, WorkInv, tabVars, workVars
<1>4. ExcInv'
  BY Zenon DEF ExcInv
<1>5. LifeInv'
  BY Zenon DEF IInv, LifeInv, Settled, Pending, Waits, cmdVars, workVars, history
<1>6. (\A x : Absent(x)' <=> Absent(x)) /\ SchedInv'
  BY TableKept, Zenon DEF tabVars, workVars, history
<1>7. AbsentInv'
  BY <1>6, Zenon DEF IInv, AbsentInv, Waits, cmdVars, workVars, history
<1>8. ExceptionIsOwn'
  BY Zenon DEF IInv, ExceptionIsOwn, history
<1> QED
  BY <1>1, <1>2, <1>3, <1>4, <1>5, <1>6, <1>7, <1>8, Zenon DEF IInv

\* close() after shutdown(): nobody waits, so no create command of the channel is
\* pending and no other close() of it is on its way.
LEMMA CloseLocalKeeps ==
  ASSUME IInv, NEW c \in Channels, Open(c), ~busy,
         chan' = [chan EXCEPT ![c].closed = TRUE], outcome' = [outcome EXCEPT ![c] = "local"],
         close_exc' = {},
         UNCHANGED <<cmdVars, tabVars, workVars, call, ended, failed>>
  PROVE  IInv'
<1>1. /\ chan' \in [Channels -> ChannelStates]
      /\ chan'[c].made = chan[c].made /\ chan'[c].held = chan[c].held /\ chan'[c].closed = TRUE
      /\ \A x \in Channels : x # c => chan'[x] = chan[x]
  BY ClosedFacts, Zenon
<1>2. /\ outcome' \in [Channels -> {"none", "clean", "own", "other", "local"}]
      /\ outcome'[c] = "local" /\ \A x \in Channels : x # c => outcome'[x] = outcome[x]
  BY Zenon DEF IInv, Types
<1>3. \A x \in Channels : (Settled(x)' <=> Settled(x)) /\ chan'[x].made = chan[x].made
        /\ chan'[x].held = chan[x].held /\ (chan[x].closed => chan'[x].closed)
  BY <1>1, Zenon DEF Settled, Open
<1>4. \A u \in Threads : ~Waits(u) /\ ~Waits(u)'
  BY NobodyWaits, Zenon DEF Waits
<1>5. Types'
  BY <1>1, <1>2, Zenon DEF IInv, Types, cmdVars, tabVars, workVars
<1>6. CallInv' /\ WaitInv' /\ StopInv'
  BY Zenon DEF IInv, CallInv, WaitInv, StopInv, Waits, Awaited, Pending, cmdVars, workVars
<1>7. WorkInv'
  BY Zenon DEF IInv, WorkInv, tabVars, workVars
<1>8. ExcInv'
  BY Zenon DEF ExcInv
<1>9. LifeInv'
  <2>1. Pending' = Pending /\ Pending \subseteq Commands
    BY DEF IInv, Types, Pending, Range, cmdVars, workVars
  <2>2. \A x \in Pending : x.type # "shutdown" => x.ch \in Channels
    BY <2>1, CommandChannel, Zenon
  <2>3. \A x \in Pending : x.type \in {"create", "close"} => x.ch \in Channels
    BY <2>2, Zenon
  <2>4. \A x \in Pending : /\ x.type = "create" => x.waiter /\ chan'[x.ch].made /\ ~Settled(x.ch)'
                           /\ x.type = "close" => Settled(x.ch)'
                           /\ x.type = "close" /\ ~x.waiter => chan'[x.ch].closed /\ ~chan'[x.ch].held
    BY <1>3, <2>3 DEF IInv, LifeInv
  <2>5. \A x \in Channels : (Settled(x)' => chan'[x].made) /\ (outcome'[x] # "none" => chan'[x].closed)
    BY <1>1, <1>2, <1>3 DEF IInv, LifeInv
  <2> QED
    BY <1>4, <2>1, <2>4, <2>5, Zenon DEF LifeInv
<1>10. (\A x : Absent(x)' <=> Absent(x)) /\ SchedInv'
  BY TableKept, Zenon DEF tabVars, workVars
<1>11. AbsentInv'
  BY <1>2, <1>3, <1>4, <1>10, Zenon DEF IInv, AbsentInv, cmdVars, workVars
<1>12. ExceptionIsOwn'
  BY <1>2, Zenon DEF IInv, ExceptionIsOwn
<1> QED
  BY <1>5, <1>6, <1>7, <1>8, <1>9, <1>10, <1>11, <1>12, Zenon DEF IInv

\* close() by a thread or by a callback queues its command and waits.
LEMMA CloseQueuedKeeps ==
  ASSUME IInv, NEW c \in Channels, Open(c), ~busy, accepting,
         busy' = TRUE, waiter' = NotReset, queue' = Append(queue, Cmd("close", c, TRUE)),
         close_exc' = {}, call' \in [Threads -> Calls],
         \A u \in Threads : IF Waits(u)' THEN call'[u].op = "close" /\ call'[u].ch = c
                                         ELSE call'[u].ch = NoChannel,
         \A u, v \in Threads : Waits(u)' /\ Waits(v)' => u = v,
         \/ wpc' = wpc /\ \E u \in Threads : Waits(u)'
         \/ wpc = "callback" /\ wpc' = "selfwait" /\ \A u \in Threads : ~Waits(u)',
         UNCHANGED <<accepting, shutdown_queued, worker_running, tabVars, batch, status, taken,
                     cb, stop_seen, chan, history>>
  PROVE  IInv'
<1> DEFINE m == Cmd("close", c, TRUE)
<1>1. m \in Commands /\ m.type = "close" /\ m.waiter /\ m.ch = c /\ queue' = Append(queue, m)
  BY Zenon DEF Commands, Cmd
<1>2. \A u \in Threads : Waits(u)' => Awaited(u)' = m
  BY Zenon DEF Awaited
<1> HIDE DEF m
<1>3. wpc # "selfwait" /\ \A u \in Threads : ~Waits(u)
  BY NobodyWaits, Zenon
<1>4. /\ queue' \in Seq(Commands) /\ Pending' = Pending \cup {m} /\ StopInv'
      /\ \A i \in DOMAIN queue' :
           (i = Len(queue) + 1 /\ queue'[i] = m) \/ (i \in DOMAIN queue /\ queue'[i] = queue[i])
  BY <1>1, QueuedFacts, Zenon
<1>5. WaitInv'
  BY <1>1, <1>2, SubmittedWaits, Zenon
<1>6. (\A x : Absent(x)' <=> Absent(x)) /\ SchedInv'
  BY TableKept, Zenon DEF tabVars, history
<1>7. Types'
  <2>1. waiter' \in [done : BOOLEAN, status : {"ok", "ENOMEM"}] /\ wpc' \in WorkerPcs
    BY Zenon DEF NotReset, WorkerPcs, IInv, Types
  <2> QED
    BY <1>4, <2>1, Zenon DEF IInv, Types, tabVars, history
<1>8. CallInv'
  BY <1>3, Zenon DEF IInv, CallInv
<1>9. WorkInv'
  BY Zenon DEF IInv, WorkInv, tabVars
<1>10. ExcInv'
  BY Zenon DEF ExcInv
<1>11. LifeInv'
  <2>1. \A x : Settled(x)' <=> Settled(x)
    BY Zenon DEF Settled
  <2>2. Settled(c) /\ chan[c].held
    BY Zenon DEF Open, Settled
  <2>3. \A u \in Threads : Waits(u)' => call'[u].op = "close" /\ chan'[call'[u].ch].held
    BY <2>2, Zenon
  <2>4. \A x \in Pending' : /\ x.type = "create" => x.waiter /\ chan[x.ch].made /\ ~Settled(x.ch)
                            /\ x.type = "close" => Settled(x.ch)
                            /\ x.type = "close" /\ ~x.waiter => chan[x.ch].closed /\ ~chan[x.ch].held
    BY <1>1, <1>4, <2>2, Zenon DEF IInv, LifeInv
  <2>5. \A x \in Channels : (Settled(x) => chan[x].made) /\ (outcome[x] # "none" => chan[x].closed)
    BY Zenon DEF IInv, LifeInv
  <2> QED
    BY <2>1, <2>3, <2>4, <2>5, Zenon DEF LifeInv, history
<1>12. AbsentInv'
  <2>1. (\A i \in DOMAIN queue : queue[i].type = "create" => Absent(queue[i].ch))'
    BY <1>1, <1>4, <1>6, Zenon DEF IInv, AbsentInv
  <2>2. ~waiter'.done
    BY Zenon DEF NotReset
  <2>3. wpc' \in {"batch", "steal", "complete"} => wpc' = wpc
    BY Zenon
  <2>4. (\A i \in DOMAIN batch : batch[i].type = "create" /\ (i > 1 \/ wpc = "batch") =>
          Absent(batch[i].ch))'
    BY <1>6, <2>3, Zenon DEF IInv, AbsentInv
  <2>5. (wpc \in {"steal", "complete"} /\ Head(batch).type = "close" => Absent(Head(batch).ch))'
    BY <1>6, <2>3, Zenon DEF IInv, AbsentInv
  <2>6. (\A x \in Channels : ~chan[x].made => Absent(x))'
    BY <1>6, Zenon DEF IInv, AbsentInv
  <2>7. (\A x \in Channels : outcome[x] \in {"clean", "own", "other"} => Absent(x))'
    BY <1>6, Zenon DEF IInv, AbsentInv, history
  <2> QED
    BY <2>1, <2>2, <2>4, <2>5, <2>6, <2>7, Zenon DEF AbsentInv
<1>13. ExceptionIsOwn'
  BY Zenon DEF IInv, ExceptionIsOwn, history
<1> QED
  BY <1>4, <1>5, <1>6, <1>7, <1>8, <1>9, <1>10, <1>11, <1>12, <1>13, Zenon DEF IInv

\* A thread calls close().
LEMMA CloseKeeps ==
  ASSUME IInv, NEW t \in Threads, NEW c \in Channels, Close(t, c)
  PROVE  IInv'
<1>1. /\ call[t].pc = "idle" /\ Open(c) /\ close_exc' = {}
      /\ UNCHANGED <<accepting, shutdown_queued, worker_running, tabVars, workVars,
                     ended, failed>>
  BY Zenon DEF Close
<1>2. CASE busy /\ UNCHANGED <<busy, waiter, queue, call, chan, outcome>>
  BY <1>1, <1>2, CloseRefusedKeeps, Zenon DEF cmdVars, history
<1>3. CASE ~busy /\ accepting /\ Submit(t, "close", c) /\ UNCHANGED <<chan, outcome>>
  <2>1. /\ busy' = TRUE /\ waiter' = NotReset /\ queue' = Append(queue, Cmd("close", c, TRUE))
        /\ call' = [call EXCEPT ![t] = [pc |-> "wait", op |-> "close", ch |-> c]]
    BY <1>3, Zenon DEF Submit
  <2>2. /\ call' \in [Threads -> Calls] /\ call'[t].pc = "wait" /\ call'[t].op = "close"
        /\ call'[t].ch = c /\ \A u \in Threads : u # t => call'[u] = call[u]
    BY <2>1, Zenon DEF IInv, Types, Calls
  <2>3. \A u \in Threads : ~Waits(u) /\ call[u].ch = NoChannel
    BY <1>3, NobodyWaits, Zenon DEF IInv, CallInv
  <2>4. /\ \A u \in Threads : Waits(u)' <=> u = t
        /\ \A u \in Threads : IF Waits(u)' THEN call'[u].op = "close" /\ call'[u].ch = c
                                           ELSE call'[u].ch = NoChannel
    BY <2>2, <2>3, Zenon DEF Waits
  <2>5. wpc' = wpc /\ \E u \in Threads : Waits(u)'
    BY <1>1, <2>4, Zenon DEF workVars
  <2> QED
    BY <1>1, <1>3, <2>1, <2>2, <2>4, <2>5, CloseQueuedKeeps, ZenonT(60) DEF workVars, history
<1>4. CASE /\ ~busy /\ ~accepting
           /\ chan' = [chan EXCEPT ![c].closed = TRUE]
           /\ outcome' = [outcome EXCEPT ![c] = "local"]
           /\ UNCHANGED <<busy, waiter, queue, call>>
  BY <1>1, <1>4, CloseLocalKeeps, Zenon DEF cmdVars
<1> QED
  BY <1>2, <1>3, <1>4, Zenon DEF Close

\* A callback calls close().
LEMMA CallbackCloseKeeps ==
  ASSUME IInv, NEW c \in Channels, CallbackClose(c)
  PROVE  IInv'
<1>1. /\ wpc = "callback" /\ Open(c) /\ close_exc' = {}
      /\ UNCHANGED <<accepting, shutdown_queued, worker_running, tabVars, batch, status, taken,
                     cb, stop_seen, call, ended, failed>>
  BY Zenon DEF CallbackClose
<1>2. CASE busy /\ UNCHANGED <<busy, waiter, queue, wpc, chan, outcome>>
  BY <1>1, <1>2, CloseRefusedKeeps, Zenon DEF cmdVars, workVars, history
<1>3. CASE /\ ~busy /\ accepting
           /\ busy' = TRUE /\ waiter' = NotReset
           /\ queue' = Append(queue, Cmd("close", c, TRUE))
           /\ wpc' = "selfwait"
           /\ UNCHANGED <<chan, outcome>>
  <2>1. \A u \in Threads : ~Waits(u) /\ ~Waits(u)' /\ call'[u].ch = NoChannel
    BY <1>1, <1>3, NobodyWaits, Zenon DEF IInv, CallInv, Waits
  <2>2. call' \in [Threads -> Calls]
    BY <1>1, Zenon DEF IInv, Types
  <2> QED
    BY <1>1, <1>3, <2>1, <2>2, CloseQueuedKeeps, Zenon DEF history
<1>4. CASE /\ ~busy /\ ~accepting
           /\ chan' = [chan EXCEPT ![c].closed = TRUE]
           /\ outcome' = [outcome EXCEPT ![c] = "local"]
           /\ UNCHANGED <<busy, waiter, queue, wpc>>
  BY <1>1, <1>4, CloseLocalKeeps, Zenon DEF cmdVars, workVars
<1> QED
  BY <1>2, <1>3, <1>4, Zenon DEF CallbackClose

\* The worker has not begun or ended to wait for itself.
LEMMA WaitsKept ==
  ASSUME IInv, SameWaits, UNCHANGED <<busy, close_exc, wpc, outcome>>
  PROVE  CallInv' /\ ExcInv' /\ ExceptionIsOwn'
<1>1. \A t \in Threads : /\ Waits(t)' <=> Waits(t)
                         /\ Waits(t) => call'[t] = call[t]
                         /\ ~Waits(t) => call'[t].ch = NoChannel
  BY Zenon DEF SameWaits, Waits
<1>2. CallInv'
  BY <1>1, Zenon DEF IInv, CallInv
<1>3. ExcInv'
  BY <1>1, Zenon DEF IInv, ExcInv
<1>4. ExceptionIsOwn'
  BY Zenon DEF IInv, ExceptionIsOwn
<1> QED
  BY <1>2, <1>3, <1>4, Zenon

\* A thread calls shutdown().
LEMMA ShutdownKeeps ==
  ASSUME IInv, NEW t \in Threads, Shutdown(t)
  PROVE  IInv'
<1>1. /\ call[t].pc = "idle" /\ QueueShutdown
      /\ call' = [call EXCEPT ![t] = [Idle EXCEPT !.pc = "join", !.op = "shutdown"]]
      /\ UNCHANGED <<worker_running, busy, waiter, close_exc, tabVars, workVars, chan, history>>
  BY Zenon DEF Shutdown
<1>2. /\ call' \in [Threads -> Calls] /\ call'[t].pc = "join" /\ call'[t].ch = NoChannel
      /\ \A u \in Threads : u # t => call'[u] = call[u]
  BY <1>1, Zenon DEF IInv, Types, Calls, Idle
<1>3. SameWaits
  BY <1>1, <1>2, Zenon DEF SameWaits, Waits, IInv, CallInv
<1>4. /\ queue' \in Seq(Commands) /\ WaitInv' /\ StopInv' /\ LifeInv'
      /\ \A i \in DOMAIN queue' : queue'[i].type # "create" \/ (i \in DOMAIN queue /\ queue'[i] = queue[i])
  BY <1>1, <1>3, QueueShutdownKeeps, Zenon DEF workVars, history
<1>5. (\A x : Absent(x)' <=> Absent(x)) /\ SchedInv'
  BY <1>1, TableKept, Zenon DEF tabVars, workVars, history
<1>6. Types'
  BY <1>1, <1>2, <1>4, ZenonT(60) DEF IInv, Types, QueueShutdown, tabVars, workVars, history
<1>7. CallInv' /\ ExcInv' /\ ExceptionIsOwn'
  BY <1>1, <1>3, WaitsKept, Zenon DEF workVars, history
<1>8. WorkInv'
  BY <1>1, Zenon DEF IInv, WorkInv, tabVars, workVars
<1>9. AbsentInv'
  <2>1. \A u \in Threads : Waits(u)' => Waits(u) /\ call'[u] = call[u]
    BY <1>3, Zenon DEF SameWaits
  <2> QED
    BY <1>1, <1>4, <1>5, <2>1, Zenon DEF IInv, AbsentInv, workVars, history
<1> QED
  BY <1>4, <1>5, <1>6, <1>7, <1>8, <1>9, Zenon DEF IInv

\* pthread_join returns.
LEMMA JoinedKeeps ==
  ASSUME IInv, NEW t \in Threads, Joined(t)
  PROVE  IInv'
<1>1. /\ call[t].pc = "join" /\ worker_running' = FALSE /\ call' = [call EXCEPT ![t] = Idle]
      /\ UNCHANGED <<accepting, shutdown_queued, busy, waiter, queue, close_exc,
                     tabVars, workVars, chan, history>>
  BY Zenon DEF Joined, Joining
<1>2. /\ call' \in [Threads -> Calls] /\ call'[t].pc = "idle" /\ call'[t].ch = NoChannel
      /\ \A u \in Threads : u # t => call'[u] = call[u]
  BY <1>1, Zenon DEF IInv, Types, Calls, Idle
<1>3. SameWaits
  BY <1>1, <1>2, Zenon DEF SameWaits, Waits, IInv, CallInv
<1>4. \A u \in Threads : (Waits(u)' <=> Waits(u)) /\ (Waits(u) => call'[u] = call[u])
  BY <1>3, Zenon DEF SameWaits, Waits
<1>5. (\A x : Absent(x)' <=> Absent(x)) /\ SchedInv'
  BY <1>1, TableKept, Zenon DEF tabVars, workVars, history
<1>6. Types'
  BY <1>1, <1>2, ZenonT(60) DEF IInv, Types, tabVars, workVars, history
<1>7. CallInv' /\ ExcInv' /\ ExceptionIsOwn'
  BY <1>1, <1>3, WaitsKept, Zenon DEF workVars, history
<1>8. WaitInv' /\ StopInv'
  <2>1. Pending' = Pending /\ \A u \in Threads : Waits(u) => Awaited(u)' = Awaited(u)
    BY <1>1, <1>4, Zenon DEF Awaited, Pending, workVars
  <2>2. WaitInv'
    BY <1>1, <1>4, <2>1, Zenon DEF IInv, WaitInv, workVars
  <2>3. StopInv'
    BY <1>1, <2>1, Zenon DEF IInv, StopInv, workVars
  <2> QED
    BY <2>2, <2>3, Zenon
<1>9. WorkInv'
  BY <1>1, Zenon DEF IInv, WorkInv, tabVars, workVars
<1>10. LifeInv'
  BY <1>1, <1>4, ZenonT(60) DEF IInv, LifeInv, Settled, Pending, workVars, history
<1>11. AbsentInv'
  BY <1>1, <1>4, <1>5, Zenon DEF IInv, AbsentInv, workVars, history
<1> QED
  BY <1>5, <1>6, <1>7, <1>8, <1>9, <1>10, <1>11, Zenon DEF IInv

\* The last reference to a channel goes.
LEMMA DelChannelKeeps ==
  ASSUME IInv, NEW t \in Threads, NEW c \in Channels, DelChannel(t, c)
  PROVE  IInv'
<1> DEFINE m == Cmd("close", c, FALSE)
<1>1. /\ chan[c].held /\ \A u \in Threads : call[u].ch # c
      /\ queue' = IF accepting /\ ~chan[c].closed THEN Append(queue, m) ELSE queue
      /\ UNCHANGED <<accepting, shutdown_queued, worker_running, busy, waiter,
                     close_exc, tabVars, workVars, call, history>>
  BY Zenon DEF DelChannel
<1>2. /\ chan' \in [Channels -> ChannelStates]
      /\ chan'[c].made = chan[c].made /\ chan'[c].held = FALSE /\ chan'[c].closed = TRUE
      /\ \A x \in Channels : x # c => chan'[x] = chan[x]
  <2>1. PICK b \in BOOLEAN, d \in BOOLEAN : b = FALSE /\ d = TRUE
    BY Zenon
  <2>2. chan' = [chan EXCEPT ![c].held = b, ![c].closed = d]
    BY <2>1, Zenon DEF DelChannel
  <2> QED
    BY <2>1, <2>2, HeldFacts, Zenon
<1>3. m \in Commands /\ m.type = "close" /\ ~m.waiter /\ m.ch = c
  BY Zenon DEF Commands, Cmd
<1> HIDE DEF m
<1>4. /\ queue' \in Seq(Commands) /\ StopInv'
      /\ Pending \subseteq Pending' /\ Pending' \subseteq Pending \cup {m}
      /\ \A i \in DOMAIN queue' : queue'[i] = m \/ (i \in DOMAIN queue /\ queue'[i] = queue[i])
  <2>1. CASE accepting /\ ~chan[c].closed
    BY <1>1, <1>3, <2>1, QueuedFacts, Zenon DEF workVars
  <2>2. CASE ~(accepting /\ ~chan[c].closed)
    <3>1. queue' = queue /\ queue \in Seq(Commands)
      BY <1>1, <2>2, Zenon DEF IInv, Types
    <3>2. Pending' = Pending
      BY <1>1, <3>1, Zenon DEF Pending, workVars
    <3>3. StopInv'
      BY <1>1, <3>1, <3>2, Zenon DEF IInv, StopInv, workVars
    <3> QED
      BY <3>1, <3>2, <3>3, Zenon
  <2> QED
    BY <2>1, <2>2, Zenon
<1>5. \A x \in Channels : (Settled(x)' <=> Settled(x)) /\ chan'[x].made = chan[x].made
        /\ (x # c => chan'[x].held = chan[x].held) /\ (chan[x].closed => chan'[x].closed)
        /\ (chan'[x].held => chan[x].held)
  BY <1>1, <1>2, Zenon DEF Settled
<1>6. \A u \in Threads : (Waits(u)' <=> Waits(u)) /\ Awaited(u)' = Awaited(u)
  BY <1>1, Zenon DEF Waits, Awaited
<1>7. (\A x : Absent(x)' <=> Absent(x)) /\ SchedInv'
  BY <1>1, TableKept, Zenon DEF tabVars, workVars, history
<1>8. Types'
  BY <1>1, <1>2, <1>4, ZenonT(60) DEF IInv, Types, tabVars, workVars, history
<1>9. CallInv' /\ ExcInv' /\ ExceptionIsOwn'
  <2>1. SameWaits
    BY <1>1, Zenon DEF SameWaits, Waits, IInv, CallInv
  <2> QED
    BY <1>1, <2>1, WaitsKept, Zenon DEF workVars, history
<1>10. WaitInv'
  <2>1. \A i \in DOMAIN queue' : queue'[i].waiter => i \in DOMAIN queue /\ queue'[i] = queue[i]
    BY <1>3, <1>4, Zenon
  <2>2. \A x \in Pending' : x.waiter => x \in Pending
    BY <1>3, <1>4, Zenon
  <2>3. \A i, j \in DOMAIN queue' : queue'[i].waiter /\ queue'[j].waiter => i = j
    BY <2>1, Zenon DEF IInv, WaitInv
  <2>4. batch' = batch /\ wpc' = wpc /\ waiter' = waiter
    BY <1>1, Zenon DEF workVars
  <2>5. \A i \in DOMAIN queue', j \in DOMAIN batch' : ~(queue'[i].waiter /\ batch'[j].waiter)
    BY <2>1, <2>4, Zenon DEF IInv, WaitInv
  <2>6. \A x \in Pending' : x.waiter =>
          /\ ~waiter'.done
          /\ wpc' = "selfwait" \/ \E u \in Threads : Waits(u)' /\ x = Awaited(u)'
    BY <1>6, <2>2, <2>4, Zenon DEF IInv, WaitInv
  <2>7. \A u \in Threads : Waits(u)' => waiter'.done \/ Awaited(u)' \in Pending'
    BY <1>4, <1>6, <2>4, Zenon DEF IInv, WaitInv
  <2> QED
    BY <2>3, <2>4, <2>5, <2>6, <2>7, Zenon DEF IInv, WaitInv
<1>11. WorkInv'
  BY <1>1, Zenon DEF IInv, WorkInv, tabVars, workVars
<1>12. LifeInv'
  <2>1. Pending \subseteq Commands
    <3>1. queue \in Seq(Commands) /\ batch \in Seq(Commands)
      BY Zenon DEF IInv, Types
    <3> QED
      BY ONLY <3>1 DEF Pending, Range
  <2>2. \A x \in Pending' : x.type \in {"create", "close"} => x.ch \in Channels
    BY <1>3, <1>4, <2>1, CommandChannel, Zenon
  <2>3. \A x \in Pending' : /\ x.type = "create" => x.waiter /\ chan'[x.ch].made /\ ~Settled(x.ch)
                            /\ x.type = "close" => Settled(x.ch)
                            /\ x.type = "close" /\ ~x.waiter => chan'[x.ch].closed /\ ~chan'[x.ch].held
    <3>1. Settled(c)
      BY <1>1, Zenon DEF Settled
    <3>2. ASSUME NEW x \in Pending
          PROVE  /\ x.type = "create" => x.waiter /\ chan'[x.ch].made /\ ~Settled(x.ch)
                 /\ x.type = "close" => Settled(x.ch)
                 /\ x.type = "close" /\ ~x.waiter => chan'[x.ch].closed /\ ~chan'[x.ch].held
      <4>1. x \in Pending' /\ (x.type \in {"create", "close"} => x.ch \in Channels)
        BY <1>4, <2>2, Zenon
      <4> QED
        BY <1>5, <4>1, Zenon DEF IInv, LifeInv
    <3> QED
      BY <1>2, <1>3, <1>4, <3>1, <3>2, Zenon
  <2>4. \A x \in Pending' : (x.type = "create" => ~Settled(x.ch)') /\ (x.type = "close" => Settled(x.ch)')
    BY <1>5, <2>2, <2>3, Zenon
  <2>5. \A u \in Threads : Waits(u) =>
          /\ call[u].op = "create" => chan'[call[u].ch].made /\ ~Settled(call[u].ch)
          /\ call[u].op = "close" => chan'[call[u].ch].held
          /\ call[u].ch \in Channels
    <3>1. \A u \in Threads : Waits(u) => call[u].ch \in Channels /\ call[u].ch # c
      BY <1>1, Zenon DEF IInv, CallInv
    <3>2. \A u \in Threads : Waits(u) =>
            /\ call[u].op = "create" => chan[call[u].ch].made /\ ~Settled(call[u].ch)
            /\ call[u].op = "close" => chan[call[u].ch].held
      BY Zenon DEF IInv, LifeInv
    <3> QED
      BY <1>2, <3>1, <3>2, Zenon
  <2>6. call' = call /\ outcome' = outcome
    BY <1>1, Zenon DEF history
  <2>7. \A u \in Threads : Waits(u) => (call[u].op = "create" => ~Settled(call[u].ch)')
    BY <1>5, <2>5, <2>6, Zenon
  <2>8. \A x \in Channels : (Settled(x)' => chan'[x].made) /\ (outcome[x] # "none" => chan'[x].closed)
    BY <1>5, Zenon DEF IInv, LifeInv
  <2> QED
    BY <1>6, <2>3, <2>4, <2>5, <2>6, <2>7, <2>8, Zenon DEF LifeInv
<1>13. AbsentInv'
  <2>1. (\A i \in DOMAIN queue : queue[i].type = "create" => Absent(queue[i].ch))'
    BY <1>3, <1>4, <1>7, Zenon DEF IInv, AbsentInv
  <2> QED
    BY <1>1, <1>5, <1>6, <1>7, <2>1, Zenon DEF IInv, AbsentInv, workVars, history
<1> QED
  BY <1>4, <1>7, <1>8, <1>9, <1>10, <1>11, <1>12, <1>13, Zenon DEF IInv

\* A thread whose command is done is the only one that waits, and no pending
\* command has the waiter.
LEMMA WokenAlone ==
  ASSUME IInv, NEW t \in Threads, Woken(t)
  PROVE  /\ Waits(t) /\ call[t].op \in {"create", "close"} /\ call[t].ch \in Channels
         /\ waiter.done /\ wpc # "selfwait"
         /\ \A x \in Pending : ~x.waiter /\ x.type # "create"
         /\ call' \in [Threads -> Calls]
         /\ \A u \in Threads : ~Waits(u)' /\ call'[u].ch = NoChannel
         /\ close_exc # {} => call[t].op = "close" /\ close_exc = {call[t].ch}
<1>1. Waits(t) /\ waiter.done /\ call' = [call EXCEPT ![t] = Idle]
  BY Zenon DEF Woken, Waits
<1>2. call[t].op \in {"create", "close"} /\ call[t].ch \in Channels /\ wpc # "selfwait"
  BY <1>1, Zenon DEF IInv, CallInv
<1>3. \A x \in Pending : ~x.waiter /\ x.type # "create"
  BY <1>1, Zenon DEF IInv, WaitInv, LifeInv
<1>4. \A u \in Threads : u # t => ~Waits(u) /\ call[u].ch = NoChannel
  BY <1>1, Zenon DEF IInv, CallInv
<1>5. /\ call' \in [Threads -> Calls] /\ call'[t].pc = "idle" /\ call'[t].ch = NoChannel
      /\ \A u \in Threads : u # t => call'[u] = call[u]
  BY <1>1, Zenon DEF IInv, Types, Calls, Idle
<1>6. \A u \in Threads : ~Waits(u)' /\ call'[u].ch = NoChannel
  BY <1>4, <1>5, Zenon DEF Waits
<1>7. close_exc # {} => call[t].op = "close" /\ close_exc = {call[t].ch}
  BY <1>1, <1>4, Zenon DEF IInv, ExcInv
<1> QED
  BY <1>1, <1>2, <1>3, <1>5, <1>6, <1>7, Zenon

\* The method ends: create_channel has its channel or an error, close() has closed.
LEMMA WokenKeeps ==
  ASSUME IInv, NEW t \in Threads, Woken(t)
  PROVE  IInv'
<1>1. PICK c \in Channels : c = call[t].ch
  BY WokenAlone, Zenon
<1>2. /\ Waits(t) /\ call[t].op \in {"create", "close"} /\ waiter.done /\ wpc # "selfwait"
      /\ \A x \in Pending : ~x.waiter /\ x.type # "create"
      /\ call' \in [Threads -> Calls] /\ \A u \in Threads : ~Waits(u)' /\ call'[u].ch = NoChannel
      /\ close_exc # {} => call[t].op = "close" /\ close_exc = {c}
  BY <1>1, WokenAlone, Zenon
<1>3. /\ busy' = FALSE
      /\ UNCHANGED <<accepting, shutdown_queued, worker_running, waiter, queue, tabVars,
                     workVars, ended, failed>>
  BY Zenon DEF Woken
<1>4. /\ chan' \in [Channels -> ChannelStates] /\ chan'[c].made = chan[c].made
      /\ \A x \in Channels : x # c => chan'[x] = chan[x]
      /\ Settled(c)' /\ (call[t].op = "close" => Settled(c) /\ chan'[c].closed)
  <2>1. CASE call[t].op = "create"
    <3>1. PICK b \in BOOLEAN, d \in BOOLEAN : b = (waiter.status = "ok") /\ d = (waiter.status # "ok")
      BY Zenon
    <3>2. chan' = [chan EXCEPT ![c].held = b, ![c].closed = d]
      BY <1>1, <2>1, <3>1, Zenon DEF Woken
    <3>3. /\ chan' \in [Channels -> ChannelStates] /\ chan'[c].made = chan[c].made
          /\ chan'[c].held = b /\ chan'[c].closed = d
          /\ \A x \in Channels : x # c => chan'[x] = chan[x]
      BY <3>2, HeldFacts, Zenon
    <3> QED
      BY <2>1, <3>1, <3>3, Zenon DEF Settled
  <2>2. CASE call[t].op = "close"
    <3>1. chan' = [chan EXCEPT ![c].closed = TRUE]
      BY <1>1, <2>2, Zenon DEF Woken
    <3>2. Settled(c)
      BY <1>1, <1>2, <2>2, Zenon DEF IInv, LifeInv, Settled
    <3> QED
      BY <3>1, <3>2, ClosedFacts, Zenon DEF Settled
  <2> QED
    BY <1>2, <2>1, <2>2, Zenon
<1>5. /\ outcome' \in [Channels -> {"none", "clean", "own", "other", "local"}]
      /\ \A x \in Channels : x # c => outcome'[x] = outcome[x]
      /\ outcome'[c] # "other"
      /\ outcome'[c] # "none" => chan'[c].closed
      /\ outcome'[c] \in {"clean", "own", "other"} => Absent(c)
      /\ close_exc' = {}
  <2>1. CASE call[t].op = "create"
    <3>1. outcome' = outcome /\ close_exc' = close_exc
      BY <2>1, Zenon DEF Woken
    <3>2. outcome[c] = "none"
      BY <1>1, <1>2, <2>1, Zenon DEF IInv, LifeInv, Settled
    <3> QED
      BY <1>2, <2>1, <3>1, <3>2, Zenon DEF IInv, Types
  <2>2. CASE call[t].op = "close"
    <3>1. outcome' = [outcome EXCEPT ![c] = CloseOutcome(c)] /\ close_exc' = {}
      BY <1>1, <2>2, Zenon DEF Woken
    <3>2. CloseOutcome(c) \in {"clean", "own"}
      BY <1>2, Zenon DEF CloseOutcome
    <3>3. /\ outcome' \in [Channels -> {"none", "clean", "own", "other", "local"}]
          /\ outcome'[c] = CloseOutcome(c) /\ \A x \in Channels : x # c => outcome'[x] = outcome[x]
      BY <3>1, <3>2, Zenon DEF IInv, Types
    <3>4. Absent(c)
      BY <1>1, <1>2, <2>2, Zenon DEF IInv, AbsentInv
    <3> QED
      BY <1>4, <2>2, <3>1, <3>2, <3>3, <3>4, Zenon
  <2> QED
    BY <1>2, <2>1, <2>2, Zenon
<1>6. (\A x : Absent(x)' <=> Absent(x)) /\ SchedInv'
  BY <1>3, TableKept, Zenon DEF tabVars, workVars
<1>7. Pending' = Pending
  BY <1>3, Zenon DEF Pending, workVars
<1>8. Types'
  BY <1>2, <1>3, <1>4, <1>5, ZenonT(60) DEF IInv, Types, tabVars, workVars
<1>9. CallInv'
  BY <1>2, <1>3, Zenon DEF CallInv, workVars
<1>10. WaitInv'
  BY <1>2, <1>3, <1>7, Zenon DEF IInv, WaitInv, workVars
<1>11. StopInv'
  BY <1>3, <1>7, Zenon DEF IInv, StopInv, workVars
<1>12. WorkInv'
  BY <1>3, Zenon DEF IInv, WorkInv, tabVars, workVars
<1>13. ExcInv' /\ ExceptionIsOwn'
  BY <1>5, Zenon DEF IInv, ExcInv, ExceptionIsOwn
<1>14. LifeInv'
  <2>1. Pending \subseteq Commands
    <3>1. queue \in Seq(Commands) /\ batch \in Seq(Commands)
      BY Zenon DEF IInv, Types
    <3> QED
      BY ONLY <3>1 DEF Pending, Range
  <2>2. \A x \in Pending : x.type = "close" => x.ch \in Channels
    BY <2>1, CommandChannel, Zenon
  <2>3. call[t].op = "create" => ~Settled(c)
    BY <1>1, <1>2, Zenon DEF IInv, LifeInv
  <2>4. \A x \in Channels : Settled(x) => (Settled(x)' /\ (call[t].op = "create" => x # c))
    BY <1>4, <2>3, Zenon DEF Settled
  <2>5. \A x \in Channels : chan[x].closed /\ ~chan[x].held => chan'[x].closed /\ ~chan'[x].held
    <3>1. call[t].op = "close" => chan[c].held
      BY <1>1, <1>2, Zenon DEF IInv, LifeInv
    <3>2. chan[c].closed /\ ~chan[c].held => FALSE
      BY <1>2, <2>3, <3>1, Zenon DEF Settled
    <3> QED
      BY <1>4, <3>2, Zenon
  <2>6. \A x \in Pending : /\ x.type = "close" => Settled(x.ch)'
                           /\ x.type = "close" /\ ~x.waiter => chan'[x.ch].closed /\ ~chan'[x.ch].held
    BY <2>2, <2>4, <2>5, Zenon DEF IInv, LifeInv
  <2>7. \A x \in Channels : Settled(x)' => chan'[x].made
    <3>1. chan[c].made
      BY <1>1, <1>2, Zenon DEF IInv, LifeInv, Settled
    <3>2. \A x \in Channels : x # c => (Settled(x)' <=> Settled(x))
      BY <1>4, Zenon DEF Settled
    <3> QED
      BY <1>4, <3>1, <3>2, Zenon DEF IInv, LifeInv
  <2>8. \A x \in Channels : outcome'[x] # "none" => chan'[x].closed
    BY <1>4, <1>5, Zenon DEF IInv, LifeInv
  <2> QED
    BY <1>2, <1>7, <2>6, <2>7, <2>8, Zenon DEF LifeInv
<1>15. AbsentInv'
  <2>1. \A x \in Channels : chan'[x].made = chan[x].made
    BY <1>4, Zenon
  <2>2. \A x \in Channels : outcome'[x] \in {"clean", "own", "other"} => Absent(x)
    BY <1>5, Zenon DEF IInv, AbsentInv
  <2> QED
    BY <1>2, <1>3, <1>6, <2>1, <2>2, Zenon DEF IInv, AbsentInv, workVars
<1> QED
  BY <1>6, <1>8, <1>9, <1>10, <1>11, <1>12, <1>13, <1>14, <1>15, Zenon DEF IInv

-----------------------------------------------------------------------------
(* The invariant holds. *)

\* Every step of a thread, of the worker and of the clock keeps the invariant.
LEMMA NextIInv ==
  ASSUME Counting, IInv, Next
  PROVE  IInv'
<1>1. ASSUME NEW t \in Threads, Method(t) PROVE IInv'
  BY <1>1, CreateChannelKeeps, ShutdownKeeps, CloseKeeps, DelChannelKeeps, Zenon DEF Method
<1>2. ASSUME NEW t \in Threads, Joined(t) \/ Woken(t) PROVE IInv'
  BY <1>2, JoinedKeeps, WokenKeeps, Zenon
<1>3. CASE WorkerStep
  BY <1>3, DetachKeeps, RunAddKeeps, RunRemoveKeeps, StealExcKeeps, RunShutdownKeeps,
     CompleteKeeps, LoopKeeps, PopDueKeeps, CallbackNextKeeps, CallbackStopKeeps, ExitKeeps, Zenon
     DEF WorkerStep
<1>4. ASSUME NEW c \in Channels, CallbackClose(c) PROVE IInv'
  BY <1>4, CallbackCloseKeeps, Zenon
<1> QED
  BY <1>1, <1>2, <1>3, <1>4, CallbackShutdownKeeps, TickKeeps, Zenon DEF Next

\* So does a step that changes nothing.
LEMMA StutterIInv ==
  ASSUME IInv, UNCHANGED vars
  PROVE  IInv'
<1>1. Types'
  BY DEF IInv, Types, vars, cmdVars, tabVars, workVars, history
<1>2. UNCHANGED <<slots, sched, due, cb_exc, cb, ended>> /\ Pending' = Pending
  BY Zenon DEF vars, cmdVars, tabVars, workVars, history, Pending
<1>3. \A t \in Threads : (Waits(t)' <=> Waits(t)) /\ Awaited(t)' = Awaited(t)
  BY Zenon DEF vars, Waits, Awaited
<1>4. CallInv' /\ ExcInv' /\ ExceptionIsOwn'
  BY <1>3, Zenon DEF IInv, CallInv, ExcInv, ExceptionIsOwn, vars, cmdVars, workVars, history
<1>5. WaitInv'
  BY <1>2, <1>3, Zenon DEF IInv, WaitInv, vars, cmdVars, workVars
<1>6. StopInv' /\ WorkInv'
  BY <1>2, Zenon DEF IInv, StopInv, WorkInv, vars, cmdVars, workVars, tabVars
<1>7. LifeInv'
  BY <1>2, <1>3, Zenon DEF IInv, LifeInv, Settled, vars, history
<1>8. (\A x : Absent(x)' <=> Absent(x)) /\ SchedInv'
  BY <1>2, TableKept, Zenon
<1>9. AbsentInv'
  BY <1>3, <1>8, Zenon DEF IInv, AbsentInv, vars, cmdVars, workVars, history
<1> QED
  BY <1>1, <1>4, <1>5, <1>6, <1>7, <1>8, <1>9, Zenon DEF IInv

\* A callback begins in RunAdd, before create_channel has returned, or in PopDue,
\* with the head of a sorted list whose time has come; in no other step.
LEMMA CallbackBegins ==
  ASSUME IInv, Next, NEW c \in Channels, cb'.ch = c, cb = NoCallback
  PROVE  \/ cb'.first /\ ~chan[c].held
         \/ /\ ~cb'.first /\ cb'.deadline <= cb'.now
            /\ \A d \in Range(sched) : due[c] <= due[d]
<1>1. NoCallback.ch \notin Channels /\ cb' # cb /\ cb' # NoCallback
  BY SizesAssumption DEF NoCallback
<1>2. wpc # "callback"
  BY SizesAssumption, Zenon DEF IInv, WorkInv, NoCallback
<1>3. CASE RunAdd
  <2>1. Head(batch).type = "create" /\ batch # << >> /\ cb'.ch = Head(batch).ch /\ cb'.first
    BY <1>1, <1>3 DEF RunAdd, Invoke, Executing
  <2>2. Head(batch) \in Pending
    BY <2>1 DEF IInv, Types, Pending, Range
  <2>3. ~chan[c].held
    BY <2>1, <2>2, Zenon DEF IInv, LifeInv, Settled
  <2> QED
    BY <2>1, <2>3, Zenon
<1>4. CASE PopDue
  <2>1. /\ sched # << >> /\ due[Head(sched)] <= 0
        /\ cb' = [ch |-> Head(sched), first |-> FALSE, now |-> 0, deadline |-> due[Head(sched)]]
    BY <1>1, <1>4, Zenon DEF PopDue, Invoke, DueNow
  <2>2. c = sched[1] /\ sched \in Seq(Channels) /\ due \in [Channels -> Int]
    BY <2>1 DEF IInv, Types
  <2>3. \A i \in 1..Len(sched) : due[sched[1]] <= due[sched[i]]
    BY <2>1, <2>2 DEF IInv, SchedInv, Sorted
  <2>4. \A d \in Range(sched) : due[c] <= due[d]
    BY <2>2, <2>3 DEF Range
  <2> QED
    BY <2>1, <2>4, Zenon
<1>5. CASE ~RunAdd /\ ~PopDue
  <2>1. ASSUME NEW t \in Threads, Method(t) \/ Joined(t) \/ Woken(t) PROVE cb' = cb
    BY <2>1, Zenon DEF Method, CreateChannel, Shutdown, Close, DelChannel, Joined, Woken, workVars
  <2>2. ASSUME WorkerStep PROVE cb' \in {cb, NoCallback}
    BY <1>2, <1>5, <2>2, Zenon DEF WorkerStep, Detach, RunRemove, StealExc, RunShutdown, Complete,
       BatchDone, NoneDue, Wait, CallbackNext, CallbackNone, CallbackRaise, Exit
  <2>3. ASSUME CallbackShutdown \/ Tick \/ \E d \in Channels : CallbackClose(d) PROVE cb' = cb
    BY <1>2, <2>3, Zenon DEF CallbackShutdown, Tick, CallbackClose
  <2> QED
    BY <1>1, <2>1, <2>2, <2>3, Zenon DEF Next
<1> QED
  BY <1>3, <1>4, <1>5, Zenon

-----------------------------------------------------------------------------
(* One thread, and callbacks that call neither close() nor shutdown(). *)

\* The instance of theorem ExceptionsRaised.
OneThread == (\A t, u \in Threads : t = u) /\ CallbackOps = {}

\* The steps of the worker that neither remove a channel nor store, hand over or
\* clear an exception, and those of the clock.
LEMMA SoleKept ==
  ASSUME SoleInv, UNCHANGED <<accepting, call, chan, close_exc, failed, outcome>>,
         cb_exc \subseteq cb_exc',
         wpc = "steal" => wpc' = "steal" /\ taken' = taken,
         wpc = "exited" => wpc' = "exited"
  PROVE  SoleInv'
<1>1. \A t : Waits(t)' <=> Waits(t)
  BY Zenon DEF Waits
<1>2. \A c \in failed' :
        \/ c \in cb_exc'
        \/ wpc' = "steal" /\ taken' = {c}
        \/ close_exc' = {c}
        \/ outcome'[c] \in {"own", "local"}
        \/ chan'[c].closed /\ ~chan'[c].held
        \/ wpc' = "exited"
  BY Zenon DEF SoleInv
<1>3. ExceptionRaised'
  BY Zenon DEF SoleInv, ExceptionRaised
<1> QED
  BY <1>1, <1>2, <1>3, Zenon DEF SoleInv

\* The worker.
LEMMA SoleWorker ==
  ASSUME IInv, SoleInv, OneThread, WorkerStep
  PROVE  SoleInv'
<1> DEFINE kept == <<accepting, call, chan, close_exc, failed, outcome>>
<1>1. CASE Detach \/ RunAdd \/ RunShutdown \/ Complete \/ BatchDone \/ PopDue \/ NoneDue \/ Wait
           \/ CallbackNext \/ CallbackNone
  <2>1. UNCHANGED kept /\ cb_exc' = cb_exc /\ wpc \notin {"steal", "exited"}
    BY <1>1, Zenon DEF Detach, RunAdd, RunShutdown, Complete, BatchDone, PopDue, NoneDue, Wait,
       CallbackNext, CallbackNone, Executing, Invoke, cmdVars, tabVars, history
  <2> QED
    BY <2>1, SoleKept, Zenon
<1>2. CASE CallbackRaise
  <2>1. /\ wpc = "callback" /\ wpc' = AfterCallback /\ cb_exc' = cb_exc \cup {cb.ch}
        /\ failed' = failed \cup {cb.ch}
        /\ UNCHANGED <<accepting, call, chan, close_exc, outcome>>
    BY <1>2, Zenon DEF CallbackRaise, cmdVars
  <2>2. \A t : Waits(t)' <=> Waits(t)
    BY <2>1, Zenon DEF Waits
  <2>4. \A c \in Channels : outcome[c] = "clean" => c # cb.ch
    BY Zenon DEF IInv, AbsentInv, Absent
  <2>5. ExceptionRaised'
    BY <2>1, <2>4, Zenon DEF SoleInv, ExceptionRaised
  <2>6. \A c \in failed' : \/ c \in cb_exc'
                           \/ close_exc' = {c}
                           \/ outcome'[c] \in {"own", "local"}
                           \/ chan'[c].closed /\ ~chan'[c].held
    BY <2>1, Zenon DEF SoleInv
  <2> QED
    BY <2>1, <2>2, <2>5, <2>6, Zenon DEF SoleInv
<1>3. CASE RunRemove
  <2>1. PICK d : d = Head(batch).ch
    BY Zenon
  <2>2. /\ wpc = "batch" /\ wpc' = "steal" /\ taken' = cb_exc \cap {d} /\ cb_exc' = cb_exc \ {d}
        /\ UNCHANGED kept
    BY <1>3, <2>1, Zenon DEF RunRemove, Executing, cmdVars, history
  <2>3. \A t : Waits(t)' <=> Waits(t)
    BY <2>2, Zenon DEF Waits
  <2>5. ExceptionRaised'
    BY <2>2, Zenon DEF SoleInv, ExceptionRaised
  <2>6. \A c \in failed' : \/ c \in cb_exc'
                           \/ taken' = {c}
                           \/ close_exc' = {c}
                           \/ outcome'[c] \in {"own", "local"}
                           \/ chan'[c].closed /\ ~chan'[c].held
    <3>1. \A c \in cb_exc : c \in cb_exc' \/ taken' = {c}
      BY <2>2, Zenon
    <3> QED
      BY <2>2, <3>1, Zenon DEF SoleInv
  <2> QED
    BY <2>2, <2>3, <2>5, <2>6, Zenon DEF SoleInv
<1>4. CASE StealExc
  <2>1. /\ wpc = "steal" /\ wpc' = "complete"
        /\ close_exc' = IF Head(batch).waiter /\ taken # {} THEN taken ELSE close_exc
        /\ UNCHANGED <<accepting, call, chan, cb_exc, failed, outcome>>
    BY <1>4, Zenon DEF StealExc, cmdVars, tabVars, history
  <2>2. \A t : Waits(t)' <=> Waits(t)
    BY <2>1, Zenon DEF Waits
  <2>4. ExceptionRaised'
    BY <2>1, Zenon DEF SoleInv, ExceptionRaised
  <2>5. batch # << >> /\ Head(batch) \in Pending /\ Head(batch).type = "close"
        /\ taken \subseteq {Head(batch).ch}
    <3>1. batch # << >> /\ Head(batch).type = "close" /\ taken \subseteq {Head(batch).ch}
      BY <2>1, Zenon DEF IInv, WorkInv
    <3>2. Head(batch) \in Pending
      BY <3>1 DEF IInv, Types, Pending, Range
    <3> QED
      BY <3>1, <3>2, Zenon
  <2>6. ASSUME NEW c \in failed, taken = {c}
        PROVE  close_exc' = {c} \/ (chan[c].closed /\ ~chan[c].held)
    <3>1. c = Head(batch).ch
      BY <2>5, <2>6, Zenon
    <3>2. CASE Head(batch).waiter
      BY <2>1, <2>6, <3>2, Zenon
    <3>3. CASE ~Head(batch).waiter
      BY <2>5, <3>1, <3>3, Zenon DEF IInv, LifeInv
    <3> QED
      BY <3>2, <3>3, Zenon
  <2>7. ASSUME NEW c \in failed, close_exc = {c}
        PROVE  close_exc' = {c}
    <3>1. SUFFICES ASSUME Head(batch).waiter, taken # {} PROVE taken = {c}
      BY <2>1, <2>7, Zenon
    <3>2. PICK t \in Threads : Waits(t) /\ call[t].ch = c
      BY <2>7, Zenon DEF IInv, ExcInv
    <3>3. PICK u \in Threads : Waits(u) /\ Head(batch) = Awaited(u)
      BY <2>1, <2>5, <3>1, Zenon DEF IInv, WaitInv
    <3>4. Head(batch).ch = c
      BY <3>2, <3>3 DEF OneThread, Awaited, Cmd
    <3> QED
      BY <2>5, <3>1, <3>4, Zenon
  <2>8. \A c \in failed' : \/ c \in cb_exc'
                           \/ close_exc' = {c}
                           \/ outcome'[c] \in {"own", "local"}
                           \/ chan'[c].closed /\ ~chan'[c].held
    BY <2>1, <2>6, <2>7, Zenon DEF SoleInv
  <2> QED
    BY <2>1, <2>2, <2>4, <2>8, Zenon DEF SoleInv
<1>5. CASE Exit
  <2>1. /\ wpc = "exit" /\ wpc' = "exited"
        /\ UNCHANGED <<accepting, call, chan, failed, outcome>>
    BY <1>5, Zenon DEF Exit, history
  <2>2. \A t : Waits(t)' <=> Waits(t)
    BY <2>1, Zenon DEF Waits
  <2>3. ExceptionRaised'
    BY <2>1, Zenon DEF SoleInv, ExceptionRaised
  <2> QED
    BY <2>1, <2>2, <2>3, Zenon DEF SoleInv
<1> QED
  BY <1>1, <1>2, <1>3, <1>4, <1>5, Zenon DEF WorkerStep

\* The thread: while it is idle nobody waits and close_exc is empty.
LEMMA SoleMethod ==
  ASSUME IInv, SoleInv, OneThread, NEW t \in Threads, Method(t) \/ Joined(t)
  PROVE  SoleInv'
<1>1. /\ call[t].pc # "wait" /\ \A u \in Threads : u = t
      /\ UNCHANGED <<cb_exc, wpc, taken, failed>>
  BY Zenon DEF OneThread, Method, CreateChannel, Shutdown, Close, DelChannel, Joined, Joining,
     tabVars, workVars, history
<1>2. close_exc = {}
  BY <1>1, Zenon DEF IInv, ExcInv, Waits
<1>3. \A c \in failed : \/ c \in cb_exc
                        \/ wpc = "steal" /\ taken = {c}
                        \/ outcome[c] \in {"own", "local"}
                        \/ chan[c].closed /\ ~chan[c].held
                        \/ wpc = "exited"
  BY <1>2, Zenon DEF SoleInv
<1>4. failed \subseteq Channels /\ chan \in [Channels -> ChannelStates] /\ call \in [Threads -> Calls]
      /\ outcome \in [Channels -> {"none", "clean", "own", "other", "local"}]
  BY Zenon DEF IInv, Types
<1>5. CASE CreateChannel(t)
  <2>1. PICK c \in Channels : ~chan[c].made /\ chan' = [chan EXCEPT ![c].made = TRUE] /\ Submit(t, "create", c)
    BY <1>5, Zenon DEF CreateChannel
  <2>2. accepting' /\ outcome' = outcome
    BY <1>5, Zenon DEF CreateChannel, history
  <2>3. call'[t].op = "create"
    BY <1>4, <2>1, Zenon DEF Submit
  <2>4. \A x \in Channels : chan'[x].held = chan[x].held /\ chan'[x].closed = chan[x].closed
    BY <2>1, MadeFacts, Zenon
  <2>5. ExceptionRaised'
    BY <1>1, <2>2, Zenon DEF SoleInv, ExceptionRaised
  <2> QED
    BY <1>1, <1>3, <1>4, <2>2, <2>3, <2>4, <2>5, Zenon DEF SoleInv
<1>6. CASE Shutdown(t) \/ Joined(t)
  <2>1. UNCHANGED <<chan, outcome>> /\ ~Waits(t)'
    <3>1. Shutdown(t) => UNCHANGED <<chan, outcome>> /\ call'[t].pc = "join"
      BY <1>4, Zenon DEF Shutdown, Idle, history
    <3>2. Joined(t) => UNCHANGED <<chan, outcome>> /\ call'[t].pc = "idle"
      BY <1>4 DEF Joined, Idle, history
    <3> QED
      BY <1>6, <3>1, <3>2, Zenon DEF Waits
  <2>2. ExceptionRaised'
    BY <1>1, <2>1, Zenon DEF SoleInv, ExceptionRaised
  <2> QED
    BY <1>1, <1>3, <2>1, <2>2, Zenon DEF SoleInv
<1>7. ASSUME NEW c \in Channels, Close(t, c) PROVE SoleInv'
  <2>1. Open(c) /\ accepting' = accepting
    BY <1>7, Zenon DEF Close
  <2>2. CASE UNCHANGED <<call, chan, outcome>>
    <3>1. ExceptionRaised'
      BY <1>1, <2>2, Zenon DEF SoleInv, ExceptionRaised
    <3> QED
      BY <1>1, <1>3, <2>1, <2>2, <3>1, Zenon DEF SoleInv, Waits
  <2>3. CASE accepting /\ Submit(t, "close", c) /\ UNCHANGED <<chan, outcome>>
    <3>1. call'[t].ch = c
      BY <1>4, <2>3, Zenon DEF Submit
    <3>2. ExceptionRaised'
      BY <1>1, <2>3, Zenon DEF SoleInv, ExceptionRaised
    <3> QED
      BY <1>1, <1>3, <2>1, <2>3, <3>1, <3>2, Zenon DEF SoleInv, Open
  <2>4. CASE /\ chan' = [chan EXCEPT ![c].closed = TRUE]
             /\ outcome' = [outcome EXCEPT ![c] = "local"] /\ call' = call
    <3>1. \A x \in Channels : x # c => chan'[x] = chan[x]
      BY <2>4, ClosedFacts, Zenon
    <3>2. outcome'[c] = "local" /\ \A x \in Channels : x # c => outcome'[x] = outcome[x]
      BY <1>4, <2>4, Zenon
    <3>3. ExceptionRaised'
      BY <1>1, <3>2, Zenon DEF SoleInv, ExceptionRaised
    <3>4. ~Waits(t)'
      BY <1>1, <2>4, Zenon DEF Waits
    <3> QED
      BY <1>1, <1>3, <1>4, <2>1, <3>1, <3>2, <3>3, <3>4, Zenon DEF SoleInv
  <2> QED
    BY <1>7, <2>2, <2>3, <2>4, Zenon DEF Close
<1>8. ASSUME NEW c \in Channels, DelChannel(t, c) PROVE SoleInv'
  <2>1. call' = call /\ outcome' = outcome
    BY <1>8, Zenon DEF DelChannel, history
  <2>2. chan'[c].closed /\ ~chan'[c].held /\ \A x \in Channels : x # c => chan'[x] = chan[x]
    <3>1. PICK b \in BOOLEAN, d \in BOOLEAN : b = FALSE /\ d = TRUE
      BY Zenon
    <3>2. chan' = [chan EXCEPT ![c].held = b, ![c].closed = d]
      BY <1>8, <3>1, Zenon DEF DelChannel
    <3> QED
      BY <3>1, <3>2, HeldFacts, Zenon
  <2>3. ExceptionRaised'
    BY <1>1, <2>1, Zenon DEF SoleInv, ExceptionRaised
  <2>4. ~Waits(t)'
    BY <1>1, <2>1, Zenon DEF Waits
  <2> QED
    BY <1>1, <1>3, <1>4, <2>1, <2>2, <2>3, <2>4, Zenon DEF SoleInv
<1> QED
  BY <1>5, <1>6, <1>7, <1>8, Zenon DEF Method

\* The thread is woken. A close() that found close_exc empty was for a channel
\* whose callback had not raised: its exception would be stored, but the channel
\* is gone, or on its way, but no command is left for it.
LEMMA SoleWoken ==
  ASSUME IInv, SoleInv, OneThread, NEW t \in Threads, Woken(t)
  PROVE  SoleInv'
<1>1. PICK c \in Channels : c = call[t].ch
  BY WokenAlone, Zenon
<1>2. /\ Waits(t) /\ call[t].op \in {"create", "close"} /\ waiter.done
      /\ \A x \in Pending : ~x.waiter
      /\ \A u \in Threads : ~Waits(u)'
      /\ close_exc # {} => call[t].op = "close" /\ close_exc = {c}
  BY <1>1, WokenAlone, Zenon
<1>3. UNCHANGED <<accepting, cb_exc, wpc, taken, failed>>
  BY Zenon DEF Woken, tabVars, workVars
<1>4. failed \subseteq Channels
      /\ outcome \in [Channels -> {"none", "clean", "own", "other", "local"}]
  BY Zenon DEF IInv, Types
<1>5. accepting /\ wpc # "exited"
  BY <1>2, Zenon DEF IInv, SoleInv, StopInv, WorkInv
<1>7. CASE call[t].op = "create"
  <2>1. outcome' = outcome /\ close_exc' = close_exc
    BY <1>7, Zenon DEF Woken
  <2>2. ~chan[c].closed
    BY <1>1, <1>2, <1>7, Zenon DEF IInv, LifeInv, Settled
  <2>3. \A x \in Channels : x # c => chan'[x] = chan[x]
    BY <1>1, <1>7, Zenon DEF Woken, IInv, Types
  <2>4. ExceptionRaised'
    BY <1>3, <2>1, Zenon DEF SoleInv, ExceptionRaised
  <2>5. \A x \in failed' : \/ x \in cb_exc'
                           \/ wpc' = "steal" /\ taken' = {x}
                           \/ close_exc' = {x}
                           \/ outcome'[x] \in {"own", "local"}
                           \/ chan'[x].closed /\ ~chan'[x].held
    BY <1>3, <1>4, <1>5, <2>1, <2>2, <2>3, Zenon DEF SoleInv
  <2> QED
    BY <1>2, <1>3, <2>4, <2>5, Zenon DEF SoleInv
<1>8. CASE call[t].op = "close"
  <2>1. outcome' = [outcome EXCEPT ![c] = CloseOutcome(c)]
        /\ chan' = [chan EXCEPT ![c].closed = TRUE]
    BY <1>1, <1>8, Zenon DEF Woken
  <2>2. CloseOutcome(c) = (IF close_exc = {c} THEN "own" ELSE "clean")
    BY <1>2, Zenon DEF CloseOutcome
  <2>3. outcome'[c] = CloseOutcome(c) /\ \A x \in Channels : x # c => outcome'[x] = outcome[x]
    BY <1>4, <2>1, <2>2, Zenon
  <2>4. \A x \in Channels : x # c => chan'[x] = chan[x]
    BY <2>1, ClosedFacts, Zenon
  <2>5. chan[c].held /\ ~chan[c].closed /\ Absent(c)
    BY <1>1, <1>2, <1>8, Zenon DEF IInv, LifeInv, AbsentInv, SoleInv
  <2>6. c \in failed => close_exc = {c}
    <3>1. outcome[c] = "none" /\ c \notin cb_exc
      BY <2>5, Zenon DEF IInv, LifeInv, Absent
    <3>2. ~(wpc = "steal" /\ taken = {c})
      <4> SUFFICES ASSUME wpc = "steal", taken = {c} PROVE FALSE
        BY Zenon
      <4>1. batch # << >> /\ Head(batch).type = "close" /\ Head(batch).ch = c
        BY Zenon DEF IInv, WorkInv
      <4>2. Head(batch) \in Pending
        BY <4>1 DEF IInv, Types, Pending, Range
      <4> QED
        BY <1>2, <2>5, <4>1, <4>2, Zenon DEF IInv, LifeInv
    <3> QED
      BY <1>5, <2>5, <3>1, <3>2, Zenon DEF SoleInv
  <2>7. ExceptionRaised'
    BY <1>3, <2>2, <2>3, <2>6, Zenon DEF SoleInv, ExceptionRaised
  <2>8. \A x \in failed' : \/ x \in cb_exc'
                           \/ wpc' = "steal" /\ taken' = {x}
                           \/ outcome'[x] \in {"own", "local"}
                           \/ chan'[x].closed /\ ~chan'[x].held
    <3>1. \A x \in failed : x # c => close_exc # {x}
      BY <1>2, Zenon
    <3>2. c \in failed => outcome'[c] = "own"
      BY <2>2, <2>3, <2>6, Zenon
    <3> QED
      BY <1>3, <1>4, <1>5, <2>3, <2>4, <3>1, <3>2, Zenon DEF SoleInv
  <2> QED
    BY <1>2, <1>3, <2>7, <2>8, Zenon DEF SoleInv
<1> QED
  BY <1>2, <1>7, <1>8, Zenon

\* Every step keeps the invariant of one thread.
LEMMA SoleNext ==
  ASSUME IInv, SoleInv, OneThread, [Next]_vars
  PROVE  SoleInv'
<1>1. CASE Tick \/ UNCHANGED vars
  <2>1. /\ UNCHANGED <<accepting, call, chan, close_exc, failed, outcome>>
        /\ UNCHANGED <<cb_exc, wpc, taken>>
    BY <1>1, Zenon DEF Tick, vars, cmdVars, tabVars, workVars, history
  <2> QED
    BY <2>1, SoleKept, Zenon
<1>2. ~CallbackShutdown /\ \A c \in Channels : ~CallbackClose(c)
  BY Zenon DEF OneThread, CallbackShutdown, CallbackClose
<1> QED
  BY <1>1, <1>2, SoleWorker, SoleMethod, SoleWoken, Zenon DEF Next
-----------------------------------------------------------------------------
(* The SHUTDOWN command. *)

Stop == Cmd("shutdown", NoChannel, FALSE)

\* SHUTDOWN is pending until the worker has seen it, and it has before it completes
\* the command.
KeptInv ==
  /\ ~accepting => stop_seen \/ Stop \in Pending
  /\ wpc = "complete" /\ Head(batch).type = "shutdown" => stop_seen

\* The steps that take no command away and complete no SHUTDOWN.
LEMMA KeptMore ==
  ASSUME KeptInv, accepting' = accepting, stop_seen' = stop_seen, Pending \subseteq Pending',
         wpc' = "complete" => wpc = "complete" /\ batch' = batch
  PROVE  KeptInv'
BY Zenon DEF KeptInv, Stop

\* The worker: only Complete takes a command away.
LEMMA KeptWorker ==
  ASSUME IInv, KeptInv, WorkerStep
  PROVE  KeptInv'
<1>1. CASE RunAdd \/ RunRemove \/ StealExc \/ BatchDone \/ PopDue \/ NoneDue \/ Wait
           \/ CallbackNext \/ CallbackNone \/ CallbackRaise
  <2>1. UNCHANGED <<accepting, queue, batch, stop_seen>> /\ Pending' = Pending
    BY <1>1, Zenon DEF RunAdd, RunRemove, StealExc, BatchDone, PopDue, NoneDue, Wait,
       CallbackNext, CallbackNone, CallbackRaise, cmdVars, Pending
  <2>2. wpc' = "complete" => Head(batch).type # "shutdown"
    <3>1. CASE RunAdd
      BY <3>1, Zenon DEF RunAdd, Executing
    <3>2. CASE StealExc
      BY <3>2, Zenon DEF StealExc, IInv, WorkInv
    <3>3. CASE CallbackNext \/ CallbackNone \/ CallbackRaise
      <4>1. wpc = "callback" /\ wpc' = AfterCallback
        BY <3>3, Zenon DEF CallbackNext, CallbackNone, CallbackRaise
      <4> QED
        BY <4>1, Zenon DEF AfterCallback, IInv, WorkInv
    <3>4. CASE RunRemove \/ BatchDone \/ NoneDue \/ Wait
      BY <3>4, Zenon DEF RunRemove, BatchDone, NoneDue, Wait
    <3>5. CASE PopDue
      <4>1. PICK run : Invoke(run) /\ ~run.first
        BY <3>5 DEF PopDue
      <4> QED
        BY <4>1, Zenon DEF Invoke
    <3> QED
      BY <1>1, <3>1, <3>2, <3>3, <3>4, <3>5, Zenon
  <2> QED
    BY <2>1, <2>2, Zenon DEF KeptInv, Stop
<1>2. CASE RunShutdown
  BY <1>2, Zenon DEF RunShutdown, KeptInv
<1>3. CASE Detach
  <2>1. batch = << >> /\ batch' = queue /\ queue' = << >> /\ wpc' = "batch"
        /\ UNCHANGED <<accepting, stop_seen>>
    BY <1>3, Zenon DEF Detach, IInv, WorkInv
  <2>2. Pending' = Pending
    BY <2>1, Zenon DEF Pending
  <2> QED
    BY <2>1, <2>2, KeptMore, Zenon
<1>4. CASE Complete
  <2>1. /\ wpc = "complete" /\ wpc' = "batch" /\ batch # << >> /\ batch' = Tail(batch)
        /\ batch \in Seq(Commands) /\ UNCHANGED <<accepting, queue, stop_seen>>
    BY <1>4, Zenon DEF Complete, IInv, WorkInv, Types
  <2>2. ASSUME Stop \in Pending PROVE stop_seen \/ Stop \in Pending'
    <3>1. CASE Stop \in Range(queue)
      BY <2>1, <3>1, Zenon DEF Pending
    <3>2. CASE Stop \in Range(batch)
      <4>1. PICK i \in DOMAIN batch : batch[i] = Stop
        BY <3>2, Zenon DEF Range
      <4>2. CASE i = 1
        <5>1. Head(batch).type = "shutdown"
          BY <2>1, <4>1, <4>2 DEF Stop, Cmd
        <5> QED
          BY <2>1, <5>1, Zenon DEF KeptInv
      <4>3. CASE i # 1
        BY <2>1, <4>1, <4>3, TailFacts, Zenon DEF Pending
      <4> QED
        BY <4>2, <4>3, Zenon
    <3> QED
      BY <2>2, <3>1, <3>2, Zenon DEF Pending
  <2> QED
    BY <2>1, <2>2, Zenon DEF KeptInv, Stop
<1>5. CASE Exit
  <2>1. stop_seen /\ stop_seen' = stop_seen /\ wpc' = "exited"
    BY <1>5, Zenon DEF Exit, IInv, WorkInv
  <2> QED
    BY <2>1, Zenon DEF KeptInv
<1> QED
  BY <1>1, <1>2, <1>3, <1>4, <1>5, Zenon DEF WorkerStep

\* shutdown(), by a thread or a callback, queues the command unless it was queued.
LEMMA KeptShutdown ==
  ASSUME IInv, KeptInv, QueueShutdown, UNCHANGED workVars
  PROVE  KeptInv'
<1>1. queue \in Seq(Commands) /\ Stop \in Commands /\ shutdown_queued = ~accepting
  BY Zenon DEF IInv, Types, StopInv, Commands, Stop
<1>2. UNCHANGED <<batch, wpc, stop_seen>>
  BY Zenon DEF workVars
<1>3. stop_seen' \/ Stop \in Pending'
  <2>1. CASE shutdown_queued
    BY <1>1, <1>2, <2>1, Zenon DEF QueueShutdown, KeptInv, Pending
  <2>2. CASE ~shutdown_queued
    <3>1. queue' = Append(queue, Stop)
      BY <2>2, Zenon DEF QueueShutdown, Stop
    <3>2. Stop \in Range(queue')
      BY <1>1, <3>1, AppendFacts, Zenon
    <3> QED
      BY <3>2, Zenon DEF Pending
  <2> QED
    BY <2>1, <2>2, Zenon
<1> QED
  BY <1>2, <1>3, Zenon DEF KeptInv, Stop

\* Every step.
LEMMA KeptNext ==
  ASSUME IInv, KeptInv, [Next]_vars
  PROVE  KeptInv'
<1>1. queue \in Seq(Commands) /\ \A c \in Channels, op \in {"create", "close"}, w \in BOOLEAN :
        Cmd(op, c, w) \in Commands
  <2>1. queue \in Seq(Commands)
    BY Zenon DEF IInv, Types
  <2> QED
    BY <2>1 DEF Commands, Cmd
<1>2. \A m \in Commands : queue' = Append(queue, m) => Range(queue) \subseteq Range(queue')
  BY <1>1, AppendFacts, Zenon
<1>3. ASSUME NEW t \in Threads, CreateChannel(t) PROVE KeptInv'
  <2>1. PICK c \in Channels : queue' = Append(queue, Cmd("create", c, TRUE))
    BY <1>3, Zenon DEF CreateChannel, Submit
  <2>2. UNCHANGED <<accepting, batch, wpc, stop_seen>>
    BY <1>3, Zenon DEF CreateChannel, workVars
  <2> QED
    BY <1>1, <1>2, <2>1, <2>2, KeptMore, Zenon DEF Pending
<1>4. ASSUME NEW t \in Threads, NEW c \in Channels, Close(t, c) \/ DelChannel(t, c) PROVE KeptInv'
  <2>1. queue' = queue \/ \E w \in BOOLEAN : queue' = Append(queue, Cmd("close", c, w))
    BY <1>4, Zenon DEF Close, DelChannel, Submit
  <2>2. UNCHANGED <<accepting, batch, wpc, stop_seen>>
    BY <1>4, Zenon DEF Close, DelChannel, workVars
  <2>3. Range(queue) \subseteq Range(queue')
    BY <1>1, <1>2, <2>1, Zenon
  <2> QED
    BY <2>2, <2>3, KeptMore, Zenon DEF Pending
<1>5. ASSUME NEW t \in Threads, Shutdown(t) PROVE KeptInv'
  BY <1>5, KeptShutdown, Zenon DEF Shutdown
<1>6. ASSUME NEW t \in Threads, Joined(t) \/ Woken(t) PROVE KeptInv'
  <2>1. UNCHANGED <<accepting, queue, batch, wpc, stop_seen>>
    BY <1>6, Zenon DEF Joined, Woken, workVars
  <2> QED
    BY <2>1, KeptMore, Zenon DEF Pending
<1>7. ASSUME NEW c \in Channels, CallbackClose(c) PROVE KeptInv'
  <2>1. queue' = queue \/ queue' = Append(queue, Cmd("close", c, TRUE))
    BY <1>7, Zenon DEF CallbackClose
  <2>2. UNCHANGED <<accepting, batch, stop_seen>> /\ wpc' # "complete"
    BY <1>7, Zenon DEF CallbackClose
  <2>3. Range(queue) \subseteq Range(queue')
    BY <1>1, <1>2, <2>1, Zenon
  <2> QED
    BY <2>2, <2>3, KeptMore, Zenon DEF Pending
<1>8. CASE CallbackShutdown
  BY <1>8, KeptShutdown, Zenon DEF CallbackShutdown
<1>9. CASE Tick \/ UNCHANGED vars
  <2>1. UNCHANGED <<accepting, queue, batch, wpc, stop_seen>>
    BY <1>9, Zenon DEF Tick, vars, cmdVars, workVars
  <2> QED
    BY <2>1, KeptMore, Zenon DEF Pending
<1> QED
  BY <1>3, <1>4, <1>5, <1>6, <1>7, <1>8, <1>9, KeptWorker, Zenon DEF Next, Method

-----------------------------------------------------------------------------
(* The theorems. *)

INSTANCE FiniteSetTheorems
INSTANCE WellFoundedInduction

\* What the lemmas assume of numbers and intervals.
LEMMA Count == Counting
<1>1. ASSUME NEW S \in SUBSET Nat, S # {}
      PROVE  \E m \in S : \A n \in S : m <= n
  <2> DEFINE R == OpToRel(<, Nat)
  <2>1. IsWellFoundedOn(R, Nat)
    BY NatLessThanWellFounded, Zenon
  <2> HIDE DEF R
  <2>2. PICK m \in S : \A n \in S : ~(<<n, m>> \in R)
    BY <1>1, <2>1, WFMin, Zenon
  <2>3. \A n \in S : <<n, m>> \in R <=> n < m
    BY Zenon DEF R, OpToRel
  <2>4. ASSUME NEW n \in S PROVE m <= n
    <3>1. ~(n < m)
      BY <2>2, <2>3, Zenon
    <3> QED
      BY <3>1
  <2> QED
    BY <2>4, Zenon
<1>2. ASSUME NEW n \in Nat PROVE IsFiniteSet(1..n) /\ Cardinality(1..n) = n
  <2>1. /\ IsFiniteSet(1..n)
        /\ Cardinality(1..n) = IF 1 > n THEN 0 ELSE n - 1 + 1
    BY FS_Interval
  <2> QED
    BY <2>1
<1>3. ASSUME NEW n \in Nat, NEW S \in SUBSET (1..n) PROVE Cardinality(S) \in 0..n
  <2>1. IsFiniteSet(S) /\ Cardinality(S) <= Cardinality(1..n)
    BY <1>2, FS_Subset, Zenon
  <2>2. Cardinality(S) \in Nat
    BY <2>1, FS_CardinalityType, Zenon
  <2> QED
    BY <1>2, <2>1, <2>2
<1> QED
  BY <1>1, <1>2, <1>3, Zenon DEF Counting

\* The inductive invariant, for every number of threads, channels and slots.
THEOREM Invariance == Spec => []IInv
<1>1. IInv /\ [Next]_vars => IInv'
  BY Count, NextIInv, StutterIInv, Zenon
<1> QED
  BY <1>1, InitIInv, PTL DEF Spec

\* Once a close() that the worker carried out has returned, remove_channel has left
\* nothing of the channel in the table, the schedule list or the stored exceptions,
\* and its callback is not run.
THEOREM ClosedChannelsQuiet == Spec => []ClosedIsQuiet
<1>1. IInv => ClosedIsQuiet
  BY Zenon DEF IInv, AbsentInv, Absent, ClosedIsQuiet, Active
<1> QED
  BY <1>1, Invariance, PTL

\* A thread in rtp_sync_waiter_wait has the waiter, and its command is still
\* queued or in the batch unless it is done: worker exit loses no waiter.
THEOREM WaitersServed == Spec => []NoWaiterLost
<1>1. IInv => NoWaiterLost
  <2> SUFFICES ASSUME IInv, NEW t \in Threads, call[t].pc = "wait"
               PROVE  /\ busy
                      /\ \/ waiter.done
                         \/ \E q \in {queue, batch} : \E i \in DOMAIN q :
                              q[i] = Cmd(call[t].op, call[t].ch, TRUE)
    BY Zenon DEF NoWaiterLost
  <2>1. Waits(t)
    BY Zenon DEF Waits
  <2>2. busy
    BY <2>1, Zenon DEF IInv, CallInv
  <2>3. waiter.done \/ Awaited(t) \in Range(queue) \/ Awaited(t) \in Range(batch)
    BY <2>1, Zenon DEF IInv, WaitInv, Pending
  <2> QED
    BY <2>2, <2>3, Zenon DEF Range, Awaited
<1> QED
  BY <1>1, Invariance, PTL

\* A close() raises the exception of no other channel: close_exc holds that of the
\* channel being closed, or nothing.
THEOREM ExceptionsOwn == Spec => []ExceptionIsOwn
<1>1. IInv => ExceptionIsOwn
  BY Zenon DEF IInv
<1> QED
  BY <1>1, Invariance, PTL

\* A channel in the table whose callback has not ended is scheduled or being run.
THEOREM ChannelsKept == Spec => []NoneForgotten
<1>1. IInv => NoneForgotten
  BY Zenon DEF IInv, SchedInv
<1> QED
  BY <1>1, Invariance, PTL

\* The schedule list is sorted, has no channel twice and names channels of the
\* table only, whatever schedule_channel, unschedule_channel and
\* rebuild_schedule_list did to it.
THEOREM SchedulesSorted == Spec => []ScheduleSorted
<1>1. IInv => ScheduleSorted
  <2>1. IInv => Range(sched) \subseteq Active
    <3>1. IInv => Range(sched) \subseteq Channels
      BY DEF IInv, Types, Range
    <3> QED
      BY <3>1, SizesAssumption, Zenon DEF IInv, SchedInv, Active
  <2> QED
    BY <2>1, Zenon DEF IInv, SchedInv, Sorted, ScheduleSorted
<1> QED
  BY <1>1, Invariance, PTL

\* A set that is empty or has one member.
LEMMA AtMostOne ==
  ASSUME NEW S, S = {} \/ \E x : S = {x}
  PROVE  Cardinality(S) <= 1
<1>1. CASE S = {}
  BY <1>1, FS_EmptySet
<1>2. ASSUME NEW x, S = {x} PROVE Cardinality(S) <= 1
  BY <1>2, FS_Singleton
<1> QED
  BY <1>1, <1>2, Zenon

\* The variables have their types; close_exc and the exception taken by
\* remove_channel are one at most.
THEOREM TypeCorrect == Spec => []TypeOK
<1>1. IInv => TypeOK
  <2> SUFFICES ASSUME IInv PROVE TypeOK
    BY Zenon
  <2>1. Cardinality(close_exc) <= 1
    <3>1. close_exc = {} \/ \E x : close_exc = {x}
      BY Zenon DEF IInv, ExcInv
    <3> QED
      BY <3>1, AtMostOne, Zenon
  <2>2. Cardinality(taken) <= 1
    <3>1. taken = {} \/ \E x : taken = {x}
      <4>1. taken = {} \/ taken \subseteq {Head(batch).ch}
        BY Zenon DEF IInv, WorkInv
      <4>2. taken = {} \/ taken = {Head(batch).ch}
        BY <4>1, Zenon
      <4> QED
        BY <4>2, Zenon
    <3> QED
      BY <3>1, AtMostOne, Zenon
  <2>3. \A q \in {queue, batch} : \A i \in DOMAIN q :
          q[i] \in [type : {"create", "close"}, ch : Channels, waiter : BOOLEAN]
                   \cup {Cmd("shutdown", NoChannel, FALSE)}
    <3>1. queue \in Seq(Commands) /\ batch \in Seq(Commands)
      BY Zenon DEF IInv, Types
    <3>2. \A q \in {queue, batch} : \A i \in DOMAIN q : q[i] \in Commands
      BY <3>1
    <3> QED
      BY <3>2, Zenon DEF Commands
  <2>4. Range(slots) \subseteq Channels \cup {NoChannel} /\ Range(sched) \subseteq Channels
    BY SMTT(30) DEF IInv, Types, Range
  <2>5. \A t \in Threads : call[t].pc \in {"idle", "wait", "join"}
    BY Zenon DEF IInv, Types, Calls
  <2> QED
    BY <2>1, <2>2, <2>3, <2>4, <2>5, Zenon DEF IInv, Types, WorkerPcs, TypeOK
<1> QED
  BY <1>1, Invariance, PTL

\* The first run of a channel precedes the return of create_channel; pop_due_channel
\* starts a later one at its time or after, and before any channel due later.
THEOREM CallbacksInOrder == Spec => RunsInOrder
<1> DEFINE A == \A c \in Channels : (cb'.ch = c /\ cb = NoCallback) =>
                  \/ cb'.first /\ ~chan[c].held
                  \/ /\ ~cb'.first /\ cb'.deadline <= cb'.now
                     /\ \A d \in Range(sched) : due[c] <= due[d]
<1>1. IInv /\ [Next]_vars => [A]_vars
  BY CallbackBegins, Zenon
<1> QED
  BY <1>1, Invariance, PTL DEF Spec, RunsInOrder

\* SoleInv is an invariant of one thread with such callbacks.
LEMMA SoleInvariance ==
  ASSUME OneThread
  PROVE  Spec => []SoleInv
<1>1. Init => SoleInv
  BY DEF Init, SoleInv, Waits, Idle, ExceptionRaised
<1>2. IInv /\ SoleInv /\ [Next]_vars => SoleInv'
  BY SoleNext, Zenon
<1> QED
  BY <1>1, <1>2, Invariance, PTL DEF Spec

\* One thread, callbacks that close nothing: a close() that the worker carried out
\* raises the exception of the channel's callback, if there was one. (With two, a
\* close() refused because the waiter is taken clears the other's close_exc.)
THEOREM ExceptionsRaised ==
  ASSUME OneThread
  PROVE  Spec => []ExceptionRaised
<1>1. SoleInv => ExceptionRaised
  BY Zenon DEF SoleInv
<1> QED
  BY <1>1, SoleInvariance, PTL

\* Whoever calls shutdown(), several threads or a callback, and whether or not the
\* worker was joined: the SHUTDOWN command waits for the worker until it has seen
\* it, and the worker exits for no other reason and with an empty table.
THEOREM ShutdownNotLost == Spec => []ShutdownKept
<1>1. Init => KeptInv
  BY Zenon DEF Init, KeptInv
<1>2. IInv /\ KeptInv /\ [Next]_vars => KeptInv'
  BY KeptNext, Zenon
<1>3. IInv /\ KeptInv => ShutdownKept
  <2> SUFFICES ASSUME IInv, KeptInv, wpc = "exited" PROVE ~accepting /\ Active = {}
    BY Zenon DEF ShutdownKept, KeptInv, Stop, Pending
  <2>1. ~accepting /\ slots = << >>
    BY Zenon DEF IInv, WorkInv, StopInv
  <2> QED
    BY <2>1 DEF Active, Range
<1> QED
  BY <1>1, <1>2, <1>3, Invariance, PTL DEF Spec
=============================================================================
