--------------------------- MODULE RtpServerProofs ---------------------------
(***************************************************************************)
(* The other steps keep the invariant of RtpServerInv: stopping, dropping  *)
(* and completing commands, callbacks. What holds in every state of        *)
(* RtpServer for any number of threads and channels.                       *)
(***************************************************************************)
EXTENDS RtpServerCommands

-----------------------------------------------------------------------------
(* Threads that stop and join the worker. *)

\* PyRtpServer_dealloc: the last command in line.
LEMMA StopKeeps ==
  ASSUME IInv, NEW t \in Threads, Stop(t)
  PROVE  IInv'
  <1> DEFINE m == Cmd("stop", "none", FALSE)
  <1>1. /\ call[t].pc = "stop" /\ queue' = Append(queue, m) /\ accepting' = FALSE
        /\ call' = [call EXCEPT ![t].pc = "join"] /\ gil' = Nobody
        /\ UNCHANGED <<cmd_lock, busy, waiter, batch, channels, polled, dirty, wpc, status,
                       todo, stop_seen, chan, server_ref, sent, gone>>
    BY Zenon DEF Stop, workVars
  <1>2. /\ call' \in [Threads -> Calls]
        /\ call'[t].pc = "join" /\ call'[t].op = call[t].op /\ call'[t].ch = call[t].ch
        /\ call'[t].status = call[t].status
        /\ \A u \in Threads \ {t} : call'[u] = call[u]
    BY <1>1, ZenonT(60) DEF IInv, Types, Calls, Pcs
  <1>3. /\ gil = t /\ call[t].op = "none" /\ call[t].status # "rejected"
        /\ \A u \in Threads \ {t} : call[u].pc \notin {"acquire", "enqueue", "stop", "release"}
    BY <1>1, Zenon DEF IInv, CallInv
  <1>4. m \in Commands /\ m.type = "stop" /\ m.waiter = FALSE
    BY Zenon DEF Cmd, Commands
  <1>5. PICK n \in Commands : n = m /\ n.type = "stop" /\ ~n.waiter
    BY <1>4, Zenon
  <1> HIDE DEF m
  <1>6. /\ Line' = Append(Line, n) /\ Range(Line') = Range(Line) \cup {n}
        /\ Pending' = Pending \cup {n} /\ Line \in Seq(Commands)
    BY <1>1, <1>5, LineAppended, LineFacts, Zenon DEF IInv
  <1>7. ~Referenced /\ ~Referenced'
    <2>1. ~Referenced
      BY <1>1, Zenon DEF IInv, StopInv
    <2>2. \A u \in Threads : call'[u].op = call[u].op
      BY <1>2, Zenon
    <2> QED
      BY <1>1, <2>1, <2>2, Zenon DEF Referenced, ServerReferenced
  <1>8. Types'
    <2>1. queue' \in Seq(Commands)
      BY <1>1, <1>5 DEF IInv, Types
    <2> QED
      BY <1>1, <1>2, <2>1, Zenon DEF IInv, Types
  <1>9. CallInv'
    BY <1>1, <1>2, <1>3, NamesAssumption, ZenonT(60) DEF IInv, CallInv
  <1>10. BusyInv'
    BY <1>1, <1>2, Zenon DEF IInv, BusyInv, Waits
  <1>11. LineInv'
    <2>1. ASSUME NEW k \in Range(Line) PROVE CommandInv(k)'
      <3>1. CommandInv(k)
        BY Zenon DEF IInv, LineInv
      <3>2. Awaited(k) => Awaited(k)'
        BY <1>1, <1>2, Zenon DEF Awaited
      <3> QED
        BY <1>1, <1>7, <3>1, <3>2, Zenon DEF CommandInv, Live
    <2>2. CommandInv(n)'
      BY <1>1, <1>5, <1>7, Zenon DEF CommandInv
    <2>3. OneWaiter(Line')
      BY <1>5, <1>6, AppendFacts, Zenon DEF IInv, LineInv
    <2> QED
      BY <1>1, <1>2, <1>6, <2>1, <2>2, <2>3, Zenon DEF IInv, LineInv
  <1>12. WorkInv'
    BY <1>1, <1>2, <1>3, ZenonT(60) DEF IInv, WorkInv
  <1>13. StopInv'
    BY <1>1, <1>7, Zenon DEF IInv, StopInv
  <1>14. /\ \A d \in Channels : Creating(d)' <=> Creating(d)
         /\ \A d \in Channels : Queued(d)' <=> Queued(d)
    BY <1>1, <1>5, <1>6, Zenon DEF Creating, Queued
  <1>15. /\ \A d \in Channels : Creator(d)' <=> Creator(d)
         /\ \A d \in Channels : Unqueued(d)' <=> Unqueued(d)
         /\ \A d \in Channels : Closing(d)' <=> Closing(d)
    BY <1>1, <1>2, <1>3, ZenonT(60) DEF Creator, Unqueued, Closing
  <1>16. MethodInv'
    <2>1. ASSUME NEW u \in Threads PROVE CallerInv(u)'
      BY <1>1, <1>2, <1>3, Zenon DEF IInv, MethodInv, CallerInv, Live
    <2>2. \A u \in Threads : call'[u].op = call[u].op /\ call'[u].ch = call[u].ch
      BY <1>2, Zenon
    <2>3. \A u, v \in Threads :
            call'[u].op = "create" /\ call'[v].op = "create" /\ call'[u].ch = call'[v].ch
              => u = v
      BY <2>2, ZenonT(60) DEF IInv, MethodInv
    <2>4. \A d \in Channels : Creating(d)' => d \notin channels'
      BY <1>1, <1>14, Zenon DEF IInv, MethodInv
    <2> QED
      BY <2>1, <2>3, <2>4, Zenon DEF MethodInv
  <1>17. \A d \in Channels : Holders(d)' = Holders(d)
    BY <1>1, <1>14, <1>15, Zenon DEF Holders, In
  <1>18. RefInv' /\ OpenInv'
    BY <1>1, <1>15, <1>17, Zenon DEF IInv, RefInv, OpenInv, Live
  <1>19. DoneInv'
    BY <1>1, <1>2, DoneKept, Zenon
  <1>20. PollInv'
    BY <1>1, Zenon DEF IInv, PollInv
  <1>21. SentInv'
    BY <1>1, PacketsKept, Zenon DEF IInv, SentInv
  <1> QED
    BY <1>8, <1>9, <1>10, <1>11, <1>12, <1>13, <1>16, <1>18, <1>19, <1>20, <1>21, ZenonT(60) DEF IInv

\* The worker has ended; the commands left are freed. They own nothing.
LEMMA JoinedKeeps ==
  ASSUME IInv, NEW t \in Threads, Joined(t)
  PROVE  IInv'
  <1>1. /\ call[t].pc = "join" /\ wpc = "exited" /\ queue' = << >>
        /\ call' = [call EXCEPT ![t] = Idle]
        /\ UNCHANGED <<gil, cmd_lock, accepting, busy, waiter, batch, channels, polled, dirty,
                       wpc, status, todo, stop_seen, chan, server_ref, sent, gone>>
    BY Zenon DEF Joined, workVars, locks
  <1>2. /\ call' \in [Threads -> Calls]
        /\ call'[t].pc = "idle" /\ call'[t].op = "none" /\ call'[t].ch = "none"
        /\ call'[t].status = "ok"
        /\ \A u \in Threads \ {t} : call'[u] = call[u]
    BY <1>1, Zenon DEF IInv, Types, Calls, Pcs, Idle, Statuses
  <1>3. call[t].op = "none" /\ call[t].ch = "none" /\ call[t].status # "rejected" /\ gil # t
    BY <1>1, Zenon DEF IInv, CallInv
  <1>4. ~Referenced /\ ~Referenced'
    <2>1. ~Referenced
      BY <1>1, Zenon DEF IInv, StopInv
    <2>2. \A u \in Threads : call'[u].op = call[u].op
      BY <1>2, <1>3, Zenon
    <2> QED
      BY <1>1, <2>1, <2>2, Zenon DEF Referenced, ServerReferenced
  <1>5. /\ \A d \in Channels : ~Live(d)
        /\ \A u \in Threads : call[u].op \notin {"create", "shutdown"}
    BY <1>4, NamesAssumption, Zenon DEF Referenced, ServerReferenced, Live
  <1>6. \A d \in Channels : /\ ~chan[d].held /\ d \notin channels
                            /\ ~Creator(d) /\ ~Unqueued(d) /\ ~Queued(d) /\ ~Closing(d)
    BY <1>5, DeadFacts, Zenon
  <1>7. \A u \in Threads : ~Waits(u)
    <2>1. ASSUME NEW u \in Threads, Waits(u) PROVE FALSE
      <3>1. call[u].op \in {"close", "set_target"}
        BY <1>5, <2>1, ZenonT(60) DEF IInv, CallInv, Waits, Types, Calls
      <3>2. call[u].ch \in Channels /\ chan[call[u].ch].held
        BY <3>1, Zenon DEF IInv, CallInv, MethodInv, CallerInv
      <3> QED
        BY <1>6, <3>2, Zenon
    <2> QED
      BY <2>1, Zenon
  <1>8. batch = << >> /\ Line' = << >> /\ Range(Line') = {} /\ Pending' = {}
    <2>1. batch = << >>
      BY <1>1, Zenon DEF IInv, WorkInv
    <2>2. Line' = << >> \o << >>
      BY <1>1, <2>1, Zenon DEF Line
    <2>3. Line' = << >>
      BY <2>2
    <2>4. queue' = << >> /\ batch' = << >>
      BY <1>1, <2>1, Zenon
    <2> QED
      BY ONLY <2>1, <2>3, <2>4 DEF Pending, Range
  <1>9. Types'
    BY <1>1, <1>2 DEF IInv, Types
  <1>10. CallInv'
    BY <1>1, <1>2, <1>3, ZenonT(60) DEF IInv, CallInv
  <1>11. BusyInv'
    BY <1>1, <1>2, Zenon DEF IInv, BusyInv, Waits
  <1>12. LineInv'
    <2>1. OneWaiter(Line')
      BY <1>8 DEF OneWaiter
    <2>2. \A u \in Threads : call'[u].pc \notin {"enqueue", "wait"}
      BY <1>2, <1>7, Zenon DEF Waits
    <2> QED
      BY <1>8, <2>1, <2>2, Zenon DEF LineInv
  <1>13. WorkInv' /\ StopInv'
    BY <1>1, <1>2, <1>4, Zenon DEF IInv, WorkInv, StopInv
  <1>14. \A d \in Channels : /\ ~Creator(d)' /\ ~Unqueued(d)' /\ ~Queued(d)'
                             /\ ~Closing(d)' /\ ~Creating(d)'
    BY <1>2, <1>6, <1>8, ZenonT(60) DEF Creator, Unqueued, Closing, Queued, Creating
  <1>15. MethodInv'
    <2>1. ASSUME NEW u \in Threads PROVE CallerInv(u)'
      BY <1>1, <1>2, Zenon DEF IInv, MethodInv, CallerInv, Live
    <2> QED
      BY <1>1, <1>2, <1>14, <2>1, ZenonT(60) DEF IInv, MethodInv
  <1>16. \A d \in Channels : Holders(d)' = Holders(d)
    BY <1>1, <1>6, <1>14, Zenon DEF Holders, In
  <1>17. RefInv'
    BY <1>1, <1>16, Zenon DEF IInv, RefInv, Live
  <1>18. OpenInv'
    BY <1>1, <1>5, Zenon DEF OpenInv, Live
  <1>19. DoneInv'
    BY <1>1, <1>2, DoneKept, Zenon
  <1>20. PollInv'
    BY <1>1, Zenon DEF IInv, PollInv
  <1>21. SentInv'
    BY <1>1, PacketsKept, Zenon DEF IInv, SentInv
  <1> QED
    BY <1>9, <1>10, <1>11, <1>12, <1>13, <1>15, <1>17, <1>18, <1>19, <1>20, <1>21, Zenon DEF IInv

\* Every step of a Python thread.
LEMMA ThreadKeeps ==
  ASSUME IInv, NEW t \in Threads, Method(t) \/ Program(t)
  PROVE  IInv'
  <1>1. CASE Method(t)
    <2>1. Enqueue(t) => IInv'
      BY EnqueueAcceptedKeeps, EnqueueRejectedKeeps, Zenon
    <2> QED
      BY <1>1, <2>1, AcquireKeeps, WokenKeeps, ReleaseKeeps, StopKeeps, JoinedKeeps, Zenon DEF Method
  <1>2. CASE Program(t)
    <2>1. CreateChannel(t) => IInv'
      BY CreateChannelKeeps, Zenon
    <2>2. DelServer(t) => IInv'
      BY DelServerKeeps, Zenon
    <2>3. Shutdown(t) => IInv'
      BY EnterKeeps, Zenon DEF Shutdown
    <2>4. ASSUME NEW c \in Channels PROVE SetTarget(t, c) => IInv'
      BY EnterKeeps, Zenon DEF SetTarget
    <2>5. ASSUME NEW c \in Channels PROVE Close(t, c) => IInv'
      BY EnterKeeps, CloseLocalKeeps, Zenon DEF Close
    <2>6. ASSUME NEW c \in Channels PROVE SendPkt(t, c) => IInv'
      BY PushKeeps, Zenon DEF SendPkt
    <2>7. ASSUME NEW c \in Channels PROVE DelChannel(t, c) => IInv'
      BY DelChannelKeeps, Zenon
    <2> QED
      BY <1>2, <2>1, <2>2, <2>3, <2>4, <2>5, <2>6, <2>7, Zenon DEF Program
  <1> QED
    BY <1>1, <1>2, Zenon

-----------------------------------------------------------------------------
(* The worker drops the channels of its table. *)

\* CMD_DROP_CHANNELS or CMD_STOP_WORKER begins.
LEMMA DropBeginKeeps ==
  ASSUME IInv, DropBegin
  PROVE  IInv'
  <1>1. /\ wpc = "batch" /\ batch # << >> /\ Head(batch).type \in {"shutdown", "stop"}
        /\ wpc' = "drop" /\ cmd_lock' = Worker
        /\ UNCHANGED <<gil, accepting, busy, waiter, queue, batch, channels, polled, dirty,
                       status, todo, stop_seen, call, server_ref, chan, sent, gone>>
    BY Zenon DEF DropBegin, Executing, cmdVars
  <1>2. Types'
    BY <1>1, Zenon DEF IInv, Types, WorkerPcs
  <1>3. WorkInv'
    BY <1>1, Zenon DEF IInv, WorkInv
  <1>4. DoneInv'
    BY <1>1, Zenon DEF IInv, DoneInv, Done
  <1>5. PollInv'
    BY <1>1, Zenon DEF IInv, PollInv
  <1> QED
    BY <1>1, <1>2, <1>3, <1>4, <1>5, TableKept, Zenon

\* It ends: the table is empty and the pollfd cache is cleared.
LEMMA DropEndKeeps ==
  ASSUME IInv, DropEnd
  PROVE  IInv'
  <1>1. /\ wpc = "drop" /\ channels = {} /\ polled' = {} /\ dirty' = FALSE
        /\ cmd_lock' = Nobody /\ status' = "ok" /\ wpc' = "complete"
        /\ stop_seen' = (stop_seen \/ Head(batch).type = "stop")
        /\ UNCHANGED <<gil, accepting, busy, waiter, queue, batch, channels, todo, call,
                       server_ref, chan, sent, gone>>
    BY Zenon DEF DropEnd, CacheCleared, cmdVars
  <1>2. batch # << >> /\ Head(batch).type \in {"shutdown", "stop"}
    BY <1>1, Zenon DEF IInv, WorkInv
  <1>3. CommandInv(Head(batch))
    BY <1>1, <1>2, HeadFacts, Zenon DEF IInv
  <1>4. Types'
    BY <1>1, Zenon DEF IInv, Types, WorkerPcs, Statuses
  <1>5. WorkInv'
    BY <1>1, <1>2, Zenon DEF IInv, WorkInv
  <1>6. DoneInv'
    <2>1. \A u \in Threads : Done(call[u].op, call[u].ch) => Done(call[u].op, call[u].ch)'
      BY <1>1, Zenon DEF Done
    <2> QED
      BY <1>1, <1>2, <2>1, Zenon DEF IInv, DoneInv, Done
  <1>7. PollInv'
    BY <1>1, Zenon DEF IInv, PollInv
  <1>8. stop_seen' => stop_seen \/ ~Referenced
    BY <1>1, <1>3, Zenon DEF CommandInv
  <1> QED
    BY <1>1, <1>2, <1>4, <1>5, <1>6, <1>7, <1>8, TableKept, Zenon

\* clear_channels drops one reference. The thread in shutdown() keeps the server.
LEMMA DropOneKeeps ==
  ASSUME IInv, NEW c \in Channels, DropOne(c)
  PROVE  IInv'
  <1> DEFINE q == Unref(chan[c])
  <1>1. /\ wpc = "drop" /\ c \in channels /\ gil = Nobody
        /\ channels' = channels \ {c} /\ chan' = [chan EXCEPT ![c] = q]
        /\ wpc' = WorkerUnreffed("drop")
        /\ UNCHANGED <<gil, cmd_lock, accepting, busy, waiter, queue, batch, polled, dirty,
                       status, todo, stop_seen, call, server_ref, sent, gone>>
    BY Zenon DEF DropOne, locks, cmdVars
  <1>2. Live(c)
    BY <1>1, DeadFacts, Zenon
  <1>3. Referenced
    BY <1>2, Zenon DEF Referenced, ServerReferenced, Live
  <1>4. /\ batch # << >> /\ Head(batch).type = "shutdown" /\ Head(batch).waiter
        /\ Head(batch) \in Range(Line) /\ ~accepting
    <2>1. batch # << >> /\ Head(batch).type \in {"shutdown", "stop"}
      BY <1>1, Zenon DEF IInv, WorkInv
    <2>2. CommandInv(Head(batch)) /\ Head(batch) \in Range(Line)
      BY <1>1, <2>1, HeadFacts, Zenon DEF IInv
    <2> QED
      BY <1>3, <2>1, <2>2, Zenon DEF CommandInv
  <1>5. PICK t \in Threads : /\ call[t].pc = "wait" /\ call[t].op = "shutdown"
                             /\ \A u \in Threads \ {t} : ~Waits(u)
    BY <1>1, <1>4, HeadAwaited, Zenon
  <1>6. \A u \in Threads : /\ call[u].pc \notin {"acquire", "enqueue", "release", "stop", "join"}
                           /\ call[u].pc = "wait" => u = t
                           /\ call[u].op # "create"
    <2>1. ASSUME NEW u \in Threads PROVE call[u].pc \notin {"acquire", "enqueue", "release", "stop"}
      BY <1>1, NamesAssumption, Zenon DEF IInv, CallInv
    <2>2. ASSUME NEW u \in Threads PROVE call[u].pc # "join"
      BY <1>3, Zenon DEF IInv, StopInv
    <2>3. ASSUME NEW u \in Threads PROVE call[u].pc = "wait" => u = t
      BY <1>5, Zenon DEF Waits
    <2>4. ASSUME NEW u \in Threads PROVE call[u].op # "create"
      <3>1. call[u].op = "create" => call[u].pc \notin {"idle", "stop", "join"}
        BY Zenon DEF IInv, CallInv
      <3>2. call[u].pc \in Pcs
        BY Zenon DEF IInv, Types, Calls
      <3> QED
        BY <1>5, <2>1, <2>3, <3>1, <3>2, Zenon DEF Pcs
    <2> QED
      BY <2>1, <2>2, <2>3, <2>4, Zenon
  <1>7. Referenced' /\ wpc' = "drop"
    <2>1. t \in Threads \ {Nobody}
      BY NamesAssumption, Zenon
    <2>2. ServerReferenced(Nobody, server_ref, chan')
      BY <1>5, <2>1, Zenon DEF ServerReferenced
    <2>3. wpc' = "drop"
      BY <1>1, <2>2, Zenon DEF WorkerUnreffed
    <2> QED
      BY <1>1, <1>5, <2>1, <2>3, Zenon DEF Referenced, ServerReferenced
  <1>8. /\ chan[c] \in ChannelStates /\ chan \in [Channels -> ChannelStates]
        /\ chan[c].refs > 0 /\ chan[c].life = "live"
    BY <1>2, Zenon DEF IInv, Types, RefInv, Live
  <1>9. /\ q \in ChannelStates /\ q.refs = chan[c].refs - 1
        /\ q.held = chan[c].held /\ q.accepted = chan[c].accepted
        /\ q.has_target = chan[c].has_target /\ q.target = chan[c].target
        /\ chan[c].closed => q.closed
        /\ \/ /\ q.refs > 0 /\ q.life = "live" /\ q.outq = chan[c].outq
              /\ q.closed = chan[c].closed /\ q.orphan = chan[c].orphan
           \/ /\ q.refs = 0 /\ q.life = "freed" /\ q.outq = << >>
              /\ q.closed = TRUE /\ q.orphan = FALSE
    BY <1>8, UnrefLive, Zenon
  <1> HIDE DEF q
  <1>10. chan'[c] = q /\ \A d \in Channels \ {c} : chan'[d] = chan[d]
    BY <1>1, <1>8, Zenon
  <1>11. Line' = Line /\ Pending' = Pending
    BY <1>1, <1>7, Zenon DEF Line, Pending
  <1>12. Types'
    <2>1. chan' \in [Channels -> ChannelStates]
      BY <1>1, <1>8, <1>9, Zenon
    <2> QED
      BY <1>1, <1>7, <2>1, ZenonT(60) DEF IInv, Types
  <1>13. CallInv' /\ BusyInv'
    BY <1>1, <1>7, ZenonT(60) DEF IInv, CallInv, BusyInv, Waits
  <1>14. LineInv'
    <2>1. ASSUME NEW m \in Range(Line) PROVE CommandInv(m)'
      <3>1. CommandInv(m)
        BY Zenon DEF IInv, LineInv
      <3>2. m.type # "stop"
        BY <1>3, <3>1, Zenon DEF CommandInv
      <3>3. Awaited(m) => Awaited(m)'
        BY <1>1, <1>7, Zenon DEF Awaited
      <3>4. ASSUME m.type = "close", ~m.waiter
            PROVE  /\ chan'[m.ch].life # "none"
                   /\ chan'[m.ch].life = "live" => chan'[m.ch].closed /\ chan'[m.ch].orphan
        <4>1. /\ m.ch \in Channels /\ chan[m.ch].life # "none"
              /\ Live(m.ch) => chan[m.ch].closed /\ chan[m.ch].orphan
          BY <3>1, <3>4, Zenon DEF CommandInv
        <4> QED
          BY <1>2, <1>9, <1>10, <4>1, Zenon DEF Live
      <3> QED
        BY <1>1, <3>1, <3>2, <3>3, <3>4, Zenon DEF CommandInv, Live
    <2> QED
      BY <1>1, <1>11, <2>1, Zenon DEF IInv, LineInv
  <1>15. WorkInv'
    BY <1>1, <1>4, <1>7, Zenon DEF IInv, WorkInv
  <1>16. StopInv'
    BY <1>1, <1>3, <1>6, <1>7, Zenon DEF IInv, StopInv
  <1>17. /\ \A d \in Channels : Creating(d)' <=> Creating(d)
         /\ \A d \in Channels : Queued(d)' <=> Queued(d)
         /\ \A d \in Channels : Creator(d)' <=> Creator(d)
         /\ \A d \in Channels : Unqueued(d)' <=> Unqueued(d)
         /\ \A d \in Channels : ~Closing(d) /\ ~Closing(d)'
    <2>1. /\ \A d \in Channels : Creating(d)' <=> Creating(d)
          /\ \A d \in Channels : Queued(d)' <=> Queued(d)
      BY <1>1, <1>7, <1>11, Zenon DEF Creating, Queued
    <2>2. /\ \A d \in Channels : Creator(d)' <=> Creator(d)
          /\ \A d \in Channels : Unqueued(d)' <=> Unqueued(d)
      BY <1>1, Zenon DEF Creator, Unqueued
    <2>3. \A d \in Channels : ~Closing(d) /\ ~Closing(d)'
      BY <1>1, <1>5, <1>6, Zenon DEF Closing
    <2> QED
      BY <2>1, <2>2, <2>3, Zenon
  <1>18. MethodInv'
    <2>1. ASSUME NEW u \in Threads PROVE CallerInv(u)'
      <3>1. /\ CallerInv(u) /\ call[u].op # "create" /\ call[u].pc \notin {"acquire", "enqueue"}
            /\ call[u].op \in {"close", "set_target"} => call[u].ch \in Channels
        BY <1>6, Zenon DEF IInv, MethodInv, CallInv
      <3>2. \A d \in Channels : chan'[d].held = chan[d].held
        BY <1>9, <1>10, Zenon
      <3> QED
        BY <1>1, <3>1, <3>2, Zenon DEF CallerInv
    <2> QED
      BY <1>1, <1>17, <2>1, Zenon DEF IInv, MethodInv
  <1>19. RefInv'
    <2>1. \A d \in Channels \ {c} : Holders(d)' = Holders(d)
      BY <1>1, <1>10, <1>17, Zenon DEF Holders, In
    <2>2. chan'[c].held = chan[c].held
      BY <1>9, <1>10, Zenon
    <2>3. Holders(c) = Holders(c)' + 1 /\ Holders(c)' \in Nat
      <3>1. /\ c \in channels /\ c \notin channels'
            /\ chan'[c].held = chan[c].held /\ ~Closing(c) /\ ~Closing(c)'
            /\ Creator(c)' <=> Creator(c)
            /\ Unqueued(c)' <=> Unqueued(c)
            /\ Queued(c)' <=> Queued(c)
        BY <1>1, <1>17, <2>2, Zenon
      <3> QED
        BY ONLY <3>1 DEF Holders, In
    <2>4. chan[c].refs = Holders(c) /\ (chan[c].orphan => chan[c].closed)
      BY <1>1, Zenon DEF IInv, RefInv
    <2>5. /\ chan'[c].refs = Holders(c)' /\ (Live(c)' <=> chan'[c].refs > 0)
          /\ chan'[c].orphan => chan'[c].closed
      BY <1>9, <1>10, <2>3, <2>4 DEF Live
    <2> QED
      BY <1>1, <1>10, <2>1, <2>5, ZenonT(60) DEF IInv, RefInv, Live
  <1>20. OpenInv'
    BY <1>1, <1>4, Zenon DEF OpenInv
  <1>21. DoneInv'
    <2>1. ~waiter.done
      BY <1>1, <1>4, HeadAwaited, Zenon
    <2> QED
      BY <1>1, <1>6, <1>7, <2>1, Zenon DEF DoneInv
  <1>22. PollInv'
    <2>1. \A d \in gone : chan'[d].closed
      <3>1. \A d \in gone : d \in Channels /\ chan[d].closed
        BY Zenon DEF IInv, Types, PollInv
      <3> QED
        BY <1>9, <1>10, <3>1, Zenon
    <2> QED
      BY <1>1, <1>7, <2>1, Zenon DEF IInv, PollInv
  <1>23. SentInv'
    <2>1. ASSUME NEW d \in Channels PROVE PacketInv(d)'
      BY <1>1, <1>2, <1>9, <1>10, PacketsKept, ZenonT(60) DEF IInv, Live
    <2> QED
      BY <2>1, Zenon DEF SentInv
  <1> QED
    BY <1>12, <1>13, <1>14, <1>15, <1>16, <1>18, <1>19, <1>20, <1>21, <1>22, <1>23, ZenonT(60) DEF IInv

-----------------------------------------------------------------------------
(* The worker is done with a command. *)

\* rtp_sync_waiter_complete: the thread that waits learns the status, and the
\* command leaves the line.
LEMMA CompleteKeeps ==
  ASSUME IInv, Complete
  PROVE  IInv'
  <1> DEFINE h == Head(batch)
  <1>1. /\ wpc = "complete"
        /\ waiter' = IF h.waiter THEN [done |-> TRUE, status |-> status] ELSE waiter
        /\ \/ status = "ENOMEM" /\ wpc' = "unref" /\ batch' = batch
           \/ status # "ENOMEM" /\ wpc' = "batch" /\ batch' = Tail(batch)
        /\ UNCHANGED <<gil, cmd_lock, accepting, busy, queue, channels, polled, dirty, status,
                       todo, stop_seen, call, server_ref, chan, sent, gone>>
    BY Zenon DEF Complete, locks
  <1>2. /\ batch # << >> /\ h \in Range(Line) /\ h \in Commands /\ CommandInv(h)
        /\ status = "ENOMEM" => h.type = "create" /\ h.ch \notin channels
        /\ status = "ENOENT" => h.type = "set_target"
        /\ status \in Statuses
    BY <1>1, HeadFacts, Zenon DEF IInv, WorkInv, Types
  <1>3. /\ Line \in Seq(Commands) /\ Line # << >> /\ Head(Line) = h
        /\ Tail(Line) = Tail(batch) \o queue /\ Pending = Range(Line)
    BY <1>1, <1>2, LineFacts, Zenon DEF IInv
  <1>4. Line' = Tail(Line)
    BY <1>1, <1>3, Zenon DEF Line
  <1>5. /\ Range(Line) = {h} \cup Range(Line') /\ OneWaiter(Line')
        /\ h.waiter => \A m \in Range(Line') : ~m.waiter
    BY <1>3, <1>4, TailFacts, Zenon DEF IInv, LineInv
  <1> HIDE DEF h
  <1>6. /\ h.waiter => waiter'.done /\ waiter'.status = status
        /\ ~h.waiter => waiter' = waiter
        /\ waiter' \in [done : BOOLEAN, status : Statuses]
    BY <1>1, <1>2, Zenon DEF IInv, Types
  <1>7. h.waiter =>
          /\ ~waiter.done
          /\ \E t \in Threads :
               /\ call[t].pc = "wait" /\ call[t].op = h.type /\ call[t].ch = h.ch
               /\ \A u \in Threads \ {t} : ~Waits(u)
    BY <1>1, <1>2, HeadAwaited, Zenon DEF h
  <1>8. Referenced' <=> Referenced
    BY <1>1, Zenon DEF Referenced, ServerReferenced
  <1>9. Types'
    <2>1. batch' \in Seq(Commands)
      <3>1. batch \in Seq(Commands)
        BY Zenon DEF IInv, Types
      <3>2. Tail(batch) \in Seq(Commands)
        BY <1>2, <3>1, TailFacts, Zenon
      <3> QED
        BY <1>1, <3>1, <3>2, Zenon
    <2> QED
      BY <1>1, <1>6, <2>1, ZenonT(60) DEF IInv, Types, WorkerPcs
  <1>10. CallInv' /\ BusyInv'
    BY <1>1, ZenonT(60) DEF IInv, CallInv, BusyInv, Waits
  <1>11. LineInv'
    <2>1. ASSUME NEW m \in Range(Line') PROVE CommandInv(m)'
      <3>1. CommandInv(m) /\ (m.waiter => ~h.waiter)
        BY <1>5, Zenon DEF IInv, LineInv
      <3>2. Awaited(m) => Awaited(m)'
        BY <1>1, Zenon DEF Awaited
      <3> QED
        BY <1>1, <1>6, <1>8, <3>1, <3>2, Zenon DEF CommandInv, Live
    <2>2. ASSUME NEW u \in Threads, call[u].pc = "enqueue" PROVE ~waiter'.done
      <3>1. ~h.waiter
        BY <1>7, <2>2, Zenon DEF Waits
      <3> QED
        BY <1>6, <2>2, <3>1, Zenon DEF IInv, LineInv
    <2>3. ASSUME NEW u \in Threads, call[u].pc = "wait"
          PROVE  waiter'.done \/ Cmd(call[u].op, call[u].ch, TRUE) \in Range(Line')
      <3>1. CASE h.waiter
        BY <1>6, <3>1, Zenon
      <3>2. CASE ~h.waiter
        <4>1. Cmd(call[u].op, call[u].ch, TRUE).waiter
          BY Zenon DEF Cmd
        <4>2. waiter.done \/ Cmd(call[u].op, call[u].ch, TRUE) \in Range(Line)
          BY <2>3, Zenon DEF IInv, LineInv
        <4> QED
          BY <1>5, <1>6, <3>2, <4>1, <4>2, Zenon
      <3> QED
        BY <3>1, <3>2, Zenon
    <2> QED
      BY <1>1, <1>5, <2>1, <2>2, <2>3, Zenon DEF LineInv
  <1>12. WorkInv'
    <2>1. CASE wpc' = "batch"
      BY <1>1, <2>1, Zenon DEF WorkInv
    <2>2. CASE wpc' = "unref"
      <3>1. h.type = "create" /\ h.ch \notin channels /\ batch' = batch
        BY <1>1, <1>2, <2>2, Zenon
      <3>2. /\ h.ch \in Channels /\ ~chan[h.ch].held
            /\ \A t \in Threads : call[t].op = "create" /\ call[t].ch = h.ch => call[t].pc = "wait"
        BY <1>1, <1>2, <3>1, HeadCreates, Zenon DEF h
      <3>3. waiter'.done
        BY <1>2, <1>6, <3>1, Zenon DEF CommandInv
      <3> QED
        BY <1>1, <1>2, <2>2, <3>1, <3>2, <3>3, Zenon DEF WorkInv, h
    <2> QED
      BY <1>1, <2>1, <2>2, Zenon
  <1>13. StopInv'
    BY <1>1, <1>8, Zenon DEF IInv, StopInv
  <1>14. /\ \A d \in Channels : Creator(d)' <=> Creator(d)
         /\ \A d \in Channels : Unqueued(d)' <=> Unqueued(d)
         /\ \A d \in Channels : Closing(d)' <=> Closing(d)
    BY <1>1, Zenon DEF Creator, Unqueued, Closing
  <1>15. \A m \in Range(Line') : m.type = "create" => m.waiter /\ m # h
    <2>1. \A m \in Range(Line') : m.type = "create" => m.waiter
      BY <1>5, Zenon DEF IInv, LineInv, CommandInv
    <2> QED
      BY <1>5, <2>1, Zenon
  <1>16. \A d \in Channels : Queued(d)' <=> Queued(d)
    <2>1. CASE wpc' = "unref"
      <3>1. Pending' = Pending /\ status # "ok"
        BY <1>1, <2>1, Zenon DEF Pending
      <3> QED
        BY <1>1, <2>1, <3>1, Zenon DEF Queued
    <2>2. CASE wpc' = "batch"
      <3>1. Pending' = Range(Line')
        <4>1. batch' \in Seq(Commands) /\ queue' \in Seq(Commands) /\ Line' = batch' \o queue'
          BY <1>9, <2>2, Zenon DEF Types, Line
        <4> QED
          BY <4>1, ConcatFacts DEF Pending
      <3>2. \A d \in Channels : Queued(d)' <=> \E m \in Range(Line') : m.type = "create" /\ m.ch = d
        BY <2>2, <3>1, Zenon DEF Queued
      <3>3. h.type # "create" \/ status = "ok"
        BY <1>1, <1>2, <2>2, Zenon DEF Statuses
      <3>4. \A d \in Channels : Queued(d) <=> \E m \in Range(Line) : /\ m.type = "create" /\ m.ch = d
                                                                    /\ m # h
        BY <1>1, <1>3, <3>3, Zenon DEF Queued, h
      <3> QED
        BY <1>5, <1>15, <3>2, <3>4, Zenon
    <2> QED
      BY <1>1, <2>1, <2>2, Zenon
  <1>17. \A d \in Channels : Creating(d)' => Creating(d)
    BY <1>1, <1>5, <1>15, Zenon DEF Creating, h
  <1>18. MethodInv'
    <2>1. ASSUME NEW u \in Threads PROVE CallerInv(u)'
      BY <1>1, Zenon DEF IInv, MethodInv, CallerInv, Live
    <2> QED
      BY <1>1, <1>17, <2>1, Zenon DEF IInv, MethodInv
  <1>19. \A d \in Channels : Holders(d)' = Holders(d)
    BY <1>1, <1>14, <1>16, Zenon DEF Holders, In
  <1>20. RefInv' /\ OpenInv'
    BY <1>1, <1>14, <1>19, Zenon DEF IInv, RefInv, OpenInv, Live
  <1>21. DoneInv'
    <2>1. \A type, d : Done(type, d)' <=> Done(type, d)
      BY <1>1, Zenon DEF Done
    <2>2. CASE ~h.waiter
      BY <1>1, <1>6, <2>1, <2>2, Zenon DEF IInv, DoneInv
    <2>3. CASE h.waiter
      <3>1. PICK t \in Threads :
              /\ call[t].pc = "wait" /\ call[t].op = h.type /\ call[t].ch = h.ch
              /\ \A u \in Threads \ {t} : ~Waits(u)
        BY <1>7, <2>3, Zenon
      <3>2. Fulfils(call[t].op, waiter'.status) => Done(call[t].op, call[t].ch)
        BY <1>1, <1>6, <2>3, <3>1, Zenon DEF IInv, DoneInv, h
      <3> QED
        BY <1>1, <2>1, <3>1, <3>2, Zenon DEF DoneInv, Waits
    <2> QED
      BY <2>2, <2>3, Zenon
  <1>22. PollInv'
    BY <1>1, Zenon DEF IInv, PollInv
  <1>23. SentInv'
    BY <1>1, PacketsKept, Zenon DEF IInv, SentInv
  <1> QED
    BY <1>9, <1>10, <1>11, <1>12, <1>13, <1>18, <1>20, <1>21, <1>22, <1>23, Zenon DEF IInv

\* free_command drops the reference of an ADD that failed.
LEMMA FreeFailedAddKeeps ==
  ASSUME IInv, FreeFailedAdd
  PROVE  IInv'
  <1>1. PICK c \in Channels : c = Head(batch).ch
    BY Zenon DEF IInv, WorkInv, FreeFailedAdd
  <1> DEFINE q == Unref(chan[c])
  <1>2. /\ wpc = "unref" /\ chan' = [chan EXCEPT ![c] = q] /\ batch' = Tail(batch)
        /\ wpc' = WorkerUnreffed("batch")
        /\ UNCHANGED <<gil, cmd_lock, accepting, busy, waiter, queue, channels, polled, dirty,
                       status, todo, stop_seen, call, server_ref, sent, gone>>
    BY <1>1, Zenon DEF FreeFailedAdd, locks, cmdVars
  <1>3. wpc' \in {"batch", "selfjoin"} /\ (wpc' = "selfjoin" => ~Referenced')
    BY <1>2, Zenon DEF WorkerUnreffed, Referenced, ServerReferenced
  <1>4. /\ batch # << >> /\ Head(batch).type = "create" /\ c \notin channels /\ ~chan[c].held
        /\ \A t \in Threads : call[t].op = "create" /\ call[t].ch = c =>
                                \/ call[t].pc = "wait" /\ waiter.done
                                \/ call[t].pc = "release" /\ call[t].status # "rejected"
    BY <1>1, <1>2, Zenon DEF IInv, WorkInv
  <1>5. /\ Pending = Range(Line) \cup {Head(batch)} /\ batch \in Seq(Commands)
        /\ queue \in Seq(Commands) /\ Tail(batch) \in Seq(Commands)
    BY <1>2, <1>4, LineFacts, TailFacts, Zenon DEF IInv, Types
  <1>6. Line' = Line /\ Pending' = Range(Line)
    <2>1. Line = Tail(batch) \o queue /\ Line' = Tail(batch) \o queue
      BY <1>2, <1>3, Zenon DEF Line
    <2>2. \A r, s \in Seq(Commands) : Range(r \o s) = Range(r) \cup Range(s)
      BY ConcatFacts
    <2>3. Range(Tail(batch) \o queue) = Range(Tail(batch)) \cup Range(queue)
      BY ONLY <1>5, <2>2, Zenon
    <2> QED
      BY <1>2, <2>1, <2>3, Zenon DEF Pending
  <1>7. ~Unqueued(c) /\ ~Closing(c)
    <2>1. ~Unqueued(c)
      BY <1>4, Zenon DEF IInv, CallInv, Unqueued
    <2>2. ~Closing(c)
      BY <1>4, Zenon DEF IInv, MethodInv, CallerInv, Closing
    <2> QED
      BY <2>1, <2>2, Zenon
  <1>8. \A m \in Range(Line) : m.type = "create" => m.ch # c
    <2>1. ASSUME NEW m \in Range(Line), m.type = "create" PROVE m.ch # c
      <3>1. ~waiter.done /\ Awaited(m)
        BY <2>1, Zenon DEF IInv, LineInv, CommandInv
      <3> QED
        BY <1>4, <2>1, <3>1, Zenon DEF Awaited
    <2> QED
      BY <2>1, Zenon
  <1>9. /\ Queued(c) /\ ~Queued(c)'
        /\ \A d \in Channels \ {c} : Queued(d)' <=> Queued(d)
        /\ \A d \in Channels : Creating(d)' <=> Creating(d)
    BY <1>1, <1>2, <1>3, <1>4, <1>5, <1>6, <1>8, Zenon DEF Queued, Creating
  <1>10. /\ \A d \in Channels : Creator(d)' <=> Creator(d)
         /\ \A d \in Channels : Unqueued(d)' <=> Unqueued(d)
         /\ \A d \in Channels : Closing(d)' <=> Closing(d)
    BY <1>2, Zenon DEF Creator, Unqueued, Closing
  <1>11. Holders(c) \in {1, 2} /\ (Creator(c) => Holders(c) = 2)
    BY <1>4, <1>7, <1>9 DEF Holders, In
  <1>12. /\ chan[c] \in ChannelStates /\ chan \in [Channels -> ChannelStates]
         /\ chan[c].refs \in Nat /\ chan[c].refs > 0 /\ chan[c].life = "live"
    <2>1. chan[c] \in ChannelStates /\ chan \in [Channels -> ChannelStates]
      BY Zenon DEF IInv, Types
    <2>2. chan[c].refs > 0
      BY <1>11 DEF IInv, RefInv
    <2> QED
      BY <2>1, <2>2, Zenon DEF IInv, RefInv, Live, ChannelStates
  <1>13. /\ q \in ChannelStates /\ q.refs = chan[c].refs - 1
         /\ q.held = chan[c].held /\ q.accepted = chan[c].accepted
         /\ q.has_target = chan[c].has_target /\ q.target = chan[c].target
         /\ chan[c].closed => q.closed
         /\ \/ /\ chan[c].refs > 1 /\ q.refs > 0 /\ q.life = "live" /\ q.outq = chan[c].outq
               /\ q.closed = chan[c].closed /\ q.orphan = chan[c].orphan
            \/ /\ chan[c].refs = 1 /\ q.refs = 0 /\ q.life = "freed" /\ q.outq = << >>
               /\ q.closed = TRUE /\ q.orphan = FALSE
    BY <1>12, UnrefLive, Zenon
  <1> HIDE DEF q
  <1>14. chan'[c] = q /\ \A d \in Channels \ {c} : chan'[d] = chan[d]
    BY <1>2, <1>12, Zenon
  <1>15. ~Referenced => ~Referenced'
    <2>1. \A d \in Channels : chan'[d].life = "live" => chan[d].life = "live"
      BY <1>12, <1>14, Zenon
    <2> QED
      BY <1>2, <2>1, Zenon DEF Referenced, ServerReferenced
  <1>16. Types'
    <2>1. chan' \in [Channels -> ChannelStates]
      BY <1>2, <1>12, <1>13, Zenon
    <2> QED
      BY <1>2, <1>3, <1>5, <2>1, ZenonT(60) DEF IInv, Types, WorkerPcs
  <1>17. CallInv' /\ BusyInv'
    BY <1>2, <1>3, ZenonT(60) DEF IInv, CallInv, BusyInv, Waits
  <1>18. LineInv'
    <2>1. ASSUME NEW m \in Range(Line) PROVE CommandInv(m)'
      <3>1. CommandInv(m)
        BY Zenon DEF IInv, LineInv
      <3>2. Awaited(m) => Awaited(m)'
        BY <1>2, Zenon DEF Awaited
      <3>3. ASSUME m.type = "close", ~m.waiter
            PROVE  /\ chan'[m.ch].life # "none"
                   /\ chan'[m.ch].life = "live" => chan'[m.ch].closed /\ chan'[m.ch].orphan
        <4>1. /\ m.ch \in Channels /\ chan[m.ch].life # "none"
              /\ Live(m.ch) => chan[m.ch].closed /\ chan[m.ch].orphan
          BY <3>1, <3>3, Zenon DEF CommandInv
        <4> QED
          BY <1>12, <1>13, <1>14, <4>1, Zenon DEF Live
      <3> QED
        BY <1>2, <1>15, <3>1, <3>2, <3>3, Zenon DEF CommandInv, Live
    <2> QED
      BY <1>2, <1>6, <2>1, Zenon DEF IInv, LineInv
  <1>19. WorkInv'
    <2>1. status' = "ENOMEM"
      BY <1>2, Zenon DEF IInv, WorkInv
    <2>2. wpc' # "unref" /\ wpc' # "drop" /\ wpc' # "complete"
      BY <1>3, Zenon
    <2> QED
      BY <1>3, <2>1, <2>2, Zenon DEF WorkInv
  <1>20. StopInv'
    BY <1>2, <1>3, <1>15, Zenon DEF IInv, StopInv
  <1>21. RefInv'
    <2>1. \A d \in Channels \ {c} : Holders(d)' = Holders(d)
      <3>1. ASSUME NEW d \in Channels \ {c} PROVE Holders(d)' = Holders(d)
        BY <1>2, <1>9, <1>10, <1>14, <3>1, SameHolders, Zenon
      <3> QED
        BY <3>1, Zenon
    <2>2. chan'[c].held = chan[c].held
      BY <1>13, <1>14, Zenon
    <2>3. Holders(c) = Holders(c)' + 1 /\ Holders(c)' \in {0, 1}
      <3>1. /\ ~chan[c].held /\ Queued(c) /\ c \notin channels /\ ~Closing(c)
            /\ ~chan'[c].held /\ ~Queued(c)' /\ ~Unqueued(c)' /\ c \notin channels'
            /\ ~Closing(c)' /\ (Creator(c)' <=> Creator(c))
        BY <1>2, <1>4, <1>7, <1>9, <1>10, <2>2, Zenon
      <3>2. Holders(c) = In(Creator(c)) + 1
        BY ONLY <3>1 DEF Holders, In
      <3>3. Holders(c)' = In(Creator(c))
        BY ONLY <3>1 DEF Holders, In
      <3> QED
        BY ONLY <3>2, <3>3, Zenon DEF In
    <2>4. /\ chan[c].refs = Holders(c) \/ (chan[c].refs = Holders(c) + 1 /\ chan[c].orphan)
          /\ chan[c].orphan => chan[c].closed
      BY Zenon DEF IInv, RefInv
    <2>5. /\ Live(c)' <=> chan'[c].refs > 0
          /\ chan'[c].orphan => chan'[c].closed
          /\ \/ chan'[c].refs = Holders(c)'
             \/ chan'[c].refs = Holders(c)' + 1 /\ Live(c)' /\ chan'[c].orphan
      <3>1. \/ q.refs = Holders(c)'
            \/ q.refs = Holders(c)' + 1 /\ chan[c].orphan /\ chan[c].refs > 1
        BY <1>12, <1>13, <2>3, <2>4
      <3> QED
        BY <1>13, <1>14, <2>4, <3>1 DEF Live
    <2> QED
      BY <1>2, <1>4, <1>14, <2>1, <2>5, ZenonT(60) DEF IInv, RefInv, Live
  <1>22. MethodInv'
    <2>1. ASSUME NEW u \in Threads PROVE CallerInv(u)'
      <3>1. /\ CallerInv(u)
            /\ call[u].op \in {"create", "close", "set_target"} => call[u].ch \in Channels
        BY Zenon DEF IInv, MethodInv, CallInv
      <3>2. ASSUME call[u].op = "create", call[u].ch = c
            PROVE  q.life = "live" /\ q.closed = chan[c].closed
        <4>1. Creator(c)
          BY <3>2, Zenon DEF Creator
        <4>2. chan[c].refs > 1
          BY <1>11, <4>1 DEF IInv, RefInv
        <4>3. ~(chan[c].refs = 1)
          BY ONLY <1>12, <4>2
        <4> QED
          BY <1>13, <4>3, Zenon
      <3>3. \A d \in Channels : chan'[d].held = chan[d].held
        BY <1>13, <1>14, Zenon
      <3>4. call[u].op = "create" => /\ chan'[call[u].ch].life = chan[call[u].ch].life
                                     /\ chan'[call[u].ch].closed = chan[call[u].ch].closed
        BY <1>12, <1>14, <3>1, <3>2, Zenon
      <3>5. call[u].op = "close" => call[u].ch # c
        BY <1>4, <3>1, Zenon DEF CallerInv
      <3>6. call' = call /\ channels' = channels
        BY <1>2, Zenon
      <3>7. call[u].op = "close" => chan'[call[u].ch] = chan[call[u].ch]
        BY <1>14, <3>1, <3>5, Zenon
      <3> QED
        BY <3>1, <3>3, <3>4, <3>6, <3>7, Zenon DEF CallerInv, Live
    <2> QED
      BY <1>2, <1>9, <2>1, Zenon DEF IInv, MethodInv
  <1>23. OpenInv'
    BY <1>2, <1>10, <1>12, <1>13, <1>14, Zenon DEF IInv, OpenInv, Live
  <1>24. DoneInv'
    <2>1. \A d \in Channels : chan'[d].target = chan[d].target
      BY <1>13, <1>14, Zenon
    <2>2. ASSUME NEW u \in Threads, Done(call[u].op, call[u].ch)
          PROVE  Done(call[u].op, call[u].ch)'
      <3>1. call[u].op = "set_target" => call[u].ch \in Channels
        BY Zenon DEF IInv, CallInv
      <3> QED
        BY <1>2, <2>1, <2>2, <3>1, Zenon DEF Done
    <2> QED
      BY <1>2, <1>3, <2>2, Zenon DEF IInv, DoneInv
  <1>25. PollInv'
    <2>1. \A d \in gone : chan'[d].closed
      <3>1. \A d \in gone : d \in Channels /\ chan[d].closed
        BY Zenon DEF IInv, Types, PollInv
      <3> QED
        BY <1>13, <1>14, <3>1, Zenon
    <2> QED
      BY <1>2, <1>3, <2>1, Zenon DEF IInv, PollInv
  <1>26. SentInv'
    <2>1. ASSUME NEW d \in Channels PROVE PacketInv(d)'
      BY <1>2, <1>12, <1>13, <1>14, PacketsKept, ZenonT(60) DEF IInv, Live
    <2> QED
      BY <2>1, Zenon DEF SentInv
  <1> QED
    BY <1>16, <1>17, <1>18, <1>19, <1>20, <1>21, <1>22, <1>23, <1>24, <1>25, <1>26, Zenon DEF IInv

-----------------------------------------------------------------------------
(* What pkt_in does on the worker. *)

\* close() in a callback: no thread waits, and the table's reference is forgotten.
LEMMA CallbackCloseKeeps ==
  ASSUME IInv, NEW c \in Channels, CallbackClose(c)
  PROVE  IInv'
  <1> DEFINE r1 == [chan[c] EXCEPT !.closed = TRUE]
             q == [r1 EXCEPT !.orphan = accepting]
             m == Cmd("close", c, FALSE)
  <1>1. /\ wpc = "callback" /\ gil = Nobody /\ Live(c) /\ chan[c].held /\ ~chan[c].closed
        /\ chan' = [chan EXCEPT ![c] = q]
        /\ queue' = IF accepting THEN Append(queue, m) ELSE queue
        /\ UNCHANGED <<gil, cmd_lock, accepting, busy, waiter, batch, channels, polled, dirty,
                       wpc, status, todo, stop_seen, call, server_ref, sent, gone>>
    BY Zenon DEF CallbackClose, Usable, locks, workVars
  <1>2. /\ chan[c] \in ChannelStates /\ chan \in [Channels -> ChannelStates]
        /\ accepting \in BOOLEAN /\ queue \in Seq(Commands)
    BY Zenon DEF IInv, Types
  <1>3. /\ r1 \in ChannelStates /\ r1.closed = TRUE /\ r1.refs = chan[c].refs
        /\ r1.held = chan[c].held /\ r1.life = chan[c].life
        /\ r1.target = chan[c].target /\ r1.has_target = chan[c].has_target
        /\ r1.accepted = chan[c].accepted /\ r1.outq = chan[c].outq
    BY <1>2, Zenon DEF ChannelStates
  <1> HIDE DEF r1
  <1>4. /\ q \in ChannelStates /\ q.closed = TRUE /\ q.refs = chan[c].refs
        /\ q.held = chan[c].held /\ q.life = chan[c].life /\ q.orphan = accepting
        /\ q.target = chan[c].target /\ q.has_target = chan[c].has_target
        /\ q.accepted = chan[c].accepted /\ q.outq = chan[c].outq
    BY <1>2, <1>3, Zenon DEF ChannelStates
  <1> HIDE DEF q
  <1>5. chan'[c] = q /\ \A d \in Channels \ {c} : chan'[d] = chan[d]
    BY <1>1, <1>2, Zenon
  <1>6. \A d \in Channels :
          /\ chan'[d].life = chan[d].life /\ chan'[d].refs = chan[d].refs
          /\ chan'[d].held = chan[d].held /\ (chan[d].closed => chan'[d].closed)
          /\ d # c => chan'[d].closed = chan[d].closed /\ chan'[d].orphan = chan[d].orphan
    BY <1>4, <1>5, Zenon
  <1>7. m \in Commands /\ m.type = "close" /\ m.ch = c /\ m.waiter = FALSE
    BY Zenon DEF Cmd, Commands
  <1>8. PICK n \in Commands : n = m /\ n.type = "close" /\ n.ch = c /\ ~n.waiter
    BY <1>7, Zenon
  <1> HIDE DEF m
  <1>9. /\ Range(Line') \subseteq Range(Line) \cup {n} /\ OneWaiter(Line')
        /\ Range(Line) \subseteq Range(Line')
        /\ \A k : k.type = "create" => (k \in Pending' <=> k \in Pending)
        /\ n \in Range(Line') => accepting
    <2>1. Line \in Seq(Commands) /\ OneWaiter(Line)
      BY LineFacts, Zenon DEF IInv, LineInv
    <2>2. CASE accepting
      <3>1. /\ Line' = Append(Line, n) /\ Range(Line') = Range(Line) \cup {n}
            /\ Pending' = Pending \cup {n}
        BY <1>1, <1>8, <2>2, LineAppended, Zenon DEF IInv
      <3>2. OneWaiter(Line')
        BY <1>8, <2>1, <3>1, AppendFacts, Zenon
      <3> QED
        BY <1>8, <2>2, <3>1, <3>2, Zenon
    <2>3. CASE ~accepting
      <3>1. Line' = Line /\ Pending' = Pending
        BY <1>1, <2>3, Zenon DEF Line, Pending
      <3>2. n \notin Range(Line)
        <4>1. n \in Range(Line) => CommandInv(n)
          BY Zenon DEF IInv, LineInv
        <4> QED
          BY <1>1, <1>8, <4>1, Zenon DEF CommandInv
      <3> QED
        BY <2>1, <3>1, <3>2, Zenon
    <2> QED
      BY <2>2, <2>3, Zenon
  <1>10. Referenced' <=> Referenced
    BY <1>1, <1>6, Zenon DEF Referenced, ServerReferenced
  <1>11. Types'
    <2>1. chan' \in [Channels -> ChannelStates]
      BY <1>1, <1>2, <1>4, Zenon
    <2>2. queue' \in Seq(Commands)
      BY <1>1, <1>2, <1>8
    <2> QED
      BY <1>1, <2>1, <2>2, Zenon DEF IInv, Types
  <1>12. CallInv' /\ BusyInv'
    BY <1>1, ZenonT(60) DEF IInv, CallInv, BusyInv, Waits
  <1>13. LineInv'
    <2>1. ASSUME NEW k \in Range(Line) PROVE CommandInv(k)'
      <3>1. CommandInv(k)
        BY Zenon DEF IInv, LineInv
      <3>2. Awaited(k) => Awaited(k)'
        BY <1>1, Zenon DEF Awaited
      <3>3. k.type = "close" /\ ~k.waiter => k.ch # c /\ k.ch \in Channels
        BY <1>1, <3>1, Zenon DEF CommandInv
      <3> QED
        BY <1>1, <1>6, <1>10, <3>1, <3>2, <3>3 DEF CommandInv, Live
    <2>2. n \in Range(Line') => CommandInv(n)'
      BY <1>1, <1>4, <1>5, <1>8, <1>9, ZenonT(40) DEF CommandInv, Live
    <2>3. \A u \in Threads : call[u].pc = "wait" =>
            waiter.done \/ Cmd(call[u].op, call[u].ch, TRUE) \in Range(Line')
      BY <1>9, Zenon DEF IInv, LineInv
    <2> QED
      BY <1>1, <1>9, <2>1, <2>2, <2>3, Zenon DEF IInv, LineInv
  <1>14. WorkInv'
    BY <1>1, Zenon DEF IInv, WorkInv
  <1>15. StopInv'
    BY <1>1, <1>10, Zenon DEF IInv, StopInv
  <1>16. /\ \A d \in Channels : Creating(d)' <=> Creating(d)
         /\ \A d \in Channels : Queued(d)' <=> Queued(d)
    <2>1. \A k : k.type = "create" => (k \in Range(Line') <=> k \in Range(Line))
      BY <1>8, <1>9, Zenon
    <2> QED
      BY <1>1, <1>9, <2>1, Zenon DEF Creating, Queued
  <1>17. /\ \A d \in Channels : Creator(d)' <=> Creator(d)
         /\ \A d \in Channels : Unqueued(d)' <=> Unqueued(d)
         /\ \A d \in Channels : Closing(d)' <=> Closing(d)
    BY <1>1, Zenon DEF Creator, Unqueued, Closing
  <1>18. MethodInv'
    <2>1. ASSUME NEW u \in Threads PROVE CallerInv(u)'
      <3>1. /\ CallerInv(u) /\ call[u].pc \notin {"acquire", "enqueue"}
            /\ call[u].op \in {"create", "close", "set_target"} => call[u].ch \in Channels
        BY <1>1, NamesAssumption, Zenon DEF IInv, MethodInv, CallInv
      <3>2. call[u].op = "create" => call[u].ch # c
        BY <1>1, <3>1, Zenon DEF CallerInv
      <3>3. call' = call /\ channels' = channels
        BY <1>1, Zenon
      <3>4. \A d \in Channels : /\ chan'[d].life = chan[d].life /\ chan'[d].held = chan[d].held
                                /\ d # c => chan'[d].closed = chan[d].closed
        BY <1>6, Zenon
      <3> QED
        BY <3>1, <3>2, <3>3, <3>4, Zenon DEF CallerInv, Live
    <2> QED
      BY <1>1, <1>16, <2>1, Zenon DEF IInv, MethodInv
  <1>19. RefInv'
    <2>1. \A d \in Channels : Holders(d)' = Holders(d)
      BY <1>1, <1>6, <1>16, <1>17, ZenonT(60) DEF Holders, In
    <2>2. ~chan[c].orphan /\ chan[c].refs = Holders(c)
      BY <1>1, Zenon DEF IInv, RefInv
    <2>3. chan'[c].closed
      BY <1>4, <1>5, Zenon
    <2> QED
      BY <1>1, <1>6, <2>1, <2>2, <2>3 DEF IInv, RefInv, Live
  <1>20. OpenInv'
    BY <1>1, <1>6, <1>17, ZenonT(60) DEF IInv, OpenInv, Live
  <1>21. DoneInv'
    <2>1. \A d \in Channels : chan[d].target => chan'[d].target
      BY <1>4, <1>5, Zenon
    <2> QED
      BY <1>1, <2>1, DoneKept, Zenon
  <1>22. PollInv'
    BY <1>1, <1>6, Zenon DEF IInv, Types, PollInv
  <1>23. SentInv'
    <2>1. ASSUME NEW d \in Channels PROVE PacketInv(d)'
      BY <1>1, <1>4, <1>5, PacketsKept, Zenon DEF IInv, Live
    <2> QED
      BY <2>1, Zenon DEF SentInv
  <1> QED
    BY <1>11, <1>12, <1>13, <1>14, <1>15, <1>18, <1>19, <1>20, <1>21, <1>22, <1>23, Zenon DEF IInv

\* set_target() in a callback: the worker waits for itself.
LEMMA CallbackSetTargetKeeps ==
  ASSUME IInv, NEW c \in Channels, CallbackSetTarget(c)
  PROVE  IInv'
  <1> DEFINE m == Cmd("set_target", c, TRUE)
  <1>1. /\ wpc = "callback" /\ ~busy /\ busy' = TRUE /\ wpc' = "selfwait"
        /\ waiter' = [done |-> FALSE, status |-> "ok"]
        /\ queue' = Append(queue, m)
        /\ UNCHANGED <<gil, cmd_lock, accepting, batch, channels, polled, dirty, status, todo,
                       stop_seen, call, server_ref, chan, sent, gone>>
    BY Zenon DEF CallbackSetTarget, locks
  <1>2. m \in Commands /\ m.type = "set_target" /\ m.ch = c /\ m.waiter = TRUE
    BY Zenon DEF Cmd, Commands
  <1>3. PICK n \in Commands : n = m /\ n.type = "set_target" /\ n.ch = c /\ n.waiter
    BY <1>2, Zenon
  <1> HIDE DEF m
  <1>4. (\A u \in Threads : ~Waits(u)) /\ \A k \in Range(Line) : ~k.waiter
    <2>1. \A u \in Threads : ~Waits(u)
      BY <1>1, Zenon DEF IInv, BusyInv
    <2> QED
      BY <1>1, <2>1, Zenon DEF IInv, LineInv, CommandInv, Awaited, Waits
  <1>5. /\ Line' = Append(Line, n) /\ Range(Line') = Range(Line) \cup {n}
        /\ Pending' = Pending \cup {n} /\ Line \in Seq(Commands)
    BY <1>1, <1>3, LineAppended, LineFacts, Zenon DEF IInv
  <1>6. waiter' \in [done : BOOLEAN, status : Statuses] /\ ~waiter'.done
    BY <1>1, Zenon DEF Statuses
  <1>7. Referenced' <=> Referenced
    BY <1>1, Zenon DEF Referenced, ServerReferenced
  <1>8. Types'
    <2>1. queue' \in Seq(Commands)
      BY <1>1, <1>3 DEF IInv, Types
    <2> QED
      BY <1>1, <1>6, <2>1, Zenon DEF IInv, Types, WorkerPcs
  <1>9. CallInv' /\ BusyInv'
    BY <1>1, <1>4, Zenon DEF IInv, CallInv, BusyInv, Waits
  <1>10. LineInv'
    <2>1. ASSUME NEW k \in Range(Line) PROVE CommandInv(k)'
      <3>1. CommandInv(k) /\ ~k.waiter
        BY <1>4, Zenon DEF IInv, LineInv
      <3> QED
        BY <1>1, <1>7, <3>1, Zenon DEF CommandInv, Live
    <2>2. CommandInv(n)'
      BY <1>1, <1>3, <1>6, Zenon DEF CommandInv, Awaited
    <2>3. OneWaiter(Line')
      BY <1>4, <1>5, AppendFacts, Zenon DEF IInv, LineInv
    <2>4. \A u \in Threads : call'[u].pc \notin {"enqueue", "wait"}
      BY <1>1, <1>4, Zenon DEF Waits
    <2> QED
      BY <1>5, <2>1, <2>2, <2>3, <2>4, Zenon DEF LineInv
  <1>11. WorkInv' /\ StopInv'
    BY <1>1, <1>7, Zenon DEF IInv, WorkInv, StopInv
  <1>12. /\ \A d \in Channels : Creating(d)' <=> Creating(d)
         /\ \A d \in Channels : Queued(d)' <=> Queued(d)
    BY <1>1, <1>3, <1>5, Zenon DEF Creating, Queued
  <1>13. /\ \A d \in Channels : Creator(d)' <=> Creator(d)
         /\ \A d \in Channels : Unqueued(d)' <=> Unqueued(d)
         /\ \A d \in Channels : Closing(d)' <=> Closing(d)
    BY <1>1, Zenon DEF Creator, Unqueued, Closing
  <1>14. MethodInv'
    <2>1. ASSUME NEW u \in Threads PROVE CallerInv(u)'
      BY <1>1, Zenon DEF IInv, MethodInv, CallerInv, Live
    <2> QED
      BY <1>1, <1>12, <2>1, Zenon DEF IInv, MethodInv
  <1>15. \A d \in Channels : Holders(d)' = Holders(d)
    BY <1>1, <1>12, <1>13, Zenon DEF Holders, In
  <1>16. RefInv' /\ OpenInv'
    BY <1>1, <1>13, <1>15, Zenon DEF IInv, RefInv, OpenInv, Live
  <1>17. DoneInv'
    BY <1>1, <1>4, Zenon DEF DoneInv, Waits
  <1>18. PollInv'
    BY <1>1, Zenon DEF IInv, PollInv
  <1>19. SentInv'
    BY <1>1, PacketsKept, Zenon DEF IInv, SentInv
  <1> QED
    BY <1>8, <1>9, <1>10, <1>11, <1>14, <1>16, <1>17, <1>18, <1>19, ZenonT(60) DEF IInv

-----------------------------------------------------------------------------
(* The invariant holds. *)

\* A server that has just been made.
LEMMA InitIInv == Init => IInv
  <1> SUFFICES ASSUME Init PROVE IInv
    BY Zenon
  <1>1. /\ gil = Nobody /\ accepting = TRUE /\ busy = FALSE /\ queue = << >> /\ batch = << >>
        /\ channels = {} /\ polled = {} /\ dirty = TRUE /\ wpc = "detach" /\ status = "ok"
        /\ todo = {} /\ stop_seen = FALSE /\ gone = {}
        /\ waiter = [done |-> FALSE, status |-> "ok"]
        /\ \A t \in Threads : call[t] = Idle
        /\ \A c \in Channels : chan[c] = NoChannel /\ sent[c] = << >>
    BY Zenon DEF Init
  <1>2. /\ NoChannel.life = "none" /\ NoChannel.refs = 0 /\ NoChannel.held = FALSE
        /\ NoChannel.closed = FALSE /\ NoChannel.orphan = FALSE /\ NoChannel.has_target = FALSE
        /\ NoChannel.target = FALSE /\ NoChannel.outq = << >> /\ NoChannel.accepted = 0
    BY Zenon DEF NoChannel
  <1>3. Idle.pc = "idle" /\ Idle.op = "none" /\ Idle.ch = "none" /\ Idle.status = "ok"
    BY Zenon DEF Idle
  <1>4. Types
    <2>1. NoChannel \in ChannelStates /\ Idle \in Calls
      BY NewChannelFacts, Zenon DEF Idle, Calls, Pcs, Statuses
    <2>2. /\ waiter \in [done : BOOLEAN, status : Statuses] /\ status \in Statuses
          /\ wpc \in WorkerPcs
      BY <1>1, Zenon DEF Statuses, WorkerPcs
    <2>3. /\ call \in [Threads -> Calls] /\ chan \in [Channels -> ChannelStates]
          /\ sent \in [Channels -> Seq(Nat)]
      BY <2>1 DEF Init
    <2>4. queue \in Seq(Commands) /\ batch \in Seq(Commands)
      BY <1>1
    <2> QED
      BY <1>1, <2>2, <2>3, <2>4, Zenon DEF Init, Types
  <1>5. CallInv /\ BusyInv
    BY <1>1, <1>3, NamesAssumption, Zenon DEF CallInv, BusyInv, Waits
  <1>6. Line = << >> /\ Range(Line) = {} /\ Pending = {}
    <2>1. Line = << >> \o << >>
      BY <1>1, Zenon DEF Line
    <2>2. Line = << >>
      BY <2>1
    <2> QED
      BY <1>1, <2>2 DEF Pending, Range
  <1>7. LineInv
    <2>1. OneWaiter(Line)
      BY <1>6 DEF OneWaiter
    <2> QED
      BY <1>1, <1>3, <1>6, <2>1, Zenon DEF LineInv
  <1>8. WorkInv /\ StopInv
    BY <1>1, <1>3, Zenon DEF WorkInv, StopInv
  <1>9. \A c \in Channels : /\ ~Creator(c) /\ ~Unqueued(c) /\ ~Queued(c) /\ ~Closing(c)
                            /\ ~Creating(c) /\ ~Live(c)
    BY <1>1, <1>2, <1>3, <1>6, Zenon DEF Creator, Unqueued, Queued, Closing, Creating, Live
  <1>10. MethodInv
    BY <1>1, <1>3, <1>9, Zenon DEF MethodInv, CallerInv
  <1>11. RefInv
    <2>1. \A c \in Channels : Holders(c) = 0
      BY <1>1, <1>2, <1>9 DEF Holders, In
    <2>2. \A c \in Channels : ~Live(c) /\ chan[c].refs = 0 /\ ~chan[c].orphan
      BY <1>1, <1>2, <1>9, Zenon
    <2> QED
      BY <2>1, <2>2 DEF RefInv
  <1>12. OpenInv /\ DoneInv /\ PollInv
    BY <1>1, <1>3, <1>9, Zenon DEF OpenInv, DoneInv, PollInv
  <1>13. SentInv
    <2>1. Len(<< >>) = 0 /\ 0 <= QueueSize
      BY SizesAssumption
    <2> QED
      BY <1>1, <1>2, <1>9, <2>1, Zenon DEF SentInv, PacketInv
  <1> QED
    BY <1>4, <1>5, <1>7, <1>8, <1>10, <1>11, <1>12, <1>13, Zenon DEF IInv

\* No step of a thread, of the worker, of a callback or of the network breaks it.
LEMMA NextIInv ==
  ASSUME IInv, Next
  PROVE  IInv'
  <1>1. CASE \E t \in Threads : Method(t) \/ Program(t)
    BY <1>1, ThreadKeeps, Zenon
  <1>2. CASE WorkerStep
    <2>1. RunAdd => IInv'
      BY AddedKeeps, AddFailedKeeps, Zenon DEF RunAdd
    <2>2. ASSUME NEW c \in Channels
          PROVE  DropOne(c) \/ Receive(c) \/ ReceiveEnd(c) \/ DrainPop(c) \/ DrainNext(c) => IInv'
      BY DropOneKeeps, SocketKeeps, LoopKeeps, DrainPopKeeps, Zenon
    <2>3. /\ Detach \/ RunRemove \/ RunSetTarget \/ DropBegin \/ DropEnd => IInv'
          /\ Complete \/ FreeFailedAdd => IInv'
      BY DetachKeeps, RunRemoveKeeps, RunSetTargetKeeps, DropBeginKeeps, DropEndKeeps,
         CompleteKeeps, FreeFailedAddKeeps, Zenon
    <2>4. /\ BatchDone \/ Refresh \/ Wait \/ PollBegin \/ CallbackReturn => IInv'
          /\ DrainBegin \/ DrainFree \/ DrainEnd => IInv'
      BY LoopKeeps, Zenon
    <2> QED
      BY <1>2, <2>1, <2>2, <2>3, <2>4, Zenon DEF WorkerStep
  <1>3. ASSUME NEW c \in Channels, Callback(c) \/ Datagram(c) PROVE IInv'
    BY <1>3, CallbackCloseKeeps, CallbackSetTargetKeeps, PushKeeps, SocketKeeps, Zenon
    DEF Callback, CallbackSend
  <1> QED
    BY <1>1, <1>2, <1>3, Zenon DEF Next

\* Nor does a step that changes nothing.
LEMMA StutterIInv ==
  ASSUME IInv, UNCHANGED vars
  PROVE  IInv'
  <1>1. UNCHANGED <<gil, cmd_lock, accepting, busy, waiter, queue, batch, channels, polled, dirty,
                    wpc, status, todo, stop_seen, call, server_ref, chan, sent, gone>>
    BY Zenon DEF vars, locks, cmdVars, workVars
  <1>2. Types' /\ PollInv'
    BY <1>1 DEF IInv, Types, PollInv
  <1>3. SentInv'
    BY <1>1, PacketsKept, Zenon DEF IInv, SentInv
  <1>4. Quiet
    BY <1>1, Zenon DEF Quiet, ControlKept
  <1> QED
    BY <1>2, <1>3, <1>4, QuietKeeps, Zenon

\* The inductive invariant of the server, for every number of threads, channels and
\* packets.
THEOREM Invariance == Spec => []IInv
  <1>1. IInv /\ [Next]_vars => IInv'
    BY NextIInv, StutterIInv, Zenon
  <1> QED
    BY <1>1, InitIInv, PTL DEF Spec

-----------------------------------------------------------------------------
(* What holds of the server, whatever its threads, channels and callbacks. *)

\* No channel that the program, a command, the worker's table or its pollfd cache
\* still leads to is freed (Py_DECREF in RtpServer_mod.c).
THEOREM ReferencesSafe == Spec => []NoUseAfterFree
  <1>1. IInv => NoUseAfterFree
    <2> SUFFICES ASSUME IInv PROVE NoUseAfterFree
      BY Zenon
    <2>1. \A c \in Channels : chan[c].refs \in Nat /\ Holders(c) \in Nat
      BY DEF IInv, Types, ChannelStates, Holders, In
    <2>2. \A c \in Channels : chan[c].refs >= Holders(c)
      BY <2>1 DEF IInv, RefInv
    <2>3. channels \subseteq {c \in Channels : Live(c)}
      BY DeadFacts, Zenon DEF IInv, Types
    <2>4. wpc \in {"poll", "callback", "drain", "free"} => todo \subseteq channels
      BY Zenon DEF IInv, PollInv
    <2>5. wpc = "tick" => polled \subseteq channels
      BY Zenon DEF IInv, PollInv
    <2> QED
      BY <2>2, <2>3, <2>4, <2>5, Zenon DEF NoUseAfterFree
  <1> QED
    BY <1>1, Invariance, PTL

\* Nor does a channel outlive its references, but for the one that a close() in
\* a callback leaves behind.
THEOREM ReferencesTight == Spec => []NoLeak
  <1>1. IInv => NoLeak
    <2> SUFFICES ASSUME IInv, NEW c \in Channels, Live(c)
                 PROVE  chan[c].refs - Holders(c) \in 0 .. In(chan[c].orphan)
      BY Zenon DEF NoLeak
    <2>1. Holders(c) \in Nat
      BY DEF Holders, In
    <2>2. chan[c].refs = Holders(c) \/ (chan[c].refs = Holders(c) + 1 /\ chan[c].orphan)
      BY Zenon DEF IInv, RefInv
    <2>3. In(chan[c].orphan) \in {0, 1} /\ (chan[c].orphan => In(chan[c].orphan) = 1)
      BY Zenon DEF In
    <2> QED
      BY <2>1, <2>2, <2>3
  <1> QED
    BY <1>1, Invariance, PTL

\* While commands are accepted, PyRtpChannel_dealloc never finds an open channel.
THEOREM OpenChannelsHeld == Spec => []OpenIsHeld
  <1>1. IInv => OpenIsHeld
    BY Zenon DEF IInv, OpenInv, OpenIsHeld, Creator, Closing
  <1> QED
    BY <1>1, Invariance, PTL

\* A synchronous method returns only when the worker has done what it asked for.
THEOREM MethodsSynchronous == Spec => []ReturnedMeansDone
  <1>1. IInv => ReturnedMeansDone
    <2> SUFFICES ASSUME IInv, NEW t \in Threads, call[t].pc = "release", call[t].status = "ok"
                 PROVE  CASE call[t].op = "create" -> call[t].ch \in channels
                          [] call[t].op = "close" -> call[t].ch \notin channels
                          [] call[t].op = "set_target" -> chan[call[t].ch].target
                          [] call[t].op = "shutdown" -> channels = {} /\ polled = {}
      BY Zenon DEF ReturnedMeansDone
    <2>1. Done(call[t].op, call[t].ch)
      BY Zenon DEF IInv, DoneInv, Fulfils
    <2>2. call[t].op \in {"create", "close", "set_target", "shutdown"}
      BY Zenon DEF IInv, CallInv, Types, Calls
    <2> QED
      BY <2>1, <2>2, Zenon DEF Done
  <1> QED
    BY <1>1, Invariance, PTL

\* After close() has returned the worker leaves the channel's socket and ring alone.
THEOREM ClosedChannelsQuiet == Spec => []ClosedIsQuiet
  <1>1. IInv => ClosedIsQuiet
    BY Zenon DEF IInv, PollInv, ClosedIsQuiet
  <1> QED
    BY <1>1, Invariance, PTL

\* drain_outputs sends what send_pkt accepted, in that order, once and completely.
THEOREM PacketsInOrder == Spec => []SentInOrder
  <1>1. IInv => SentInOrder
    BY Zenon DEF IInv, SentInv, PacketInv, SentInOrder
  <1> QED
    BY <1>1, Invariance, PTL

\* The worker is left with the server's last reference only by an ADD that failed:
\* otherwise PyRtpServer_dealloc runs on a thread that can join the worker.
THEOREM WorkerJoined == Spec => []JoinedByOther
  <1>1. IInv => JoinedByOther
    BY Zenon DEF IInv, WorkInv, JoinedByOther
  <1> QED
    BY <1>1, Invariance, PTL

\* The variables have their types; the ring that send_pkt fills stays within
\* queue_size.
THEOREM TypeCorrect == Spec => []TypeOK
  <1>1. IInv => TypeOK
    <2> SUFFICES ASSUME IInv PROVE TypeOK
      BY Zenon
    <2>1. \A t \in Threads : call[t].pc \in Pcs
      BY Zenon DEF IInv, Types, Calls
    <2>2. \A c \in Channels : Len(chan[c].outq) <= QueueSize
      BY Zenon DEF IInv, SentInv, PacketInv
    <2> QED
      BY <2>1, <2>2, Zenon DEF IInv, Types, TypeOK, Pcs, WorkerPcs
  <1> QED
    BY <1>1, Invariance, PTL

INSTANCE FiniteSetTheorems

\* The server's one waiter serves one command at a time (cmd_waiter_busy), and a
\* thread that waits will find its command completed or in line.
THEOREM WaiterSafe == Spec => []WaiterExclusive
  <1>1. IInv => WaiterExclusive
    <2> SUFFICES ASSUME IInv PROVE WaiterExclusive
      BY Zenon
    <2> DEFINE W == {t \in Threads : call[t].pc \in {"enqueue", "wait", "release"}}
    <2>1. Cardinality(W) + In(wpc = "selfwait") = In(busy)
      <3>1. CASE W = {}
        <4>1. busy <=> wpc = "selfwait"
          BY <3>1, Zenon DEF IInv, BusyInv, Waits
        <4>2. Cardinality(W) = 0
          BY <3>1, FS_EmptySet, Zenon
        <4> QED
          BY <4>1, <4>2 DEF In
      <3>2. CASE W # {}
        <4>1. PICK t \in Threads : Waits(t)
          BY <3>2, Zenon DEF Waits
        <4>2. busy /\ wpc # "selfwait" /\ W = {t}
          BY <4>1, Zenon DEF IInv, BusyInv, Waits
        <4>3. Cardinality(W) = 1
          BY <4>2, FS_Singleton, Zenon
        <4> QED
          BY <4>2, <4>3 DEF In
      <3> QED
        BY <3>1, <3>2, Zenon
    <2>2. Range(Line) \subseteq Pending
      BY LineFacts, Zenon DEF IInv
    <2> QED
      BY <2>1, <2>2, Zenon DEF IInv, LineInv, WaiterExclusive
  <1> QED
    BY <1>1, Invariance, PTL
=============================================================================
