------------------------- MODULE RtpServerCommands -------------------------
(***************************************************************************)
(* A command keeps the invariant of RtpServerInv from the moment a thread  *)
(* queues it: the worker executes it, and the thread's method returns.     *)
(***************************************************************************)
EXTENDS RtpServerInv

-----------------------------------------------------------------------------
(* Threads that queue their command and wait for it. *)

\* While t has the waiter and has not queued its command, no command has one.
LEMMA NoWaiterInLine ==
  ASSUME IInv, NEW t \in Threads, Waits(t), call[t].pc # "wait"
  PROVE  /\ \A u \in Threads \ {t} : ~Waits(u)
         /\ wpc # "selfwait"
         /\ \A m \in Range(Line) : ~m.waiter
  BY Zenon DEF IInv, BusyInv, LineInv, CommandInv, Awaited, Waits

\* enqueue_command when commands are not accepted any more.
LEMMA EnqueueRejectedKeeps ==
  ASSUME IInv, NEW t \in Threads, Enqueue(t), ~accepting
  PROVE  IInv'
  <1>1. /\ call[t].pc = "enqueue"
        /\ call' = [call EXCEPT ![t].pc = "release", ![t].status = "rejected"]
        /\ UNCHANGED <<gil, cmd_lock, accepting, busy, waiter, queue, batch, channels, polled,
                       dirty, wpc, status, todo, stop_seen, chan, server_ref, sent, gone>>
    BY Zenon DEF Enqueue, workVars
  <1>2. /\ call' \in [Threads -> Calls]
        /\ call'[t].pc = "release" /\ call'[t].op = call[t].op /\ call'[t].ch = call[t].ch
        /\ call'[t].status = "rejected"
        /\ \A u \in Threads \ {t} : call'[u] = call[u]
    <2> DEFINE r1 == [call[t] EXCEPT !.pc = "release"]
               r2 == [r1 EXCEPT !.status = "rejected"]
    <2>1. call' = [call EXCEPT ![t] = r2] /\ call \in [Threads -> Calls]
      BY <1>1, Zenon DEF IInv, Types
    <2>2. /\ r1 \in Calls /\ r1.pc = "release"
          /\ r1.op = call[t].op /\ r1.ch = call[t].ch
      BY <2>1, Zenon DEF Calls, Pcs
    <2> HIDE DEF r1
    <2>3. /\ r2 \in Calls /\ r2.pc = "release" /\ r2.status = "rejected"
          /\ r2.op = call[t].op /\ r2.ch = call[t].ch
      BY <2>2, Zenon DEF Calls
    <2> HIDE DEF r2
    <2> QED
      BY <2>1, <2>3, Zenon
  <1>20. call[t].op = "create"
    BY <1>1, Zenon DEF IInv, CallInv
  <1>3. /\ \A u \in Threads \ {t} : ~Waits(u)
        /\ wpc # "selfwait" /\ \A m \in Range(Line) : ~m.waiter
    BY <1>1, NoWaiterInLine, Zenon DEF Waits
  <1>4. Line' = Line /\ Pending' = Pending
    BY <1>1, Zenon DEF Line, Pending
  <1>5. Referenced' <=> Referenced
    BY <1>1, <1>2, Zenon DEF Referenced, ServerReferenced
  <1>6. Types'
    BY <1>1, <1>2, Zenon DEF IInv, Types
  <1>7. CallInv'
    BY <1>1, <1>2, <1>20, ZenonT(60) DEF IInv, CallInv
  <1>8. BusyInv'
    BY <1>1, <1>2 DEF IInv, BusyInv, Waits
  <1>9. LineInv'
    <2>1. ASSUME NEW m \in Range(Line) PROVE CommandInv(m)'
      <3>1. CommandInv(m) /\ ~m.waiter
        BY <1>3, Zenon DEF IInv, LineInv
      <3> QED
        BY <1>1, <1>5, <3>1, Zenon DEF CommandInv, Live
    <2> QED
      BY <1>1, <1>2, <1>4, <2>1, Zenon DEF IInv, LineInv
  <1>10. WorkInv'
    <2>1. wpc = "unref" /\ call[t].op = "create" => call[t].ch # Head(batch).ch
      BY <1>1, Zenon DEF IInv, WorkInv
    <2> QED
      BY <1>1, <1>2, <2>1, ZenonT(60) DEF IInv, WorkInv
  <1>11. StopInv'
    BY <1>1, <1>2, <1>5, Zenon DEF IInv, StopInv
  <1>12. /\ \A d \in Channels : Creating(d)' <=> Creating(d)
         /\ \A d \in Channels : Queued(d)' <=> Queued(d)
         /\ \A d \in Channels : Creator(d)' <=> Creator(d)
         /\ \A d \in Channels : Unqueued(d)' <=> Unqueued(d)
         /\ \A d \in Channels : Closing(d)' <=> Closing(d)
    BY <1>1, <1>2, <1>4, <1>20 DEF Creating, Queued, Creator, Unqueued, Closing
  <1>13. MethodInv'
    <2>1. ASSUME NEW u \in Threads PROVE CallerInv(u)'
      <3>1. /\ CallerInv(u) /\ u \in Threads /\ channels' = channels /\ chan' = chan
            /\ call[t].pc = "enqueue" /\ call[t].op = "create"
        BY <1>1, <1>20, Zenon DEF IInv, MethodInv
      <3> QED
        BY ONLY <1>2, <3>1, Zenon DEF CallerInv, Live
    <2>2. \A u \in Threads : call'[u].op = call[u].op /\ call'[u].ch = call[u].ch
      BY <1>2, Zenon
    <2>3. \A u, v \in Threads :
            call'[u].op = "create" /\ call'[v].op = "create" /\ call'[u].ch = call'[v].ch
              => u = v
      BY <2>2, ZenonT(60) DEF IInv, MethodInv
    <2>4. \A d \in Channels : Creating(d)' => d \notin channels'
      BY <1>1, <1>12, Zenon DEF IInv, MethodInv
    <2> QED
      BY <2>1, <2>3, <2>4, Zenon DEF MethodInv
  <1>14. \A d \in Channels : Holders(d)' = Holders(d)
    BY <1>1, <1>12, Zenon DEF Holders, In
  <1>15. RefInv' /\ OpenInv'
    BY <1>1, <1>12, <1>14, Zenon DEF IInv, RefInv, OpenInv, Live
  <1>16. DoneInv'
    BY <1>1, <1>2, ZenonT(60) DEF IInv, DoneInv, Done, Fulfils
  <1>17. PollInv'
    BY <1>1, Zenon DEF IInv, PollInv
  <1>18. SentInv'
    BY <1>1, PacketsKept, Zenon DEF IInv, SentInv
  <1> QED
    BY <1>6, <1>7, <1>8, <1>9, <1>10, <1>11, <1>13, <1>15, <1>16, <1>17, <1>18 DEF IInv

\* enqueue_command: the command is in line, and the reference to a new channel its own.
LEMMA EnqueueAcceptedKeeps ==
  ASSUME IInv, NEW t \in Threads, Enqueue(t), accepting
  PROVE  IInv'
  <1> DEFINE m == Cmd(call[t].op, call[t].ch, TRUE)
  <1>1. /\ call[t].pc = "enqueue" /\ queue' = Append(queue, m)
        /\ accepting' = (call[t].op # "shutdown")
        /\ call' = [call EXCEPT ![t].pc = "wait"] /\ gil' = Nobody
        /\ UNCHANGED <<cmd_lock, busy, waiter, batch, channels, polled, dirty, wpc, status,
                       todo, stop_seen, chan, server_ref, sent, gone>>
    BY Zenon DEF Enqueue, workVars
  <1>2. /\ call' \in [Threads -> Calls]
        /\ call'[t].pc = "wait" /\ call'[t].op = call[t].op /\ call'[t].ch = call[t].ch
        /\ call'[t].status = call[t].status
        /\ \A u \in Threads \ {t} : call'[u] = call[u]
    BY <1>1, ZenonT(60) DEF IInv, Types, Calls, Pcs
  <1>3. /\ call[t].op \in {"create", "close", "set_target", "shutdown"}
        /\ call[t].op # "shutdown" => call[t].ch \in Channels
        /\ call[t].status # "rejected" /\ gil = t
        /\ \A u \in Threads \ {t} : call[u].pc \notin {"acquire", "enqueue", "stop", "release"}
    BY <1>1, Zenon DEF IInv, CallInv, Types, Calls
  <1>4. /\ m \in Commands /\ m.type = call[t].op /\ m.ch = call[t].ch /\ m.waiter = TRUE
    BY <1>3, Zenon DEF Cmd, Commands, IInv, Types, Calls
  <1>5. PICK n \in Commands : n = m
    BY <1>4, Zenon
  <1>6. /\ \A u \in Threads \ {t} : ~Waits(u)
        /\ wpc # "selfwait" /\ \A k \in Range(Line) : ~k.waiter
    BY <1>1, NoWaiterInLine, Zenon DEF Waits
  <1> HIDE DEF m
  <1>7. /\ Line' = Append(Line, n) /\ Range(Line') = Range(Line) \cup {n}
        /\ Pending' = Pending \cup {n} /\ Line \in Seq(Commands)
    BY <1>1, <1>5, LineAppended, LineFacts, Zenon DEF IInv
  <1>8. n.type = call[t].op /\ n.ch = call[t].ch /\ n.waiter
        /\ n = Cmd(call[t].op, call[t].ch, TRUE)
    BY <1>4, <1>5, Zenon DEF m
  <1>9. Referenced' <=> Referenced
    BY <1>1, <1>2, Zenon DEF Referenced, ServerReferenced
  <1>10. Types'
    BY <1>1, <1>2, <1>5 DEF IInv, Types
  <1>11. CallInv'
    BY <1>1, <1>2, <1>3, NamesAssumption, ZenonT(60) DEF IInv, CallInv
  <1>12. BusyInv'
    BY <1>1, <1>2, ZenonT(60) DEF IInv, BusyInv, Waits
  <1>13. LineInv'
    <2>1. ~waiter.done
      BY <1>1, Zenon DEF IInv, LineInv
    <2>2. ASSUME NEW k \in Range(Line) PROVE CommandInv(k)'
      <3>1. CommandInv(k) /\ ~k.waiter
        BY <1>6, Zenon DEF IInv, LineInv
      <3> QED
        BY <1>1, <1>9, <3>1, Zenon DEF CommandInv, Live
    <2>3. Awaited(n)'
      BY <1>2, <1>8, Zenon DEF Awaited
    <2>4. CommandInv(n)'
      BY <1>1, <1>3, <1>8, <2>1, <2>3, Zenon DEF CommandInv
    <2>5. OneWaiter(Line')
      BY <1>6, <1>7, AppendFacts, Zenon DEF IInv, LineInv
    <2>6. \A u \in Threads \ {t} : call'[u].pc \notin {"enqueue", "wait"}
      BY <1>2, <1>6, Zenon DEF Waits
    <2>7. Cmd(call'[t].op, call'[t].ch, TRUE) \in Range(Line')
      BY <1>2, <1>7, <1>8, Zenon
    <2> QED
      BY <1>2, <1>7, <2>2, <2>4, <2>5, <2>6, <2>7, Zenon DEF LineInv
  <1>14. WorkInv'
    <2>1. wpc = "unref" /\ call[t].op = "create" => call[t].ch # Head(batch).ch
      BY <1>1, Zenon DEF IInv, WorkInv
    <2> QED
      BY <1>1, <1>2, <2>1, ZenonT(60) DEF IInv, WorkInv
  <1>15. StopInv'
    BY <1>1, <1>2, <1>9, Zenon DEF IInv, StopInv
  <1>16. ~(wpc = "complete" /\ n = Head(batch))
    <2>1. wpc = "complete" => Head(batch) \in Range(Line)
      BY HeadFacts, Zenon DEF IInv, WorkInv
    <2> QED
      BY <1>6, <1>8, <2>1, Zenon
  <1>17. /\ \A d \in Channels : Queued(d)' <=> Queued(d) \/ (n.type = "create" /\ n.ch = d)
         /\ \A d \in Channels : Creating(d)' <=> Creating(d) \/ (n.type = "create" /\ n.ch = d)
    BY <1>1, <1>7, <1>16, Zenon DEF Creating, Queued
  <1>18. /\ \A d \in Channels : Creator(d)' <=> Creator(d)
         /\ \A d \in Channels : Unqueued(d) <=> Unqueued(d)' \/ (n.type = "create" /\ n.ch = d)
         /\ \A d \in Channels : Closing(d)' <=> Closing(d) \/ (n.type = "close" /\ n.ch = d)
    <2>1. \A d \in Channels : Unqueued(d) <=> \/ n.type = "create" /\ n.ch = d
                                              \/ \E u \in Threads \ {t} :
                                                   /\ call[u].op = "create" /\ call[u].ch = d
                                                   /\ \/ call[u].pc \in {"acquire", "enqueue"}
                                                      \/ call[u].status = "rejected"
      BY <1>1, <1>8, Zenon DEF Unqueued
    <2>2. \A d \in Channels : Unqueued(d)' <=> \E u \in Threads \ {t} :
                                                   /\ call[u].op = "create" /\ call[u].ch = d
                                                   /\ \/ call[u].pc \in {"acquire", "enqueue"}
                                                      \/ call[u].status = "rejected"
      BY <1>2, <1>3, Zenon DEF Unqueued
    <2>3. \A d \in Channels : Closing(d)' <=> Closing(d) \/ (n.type = "close" /\ n.ch = d)
      BY <1>1, <1>2, <1>8, ZenonT(60) DEF Closing
    <2> QED
      BY <1>2, <2>1, <2>2, <2>3 DEF Creator
  <1>19. MethodInv'
    <2>1. ASSUME NEW u \in Threads PROVE CallerInv(u)'
      BY <1>1, <1>2, <1>3, ZenonT(60) DEF IInv, MethodInv, CallerInv, Live
    <2>2. n.type = "create" => n.ch \notin channels
      BY <1>1, <1>8, Zenon DEF IInv, MethodInv, CallerInv
    <2>3. \A u \in Threads : call'[u].op = call[u].op /\ call'[u].ch = call[u].ch
      BY <1>2, Zenon
    <2>4. \A d \in Channels : Creating(d)' => d \notin channels'
      BY <1>1, <1>17, <2>2, Zenon DEF IInv, MethodInv
    <2> QED
      BY <2>1, <2>3, <2>4, Zenon DEF IInv, MethodInv
  <1>20. ASSUME n.type = "close" PROVE n.ch \in channels
    <2>1. n.ch \in Channels /\ chan[n.ch].held /\ ~chan[n.ch].closed
      BY <1>1, <1>3, <1>8, <1>20, Zenon DEF IInv, MethodInv, CallerInv
    <2>2. Live(n.ch)
      BY <2>1, DeadFacts, Zenon
    <2>3. ~Creator(n.ch)
      BY <2>1, Zenon DEF IInv, MethodInv, CallerInv, Creator
    <2>4. ~Closing(n.ch)
      BY <1>1, <1>6, <1>8, <1>20, Zenon DEF Closing, Waits
    <2> QED
      BY <2>1, <2>2, <2>3, <2>4, Zenon DEF IInv, OpenInv
  <1>21. \A d \in Channels : Holders(d)' = Holders(d)
    BY <1>1, <1>17, <1>18, <1>20, Zenon DEF Holders, In
  <1>22. RefInv'
    BY <1>1, <1>21, Zenon DEF IInv, RefInv, Live
  <1>23. OpenInv'
    BY <1>1, <1>18, Zenon DEF IInv, OpenInv, Live
  <1>24. DoneInv'
    <2>1. ~waiter.done
      BY <1>1, Zenon DEF IInv, LineInv
    <2> QED
      BY <1>1, <1>2, <2>1, ZenonT(60) DEF IInv, DoneInv, Done, Fulfils
  <1>25. PollInv'
    BY <1>1, Zenon DEF IInv, PollInv
  <1>26. SentInv'
    BY <1>1, PacketsKept, Zenon DEF IInv, SentInv
  <1> QED
    BY <1>10, <1>11, <1>12, <1>13, <1>14, <1>15, <1>19, <1>22, <1>23, <1>24, <1>25, <1>26, SMTT(30)
    DEF IInv

\* rtp_sync_waiter_wait returns.
LEMMA WokenKeeps ==
  ASSUME IInv, NEW t \in Threads, Woken(t)
  PROVE  IInv'
  <1>1. /\ call[t].pc = "wait" /\ waiter.done /\ gil = Nobody /\ gil' = t
        /\ call' = [call EXCEPT ![t].pc = "release", ![t].status = waiter.status]
        /\ UNCHANGED <<cmd_lock, accepting, busy, waiter, queue, batch, channels, polled,
                       dirty, wpc, status, todo, stop_seen, chan, server_ref, sent, gone>>
    BY Zenon DEF Woken, workVars, cmdVars
  <1>2. waiter.status \in Statuses /\ waiter.status # "rejected"
    BY Zenon DEF IInv, Types, Statuses
  <1>3. /\ call' \in [Threads -> Calls]
        /\ call'[t].pc = "release" /\ call'[t].op = call[t].op /\ call'[t].ch = call[t].ch
        /\ call'[t].status = waiter.status
        /\ \A u \in Threads \ {t} : call'[u] = call[u]
    <2> DEFINE r1 == [call[t] EXCEPT !.pc = "release"]
               r2 == [r1 EXCEPT !.status = waiter.status]
    <2>1. call' = [call EXCEPT ![t] = r2] /\ call \in [Threads -> Calls]
      BY <1>1, Zenon DEF IInv, Types
    <2>2. /\ r1 \in Calls /\ r1.pc = "release"
          /\ r1.op = call[t].op /\ r1.ch = call[t].ch
      BY <2>1, Zenon DEF Calls, Pcs
    <2> HIDE DEF r1
    <2>3. /\ r2 \in Calls /\ r2.pc = "release" /\ r2.status = waiter.status
          /\ r2.op = call[t].op /\ r2.ch = call[t].ch
      BY <1>2, <2>2, Zenon DEF Calls
    <2> HIDE DEF r2
    <2> QED
      BY <2>1, <2>3, Zenon
  <1>4. call[t].status # "rejected"
    BY <1>1, Zenon DEF IInv, CallInv
  <1>5. /\ \A u \in Threads \ {t} : ~Waits(u)
        /\ \A m \in Range(Line) : ~m.waiter
    BY <1>1, Zenon DEF IInv, BusyInv, LineInv, CommandInv, Waits
  <1>6. Line' = Line /\ Pending' = Pending
    BY <1>1, Zenon DEF Line, Pending
  <1>7. Referenced' <=> Referenced
    BY <1>1, <1>3, Zenon DEF Referenced, ServerReferenced
  <1>8. Types'
    BY <1>1, <1>3, Zenon DEF IInv, Types
  <1>9. CallInv'
    <2>1. /\ CallInv /\ t \in Threads /\ accepting' = accepting
          /\ gil = Nobody /\ gil' = t /\ call[t].pc = "wait"
      BY <1>1, Zenon DEF IInv
    <2> QED
      BY ONLY <1>2, <1>3, <2>1, NamesAssumption DEF CallInv
  <1>10. BusyInv'
    BY <1>1, <1>3 DEF IInv, BusyInv, Waits
  <1>11. LineInv'
    <2>1. ASSUME NEW m \in Range(Line) PROVE CommandInv(m)'
      <3>1. CommandInv(m) /\ ~m.waiter
        BY <1>5, Zenon DEF IInv, LineInv
      <3> QED
        BY <1>1, <1>7, <3>1, Zenon DEF CommandInv, Live
    <2> QED
      BY <1>1, <1>3, <1>6, <2>1, Zenon DEF IInv, LineInv
  <1>12. WorkInv'
    BY <1>1, <1>2, <1>3, ZenonT(60) DEF IInv, WorkInv
  <1>13. StopInv'
    BY <1>1, <1>3, <1>7, Zenon DEF IInv, StopInv
  <1>14. /\ \A d \in Channels : Creating(d)' <=> Creating(d)
         /\ \A d \in Channels : Queued(d)' <=> Queued(d)
         /\ \A d \in Channels : Creator(d)' <=> Creator(d)
         /\ \A d \in Channels : Unqueued(d)' <=> Unqueued(d)
         /\ \A d \in Channels : Closing(d)' <=> Closing(d)
    <2>1. /\ call[t].pc = "wait" /\ call[t].status # "rejected"
          /\ call'[t].status # "rejected" /\ t \in Threads
      BY <1>1, <1>2, <1>3, <1>4, Zenon
    <2>2. ASSUME NEW d \in Channels
          PROVE  /\ Creator(d)' <=> Creator(d)
                 /\ Unqueued(d)' <=> Unqueued(d)
                 /\ Closing(d)' <=> Closing(d)
      BY ONLY <1>3, <2>1 DEF Creator, Unqueued, Closing
    <2> QED
      BY <1>1, <1>6, <2>2, Zenon DEF Creating, Queued
  <1>15. MethodInv'
    <2>1. ASSUME NEW u \in Threads PROVE CallerInv(u)'
      <3>1. /\ CallerInv(u) /\ u \in Threads /\ channels' = channels /\ chan' = chan
            /\ call[t].pc = "wait" /\ waiter.status # "rejected"
        BY <1>1, <1>2, Zenon DEF IInv, MethodInv
      <3> QED
        BY ONLY <1>3, <3>1, Zenon DEF CallerInv, Live
    <2>2. \A u \in Threads : call'[u].op = call[u].op /\ call'[u].ch = call[u].ch
      BY <1>3, Zenon
    <2>3. \A u, v \in Threads :
            call'[u].op = "create" /\ call'[v].op = "create" /\ call'[u].ch = call'[v].ch
              => u = v
      BY <2>2, ZenonT(60) DEF IInv, MethodInv
    <2>4. \A d \in Channels : Creating(d)' => d \notin channels'
      BY <1>1, <1>14, Zenon DEF IInv, MethodInv
    <2> QED
      BY <2>1, <2>3, <2>4, Zenon DEF MethodInv
  <1>16. \A d \in Channels : Holders(d)' = Holders(d)
    BY <1>1, <1>14, Zenon DEF Holders, In
  <1>17. RefInv' /\ OpenInv'
    BY <1>1, <1>14, <1>16, Zenon DEF IInv, RefInv, OpenInv, Live
  <1>18. DoneInv'
    <2>1. /\ channels' = channels /\ polled' = polled /\ chan' = chan
          /\ wpc' = wpc /\ status' = status /\ batch' = batch
      BY <1>1, Zenon
    <2>2. Fulfils(call[t].op, waiter.status) => Done(call[t].op, call[t].ch)
      BY <1>1, Zenon DEF IInv, DoneInv
    <2>3. \A u \in Threads \ {t} : call'[u].pc \notin {"wait", "release"}
      BY <1>3, <1>5, Zenon DEF Waits
    <2>4. ASSUME NEW u \in Threads
          PROVE  /\ call'[u].pc # "wait"
                 /\ (call[u].pc = "release" /\ Fulfils(call[u].op, call[u].status) =>
                      Done(call[u].op, call[u].ch))'
      <3>1. CASE u = t
        BY ONLY <1>3, <2>1, <2>2, <3>1, Zenon DEF Done
      <3>2. CASE u # t
        BY <2>3, <3>2, Zenon
      <3> QED
        BY <3>1, <3>2, Zenon
    <2>5. (wpc = "complete" /\ Fulfils(Head(batch).type, status) /\ Head(batch).waiter =>
             Done(Head(batch).type, Head(batch).ch))'
      BY <2>1, Zenon DEF IInv, DoneInv, Done
    <2> QED
      BY <2>4, <2>5, Zenon DEF DoneInv
  <1>19. PollInv'
    BY <1>1, Zenon DEF IInv, PollInv
  <1>20. SentInv'
    BY <1>1, PacketsKept, Zenon DEF IInv, SentInv
  <1> QED
    BY <1>8, <1>9, <1>10, <1>11, <1>12, <1>13, <1>15, <1>17, <1>18, <1>19, <1>20 DEF IInv

-----------------------------------------------------------------------------
(* Threads whose command was executed. *)

\* A channel under construction is no other method's.
LEMMA OnlyCreator ==
  ASSUME IInv, NEW t \in Threads, call[t].op = "create",
         NEW u \in Threads \ {t}, call[u].op # "none"
  PROVE  call[u].ch # call[t].ch
  <1>1. call[u].op \in {"create", "close", "set_target", "shutdown"}
    BY Zenon DEF IInv, Types, Calls
  <1>2. call[t].ch \in Channels /\ ~chan[call[t].ch].held
    BY Zenon DEF IInv, CallInv, MethodInv, CallerInv
  <1>3. call[u].op = "shutdown" => call[u].ch \notin Channels
    BY NamesAssumption, Zenon DEF IInv, CallInv
  <1>4. call[u].op \in {"close", "set_target"} => chan[call[u].ch].held
    BY Zenon DEF IInv, MethodInv, CallerInv
  <1>5. call[u].op = "create" => call[u].ch # call[t].ch
    BY Zenon DEF IInv, MethodInv
  <1> QED
    BY <1>1, <1>2, <1>3, <1>4, <1>5, Zenon

\* The state in which create_channel finds its channel when the worker is done.
LEMMA CreatedFacts ==
  ASSUME IInv, NEW t \in Threads, Leaves(t), call[t].op = "create",
         call[t].pc = "release", call[t].status # "rejected",
         NEW c \in Channels, c = call[t].ch
  PROVE  /\ Live(c) /\ ~chan[c].held /\ ~chan[c].closed /\ ~chan[c].orphan
         /\ Creator(c) /\ ~Unqueued(c)
         /\ chan[c].refs = Holders(c)
         /\ \A d \in Channels : Queued(d)' <=> Queued(d)
         /\ \A d \in Channels : Creator(d)' <=> Creator(d) /\ d # c
         /\ \A d \in Channels : Unqueued(d)' <=> Unqueued(d)
         /\ \A d \in Channels : Closing(d)' <=> Closing(d)
  <1>1. Live(c) /\ ~chan[c].held /\ ~chan[c].closed
    BY Zenon DEF IInv, MethodInv, CallerInv
  <1>2. Creator(c)
    BY Zenon DEF Creator
  <1>3. ~Unqueued(c)
    BY Zenon DEF IInv, MethodInv, Unqueued
  <1>4. ~chan[c].orphan /\ chan[c].refs = Holders(c)
    BY <1>1, Zenon DEF IInv, RefInv
  <1>5. /\ \A d \in Channels : Queued(d)' <=> Queued(d)
        /\ \A d \in Channels : Creator(d)' <=> Creator(d) /\ d # c
        /\ \A d \in Channels : Unqueued(d)' <=> Unqueued(d) /\ d # c
        /\ \A d \in Channels : Closing(d)' <=> Closing(d)
    BY LeaveFacts, Zenon
  <1> QED
    BY <1>1, <1>2, <1>3, <1>4, <1>5, Zenon

\* create_channel returns the channel.
LEMMA CreatedKeeps ==
  ASSUME IInv, NEW t \in Threads, Leaves(t), call[t].op = "create",
         call[t].pc = "release", call[t].status = "ok",
         chan' = [chan EXCEPT ![call[t].ch].held = TRUE], gone' = gone
  PROVE  IInv'
  <1>0. PICK c \in Channels : c = call[t].ch
    BY Zenon DEF IInv, CallInv
  <1> DEFINE q == [chan[c] EXCEPT !.held = TRUE]
  <1>1. /\ Live(c) /\ ~chan[c].held /\ ~chan[c].closed /\ ~chan[c].orphan
        /\ Creator(c) /\ ~Unqueued(c)
        /\ \A d \in Channels : Queued(d)' <=> Queued(d)
        /\ \A d \in Channels : Creator(d)' <=> Creator(d) /\ d # c
        /\ \A d \in Channels : Unqueued(d)' <=> Unqueued(d)
        /\ \A d \in Channels : Closing(d)' <=> Closing(d)
    BY <1>0, CreatedFacts, Zenon
  <1>2. c \in channels
    BY <1>0, Zenon DEF IInv, DoneInv, Fulfils, Done
  <1>3. /\ chan[c] \in ChannelStates /\ chan \in [Channels -> ChannelStates]
        /\ chan' = [chan EXCEPT ![c] = q]
    BY <1>0, Zenon DEF IInv, Types
  <1>4. /\ q \in ChannelStates /\ q.held /\ q.life = chan[c].life /\ q.refs = chan[c].refs
        /\ q.closed = chan[c].closed /\ q.orphan = chan[c].orphan
        /\ q.target = chan[c].target /\ q.has_target = chan[c].has_target
        /\ q.accepted = chan[c].accepted /\ q.outq = chan[c].outq
    BY <1>3, Zenon DEF ChannelStates
  <1> HIDE DEF q
  <1>5. chan'[c] = q /\ \A d \in Channels \ {c} : chan'[d] = chan[d]
    BY <1>3, Zenon
  <1>6. chan' \in [Channels -> ChannelStates] /\ gone' \subseteq Channels
    <2>1. q \in ChannelStates
      BY <1>4, Zenon
    <2>2. chan' \in [Channels -> ChannelStates]
      BY <1>3, <2>1, Zenon
    <2> QED
      BY <2>2, Zenon DEF IInv, Types
  <1>7. ChannelsAge
    BY <1>1, <1>2, <1>4, <1>5, ZenonT(60) DEF ChannelsAge, Live
  <1>8. \A u \in Threads \ {t} : CallerInv(u)'
    BY <1>0, <1>5, OnlyCreator, OthersKeep, Zenon
  <1>9. UNCHANGED <<channels, polled, dirty, todo, wpc, sent, accepting>>
    BY Zenon DEF Leaves
  <1>10. RefInv'
    <2>1. Holders(c)' = Holders(c)
      <3>1. /\ chan'[c].held /\ ~chan[c].held /\ Creator(c) /\ ~Creator(c)'
            /\ channels' = channels
            /\ Queued(c)' <=> Queued(c)
            /\ Unqueued(c)' <=> Unqueued(c)
            /\ Closing(c)' <=> Closing(c)
        BY <1>1, <1>4, <1>5, <1>9, Zenon
      <3> QED
        BY ONLY <3>1 DEF Holders, In
    <2>2. ASSUME NEW d \in Channels, d # c PROVE Holders(d)' = Holders(d)
      BY <1>1, <1>5, <1>9, <2>2, SameHolders, Zenon
    <2>3. ASSUME NEW d \in Channels
          PROVE  /\ chan'[d].refs = chan[d].refs
                 /\ Live(d)' <=> Live(d)
                 /\ chan'[d].orphan = chan[d].orphan /\ chan'[d].closed = chan[d].closed
                 /\ Holders(d)' = Holders(d)
      <3>1. CASE d = c
        BY <1>4, <1>5, <2>1, <3>1, ZenonT(60) DEF Live
      <3>2. CASE d # c
        BY <1>5, <2>2, <3>2, Zenon DEF Live
      <3> QED
        BY <3>1, <3>2, Zenon
    <2> QED
      BY <1>9, <2>3, ZenonT(60) DEF IInv, RefInv
  <1>11. OpenInv'
    BY <1>1, <1>2, <1>5, <1>9, Zenon DEF IInv, OpenInv, Live
  <1>12. PollInv'
    BY <1>4, <1>5, <1>9, Zenon DEF IInv, Types, PollInv
  <1>13. SentInv'
    <2>1. ASSUME NEW d \in Channels PROVE PacketInv(d)'
      BY <1>1, <1>4, <1>5, <1>9, PacketsKept, ZenonT(60) DEF IInv, Live
    <2> QED
      BY <2>1, Zenon DEF SentInv
  <1> QED
    BY <1>6, <1>7, <1>8, <1>10, <1>11, <1>12, <1>13, LeaveKeeps, Zenon

\* create_channel fails: the channel goes with its last reference.
LEMMA FailedCreateKeeps ==
  ASSUME IInv, NEW t \in Threads, Leaves(t), call[t].op = "create",
         call[t].pc = "release", call[t].status # "rejected",
         chan' = [chan EXCEPT ![call[t].ch] = FailedCreate(@)], gone' = gone
  PROVE  IInv'
  <1>0. PICK c \in Channels : c = call[t].ch
    BY Zenon DEF IInv, CallInv
  <1> DEFINE r1 == [chan[c] EXCEPT !.closed = TRUE]
             q == Unref(r1)
  <1>1. /\ Live(c) /\ ~chan[c].held /\ ~chan[c].closed /\ ~chan[c].orphan
        /\ Creator(c) /\ ~Unqueued(c) /\ chan[c].refs = Holders(c)
        /\ \A d \in Channels : Queued(d)' <=> Queued(d)
        /\ \A d \in Channels : Creator(d)' <=> Creator(d) /\ d # c
        /\ \A d \in Channels : Unqueued(d)' <=> Unqueued(d)
        /\ \A d \in Channels : Closing(d)' <=> Closing(d)
    BY <1>0, CreatedFacts, Zenon
  <1>2. /\ chan[c] \in ChannelStates /\ chan \in [Channels -> ChannelStates]
        /\ chan' = [chan EXCEPT ![c] = q]
    BY <1>0, Zenon DEF IInv, Types, FailedCreate
  <1>3. /\ r1 \in ChannelStates /\ r1.closed /\ r1.refs = chan[c].refs
        /\ r1.held = chan[c].held /\ r1.life = chan[c].life /\ r1.orphan = chan[c].orphan
        /\ r1.target = chan[c].target /\ r1.has_target = chan[c].has_target
        /\ r1.accepted = chan[c].accepted /\ r1.outq = chan[c].outq
    BY <1>2, Zenon DEF ChannelStates
  <1>4. chan[c].refs \in Nat /\ chan[c].refs > 0
    BY <1>1, <1>2, Zenon DEF IInv, RefInv, ChannelStates
  <1> HIDE DEF r1
  <1>5. /\ q \in ChannelStates /\ q.refs = chan[c].refs - 1 /\ q.held = chan[c].held
        /\ q.closed /\ q.target = chan[c].target /\ q.has_target = chan[c].has_target
        /\ q.accepted = chan[c].accepted /\ ~q.orphan
        /\ \/ q.refs > 0 /\ q.life = "live" /\ q.outq = chan[c].outq
           \/ q.refs = 0 /\ q.life = "freed" /\ q.outq = << >>
    <2>1. /\ q \in ChannelStates /\ q.refs = r1.refs - 1
          /\ q.held = r1.held /\ q.accepted = r1.accepted
          /\ q.has_target = r1.has_target /\ q.target = r1.target
          /\ r1.closed => q.closed
          /\ \/ /\ q.refs > 0 /\ q.life = "live" /\ q.outq = r1.outq
                /\ q.orphan = r1.orphan
             \/ /\ q.refs = 0 /\ q.life = "freed" /\ q.outq = << >>
                /\ q.orphan = FALSE
      BY <1>1, <1>3, <1>4, UnrefLive, ZenonT(60) DEF Live
    <2> HIDE DEF q
    <2>2. ~chan[c].orphan
      BY <1>1, Zenon
    <2> QED
      BY <1>3, <2>1, <2>2, Zenon
  <1> HIDE DEF q
  <1>6. chan'[c] = q /\ \A d \in Channels \ {c} : chan'[d] = chan[d]
    BY <1>2, Zenon
  <1>7. chan' \in [Channels -> ChannelStates] /\ gone' \subseteq Channels
    <2>1. q \in ChannelStates
      BY <1>5, Zenon
    <2>2. chan' \in [Channels -> ChannelStates]
      BY <1>2, <2>1, Zenon
    <2> QED
      BY <2>2, Zenon DEF IInv, Types
  <1>8. ChannelsAge
    BY <1>1, <1>5, <1>6, ZenonT(60) DEF ChannelsAge, Live
  <1>9. \A u \in Threads \ {t} : CallerInv(u)'
    BY <1>0, <1>6, OnlyCreator, OthersKeep, Zenon
  <1>10. UNCHANGED <<channels, polled, dirty, todo, wpc, sent, accepting>>
    BY Zenon DEF Leaves
  <1>11. RefInv'
    <2>1. Holders(c)' = Holders(c) - 1
      <3>1. /\ ~chan'[c].held /\ ~chan[c].held /\ Creator(c) /\ ~Creator(c)'
            /\ channels' = channels
            /\ Queued(c)' <=> Queued(c)
            /\ Unqueued(c)' <=> Unqueued(c)
            /\ Closing(c)' <=> Closing(c)
        BY <1>1, <1>5, <1>6, <1>10, Zenon
      <3> QED
        BY ONLY <3>1 DEF Holders, In
    <2>2. ASSUME NEW d \in Channels, d # c PROVE Holders(d)' = Holders(d)
      BY <1>1, <1>6, <1>10, <2>2, SameHolders, Zenon
    <2>3. /\ Live(c)' <=> chan'[c].refs > 0
          /\ chan'[c].refs = Holders(c)' /\ ~chan'[c].orphan
      BY <1>1, <1>5, <1>6, <2>1 DEF Live
    <2> QED
      BY <1>6, <1>10, <2>2, <2>3, ZenonT(40) DEF IInv, RefInv, Live
  <1>12. OpenInv'
    BY <1>1, <1>5, <1>6, <1>10, ZenonT(60) DEF IInv, OpenInv, Live
  <1>13. PollInv'
    BY <1>5, <1>6, <1>10, Zenon DEF IInv, Types, PollInv
  <1>14. SentInv'
    <2>1. ASSUME NEW d \in Channels PROVE PacketInv(d)'
      BY <1>1, <1>5, <1>6, <1>10, PacketsKept, ZenonT(40) DEF IInv, Live
    <2> QED
      BY <2>1, Zenon DEF SentInv
  <1> QED
    BY <1>7, <1>8, <1>9, <1>11, <1>12, <1>13, <1>14, LeaveKeeps, Zenon

\* set_target returns: the flag of the RtpChannel follows the worker's.
LEMMA TargetSetKeeps ==
  ASSUME IInv, NEW t \in Threads, Leaves(t), call[t].op = "set_target",
         call[t].pc = "release", call[t].status = "ok",
         chan' = [chan EXCEPT ![call[t].ch].has_target = TRUE], gone' = gone
  PROVE  IInv'
  <1>0. PICK c \in Channels : c = call[t].ch
    BY Zenon DEF IInv, CallInv
  <1> DEFINE q == [chan[c] EXCEPT !.has_target = TRUE]
  <1>1. chan[c].target /\ chan[c].held
    BY <1>0, Zenon DEF IInv, DoneInv, Fulfils, Done, MethodInv, CallerInv
  <1>2. /\ chan[c] \in ChannelStates /\ chan \in [Channels -> ChannelStates]
        /\ chan' = [chan EXCEPT ![c] = q]
    BY <1>0, Zenon DEF IInv, Types
  <1>3. /\ q \in ChannelStates /\ q.held = chan[c].held /\ q.life = chan[c].life
        /\ q.refs = chan[c].refs /\ q.closed = chan[c].closed /\ q.orphan = chan[c].orphan
        /\ q.target = chan[c].target /\ q.accepted = chan[c].accepted
        /\ q.outq = chan[c].outq
    BY <1>2, Zenon DEF ChannelStates
  <1> HIDE DEF q
  <1>4. /\ chan'[c] = q /\ \A d \in Channels \ {c} : chan'[d] = chan[d]
        /\ ControlKept
    BY <1>2, <1>3, Zenon DEF ControlKept
  <1>5. chan' \in [Channels -> ChannelStates] /\ gone' \subseteq Channels
    <2>1. q \in ChannelStates
      BY <1>3, Zenon
    <2>2. chan' \in [Channels -> ChannelStates]
      BY <1>2, <2>1, Zenon
    <2> QED
      BY <2>2, Zenon DEF IInv, Types
  <1>6. ChannelsAge
    BY <1>4, ZenonT(60) DEF ChannelsAge, ControlKept
  <1>7. UNCHANGED <<channels, polled, dirty, todo, wpc, sent, accepting>>
    BY Zenon DEF Leaves
  <1>8. ASSUME NEW u \in Threads \ {t} PROVE CallerInv(u)'
    <2>1. /\ CallerInv(u) /\ call'[u] = call[u]
          /\ call[u].op \in {"create", "close", "set_target"} => call[u].ch \in Channels
      BY LeaveFacts, ZenonT(60) DEF IInv, MethodInv, CallInv
    <2> QED
      <3>1. channels' = channels /\ ControlKept
        BY <1>4, <1>7, Zenon
      <3> QED
        BY ONLY <2>1, <3>1, ZenonT(60) DEF CallerInv, Live, ControlKept
  <1>9. /\ \A d \in Channels : Queued(d)' <=> Queued(d)
        /\ \A d \in Channels : Creator(d)' <=> Creator(d)
        /\ \A d \in Channels : Unqueued(d)' <=> Unqueued(d)
        /\ \A d \in Channels : Closing(d)' <=> Closing(d)
    BY LeaveFacts, Zenon
  <1>10. \A d \in Channels : Holders(d)' = Holders(d)
    BY <1>4, <1>7, <1>9, SameHolders, ZenonT(60) DEF ControlKept
  <1>11. RefInv'
    <2>1. ASSUME NEW d \in Channels
          PROVE  /\ chan'[d].life = chan[d].life /\ chan'[d].refs = chan[d].refs
                 /\ chan'[d].orphan = chan[d].orphan /\ chan'[d].closed = chan[d].closed
                 /\ channels' = channels /\ Holders(d)' = Holders(d)
      BY <1>4, <1>7, <1>10, Zenon DEF ControlKept
    <2>2. ASSUME NEW d \in Channels
          PROVE  /\ Live(d) <=> chan[d].refs > 0
                 /\ \/ chan[d].refs = Holders(d)
                    \/ /\ chan[d].refs = Holders(d) + 1
                       /\ Live(d) /\ chan[d].orphan /\ d \notin channels
                 /\ chan[d].orphan => chan[d].closed
      BY Zenon DEF IInv, RefInv
    <2>3. ASSUME NEW d \in Channels
          PROVE  /\ Live(d)' <=> chan'[d].refs > 0
                 /\ \/ chan'[d].refs = Holders(d)'
                    \/ /\ chan'[d].refs = Holders(d)' + 1
                       /\ Live(d)' /\ chan'[d].orphan /\ d \notin channels'
                 /\ chan'[d].orphan => chan'[d].closed
      BY ONLY <2>1, <2>2, d \in Channels, Zenon DEF Live
    <2> QED
      BY <2>3, Zenon DEF RefInv
  <1>12. OpenInv'
    BY <1>4, <1>7, <1>9, ZenonT(60) DEF IInv, OpenInv, Live, ControlKept
  <1>13. PollInv'
    BY <1>4, <1>7, ZenonT(60) DEF IInv, Types, PollInv, ControlKept
  <1>14. SentInv'
    <2>1. Live(c)
      BY <1>1, DeadFacts, Zenon
    <2>2. ASSUME NEW d \in Channels PROVE PacketInv(d)'
      BY <1>1, <1>3, <1>4, <1>7, <2>1, PacketsKept, Zenon DEF IInv, Live
    <2> QED
      BY <2>2, Zenon DEF SentInv
  <1> QED
    BY <1>5, <1>6, <1>8, <1>11, <1>12, <1>13, <1>14, LeaveKeeps, Zenon

\* close() returns: the reference it drops is the one the worker had.
LEMMA ClosedKeeps ==
  ASSUME IInv, NEW t \in Threads, Leaves(t), call[t].op = "close", call[t].pc = "release",
         chan' = [chan EXCEPT ![call[t].ch] = Unref([@ EXCEPT !.closed = TRUE])],
         gone' \in {gone, gone \cup {call[t].ch}}
  PROVE  IInv'
  <1>0. PICK c \in Channels : c = call[t].ch
    BY Zenon DEF IInv, CallInv
  <1> DEFINE r1 == [chan[c] EXCEPT !.closed = TRUE]
             q == Unref(r1)
  <1>1. call[t].status \notin {"rejected"}
    BY Zenon DEF IInv, CallInv
  <1>2. c \notin channels /\ chan[c].held
    BY <1>0, <1>1, Zenon DEF IInv, DoneInv, Fulfils, Done, MethodInv, CallerInv
  <1>3. Live(c)
    BY <1>2, DeadFacts, Zenon
  <1>4. /\ Closing(c) /\ ~Creator(c)
    BY <1>0, <1>2, Zenon DEF Closing, Creator, IInv, MethodInv, CallerInv
  <1>5. /\ chan[c] \in ChannelStates /\ chan \in [Channels -> ChannelStates]
        /\ chan' = [chan EXCEPT ![c] = q] /\ chan[c].refs \in Nat
    BY <1>0, Zenon DEF IInv, Types, ChannelStates
  <1>6. /\ r1 \in ChannelStates /\ r1.closed /\ r1.refs = chan[c].refs
        /\ r1.held = chan[c].held /\ r1.life = chan[c].life /\ r1.orphan = chan[c].orphan
        /\ r1.target = chan[c].target /\ r1.has_target = chan[c].has_target
        /\ r1.accepted = chan[c].accepted /\ r1.outq = chan[c].outq
    BY <1>5, Zenon DEF ChannelStates
  <1> HIDE DEF r1
  <1>7. Holders(c) \in {2, 3} /\ chan[c].refs > 1
    <2>1. Holders(c) \in {2, 3}
      BY <1>2, <1>4 DEF Holders, In
    <2> QED
      BY <1>5, <2>1 DEF IInv, RefInv
  <1>8. /\ q \in ChannelStates /\ q.refs = chan[c].refs - 1 /\ q.held = chan[c].held
        /\ q.closed /\ q.target = chan[c].target /\ q.has_target = chan[c].has_target
        /\ q.accepted = chan[c].accepted /\ q.orphan = chan[c].orphan
        /\ q.life = chan[c].life /\ q.outq = chan[c].outq
    <2>1. r1.refs > 1
      BY <1>6, <1>7, Zenon
    <2>2. /\ q \in ChannelStates /\ q.refs = r1.refs - 1 /\ q.held = r1.held
          /\ q.closed = r1.closed /\ q.target = r1.target /\ q.has_target = r1.has_target
          /\ q.accepted = r1.accepted /\ q.orphan = r1.orphan
          /\ q.life = r1.life /\ q.outq = r1.outq
      BY <1>6, <2>1, UnrefFacts, Zenon
    <2> HIDE DEF q
    <2> QED
      BY <1>6, <2>2, Zenon
  <1> HIDE DEF q
  <1>9. chan'[c] = q /\ \A d \in Channels \ {c} : chan'[d] = chan[d]
    BY <1>5, Zenon
  <1>10. chan' \in [Channels -> ChannelStates] /\ gone' \subseteq Channels
    <2>1. q \in ChannelStates
      BY <1>8, Zenon
    <2>2. chan' \in [Channels -> ChannelStates]
      BY <1>5, <2>1, Zenon
    <2> QED
      BY <1>0, <2>2, Zenon DEF IInv, Types
  <1>20. \A d \in Channels :
           /\ chan'[d].life = chan[d].life /\ chan'[d].held = chan[d].held
           /\ chan'[d].orphan = chan[d].orphan /\ chan'[d].target = chan[d].target
           /\ chan[d].closed => chan'[d].closed
           /\ d # c => chan'[d].closed = chan[d].closed
    <2> TAKE d \in Channels
    <2>1. CASE d = c
      BY <1>8, <1>9, <2>1, Zenon
    <2>2. CASE d # c
      BY <1>9, <2>2, Zenon
    <2> QED
      BY <2>1, <2>2, Zenon
  <1>11. ChannelsAge
    BY <1>20, ZenonT(40) DEF ChannelsAge
  <1>12. UNCHANGED <<channels, polled, dirty, todo, wpc, sent, accepting>>
    BY Zenon DEF Leaves
  <1>13. ASSUME NEW u \in Threads \ {t} PROVE CallerInv(u)'
    <2>1. /\ CallerInv(u) /\ call'[u] = call[u]
          /\ call[u].op \in {"create", "close", "set_target"} => call[u].ch \in Channels
          /\ call[u].pc \notin {"acquire", "enqueue"}
      BY LeaveFacts, ZenonT(60) DEF IInv, MethodInv, CallInv
    <2>2. call[u].op = "create" => call[u].ch # c
      BY <1>2, <2>1, Zenon DEF CallerInv
    <2>3. \A d \in Channels :
            /\ chan'[d].life = chan[d].life /\ chan'[d].held = chan[d].held
            /\ d # c => chan'[d].closed = chan[d].closed
      BY <1>20, Zenon
    <2>4. call'[u].op \in {"close", "set_target"} => chan'[call'[u].ch].held
      BY <2>1, <2>3, ZenonT(60) DEF CallerInv
    <2>5. ASSUME call[u].op = "create"
          PROVE  /\ chan'[call[u].ch].life = "live" /\ ~chan'[call[u].ch].held
                 /\ ~chan'[call[u].ch].closed
      BY <2>1, <2>2, <2>3, <2>5, Zenon DEF CallerInv, Live
    <2> QED
      BY <1>12, <2>1, <2>4, <2>5, Zenon DEF CallerInv, Live
  <1>14. /\ \A d \in Channels : Queued(d)' <=> Queued(d)
         /\ \A d \in Channels : Creator(d)' <=> Creator(d)
         /\ \A d \in Channels : Unqueued(d)' <=> Unqueued(d)
         /\ \A d \in Channels : Closing(d)' <=> Closing(d) /\ d # c
    BY <1>0, LeaveFacts, Zenon
  <1>15. RefInv'
    <2>0. chan'[c].held
      BY <1>2, <1>8, <1>9, Zenon
    <2>1. Holders(c)' = Holders(c) - 1
      BY <1>2, <1>4, <1>12, <1>14, <2>0 DEF Holders, In
    <2>2. \A d \in Channels \ {c} : Holders(d)' = Holders(d)
      BY <1>9, <1>12, <1>14, Zenon DEF Holders, In
    <2>3. /\ chan[c].refs = Holders(c) \/ (chan[c].refs = Holders(c) + 1 /\ chan[c].orphan)
          /\ chan[c].orphan => chan[c].closed
      BY Zenon DEF IInv, RefInv
    <2>4. chan'[c].refs \in Nat /\ chan'[c].refs > 0 /\ Live(c)'
      BY <1>3, <1>5, <1>7, <1>8, <1>9 DEF Live
    <2>5. \/ chan'[c].refs = Holders(c)'
          \/ chan'[c].refs = Holders(c)' + 1 /\ chan'[c].orphan
      <3>1. /\ chan'[c].refs = chan[c].refs - 1 /\ chan'[c].orphan = chan[c].orphan
        BY <1>8, <1>9, Zenon
      <3> QED
        BY ONLY <1>7, <2>1, <2>3, <3>1
    <2>6. chan'[c].closed
      BY <1>8, <1>9, Zenon
    <2>7. ASSUME NEW d \in Channels
          PROVE  /\ Live(d)' <=> chan'[d].refs > 0
                 /\ \/ chan'[d].refs = Holders(d)'
                    \/ /\ chan'[d].refs = Holders(d)' + 1
                       /\ Live(d)' /\ chan'[d].orphan /\ d \notin channels'
                 /\ chan'[d].orphan => chan'[d].closed
      <3>1. CASE d = c
        BY <1>2, <1>12, <2>4, <2>5, <2>6, <3>1, Zenon
      <3>2. CASE d # c
        BY <1>9, <1>12, <2>2, <3>2, Zenon DEF IInv, RefInv, Live
      <3> QED
        BY <3>1, <3>2, Zenon
    <2> QED
      BY <2>7, Zenon DEF RefInv
  <1>16. OpenInv'
    <2>1. Live(c)' => chan'[c].closed
      BY <1>8, <1>9, Zenon
    <2> QED
      BY <1>12, <1>14, <1>20, <2>1, ZenonT(60) DEF IInv, OpenInv, Live
  <1>17. PollInv'
    <2>1. wpc \notin {"drop", "selfjoin"}
      <3>1. Referenced
        BY <1>3, Zenon DEF Referenced, ServerReferenced, Live
      <3>2. ASSUME wpc = "drop" PROVE FALSE
        <4>1. CommandInv(Head(batch)) /\ Head(batch) \in Range(Line)
              /\ Head(batch).type \in {"shutdown", "stop"}
          BY <3>2, HeadFacts, Zenon DEF IInv, WorkInv
        <4>2. ~Head(batch).waiter
          BY <4>1, NoWaiterInLine, Zenon DEF Waits
        <4> QED
          BY <3>1, <4>1, <4>2, Zenon DEF CommandInv
      <3> QED
        BY <3>1, <3>2, Zenon DEF IInv, StopInv
    <2>2. c \notin polled \/ dirty
      BY <1>2, <2>1, Zenon DEF IInv, PollInv
    <2>3. \A d \in gone' : chan'[d].closed
      <3>1. \A d \in gone : d \in Channels /\ chan[d].closed
        BY Zenon DEF IInv, Types, PollInv
      <3>2. \A d \in Channels : d = c \/ chan[d].closed => chan'[d].closed
        BY <1>8, <1>9, Zenon
      <3> QED
        BY <1>0, <3>1, <3>2, Zenon
    <2> QED
      BY <1>0, <1>2, <1>12, <2>2, <2>3, Zenon DEF IInv, PollInv
  <1>18. SentInv'
    <2>1. ASSUME NEW d \in Channels PROVE PacketInv(d)'
      BY <1>3, <1>8, <1>9, <1>12, PacketsKept, Zenon DEF IInv, Live
    <2> QED
      BY <2>1, Zenon DEF SentInv
  <1> QED
    BY <1>10, <1>11, <1>13, <1>15, <1>16, <1>17, <1>18, LeaveKeeps, Zenon

\* server_waiter_release, and the rest of the method.
LEMMA ReleaseKeeps ==
  ASSUME IInv, NEW t \in Threads, Release(t)
  PROVE  IInv'
  <1>1. /\ Leaves(t) /\ call[t].pc = "release" /\ chan' = Outcome(t)
        /\ gone' = IF call[t].op = "close" /\ call[t].status = "ok"
                   THEN gone \cup {call[t].ch} ELSE gone
    BY Zenon DEF Release, Leaves, workVars
  <1>2. /\ call[t].op \in {"create", "close", "set_target", "shutdown"}
        /\ call[t].status = "rejected" => call[t].op = "create"
    BY <1>1, Zenon DEF IInv, CallInv, Types, Calls
  <1>3. CASE call[t].status = "rejected"
    <2>1. chan' = Discard(t) /\ gone' = gone
      BY <1>1, <1>2, <1>3, Zenon DEF Outcome, Rejected
    <2> QED
      BY <1>1, <1>2, <1>3, <2>1, DiscardKeeps, Zenon
  <1>4. CASE call[t].op = "create" /\ call[t].status = "ok"
    <2>1. chan' = [chan EXCEPT ![call[t].ch].held = TRUE] /\ gone' = gone
      BY <1>1, <1>4, Zenon DEF Outcome
    <2> QED
      BY <1>1, <1>4, <2>1, CreatedKeeps, Zenon
  <1>5. CASE call[t].op = "create" /\ call[t].status \notin {"ok", "rejected"}
    <2>1. chan' = [chan EXCEPT ![call[t].ch] = FailedCreate(@)] /\ gone' = gone
      BY <1>1, <1>5, Zenon DEF Outcome
    <2> QED
      BY <1>1, <1>5, <2>1, FailedCreateKeeps, Zenon
  <1>6. CASE call[t].op = "set_target" /\ call[t].status = "ok"
    <2>1. chan' = [chan EXCEPT ![call[t].ch].has_target = TRUE] /\ gone' = gone
      BY <1>1, <1>6, Zenon DEF Outcome
    <2> QED
      BY <1>1, <1>6, <2>1, TargetSetKeeps, Zenon
  <1>7. CASE call[t].op = "close"
    <2>1. chan' = [chan EXCEPT ![call[t].ch] = Unref([@ EXCEPT !.closed = TRUE])]
      BY <1>1, <1>2, <1>7, Zenon DEF Outcome
    <2> QED
      BY <1>1, <1>7, <2>1, ClosedKeeps, Zenon
  <1>8. CASE \/ call[t].op = "shutdown"
             \/ call[t].op = "set_target" /\ call[t].status \notin {"ok", "rejected"}
    <2>1. chan' = chan /\ gone' = gone
      BY <1>1, <1>2, <1>8, Zenon DEF Outcome
    <2> QED
      BY <1>1, <1>8, <2>1, LeaveAloneKeeps, Zenon
  <1> QED
    BY <1>2, <1>3, <1>4, <1>5, <1>6, <1>7, <1>8, Zenon

-----------------------------------------------------------------------------
(* The worker executes a command. *)

\* What a step of the worker keeps that leaves the commands in line, and the
\* threads, the locks of the channels and their references alone.
WorkerOnly ==
  /\ UNCHANGED <<gil, accepting, busy, waiter, call, server_ref, sent, gone, todo>>
  /\ Line' = Line
  /\ wpc \notin {"selfwait", "exited"} /\ wpc' \notin {"selfwait", "exited", "selfjoin"}
  /\ stop_seen' => stop_seen \/ ~Referenced
  /\ \A c \in Channels :
       /\ chan'[c].life = chan[c].life /\ chan'[c].refs = chan[c].refs
       /\ chan'[c].held = chan[c].held /\ chan'[c].closed = chan[c].closed
       /\ chan'[c].orphan = chan[c].orphan

\* Such a step keeps what is said of the threads, the waiter and the line.
LEMMA WorkerOnlyKeeps ==
  ASSUME IInv, WorkerOnly, Types', WorkInv', MethodInv', RefInv', OpenInv', DoneInv',
         PollInv', SentInv'
  PROVE  IInv'
  <1>1. Referenced' <=> Referenced
    BY Zenon DEF WorkerOnly, Referenced, ServerReferenced
  <1>2. CallInv'
    BY Zenon DEF IInv, CallInv, WorkerOnly
  <1>3. BusyInv'
    BY Zenon DEF IInv, BusyInv, Waits, WorkerOnly
  <1>4. LineInv'
    <2>1. ASSUME NEW m \in Range(Line) PROVE CommandInv(m)'
      <3>1. CommandInv(m)
        BY Zenon DEF IInv, LineInv
      <3>2. Awaited(m) => Awaited(m)'
        BY Zenon DEF Awaited, WorkerOnly
      <3> QED
        BY <1>1, <3>1, <3>2, Zenon DEF CommandInv, Live, WorkerOnly
    <2> QED
      BY <2>1, Zenon DEF IInv, LineInv, WorkerOnly
  <1>5. StopInv'
    BY <1>1, Zenon DEF IInv, StopInv, WorkerOnly
  <1> QED
    BY <1>2, <1>3, <1>4, <1>5, Zenon DEF IInv

\* process_commands takes the queue.
LEMMA DetachKeeps ==
  ASSUME IInv, Detach
  PROVE  IInv'
  <1>1. /\ wpc = "detach" /\ wpc' = "batch" /\ batch' = queue /\ queue' = << >>
        /\ UNCHANGED <<gil, cmd_lock, accepting, busy, waiter, channels, polled, dirty, status,
                       todo, stop_seen, call, server_ref, chan, sent, gone>>
    BY Zenon DEF Detach, locks
  <1>2. batch = << >> /\ queue \in Seq(Commands)
    BY <1>1, Zenon DEF IInv, WorkInv, Types
  <1>3. Line' = Line /\ Pending' = Pending
    <2>1. << >> \o queue = queue /\ queue \o << >> = queue
      BY <1>2
    <2>2. Line = << >> \o queue /\ Line' = queue \o << >>
      BY <1>1, <1>2, Zenon DEF Line
    <2> QED
      BY <1>1, <1>2, <2>1, <2>2, Zenon DEF Pending
  <1>4. Types'
    BY <1>1 DEF IInv, Types, WorkerPcs
  <1>5. WorkInv'
    BY <1>1, Zenon DEF IInv, WorkInv
  <1>6. /\ \A d \in Channels : Creating(d)' <=> Creating(d)
        /\ \A d \in Channels : Queued(d)' <=> Queued(d)
        /\ \A d \in Channels : Creator(d)' <=> Creator(d)
        /\ \A d \in Channels : Unqueued(d)' <=> Unqueued(d)
        /\ \A d \in Channels : Closing(d)' <=> Closing(d)
    BY <1>1, <1>3, Zenon DEF Creating, Queued, Creator, Unqueued, Closing
  <1>7. MethodInv'
    <2>1. ASSUME NEW u \in Threads PROVE CallerInv(u)'
      BY <1>1, Zenon DEF IInv, MethodInv, CallerInv, Live
    <2> QED
      BY <1>1, <1>6, <2>1, Zenon DEF IInv, MethodInv
  <1>8. \A d \in Channels : Holders(d)' = Holders(d)
    BY <1>1, <1>6, Zenon DEF Holders, In
  <1>9. RefInv' /\ OpenInv'
    BY <1>1, <1>6, <1>8, Zenon DEF IInv, RefInv, OpenInv, Live
  <1>10. DoneInv'
    BY <1>1, Zenon DEF IInv, DoneInv, Done
  <1>11. PollInv'
    BY <1>1, Zenon DEF IInv, PollInv
  <1>12. SentInv'
    BY <1>1, PacketsKept, Zenon DEF IInv, SentInv
  <1>13. WorkerOnly
    BY <1>1, <1>3, Zenon DEF WorkerOnly
  <1> QED
    BY <1>4, <1>5, <1>7, <1>9, <1>10, <1>11, <1>12, <1>13, WorkerOnlyKeeps, Zenon

\* While the command in hand has a waiter, no other command was completed.
LEMMA HeadAwaited ==
  ASSUME IInv, wpc \in {"batch", "drop", "complete"}, batch # << >>, Head(batch).waiter
  PROVE  /\ ~waiter.done
         /\ \E t \in Threads :
              /\ call[t].pc = "wait" /\ call[t].op = Head(batch).type
              /\ call[t].ch = Head(batch).ch
              /\ \A u \in Threads \ {t} : ~Waits(u)
  <1>1. CommandInv(Head(batch))
    BY HeadFacts, Zenon DEF IInv
  <1>2. ~waiter.done /\ Awaited(Head(batch))
    BY <1>1, Zenon DEF CommandInv
  <1>3. PICK t \in Threads : /\ call[t].pc = "wait" /\ call[t].op = Head(batch).type
                             /\ call[t].ch = Head(batch).ch
    BY <1>2, Zenon DEF Awaited
  <1>4. \A u \in Threads \ {t} : ~Waits(u)
    BY <1>3, Zenon DEF IInv, BusyInv, Waits
  <1> QED
    BY <1>2, <1>3, <1>4, Zenon

\* Only the command in hand can create its channel; the threads have nothing else
\* to do with it.
LEMMA HeadCreates ==
  ASSUME IInv, wpc \in {"batch", "complete"}, batch # << >>, Head(batch).type = "create"
  PROVE  LET c == Head(batch).ch
         IN  /\ c \in Channels /\ Live(c) /\ ~chan[c].held /\ ~chan[c].closed /\ ~chan[c].orphan
             /\ ~Unqueued(c) /\ ~Closing(c) /\ Creator(c)
             /\ \A m \in Range(Line) : m.type = "create" => m = Head(batch)
             /\ \A t \in Threads : call[t].op = "create" /\ call[t].ch = c => call[t].pc = "wait"
  <1> DEFINE h == Head(batch)
  <1>1. h \in Range(Line) /\ h \in Commands /\ CommandInv(h)
    BY HeadFacts, Zenon DEF IInv
  <1>2. h.waiter /\ h.ch \in Channels
    BY <1>1, Zenon DEF CommandInv
  <1>3. PICK t \in Threads : /\ call[t].pc = "wait" /\ call[t].op = "create"
                             /\ call[t].ch = h.ch /\ \A u \in Threads \ {t} : ~Waits(u)
    BY <1>2, HeadAwaited, Zenon
  <1>4. PICK c \in Channels : c = h.ch
    BY <1>2, Zenon
  <1>5. Live(c) /\ ~chan[c].held /\ ~chan[c].closed /\ ~chan[c].orphan
    BY <1>3, <1>4, Zenon DEF IInv, MethodInv, CallerInv, RefInv
  <1>6. \A u \in Threads : call[u].op = "create" /\ call[u].ch = c => u = t
    BY <1>3, <1>4, Zenon DEF IInv, MethodInv
  <1>7. ~Unqueued(c) /\ Creator(c)
    <2>1. call[t].status # "rejected"
      BY <1>3, Zenon DEF IInv, CallInv
    <2> QED
      BY <1>3, <1>4, <1>6, <2>1, Zenon DEF Unqueued, Creator
  <1>8. ~Closing(c)
    BY <1>5, Zenon DEF IInv, MethodInv, CallerInv, Closing
  <1>9. ASSUME NEW m \in Range(Line), m.type = "create" PROVE m = h
    <2>1. Line \in Seq(Commands) /\ OneWaiter(Line)
      BY LineFacts, Zenon DEF IInv, LineInv
    <2>2. CommandInv(m) /\ m.waiter
      BY <1>9, Zenon DEF IInv, LineInv, CommandInv
    <2>3. PICK i, j \in DOMAIN Line : m = Line[i] /\ h = Line[j]
      BY <1>1, Zenon DEF Range
    <2> QED
      BY <1>2, <2>1, <2>2, <2>3, Zenon DEF OneWaiter
  <1> QED
    BY <1>3, <1>4, <1>5, <1>6, <1>7, <1>8, <1>9, Zenon

\* What the command in hand leaves as it was when it starts or ends.
LEMMA HeadKept ==
  ASSUME IInv, wpc \in {"batch", "drop"}, batch # << >>, wpc' \in {"drop", "complete"},
         UNCHANGED <<queue, batch, call>>
  PROVE  /\ Line' = Line /\ Pending' = Pending
         /\ Head(batch) \in Commands /\ CommandInv(Head(batch)) /\ Head(batch) \in Range(Line)
         /\ Pending = Range(Line)
         /\ \A d \in Channels : Creator(d)' <=> Creator(d)
         /\ \A d \in Channels : Unqueued(d)' <=> Unqueued(d)
         /\ \A d \in Channels : Closing(d)' <=> Closing(d)
         /\ Head(batch).type # "create" \/ status' # "ok" \/ wpc' = "drop" =>
              /\ \A d \in Channels : Creating(d)' <=> Creating(d)
              /\ \A d \in Channels : Queued(d)' <=> Queued(d)
  <1>1. Line' = Line /\ Pending' = Pending
    BY Zenon DEF Line, Pending
  <1>2. Head(batch) \in Commands /\ CommandInv(Head(batch)) /\ Head(batch) \in Range(Line)
    BY HeadFacts, Zenon DEF IInv
  <1>3. Pending = Range(Line)
    BY LineFacts, Zenon DEF IInv
  <1>4. /\ \A d \in Channels : Creator(d)' <=> Creator(d)
        /\ \A d \in Channels : Unqueued(d)' <=> Unqueued(d)
        /\ \A d \in Channels : Closing(d)' <=> Closing(d)
    BY Zenon DEF Creator, Unqueued, Closing
  <1>5. ASSUME Head(batch).type # "create" \/ status' # "ok" \/ wpc' = "drop"
        PROVE  /\ \A d \in Channels : Creating(d)' <=> Creating(d)
               /\ \A d \in Channels : Queued(d)' <=> Queued(d)
    BY <1>1, <1>5, Zenon DEF Creating, Queued
  <1> QED
    BY <1>1, <1>2, <1>3, <1>4, <1>5, Zenon

\* add_channel: the reference of the command becomes the table's.
LEMMA AddedKeeps ==
  ASSUME IInv, RunAdd, channels' = channels \cup {Head(batch).ch}, dirty' = TRUE,
         status' = "ok"
  PROVE  IInv'
  <1>1. /\ wpc = "batch" /\ batch # << >> /\ Head(batch).type = "create" /\ wpc' = "complete"
        /\ UNCHANGED <<gil, cmd_lock, accepting, busy, waiter, queue, batch, polled, todo,
                       stop_seen, call, server_ref, chan, sent, gone>>
    BY Zenon DEF RunAdd, Executing, locks, cmdVars
  <1>2. PICK c \in Channels : c = Head(batch).ch
    BY <1>1, HeadCreates, Zenon
  <1>3. /\ Live(c) /\ ~chan[c].held /\ ~chan[c].closed /\ ~chan[c].orphan
        /\ ~Unqueued(c) /\ ~Closing(c) /\ Creator(c)
        /\ \A m \in Range(Line) : m.type = "create" => m = Head(batch)
        /\ \A t \in Threads : call[t].op = "create" /\ call[t].ch = c => call[t].pc = "wait"
    BY <1>1, <1>2, HeadCreates, Zenon
  <1>4. /\ Line' = Line /\ Pending' = Pending /\ Pending = Range(Line)
        /\ CommandInv(Head(batch)) /\ Head(batch) \in Range(Line)
        /\ \A d \in Channels : Creator(d)' <=> Creator(d)
        /\ \A d \in Channels : Unqueued(d)' <=> Unqueued(d)
        /\ \A d \in Channels : Closing(d)' <=> Closing(d)
    BY <1>1, HeadKept, Zenon
  <1>5. Head(batch).waiter
    BY <1>1, <1>4, Zenon DEF CommandInv
  <1>6. /\ \A d \in Channels : ~Creating(d)' /\ ~Queued(d)'
        /\ \A d \in Channels : d # c => ~Creating(d) /\ ~Queued(d)
        /\ Creating(c) /\ Queued(c)
    BY <1>1, <1>2, <1>3, <1>4, Zenon DEF Creating, Queued
  <1>7. c \notin channels /\ channels' = channels \cup {c}
    BY <1>2, <1>6, Zenon DEF IInv, MethodInv
  <1>8. Types'
    BY <1>1, <1>7, Zenon DEF IInv, Types, WorkerPcs, Statuses
  <1>9. WorkInv'
    BY <1>1, Zenon DEF IInv, WorkInv
  <1>10. MethodInv'
    <2>1. ASSUME NEW u \in Threads PROVE CallerInv(u)'
      <3>1. call[u].op = "create" /\ call[u].ch = c => call[u].pc = "wait" /\ call[u].status # "rejected"
        BY <1>3, Zenon DEF IInv, CallInv
      <3> QED
        BY <1>1, <1>7, <3>1, Zenon DEF IInv, MethodInv, CallerInv, Live
    <2> QED
      BY <1>1, <1>6, <2>1, Zenon DEF IInv, MethodInv
  <1>11. RefInv'
    <2>1. Holders(c)' = Holders(c)
      BY <1>1, <1>3, <1>4, <1>6, <1>7 DEF Holders, In
    <2>2. \A d \in Channels \ {c} : Holders(d)' = Holders(d)
      BY <1>1, <1>4, <1>6, <1>7, Zenon DEF Holders, In
    <2> QED
      BY <1>1, <1>3, <1>7, <2>1, <2>2, Zenon DEF IInv, RefInv, Live
  <1>12. OpenInv'
    BY <1>1, <1>4, <1>7, Zenon DEF IInv, OpenInv, Live
  <1>13. DoneInv'
    <2>1. ~waiter.done /\ \A u \in Threads : call[u].pc # "release"
      BY <1>1, <1>5, HeadAwaited, Zenon DEF Waits
    <2> QED
      BY <1>1, <1>2, <1>7, <2>1, Zenon DEF DoneInv, Done
  <1>14. PollInv'
    BY <1>1, <1>3, <1>7, Zenon DEF IInv, PollInv
  <1>15. SentInv'
    BY <1>1, PacketsKept, Zenon DEF IInv, SentInv
  <1>16. WorkerOnly
    BY <1>1, <1>4, Zenon DEF WorkerOnly
  <1> QED
    BY <1>8, <1>9, <1>10, <1>11, <1>12, <1>13, <1>14, <1>15, <1>16, WorkerOnlyKeeps, Zenon

\* A step that leaves the table and the channels as they were.
LEMMA TableKept ==
  ASSUME IInv, wpc \in {"batch", "drop"}, batch # << >>, wpc' \in {"drop", "complete"},
         UNCHANGED <<gil, accepting, busy, waiter, queue, batch, call, server_ref, channels,
                     chan, sent, gone, todo>>,
         Head(batch).type # "create" \/ status' # "ok" \/ wpc' = "drop",
         stop_seen' => stop_seen \/ ~Referenced,
         Types', WorkInv', DoneInv', PollInv'
  PROVE  IInv'
  <1>1. /\ Line' = Line
        /\ \A d \in Channels : Creator(d)' <=> Creator(d)
        /\ \A d \in Channels : Unqueued(d)' <=> Unqueued(d)
        /\ \A d \in Channels : Closing(d)' <=> Closing(d)
        /\ \A d \in Channels : Creating(d)' <=> Creating(d)
        /\ \A d \in Channels : Queued(d)' <=> Queued(d)
    BY HeadKept, Zenon
  <1>2. MethodInv'
    <2>1. ASSUME NEW u \in Threads PROVE CallerInv(u)'
      BY Zenon DEF IInv, MethodInv, CallerInv, Live
    <2> QED
      BY <1>1, <2>1, Zenon DEF IInv, MethodInv
  <1>3. \A d \in Channels : Holders(d)' = Holders(d)
    BY <1>1, Zenon DEF Holders, In
  <1>4. RefInv' /\ OpenInv'
    BY <1>1, <1>3, Zenon DEF IInv, RefInv, OpenInv, Live
  <1>5. SentInv'
    BY PacketsKept, Zenon DEF IInv, SentInv
  <1>6. WorkerOnly
    BY <1>1, Zenon DEF WorkerOnly
  <1> QED
    BY <1>2, <1>4, <1>5, <1>6, WorkerOnlyKeeps, Zenon

\* add_channel fails.
LEMMA AddFailedKeeps ==
  ASSUME IInv, RunAdd, UNCHANGED <<channels, dirty>>, status' = "ENOMEM"
  PROVE  IInv'
  <1>1. /\ wpc = "batch" /\ batch # << >> /\ Head(batch).type = "create" /\ wpc' = "complete"
        /\ UNCHANGED <<gil, cmd_lock, accepting, busy, waiter, queue, batch, polled, todo,
                       stop_seen, call, server_ref, chan, sent, gone>>
    BY Zenon DEF RunAdd, Executing, locks, cmdVars
  <1>2. Head(batch).ch \notin channels
    <2>1. Head(batch) \in Range(Line) /\ Head(batch).ch \in Channels
      BY <1>1, HeadFacts, HeadCreates, Zenon DEF IInv
    <2> QED
      BY <1>1, <2>1, Zenon DEF IInv, MethodInv, Creating
  <1>3. Types'
    BY <1>1 DEF IInv, Types, WorkerPcs, Statuses
  <1>4. WorkInv'
    BY <1>1, <1>2, Zenon DEF IInv, WorkInv
  <1>5. DoneInv'
    BY <1>1, Zenon DEF IInv, DoneInv, Done, Fulfils
  <1>6. PollInv'
    BY <1>1, Zenon DEF IInv, PollInv
  <1> QED
    BY <1>1, <1>3, <1>4, <1>5, <1>6, TableKept, Zenon

\* remove_channel: the reference of the table is left to the close() that waits.
LEMMA RunRemoveKeeps ==
  ASSUME IInv, RunRemove
  PROVE  IInv'
  <1>1. /\ wpc = "batch" /\ batch # << >> /\ Head(batch).type = "close" /\ wpc' = "complete"
        /\ channels' = channels \ {Head(batch).ch}
        /\ dirty' = (dirty \/ Head(batch).ch \in channels) /\ status' = "ok"
        /\ UNCHANGED <<gil, cmd_lock, accepting, busy, waiter, queue, batch, polled, todo,
                       stop_seen, call, server_ref, chan, sent, gone>>
    BY Zenon DEF RunRemove, Executing, locks, cmdVars
  <1>2. /\ Line' = Line /\ CommandInv(Head(batch)) /\ Head(batch) \in Commands
        /\ \A d \in Channels : Creator(d)' <=> Creator(d)
        /\ \A d \in Channels : Unqueued(d)' <=> Unqueued(d)
        /\ \A d \in Channels : Closing(d)' <=> Closing(d)
        /\ \A d \in Channels : Creating(d)' <=> Creating(d)
        /\ \A d \in Channels : Queued(d)' <=> Queued(d)
    BY <1>1, HeadKept, Zenon
  <1>3. PICK c \in Channels : c = Head(batch).ch
    BY <1>1, <1>2, Zenon DEF CommandInv
  <1>4. channels' = channels \ {c} /\ dirty' = (dirty \/ c \in channels)
    BY <1>1, <1>3, Zenon
  <1>5. \/ Closing(c)
        \/ ~Head(batch).waiter /\ (Live(c) => chan[c].closed /\ chan[c].orphan)
    <2>1. CASE Head(batch).waiter
      <3>1. \E u \in Threads : /\ call[u].pc = "wait" /\ call[u].op = "close"
                              /\ call[u].ch = c
        BY <1>1, <1>3, <2>1, HeadAwaited, Zenon
      <3> QED
        BY <3>1, Zenon DEF Closing
    <2>2. CASE ~Head(batch).waiter
      BY <1>1, <1>2, <1>3, <2>2, Zenon DEF CommandInv
    <2> QED
      BY <2>1, <2>2, Zenon
  <1>6. Types'
    BY <1>1, <1>4, Zenon DEF IInv, Types, WorkerPcs, Statuses
  <1>7. WorkInv'
    BY <1>1, Zenon DEF IInv, WorkInv
  <1>8. MethodInv'
    <2>1. ASSUME NEW u \in Threads PROVE CallerInv(u)'
      BY <1>1, <1>4, Zenon DEF IInv, MethodInv, CallerInv, Live
    <2> QED
      BY <1>1, <1>2, <1>4, <2>1, Zenon DEF IInv, MethodInv
  <1>9. RefInv'
    <2>1. \A d \in Channels \ {c} : Holders(d)' = Holders(d)
      BY <1>1, <1>2, <1>4, SameHolders, Zenon
    <2>4. /\ chan'[c].held = chan[c].held /\ c \notin channels'
          /\ Creator(c)' <=> Creator(c)
          /\ Unqueued(c)' <=> Unqueued(c)
          /\ Queued(c)' <=> Queued(c)
          /\ Closing(c)' <=> Closing(c)
      BY <1>1, <1>2, <1>4, Zenon
    <2>2. CASE c \notin channels \/ Closing(c)
      <3>1. Holders(c)' = Holders(c)
        BY ONLY <2>2, <2>4 DEF Holders, In
      <3>2. \A d \in Channels : Holders(d)' = Holders(d) /\ (d \in channels' => d \in channels)
        BY <1>4, <2>1, <3>1, Zenon
      <3> QED
        BY <1>1, <3>2, Zenon DEF IInv, RefInv, Live
    <2>3. CASE c \in channels /\ ~Closing(c)
      <3>1. Holders(c) = Holders(c)' + 1
        BY ONLY <2>3, <2>4 DEF Holders, In
      <3>2. Live(c)
        BY <2>3, DeadFacts, Zenon
      <3>3. chan[c].orphan /\ chan[c].refs = Holders(c)
        BY <1>5, <2>3, <3>2, Zenon DEF IInv, RefInv
      <3> QED
        BY <1>1, <1>4, <2>1, <3>1, <3>2, <3>3, Zenon DEF IInv, RefInv, Live
    <2> QED
      BY <2>2, <2>3, Zenon
  <1>10. OpenInv'
    BY <1>1, <1>2, <1>4, <1>5, Zenon DEF IInv, OpenInv, Live
  <1>11. DoneInv'
    <2>1. CASE Head(batch).waiter
      <3>1. ~waiter.done /\ \A u \in Threads : call[u].pc # "release"
        BY <1>1, <2>1, HeadAwaited, Zenon DEF Waits
      <3> QED
        BY <1>1, <1>3, <1>4, <3>1, Zenon DEF DoneInv, Done
    <2>2. CASE ~Head(batch).waiter
      <3>1. Live(c) => chan[c].closed
        BY <1>1, <1>2, <1>3, <2>2, Zenon DEF CommandInv
      <3>2. \A u \in Threads : call[u].op = "create" => call[u].ch # c
        BY <3>1, Zenon DEF IInv, MethodInv, CallerInv
      <3>3. ASSUME NEW u \in Threads, Done(call[u].op, call[u].ch)
            PROVE  Done(call[u].op, call[u].ch)'
        BY <1>1, <1>4, <3>2, <3>3, Zenon DEF Done
      <3> QED
        BY <1>1, <2>2, <3>3, Zenon DEF IInv, DoneInv
    <2> QED
      BY <2>1, <2>2, Zenon
  <1>12. PollInv'
    BY <1>1, <1>4, Zenon DEF IInv, PollInv
  <1>13. SentInv'
    BY <1>1, PacketsKept, Zenon DEF IInv, SentInv
  <1>14. WorkerOnly
    BY <1>1, <1>2, Zenon DEF WorkerOnly
  <1> QED
    BY <1>6, <1>7, <1>8, <1>9, <1>10, <1>11, <1>12, <1>13, <1>14, WorkerOnlyKeeps

\* set_channel_target: the channel is found and gets its target, or is not found.
LEMMA RunSetTargetKeeps ==
  ASSUME IInv, RunSetTarget
  PROVE  IInv'
  <1>1. /\ wpc = "batch" /\ batch # << >> /\ Head(batch).type = "set_target"
        /\ wpc' = "complete"
        /\ UNCHANGED <<gil, cmd_lock, accepting, busy, waiter, queue, batch, channels, polled,
                       dirty, todo, stop_seen, call, server_ref, sent, gone>>
    BY Zenon DEF RunSetTarget, Executing, locks, cmdVars
  <1>2. CASE Head(batch).ch \notin channels
    <2>1. chan' = chan /\ status' = "ENOENT"
      BY <1>2, Zenon DEF RunSetTarget
    <2>2. Types'
      BY <1>1, <2>1, ZenonT(60) DEF IInv, Types, WorkerPcs, Statuses
    <2>3. WorkInv'
      BY <1>1, <2>1, Zenon DEF IInv, WorkInv
    <2>4. DoneInv'
      BY <1>1, <2>1, Zenon DEF IInv, DoneInv, Done, Fulfils
    <2>5. PollInv'
      BY <1>1, <2>1, Zenon DEF IInv, PollInv
    <2> QED
      BY <1>1, <2>1, <2>2, <2>3, <2>4, <2>5, TableKept, Zenon
  <1>3. CASE Head(batch).ch \in channels
    <2>1. PICK c \in Channels : c = Head(batch).ch /\ c \in channels
      BY <1>3, Zenon DEF IInv, Types
    <2> DEFINE q == [chan[c] EXCEPT !.target = TRUE]
    <2>2. chan' = [chan EXCEPT ![c] = q] /\ status' = "ok" /\ chan[c] \in ChannelStates
          /\ chan \in [Channels -> ChannelStates]
      BY <1>3, <2>1, Zenon DEF RunSetTarget, IInv, Types
    <2>3. /\ q \in ChannelStates /\ q.held = chan[c].held /\ q.life = chan[c].life
          /\ q.refs = chan[c].refs /\ q.closed = chan[c].closed /\ q.orphan = chan[c].orphan
          /\ q.target /\ q.has_target = chan[c].has_target
          /\ q.accepted = chan[c].accepted /\ q.outq = chan[c].outq
      BY <2>2, Zenon DEF ChannelStates
    <2> HIDE DEF q
    <2>4. chan'[c] = q /\ \A d \in Channels \ {c} : chan'[d] = chan[d]
      BY <2>2, Zenon
    <2>5. \A d \in Channels :
            /\ chan'[d].life = chan[d].life /\ chan'[d].refs = chan[d].refs
            /\ chan'[d].held = chan[d].held /\ chan'[d].closed = chan[d].closed
            /\ chan'[d].orphan = chan[d].orphan
      BY <2>3, <2>4, Zenon
    <2>6. /\ Line' = Line
          /\ \A d \in Channels : Creator(d)' <=> Creator(d)
          /\ \A d \in Channels : Unqueued(d)' <=> Unqueued(d)
          /\ \A d \in Channels : Closing(d)' <=> Closing(d)
          /\ \A d \in Channels : Creating(d)' <=> Creating(d)
          /\ \A d \in Channels : Queued(d)' <=> Queued(d)
          /\ CommandInv(Head(batch))
      BY <1>1, HeadKept, Zenon
    <2>7. Types'
      <3>1. chan' \in [Channels -> ChannelStates]
        BY <2>2, <2>3, Zenon
      <3> QED
        BY <1>1, <2>2, <3>1, Zenon DEF IInv, Types, WorkerPcs, Statuses
    <2>8. WorkInv'
      BY <1>1, <2>2, Zenon DEF IInv, WorkInv
    <2>9. MethodInv'
      <3>1. ASSUME NEW u \in Threads PROVE CallerInv(u)'
        <4>1. /\ CallerInv(u)
              /\ call[u].op \in {"create", "close", "set_target"} => call[u].ch \in Channels
          BY Zenon DEF IInv, MethodInv, CallInv
        <4> QED
          BY <1>1, <2>5, <4>1, Zenon DEF CallerInv, Live
      <3> QED
        BY <1>1, <2>6, <3>1, Zenon DEF IInv, MethodInv
    <2>10. \A d \in Channels : Holders(d)' = Holders(d)
      BY <1>1, <2>5, <2>6, Zenon DEF Holders, In
    <2>11. RefInv' /\ OpenInv'
      <3>1. RefInv'
        <4>1. ASSUME NEW d \in Channels
              PROVE  /\ Live(d)' <=> chan'[d].refs > 0
                     /\ \/ chan'[d].refs = Holders(d)'
                        \/ /\ chan'[d].refs = Holders(d)' + 1
                           /\ Live(d)' /\ chan'[d].orphan /\ d \notin channels'
                     /\ chan'[d].orphan => chan'[d].closed
          BY <1>1, <2>5, <2>10 DEF IInv, RefInv, Live
        <4> QED
          BY <4>1, Zenon DEF RefInv
      <3>2. OpenInv'
        BY <1>1, <2>5, <2>6, Zenon DEF IInv, OpenInv, Live
      <3> QED
        BY <3>1, <3>2, Zenon
    <2>12. DoneInv'
      <3>1. Head(batch).waiter
        BY <1>1, <2>6, Zenon DEF CommandInv
      <3>2. ~waiter.done /\ \A u \in Threads : call[u].pc # "release"
        BY <1>1, <3>1, HeadAwaited, Zenon DEF Waits
      <3> QED
        BY <1>1, <2>1, <2>3, <2>4, <3>2, Zenon DEF DoneInv, Done
    <2>13. PollInv'
      BY <1>1, <2>5, Zenon DEF IInv, Types, PollInv
    <2>14. SentInv'
      <3>1. Live(c)
        BY <2>1, DeadFacts, Zenon
      <3>2. ASSUME NEW d \in Channels PROVE PacketInv(d)'
        BY <1>1, <2>3, <2>4, <3>1, PacketsKept, Zenon DEF IInv, Live
      <3> QED
        BY <3>2, Zenon DEF SentInv
    <2>15. WorkerOnly
      BY <1>1, <2>5, <2>6, Zenon DEF WorkerOnly
    <2> QED
      BY <2>7, <2>8, <2>9, <2>11, <2>12, <2>13, <2>14, <2>15, WorkerOnlyKeeps, Zenon
  <1> QED
    BY <1>2, <1>3, Zenon
=============================================================================
