------------------------------ MODULE RtpServer ------------------------------
(***************************************************************************)
(* python/RtpServer_mod.c: Python threads that call the methods of one     *)
(* RtpServer and its RtpChannels, and the server's worker thread. Python   *)
(* code runs under the GIL, which a method gives up only while it waits;   *)
(* the command queue is guarded by cmd_lock; the worker takes the GIL for  *)
(* callbacks and for dropping references.                                  *)
(*                                                                         *)
(* Slots of the channel and pollfd arrays are abstracted to sets, a        *)
(* channel's output ring to the bounded FIFO it implements (BoundedFIFO),  *)
(* a packet to its number.                                                 *)
(***************************************************************************)
EXTENDS Integers, FiniteSets, Sequences, Functions

CONSTANTS
  Threads,      \* Python threads
  Channels,     \* identities of the RtpChannels created
  QueueSize,    \* queue_size
  CallbackOps,  \* what pkt_in does, a subset of {"send", "close", "set_target"}
  AllocFails,   \* may an allocation on the worker fail?
  MaxSend,      \* bound: packets accepted by send_pkt per channel
  MaxIn         \* bound: datagrams that wait in a socket

ASSUME SizesAssumption ==
  /\ QueueSize \in Nat \ {0} /\ MaxSend \in Nat /\ MaxIn \in Nat
  /\ AllocFails \in BOOLEAN
  /\ CallbackOps \subseteq {"send", "close", "set_target"}

Worker == "worker"
Nobody == "nobody"

ASSUME NamesAssumption == Nobody \notin Threads /\ "none" \notin Channels

VARIABLES
  gil, cmd_lock,        \* who holds them
  accepting,            \* accepting_commands
  busy, waiter,         \* cmd_waiter_busy and cmd_waiter
  queue, batch,         \* commands queued; commands the worker detached
  channels,             \* the worker's channels
  polled, dirty,        \* pollfds_index and pollfds_dirty
  wpc, status,          \* the worker: where it is, cmd_status
  todo,                 \* channels still to visit in this poll or drain
  stop_seen,            \* shutdown_seen
  call,                 \* per thread: the method it is in
  server_ref,           \* the program still refers to the RtpServer
  chan,                 \* per channel: the RtpChannel and its socket
  sent,                 \* history: packets handed to sendto, per channel
  gone                  \* history: channels whose close() waited and returned

locks == <<gil, cmd_lock>>
cmdVars == <<accepting, busy, waiter, queue>>
workVars == <<batch, channels, polled, dirty, wpc, status, todo, stop_seen>>
vars == <<locks, cmdVars, workVars, call, server_ref, chan, sent, gone>>

Idle == [pc |-> "idle", op |-> "none", ch |-> "none", status |-> "ok"]

\* life: not yet created, live, or freed. held: the program refers to it.
\* has_target is the flag of the RtpChannel, target the worker's. orphan, a
\* history variable: closed by a callback while commands were accepted.
NoChannel ==
  [life |-> "none", refs |-> 0, held |-> FALSE, closed |-> FALSE,
   has_target |-> FALSE, target |-> FALSE, outq |-> << >>, accepted |-> 0,
   inq |-> 0, orphan |-> FALSE]

Cmd(type, c, w) == [type |-> type, ch |-> c, waiter |-> w]

Init ==
  /\ gil = Nobody /\ cmd_lock = Nobody
  /\ accepting = TRUE /\ busy = FALSE
  /\ waiter = [done |-> FALSE, status |-> "ok"]
  /\ queue = << >> /\ batch = << >>
  /\ channels = {} /\ polled = {} /\ dirty = TRUE
  /\ wpc = "detach" /\ status = "ok" /\ todo = {} /\ stop_seen = FALSE
  /\ call = [t \in Threads |-> Idle]
  /\ server_ref = TRUE
  /\ chan = [c \in Channels |-> NoChannel]
  /\ sent = [c \in Channels |-> << >>]
  /\ gone = {}

-----------------------------------------------------------------------------
(* References. *)

\* Py_DECREF, and PyRtpChannel_dealloc when it was the last one. OpenIsHeld
\* says that dealloc never has to close the channel itself.
Unref(r) ==
  IF r.refs > 1 THEN [r EXCEPT !.refs = @ - 1]
  ELSE [r EXCEPT !.refs = 0, !.life = "freed", !.closed = TRUE,
                 !.outq = << >>, !.inq = 0, !.orphan = FALSE]

Live(c) == chan[c].life = "live"

\* Does anything but thread t's current call refer to the server?
ServerReferenced(t, ref, chs) ==
  \/ ref
  \/ \E c \in Channels : chs[c].life = "live"
  \/ \E u \in Threads \ {t} : call[u].op \in {"create", "shutdown"}

\* Thread t leaves a method, or has dropped a reference: it gives up the GIL
\* unless the server goes with it, whose dealloc then runs on t.
Return(t) ==
  IF ServerReferenced(t, server_ref', chan')
  THEN /\ call' = [call EXCEPT ![t] = Idle]
       /\ gil' = Nobody
  ELSE /\ call' = [call EXCEPT ![t] = [Idle EXCEPT !.pc = "stop"]]
       /\ gil' = t

\* The worker has dropped a reference. If the server goes with it, dealloc runs
\* on the worker, which is to join itself.
WorkerUnreffed(pc) ==
  IF ServerReferenced(Nobody, server_ref, chan') THEN pc ELSE "selfjoin"

-----------------------------------------------------------------------------
(* Python threads: entering a method. Early returns that change nothing are *)
(* not steps.                                                               *)

MayCall(t) == call[t].pc = "idle" /\ gil = Nobody

Usable(c) == Live(c) /\ chan[c].held

Enter(t, op, c) ==
  /\ call' = [call EXCEPT ![t] =
                [pc |-> "acquire", op |-> op, ch |-> c, status |-> "ok"]]
  /\ gil' = t
  /\ UNCHANGED <<cmd_lock, cmdVars, workVars, server_ref, sent, gone>>

\* Mutant: the command's own reference is not taken.
CreateChannelUncounted(t) ==
  /\ MayCall(t) /\ server_ref
  /\ \E c \in Channels :
       /\ chan[c].life = "none"
       /\ chan' = [chan EXCEPT ![c] =
                     [NoChannel EXCEPT !.life = "live", !.refs = 1]]
       /\ Enter(t, "create", c)

\* One reference for the caller, one for the command.
CreateChannel(t) ==
  /\ MayCall(t) /\ server_ref
  /\ \E c \in Channels :
       /\ chan[c].life = "none"
       /\ chan' = [chan EXCEPT ![c] =
                     [NoChannel EXCEPT !.life = "live", !.refs = 2]]
       /\ Enter(t, "create", c)

SetTarget(t, c) ==
  /\ MayCall(t) /\ Usable(c)
  /\ ~chan[c].closed /\ accepting
  /\ Enter(t, "set_target", c)
  /\ UNCHANGED chan

\* After shutdown() a close is local.
Close(t, c) ==
  /\ MayCall(t) /\ Usable(c) /\ ~chan[c].closed
  /\ IF accepting
     THEN Enter(t, "close", c) /\ UNCHANGED chan
     ELSE /\ chan' = [chan EXCEPT ![c].closed = TRUE]
          /\ UNCHANGED <<locks, cmdVars, workVars, call, server_ref, sent, gone>>

Shutdown(t) ==
  /\ MayCall(t) /\ server_ref /\ accepting
  /\ Enter(t, "shutdown", "none")
  /\ UNCHANGED chan

\* Mutants: send_pkt ignores the result of try_push; it does not look at
\* has_target.
PushUnbounded(c) ==
  /\ Usable(c) /\ ~chan[c].closed /\ chan[c].has_target /\ accepting
  /\ chan[c].accepted < MaxSend
  /\ chan' = [chan EXCEPT ![c].accepted = @ + 1,
                          ![c].outq = Append(@, chan[c].accepted + 1)]

PushUntargeted(c) ==
  /\ Usable(c) /\ ~chan[c].closed /\ accepting
  /\ Len(chan[c].outq) < QueueSize /\ chan[c].accepted < MaxSend
  /\ chan' = [chan EXCEPT ![c].accepted = @ + 1,
                          ![c].outq = Append(@, chan[c].accepted + 1)]

\* send_pkt runs to its end under the GIL. The signal it sends wakes a worker
\* that then finds no command and goes on waiting for its tick.
Push(c) ==
  /\ Usable(c) /\ ~chan[c].closed /\ chan[c].has_target /\ accepting
  /\ Len(chan[c].outq) < QueueSize /\ chan[c].accepted < MaxSend
  /\ chan' = [chan EXCEPT ![c].accepted = @ + 1,
                          ![c].outq = Append(@, chan[c].accepted + 1)]

SendPkt(t, c) ==
  /\ MayCall(t) /\ Push(c)
  /\ UNCHANGED <<locks, cmdVars, workVars, call, server_ref, sent, gone>>

\* The program drops its last reference to a channel, or to the server.
DelChannel(t, c) ==
  /\ MayCall(t) /\ Usable(c)
  /\ \A u \in Threads : call[u].ch # c
  /\ chan' = [chan EXCEPT ![c] = Unref([@ EXCEPT !.held = FALSE])]
  /\ server_ref' = server_ref
  /\ Return(t)
  /\ UNCHANGED <<cmd_lock, cmdVars, workVars, sent, gone>>

DelServer(t) ==
  /\ MayCall(t) /\ server_ref
  /\ server_ref' = FALSE
  /\ chan' = chan
  /\ Return(t)
  /\ UNCHANGED <<cmd_lock, cmdVars, workVars, sent, gone>>

-----------------------------------------------------------------------------
(* Python threads: a synchronous command. The thread keeps the GIL until it *)
(* waits, and takes cmd_lock three times.                                   *)

\* Mutant: the command of a create_channel that failed keeps its reference.
DiscardOnce(t) ==
  IF call[t].op = "create"
  THEN [chan EXCEPT ![call[t].ch] = Unref([@ EXCEPT !.closed = TRUE])]
  ELSE chan

\* The references a create_channel gives back when its command was not queued.
Discard(t) ==
  IF call[t].op = "create"
  THEN [chan EXCEPT ![call[t].ch] = Unref(Unref([@ EXCEPT !.closed = TRUE]))]
  ELSE chan

\* A close() that is told of a shutdown in between closes locally.
Rejected(t) ==
  IF call[t].op = "close" THEN [chan EXCEPT ![call[t].ch].closed = TRUE] ELSE Discard(t)

\* Mutant: cmd_waiter_busy is not looked at.
AcquireBusy(t) ==
  /\ call[t].pc = "acquire" /\ cmd_lock = Nobody
  /\ busy' = TRUE
  /\ waiter' = [done |-> FALSE, status |-> "ok"]
  /\ call' = [call EXCEPT ![t].pc = "enqueue"]
  /\ UNCHANGED <<locks, chan, server_ref, accepting, queue, workVars, sent, gone>>

\* server_waiter_acquire: the one waiter of the server is in use, or is reset.
Acquire(t) ==
  /\ call[t].pc = "acquire" /\ cmd_lock = Nobody
  /\ IF busy
     THEN /\ chan' = Discard(t)
          /\ server_ref' = server_ref
          /\ Return(t)
          /\ UNCHANGED <<busy, waiter>>
     ELSE /\ busy' = TRUE
          /\ waiter' = [done |-> FALSE, status |-> "ok"]
          /\ call' = [call EXCEPT ![t].pc = "enqueue"]
          /\ UNCHANGED <<gil, chan, server_ref>>
  /\ UNCHANGED <<cmd_lock, accepting, queue, workVars, sent, gone>>

\* enqueue_command, and its counterpart in shutdown() that also ends the
\* acceptance of commands; then the GIL is released for the wait.
Enqueue(t) ==
  /\ call[t].pc = "enqueue" /\ cmd_lock = Nobody
  /\ IF accepting
     THEN /\ queue' = Append(queue, Cmd(call[t].op, call[t].ch, TRUE))
          /\ accepting' = (call[t].op # "shutdown")
          /\ call' = [call EXCEPT ![t].pc = "wait"]
          /\ gil' = Nobody
     ELSE /\ call' = [call EXCEPT ![t].pc = "release", ![t].status = "rejected"]
          /\ UNCHANGED <<queue, accepting, gil>>
  /\ UNCHANGED <<cmd_lock, busy, waiter, workVars, server_ref, chan, sent, gone>>

\* Mutant: a spurious wake-up is taken for the completion.
WokenSpuriously(t) ==
  /\ call[t].pc = "wait" /\ gil = Nobody
  /\ gil' = t
  /\ call' = [call EXCEPT ![t].pc = "release", ![t].status = waiter.status]
  /\ UNCHANGED <<cmd_lock, cmdVars, workVars, server_ref, chan, sent, gone>>

\* rtp_sync_waiter_wait returns and the thread has the GIL again.
Woken(t) ==
  /\ call[t].pc = "wait" /\ waiter.done /\ gil = Nobody
  /\ gil' = t
  /\ call' = [call EXCEPT ![t].pc = "release", ![t].status = waiter.status]
  /\ UNCHANGED <<cmd_lock, cmdVars, workVars, server_ref, chan, sent, gone>>

\* A create_channel whose command failed marks the channel closed and drops
\* its reference. Mutant: it does not mark it.
FailedCreateOpen(r) == Unref(r)

FailedCreate(r) == Unref([r EXCEPT !.closed = TRUE])

\* What the method does to its RtpChannel once the command was executed; the
\* reference that close() drops is the one the worker had.
Outcome(t) ==
  LET c == call[t].ch
      ok == call[t].status = "ok"
  IN  IF call[t].status = "rejected" THEN Rejected(t)
      ELSE CASE call[t].op = "create" /\ ok -> [chan EXCEPT ![c].held = TRUE]
             [] call[t].op = "create" /\ ~ok -> [chan EXCEPT ![c] = FailedCreate(@)]
             [] call[t].op = "set_target" /\ ok -> [chan EXCEPT ![c].has_target = TRUE]
             [] call[t].op = "close" ->
                  [chan EXCEPT ![c] = Unref([@ EXCEPT !.closed = TRUE])]
             [] OTHER -> chan

\* server_waiter_release, and the rest of the method.
Release(t) ==
  /\ call[t].pc = "release" /\ cmd_lock = Nobody
  /\ busy' = FALSE
  /\ chan' = Outcome(t)
  /\ gone' = IF call[t].op = "close" /\ call[t].status = "ok"
              THEN gone \cup {call[t].ch} ELSE gone
  /\ server_ref' = server_ref
  /\ Return(t)
  /\ UNCHANGED <<cmd_lock, accepting, waiter, queue, workVars, sent>>

\* PyRtpServer_dealloc: stop the worker, join it, free the commands left.
Stop(t) ==
  /\ call[t].pc = "stop" /\ cmd_lock = Nobody
  /\ queue' = Append(queue, Cmd("stop", "none", FALSE))
  /\ accepting' = FALSE
  /\ call' = [call EXCEPT ![t].pc = "join"]
  /\ gil' = Nobody
  /\ UNCHANGED <<cmd_lock, busy, waiter, workVars, server_ref, chan, sent, gone>>

Joined(t) ==
  /\ call[t].pc = "join" /\ wpc = "exited" /\ gil = Nobody
  /\ queue' = << >>
  /\ call' = [call EXCEPT ![t] = Idle]
  /\ UNCHANGED <<locks, accepting, busy, waiter, workVars, server_ref, chan,
                 sent, gone>>

-----------------------------------------------------------------------------
(* The worker: process_commands. *)

Detach ==
  /\ wpc = "detach" /\ cmd_lock = Nobody
  /\ batch' = queue /\ queue' = << >>
  /\ wpc' = "batch"
  /\ UNCHANGED <<locks, accepting, busy, waiter, channels, polled, dirty, status,
                 todo, stop_seen, call, server_ref, chan, sent, gone>>

Executing(types) == wpc = "batch" /\ batch # << >> /\ Head(batch).type \in types

\* Mutants: the pollfd cache is not invalidated.
RunAddClean ==
  /\ Executing({"create"}) /\ cmd_lock = Nobody
  /\ channels' = channels \cup {Head(batch).ch} /\ status' = "ok"
  /\ wpc' = "complete"
  /\ UNCHANGED <<locks, cmdVars, batch, polled, dirty, todo, stop_seen, call,
                 server_ref, chan, sent, gone>>

RunRemoveClean ==
  /\ Executing({"close"}) /\ cmd_lock = Nobody
  /\ channels' = channels \ {Head(batch).ch} /\ status' = "ok"
  /\ wpc' = "complete"
  /\ UNCHANGED <<locks, cmdVars, batch, polled, dirty, todo, stop_seen, call,
                 server_ref, chan, sent, gone>>

\* One command under cmd_lock.
RunAdd ==
  /\ Executing({"create"}) /\ cmd_lock = Nobody
  /\ \/ /\ channels' = channels \cup {Head(batch).ch} /\ dirty' = TRUE
        /\ status' = "ok"
     \/ /\ AllocFails
        /\ status' = "ENOMEM"
        /\ UNCHANGED <<channels, dirty>>
  /\ wpc' = "complete"
  /\ UNCHANGED <<locks, cmdVars, batch, polled, todo, stop_seen, call, server_ref,
                 chan, sent, gone>>

RunRemove ==
  /\ Executing({"close"}) /\ cmd_lock = Nobody
  /\ channels' = channels \ {Head(batch).ch}
  /\ dirty' = (dirty \/ Head(batch).ch \in channels)
  /\ status' = "ok"
  /\ wpc' = "complete"
  /\ UNCHANGED <<locks, cmdVars, batch, polled, todo, stop_seen, call, server_ref,
                 chan, sent, gone>>

RunSetTarget ==
  /\ Executing({"set_target"}) /\ cmd_lock = Nobody
  /\ IF Head(batch).ch \in channels
     THEN chan' = [chan EXCEPT ![Head(batch).ch].target = TRUE] /\ status' = "ok"
     ELSE chan' = chan /\ status' = "ENOENT"
  /\ wpc' = "complete"
  /\ UNCHANGED <<locks, cmdVars, batch, channels, polled, dirty, todo, stop_seen,
                 call, server_ref, sent, gone>>

\* CMD_DROP_CHANNELS and CMD_STOP_WORKER keep cmd_lock while clear_channels
\* takes the GIL for each reference it drops.
DropBegin ==
  /\ Executing({"shutdown", "stop"}) /\ cmd_lock = Nobody
  /\ cmd_lock' = Worker
  /\ wpc' = "drop"
  /\ UNCHANGED <<gil, cmdVars, batch, channels, polled, dirty, status, todo,
                 stop_seen, call, server_ref, chan, sent, gone>>

DropOne(c) ==
  /\ wpc = "drop" /\ c \in channels /\ gil = Nobody
  /\ channels' = channels \ {c}
  /\ chan' = [chan EXCEPT ![c] = Unref(@)]
  /\ wpc' = WorkerUnreffed("drop")
  /\ UNCHANGED <<locks, cmdVars, batch, polled, dirty, status, todo,
                 stop_seen, call, server_ref, sent, gone>>

\* clear_poll_cache.
CacheCleared == polled' = {} /\ dirty' = FALSE

DropEnd ==
  /\ wpc = "drop" /\ channels = {}
  /\ CacheCleared
  /\ cmd_lock' = Nobody
  /\ status' = "ok"
  /\ stop_seen' = (stop_seen \/ Head(batch).type = "stop")
  /\ wpc' = "complete"
  /\ UNCHANGED <<gil, cmdVars, batch, channels, todo, call, server_ref, chan, sent,
                 gone>>

\* rtp_sync_waiter_complete, then free_command, which still owns the channel of
\* an ADD that failed.
Complete ==
  /\ wpc = "complete"
  /\ waiter' = IF Head(batch).waiter THEN [done |-> TRUE, status |-> status]
               ELSE waiter
  /\ IF status = "ENOMEM" THEN wpc' = "unref" /\ batch' = batch
     ELSE wpc' = "batch" /\ batch' = Tail(batch)
  /\ UNCHANGED <<locks, accepting, busy, queue, channels, polled, dirty, status,
                 todo, stop_seen, call, server_ref, chan, sent, gone>>

FreeFailedAdd ==
  /\ wpc = "unref" /\ gil = Nobody
  /\ chan' = [chan EXCEPT ![Head(batch).ch] = Unref(@)]
  /\ batch' = Tail(batch)
  /\ wpc' = WorkerUnreffed("batch")
  /\ UNCHANGED <<locks, cmdVars, channels, polled, dirty, status, todo, stop_seen,
                 call, server_ref, sent, gone>>

BatchDone ==
  /\ wpc = "batch" /\ batch = << >>
  /\ wpc' = IF stop_seen THEN "exited" ELSE "refresh"
  /\ UNCHANGED <<locks, cmdVars, batch, channels, polled, dirty, status, todo,
                 stop_seen, call, server_ref, chan, sent, gone>>

-----------------------------------------------------------------------------
(* The worker: refresh_poll_cache, waiting, poll_inputs, drain_outputs. *)

\* The cache is rebuilt, or stays dirty because an allocation failed. Without
\* channels to poll the worker sleeps until a command comes.
Refresh ==
  /\ wpc = "refresh"
  /\ \/ /\ polled' = IF dirty THEN channels ELSE polled
        /\ dirty' = FALSE
        /\ wpc' = IF polled' = {} THEN "sleep" ELSE "tick"
     \/ /\ AllocFails /\ dirty /\ channels # {}
        /\ wpc' = IF polled = {} THEN "sleep" ELSE "detach"
        /\ UNCHANGED <<polled, dirty>>
  /\ UNCHANGED <<locks, cmdVars, batch, channels, status, todo, stop_seen, call,
                 server_ref, chan, sent, gone>>

\* Mutant: a worker without channels waits for a signal that was already sent.
WaitMissed ==
  /\ wpc = "tick"
  /\ wpc' = "detach"
  /\ UNCHANGED <<locks, cmdVars, batch, channels, polled, dirty, status, todo,
                 stop_seen, call, server_ref, chan, sent, gone>>

\* wait_for_commands: without a deadline, or until the tick.
Wait ==
  /\ \/ wpc = "sleep" /\ queue # << >> /\ cmd_lock = Nobody
     \/ wpc = "tick"
  /\ wpc' = "detach"
  /\ UNCHANGED <<locks, cmdVars, batch, channels, polled, dirty, status, todo,
                 stop_seen, call, server_ref, chan, sent, gone>>

\* The tick is due: poll() reports the sockets with something to read.
PollBegin ==
  /\ wpc = "tick"
  /\ todo' = {c \in polled : chan[c].inq > 0}
  /\ wpc' = "poll"
  /\ UNCHANGED <<locks, cmdVars, batch, channels, polled, dirty, status, stop_seen,
                 call, server_ref, chan, sent, gone>>

\* recvfrom, and the call of pkt_in. Between two calls that pkt_in makes, the
\* interpreter may let another thread have the GIL.
Receive(c) ==
  /\ wpc = "poll" /\ c \in todo /\ chan[c].inq > 0 /\ gil = Nobody
  /\ chan' = [chan EXCEPT ![c].inq = @ - 1]
  /\ wpc' = "callback"
  /\ UNCHANGED <<locks, cmdVars, batch, channels, polled, dirty, status, todo,
                 stop_seen, call, server_ref, sent, gone>>

\* Mutant: an empty socket is tried again.
ReceiveEndRetried(c) ==
  /\ wpc = "poll" /\ c \in todo /\ chan[c].inq = 0
  /\ UNCHANGED vars

\* recvfrom fails: the socket is empty.
ReceiveEnd(c) ==
  /\ wpc = "poll" /\ c \in todo /\ chan[c].inq = 0
  /\ todo' = todo \ {c}
  /\ UNCHANGED <<locks, cmdVars, batch, channels, polled, dirty, wpc, status,
                 stop_seen, call, server_ref, chan, sent, gone>>

\* pkt_in returns, or raises: the exception is reported and dropped.
CallbackReturn ==
  /\ wpc = "callback" /\ gil = Nobody
  /\ wpc' = "poll"
  /\ UNCHANGED <<locks, cmdVars, batch, channels, polled, dirty, status, todo,
                 stop_seen, call, server_ref, chan, sent, gone>>

CallbackSend(c) ==
  /\ wpc = "callback" /\ gil = Nobody /\ "send" \in CallbackOps /\ Push(c)
  /\ UNCHANGED <<locks, cmdVars, workVars, call, server_ref, sent, gone>>

\* close() on the worker thread does not wait.
CallbackClose(c) ==
  /\ wpc = "callback" /\ gil = Nobody /\ "close" \in CallbackOps
  /\ Usable(c) /\ ~chan[c].closed
  /\ IF accepting
     THEN cmd_lock = Nobody /\ queue' = Append(queue, Cmd("close", c, FALSE))
     ELSE queue' = queue
  /\ chan' = [chan EXCEPT ![c].closed = TRUE, ![c].orphan = accepting]
  /\ UNCHANGED <<locks, accepting, busy, waiter, workVars, call, server_ref, sent,
                 gone>>

\* set_target() on the worker thread waits for the worker thread.
CallbackSetTarget(c) ==
  /\ wpc = "callback" /\ gil = Nobody /\ "set_target" \in CallbackOps
  /\ Usable(c) /\ ~chan[c].closed /\ accepting
  /\ ~busy /\ cmd_lock = Nobody
  /\ busy' = TRUE /\ waiter' = [done |-> FALSE, status |-> "ok"]
  /\ queue' = Append(queue, Cmd("set_target", c, TRUE))
  /\ wpc' = "selfwait"
  /\ UNCHANGED <<locks, accepting, batch, channels, polled, dirty, status, todo,
                 stop_seen, call, server_ref, chan, sent, gone>>

DrainBegin ==
  /\ wpc = "poll" /\ todo = {}
  /\ todo' = channels
  /\ wpc' = "drain"
  /\ UNCHANGED <<locks, cmdVars, batch, channels, polled, dirty, status, stop_seen,
                 call, server_ref, chan, sent, gone>>

\* Mutant: a packet that sendto refuses is queued again.
DrainPopRequeued(c) ==
  /\ wpc = "drain" /\ c \in todo /\ chan[c].outq # << >>
  /\ \/ /\ chan' = [chan EXCEPT ![c].outq = Tail(@)]
        /\ sent' = [sent EXCEPT ![c] = Append(@, Head(chan[c].outq))]
     \/ /\ chan' = [chan EXCEPT ![c].outq = Append(Tail(@), Head(@))]
        /\ UNCHANGED sent
  /\ wpc' = "free"
  /\ UNCHANGED <<locks, cmdVars, batch, channels, polled, dirty, status, todo,
                 stop_seen, call, server_ref, gone>>

\* One packet is popped, and handed to sendto if the channel has a target. What
\* sendto returns is ignored: a packet it refuses is gone like one that is lost
\* on the way. free_send_item then needs the GIL.
DrainPop(c) ==
  /\ wpc = "drain" /\ c \in todo /\ chan[c].outq # << >>
  /\ chan' = [chan EXCEPT ![c].outq = Tail(@)]
  /\ sent' = IF chan[c].target
             THEN [sent EXCEPT ![c] = Append(@, Head(chan[c].outq))] ELSE sent
  /\ wpc' = "free"
  /\ UNCHANGED <<locks, cmdVars, batch, channels, polled, dirty, status, todo,
                 stop_seen, call, server_ref, gone>>

DrainFree ==
  /\ wpc = "free" /\ gil = Nobody
  /\ wpc' = "drain"
  /\ UNCHANGED <<locks, cmdVars, batch, channels, polled, dirty, status, todo,
                 stop_seen, call, server_ref, chan, sent, gone>>

DrainNext(c) ==
  /\ wpc = "drain" /\ c \in todo /\ chan[c].outq = << >>
  /\ todo' = todo \ {c}
  /\ UNCHANGED <<locks, cmdVars, batch, channels, polled, dirty, wpc, status,
                 stop_seen, call, server_ref, chan, sent, gone>>

DrainEnd ==
  /\ wpc = "drain" /\ todo = {}
  /\ wpc' = "detach"
  /\ UNCHANGED <<locks, cmdVars, batch, channels, polled, dirty, status, todo,
                 stop_seen, call, server_ref, chan, sent, gone>>

-----------------------------------------------------------------------------
\* The network delivers a datagram to a bound socket, as often as it likes.
Datagram(c) ==
  /\ Live(c) /\ chan[c].inq < MaxIn
  /\ chan' = [chan EXCEPT ![c].inq = @ + 1]
  /\ UNCHANGED <<locks, cmdVars, workVars, call, server_ref, sent, gone>>

Method(t) == Acquire(t) \/ Enqueue(t) \/ Woken(t) \/ Release(t) \/ Stop(t) \/ Joined(t)

Program(t) ==
  \/ CreateChannel(t) \/ Shutdown(t) \/ DelServer(t)
  \/ \E c \in Channels :
       SetTarget(t, c) \/ Close(t, c) \/ SendPkt(t, c) \/ DelChannel(t, c)

\* The worker's own steps; what pkt_in does is up to the program.
WorkerStep ==
  \/ Detach \/ RunAdd \/ RunRemove \/ RunSetTarget
  \/ DropBegin \/ DropEnd \/ Complete \/ FreeFailedAdd \/ BatchDone
  \/ Refresh \/ Wait \/ PollBegin \/ CallbackReturn
  \/ DrainBegin \/ DrainFree \/ DrainEnd
  \/ \E c \in Channels :
       DropOne(c) \/ Receive(c) \/ ReceiveEnd(c) \/ DrainPop(c) \/ DrainNext(c)

Callback(c) == CallbackSend(c) \/ CallbackClose(c) \/ CallbackSetTarget(c)

Next ==
  \/ \E t \in Threads : Method(t) \/ Program(t)
  \/ WorkerStep
  \/ \E c \in Channels : Callback(c) \/ Datagram(c)

Spec == Init /\ [][Next]_vars

\* A thread inside a method and the worker keep running, and get the GIL and
\* cmd_lock when these are free again and again; the tick becomes due.
FairSpec ==
  /\ Spec
  /\ \A t \in Threads : SF_vars(Method(t))
  /\ SF_vars(WorkerStep) /\ SF_vars(PollBegin)

-----------------------------------------------------------------------------
Pending == Range(queue) \cup Range(batch)

\* The shape of the state; in particular the output ring that send_pkt fills
\* stays within queue_size.
TypeOK ==
  /\ gil \in Threads \cup {Nobody} /\ cmd_lock \in {Worker, Nobody}
  /\ {accepting, busy, dirty, stop_seen, server_ref} \subseteq BOOLEAN
  /\ channels \cup polled \cup todo \cup gone \subseteq Channels
  /\ wpc \in {"detach", "batch", "drop", "complete", "unref", "refresh", "sleep",
              "tick", "poll", "callback", "selfwait", "drain", "free", "exited",
              "selfjoin"}
  /\ \A t \in Threads :
       call[t].pc \in {"idle", "acquire", "enqueue", "wait", "release", "stop", "join"}
  /\ \A c \in Channels : Len(chan[c].outq) <= QueueSize

In(cond) == IF cond THEN 1 ELSE 0

\* A create_channel for c has not returned.
Creator(c) == \E t \in Threads : call[t].op = "create" /\ call[t].ch = c

\* Its command is not queued, or was rejected.
Unqueued(c) ==
  \E t \in Threads : /\ call[t].op = "create" /\ call[t].ch = c
                     /\ \/ call[t].pc \in {"acquire", "enqueue"}
                        \/ call[t].status = "rejected"

\* It is queued and owns its channel: the worker has not put it in its table.
Queued(c) ==
  \E m \in Pending : /\ m.type = "create" /\ m.ch = c
                     /\ ~(wpc = "complete" /\ status = "ok" /\ m = Head(batch))

\* A close() of c is past the queue.
Closing(c) ==
  \E t \in Threads : /\ call[t].op = "close" /\ call[t].ch = c
                     /\ call[t].pc \in {"wait", "release"}

\* Who refers to channel c: the program, a create_channel that has not
\* returned, a command or the worker's table, and the close() that will drop
\* the reference of a table entry the worker has just cleared.
Holders(c) ==
  In(chan[c].held) + In(Creator(c)) + In(Unqueued(c) \/ Queued(c))
  + In(c \in channels) + In(c \notin channels /\ Closing(c))

\* Reference counting is safe across threads: no channel is freed while the
\* program, a command or the worker's table still refers to it, and the worker
\* never polls, reads or drains a channel that was freed, not even through the
\* pollfd cache.
NoUseAfterFree ==
  /\ \A c \in Channels : chan[c].refs >= Holders(c)
  /\ channels \subseteq {c \in Channels : Live(c)}
  /\ wpc \in {"poll", "callback", "drain", "free"} =>
       todo \subseteq {c \in Channels : Live(c)}
  /\ wpc = "tick" => polled \subseteq {c \in Channels : Live(c)}

\* A channel is freed as soon as nothing refers to it: its socket and its
\* callback do not leak (tests/test_rtp_server.py, close releases pkt_in). Only
\* a channel that a callback closed may be left with one reference too many, the
\* one of the worker's table, which only a close() that waits gives back.
NoLeak ==
  \A c \in Channels :
    Live(c) => chan[c].refs - Holders(c) \in 0 .. In(chan[c].orphan)

\* The same with no exception for the channels that callbacks close.
NoLeakEver == \A c \in Channels : Live(c) => chan[c].refs = Holders(c)

\* While commands are accepted, a channel that is not closed is referred to by
\* the worker or on its way there: PyRtpChannel_dealloc of an open channel
\* happens only after shutdown, when it need not talk to the worker.
OpenIsHeld ==
  accepting =>
    \A c \in Channels :
      Live(c) /\ ~chan[c].closed =>
        \/ c \in channels
        \/ \E t \in Threads : call[t].ch = c /\ call[t].op \in {"create", "close"}

\* The single waiter of a server serves one command at a time: whoever waits
\* was not completed by another command, and no completion is lost.
WaiterExclusive ==
  /\ Cardinality({t \in Threads : call[t].pc \in {"enqueue", "wait", "release"}})
       + In(wpc = "selfwait") = In(busy)
  /\ \A t \in Threads :
       call[t].pc = "wait" =>
         \/ waiter.done
         \/ Cmd(call[t].op, call[t].ch, TRUE) \in Pending

\* A synchronous method returns only when the worker has done what was asked:
\* a created channel is in the worker's table, a closed one is not, a target
\* that is set is known to the worker, and after shutdown() it has no channels.
ReturnedMeansDone ==
  \A t \in Threads :
    call[t].pc = "release" /\ call[t].status = "ok" =>
      CASE call[t].op = "create" -> call[t].ch \in channels
        [] call[t].op = "close" -> call[t].ch \notin channels
        [] call[t].op = "set_target" -> chan[call[t].ch].target
        [] call[t].op = "shutdown" -> channels = {} /\ polled = {}

\* After close() has returned, the worker neither calls pkt_in of the channel
\* again nor sends what is left in its queue.
ClosedIsQuiet ==
  /\ gone \cap (channels \cup todo) = {}
  /\ ~dirty => gone \cap polled = {}

\* The worker hands the packets of a channel to sendto in the order in which
\* send_pkt accepted them, none twice and none left out: has_target of the
\* RtpChannel is set only after the worker has the target, so nothing accepted is
\* dropped for want of one.
SentInOrder ==
  \A c \in Channels :
    Live(c) =>
      sent[c] \o chan[c].outq = [n \in 1 .. chan[c].accepted |-> n]

\* The program does not lose the server to the worker: the last reference is
\* dropped by a Python thread, which can stop and join the worker. The worker
\* drops it only with the channel of an ADD that failed.
JoinedByOther == wpc = "selfjoin" => status = "ENOMEM"

\* The two ways in which the worker can be held up for ever from outside: pkt_in
\* calls set_target(), which waits for the thread it runs on, or datagrams keep
\* coming to one socket, which recvfrom never finds empty.
Held ==
  \/ <>[](wpc = "selfwait")
  \/ \E c \in Channels : /\ []<><<Datagram(c)>>_vars
                        /\ <>[](c \in todo /\ wpc \in {"poll", "callback"})

\* Every synchronous method returns, unless the worker is held up: no command is
\* left unprocessed, no wake-up is lost, and no thread waits for a lock for ever.
CallsReturn ==
  Held \/ \A t \in Threads : call[t].pc # "idle" ~> call[t].pc = "idle"

\* What send_pkt accepted is handed to sendto, unless the worker is held up or the
\* channel is closed or dropped.
SendsLeave ==
  Held \/ \A c \in Channels :
            chan[c].outq # << >> ~> (chan[c].outq = << >> \/ chan[c].closed \/ ~accepting)

\* The worker always comes back to wait for its tick or for a command, whatever
\* pkt_in calls and however many datagrams arrive meanwhile: nothing but a
\* set_target() in a callback and a socket that is refilled for ever holds it up.
WorkerLoops == Held \/ []<>(wpc \in {"tick", "sleep", "exited"})

\* server.shutdown() "Stops the worker thread" (README.md).
ShutdownStopsWorker ==
  \A t \in Threads :
    call[t].op = "shutdown" /\ call[t].pc = "release" => wpc = "exited"
=============================================================================
