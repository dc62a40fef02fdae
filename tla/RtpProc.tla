------------------------------- MODULE RtpProc -------------------------------
(***************************************************************************)
(* python/RtpProc_mod.c: Python threads that create and close channels of  *)
(* the one RtpProc, and its worker thread, which runs every channel's      *)
(* proc_in callback at creation and then whenever it asked to be run.      *)
(*                                                                         *)
(* What a thread does between taking the GIL and giving it up is one step: *)
(* unlike RtpServer, no lock is held while the GIL is waited for. A time   *)
(* is kept relative to the present: it falls by one with every Tick and is *)
(* due at 0.                                                               *)
(***************************************************************************)
EXTENDS Integers, FiniteSets, Sequences, Functions

CONSTANTS
  Threads,      \* Python threads
  Channels,     \* identities (id) of the RtpProcChannels created
  NoChannel,    \* an unused slot
  FirstCap,     \* slots of the first allocation, 4 in the code
  Periods,      \* what proc_in adds to its deadline to get the next one
  CallbackOps,  \* what proc_in may call, a subset of {"close", "shutdown"}
  AllocFails,   \* may an allocation on the worker fail?
  Slow,         \* does time pass while the worker is at work?
  MaxLate       \* bound: how late a run may get

ASSUME SizesAssumption ==
  /\ NoChannel \notin Channels
  /\ FirstCap \in Nat \ {0} /\ MaxLate \in Nat
  /\ Periods \subseteq Int /\ \E p \in Periods : p > 0
  /\ CallbackOps \subseteq {"close", "shutdown"}
  /\ {AllocFails, Slow} \subseteq BOOLEAN

VARIABLES
  accepting, shutdown_queued, worker_running,
  busy, waiter,     \* cmd_waiter_busy and cmd_waiter
  close_exc,        \* channels whose exception is in close_exc, at most one
  queue, batch,     \* commands queued; commands the worker detached
  slots,            \* the channel array: an id or NoChannel
  sched,            \* the schedule list from sched_head on
  due,              \* next_run_ns of each channel, from now
  cb_exc,           \* channels whose state holds an exception
  wpc, status,      \* the worker: where it is, cmd_status
  taken,            \* exc, taken from the channel being removed
  cb,               \* the callback being run
  stop_seen,        \* shutdown_seen
  call,             \* per thread: the method it is in
  chan,             \* per channel: the RtpProcChannel
  ended, failed,    \* history: channels with no further run to come; that raised
  outcome           \* history: how close() returned

cmdVars == <<accepting, shutdown_queued, worker_running, busy, waiter, queue>>
tabVars == <<slots, sched, due, cb_exc>>
workVars == <<batch, wpc, status, taken, cb, stop_seen>>
history == <<ended, failed, outcome>>
vars == <<cmdVars, close_exc, tabVars, workVars, call, chan, history>>

Idle == [pc |-> "idle", op |-> "none", ch |-> NoChannel]
NotReset == [done |-> FALSE, status |-> "ok"]
Cmd(type, c, w) == [type |-> type, ch |-> c, waiter |-> w]
NoCallback == [ch |-> NoChannel, first |-> FALSE, now |-> 0, deadline |-> 0]

Init ==
  /\ accepting = TRUE /\ shutdown_queued = FALSE /\ worker_running = TRUE
  /\ busy = FALSE /\ waiter = NotReset /\ close_exc = {}
  /\ queue = << >> /\ batch = << >>
  /\ slots = << >> /\ sched = << >> /\ cb_exc = {}
  /\ due = [c \in Channels |-> 0]
  /\ wpc = "detach" /\ status = "ok" /\ taken = {} /\ cb = NoCallback
  /\ stop_seen = FALSE
  /\ call = [t \in Threads |-> Idle]
  /\ chan = [c \in Channels |-> [held |-> FALSE, made |-> FALSE, closed |-> FALSE]]
  /\ ended = {} /\ failed = {}
  /\ outcome = [c \in Channels |-> "none"]

-----------------------------------------------------------------------------
(* Python threads. Early returns that change nothing are not steps. *)

\* Take the waiter, queue the command, release the GIL and wait.
Submit(t, op, c) ==
  /\ busy' = TRUE /\ waiter' = NotReset
  /\ queue' = Append(queue, Cmd(op, c, TRUE))
  /\ call' = [call EXCEPT ![t] = [pc |-> "wait", op |-> op, ch |-> c]]

\* Mutant: a command is accepted after SHUTDOWN.
CreateChannelLate(t) ==
  /\ call[t].pc = "idle" /\ ~busy
  /\ \E c \in Channels :
       /\ ~chan[c].made
       /\ chan' = [chan EXCEPT ![c].made = TRUE]
       /\ Submit(t, "create", c)
  /\ UNCHANGED <<accepting, shutdown_queued, worker_running, close_exc, tabVars,
                 workVars, history>>

CreateChannel(t) ==
  /\ call[t].pc = "idle" /\ ~busy /\ accepting
  /\ \E c \in Channels :
       /\ ~chan[c].made
       /\ chan' = [chan EXCEPT ![c].made = TRUE]
       /\ Submit(t, "create", c)
  /\ UNCHANGED <<accepting, shutdown_queued, worker_running, close_exc, tabVars,
                 workVars, history>>

Open(c) == chan[c].held /\ ~chan[c].closed

\* close_exc is cleared before it is known whether the waiter is free. After
\* shutdown() the command is rejected and the close is local.
Close(t, c) ==
  /\ call[t].pc = "idle" /\ Open(c)
  /\ close_exc' = {}
  /\ \/ busy /\ UNCHANGED <<busy, waiter, queue, call, chan, outcome>>
     \/ ~busy /\ accepting /\ Submit(t, "close", c) /\ UNCHANGED <<chan, outcome>>
     \/ /\ ~busy /\ ~accepting
        /\ chan' = [chan EXCEPT ![c].closed = TRUE]
        /\ outcome' = [outcome EXCEPT ![c] = "local"]
        /\ UNCHANGED <<busy, waiter, queue, call>>
  /\ UNCHANGED <<accepting, shutdown_queued, worker_running, tabVars, workVars,
                 ended, failed>>

\* The last reference to a channel goes: dealloc closes it without waiting.
DelChannel(t, c) ==
  /\ call[t].pc = "idle" /\ chan[c].held
  /\ \A u \in Threads : call[u].ch # c
  /\ queue' = IF accepting /\ ~chan[c].closed
              THEN Append(queue, Cmd("close", c, FALSE)) ELSE queue
  /\ chan' = [chan EXCEPT ![c].held = FALSE, ![c].closed = TRUE]
  /\ UNCHANGED <<accepting, shutdown_queued, worker_running, busy, waiter,
                 close_exc, tabVars, workVars, call, history>>

\* Mutant: the SHUTDOWN command has the waiter too.
QueueShutdownWaiting ==
  /\ queue' = IF shutdown_queued THEN queue
              ELSE Append(queue, Cmd("shutdown", NoChannel, TRUE))
  /\ shutdown_queued' = TRUE /\ accepting' = FALSE

\* rtp_proc_shutdown_internal up to pthread_join.
QueueShutdown ==
  /\ queue' = IF shutdown_queued THEN queue
              ELSE Append(queue, Cmd("shutdown", NoChannel, FALSE))
  /\ shutdown_queued' = TRUE /\ accepting' = FALSE

Shutdown(t) ==
  /\ call[t].pc = "idle" /\ worker_running
  /\ QueueShutdown
  /\ call' = [call EXCEPT ![t] = [Idle EXCEPT !.pc = "join", !.op = "shutdown"]]
  /\ UNCHANGED <<worker_running, busy, waiter, close_exc, tabVars, workVars, chan,
                 history>>

Joining(t) == call[t].pc = "join"

\* The worker has exited, or another thread is joining it already, which makes
\* this join undefined: it may fail at once.
Joined(t) ==
  /\ Joining(t)
  /\ wpc = "exited" \/ \E u \in Threads \ {t} : Joining(u)
  /\ worker_running' = FALSE
  /\ call' = [call EXCEPT ![t] = Idle]
  /\ UNCHANGED <<accepting, shutdown_queued, busy, waiter, queue, close_exc,
                 tabVars, workVars, chan, history>>

\* Did the close() that pops exc raise, and for its own channel?
CloseOutcome(c) ==
  IF close_exc = {} THEN "clean" ELSE IF close_exc = {c} THEN "own" ELSE "other"

\* rtp_sync_waiter_wait returns, the thread has the GIL again, releases the
\* waiter and finishes the method.
Woken(t) ==
  /\ call[t].pc = "wait" /\ waiter.done
  /\ busy' = FALSE
  /\ call' = [call EXCEPT ![t] = Idle]
  /\ LET c == call[t].ch
     IN  IF call[t].op = "create"
         THEN /\ chan' = [chan EXCEPT ![c].held = (waiter.status = "ok"),
                                      ![c].closed = (waiter.status # "ok")]
              /\ UNCHANGED <<close_exc, outcome>>
         ELSE /\ chan' = [chan EXCEPT ![c].closed = TRUE]
              /\ close_exc' = {}
              /\ outcome' = [outcome EXCEPT ![c] = CloseOutcome(c)]
  /\ UNCHANGED <<accepting, shutdown_queued, worker_running, waiter, queue, tabVars,
                 workVars, ended, failed>>

-----------------------------------------------------------------------------
(* The schedule list and the slots. *)

\* Mutant: a channel joins the front of those due at the same time or later,
\* whatever is due before it.
ScheduledFirst(list, d, c) == <<c>> \o list

\* schedule_channel: behind every channel due no later.
Scheduled(list, d, c) ==
  LET k == Cardinality({i \in 1..Len(list) : d[list[i]] <= d[c]})
  IN  [i \in 1..(Len(list) + 1) |-> IF i <= k THEN list[i]
                                    ELSE IF i = k + 1 THEN c ELSE list[i - 1]]

\* unschedule_channel: the rest of the list moves up.
Unscheduled(list, c) ==
  LET k == CHOOSE i \in 1..Len(list) : list[i] = c
  IN  IF c \notin Range(list) THEN list
      ELSE [i \in 1..(Len(list) - 1) |-> IF i < k THEN list[i] ELSE list[i + 1]]

\* Mutant: the head is reset and the channels are not listed again.
RebuiltEmpty == << >>

\* rebuild_schedule_list: the scheduled channels again, in the order of their
\* slots.
Rebuilt ==
  LET list[i \in 0..Len(slots)] ==
        IF i = 0 THEN << >>
        ELSE IF slots[i] \in Range(sched) THEN Scheduled(list[i - 1], due, slots[i])
        ELSE list[i - 1]
  IN  list[Len(slots)]

FreeSlots == {i \in 1..Len(slots) : slots[i] = NoChannel}
Grown == IF slots = << >> THEN FirstCap ELSE 2 * Len(slots)

\* alloc_channel_slot: the first free slot; or the array grows, and the list is
\* rebuilt when realloc has moved it.
AllocSlot(c) ==
  IF FreeSlots # {}
  THEN /\ slots' = [slots EXCEPT ![CHOOSE i \in FreeSlots : \A j \in FreeSlots : i <= j] = c]
       /\ UNCHANGED sched
  ELSE /\ slots' = [i \in 1..Grown |-> CASE i <= Len(slots) -> slots[i]
                                         [] i = Len(slots) + 1 -> c
                                         [] OTHER -> NoChannel]
       /\ sched' \in {sched, Rebuilt}

Active == Range(slots) \ {NoChannel}

-----------------------------------------------------------------------------
(* The worker: process_commands. *)

Detach ==
  /\ wpc = "detach"
  /\ batch' = queue /\ queue' = << >>
  /\ wpc' = "batch"
  /\ UNCHANGED <<accepting, shutdown_queued, worker_running, busy, waiter, close_exc,
                 tabVars, status, taken, cb, stop_seen, call, chan, history>>

Executing(type) == wpc = "batch" /\ batch # << >> /\ Head(batch).type = type

\* invoke_proc_callback up to the call. Without memory for the arguments there is
\* no call: no exception is stored and no further run is scheduled.
Invoke(run) ==
  \/ wpc' = "callback" /\ cb' = run /\ UNCHANGED ended
  \/ /\ AllocFails
     /\ wpc' = IF run.first THEN "complete" ELSE "due"
     /\ ended' = ended \cup {run.ch}
     /\ UNCHANGED cb

\* ADD: the callback is run at once, with deadline 0.
RunAdd ==
  /\ Executing("create")
  /\ \/ /\ AllocSlot(Head(batch).ch)
        /\ Invoke([ch |-> Head(batch).ch, first |-> TRUE, now |-> 0, deadline |-> 0])
        /\ UNCHANGED status
     \/ /\ AllocFails /\ FreeSlots = {}
        /\ status' = "ENOMEM" /\ wpc' = "complete"
        /\ UNCHANGED <<slots, sched, cb, ended>>
  /\ UNCHANGED <<cmdVars, close_exc, due, cb_exc, batch, taken, stop_seen, call, chan,
                 failed, outcome>>

\* Mutant: the slot is freed and the schedule list still leads to it.
RunRemoveScheduled ==
  /\ Executing("close")
  /\ LET c == Head(batch).ch
     IN  /\ taken' = cb_exc \cap {c}
         /\ cb_exc' = cb_exc \ {c}
         /\ slots' = [i \in DOMAIN slots |-> IF slots[i] = c THEN NoChannel ELSE slots[i]]
  /\ wpc' = "steal"
  /\ UNCHANGED <<cmdVars, close_exc, sched, due, batch, status, cb, stop_seen, call, chan,
                 history>>

\* Mutant: the slot is released before its exception is taken.
RunRemoveReleased ==
  /\ Executing("close")
  /\ LET c == Head(batch).ch
     IN  /\ taken' = {}
         /\ cb_exc' = cb_exc \ {c}
         /\ slots' = [i \in DOMAIN slots |-> IF slots[i] = c THEN NoChannel ELSE slots[i]]
         /\ sched' = Unscheduled(sched, c)
         /\ due' = [due EXCEPT ![c] = 0]
  /\ wpc' = "steal"
  /\ UNCHANGED <<cmdVars, close_exc, batch, status, cb, stop_seen, call, chan, history>>

\* REMOVE: remove_channel takes the exception and releases the slot.
RunRemove ==
  /\ Executing("close")
  /\ LET c == Head(batch).ch
     IN  /\ taken' = cb_exc \cap {c}
         /\ cb_exc' = cb_exc \ {c}
         /\ slots' = [i \in DOMAIN slots |-> IF slots[i] = c THEN NoChannel ELSE slots[i]]
         /\ sched' = Unscheduled(sched, c)
         /\ due' = [due EXCEPT ![c] = 0]
  /\ wpc' = "steal"
  /\ UNCHANGED <<cmdVars, close_exc, batch, status, cb, stop_seen, call, chan, history>>

\* Mutant: an exception that nobody waits for is kept for the next close().
StealExcAlways ==
  /\ wpc = "steal"
  /\ close_exc' = IF taken # {} THEN taken ELSE close_exc
  /\ taken' = {} /\ wpc' = "complete"
  /\ UNCHANGED <<cmdVars, tabVars, batch, status, cb, stop_seen, call, chan, history>>

\* Under the GIL: the exception is handed to the close() that waits, or dropped.
StealExc ==
  /\ wpc = "steal"
  /\ close_exc' = IF Head(batch).waiter /\ taken # {} THEN taken ELSE close_exc
  /\ taken' = {} /\ wpc' = "complete"
  /\ UNCHANGED <<cmdVars, tabVars, batch, status, cb, stop_seen, call, chan, history>>

\* Mutant: the worker does not stop while it has channels.
RunShutdownEmpty ==
  /\ Executing("shutdown")
  /\ stop_seen' = (slots = << >>) /\ wpc' = "complete"
  /\ UNCHANGED <<cmdVars, close_exc, tabVars, batch, status, taken, cb, call, chan, history>>

RunShutdown ==
  /\ Executing("shutdown")
  /\ stop_seen' = TRUE /\ wpc' = "complete"
  /\ UNCHANGED <<cmdVars, close_exc, tabVars, batch, status, taken, cb, call, chan, history>>

Complete ==
  /\ wpc = "complete"
  /\ waiter' = IF Head(batch).waiter THEN [done |-> TRUE, status |-> status] ELSE waiter
  /\ batch' = Tail(batch) /\ status' = "ok" /\ wpc' = "batch"
  /\ UNCHANGED <<accepting, shutdown_queued, worker_running, busy, queue, close_exc,
                 tabVars, taken, cb, stop_seen, call, chan, history>>

BatchDone ==
  /\ wpc = "batch" /\ batch = << >>
  /\ wpc' = IF stop_seen THEN "exit" ELSE "due"
  /\ UNCHANGED <<cmdVars, close_exc, tabVars, batch, status, taken, cb, stop_seen, call,
                 chan, history>>

-----------------------------------------------------------------------------
(* The worker: rtp_proc_worker. *)

\* Mutant: the head is run whatever its time.
DueAlways == sched # << >>

DueNow == sched # << >> /\ due[Head(sched)] <= 0

\* pop_due_channel and the call of the callback.
PopDue ==
  /\ wpc = "due" /\ DueNow
  /\ Invoke([ch |-> Head(sched), first |-> FALSE, now |-> 0, deadline |-> due[Head(sched)]])
  /\ sched' = Tail(sched)
  /\ UNCHANGED <<cmdVars, close_exc, slots, due, cb_exc, batch, status, taken, stop_seen,
                 call, chan, failed, outcome>>

NoneDue ==
  /\ wpc = "due" /\ ~DueNow
  /\ wpc' = "wait"
  /\ UNCHANGED <<cmdVars, close_exc, tabVars, batch, status, taken, cb, stop_seen, call,
                 chan, history>>

\* Mutant: with commands to wait for, the time is forgotten.
WaitCommandsOnly ==
  /\ wpc = "wait" /\ queue # << >>
  /\ wpc' = "detach"
  /\ UNCHANGED <<cmdVars, close_exc, tabVars, batch, status, taken, cb, stop_seen, call,
                 chan, history>>

\* Mutant: a command queued while the worker was busy does not wake it.
WaitMissed ==
  /\ wpc = "wait" /\ DueNow
  /\ wpc' = "detach"
  /\ UNCHANGED <<cmdVars, close_exc, tabVars, batch, status, taken, cb, stop_seen, call,
                 chan, history>>

\* wait_for_commands: for a command, or for the first channel's time.
Wait ==
  /\ wpc = "wait" /\ (DueNow \/ queue # << >>)
  /\ wpc' = "detach"
  /\ UNCHANGED <<cmdVars, close_exc, tabVars, batch, status, taken, cb, stop_seen, call,
                 chan, history>>

AfterCallback == IF cb.first THEN "complete" ELSE "due"

\* The callback returns base_ns + p. Only the first call's answer is held to be
\* no earlier than now.
CallbackNext ==
  /\ wpc = "callback"
  /\ \E p \in Periods :
       LET asked == (IF cb.first THEN cb.now ELSE cb.deadline) + p
           next  == IF cb.first /\ asked < cb.now THEN cb.now ELSE asked
       IN  /\ next >= -MaxLate
           /\ due' = [due EXCEPT ![cb.ch] = next]
           /\ sched' = Scheduled(sched, due', cb.ch)
  /\ wpc' = AfterCallback /\ cb' = NoCallback
  /\ UNCHANGED <<cmdVars, close_exc, slots, cb_exc, batch, status, taken, stop_seen, call,
                 chan, history>>

\* The callback returns None.
CallbackNone ==
  /\ wpc = "callback"
  /\ ended' = ended \cup {cb.ch}
  /\ wpc' = AfterCallback /\ cb' = NoCallback
  /\ UNCHANGED <<cmdVars, close_exc, tabVars, batch, status, taken, stop_seen, call, chan,
                 failed, outcome>>

\* The callback raises, or returns something that is not a time.
CallbackRaise ==
  /\ wpc = "callback"
  /\ cb_exc' = cb_exc \cup {cb.ch}
  /\ ended' = ended \cup {cb.ch} /\ failed' = failed \cup {cb.ch}
  /\ wpc' = AfterCallback /\ cb' = NoCallback
  /\ UNCHANGED <<cmdVars, close_exc, slots, sched, due, batch, status, taken, stop_seen,
                 call, chan, outcome>>

\* The callback calls close() on a channel: the worker waits for itself.
CallbackClose(c) ==
  /\ wpc = "callback" /\ "close" \in CallbackOps /\ Open(c)
  /\ close_exc' = {}
  /\ \/ /\ ~busy /\ accepting
        /\ busy' = TRUE /\ waiter' = NotReset
        /\ queue' = Append(queue, Cmd("close", c, TRUE))
        /\ wpc' = "selfwait"
        /\ UNCHANGED <<chan, outcome>>
     \/ busy /\ UNCHANGED <<busy, waiter, queue, wpc, chan, outcome>>
     \/ /\ ~busy /\ ~accepting
        /\ chan' = [chan EXCEPT ![c].closed = TRUE]
        /\ outcome' = [outcome EXCEPT ![c] = "local"]
        /\ UNCHANGED <<busy, waiter, queue, wpc>>
  /\ UNCHANGED <<accepting, shutdown_queued, worker_running, tabVars, batch, status, taken,
                 cb, stop_seen, call, ended, failed>>

\* The callback calls shutdown(): pthread_join refuses to join its caller.
CallbackShutdown ==
  /\ wpc = "callback" /\ "shutdown" \in CallbackOps /\ worker_running
  /\ QueueShutdown
  /\ worker_running' = FALSE
  /\ UNCHANGED <<busy, waiter, close_exc, tabVars, workVars, call, chan, history>>

\* clear_channels: with the slots go the exceptions stored in them.
Cleared == slots' = << >> /\ sched' = << >> /\ cb_exc' = {}

\* The worker clears its channels and frees the commands left.
Exit ==
  /\ wpc = "exit"
  /\ Cleared
  /\ queue' = << >>
  /\ wpc' = "exited"
  /\ UNCHANGED <<accepting, shutdown_queued, worker_running, busy, waiter, close_exc, due,
                 batch, status, taken, cb, stop_seen, call, chan, history>>

\* The clock. Bound: no run gets later than MaxLate.
Tick ==
  /\ sched # << >> \/ wpc = "callback"
  /\ Slow \/ (wpc = "wait" /\ ~DueNow)
  /\ \A c \in Range(sched) : due[c] > -MaxLate
  /\ wpc = "callback" => cb.now > -MaxLate /\ cb.deadline > -MaxLate
  /\ due' = [c \in Channels |-> IF c \in Range(sched) THEN due[c] - 1 ELSE due[c]]
  /\ cb' = IF wpc = "callback" THEN [cb EXCEPT !.now = @ - 1, !.deadline = @ - 1] ELSE cb
  /\ UNCHANGED <<cmdVars, close_exc, slots, sched, cb_exc, batch, wpc, status, taken,
                 stop_seen, call, chan, history>>

-----------------------------------------------------------------------------
WorkerStep ==
  \/ Detach \/ RunAdd \/ RunRemove \/ StealExc \/ RunShutdown \/ Complete \/ BatchDone
  \/ PopDue \/ NoneDue \/ Wait \/ CallbackNext \/ CallbackNone \/ CallbackRaise \/ Exit

Method(t) ==
  \/ CreateChannel(t) \/ Shutdown(t)
  \/ \E c \in Channels : Close(t, c) \/ DelChannel(t, c)

Next ==
  \/ \E t \in Threads : Method(t) \/ Joined(t) \/ Woken(t)
  \/ WorkerStep
  \/ \E c \in Channels : CallbackClose(c)
  \/ CallbackShutdown
  \/ Tick

Spec == Init /\ [][Next]_vars

\* The worker and a woken thread get to run; time passes.
Fairness ==
  /\ WF_vars(WorkerStep) /\ WF_vars(Tick)
  /\ \A t \in Threads : WF_vars(Joined(t)) /\ WF_vars(Woken(t))

FairSpec == Spec /\ Fairness

-----------------------------------------------------------------------------
\* The shape of the state: a command has a channel unless it is SHUTDOWN, the
\* schedule list names channels, an exception in close_exc is one at most.
TypeOK ==
  /\ {accepting, shutdown_queued, worker_running, busy, stop_seen} \subseteq BOOLEAN
  /\ waiter \in [done : BOOLEAN, status : {"ok", "ENOMEM"}]
  /\ close_exc \subseteq Channels /\ taken \subseteq Channels
  /\ Cardinality(close_exc) <= 1 /\ Cardinality(taken) <= 1
  /\ \A q \in {queue, batch} : \A i \in DOMAIN q :
       q[i] \in [type : {"create", "close"}, ch : Channels, waiter : BOOLEAN]
                \cup {Cmd("shutdown", NoChannel, FALSE)}
  /\ Range(slots) \subseteq Channels \cup {NoChannel}
  /\ Range(sched) \subseteq Channels
  /\ \A c \in Channels : due[c] \in Int /\ due[c] >= -MaxLate
  /\ cb_exc \subseteq Channels /\ status \in {"ok", "ENOMEM"}
  /\ wpc \in {"detach", "batch", "callback", "selfwait", "steal", "complete", "due",
              "wait", "exit", "exited"}
  /\ \A t \in Threads : call[t].pc \in {"idle", "wait", "join"}
  /\ \A c \in Channels : outcome[c] \in {"none", "clean", "own", "other", "local"}

\* The schedule list is in the order of the run times and names each scheduled
\* channel once, whatever was added, closed, run or moved by realloc: what
\* pop_due_channel relies on when it looks at the head only.
ScheduleSorted ==
  /\ \A i, j \in 1..Len(sched) : i < j => due[sched[i]] <= due[sched[j]] /\ sched[i] # sched[j]
  /\ Range(sched) \subseteq Active

\* No channel is forgotten: one in the table whose callback has neither returned
\* None nor raised, nor could not be called for want of memory, is on the schedule
\* list or being run.
NoneForgotten ==
  \A c \in Active \ ended : c \in Range(sched) \/ cb.ch = c

\* The first run of a channel precedes the return of create_channel, and a later
\* one is never before the time it asked for (now >= deadline) nor after a run of
\* another channel that is due later.
RunsInOrder ==
  [][\A c \in Channels : (cb'.ch = c /\ cb = NoCallback) =>
       \/ cb'.first /\ ~chan[c].held
       \/ /\ ~cb'.first /\ cb'.deadline <= cb'.now
          /\ \A d \in Range(sched) : due[c] <= due[d]]_vars

\* Once a close() that the worker carried out has returned, the channel is in no
\* slot, not scheduled and not run, and no exception of it is left behind.
ClosedIsQuiet ==
  \A c \in Channels : outcome[c] \in {"clean", "own", "other"} =>
    /\ c \notin Active /\ c \notin Range(sched) /\ cb.ch # c
    /\ c \notin cb_exc

\* A thread waits only for a command that is still queued, being executed, or
\* done: the worker never exits with a command whose waiter it has not completed.
NoWaiterLost ==
  \A t \in Threads : call[t].pc = "wait" =>
    /\ busy
    /\ \/ waiter.done
       \/ \E q \in {queue, batch} : \E i \in DOMAIN q :
            q[i] = Cmd(call[t].op, call[t].ch, TRUE)

\* A close() never raises the exception of another channel.
ExceptionIsOwn == \A c \in Channels : outcome[c] # "other"

\* A close() that the worker carried out raises the exception of the channel's
\* callback, if there was one.
ExceptionRaised == \A c \in Channels : outcome[c] = "clean" => c \notin failed

\* The same of every close(), one after shutdown() included.
ExceptionAlwaysRaised ==
  \A c \in Channels : outcome[c] \in {"clean", "local"} => c \notin failed

\* When shutdown() has returned, the worker has stopped and holds no channel.
ShutdownStopsWorker == ~worker_running => wpc = "exited" /\ Active = {}

\* A shutdown() is not lost, whoever called it, how often and however its join
\* ended: the worker has the SHUTDOWN command before it or has seen it, and it does
\* not exit for another reason or with a channel in its table.
ShutdownKept ==
  /\ ~accepting => \/ stop_seen
                   \/ Cmd("shutdown", NoChannel, FALSE) \in Range(queue) \cup Range(batch)
  /\ wpc = "exited" => ~accepting /\ Active = {}

\* The two ways in which callbacks can hold up the worker for ever: one calls
\* close(), which waits for the thread it runs on, or the loop over the due channels
\* does not end because it finds one again and again.
Held ==
  \/ <>[](wpc = "selfwait")
  \/ <>[](wpc \in {"due", "callback"}) /\ []<><<PopDue>>_vars

\* Every method returns, unless the worker is held up: a command is executed
\* although callbacks come due and call back, and shutdown() joins the worker.
CallsReturn == Held \/ \A t \in Threads : call[t].pc # "idle" ~> call[t].pc = "idle"

\* A scheduled channel gets its run, unless the worker is held up or the channel is
\* closed or shut down: no other channel keeps it from the head of the list for ever.
ScheduledRuns ==
  Held \/ \A c \in Channels : c \in Range(sched) ~> c \notin Range(sched)

\* Once shutdown() was called, by one thread, by two that join the same worker or by
\* a callback that cannot join it, the worker exits and gives up its channels,
\* unless it is held up.
ShutdownEnds == Held \/ (~accepting ~> wpc = "exited" /\ Active = {})

\* The worker comes back to its commands or exits, whatever callbacks do. It does
\* not, in the two cases of Held.
WorkerLoops == []<>(wpc \in {"detach", "wait", "exited"})

=============================================================================
