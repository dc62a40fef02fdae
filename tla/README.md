# A TLA+ development of librtpsynth

librtpsynth synthesizes, buffers, receives and schedules RTP media. This
directory holds TLA+ models of its parts, TLC configurations that check
them on small instances, and TLAPS proofs about the lock-free queue, the jitter
buffer, the server, the scheduler and the synthesizer. File and line references are to the repository (`src/SPMCQueue.c`, `python/RtpServer_mod.c`
and so on); PROJECT.json maps every definition to the lines it models.

## 1. Inventory

| component | state | operations | what is hard |
|---|---|---|---|
| SPMC queue (`src/SPMCQueue.c`) | ring of slots, write and read index, a cached copy of each | `try_push`, `try_pop`, `try_pop_many` | lock-free, one producer and many consumers, stale caches, weak memory |
| jitter buffer (`src/rtpjbuf.c`) | sorted list of frames, last logical number made ready, highest one seen, wrap mask | `rtpjbuf_udp_in`, `rtpjbuf_flush` | 16-bit wraps with reordering, losses, duplicates; a purge that takes state back; 32-bit arithmetic |
| RtpServer (`python/RtpServer_mod.c`) | table of channels, pollfd cache, command queue, one waiter, references | `create_channel`, `set_target`, `send_pkt`, `close`, `shutdown`, deallocation; the worker | Python threads against a worker, GIL against `cmd_lock`, callbacks that call back |
| RtpProc (`python/RtpProc_mod.c`) | table of channels, schedule list, command queue, one waiter, one slot for exceptions | `create_channel`, `close`, `shutdown`, deallocation; the worker | time, late callbacks, exceptions handed between threads, a table that moves |
| sync helpers (`src/rtp_sync.c`) | waiter, command list | reset, complete, wait; push, detach | lost wake-ups |
| RTP parser (`src/rtp.c`) | none | parse a header, count samples | lengths at their limits, frames of several lengths |
| synthesizer (`src/rtpsynth.c`, `python/RtpSynth_mod.c`) | sequence number, timestamp, marker, time of the last packet | `next_pkt`, `skip`, `set_mbt`, `resync` | wraps, calls that fail, resynchronising twice |
| RtpJBuf (`python/RtpJBuf_mod.c`) | a table of references to the callers' packet buffers | `udp_in`, `flush`, deallocation | references found by address, dropped exactly once; failures half way |
| RtpUtils (`python/RtpUtils_mod.c`) | none (tables) | mu-law, linear resampling | segments, rounding, ends |

How they interact. A Python thread that calls a method of RtpServer or RtpProc
appends a command to the worker's queue and waits on the single waiter of that
object, the GIL released. The worker detaches the queue, executes each command
and completes its waiter. `send_pkt` bypasses the commands: it pushes into the
channel's SPMC queue, which the worker drains at every tick. The worker calls
`pkt_in` and `proc_in` under the GIL, and those may call methods again. The
jitter buffer is single-threaded and is called by the program, from Python through
RtpJBuf, which keeps alive the objects its frames point into. The jitter buffer
parses datagrams with the parser; packets of the synthesizer are meant for it.

What makes each part correct:

- queue: what is popped is what was pushed, once and in order, and the ring is a
  bounded FIFO to its callers;
- jitter buffer: logical numbers are the sender's, the output continues without
  hole or repetition, erasures say what is missing, no frame is lost or given
  out twice, no assertion fails;
- server: channels live while something refers to them and no longer, a method
  returns only when its command was done, and it does return; accepted packets
  leave in order; a closed channel is quiet;
- scheduler: runs come in the order of their times and none is forgotten, an
  exception reaches the `close()` of its own channel, calls return;
- RtpJBuf: a reference for each buffered frame and no other, and every frame comes
  back with its own;
- synthesizer, parser, conversions: a payload survives from `next_pkt` to the
  parser, the stream continues, datagrams mean what their sender meant, samples
  are kept as well as their coding allows.

## 2. Modules

| module | models | lines of code |
|---|---|---|
| `BoundedFIFO` | what the queue promises: atomic push and pop of a bounded FIFO | none (abstract) |
| `SPMCQueue` | the ring, one step per shared access, sequentially consistent | `SPMCQueue.c` 62-187 |
| `SPMCQueueRA` | the same code under release/acquire memory | as above |
| `SPMCQueueProofs` | theorems about `SPMCQueue` | |
| `JitterBuffer` | `udp_in` and `flush` with every `d_assert` | `rtpjbuf.c` 62-323 |
| `JitterBufferProofs` | theorems about `JitterBuffer` | |
| `RtpServer` | Python threads, worker, channels, references, locks | `RtpServer_mod.c` 254-1732 |
| `RtpServerInv` | the inductive invariant of `RtpServer`, lemmas about its sequences and records; the steps before a command is queued, and those that leave commands alone, keep it | |
| `RtpServerCommands` | a command keeps it: queued, executed, its method returns | |
| `RtpServerProofs` | stopping, dropping, completing and callbacks keep it; the theorems about `RtpServer` | |
| `RtpProc` | Python threads, worker, schedule, exceptions, time | `RtpProc_mod.c` 358-1229 |
| `RtpProcInv` | the inductive invariant of `RtpProc`, lemmas about the schedule and the table, the worker's steps and the clock's keep it | |
| `RtpProcProofs` | the steps of Python threads keep it; the theorems about `RtpProc` | |
| `RtpJBuf` | the Python object around `JitterBuffer`, composed with it | `RtpJBuf_mod.c` 57-69, 641-993 |
| `RtpParse` | the parser, as operators | `rtp.c` 104-230 |
| `RtpSynth` | the synthesizer and its `next_pkt` in Python | `rtpsynth.c` 78-249, `RtpSynth_mod.c` 93-182 |
| `RtpSynthProofs` | a theorem about `RtpSynth` | |
| `RtpUtils` | mu-law and resampling, as operators | `RtpUtils_mod.c` 23-325 |
| `RtpMedia` | synthesizer, parser and conversions together, and other senders | calls of the above |
| `MCSPMCQueue`, `MCRtpServer`, `MCRtpProc`, `MCRtpJBuf`, `MCRtpMedia` | symmetry and constants for TLC; in `MCSPMCQueue` a producer that pushes a new value each time | |

**SPMCQueue.** `ppc` and `cpc` say where the producer and each consumer are in
their function; `lr`, `lw` and `rval` are a consumer's locals. `pushed` and
`popped` are histories. `try_pop` is `try_pop_many` with `want = 1`. Indices are
naturals: wrapping 64 bits would take 2^64 pushes.

**SPMCQueueRA.** Each atomic location is the list of values stored in it, and a
thread's view says how much of each list it must have seen. Release stores carry
a view, acquire loads adopt it, relaxed ones do not. A slot read that is not
ordered after the write it wants is a data race; it returns the value or an
older content of the slot.

**JitterBuffer.** One step per call. `udp_in(t)` presents packet `t` of the
sender's stream, so that `f.t` is the logical number the sender meant and `f.lseq`
the one the code computed. The network may lose, repeat and reorder within
`Reorder` packets back and `Jump` ahead. `UdpInFailed` is a datagram that does
not parse or a failed `malloc`; the purge at the start of the call happens all
the same. A failed `d_assert` sets `aborted`. The 16-bit numbers and the
constants 65000 and 536 are scaled together (`SEQ_MOD`, `SEQ_HI`); logical
numbers wrap at `LSEQ_MOD` as 64-bit ones do. Timestamps wrap at `TS_MOD`.
Statistics counters are left out; nothing reads them back.

**RtpServer.** `call[t]` is where thread `t` is in a method, `wpc` where the
worker is. The steps of a method are its uses of `cmd_lock`, between which it
keeps the GIL. While `pkt_in` runs, other threads may get the GIL between the
calls it makes. Channels carry their Python reference count; `Unref` is
`Py_DECREF` with the deallocation that follows. The channel and pollfd arrays are
sets, the output ring is the bounded FIFO that `SPMCQueue` is proved to
implement. `sent` is what was handed to `sendto`, whose result the code ignores
(`RtpServer_mod.c:860`): a packet the kernel refuses is lost, as one the network
loses. Datagrams arrive without end, at most `MaxIn` at a time in a socket. Assertions that only guard against misuse of the C API are not
modelled; builds are taken without `assert`, as Python extensions are.

**RtpProc.** Each section that holds the GIL is a step, because nothing there
waits for a lock that is held across another. Times are relative to now, and
`Tick` moves them all. Reading the clock and popping the head are one step: only
the worker looks at the schedule, so that time passing in between is the same
as time passing after. `Slow` says whether time may pass while the worker works. A second
`pthread_join` of the same thread is undefined, and may return at once. `Invoke` is
`invoke_proc_callback`; when there is no memory for the arguments it fails without an
exception (lines 581-586), and the channel stays in the table and is not run again
(`ended`, as for a callback that returned None or raised).

**RtpJBuf.** Each action is a method: the call of `JitterBuffer` and what the
binding does with its result, in the order of the code (store the datagram, hand out
the ready frames, then drop the others). A copy of a packet is a bytes object and an
opaque object; an address is the bytes object. `AllocFails` says which allocations may
fail: the frame, a wrapper, the list of results. Erasures carry no reference and only
matter as places where a wrapper can fail.

**RtpParse, RtpSynth, RtpUtils, RtpMedia.** A datagram is its size, the fields of the
fixed header and the bytes after it. `RtpSynth` draws its three random numbers from
`Rand`, and `Tick` is the clock. `htons`, `htonl`, `ntohs` and `ntohl` are parameters:
the synthesizer converts sequence number and timestamp (`rtpsynth.c:168-169`) and stores
the SSRC as it was drawn (line 134), the parser converts all three (`rtp.c:213-215`).
`ByteOrderAssumption` says that `ntoh` undoes `hton` on the numbers a field holds; the
runs swap bytes, as a little-endian host does. `since` is a history of what happened after the last
packet. `RtpMedia` adds other senders, who assemble datagrams from codec frames,
extension and padding, of which the end may get lost, and one call of each function
without state. `resample_linear` computes in doubles; the operators use fractions,
which agree with doubles for the ratios used (1, 2 and 4).

## 3. Runs

Passing runs:

| run | instance | shows |
|---|---|---|
| `queue` | 2 slots, 2 consumers, 3 pushes of different values | `PoppedIsPushedPrefix`, `UnreadIntact`, `PopAssertHolds`, refinement of `BoundedFIFO`, and `PopProgress`: lock freedom |
| `queue_weak` | 2 slots, 1 consumer, 5 pushes, release/acquire | `PoppedInPushOrder` |
| `jbuf` | capacity 4, two wraps, packets up to 3 late, purged tails | `NoAbort`, `LseqFaithful`, `BufferOrdered`, `StreamContinues`, `Conservation`, `ErsSpansGap` |
| `jbuf_refs` | capacity 3, two bytes objects per packet, wrappers that fail | `RefsMatchBuffer`, `OwnReference`, `NeverExhausted`, `Accounted` |
| `server` | 2 threads, 2 channels, all callbacks, allocation failures | `NoUseAfterFree`, `NoLeak`, `OpenIsHeld`, `WaiterExclusive`, `ReturnedMeansDone`, `ClosedIsQuiet` |
| `server_live` | 1 thread, 1 channel, a ring of 2, 3 packets, callbacks that send, close and set targets | `SentInOrder`, `CallsReturn`, `SendsLeave`, `WorkerLoops` |
| `proc` | 2 threads, 2 channels, callbacks that close and shut down | `ClosedIsQuiet`, `NoWaiterLost`, `ExceptionIsOwn` |
| `proc_sched` | 1 thread, 3 channels, a table that grows twice | `NoneForgotten`, `RunsInOrder`, `ExceptionRaised` |
| `proc_live` | 2 threads, 2 channels, callbacks that close, shut down and ask for now or later | `CallsReturn`, `ScheduledRuns`, `ShutdownEnds` |
| `media` | 3 packets across both wraps, 2 other calls between them, every 16-bit sample, datagrams of four codecs cut anywhere | `RoundTrip`, `Continues`, `ParsedAsAssembled`, `UlawFaithful`, `ResampleInverse` |

Two runs show a disagreement between the code and what a comment, an assertion or
the documentation says of it; PROJECT.json quotes the text:

| run | what happens |
|---|---|
| `jbuf_early` | joined at number 0, then the packet before it: its logical number is the "unset" marker and a `d_assert` fails |
| `server_lock` | `shutdown()` and `create_channel()` deadlock over the GIL and `cmd_lock` |

The other disagreements met while modelling have a configuration each, which is
not one of the runs of PROJECT.json and reproduces the counterexample by hand
(`tlc -config X.cfg M`, M the longest module name that X begins with):

| configuration | property violated | what happens |
|---|---|---|
| `SPMCQueueRAPop` | `PoppedInPushOrder` | `SPMCQueue.c:134` allows several consumers; a second one reads a slot it has not synchronised with (relaxed `writeIdxCache`, line 143) |
| `SPMCQueueRAAssert` | `PopAssertHolds` | a consumer sees `readIdx` ahead of the `writeIdx` it loads; the assertion of line 152 fails |
| `JitterBufferSmall` | `NoAbort` | capacity 2: the purge forgets the highest number (`rtpjbuf.c:92`), a late duplicate is buffered, the `d_assert` of line 202 fails |
| `JitterBufferPurgeWrap` | `LseqFaithful` | capacity 3: the purge goes back across a wrap (line 91), `lseq_mask` does not |
| `JitterBufferWindow` | `LseqFaithful` | capacity 4, a wrap window scaled down to 5: a purge takes `last_max_lseq` back below `SEQ_HI`, and the test of line 207 misses the wrap of the packet in hand |
| `JitterBufferFlush` | `EveryErsSpansGap` | a flush in warm-up announces an erasure from 0 (line 318); `tests/test_jbuf.py:175` expects one step per missing packet |
| `JitterBufferErs` | `ErsSpansGap` | the 32-bit product of line 152 overflows on a long gap (shown with `TS_MOD` 1024; with a step of 240 a gap of about 4230 packets) |
| `RtpServerLeak` | `NoLeakEver` | a channel closed by its own callback is never freed: only a `close()` that waits drops the worker's reference (`RtpServer_mod.c:1542`) |
| `RtpServerStop` | `ShutdownStopsWorker` | `README.md:134`: `shutdown()` stops the worker; it only drops the channels |
| `RtpProcStarved` | `WorkerLoops` | a callback as slow as its period keeps the worker in its loop (`RtpProc_mod.c:807`), commands wait for ever |
| `RtpProcSelf` | `WorkerLoops` | `close()` in `proc_in` waits for its own thread (line 1179) |
| `RtpProcLost` | `ExceptionRaised` | a second `close()` wipes out the exception of the first (line 1164) |
| `RtpProcDropped` | `ExceptionAlwaysRaised` | `README.md:201`: `close()` raises the stored exception; `shutdown()` has dropped it |
| `RtpProcJoin` | `ShutdownStopsWorker` | two shutdowns join the same thread (line 885); one returns while the worker runs |
| `MCRtpJBufOne` | `NeverExhausted` | capacity 1: the new datagram finds the place of the frame purged by the same call still taken (`RtpJBuf_mod.c:899`), `udp_in` raises and the frame stays without a reference |
| `MCRtpJBufOpaque` | `OwnReference` | a bytes object passed again with another opaque object, in the call that purges its frame, is not stored (line 896) and comes back with the first one |
| `MCRtpJBufList` | `RefsMatchBuffer` | no memory for the list (line 788): the ready frames are forgotten and keep their places |
| `MCRtpJBufFrame` | `RefsMatchBuffer` | no memory for a frame, for the very object whose frame is purged: its place is not cleared (lines 830, 885) |
| `MCRtpMediaResync` | `ResyncIdempotent` | `README.md:44-50`: `resync` computes the next timestamp from the clock and the last packet; called twice it adds the same silence twice (`rtpsynth.c:232`) |
| `MCRtpMediaRate` | `IncrementFitsRate` | `README.md:21-22`: a synthesizer with a given sample rate; `ts_inc` is that of 8000 Hz whatever the rate (line 130) |
| `MCRtpMediaSsrc` | `SsrcRecovered` | on a little-endian host the parser's SSRC is not the number drawn by the synthesizer, because only one of them converts it (`rtpsynth.c:134`, `rtp.c:215`); every packet of a stream has the same one, and no text of the repository says which |
| `MCRtpMediaU64` | `Continues` | the 64-bit product of line 232 overflows (scaled; 26 days of silence at 8 kHz) |

Before they were proved, the inductive invariants of section 4 were checked by TLC
without error, in configurations that are not kept because the theorems now say more.
To repeat one, name the invariants in a configuration of the module:

| module | constants | invariants |
|---|---|---|
| `SPMCQueue` | as `queue`, 4 pushes of any two values | `TypeOK`, `IndicesOrdered` |
| `RtpServerInv` | as `server` | each conjunct of `IInv` but `Types` |
| `RtpProcInv` | as `proc`, periods 1 and 2, slow | each conjunct of `IInv` |
| `RtpProcProofs` | one thread, no callback operations, `MaxLate` 2 | `SoleInv` |
| `MCRtpProc` | as `proc` | `ShutdownKept` |
| `JitterBufferProofs` | capacity 3, widths 6 and 12, any order up to 8 apart, `FollowRewinds` | `IInv`, `StreamContinues` |
| `JitterBufferProofs` | `NearSpec`, capacity 3, widths 16 and 80 | `IInv`, `NearInv` |
| `MCRtpMedia` | two rates, three calls between packets, no other senders | `StreamInv` |

In the same way `SPMCQueueRA` with 6 pushes satisfies `TypeOK` and `WithinCapacity`, and
`FairSpec` of `RtpProc` the properties of `proc_live` with a slow worker (`Slow`,
`Periods` {1, 2}).

**Held.** The liveness properties of the server and of the scheduler are of the form
`Held \/ ...`: what callbacks and datagrams can do to the worker for ever is allowed in
the runs, named, and nothing else stops it. In `RtpServer` the worker is held when
`pkt_in` calls `set_target()`, which waits for the worker itself
(`RtpServer_mod.c:1625`), and when datagrams for one channel never end and it never
leaves the `recvfrom` loop (line 823). In `RtpProc` it is held when `proc_in` calls
`close()` (`RtpProc_mod.c:1179`) and when the loop over due channels (line 807) finds
one again and again. Otherwise calls return although commands, datagrams, runs and
callbacks that call back come in any order, and a worker that was told to shut down
exits although nobody joined it: a second thread's join failed or a callback cannot
join (`ShutdownEnds`). `WorkerLoops` of `RtpProc` has no such exception and is refuted
by `RtpProcSelf` and `RtpProcStarved`.

The passing runs are set up beside these on purpose: `queue_weak` has one consumer,
as RtpServer does; `jbuf` a stream that starts away from a wrap, and it makes no
call whose purge would go back across one (`FollowRewinds`); `server_live` one
thread; `proc_sched` one thread; `jbuf_refs` has one opaque
object per bytes object and memory for frames and lists. `Continues` speaks of at
most one `resync` between packets. `NoLeak` allows the one reference too many of a
channel that a callback closed. Their results hold under those conditions and are
refuted, by the runs and configurations above, without them. `JoinedByOther` allows
the worker to drop the last reference to its server with a channel it could not add.

**Bounds.** With two slots the third push reuses the first slot while both consumers
may still be reading it. Every push has a value of its own: were a slot overwritten
by an equal value, `UnreadIntact` would not see it. In `jbuf` the stream passes two wraps with packets 3
late across each, and tails go stale and are purged. `FollowRewinds` is FALSE there:
where the next `udp_in` would purge and take `last_max_lseq` back across a wrap,
only `flush` goes on, because what follows is the flaw that `JitterBufferPurgeWrap`
shows. With `MaxNoise` 2 no wrap is missed because a purge took `last_max_lseq`
back out of the scaled wrap window (`SEQ_MOD - SEQ_HI`, here 5); with 3 one is
(`JitterBufferWindow`). With the window of the code, 536, that takes a loss of hundreds
of packets at a wrap.
In `jbuf_refs` three places are the least with a purge and a frame left over. In
`media` the timestamp's modulus is chosen so that both counters wrap within three
packets; a byte has 16 values there, so that a sequence number has two and a timestamp
four that change places; time is in hundredths of a second, and 11025 Hz leaves a fraction of a sample
to each. Payloads are shorter than the packet, longer, longer than a header and too
long for the buffer; `MaxLost` takes a datagram down to less than its header.
Two threads and two channels are the least at which one command meets another
and one channel's state can be taken for another's; a third channel in `proc_sched`
makes the table grow from 1 to 2 to 4. In `server_live` a ring of two holds two packets
at once while a third waits for room; `MaxSend` also bounds away a program that sends
faster than the worker drains. In `proc_live` the period 0 makes a channel due for ever;
time passes only while the worker waits. `MaxSend`, `MaxIn`, `MaxPush`, `MaxMany`,
`MaxLate`, `MaxT`, `Reorder`, `Jump` and `MaxNoise` bound what the environment does.
`CHECK_DEADLOCK FALSE` is set for the server and the scheduler, which stop after
deallocation or shutdown, and in callbacks that wait for their own thread, for RtpJBuf,
which stops at deallocation, and for `media`, where a function's one call is the last. Symmetry
is used in safety runs only.

**Fairness.** Threads inside a function and the workers are scheduled (WF). In
`RtpServer` locks that come free again and again are got (SF), and the tick comes
due (SF on `PollBegin`). In `SPMCQueue` a weak compare-and-swap that could succeed
again and again does (SF on `PopTake`). In `RtpProc` time passes (WF on `Tick`).
No fairness is assumed of what the program calls, nor of callbacks' choices.

## 4. Proofs

`SPMCQueueProofs` proves, for every capacity from 1, every set of consumers and
every bound, about `SPMCQueue`:

- `TypeCorrect`, `IndexOrder`, `NoOverwrite`, `ExactlyOnceInOrder` and
  `AssertionHolds`: the invariants of run `queue`, `TypeOK` and `IndicesOrdered`;
- `Refinement`: `Spec => Abstract!Spec`, the ring implements `BoundedFIFO`.

They rest on `Invariance`, that `IInv` is inductive. The properties alone are not
inductive: that a slot is intact depends on the producer having tested for room
against a read index that has not moved back (`ProducerInv`), and that a pop
returns the right values depends on what the consumer has already read being
right for as long as its compare-and-swap can still succeed (`ConsumerInv`): if
`readIdx` has moved on, what it read may be rubbish, but the swap fails. The one
piece of arithmetic is `SlotsDistinct`: two indices less than `Capacity` apart
have different slots. The proofs assume `CapacityAssumption`, `ValueAssumption`
and `BoundsAssumption` of `SPMCQueue`; powers of two are not needed.

`JitterBufferProofs` is about a buffer with `Capacity >= 3` (with 2 its theorems
are false, `JitterBufferSmall`), for every width of sequence and logical numbers. It
assumes `SizesAssumption` (the width of the logical numbers is a multiple of that of
the sequence numbers) and `NetworkAssumption` (the bounds on the network are integers),
which leaves the network free. For any network whatever:

- `OrderKept` (`BufferOrdered`) and `StreamKept` (`StreamContinues`, an action
  property: what a call that does not abort makes ready);
- `AbortOnlyUnset`: when a `d_assert` fails, the last frame in the buffer has the number
  `LMS_DEFAULT` that means "unset", which is what run `jbuf_early` shows can happen.

For a network as in `NearSpec`, where packets are less than the wrap window away from
the newest one, the stream stays between number 0 and the unset number, and no call
purges back across a wrap, and for windows at both ends of the range that do not meet
(`WindowsApart`; 536 against 65000 in the code):

- `UnwrappingFaithful` (`LseqFaithful`) and `NoAbortInWindow` (`NoAbort`).

Outside of these conditions both are false (`jbuf_early`, `JitterBufferPurgeWrap`,
`JitterBufferWindow`). `IInv` adds to the order that `last_max_lseq` is the number
of the tail, or of the last packet made ready if the buffer is empty: it is what makes a new
maximum go to the end and a late packet go before the tail, so that the `d_assert`s of
the insertion hold. `NearInv` adds that `lseq_mask` is the block of `last_max_lseq`;
`Unwrapped` is the arithmetic, that the mask and 16 bits give back the packet's
number. What the loops over the list compute (`HeadRunFacts`, `TailRunFacts`,
`CountsUp`) is proved by taking the least position where it fails: the library's
`WFMin` gives the least element of a set of naturals (`Least`), and that
stands in for induction. The lemmas assume `LeastNumber`, and `Least` proves it at the end
of the module, because the provers slow down under the library's theorems.

`RtpServerProofs`, with `RtpServerInv` and `RtpServerCommands`, proves for any number of threads,
channels and packets, any ring size, callbacks that send, close and set targets, and
any allocation failing: `ReferencesSafe` (`NoUseAfterFree`), `ReferencesTight`
(`NoLeak`), `OpenChannelsHeld` (`OpenIsHeld`), `WaiterSafe` (`WaiterExclusive`),
`MethodsSynchronous` (`ReturnedMeansDone`), `ClosedChannelsQuiet` (`ClosedIsQuiet`),
`PacketsInOrder` (`SentInOrder`), `WorkerJoined` (`JoinedByOther`) and `TypeCorrect`. They assume
`SizesAssumption` and `NamesAssumption` (no thread or channel is called "nobody" or
"none"). The conjuncts of `IInv`:

- `CallInv`: a thread has the GIL in every part of a method but the waits, so that
  what it tested under the GIL still holds when it queues its command; therefore only
  `create_channel`, which does not test, is ever rejected;
- `BusyInv`, `LineInv`: one call has the waiter; of the commands not completed
  (`Line`: the batch, then the queue) one at most has it, the one that call waits for;
- `WorkInv`, `StopInv`: what the worker has in hand, and that whoever stops it does so
  after the last reference to the server is gone;
- `MethodInv`, `RefInv`: a channel under construction is its creator's alone, and the
  reference count is the number of `Holders`, plus one for an orphan;
- `OpenInv`, `DoneInv`, `PollInv`, `SentInv`: the properties themselves, with what the
  waiter was told before the thread has woken, and the pollfd cache while it is clean.

`RtpProcProofs`, with `RtpProcInv`, proves for any number of threads and channels, any capacity of the
table and any periods: `ClosedChannelsQuiet` (`ClosedIsQuiet`), `WaitersServed`
(`NoWaiterLost`), `ExceptionsOwn` (`ExceptionIsOwn`), `ChannelsKept` (`NoneForgotten`),
`SchedulesSorted` (`ScheduleSorted`), `CallbacksInOrder` (`RunsInOrder`, an action property),
`ShutdownNotLost` (`ShutdownKept`) and `TypeCorrect`, from `SizesAssumption`. With one
thread, and callbacks that call neither `close()` nor `shutdown()` (`OneThread`), also
`ExceptionsRaised` (`ExceptionRaised`); with more it is false (`RtpProcLost`). The conjuncts of `IInv`: one owner of
the waiter and one command that has it (`CallInv`, `WaitInv`); SHUTDOWN is the last
command of all, so that the worker leaves none behind when it exits (`StopInv`); where the worker
is (`WorkInv`); `close_exc` is of the channel being closed (`ExcInv`); a channel is
created before it is closed, once (`LifeInv`), so that one not yet added or already
removed is in no table and no list (`AbsentInv`); the list is sorted, without
repetition, and has every channel it should (`SchedInv`). `SoleInv` follows an exception
from the callback that raised it to the `close()` that raises it again. `KeptInv` follows
SHUTDOWN: pending until it is seen, and seen before it is completed. It is the safety
part of `ShutdownEnds`; that the worker gets there is model-checked. The lemmas on the
operators say what inserting into, removing from and rebuilding the list, and
taking a free slot, do to any list and table; those that count or search assume
`Counting`, three facts about finite sets of numbers, which `Count` proves at the end of
`RtpProcProofs` from the library.

`RtpSynthProofs` proves `SynthContinues`, that `Continues` of run `media` is an
invariant of `RtpSynth`, for any widths of the header's fields, any rates, packet
durations, random numbers and buffers, and any number of calls and any time between
packets. It assumes `SynthAssumption` (the constants are numbers of the right kind),
`ByteOrderAssumption` and `NoOverflow`: the longest silence times the rate stays within 64 bits. Without the
latter it is false (`MCRtpMediaU64`). `Continues` is not inductive: it compares
numbers already cut to 16 and 32 bits, which do not determine the counters they were
cut from, and it does not say from when a `resync` measures. `StreamInv` says that the
last packet carries the uncut counters as they were before the calls made since
(`LastTs`), and that `last_ts` is the time of that packet. One lemma per call shows
that it is kept; `ElapsedExact` is where `NoOverflow` is used, and `ModAdd` (the
remainder of a sum may be taken of a remainder) leads from the counters back to the
header. The model's counters do not wrap at 2^64; the widths of the header divide
2^64, so the packets are the same.

Only model-checked: weak memory (`PoppedInPushOrder`); RtpJBuf, the parser and the media
functions other than the synthesizer; `Conservation` and `ErsSpansGap` of the jitter buffer.
`RtpJBuf` and `RtpMedia` are built on folds of the community modules, about which
the provers have no facts. Liveness (`PopProgress`, `CallsReturn`, `SendsLeave`,
`WorkerLoops`, `ScheduledRuns`, `ShutdownEnds`) is out of the prover's reach: it has no
rules for fairness and ENABLED.

## 5. Not modelled, and the plan

Not modelled: address resolution, socket options, formatting of errors, the
fallback to CLOCK_REALTIME, the build. Resampling by ratios that doubles do not
represent exactly. In the synthesizer `set_randfunc` and a random function that fails,
`pkt_free`, allocations that fail and negative lengths. In RtpJBuf a second `__init__`,
capacity 0, the counters of live objects and the wrapper classes, which copy fields.
Creation and destruction of the RtpProc singleton and `create_channel` called by
`proc_in` (the same wait for its own thread as `close`).

Next, in this order:

1. An abstract specification of a synchronous command (asked, done, returned)
   that `RtpServer` and `RtpProc` are both shown to implement; the life of the
   RtpProc singleton.
2. Proofs: `Conservation` and `ErsSpansGap` of `JitterBuffer`, `RefsMatchBuffer`
   of `RtpJBuf` on top of them, and `PoppedInPushOrder` of `SPMCQueueRA` with one
   consumer.
3. Allocations that fail in the binding of the synthesizer: a packet number that
   is used up although no packet is returned (`RtpSynth_mod.c:171`).
