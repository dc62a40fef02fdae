---------------------------- MODULE JitterBuffer ----------------------------
(***************************************************************************)
(* The jitter buffer of src/rtpjbuf.c: rtpjbuf_udp_in and rtpjbuf_flush.   *)
(* RTP sequence numbers are modulo SEQ_MOD (65536 in the code); the buffer *)
(* extends them to logical sequence numbers (lseq) modulo LSEQ_MOD (2^64), *)
(* re-orders, drops late and duplicate packets, and announces gaps with an *)
(* erasure (ERS) frame.                                                    *)
(*                                                                         *)
(* The network presents packets of one stream. Packet t is the t-th packet *)
(* of the sender, counted so that t % SEQ_MOD is its sequence number; a    *)
(* packet may be lost, repeated, or be late by up to Reorder packets. Copy *)
(* c of it is the datagram the caller received it in; a frame keeps a      *)
(* pointer to that.                                                        *)
(***************************************************************************)
EXTENDS Integers, FiniteSets, Sequences, Functions

CONSTANTS
  Capacity,  \* jb.capacity
  SEQ_MOD,   \* 65536, the range of a sequence number
  SEQ_HI,    \* 65000; the wrap window SEQ_MOD - SEQ_HI is 536
  LSEQ_MOD,  \* 2^64
  TS_MOD,    \* 2^32, the range of timestamps
  TS_STEP,   \* timestamp distance of consecutive packets
  TS_BASE,   \* timestamp of packet 0
  Copies,    \* the datagrams that may bring a packet
  Starts,    \* the packets a stream may have reached when the receiver joins
  MinT,      \* bound: the earliest packet the network may still deliver
  MaxT,      \* bound: the last packet of the stream
  Reorder,   \* bound: how far behind the newest packet one may arrive
  Jump,      \* bound: how many packets may be missing in front of a new one
  MaxNoise,  \* bound: datagrams that are late, duplicate or unusable
  FollowRewinds  \* bound: are calls made whose purge goes back across a wrap?

ASSUME SizesAssumption ==
  /\ Capacity \in Nat \ {0}
  /\ SEQ_MOD \in Nat \ {0} /\ SEQ_HI \in 0 .. SEQ_MOD - 1
  /\ LSEQ_MOD \in Nat \ {0} /\ LSEQ_MOD % SEQ_MOD = 0
  /\ TS_MOD \in Nat \ {0} /\ TS_STEP \in Nat /\ TS_BASE \in Nat
  /\ FollowRewinds \in BOOLEAN

ASSUME NetworkAssumption ==
  /\ Starts \subseteq Int /\ MinT \in Int /\ MaxT \in Int
  /\ Reorder \in Int /\ Jump \in Int /\ MaxNoise \in Nat

LRS_DEFAULT == LSEQ_MOD - 1
LMS_DEFAULT == LSEQ_MOD - 1
WRAP_LO == SEQ_MOD - SEQ_HI

VARIABLES
  last_lseq, last_ts,   \* of the last packet made ready
  last_max_lseq,        \* highest lseq seen
  lseq_mask,            \* what turns a sequence number into an lseq
  jb, size,             \* the buffered frames in list order, and jb.size
  ers, ready, drop,     \* result of the last call; drop as a set
  aborted,              \* a d_assert failed
  newest, noise         \* network: newest packet presented; noise so far

bufVars == <<last_lseq, last_ts, last_max_lseq, lseq_mask, jb, size>>
vars == <<bufVars, ers, ready, drop, aborted, newest, noise>>

U64(x) == x % LSEQ_MOD

Frame(t, c, lseq) ==
  [t |-> t, copy |-> c, lseq |-> lseq,
   ts |-> (TS_BASE + t * TS_STEP) % TS_MOD, jbcnt |-> 0]

Init ==
  /\ last_lseq = LRS_DEFAULT /\ last_ts = 0
  /\ last_max_lseq = LMS_DEFAULT /\ lseq_mask = 0
  /\ jb = << >> /\ size = 0
  /\ ers = << >> /\ ready = << >> /\ drop = {}
  /\ aborted = FALSE
  /\ newest \in Starts /\ noise = 0

-----------------------------------------------------------------------------
(* purge_stale_tail: a tail that kept an almost full buffer waiting for     *)
(* Capacity calls is dropped, and last_max_lseq falls back.                 *)

tail == jb[Len(jb)]

Crowded == jb # << >> /\ size >= Capacity - 1
Stale == Crowded /\ tail.jbcnt + 1 >= Capacity

jb1 == IF Stale THEN SubSeq(jb, 1, Len(jb) - 1)
       ELSE IF Crowded THEN [jb EXCEPT ![Len(jb)].jbcnt = @ + 1]
       ELSE jb
size1 == IF Stale THEN size - 1 ELSE size
\* Mutant: the purged frame is not handed back.
drop1Leaked == {}

drop1 == IF Stale THEN {tail} ELSE {}
\* Mutant: last_max_lseq is not taken back.
max1Kept == last_max_lseq

max1 == IF Stale /\ last_max_lseq = tail.lseq
        THEN IF Len(jb) > 1 THEN jb[Len(jb) - 1].lseq ELSE LMS_DEFAULT
        ELSE last_max_lseq

-----------------------------------------------------------------------------
(* Sequence number to logical sequence number. *)

warm_up == last_lseq = LRS_DEFAULT
lms_warm_up == max1 = LMS_DEFAULT

\* Mutant: packets from before the wrap are not recognised.
PreWrapMissed(seq) == FALSE

\* A packet from before the wrap received after it.
PreWrap(seq) == ~lms_warm_up /\ max1 % SEQ_MOD < WRAP_LO /\ seq > SEQ_HI

\* The first packet after a wrap.
Wraps(seq) ==
  /\ ~lms_warm_up /\ ~PreWrap(seq)
  /\ max1 > SEQ_HI /\ lseq_mask + seq < max1 - SEQ_HI

LSeq(seq) ==
  IF PreWrap(seq) THEN U64(lseq_mask + seq - SEQ_MOD)
  ELSE IF Wraps(seq) THEN U64(lseq_mask + seq + SEQ_MOD)
  ELSE lseq_mask + seq

NewMask(seq) == IF Wraps(seq) THEN U64(lseq_mask + SEQ_MOD) ELSE lseq_mask

-----------------------------------------------------------------------------
(* Handing frames over. *)

\* Mutant: the whole timestamp difference is announced as missing.
ErsBeforeUnscaled(f) ==
  IF U64(last_lseq + 1) = f.lseq THEN << >>
  ELSE <<[lseq_start |-> U64(last_lseq + 1), lseq_end |-> U64(f.lseq - 1),
          ts_diff |-> (f.ts - last_ts) % TS_MOD]>>

\* insert_ers_frame: the erasure that precedes frame f, if any.
ErsBefore(f) ==
  IF U64(last_lseq + 1) = f.lseq THEN << >>
  ELSE LET ts_diff == (f.ts - last_ts) % TS_MOD
           first == U64(last_lseq + 1)
           last == U64(f.lseq - 1)
           lseq_diff == U64(last - first + 1) % TS_MOD
       IN  <<[lseq_start |-> first, lseq_end |-> last,
              ts_diff |-> ((ts_diff * lseq_diff) % TS_MOD) \div (lseq_diff + 1)]>>

\* d_assert of save_last.
SaveLastOk(f) == warm_up \/ last_lseq < f.lseq

SaveLast(f) == last_lseq' = f.lseq /\ last_ts' = f.ts

Follows(f, g) == U64(f.lseq + 1) = g.lseq

\* Mutant: everything is released, across gaps.
RunEndAll(s) == Len(s)

\* The contiguous run at the head of s ends at RunEnd(s), the one at its tail
\* starts at RunStart(s).
RunEnd(s) ==
  CHOOSE n \in 1 .. Len(s) :
    /\ \A i \in 1 .. n - 1 : Follows(s[i], s[i + 1])
    /\ n = Len(s) \/ ~Follows(s[n], s[n + 1])

RunStart(s) ==
  CHOOSE m \in 1 .. Len(s) :
    /\ \A i \in m .. Len(s) - 1 : Follows(s[i], s[i + 1])
    /\ m = 1 \/ ~Follows(s[m - 1], s[m])

-----------------------------------------------------------------------------
(* rtpjbuf_udp_in, one action per way through it. Every one starts with     *)
(* purge_stale_tail.                                                        *)

Result(e, r, d) == ers' = e /\ ready' = r /\ drop' = d \cup drop1

\* d_asserts on entry to the sequence number logic.
EntryOk ==
  IF lms_warm_up THEN jb1 = << >>
  ELSE jb1 # << >> /\ ~warm_up => U64(jb1[1].lseq - 1) > last_lseq

Late(lseq) == ~lms_warm_up /\ ~warm_up /\ lseq <= last_lseq
Fresh(lseq) == ~Late(lseq) /\ (lms_warm_up \/ jb1 = << >>)
Duplicate(lseq) == \E i \in DOMAIN jb1 : jb1[i].lseq = lseq
Insertable(lseq) == ~Late(lseq) /\ ~Fresh(lseq) /\ ~Duplicate(lseq)

\* malloc failed, or rtp_packet_parse_raw rejected the datagram.
UdpInFailed ==
  /\ noise < MaxNoise /\ noise' = noise + 1
  /\ jb' = jb1 /\ size' = size1 /\ last_max_lseq' = max1
  /\ Result(<< >>, << >>, {})
  /\ UNCHANGED <<last_lseq, last_ts, lseq_mask, aborted, newest>>

\* At or before the last packet made ready, or already in the buffer.
UdpInDropped(t, c) ==
  LET seq == t % SEQ_MOD
      lseq == LSeq(seq)
  IN  /\ Late(lseq) \/ (~Fresh(lseq) /\ Duplicate(lseq))
      /\ noise < MaxNoise /\ noise' = noise + 1
      /\ jb' = jb1 /\ size' = size1 /\ last_max_lseq' = max1
      /\ lseq_mask' = NewMask(seq)
      /\ Result(<< >>, << >>, {Frame(t, c, lseq)})
      /\ UNCHANGED <<last_lseq, last_ts, aborted>>

\* Into an empty buffer: ready at once if it is the next one (or number 0 of a
\* stream that starts), else buffered.
FreshOk(lseq) == lms_warm_up \/ (size1 = 0 /\ max1 < lseq)

InOrder(lseq) ==
  \/ ~warm_up /\ last_lseq = U64(lseq - 1)
  \/ warm_up /\ lseq = 0

UdpInFresh(t, c) ==
  LET seq == t % SEQ_MOD
      lseq == LSeq(seq)
      f == Frame(t, c, lseq)
  IN  /\ Fresh(lseq)
      /\ last_max_lseq' = lseq
      /\ lseq_mask' = NewMask(seq)
      /\ \/ /\ InOrder(lseq)
            /\ SaveLast(f)
            /\ jb' = jb1 /\ size' = size1
            /\ Result(<< >>, <<f>>, {})
         \/ /\ ~InOrder(lseq)
            /\ jb' = <<f>> /\ size' = 1
            /\ Result(<< >>, << >>, {})
            /\ UNCHANGED <<last_lseq, last_ts>>
      /\ UNCHANGED <<aborted, noise>>

\* Into its place among the buffered frames; a full buffer, or one whose head
\* is the next packet, releases the run at its head.
Place(lseq) ==
  CHOOSE p \in 1 .. Len(jb1) + 1 :
    /\ \A i \in 1 .. p - 1 : jb1[i].lseq < lseq
    /\ p = Len(jb1) + 1 \/ jb1[p].lseq >= lseq

PlaceOk(lseq) == Place(lseq) = Len(jb1) + 1 => max1 < lseq

Inserted(t, c, lseq) ==
  LET p == Place(lseq)
  IN  [i \in 1 .. Len(jb1) + 1 |-> IF i < p THEN jb1[i]
                                  ELSE IF i = p THEN Frame(t, c, lseq) ELSE jb1[i - 1]]

\* Mutant: a head that is the next packet is not released.
ReleasesFull(s) == size1 + 1 = Capacity

\* Mutant: the buffer is released one packet too late.
ReleasesOverfull(s) ==
  size1 + 1 > Capacity \/ (~warm_up /\ s[1].lseq = U64(last_lseq + 1))

Releases(s) == size1 + 1 = Capacity \/ (~warm_up /\ s[1].lseq = U64(last_lseq + 1))

ReleaseOk(s) ==
  LET n == RunEnd(s)
  IN  /\ warm_up \/ last_lseq < s[1].lseq
      /\ SaveLastOk(s[n])
      /\ IF n = Len(s) THEN size1 + 1 - n = 0 ELSE size1 + 1 - n > 0

UdpInInserted(t, c) ==
  LET seq == t % SEQ_MOD
      lseq == LSeq(seq)
      s == Inserted(t, c, lseq)
      n == RunEnd(s)
  IN  /\ Insertable(lseq)
      /\ last_max_lseq' = IF Place(lseq) = Len(jb1) + 1 THEN lseq ELSE max1
      /\ lseq_mask' = NewMask(seq)
      /\ \/ /\ Releases(s)
            /\ jb' = SubSeq(s, n + 1, Len(s)) /\ size' = size1 + 1 - n
            /\ SaveLast(s[n])
            /\ Result(IF warm_up THEN << >> ELSE ErsBefore(s[1]),
                      SubSeq(s, 1, n), {})
         \/ /\ ~Releases(s)
            /\ jb' = s /\ size' = size1 + 1
            /\ Result(<< >>, << >>, {})
            /\ UNCHANGED <<last_lseq, last_ts>>
      /\ UNCHANGED <<aborted, noise>>

\* No d_assert of rtpjbuf_udp_in fails on packet t.
UdpInOk(t, c) ==
  LET lseq == LSeq(t % SEQ_MOD)
      s == Inserted(t, c, lseq)
  IN  /\ EntryOk
      /\ Fresh(lseq) =>
           FreshOk(lseq) /\ (InOrder(lseq) => SaveLastOk(Frame(t, c, lseq)))
      /\ Insertable(lseq) => PlaceOk(lseq) /\ (Releases(s) => ReleaseOk(s))

udp_in(t, c) ==
  /\ newest' = IF t > newest THEN t ELSE newest
  /\ IF UdpInOk(t, c)
     THEN UdpInDropped(t, c) \/ UdpInFresh(t, c) \/ UdpInInserted(t, c)
     ELSE aborted' = TRUE /\ UNCHANGED <<bufVars, ers, ready, drop, noise>>

-----------------------------------------------------------------------------
(* rtpjbuf_flush: the last contiguous run becomes ready, what is before it  *)
(* is dropped.                                                              *)

FlushOk ==
  /\ U64(jb[1].lseq - 1) > last_lseq \/ warm_up
  /\ SaveLastOk(tail)

flush ==
  LET m == RunStart(jb)
  IN  /\ IF jb = << >>
         THEN /\ ers' = << >> /\ ready' = << >> /\ drop' = {}
              /\ UNCHANGED <<bufVars, aborted>>
         ELSE IF FlushOk
         THEN /\ ers' = ErsBefore(jb[m])
              /\ ready' = SubSeq(jb, m, Len(jb)) /\ drop' = Range(SubSeq(jb, 1, m - 1))
              /\ SaveLast(tail)
              /\ jb' = << >> /\ size' = 0
              /\ UNCHANGED <<last_max_lseq, lseq_mask, aborted>>
         ELSE aborted' = TRUE /\ UNCHANGED <<bufVars, ers, ready, drop>>
      /\ UNCHANGED <<newest, noise>>

-----------------------------------------------------------------------------
Arrivals ==
  {t \in newest - Reorder .. newest + Jump : t >= MinT /\ t <= MaxT}

\* The next call purges, and takes last_max_lseq back to before a wrap that
\* lseq_mask has passed.
Rewinds == Stale /\ max1 < lseq_mask

Next ==
  /\ ~aborted
  /\ \/ /\ FollowRewinds \/ ~Rewinds
        /\ \/ \E t \in Arrivals, c \in Copies : udp_in(t, c)
           \/ UdpInFailed
     \/ flush

Spec == Init /\ [][Next]_vars
-----------------------------------------------------------------------------
Frames == [t : MinT .. MaxT, copy : Copies, lseq : 0 .. LSEQ_MOD - 1,
           ts : 0 .. TS_MOD - 1, jbcnt : 0 .. Capacity]

\* Types, and the buffer's size: jb.size counts the list, and between calls the
\* list is never full (a full one releases its head before udp_in returns).
TypeOK ==
  /\ {last_lseq, last_max_lseq, lseq_mask} \subseteq 0 .. LSEQ_MOD - 1
  /\ lseq_mask % SEQ_MOD = 0
  /\ last_ts \in 0 .. TS_MOD - 1
  /\ Range(jb) \cup Range(ready) \cup drop \subseteq Frames
  /\ size = Len(jb) /\ (size < Capacity \/ size = 1)
  /\ aborted \in BOOLEAN

\* None of the d_asserts of rtpjbuf.c (which are compiled into every build and
\* abort the process) fails, whatever is lost, repeated or re-ordered.
NoAbort == ~aborted

\* Sequence number unwrapping is right: every frame the buffer holds, hands over
\* or drops has the logical number of the packet the sender sent, across any
\* number of wraps of the 16-bit sequence number and for packets from before a
\* wrap that arrive after it (unless a purge goes back across one: Rewinds).
LseqFaithful ==
  \A f \in Range(jb) \cup Range(ready) \cup drop : f.lseq = f.t

\* The buffer holds each packet once, in order, all of them after the last one
\* made ready and with a gap in front: a packet that could be handed over is
\* never left waiting. last_max_lseq is not below any of them.
BufferOrdered ==
  /\ \A i, j \in 1 .. Len(jb) : i < j => jb[i].lseq < jb[j].lseq
  /\ jb # << >> => /\ tail.lseq <= last_max_lseq
                   /\ ~warm_up => jb[1].lseq > last_lseq + 1

StreamStep ==
  ready' # << >> /\ ~aborted' =>
    LET head == ready'[1].lseq
        last == ready'[Len(ready')].lseq
    IN  /\ \A i \in DOMAIN ready' : ready'[i].lseq = head + i - 1
        /\ last_lseq' = last
        /\ ers' # << >> => ers'[1].lseq_end = head - 1
        /\ ~warm_up => (IF ers' = << >> THEN head ELSE ers'[1].lseq_start) = last_lseq + 1
        /\ ~warm_up /\ ers' # << >> => last_lseq + 1 < head

\* What a call makes ready continues the stream exactly: it starts right after
\* the last packet made ready by an earlier call, an erasure frame covers the
\* missing packets and only them, and the packets follow without a gap.
StreamContinues == [][StreamStep]_vars

Tags(s) == {f.t : f \in Range(s)}

\* Packets are conserved: what was buffered plus the packet presented is, with
\* no loss and no copy, what is buffered afterwards plus what the call makes
\* ready plus what it drops.
Conserved(arrived) ==
  /\ Len(jb') + Len(ready') + Cardinality(drop') = Len(jb) + Cardinality(arrived)
  /\ Tags(jb') \cup Tags(ready') \cup {f.t : f \in drop'} = Tags(jb) \cup arrived

Conservation ==
  [][\/ aborted'
     \/ Conserved({}) /\ (UdpInFailed \/ flush)
     \/ \E t \in Arrivals, c \in Copies : Conserved({t}) /\ udp_in(t, c)]_vars

\* An erasure frame between two packets says how much media time is missing: one
\* timestamp step for each missing packet.
ErsSpansGap ==
  [][ers' # << >> /\ ~warm_up =>
       ers'[1].ts_diff
         = TS_STEP * (ers'[1].lseq_end - ers'[1].lseq_start + 1)]_vars

\* The same of every erasure frame, the one a flush before the first release
\* produces included (tests/test_jbuf.py checks ts_diff of every ERS frame).
EveryErsSpansGap ==
  [][ers' # << >> =>
       ers'[1].ts_diff
         = TS_STEP * (ers'[1].lseq_end - ers'[1].lseq_start + 1)]_vars
=============================================================================
