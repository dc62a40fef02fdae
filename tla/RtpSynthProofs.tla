--------------------------- MODULE RtpSynthProofs ---------------------------
(***************************************************************************)
(* The stream of the synthesizer continues, for any widths of its counters *)
(* and any calls, as long as a resync stays within 64 bits.                *)
(***************************************************************************)
EXTENDS RtpSynth, TLAPS

\* A remainder is determined by the division it belongs to.
LEMMA ModUnique ==
  ASSUME NEW M \in Nat \ {0}, NEW p \in Nat, NEW u \in 0 .. M - 1
  PROVE  (M * p + u) % M = u
<1> DEFINE n == M * p + u
           d == n \div M
           r == n % M
<1>1. n \in Nat
  OBVIOUS
<1>2. d \in Nat /\ r \in 0 .. M - 1 /\ n = M * d + r
  BY <1>1
<1>3. CASE p > d
  <2>1. p - d >= 1 /\ M * (p - d) >= M
    BY <1>2, <1>3
  <2>2. M * (p - d) = r - u
    BY <1>2
  <2> QED
    BY <1>2, <2>1, <2>2
<1>4. CASE p < d
  <2>1. d - p >= 1 /\ M * (d - p) >= M
    BY <1>2, <1>4
  <2>2. M * (d - p) = u - r
    BY <1>2
  <2> QED
    BY <1>2, <2>1, <2>2
<1>5. CASE p = d
  BY <1>2, <1>5
<1> QED
  BY <1>2, <1>3, <1>4, <1>5

\* Taking the remainder first does not change the remainder of a sum: numbers in
\* headers can be continued without the counters they were cut from.
LEMMA ModAdd ==
  ASSUME NEW M \in Nat \ {0}, NEW a \in Nat, NEW k \in Nat
  PROVE  ((a % M) + k) % M = (a + k) % M
<1> DEFINE q == a \div M
           r == a % M
           t == (r + k) \div M
           u == (r + k) % M
<1>1. q \in Nat /\ r \in 0 .. M - 1 /\ a = M * q + r
  OBVIOUS
<1>2. t \in Nat /\ u \in 0 .. M - 1 /\ r + k = M * t + u
  BY <1>1
<1>3. a + k = M * (q + t) + u
  BY <1>1, <1>2
<1>4. (M * (q + t) + u) % M = u
  <2>1. q + t \in Nat
    BY <1>1, <1>2
  <2> HIDE DEF q, t, u
  <2> QED
    BY <2>1, <1>2, ModUnique
<1> QED
  BY <1>3, <1>4

\* Within 64 bits the time of a resync is converted exactly.
LEMMA ElapsedExact ==
  ASSUME NoOverflow, NEW ticks \in 0 .. MaxNow, NEW srate \in Rates
  PROVE  /\ Elapsed(ticks, srate) = (ticks * srate) \div TICKS_IN_SEC
         /\ Elapsed(ticks, srate) \in Nat
<1>1. srate \in Nat /\ MaxNow \in Nat /\ U64_MOD \in Nat \ {0} /\ TICKS_IN_SEC \in Nat \ {0}
  BY SynthAssumption
<1>2. MaxNow * srate < U64_MOD
  BY DEF NoOverflow
<1>3. ticks * srate \in Nat /\ ticks * srate <= MaxNow * srate
  BY <1>1
<1>4. (ticks * srate) % U64_MOD = ticks * srate
  <2> DEFINE x == ticks * srate
  <2>1. x \in 0 .. U64_MOD - 1
    BY <1>1, <1>2, <1>3
  <2> HIDE DEF x
  <2>2. (U64_MOD * 0 + x) % U64_MOD = x
    BY <1>1, <2>1, ModUnique
  <2> QED
    BY <1>1, <2>1, <2>2 DEF x
<1> DEFINE y == ticks * srate
<1>5. y \in Nat
  BY <1>3
<1> HIDE DEF y
<1>6. y \div TICKS_IN_SEC \in Nat
  BY <1>1, <1>5
<1> QED
  BY <1>4, <1>6 DEF Elapsed, y

\* In 64-bit arithmetic a conversion is never negative.
LEMMA ElapsedIsNat ==
  ASSUME NEW ticks \in Int, NEW srate \in Rates
  PROVE  Elapsed(ticks, srate) \in Nat
<1>1. srate \in Nat /\ U64_MOD \in Nat \ {0} /\ TICKS_IN_SEC \in Nat \ {0}
  BY SynthAssumption
<1> DEFINE y == ticks * srate
           z == y % U64_MOD
<1>2. y \in Int
  BY <1>1
<1> HIDE DEF y
<1>3. z \in Nat
  BY <1>1, <1>2
<1> HIDE DEF z
<1>4. z \div TICKS_IN_SEC \in Nat
  BY <1>1, <1>3
<1> QED
  BY <1>4 DEF Elapsed, y, z

\* The invariant holds before a synthesizer exists.
LEMMA StreamInvInit == SynthInit => StreamInv
  BY SynthAssumption DEF SynthInit, StreamInv, SynthTypes, Sent, History

\* A call that changes neither the instance nor the last packet, as one that fails.
LEMMA OtherCallKeeps ==
  ASSUME StreamInv, rs' = rs, pkt' = pkt, now' = now,
         since' = [since EXCEPT !.calls = @ + 1]
  PROVE  StreamInv'
<1>1. since \in History
  BY DEF StreamInv, SynthTypes
<1>2. /\ since' \in History
      /\ since'.at = since.at /\ since'.resyncs = since.resyncs
      /\ since'.skips = since.skips /\ since'.until = since.until
  BY <1>1 DEF History
<1>3. SynthTypes'
  BY <1>2 DEF StreamInv, SynthTypes
<1>4. LastTs' = LastTs
  BY <1>2 DEF LastTs, Silence
<1> QED
  BY <1>2, <1>3, <1>4 DEF StreamInv

\* What the parser reads in a packet are the counters, cut to the widths of the
\* header.
LEMMA PacketNumbers ==
  ASSUME rs[1] \in Instance, NEW plen, NEW pt, NEW body
  PROVE  /\ HdrSeq(Packet(plen, pt, body)) = rs[1].seq % SEQ_MOD
         /\ HdrTs(Packet(plen, pt, body)) = rs[1].ts % TS_MOD
<1>1. SEQ_MOD \in Nat \ {0} /\ TS_MOD \in Nat \ {0}
  BY SynthAssumption
<1>2. rs[1].seq \in Nat /\ rs[1].ts \in Nat
  BY DEF Instance
<1>3. rs[1].seq % SEQ_MOD \in 0 .. SEQ_MOD - 1 /\ rs[1].ts % TS_MOD \in 0 .. TS_MOD - 1
  BY ONLY <1>1, <1>2
<1>4. /\ ntohs(htons(rs[1].seq % SEQ_MOD)) = rs[1].seq % SEQ_MOD
      /\ ntohl(htonl(rs[1].ts % TS_MOD)) = rs[1].ts % TS_MOD
  BY <1>3, ByteOrderAssumption, Zenon
<1>5. /\ Packet(plen, pt, body).seq = htons(rs[1].seq % SEQ_MOD)
      /\ Packet(plen, pt, body).ts = htonl(rs[1].ts % TS_MOD)
  BY DEF Packet
<1> QED
  BY <1>4, <1>5, Zenon DEF HdrSeq, HdrTs

\* rsynth_next_pkt_pa: a packet takes the counters as they are and leaves them one
\* further; a buffer that is too small leaves everything as it was.
LEMMA NextPktPaKeeps ==
  ASSUME StreamInv, rs # << >>, NEW plen, NEW pt, NEW buf, NEW filled, NEW pload,
         next_pkt_pa(plen, pt, buf, filled, pload)
  PROVE  StreamInv'
<1>1. SEQ_MOD \in Nat \ {0} /\ TS_MOD \in Nat \ {0} /\ Rates \subseteq Nat /\ MaxNow \in Nat
  BY SynthAssumption
<1>2. PICK s : rs = <<s>> /\ s \in Instance
  BY DEF StreamInv, SynthTypes
<1>3. rs[1] = s
  BY <1>2
<1>4. now \in 0 .. MaxNow /\ since \in History
  BY DEF StreamInv, SynthTypes
<1>5. CASE HDR + plen <= Len(buf)
  <2> DEFINE n == [s EXCEPT !.mbt = 0, !.seq = @ + 1, !.ts = @ + s.ts_inc, !.last_ts = now]
  <2>1. /\ rs' = <<n>>
        /\ pkt' = <<Packet(plen, pt, Body(buf, plen, filled))>>
        /\ since' = Sent(since.pkts + 1, now) /\ now' = now
    BY <1>3, <1>5 DEF next_pkt_pa, Advanced
  <2>2. /\ n \in Instance
        /\ n.last_ts = now /\ n.seq = s.seq + 1 /\ n.ts = s.ts + s.ts_inc /\ n.ts_inc = s.ts_inc
        /\ s.seq \in Nat /\ s.ts \in Nat /\ s.ts_inc \in Nat
    <3>1. s.seq \in Nat /\ s.ts \in Nat /\ s.ts_inc \in Nat /\ now \in Nat
      BY <1>1, <1>2, <1>4 DEF Instance
    <3> DEFINE n1 == [s EXCEPT !.mbt = 0]
               n2 == [n1 EXCEPT !.seq = @ + 1]
               n3 == [n2 EXCEPT !.ts = @ + s.ts_inc]
    <3>2. n = [n3 EXCEPT !.last_ts = now]
      OBVIOUS
    <3>3. n1 \in Instance /\ n1.seq = s.seq /\ n1.ts = s.ts /\ n1.ts_inc = s.ts_inc
      BY <1>2 DEF Instance
    <3> HIDE DEF n, n1
    <3>4. n2 \in Instance /\ n2.seq = s.seq + 1 /\ n2.ts = s.ts /\ n2.ts_inc = s.ts_inc
      BY <3>1, <3>3 DEF Instance
    <3> HIDE DEF n2
    <3>5. n3 \in Instance /\ n3.seq = s.seq + 1 /\ n3.ts = s.ts + s.ts_inc /\ n3.ts_inc = s.ts_inc
      BY <3>1, <3>4 DEF Instance
    <3> HIDE DEF n3
    <3>6. /\ n \in Instance /\ n.last_ts = now
          /\ n.seq = n3.seq /\ n.ts = n3.ts /\ n.ts_inc = n3.ts_inc
      BY <3>1, <3>2, <3>5 DEF Instance
    <3> QED
      BY <3>1, <3>5, <3>6
  <2>3. /\ since' \in History
        /\ since'.at = now /\ since'.resyncs = 0 /\ since'.skips = 0
    BY <1>1, <1>4, <2>1 DEF Sent, History
  <2> HIDE DEF n
  <2>4. rs'[1] = n
    BY <2>1
  <2>5. SynthTypes'
    BY <1>4, <2>1, <2>2, <2>3, <2>4 DEF SynthTypes
  <2>6. HdrSeq(pkt'[1]) = s.seq % SEQ_MOD /\ HdrTs(pkt'[1]) = s.ts % TS_MOD
    BY <1>2, <1>3, <2>1, PacketNumbers DEF StreamInv, SynthTypes
  <2>7. LastTs' = s.ts
    BY <2>2, <2>3, <2>4 DEF LastTs
  <2> QED
    BY <1>1, <1>4, <2>1, <2>2, <2>3, <2>4, <2>5, <2>6, <2>7 DEF StreamInv
<1>6. CASE ~(HDR + plen <= Len(buf))
  BY <1>6, OtherCallKeeps DEF next_pkt_pa, Advanced, Called
<1> QED
  BY <1>5, <1>6

\* Silence is a number.
LEMMA SilenceIsInt ==
  ASSUME SynthTypes, rs # << >>
  PROVE  Silence \in Int
<1>1. rs[1].srate \in Nat /\ since.until \in Nat /\ since.at \in Nat /\ TICKS_IN_SEC \in Nat \ {0}
  BY SynthAssumption DEF SynthTypes, Instance, History
<1> DEFINE x == (since.until - since.at) * rs[1].srate
<1>2. x \in Int
  BY <1>1
<1> HIDE DEF x
<1>3. x \div TICKS_IN_SEC \in Int
  BY <1>1, <1>2
<1> QED
  BY <1>3 DEF Silence, x

\* After a resync it is a natural number.
LEMMA SilenceIsNat ==
  ASSUME SynthTypes, rs # << >>, since.at <= since.until
  PROVE  Silence \in Nat
<1>1. rs[1].srate \in Nat /\ since.until \in Nat /\ since.at \in Nat /\ TICKS_IN_SEC \in Nat \ {0}
  BY SynthAssumption DEF SynthTypes, Instance, History
<1> DEFINE d == since.until - since.at
           x == d * rs[1].srate
<1>2. d \in Nat
  BY <1>1
<1> HIDE DEF d
<1>3. x \in Nat
  BY <1>1, <1>2
<1> HIDE DEF x
<1>4. x \div TICKS_IN_SEC \in Nat
  BY <1>1, <1>3
<1> QED
  BY <1>4 DEF Silence, x, d

\* rsynth_skip: the timestamp moves by as many increments as packets are skipped.
LEMMA SkipKeeps ==
  ASSUME StreamInv, NEW npkts \in 1 .. 2, Skip(npkts)
  PROVE  StreamInv'
<1>1. Rates \subseteq Nat /\ MaxNow \in Nat
  BY SynthAssumption
<1>2. PICK s : rs = <<s>> /\ s \in Instance
  BY DEF StreamInv, SynthTypes, Skip
<1>3. rs[1] = s /\ since \in History
  BY <1>2 DEF StreamInv, SynthTypes
<1> DEFINE n == [s EXCEPT !.ts = @ + s.ts_inc * npkts]
<1> DEFINE h == [since EXCEPT !.skips = @ + npkts]
<1>4. rs' = <<n>> /\ pkt' = pkt /\ now' = now /\ since' = [h EXCEPT !.calls = @ + 1]
  BY <1>3 DEF Skip, Called
<1>5. /\ since' \in History /\ since.skips \in Nat
      /\ since'.at = since.at /\ since'.resyncs = since.resyncs
      /\ since'.skips = since.skips + npkts /\ since'.until = since.until
  <2>1. /\ h \in History /\ since.skips \in Nat
        /\ h.at = since.at /\ h.resyncs = since.resyncs
        /\ h.skips = since.skips + npkts /\ h.until = since.until
    BY <1>3 DEF History
  <2> HIDE DEF h
  <2> QED
    BY <1>4, <2>1 DEF History
<1>6. s.ts \in Nat /\ s.ts_inc \in Nat /\ s.ts_inc * npkts \in Nat
  BY <1>2 DEF Instance
<1>7. /\ n \in Instance /\ n.ts = s.ts + s.ts_inc * npkts
      /\ n.ts_inc = s.ts_inc /\ n.srate = s.srate /\ n.seq = s.seq /\ n.last_ts = s.last_ts
  BY <1>2, <1>6 DEF Instance
<1> HIDE DEF n
<1>8. rs'[1] = n
  BY <1>4
<1>9. SynthTypes'
  BY <1>2, <1>4, <1>5, <1>7, <1>8 DEF StreamInv, SynthTypes
<1>10. pkt # << >> /\ since.resyncs <= 1 => LastTs' = LastTs
  <2>1. s.ts_inc * (1 + since'.skips) = s.ts_inc * (1 + since.skips) + s.ts_inc * npkts
    BY <1>5, <1>6
  <2>2. Silence' = Silence
    BY <1>3, <1>5, <1>7, <1>8 DEF Silence
  <2> DEFINE a == s.ts_inc * (1 + since.skips)
             b == s.ts_inc * npkts
             c == IF since.resyncs = 0 THEN 0 ELSE Silence
  <2>3. /\ LastTs = s.ts - a - c
        /\ LastTs' = (s.ts + b) - (a + b) - c
    BY <1>3, <1>5, <1>7, <1>8, <2>1, <2>2 DEF LastTs
  <2>4. SUFFICES ASSUME pkt # << >>, since.resyncs <= 1
                 PROVE  LastTs' = LastTs
    OBVIOUS
  <2>5. a \in Int /\ b \in Int
    BY <1>5, <1>6
  <2>6. c \in Int
    BY SilenceIsInt, <1>2 DEF StreamInv
  <2> HIDE DEF a, b, c
  <2> QED
    BY <1>6, <2>3, <2>5, <2>6
<1> QED
  BY <1>3, <1>4, <1>5, <1>7, <1>8, <1>9, <1>10 DEF StreamInv

\* rsynth_resync: the first one since the last packet adds the samples of the
\* silence, exactly.
LEMMA ResyncKeeps ==
  ASSUME NoOverflow, StreamInv, Resync
  PROVE  StreamInv'
<1>1. Rates \subseteq Nat /\ MaxNow \in Nat
  BY SynthAssumption
<1>2. PICK s : rs = <<s>> /\ s \in Instance
  BY DEF StreamInv, SynthTypes, Resync
<1>3. rs[1] = s /\ since \in History /\ now \in 0 .. MaxNow
  BY <1>2 DEF StreamInv, SynthTypes
<1> DEFINE e == Elapsed(now - s.last_ts, s.srate)
           n == [s EXCEPT !.ts = @ + e]
           h1 == [since EXCEPT !.resyncs = @ + 1]
           h == [h1 EXCEPT !.until = now]
<1>4. rs' = <<n>> /\ pkt' = pkt /\ now' = now /\ since' = [h EXCEPT !.calls = @ + 1]
  BY <1>3 DEF Resync, Called
<1>5. /\ since' \in History /\ since.skips \in Nat /\ since.resyncs \in Nat
      /\ since'.at = since.at /\ since'.resyncs = since.resyncs + 1
      /\ since'.skips = since.skips /\ since'.until = now
  <2>1. /\ h1 \in History /\ since.skips \in Nat /\ since.resyncs \in Nat
        /\ h1.at = since.at /\ h1.resyncs = since.resyncs + 1 /\ h1.skips = since.skips
    BY <1>3 DEF History
  <2> HIDE DEF h1
  <2>2. /\ h \in History /\ h.until = now
        /\ h.at = h1.at /\ h.resyncs = h1.resyncs /\ h.skips = h1.skips
    BY <1>1, <1>3, <2>1 DEF History
  <2> HIDE DEF h
  <2> QED
    BY <1>4, <2>1, <2>2 DEF History
<1>6. s.ts \in Nat /\ s.ts_inc \in Nat /\ s.srate \in Rates /\ s.last_ts \in Nat /\ now \in Nat
  BY <1>1, <1>2, <1>3 DEF Instance
<1>7. e \in Nat
  BY <1>6, ElapsedIsNat
<1> HIDE DEF e
<1>8. /\ n \in Instance /\ n.ts = s.ts + e
      /\ n.ts_inc = s.ts_inc /\ n.srate = s.srate /\ n.seq = s.seq /\ n.last_ts = s.last_ts
  BY <1>2, <1>6, <1>7 DEF Instance
<1> HIDE DEF n, h
<1>9. rs'[1] = n
  BY <1>4
<1>10. SynthTypes'
  BY <1>2, <1>4, <1>5, <1>8, <1>9 DEF StreamInv, SynthTypes
<1>11. ASSUME pkt # << >>, since.resyncs = 0
       PROVE  LastTs' = LastTs
  <2>1. s.last_ts = since.at /\ since.at <= now
    BY <1>3, <1>11 DEF StreamInv
  <2>2. now - since.at \in 0 .. MaxNow
    BY <1>1, <1>3, <1>6, <2>1
  <2>3. e = ((now - since.at) * s.srate) \div TICKS_IN_SEC
    BY <1>6, <2>1, <2>2, ElapsedExact DEF e
  <2>4. Silence' = e
    BY <1>5, <1>8, <1>9, <2>3 DEF Silence
  <2> DEFINE a == s.ts_inc * (1 + since.skips)
  <2>5. LastTs = s.ts - a - 0
    BY <1>3, <1>11 DEF LastTs
  <2>6. LastTs' = (s.ts + e) - a - e
    BY <1>5, <1>8, <1>9, <1>11, <2>4 DEF LastTs
  <2>7. a \in Int
    BY <1>5, <1>6
  <2> HIDE DEF a
  <2> QED
    BY <1>6, <1>7, <2>5, <2>6, <2>7
<1> QED
  BY <1>3, <1>4, <1>5, <1>6, <1>8, <1>9, <1>10, <1>11 DEF StreamInv

\* rsynth_ctor: a new synthesizer has no packet to continue.
LEMMA ConstructKeeps ==
  ASSUME StreamInv, NEW srate \in Rates, NEW ptime \in Ptimes, NEW rnd \in Rand,
         Construct(srate, ptime, rnd)
  PROVE  StreamInv'
<1>1. /\ SEQ_MOD \in Nat \ {0} /\ ptime \in Nat /\ MaxNow \in Nat
      /\ rnd \in [ssrc : Nat, ts : Nat, seq : Nat]
  BY SynthAssumption
<1>2. rnd.ssrc \in Nat /\ rnd.ts \in Nat /\ rnd.seq \in Nat /\ now \in 0 .. MaxNow /\ pkt = << >>
  BY <1>1 DEF StreamInv, SynthTypes, Construct
<1>3. /\ (80 * ptime) \div 10 \in Nat /\ rnd.ts - (rnd.ts % 2) \in Nat
      /\ rnd.seq % SEQ_MOD \in Nat /\ now \in Nat
  BY <1>1, <1>2
<1> DEFINE n == [srate |-> srate, ts_inc |-> (80 * ptime) \div 10, mbt |-> 1,
                 ssrc |-> rnd.ssrc, ts |-> rnd.ts - (rnd.ts % 2),
                 seq |-> rnd.seq % SEQ_MOD, last_ts |-> now]
<1>4. n \in Instance
  BY <1>2, <1>3 DEF Instance
<1>5. rs' = <<n>> /\ pkt' = << >> /\ now' = now /\ since' = since
  BY <1>2 DEF Construct
<1> HIDE DEF n
<1>6. rs'[1] = n
  BY <1>5
<1> QED
  BY <1>4, <1>5, <1>6 DEF StreamInv, SynthTypes

\* rsynth_set_mbt touches no counter.
LEMMA SetMbtKeeps ==
  ASSUME StreamInv, NEW new_st \in 0 .. 2, SetMbt(new_st)
  PROVE  StreamInv'
<1>1. PICK s : rs = <<s>> /\ s \in Instance
  BY DEF StreamInv, SynthTypes, SetMbt
<1>2. rs[1] = s /\ since \in History
  BY <1>1 DEF StreamInv, SynthTypes
<1> DEFINE n == [s EXCEPT !.mbt = new_st % 2]
<1>3. rs' = <<n>> /\ pkt' = pkt /\ now' = now /\ since' = [since EXCEPT !.calls = @ + 1]
  BY <1>2 DEF SetMbt, Called
<1>4. new_st % 2 \in 0 .. 1
  OBVIOUS
<1>5. /\ n \in Instance /\ n.ts = s.ts
      /\ n.ts_inc = s.ts_inc /\ n.srate = s.srate /\ n.seq = s.seq /\ n.last_ts = s.last_ts
  BY <1>1, <1>4 DEF Instance
<1> HIDE DEF n
<1>6. /\ since' \in History
      /\ since'.at = since.at /\ since'.resyncs = since.resyncs
      /\ since'.skips = since.skips /\ since'.until = since.until
  BY <1>2, <1>3 DEF History
<1>7. rs'[1] = n
  BY <1>3
<1>8. SynthTypes'
  BY <1>1, <1>3, <1>5, <1>6, <1>7 DEF StreamInv, SynthTypes
<1>9. LastTs' = LastTs
  BY <1>2, <1>5, <1>6, <1>7 DEF LastTs, Silence
<1> QED
  BY <1>2, <1>3, <1>5, <1>6, <1>7, <1>8, <1>9 DEF StreamInv

\* The clock advances.
LEMMA TickKeeps ==
  ASSUME StreamInv, Tick
  PROVE  StreamInv'
<1>1. MaxNow \in Nat /\ now \in 0 .. MaxNow /\ since \in History
  BY SynthAssumption DEF StreamInv, SynthTypes
<1>2. SynthTypes'
  BY <1>1 DEF Tick, StreamInv, SynthTypes
<1>3. LastTs' = LastTs /\ since.at \in Nat
  BY <1>1 DEF Tick, LastTs, Silence, History
<1> QED
  BY <1>1, <1>2, <1>3 DEF Tick, StreamInv

\* Every call of the synthesizer, and the clock, keep the invariant.
LEMMA StreamInvStep ==
  ASSUME NoOverflow
  PROVE  StreamInv /\ [SynthNext]_synthVars => StreamInv'
<1> SUFFICES ASSUME StreamInv, [SynthNext]_synthVars
             PROVE  StreamInv'
  OBVIOUS
<1>1. ASSUME NEW srate \in Rates, NEW ptime \in Ptimes, NEW rnd \in Rand,
             Construct(srate, ptime, rnd)
      PROVE  StreamInv'
  BY <1>1, ConstructKeeps
<1>2. ASSUME NEW plen \in Plens, NEW slack \in Slack, NextPkt(plen, RTP_PCMU, slack)
      PROVE  StreamInv'
  BY <1>2, NextPktPaKeeps DEF NextPkt
<1>3. ASSUME NEW plen \in Plens, NEW pload \in Ploads, PyNextPkt(plen, RTP_PCMU, pload)
      PROVE  StreamInv'
  <2>1. CASE Len(pload) > plen + 32
    BY <1>3, <2>1, OtherCallKeeps DEF PyNextPkt, Called
  <2>2. CASE ~(Len(pload) > plen + 32)
    BY <1>3, <2>2, NextPktPaKeeps DEF PyNextPkt
  <2> QED
    BY <2>1, <2>2
<1>4. ASSUME NEW npkts \in 1 .. 2, Skip(npkts)
      PROVE  StreamInv'
  BY <1>4, SkipKeeps
<1>5. ASSUME NEW new_st \in 0 .. 2, SetMbt(new_st)
      PROVE  StreamInv'
  BY <1>5, SetMbtKeeps
<1>6. CASE Resync
  BY <1>6, ResyncKeeps
<1>7. CASE Destroy
  BY <1>7, SynthAssumption DEF Destroy, StreamInv, SynthTypes, Sent, History
<1>8. CASE Tick
  BY <1>8, TickKeeps
<1>9. CASE UNCHANGED synthVars
  <2>1. rs' = rs /\ pkt' = pkt /\ now' = now /\ since' = since
    BY <1>9 DEF synthVars
  <2> QED
    BY <2>1 DEF StreamInv, SynthTypes, LastTs, Silence
<1> QED
  BY <1>1, <1>2, <1>3, <1>4, <1>5, <1>6, <1>7, <1>8, <1>9 DEF SynthNext

\* What the next packet will carry follows from the counters alone.
LEMMA StreamInvContinues == StreamInv => Continues
<1> SUFFICES ASSUME StreamInv, rs # << >>, pkt # << >>
             PROVE  LET next == Packet(0, 0, << >>)
                        later == rs[1].ts_inc * (1 + since.skips)
                        last == pkt[1]
                    IN  /\ HdrSeq(next) = (HdrSeq(last) + 1) % SEQ_MOD
                        /\ since.resyncs = 0 => HdrTs(next) = (HdrTs(last) + later) % TS_MOD
                        /\ since.resyncs = 1 =>
                             HdrTs(next) = (HdrTs(last) + later + Silence) % TS_MOD
  BY DEF Continues
<1>1. SEQ_MOD \in Nat \ {0} /\ TS_MOD \in Nat \ {0}
  BY SynthAssumption
<1>2. rs[1] \in Instance /\ since \in History
  BY DEF StreamInv, SynthTypes
<1>3. /\ rs[1].seq \in Nat /\ rs[1].ts \in Nat /\ rs[1].ts_inc \in Nat
      /\ since.skips \in Nat /\ since.resyncs \in Nat
  BY <1>2 DEF Instance, History
<1> DEFINE later == rs[1].ts_inc * (1 + since.skips)
<1>4. later \in Nat
  BY <1>3
<1>5. /\ HdrSeq(Packet(0, 0, << >>)) = rs[1].seq % SEQ_MOD
      /\ HdrTs(Packet(0, 0, << >>)) = rs[1].ts % TS_MOD
  BY <1>2, PacketNumbers
<1>6. rs[1].seq % SEQ_MOD = (HdrSeq(pkt[1]) + 1) % SEQ_MOD
  <2> DEFINE a == rs[1].seq - 1
  <2>1. a \in Nat /\ rs[1].seq = a + 1 /\ HdrSeq(pkt[1]) = a % SEQ_MOD
    BY <1>3 DEF StreamInv
  <2> HIDE DEF a
  <2>2. ((a % SEQ_MOD) + 1) % SEQ_MOD = (a + 1) % SEQ_MOD
    BY ONLY <1>1, <2>1, ModAdd
  <2> QED
    BY <2>1, <2>2
<1>7. ASSUME since.resyncs = 0
      PROVE  rs[1].ts % TS_MOD = (HdrTs(pkt[1]) + later) % TS_MOD
  <2>1. LastTs \in Nat /\ HdrTs(pkt[1]) = LastTs % TS_MOD /\ LastTs = rs[1].ts - later - 0
    BY <1>3, <1>7 DEF StreamInv, LastTs
  <2> HIDE DEF later
  <2>2. rs[1].ts = LastTs + later
    BY <1>3, <1>4, <2>1
  <2>3. ((LastTs % TS_MOD) + later) % TS_MOD = (LastTs + later) % TS_MOD
    BY ONLY <1>1, <1>4, <2>1, ModAdd
  <2> QED
    BY <2>1, <2>2, <2>3
<1>8. ASSUME since.resyncs = 1
      PROVE  rs[1].ts % TS_MOD = (HdrTs(pkt[1]) + later + Silence) % TS_MOD
  <2>1. LastTs \in Nat /\ HdrTs(pkt[1]) = LastTs % TS_MOD /\ LastTs = rs[1].ts - later - Silence
    BY <1>3, <1>8 DEF StreamInv, LastTs
  <2>2. Silence \in Nat
    BY <1>8, SilenceIsNat DEF StreamInv
  <2> HIDE DEF later
  <2>3. rs[1].ts = LastTs + (later + Silence) /\ later + Silence \in Nat
    BY <1>3, <1>4, <2>1, <2>2
  <2>4. HdrTs(pkt[1]) \in Nat
    BY <1>1, <2>1
  <2>5. HdrTs(pkt[1]) + later + Silence = HdrTs(pkt[1]) + (later + Silence)
    BY <1>4, <2>2, <2>4
  <2>6. ((LastTs % TS_MOD) + (later + Silence)) % TS_MOD = (LastTs + (later + Silence)) % TS_MOD
    BY ONLY <1>1, <2>1, <2>3, ModAdd
  <2> QED
    BY <2>1, <2>3, <2>5, <2>6
<1> QED
  BY <1>5, <1>6, <1>7, <1>8

\* As long as no silence exceeds 64 bits, every packet next_pkt returns continues
\* the stream where the last one left it: for any widths of the header's fields,
\* any rates and buffers, and any number of the calls of SynthNext in between.
THEOREM SynthContinues ==
  ASSUME NoOverflow
  PROVE  SynthSpec => []Continues
<1>1. StreamInv /\ [SynthNext]_synthVars => StreamInv'
  BY StreamInvStep
<1> QED
  BY <1>1, StreamInvInit, StreamInvContinues, PTL DEF SynthSpec
=============================================================================
