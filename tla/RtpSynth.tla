------------------------------ MODULE RtpSynth ------------------------------
(***************************************************************************)
(* src/rtpsynth.c, the synthesizer of RTP packets, and the Python object   *)
(* around it, python/RtpSynth_mod.c. Packets are datagrams of RtpParse.    *)
(*                                                                         *)
(* l.seq and l.ts are 64-bit counters that the header takes modulo its own *)
(* widths. Time is counted in ticks, TICKS_IN_SEC to the second (the code  *)
(* has nanoseconds); the product of elapsed time and srate has 64 bits.    *)
(***************************************************************************)
EXTENDS RtpParse

CONSTANTS
  SEQ_MOD,       \* 2^16
  TS_MOD,        \* 2^32
  U64_MOD,       \* 2^64
  TICKS_IN_SEC,  \* NSEC_IN_SEC
  Rates,         \* the srate a caller asks for
  Ptimes,        \* the ptime a caller asks for, in milliseconds
  Rand,          \* the ssrc, timestamp and sequence number that are drawn
  Plens,         \* the plen a caller asks for
  Ploads,        \* the payloads a caller passes; << >> for none
  Slack,         \* bytes a C caller's buffer has beyond what a packet needs
  MaxPkts, MaxNow, MaxCalls  \* bounds: packets, clock, other calls in a row

ASSUME SynthAssumption ==
  /\ {SEQ_MOD, TS_MOD, U64_MOD, TICKS_IN_SEC} \subseteq Nat \ {0}
  /\ Rates \subseteq Nat /\ Ptimes \subseteq Nat /\ Plens \subseteq Nat
  /\ Slack \subseteq Int
  /\ Rand \subseteq [ssrc : Nat, ts : Nat, seq : Nat]
  /\ MaxNow \in Nat

\* What a host converts for the wire it converts back.
ASSUME ByteOrderAssumption ==
  /\ \A x \in 0 .. SEQ_MOD - 1 : ntohs(htons(x)) = x
  /\ \A x \in 0 .. TS_MOD - 1 : ntohl(htonl(x)) = x

VARIABLES
  rs,     \* << >>, or the one struct rsynth_inst
  now,    \* CLOCK_MONOTONIC
  pkt,    \* << >>, or the packet generated last
  arg,    \* << >>, or the payload it was asked to carry and the instance then
  ret,    \* what the last call returned
  since   \* history: packets, and what was done since the last of them

synthVars == <<rs, now, pkt, arg, ret, since>>

Zeros(n) == [i \in 1 .. n |-> 0]

\* A packet was generated at some time, the n-th.
Sent(n, at) == [pkts |-> n, at |-> at, calls |-> 0, skips |-> 0, resyncs |-> 0, until |-> 0]

SynthInit ==
  /\ rs = << >> /\ pkt = << >> /\ arg = << >> /\ ret = "None"
  /\ now = 0 /\ since = Sent(0, 0)

\* Between two packets the caller may do other things, MaxCalls of them.
Called(n) == since.calls < MaxCalls /\ since' = [n EXCEPT !.calls = @ + 1]

-----------------------------------------------------------------------------
\* rsynth_ctor, by PyRtpSynth_init. The three numbers come from random() or
\* from the callable given to set_randfunc (one that fails is not modelled).
Construct(srate, ptime, rnd) ==
  /\ rs = << >>
  /\ rs' = <<[srate |-> srate, ts_inc |-> (80 * ptime) \div 10, mbt |-> 1,
              ssrc |-> rnd.ssrc, ts |-> rnd.ts - (rnd.ts % 2),
              seq |-> rnd.seq % SEQ_MOD, last_ts |-> now]>>
  /\ ret' = "ok"
  /\ UNCHANGED <<now, pkt, arg, since>>

\* What next_pkt_pa leaves after the header: zeroes, or the payload that lay at
\* the start of the buffer. Mutant: the buffer is cleared before the payload is
\* moved.
BodyCleared(buf, plen, filled) ==
  [i \in 1 .. plen |-> IF filled /\ i <= HDR THEN buf[i] ELSE 0]

Body(buf, plen, filled) == [i \in 1 .. plen |-> IF filled THEN buf[i] ELSE 0]

\* Mutant: the timestamp, like the ssrc, is left in the order of the host.
PacketHostOrder(plen, pt, body) ==
  LET s == rs[1]
  IN  [size |-> HDR + plen, version |-> 2, p |-> 0, x |-> 0, cc |-> 0,
       mbt |-> s.mbt, pt |-> pt % 128, seq |-> htons(s.seq % SEQ_MOD),
       ts |-> s.ts % TS_MOD, ssrc |-> s.ssrc, rest |-> body]

\* The header is a copy of the model that rsynth_ctor made, in which the ssrc is
\* the number drawn as it is; seq and ts are converted for every packet.
Packet(plen, pt, body) ==
  LET s == rs[1]
  IN  [size |-> HDR + plen, version |-> 2, p |-> 0, x |-> 0, cc |-> 0,
       mbt |-> s.mbt, pt |-> pt % 128, seq |-> htons(s.seq % SEQ_MOD),
       ts |-> htonl(s.ts % TS_MOD), ssrc |-> s.ssrc, rest |-> body]

\* Mutant: the state advances although the buffer turns out too small.
AdvancedEarly(fits) ==
  <<[rs[1] EXCEPT !.mbt = 0, !.seq = @ + 1, !.ts = @ + rs[1].ts_inc, !.last_ts = now]>>

Advanced(fits) ==
  IF fits
  THEN <<[rs[1] EXCEPT !.mbt = 0, !.seq = @ + 1, !.ts = @ + rs[1].ts_inc, !.last_ts = now]>>
  ELSE rs

\* rsynth_next_pkt_pa.
next_pkt_pa(plen, pt, buf, filled, pload) ==
  LET fits == HDR + plen <= Len(buf)
  IN  /\ rs' = Advanced(fits)
      /\ IF fits
         THEN /\ pkt' = <<Packet(plen, pt, Body(buf, plen, filled))>>
              /\ ret' = "ok" /\ arg' = <<[pload |-> pload, inst |-> rs[1]]>>
              /\ since.pkts < MaxPkts
              /\ since' = Sent(since.pkts + 1, now)
         ELSE ret' = "-1" /\ UNCHANGED <<pkt, arg>> /\ Called(since)
      /\ UNCHANGED now

\* A C caller: rsynth_next_pkt, which allocates what it needs, or
\* rsynth_next_pkt_pa with a buffer of another size.
NextPkt(plen, pt, slack) ==
  /\ rs # << >> /\ HDR + plen + slack >= 0
  /\ next_pkt_pa(plen, pt, Zeros(HDR + plen + slack), FALSE, << >>)

\* PyRtpSynth_next_pkt: a payload is copied to the start of a zeroed buffer that
\* is 32 bytes longer than plen, and what exceeds the packet is cut off.
PyNextPkt(plen, pt, pload) ==
  /\ rs # << >>
  /\ IF Len(pload) > plen + 32
     THEN /\ ret' = "ValueError" /\ Called(since)
          /\ UNCHANGED <<rs, now, pkt, arg>>
     ELSE next_pkt_pa(plen, pt, pload \o Zeros(plen + 32 - Len(pload)),
                      pload # << >>, pload)

\* rsynth_skip.
Skip(npkts) ==
  /\ rs # << >>
  /\ rs' = <<[rs[1] EXCEPT !.ts = @ + rs[1].ts_inc * npkts]>>
  /\ ret' = "None"
  /\ Called([since EXCEPT !.skips = @ + npkts])
  /\ UNCHANGED <<now, pkt, arg>>

\* rsynth_set_mbt: a field of one bit.
SetMbt(new_st) ==
  /\ rs # << >>
  /\ rs' = <<[rs[1] EXCEPT !.mbt = new_st % 2]>>
  /\ ret' = rs[1].mbt
  /\ Called(since)
  /\ UNCHANGED <<now, pkt, arg>>

\* The samples in a time, in 64-bit arithmetic.
Elapsed(ticks, srate) == ((ticks * srate) % U64_MOD) \div TICKS_IN_SEC

\* rsynth_resync. (What it copies to its argument the binding throws away.)
Resync ==
  /\ rs # << >>
  /\ rs' = <<[rs[1] EXCEPT !.ts = @ + Elapsed(now - rs[1].last_ts, rs[1].srate)]>>
  /\ ret' = "None"
  /\ Called([since EXCEPT !.resyncs = @ + 1, !.until = now])
  /\ UNCHANGED <<now, pkt, arg>>

\* rsynth_dtor, by PyRtpSynth_dealloc.
Destroy ==
  /\ rs # << >>
  /\ rs' = << >> /\ pkt' = << >> /\ arg' = << >> /\ ret' = "None"
  /\ now' = 0 /\ since' = Sent(0, 0)

Tick ==
  /\ rs # << >> /\ now < MaxNow
  /\ now' = now + 1
  /\ UNCHANGED <<rs, pkt, arg, ret, since>>

SynthNext ==
  \/ \E srate \in Rates, ptime \in Ptimes, rnd \in Rand : Construct(srate, ptime, rnd)
  \/ \E plen \in Plens, slack \in Slack : NextPkt(plen, RTP_PCMU, slack)
  \/ \E plen \in Plens, pload \in Ploads : PyNextPkt(plen, RTP_PCMU, pload)
  \/ \E npkts \in 1 .. 2 : Skip(npkts)
  \/ \E new_st \in 0 .. 2 : SetMbt(new_st)
  \/ Resync \/ Destroy \/ Tick

SynthSpec == SynthInit /\ [][SynthNext]_synthVars
-----------------------------------------------------------------------------
\* The samples in the time from the last packet to the last resync.
Silence == ((since.until - since.at) * rs[1].srate) \div TICKS_IN_SEC

\* The packet that next_pkt will return continues the stream, whatever calls
\* were made and failed since the last one: its sequence number is the next,
\* modulo 2^16, its timestamp is one ptime later and one for every packet
\* skipped, and, if the caller has resynchronised once, later by the samples that
\* fit between the last packet and that call.
Continues ==
  rs # << >> /\ pkt # << >> =>
    LET next == Packet(0, 0, << >>)
        later == rs[1].ts_inc * (1 + since.skips)
        last == pkt[1]
    IN  /\ HdrSeq(next) = (HdrSeq(last) + 1) % SEQ_MOD
        /\ since.resyncs = 0 => HdrTs(next) = (HdrTs(last) + later) % TS_MOD
        /\ since.resyncs = 1 => HdrTs(next) = (HdrTs(last) + later + Silence) % TS_MOD

\* No silence is so long that its nanoseconds times srate exceed 64 bits.
NoOverflow == \A srate \in Rates : MaxNow * srate < U64_MOD

-----------------------------------------------------------------------------
(* The inductive invariant behind Continues. *)

\* The 64-bit timestamp that the last packet was given.
LastTs ==
  rs[1].ts - rs[1].ts_inc * (1 + since.skips)
    - (IF since.resyncs = 0 THEN 0 ELSE Silence)

Instance == [srate : Rates, ts_inc : Nat, mbt : 0 .. 1, ssrc : Nat,
             ts : Nat, seq : Nat, last_ts : Nat]

History == [pkts : Nat, at : Nat, calls : Nat, skips : Nat, resyncs : Nat, until : Nat]

SynthTypes ==
  /\ now \in 0 .. MaxNow /\ since \in History
  /\ rs = << >> => pkt = << >>
  /\ rs # << >> => rs = <<rs[1]>> /\ rs[1] \in Instance

\* The numbers in the last packet are the counters of the synthesizer before the
\* calls made since, cut to the widths of the header; a resync measures from that
\* packet.
StreamInv ==
  /\ SynthTypes
  /\ pkt # << >> =>
       /\ rs[1].last_ts = since.at /\ since.at <= now
       /\ since.resyncs > 0 => since.at <= since.until
       /\ rs[1].seq > 0 /\ HdrSeq(pkt[1]) = (rs[1].seq - 1) % SEQ_MOD
       /\ since.resyncs <= 1 => LastTs \in Nat /\ HdrTs(pkt[1]) = LastTs % TS_MOD
=============================================================================
