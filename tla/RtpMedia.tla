------------------------------ MODULE RtpMedia ------------------------------
(***************************************************************************)
(* The path of media through the library, one caller at a time: packets of *)
(* the synthesizer (RtpSynth) or of another sender are parsed (RtpParse),  *)
(* samples are resampled and coded (RtpUtils). Coding, resampling and      *)
(* parsing keep no state, so that one call of each says everything; they   *)
(* are made before a synthesizer exists.                                   *)
(***************************************************************************)
EXTENDS RtpSynth, RtpUtils, SequencesExt

CONSTANTS
  Samples,    \* the samples given to linear2ulaw
  Pcm,        \* the sequences of samples given to resample_linear
  Factors,    \* ratios of a higher and a lower rate
  LowRate,    \* the lower rate
  Parts,      \* what other senders put a datagram together from
  MaxLost,    \* bound: bytes a datagram loses on the way
  NoCall

VARIABLE call  \* NoCall, or the one call of a function without state

vars == <<synthVars, call>>

-----------------------------------------------------------------------------
(* Other senders: a datagram is assembled from csrc words, an extension of   *)
(* some words, codec frames and padding, and may lose its end on the way.    *)

\* The frames a codec sends, by their samples and bytes.
CodecFrame(pt, kind) ==
  CASE pt = RTP_PCMU -> [n |-> 1, bytes |-> <<kind>>]
    [] pt = RTP_GSM -> [n |-> 160, bytes |-> [i \in 1 .. 33 |-> kind]]
    [] pt = RTP_G723 ->
         [n |-> 240, bytes |-> [i \in 1 .. <<24, 20, 4>>[kind + 1] |->
                                  IF i = 1 THEN kind ELSE 3]]
    [] pt = RTP_G729 ->
         [n |-> 80, bytes |-> [i \in 1 .. IF kind = 2 THEN 2 ELSE 10 |-> kind]]

\* G.729 may end with a silence descriptor, and has it nowhere else.
WellFormed(s) ==
  s.pt = RTP_G729 => \A i \in 1 .. Len(s.kinds) - 1 : s.kinds[i] # 2

FramesOf(s) == [i \in DOMAIN s.kinds |-> CodecFrame(s.pt, s.kinds[i])]

DataOf(s) == FoldLeft(LAMBDA acc, f : acc \o f.bytes, << >>, FramesOf(s))

Assembled(s) ==
  LET ext == IF s.ext = << >> THEN << >> ELSE <<9, 9, 0, s.ext[1]>> \o Zeros(WORD * s.ext[1])
      pad == IF s.pad = 0 THEN << >> ELSE Append(Zeros(s.pad - 1), s.pad)
      rest == Zeros(WORD * s.cc) \o ext \o DataOf(s) \o pad
  IN  [size |-> HDR + Len(rest), version |-> s.version, p |-> IF s.pad = 0 THEN 0 ELSE 1,
       x |-> IF s.ext = << >> THEN 0 ELSE 1, cc |-> s.cc, mbt |-> 0, pt |-> s.pt,
       seq |-> htons(1), ts |-> htonl(2), ssrc |-> htonl(3), rest |-> rest]

\* The first bytes of a datagram.
Cut(d, size) == [d EXCEPT !.size = size, !.rest = SubSeq(@, 1, size - HDR)]

Idle == rs = << >> /\ call = NoCall

ParseForeign(s, lost) ==
  /\ WellFormed(s)
  /\ LET d == Assembled(s)
     IN  /\ lost <= d.size
         /\ call' = [fn |-> "parse", sent |-> s, whole |-> d, dgram |-> Cut(d, d.size - lost)]
  /\ UNCHANGED synthVars

\* linear2ulaw and ulaw2linear, there and back.
CodeUlaw(x) ==
  /\ call' = [fn |-> "ulaw", x |-> x, ulaw |-> linear2ulaw(x)]
  /\ UNCHANGED synthVars

\* resample_linear, to a higher rate and back.
ResampleBoth(pcm, k) ==
  /\ call' = [fn |-> "resample", pcm |-> pcm, k |-> k,
              up |-> resample_linear(pcm, LowRate, k * LowRate)]
  /\ UNCHANGED synthVars

Init == SynthInit /\ call = NoCall

Next ==
  \/ call = NoCall /\ SynthNext /\ UNCHANGED call
  \/ Idle /\ \E s \in Parts, lost \in 0 .. MaxLost : ParseForeign(s, lost)
  \/ Idle /\ \E x \in Samples : CodeUlaw(x)
  \/ Idle /\ \E pcm \in Pcm, k \in Factors : ResampleBoth(pcm, k)

Spec == Init /\ [][Next]_vars
-----------------------------------------------------------------------------
\* The parser accepts every packet of the synthesizer and recovers from it the
\* payload the caller passed to next_pkt, cut off or filled up with zeroes to
\* plen bytes, and the sequence number and timestamp the synthesizer had reached,
\* whatever the byte order of the host and although both are about to wrap.
RoundTrip ==
  pkt # << >> =>
    LET d == pkt[1]
        n == d.size - HDR
        want == SubSeq(arg[1].pload \o Zeros(n), 1, n)
    IN  /\ Verdict(d) = "OK"
        /\ Payload(d) = want
        /\ Info(d).seq = arg[1].inst.seq % SEQ_MOD
        /\ Info(d).ts = arg[1].inst.ts % TS_MOD
        /\ n > 0 => Info(d).nsamples = n

\* The parser recovers the ssrc that was drawn for the stream. It does not on a
\* host whose byte order is not the network's: rsynth_ctor stores the number as it
\* is, rtp_packet_parse_raw converts it.
SsrcRecovered == pkt # << >> => Info(pkt[1]).ssrc = arg[1].inst.ssrc

\* rsynth_resync places the next packet by the clock and the last packet, so
\* that calling it twice is the same as calling it once.
ResyncIdempotent ==
  pkt # << >> /\ since.resyncs > 0 =>
    HdrTs(Packet(0, 0, << >>)) = (HdrTs(pkt[1]) + rs[1].ts_inc * (1 + since.skips)
      + ((since.until - since.at) * rs[1].srate) \div TICKS_IN_SEC) % TS_MOD

\* A packet of ptime milliseconds at srate advances the timestamp by the samples
\* it carries.
IncrementFitsRate ==
  rs # << >> => \E ptime \in Ptimes : 1000 * rs[1].ts_inc = ptime * rs[1].srate

\* A datagram that arrives whole is understood the way it was put together:
\* its numbers, where the payload starts, its bytes, the samples of its codec
\* frames, whether more may be appended. One that lost its end is rejected, or
\* taken for one with a shorter payload, which lies within the bytes that arrived.
ParsedAsAssembled ==
  call # NoCall /\ call.fn = "parse" =>
    LET d == call.dgram
        s == call.sent
    IN  IF s.version # 2 THEN Verdict(d) # "OK"
        ELSE IF d = call.whole
        THEN /\ Verdict(d) = "OK"
             /\ Info(d).seq = 1 /\ Info(d).ts = 2 /\ Info(d).ssrc = 3
             /\ Payload(d) = DataOf(s)
             /\ s.kinds # << >> =>
                  /\ Info(d).nsamples = FoldLeft(LAMBDA n, f : n + f.n, 0, FramesOf(s))
                  /\ Info(d).appendable = ~(s.pt = RTP_G729 /\ Last(s.kinds) = 2)
        ELSE Verdict(d) = "OK" =>
               /\ Info(d).data_offset = Info(call.whole).data_offset
               /\ Info(d).data_offset + Info(d).data_size + Padding(d) = d.size
               /\ d.p = 0 => IsPrefix(Payload(d), DataOf(s))

\* Coding a sample and decoding it keeps its sign and its value up to one part in
\* 32 of the biased magnitude; what was decoded is coded and decoded without
\* further loss.
UlawFaithful ==
  call # NoCall /\ call.fn = "ulaw" =>
    LET x == call.x
        y == ulaw2linear(call.ulaw)
    IN  /\ call.ulaw \in 0 .. 255
        /\ x * y >= 0
        /\ Abs(x) <= 32768 => 32 * Abs(x - y) <= Abs(x) + ULAW_BIAS
        /\ ulaw2linear(linear2ulaw(y)) = y

\* Resampling to a multiple of the rate and back returns the samples, and in
\* between no sample leaves the range of its two neighbours.
ResampleInverse ==
  call # NoCall /\ call.fn = "resample" =>
    LET in == call.pcm
        up == call.up
        Right(i) == IF i < Len(in) THEN in[i + 1] ELSE in[i]
    IN  /\ Len(up) = call.k * Len(in)
        /\ resample_linear(up, call.k * LowRate, LowRate) = in
        /\ \A i \in DOMAIN up :
             LET j == (i - 1) \div call.k + 1
             IN  \/ in[j] <= up[i] /\ up[i] <= Right(j)
                 \/ Right(j) <= up[i] /\ up[i] <= in[j]
=============================================================================
