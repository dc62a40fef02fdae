------------------------------ MODULE RtpParse ------------------------------
(***************************************************************************)
(* src/rtp.c: rtp_packet_parse_raw and the sample counts of the codecs it  *)
(* knows, as operators on datagrams.                                       *)
(*                                                                         *)
(* A datagram is a record of its size, the fields of the fixed header      *)
(* (struct rtp_hdr, of which a shorter datagram has nothing to read) and   *)
(* rest, the bytes after it. The wider fields, seq, ts and ssrc, are the   *)
(* words as this host reads them from the packet, so that their numbers    *)
(* are what the conversions of the system's library make of them.          *)
(***************************************************************************)
EXTENDS Integers, Sequences

CONSTANTS htons(_), htonl(_), ntohs(_), ntohl(_)  \* <arpa/inet.h>

HDR == 12   \* sizeof(struct rtp_hdr)
WORD == 4   \* sizeof a csrc, an extension word, struct rtp_hdr_ext

RTP_PCMU == 0
RTP_GSM == 3
RTP_G723 == 4
RTP_PCMA == 8
RTP_G722 == 9
RTP_G729 == 18

NSAMPLES_UNKNOWN == -1

-----------------------------------------------------------------------------
(* Samples of a payload. *)

\* Mutant: a silence descriptor taken for a speech frame.
g723_lenSpeech(byte) == CASE byte % 4 = 0 -> 24
                          [] byte % 4 = 1 -> 20
                          [] byte % 4 = 2 -> 24
                          [] OTHER -> NSAMPLES_UNKNOWN

g723_len(byte) == CASE byte % 4 = 0 -> 24
                    [] byte % 4 = 1 -> 20
                    [] byte % 4 = 2 -> 4
                    [] OTHER -> NSAMPLES_UNKNOWN

g723_samples(data) ==
  LET from[pos \in Nat] ==
        IF pos >= Len(data) THEN 0
        ELSE LET n == g723_len(data[pos + 1])
                 later == IF n = NSAMPLES_UNKNOWN THEN n ELSE from[pos + n]
             IN  IF later = NSAMPLES_UNKNOWN THEN later ELSE 240 + later
  IN  from[0]

rtp_calc_samples(pt, data) ==
  LET n == Len(data)
  IN  CASE pt \in {RTP_PCMU, RTP_PCMA, RTP_G722} -> n
        [] pt = RTP_G729 -> (n \div 10) * 80 + (IF n % 10 = 0 THEN 0 ELSE 80)
        [] pt = RTP_GSM -> 160 * (n \div 33)
        [] pt = RTP_G723 -> g723_samples(data)
        [] OTHER -> NSAMPLES_UNKNOWN

-----------------------------------------------------------------------------
(* The layout of a datagram. *)

\* buf[i]
Byte(d, i) == d.rest[i - HDR + 1]

\* RTP_HDR_LEN
HdrLen(d) == HDR + d.cc * WORD

ExtFits(d) == d.size >= HdrLen(d) + WORD

ExtLen(d) == WORD + WORD * (256 * Byte(d, HdrLen(d) + 2) + Byte(d, HdrLen(d) + 3))

\* Mutant: the extension's own header is not counted.
DataOffsetShort(d) == HdrLen(d) + (IF d.x = 0 THEN 0 ELSE ExtLen(d) - WORD)

DataOffset(d) == HdrLen(d) + (IF d.x = 0 THEN 0 ELSE ExtLen(d))

Padding(d) == IF d.p = 0 THEN 0 ELSE Byte(d, d.size - 1)

\* The result of rtp_packet_parse_raw: the tests, in the order of the code.
Verdict(d) ==
  IF d.size < HDR THEN "PTOOSHRT"
  ELSE IF d.version # 2 THEN "IHDRVER"
  ELSE IF d.x # 0 /\ ~ExtFits(d) THEN "PTOOSHRTXS"
  ELSE IF d.size < DataOffset(d) THEN "PTOOSHRTXH"
  ELSE IF d.p # 0 /\ DataOffset(d) = d.size THEN "PTOOSHRTPS"
  ELSE IF d.p # 0 /\ Padding(d) = 0 THEN "IPS"
  ELSE IF d.size < DataOffset(d) + Padding(d) THEN "PTOOSHRTP"
  ELSE "OK"

Payload(d) == SubSeq(d.rest, DataOffset(d) - HDR + 1, d.size - Padding(d) - HDR)

\* The numbers of the stream in a header.
HdrSeq(d) == ntohs(d.seq)
HdrTs(d) == ntohl(d.ts)
HdrSsrc(d) == ntohl(d.ssrc)

\* struct rtp_info of a datagram that was accepted.
Info(d) ==
  LET data == Payload(d)
  IN  [data_offset |-> DataOffset(d), data_size |-> Len(data),
       ts |-> HdrTs(d), seq |-> HdrSeq(d), ssrc |-> HdrSsrc(d),
       nsamples |-> IF data = << >> THEN NSAMPLES_UNKNOWN
                    ELSE rtp_calc_samples(d.pt, data),
       appendable |-> ~(d.pt = RTP_G729 /\ Len(data) % 10 # 0)]
=============================================================================
