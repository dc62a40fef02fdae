----------------------------- MODULE MCRtpMedia -----------------------------
EXTENDS RtpMedia

\* A host of the other byte order than the network's, with bytes of 16 values.
Byte16 == 16
MCSwap2(x) == (x % Byte16) * Byte16 + x \div Byte16
MCSwap4(x) == MCSwap2(x % Byte16 ^ 2) * Byte16 ^ 2 + MCSwap2(x \div Byte16 ^ 2)

\* Both counters wrap within a few packets.
MCRand == {[ssrc |-> 7, ts |-> 65401, seq |-> 254]}

Counting(n) == [i \in 1 .. n |-> i]

\* Shorter and longer than the packet, beyond the header, and too long.
MCPloads == {<< >>, Counting(1), Counting(15), Counting(46)}

MCSlack == {-1, 0, 5}

MCSamples == -32768 .. 32767 \cup {-50000, 50000}

MCPcm == UNION {[1 .. n -> {-32768, -3, 0, 1, 32767}] : n \in 1 .. 4}

MCParts ==
  [version : {2}, cc : {0, 2}, ext : {<< >>, <<0>>, <<2>>}, pad : {0, 1, 3},
   pt : {RTP_PCMU, RTP_GSM, RTP_G723, RTP_G729},
   kinds : UNION {[1 .. n -> 0 .. 2] : n \in 0 .. 2}]
  \cup
  [version : 0 .. 3, cc : {1}, ext : {<< >>}, pad : {2}, pt : {RTP_PCMU}, kinds : {<<5>>}]
=============================================================================
