----------------------------- MODULE MCRtpServer -----------------------------
EXTENDS RtpServer, TLC

\* Threads and channels are interchangeable in every safety property.
Symmetry == Permutations(Threads) \cup Permutations(Channels)
=============================================================================
