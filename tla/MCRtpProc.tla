------------------------------ MODULE MCRtpProc ------------------------------
(* RtpProc for TLC: callbacks that ask for the past as well as the future. *)
EXTENDS RtpProc, TLC

MCPeriods == {-1, 1, 2}

Symmetry == Permutations(Threads) \cup Permutations(Channels)

=============================================================================
