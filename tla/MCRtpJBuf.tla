----------------------------- MODULE MCRtpJBuf -----------------------------
EXTENDS RtpJBuf

\* Two bytes objects for each packet, each with an opaque object of its own.
MCCopies == {[bytes |-> i, opaque |-> i] : i \in {1, 2}}

\* One bytes object, presented with either of two opaque objects.
MCSameBytes == {[bytes |-> 1, opaque |-> i] : i \in {1, 2}}
=============================================================================
