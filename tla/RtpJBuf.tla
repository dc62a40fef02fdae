------------------------------- MODULE RtpJBuf -------------------------------
(***************************************************************************)
(* python/RtpJBuf_mod.c: the Python object RtpJBuf around the jitter       *)
(* buffer. The frames of the buffer point into the bytes objects that the  *)
(* caller passed to udp_in, so that the object keeps a reference to each   *)
(* of them (and to the opaque object that came with it) in a table of      *)
(* Capacity places, and finds it again by the address of the data.         *)
(*                                                                         *)
(* A copy of a packet is a bytes object and the opaque object passed along *)
(* with it; the caller may pass the same bytes object again. JitterBuffer  *)
(* provides udp_in and flush; what happens to their results is added here. *)
(***************************************************************************)
EXTENDS JitterBuffer, SequencesExt

CONSTANTS
  AllocFails  \* allocations that may fail, a subset of {"frame", "wrapper", "list"}

ASSUME BindingAssumption ==
  /\ \A c \in Copies : DOMAIN c = {"bytes", "opaque"}
  /\ AllocFails \subseteq {"frame", "wrapper", "list"}

VARIABLES
  refs,      \* the table: per place, << >> or the one datagram it refers to
  returned,  \* the data and opaque of the wrappers returned; << >> for None
  method,    \* the last method called
  result,    \* how it ended
  dropped    \* what it added to self->dropped

pyVars == <<refs, returned, method, result, dropped>>

Datagram(t, c) == [t |-> t, copy |-> c]

\* The address of the data of a frame, or of a datagram.
Ptr(f) == <<f.t, f.copy.bytes>>

\* Mutant: a place less than the buffer has.
EmptyShort == [i \in 1 .. Capacity - 1 |-> << >>]

\* PyRtpJBuf_init.
Empty == [i \in 1 .. Capacity |-> << >>]

PyInit ==
  /\ Init
  /\ refs = Empty /\ returned = << >> /\ dropped = 0
  /\ method = "init" /\ result = "ok"

-----------------------------------------------------------------------------
(* The table. input is the datagram of the call in progress, << >> in flush. *)

PlacesOf(r, f) == {i \in DOMAIN r : \E d \in ToSet(r[i]) : Ptr(d) = Ptr(f)}

\* fetch_cached_ref: what it finds, and the table without it.
Found(r, f) == IF PlacesOf(r, f) = {} THEN << >> ELSE r[Min(PlacesOf(r, f))]

Fetched(r, f) ==
  IF PlacesOf(r, f) = {} THEN r ELSE [r EXCEPT ![Min(PlacesOf(r, f))] = << >>]

FreePlaces(r) == {i \in DOMAIN r : r[i] = << >>}

\* store_data_ref.
Stored(r, d) == [r EXCEPT ![Min(FreePlaces(r))] = <<d>>]

IsInput(f, input) == \E d \in ToSet(input) : Ptr(d) = Ptr(f)

\* process_drop_list. Mutant: the input's own address is looked up as well.
ProcessDropAll(r, frames, input) ==
  FoldLeft(LAMBDA acc, f : Fetched(acc, f), r, frames)

ProcessDrop(r, frames, input) ==
  FoldLeft(LAMBDA acc, f : IF IsInput(f, input) THEN acc ELSE Fetched(acc, f),
           r, frames)

\* process_ready_list: the table and the list it returns. Mutant: a frame that
\* was buffered is returned with the input of this call.
ProcessReadyInput(r, frames, input) ==
  FoldLeft(LAMBDA acc, f :
             [refs |-> Fetched(acc.refs, f), out |-> Append(acc.out, input)],
           [refs |-> r, out |-> << >>], frames)

ProcessReady(r, frames, input) ==
  FoldLeft(LAMBDA acc, f :
             IF IsInput(f, input)
             THEN [acc EXCEPT !.out = Append(@, input)]
             ELSE [refs |-> Fetched(acc.refs, f),
                   out |-> Append(acc.out, Found(acc.refs, f))],
           [refs |-> r, out |-> << >>], frames)

-----------------------------------------------------------------------------
(* What a call of the jitter buffer left in ready, ers and drop is handed   *)
(* over. A wrapper that cannot be built, or appended, loses its frame and   *)
(* turns the rest of the ready list into drops; without a list the ready    *)
(* frames are forgotten, with their places.                                 *)

\* Where building the list may stop: at the erasure frame (0) or at a frame.
Failing == (IF ers' = << >> THEN {} ELSE {0}) \cup DOMAIN ready'

Deliver(r, input) ==
  LET done == ProcessReady(r, ready', input)
      drops == SetToSeq(drop')
  IN  \E fail \in {"none"} \cup (AllocFails \cap {"wrapper", "list"}) :
        /\ result' = IF fail = "none" THEN "ok" ELSE "nomem"
        /\ returned' = IF fail = "none" THEN done.out ELSE << >>
        /\ dropped' \in IF fail = "wrapper"
                        THEN {Len(drops) + Len(ready') - k : k \in Failing}
                        ELSE {Len(drops)}
        /\ refs' = ProcessDrop(IF fail = "list" THEN r ELSE done.refs, drops, input)

\* The call raised an exception: everything in lists is dropped.
Raise(how, lists, input) ==
  /\ result' = how /\ returned' = << >>
  /\ dropped' = Len(lists)
  /\ refs' = ProcessDrop(refs, lists, input)

\* A d_assert failed in the jitter buffer.
Died == UNCHANGED <<refs, returned, result, dropped>>

Retained(d) == ~\E f \in ToSet(ready') \cup drop' : Ptr(f) = Ptr(d)

\* PyRtpJBuf_udp_in. The datagram is stored if the buffer kept it, before the
\* places of the frames made ready or dropped are cleared.
PyUdpIn(t, c) ==
  LET d == Datagram(t, c)
  IN  /\ udp_in(t, c)
      /\ method' = "udp_in"
      /\ IF aborted' THEN Died
         ELSE IF ~Retained(d) THEN Deliver(refs, <<d>>)
         ELSE IF FreePlaces(refs) # {} THEN Deliver(Stored(refs, d), <<d>>)
         ELSE Raise("exhausted", ready' \o SetToSeq(drop'), <<d>>)

\* The datagrams on which rtpjbuf_udp_in fails: one it cannot use, or any if
\* there is no memory for the frame.
Unusable ==
  {<< >>} \cup
  {<<Datagram(t, c)>> : t \in Arrivals, c \in IF "frame" \in AllocFails THEN Copies ELSE {}}

PyUdpInFailed ==
  /\ UdpInFailed
  /\ method' = "udp_in"
  /\ \E input \in Unusable : Raise("error", SetToSeq(drop'), input)

\* PyRtpJBuf_flush.
PyFlush ==
  /\ flush
  /\ method' = "flush"
  /\ IF aborted' THEN Died ELSE Deliver(refs, << >>)

\* PyRtpJBuf_dealloc: the first flush empties the buffer, the next finds it
\* empty; the references still in the table are then dropped.
PyDealloc ==
  /\ flush
  /\ method' = "dealloc"
  /\ IF aborted' THEN Died
     ELSE /\ result' = "ok" /\ returned' = << >>
          /\ dropped' = Len(ready') + Cardinality(drop')
          /\ refs' = Empty

PyNext ==
  /\ ~aborted /\ method # "dealloc"
  /\ \/ /\ FollowRewinds \/ ~Rewinds
        /\ \/ \E t \in Arrivals, c \in Copies : PyUdpIn(t, c)
           \/ PyUdpInFailed
     \/ PyFlush
     \/ PyDealloc

PySpec == PyInit /\ [][PyNext]_<<vars, pyVars>>
-----------------------------------------------------------------------------
Referred == UNION {ToSet(refs[i]) : i \in DOMAIN refs}

\* Between calls the table refers to the datagrams of the buffered frames, to
\* each from one place, and to nothing else: no frame points into memory that
\* may have been freed, and no bytes object is kept for a frame that is gone.
RefsMatchBuffer ==
  /\ {Ptr(d) : d \in Referred} = {Ptr(f) : f \in ToSet(jb)}
  /\ Capacity - Cardinality(FreePlaces(refs)) = Len(jb)

\* Every RTP frame is returned with the bytes object its data is in and the
\* opaque object that came with it, whatever was stored, purged, dropped or
\* presented again in between.
OwnReference ==
  result = "ok" /\ method # "dealloc" =>
    returned = [i \in DOMAIN ready |-> <<Datagram(ready[i].t, ready[i].copy)>>]

\* udp_in never raises "RtpJBuf reference buffer exhausted": there is a place
\* for every frame the buffer may hold while the call is still to clear those of
\* the frames it releases.
NeverExhausted == result # "exhausted"

\* What the caller sees adds up: a datagram that was accepted is in the end
\* returned or counted in dropped, and until then it is buffered. (A wrapper that
\* could not be built takes its frame with it uncounted.)
Accounted ==
  [][~aborted' /\ result' \in {"ok", "error"} =>
       Len(returned') + dropped' + Len(jb') =
         Len(jb) + (IF method' = "udp_in" /\ result' = "ok" THEN 1 ELSE 0)]_<<vars, pyVars>>
=============================================================================
