----------------------------- MODULE BoundedFIFO -----------------------------
(***************************************************************************)
(* What a single-producer, multi-consumer queue of bounded capacity        *)
(* promises to its callers. The queue is the part of the log that was not  *)
(* taken yet; every operation takes effect atomically between its call and *)
(* its return.                                                             *)
(***************************************************************************)
EXTENDS Integers, Sequences

CONSTANTS Capacity, Consumers, Value, MaxPush, MaxMany

VARIABLES
  log,       \* every value accepted so far
  taken,     \* how many of them were handed out
  out,       \* the values handed out
  offering,  \* is the producer inside a push?
  offer,     \* the value it offers
  want,      \* how many values a consumer asks for at most
  cst        \* consumer: "idle", "busy", or "empty" (found the queue empty)

vars == <<log, taken, out, offering, offer, want, cst>>

Length == Len(log) - taken

Init ==
  /\ log = << >> /\ taken = 0 /\ out = << >>
  /\ offering = FALSE /\ offer \notin Value
  /\ want = [c \in Consumers |-> 0]
  /\ cst = [c \in Consumers |-> "idle"]

Offer(v) ==
  /\ ~offering /\ Len(log) < MaxPush
  /\ offering' = TRUE /\ offer' = v
  /\ UNCHANGED <<log, taken, out, want, cst>>

Accept ==
  /\ offering /\ Length < Capacity
  /\ log' = Append(log, offer)
  /\ offering' = FALSE
  /\ UNCHANGED <<taken, out, offer, want, cst>>

Refuse ==
  /\ offering /\ Length = Capacity
  /\ offering' = FALSE
  /\ UNCHANGED <<log, taken, out, offer, want, cst>>

Ask(c) ==
  /\ cst[c] = "idle"
  /\ \E n \in 0 .. MaxMany \cup {1} : want' = [want EXCEPT ![c] = n]
  /\ cst' = [cst EXCEPT ![c] = "busy"]
  /\ UNCHANGED <<log, taken, out, offering, offer>>

\* Fewer values than are there may be taken, but none only if none is asked for.
Take(c) ==
  /\ cst[c] = "busy"
  /\ \E k \in 0 .. want[c] :
       /\ k > 0 \/ want[c] = 0
       /\ k <= Length
       /\ taken' = taken + k
       /\ out' = out \o SubSeq(log, taken + 1, taken + k)
  /\ cst' = [cst EXCEPT ![c] = "idle"]
  /\ UNCHANGED <<log, offering, offer, want>>

FindEmpty(c) ==
  /\ cst[c] = "busy" /\ Length = 0
  /\ cst' = [cst EXCEPT ![c] = "empty"]
  /\ UNCHANGED <<log, taken, out, offering, offer, want>>

ReturnEmpty(c) ==
  /\ cst[c] = "empty"
  /\ cst' = [cst EXCEPT ![c] = "idle"]
  /\ UNCHANGED <<log, taken, out, offering, offer, want>>

Next ==
  \/ \E v \in Value : Offer(v)
  \/ Accept \/ Refuse
  \/ \E c \in Consumers : Ask(c) \/ Take(c) \/ FindEmpty(c) \/ ReturnEmpty(c)

Spec == Init /\ [][Next]_vars
=============================================================================
