---------------------------- MODULE RtpServerInv ----------------------------
(***************************************************************************)
(* The inductive invariant of RtpServer, the lemmas about its sequences    *)
(* and records, the steps that leave commands and references alone, and    *)
(* those of the threads before a command is queued.                        *)
(***************************************************************************)
EXTENDS RtpServer, TLAPS

-----------------------------------------------------------------------------
(* The inductive invariant. *)

Pcs == {"idle", "acquire", "enqueue", "wait", "release", "stop", "join"}
WorkerPcs == {"detach", "batch", "drop", "complete", "unref", "refresh", "sleep",
              "tick", "poll", "callback", "selfwait", "drain", "free", "exited",
              "selfjoin"}
Statuses == {"ok", "ENOMEM", "ENOENT"}

Calls ==
  [pc : Pcs, op : {"none", "create", "close", "set_target", "shutdown"},
   ch : Channels \cup {"none"}, status : Statuses \cup {"rejected"}]

Commands ==
  [type : {"create", "close", "set_target", "shutdown", "stop"},
   ch : Channels \cup {"none"}, waiter : BOOLEAN]

ChannelStates ==
  [life : {"none", "live", "freed"}, refs : Nat, held : BOOLEAN, closed : BOOLEAN,
   has_target : BOOLEAN, target : BOOLEAN, outq : Seq(Nat), accepted : Nat,
   inq : Nat, orphan : BOOLEAN]

Types ==
  /\ gil \in Threads \cup {Nobody} /\ cmd_lock \in {Worker, Nobody}
  /\ accepting \in BOOLEAN /\ busy \in BOOLEAN /\ dirty \in BOOLEAN
  /\ stop_seen \in BOOLEAN /\ server_ref \in BOOLEAN
  /\ waiter \in [done : BOOLEAN, status : Statuses]
  /\ queue \in Seq(Commands) /\ batch \in Seq(Commands)
  /\ channels \subseteq Channels /\ polled \subseteq Channels
  /\ todo \subseteq Channels /\ gone \subseteq Channels
  /\ wpc \in WorkerPcs /\ status \in Statuses
  /\ call \in [Threads -> Calls]
  /\ chan \in [Channels -> ChannelStates]
  /\ sent \in [Channels -> Seq(Nat)]

\* A thread in a method has an operation, and a channel if it needs one; it has
\* the GIL except while it waits or joins. Since the GIL is not given up before the
\* command is queued, only create_channel, which does not look first, is rejected.
CallInv ==
  \A t \in Threads :
    /\ call[t].op = "none" <=> call[t].pc \in {"idle", "stop", "join"}
    /\ call[t].op \in {"create", "close", "set_target"} => call[t].ch \in Channels
    /\ call[t].op \in {"none", "shutdown"} => call[t].ch = "none"
    /\ gil = t <=> call[t].pc \in {"acquire", "enqueue", "release", "stop"}
    /\ call[t].pc \in {"acquire", "enqueue"} /\ call[t].op # "create" => accepting
    /\ call[t].status = "rejected" =>
         call[t].pc = "release" /\ call[t].op = "create" /\ ~accepting

\* The thread has the server's waiter.
Waits(t) == call[t].pc \in {"enqueue", "wait", "release"}

BusyInv ==
  /\ \A t, u \in Threads : Waits(t) /\ Waits(u) => t = u
  /\ \A t \in Threads : Waits(t) => busy /\ wpc # "selfwait"
  /\ wpc = "selfwait" => busy
  /\ busy => wpc = "selfwait" \/ \E t \in Threads : Waits(t)

\* The commands that are not completed, in the order of their execution.
Line == (IF wpc = "unref" THEN Tail(batch) ELSE batch) \o queue

Referenced == ServerReferenced(Nobody, server_ref, chan)

\* Somebody waits for command m.
Awaited(m) ==
  \/ \E t \in Threads : call[t].pc = "wait" /\ call[t].op = m.type /\ call[t].ch = m.ch
  \/ wpc = "selfwait" /\ m.type = "set_target"

\* What the commands in line say about the state.
CommandInv(m) ==
  /\ m.type \in {"create", "set_target", "shutdown"} => m.waiter
  /\ m.type \in {"create", "close", "set_target"} => m.ch \in Channels
  /\ m.waiter => ~waiter.done /\ Awaited(m)
  /\ m.type \in {"shutdown", "stop"} => ~accepting
  /\ m.type = "stop" => ~m.waiter /\ ~Referenced
  /\ m.type = "close" /\ ~m.waiter =>
       /\ chan[m.ch].life # "none"
       /\ Live(m.ch) => chan[m.ch].closed /\ chan[m.ch].orphan

OneWaiter(s) == \A i, j \in DOMAIN s : s[i].waiter /\ s[j].waiter => i = j

LineInv ==
  /\ \A m \in Range(Line) : CommandInv(m)
  /\ OneWaiter(Line)
  /\ \A t \in Threads :
       /\ call[t].pc = "enqueue" => ~waiter.done
       /\ call[t].pc = "wait" =>
            waiter.done \/ Cmd(call[t].op, call[t].ch, TRUE) \in Range(Line)

\* Where the worker is and what it has in hand.
WorkInv ==
  /\ batch # << >> => wpc \in {"batch", "drop", "complete", "unref", "selfjoin"}
  /\ wpc \in {"drop", "complete", "unref"} => batch # << >>
  /\ wpc = "drop" => Head(batch).type \in {"shutdown", "stop"}
  /\ wpc = "complete" /\ status = "ENOMEM" =>
       Head(batch).type = "create" /\ Head(batch).ch \notin channels
  /\ wpc = "complete" /\ status = "ENOENT" => Head(batch).type = "set_target"
  /\ wpc \in {"unref", "selfjoin"} => status = "ENOMEM"
  /\ wpc = "unref" =>
       LET c == Head(batch).ch
       IN  /\ Head(batch).type = "create" /\ c \in Channels /\ c \notin channels
           /\ ~chan[c].held
           /\ \A t \in Threads :
                call[t].op = "create" /\ call[t].ch = c =>
                  \/ call[t].pc = "wait" /\ waiter.done
                  \/ call[t].pc = "release" /\ call[t].status # "rejected"

\* The server is gone once a thread or the worker is about to stop it.
StopInv ==
  /\ \A t \in Threads : call[t].pc \in {"stop", "join"} => ~Referenced
  /\ stop_seen => ~Referenced
  /\ wpc = "exited" => stop_seen
  /\ wpc = "selfjoin" => ~Referenced

\* A command of channel c to create it is not executed yet.
Creating(c) ==
  \E m \in Range(Line) :
    /\ m.type = "create" /\ m.ch = c
    /\ ~(wpc = "complete" /\ status = "ok" /\ m = Head(batch))

\* A channel under construction is nobody else's; one in use is held.
CallerInv(t) ==
  /\ call[t].op = "create" =>
       /\ Live(call[t].ch)
       /\ ~chan[call[t].ch].held /\ ~chan[call[t].ch].closed
       /\ call[t].pc \in {"acquire", "enqueue"} \/ call[t].status = "rejected"
            => call[t].ch \notin channels
  /\ call[t].op \in {"close", "set_target"} => chan[call[t].ch].held
  /\ call[t].op = "close" /\ call[t].pc \in {"acquire", "enqueue"} =>
       ~chan[call[t].ch].closed

MethodInv ==
  /\ \A t, u \in Threads :
       call[t].op = "create" /\ call[u].op = "create" /\ call[t].ch = call[u].ch => t = u
  /\ \A t \in Threads : CallerInv(t)
  /\ \A c \in Channels : Creating(c) => c \notin channels

\* References are counted exactly, but for the one that a close() in a callback
\* leaves behind.
RefInv ==
  \A c \in Channels :
    /\ Live(c) <=> chan[c].refs > 0
    /\ \/ chan[c].refs = Holders(c)
       \/ /\ chan[c].refs = Holders(c) + 1
          /\ Live(c) /\ chan[c].orphan /\ c \notin channels
    /\ chan[c].orphan => chan[c].closed

\* Who knows an open channel while commands are accepted.
OpenInv ==
  accepting =>
    \A c \in Channels :
      Live(c) /\ ~chan[c].closed =>
        c \in channels \/ Creator(c) \/ Closing(c)

\* The worker has done what command (type, c) asks for.
Done(type, c) ==
  /\ type = "create" => c \in channels
  /\ type = "close" => c \notin channels
  /\ type = "set_target" => chan[c].target
  /\ type = "shutdown" => channels = {} /\ polled = {}

\* A command that was executed has this status; a close() is never told otherwise.
Fulfils(type, s) == s = "ok" \/ (type = "close" /\ s # "rejected")

DoneInv ==
  /\ \A t \in Threads :
       /\ call[t].pc = "release" /\ Fulfils(call[t].op, call[t].status) =>
            Done(call[t].op, call[t].ch)
       /\ call[t].pc = "wait" /\ waiter.done /\ Fulfils(call[t].op, waiter.status) =>
            Done(call[t].op, call[t].ch)
  /\ wpc = "complete" /\ Fulfils(Head(batch).type, status) /\ Head(batch).waiter =>
       Done(Head(batch).type, Head(batch).ch)

\* What the worker is to visit is in its table; so is what is in the pollfd cache,
\* unless that is marked dirty.
PollInv ==
  /\ wpc \in {"poll", "callback", "selfwait", "drain", "free"} => todo \subseteq channels
  /\ wpc \notin {"poll", "callback", "selfwait", "drain", "free"} => todo = {}
  /\ ~dirty /\ wpc \notin {"drop", "selfjoin"} => polled \subseteq channels
  /\ wpc = "tick" => ~dirty
  /\ \A c \in gone : chan[c].closed
  /\ gone \cap channels = {}
  /\ ~dirty => gone \cap polled = {}

\* A ring that has packets belongs to a channel with a target; what was sent and
\* what is in the ring make up what was accepted.
PacketInv(c) ==
  /\ chan[c].has_target => chan[c].target
  /\ chan[c].outq # << >> => chan[c].target
  /\ chan[c].life = "none" => chan[c] = NoChannel /\ sent[c] = << >>
  /\ Live(c) => sent[c] \o chan[c].outq = [n \in 1 .. chan[c].accepted |-> n]
  /\ Len(chan[c].outq) <= QueueSize

SentInv == \A c \in Channels : PacketInv(c)

IInv ==
  /\ Types /\ CallInv /\ BusyInv /\ LineInv /\ WorkInv /\ StopInv
  /\ MethodInv /\ RefInv /\ OpenInv /\ DoneInv /\ PollInv /\ SentInv
-----------------------------------------------------------------------------
(* Sequences as sets of their elements. *)

\* Sequences with the same elements are equal.
LEMMA SameElements ==
  ASSUME NEW S, NEW s \in Seq(S), NEW t \in Seq(S), Len(s) = Len(t),
         \A i \in 1 .. Len(s) : s[i] = t[i]
  PROVE  s = t
  <1>1. s = [i \in 1 .. Len(s) |-> s[i]] /\ t = [i \in 1 .. Len(t) |-> t[i]]
    OBVIOUS
  <1> QED
    BY <1>1, Zenon

\* Appending a command adds it to those in line, at the end; the commands keep
\* to one waiter if it brings the first one.
LEMMA AppendFacts ==
  ASSUME NEW S, NEW s \in Seq(S), NEW m \in S
  PROVE  /\ Append(s, m) \in Seq(S)
         /\ Range(Append(s, m)) = Range(s) \cup {m}
         /\ OneWaiter(s) /\ (m.waiter => \A n \in Range(s) : ~n.waiter)
              => OneWaiter(Append(s, m))
  <1>1. /\ Append(s, m) \in Seq(S) /\ Len(s) \in Nat
        /\ DOMAIN Append(s, m) = 1 .. Len(s) + 1 /\ DOMAIN s = 1 .. Len(s)
        /\ \A i \in 1 .. Len(s) : Append(s, m)[i] = s[i]
        /\ Append(s, m)[Len(s) + 1] = m
    OBVIOUS
  <1>2. Range(Append(s, m)) = Range(s) \cup {m}
    BY <1>1 DEF Range
  <1>3. ASSUME OneWaiter(s), m.waiter => \A n \in Range(s) : ~n.waiter
        PROVE  OneWaiter(Append(s, m))
    <2> SUFFICES ASSUME NEW i \in 1 .. Len(s) + 1, NEW j \in 1 .. Len(s) + 1,
                        Append(s, m)[i].waiter, Append(s, m)[j].waiter, i # j
                 PROVE  FALSE
      BY <1>1, Zenon DEF OneWaiter
    <2>1. \A k \in 1 .. Len(s) : s[k] \in Range(s)
      BY <1>1, Zenon DEF Range
    <2> QED
      BY <1>1, <1>3, <2>1 DEF OneWaiter
  <1> QED
    BY <1>1, <1>2, <1>3, Zenon

\* Taking the first one away leaves it out; if it had a waiter, no other has.
LEMMA TailFacts ==
  ASSUME NEW S, NEW s \in Seq(S), s # << >>
  PROVE  /\ Head(s) \in S /\ Tail(s) \in Seq(S)
         /\ Range(s) = {Head(s)} \cup Range(Tail(s))
         /\ OneWaiter(s) =>
              OneWaiter(Tail(s)) /\ (Head(s).waiter => \A m \in Range(Tail(s)) : ~m.waiter)
  <1>1. /\ Head(s) \in S /\ Tail(s) \in Seq(S) /\ Len(s) \in Nat \ {0}
        /\ Head(s) = s[1] /\ DOMAIN s = 1 .. Len(s)
        /\ DOMAIN Tail(s) = 1 .. Len(s) - 1
        /\ \A i \in 1 .. Len(s) - 1 : Tail(s)[i] = s[i + 1]
    OBVIOUS
  <1>2. Range(s) = {Head(s)} \cup Range(Tail(s))
    <2>1. \A x : x \in Range(Tail(s)) <=> \E i \in 2 .. Len(s) : x = s[i]
      <3>1. \A i \in 1 .. Len(s) - 1 : i + 1 \in 2 .. Len(s)
        BY <1>1
      <3>2. \A i \in 2 .. Len(s) : i - 1 \in 1 .. Len(s) - 1 /\ Tail(s)[i - 1] = s[i]
        BY <1>1
      <3>3. \A x : x \in Range(Tail(s)) <=> \E i \in 1 .. Len(s) - 1 : x = Tail(s)[i]
        BY <1>1, Zenon DEF Range
      <3>4. ASSUME NEW x \in Range(Tail(s)) PROVE \E i \in 2 .. Len(s) : x = s[i]
        <4>1. PICK i \in 1 .. Len(s) - 1 : x = Tail(s)[i]
          BY <3>3, Zenon
        <4>2. x = s[i + 1] /\ i + 1 \in 2 .. Len(s)
          BY <1>1, <3>1, <4>1, Zenon
        <4> QED
          BY <4>2, Zenon
      <3>5. ASSUME NEW i \in 2 .. Len(s) PROVE s[i] \in Range(Tail(s))
        BY <3>2, <3>3, Zenon
      <3> QED
        BY <3>4, <3>5, Zenon
    <2>2. \A x : x \in Range(s) <=> \E i \in 1 .. Len(s) : x = s[i]
      BY <1>1, Zenon DEF Range
    <2>3. \A i : i \in 1 .. Len(s) <=> i = 1 \/ i \in 2 .. Len(s)
      BY <1>1
    <2> QED
      BY <1>1, <2>1, <2>2, <2>3, Zenon
  <1>3. ASSUME OneWaiter(s)
        PROVE  OneWaiter(Tail(s)) /\ (Head(s).waiter => \A m \in Range(Tail(s)) : ~m.waiter)
    <2>1. \A i \in DOMAIN Tail(s) :
             i \in Nat /\ i # 0 /\ i + 1 \in DOMAIN s /\ Tail(s)[i] = s[i + 1]
      BY <1>1
    <2>2. OneWaiter(Tail(s))
      BY <1>3, <2>1 DEF OneWaiter
    <2>3. 1 \in DOMAIN s
      BY <1>1
    <2> QED
      BY <1>1, <1>3, <2>1, <2>2, <2>3 DEF OneWaiter, Range
  <1> QED
    BY <1>1, <1>2, <1>3, Zenon

\* The same for two sequences one after the other.
LEMMA ConcatFacts ==
  ASSUME NEW S, NEW s \in Seq(S), NEW t \in Seq(S)
  PROVE  /\ s \o t \in Seq(S)
         /\ Range(s \o t) = Range(s) \cup Range(t)
         /\ \A m \in S : s \o Append(t, m) = Append(s \o t, m)
         /\ s # << >> => s \o t # << >> /\ Head(s \o t) = Head(s)
                         /\ Tail(s \o t) = Tail(s) \o t
  <1>1. /\ s \o t \in Seq(S) /\ Len(s) \in Nat /\ Len(t) \in Nat
        /\ DOMAIN s = 1 .. Len(s) /\ DOMAIN t = 1 .. Len(t)
        /\ Len(s \o t) = Len(s) + Len(t) /\ DOMAIN (s \o t) = 1 .. Len(s) + Len(t)
        /\ \A i \in 1 .. Len(s) + Len(t) :
             (s \o t)[i] = IF i <= Len(s) THEN s[i] ELSE t[i - Len(s)]
    OBVIOUS
  <1>2. Range(s \o t) = Range(s) \cup Range(t)
    <2>1. ASSUME NEW x \in Range(s \o t) PROVE x \in Range(s) \cup Range(t)
      <3>1. PICK i \in 1 .. Len(s) + Len(t) : x = (s \o t)[i]
        BY <1>1, Zenon DEF Range
      <3>2. i <= Len(s) => i \in 1 .. Len(s)
        BY <1>1
      <3>3. ~(i <= Len(s)) => i - Len(s) \in 1 .. Len(t)
        BY <1>1
      <3> QED
        BY <1>1, <3>1, <3>2, <3>3, Zenon DEF Range
    <2>2. ASSUME NEW x \in Range(s) PROVE x \in Range(s \o t)
      <3>1. PICK i \in 1 .. Len(s) : x = s[i]
        BY <1>1, Zenon DEF Range
      <3> QED
        BY <1>1, <3>1 DEF Range
    <2>3. ASSUME NEW x \in Range(t) PROVE x \in Range(s \o t)
      <3>1. PICK i \in 1 .. Len(t) : x = t[i]
        BY <1>1, Zenon DEF Range
      <3>2. /\ i + Len(s) \in 1 .. Len(s) + Len(t) /\ ~(i + Len(s) <= Len(s))
            /\ (i + Len(s)) - Len(s) = i
        BY <1>1
      <3>3. x = (s \o t)[i + Len(s)]
        BY <1>1, <3>1, <3>2, Zenon
      <3> QED
        BY <1>1, <3>2, <3>3, Zenon DEF Range
    <2> QED
      BY <2>1, <2>2, <2>3, Zenon
  <1>3. ASSUME NEW m \in S PROVE s \o Append(t, m) = Append(s \o t, m)
    OBVIOUS
  <1>4. ASSUME s # << >>
        PROVE  s \o t # << >> /\ Head(s \o t) = Head(s) /\ Tail(s \o t) = Tail(s) \o t
    <2>1. Len(s) # 0 /\ Tail(s) \in Seq(S) /\ Len(Tail(s)) = Len(s) - 1 /\ Head(s) = s[1]
          /\ \A i \in 1 .. Len(s) - 1 : Tail(s)[i] = s[i + 1]
      BY <1>4
    <2>2. s \o t # << >> /\ Head(s \o t) = Head(s)
      BY <1>1, <2>1
    <2>3. Tail(s \o t) = Tail(s) \o t
      <3>1. /\ Tail(s \o t) \in Seq(S) /\ Tail(s) \o t \in Seq(S)
            /\ Len(Tail(s \o t)) = Len(s) + Len(t) - 1
            /\ Len(Tail(s) \o t) = Len(s) + Len(t) - 1
        BY <1>1, <2>1, <2>2
      <3>2. \A i \in 1 .. Len(s) + Len(t) - 1 : Tail(s \o t)[i] = (s \o t)[i + 1]
        BY <1>1, <2>2
      <3>3. \A i \in 1 .. Len(s) + Len(t) - 1 :
              (Tail(s) \o t)[i] =
                IF i <= Len(s) - 1 THEN Tail(s)[i] ELSE t[i - (Len(s) - 1)]
        BY <1>1, <2>1
      <3>4. \A i \in 1 .. Len(s) + Len(t) - 1 : (Tail(s) \o t)[i] = (s \o t)[i + 1]
        BY <1>1, <2>1, <3>3
      <3> QED
        BY <3>1, <3>2, <3>4, SameElements, Zenon
    <2> QED
      BY <2>2, <2>3, Zenon
  <1> QED
    BY <1>1, <1>2, <1>3, <1>4, Zenon

-----------------------------------------------------------------------------
(* Records of channels. *)

\* The assignments to single fields.
LEMMA FieldFacts ==
  ASSUME NEW r \in ChannelStates
  PROVE  /\ \A b \in BOOLEAN :
              /\ [r EXCEPT !.held = b] \in ChannelStates
              /\ [r EXCEPT !.closed = b] \in ChannelStates
              /\ [r EXCEPT !.orphan = b] \in ChannelStates
              /\ [r EXCEPT !.has_target = b] \in ChannelStates
              /\ [r EXCEPT !.target = b] \in ChannelStates
         /\ \A n \in Nat :
              /\ [r EXCEPT !.refs = n] \in ChannelStates
              /\ [r EXCEPT !.accepted = n] \in ChannelStates
              /\ [r EXCEPT !.inq = n] \in ChannelStates
         /\ \A q \in Seq(Nat) : [r EXCEPT !.outq = q] \in ChannelStates
  BY ZenonT(60) DEF ChannelStates

\* Py_DECREF: a reference less, or a channel that is freed.
LEMMA UnrefFacts ==
  ASSUME NEW r \in ChannelStates
  PROVE  /\ Unref(r) \in ChannelStates
         /\ Unref(r).held = r.held
         /\ Unref(r).has_target = r.has_target /\ Unref(r).target = r.target
         /\ Unref(r).accepted = r.accepted
         /\ r.refs > 1 =>
              /\ Unref(r).refs = r.refs - 1 /\ Unref(r).life = r.life
              /\ Unref(r).closed = r.closed /\ Unref(r).orphan = r.orphan
              /\ Unref(r).outq = r.outq
         /\ ~(r.refs > 1) =>
              /\ Unref(r).refs = 0 /\ Unref(r).life = "freed"
              /\ Unref(r).closed = TRUE /\ Unref(r).orphan = FALSE
              /\ Unref(r).outq = << >>
  <1>1. CASE r.refs > 1
    <2>1. r.refs - 1 \in Nat /\ Unref(r) = [r EXCEPT !.refs = r.refs - 1]
      BY <1>1 DEF Unref, ChannelStates
    <2>2. Unref(r) \in ChannelStates
      BY <2>1, Zenon DEF ChannelStates
    <2> QED
      BY <1>1, <2>1, <2>2, Zenon DEF ChannelStates
  <1>2. CASE ~(r.refs > 1)
    <2> DEFINE n1 == [r EXCEPT !.refs = 0]
               n2 == [n1 EXCEPT !.life = "freed"]
               n3 == [n2 EXCEPT !.closed = TRUE]
               n4 == [n3 EXCEPT !.outq = << >>]
               n5 == [n4 EXCEPT !.inq = 0]
               n6 == [n5 EXCEPT !.orphan = FALSE]
    <2>1. Unref(r) = n6
      BY <1>2, Zenon DEF Unref, ChannelStates
    <2>2. n6.refs = 0 /\ n6.life = "freed" /\ n6.closed = TRUE /\ n6.orphan = FALSE
          /\ n6.outq = << >> /\ n6.held = r.held /\ n6.has_target = r.has_target
          /\ n6.target = r.target /\ n6.accepted = r.accepted
      BY Zenon DEF ChannelStates
    <2>3. n1 \in ChannelStates
      BY Zenon DEF ChannelStates
    <2> HIDE DEF n1
    <2>4. n2 \in ChannelStates
      BY <2>3, Zenon DEF ChannelStates
    <2> HIDE DEF n2
    <2>5. n3 \in ChannelStates
      BY <2>4, Zenon DEF ChannelStates
    <2> HIDE DEF n3
    <2>9. << >> \in Seq(Nat)
      OBVIOUS
    <2>6. n4 \in ChannelStates
      BY <2>5, <2>9, FieldFacts, Zenon
    <2> HIDE DEF n4
    <2>7. n5 \in ChannelStates
      BY <2>6, Zenon DEF ChannelStates
    <2> HIDE DEF n5
    <2>8. n6 \in ChannelStates
      BY <2>7, Zenon DEF ChannelStates
    <2> QED
      BY <1>2, <2>1, <2>2, <2>8, Zenon
  <1> QED
    BY <1>1, <1>2, Zenon

\* One of several references is dropped, or the last one.
LEMMA UnrefLive ==
  ASSUME NEW r \in ChannelStates, r.refs > 0, r.life = "live"
  PROVE  /\ Unref(r) \in ChannelStates /\ Unref(r).refs = r.refs - 1
         /\ Unref(r).held = r.held /\ Unref(r).accepted = r.accepted
         /\ Unref(r).has_target = r.has_target /\ Unref(r).target = r.target
         /\ r.closed => Unref(r).closed
         /\ \/ /\ r.refs > 1 /\ Unref(r).refs > 0 /\ Unref(r).life = "live"
               /\ Unref(r).outq = r.outq
               /\ Unref(r).closed = r.closed /\ Unref(r).orphan = r.orphan
            \/ /\ r.refs = 1 /\ Unref(r).refs = 0 /\ Unref(r).life = "freed"
               /\ Unref(r).outq = << >>
               /\ Unref(r).closed = TRUE /\ Unref(r).orphan = FALSE
  <1> DEFINE q == Unref(r)
  <1>1. r.refs \in Nat /\ (r.refs = 1 \/ r.refs > 1)
    BY DEF ChannelStates
  <1>2. /\ q \in ChannelStates /\ q.held = r.held /\ q.accepted = r.accepted
        /\ q.has_target = r.has_target /\ q.target = r.target
    BY UnrefFacts, Zenon
  <1>3. ASSUME r.refs > 1
        PROVE  /\ q.refs = r.refs - 1 /\ q.life = r.life /\ q.closed = r.closed
               /\ q.orphan = r.orphan /\ q.outq = r.outq
    BY <1>3, UnrefFacts, Zenon
  <1>4. ASSUME r.refs = 1
        PROVE  /\ q.refs = 0 /\ q.life = "freed" /\ q.closed = TRUE
               /\ q.orphan = FALSE /\ q.outq = << >>
    <2>1. ~(r.refs > 1)
      BY <1>4
    <2> QED
      BY <2>1, UnrefFacts, Zenon
  <1> HIDE DEF q
  <1>5. CASE r.refs > 1
    <2>1. r.refs - 1 > 0
      BY <1>1, <1>5
    <2>2. r.closed => q.closed
      BY <1>3, <1>5, Zenon
    <2> QED
      BY <1>2, <1>3, <1>5, <2>1, <2>2, Zenon DEF q
  <1>6. CASE r.refs = 1
    <2>1. r.refs - 1 = 0
      BY <1>6
    <2> QED
      BY <1>2, <1>4, <1>6, <2>1, Zenon DEF q
  <1> QED
    BY <1>1, <1>5, <1>6, Zenon

\* A channel that create_channel has just made.
NewChannel == [NoChannel EXCEPT !.life = "live", !.refs = 2]

\* Such a channel is one of the states a channel can be in, with two references.
LEMMA NewChannelFacts ==
  /\ NoChannel \in ChannelStates /\ NewChannel \in ChannelStates
  /\ NewChannel.life = "live" /\ NewChannel.refs = 2
  /\ NewChannel.held = FALSE /\ NewChannel.closed = FALSE
  /\ NewChannel.has_target = FALSE /\ NewChannel.target = FALSE
  /\ NewChannel.outq = << >> /\ NewChannel.accepted = 0
  /\ NewChannel.orphan = FALSE
  <1>1. NoChannel \in ChannelStates
    BY DEF NoChannel, ChannelStates
  <1>2. NewChannel = [[NoChannel EXCEPT !.life = "live"] EXCEPT !.refs = 2]
    BY Zenon DEF NewChannel, NoChannel
  <1>3. [NoChannel EXCEPT !.life = "live"] \in ChannelStates
    BY <1>1, Zenon DEF ChannelStates
  <1>4. NewChannel \in ChannelStates
    BY <1>2, <1>3, FieldFacts, Zenon
  <1> QED
    BY <1>1, <1>4, Zenon DEF NewChannel, NoChannel

-----------------------------------------------------------------------------
(* The commands in line. *)

\* The line holds what is pending; the worker executes its head.
LEMMA LineFacts ==
  ASSUME Types, WorkInv
  PROVE  /\ Line \in Seq(Commands)
         /\ Pending = Range(Line) \cup (IF wpc = "unref" THEN {Head(batch)} ELSE {})
         /\ batch # << >> /\ wpc # "unref" =>
              /\ Line # << >> /\ Head(Line) = Head(batch) /\ Head(batch) \in Range(Line)
              /\ Tail(Line) = Tail(batch) \o queue
  <1>1. CASE wpc = "unref"
    <2>1. batch # << >> /\ batch \in Seq(Commands) /\ queue \in Seq(Commands)
      BY <1>1, Zenon DEF WorkInv, Types
    <2>2. Tail(batch) \in Seq(Commands) /\ Range(batch) = {Head(batch)} \cup Range(Tail(batch))
      BY <2>1, TailFacts, Zenon
    <2>3. Line = Tail(batch) \o queue
      BY <1>1, Zenon DEF Line
    <2>4. Line \in Seq(Commands) /\ Range(Line) = Range(Tail(batch)) \cup Range(queue)
      <3>1. \A s \in Seq(Commands) : /\ s \o queue \in Seq(Commands)
                                     /\ Range(s \o queue) = Range(s) \cup Range(queue)
        BY <2>1, ConcatFacts
      <3> QED
        BY <2>2, <2>3, <3>1, Zenon
    <2>5. Pending = Range(Line) \cup {Head(batch)}
      BY <2>2, <2>4, Zenon DEF Pending
    <2> QED
      BY <1>1, <2>4, <2>5, Zenon
  <1>2. CASE wpc # "unref"
    <2>1. Line = batch \o queue /\ batch \in Seq(Commands) /\ queue \in Seq(Commands)
      BY <1>2, Zenon DEF Line, Types
    <2>2. Line \in Seq(Commands) /\ Range(Line) = Range(batch) \cup Range(queue)
      BY <2>1, ConcatFacts
    <2>3. batch # << >> => Line # << >> /\ Head(Line) = Head(batch)
                           /\ Tail(Line) = Tail(batch) \o queue
      BY <2>1, ConcatFacts, SMTT(30)
    <2>4. batch # << >> => Head(batch) \in Range(batch)
      BY <2>1, TailFacts, Zenon
    <2> QED
      BY <1>2, <2>2, <2>3, <2>4, Zenon DEF Pending
  <1> QED
    BY <1>1, <1>2, Zenon

\* The command that the worker has in hand is in line.
LEMMA HeadFacts ==
  ASSUME Types, WorkInv, LineInv, batch # << >>, wpc # "unref"
  PROVE  Head(batch) \in Range(Line) /\ Head(batch) \in Commands /\ CommandInv(Head(batch))
  <1>1. Head(batch) \in Range(Line)
    BY LineFacts, Zenon
  <1>2. Head(batch) \in Commands
    BY TailFacts, Zenon DEF Types
  <1> QED
    BY <1>1, <1>2, Zenon DEF LineInv

\* A command is queued.
LEMMA LineAppended ==
  ASSUME Types, WorkInv, NEW m \in Commands,
         queue' = Append(queue, m), batch' = batch, wpc' = "unref" <=> wpc = "unref"
  PROVE  /\ Line' = Append(Line, m)
         /\ Range(Line') = Range(Line) \cup {m}
         /\ Pending' = Pending \cup {m}
  <1>1. /\ queue \in Seq(Commands) /\ batch \in Seq(Commands)
        /\ wpc = "unref" => Tail(batch) \in Seq(Commands)
    BY TailFacts, Zenon DEF Types, WorkInv
  <1>2. Line' = Append(Line, m)
    <2>1. ASSUME NEW s \in Seq(Commands) PROVE s \o Append(queue, m) = Append(s \o queue, m)
      BY <1>1, ConcatFacts, SMTT(30), SMTT(30)
    <2> QED
      BY <1>1, <2>1, Zenon DEF Line
  <1>3. Line \in Seq(Commands)
    BY LineFacts, Zenon
  <1>4. Range(Line') = Range(Line) \cup {m}
    BY <1>2, <1>3, AppendFacts
  <1>5. Range(queue') = Range(queue) \cup {m}
    BY <1>1, AppendFacts
  <1> QED
    BY <1>2, <1>4, <1>5, Zenon DEF Pending

\* Thread t leaves its method.
LEMMA ReturnFacts ==
  ASSUME Types, NEW t \in Threads, Return(t)
  PROVE  /\ call' \in [Threads -> Calls] /\ gil' \in Threads \cup {Nobody}
         /\ \A u \in Threads \ {t} : call'[u] = call[u]
         /\ call'[t].op = "none" /\ call'[t].ch = "none" /\ call'[t].status = "ok"
         /\ \/ call'[t].pc = "idle" /\ gil' = Nobody
            \/ call'[t].pc = "stop" /\ gil' = t /\ ~Referenced'
  <1>1. PICK r : /\ call' = [call EXCEPT ![t] = r] /\ r \in Calls
                 /\ r.op = "none" /\ r.ch = "none" /\ r.status = "ok"
                 /\ \/ r.pc = "idle" /\ gil' = Nobody
                    \/ /\ r.pc = "stop" /\ gil' = t
                       /\ ~ServerReferenced(t, server_ref', chan')
    <2>1. Idle \in Calls /\ [Idle EXCEPT !.pc = "stop"] \in Calls
      BY Zenon DEF Idle, Calls, Pcs, Statuses
    <2> QED
      BY <2>1 DEF Return, Idle
  <1>2. ~ServerReferenced(t, server_ref', chan') => ~Referenced'
    BY <1>1, NamesAssumption, Zenon DEF ServerReferenced, Referenced, Types
  <1> QED
    BY <1>1, <1>2, Zenon DEF Types

-----------------------------------------------------------------------------
(* Steps that leave the commands and the references alone. *)

\* The control state of the channels is the same.
ControlKept ==
  \A c \in Channels :
    /\ chan'[c].life = chan[c].life /\ chan'[c].refs = chan[c].refs
    /\ chan'[c].held = chan[c].held /\ chan'[c].closed = chan[c].closed
    /\ chan'[c].orphan = chan[c].orphan /\ chan'[c].target = chan[c].target

\* Who refers to channel d is the same, and so is the number of them.
LEMMA SameHolders ==
  ASSUME NEW d \in Channels, chan'[d].held <=> chan[d].held,
         d \in channels' <=> d \in channels, Creator(d)' <=> Creator(d),
         Unqueued(d)' <=> Unqueued(d), Queued(d)' <=> Queued(d), Closing(d)' <=> Closing(d)
  PROVE  Holders(d)' = Holders(d)
  BY Zenon DEF Holders, In

\* Where the worker has no command in hand.
Free == WorkerPcs \ {"drop", "complete", "unref", "selfwait", "selfjoin"}

Quiet ==
  /\ UNCHANGED <<gil, accepting, busy, waiter, queue, batch, channels, status,
                 call, server_ref, gone, stop_seen>>
  /\ ControlKept
  /\ channels = {} /\ polled = {} => polled' = {}
  /\ \/ wpc' = wpc
     \/ batch = << >> /\ wpc \in Free /\ wpc' \in Free /\ (wpc' = "exited" => stop_seen)

\* A worker that goes on without a command in hand, or data that moves, leaves
\* all but the polling and the packets as it was.
LEMMA QuietKeeps ==
  ASSUME IInv, Quiet, Types', PollInv', SentInv'
  PROVE  IInv'
  <1> USE DEF IInv
  <1>1. Line' = Line /\ Pending' = Pending
    BY Zenon DEF Quiet, Line, Pending, Free
  <1>2. Referenced' <=> Referenced
    BY Zenon DEF Quiet, ControlKept, Referenced, ServerReferenced
  <1>3. CallInv'
    BY Zenon DEF Quiet, CallInv
  <1>4. BusyInv'
    BY Zenon DEF Quiet, BusyInv, Waits, Free
  <1>5. LineInv'
    <2>1. \A m \in Range(Line) : CommandInv(m)'
      BY <1>1, <1>2, ZenonT(60) DEF Quiet, ControlKept, LineInv, CommandInv, Awaited, Live, Free
    <2> QED
      BY <1>1, <2>1, Zenon DEF Quiet, LineInv
  <1>6. WorkInv'
    BY Zenon DEF Quiet, ControlKept, WorkInv, Free
  <1>7. StopInv'
    BY <1>2, Zenon DEF Quiet, StopInv, Free
  <1>8. \A c \in Channels : (Creating(c)' <=> Creating(c)) /\ (Queued(c)' <=> Queued(c))
    BY <1>1, Zenon DEF Quiet, Creating, Queued, Free
  <1>9. MethodInv'
    <2>1. \A t \in Threads : call[t].op \in {"create", "close", "set_target"} =>
                               call[t].ch \in Channels
      BY Zenon DEF CallInv
    <2>2. ASSUME NEW t \in Threads PROVE CallerInv(t)'
      BY <2>1, Zenon DEF Quiet, ControlKept, MethodInv, CallerInv, Live
    <2> QED
      BY <1>8, <2>2, Zenon DEF Quiet, MethodInv
  <1>10. RefInv'
    <2>1. ASSUME NEW d \in Channels PROVE Holders(d)' = Holders(d)
      <3>1. /\ Creator(d)' <=> Creator(d)
            /\ Unqueued(d)' <=> Unqueued(d)
            /\ Closing(d)' <=> Closing(d)
        BY Zenon DEF Quiet, Creator, Unqueued, Closing
      <3>2. (chan'[d].held <=> chan[d].held) /\ (d \in channels' <=> d \in channels)
        BY Zenon DEF Quiet, ControlKept
      <3> QED
        BY <1>8, <3>1, <3>2, SameHolders, Zenon
    <2> QED
      BY <2>1, ZenonT(60) DEF Quiet, ControlKept, RefInv, Live
  <1>11. OpenInv'
    BY DEF Quiet, ControlKept, OpenInv, Live, Creator, Closing
  <1>12. DoneInv'
    <2>1. wpc = "complete" => Head(batch) \in Commands /\ CommandInv(Head(batch))
      BY HeadFacts, Zenon DEF WorkInv
    <2>2. ASSUME NEW type, NEW c, Done(type, c), type = "set_target" => c \in Channels
          PROVE  Done(type, c)'
      BY <2>2, Zenon DEF Quiet, ControlKept, Done
    <2>3. ASSUME NEW t \in Threads
          PROVE  call[t].op = "set_target" => call[t].ch \in Channels
      BY Zenon DEF CallInv
    <2> QED
      BY <2>1, <2>2, <2>3, Zenon DEF Quiet, DoneInv, Fulfils, CommandInv, Free
  <1> QED
    BY <1>3, <1>4, <1>5, <1>6, <1>7, <1>9, <1>10, <1>11, <1>12, Zenon

\* The worker between two batches of commands.
LEMMA LoopKeeps ==
  ASSUME IInv,
         \/ BatchDone \/ Refresh \/ Wait \/ PollBegin \/ CallbackReturn
         \/ DrainBegin \/ DrainFree \/ DrainEnd
         \/ \E c \in Channels : ReceiveEnd(c) \/ DrainNext(c)
  PROVE  IInv'
  <1>1. UNCHANGED <<gil, cmd_lock, accepting, busy, waiter, queue, batch, channels, status,
                    stop_seen, call, server_ref, chan, sent, gone>>
    BY Zenon DEF BatchDone, Refresh, Wait, PollBegin, CallbackReturn, DrainBegin, DrainFree,
           DrainEnd, ReceiveEnd, DrainNext, cmdVars, locks
  <1>2. /\ wpc \in Free /\ wpc' \in Free
        /\ wpc' = "exited" => stop_seen
        /\ wpc = "batch" => batch = << >>
    BY Zenon DEF BatchDone, Refresh, Wait, PollBegin, CallbackReturn, DrainBegin, DrainFree,
           DrainEnd, ReceiveEnd, DrainNext, Free, WorkerPcs
  <1>3. /\ polled' \subseteq Channels /\ todo' \subseteq Channels
        /\ dirty' \in BOOLEAN
        /\ channels = {} /\ polled = {} => polled' = {}
        /\ ~dirty' => gone \cap polled' = {} 
        /\ ~dirty' => polled' \subseteq channels
    BY Zenon DEF IInv, Types, PollInv, BatchDone, Refresh, Wait, PollBegin, CallbackReturn, 
           DrainBegin, DrainFree, DrainEnd, ReceiveEnd, DrainNext, Free
  <1>4. /\ wpc' \in {"poll", "callback", "selfwait", "drain", "free"} => todo' \subseteq channels
        /\ wpc' \notin {"poll", "callback", "selfwait", "drain", "free"} => todo' = {}
        /\ wpc' = "tick" => ~dirty'
    BY Zenon DEF IInv, Types, PollInv, BatchDone, Refresh, Wait, PollBegin, CallbackReturn, 
           DrainBegin, DrainFree, DrainEnd, ReceiveEnd, DrainNext, Free
  <1>5. Quiet
    <2>1. batch = << >>
      BY <1>2, Zenon DEF IInv, WorkInv, Free
    <2>2. ControlKept
      BY <1>1, Zenon DEF ControlKept
    <2> QED
      BY <1>1, <1>2, <1>3, <2>1, <2>2, Zenon DEF Quiet
  <1>6. Types'
    <2>1. wpc' \in WorkerPcs
      BY <1>2, Zenon DEF Free
    <2> QED
      BY <1>1, <1>3, <2>1, Zenon DEF IInv, Types
  <1>7. PollInv'
    BY <1>1, <1>2, <1>3, <1>4, Zenon DEF IInv, PollInv
  <1>8. SentInv'
    BY <1>1, Zenon DEF IInv, SentInv, PacketInv, Live
  <1> QED
    BY <1>5, <1>6, <1>7, <1>8, QuietKeeps, Zenon

\* The packets of a channel, numbered: one more, and one passed on.
LEMMA PacketFacts ==
  /\ \A a \in Nat : /\ [n \in 1 .. a |-> n] \in Seq(Nat)
                    /\ Append([n \in 1 .. a |-> n], a + 1) = [n \in 1 .. a + 1 |-> n]
  /\ \A s, q \in Seq(Nat) :
       q # << >> => /\ Append(s, Head(q)) \in Seq(Nat) /\ Tail(q) \in Seq(Nat)
                    /\ Append(s, Head(q)) \o Tail(q) = s \o q
                    /\ Len(Tail(q)) <= Len(q)
  <1>1. ASSUME NEW a \in Nat
        PROVE  /\ [n \in 1 .. a |-> n] \in Seq(Nat)
               /\ Append([n \in 1 .. a |-> n], a + 1) = [n \in 1 .. a + 1 |-> n]
    <2> DEFINE s == [n \in 1 .. a |-> n]
               u == [n \in 1 .. a + 1 |-> n]
    <2>1. s \in Seq(Nat) /\ Len(s) = a
      OBVIOUS
    <2>2. u \in Seq(Nat) /\ Len(u) = a + 1
      OBVIOUS
    <2>3. /\ Append(s, a + 1) \in Seq(Nat) /\ Len(Append(s, a + 1)) = a + 1
          /\ \A i \in 1 .. a + 1 : Append(s, a + 1)[i] = IF i <= a THEN s[i] ELSE a + 1
      BY <2>1
    <2>4. \A i \in 1 .. a + 1 : Append(s, a + 1)[i] = u[i]
      BY <2>3
    <2> QED
      BY <2>1, <2>2, <2>3, <2>4, SameElements, Zenon
  <1>2. ASSUME NEW s \in Seq(Nat), NEW q \in Seq(Nat), q # << >>
        PROVE  /\ Append(s, Head(q)) \in Seq(Nat) /\ Tail(q) \in Seq(Nat)
               /\ Append(s, Head(q)) \o Tail(q) = s \o q
               /\ Len(Tail(q)) <= Len(q)
    <2>1. /\ Len(q) \in Nat \ {0} /\ Len(s) \in Nat /\ Head(q) = q[1] /\ Head(q) \in Nat
          /\ Tail(q) \in Seq(Nat) /\ Len(Tail(q)) = Len(q) - 1
          /\ \A i \in 1 .. Len(q) - 1 : Tail(q)[i] = q[i + 1]
      BY <1>2
    <2>2. /\ Append(s, Head(q)) \in Seq(Nat) /\ Len(Append(s, Head(q))) = Len(s) + 1
          /\ \A i \in 1 .. Len(s) : Append(s, Head(q))[i] = s[i]
          /\ Append(s, Head(q))[Len(s) + 1] = q[1]
      BY <2>1
    <2> DEFINE a == Append(s, Head(q))
               t == Tail(q)
    <2> HIDE DEF a, t
    <2>3. /\ a \o t \in Seq(Nat) /\ Len(a \o t) = Len(s) + Len(q)
          /\ s \o q \in Seq(Nat) /\ Len(s \o q) = Len(s) + Len(q)
          /\ \A i \in 1 .. Len(s) + Len(q) :
               /\ (a \o t)[i] = IF i <= Len(s) + 1 THEN a[i] ELSE t[i - (Len(s) + 1)]
               /\ (s \o q)[i] = IF i <= Len(s) THEN s[i] ELSE q[i - Len(s)]
      BY <2>1, <2>2 DEF a, t
    <2>4. ASSUME NEW i \in 1 .. Len(s) + Len(q) PROVE (a \o t)[i] = (s \o q)[i]
      <3>1. CASE i <= Len(s)
        BY <2>1, <2>2, <2>3, <3>1 DEF a
      <3>2. CASE i = Len(s) + 1
        BY <2>1, <2>2, <2>3, <3>2 DEF a
      <3>3. CASE i > Len(s) + 1
        <4>1. i - (Len(s) + 1) \in 1 .. Len(q) - 1 /\ (i - (Len(s) + 1)) + 1 = i - Len(s)
          BY <2>1, <3>3
        <4>2. t[i - (Len(s) + 1)] = q[i - Len(s)]
          BY <2>1, <4>1, Zenon DEF t
        <4>3. (a \o t)[i] = t[i - (Len(s) + 1)]
          BY <2>1, <2>3, <3>3, SMTT(30), SMTT(30)
        <4>4. (s \o q)[i] = q[i - Len(s)]
          BY <2>1, <2>3, <3>3
        <4> QED
          BY ONLY <4>2, <4>3, <4>4, Zenon
      <3>4. i <= Len(s) \/ i = Len(s) + 1 \/ i > Len(s) + 1
        BY <2>1, SMTT(30)
      <3> QED
        BY ONLY <3>1, <3>2, <3>3, <3>4, Zenon
    <2>5. a \o t = s \o q
      BY <2>3, <2>4, SameElements, Zenon
    <2> QED
      BY <2>1, <2>2, <2>5, SMTT(30), SMTT(30) DEF a, t
  <1> QED
    BY <1>1, <1>2, Zenon

\* A channel whose packets do not move, or that is freed with what is left of them.
LEMMA PacketsKept ==
  ASSUME SentInv, NEW c \in Channels, sent'[c] = sent[c],
         \/ chan'[c] = chan[c]
         \/ /\ chan'[c].life # "none" /\ chan'[c].accepted = chan[c].accepted
            /\ chan'[c].has_target => chan[c].has_target \/ chan'[c].target
            /\ chan[c].target => chan'[c].target
            /\ \/ chan'[c].outq = chan[c].outq /\ chan'[c].life = chan[c].life
               \/ chan'[c].outq = << >> /\ chan'[c].life = "freed"
  PROVE  PacketInv(c)'
  <1>1. PacketInv(c)
    BY Zenon DEF SentInv
  <1>2. CASE chan'[c] = chan[c]
    BY <1>1, <1>2, Zenon DEF PacketInv, Live
  <1>3. CASE chan'[c] # chan[c]
    <2>1. CASE chan'[c].outq = chan[c].outq /\ chan'[c].life = chan[c].life
      BY <1>1, <1>3, <2>1, Zenon DEF PacketInv, Live
    <2>2. CASE chan'[c].outq = << >> /\ chan'[c].life = "freed"
      <3>1. Len(chan'[c].outq) <= QueueSize
        BY <2>2, SizesAssumption
      <3> QED
        BY <1>1, <1>3, <2>2, <3>1, Zenon DEF PacketInv, Live
    <2> QED
      BY <1>3, <2>1, <2>2, Zenon
  <1> QED
    BY <1>2, <1>3, Zenon

\* send_pkt, in a thread or in pkt_in: the ring takes the packet with the next number.
LEMMA PushKeeps ==
  ASSUME IInv, NEW c \in Channels, Push(c),
         UNCHANGED <<locks, cmdVars, workVars, call, server_ref, sent, gone>>
  PROVE  IInv'
  <1> DEFINE r == chan[c]
             n == r.accepted + 1
             r1 == [r EXCEPT !.accepted = n]
             r2 == [r1 EXCEPT !.outq = Append(r.outq, n)]
  <1>1. /\ r \in ChannelStates /\ n \in Nat /\ Append(r.outq, n) \in Seq(Nat)
        /\ chan \in [Channels -> ChannelStates] /\ sent[c] \in Seq(Nat)
        /\ r.outq \in Seq(Nat) /\ r.accepted \in Nat
    BY SMTT(30), SMTT(30) DEF IInv, Types, ChannelStates
  <1>2. chan' = [chan EXCEPT ![c] = r2]
    BY Zenon DEF Push
  <1>3. /\ r2.life = r.life /\ r2.refs = r.refs /\ r2.held = r.held /\ r2.closed = r.closed
        /\ r2.orphan = r.orphan /\ r2.target = r.target /\ r2.has_target = r.has_target
        /\ r2.accepted = n /\ r2.outq = Append(r.outq, n)
    BY <1>1, Zenon DEF ChannelStates
  <1> HIDE DEF n
  <1>4. r1 \in ChannelStates
    BY <1>1, FieldFacts, Zenon
  <1> HIDE DEF r1
  <1>5. r2 \in ChannelStates
    BY <1>1, <1>4, FieldFacts, Zenon
  <1> HIDE DEF r2
  <1>6. Quiet
    BY <1>1, <1>2, <1>3, Zenon DEF Quiet, ControlKept, locks, cmdVars, workVars
  <1>7. Types'
    BY <1>1, <1>2, <1>5, Zenon DEF IInv, Types, locks, cmdVars, workVars
  <1>8. PollInv'
    BY <1>1, <1>2, <1>3, Zenon DEF IInv, Types, PollInv, locks, cmdVars, workVars
  <1>9. SentInv'
    <2>1. Live(c) /\ r.has_target /\ Len(r.outq) < QueueSize
      BY Zenon DEF Push, Usable
    <2>2. sent[c] \o Append(r.outq, n) = [i \in 1 .. n |-> i]
      <3>1. sent[c] \o r.outq = [i \in 1 .. r.accepted |-> i]
        BY <2>1, Zenon DEF IInv, SentInv, PacketInv
      <3>2. \A s, q \in Seq(Nat), i \in Nat : s \o Append(q, i) = Append(s \o q, i)
        BY ConcatFacts, SMTT(30), SMTT(30)
      <3>3. sent[c] \o Append(r.outq, n) = Append(sent[c] \o r.outq, n)
        BY <1>1, <3>2, Zenon
      <3> QED
        BY <1>1, <3>1, <3>3, PacketFacts, Zenon DEF n
    <2>3. Len(Append(r.outq, n)) <= QueueSize
      BY <1>1, <2>1, SizesAssumption
    <2>4. r.target
      BY <2>1, Zenon DEF IInv, SentInv, PacketInv
    <2>5. sent' = sent
      BY Zenon
    <2>6. chan'[c] = r2 /\ \A d \in Channels \ {c} : chan'[d] = chan[d]
      BY <1>1, <1>2, Zenon
    <2>7. r2.life = "live"
      BY <1>3, <2>1, Zenon DEF Live
    <2>8. PacketInv(c)'
      BY <1>3, <2>2, <2>3, <2>4, <2>5, <2>6, <2>7, Zenon DEF PacketInv
    <2>9. ASSUME NEW d \in Channels \ {c} PROVE PacketInv(d)'
      BY <2>5, <2>6, PacketsKept, Zenon DEF IInv, SentInv
    <2> QED
      BY <2>8, <2>9, Zenon DEF SentInv
  <1> QED
    BY <1>6, <1>7, <1>8, <1>9, QuietKeeps, Zenon

\* A datagram arrives, or is taken from the socket for pkt_in.
LEMMA SocketKeeps ==
  ASSUME IInv, NEW c \in Channels, Receive(c) \/ Datagram(c)
  PROVE  IInv'
  <1> DEFINE r == chan[c]
  <1>1. /\ r \in ChannelStates /\ r.inq \in Nat
        /\ chan \in [Channels -> ChannelStates]
    BY Zenon DEF IInv, Types, ChannelStates
  <1>2. PICK q \in ChannelStates :
          /\ chan' = [chan EXCEPT ![c] = q]
          /\ q.life = r.life /\ q.refs = r.refs /\ q.held = r.held /\ q.closed = r.closed
          /\ q.orphan = r.orphan /\ q.target = r.target /\ q.has_target = r.has_target
          /\ q.accepted = r.accepted /\ q.outq = r.outq
    <2>1. CASE Receive(c)
      <3> DEFINE q == [r EXCEPT !.inq = r.inq - 1]
      <3>1. chan' = [chan EXCEPT ![c] = q] /\ r.inq - 1 \in Nat
        BY <1>1, <2>1 DEF Receive
      <3>2. q \in ChannelStates
        BY <1>1, <3>1, FieldFacts, Zenon
      <3> QED
        BY <1>1, <3>1, <3>2, Zenon DEF ChannelStates
    <2>2. CASE Datagram(c)
      <3> DEFINE q == [r EXCEPT !.inq = r.inq + 1]
      <3>1. chan' = [chan EXCEPT ![c] = q]
        BY <1>1, <2>2, Zenon DEF Datagram
      <3>2. r.inq + 1 \in Nat
        BY ONLY <1>1
      <3>3. q \in ChannelStates
        BY <1>1, <3>2, FieldFacts, Zenon
      <3> QED
        BY <1>1, <3>1, <3>3, Zenon DEF ChannelStates
    <2> QED
      BY <2>1, <2>2, Zenon
  <1>3. /\ UNCHANGED <<gil, cmd_lock, accepting, busy, waiter, queue, batch, channels, polled,
                       dirty, status, todo, stop_seen, call, server_ref, sent, gone>>
        /\ wpc' = wpc \/ (wpc = "poll" /\ wpc' = "callback")
    BY Zenon DEF Receive, Datagram, locks, cmdVars, workVars
  <1>4. Quiet
    <2>1. wpc = "poll" => batch = << >>
      BY Zenon DEF IInv, WorkInv
    <2>2. ControlKept
      BY <1>1, <1>2, Zenon DEF ControlKept
    <2>3. wpc' = wpc \/ (batch = << >> /\ wpc \in Free /\ wpc' \in Free /\ wpc' # "exited")
      <3>1. wpc \in WorkerPcs
        BY Zenon DEF IInv, Types
      <3>2. "poll" \in Free /\ "callback" \in Free
        BY Zenon DEF Free, WorkerPcs
      <3> QED
        BY ONLY <1>3, <2>1, <3>2, Zenon
    <2> QED
      BY <1>3, <2>2, <2>3, Zenon DEF Quiet
  <1>5. Types'
    <2>1. wpc' \in WorkerPcs
      BY <1>3, Zenon DEF IInv, Types, WorkerPcs
    <2> QED
      BY <1>1, <1>2, <1>3, <2>1, Zenon DEF IInv, Types
  <1>6. PollInv'
    BY <1>1, <1>2, <1>3, Zenon DEF IInv, Types, PollInv
  <1>7. SentInv'
    <2>1. chan[c].life # "none"
      <3>1. chan[c].life = "none" => chan[c].inq = 0
        <4>1. PacketInv(c)
          BY Zenon DEF IInv, SentInv
        <4>2. chan[c].life = "none" => chan[c] = NoChannel
          BY <4>1, Zenon DEF PacketInv
        <4> QED
          BY <4>2 DEF NoChannel
      <3>2. chan[c].inq > 0 \/ chan[c].life = "live"
        BY Zenon DEF Receive, Datagram, Live
      <3> QED
        BY <1>1, <3>1, <3>2
    <2>2. chan'[c] = q /\ \A d \in Channels \ {c} : chan'[d] = chan[d]
      BY <1>1, <1>2, Zenon
    <2>3. PacketInv(c)'
      BY <1>2, <1>3, <2>1, <2>2, PacketsKept, Zenon DEF IInv, SentInv
    <2>4. ASSUME NEW d \in Channels \ {c} PROVE PacketInv(d)'
      BY <1>3, <2>2, PacketsKept, Zenon DEF IInv, SentInv
    <2> QED
      BY <2>3, <2>4, Zenon DEF SentInv
  <1> QED
    BY <1>4, <1>5, <1>6, <1>7, QuietKeeps, Zenon

\* The worker takes a packet from a ring and sends it.
LEMMA DrainPopKeeps ==
  ASSUME IInv, NEW c \in Channels, DrainPop(c)
  PROVE  IInv'
  <1> DEFINE r == chan[c]
             q == [r EXCEPT !.outq = Tail(r.outq)]
  <1>1. /\ r \in ChannelStates /\ r.outq \in Seq(Nat) /\ r.outq # << >>
        /\ chan \in [Channels -> ChannelStates]
        /\ sent \in [Channels -> Seq(Nat)] /\ sent[c] \in Seq(Nat)
    BY Zenon DEF IInv, Types, ChannelStates, DrainPop
  <1>2. /\ Append(sent[c], Head(r.outq)) \in Seq(Nat) /\ Tail(r.outq) \in Seq(Nat)
        /\ Append(sent[c], Head(r.outq)) \o Tail(r.outq) = sent[c] \o r.outq
        /\ Len(Tail(r.outq)) <= Len(r.outq)
    BY <1>1, PacketFacts, Zenon
  <1>3. PacketInv(c)
    BY Zenon DEF IInv, SentInv
  <1>4. r.target /\ r.life # "none"
    <2>1. r.life = "none" => r = NoChannel
      BY <1>3, Zenon DEF PacketInv
    <2>2. r.life # "none"
      BY <1>1, <2>1 DEF NoChannel
    <2> QED
      BY <1>1, <1>3, <2>2, Zenon DEF PacketInv
  <1>5. /\ chan' = [chan EXCEPT ![c] = q]
        /\ sent' = [sent EXCEPT ![c] = Append(sent[c], Head(r.outq))]
        /\ wpc = "drain" /\ wpc' = "free"
        /\ UNCHANGED <<gil, cmd_lock, accepting, busy, waiter, queue, batch, channels, polled,
                       dirty, status, todo, stop_seen, call, server_ref, gone>>
    BY <1>1, <1>4, Zenon DEF DrainPop, locks, cmdVars
  <1>6. q \in ChannelStates
    BY <1>1, <1>2, FieldFacts, Zenon
  <1>7. /\ q.life = r.life /\ q.refs = r.refs /\ q.held = r.held /\ q.closed = r.closed
        /\ q.orphan = r.orphan /\ q.target = r.target /\ q.has_target = r.has_target
        /\ q.accepted = r.accepted /\ q.outq = Tail(r.outq)
    BY <1>1, Zenon DEF ChannelStates
  <1> HIDE DEF q
  <1>8. Quiet
    <2>1. batch = << >>
      BY <1>5, Zenon DEF IInv, WorkInv
    <2> QED
      BY <1>1, <1>5, <1>7, <2>1, Zenon DEF Quiet, ControlKept, Free, WorkerPcs
  <1>9. Types'
    BY <1>1, <1>2, <1>5, <1>6, ZenonT(60) DEF IInv, Types, WorkerPcs
  <1>10. PollInv'
    BY <1>1, <1>5, <1>7, Zenon DEF IInv, Types, PollInv
  <1>11. SentInv'
    <2>1. /\ chan'[c] = q /\ sent'[c] = Append(sent[c], Head(r.outq))
          /\ \A d \in Channels \ {c} : chan'[d] = chan[d] /\ sent'[d] = sent[d]
      BY <1>1, <1>5, Zenon
    <2>2. Len(r.outq) <= QueueSize => Len(Tail(r.outq)) <= QueueSize
      BY <1>1, <1>2, SizesAssumption
    <2>3. PacketInv(c)'
      BY <1>2, <1>3, <1>4, <1>7, <2>1, <2>2, ZenonT(60) DEF PacketInv, Live
    <2>4. ASSUME NEW d \in Channels \ {c} PROVE PacketInv(d)'
      BY <2>1, PacketsKept, Zenon DEF IInv
    <2> QED
      BY <2>3, <2>4, Zenon DEF SentInv
  <1> QED
    BY <1>8, <1>9, <1>10, <1>11, QuietKeeps, Zenon

-----------------------------------------------------------------------------
(* The steps of the Python threads until a command is queued. *)

\* What is done stays done while the worker's tables and targets last.
LEMMA DoneKept ==
  ASSUME IInv, UNCHANGED <<waiter, batch, channels, polled, wpc, status>>,
         \A d \in Channels : chan[d].target => chan'[d].target,
         \A u \in Threads : call'[u] = call[u] \/ call'[u].pc \notin {"wait", "release"}
  PROVE  DoneInv'
  <1>1. wpc = "complete" => Head(batch) \in Commands /\ CommandInv(Head(batch))
    BY HeadFacts, Zenon DEF IInv, WorkInv
  <1>2. ASSUME NEW type, NEW d, Done(type, d), type = "set_target" => d \in Channels
        PROVE  Done(type, d)'
    BY <1>2, Zenon DEF Done
  <1>3. ASSUME NEW u \in Threads
        PROVE  call[u].op = "set_target" => call[u].ch \in Channels
    BY Zenon DEF IInv, CallInv
  <1> QED
    BY <1>1, <1>2, <1>3, Zenon DEF IInv, DoneInv, Fulfils, CommandInv

-----------------------------------------------------------------------------
(* Threads that enter a method. *)

\* A thread that enters a method had the GIL for the taking and is in no other.
LEMMA EnterFacts ==
  ASSUME IInv, NEW t \in Threads, MayCall(t),
         NEW op \in {"create", "close", "set_target", "shutdown"},
         NEW c \in Channels \cup {"none"}, Enter(t, op, c)
  PROVE  /\ call' \in [Threads -> Calls]
         /\ call[t].pc = "idle" /\ call[t].op = "none" /\ call[t].ch = "none"
         /\ call'[t].pc = "acquire" /\ call'[t].op = op /\ call'[t].ch = c
         /\ call'[t].status = "ok"
         /\ \A u \in Threads \ {t} : call'[u] = call[u]
         /\ gil = Nobody /\ gil' = t
         /\ UNCHANGED <<cmd_lock, accepting, busy, waiter, queue, batch, channels, polled,
                        dirty, wpc, status, todo, stop_seen, server_ref, sent, gone>>
         /\ Line' = Line /\ Pending' = Pending
         /\ BusyInv'
  <1> DEFINE r == [pc |-> "acquire", op |-> op, ch |-> c, status |-> "ok"]
  <1>1. /\ r \in Calls /\ call \in [Threads -> Calls] /\ call' = [call EXCEPT ![t] = r]
        /\ r.pc = "acquire" /\ r.op = op /\ r.ch = c /\ r.status = "ok"
    BY Zenon DEF IInv, Types, Enter, Calls, Pcs, Statuses
  <1> HIDE DEF r
  <1>2. /\ call' \in [Threads -> Calls]
        /\ call'[t].pc = "acquire" /\ call'[t].op = op /\ call'[t].ch = c
        /\ call'[t].status = "ok"
        /\ \A u \in Threads \ {t} : call'[u] = call[u]
    BY <1>1, Zenon
  <1>3. /\ gil = Nobody /\ gil' = t
        /\ UNCHANGED <<cmd_lock, accepting, busy, waiter, queue, batch, channels, polled,
                       dirty, wpc, status, todo, stop_seen, server_ref, sent, gone>>
    BY Zenon DEF Enter, MayCall, cmdVars, workVars
  <1>4. call[t].pc = "idle" /\ call[t].op = "none" /\ call[t].ch = "none"
    BY Zenon DEF IInv, CallInv, MayCall
  <1>5. Line' = Line /\ Pending' = Pending
    BY <1>3, Zenon DEF Line, Pending
  <1>6. BusyInv'
    BY <1>2, <1>3, <1>4, Zenon DEF IInv, BusyInv, Waits
  <1> QED
    BY <1>2, <1>3, <1>4, <1>5, <1>6, Zenon

\* set_target(), close() and shutdown() while commands are accepted.
LEMMA EnterKeeps ==
  ASSUME IInv, NEW t \in Threads, MayCall(t), NEW op, NEW c, accepting,
         \/ op = "shutdown" /\ c = "none" /\ server_ref
         \/ op \in {"close", "set_target"} /\ c \in Channels /\ Usable(c) /\ ~chan[c].closed,
         Enter(t, op, c), chan' = chan
  PROVE  IInv'
  <1>1. /\ op \in {"close", "set_target", "shutdown"} /\ c \in Channels \cup {"none"}
        /\ op \in {"create", "close", "set_target", "shutdown"}
    BY Zenon
  <1>2. /\ call' \in [Threads -> Calls]
        /\ call[t].pc = "idle" /\ call[t].op = "none" /\ call[t].ch = "none"
        /\ call'[t].pc = "acquire" /\ call'[t].op = op /\ call'[t].ch = c
        /\ call'[t].status = "ok"
        /\ \A u \in Threads \ {t} : call'[u] = call[u]
        /\ gil = Nobody /\ gil' = t
        /\ UNCHANGED <<cmd_lock, accepting, busy, waiter, queue, batch, channels, polled,
                       dirty, wpc, status, todo, stop_seen, server_ref, sent, gone>>
        /\ Line' = Line /\ Pending' = Pending
        /\ BusyInv'
    BY <1>1, EnterFacts, Zenon
  <1>3. Referenced
    BY Zenon DEF Referenced, ServerReferenced, Usable, Live
  <1>4. Types'
    BY <1>2, Zenon DEF IInv, Types
  <1>5. CallInv'
    BY <1>2, NamesAssumption, ZenonT(60) DEF IInv, CallInv
  <1>6. LineInv'
    <2>1. ASSUME NEW m \in Range(Line) PROVE CommandInv(m)'
      <3>1. CommandInv(m)
        BY Zenon DEF IInv, LineInv
      <3> QED
        BY <1>2, <1>3, <3>1, Zenon DEF CommandInv, Awaited, Live
    <2> QED
      BY <1>2, <2>1, Zenon DEF IInv, LineInv
  <1>7. WorkInv'
    BY <1>1, <1>2, ZenonT(60) DEF IInv, WorkInv
  <1>8. StopInv'
    BY <1>2, <1>3, Zenon DEF IInv, StopInv
  <1>9. /\ \A d \in Channels : Creating(d)' <=> Creating(d)
        /\ \A d \in Channels : Queued(d)' <=> Queued(d)
        /\ \A d \in Channels : Creator(d)' <=> Creator(d)
        /\ \A d \in Channels : Unqueued(d)' <=> Unqueued(d)
        /\ \A d \in Channels : Closing(d)' <=> Closing(d)
    BY <1>1, <1>2, Zenon DEF Creating, Queued, Creator, Unqueued, Closing
  <1>10. MethodInv'
    <2>1. ASSUME NEW u \in Threads PROVE CallerInv(u)'
      BY <1>1, <1>2, ZenonT(60) DEF IInv, MethodInv, CallerInv, Live, Usable
    <2> QED
      BY <1>1, <1>2, <1>9, <2>1, ZenonT(60) DEF IInv, MethodInv
  <1>11. RefInv'
    BY <1>2, <1>9, ZenonT(60) DEF IInv, RefInv, Holders, In, Live
  <1>12. OpenInv'
    BY <1>2, <1>9, Zenon DEF IInv, OpenInv, Live
  <1>13. DoneInv'
    BY <1>2, DoneKept, Zenon
  <1>14. PollInv'
    BY <1>2, Zenon DEF IInv, PollInv
  <1>15. SentInv'
    BY <1>2, PacketsKept, Zenon DEF IInv, SentInv
  <1> QED
    BY <1>2, <1>4, <1>5, <1>6, <1>7, <1>8, <1>10, <1>11, <1>12, <1>13, <1>14, <1>15, Zenon DEF IInv

\* A channel that is not live has no holder.
LEMMA DeadFacts ==
  ASSUME IInv, NEW c \in Channels, ~Live(c)
  PROVE  /\ chan[c].refs = 0 /\ ~chan[c].held /\ c \notin channels
         /\ ~Creator(c) /\ ~Unqueued(c) /\ ~Queued(c) /\ ~Closing(c)
  BY DEF IInv, Types, ChannelStates, RefInv, Holders, In

\* create_channel: the channel is the caller's and the command's.
LEMMA CreateChannelKeeps ==
  ASSUME IInv, NEW t \in Threads, CreateChannel(t)
  PROVE  IInv'
  <1>1. PICK c \in Channels : /\ chan[c].life = "none" /\ Enter(t, "create", c)
                              /\ chan' = [chan EXCEPT ![c] = NewChannel]
    BY Zenon DEF CreateChannel, NewChannel
  <1>2. /\ call' \in [Threads -> Calls]
        /\ call[t].pc = "idle" /\ call[t].op = "none" /\ call[t].ch = "none"
        /\ call'[t].pc = "acquire" /\ call'[t].op = "create" /\ call'[t].ch = c
        /\ call'[t].status = "ok"
        /\ \A u \in Threads \ {t} : call'[u] = call[u]
        /\ gil = Nobody /\ gil' = t
        /\ UNCHANGED <<cmd_lock, accepting, busy, waiter, queue, batch, channels, polled,
                       dirty, wpc, status, todo, stop_seen, server_ref, sent, gone>>
        /\ Line' = Line /\ Pending' = Pending
        /\ BusyInv'
    BY <1>1, EnterFacts, Zenon DEF CreateChannel
  <1>3. /\ ~Live(c) /\ chan[c].refs = 0 /\ ~chan[c].held /\ c \notin channels
        /\ ~Creator(c) /\ ~Unqueued(c) /\ ~Queued(c) /\ ~Closing(c)
    BY <1>1, DeadFacts, Zenon DEF Live
  <1>4. Referenced
    BY Zenon DEF CreateChannel, Referenced, ServerReferenced
  <1>5. chan'[c] = NewChannel /\ \A d \in Channels \ {c} : chan'[d] = chan[d]
    BY <1>1, Zenon DEF IInv, Types
  <1>20. /\ chan[c] = NoChannel /\ sent[c] = << >>
         /\ ~chan[c].closed /\ ~chan[c].target
    <2>1. PacketInv(c)
      BY Zenon DEF IInv, SentInv
    <2>2. chan[c] = NoChannel /\ sent[c] = << >>
      BY <1>1, <2>1, Zenon DEF PacketInv
    <2> QED
      BY <2>2 DEF NoChannel
  <1>6. Types'
    <2>1. chan' \in [Channels -> ChannelStates]
      BY <1>1, NewChannelFacts, Zenon DEF IInv, Types
    <2>2. gil' \in Threads \cup {Nobody}
      BY <1>2, Zenon
    <2> QED
      BY <1>2, <2>1, <2>2, Zenon DEF IInv, Types
  <1>7. CallInv'
    <2>1. CallInv /\ t \in Threads /\ c \in Channels /\ accepting' = accepting
      BY <1>1, <1>2, Zenon DEF IInv
    <2>2. /\ call'[t].pc = "acquire" /\ call'[t].op = "create" /\ call'[t].ch = c
          /\ call'[t].status = "ok" /\ gil = Nobody /\ gil' = t
          /\ \A u \in Threads \ {t} : call'[u] = call[u]
      BY <1>2, Zenon
    <2> QED
      BY ONLY <2>1, <2>2, NamesAssumption DEF CallInv
  <1>8. LineInv'
    <2>1. ASSUME NEW m \in Range(Line) PROVE CommandInv(m)'
      <3>1. CommandInv(m)
        BY Zenon DEF IInv, LineInv
      <3> QED
        BY <1>1, <1>2, <1>4, <1>5, <3>1, ZenonT(60) DEF CommandInv, Awaited, Live
    <2> QED
      BY <1>2, <2>1, Zenon DEF IInv, LineInv
  <1>9. WorkInv'
    <2>1. wpc = "unref" => Head(batch) \in Pending
      BY LineFacts, Zenon DEF IInv
    <2>2. wpc = "unref" => Head(batch).ch # c
      BY <1>3, <2>1, Zenon DEF IInv, WorkInv, Queued
    <2> QED
      BY <1>2, <1>5, <2>2, ZenonT(60) DEF IInv, WorkInv
  <1>10. StopInv'
    BY <1>2, <1>4, Zenon DEF IInv, StopInv
  <1>11. /\ \A d \in Channels : Creating(d)' <=> Creating(d)
         /\ \A d \in Channels : Queued(d)' <=> Queued(d)
         /\ \A d \in Channels : Creator(d)' <=> Creator(d) \/ d = c
         /\ \A d \in Channels : Unqueued(d)' <=> Unqueued(d) \/ d = c
         /\ \A d \in Channels : Closing(d)' <=> Closing(d)
    BY <1>1, <1>2, ZenonT(60) DEF Creating, Queued, Creator, Unqueued, Closing
  <1>12. MethodInv'
    <2>1. ASSUME NEW u \in Threads PROVE CallerInv(u)'
      <3>1. CASE u = t
        BY <1>2, <1>3, <1>5, <3>1, NewChannelFacts, Zenon DEF CallerInv, Live
      <3>2. CASE u # t
        <4>1. CallerInv(u) /\ call'[u] = call[u]
          BY <1>2, <3>2, Zenon DEF IInv, MethodInv
        <4>2. call[u].op \in {"create", "close", "set_target"} =>
                call[u].ch \in Channels \ {c}
          BY <1>1, <1>3, <4>1, Zenon DEF IInv, CallInv, CallerInv, Live
        <4> QED
          BY <1>2, <1>5, <4>1, <4>2, ZenonT(60) DEF CallerInv, Live
      <3> QED
        BY <3>1, <3>2, Zenon
    <2> QED
      <3>1. \A u \in Threads \ {t} : call[u].op = "create" => call[u].ch # c
        BY <1>3, Zenon DEF Creator
      <3>2. \A u, v \in Threads :
              call'[u].op = "create" /\ call'[v].op = "create" /\ call'[u].ch = call'[v].ch
                => u = v
        <4>1. \A u, v \in Threads :
                call[u].op = "create" /\ call[v].op = "create" /\ call[u].ch = call[v].ch
                  => u = v
          BY Zenon DEF IInv, MethodInv
        <4>2. call'[t].ch = c /\ \A u \in Threads \ {t} : call'[u] = call[u]
          BY <1>2, Zenon
        <4> QED
          BY ONLY <3>1, <4>1, <4>2, Zenon
      <3>3. \A d \in Channels : Creating(d)' => d \notin channels'
        BY <1>2, <1>11, Zenon DEF IInv, MethodInv
      <3> QED
        BY <2>1, <3>2, <3>3, Zenon DEF MethodInv
  <1>13. RefInv'
    <2>1. ASSUME NEW d \in Channels
          PROVE  /\ Live(d)' <=> chan'[d].refs > 0
                 /\ \/ chan'[d].refs = Holders(d)'
                    \/ /\ chan'[d].refs = Holders(d)' + 1
                       /\ Live(d)' /\ chan'[d].orphan /\ d \notin channels'
                 /\ chan'[d].orphan => chan'[d].closed
      <3>1. CASE d = c
        <4>1. /\ ~chan'[d].held /\ Creator(d)' /\ Unqueued(d)' /\ d \notin channels'
              /\ ~Closing(d)' /\ chan'[d] = NewChannel
          BY <1>2, <1>3, <1>5, <1>11, <3>1, NewChannelFacts, Zenon
        <4>2. Holders(d)' = 2
          BY ONLY <4>1 DEF Holders, In
        <4> QED
          BY <4>1, <4>2, NewChannelFacts DEF Live
      <3>2. CASE d # c
        <4>1. chan'[d] = chan[d] /\ channels' = channels
          BY <1>2, <1>5, <3>2, Zenon
        <4>2. Holders(d)' = Holders(d)
          BY <1>11, <3>2, <4>1, SameHolders, Zenon
        <4> QED
          BY <4>1, <4>2, Zenon DEF IInv, RefInv, Live
      <3> QED
        BY <3>1, <3>2, Zenon
    <2> QED
      BY <2>1, Zenon DEF RefInv
  <1>14. OpenInv'
    BY <1>2, <1>5, <1>11, Zenon DEF IInv, OpenInv, Live
  <1>15. DoneInv'
    BY <1>2, <1>5, <1>20, DoneKept, Zenon
  <1>16. PollInv'
    <2>1. gone \subseteq Channels \ {c}
      BY <1>20, Zenon DEF IInv, Types, PollInv
    <2> QED
      BY <1>2, <1>5, <2>1, Zenon DEF IInv, PollInv
  <1>17. SentInv'
    <2>1. PacketInv(c)'
      <3>1. << >> \o << >> = [n \in 1 .. 0 |-> n] /\ Len(<< >>) <= QueueSize
        BY SizesAssumption
      <3> QED
        BY <1>2, <1>5, <1>20, <3>1, NewChannelFacts, Zenon DEF PacketInv, Live
    <2>2. ASSUME NEW d \in Channels \ {c} PROVE PacketInv(d)'
      BY <1>2, <1>5, PacketsKept, Zenon DEF IInv
    <2> QED
      BY <2>1, <2>2, Zenon DEF SentInv
  <1> QED
    BY <1>2, <1>6, <1>7, <1>8, <1>9, <1>10, <1>12, <1>13, <1>14, <1>15, <1>16, <1>17, Zenon DEF IInv

\* close() once commands are not accepted any more.
LEMMA CloseLocalKeeps ==
  ASSUME IInv, NEW t \in Threads, NEW c \in Channels,
         MayCall(t), Usable(c), ~chan[c].closed, ~accepting,
         chan' = [chan EXCEPT ![c].closed = TRUE],
         UNCHANGED <<locks, cmdVars, workVars, call, server_ref, sent, gone>>
  PROVE  IInv'
  <1> DEFINE r == chan[c]
             q == [r EXCEPT !.closed = TRUE]
  <1>1. /\ r \in ChannelStates /\ chan \in [Channels -> ChannelStates]
        /\ chan' = [chan EXCEPT ![c] = q]
    BY Zenon DEF IInv, Types
  <1>2. q \in ChannelStates
    BY <1>1, FieldFacts, Zenon
  <1>3. /\ q.life = r.life /\ q.refs = r.refs /\ q.held = r.held /\ q.closed = TRUE
        /\ q.orphan = r.orphan /\ q.target = r.target /\ q.has_target = r.has_target
        /\ q.accepted = r.accepted /\ q.outq = r.outq
    BY <1>1, Zenon DEF ChannelStates
  <1> HIDE DEF q
  <1>4. /\ UNCHANGED <<gil, cmd_lock, accepting, busy, waiter, queue, batch, channels, polled,
                       dirty, wpc, status, todo, stop_seen, call, server_ref, sent, gone>>
        /\ gil = Nobody /\ Live(c) /\ r.held
    BY Zenon DEF locks, cmdVars, workVars, MayCall, Usable
  <1>5. chan'[c] = q /\ \A d \in Channels \ {c} : chan'[d] = chan[d]
    BY <1>1, Zenon
  <1>6. Types'
    BY <1>1, <1>2, <1>4, ZenonT(60) DEF IInv, Types
  <1>7. CallInv' /\ BusyInv'
    <2>1. CallInv /\ BusyInv /\ call' = call /\ gil' = gil /\ accepting' = accepting
          /\ busy' = busy /\ wpc' = wpc
      BY <1>4, Zenon DEF IInv
    <2> QED
      BY ONLY <2>1, Zenon DEF CallInv, BusyInv, Waits
  <1>8. Line' = Line /\ Pending' = Pending
    BY <1>4, Zenon DEF Line, Pending
  <1>9. Referenced' <=> Referenced
    BY <1>3, <1>4, <1>5 DEF Referenced, ServerReferenced
  <1>10. LineInv'
    <2>1. ASSUME NEW m \in Range(Line) PROVE CommandInv(m)'
      <3>1. CommandInv(m)
        BY Zenon DEF IInv, LineInv
      <3> QED
        BY <1>3, <1>4, <1>5, <1>9, <3>1, ZenonT(60) DEF CommandInv, Awaited, Live
    <2> QED
      BY <1>4, <1>8, <2>1, Zenon DEF IInv, LineInv
  <1>11. WorkInv'
    BY <1>3, <1>4, <1>5 DEF IInv, WorkInv
  <1>12. StopInv'
    BY <1>4, <1>9, Zenon DEF IInv, StopInv
  <1>13. /\ \A d \in Channels : Creating(d)' <=> Creating(d)
         /\ \A d \in Channels : Queued(d)' <=> Queued(d)
         /\ \A d \in Channels : Creator(d)' <=> Creator(d)
         /\ \A d \in Channels : Unqueued(d)' <=> Unqueued(d)
         /\ \A d \in Channels : Closing(d)' <=> Closing(d)
    BY <1>4, <1>8, Zenon DEF Creating, Queued, Creator, Unqueued, Closing
  <1>14. MethodInv'
    <2>1. ASSUME NEW u \in Threads PROVE CallerInv(u)'
      <3>1. /\ CallerInv(u) /\ call[u].pc \notin {"acquire", "enqueue"}
            /\ call[u].op \in {"create", "close", "set_target"} => call[u].ch \in Channels
        BY <1>4, NamesAssumption, Zenon DEF IInv, MethodInv, CallInv
      <3>2. /\ call'[u] = call[u] /\ channels' = channels
            /\ \A d \in Channels : (Live(d)' <=> Live(d)) /\ (chan'[d].held <=> chan[d].held)
            /\ \A d \in Channels : d # c => chan'[d] = chan[d]
            /\ Live(c) /\ chan[c].held
        BY <1>3, <1>4, <1>5, ZenonT(60) DEF Live
      <3> QED
        BY ONLY <3>1, <3>2, Zenon DEF CallerInv
    <2> QED
      BY <1>4, <1>13, <2>1, Zenon DEF IInv, MethodInv
  <1>15. RefInv'
    <2>1. ASSUME NEW d \in Channels PROVE Holders(d)' = Holders(d)
      <3>1. (chan'[d].held <=> chan[d].held) /\ (d \in channels' <=> d \in channels)
        BY <1>3, <1>4, <1>5, Zenon
      <3> QED
        BY <1>13, <3>1, SameHolders, Zenon
    <2>2. ASSUME NEW d \in Channels
          PROVE  /\ chan'[d].refs = chan[d].refs /\ (Live(d)' <=> Live(d))
                 /\ (chan'[d].orphan <=> chan[d].orphan)
                 /\ chan[d].closed => chan'[d].closed
      BY <1>3, <1>5, ZenonT(60) DEF Live
    <2> QED
      BY <1>4, <2>1, <2>2, Zenon DEF IInv, RefInv
  <1>16. OpenInv'
    BY <1>4, Zenon DEF OpenInv
  <1>17. DoneInv'
    BY <1>3, <1>4, <1>5, DoneKept, Zenon
  <1>18. PollInv'
    BY <1>3, <1>4, <1>5, Zenon DEF IInv, Types, PollInv
  <1>19. SentInv'
    <2>1. ASSUME NEW d \in Channels PROVE PacketInv(d)'
      BY <1>3, <1>4, <1>5, PacketsKept, Zenon DEF IInv, Live
    <2> QED
      BY <2>1, Zenon DEF SentInv
  <1> QED
    BY <1>6, <1>7, <1>10, <1>11, <1>12, <1>14, <1>15, <1>16, <1>17, <1>18, <1>19, Zenon DEF IInv

\* The program gives up the server.
LEMMA DelServerKeeps ==
  ASSUME IInv, NEW t \in Threads, DelServer(t)
  PROVE  IInv'
  <1>1. /\ call[t].pc = "idle" /\ call[t].op = "none" /\ call[t].ch = "none" /\ gil = Nobody
        /\ server_ref' = FALSE /\ chan' = chan
        /\ UNCHANGED <<cmd_lock, accepting, busy, waiter, queue, batch, channels, polled,
                       dirty, wpc, status, todo, stop_seen, sent, gone>>
    BY Zenon DEF DelServer, MayCall, cmdVars, workVars, IInv, CallInv
  <1>2. /\ call' \in [Threads -> Calls] /\ gil' \in Threads \cup {Nobody}
        /\ \A u \in Threads \ {t} : call'[u] = call[u]
        /\ call'[t].op = "none" /\ call'[t].ch = "none" /\ call'[t].status = "ok"
        /\ \/ call'[t].pc = "idle" /\ gil' = Nobody
           \/ call'[t].pc = "stop" /\ gil' = t /\ ~Referenced'
    BY ReturnFacts, Zenon DEF DelServer, IInv
  <1>3. ~Referenced => ~Referenced'
    BY <1>1, <1>2, Zenon DEF Referenced, ServerReferenced
  <1>4. Line' = Line /\ Pending' = Pending
    BY <1>1, Zenon DEF Line, Pending
  <1>5. Types'
    BY <1>1, <1>2, Zenon DEF IInv, Types
  <1>6. CallInv' /\ BusyInv'
    <2>1. CallInv'
      <3>1. CallInv /\ t \in Threads /\ accepting' = accepting /\ gil = Nobody
        BY <1>1, Zenon DEF IInv
      <3> QED
        BY ONLY <1>2, <3>1, NamesAssumption DEF CallInv
    <2>2. \A u \in Threads : Waits(u)' <=> Waits(u)
      BY <1>1, <1>2, Zenon DEF Waits
    <2> QED
      BY <1>1, <2>1, <2>2, Zenon DEF IInv, BusyInv
  <1>7. LineInv'
    <2>1. ASSUME NEW m \in Range(Line) PROVE CommandInv(m)'
      <3>1. CommandInv(m)
        BY Zenon DEF IInv, LineInv
      <3> QED
        BY <1>1, <1>2, <1>3, <3>1, ZenonT(60) DEF CommandInv, Awaited, Live
    <2> QED
      BY <1>1, <1>2, <1>4, <2>1, Zenon DEF IInv, LineInv
  <1>8. WorkInv'
    BY <1>1, <1>2, ZenonT(60) DEF IInv, WorkInv
  <1>9. StopInv'
    BY <1>1, <1>2, <1>3, Zenon DEF IInv, StopInv
  <1>10. /\ \A d \in Channels : Creating(d)' <=> Creating(d)
         /\ \A d \in Channels : Queued(d)' <=> Queued(d)
         /\ \A d \in Channels : Creator(d)' <=> Creator(d)
         /\ \A d \in Channels : Unqueued(d)' <=> Unqueued(d)
         /\ \A d \in Channels : Closing(d)' <=> Closing(d)
    BY <1>1, <1>2, <1>4, ZenonT(60) DEF Creating, Queued, Creator, Unqueued, Closing
  <1>11. MethodInv'
    <2>1. ASSUME NEW u \in Threads PROVE CallerInv(u)'
      BY <1>1, <1>2, ZenonT(60) DEF IInv, MethodInv, CallerInv, Live
    <2> QED
      BY <1>1, <1>2, <1>10, <2>1, ZenonT(60) DEF IInv, MethodInv
  <1>12. RefInv' /\ OpenInv'
    BY <1>1, <1>10, ZenonT(60) DEF IInv, RefInv, OpenInv, Holders, In, Live
  <1>13. DoneInv'
    BY <1>1, <1>2, DoneKept, Zenon
  <1>14. PollInv'
    BY <1>1, Zenon DEF IInv, PollInv
  <1>15. SentInv'
    BY <1>1, PacketsKept, Zenon DEF IInv, SentInv
  <1> QED
    BY <1>5, <1>6, <1>7, <1>8, <1>9, <1>11, <1>12, <1>13, <1>14, <1>15, Zenon DEF IInv

\* The program gives up a channel.
LEMMA DelChannelKeeps ==
  ASSUME IInv, NEW t \in Threads, NEW c \in Channels, DelChannel(t, c)
  PROVE  IInv'
  <1> DEFINE r == chan[c]
             r1 == [r EXCEPT !.held = FALSE]
             q == Unref(r1)
  <1>1. /\ r \in ChannelStates /\ chan \in [Channels -> ChannelStates]
        /\ chan' = [chan EXCEPT ![c] = q]
    BY Zenon DEF IInv, Types, DelChannel
  <1>2. /\ r1 \in ChannelStates
        /\ r1.life = r.life /\ r1.refs = r.refs /\ r1.held = FALSE /\ r1.closed = r.closed
        /\ r1.orphan = r.orphan /\ r1.target = r.target /\ r1.has_target = r.has_target
        /\ r1.accepted = r.accepted /\ r1.outq = r.outq
    BY <1>1, Zenon DEF ChannelStates
  <1> HIDE DEF r1
  <1>3. /\ q \in ChannelStates /\ ~q.held /\ q.accepted = r.accepted
        /\ q.target = r.target /\ q.has_target = r.has_target
        /\ r.refs > 1 => /\ q.refs = r.refs - 1 /\ q.life = r.life /\ q.closed = r.closed
                         /\ q.orphan = r.orphan /\ q.outq = r.outq
        /\ ~(r.refs > 1) => /\ q.refs = 0 /\ q.life = "freed" /\ q.closed /\ ~q.orphan
                            /\ q.outq = << >>
    BY <1>2, UnrefFacts, ZenonT(60)
  <1> HIDE DEF q
  <1>4. /\ call[t].pc = "idle" /\ call[t].op = "none" /\ call[t].ch = "none" /\ gil = Nobody
        /\ Live(c) /\ r.held /\ \A u \in Threads : call[u].ch # c
        /\ UNCHANGED <<cmd_lock, accepting, busy, waiter, queue, batch, channels, polled,
                       dirty, wpc, status, todo, stop_seen, server_ref, sent, gone>>
    BY Zenon DEF DelChannel, MayCall, Usable, cmdVars, workVars, IInv, CallInv
  <1>5. /\ call' \in [Threads -> Calls] /\ gil' \in Threads \cup {Nobody}
        /\ \A u \in Threads \ {t} : call'[u] = call[u]
        /\ call'[t].op = "none" /\ call'[t].ch = "none" /\ call'[t].status = "ok"
        /\ \/ call'[t].pc = "idle" /\ gil' = Nobody
           \/ call'[t].pc = "stop" /\ gil' = t /\ ~Referenced'
    BY ReturnFacts, Zenon DEF DelChannel, IInv
  <1>6. chan'[c] = q /\ \A d \in Channels \ {c} : chan'[d] = chan[d]
    BY <1>1, Zenon
  <1>7. ~Referenced => ~Referenced'
    BY <1>4, Zenon DEF Referenced, ServerReferenced, Live
  <1>8. Line' = Line /\ Pending' = Pending
    BY <1>4, Zenon DEF Line, Pending
  <1>9. Types'
    BY <1>1, <1>3, <1>4, <1>5, Zenon DEF IInv, Types
  <1>10. CallInv' /\ BusyInv'
    <2>1. CallInv'
      <3>1. CallInv /\ t \in Threads /\ accepting' = accepting /\ gil = Nobody
        BY <1>4, Zenon DEF IInv
      <3> QED
        BY ONLY <1>5, <3>1, NamesAssumption DEF CallInv
    <2>2. \A u \in Threads : Waits(u)' <=> Waits(u)
      BY <1>4, <1>5, Zenon DEF Waits
    <2>3. BusyInv'
      BY <1>4, <2>2, Zenon DEF IInv, BusyInv
    <2> QED
      BY <2>1, <2>3, Zenon
  <1>11. LineInv'
    <2>1. ASSUME NEW m \in Range(Line) PROVE CommandInv(m)'
      <3>1. CommandInv(m)
        BY Zenon DEF IInv, LineInv
      <3>2. Awaited(m) => Awaited(m)'
        BY <1>4, <1>5, ZenonT(60) DEF Awaited
      <3>3. \A d \in Channels :
              /\ chan[d].life # "none" => chan'[d].life # "none"
              /\ Live(d)' => Live(d)
              /\ Live(d)' /\ chan[d].closed /\ chan[d].orphan => chan'[d].closed /\ chan'[d].orphan
        <4> TAKE d \in Channels
        <4>1. CASE d # c
          BY <1>6, <4>1, Zenon DEF Live
        <4>2. CASE d = c
          BY <1>3, <1>4, <1>6, <4>2, Zenon DEF Live
        <4> QED
          BY <4>1, <4>2, Zenon
      <3> QED
        BY <1>4, <1>7, <3>1, <3>2, <3>3, Zenon DEF CommandInv
    <2> QED
      BY <1>4, <1>5, <1>8, <2>1, Zenon DEF IInv, LineInv
  <1>12. WorkInv'
    <2>1. \A d \in Channels : ~chan[d].held => ~chan'[d].held
      BY <1>3, <1>6, Zenon
    <2> QED
      BY <1>4, <1>5, <2>1, ZenonT(60) DEF IInv, WorkInv
  <1>13. StopInv'
    BY <1>4, <1>5, <1>7, Zenon DEF IInv, StopInv
  <1>14. /\ \A d \in Channels : Creating(d)' <=> Creating(d)
         /\ \A d \in Channels : Queued(d)' <=> Queued(d)
         /\ \A d \in Channels : Creator(d)' <=> Creator(d)
         /\ \A d \in Channels : Unqueued(d)' <=> Unqueued(d)
         /\ \A d \in Channels : Closing(d)' <=> Closing(d)
    BY <1>4, <1>5, <1>8, ZenonT(60) DEF Creating, Queued, Creator, Unqueued, Closing
  <1>15. MethodInv'
    <2>1. ASSUME NEW u \in Threads PROVE CallerInv(u)'
      <3>1. /\ CallerInv(u) /\ call[u].ch # c
            /\ call[u].op \in {"create", "close", "set_target"} => call[u].ch \in Channels
        BY <1>4, Zenon DEF IInv, MethodInv, CallInv
      <3>2. CASE u = t
        BY <1>5, <3>2, Zenon DEF CallerInv
      <3>3. CASE u # t
        <4>1. call'[u] = call[u] /\ channels' = channels
          BY <1>4, <1>5, <3>3, Zenon
        <4>2. call[u].op \in {"create", "close", "set_target"} =>
                chan'[call[u].ch] = chan[call[u].ch]
          BY <1>6, <3>1, Zenon
        <4> QED
          BY <3>1, <4>1, <4>2, Zenon DEF CallerInv, Live
      <3> QED
        BY <3>2, <3>3, Zenon
    <2> QED
      BY <1>4, <1>5, <1>14, <2>1, ZenonT(60) DEF IInv, MethodInv
  <1>16. RefInv'
    <2>1. r.refs \in Nat /\ q.refs \in Nat
      BY <1>1, <1>3, Zenon DEF ChannelStates
    <2>2. ASSUME NEW d \in Channels \ {c}
          PROVE  Holders(d)' = Holders(d)
      BY <1>4, <1>6, <1>14, SameHolders, Zenon
    <2>3. Holders(c)' = Holders(c) - 1 /\ Holders(c) >= 1
      <3>1. /\ chan[c].held /\ ~chan'[c].held /\ channels' = channels
            /\ Queued(c)' <=> Queued(c)
            /\ Creator(c)' <=> Creator(c)
            /\ Unqueued(c)' <=> Unqueued(c)
            /\ Closing(c)' <=> Closing(c)
        BY <1>3, <1>4, <1>6, <1>14, Zenon
      <3> QED
        BY ONLY <3>1 DEF Holders, In
    <2>4. Holders(c) \in Nat
      BY DEF Holders, In
    <2>5. ASSUME NEW d \in Channels
          PROVE  /\ Live(d)' <=> chan'[d].refs > 0
                 /\ \/ chan'[d].refs = Holders(d)'
                    \/ /\ chan'[d].refs = Holders(d)' + 1
                       /\ Live(d)' /\ chan'[d].orphan /\ d \notin channels'
                 /\ chan'[d].orphan => chan'[d].closed
      <3>1. CASE d = c
        <4>1. /\ r.refs = Holders(c) \/ (r.refs = Holders(c) + 1 /\ r.orphan /\ c \notin channels)
              /\ r.orphan => r.closed
          BY Zenon DEF IInv, RefInv
        <4>2. CASE r.refs > 1
          <5>1. /\ q.refs = r.refs - 1 /\ q.refs > 0 /\ q.life = "live"
                /\ q.orphan = r.orphan /\ q.closed = r.closed
            BY <1>3, <1>4, <2>1, <4>2 DEF Live
          <5>2. \/ q.refs = Holders(c)'
                \/ q.refs = Holders(c)' + 1 /\ r.orphan /\ c \notin channels
            <6>1. q.refs = r.refs - 1
              BY <5>1, Zenon
            <6> QED
              BY <2>1, <2>3, <2>4, <4>1, <6>1
          <5> QED
            BY <1>4, <1>6, <3>1, <4>1, <5>1, <5>2, Zenon DEF Live
        <4>3. CASE ~(r.refs > 1)
          <5>1. q.refs = 0 /\ q.life = "freed" /\ ~q.orphan /\ Holders(c)' = 0
            BY <1>3, <2>1, <2>3, <2>4, <4>1, <4>3
          <5> QED
            BY <1>6, <3>1, <5>1 DEF Live
        <4> QED
          BY <4>2, <4>3, Zenon
      <3>2. CASE d # c
        BY <1>4, <1>6, <2>2, <3>2, Zenon DEF IInv, RefInv, Live
      <3> QED
        BY <3>1, <3>2, Zenon
    <2> QED
      BY <2>5, Zenon DEF RefInv
  <1>17. OpenInv'
    BY <1>3, <1>4, <1>6, <1>14, ZenonT(60) DEF IInv, OpenInv, Live
  <1>18. DoneInv'
    BY <1>3, <1>4, <1>5, <1>6, DoneKept, ZenonT(60)
  <1>19. PollInv'
    BY <1>3, <1>4, <1>6, ZenonT(60) DEF IInv, Types, PollInv
  <1>20. SentInv'
    <2>1. ASSUME NEW d \in Channels PROVE PacketInv(d)'
      BY <1>3, <1>4, <1>6, PacketsKept, Zenon DEF IInv, Live
    <2> QED
      BY <2>1, Zenon DEF SentInv
  <1> QED
    BY <1>9, <1>10, <1>11, <1>12, <1>13, <1>15, <1>16, <1>17, <1>18, <1>19, <1>20, Zenon DEF IInv

-----------------------------------------------------------------------------
(* Threads that leave a method. *)

Leaves(t) ==
  /\ \/ call[t].pc = "acquire" /\ busy' = busy
     \/ call[t].pc = "release" /\ busy' = FALSE
  /\ server_ref' = server_ref /\ Return(t)
  /\ UNCHANGED <<cmd_lock, accepting, waiter, queue, batch, channels, polled, dirty, wpc,
                 status, todo, stop_seen, sent>>

\* A thread that leaves a method has the GIL and gives up the waiter if it had it.
LEMMA LeaveFacts ==
  ASSUME IInv, NEW t \in Threads, Leaves(t)
  PROVE  /\ call' \in [Threads -> Calls] /\ gil' \in Threads \cup {Nobody} /\ gil = t
         /\ \A u \in Threads \ {t} :
              /\ call'[u] = call[u] /\ call[u].pc \in {"idle", "wait", "join"}
              /\ call[t].pc = "release" => call[u].pc # "wait"
         /\ call[t].op # "none"
         /\ call'[t].op = "none" /\ call'[t].ch = "none" /\ call'[t].status = "ok"
         /\ \/ call'[t].pc = "idle" /\ gil' = Nobody
            \/ call'[t].pc = "stop" /\ gil' = t /\ ~Referenced'
         /\ Line' = Line /\ Pending' = Pending
         /\ \A d \in Channels : Creating(d)' <=> Creating(d)
         /\ \A d \in Channels : Queued(d)' <=> Queued(d)
         /\ \A d \in Channels :
              Creator(d)' <=> Creator(d) /\ ~(call[t].op = "create" /\ call[t].ch = d)
         /\ \A d \in Channels :
              Unqueued(d)' <=> Unqueued(d) /\ ~(call[t].op = "create" /\ call[t].ch = d)
         /\ \A d \in Channels :
              Closing(d)' <=> Closing(d) /\ ~(call[t].pc = "release" /\ call[t].op = "close"
                                              /\ call[t].ch = d)
  <1>1. /\ call' \in [Threads -> Calls] /\ gil' \in Threads \cup {Nobody}
        /\ \A u \in Threads \ {t} : call'[u] = call[u]
        /\ call'[t].op = "none" /\ call'[t].ch = "none" /\ call'[t].status = "ok"
        /\ \/ call'[t].pc = "idle" /\ gil' = Nobody
           \/ call'[t].pc = "stop" /\ gil' = t /\ ~Referenced'
    BY ReturnFacts, Zenon DEF Leaves, IInv
  <1>2. /\ call[t].pc \in {"acquire", "release"}
        /\ UNCHANGED <<queue, batch, wpc, status>>
    BY Zenon DEF Leaves
  <1>3. gil = t /\ call[t].op # "none"
    BY <1>2, Zenon DEF IInv, CallInv
  <1>4. ASSUME NEW u \in Threads \ {t}
        PROVE  /\ call[u].pc \in {"idle", "wait", "join"}
               /\ call[t].pc = "release" => call[u].pc # "wait"
    <2>1. call[u].pc \in Pcs
      BY Zenon DEF IInv, Types, Calls
    <2>2. call[u].pc \notin {"acquire", "enqueue", "release", "stop"}
      BY <1>3, Zenon DEF IInv, CallInv
    <2> QED
      BY <2>1, <2>2, Zenon DEF Pcs, IInv, BusyInv, Waits
  <1>5. Line' = Line /\ Pending' = Pending
    BY <1>2, Zenon DEF Line, Pending
  <1>6. /\ \A d \in Channels : Creating(d)' <=> Creating(d)
        /\ \A d \in Channels : Queued(d)' <=> Queued(d)
    BY <1>2, <1>5, Zenon DEF Creating, Queued
  <1>7. \A d \in Channels :
          Creator(d)' <=> Creator(d) /\ ~(call[t].op = "create" /\ call[t].ch = d)
    BY <1>1, Zenon DEF IInv, MethodInv, Creator
  <1>8. \A d \in Channels :
          Unqueued(d)' <=> Unqueued(d) /\ ~(call[t].op = "create" /\ call[t].ch = d)
    BY <1>1, <1>2, <1>4 DEF IInv, MethodInv, CallInv, Unqueued
  <1>9. \A d \in Channels :
          Closing(d)' <=> Closing(d) /\ ~(call[t].pc = "release" /\ call[t].op = "close"
                                          /\ call[t].ch = d)
    BY <1>1, <1>2, <1>4, Zenon DEF Closing
  <1> QED
    BY <1>1, <1>3, <1>4, <1>5, <1>6, <1>7, <1>8, <1>9, Zenon

\* What no return undoes.
ChannelsAge ==
  \A d \in Channels :
    /\ chan'[d].life = "live" => chan[d].life = "live"
    /\ chan'[d].life = "none" => chan[d].life = "none"
    /\ chan[d].closed => chan'[d].closed
    /\ chan'[d].life = "live" /\ chan[d].orphan => chan'[d].orphan
    /\ chan[d].target => chan'[d].target
    /\ chan'[d].held => chan[d].held \/ d \in channels

\* A method that returns keeps the invariant if what it does to its channel does.
LEMMA LeaveKeeps ==
  ASSUME IInv, NEW t \in Threads, Leaves(t),
         chan' \in [Channels -> ChannelStates], gone' \subseteq Channels,
         ChannelsAge, \A u \in Threads \ {t} : CallerInv(u)',
         RefInv', OpenInv', PollInv', SentInv'
  PROVE  IInv'
  <1>1. /\ call' \in [Threads -> Calls] /\ gil' \in Threads \cup {Nobody} /\ gil = t
        /\ \A u \in Threads \ {t} :
             /\ call'[u] = call[u] /\ call[u].pc \in {"idle", "wait", "join"}
             /\ call[t].pc = "release" => call[u].pc # "wait"
        /\ call'[t].op = "none" /\ call'[t].ch = "none" /\ call'[t].status = "ok"
        /\ \/ call'[t].pc = "idle" /\ gil' = Nobody
           \/ call'[t].pc = "stop" /\ gil' = t /\ ~Referenced'
        /\ Line' = Line
        /\ \A d \in Channels : Creating(d)' <=> Creating(d)
    BY LeaveFacts, Zenon
  <1>2. /\ \/ call[t].pc = "acquire" /\ busy' = busy
           \/ call[t].pc = "release" /\ busy' = FALSE
        /\ UNCHANGED <<cmd_lock, server_ref, accepting, waiter, queue, batch, channels, polled,
                       dirty, wpc, status, todo, stop_seen, sent>>
    BY Zenon DEF Leaves
  <1>3. ~Referenced => ~Referenced'
    BY <1>1, <1>2, Zenon DEF Referenced, ServerReferenced, ChannelsAge
  <1>4. Types'
    BY <1>1, <1>2, Zenon DEF IInv, Types
  <1>5. CallInv'
    <2>1. CallInv /\ t \in Threads /\ accepting' = accepting
      BY <1>2, Zenon DEF IInv
    <2> QED
      BY ONLY <1>1, <2>1, NamesAssumption DEF CallInv
  <1>6. BusyInv'
    <2>1. BusyInv /\ t \in Threads /\ wpc' = wpc
      BY <1>2, Zenon DEF IInv
    <2>2. /\ \A u \in Threads \ {t} : Waits(u)' <=> Waits(u)
          /\ ~Waits(t)'
          /\ call[t].pc = "acquire" => ~Waits(t)
          /\ call[t].pc = "release" => Waits(t)
      BY <1>1, Zenon DEF Waits
    <2>3. (call[t].pc = "acquire" /\ busy' = busy) \/ (call[t].pc = "release" /\ busy' = FALSE)
      BY <1>2, Zenon
    <2> QED
      BY ONLY <2>1, <2>2, <2>3 DEF BusyInv
  <1>7. LineInv'
    <2>1. ASSUME NEW m \in Range(Line) PROVE CommandInv(m)'
      <3>1. CommandInv(m)
        BY Zenon DEF IInv, LineInv
      <3> QED
        BY <1>1, <1>2, <1>3, <3>1, ZenonT(60) DEF CommandInv, Awaited, Live, ChannelsAge
    <2> QED
      BY <1>1, <1>2, <2>1, Zenon DEF IInv, LineInv
  <1>8. WorkInv'
    <2>1. ASSUME wpc = "unref"
          PROVE  LET c == Head(batch).ch
                 IN  /\ Head(batch).type = "create" /\ c \in Channels /\ c \notin channels
                     /\ ~chan[c].held
                     /\ \A u \in Threads : call[u].op = "create" /\ call[u].ch = c =>
                                             \/ call[u].pc = "wait" /\ waiter.done
                                             \/ call[u].pc = "release" /\ call[u].status # "rejected"
      BY <2>1, Zenon DEF IInv, WorkInv
    <2>2. ASSUME wpc = "unref"
          PROVE  LET c == Head(batch).ch
                 IN  /\ ~chan'[c].held
                     /\ \A u \in Threads : call'[u].op = "create" /\ call'[u].ch = c =>
                                             \/ call'[u].pc = "wait" /\ waiter.done
                                             \/ call'[u].pc = "release" /\ call'[u].status # "rejected"
      <3> DEFINE c == Head(batch).ch
      <3>1. ~chan'[c].held
        BY <1>1, <2>1, <2>2, Zenon DEF ChannelsAge
      <3>2. ASSUME NEW u \in Threads, call'[u].op = "create", call'[u].ch = c
            PROVE  \/ call'[u].pc = "wait" /\ waiter.done
                   \/ call'[u].pc = "release" /\ call'[u].status # "rejected"
        <4>1. call'[u] = call[u]
          BY <1>1, <3>2, Zenon
        <4> QED
          BY <2>1, <2>2, <3>2, <4>1, Zenon
      <3> QED
        BY <3>1, <3>2, Zenon
    <2> QED
      BY <1>2, <2>1, <2>2, Zenon DEF IInv, WorkInv
  <1>9. StopInv'
    BY <1>1, <1>2, <1>3, Zenon DEF IInv, StopInv
  <1>10. MethodInv'
    <2>1. CallerInv(t)'
      BY <1>1, Zenon DEF CallerInv
    <2>2. \A u, v \in Threads :
            call'[u].op = "create" /\ call'[v].op = "create" /\ call'[u].ch = call'[v].ch
              => u = v
      <3>1. \A u \in Threads : call'[u].op = "create" => call'[u] = call[u]
        BY <1>1, Zenon
      <3> QED
        BY <3>1, Zenon DEF IInv, MethodInv
    <2>3. \A d \in Channels : Creating(d)' => d \notin channels'
      BY <1>1, <1>2, Zenon DEF IInv, MethodInv
    <2> QED
      BY <1>1, <2>1, <2>2, <2>3, Zenon DEF MethodInv
  <1>11. DoneInv'
    BY <1>1, <1>2, DoneKept, Zenon DEF ChannelsAge
  <1> QED
    BY <1>4, <1>5, <1>6, <1>7, <1>8, <1>9, <1>10, <1>11, Zenon DEF IInv

\* A create_channel whose command is not queued has the only two references.
LEMMA UnqueuedFacts ==
  ASSUME IInv, NEW t \in Threads, call[t].op = "create",
         call[t].pc \in {"acquire", "enqueue"} \/ call[t].status = "rejected"
  PROVE  LET c == call[t].ch
         IN  /\ c \in Channels /\ Live(c) /\ chan[c].refs = 2
             /\ ~chan[c].held /\ ~chan[c].closed /\ ~chan[c].orphan /\ c \notin channels
             /\ Creator(c) /\ Unqueued(c) /\ ~Queued(c) /\ ~Closing(c)
  <1> DEFINE c == call[t].ch
  <1>1. c \in Channels /\ CallerInv(t)
    BY Zenon DEF IInv, CallInv, MethodInv
  <1>2. /\ Live(c) /\ ~chan[c].held /\ ~chan[c].closed /\ c \notin channels
        /\ Creator(c) /\ Unqueued(c)
    BY <1>1, Zenon DEF CallerInv, Creator, Unqueued
  <1>3. ~Closing(c)
    BY <1>2, Zenon DEF IInv, MethodInv, CallerInv, Closing
  <1>4. ~Queued(c)
    <2>1. ASSUME NEW m \in Range(Line), m.type = "create" PROVE m.ch # c
      <3>1. CommandInv(m)
        BY Zenon DEF IInv, LineInv
      <3>2. PICK u \in Threads : call[u].pc = "wait" /\ call[u].op = "create" /\ call[u].ch = m.ch
        BY <2>1, <3>1, Zenon DEF CommandInv, Awaited
      <3>3. u # t
        BY <3>2, Zenon DEF IInv, CallInv
      <3> QED
        BY <3>2, <3>3, Zenon DEF IInv, MethodInv
    <2>2. wpc = "unref" => Head(batch).ch # c
      BY Zenon DEF IInv, WorkInv, CallInv
    <2>3. Pending = Range(Line) \cup (IF wpc = "unref" THEN {Head(batch)} ELSE {})
      BY LineFacts, Zenon DEF IInv
    <2> QED
      BY <2>1, <2>2, <2>3, Zenon DEF Queued
  <1>5. ~chan[c].orphan
    BY <1>1, <1>2, Zenon DEF IInv, RefInv
  <1>6. Holders(c) = 2
    BY <1>2, <1>3, <1>4 DEF Holders, In
  <1>7. chan[c].refs = 2
    BY <1>1, <1>5, <1>6, Zenon DEF IInv, RefInv
  <1> QED
    BY <1>1, <1>2, <1>3, <1>4, <1>5, <1>7, Zenon

\* What a thread that leaves a create_channel does concerns nobody else.
LEMMA OthersKeep ==
  ASSUME IInv, NEW t \in Threads, Leaves(t),
         \A d \in Channels : d # call[t].ch => chan'[d] = chan[d],
         \A u \in Threads \ {t} : call[u].ch = call[t].ch /\ call[u].op # "none" => chan' = chan
  PROVE  \A u \in Threads \ {t} : CallerInv(u)'
  <1> SUFFICES ASSUME NEW u \in Threads \ {t} PROVE CallerInv(u)'
    BY Zenon
  <1>1. call'[u] = call[u] /\ channels' = channels
    BY LeaveFacts, Zenon DEF Leaves
  <1>2. /\ CallerInv(u)
        /\ call[u].op \in {"create", "close", "set_target"} => call[u].ch \in Channels
    BY Zenon DEF IInv, MethodInv, CallInv
  <1> QED
    BY <1>1, <1>2, Zenon DEF CallerInv, Live

\* The last two references are dropped.
LEMMA UnrefTwice ==
  ASSUME NEW r \in ChannelStates, r.refs = 2
  PROVE  LET q == Unref(Unref(r))
         IN  /\ q \in ChannelStates /\ q.refs = 0 /\ q.held = r.held /\ q.life = "freed"
             /\ q.closed /\ ~q.orphan /\ q.outq = << >>
             /\ q.target = r.target /\ q.has_target = r.has_target /\ q.accepted = r.accepted
  <1>1. /\ Unref(r) \in ChannelStates /\ Unref(r).refs = 1 /\ Unref(r).held = r.held
        /\ Unref(r).target = r.target /\ Unref(r).has_target = r.has_target
        /\ Unref(r).accepted = r.accepted
    <2>1. r.refs > 1 /\ r.refs - 1 = 1
      OBVIOUS
    <2> QED
      BY <2>1, UnrefFacts, Zenon
  <1>2. ~(Unref(r).refs > 1)
    BY <1>1
  <1> QED
    BY <1>1, <1>2, UnrefFacts, Zenon

\* A create_channel that cannot queue its command frees its channel.
LEMMA DiscardKeeps ==
  ASSUME IInv, NEW t \in Threads, Leaves(t), call[t].op = "create",
         call[t].pc = "acquire" \/ call[t].status = "rejected",
         chan' = Discard(t), gone' = gone
  PROVE  IInv'
  <1>0. PICK c \in Channels : c = call[t].ch
    BY Zenon DEF IInv, CallInv
  <1> DEFINE r == chan[c]
             r1 == [r EXCEPT !.closed = TRUE]
             q == Unref(Unref(r1))
  <1>1. /\ Live(c) /\ r.refs = 2
        /\ ~r.held /\ ~r.closed /\ ~r.orphan /\ c \notin channels
        /\ Creator(c) /\ Unqueued(c) /\ ~Queued(c) /\ ~Closing(c)
    BY <1>0, UnqueuedFacts, Zenon
  <1>2. /\ r \in ChannelStates /\ chan \in [Channels -> ChannelStates]
        /\ chan' = [chan EXCEPT ![c] = q]
    BY <1>0, Zenon DEF IInv, Types, Discard
  <1>3. /\ r1 \in ChannelStates /\ r1.refs = r.refs /\ r1.held = r.held
        /\ r1.target = r.target /\ r1.has_target = r.has_target /\ r1.accepted = r.accepted
    BY <1>2, Zenon DEF ChannelStates
  <1> HIDE DEF r1
  <1>5. /\ q \in ChannelStates /\ q.refs = 0 /\ ~q.held /\ q.life = "freed" /\ q.closed
        /\ ~q.orphan /\ q.outq = << >>
        /\ q.target = r.target /\ q.has_target = r.has_target /\ q.accepted = r.accepted
    BY <1>1, <1>3, UnrefTwice, Zenon
  <1> HIDE DEF q
  <1>6. chan'[c] = q /\ \A d \in Channels \ {c} : chan'[d] = chan[d]
    BY <1>2, Zenon
  <1>7. chan' \in [Channels -> ChannelStates] /\ gone' \subseteq Channels
    BY <1>2, <1>5, Zenon DEF IInv, Types
  <1>8. ChannelsAge
    BY <1>1, <1>5, <1>6, Zenon DEF ChannelsAge, Live
  <1>9. \A u \in Threads \ {t} : CallerInv(u)'
    <2>1. ASSUME NEW u \in Threads \ {t}, call[u].op # "none" PROVE call[u].ch # c
      <3>1. call[u].op \in {"create", "close", "set_target", "shutdown"}
        BY <2>1, Zenon DEF IInv, Types, Calls
      <3>2. call[u].op = "shutdown" => call[u].ch \notin Channels
        BY NamesAssumption, Zenon DEF IInv, CallInv
      <3>3. call[u].op \in {"close", "set_target"} => chan[call[u].ch].held
        BY Zenon DEF IInv, MethodInv, CallerInv
      <3>4. call[u].op = "create" => call[u].ch # call[t].ch
        BY Zenon DEF IInv, MethodInv
      <3> QED
        BY <1>0, <1>1, <3>1, <3>2, <3>3, <3>4, Zenon
    <2> QED
      BY <1>0, <1>6, <2>1, OthersKeep, Zenon
  <1>10. /\ \A d \in Channels : Queued(d)' <=> Queued(d)
         /\ \A d \in Channels : Creator(d)' <=> Creator(d) /\ d # c
         /\ \A d \in Channels : Unqueued(d)' <=> Unqueued(d) /\ d # c
         /\ \A d \in Channels : Closing(d)' <=> Closing(d)
    BY <1>0, LeaveFacts, Zenon
  <1>11. UNCHANGED <<channels, polled, dirty, todo, wpc, sent, accepting>>
    BY Zenon DEF Leaves
  <1>12. RefInv'
    <2>1. Holders(c)' = 0
      <3>1. /\ ~chan'[c].held /\ ~Creator(c)' /\ ~Unqueued(c)' /\ ~Queued(c)'
            /\ c \notin channels' /\ ~Closing(c)'
        BY <1>1, <1>5, <1>6, <1>10, <1>11, Zenon
      <3> QED
        BY ONLY <3>1 DEF Holders, In
    <2>2. \A d \in Channels \ {c} : Holders(d)' = Holders(d)
      BY <1>6, <1>10, <1>11, SameHolders, Zenon
    <2>3. /\ chan'[c].life = "freed" /\ chan'[c].refs = 0 /\ ~chan'[c].orphan
      BY <1>5, <1>6, Zenon
    <2>4. ASSUME NEW d \in Channels
          PROVE  /\ Live(d)' <=> chan'[d].refs > 0
                 /\ \/ chan'[d].refs = Holders(d)'
                    \/ /\ chan'[d].refs = Holders(d)' + 1
                       /\ Live(d)' /\ chan'[d].orphan /\ d \notin channels'
                 /\ chan'[d].orphan => chan'[d].closed
      <3>1. CASE d = c
        BY <2>1, <2>3, <3>1 DEF Live
      <3>2. CASE d # c
        BY <1>6, <1>11, <2>2, <3>2, Zenon DEF IInv, RefInv, Live
      <3> QED
        BY <3>1, <3>2, Zenon
    <2> QED
      BY <2>4, Zenon DEF RefInv
  <1>13. OpenInv'
    BY <1>5, <1>6, <1>10, <1>11, Zenon DEF IInv, OpenInv, Live
  <1>14. PollInv'
    BY <1>5, <1>6, <1>11, Zenon DEF IInv, Types, PollInv
  <1>15. SentInv'
    <2>1. ASSUME NEW d \in Channels PROVE PacketInv(d)'
      BY <1>1, <1>5, <1>6, <1>11, PacketsKept, Zenon DEF IInv
    <2> QED
      BY <2>1, Zenon DEF SentInv
  <1> QED
    BY <1>7, <1>8, <1>9, <1>12, <1>13, <1>14, <1>15, LeaveKeeps, Zenon

\* A method that leaves the channels alone returns.
LEMMA LeaveAloneKeeps ==
  ASSUME IInv, NEW t \in Threads, Leaves(t), chan' = chan, gone' = gone,
         call[t].op # "create", call[t].pc = "acquire" \/ call[t].op # "close"
  PROVE  IInv'
  <1>1. UNCHANGED <<channels, polled, dirty, todo, wpc, sent, accepting>>
    BY Zenon DEF Leaves
  <1>2. /\ \A d \in Channels : Queued(d)' <=> Queued(d)
        /\ \A d \in Channels : Creator(d)' <=> Creator(d)
        /\ \A d \in Channels : Unqueued(d)' <=> Unqueued(d)
        /\ \A d \in Channels : Closing(d)' <=> Closing(d)
    BY LeaveFacts, Zenon
  <1>3. ChannelsAge /\ chan' \in [Channels -> ChannelStates] /\ gone' \subseteq Channels
    BY Zenon DEF ChannelsAge, IInv, Types
  <1>4. \A u \in Threads \ {t} : CallerInv(u)'
    BY OthersKeep, Zenon
  <1>5. \A d \in Channels : Holders(d)' = Holders(d)
    BY <1>1, <1>2, Zenon DEF Holders, In
  <1>6. RefInv'
    BY <1>1, <1>5, Zenon DEF IInv, RefInv, Live
  <1>7. OpenInv'
    BY <1>1, <1>2, Zenon DEF IInv, OpenInv, Live
  <1>8. PollInv'
    BY <1>1, Zenon DEF IInv, PollInv
  <1>9. SentInv'
    BY <1>1, PacketsKept, Zenon DEF IInv, SentInv
  <1> QED
    BY <1>3, <1>4, <1>6, <1>7, <1>8, <1>9, LeaveKeeps, Zenon

\* server_waiter_acquire: the waiter is busy and the method fails, or t gets it.
LEMMA AcquireKeeps ==
  ASSUME IInv, NEW t \in Threads, Acquire(t)
  PROVE  IInv'
  <1>1. CASE busy
    <2>1. Leaves(t) /\ chan' = Discard(t) /\ gone' = gone /\ call[t].pc = "acquire"
      BY <1>1, Zenon DEF Acquire, Leaves, workVars
    <2>2. CASE call[t].op = "create"
      BY <2>1, <2>2, DiscardKeeps, Zenon
    <2>3. CASE call[t].op # "create"
      BY <2>1, <2>3, LeaveAloneKeeps, Zenon DEF Discard
    <2> QED
      BY <2>2, <2>3, Zenon
  <1>2. CASE ~busy
    <2>1. /\ call[t].pc = "acquire" /\ busy' = TRUE
          /\ waiter' = [done |-> FALSE, status |-> "ok"]
          /\ call' = [call EXCEPT ![t].pc = "enqueue"]
          /\ UNCHANGED <<gil, cmd_lock, accepting, queue, batch, channels, polled, dirty, wpc,
                         status, todo, stop_seen, chan, server_ref, sent, gone>>
      BY <1>2, Zenon DEF Acquire, workVars
    <2>2. /\ call' \in [Threads -> Calls]
          /\ call'[t].pc = "enqueue" /\ call'[t].op = call[t].op /\ call'[t].ch = call[t].ch
          /\ call'[t].status = call[t].status
          /\ \A u \in Threads \ {t} : call'[u] = call[u]
      BY <2>1, ZenonT(60) DEF IInv, Types, Calls, Pcs
    <2>3. /\ wpc # "selfwait" /\ \A u \in Threads : ~Waits(u)
          /\ \A m \in Range(Line) : ~m.waiter
      BY <1>2, Zenon DEF IInv, BusyInv, LineInv, CommandInv, Awaited, Waits
    <2>4. waiter' \in [done : BOOLEAN, status : Statuses] /\ ~waiter'.done
      BY <2>1, Zenon DEF Statuses
    <2>5. Line' = Line /\ Pending' = Pending
      BY <2>1, Zenon DEF Line, Pending
    <2>6. Referenced' <=> Referenced
      BY <2>1, <2>2, Zenon DEF Referenced, ServerReferenced
    <2>7. Types'
      BY <2>1, <2>2, <2>4, Zenon DEF IInv, Types
    <2>8. CallInv'
      <3>1. /\ CallInv /\ t \in Threads /\ accepting' = accepting /\ gil' = gil
            /\ call[t].pc = "acquire"
        BY <2>1, Zenon DEF IInv
      <3> QED
        BY ONLY <2>2, <3>1 DEF CallInv
    <2>9. BusyInv'
      BY <2>1, <2>2, <2>3, Zenon DEF BusyInv, Waits
    <2>10. LineInv'
      <3>1. ASSUME NEW m \in Range(Line) PROVE CommandInv(m)'
        <4>1. CommandInv(m) /\ ~m.waiter
          BY <2>3, Zenon DEF IInv, LineInv
        <4> QED
          BY <2>1, <2>6, <4>1, Zenon DEF CommandInv, Live
      <3>2. \A u \in Threads : call'[u].pc # "wait"
        BY <2>2, <2>3, Zenon DEF Waits
      <3> QED
        BY <2>4, <2>5, <3>1, <3>2, Zenon DEF IInv, LineInv
    <2>11. WorkInv'
      <3>1. ASSUME wpc = "unref", NEW u \in Threads, call[u].op = "create"
            PROVE  call[u].ch # Head(batch).ch
        BY <2>3, <3>1, Zenon DEF IInv, WorkInv, Waits
      <3> QED
        BY <2>1, <2>2, <3>1, ZenonT(60) DEF IInv, WorkInv
    <2>12. StopInv'
      BY <2>1, <2>2, <2>6, Zenon DEF IInv, StopInv
    <2>13. /\ \A d \in Channels : Creating(d)' <=> Creating(d)
           /\ \A d \in Channels : Queued(d)' <=> Queued(d)
           /\ \A d \in Channels : Creator(d)' <=> Creator(d)
           /\ \A d \in Channels : Unqueued(d)' <=> Unqueued(d)
           /\ \A d \in Channels : Closing(d)' <=> Closing(d)
      BY <2>1, <2>2, <2>5 DEF Creating, Queued, Creator, Unqueued, Closing
    <2>14. MethodInv'
      <3>1. ASSUME NEW u \in Threads PROVE CallerInv(u)'
        <4>1. /\ CallerInv(u) /\ channels' = channels /\ chan' = chan
              /\ call[t].pc = "acquire"
          BY <2>1, Zenon DEF IInv, MethodInv
        <4> QED
          BY ONLY <2>2, <4>1, Zenon DEF CallerInv, Live
      <3>2. \A u \in Threads : call'[u].op = call[u].op /\ call'[u].ch = call[u].ch
        BY <2>2, Zenon
      <3>3. \A u, v \in Threads :
              call'[u].op = "create" /\ call'[v].op = "create" /\ call'[u].ch = call'[v].ch
                => u = v
        BY <3>2, ZenonT(60) DEF IInv, MethodInv
      <3>4. \A d \in Channels : Creating(d)' => d \notin channels'
        BY <2>1, <2>13, Zenon DEF IInv, MethodInv
      <3> QED
        BY <3>1, <3>3, <3>4, Zenon DEF MethodInv
    <2>15. \A d \in Channels : Holders(d)' = Holders(d)
      BY <2>1, <2>13, Zenon DEF Holders, In
    <2>16. RefInv' /\ OpenInv'
      BY <2>1, <2>13, <2>15, Zenon DEF IInv, RefInv, OpenInv, Live
    <2>17. DoneInv'
      <3>1. \A u \in Threads : call'[u].pc \notin {"wait", "release"}
        BY <2>2, <2>3, Zenon DEF Waits
      <3> QED
        BY <2>1, <3>1, Zenon DEF IInv, DoneInv, Done
    <2>18. PollInv'
      BY <2>1, Zenon DEF IInv, PollInv
    <2>19. SentInv'
      BY <2>1, PacketsKept, Zenon DEF IInv, SentInv
    <2> QED
      BY <2>7, <2>8, <2>9, <2>10, <2>11, <2>12, <2>14, <2>16, <2>17, <2>18, <2>19, Zenon DEF IInv
  <1> QED
    BY <1>1, <1>2, Zenon
=============================================================================
