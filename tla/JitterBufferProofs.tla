------------------------- MODULE JitterBufferProofs -------------------------
(***************************************************************************)
(* Theorems about JitterBuffer for every width of the sequence numbers and *)
(* for every network: what the buffer keeps in order, what a call hands    *)
(* over, which of its assertions can fail, and when sequence numbers are   *)
(* unwrapped right.                                                        *)
(***************************************************************************)
EXTENDS JitterBuffer, TLAPS

Lseqs == 0 .. LSEQ_MOD - 1

Ordered(s) == \A i, j \in 1 .. Len(s) : i < j => s[i].lseq < s[j].lseq

-----------------------------------------------------------------------------
(* The inductive invariant, of a buffer with room for at least three frames *)
(* and whatever the network presents.                                       *)

Types ==
  /\ last_lseq \in Lseqs /\ last_max_lseq \in Lseqs /\ last_ts \in 0 .. TS_MOD - 1
  /\ lseq_mask \in Lseqs /\ lseq_mask % SEQ_MOD = 0
  /\ ready \in Seq(Frames) /\ drop \in SUBSET Frames
  /\ aborted \in BOOLEAN /\ newest \in Int /\ noise \in Int

\* last_max_lseq is the number of the tail, or of the last packet made ready.
BufInv ==
  /\ jb \in Seq(Frames) /\ size = Len(jb) /\ size < Capacity
  /\ Ordered(jb)
  /\ last_max_lseq = IF jb = << >> THEN last_lseq ELSE tail.lseq
  /\ jb # << >> /\ ~warm_up => jb[1].lseq > last_lseq + 1

\* An assertion fails only when the tail has the number that says "unset".
AbortInv == aborted => jb # << >> /\ tail.lseq = LMS_DEFAULT

IInv == Types /\ BufInv /\ AbortInv

\* A network that keeps to the window the unwrapping is built for: a packet is
\* less than WRAP_LO away from the newest one the buffer knows of, the first one
\* and every later one comes after number 0 of the stream and before the number
\* that says "unset", and no purge goes back across a wrap.
Near(t) ==
  /\ t \in 0 .. LMS_DEFAULT - 1
  /\ IF lms_warm_up THEN t < SEQ_MOD ELSE t - max1 \in 1 - WRAP_LO .. WRAP_LO - 1

NearNext ==
  /\ ~aborted
  /\ \/ /\ ~Rewinds
        /\ \/ \E t \in Arrivals, c \in Copies : Near(t) /\ udp_in(t, c)
           \/ UdpInFailed
     \/ flush

NearSpec == Init /\ [][NearNext]_vars

\* The wrap windows at both ends of the range of sequence numbers do not meet
\* (536 against 65000 in the code).
WindowsApart == 2 * WRAP_LO <= SEQ_HI + 2

\* lseq_mask belongs to last_max_lseq.
InBlock(m) ==
  IF m = LMS_DEFAULT THEN lseq_mask = 0 ELSE m \in lseq_mask .. lseq_mask + SEQ_MOD - 1

Faithful(s) == \A i \in 1 .. Len(s) : s[i].lseq = s[i].t

NearInv ==
  /\ NoAbort /\ InBlock(last_max_lseq) /\ (jb # << >> => last_max_lseq # LMS_DEFAULT)
  /\ Faithful(jb) /\ Faithful(ready) /\ \A f \in drop : f.lseq = f.t

\* IInv of the buffer after purge_stale_tail.
Purged ==
  /\ jb1 \in Seq(Frames) /\ size1 = Len(jb1) /\ size1 < Capacity
  /\ Ordered(jb1)
  /\ max1 \in Lseqs /\ max1 = IF jb1 = << >> THEN last_lseq ELSE jb1[Len(jb1)].lseq
  /\ jb1 # << >> /\ ~warm_up => jb1[1].lseq > last_lseq + 1
  /\ drop1 \in SUBSET Frames
  /\ jb1 # << >> /\ max1 = LMS_DEFAULT => jb # << >> /\ tail.lseq = LMS_DEFAULT

-----------------------------------------------------------------------------
(* Remainders, least elements, parts of sequences. *)

\* A set of natural numbers has a least element: the induction the lemmas on runs
\* of the list rest on, proved as Least before the theorems are drawn from them.
LeastNumber == \A S \in SUBSET Nat : S # {} => \E m \in S : \A n \in S : m <= n

\* A number of 64 bits keeps its value, one off the end of the range wraps.
LEMMA U64Facts ==
  ASSUME NEW x \in Int
  PROVE  /\ U64(x) \in Lseqs
         /\ x \in Lseqs => U64(x) = x
         /\ x = LSEQ_MOD => U64(x) = 0
         /\ x = -1 => U64(x) = LSEQ_MOD - 1
<1>1. LSEQ_MOD \in Nat \ {0}
  BY SizesAssumption, Zenon
<1> QED
  BY <1>1 DEF U64, Lseqs

\* A number of a frame is one of 64 bits.
LEMMA FrameFacts ==
  ASSUME NEW s \in Seq(Frames), NEW i \in 1 .. Len(s)
  PROVE  /\ s[i] \in Frames /\ s[i].lseq \in Lseqs /\ s[i].lseq \in Int
         /\ s[i].ts \in 0 .. TS_MOD - 1 /\ s[i].jbcnt \in 0 .. Capacity
<1>1. s[i] \in Frames
  OBVIOUS
<1>2. LSEQ_MOD \in Nat
  BY SizesAssumption, Zenon
<1>3. s[i].lseq \in Lseqs /\ s[i].ts \in 0 .. TS_MOD - 1 /\ s[i].jbcnt \in 0 .. Capacity
  BY ONLY <1>1, SMTT(30) DEF Frames, Lseqs
<1>4. \A x \in Lseqs : x \in Int
  BY ONLY <1>2 DEF Lseqs
<1> QED
  BY ONLY <1>1, <1>3, <1>4, Zenon

\* The first n frames of a sequence, and what follows them.
LEMMA PartFacts ==
  ASSUME NEW s \in Seq(Frames), NEW a \in 1 .. Len(s) + 1, NEW b \in 0 .. Len(s), a <= b + 1
  PROVE  /\ SubSeq(s, a, b) \in Seq(Frames)
         /\ Len(SubSeq(s, a, b)) = b - a + 1
         /\ \A i \in 1 .. b - a + 1 : SubSeq(s, a, b)[i] = s[a + i - 1]
<1>1. \A i \in a .. b : s[i] \in Frames
  OBVIOUS
<1>2. a \in Int /\ b \in Int
  OBVIOUS
<1> QED
  BY <1>1, <1>2

-----------------------------------------------------------------------------
(* Runs of consecutive numbers, and the place of a frame. *)

\* The contiguous run at the head exists: advance_list_tail stops somewhere.
LEMMA RunEndFacts ==
  ASSUME LeastNumber, NEW s \in Seq(Frames), s # << >>
  PROVE  /\ RunEnd(s) \in 1 .. Len(s)
         /\ \A i \in 1 .. RunEnd(s) - 1 : Follows(s[i], s[i + 1])
         /\ RunEnd(s) = Len(s) \/ ~Follows(s[RunEnd(s)], s[RunEnd(s) + 1])
<1> DEFINE Ends == {n \in 1 .. Len(s) : n = Len(s) \/ ~Follows(s[n], s[n + 1])}
<1>1. Len(s) \in Nat \ {0}
  OBVIOUS
<1>2. Ends \subseteq Nat /\ Ends # {}
  BY <1>1
<1>3. PICK n \in Ends : \A m \in Ends : n <= m
  <2> HIDE DEF Ends
  <2> QED
    BY <1>2, Zenon DEF LeastNumber
<1>4. ASSUME NEW i \in 1 .. n - 1 PROVE Follows(s[i], s[i + 1])
  <2>1. i \in 1 .. Len(s) /\ i \notin Ends
    BY <1>1, <1>3
  <2> QED
    BY <2>1, Zenon
<1>5. \E k \in 1 .. Len(s) :
        /\ \A i \in 1 .. k - 1 : Follows(s[i], s[i + 1])
        /\ k = Len(s) \/ ~Follows(s[k], s[k + 1])
  BY <1>3, <1>4, Zenon
<1> QED
  BY <1>5, Zenon DEF RunEnd

\* The contiguous run at the tail exists.
LEMMA RunStartFacts ==
  ASSUME LeastNumber, NEW s \in Seq(Frames), s # << >>
  PROVE  /\ RunStart(s) \in 1 .. Len(s)
         /\ \A i \in RunStart(s) .. Len(s) - 1 : Follows(s[i], s[i + 1])
         /\ RunStart(s) = 1 \/ ~Follows(s[RunStart(s) - 1], s[RunStart(s)])
<1> DEFINE Start(m) == m = 1 \/ ~Follows(s[m - 1], s[m])
           Backs == {k \in 0 .. Len(s) - 1 : Start(Len(s) - k)}
<1>1. Len(s) \in Nat \ {0}
  OBVIOUS
<1>2. Backs \subseteq Nat /\ Backs # {}
  <2>1. Len(s) - 1 \in 0 .. Len(s) - 1 /\ Len(s) - (Len(s) - 1) = 1
    BY <1>1
  <2>2. Len(s) - 1 \in Backs
    BY <2>1, Zenon
  <2>3. Backs \subseteq 0 .. Len(s) - 1
    <3> HIDE DEF Start
    <3> QED
      BY Zenon
  <2> HIDE DEF Backs
  <2> QED
    BY <1>1, <2>2, <2>3
<1>3. PICK k \in Backs : \A l \in Backs : k <= l
  <2> HIDE DEF Backs
  <2> QED
    BY <1>2, Zenon DEF LeastNumber
<1>4. PICK m \in 1 .. Len(s) : m = Len(s) - k
  BY <1>1, <1>3
<1>5. Start(m)
  BY <1>3, <1>4, Zenon
<1>6. ASSUME NEW i \in m .. Len(s) - 1 PROVE Follows(s[i], s[i + 1])
  <2>1. Len(s) - (i + 1) \in 0 .. Len(s) - 1 /\ Len(s) - (i + 1) < k
    BY <1>1, <1>3, <1>4
  <2>2. ~Start(Len(s) - (Len(s) - (i + 1)))
    <3> HIDE DEF Start
    <3> QED
      BY <1>3, <2>1
  <2>3. Len(s) - (Len(s) - (i + 1)) = i + 1
    BY <1>1
  <2>4. ~Start(i + 1)
    <3> HIDE DEF Start
    <3> QED
      BY <2>2, <2>3, Zenon
  <2>5. (i + 1) - 1 = i
    BY <1>1
  <2> QED
    BY <2>4, <2>5, Zenon
<1>7. \E n \in 1 .. Len(s) :
        /\ \A i \in n .. Len(s) - 1 : Follows(s[i], s[i + 1])
        /\ n = 1 \/ ~Follows(s[n - 1], s[n])
  BY <1>4, <1>5, <1>6, Zenon
<1> QED
  BY <1>7, Zenon DEF RunStart

\* Among the frames of a buffer every number has a place.
LEMMA PlaceFacts ==
  ASSUME LeastNumber, jb1 \in Seq(Frames), NEW lseq \in Int
  PROVE  /\ Place(lseq) \in 1 .. Len(jb1) + 1
         /\ \A i \in 1 .. Place(lseq) - 1 : jb1[i].lseq < lseq
         /\ Place(lseq) = Len(jb1) + 1 \/ jb1[Place(lseq)].lseq >= lseq
<1> DEFINE Places == {p \in 1 .. Len(jb1) + 1 : p = Len(jb1) + 1 \/ jb1[p].lseq >= lseq}
<1>1. Len(jb1) \in Nat
  OBVIOUS
<1>2. Places \subseteq Nat /\ Places # {}
  <2>1. Len(jb1) + 1 \in Places
    BY <1>1
  <2>2. Places \subseteq 1 .. Len(jb1) + 1
    BY Zenon
  <2> HIDE DEF Places
  <2> QED
    BY <1>1, <2>1, <2>2
<1>3. PICK p \in Places : \A q \in Places : p <= q
  <2> HIDE DEF Places
  <2> QED
    BY <1>2, Zenon DEF LeastNumber
<1>4. ASSUME NEW i \in 1 .. p - 1 PROVE jb1[i].lseq < lseq
  <2>1. i \in 1 .. Len(jb1) /\ i \notin Places
    BY <1>1, <1>3
  <2>2. jb1[i].lseq \in Int
    BY <2>1, FrameFacts, Zenon
  <2>3. ~(jb1[i].lseq >= lseq)
    BY <1>1, <2>1
  <2> QED
    BY <2>2, <2>3
<1>5. \E k \in 1 .. Len(jb1) + 1 :
        /\ \A i \in 1 .. k - 1 : jb1[i].lseq < lseq
        /\ k = Len(jb1) + 1 \/ jb1[k].lseq >= lseq
  BY <1>3, <1>4, Zenon
<1> QED
  BY <1>5, Zenon DEF Place

-----------------------------------------------------------------------------
(* purge_stale_tail. *)

\* Counting a call on the tail of a crowded buffer changes no number.
LEMMA CountedFacts ==
  ASSUME IInv, Crowded, ~Stale
  PROVE  /\ jb1 \in Seq(Frames) /\ Len(jb1) = Len(jb)
         /\ \A i \in 1 .. Len(jb) :
              /\ jb1[i].lseq = jb[i].lseq /\ jb1[i].t = jb[i].t /\ jb1[i].ts = jb[i].ts
<1> DEFINE n == Len(jb)
           g == [jb[n] EXCEPT !.jbcnt = @ + 1]
<1>1. jb \in Seq(Frames) /\ n \in Nat \ {0} /\ jb[n] \in Frames
  BY DEF IInv, BufInv, Crowded
<1>2. jb1 = [jb EXCEPT ![n] = g]
  BY Zenon DEF jb1
<1>3. jb[n].jbcnt \in Nat /\ jb[n].jbcnt + 1 < Capacity /\ Capacity \in Nat
  <2>1. jb[n].jbcnt \in 0 .. Capacity /\ Capacity \in Nat
    BY <1>1, SizesAssumption, Zenon DEF Frames
  <2>2. ~(jb[n].jbcnt + 1 >= Capacity)
    BY Zenon DEF Stale, tail
  <2> QED
    BY <2>1, <2>2
<1>4. /\ g \in Frames /\ g.lseq = jb[n].lseq /\ g.t = jb[n].t /\ g.ts = jb[n].ts
  <2>1. PICK f \in Frames : f = jb[n]
    BY <1>1, Zenon
  <2>2. PICK k \in 0 .. Capacity : k = f.jbcnt + 1
    BY <1>3, <2>1
  <2>3. g = [f EXCEPT !.jbcnt = k]
    BY <2>1, <2>2, Zenon
  <2>4. [f EXCEPT !.jbcnt = k] \in Frames
    BY Zenon DEF Frames
  <2>5. LET h == [f EXCEPT !.jbcnt = k]
        IN  h.lseq = f.lseq /\ h.t = f.t /\ h.ts = f.ts
    BY Zenon DEF Frames
  <2> QED
    BY <2>1, <2>3, <2>4, <2>5, Zenon
<1> HIDE DEF g
<1>5. jb1 \in Seq(Frames) /\ Len(jb1) = n
  BY <1>1, <1>2, <1>4
<1>6. \A i \in 1 .. n : jb1[i] = IF i = n THEN g ELSE jb[i]
  BY <1>1, <1>2
<1> QED
  BY <1>4, <1>5, <1>6, Zenon

\* What purge_stale_tail leaves of a buffer that holds three frames or more.
LEMMA PurgeFacts ==
  ASSUME IInv, Capacity >= 3
  PROVE  Purged
<1>1. /\ jb \in Seq(Frames) /\ size = Len(jb) /\ size < Capacity /\ Ordered(jb)
      /\ last_max_lseq = IF jb = << >> THEN last_lseq ELSE tail.lseq
      /\ jb # << >> /\ ~warm_up => jb[1].lseq > last_lseq + 1
      /\ last_lseq \in Lseqs /\ last_max_lseq \in Lseqs
  BY Zenon DEF IInv, BufInv, Types
<1>2. Capacity \in Nat /\ Len(jb) \in Nat
  BY <1>1, SizesAssumption
<1>3. CASE Stale
  <2>1. Len(jb) >= 2
    BY <1>1, <1>2, <1>3 DEF Stale, Crowded
  <2>2. /\ jb1 \in Seq(Frames) /\ Len(jb1) = Len(jb) - 1
        /\ \A i \in 1 .. Len(jb) - 1 : jb1[i] = jb[i]
    <3>1. jb1 = SubSeq(jb, 1, Len(jb) - 1)
      BY <1>3, Zenon DEF jb1
    <3>2. Len(jb) - 1 \in 0 .. Len(jb) /\ 1 \in 1 .. Len(jb) + 1
      BY <2>1, <1>2
    <3>3. /\ SubSeq(jb, 1, Len(jb) - 1) \in Seq(Frames)
          /\ Len(SubSeq(jb, 1, Len(jb) - 1)) = Len(jb) - 1 - 1 + 1
          /\ \A i \in 1 .. Len(jb) - 1 - 1 + 1 : SubSeq(jb, 1, Len(jb) - 1)[i] = jb[1 + i - 1]
      BY <1>1, <2>1, <3>2, PartFacts
    <3> QED
      BY <3>1, <3>3, <1>2, <2>1
  <2>3. size1 = Len(jb1) /\ size1 < Capacity
    BY <1>1, <1>2, <1>3, <2>2 DEF size1
  <2>4. Ordered(jb1)
    BY <1>1, <1>2, <2>2 DEF Ordered
  <2>5. jb1 # << >> /\ jb1[Len(jb1)] = jb[Len(jb) - 1] /\ jb1[1] = jb[1] /\ jb # << >>
    BY <2>1, <2>2, <1>2
  <2>6. max1 = jb[Len(jb) - 1].lseq
    BY <1>1, <1>2, <1>3, <2>1, <2>5 DEF max1
  <2>7. /\ jb[Len(jb) - 1].lseq \in Lseqs /\ tail.lseq \in Lseqs
        /\ jb[Len(jb) - 1].lseq < tail.lseq
    <3>1. Len(jb) - 1 \in 1 .. Len(jb) /\ Len(jb) \in 1 .. Len(jb) /\ Len(jb) - 1 < Len(jb)
      BY <2>1, <1>2
    <3> QED
      BY <1>1, <3>1, FrameFacts, Zenon DEF Ordered, tail
  <2>8. max1 # LMS_DEFAULT
    BY <2>6, <2>7, SizesAssumption DEF Lseqs, LMS_DEFAULT
  <2>9. drop1 \in SUBSET Frames
    BY <1>1, <1>2, <1>3, <2>1 DEF drop1, tail
  <2> QED
    BY <1>1, <2>2, <2>3, <2>4, <2>5, <2>6, <2>7, <2>8, <2>9, Zenon DEF Purged
<1>4. CASE ~Stale
  <2>1. /\ jb1 \in Seq(Frames) /\ Len(jb1) = Len(jb)
        /\ \A i \in 1 .. Len(jb) : jb1[i].lseq = jb[i].lseq
    <3>1. CASE Crowded
      BY <1>4, <3>1, CountedFacts, Zenon
    <3>2. CASE ~Crowded
      BY <1>1, <1>4, <3>2, Zenon DEF jb1
    <3> QED
      BY <3>1, <3>2, Zenon
  <2>2. size1 = size /\ max1 = last_max_lseq /\ drop1 = {}
    BY <1>4, Zenon DEF size1, max1, drop1
  <2>3. Ordered(jb1)
    BY <1>1, <2>1 DEF Ordered
  <2>4. jb1 = << >> <=> jb = << >>
    BY <1>1, <2>1
  <2>5. jb # << >> => jb1[Len(jb1)].lseq = tail.lseq /\ jb1[1].lseq = jb[1].lseq
    BY <1>1, <1>2, <2>1 DEF tail
  <2> QED
    BY <1>1, <2>1, <2>2, <2>3, <2>4, <2>5, Zenon DEF Purged
<1> QED
  BY <1>3, <1>4, Zenon

-----------------------------------------------------------------------------
(* Frames, runs and insertions. *)

\* A set with a and, with each number from a on and below b, the next one, has
\* all of them.
LEMMA Upwards ==
  ASSUME LeastNumber, NEW a \in Nat, NEW b \in Nat, NEW S, a \in S,
         \A i \in a + 1 .. b : i - 1 \in S => i \in S
  PROVE  \A i \in a .. b : i \in S
<1> DEFINE T == {i \in a .. b : i \notin S}
<1>1. SUFFICES ASSUME T # {} PROVE FALSE
  BY Zenon
<1>2. PICK m \in T : \A i \in T : m <= i
  <2>1. T \subseteq Nat
    OBVIOUS
  <2> HIDE DEF T
  <2> QED
    BY <1>1, <2>1, Zenon DEF LeastNumber
<1>3. m \in a + 1 .. b /\ m \notin S
  OBVIOUS
<1>4. m - 1 \in T
  BY <1>3
<1> QED
  BY <1>2, <1>4

\* In an ordered list a successor has the next number, without wrapping.
LEMMA FollowsFacts ==
  ASSUME NEW s \in Seq(Frames), Ordered(s), NEW i \in 1 .. Len(s) - 1
  PROVE  /\ s[i].lseq < s[i + 1].lseq
         /\ Follows(s[i], s[i + 1]) <=> s[i + 1].lseq = s[i].lseq + 1
<1>1. i \in 1 .. Len(s) /\ i + 1 \in 1 .. Len(s) /\ i < i + 1
  OBVIOUS
<1>2. s[i].lseq \in Lseqs /\ s[i + 1].lseq \in Lseqs /\ s[i].lseq < s[i + 1].lseq
  BY <1>1, FrameFacts, Zenon DEF Ordered
<1>3. s[i].lseq + 1 \in Lseqs
  BY <1>2, SizesAssumption DEF Lseqs
<1>4. s[i].lseq + 1 \in Int
  BY <1>3 DEF Lseqs
<1>5. U64(s[i].lseq + 1) = s[i].lseq + 1
  BY <1>3, <1>4, U64Facts, Zenon
<1> QED
  BY <1>2, <1>5, Zenon DEF Follows

\* The numbers of a stretch of successors count up.
LEMMA CountsUp ==
  ASSUME LeastNumber, NEW s \in Seq(Frames), Ordered(s),
         NEW a \in 1 .. Len(s), NEW b \in a .. Len(s),
         \A i \in a .. b - 1 : Follows(s[i], s[i + 1])
  PROVE  \A i \in a .. b : s[i].lseq = s[a].lseq + (i - a)
<1> DEFINE S == {i \in a .. b : s[i].lseq = s[a].lseq + (i - a)}
<1>1. a \in S
  <2>1. s[a].lseq \in Int
    BY FrameFacts, Zenon
  <2> QED
    BY <2>1
<1>2. ASSUME NEW i \in a + 1 .. b, i - 1 \in S PROVE i \in S
  <2>1. PICK j \in 1 .. Len(s) - 1 : j = i - 1 /\ j + 1 = i /\ j \in a .. b - 1
    OBVIOUS
  <2>2. s[i].lseq = s[i - 1].lseq + 1
    <3>1. Follows(s[j], s[j + 1])
      BY <2>1, Zenon
    <3>2. s[j + 1].lseq = s[j].lseq + 1
      BY <3>1, FollowsFacts, Zenon
    <3> QED
      BY <2>1, <3>2, Zenon
  <2>3. s[a].lseq \in Int
    BY FrameFacts, Zenon
  <2> QED
    BY <1>2, <2>2, <2>3, SMTT(30)
<1>3. a \in Nat /\ b \in Nat
  OBVIOUS
<1>4. \A i \in a .. b : i \in S
  <2> HIDE DEF S
  <2> QED
    BY <1>1, <1>2, <1>3, Upwards, Zenon
<1> QED
  BY <1>4, Zenon

\* The run a full buffer releases, and the gap after it.
LEMMA HeadRunFacts ==
  ASSUME LeastNumber, NEW s \in Seq(Frames), s # << >>, Ordered(s)
  PROVE  LET n == RunEnd(s)
         IN  /\ n \in 1 .. Len(s)
             /\ \A i \in 1 .. n : s[i].lseq = s[1].lseq + (i - 1)
             /\ n < Len(s) => s[n + 1].lseq > s[n].lseq + 1
<1>1. PICK n : n = RunEnd(s)
  BY Zenon
<1>2. /\ n \in 1 .. Len(s)
      /\ \A i \in 1 .. n - 1 : Follows(s[i], s[i + 1])
      /\ n = Len(s) \/ ~Follows(s[n], s[n + 1])
  BY <1>1, RunEndFacts, Zenon
<1>3. \A i \in 1 .. n : s[i].lseq = s[1].lseq + (i - 1)
  <2>1. 1 \in 1 .. Len(s) /\ n \in 1 .. Len(s)
    BY <1>2
  <2> QED
    BY <1>2, <2>1, CountsUp, Zenon
<1>4. ASSUME n < Len(s) PROVE s[n + 1].lseq > s[n].lseq + 1
  <2>1. n \in 1 .. Len(s) - 1 /\ n \in 1 .. Len(s) /\ n + 1 \in 1 .. Len(s)
    BY <1>2, <1>4
  <2>2. s[n].lseq < s[n + 1].lseq /\ s[n + 1].lseq # s[n].lseq + 1
    BY <1>2, <1>4, <2>1, FollowsFacts
  <2>3. s[n].lseq \in Int /\ s[n + 1].lseq \in Int
    BY <2>1, FrameFacts, Zenon
  <2> QED
    BY <2>2, <2>3
<1> QED
  BY <1>1, <1>2, <1>3, <1>4, Zenon

\* The run a flush hands over, and the gap before it.
LEMMA TailRunFacts ==
  ASSUME LeastNumber, NEW s \in Seq(Frames), s # << >>, Ordered(s)
  PROVE  LET m == RunStart(s)
         IN  /\ m \in 1 .. Len(s)
             /\ \A i \in m .. Len(s) : s[i].lseq = s[m].lseq + (i - m)
             /\ m > 1 => s[m].lseq > s[1].lseq + 1
<1>1. PICK m : m = RunStart(s)
  BY Zenon
<1>2. /\ m \in 1 .. Len(s)
      /\ \A i \in m .. Len(s) - 1 : Follows(s[i], s[i + 1])
      /\ m = 1 \/ ~Follows(s[m - 1], s[m])
  BY <1>1, RunStartFacts, Zenon
<1>3. \A i \in m .. Len(s) : s[i].lseq = s[m].lseq + (i - m)
  <2>1. Len(s) \in m .. Len(s)
    BY <1>2
  <2> QED
    BY <1>2, <2>1, CountsUp, Zenon
<1>4. ASSUME m > 1 PROVE s[m].lseq > s[1].lseq + 1
  <2>1. /\ m - 1 \in 1 .. Len(s) - 1 /\ m - 1 \in 1 .. Len(s) /\ (m - 1) + 1 = m
        /\ 1 \in 1 .. Len(s)
    BY <1>2, <1>4
  <2>2. s[m - 1].lseq < s[m].lseq /\ s[m].lseq # s[m - 1].lseq + 1
    BY <1>2, <1>4, <2>1, FollowsFacts
  <2>3. s[m - 1].lseq \in Int /\ s[m].lseq \in Int /\ s[1].lseq \in Int
    BY <1>2, <2>1, FrameFacts, Zenon
  <2>4. s[1].lseq <= s[m - 1].lseq
    <3>1. CASE m - 1 = 1
      BY <3>1, <2>3
    <3>2. CASE 1 < m - 1
      BY <3>2, <2>1, <2>3 DEF Ordered
    <3> QED
      BY <2>1, <3>1, <3>2
  <2> QED
    BY <2>2, <2>3, <2>4, SMTT(30)
<1> QED
  BY <1>1, <1>2, <1>3, <1>4, Zenon

\* A frame built from a datagram.
LEMMA FrameIn ==
  ASSUME NEW t \in MinT .. MaxT, NEW c \in Copies, NEW lseq \in Lseqs
  PROVE  /\ Frame(t, c, lseq) \in Frames
         /\ Frame(t, c, lseq).lseq = lseq /\ Frame(t, c, lseq).t = t
         /\ Frame(t, c, lseq).ts = (TS_BASE + t * TS_STEP) % TS_MOD
         /\ (TS_BASE + t * TS_STEP) % TS_MOD \in 0 .. TS_MOD - 1
<1>1. t \in Int /\ t * TS_STEP \in Int /\ TS_BASE \in Int /\ TS_MOD \in Nat \ {0}
  BY SizesAssumption, NetworkAssumption
<1>2. PICK x \in Int : x = TS_BASE + t * TS_STEP
  BY <1>1
<1>3. x % TS_MOD \in 0 .. TS_MOD - 1
  BY <1>1, <1>2
<1>4. 0 \in 0 .. Capacity
  BY SizesAssumption
<1> QED
  BY <1>2, <1>3, <1>4, Zenon DEF Frame, Frames, Lseqs

\* The buffer with a new frame in its place.
LEMMA InsertedFacts ==
  ASSUME LeastNumber, Purged, NEW t \in MinT .. MaxT, NEW c \in Copies, NEW lseq \in Lseqs,
         ~Duplicate(lseq), jb1 # << >>
  PROVE  LET s == Inserted(t, c, lseq)
         IN  /\ s \in Seq(Frames) /\ Len(s) = Len(jb1) + 1 /\ s # << >>
             /\ Ordered(s)
             /\ s[Len(s)].lseq = IF Place(lseq) = Len(jb1) + 1 THEN lseq ELSE max1
             /\ s[1].lseq = lseq \/ s[1].lseq = jb1[1].lseq
             /\ Place(lseq) = Len(jb1) + 1 => max1 < lseq
<1>1. /\ jb1 \in Seq(Frames) /\ Len(jb1) \in Nat \ {0} /\ Ordered(jb1)
      /\ max1 = jb1[Len(jb1)].lseq
  BY DEF Purged
<1>2. lseq \in Int
  BY DEF Lseqs
<1>3. PICK p \in 1 .. Len(jb1) + 1 :
        /\ p = Place(lseq)
        /\ \A i \in 1 .. p - 1 : jb1[i].lseq < lseq
        /\ p = Len(jb1) + 1 \/ jb1[p].lseq >= lseq
  BY <1>1, <1>2, PlaceFacts, Zenon
<1>4. PICK f \in Frames : f = Frame(t, c, lseq) /\ f.lseq = lseq
  BY FrameIn
<1>5. PICK s : s = Inserted(t, c, lseq)
  BY Zenon
<1>6. s = [i \in 1 .. Len(jb1) + 1 |->
             IF i < p THEN jb1[i] ELSE IF i = p THEN f ELSE jb1[i - 1]]
  BY <1>3, <1>4, <1>5, Zenon DEF Inserted
<1>7. s \in Seq(Frames) /\ Len(s) = Len(jb1) + 1
  <2>1. ASSUME NEW i \in 1 .. Len(jb1) + 1
        PROVE  (IF i < p THEN jb1[i] ELSE IF i = p THEN f ELSE jb1[i - 1]) \in Frames
    <3>1. CASE i < p
      BY <1>1, <1>3, <3>1
    <3>2. CASE i = p
      BY <3>2
    <3>3. CASE i > p
      <4>1. i - 1 \in 1 .. Len(jb1)
        BY <1>1, <1>3, <3>3
      <4> QED
        BY <1>1, <1>3, <3>3, <4>1
    <3> QED
      BY <3>1, <3>2, <3>3, <1>1, <1>3
  <2> QED
    BY <1>1, <1>6, <2>1
<1>8. \A i \in 1 .. Len(jb1) + 1 :
        s[i] = IF i < p THEN jb1[i] ELSE IF i = p THEN f ELSE jb1[i - 1]
  BY <1>6, Zenon
<1>9. \A i \in 1 .. Len(jb1) : jb1[i].lseq \in Int /\ jb1[i].lseq # lseq
  BY <1>1, FrameFacts DEF Duplicate
<1>10. ASSUME NEW i \in p .. Len(jb1) PROVE lseq < jb1[i].lseq
  <2>1. p \in 1 .. Len(jb1) /\ i \in 1 .. Len(jb1)
    BY <1>1, <1>3
  <2>2. lseq < jb1[p].lseq
    BY <1>1, <1>2, <1>3, <1>9, <2>1
  <2>3. CASE i = p
    BY <2>2, <2>3, Zenon
  <2>4. CASE p < i
    <3>1. jb1[p].lseq < jb1[i].lseq
      BY <1>1, <2>1, <2>4, Zenon DEF Ordered
    <3> QED
      BY <1>2, <1>9, <2>1, <2>2, <3>1
  <2> QED
    BY <2>1, <2>3, <2>4
<1>11. ASSUME NEW i \in 1 .. Len(s), NEW j \in 1 .. Len(s), i < j
       PROVE  s[i].lseq < s[j].lseq
  <2>1. CASE j < p
    <3>1. /\ i \in 1 .. Len(jb1) /\ j \in 1 .. Len(jb1)
          /\ s[i] = jb1[i] /\ s[j] = jb1[j]
      BY <1>1, <1>3, <1>7, <1>8, <1>11, <2>1
    <3> QED
      BY <1>1, <1>11, <3>1, Zenon DEF Ordered
  <2>2. CASE j = p
    <3>1. i \in 1 .. p - 1 /\ s[i] = jb1[i] /\ s[j] = f
      BY <1>1, <1>3, <1>7, <1>8, <1>11, <2>2
    <3> QED
      BY <1>3, <1>4, <3>1, Zenon
  <2>3. CASE p < j
    <3>1. j - 1 \in p .. Len(jb1) /\ j - 1 \in 1 .. Len(jb1) /\ s[j] = jb1[j - 1]
      BY <1>1, <1>3, <1>7, <1>8, <2>3
    <3>2. CASE i < p
      <4>1. i \in 1 .. p - 1 /\ i \in 1 .. Len(jb1) /\ s[i] = jb1[i]
        BY <1>1, <1>3, <1>7, <1>8, <3>2
      <4>2. jb1[i].lseq < lseq /\ lseq < jb1[j - 1].lseq
        BY <1>3, <1>10, <3>1, <4>1, Zenon
      <4>3. jb1[i].lseq \in Int /\ jb1[j - 1].lseq \in Int
        BY <1>9, <3>1, <4>1, Zenon
      <4>4. jb1[i].lseq < jb1[j - 1].lseq
        BY ONLY <1>2, <4>2, <4>3
      <4> QED
        BY ONLY <3>1, <4>1, <4>4, Zenon
    <3>3. CASE i = p
      BY <1>4, <1>7, <1>8, <1>10, <3>1, <3>3
    <3>4. CASE p < i
      <4>1. i - 1 \in 1 .. Len(jb1) /\ s[i] = jb1[i - 1] /\ i - 1 < j - 1
        BY <1>1, <1>3, <1>7, <1>8, <1>11, <3>4
      <4>2. jb1[i - 1].lseq < jb1[j - 1].lseq
        BY <1>1, <3>1, <4>1, Zenon DEF Ordered
      <4> QED
        BY ONLY <3>1, <4>1, <4>2, Zenon
    <3> QED
      BY <1>3, <1>7, <3>2, <3>3, <3>4
  <2> QED
    BY <1>3, <1>7, <2>1, <2>2, <2>3
<1>12. s[Len(s)].lseq = IF p = Len(jb1) + 1 THEN lseq ELSE max1
  <2>1. CASE p = Len(jb1) + 1
    BY <1>1, <1>4, <1>7, <1>8, <2>1
  <2>2. CASE p # Len(jb1) + 1
    <3>1. s[Len(s)] = jb1[Len(s) - 1] /\ Len(s) - 1 = Len(jb1)
      BY <1>1, <1>3, <1>7, <1>8, <2>2
    <3> QED
      BY <1>1, <2>2, <3>1, Zenon
  <2> QED
    BY <2>1, <2>2, Zenon
<1>13. s[1].lseq = lseq \/ s[1].lseq = jb1[1].lseq
  BY <1>1, <1>3, <1>4, <1>7, <1>8
<1>14. p = Len(jb1) + 1 => max1 < lseq
  BY <1>1, <1>3
<1>15. Ordered(s) /\ s # << >>
  BY <1>1, <1>7, <1>11 DEF Ordered
<1> QED
  BY <1>3, <1>5, <1>7, <1>12, <1>13, <1>14, <1>15, Zenon

-----------------------------------------------------------------------------
(* The assertions, and what each way through rtpjbuf_udp_in keeps. *)

\* The remainder of a multiple plus a small number.
LEMMA ModUnique ==
  ASSUME NEW m \in Nat \ {0}, NEW q \in Int, NEW r \in 0 .. m - 1
  PROVE  (m * q + r) % m = r
  OBVIOUS

\* Unwrapping a sequence number gives a number of 64 bits, and the mask stays a
\* multiple of the range of sequence numbers.
LEMMA LSeqIn ==
  ASSUME Types, NEW seq \in 0 .. SEQ_MOD - 1
  PROVE  /\ LSeq(seq) \in Lseqs
         /\ NewMask(seq) \in Lseqs /\ NewMask(seq) % SEQ_MOD = 0
<1>1. /\ SEQ_MOD \in Nat \ {0} /\ LSEQ_MOD \in Nat \ {0} /\ LSEQ_MOD % SEQ_MOD = 0
      /\ lseq_mask \in 0 .. LSEQ_MOD - 1 /\ lseq_mask % SEQ_MOD = 0
  BY SizesAssumption, Zenon DEF Types, Lseqs
<1>2. lseq_mask + SEQ_MOD <= LSEQ_MOD
  <2>1. PICK a \in Int, b \in Int : lseq_mask = SEQ_MOD * a /\ LSEQ_MOD = SEQ_MOD * b
    BY <1>1
  <2>2. b - a >= 1
    <3>1. ASSUME b - a <= 0 PROVE FALSE
      <4>1. SEQ_MOD * (b - a) <= 0
        BY <1>1, <3>1
      <4>2. SEQ_MOD * (b - a) = LSEQ_MOD - lseq_mask
        BY <1>1, <2>1
      <4> QED
        BY <1>1, <4>1, <4>2
    <3> QED
      BY <3>1
  <2>3. SEQ_MOD * (b - a) >= SEQ_MOD
    BY <1>1, <2>2
  <2> QED
    BY <1>1, <2>1, <2>3
<1>3. lseq_mask + seq \in Lseqs
  BY <1>1, <1>2 DEF Lseqs
<1>4. U64(lseq_mask + seq - SEQ_MOD) \in Lseqs /\ U64(lseq_mask + seq + SEQ_MOD) \in Lseqs
  BY <1>1, U64Facts
<1>5. U64(lseq_mask + SEQ_MOD) \in Lseqs /\ U64(lseq_mask + SEQ_MOD) % SEQ_MOD = 0
  <2>1. CASE lseq_mask + SEQ_MOD = LSEQ_MOD
    <3>1. U64(lseq_mask + SEQ_MOD) = 0
      BY <1>1, <2>1, U64Facts
    <3> QED
      BY <1>1, <3>1 DEF Lseqs
  <2>2. CASE lseq_mask + SEQ_MOD < LSEQ_MOD
    <3>1. lseq_mask + SEQ_MOD \in Lseqs /\ lseq_mask + SEQ_MOD \in Int
      BY <1>1, <2>2 DEF Lseqs
    <3>2. U64(lseq_mask + SEQ_MOD) = lseq_mask + SEQ_MOD
      BY <3>1, U64Facts, Zenon
    <3>3. (lseq_mask + SEQ_MOD) % SEQ_MOD = 0
      <4>1. PICK a \in Int : lseq_mask = SEQ_MOD * a
        BY <1>1
      <4>2. a + 1 \in Int /\ 0 \in 0 .. SEQ_MOD - 1 /\ SEQ_MOD * (a + 1) + 0 = lseq_mask + SEQ_MOD
        BY <1>1, <4>1
      <4>3. (SEQ_MOD * (a + 1) + 0) % SEQ_MOD = 0
        BY <1>1, <4>2, ModUnique, Zenon
      <4> QED
        BY <4>2, <4>3, Zenon
    <3> QED
      BY <3>1, <3>2, <3>3, Zenon
  <2> QED
    BY <1>1, <1>2, <2>1, <2>2
<1> QED
  BY <1>1, <1>3, <1>4, <1>5, Zenon DEF LSeq, NewMask, Lseqs

\* On entry the buffer is in order with what was made ready, unless the tail has
\* the number that says "unset".
LEMMA EntryFacts ==
  ASSUME IInv, Capacity >= 3, ~EntryOk
  PROVE  jb # << >> /\ tail.lseq = LMS_DEFAULT
<1>1. Purged
  BY PurgeFacts, Zenon
<1>2. last_lseq \in Lseqs
  BY Zenon DEF IInv, Types
<1>3. ASSUME jb1 # << >>, ~warm_up PROVE U64(jb1[1].lseq - 1) > last_lseq
  <2>1. 1 \in 1 .. Len(jb1) /\ jb1 \in Seq(Frames) /\ jb1[1].lseq > last_lseq + 1
    BY <1>1, <1>3 DEF Purged
  <2>2. jb1[1].lseq \in Lseqs
    BY <2>1, FrameFacts, Zenon
  <2>3. jb1[1].lseq - 1 \in Lseqs /\ jb1[1].lseq - 1 \in Int /\ jb1[1].lseq - 1 > last_lseq
    BY <1>2, <2>1, <2>2, SizesAssumption DEF Lseqs
  <2> QED
    BY <2>3, U64Facts, Zenon
<1>4. lms_warm_up /\ jb1 # << >>
  BY <1>3, Zenon DEF EntryOk
<1> QED
  BY <1>1, <1>4, Zenon DEF Purged, lms_warm_up

\* A packet for an empty buffer is after the last one made ready.
LEMMA FreshFacts ==
  ASSUME Types, Purged, EntryOk, NEW lseq \in Lseqs, Fresh(lseq)
  PROVE  jb1 = << >> /\ size1 = 0 /\ max1 = last_lseq /\ (warm_up \/ last_lseq < lseq)
<1>1. jb1 = << >>
  BY Zenon DEF Fresh, EntryOk
<1>2. size1 = 0 /\ max1 = last_lseq
  BY <1>1, Zenon DEF Purged
<1>3. ASSUME ~warm_up PROVE last_lseq < lseq
  <2>1. ~lms_warm_up
    BY <1>2, <1>3, Zenon DEF warm_up, lms_warm_up, LMS_DEFAULT, LRS_DEFAULT
  <2>2. ~(lseq <= last_lseq)
    BY <1>3, <2>1, Zenon DEF Fresh, Late
  <2> QED
    BY <2>2, SizesAssumption DEF Types, Lseqs
<1> QED
  BY <1>1, <1>2, <1>3, Zenon

\* A packet for a buffer in use, and the list with it inserted.
LEMMA InsertFacts ==
  ASSUME LeastNumber, Types, Purged, NEW t \in MinT .. MaxT, NEW c \in Copies, NEW lseq \in Lseqs,
         Insertable(lseq)
  PROVE  LET s == Inserted(t, c, lseq)
         IN  /\ jb1 # << >> /\ ~lms_warm_up
             /\ s \in Seq(Frames) /\ Len(s) = size1 + 1 /\ s # << >> /\ Ordered(s)
             /\ s[Len(s)].lseq = IF Place(lseq) = Len(jb1) + 1 THEN lseq ELSE max1
             /\ ~warm_up => last_lseq < s[1].lseq
             /\ Place(lseq) = Len(jb1) + 1 => max1 < lseq
<1>1. jb1 # << >> /\ ~lms_warm_up /\ ~Duplicate(lseq)
  BY Zenon DEF Insertable, Fresh
<1>2. PICK s : s = Inserted(t, c, lseq)
  BY Zenon
<1>3. /\ s \in Seq(Frames) /\ Len(s) = Len(jb1) + 1 /\ s # << >> /\ Ordered(s)
      /\ s[Len(s)].lseq = IF Place(lseq) = Len(jb1) + 1 THEN lseq ELSE max1
      /\ s[1].lseq = lseq \/ s[1].lseq = jb1[1].lseq
      /\ Place(lseq) = Len(jb1) + 1 => max1 < lseq
  BY <1>1, <1>2, InsertedFacts, Zenon
<1>4. ASSUME ~warm_up PROVE last_lseq < s[1].lseq
  <2>1. last_lseq \in Int /\ lseq \in Int
    BY DEF Types, Lseqs
  <2>2. last_lseq < lseq
    BY <1>1, <1>4, <2>1 DEF Insertable, Late
  <2>3. jb1[1].lseq > last_lseq + 1 /\ 1 \in 1 .. Len(jb1) /\ jb1 \in Seq(Frames)
    BY <1>1, <1>4 DEF Purged
  <2>4. jb1[1].lseq \in Int
    BY <2>3, FrameFacts, Zenon
  <2> QED
    BY <1>3, <2>1, <2>2, <2>3, <2>4
<1>5. size1 = Len(jb1)
  BY Zenon DEF Purged
<1> QED
  BY <1>1, <1>2, <1>3, <1>4, <1>5, Zenon

\* Once the d_asserts on entry hold, no other one of rtpjbuf_udp_in can fail.
LEMMA OnlyEntryAborts ==
  ASSUME LeastNumber, IInv, Capacity >= 3, EntryOk, NEW t \in MinT .. MaxT, NEW c \in Copies
  PROVE  UdpInOk(t, c)
<1>1. Purged /\ Types
  BY PurgeFacts, Zenon DEF IInv
<1>2. PICK lseq \in Lseqs : lseq = LSeq(t % SEQ_MOD)
  <2>1. t % SEQ_MOD \in 0 .. SEQ_MOD - 1
    BY SizesAssumption, NetworkAssumption
  <2> QED
    BY <1>1, <2>1, LSeqIn, Zenon
<1>3. ASSUME Fresh(lseq) PROVE FreshOk(lseq) /\ SaveLastOk(Frame(t, c, lseq))
  <2>1. size1 = 0 /\ max1 = last_lseq /\ (warm_up \/ last_lseq < lseq)
    BY <1>1, <1>3, FreshFacts, Zenon
  <2>2. warm_up => lms_warm_up
    BY <2>1, Zenon DEF warm_up, lms_warm_up, LMS_DEFAULT, LRS_DEFAULT
  <2>3. Frame(t, c, lseq).lseq = lseq
    BY FrameIn
  <2> QED
    BY <2>1, <2>2, <2>3, Zenon DEF FreshOk, SaveLastOk
<1>4. ASSUME Insertable(lseq)
      PROVE  PlaceOk(lseq) /\ ReleaseOk(Inserted(t, c, lseq))
  <2>1. PICK s : s = Inserted(t, c, lseq)
    BY Zenon
  <2>2. /\ s \in Seq(Frames) /\ Len(s) = size1 + 1 /\ s # << >> /\ Ordered(s)
        /\ ~warm_up => last_lseq < s[1].lseq
        /\ Place(lseq) = Len(jb1) + 1 => max1 < lseq
    BY <1>1, <1>4, <2>1, InsertFacts, Zenon
  <2>3. PICK n \in 1 .. Len(s) :
          n = RunEnd(s) /\ \A i \in 1 .. n : s[i].lseq = s[1].lseq + (i - 1)
    BY <2>2, HeadRunFacts, Zenon
  <2>4. s[1].lseq \in Int /\ s[n].lseq = s[1].lseq + (n - 1)
    <3>1. 1 \in 1 .. Len(s)
      BY <2>3
    <3> QED
      BY <2>2, <2>3, <3>1, FrameFacts
  <2>5. ~warm_up => last_lseq < s[n].lseq
    <3>1. last_lseq \in Int
      BY <1>1 DEF Types, Lseqs
    <3>2. n \in Int /\ n >= 1
      BY <2>3
    <3> QED
      BY <2>2, <2>4, <3>1, <3>2
  <2>6. IF n = Len(s) THEN size1 + 1 - n = 0 ELSE size1 + 1 - n > 0
    <3>1. size1 \in Nat
      BY <1>1 DEF Purged
    <3> QED
      BY <2>2, <2>3, <3>1
  <2>7. ReleaseOk(s)
    BY <2>2, <2>3, <2>5, <2>6, Zenon DEF ReleaseOk, SaveLastOk
  <2> QED
    BY <2>1, <2>2, <2>7, Zenon DEF PlaceOk
<1> QED
  BY <1>2, <1>3, <1>4, Zenon DEF UdpInOk

\* A datagram that is not used: only the purge changes the buffer.
LEMMA FailedKeeps ==
  ASSUME IInv, Capacity >= 3, ~aborted, UdpInFailed
  PROVE  IInv'
<1>1. Purged /\ Types
  BY PurgeFacts, Zenon DEF IInv
<1>2. /\ jb' = jb1 /\ size' = size1 /\ last_max_lseq' = max1 /\ ready' = << >>
      /\ drop' = drop1 /\ noise' = noise + 1
      /\ UNCHANGED <<last_lseq, last_ts, lseq_mask, aborted, newest>>
  BY Zenon DEF UdpInFailed, Result
<1>3. Types'
  BY <1>1, <1>2 DEF Types, Purged
<1>4. BufInv'
  BY <1>1, <1>2, Zenon DEF BufInv, Purged, tail, warm_up
<1> QED
  BY <1>2, <1>3, <1>4, Zenon DEF IInv, AbortInv

\* A packet that is late or a duplicate: as before, and it is dropped.
LEMMA DroppedKeeps ==
  ASSUME IInv, Capacity >= 3, ~aborted, newest' \in Int,
         NEW t \in MinT .. MaxT, NEW c \in Copies, UdpInDropped(t, c)
  PROVE  IInv'
<1>1. Purged /\ Types
  BY PurgeFacts, Zenon DEF IInv
<1>2. PICK seq \in 0 .. SEQ_MOD - 1 : seq = t % SEQ_MOD
  BY SizesAssumption, NetworkAssumption
<1>3. PICK lseq \in Lseqs : lseq = LSeq(seq)
  BY <1>1, LSeqIn, Zenon
<1>4. /\ jb' = jb1 /\ size' = size1 /\ last_max_lseq' = max1 /\ ready' = << >>
      /\ drop' = {Frame(t, c, lseq)} \cup drop1 /\ noise' = noise + 1
      /\ lseq_mask' = NewMask(seq) /\ UNCHANGED <<last_lseq, last_ts, aborted>>
  BY <1>2, <1>3, Zenon DEF UdpInDropped, Result
<1>5. Types'
  <2>1. lseq_mask' \in Lseqs /\ lseq_mask' % SEQ_MOD = 0
    BY <1>1, <1>4, LSeqIn, Zenon
  <2>2. drop' \in SUBSET Frames
    BY <1>1, <1>4, FrameIn DEF Purged
  <2> QED
    BY <1>1, <1>4, <2>1, <2>2 DEF Types, Purged
<1>6. BufInv'
  BY <1>1, <1>4, Zenon DEF BufInv, Purged, tail, warm_up
<1> QED
  BY <1>4, <1>5, <1>6, Zenon DEF IInv, AbortInv

\* A packet for an empty buffer is made ready, or waits behind a gap.
LEMMA FreshKeeps ==
  ASSUME IInv, Capacity >= 3, ~aborted, EntryOk, newest' \in Int,
         NEW t \in MinT .. MaxT, NEW c \in Copies, UdpInFresh(t, c)
  PROVE  IInv'
<1>1. Purged /\ Types
  BY PurgeFacts, Zenon DEF IInv
<1>2. PICK seq \in 0 .. SEQ_MOD - 1 : seq = t % SEQ_MOD
  BY SizesAssumption, NetworkAssumption
<1>3. PICK lseq \in Lseqs : lseq = LSeq(seq)
  BY <1>1, LSeqIn, Zenon
<1>4. PICK f \in Frames : f = Frame(t, c, lseq) /\ f.lseq = lseq /\ f.ts \in 0 .. TS_MOD - 1
  BY FrameIn
<1>5. /\ Fresh(lseq) /\ last_max_lseq' = lseq /\ lseq_mask' = NewMask(seq)
      /\ drop' = drop1 /\ UNCHANGED <<aborted, noise>>
      /\ \/ /\ InOrder(lseq)
            /\ last_lseq' = lseq /\ last_ts' = f.ts
            /\ jb' = jb1 /\ size' = size1 /\ ready' = <<f>>
         \/ /\ ~InOrder(lseq)
            /\ jb' = <<f>> /\ size' = 1 /\ ready' = << >>
            /\ UNCHANGED <<last_lseq, last_ts>>
  BY <1>2, <1>3, <1>4, Zenon DEF UdpInFresh, Result, SaveLast
<1>6. jb1 = << >> /\ size1 = 0 /\ max1 = last_lseq /\ (warm_up \/ last_lseq < lseq)
  BY <1>1, <1>5, FreshFacts, Zenon
<1>7. Types'
  <2>1. lseq_mask' \in Lseqs /\ lseq_mask' % SEQ_MOD = 0
    BY <1>1, <1>5, LSeqIn, Zenon
  <2>2. ready' \in Seq(Frames)
    <3>1. <<f>> \in Seq(Frames) /\ << >> \in Seq(Frames)
      OBVIOUS
    <3> QED
      BY <1>5, <3>1, Zenon
  <2>3. drop' \in SUBSET Frames
    BY <1>1, <1>5, Zenon DEF Purged
  <2>4. last_lseq' \in Lseqs /\ last_max_lseq' \in Lseqs /\ last_ts' \in 0 .. TS_MOD - 1
    BY <1>1, <1>4, <1>5, Zenon DEF Types
  <2> QED
    BY <1>1, <1>5, <2>1, <2>2, <2>3, <2>4, Zenon DEF Types
<1>8. BufInv'
  <2>1. Capacity \in Nat /\ Capacity >= 3
    BY SizesAssumption, Zenon
  <2>2. CASE InOrder(lseq)
    <3>1. jb' = << >> /\ size' = 0 /\ last_max_lseq' = last_lseq'
      BY <1>5, <1>6, <2>2, Zenon
    <3>2. << >> \in Seq(Frames) /\ Len(<< >>) = 0 /\ Ordered(<< >>)
      BY DEF Ordered
    <3> QED
      BY <2>1, <3>1, <3>2 DEF BufInv
  <2>3. CASE ~InOrder(lseq)
    <3>1. jb' = <<f>> /\ size' = 1 /\ last_lseq' = last_lseq
      BY <1>5, <2>3, Zenon
    <3>2. /\ <<f>> \in Seq(Frames) /\ Len(<<f>>) = 1 /\ Ordered(<<f>>) /\ <<f>> # << >>
          /\ <<f>>[1] = f
      BY DEF Ordered
    <3>3. ASSUME ~warm_up PROVE lseq > last_lseq + 1
      <4>1. last_lseq \in Int /\ lseq \in Int /\ last_lseq < lseq /\ last_lseq >= 0
        BY <1>1, <1>6, <3>3 DEF Types, Lseqs
      <4>2. lseq - 1 \in Lseqs /\ lseq - 1 \in Int
        BY <4>1, SizesAssumption DEF Lseqs
      <4>3. last_lseq # lseq - 1
        BY <2>3, <3>3, <4>2, U64Facts, Zenon DEF InOrder
      <4> QED
        BY <4>1, <4>3
    <3> QED
      BY <1>4, <1>5, <2>1, <3>1, <3>2, <3>3 DEF BufInv, tail, warm_up
  <2> QED
    BY <2>2, <2>3, Zenon
<1> QED
  BY <1>5, <1>7, <1>8, Zenon DEF IInv, AbortInv

\* A list without the contiguous run at its head is still a buffer in order.
LEMMA RestFacts ==
  ASSUME LeastNumber, NEW s \in Seq(Frames), s # << >>, Ordered(s)
  PROVE  LET n == RunEnd(s)
             r == SubSeq(s, n + 1, Len(s))
         IN  /\ n \in 1 .. Len(s) /\ s[n] \in Frames /\ s[n].lseq \in Lseqs
             /\ s[n].ts \in 0 .. TS_MOD - 1
             /\ r \in Seq(Frames) /\ Len(r) = Len(s) - n /\ Ordered(r)
             /\ s[Len(s)].lseq = IF r = << >> THEN s[n].lseq ELSE r[Len(r)].lseq
             /\ r # << >> => r[1].lseq > s[n].lseq + 1
             /\ SubSeq(s, 1, n) \in Seq(Frames) /\ Len(SubSeq(s, 1, n)) = n
             /\ \A i \in 1 .. n : SubSeq(s, 1, n)[i] = s[i]
             /\ \A i \in 1 .. n : s[i].lseq = s[1].lseq + (i - 1)
<1>1. PICK n : n = RunEnd(s)
  BY Zenon
<1>2. /\ n \in 1 .. Len(s)
      /\ \A i \in 1 .. n : s[i].lseq = s[1].lseq + (i - 1)
      /\ n < Len(s) => s[n + 1].lseq > s[n].lseq + 1
  BY <1>1, HeadRunFacts, Zenon
<1>3. PICK r : r = SubSeq(s, n + 1, Len(s))
  BY Zenon
<1>4. /\ r \in Seq(Frames) /\ Len(r) = Len(s) - n
      /\ \A i \in 1 .. Len(s) - n : r[i] = s[n + i]
  <2>1. n + 1 \in 1 .. Len(s) + 1 /\ Len(s) \in 0 .. Len(s) /\ n + 1 <= Len(s) + 1
    BY <1>2
  <2>2. /\ r \in Seq(Frames) /\ Len(r) = Len(s) - (n + 1) + 1
        /\ \A i \in 1 .. Len(s) - (n + 1) + 1 : r[i] = s[(n + 1) + i - 1]
    BY <1>3, <2>1, PartFacts, Zenon
  <2> QED
    BY <1>2, <2>2
<1>5. Ordered(r)
  <2>1. ASSUME NEW i \in 1 .. Len(r), NEW j \in 1 .. Len(r), i < j
        PROVE  r[i].lseq < r[j].lseq
    <3>1. n + i \in 1 .. Len(s) /\ n + j \in 1 .. Len(s) /\ n + i < n + j
      <4>1. n \in Nat /\ Len(s) \in Nat /\ Len(r) = Len(s) - n
        BY <1>2, <1>4
      <4> QED
        BY ONLY <4>1, <2>1
    <3>2. s[n + i].lseq < s[n + j].lseq
      BY <3>1, Zenon DEF Ordered
    <3> QED
      BY <1>4, <3>2
  <2> QED
    BY <2>1, Zenon DEF Ordered
<1>6. s[Len(s)].lseq = IF r = << >> THEN s[n].lseq ELSE r[Len(r)].lseq
  <2>1. CASE n = Len(s)
    BY <1>4, <2>1
  <2>2. CASE n < Len(s)
    <3>1. r # << >> /\ r[Len(r)] = s[Len(s)]
      BY <1>2, <1>4, <2>2
    <3> QED
      BY <3>1, Zenon
  <2> QED
    BY <1>2, <2>1, <2>2
<1>7. ASSUME r # << >> PROVE r[1].lseq > s[n].lseq + 1
  <2>1. n < Len(s) /\ r[1] = s[n + 1]
    BY <1>2, <1>4, <1>7
  <2> QED
    BY <1>2, <2>1, Zenon
<1>8. /\ SubSeq(s, 1, n) \in Seq(Frames) /\ Len(SubSeq(s, 1, n)) = n
      /\ \A i \in 1 .. n : SubSeq(s, 1, n)[i] = s[i]
  <2>1. 1 \in 1 .. Len(s) + 1 /\ n \in 0 .. Len(s) /\ 1 <= n + 1
    BY <1>2
  <2>2. /\ SubSeq(s, 1, n) \in Seq(Frames) /\ Len(SubSeq(s, 1, n)) = n - 1 + 1
        /\ \A i \in 1 .. n - 1 + 1 : SubSeq(s, 1, n)[i] = s[1 + i - 1]
    BY <2>1, PartFacts, Zenon
  <2> QED
    BY <1>2, <2>2
<1>9. s[n] \in Frames /\ s[n].lseq \in Lseqs /\ s[n].ts \in 0 .. TS_MOD - 1
  BY <1>2, FrameFacts, Zenon
<1> QED
  BY <1>1, <1>2, <1>3, <1>4, <1>5, <1>6, <1>7, <1>8, <1>9, Zenon

\* A packet takes its place; what is contiguous at the head of a full buffer, or
\* follows the last packet made ready, is made ready.
LEMMA InsertedKeeps ==
  ASSUME LeastNumber, IInv, Capacity >= 3, ~aborted, newest' \in Int,
         NEW t \in MinT .. MaxT, NEW c \in Copies, UdpInInserted(t, c)
  PROVE  IInv'
<1>1. Purged /\ Types
  BY PurgeFacts, Zenon DEF IInv
<1>2. PICK seq \in 0 .. SEQ_MOD - 1 : seq = t % SEQ_MOD
  BY SizesAssumption, NetworkAssumption
<1>3. PICK lseq \in Lseqs : lseq = LSeq(seq)
  BY <1>1, LSeqIn, Zenon
<1>4. PICK s : s = Inserted(t, c, lseq)
  BY Zenon
<1>5. PICK n : n = RunEnd(s)
  BY Zenon
<1>6. /\ Insertable(lseq) /\ lseq_mask' = NewMask(seq)
      /\ last_max_lseq' = IF Place(lseq) = Len(jb1) + 1 THEN lseq ELSE max1
      /\ drop' = drop1 /\ UNCHANGED <<aborted, noise>>
      /\ \/ /\ Releases(s)
            /\ jb' = SubSeq(s, n + 1, Len(s)) /\ size' = size1 + 1 - n
            /\ last_lseq' = s[n].lseq /\ last_ts' = s[n].ts /\ ready' = SubSeq(s, 1, n)
         \/ /\ ~Releases(s)
            /\ jb' = s /\ size' = size1 + 1 /\ ready' = << >>
            /\ UNCHANGED <<last_lseq, last_ts>>
  BY <1>2, <1>3, <1>4, <1>5, Zenon DEF UdpInInserted, Result, SaveLast
<1>7. /\ jb1 # << >> /\ ~lms_warm_up
      /\ s \in Seq(Frames) /\ Len(s) = size1 + 1 /\ s # << >> /\ Ordered(s)
      /\ s[Len(s)].lseq = IF Place(lseq) = Len(jb1) + 1 THEN lseq ELSE max1
      /\ ~warm_up => last_lseq < s[1].lseq
  BY <1>1, <1>4, <1>6, InsertFacts, Zenon
<1>8. Capacity \in Nat /\ size1 \in Nat /\ size1 < Capacity
  BY <1>1, SizesAssumption DEF Purged
<1>9. lseq_mask' \in Lseqs /\ lseq_mask' % SEQ_MOD = 0
  BY <1>1, <1>6, LSeqIn, Zenon
<1>10. drop' \in SUBSET Frames /\ last_max_lseq' \in Lseqs /\ last_max_lseq' = s[Len(s)].lseq
  BY <1>1, <1>6, <1>7, Zenon DEF Purged
<1>11. CASE Releases(s)
  <2>1. PICK r : r = SubSeq(s, n + 1, Len(s))
    BY Zenon
  <2>2. /\ n \in 1 .. Len(s) /\ s[n].lseq \in Lseqs /\ s[n].ts \in 0 .. TS_MOD - 1
        /\ r \in Seq(Frames) /\ Len(r) = Len(s) - n /\ Ordered(r)
        /\ s[Len(s)].lseq = IF r = << >> THEN s[n].lseq ELSE r[Len(r)].lseq
        /\ r # << >> => r[1].lseq > s[n].lseq + 1
        /\ SubSeq(s, 1, n) \in Seq(Frames)
    BY <1>5, <1>7, <2>1, RestFacts, Zenon
  <2>3. /\ jb' = r /\ size' = size1 + 1 - n /\ last_lseq' = s[n].lseq /\ last_ts' = s[n].ts
        /\ ready' = SubSeq(s, 1, n)
    BY <1>6, <1>11, <2>1, Zenon
  <2>4. Types'
    <3>1. last_lseq' \in Lseqs /\ last_ts' \in 0 .. TS_MOD - 1 /\ ready' \in Seq(Frames)
      BY ONLY <2>2, <2>3, Zenon
    <3>2. aborted' \in BOOLEAN /\ noise' \in Int
      BY <1>1, <1>6, Zenon DEF Types
    <3> QED
      BY <1>9, <1>10, <3>1, <3>2, Zenon DEF Types
  <2>5. size' = Len(jb') /\ size' < Capacity
    <3>1. n \in Nat /\ n >= 1 /\ Len(s) = size1 + 1 /\ Len(r) = Len(s) - n
      BY <1>7, <1>8, <2>2
    <3>2. Len(r) = size1 + 1 - n /\ size1 + 1 - n < Capacity
      BY ONLY <1>8, <3>1
    <3> QED
      BY ONLY <2>3, <3>2, Zenon
  <2>6. BufInv'
    BY <1>10, <2>2, <2>3, <2>5, SMTT(30) DEF BufInv, tail, warm_up
  <2> QED
    BY <1>6, <2>4, <2>6, Zenon DEF IInv, AbortInv
<1>12. CASE ~Releases(s)
  <2>1. jb' = s /\ size' = size1 + 1 /\ ready' = << >> /\ UNCHANGED <<last_lseq, last_ts>>
    BY <1>6, <1>12, Zenon
  <2>2. Types'
    BY <1>1, <1>6, <1>9, <1>10, <2>1 DEF Types
  <2>3. size' = Len(jb') /\ size' < Capacity
    BY <1>7, <1>8, <1>12, <2>1 DEF Releases
  <2>4. ASSUME ~warm_up PROVE s[1].lseq > last_lseq + 1
    <3>1. s[1].lseq \in Lseqs /\ last_lseq \in Lseqs /\ last_lseq < s[1].lseq
      <4>1. 1 \in 1 .. Len(s) /\ s \in Seq(Frames)
        BY <1>7
      <4>2. s[1].lseq \in Lseqs
        BY ONLY <4>1, FrameFacts, Zenon
      <4> QED
        BY <1>1, <1>7, <2>4, <4>2, Zenon DEF Types
    <3>2. last_lseq + 1 \in Lseqs /\ last_lseq + 1 \in Int
      BY <3>1, SizesAssumption DEF Lseqs
    <3>3. s[1].lseq # last_lseq + 1
      BY <1>12, <2>4, <3>2, U64Facts, Zenon DEF Releases
    <3> QED
      BY <3>1, <3>3 DEF Lseqs
  <2>5. BufInv'
    BY <1>7, <1>10, <2>1, <2>3, <2>4, Zenon DEF BufInv, tail, warm_up
  <2> QED
    BY <1>6, <2>2, <2>5, Zenon DEF IInv, AbortInv
<1> QED
  BY <1>11, <1>12, Zenon

-----------------------------------------------------------------------------
(* rtpjbuf_flush, and every step. *)

\* A flush never fails an assertion; it empties the buffer.
LEMMA FlushFacts ==
  ASSUME IInv, flush, jb # << >>
  PROVE  LET m == RunStart(jb)
         IN  /\ ers' = ErsBefore(jb[m]) /\ ready' = SubSeq(jb, m, Len(jb))
             /\ drop' = Range(SubSeq(jb, 1, m - 1))
             /\ last_lseq' = tail.lseq /\ last_ts' = tail.ts /\ jb' = << >> /\ size' = 0
             /\ UNCHANGED <<last_max_lseq, lseq_mask, aborted, newest, noise>>
<1>1. /\ jb \in Seq(Frames) /\ Len(jb) \in 1 .. Len(jb) /\ 1 \in 1 .. Len(jb) /\ Ordered(jb)
      /\ ~warm_up => jb[1].lseq > last_lseq + 1
      /\ last_lseq \in Lseqs
  BY DEF IInv, BufInv, Types
<1>2. jb[1].lseq \in Lseqs /\ tail.lseq \in Lseqs
  BY <1>1, FrameFacts, Zenon DEF tail
<1>3. ASSUME ~warm_up PROVE U64(jb[1].lseq - 1) > last_lseq /\ last_lseq < tail.lseq
  <2>1. jb[1].lseq - 1 \in Lseqs /\ jb[1].lseq - 1 \in Int /\ jb[1].lseq - 1 > last_lseq
    BY <1>1, <1>2, <1>3, SizesAssumption DEF Lseqs
  <2>2. U64(jb[1].lseq - 1) > last_lseq
    BY <2>1, U64Facts, Zenon
  <2>3. jb[1].lseq <= tail.lseq
    <3>1. CASE Len(jb) = 1
      BY <1>2, <3>1 DEF tail, Lseqs
    <3>2. CASE 1 < Len(jb)
      <4>1. jb[1].lseq < tail.lseq
        BY <1>1, <3>2, Zenon DEF tail, Ordered
      <4> QED
        BY <1>2, <4>1 DEF Lseqs
    <3>3. Len(jb) = 1 \/ 1 < Len(jb)
      BY <1>1
    <3> QED
      BY <3>1, <3>2, <3>3, Zenon
  <2>4. last_lseq < tail.lseq
    BY <1>1, <1>2, <1>3, <2>3 DEF Lseqs
  <2> QED
    BY <2>2, <2>4, Zenon
<1>4. FlushOk
  BY <1>3, Zenon DEF FlushOk, SaveLastOk
<1> QED
  BY <1>4, Zenon DEF flush, SaveLast

\* What a flush makes ready and what it drops are frames of the buffer.
LEMMA FlushedFacts ==
  ASSUME LeastNumber, NEW s \in Seq(Frames), s # << >>, Ordered(s)
  PROVE  LET m == RunStart(s)
         IN  /\ SubSeq(s, m, Len(s)) \in Seq(Frames)
             /\ Len(SubSeq(s, m, Len(s))) = Len(s) - m + 1
             /\ \A i \in 1 .. Len(s) - m + 1 : SubSeq(s, m, Len(s))[i] = s[m + i - 1]
             /\ Range(SubSeq(s, 1, m - 1)) \subseteq Range(s)
             /\ Range(s) \subseteq Frames
<1>1. PICK m : m = RunStart(s)
  BY Zenon
<1>2. m \in 1 .. Len(s)
  BY <1>1, TailRunFacts, Zenon
<1>3. /\ SubSeq(s, m, Len(s)) \in Seq(Frames)
      /\ Len(SubSeq(s, m, Len(s))) = Len(s) - m + 1
      /\ \A i \in 1 .. Len(s) - m + 1 : SubSeq(s, m, Len(s))[i] = s[m + i - 1]
  <2>1. m \in 1 .. Len(s) + 1 /\ Len(s) \in 0 .. Len(s) /\ m <= Len(s) + 1
    BY <1>2
  <2> QED
    BY <2>1, PartFacts, Zenon
<1>4. /\ SubSeq(s, 1, m - 1) \in Seq(Frames) /\ Len(SubSeq(s, 1, m - 1)) = m - 1
      /\ \A i \in 1 .. m - 1 : SubSeq(s, 1, m - 1)[i] = s[i]
  <2>1. 1 \in 1 .. Len(s) + 1 /\ m - 1 \in 0 .. Len(s) /\ 1 <= (m - 1) + 1
    BY <1>2
  <2>2. /\ SubSeq(s, 1, m - 1) \in Seq(Frames) /\ Len(SubSeq(s, 1, m - 1)) = (m - 1) - 1 + 1
        /\ \A i \in 1 .. (m - 1) - 1 + 1 : SubSeq(s, 1, m - 1)[i] = s[1 + i - 1]
    BY <2>1, PartFacts, Zenon
  <2> QED
    BY <1>2, <2>2
<1>5. Range(SubSeq(s, 1, m - 1)) \subseteq Range(s)
  BY <1>2, <1>4 DEF Range
<1>6. Range(s) \subseteq Frames
  BY DEF Range
<1> QED
  BY <1>1, <1>3, <1>5, <1>6, Zenon

\* A flush leaves an empty buffer, and the numbers in order with it.
LEMMA FlushKeeps ==
  ASSUME LeastNumber, IInv, ~aborted, flush
  PROVE  IInv'
<1>1. CASE jb = << >>
  <2>1. /\ ready' = << >> /\ drop' = {}
        /\ UNCHANGED <<last_lseq, last_ts, last_max_lseq, lseq_mask, jb, size, aborted,
                       newest, noise>>
    BY <1>1, Zenon DEF flush, bufVars
  <2>2. Types'
    BY <2>1 DEF IInv, Types
  <2>3. BufInv'
    BY <2>1, Zenon DEF IInv, BufInv, tail, warm_up
  <2> QED
    BY <2>1, <2>2, <2>3, Zenon DEF IInv, AbortInv
<1>2. CASE jb # << >>
  <2>1. PICK m : m = RunStart(jb)
    BY Zenon
  <2>2. /\ ready' = SubSeq(jb, m, Len(jb)) /\ drop' = Range(SubSeq(jb, 1, m - 1))
        /\ last_lseq' = tail.lseq /\ last_ts' = tail.ts /\ jb' = << >> /\ size' = 0
        /\ UNCHANGED <<last_max_lseq, lseq_mask, aborted, newest, noise>>
    BY <1>2, <2>1, FlushFacts, Zenon
  <2>3. /\ jb \in Seq(Frames) /\ Ordered(jb) /\ Len(jb) \in 1 .. Len(jb)
        /\ last_max_lseq = tail.lseq /\ Types
    BY <1>2 DEF IInv, BufInv
  <2>4. tail.lseq \in Lseqs /\ tail.ts \in 0 .. TS_MOD - 1
    BY <2>3, FrameFacts, Zenon DEF tail
  <2>5. ready' \in Seq(Frames) /\ drop' \in SUBSET Frames
    BY <1>2, <2>1, <2>2, <2>3, FlushedFacts, Zenon
  <2>6. Types'
    BY <2>2, <2>3, <2>4, <2>5, Zenon DEF Types
  <2>7. BufInv'
    <3>1. << >> \in Seq(Frames) /\ Len(<< >>) = 0 /\ Ordered(<< >>) /\ 0 < Capacity
      BY SizesAssumption DEF Ordered
    <3> QED
      BY <2>2, <2>3, <3>1, Zenon DEF BufInv
  <2> QED
    BY <2>2, <2>6, <2>7, Zenon DEF IInv, AbortInv
<1> QED
  BY <1>1, <1>2, Zenon

\* The packets the network may present.
LEMMA ArrivalFacts ==
  ASSUME NEW t \in Arrivals
  PROVE  t \in MinT .. MaxT /\ t \in Int
<1>1. MinT \in Int /\ MaxT \in Int
  BY NetworkAssumption, Zenon
<1>2. t >= MinT /\ t <= MaxT /\ t \in newest - Reorder .. newest + Jump
  BY Zenon DEF Arrivals
<1> QED
  BY <1>1, <1>2

\* A call of rtpjbuf_udp_in.
LEMMA UdpInKeeps ==
  ASSUME LeastNumber, IInv, Capacity >= 3, ~aborted, NEW t \in Arrivals, NEW c \in Copies, udp_in(t, c)
  PROVE  IInv'
<1>1. t \in MinT .. MaxT /\ t \in Int
  BY ArrivalFacts, Zenon
<1>2. newest' \in Int
  BY <1>1, Zenon DEF udp_in, IInv, Types
<1>3. CASE EntryOk
  <2>1. UdpInOk(t, c)
    BY <1>1, <1>3, OnlyEntryAborts, Zenon
  <2>2. UdpInDropped(t, c) \/ UdpInFresh(t, c) \/ UdpInInserted(t, c)
    BY <2>1, Zenon DEF udp_in
  <2>3. CASE UdpInDropped(t, c)
    BY <1>1, <1>2, <2>3, DroppedKeeps, Zenon
  <2>4. CASE UdpInFresh(t, c)
    BY <1>1, <1>2, <1>3, <2>4, FreshKeeps, Zenon
  <2>5. CASE UdpInInserted(t, c)
    BY <1>1, <1>2, <2>5, InsertedKeeps, Zenon
  <2> QED
    BY <2>2, <2>3, <2>4, <2>5, Zenon
<1>4. CASE ~EntryOk
  <2>1. jb # << >> /\ tail.lseq = LMS_DEFAULT
    BY <1>4, EntryFacts, Zenon
  <2>2. ~UdpInOk(t, c)
    BY <1>4, Zenon DEF UdpInOk
  <2>3. /\ aborted' = TRUE
        /\ UNCHANGED <<last_lseq, last_ts, last_max_lseq, lseq_mask, jb, size, ready, drop, noise>>
    BY <2>2, Zenon DEF udp_in, bufVars
  <2>4. Types'
    BY <1>2, <2>3, Zenon DEF IInv, Types
  <2>5. BufInv'
    BY <2>3, Zenon DEF IInv, BufInv, tail, warm_up
  <2>6. AbortInv'
    BY <2>1, <2>3, Zenon DEF AbortInv, tail
  <2> QED
    BY <2>4, <2>5, <2>6, Zenon DEF IInv
<1> QED
  BY <1>3, <1>4, Zenon

\* A new buffer.
LEMMA InitHolds == Init => IInv
<1> SUFFICES ASSUME Init PROVE IInv
  BY Zenon
<1>1. LSEQ_MOD - 1 \in Lseqs /\ 0 \in Lseqs /\ 0 % SEQ_MOD = 0 /\ 0 \in 0 .. TS_MOD - 1
      /\ 0 < Capacity
  BY SizesAssumption DEF Lseqs
<1>2. << >> \in Seq(Frames) /\ Len(<< >>) = 0 /\ Ordered(<< >>)
  BY DEF Ordered
<1>3. Types
  <2>1. newest \in Int /\ noise \in Int
    BY NetworkAssumption DEF Init
  <2>2. aborted \in BOOLEAN /\ drop \in SUBSET Frames
    BY Zenon DEF Init
  <2> QED
    BY <1>1, <1>2, <2>1, <2>2, Zenon DEF Init, Types, LRS_DEFAULT, LMS_DEFAULT
<1>4. BufInv
  BY <1>1, <1>2 DEF Init, BufInv, LRS_DEFAULT, LMS_DEFAULT
<1> QED
  BY <1>3, <1>4, Zenon DEF IInv, AbortInv, Init

\* Every step keeps the invariant.
LEMMA NextKeeps ==
  ASSUME LeastNumber, Capacity >= 3, IInv, [Next]_vars
  PROVE  IInv'
<1>1. ASSUME NEW t \in Arrivals, NEW c \in Copies, ~aborted, udp_in(t, c) PROVE IInv'
  BY <1>1, UdpInKeeps, Zenon
<1>2. ASSUME ~aborted, UdpInFailed PROVE IInv'
  BY <1>2, FailedKeeps, Zenon
<1>3. ASSUME ~aborted, flush PROVE IInv'
  BY <1>3, FlushKeeps, Zenon
<1>4. CASE UNCHANGED vars
  <2>1. UNCHANGED <<last_lseq, last_ts, last_max_lseq, lseq_mask, jb, size, ready, drop,
                    aborted, newest, noise>>
    BY <1>4, Zenon DEF vars, bufVars
  <2>2. Types'
    BY <2>1, Zenon DEF IInv, Types
  <2>3. BufInv'
    BY <2>1, Zenon DEF IInv, BufInv, tail, warm_up
  <2>4. AbortInv'
    BY <2>1, Zenon DEF IInv, AbortInv, tail
  <2> QED
    BY <2>2, <2>3, <2>4, Zenon DEF IInv
<1> QED
  BY <1>1, <1>2, <1>3, <1>4, Zenon DEF Next

-----------------------------------------------------------------------------
(* What a call makes ready. *)

\* insert_ers_frame covers the numbers between the last packet made ready and f.
LEMMA ErsFacts ==
  ASSUME Types, NEW f \in Frames, ~warm_up => last_lseq < f.lseq
  PROVE  LET e == ErsBefore(f)
         IN  /\ e # << >> => e[1].lseq_end = f.lseq - 1
             /\ ~warm_up => (IF e = << >> THEN f.lseq ELSE e[1].lseq_start) = last_lseq + 1
             /\ ~warm_up /\ e # << >> => last_lseq + 1 < f.lseq
<1> DEFINE e == ErsBefore(f)
           x == U64(last_lseq + 1)
<1>1. last_lseq \in Lseqs /\ f.lseq \in Lseqs /\ LSEQ_MOD \in Nat \ {0}
  BY SizesAssumption, Zenon DEF Types, Frames, Lseqs
<1>2. last_lseq \in Int /\ f.lseq \in Int
  BY <1>1 DEF Lseqs
<1>3. ASSUME ~warm_up PROVE x = last_lseq + 1
  <2>1. last_lseq + 1 \in Lseqs /\ last_lseq + 1 \in Int
    BY <1>1, <1>3 DEF Lseqs
  <2> QED
    BY <2>1, U64Facts, Zenon
<1>4. ASSUME warm_up PROVE x = 0
  <2>1. last_lseq + 1 = LSEQ_MOD /\ LSEQ_MOD \in Int
    BY <1>1, <1>4 DEF warm_up, LRS_DEFAULT
  <2> QED
    BY <2>1, U64Facts, Zenon
<1>5. CASE x = f.lseq
  <2>1. e = << >>
    BY <1>5, Zenon DEF ErsBefore
  <2> QED
    BY <1>3, <1>5, <2>1, Zenon
<1>6. CASE x # f.lseq
  <2>1. e # << >> /\ e[1].lseq_start = x /\ e[1].lseq_end = U64(f.lseq - 1)
    <3>1. \E d : e = <<[lseq_start |-> x, lseq_end |-> U64(f.lseq - 1), ts_diff |-> d]>>
      BY <1>6, Zenon DEF ErsBefore
    <3> HIDE DEF e, x
    <3> QED
      BY <3>1
  <2>2. f.lseq >= 1
    <3>1. CASE warm_up
      BY <1>1, <1>4, <1>6, <3>1 DEF Lseqs
    <3>2. CASE ~warm_up
      BY <1>1, <3>2 DEF Lseqs
    <3> QED
      BY <3>1, <3>2, Zenon
  <2>3. U64(f.lseq - 1) = f.lseq - 1
    <3>1. f.lseq - 1 \in Lseqs /\ f.lseq - 1 \in Int
      BY <1>1, <2>2 DEF Lseqs
    <3> QED
      BY <3>1, U64Facts, Zenon
  <2>4. ~warm_up => last_lseq + 1 < f.lseq
    BY <1>2, <1>3, <1>6
  <2> HIDE DEF e, x
  <2> QED
    BY <1>3, <2>1, <2>3, <2>4, Zenon DEF e
<1> QED
  BY <1>5, <1>6, Zenon

\* rtpjbuf_udp_in into an empty buffer.
LEMMA FreshContinues ==
  ASSUME IInv, Capacity >= 3, EntryOk,
         NEW t \in MinT .. MaxT, NEW c \in Copies, UdpInFresh(t, c)
  PROVE  StreamStep
<1>1. Purged /\ Types
  BY PurgeFacts, Zenon DEF IInv
<1>2. PICK seq \in 0 .. SEQ_MOD - 1 : seq = t % SEQ_MOD
  BY SizesAssumption, NetworkAssumption
<1>3. PICK lseq \in Lseqs : lseq = LSeq(seq)
  BY <1>1, LSeqIn, Zenon
<1>4. PICK f \in Frames : f = Frame(t, c, lseq) /\ f.lseq = lseq
  BY FrameIn
<1>5. /\ Fresh(lseq) /\ ers' = << >>
      /\ \/ InOrder(lseq) /\ last_lseq' = lseq /\ ready' = <<f>>
         \/ ready' = << >>
  BY <1>2, <1>3, <1>4, Zenon DEF UdpInFresh, Result, SaveLast
<1>6. warm_up \/ last_lseq < lseq
  BY <1>1, <1>5, FreshFacts, Zenon
<1>7. CASE InOrder(lseq) /\ last_lseq' = lseq /\ ready' = <<f>>
  <2>1. ASSUME ~warm_up PROVE lseq = last_lseq + 1
    <3>1. last_lseq \in Lseqs /\ last_lseq < lseq /\ lseq \in Int /\ last_lseq \in Int
      BY <1>1, <1>6, <2>1 DEF Types, Lseqs
    <3>2. lseq - 1 \in Lseqs /\ lseq - 1 \in Int
      BY <3>1, SizesAssumption DEF Lseqs
    <3>3. last_lseq = lseq - 1
      BY <1>7, <2>1, <3>2, U64Facts, Zenon DEF InOrder
    <3> QED
      BY <3>1, <3>3
  <2>2. Len(ready') = 1 /\ DOMAIN ready' = {1} /\ ready'[1].lseq = lseq
    BY <1>4, <1>7
  <2>3. lseq \in Int
    BY DEF Lseqs
  <2> QED
    BY <1>5, <1>7, <2>1, <2>2, <2>3 DEF StreamStep
<1>8. CASE ready' = << >>
  BY <1>8, Zenon DEF StreamStep
<1> QED
  BY <1>5, <1>7, <1>8, Zenon

\* rtpjbuf_udp_in into a buffer in use.
LEMMA InsertedContinues ==
  ASSUME LeastNumber, IInv, Capacity >= 3,
         NEW t \in MinT .. MaxT, NEW c \in Copies, UdpInInserted(t, c)
  PROVE  StreamStep
<1>1. Purged /\ Types
  BY PurgeFacts, Zenon DEF IInv
<1>2. PICK seq \in 0 .. SEQ_MOD - 1 : seq = t % SEQ_MOD
  BY SizesAssumption, NetworkAssumption
<1>3. PICK lseq \in Lseqs : lseq = LSeq(seq)
  BY <1>1, LSeqIn, Zenon
<1>4. PICK s : s = Inserted(t, c, lseq)
  BY Zenon
<1>5. PICK n : n = RunEnd(s)
  BY Zenon
<1>6. /\ Insertable(lseq)
      /\ \/ /\ last_lseq' = s[n].lseq /\ ready' = SubSeq(s, 1, n)
            /\ ers' = IF warm_up THEN << >> ELSE ErsBefore(s[1])
         \/ ready' = << >>
  BY <1>2, <1>3, <1>4, <1>5, Zenon DEF UdpInInserted, Result, SaveLast
<1>7. /\ s \in Seq(Frames) /\ s # << >> /\ Ordered(s) /\ (~warm_up => last_lseq < s[1].lseq)
  BY <1>1, <1>4, <1>6, InsertFacts, Zenon
<1>8. CASE /\ last_lseq' = s[n].lseq /\ ready' = SubSeq(s, 1, n)
           /\ ers' = IF warm_up THEN << >> ELSE ErsBefore(s[1])
  <2>1. /\ n \in 1 .. Len(s)
        /\ ready' \in Seq(Frames) /\ Len(ready') = n
        /\ \A i \in 1 .. n : ready'[i] = s[i]
        /\ \A i \in 1 .. n : s[i].lseq = s[1].lseq + (i - 1)
    BY <1>5, <1>7, <1>8, RestFacts, Zenon
  <2>2. s[1] \in Frames /\ s[1].lseq \in Int
    BY <1>7, FrameFacts
  <2>3. /\ ers' # << >> => ers'[1].lseq_end = s[1].lseq - 1
        /\ ~warm_up => (IF ers' = << >> THEN s[1].lseq ELSE ers'[1].lseq_start) = last_lseq + 1
        /\ ~warm_up /\ ers' # << >> => last_lseq + 1 < s[1].lseq
    BY <1>1, <1>7, <1>8, <2>2, ErsFacts, Zenon
  <2>4. ready'[1] = s[1] /\ ready'[Len(ready')] = s[n] /\ DOMAIN ready' = 1 .. n
    BY <2>1
  <2>5. \A i \in DOMAIN ready' : ready'[i].lseq = s[1].lseq + i - 1
    <3>1. \A i \in 1 .. n : ready'[i].lseq = s[1].lseq + (i - 1) /\ i \in Int
      BY <2>1
    <3> QED
      BY ONLY <2>2, <2>4, <3>1, Zenon
  <2> QED
    BY <1>8, <2>3, <2>4, <2>5, Zenon DEF StreamStep
<1>9. CASE ready' = << >>
  BY <1>9, Zenon DEF StreamStep
<1> QED
  BY <1>6, <1>8, <1>9, Zenon

\* rtpjbuf_flush.
LEMMA FlushContinues ==
  ASSUME LeastNumber, IInv, flush
  PROVE  StreamStep
<1>1. CASE jb = << >>
  BY <1>1, Zenon DEF flush, StreamStep
<1>2. CASE jb # << >>
  <2>1. PICK m : m = RunStart(jb)
    BY Zenon
  <2>2. /\ ers' = ErsBefore(jb[m]) /\ ready' = SubSeq(jb, m, Len(jb))
        /\ last_lseq' = jb[Len(jb)].lseq
    BY <1>2, <2>1, FlushFacts, Zenon DEF tail
  <2>3. /\ jb \in Seq(Frames) /\ Ordered(jb) /\ Types
        /\ ~warm_up => jb[1].lseq > last_lseq + 1
    BY <1>2, Zenon DEF IInv, BufInv
  <2>4. /\ m \in 1 .. Len(jb)
        /\ \A i \in m .. Len(jb) : jb[i].lseq = jb[m].lseq + (i - m)
        /\ m > 1 => jb[m].lseq > jb[1].lseq + 1
    BY <1>2, <2>1, <2>3, TailRunFacts, Zenon
  <2>5. /\ Len(ready') = Len(jb) - m + 1 /\ ready' \in Seq(Frames)
        /\ \A i \in 1 .. Len(jb) - m + 1 : ready'[i] = jb[m + i - 1]
    BY <1>2, <2>1, <2>2, <2>3, FlushedFacts, Zenon
  <2>6. jb[m] \in Frames /\ jb[m].lseq \in Int /\ jb[1].lseq \in Int /\ last_lseq \in Int
    <3>1. 1 \in 1 .. Len(jb)
      BY <2>4
    <3> QED
      BY <2>3, <2>4, <3>1, FrameFacts DEF Types, Lseqs
  <2>7. ~warm_up => last_lseq < jb[m].lseq
    <3>1. m = 1 \/ jb[m].lseq > jb[1].lseq + 1
      BY <2>4
    <3>2. ~warm_up => jb[1].lseq > last_lseq + 1
      BY <2>3, Zenon
    <3> QED
      BY ONLY <2>6, <3>1, <3>2
  <2>8. /\ ers' # << >> => ers'[1].lseq_end = jb[m].lseq - 1
        /\ ~warm_up => (IF ers' = << >> THEN jb[m].lseq ELSE ers'[1].lseq_start) = last_lseq + 1
        /\ ~warm_up /\ ers' # << >> => last_lseq + 1 < jb[m].lseq
    BY <2>2, <2>3, <2>6, <2>7, ErsFacts, Zenon
  <2>9. /\ ready'[1] = jb[m] /\ ready'[Len(ready')] = jb[Len(jb)]
        /\ DOMAIN ready' = 1 .. Len(jb) - m + 1
    <3>1. m \in 1 .. Len(jb) /\ Len(jb) \in Nat
      <4>1. m \in 1 .. Len(jb) /\ jb \in Seq(Frames)
        BY <2>3, <2>4, Zenon
      <4> QED
        BY ONLY <4>1
    <3>2. /\ 1 \in 1 .. Len(jb) - m + 1 /\ m + 1 - 1 = m
          /\ Len(jb) - m + 1 \in 1 .. Len(jb) - m + 1
          /\ m + (Len(jb) - m + 1) - 1 = Len(jb)
      BY ONLY <3>1
    <3>3. ready' \in Seq(Frames)
      BY <2>5, Zenon
    <3>4. DOMAIN ready' = 1 .. Len(ready')
      BY ONLY <3>3
    <3>5. ready'[1] = jb[m + 1 - 1]
          /\ ready'[Len(jb) - m + 1] = jb[m + (Len(jb) - m + 1) - 1]
      BY <2>5, <3>2, Zenon
    <3> QED
      BY <2>5, <3>2, <3>4, <3>5, Zenon
  <2>10. ASSUME NEW i \in DOMAIN ready' PROVE ready'[i].lseq = jb[m].lseq + i - 1
    <3>1. i \in 1 .. Len(jb) - m + 1 /\ m + i - 1 \in m .. Len(jb)
      BY <2>4, <2>9, <2>10
    <3>2. jb[m + i - 1].lseq = jb[m].lseq + ((m + i - 1) - m)
      BY <2>4, <3>1, Zenon
    <3>3. i \in Int /\ m \in Int
      BY <2>4, <3>1
    <3>4. ready'[i] = jb[m + i - 1]
      BY <2>5, <3>1, Zenon
    <3> QED
      BY ONLY <2>6, <3>2, <3>3, <3>4
  <2> QED
    BY <2>2, <2>8, <2>9, <2>10, Zenon DEF StreamStep
<1> QED
  BY <1>1, <1>2, Zenon

-----------------------------------------------------------------------------
(* Sequence numbers within the window. *)

\* A number without remainder is a multiple.
LEMMA Multiple ==
  ASSUME NEW m \in Nat \ {0}, NEW x \in Int, x % m = 0
  PROVE  \E a \in Int : x = m * a
<1>1. x = m * (x \div m) + (x % m) /\ x \div m \in Int
  OBVIOUS
<1> QED
  BY <1>1

\* A sequence number within the window is unwrapped to the number of the packet
\* the sender sent, before, on and after a wrap, and the mask moves with it.
LEMMA Unwrapped ==
  ASSUME Types, WindowsApart, max1 \in Lseqs, InBlock(max1), NEW t \in Int, Near(t)
  PROVE  LET seq == t % SEQ_MOD
         IN  /\ LSeq(seq) = t
             /\ lms_warm_up \/ t > max1 => t \in NewMask(seq) .. NewMask(seq) + SEQ_MOD - 1
             /\ ~lms_warm_up /\ t <= max1 => NewMask(seq) = lseq_mask
<1> DEFINE M == lseq_mask
           S == SEQ_MOD
           H == SEQ_HI
           seq == t % S
<1>1. /\ S \in Nat \ {0} /\ H \in 0 .. S - 1 /\ LSEQ_MOD \in Nat \ {0} /\ WRAP_LO = S - H
      /\ 2 * (S - H) <= H + 2 /\ M \in 0 .. LSEQ_MOD - 1 /\ M % S = 0
      /\ max1 \in 0 .. LSEQ_MOD - 1 /\ t \in 0 .. LSEQ_MOD - 2 /\ t \in Lseqs
  BY SizesAssumption DEF Types, WindowsApart, WRAP_LO, Lseqs, Near, LMS_DEFAULT
<1>2. U64(t) = t
  BY <1>1, U64Facts, Zenon
<1>3. PICK a \in Int : M = S * a
  <2>1. S \in Nat \ {0} /\ M \in Int /\ M % S = 0
    BY <1>1
  <2> HIDE DEF M, S
  <2> QED
    BY <2>1, Multiple, Zenon
<1>4. CASE lms_warm_up
  <2>1. M = 0 /\ t \in 0 .. S - 1
    BY <1>1, <1>4 DEF InBlock, Near, lms_warm_up
  <2>2. seq = t
    BY <1>1, <2>1
  <2>3. ~PreWrap(seq) /\ ~Wraps(seq)
    BY <1>4, Zenon DEF PreWrap, Wraps
  <2>4. LSeq(seq) = M + seq /\ NewMask(seq) = M
    BY <2>3, Zenon DEF LSeq, NewMask
  <2> HIDE DEF seq
  <2> QED
    BY <1>1, <1>4, <2>1, <2>2, <2>4 DEF seq
<1>5. CASE ~lms_warm_up
  <2>1. /\ max1 \in M .. M + S - 1
        /\ t - max1 \in 1 - (S - H) .. (S - H) - 1
    BY <1>1, <1>5, Zenon DEF InBlock, Near, lms_warm_up
  <2>2. max1 % S = max1 - M
    <3>1. max1 - M \in 0 .. S - 1 /\ S * a + (max1 - M) = max1
      BY <1>1, <1>3, <2>1
    <3>2. (S * a + (max1 - M)) % S = max1 - M
      BY <1>1, <3>1, ModUnique, Zenon
    <3> QED
      BY <3>1, <3>2, Zenon
  <2>3. CASE t < M
    <3>1. seq = t - M + S
      <4>1. t - M + S \in 0 .. S - 1 /\ S * (a - 1) + (t - M + S) = t /\ a - 1 \in Int
        BY <1>1, <1>3, <2>1, <2>3
      <4>2. (S * (a - 1) + (t - M + S)) % S = t - M + S
        BY <1>1, <4>1, ModUnique, Zenon
      <4> QED
        BY <4>1, <4>2, Zenon
    <3> HIDE DEF seq
    <3>2. max1 - M < S - H /\ seq > H
      BY <1>1, <2>1, <2>3, <3>1
    <3>3. PreWrap(seq) /\ ~Wraps(seq)
      BY <1>1, <1>5, <2>2, <3>2, Zenon DEF PreWrap, Wraps
    <3>4. M + seq - S = t
      BY <1>1, <3>1
    <3>5. LSeq(seq) = t /\ NewMask(seq) = M
      BY <1>2, <3>3, <3>4, Zenon DEF LSeq, NewMask
    <3>6. ~(t > max1)
      BY <1>1, <2>1, <2>3
    <3> QED
      BY <1>5, <3>5, <3>6, Zenon DEF seq
  <2>4. CASE t \in M .. M + S - 1
    <3>1. seq = t - M
      <4>1. t - M \in 0 .. S - 1 /\ S * a + (t - M) = t
        BY <1>1, <1>3, <2>4
      <4>2. (S * a + (t - M)) % S = t - M
        BY <1>1, <4>1, ModUnique, Zenon
      <4> QED
        BY <4>1, <4>2, Zenon
    <3> HIDE DEF seq
    <3>2. ~(max1 - M < S - H /\ seq > H)
      BY <1>1, <2>1, <2>4, <3>1
    <3>3. ~(M + seq < max1 - H) /\ M + seq = t
      BY <1>1, <2>1, <2>4, <3>1
    <3>4. ~PreWrap(seq) /\ ~Wraps(seq)
      BY <1>1, <2>2, <3>2, <3>3, Zenon DEF PreWrap, Wraps
    <3>5. LSeq(seq) = t /\ NewMask(seq) = M
      BY <3>3, <3>4, Zenon DEF LSeq, NewMask
    <3> QED
      BY <2>4, <3>5, Zenon DEF seq
  <2>5. CASE t >= M + S
    <3>1. seq = t - M - S
      <4>1. t - M - S \in 0 .. S - 1 /\ S * (a + 1) + (t - M - S) = t /\ a + 1 \in Int
        BY <1>1, <1>3, <2>1, <2>5
      <4>2. (S * (a + 1) + (t - M - S)) % S = t - M - S
        BY <1>1, <4>1, ModUnique, Zenon
      <4> QED
        BY <4>1, <4>2, Zenon
    <3> HIDE DEF seq
    <3>2. ~(max1 - M < S - H) /\ max1 > H /\ M + seq < max1 - H
      BY <1>1, <2>1, <2>5, <3>1
    <3>3. ~PreWrap(seq) /\ Wraps(seq)
      BY <1>1, <1>5, <2>2, <3>2, Zenon DEF PreWrap, Wraps
    <3>4. M + seq + S = t /\ U64(M + S) = M + S
      <4>1. M + S \in Lseqs /\ M + S \in Int
        BY <1>1, <2>5 DEF Lseqs
      <4>2. U64(M + S) = M + S
        BY <4>1, U64Facts, Zenon
      <4> QED
        BY <1>1, <3>1, <4>2
    <3>5. LSeq(seq) = t /\ NewMask(seq) = M + S
      BY <1>2, <3>3, <3>4, Zenon DEF LSeq, NewMask
    <3>6. t > max1 /\ t \in M + S .. M + S + S - 1
      BY <1>1, <2>1, <2>5
    <3> QED
      BY <1>1, <3>5, <3>6 DEF seq
  <2> QED
    BY <1>1, <2>3, <2>4, <2>5
<1> QED
  BY <1>4, <1>5, Zenon

\* The purge changes no number, and the mask still belongs to last_max_lseq
\* unless it went back across a wrap.
LEMMA PurgeNear ==
  ASSUME IInv, NearInv, Capacity >= 3, ~Rewinds
  PROVE  /\ InBlock(max1) /\ Faithful(jb1) /\ \A f \in drop1 : f.lseq = f.t
         /\ jb1 # << >> => ~lms_warm_up
         /\ EntryOk
<1>1. /\ jb \in Seq(Frames) /\ Len(jb) \in Nat /\ size = Len(jb) /\ Faithful(jb)
      /\ InBlock(last_max_lseq) /\ last_max_lseq \in Lseqs /\ lseq_mask \in Lseqs
      /\ jb # << >> => last_max_lseq # LMS_DEFAULT /\ last_max_lseq = tail.lseq
  BY DEF IInv, BufInv, NearInv, Types
<1>2. Purged
  BY PurgeFacts, Zenon
<1>3. EntryOk
  BY <1>1, EntryFacts, Zenon
<1>4. jb1 # << >> => ~lms_warm_up
  BY <1>3, Zenon DEF EntryOk
<1>5. CASE Stale
  <2>1. /\ jb1 = SubSeq(jb, 1, Len(jb) - 1) /\ drop1 = {tail} /\ Len(jb) >= 2
        /\ last_max_lseq = tail.lseq /\ max1 >= lseq_mask
    <3>1. Len(jb) >= 2 /\ jb # << >>
      BY <1>1, <1>5, SizesAssumption DEF Stale, Crowded
    <3>2. max1 \in Int /\ lseq_mask \in Int
      BY <1>1, <1>2 DEF Purged, Lseqs
    <3>3. max1 >= lseq_mask
      BY <1>5, <3>2 DEF Rewinds
    <3> QED
      BY <1>1, <1>5, <3>1, <3>3, Zenon DEF jb1, drop1
  <2>2. \A f \in drop1 : f.lseq = f.t
    BY <1>1, <2>1 DEF Faithful, tail
  <2>3. Len(jb1) = Len(jb) - 1 /\ \A i \in 1 .. Len(jb) - 1 : jb1[i] = jb[i]
    <3>1. 1 \in 1 .. Len(jb) + 1 /\ Len(jb) - 1 \in 0 .. Len(jb) /\ 1 <= (Len(jb) - 1) + 1
      BY <1>1, <2>1
    <3>2. /\ Len(SubSeq(jb, 1, Len(jb) - 1)) = (Len(jb) - 1) - 1 + 1
          /\ \A i \in 1 .. (Len(jb) - 1) - 1 + 1 : SubSeq(jb, 1, Len(jb) - 1)[i] = jb[1 + i - 1]
      BY <1>1, <3>1, PartFacts, Zenon
    <3> QED
      BY <1>1, <2>1, <3>2
  <2>4. Faithful(jb1)
    BY <1>1, <2>3 DEF Faithful
  <2>5. max1 < last_max_lseq
    <3>1. /\ max1 = jb[Len(jb) - 1].lseq /\ Len(jb) - 1 \in 1 .. Len(jb)
          /\ Len(jb) \in 1 .. Len(jb) /\ Len(jb) - 1 < Len(jb)
      BY <1>1, <1>5, <2>1 DEF max1
    <3>2. Ordered(jb)
      BY Zenon DEF IInv, BufInv
    <3> QED
      BY <2>1, <3>1, <3>2, Zenon DEF Ordered, tail
  <2>6. last_max_lseq \in lseq_mask .. lseq_mask + SEQ_MOD - 1
    <3>1. jb # << >>
      BY <2>1
    <3> QED
      BY <1>1, <3>1, Zenon DEF InBlock
  <2>7. max1 \in lseq_mask .. lseq_mask + SEQ_MOD - 1 /\ max1 # LMS_DEFAULT
    <3>1. max1 \in Int /\ last_max_lseq \in 0 .. LSEQ_MOD - 1 /\ lseq_mask \in Int
      BY <1>1, <1>2 DEF Purged, Lseqs
    <3>2. SEQ_MOD \in Int /\ LSEQ_MOD \in Int
      BY SizesAssumption
    <3> QED
      BY <2>1, <2>5, <2>6, <3>1, <3>2 DEF LMS_DEFAULT
  <2> QED
    BY <1>3, <1>4, <2>2, <2>4, <2>7, Zenon DEF InBlock
<1>6. CASE ~Stale
  <2>1. max1 = last_max_lseq /\ drop1 = {}
    BY <1>6, Zenon DEF max1, drop1
  <2>2. Faithful(jb1)
    <3>1. CASE Crowded
      BY <1>1, <1>6, <3>1, CountedFacts, Zenon DEF Faithful
    <3>2. CASE ~Crowded
      BY <1>1, <1>6, <3>2, Zenon DEF jb1
    <3> QED
      BY <3>1, <3>2, Zenon
  <2> QED
    BY <1>1, <1>3, <1>4, <2>1, <2>2, Zenon
<1> QED
  BY <1>5, <1>6, Zenon

\* Nothing buffered is after last_max_lseq, nothing made ready either.
LEMMA BelowMax ==
  ASSUME Purged, Types
  PROVE  /\ \A i \in 1 .. Len(jb1) : jb1[i].lseq <= max1
         /\ ~warm_up => last_lseq <= max1
<1>1. jb1 \in Seq(Frames) /\ Len(jb1) \in Nat /\ Ordered(jb1) /\ last_lseq \in Int
  BY DEF Purged, Types, Lseqs
<1>2. ASSUME NEW i \in 1 .. Len(jb1) PROVE jb1[i].lseq <= max1
  <2>1. max1 = jb1[Len(jb1)].lseq /\ Len(jb1) \in 1 .. Len(jb1)
    BY <1>1 DEF Purged
  <2>2. jb1[i].lseq \in Int /\ max1 \in Int
    BY <1>1, <2>1, FrameFacts, Zenon
  <2>3. CASE i = Len(jb1)
    BY <2>1, <2>2, <2>3
  <2>4. CASE i < Len(jb1)
    <3>1. jb1[i].lseq < max1
      BY <1>1, <2>1, <2>4, Zenon DEF Ordered
    <3> QED
      BY <2>2, <3>1
  <2>5. i = Len(jb1) \/ i < Len(jb1)
    BY <1>1
  <2> QED
    BY <2>3, <2>4, <2>5, Zenon
<1>3. ASSUME ~warm_up PROVE last_lseq <= max1
  <2>1. CASE jb1 = << >>
    BY <1>1, <2>1 DEF Purged
  <2>2. CASE jb1 # << >>
    <3>1. 1 \in 1 .. Len(jb1) /\ jb1[1].lseq > last_lseq + 1
      BY <1>1, <1>3, <2>2 DEF Purged
    <3>2. jb1[1].lseq \in Int /\ max1 \in Int /\ jb1[1].lseq <= max1
      BY <1>1, <1>2, <3>1, FrameFacts DEF Purged, Lseqs
    <3> QED
      BY <1>1, <3>1, <3>2
  <2> QED
    BY <2>1, <2>2, Zenon
<1> QED
  BY <1>2, <1>3, Zenon

\* A frame with the right number, inserted among frames with the right numbers.
LEMMA InsertedFaithful ==
  ASSUME LeastNumber, jb1 \in Seq(Frames), Faithful(jb1),
         NEW t \in MinT .. MaxT, NEW c \in Copies, t \in Lseqs
  PROVE  LET s == Inserted(t, c, t)
         IN  \A i \in 1 .. Len(jb1) + 1 : s[i].lseq = s[i].t
<1>1. Len(jb1) \in Nat /\ t \in Int
  BY DEF Lseqs
<1>2. PICK p \in 1 .. Len(jb1) + 1 : p = Place(t)
  BY <1>1, PlaceFacts, Zenon
<1>3. PICK f : f = Frame(t, c, t) /\ f.lseq = f.t
  BY FrameIn
<1>4. PICK s : s = Inserted(t, c, t)
  BY Zenon
<1>5. s = [i \in 1 .. Len(jb1) + 1 |->
             IF i < p THEN jb1[i] ELSE IF i = p THEN f ELSE jb1[i - 1]]
  BY <1>2, <1>3, <1>4, Zenon DEF Inserted
<1>6. ASSUME NEW i \in 1 .. Len(jb1) + 1 PROVE s[i].lseq = s[i].t
  <2>1. CASE i < p
    <3>1. s[i] = jb1[i] /\ i \in 1 .. Len(jb1)
      BY <1>1, <1>5, <2>1
    <3> QED
      BY <3>1, Zenon DEF Faithful
  <2>2. CASE i = p
    BY <1>3, <1>5, <2>2
  <2>3. CASE p < i
    <3>1. s[i] = jb1[i - 1] /\ i - 1 \in 1 .. Len(jb1)
      BY <1>1, <1>5, <2>3
    <3> QED
      BY <3>1, Zenon DEF Faithful
  <2>4. i < p \/ i = p \/ p < i
    BY <1>1
  <2> QED
    BY <2>1, <2>2, <2>3, <2>4, Zenon
<1> QED
  BY <1>4, <1>6, Zenon

\* An unused datagram.
LEMMA FailedNear ==
  ASSUME IInv, NearInv, Capacity >= 3, ~Rewinds, UdpInFailed
  PROVE  NearInv'
<1>1. /\ InBlock(max1) /\ Faithful(jb1) /\ \A f \in drop1 : f.lseq = f.t
      /\ jb1 # << >> => ~lms_warm_up
  BY PurgeNear, Zenon
<1>2. /\ jb' = jb1 /\ last_max_lseq' = max1 /\ ready' = << >> /\ drop' = drop1
      /\ UNCHANGED <<lseq_mask, aborted>>
  BY Zenon DEF UdpInFailed, Result
<1>3. Faithful(<< >>)
  BY DEF Faithful
<1>4. NoAbort'
  BY <1>2, Zenon DEF NearInv, NoAbort
<1>5. InBlock(last_max_lseq)'
  BY <1>1, <1>2, Zenon DEF InBlock
<1>6. Faithful(jb)' /\ Faithful(ready)'
  BY <1>1, <1>2, <1>3, Zenon DEF Faithful
<1> QED
  BY <1>1, <1>2, <1>4, <1>5, <1>6, Zenon DEF NearInv, lms_warm_up

\* A late or duplicate packet was not a new one.
LEMMA DroppedNear ==
  ASSUME IInv, NearInv, Capacity >= 3, WindowsApart, ~Rewinds,
         NEW t \in MinT .. MaxT, NEW c \in Copies, Near(t), UdpInDropped(t, c)
  PROVE  NearInv'
<1>1. /\ InBlock(max1) /\ Faithful(jb1) /\ \A f \in drop1 : f.lseq = f.t
      /\ jb1 # << >> => ~lms_warm_up
  BY PurgeNear, Zenon
<1>2. Purged /\ Types /\ max1 \in Lseqs /\ t \in Int
  BY PurgeFacts, NetworkAssumption DEF IInv, Purged
<1>3. PICK seq : seq = t % SEQ_MOD
  BY Zenon
<1>4. LSeq(seq) = t /\ (~lms_warm_up /\ t <= max1 => NewMask(seq) = lseq_mask)
  BY <1>1, <1>2, <1>3, Unwrapped, Zenon
<1>5. /\ jb' = jb1 /\ last_max_lseq' = max1 /\ ready' = << >>
      /\ drop' = {Frame(t, c, t)} \cup drop1 /\ lseq_mask' = NewMask(seq)
      /\ aborted' = aborted /\ (Late(t) \/ (~Fresh(t) /\ Duplicate(t)))
  BY <1>3, <1>4, Zenon DEF UdpInDropped, Result
<1>6. ~lms_warm_up /\ t <= max1
  <2>1. CASE Late(t)
    <3>1. ~lms_warm_up /\ ~warm_up /\ t <= last_lseq
      BY <2>1, Zenon DEF Late
    <3>2. last_lseq <= max1 /\ last_lseq \in Int /\ max1 \in Int
      BY <1>2, <3>1, BelowMax DEF Types, Lseqs
    <3> QED
      BY <1>2, <3>1, <3>2
  <2>2. CASE ~Late(t) /\ ~Fresh(t) /\ Duplicate(t)
    <3>1. ~lms_warm_up /\ jb1 \in Seq(Frames)
      BY <1>2, <2>2, Zenon DEF Fresh, Purged
    <3>2. PICK i \in DOMAIN jb1 : jb1[i].lseq = t
      BY <2>2, Zenon DEF Duplicate
    <3>3. i \in 1 .. Len(jb1)
      BY <3>1, <3>2
    <3> QED
      BY <1>2, <3>1, <3>2, <3>3, BelowMax, Zenon
  <2> QED
    BY <1>5, <2>1, <2>2, Zenon
<1>7. lseq_mask' = lseq_mask
  BY <1>4, <1>5, <1>6, Zenon
<1>8. NoAbort'
  BY <1>5, Zenon DEF NearInv, NoAbort
<1>9. InBlock(last_max_lseq)'
  BY <1>1, <1>5, <1>7, Zenon DEF InBlock
<1>10. Faithful(jb)' /\ Faithful(ready)'
  BY <1>1, <1>5 DEF Faithful
<1>11. ASSUME NEW f \in drop' PROVE f.lseq = f.t
  <2>1. t \in Lseqs
    BY <1>2, SizesAssumption DEF Near, LMS_DEFAULT, Lseqs
  <2>2. Frame(t, c, t).lseq = Frame(t, c, t).t
    BY <2>1, FrameIn
  <2> QED
    BY <1>1, <1>5, <1>11, <2>2, Zenon
<1> QED
  BY <1>1, <1>5, <1>6, <1>8, <1>9, <1>10, <1>11, Zenon DEF NearInv, lms_warm_up

\* A packet for an empty buffer is the newest.
LEMMA FreshNear ==
  ASSUME IInv, NearInv, Capacity >= 3, WindowsApart, ~Rewinds,
         NEW t \in MinT .. MaxT, NEW c \in Copies, Near(t), UdpInFresh(t, c)
  PROVE  NearInv'
<1>1. /\ InBlock(max1) /\ Faithful(jb1) /\ \A f \in drop1 : f.lseq = f.t
      /\ EntryOk
  BY PurgeNear, Zenon
<1>2. Purged /\ Types /\ max1 \in Lseqs /\ t \in Int /\ t \in Lseqs /\ t # LMS_DEFAULT
  BY PurgeFacts, NetworkAssumption, SizesAssumption
  DEF IInv, Purged, Near, LMS_DEFAULT, Lseqs
<1>3. PICK seq : seq = t % SEQ_MOD
  BY Zenon
<1>4. /\ LSeq(seq) = t
      /\ lms_warm_up \/ t > max1 => t \in NewMask(seq) .. NewMask(seq) + SEQ_MOD - 1
  BY <1>1, <1>2, <1>3, Unwrapped, Zenon
<1>5. PICK f : f = Frame(t, c, t) /\ f.lseq = f.t
  BY <1>2, FrameIn
<1>6. /\ Fresh(t) /\ last_max_lseq' = t /\ lseq_mask' = NewMask(seq)
      /\ drop' = drop1 /\ aborted' = aborted
      /\ (jb' = jb1 /\ ready' = <<f>>) \/ (jb' = <<f>> /\ ready' = << >>)
  BY <1>3, <1>4, <1>5, Zenon DEF UdpInFresh, Result
<1>7. lms_warm_up \/ t > max1
  <2>1. max1 = last_lseq /\ (warm_up \/ last_lseq < t)
    BY <1>1, <1>2, <1>6, FreshFacts, Zenon
  <2>2. warm_up => lms_warm_up
    BY <2>1, Zenon DEF warm_up, lms_warm_up, LMS_DEFAULT, LRS_DEFAULT
  <2>3. last_lseq \in Int
    BY <1>2 DEF Types, Lseqs
  <2> QED
    BY <1>2, <2>1, <2>2, <2>3, Zenon
<1>8. InBlock(last_max_lseq)'
  BY <1>2, <1>4, <1>6, <1>7, Zenon DEF InBlock
<1>9. Faithful(<<f>>) /\ Faithful(<< >>)
  BY <1>5 DEF Faithful
<1>10. Faithful(jb') /\ Faithful(ready')
  BY <1>1, <1>6, <1>9, Zenon
<1>11. Faithful(jb)' /\ Faithful(ready)'
  BY <1>10, Zenon DEF Faithful
<1>12. NoAbort'
  BY <1>6, Zenon DEF NearInv, NoAbort
<1> QED
  BY <1>1, <1>2, <1>6, <1>8, <1>11, <1>12, Zenon DEF NearInv

\* A packet that takes its place is the newest, or leaves last_max_lseq alone.
LEMMA InsertedNear ==
  ASSUME LeastNumber, IInv, NearInv, Capacity >= 3, WindowsApart, ~Rewinds,
         NEW t \in MinT .. MaxT, NEW c \in Copies, Near(t), UdpInInserted(t, c)
  PROVE  NearInv'
<1>1. InBlock(max1) /\ Faithful(jb1) /\ \A f \in drop1 : f.lseq = f.t
  BY PurgeNear, Zenon
<1>2. Purged /\ Types /\ max1 \in Lseqs /\ t \in Int /\ t \in Lseqs /\ t # LMS_DEFAULT
  BY PurgeFacts, NetworkAssumption, SizesAssumption
  DEF IInv, Purged, Near, LMS_DEFAULT, Lseqs
<1>3. PICK seq : seq = t % SEQ_MOD
  BY Zenon
<1>4. /\ LSeq(seq) = t
      /\ lms_warm_up \/ t > max1 => t \in NewMask(seq) .. NewMask(seq) + SEQ_MOD - 1
      /\ ~lms_warm_up /\ t <= max1 => NewMask(seq) = lseq_mask
  BY <1>1, <1>2, <1>3, Unwrapped, Zenon
<1>5. PICK s : s = Inserted(t, c, t)
  BY Zenon
<1>6. PICK n : n = RunEnd(s)
  BY Zenon
<1>7. /\ Insertable(t) /\ lseq_mask' = NewMask(seq)
      /\ last_max_lseq' = IF Place(t) = Len(jb1) + 1 THEN t ELSE max1
      /\ drop' = drop1 /\ aborted' = aborted
      /\ \/ jb' = SubSeq(s, n + 1, Len(s)) /\ ready' = SubSeq(s, 1, n)
         \/ jb' = s /\ ready' = << >>
  BY <1>3, <1>4, <1>5, <1>6, SMTT(30) DEF UdpInInserted, Result
<1>8. /\ jb1 # << >> /\ ~lms_warm_up /\ s \in Seq(Frames) /\ Len(s) = size1 + 1
      /\ s # << >> /\ Ordered(s) /\ (Place(t) = Len(jb1) + 1 => max1 < t)
  BY <1>2, <1>5, <1>7, InsertFacts, Zenon
<1>9. jb1 \in Seq(Frames) /\ size1 = Len(jb1) /\ max1 \in Int
  BY <1>2 DEF Purged, Lseqs
<1>10. ASSUME Place(t) = Len(jb1) + 1 PROVE InBlock(last_max_lseq)'
  <2>1. last_max_lseq' = t /\ t > max1
    BY <1>2, <1>7, <1>8, <1>9, <1>10, Zenon
  <2> QED
    BY <1>2, <1>4, <1>7, <2>1, Zenon DEF InBlock
<1>11. ASSUME Place(t) # Len(jb1) + 1 PROVE InBlock(last_max_lseq)'
  <2>1. PICK p \in 1 .. Len(jb1) : p = Place(t) /\ jb1[p].lseq >= t
    <3>1. /\ Place(t) \in 1 .. Len(jb1) + 1
          /\ Place(t) = Len(jb1) + 1 \/ jb1[Place(t)].lseq >= t
      BY <1>2, <1>9, PlaceFacts, Zenon
    <3> QED
      BY <1>9, <1>11, <3>1
  <2>2. jb1[p].lseq <= max1 /\ jb1[p].lseq \in Int
    BY <1>2, <1>9, BelowMax, FrameFacts, Zenon
  <2>3. t <= max1
    BY <1>2, <1>9, <2>1, <2>2
  <2>4. lseq_mask' = lseq_mask /\ last_max_lseq' = max1
    BY <1>4, <1>7, <1>8, <1>11, <2>3, Zenon
  <2> QED
    BY <1>1, <2>4, Zenon DEF InBlock
<1>12. Faithful(s)
  <2>1. \A i \in 1 .. Len(jb1) + 1 : s[i].lseq = s[i].t
    BY <1>1, <1>2, <1>5, <1>9, InsertedFaithful, Zenon
  <2> QED
    BY <1>8, <1>9, <2>1, Zenon DEF Faithful
<1>13. Faithful(jb') /\ Faithful(ready')
  <2>1. CASE jb' = s /\ ready' = << >>
    <3>1. Faithful(<< >>)
      BY DEF Faithful
    <3> QED
      BY <1>12, <2>1, <3>1, Zenon
  <2>2. CASE jb' = SubSeq(s, n + 1, Len(s)) /\ ready' = SubSeq(s, 1, n)
    <3>1. /\ n \in 1 .. Len(s) /\ Len(ready') = n /\ \A i \in 1 .. n : ready'[i] = s[i]
      BY <1>6, <1>8, <2>2, RestFacts, Zenon
    <3>2. Faithful(ready')
      BY <1>12, <3>1 DEF Faithful
    <3>3. n + 1 \in 1 .. Len(s) + 1 /\ Len(s) \in 0 .. Len(s) /\ n + 1 <= Len(s) + 1
      BY <1>8, <3>1
    <3>4. /\ Len(jb') = Len(s) - (n + 1) + 1
          /\ \A i \in 1 .. Len(s) - (n + 1) + 1 : jb'[i] = s[(n + 1) + i - 1]
      <4>1. /\ Len(SubSeq(s, n + 1, Len(s))) = Len(s) - (n + 1) + 1
            /\ \A i \in 1 .. Len(s) - (n + 1) + 1 :
                 SubSeq(s, n + 1, Len(s))[i] = s[(n + 1) + i - 1]
        BY <1>8, <3>3, PartFacts, Zenon
      <4> QED
        BY ONLY <2>2, <4>1, Zenon
    <3>5. ASSUME NEW i \in 1 .. Len(jb') PROVE jb'[i].lseq = jb'[i].t
      <4>1. jb'[i] = s[(n + 1) + i - 1] /\ (n + 1) + i - 1 \in 1 .. Len(s)
        BY <1>8, <3>1, <3>4
      <4> QED
        BY <1>12, <4>1, Zenon DEF Faithful
    <3> QED
      BY <3>2, <3>5, Zenon DEF Faithful
  <2> QED
    BY <1>7, <2>1, <2>2, Zenon
<1>14. Faithful(jb)' /\ Faithful(ready)'
  BY <1>13, Zenon DEF Faithful
<1>15. last_max_lseq' # LMS_DEFAULT
  BY <1>2, <1>7, <1>8, Zenon DEF lms_warm_up
<1>16. NoAbort'
  BY <1>7, Zenon DEF NearInv, NoAbort
<1>17. InBlock(last_max_lseq)'
  BY <1>10, <1>11, Zenon
<1> QED
  BY <1>1, <1>7, <1>14, <1>15, <1>16, <1>17, Zenon DEF NearInv

\* A flush hands over or drops what was buffered.
LEMMA FlushNear ==
  ASSUME LeastNumber, IInv, NearInv, flush
  PROVE  NearInv'
<1>1. Faithful(<< >>)
  BY DEF Faithful
<1>2. CASE jb = << >>
  <2>1. /\ ready' = << >> /\ drop' = {} /\ UNCHANGED <<last_max_lseq, lseq_mask, jb, aborted>>
    BY <1>2, Zenon DEF flush, bufVars
  <2> QED
    BY <1>1, <2>1, Zenon DEF NearInv, NoAbort, InBlock, Faithful
<1>3. CASE jb # << >>
  <2>1. PICK m : m = RunStart(jb)
    BY Zenon
  <2>2. /\ ready' = SubSeq(jb, m, Len(jb)) /\ drop' = Range(SubSeq(jb, 1, m - 1))
        /\ jb' = << >> /\ UNCHANGED <<last_max_lseq, lseq_mask, aborted>>
    BY <1>3, <2>1, FlushFacts, Zenon
  <2>3. jb \in Seq(Frames) /\ Ordered(jb) /\ Len(jb) \in Nat /\ Faithful(jb)
    BY DEF IInv, BufInv, NearInv
  <2>4. m \in 1 .. Len(jb)
    BY <1>3, <2>1, <2>3, TailRunFacts, Zenon
  <2>5. /\ Len(ready') = Len(jb) - m + 1
        /\ \A i \in 1 .. Len(jb) - m + 1 : ready'[i] = jb[m + i - 1]
        /\ drop' \subseteq Range(jb)
    BY <1>3, <2>1, <2>2, <2>3, FlushedFacts, Zenon
  <2>6. ASSUME NEW i \in 1 .. Len(ready') PROVE ready'[i].lseq = ready'[i].t
    <3>1. /\ m \in 1 .. Len(jb) /\ Len(jb) \in Nat /\ i \in 1 .. Len(jb) - m + 1
          /\ ready'[i] = jb[m + i - 1]
      BY <2>3, <2>4, <2>5, Zenon
    <3>2. m + i - 1 \in 1 .. Len(jb)
      BY ONLY <3>1
    <3> QED
      BY <2>3, <3>1, <3>2, Zenon DEF Faithful
  <2>7. ASSUME NEW f \in drop' PROVE f.lseq = f.t
    <3>1. PICK i \in DOMAIN jb : f = jb[i]
      BY <2>5, <2>7, Zenon DEF Range
    <3>2. i \in 1 .. Len(jb)
      BY <2>3, <3>1
    <3> QED
      BY <2>3, <3>1, <3>2, Zenon DEF Faithful
  <2>8. Faithful(jb)' /\ Faithful(ready)'
    BY <1>1, <2>2, <2>6, Zenon DEF Faithful
  <2>9. NoAbort' /\ InBlock(last_max_lseq)'
    BY <2>2, Zenon DEF NearInv, NoAbort, InBlock
  <2> QED
    BY <2>2, <2>7, <2>8, <2>9, Zenon DEF NearInv
<1> QED
  BY <1>2, <1>3, Zenon

\* Every step of a network that keeps to the window.
LEMMA NearKeeps ==
  ASSUME LeastNumber, Capacity >= 3, WindowsApart, IInv, NearInv, [NearNext]_vars
  PROVE  IInv' /\ NearInv'
<1>1. [Next]_vars
  BY Zenon DEF NearNext, Next
<1>2. IInv'
  BY <1>1, NextKeeps, Zenon
<1>3. ASSUME ~Rewinds, NEW t \in Arrivals, NEW c \in Copies, Near(t), udp_in(t, c)
      PROVE  NearInv'
  <2>1. t \in MinT .. MaxT
    BY <1>3, ArrivalFacts, Zenon
  <2>2. EntryOk
    BY <1>3, PurgeNear, Zenon
  <2>3. UdpInOk(t, c)
    BY <2>1, <2>2, OnlyEntryAborts, Zenon
  <2>4. UdpInDropped(t, c) \/ UdpInFresh(t, c) \/ UdpInInserted(t, c)
    BY <1>3, <2>3, Zenon DEF udp_in
  <2>5. CASE UdpInDropped(t, c)
    BY <1>3, <2>1, <2>5, DroppedNear, Zenon
  <2>6. CASE UdpInFresh(t, c)
    BY <1>3, <2>1, <2>6, FreshNear, Zenon
  <2>7. CASE UdpInInserted(t, c)
    BY <1>3, <2>1, <2>7, InsertedNear, Zenon
  <2> QED
    BY <2>4, <2>5, <2>6, <2>7, Zenon
<1>4. ASSUME ~Rewinds, UdpInFailed PROVE NearInv'
  BY <1>4, FailedNear, Zenon
<1>5. ASSUME flush PROVE NearInv'
  BY <1>5, FlushNear, Zenon
<1>6. ASSUME UNCHANGED vars PROVE NearInv'
  <2>1. UNCHANGED <<last_max_lseq, lseq_mask, jb, ready, drop, aborted>>
    BY <1>6, Zenon DEF vars, bufVars
  <2> QED
    BY <2>1, Zenon DEF NearInv, NoAbort, InBlock, Faithful
<1> QED
  BY <1>2, <1>3, <1>4, <1>5, <1>6, Zenon DEF NearNext

\* A new buffer.
LEMMA NearInit == Init => NearInv
  BY DEF Init, NearInv, NoAbort, InBlock, Faithful

-----------------------------------------------------------------------------
(* The theorems. *)

INSTANCE WellFoundedInduction

\* What the lemmas assume of the natural numbers.
LEMMA Least == LeastNumber
<1> SUFFICES ASSUME NEW S \in SUBSET Nat, S # {}
             PROVE  \E m \in S : \A n \in S : m <= n
  BY Zenon DEF LeastNumber
<1> DEFINE R == OpToRel(<, Nat)
<1>1. IsWellFoundedOn(R, Nat)
  BY NatLessThanWellFounded, Zenon
<1> HIDE DEF R
<1>2. PICK m \in S : \A n \in S : ~(<<n, m>> \in R)
  BY <1>1, WFMin, Zenon
<1>3. \A n \in S : <<n, m>> \in R <=> n < m
  BY Zenon DEF R, OpToRel
<1>4. ASSUME NEW n \in S PROVE m <= n
  <2>1. ~(n < m)
    BY <1>2, <1>3, Zenon
  <2> QED
    BY <2>1
<1> QED
  BY <1>4, Zenon

\* The inductive invariant of a jitter buffer with room for at least three
\* frames, whatever packets the network presents and however wide the numbers.
THEOREM Invariance ==
  ASSUME Capacity >= 3
  PROVE  Spec => []IInv
<1>1. Init => IInv
  BY InitHolds, Zenon
<1>2. IInv /\ [Next]_vars => IInv'
  BY Least, NextKeeps, Zenon
<1> QED
  BY <1>1, <1>2, PTL DEF Spec

\* The list rtpjbuf_udp_in keeps is in strict order, after the last packet made
\* ready and behind a gap, and last_max_lseq is not below any of it.
THEOREM OrderKept ==
  ASSUME Capacity >= 3
  PROVE  Spec => []BufferOrdered
<1>1. IInv => BufferOrdered
  <2> SUFFICES ASSUME IInv PROVE BufferOrdered
    BY Zenon
  <2>1. /\ Ordered(jb) /\ last_max_lseq \in Int
        /\ jb # << >> => last_max_lseq = tail.lseq
        /\ jb # << >> /\ ~warm_up => jb[1].lseq > last_lseq + 1
    BY DEF IInv, BufInv, Types, Lseqs
  <2> QED
    BY <2>1 DEF BufferOrdered, Ordered
<1>2. Spec => []IInv
  BY Invariance, Zenon
<1> QED
  BY <1>1, <1>2, PTL

\* With room for three frames only one d_assert of rtpjbuf.c can fail, the one on
\* entry to rtpjbuf_udp_in, and only once a buffered packet was given the number
\* LMS_DEFAULT, which the code reserves for "none yet": never in rtpjbuf_flush,
\* never on release, insertion or saving.
THEOREM AbortOnlyUnset ==
  ASSUME Capacity >= 3
  PROVE  Spec => [](aborted => jb # << >> /\ tail.lseq = LMS_DEFAULT)
<1>1. IInv => (aborted => jb # << >> /\ tail.lseq = LMS_DEFAULT)
  BY Zenon DEF IInv, AbortInv
<1>2. Spec => []IInv
  BY Invariance, Zenon
<1> QED
  BY <1>1, <1>2, PTL

\* Types, and that jb.size counts the list and a full list never survives a call.
THEOREM TypeCorrect ==
  ASSUME Capacity >= 3
  PROVE  Spec => []TypeOK
<1>1. IInv => TypeOK
  <2> SUFFICES ASSUME IInv PROVE TypeOK
    BY Zenon
  <2>1. jb \in Seq(Frames) /\ ready \in Seq(Frames) /\ drop \subseteq Frames
    BY Zenon DEF IInv, Types, BufInv
  <2>2. Range(jb) \subseteq Frames /\ Range(ready) \subseteq Frames
    BY <2>1 DEF Range
  <2> QED
    BY <2>1, <2>2, Zenon DEF IInv, Types, BufInv, TypeOK, Lseqs
<1>2. Spec => []IInv
  BY Invariance, Zenon
<1> QED
  BY <1>1, <1>2, PTL

\* What a call makes ready continues the stream: contiguous numbers, right after
\* the last packet made ready or after an erasure that covers exactly the gap.
THEOREM StreamKept ==
  ASSUME Capacity >= 3
  PROVE  Spec => StreamContinues
<1>1. ASSUME IInv, [Next]_vars PROVE [StreamStep]_vars
  <2>1. ASSUME NEW t \in Arrivals, NEW c \in Copies, udp_in(t, c) PROVE StreamStep
    <3>1. t \in MinT .. MaxT
      BY <2>1, ArrivalFacts, Zenon
    <3>2. CASE EntryOk
      <4>1. UdpInOk(t, c)
        BY <1>1, <3>1, <3>2, Least, OnlyEntryAborts, Zenon
      <4>2. UdpInDropped(t, c) \/ UdpInFresh(t, c) \/ UdpInInserted(t, c)
        BY <2>1, <4>1, Zenon DEF udp_in
      <4>3. CASE UdpInDropped(t, c)
        BY <4>3, Zenon DEF UdpInDropped, Result, StreamStep
      <4>4. CASE UdpInFresh(t, c)
        BY <1>1, <3>1, <3>2, <4>4, FreshContinues, Zenon
      <4>5. CASE UdpInInserted(t, c)
        BY <1>1, <3>1, <4>5, Least, InsertedContinues, Zenon
      <4> QED
        BY <4>2, <4>3, <4>4, <4>5, Zenon
    <3>3. CASE ~EntryOk
      BY <2>1, <3>3, Zenon DEF udp_in, UdpInOk, StreamStep
    <3> QED
      BY <3>2, <3>3, Zenon
  <2>2. ASSUME UdpInFailed PROVE StreamStep
    BY <2>2, Zenon DEF UdpInFailed, Result, StreamStep
  <2>3. ASSUME flush PROVE StreamStep
    BY <1>1, <2>3, Least, FlushContinues, Zenon
  <2> QED
    BY <1>1, <2>1, <2>2, <2>3, Zenon DEF Next
<1>2. Spec => []IInv
  BY Invariance, Zenon
<1> QED
  BY <1>1, <1>2, PTL DEF Spec, StreamContinues

\* Within the window both invariants hold.
LEMMA NearInvariance ==
  ASSUME Capacity >= 3, WindowsApart
  PROVE  NearSpec => [](IInv /\ NearInv)
<1>1. Init => IInv /\ NearInv
  BY InitHolds, NearInit, Zenon
<1>2. (IInv /\ NearInv) /\ [NearNext]_vars => (IInv /\ NearInv)'
  BY Least, NearKeeps, Zenon
<1> QED
  BY <1>1, <1>2, PTL DEF NearSpec

\* Sequence numbers are unwrapped right across any number of wraps, in both
\* directions, as long as the network keeps to the window.
THEOREM UnwrappingFaithful ==
  ASSUME Capacity >= 3, WindowsApart
  PROVE  NearSpec => []LseqFaithful
<1>1. IInv /\ NearInv => LseqFaithful
  <2> SUFFICES ASSUME IInv, NearInv PROVE LseqFaithful
    BY Zenon
  <2>1. jb \in Seq(Frames) /\ ready \in Seq(Frames)
    BY Zenon DEF IInv, Types, BufInv
  <2>2. DOMAIN jb = 1 .. Len(jb) /\ DOMAIN ready = 1 .. Len(ready)
    BY <2>1
  <2>3. /\ \A f \in Range(jb) : f.lseq = f.t
        /\ \A f \in Range(ready) : f.lseq = f.t
    BY <2>2 DEF NearInv, Faithful, Range
  <2> QED
    BY <2>3, Zenon DEF NearInv, LseqFaithful
<1>2. NearSpec => [](IInv /\ NearInv)
  BY NearInvariance, Zenon
<1> QED
  BY <1>1, <1>2, PTL

\* And then none of the d_asserts fails.
THEOREM NoAbortInWindow ==
  ASSUME Capacity >= 3, WindowsApart
  PROVE  NearSpec => []NoAbort
<1>1. IInv /\ NearInv => NoAbort
  BY Zenon DEF NearInv
<1>2. NearSpec => [](IInv /\ NearInv)
  BY NearInvariance, Zenon
<1> QED
  BY <1>1, <1>2, PTL
=============================================================================
