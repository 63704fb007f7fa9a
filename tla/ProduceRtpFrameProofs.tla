----------------------- MODULE ProduceRtpFrameProofs -----------------------
(***************************************************************************)
(* For every choice of the constants: what produceRtp sends is what its    *)
(* caller asked for.  The frames on the wire are the packetization of the  *)
(* accepted calls (OpusFraming), with the timestamps the producer relies   *)
(* on, a graceful end sends all of them, and the threads, queues and       *)
(* callbacks implement AudioStream.                                        *)
(***************************************************************************)
EXTENDS ProduceRtpProofs, WellFoundedInduction

-----------------------------------------------------------------------------
(* Numbers and sets of numbers.                                            *)

LEMMA MinIs ==
    ASSUME NEW S, NEW m \in S, S \subseteq Int, \A x \in S : m <= x
    PROVE  Min(S) = m
<1>1. \A x \in S : (\A y \in S : x <= y) => x = m
      OBVIOUS
<1> QED BY <1>1 DEF Min

LEMMA MaxIs ==
    ASSUME NEW S, NEW m \in S, S \subseteq Int, \A x \in S : x <= m
    PROVE  Max(S) = m
<1>1. \A x \in S : (\A y \in S : x >= y) => x = m
      OBVIOUS
<1>2. \A y \in S : m >= y
      OBVIOUS
<1> QED BY <1>1, <1>2 DEF Max

(* A set of numbers with an upper bound has a maximum. *)
LEMMA MaxExists ==
    ASSUME NEW b \in Nat, NEW S, S \subseteq 0..b, S # {}
    PROVE  Max(S) \in S /\ \A x \in S : x <= Max(S)
<1> DEFINE T == {b - x : x \in S}
<1>1. T \subseteq Nat /\ T # {}
  <2>1. \A x \in S : b - x \in Nat
        OBVIOUS
  <2>2. PICK x \in S : TRUE
        OBVIOUS
  <2>3. b - x \in T
        OBVIOUS
  <2> QED BY <2>1, <2>3
<1>2. PICK t \in T : \A y \in T : ~(<<y, t>> \in OpToRel(<, Nat))
      BY <1>1, WFMin, NatLessThanWellFounded
<1>3. \A y \in T : ~(y < t)
      BY <1>1, <1>2 DEF OpToRel
<1>4. PICK m \in S : t = b - m
      OBVIOUS
<1>5. \A x \in S : x <= m
  <2> SUFFICES ASSUME NEW x \in S PROVE x <= m
      OBVIOUS
  <2>1. b - x \in T
        OBVIOUS
  <2>2. ~(b - x < b - m)
        BY <1>3, <1>4, <2>1
  <2>3. x \in Int /\ m \in Int
        OBVIOUS
  <2> QED BY <2>2, <2>3
<1>6. Max(S) = m
  <2>1. S \subseteq Int
        OBVIOUS
  <2> QED BY <1>5, <2>1, MaxIs
<1> QED BY <1>5, <1>6

LEMMA DivExact ==
    ASSUME NEW q \in Nat, NEW d \in Nat \ {0}
    PROVE  (q * d) \div d = q
OBVIOUS

LEMMA Multiples ==
    ASSUME NEW q \in Nat, NEW d \in Nat
    PROVE  q * d \in Nat /\ (q + 1) * d = q * d + d /\ 0 * d = 0
OBVIOUS

-----------------------------------------------------------------------------
(* The n samples that follow position s.                                   *)

Run(s, n) == [i \in 1..n |-> s + i]

LEMMA RunProperties ==
    ASSUME NEW s \in Nat, NEW n \in Nat
    PROVE  /\ Run(s, n) \in Seq(Nat) /\ Len(Run(s, n)) = n
           /\ \A i \in 1..n : Run(s, n)[i] = s + i
           /\ Run(s, 0) = <<>>
<1>1. Run(s, n) \in Seq(Nat) /\ Len(Run(s, n)) = n
      BY DEF Run
<1>2. \A i \in 1..n : Run(s, n)[i] = s + i
      BY DEF Run
<1>3. Run(s, 0) = <<>>
  <2>1. Run(s, 0) \in Seq(Nat) /\ Len(Run(s, 0)) = 0
        BY DEF Run
  <2> QED BY <2>1, EmptySeq
<1> QED BY <1>1, <1>2, <1>3

LEMMA RunSplits ==
    ASSUME NEW s \in Nat, NEW n \in Nat, NEW k \in 0..n
    PROVE  /\ SubSeq(Run(s, n), 1, k) = Run(s, k)
           /\ SubSeq(Run(s, n), k + 1, n) = Run(s + k, n - k)
<1>1. /\ Run(s, n) \in Seq(Nat) /\ Len(Run(s, n)) = n
      /\ \A i \in 1..n : Run(s, n)[i] = s + i
      BY RunProperties
<1>2. /\ Run(s, k) \in Seq(Nat) /\ Len(Run(s, k)) = k
      /\ \A i \in 1..k : Run(s, k)[i] = s + i
      BY RunProperties
<1>0. s + k \in Nat /\ n - k \in Nat
      OBVIOUS
<1>3. /\ Run(s + k, n - k) \in Seq(Nat) /\ Len(Run(s + k, n - k)) = n - k
      /\ \A i \in 1..(n - k) : Run(s + k, n - k)[i] = s + k + i
      BY <1>0, RunProperties
<1> DEFINE a == SubSeq(Run(s, n), 1, k)
           b == SubSeq(Run(s, n), k + 1, n)
<1>4. /\ a \in Seq(Nat) /\ Len(a) = k
      /\ \A i \in 1..k : a[i] = Run(s, n)[i]
  <2>1. \A i \in 1..k : Run(s, n)[i] \in Nat
        BY <1>1
  <2>2. /\ a \in Seq(Nat) /\ Len(a) = IF 1 <= k THEN k - 1 + 1 ELSE 0
        /\ \A i \in 1..(k - 1 + 1) : a[i] = Run(s, n)[1 + i - 1]
        BY <2>1, SubSeqProperties
  <2> QED BY <2>2
<1>5. /\ b \in Seq(Nat) /\ Len(b) = n - k
      /\ \A i \in 1..(n - k) : b[i] = Run(s, n)[k + i]
  <2>1. \A i \in (k + 1)..n : Run(s, n)[i] \in Nat
        BY <1>1
  <2>2. /\ b \in Seq(Nat) /\ Len(b) = IF k + 1 <= n THEN n - (k + 1) + 1 ELSE 0
        /\ \A i \in 1..(n - (k + 1) + 1) : b[i] = Run(s, n)[(k + 1) + i - 1]
        BY <2>1, SubSeqProperties
  <2> HIDE DEF b
  <2>3. n - (k + 1) + 1 = n - k /\ \A i \in Int : (k + 1) + i - 1 = k + i
        OBVIOUS
  <2>4. Len(b) = n - k
        BY <2>2
  <2> QED BY <2>2, <2>3, <2>4
<1>6. a = Run(s, k)
  <2> HIDE DEF a
  <2>1. \A i \in 1..Len(a) : a[i] = Run(s, k)[i]
        BY <1>1, <1>2, <1>4
  <2> QED BY <1>2, <1>4, <2>1, SeqEqual
<1>7. b = Run(s + k, n - k)
  <2> HIDE DEF b
  <2>1. \A i \in 1..Len(b) : b[i] = Run(s + k, n - k)[i]
        BY <1>1, <1>3, <1>5
  <2> QED BY <1>3, <1>5, <2>1, SeqEqual
<1> QED BY <1>6, <1>7

LEMMA RunsJoin ==
    ASSUME NEW s \in Nat, NEW n \in Nat, NEW k \in Nat
    PROVE  Run(s, n) \o Run(s + n, k) = Run(s, n + k)
<1> DEFINE a == Run(s, n)
           b == Run(s + n, k)
           r == Run(s, n + k)
<1>1. /\ a \in Seq(Nat) /\ Len(a) = n /\ \A i \in 1..n : a[i] = s + i
      BY RunProperties
<1>0. s + n \in Nat /\ n + k \in Nat
      OBVIOUS
<1>2. /\ b \in Seq(Nat) /\ Len(b) = k /\ \A i \in 1..k : b[i] = s + n + i
      BY <1>0, RunProperties
<1>3. /\ r \in Seq(Nat) /\ Len(r) = n + k /\ \A i \in 1..(n + k) : r[i] = s + i
      BY <1>0, RunProperties
<1> HIDE DEF a, b, r
<1>4. /\ a \o b \in Seq(Nat) /\ Len(a \o b) = n + k
      /\ \A i \in 1..(n + k) : (a \o b)[i] = IF i <= n THEN a[i] ELSE b[i - n]
      BY <1>1, <1>2, ConcatProperties
<1>5. \A i \in 1..(n + k) : (a \o b)[i] = r[i]
  <2> SUFFICES ASSUME NEW i \in 1..(n + k) PROVE (a \o b)[i] = r[i]
      OBVIOUS
  <2>1. CASE i <= n
    <3>1. i \in 1..n
          BY <2>1
    <3> QED BY <2>1, <3>1, <1>1, <1>3, <1>4
  <2>2. CASE i > n
    <3>1. i - n \in 1..k
          BY <2>2
    <3>2. b[i - n] = s + n + (i - n)
          BY <3>1, <1>2
    <3>3. (a \o b)[i] = b[i - n]
          BY <2>2, <1>4
    <3>4. r[i] = s + i
          BY <1>3
    <3>5. s + n + (i - n) = s + i
          OBVIOUS
    <3> QED BY <3>2, <3>3, <3>4, <3>5
  <2>3. i <= n \/ i > n
        OBVIOUS
  <2> QED BY <2>1, <2>2, <2>3
<1>6. a \o b = r
      BY <1>3, <1>4, <1>5, SeqEqual
<1> QED BY <1>6 DEF a, b, r

-----------------------------------------------------------------------------
(* A queue of packets and the packets that are ahead of it.                *)

LEMMA AppendToConcat ==
    ASSUME NEW M, NEW s \in Seq(M), NEW t \in Seq(M), NEW m \in M
    PROVE  s \o Append(t, m) = Append(s \o t, m)
<1>1. Append(t, m) = t \o <<m>> /\ <<m>> \in Seq(M)
      BY AppendIsConcat
<1>2. s \o t \in Seq(M)
      BY ConcatProperties
<1>3. Append(s \o t, m) = (s \o t) \o <<m>>
      BY <1>2, AppendIsConcat
<1> QED BY <1>1, <1>3, ConcatAssociative

LEMMA HeadAndTail ==
    ASSUME NEW M, NEW s \in Seq(M), s # <<>>
    PROVE  <<Head(s)>> \o Tail(s) = s
<1>1. /\ Len(s) \in Nat \ {0} /\ s[1] \in M /\ Head(s) = s[1]
      /\ Tail(s) = SubSeq(s, 2, Len(s))
      BY TailProperties, TailIsSubSeq
<1>2. SubSeq(s, 1, Len(s)) = <<s[1]>> \o SubSeq(s, 1 + 1, Len(s))
      BY <1>1, SubSeqRecursiveFirst
<1>3. SubSeq(s, 1, Len(s)) = s
      BY SubSeqFull
<1> QED BY <1>1, <1>2, <1>3

LEMMA MoveFirst ==
    ASSUME NEW M, NEW s \in Seq(M), NEW m \in M, NEW t \in Seq(M)
    PROVE  s \o (<<m>> \o t) = Append(s, m) \o (<<>> \o t)
<1>1. <<m>> \in Seq(M) /\ <<>> \o t = t
      BY ConcatEmptySeq
<1>2. (s \o <<m>>) \o t = s \o (<<m>> \o t)
      BY <1>1, ConcatAssociative
<1> QED BY <1>1, <1>2, AppendIsConcat

-----------------------------------------------------------------------------
(* Packets and the calls c that they come from.  A packet holds the        *)
(* samples after From(p), up to and including UpTo(p).                     *)

Calls == [msg : Messages, at : Nat]

IsFlush(c, k) == c[k].msg.type = "FLUSH_OPUS_ENCODER"

From(p) == p.samples[1] - 1
UpTo(p) == From(p) + Len(p.samples)

(* The packet holds up to a frame of accepted samples of one segment.      *)
Whole(c, p) ==
    /\ p \in Packets
    /\ Len(p.samples) \in 1..FrameSize
    /\ From(p) \in Nat
    /\ p.samples = Run(From(p), Len(p.samples))
    /\ UpTo(p) <= Accepted(c)
    /\ \A x \in Cuts(c) : ~(From(p) < x /\ x < UpTo(p))

(* The timestamp of q follows that of p, or starts again after the end of  *)
(* a segment.                                                              *)
Follows(c, p, q) ==
    /\ UpTo(p) <= From(q)
    /\ q.pts = IF \E x \in Cuts(c) : UpTo(p) <= x /\ x <= From(q)
               THEN 0 ELSE p.pts + FRAME_SIZE_OUTPUT

(* The call k completes the packet.                                        *)
Closes(c, p, k) ==
    /\ UpTo(p) <= c[k].at
    /\ Len(p.samples) < FrameSize => IsFlush(c, k)

(* The packet is a frame of the packetization: it ends with its segment or *)
(* is full, its timestamp counts the frames since the segment began at b,  *)
(* and it carries the settings of the first call that completes it.        *)
Exact(c, p) ==
    /\ Len(p.samples) < FrameSize => UpTo(p) \in Cuts(c)
    /\ \E b \in {0} \cup Cuts(c), q \in Nat :
          /\ \A x \in Cuts(c) : x <= From(p) => x <= b
          /\ From(p) = b + q * FrameSize
          /\ p.pts = q * FRAME_SIZE_OUTPUT
    /\ \E k \in 1..Len(c) :
          /\ Closes(c, p, k)
          /\ \A j \in 1..(k - 1) : ~Closes(c, p, j)
          /\ p.ctl = SettingsAt(c, k)

LEMMA CutsMember ==
    ASSUME NEW c \in Seq(Calls)
    PROVE  /\ \A x : x \in Cuts(c) <=> \E k \in 1..Len(c) : IsFlush(c, k) /\ x = c[k].at
           /\ Cuts(c) \subseteq Nat
           /\ \A k \in 1..Len(c) : c[k] \in Calls /\ c[k].at \in Nat
<1>1. DOMAIN c = 1..Len(c)
      BY LenProperties
<1>2. \A k \in 1..Len(c) : c[k] \in Calls
      BY ElementOfSeq
<1>3. \A k \in 1..Len(c) : c[k].at \in Nat
      BY <1>2 DEF Calls
<1>4. \A x : x \in Cuts(c) <=> \E k \in 1..Len(c) : IsFlush(c, k) /\ x = c[k].at
      BY <1>1 DEF Cuts, IndicesOf, IsFlush
<1> QED BY <1>2, <1>3, <1>4

LEMMA AcceptedIsLast ==
    ASSUME NEW c \in Seq(Calls)
    PROVE  /\ Accepted(c) \in Nat
           /\ c = <<>> => Accepted(c) = 0
           /\ c # <<>> => Len(c) \in Nat \ {0} /\ Accepted(c) = c[Len(c)].at
<1>1. CASE c = <<>>
      BY <1>1 DEF Accepted
<1>2. CASE c # <<>>
  <2>1. Len(c) \in Nat \ {0} /\ c[Len(c)] \in Calls
        BY <1>2, LastElement
  <2>2. c[Len(c)].at \in Nat
        BY <2>1 DEF Calls
  <2> QED BY <1>2, <2>1, <2>2 DEF Accepted, Last
<1> QED BY <1>1, <1>2

LEMMA WholeTypes ==
    ASSUME NEW c \in Seq(Calls), NEW p, Whole(c, p)
    PROVE  /\ From(p) \in Nat /\ UpTo(p) \in Nat /\ Len(p.samples) \in Nat
           /\ From(p) < UpTo(p) /\ UpTo(p) <= Accepted(c)
           /\ UpTo(p) = From(p) + Len(p.samples)
           /\ Len(p.samples) <= FrameSize
           /\ p.pts \in Nat /\ p.samples \in Seq(Nat)
<1>1. p.pts \in Nat /\ p.samples \in Seq(Nat)
      BY DEF Whole, Packets
<1>2. Len(p.samples) \in 1..FrameSize /\ From(p) \in Nat /\ UpTo(p) <= Accepted(c)
      BY DEF Whole
<1>3. UpTo(p) = From(p) + Len(p.samples)
      BY DEF UpTo
<1>4. Accepted(c) \in Nat /\ FrameSize \in Nat
      BY AcceptedIsLast, FrameSizeAssumption
<1> QED BY <1>1, <1>2, <1>3, <1>4

-----------------------------------------------------------------------------
(* A further call changes nothing of what was complete.                    *)

Extends(c, call, d) ==
    /\ d \in Seq(Calls) /\ Len(d) = Len(c) + 1 /\ Len(c) \in Nat
    /\ \A k \in 1..Len(c) : d[k] = c[k]
    /\ d[Len(c) + 1] = call
    /\ Accepted(d) = call.at
    /\ Cuts(c) \subseteq Cuts(d) /\ Cuts(d) \subseteq Cuts(c) \cup {call.at}
    /\ \A k \in 0..(Len(c) + 1) : SettingsAt(d, k) = SettingsAt(c, k)

LEMMA CallAppended ==
    ASSUME NEW c \in Seq(Calls), NEW call \in Calls, NEW d, d = Append(c, call)
    PROVE  Extends(c, call, d)
<1>1. /\ d \in Seq(Calls) /\ Len(d) = Len(c) + 1 /\ Len(c) \in Nat /\ d # <<>>
      /\ \A k \in 1..Len(c) : d[k] = c[k]
      /\ d[Len(c) + 1] = call
      BY AppendProperties, LenProperties
<1>2. Accepted(d) = call.at
      BY <1>1, AcceptedIsLast
<1>3. Cuts(c) \subseteq Cuts(d)
  <2> SUFFICES ASSUME NEW x \in Cuts(c) PROVE x \in Cuts(d)
      OBVIOUS
  <2>1. PICK k \in 1..Len(c) : IsFlush(c, k) /\ x = c[k].at
        BY CutsMember
  <2>2. k \in 1..Len(d) /\ IsFlush(d, k) /\ x = d[k].at
        BY <1>1, <2>1 DEF IsFlush
  <2> QED BY <1>1, <2>2, CutsMember
<1>4. Cuts(d) \subseteq Cuts(c) \cup {call.at}
  <2> SUFFICES ASSUME NEW x \in Cuts(d) PROVE x \in Cuts(c) \cup {call.at}
      OBVIOUS
  <2>0. \A y : y \in Cuts(d) <=> \E k \in 1..Len(d) : IsFlush(d, k) /\ y = d[k].at
        BY <1>1, CutsMember, Zenon
  <2>1. PICK k \in 1..Len(d) : IsFlush(d, k) /\ x = d[k].at
        BY <2>0
  <2>2. CASE k = Len(c) + 1
        BY <1>1, <2>1, <2>2
  <2>3. CASE k \in 1..Len(c)
    <3>1. IsFlush(c, k) /\ x = c[k].at
          BY <1>1, <2>1, <2>3 DEF IsFlush
    <3> QED BY <2>3, <3>1, CutsMember
  <2> QED BY <1>1, <2>2, <2>3
<1>5. ASSUME NEW k \in 0..(Len(c) + 1)
      PROVE  SettingsAt(d, k) = SettingsAt(c, k)
  <2>1. DOMAIN c = 1..Len(c) /\ DOMAIN d = 1..(Len(c) + 1)
        BY <1>1, LenProperties
  <2>2. ASSUME NEW t \in Settings
        PROVE  {j \in IndicesOf(d, t) : j < k} = {j \in IndicesOf(c, t) : j < k}
        BY <1>1, <2>1 DEF IndicesOf
  <2>3. ASSUME NEW t \in Settings, {j \in IndicesOf(c, t) : j < k} # {}
        PROVE  d[Max({j \in IndicesOf(c, t) : j < k})]
               = c[Max({j \in IndicesOf(c, t) : j < k})]
    <3> DEFINE S == {j \in IndicesOf(c, t) : j < k}
    <3>1. S \subseteq 1..Len(c) /\ S \subseteq 0..Len(c)
          BY <2>1 DEF IndicesOf
    <3>2. Max(S) \in S
          BY <1>1, <2>3, <3>1, MaxExists
    <3> QED BY <1>1, <3>1, <3>2
  <2> QED BY <2>2, <2>3 DEF SettingsAt
<1> QED BY <1>1, <1>2, <1>3, <1>4, <1>5 DEF Extends

LEMMA WholeStays ==
    ASSUME NEW c \in Seq(Calls), NEW call \in Calls, NEW d, Extends(c, call, d),
           Accepted(c) <= call.at, NEW p, Whole(c, p)
    PROVE  Whole(d, p)
<1>1. /\ Accepted(d) = call.at /\ Cuts(d) \subseteq Cuts(c) \cup {call.at}
      /\ d \in Seq(Calls)
      BY DEF Extends
<1>2. /\ From(p) \in Nat /\ UpTo(p) \in Nat /\ UpTo(p) <= Accepted(c)
      /\ Accepted(c) \in Nat /\ call.at \in Nat
      BY WholeTypes, AcceptedIsLast DEF Calls
<1>3. UpTo(p) <= Accepted(d)
      BY <1>1, <1>2
<1>4. \A x \in Cuts(d) : ~(From(p) < x /\ x < UpTo(p))
  <2> SUFFICES ASSUME NEW x \in Cuts(d) PROVE ~(From(p) < x /\ x < UpTo(p))
      OBVIOUS
  <2>1. CASE x \in Cuts(c)
        BY <2>1 DEF Whole
  <2>2. CASE x = call.at
        BY <2>2, <1>2
  <2> QED BY <1>1, <2>1, <2>2
<1> QED BY <1>3, <1>4 DEF Whole

LEMMA FollowsStays ==
    ASSUME NEW c \in Seq(Calls), NEW call \in Calls, NEW d, Extends(c, call, d),
           Accepted(c) <= call.at, NEW p, NEW q, Whole(c, q), Follows(c, p, q)
    PROVE  Follows(d, p, q)
<1>1. Cuts(c) \subseteq Cuts(d) /\ Cuts(d) \subseteq Cuts(c) \cup {call.at}
      BY DEF Extends
<1>0. /\ From(q) \in Nat /\ UpTo(q) \in Nat /\ From(q) < UpTo(q)
      /\ UpTo(q) <= Accepted(c) /\ Accepted(c) \in Nat /\ call.at \in Nat
      BY WholeTypes, AcceptedIsLast DEF Calls
<1>2. From(q) \in Nat /\ Accepted(c) \in Nat /\ call.at \in Nat /\ From(q) < Accepted(c)
      BY <1>0
<1>3. (\E x \in Cuts(c) : UpTo(p) <= x /\ x <= From(q))
      <=> (\E x \in Cuts(d) : UpTo(p) <= x /\ x <= From(q))
  <2>1. ~(call.at <= From(q))
        BY <1>2
  <2> QED BY <1>1, <2>1
<1> QED BY <1>3 DEF Follows

LEMMA ExactStays ==
    ASSUME NEW c \in Seq(Calls), NEW call \in Calls, NEW d, Extends(c, call, d),
           Accepted(c) <= call.at, NEW p, Whole(c, p), Exact(c, p)
    PROVE  Exact(d, p)
<1>1. /\ d \in Seq(Calls) /\ Len(d) = Len(c) + 1 /\ Len(c) \in Nat
      /\ \A k \in 1..Len(c) : d[k] = c[k]
      /\ Cuts(c) \subseteq Cuts(d) /\ Cuts(d) \subseteq Cuts(c) \cup {call.at}
      /\ \A k \in 0..(Len(c) + 1) : SettingsAt(d, k) = SettingsAt(c, k)
      BY DEF Extends
<1>0. /\ From(p) \in Nat /\ UpTo(p) \in Nat /\ From(p) < UpTo(p)
      /\ UpTo(p) <= Accepted(c) /\ Accepted(c) \in Nat /\ call.at \in Nat
      BY WholeTypes, AcceptedIsLast DEF Calls
<1>2. From(p) \in Nat /\ Accepted(c) \in Nat /\ call.at \in Nat /\ From(p) < Accepted(c)
      BY <1>0
<1>3. Len(p.samples) < FrameSize => UpTo(p) \in Cuts(d)
      BY <1>1 DEF Exact
<1>4. \E b \in {0} \cup Cuts(d), q \in Nat :
          /\ \A x \in Cuts(d) : x <= From(p) => x <= b
          /\ From(p) = b + q * FrameSize
          /\ p.pts = q * FRAME_SIZE_OUTPUT
  <2>1. PICK b \in {0} \cup Cuts(c), q \in Nat :
          /\ \A x \in Cuts(c) : x <= From(p) => x <= b
          /\ From(p) = b + q * FrameSize
          /\ p.pts = q * FRAME_SIZE_OUTPUT
        BY DEF Exact
  <2>2. ~(call.at <= From(p))
        BY <1>2
  <2>3. \A x \in Cuts(d) : x <= From(p) => x <= b
        BY <1>1, <2>1, <2>2
  <2>4. b \in {0} \cup Cuts(d)
        BY <1>1
  <2> QED BY <2>1, <2>3, <2>4
<1>5. \E k \in 1..Len(d) :
          /\ Closes(d, p, k)
          /\ \A j \in 1..(k - 1) : ~Closes(d, p, j)
          /\ p.ctl = SettingsAt(d, k)
  <2>1. PICK k \in 1..Len(c) :
          /\ Closes(c, p, k)
          /\ \A j \in 1..(k - 1) : ~Closes(c, p, j)
          /\ p.ctl = SettingsAt(c, k)
        BY DEF Exact
  <2>2. \A j \in 1..Len(c) : Closes(d, p, j) <=> Closes(c, p, j)
        BY <1>1 DEF Closes, IsFlush
  <2>3. \A j \in 1..(k - 1) : ~Closes(d, p, j)
        BY <2>1, <2>2
  <2>4. k \in 1..Len(d) /\ k \in 0..(Len(c) + 1)
        BY <1>1
  <2> QED BY <1>1, <2>1, <2>2, <2>3, <2>4
<1> QED BY <1>3, <1>4, <1>5 DEF Exact

(* An exact packet is the frame that OpusFraming describes.                *)
LEMMA ExactIsFrame ==
    ASSUME NEW c \in Seq(Calls), NEW p, Whole(c, p), Exact(c, p)
    PROVE  FrameEnd(c, From(p)) = UpTo(p) /\ p = FrameAt(c, From(p))
<1> DEFINE s == From(p)
           e == UpTo(p)
<1>1. /\ s \in Nat /\ e \in Nat /\ Len(p.samples) \in Nat /\ s < e
      /\ e = s + Len(p.samples) /\ Len(p.samples) <= FrameSize /\ p.pts \in Nat
      BY WholeTypes
<1>2. Cuts(c) \subseteq Nat /\ FrameSize \in Nat \ {0}
      BY CutsMember, FrameSizeAssumption
<1>3. FrameEnd(c, s) = e
  <2> DEFINE S == {s + FrameSize} \cup {x \in Cuts(c) : x > s}
  <2>1. e \in S
    <3>1. CASE Len(p.samples) < FrameSize
      <4>1. e \in Cuts(c)
            BY <3>1 DEF Exact
      <4> QED BY <1>1, <4>1
    <3>2. CASE ~(Len(p.samples) < FrameSize)
      <4>1. e = s + FrameSize
            BY <1>1, <1>2, <3>2
      <4> QED BY <4>1
    <3> QED BY <3>1, <3>2
  <2>2. S \subseteq Int
        BY <1>1, <1>2
  <2>3. \A x \in S : e <= x
    <3>1. \A x \in Cuts(c) : x > s => e <= x
          BY <1>1, <1>2 DEF Whole
    <3> QED BY <1>1, <1>2, <3>1
  <2>4. Min(S) = e
        BY <2>1, <2>2, <2>3, MinIs
  <2> QED BY <2>4 DEF FrameEnd
<1>4. p.pts = ((s - SegmentStart(c, s)) \div FrameSize) * FRAME_SIZE_OUTPUT
  <2>1. PICK b \in {0} \cup Cuts(c), q \in Nat :
          /\ \A x \in Cuts(c) : x <= s => x <= b
          /\ s = b + q * FrameSize
          /\ p.pts = q * FRAME_SIZE_OUTPUT
        BY DEF Exact
  <2>2. b \in Nat /\ q * FrameSize \in Nat
        BY <1>2, Multiples
  <2>3. b <= s /\ s - b = q * FrameSize
        BY <1>1, <2>1, <2>2
  <2> DEFINE S == {0} \cup {x \in Cuts(c) : x <= s}
  <2>4. b \in S
        BY <2>3
  <2>5. S \subseteq Int
        BY <1>2
  <2>6. \A x \in S : x <= b
        BY <2>1, <2>2
  <2>7. Max(S) = b
        BY <2>4, <2>5, <2>6, MaxIs
  <2>8. SegmentStart(c, s) = b
        BY <2>7 DEF SegmentStart
  <2>9. (q * FrameSize) \div FrameSize = q
        BY <1>2, DivExact
  <2> QED BY <2>1, <2>3, <2>8, <2>9
<1>5. p.ctl = SettingsAt(c, ClosedBy(c, s))
  <2>1. PICK k \in 1..Len(c) :
          /\ Closes(c, p, k)
          /\ \A j \in 1..(k - 1) : ~Closes(c, p, j)
          /\ p.ctl = SettingsAt(c, k)
        BY DEF Exact
  <2> DEFINE S == {j \in DOMAIN c : /\ c[j].at >= e
                                    /\ e - s < FrameSize => c[j].msg.type = "FLUSH_OPUS_ENCODER"}
  <2>2. DOMAIN c = 1..Len(c) /\ Len(c) \in Nat /\ e - s = Len(p.samples)
        BY <1>1, LenProperties
  <2>3. ASSUME NEW j \in 1..Len(c)
        PROVE  j \in S <=> Closes(c, p, j)
    <3>1. c[j].at \in Nat
          BY CutsMember
    <3>2. c[j].at >= e <=> UpTo(p) <= c[j].at
          BY <1>1, <3>1
    <3> QED BY <2>2, <3>2 DEF Closes, IsFlush
  <2>4. k \in S
        BY <2>1, <2>3
  <2>5. S \subseteq Int
        BY <2>2
  <2>6. \A j \in S : k <= j
    <3> SUFFICES ASSUME NEW j \in S, j < k PROVE FALSE
        BY <2>2
    <3>1. j \in 1..Len(c) /\ j \in 1..(k - 1)
          BY <2>2
    <3> QED BY <2>1, <2>3, <3>1
  <2>7. Min(S) = k
        BY <2>4, <2>5, <2>6, MinIs
  <2>8. ClosedBy(c, s) = k
        BY <1>3, <2>7 DEF ClosedBy
  <2> QED BY <2>1, <2>8
<1>6. p.samples = [i \in 1..(FrameEnd(c, s) - s) |-> s + i]
  <2>1. FrameEnd(c, s) - s = Len(p.samples)
        BY <1>1, <1>3
  <2> QED BY <2>1 DEF Whole, Run
<1>7. p = [pts |-> p.pts, samples |-> p.samples, ctl |-> p.ctl]
      BY DEF Whole, Packets
<1> QED BY <1>3, <1>4, <1>5, <1>6, <1>7 DEF FrameAt

-----------------------------------------------------------------------------
(* A line of packets: the packets in the order in which they are sent.  If *)
(* it is exact, no frame is missing in it either.                          *)
GoodLine(c, l, exact) ==
    /\ l \in Seq(Packets)
    /\ \A i \in 1..Len(l) : Whole(c, l[i])
    /\ \A i \in 1..(Len(l) - 1) : Follows(c, l[i], l[i + 1])
    /\ l # <<>> => l[1].pts = 0
    /\ exact => /\ \A i \in 1..Len(l) : Exact(c, l[i])
                /\ \A i \in 1..(Len(l) - 1) : UpTo(l[i]) = From(l[i + 1])
                /\ l # <<>> => From(l[1]) = 0

LEMMA EmptyLine ==
    ASSUME NEW c, NEW exact
    PROVE  GoodLine(c, <<>>, exact)
<1>1. <<>> \in Seq(Packets) /\ Len(<<>>) = 0
      BY EmptySeq
<1> QED BY <1>1 DEF GoodLine

LEMMA LineStays ==
    ASSUME NEW c \in Seq(Calls), NEW call \in Calls, NEW d, Extends(c, call, d),
           Accepted(c) <= call.at, NEW l, NEW exact \in BOOLEAN, GoodLine(c, l, exact)
    PROVE  GoodLine(d, l, exact)
<1>1. \A i \in 1..Len(l) : Whole(c, l[i])
      BY DEF GoodLine
<1>2. \A i \in 1..Len(l) : Whole(d, l[i])
      BY <1>1, WholeStays
<1>3. \A i \in 1..(Len(l) - 1) : Follows(d, l[i], l[i + 1])
  <2> SUFFICES ASSUME NEW i \in 1..(Len(l) - 1) PROVE Follows(d, l[i], l[i + 1])
      OBVIOUS
  <2>1. Len(l) \in Nat
        BY LenProperties DEF GoodLine
  <2>2. i + 1 \in 1..Len(l)
        BY <2>1
  <2>3. Follows(c, l[i], l[i + 1]) /\ Whole(c, l[i + 1])
        BY <1>1, <2>2 DEF GoodLine
  <2> QED BY <2>3, FollowsStays
<1>4. exact => \A i \in 1..Len(l) : Exact(d, l[i])
  <2> SUFFICES ASSUME exact, NEW i \in 1..Len(l) PROVE Exact(d, l[i])
      OBVIOUS
  <2>1. Exact(c, l[i])
        BY DEF GoodLine
  <2> QED BY <1>1, <2>1, ExactStays
<1> QED BY <1>2, <1>3, <1>4 DEF GoodLine

LEMMA LineLoosens ==
    ASSUME NEW c, NEW l, NEW exact, NEW loose, GoodLine(c, l, exact), loose => exact
    PROVE  GoodLine(c, l, loose)
BY DEF GoodLine

LEMMA LinePrefix ==
    ASSUME NEW c, NEW exact \in BOOLEAN, NEW s \in Seq(Packets), NEW t \in Seq(Packets),
           GoodLine(c, s \o t, exact)
    PROVE  GoodLine(c, s, exact)
<1> DEFINE l == s \o t
<1>1. /\ l \in Seq(Packets) /\ Len(l) = Len(s) + Len(t)
      /\ \A i \in 1..(Len(s) + Len(t)) : l[i] = IF i <= Len(s) THEN s[i] ELSE t[i - Len(s)]
      /\ Len(s) \in Nat /\ Len(t) \in Nat
      BY ConcatProperties, LenProperties
<1> HIDE DEF l
<1>2. \A i \in 1..Len(s) : l[i] = s[i] /\ i \in 1..Len(l)
      BY <1>1
<1>3. GoodLine(c, l, exact)
      BY DEF l
<1>4. \A i \in 1..(Len(s) - 1) :
          l[i] = s[i] /\ l[i + 1] = s[i + 1] /\ i \in 1..(Len(l) - 1)
  <2> SUFFICES ASSUME NEW i \in 1..(Len(s) - 1)
               PROVE  l[i] = s[i] /\ l[i + 1] = s[i + 1] /\ i \in 1..(Len(l) - 1)
      OBVIOUS
  <2>1. i \in 1..Len(s) /\ i + 1 \in 1..Len(s) /\ i \in 1..(Len(l) - 1)
        BY <1>1
  <2> QED BY <1>2, <2>1
<1>5. s # <<>> => l # <<>> /\ l[1] = s[1]
  <2> SUFFICES ASSUME s # <<>> PROVE l # <<>> /\ l[1] = s[1]
      OBVIOUS
  <2>1. Len(s) \in Nat \ {0}
        BY EmptySeq
  <2>2. 1 \in 1..Len(s) /\ Len(l) # 0
        BY <1>1, <2>1
  <2>3. l # <<>>
        BY <2>2, EmptySeq
  <2> QED BY <1>2, <2>2, <2>3
<1>6. \A i \in 1..Len(s) : Whole(c, s[i])
      BY <1>2, <1>3 DEF GoodLine
<1>7. \A i \in 1..(Len(s) - 1) : Follows(c, s[i], s[i + 1])
      BY <1>3, <1>4 DEF GoodLine
<1>8. s # <<>> => s[1].pts = 0
      BY <1>3, <1>5 DEF GoodLine
<1>9. ASSUME exact
      PROVE  /\ \A i \in 1..Len(s) : Exact(c, s[i])
             /\ \A i \in 1..(Len(s) - 1) : UpTo(s[i]) = From(s[i + 1])
             /\ s # <<>> => From(s[1]) = 0
  <2>1. /\ \A i \in 1..Len(l) : Exact(c, l[i])
        /\ \A i \in 1..(Len(l) - 1) : UpTo(l[i]) = From(l[i + 1])
        /\ l # <<>> => From(l[1]) = 0
        BY <1>3, <1>9 DEF GoodLine
  <2> QED BY <1>2, <1>4, <1>5, <2>1
<1> QED BY <1>6, <1>7, <1>8, <1>9 DEF GoodLine

(* The packet that may come next. *)
LEMMA LineGrows ==
    ASSUME NEW c, NEW exact \in BOOLEAN, NEW l, NEW p, GoodLine(c, l, exact), Whole(c, p),
           exact => Exact(c, p),
           l = <<>> => p.pts = 0 /\ (exact => From(p) = 0),
           l # <<>> => /\ Follows(c, l[Len(l)], p)
                       /\ exact => UpTo(l[Len(l)]) = From(p)
    PROVE  GoodLine(c, Append(l, p), exact)
<1> DEFINE m == Append(l, p)
<1>1. l \in Seq(Packets) /\ p \in Packets
      BY DEF GoodLine, Whole
<1>2. /\ m \in Seq(Packets) /\ Len(m) = Len(l) + 1 /\ Len(l) \in Nat /\ m # <<>>
      /\ \A i \in 1..Len(l) : m[i] = l[i]
      /\ m[Len(l) + 1] = p
      BY <1>1, AppendProperties, LenProperties
<1> HIDE DEF m
<1>3. ASSUME NEW i \in 1..Len(m)
      PROVE  Whole(c, m[i]) /\ (exact => Exact(c, m[i]))
  <2>1. CASE i \in 1..Len(l)
        BY <1>2, <2>1 DEF GoodLine
  <2>2. CASE i = Len(l) + 1
        BY <1>2, <2>2
  <2> QED BY <1>2, <2>1, <2>2
<1>4. ASSUME NEW i \in 1..(Len(m) - 1)
      PROVE  Follows(c, m[i], m[i + 1]) /\ (exact => UpTo(m[i]) = From(m[i + 1]))
  <2>1. i \in 1..Len(l) /\ m[i] = l[i]
        BY <1>2
  <2>2. CASE i = Len(l)
    <3>1. l # <<>> /\ m[i + 1] = p /\ m[i] = l[Len(l)]
          BY <1>2, <2>1, <2>2, EmptySeq
    <3> QED BY <3>1
  <2>3. CASE i \in 1..(Len(l) - 1)
    <3>1. i + 1 \in 1..Len(l)
          BY <1>2, <2>3
    <3>2. m[i + 1] = l[i + 1]
          BY <1>2, <3>1
    <3> QED BY <2>1, <2>3, <3>2 DEF GoodLine
  <2> QED BY <1>2, <2>1, <2>2, <2>3
<1>5. m[1].pts = 0 /\ (exact => From(m[1]) = 0)
  <2>1. CASE l = <<>>
    <3>1. m[1] = p
          BY <1>2, <2>1, EmptySeq
    <3> QED BY <2>1, <3>1
  <2>2. CASE l # <<>>
    <3>1. 1 \in 1..Len(l)
          BY <1>1, <1>2, <2>2, EmptySeq
    <3>2. m[1] = l[1]
          BY <1>2, <3>1
    <3> QED BY <2>2, <3>2 DEF GoodLine
  <2> QED BY <2>1, <2>2
<1>6. GoodLine(c, m, exact)
      BY <1>2, <1>3, <1>4, <1>5 DEF GoodLine
<1> QED BY <1>6 DEF m

-----------------------------------------------------------------------------
(* The inductive invariant.                                                *)

(* The number of samples accepted up to call n, and the ends of segments   *)
(* among the first h calls.                                                *)
At(c, n) == IF n = 0 THEN 0 ELSE c[n].at
CutsBy(c, h) == {c[k].at : k \in {j \in 1..h : IsFlush(c, j)}}

(* A PCM call carries the samples that follow those of the calls before    *)
(* it, and any other call carries none.                                    *)
GoodCalls(c) ==
    /\ \A j \in 1..Len(c), k \in 1..Len(c) : j <= k => c[j].at <= c[k].at
    /\ \A k \in 1..Len(c) :
          /\ c[k].msg.type \in Settings \cup {"POST_PCM_BUFFER", "FLUSH_OPUS_ENCODER"}
          /\ c[k].msg.type # "POST_PCM_BUFFER" => c[k].at = At(c, k - 1)
          /\ c[k].msg.type = "POST_PCM_BUFFER" =>
                /\ At(c, k - 1) < c[k].at
                /\ c[k].msg.samples = Run(At(c, k - 1), c[k].at - At(c, k - 1))

(* The encoder has received the first n calls.  Its queue holds the calls  *)
(* after them, unless an abort has emptied it.                             *)
QueueInv(n) ==
    \/ aborted /\ encQ.msgs = <<>>
    \/ /\ Len(encQ.msgs) = Len(calls) - n
       /\ \A i \in 1..(Len(calls) - n) : encQ.msgs[i] = calls[n + i].msg

(* It is busy with the last of them, or has handled that to the end too.   *)
Busy       == encPc \in {"notify", "handle", "post", "flushPost"}
Handled(n) == IF Busy THEN n - 1 ELSE n

(* It has not taken all samples of the call.                               *)
Partial == encPc \in {"notify", "handle", "post"} /\ encMsg.type = "POST_PCM_BUFFER"

(* Where the encoder is in the samples: those up to f are in frames, the   *)
(* next ones are in the accumulator, and then come those of the message.   *)
AccumInv(f) ==
    /\ accum = Run(f, Len(accum))
    /\ encPc # "post" => Len(accum) < FrameSize
    /\ encPc = "post" => Len(accum) = FrameSize /\ Partial
    /\ encPc = "flushPost" => accum # <<>> /\ encMsg.type = "FLUSH_OPUS_ENCODER"
    /\ encPc \in {"post", "flushPost"} => encPkt = Packet(accum)

MessageInv(n, f) ==
    /\ encPc \in {"start", "opus"} => n = 0
    /\ Busy => n > 0 /\ encMsg.type = calls[n].msg.type
    /\ Busy /\ ~Partial => encMsg = calls[n].msg
    /\ ~Partial => f + Len(accum) = At(calls, n)
    /\ Partial =>
          /\ At(calls, n - 1) <= f + Len(accum) /\ f + Len(accum) <= At(calls, n)
          /\ encPc # "post" => f + Len(accum) < At(calls, n)
          /\ encPc = "post" => At(calls, n - 1) < f + Len(accum)
          /\ encMsg.samples = Run(f + Len(accum), At(calls, n) - (f + Len(accum)))

(* No segment ends inside the accumulator; and if no encoding has failed,  *)
(* pts counts the frames since the last segment ended.                     *)
SegmentInv(n, f) ==
    /\ \A x \in CutsBy(calls, Handled(n)) : x <= f
    /\ "encode" \notin faults =>
          \E b \in {0} \cup CutsBy(calls, Handled(n)), q \in Nat :
              /\ \A x \in CutsBy(calls, Handled(n)) : x <= b
              /\ f = b + q * FrameSize
              /\ pts = q * FRAME_SIZE_OUTPUT

SettingsInv(n) ==
    encPc \notin {"start", "opus"} /\ faults \cap {"start", "opus"} = {}
        => ctl = SettingsAt(calls, Handled(n) + 1)

(* The packets on their way: sent, in the hand of the producer, and in its *)
(* queue.  A producer that failed sends nothing more.                      *)
Lost   == faults \cap {"open", "write"} # {}
InHand == IF prodPc = "send" THEN <<prodPkt>> ELSE <<>>
Line   == IF Lost THEN sent ELSE sent \o (InHand \o prodQ.msgs)

LineInv == GoodLine(calls, Line, "encode" \notin faults)

(* The next packet will continue the line. *)
TipInv(n, f) ==
    ~Lost =>
        /\ Line = <<>> => pts = 0 /\ ("encode" \notin faults => f = 0)
        /\ Line # <<>> =>
              LET p == Line[Len(Line)]
              IN /\ UpTo(p) <= f
                 /\ pts = IF \E x \in CutsBy(calls, Handled(n)) : UpTo(p) <= x
                          THEN 0 ELSE p.pts + FRAME_SIZE_OUTPUT
                 /\ "encode" \notin faults => UpTo(p) = f

(* Who has stopped, who has closed what, and what has then been lost.      *)
Joining  == {"join", "finSend", "finRecv", "finish", "done"}
Stopping == {"stopSend", "stopRecv"} \cup Joining
Ending   == {"exitSend", "exitRecv", "done"}

StopInv ==
    /\ Lost => prodPc \in Ending
    /\ ~Lost =>
          /\ prodQ.err_send => encPc \in {"stopRecv"} \cup Joining
          /\ prodQ.err_recv => encPc \in Joining
          /\ prodPc \in Ending => encPc \in Joining /\ prodQ.msgs = <<>>
    /\ prodPc = "none" /\ encPc # "start" => "start" \in faults
    /\ encPc \notin Stopping => faults \cap {"start", "opus"} = {}
    /\ js = "endRecv" => encQ.err_send
    /\ encQ.err_recv => encQ.err_send

EndInv(n) ==
    encPc \in Stopping /\ faults = {} => encQ.err_send /\ (aborted \/ n = Len(calls))

PosInv(n, f) ==
    /\ QueueInv(n) /\ AccumInv(f) /\ MessageInv(n, f) /\ SegmentInv(n, f)
    /\ SettingsInv(n) /\ TipInv(n, f) /\ EndInv(n)

FrameInv ==
    /\ GoodCalls(calls) /\ LineInv /\ StopInv
    /\ \E n \in 0..Len(calls), f \in Nat : PosInv(n, f)

(* What is known of a state besides. *)
BaseInv == TypeOK /\ ShutdownInv /\ AbortInv

-----------------------------------------------------------------------------
(* Initially.                                                              *)

LEMMA InitFrameInv == Init => FrameInv
<1> SUFFICES ASSUME Init PROVE FrameInv
    OBVIOUS
<1> USE DEF Init, InitJs, InitHandles, InitThreads
<1>1. calls = <<>> /\ Len(calls) = 0 /\ Len(accum) = 0 /\ accum = <<>>
      BY EmptySeq
<1>2. GoodCalls(calls)
      BY <1>1 DEF GoodCalls
<1>3. Line = <<>> /\ ~Lost
  <2>1. <<>> \o <<>> = <<>> /\ <<>> \o (<<>> \o <<>>) = <<>>
        BY EmptySeq, ConcatEmptySeq
  <2> QED BY <2>1 DEF Line, Lost, InHand, EmptyQueue
<1>4. LineInv
      BY <1>3, EmptyLine DEF LineInv
<1>5. StopInv
      BY DEF StopInv, Lost, EmptyQueue, Ending, Stopping, Joining
<1>6. PosInv(0, 0)
  <2>1. CutsBy(calls, 0) = {} /\ Handled(0) = 0 /\ ~Partial /\ ~Busy
        BY DEF CutsBy, Handled, Busy, Partial
  <2>2. QueueInv(0)
        BY <1>1 DEF QueueInv, EmptyQueue
  <2>3. AccumInv(0)
    <3>1. Run(0, 0) = <<>>
          BY RunProperties
    <3> QED BY <1>1, <3>1, FrameSizeAssumption DEF AccumInv
  <2>4. MessageInv(0, 0)
        BY <1>1, <2>1 DEF MessageInv, At
  <2>5. SegmentInv(0, 0)
    <3>1. 0 = 0 + 0 * FrameSize /\ 0 = 0 * FRAME_SIZE_OUTPUT
          BY Multiples, FrameSizeAssumption DEF FRAME_SIZE_OUTPUT
    <3> QED BY <2>1, <3>1 DEF SegmentInv
  <2>6. SettingsInv(0) /\ TipInv(0, 0) /\ EndInv(0)
        BY <1>3 DEF SettingsInv, TipInv, EndInv, Stopping, Joining
  <2> QED BY <2>2, <2>3, <2>4, <2>5, <2>6 DEF PosInv
<1> QED BY <1>1, <1>2, <1>4, <1>5, <1>6 DEF FrameInv

-----------------------------------------------------------------------------
(* The JavaScript thread.                                                  *)

LEMMA LineUnchanged ==
    ASSUME UNCHANGED <<prodQ, prodPc, prodPkt, sent>>, Lost' <=> Lost
    PROVE  Line' = Line
BY DEF Line, InHand

(* Nothing but a function of JavaScript has failed. *)
FaultsKept == faults' \in {faults, faults \cup {"throw"}}

LEMMA SameFaults ==
    ASSUME FaultsKept
    PROVE  /\ Lost' <=> Lost
           /\ "encode" \in faults' <=> "encode" \in faults
           /\ "start" \in faults' <=> "start" \in faults
           /\ faults' \cap {"start", "opus"} = faults \cap {"start", "opus"}
           /\ faults' = {} => faults = {}
<1>1. CASE faults' = faults
      BY <1>1 DEF Lost
<1>2. CASE faults' = faults \cup {"throw"}
      BY <1>2 DEF Lost
<1> QED BY <1>1, <1>2 DEF FaultsKept

LEMMA EncoderUnchanged ==
    ASSUME NEW n, NEW f, UNCHANGED encVars, UNCHANGED calls, FaultsKept
    PROVE  /\ AccumInv(f) => AccumInv(f)'
           /\ MessageInv(n, f) => MessageInv(n, f)'
           /\ SegmentInv(n, f) => SegmentInv(n, f)'
           /\ SettingsInv(n) => SettingsInv(n)'
           /\ Line' = Line => (TipInv(n, f) => TipInv(n, f)')
<1> USE SameFaults DEF encVars
<1>1. (Busy' <=> Busy) /\ (Partial' <=> Partial) /\ Handled(n)' = Handled(n)
      BY DEF Busy, Partial, Handled
<1>2. AccumInv(f) => AccumInv(f)'
      BY <1>1 DEF AccumInv, Packet
<1>3. MessageInv(n, f) => MessageInv(n, f)'
      BY <1>1 DEF MessageInv
<1>4. SegmentInv(n, f) => SegmentInv(n, f)'
      BY <1>1 DEF SegmentInv
<1>5. SettingsInv(n) => SettingsInv(n)'
      BY <1>1 DEF SettingsInv
<1>6. Line' = Line => (TipInv(n, f) => TipInv(n, f)')
      BY <1>1 DEF TipInv
<1> QED BY <1>2, <1>3, <1>4, <1>5, <1>6

(* Steps that only close or empty the queue of the encoder.                *)
LEMMA ClosingKeepsFrames ==
    ASSUME FrameInv, UNCHANGED encVars, UNCHANGED prodVars,
           UNCHANGED <<calls, prodQ>>, FaultsKept,
           encQ'.msgs = encQ.msgs \/ (aborted' /\ encQ'.msgs = <<>>),
           aborted => aborted', encQ.err_send => encQ'.err_send,
           encQ'.err_recv => encQ'.err_send, js' = "endRecv" => encQ'.err_send
    PROVE  FrameInv'
<1>1. PICK n \in 0..Len(calls), f \in Nat : PosInv(n, f)
      BY DEF FrameInv
<1>2. (Lost' <=> Lost) /\ Line' = Line
      BY SameFaults, LineUnchanged DEF prodVars
<1>3. GoodCalls(calls)' /\ LineInv'
      BY <1>2, SameFaults DEF FrameInv, LineInv
<1>4. StopInv'
      BY <1>2, SameFaults DEF FrameInv, StopInv, prodVars, encVars
<1>5. QueueInv(n)'
      BY <1>1 DEF PosInv, QueueInv
<1>6. EndInv(n)'
      BY <1>1, SameFaults DEF PosInv, EndInv, encVars
<1>7. PosInv(n, f)'
      BY <1>1, <1>2, <1>5, <1>6, EncoderUnchanged DEF PosInv
<1> QED BY <1>3, <1>4, <1>7 DEF FrameInv

(* A call that the queue accepts.                                          *)
LEMMA AcceptedKeepsCalls ==
    ASSUME NEW c \in Seq(Calls), GoodCalls(c), NEW m \in Messages, NEW x \in Nat,
           m.type \in Settings \cup {"POST_PCM_BUFFER", "FLUSH_OPUS_ENCODER"},
           m.type # "POST_PCM_BUFFER" => x = 0,
           m.type = "POST_PCM_BUFFER" => x > 0 /\ m.samples = Run(Accepted(c), x),
           NEW d, Extends(c, [msg |-> m, at |-> Accepted(c) + x], d)
    PROVE  GoodCalls(d)
<1> DEFINE call == [msg |-> m, at |-> Accepted(c) + x]
<1>1. Accepted(c) \in Nat /\ call.at = Accepted(c) + x /\ call.msg = m
      BY AcceptedIsLast
<1>2. /\ Len(d) = Len(c) + 1 /\ Len(c) \in Nat /\ d[Len(c) + 1] = call
      /\ \A k \in 1..Len(c) : d[k] = c[k]
      BY DEF Extends
<1> HIDE DEF call
<1>3. At(c, Len(c)) = Accepted(c)
  <2>1. CASE c = <<>>
        BY <2>1, EmptySeq, AcceptedIsLast DEF At
  <2>2. CASE c # <<>>
        BY <2>2, AcceptedIsLast DEF At
  <2> QED BY <2>1, <2>2
<1>4. \A k \in 1..Len(c) : c[k].at \in Nat /\ c[k].at <= Accepted(c)
  <2> SUFFICES ASSUME NEW k \in 1..Len(c)
               PROVE  c[k].at \in Nat /\ c[k].at <= Accepted(c)
      OBVIOUS
  <2>1. c # <<>> /\ Len(c) \in 1..Len(c)
        BY <1>2, EmptySeq
  <2>2. c[k].at <= c[Len(c)].at
        BY <1>2, <2>1 DEF GoodCalls
  <2> QED BY <2>1, <2>2, AcceptedIsLast, CutsMember
<1>5. \A k \in 1..Len(c) : At(d, k - 1) = At(c, k - 1)
      BY <1>2 DEF At
<1>6. At(d, Len(c)) = Accepted(c)
      BY <1>2, <1>3 DEF At
<1>7. \A j \in 1..Len(d), k \in 1..Len(d) : j <= k => d[j].at <= d[k].at
  <2> SUFFICES ASSUME NEW j \in 1..Len(d), NEW k \in 1..Len(d), j <= k
               PROVE  d[j].at <= d[k].at
      OBVIOUS
  <2>1. CASE k = Len(c) + 1 /\ j = Len(c) + 1
        BY <1>1, <1>2, <2>1
  <2>2. CASE k = Len(c) + 1 /\ j \in 1..Len(c)
    <3>1. d[j].at \in Nat /\ d[j].at <= Accepted(c)
          BY <1>2, <1>4, <2>2
    <3> QED BY <1>1, <1>2, <2>2, <3>1
  <2>3. CASE k \in 1..Len(c)
    <3>1. j \in 1..Len(c)
          BY <2>3
    <3> QED BY <1>2, <2>3, <3>1 DEF GoodCalls
  <2> QED BY <1>2, <2>1, <2>2, <2>3
<1>8. ASSUME NEW k \in 1..Len(d)
      PROVE  /\ d[k].msg.type \in Settings \cup {"POST_PCM_BUFFER", "FLUSH_OPUS_ENCODER"}
             /\ d[k].msg.type # "POST_PCM_BUFFER" => d[k].at = At(d, k - 1)
             /\ d[k].msg.type = "POST_PCM_BUFFER" =>
                   /\ At(d, k - 1) < d[k].at
                   /\ d[k].msg.samples = Run(At(d, k - 1), d[k].at - At(d, k - 1))
  <2>1. CASE k \in 1..Len(c)
        BY <1>2, <1>5, <2>1 DEF GoodCalls
  <2>2. CASE k = Len(c) + 1
    <3>1. d[k] = call /\ At(d, k - 1) = Accepted(c)
          BY <1>2, <1>6, <2>2
    <3>2. m.type # "POST_PCM_BUFFER" => call.at = Accepted(c)
          BY <1>1
    <3>3. call.at - Accepted(c) = x
          BY <1>1
    <3>4. m.type = "POST_PCM_BUFFER" => Accepted(c) < call.at
          BY <1>1
    <3> QED BY <1>1, <3>1, <3>2, <3>3, <3>4
  <2> QED BY <1>2, <2>1, <2>2
<1> QED BY <1>7, <1>8 DEF GoodCalls

LEMMA CallsType == TypeOK => calls \in Seq(Calls)
BY DEF TypeOK, HistoryTypes, Calls

(* A call of the API: the queue takes it, and it is one call more, or the  *)
(* queue is full and nothing happens.                                      *)
LEMMA PostKeepsFrames ==
    ASSUME BaseInv, FrameInv, NEW m \in Messages, NEW x \in Nat,
           m.type \in Settings \cup {"POST_PCM_BUFFER", "FLUSH_OPUS_ENCODER"},
           m.type # "POST_PCM_BUFFER" => x = 0,
           m.type = "POST_PCM_BUFFER" => x > 0 /\ m.samples = Run(Accepted(calls), x),
           ~SendFails(encQ), PostToEncoder(m), Log(m, x),
           UNCHANGED encVars, UNCHANGED prodVars, UNCHANGED <<prodQ, js, aborted, faults>>
    PROVE  FrameInv'
<1> DEFINE call == [msg |-> m, at |-> Accepted(calls) + x]
<1>1. calls \in Seq(Calls) /\ encQ \in QueueOf(Messages) /\ encQ.msgs \in Seq(Messages)
      BY CallsType DEF BaseInv, TypeOK, QueueTypes, QueueOf
<1>2. PICK n \in 0..Len(calls), f \in Nat : PosInv(n, f)
      BY DEF FrameInv
<1>3. ~aborted /\ ~encQ.err_send
      BY DEF BaseInv, AbortInv, SendFails
<1>4. CASE ~CanSend(encQ, QueueDepth)
  <2>1. UNCHANGED <<encQ, calls>>
        BY <1>4 DEF PostToEncoder, Log, TrySend
  <2> QED
      BY <1>3, <2>1, ClosingKeepsFrames DEF FrameInv, StopInv, FaultsKept
<1>5. CASE CanSend(encQ, QueueDepth)
  <2>1. /\ encQ'.msgs = Append(encQ.msgs, m) /\ encQ'.err_send = encQ.err_send
        /\ encQ'.err_recv = encQ.err_recv
        BY <1>1, <1>5 DEF PostToEncoder, TrySend, Send, QueueOf
  <2>2. calls' = Append(calls, call)
        BY <1>5 DEF Log
  <2>3. Accepted(calls) \in Nat /\ call \in Calls
    <3>1. Accepted(calls) \in Nat
          BY <1>1, AcceptedIsLast
    <3>2. Accepted(calls) + x \in Nat
          BY <3>1
    <3> QED BY <3>1, <3>2 DEF Calls
  <2>4. call.at = Accepted(calls) + x /\ Accepted(calls) <= call.at /\ call.msg = m
        BY <2>3
  <2>5. Extends(calls, call, calls')
        BY <1>1, <2>2, <2>3, CallAppended
  <2>6. PICK d : d = calls'
        OBVIOUS
  <2>7. Extends(calls, call, d) /\ GoodCalls(calls)
        BY <2>5, <2>6 DEF FrameInv
  <2>8. GoodCalls(d)
        BY <1>1, <2>7, AcceptedKeepsCalls
  <2> HIDE DEF call
  <2>9. (Lost' <=> Lost) /\ Line' = Line
        BY LineUnchanged DEF Lost, prodVars
  <2>10. LineInv'
    <3>1. GoodLine(calls, Line, "encode" \notin faults)
          BY DEF FrameInv, LineInv
    <3>2. GoodLine(d, Line, "encode" \notin faults)
          BY <1>1, <2>3, <2>4, <2>7, <3>1, LineStays
    <3> QED BY <2>6, <2>9, <3>2 DEF LineInv
  <2>11. StopInv'
        BY <1>3, <2>1, <2>9 DEF FrameInv, StopInv, prodVars, encVars
  <2>12. /\ Len(d) = Len(calls) + 1 /\ Len(calls) \in Nat /\ d[Len(calls) + 1] = call
         /\ \A k \in 1..Len(calls) : d[k] = calls[k]
         /\ \A k \in 0..(Len(calls) + 1) : SettingsAt(d, k) = SettingsAt(calls, k)
        BY <2>7 DEF Extends
  <2>13. (Busy' <=> Busy) /\ (Partial' <=> Partial) /\ Handled(n)' = Handled(n)
        BY DEF Busy, Partial, Handled, encVars
  <2>14. Busy => n > 0
        BY <1>2 DEF PosInv, MessageInv
  <2>15. Handled(n) \in 0..Len(calls) /\ Handled(n) + 1 \in 0..(Len(calls) + 1)
        BY <2>12, <2>14 DEF Handled
  <2>16. /\ At(d, n) = At(calls, n) /\ (n > 0 => d[n] = calls[n])
         /\ n > 0 => At(d, n - 1) = At(calls, n - 1)
        BY <2>12 DEF At
  <2>17. CutsBy(d, Handled(n)) = CutsBy(calls, Handled(n))
    <3> DEFINE h == Handled(n)
    <3>1. \A j \in 1..h : d[j] = calls[j]
          BY <2>12, <2>15
    <3> HIDE DEF h
    <3>2. {j \in 1..h : IsFlush(d, j)} = {j \in 1..h : IsFlush(calls, j)}
          BY <3>1 DEF IsFlush
    <3>3. CutsBy(d, h) = CutsBy(calls, h)
          BY <3>1, <3>2 DEF CutsBy
    <3> QED BY <3>3 DEF h
  <2>18. QueueInv(n)'
    <3>1. /\ Len(encQ.msgs) = Len(calls) - n
          /\ \A i \in 1..(Len(calls) - n) : encQ.msgs[i] = calls[n + i].msg
          BY <1>2, <1>3 DEF PosInv, QueueInv
    <3> DEFINE s == Append(encQ.msgs, m)
    <3>2. /\ Len(s) = Len(encQ.msgs) + 1
          /\ \A i \in 1..Len(encQ.msgs) : s[i] = encQ.msgs[i]
          /\ s[Len(encQ.msgs) + 1] = m
          BY <1>1, AppendProperties
    <3> HIDE DEF s
    <3>3. Len(s) = Len(d) - n
          BY <2>12, <3>1, <3>2
    <3>4. ASSUME NEW i \in 1..(Len(d) - n) PROVE s[i] = d[n + i].msg
      <4>1. CASE i \in 1..(Len(calls) - n)
        <5>1. n + i \in 1..Len(calls)
              BY <2>12, <4>1
        <5> QED BY <2>12, <3>1, <3>2, <4>1, <5>1
      <4>2. CASE i = Len(calls) - n + 1
        <5>1. n + i = Len(calls) + 1 /\ i = Len(encQ.msgs) + 1
              BY <2>12, <3>1, <4>2
        <5> QED BY <2>4, <2>12, <3>2, <5>1
      <4>3. i \in 1..(Len(calls) - n) \/ i = Len(calls) - n + 1
            BY <2>12
      <4> QED BY <4>1, <4>2, <4>3
    <3> QED BY <2>1, <2>6, <3>3, <3>4 DEF QueueInv, s
  <2>19. AccumInv(f)'
        BY <1>2, <2>13 DEF PosInv, AccumInv, encVars, Packet
  <2>20. MessageInv(n, f)'
    <3>1. n > 0 => d[n].msg = calls[n].msg
          BY <2>16
    <3>2. Partial => Busy
          BY DEF Partial, Busy
    <3>3. MessageInv(n, f)
          BY <1>2 DEF PosInv
    <3> QED BY <2>6, <2>13, <2>14, <2>16, <3>1, <3>2, <3>3 DEF MessageInv, encVars
  <2>21. SegmentInv(n, f)'
        BY <1>2, <2>6, <2>13, <2>17 DEF PosInv, SegmentInv, encVars
  <2>22. SettingsInv(n)'
        BY <1>2, <2>6, <2>12, <2>13, <2>15 DEF PosInv, SettingsInv, encVars
  <2>23. TipInv(n, f)'
        BY <1>2, <2>6, <2>9, <2>13, <2>17 DEF PosInv, TipInv, encVars
  <2>24. EndInv(n)'
        BY <1>2, <1>3 DEF PosInv, EndInv, encVars
  <2>25. PosInv(n, f)'
        BY <2>18, <2>19, <2>20, <2>21, <2>22, <2>23, <2>24 DEF PosInv
  <2>26. n \in 0..Len(d)
        BY <2>12
  <2> QED BY <2>6, <2>8, <2>10, <2>11, <2>25, <2>26 DEF FrameInv
<1> QED BY <1>4, <1>5

LEMMA JsFrameInv ==
    ASSUME BaseInv, FrameInv, JsCall \/ JsContinue \/ EventLoop
    PROVE  FrameInv'
<1> USE DEF queues, jsVars, uvVars, history
<1>1. encQ \in QueueOf(Messages) /\ calls \in Seq(Calls) /\ Accepted(calls) \in Nat
      BY CallsType, AcceptedIsLast DEF BaseInv, TypeOK, QueueTypes
<1>2. /\ SetErrSend(encQ).err_send /\ SetErrSend(encQ).msgs = encQ.msgs
      /\ SetErrRecv(encQ).err_send = encQ.err_send /\ SetErrRecv(encQ).msgs = encQ.msgs
      /\ Flush(encQ).err_send = encQ.err_send /\ Flush(encQ).msgs = <<>>
      /\ Flush(encQ).err_recv = encQ.err_recv
      BY <1>1 DEF QueueOf, SetErrSend, SetErrRecv, Flush
<1>3. /\ encQ.err_recv => encQ.err_send
      /\ js = "endRecv" => encQ.err_send
      /\ aborted => encQ.err_send
      /\ js \in {"abortRecv", "abortFlush", "abortClear"} => aborted
      BY DEF FrameInv, StopInv, BaseInv, AbortInv
<1>4. ASSUME NEW n \in ChunkSizes, Write(n)
      PROVE  FrameInv'
  <2> DEFINE s == [i \in 1..n |-> Accepted(calls) + i]
             m == [type |-> "POST_PCM_BUFFER", samples |-> s]
  <2>1. n \in Nat /\ n > 0
        BY ProduceRtpAssumption
  <2>2. s = Run(Accepted(calls), n) /\ s \in Seq(Nat)
        BY <1>1, <2>1, RunProperties DEF Run
  <2> HIDE DEF s
  <2>3. m \in Messages /\ m.type = "POST_PCM_BUFFER" /\ m.samples = s
        BY <2>2 DEF Messages, PcmMessages
  <2>4. PostToEncoder(m) /\ Log(m, n) /\ ~SendFails(encQ)
        BY <1>4 DEF Write, s
  <2>5. UNCHANGED encVars /\ UNCHANGED prodVars /\ UNCHANGED <<prodQ, js, aborted, faults>>
        BY <1>4 DEF Write
  <2> HIDE DEF m
  <2> QED BY <2>1, <2>2, <2>3, <2>4, <2>5, PostKeepsFrames
<1>5. CASE EndSegment
  <2>1. FlushMessage \in Messages /\ FlushMessage.type = "FLUSH_OPUS_ENCODER"
        BY MessageTypes DEF FlushMessage
  <2>2. /\ PostToEncoder(FlushMessage) /\ Log(FlushMessage, 0) /\ ~SendFails(encQ)
        /\ UNCHANGED encVars /\ UNCHANGED prodVars /\ UNCHANGED <<prodQ, js, aborted, faults>>
        BY <1>5 DEF EndSegment
  <2> QED BY <2>1, <2>2, PostKeepsFrames
<1>6. ASSUME NEW t \in Settings, NEW v \in SettingValues[t], SetEncoder(t, v)
      PROVE  FrameInv'
  <2> DEFINE m == [type |-> t, value |-> v]
  <2>1. v \in Int
        BY ProduceRtpAssumption
  <2>2. m \in Messages /\ m.type = t /\ t # "POST_PCM_BUFFER"
        BY <2>1 DEF Messages, SetMessages, Settings
  <2>3. /\ PostToEncoder(m) /\ Log(m, 0) /\ ~SendFails(encQ)
        /\ UNCHANGED encVars /\ UNCHANGED prodVars /\ UNCHANGED <<prodQ, js, aborted, faults>>
        BY <1>6 DEF SetEncoder
  <2> HIDE DEF m
  <2> QED BY <2>2, <2>3, PostKeepsFrames
<1>7. CASE End
      BY <1>2, <1>7, ClosingKeepsFrames DEF End, FaultsKept
<1>8. CASE EndRecv
      BY <1>2, <1>3, <1>8, ClosingKeepsFrames DEF EndRecv, FaultsKept
<1>9. CASE Abort
      BY <1>2, <1>9, ClosingKeepsFrames DEF Abort, FaultsKept
<1>10. CASE AbortRecv
      BY <1>2, <1>3, <1>10, ClosingKeepsFrames DEF AbortRecv, FaultsKept
<1>11. CASE AbortFlush
      BY <1>2, <1>3, <1>11, ClosingKeepsFrames DEF AbortFlush, FaultsKept
<1>12. CASE AbortClear
  <2>1. encQ' = encQ
        BY <1>3, <1>12 DEF AbortClear, PostToEncoder, TrySend, CanSend
  <2> QED BY <1>3, <1>12, <2>1, ClosingKeepsFrames DEF AbortClear, FaultsKept
<1>13. CASE EventLoop
      BY <1>3, <1>13, ClosingKeepsFrames
         DEF EventLoop, DrainCallback, DrainReturn, Fault, FinishCallback,
             RemoveListener, FaultsKept
<1>14. CASE CallAfterClose
      BY <1>3, <1>14, ClosingKeepsFrames DEF CallAfterClose, FaultsKept
<1> QED
    BY <1>4, <1>5, <1>6, <1>7, <1>8, <1>9, <1>10, <1>11, <1>12, <1>13, <1>14
       DEF JsCall, JsContinue

-----------------------------------------------------------------------------
(* The encoder thread, when it starts and when it stops.                   *)

(* Nothing is taken from the line and nothing is added to it.              *)
LEMMA LineKept ==
    ASSUME FrameInv, UNCHANGED <<calls, prodPkt, sent>>, prodQ'.msgs = prodQ.msgs,
           (prodPc' = "send" <=> prodPc = "send"), faults \subseteq faults',
           faults' \subseteq faults \cup {"start", "opus", "encode"}
    PROVE  (Lost' <=> Lost) /\ Line' = Line /\ LineInv' /\ GoodCalls(calls)'
<1>1. Lost' <=> Lost
      BY DEF Lost
<1>2. InHand' = InHand
      BY DEF InHand
<1>3. Line' = Line
      BY <1>1, <1>2 DEF Line
<1>4. PICK l : l = Line
      OBVIOUS
<1>5. GoodLine(calls, l, "encode" \notin faults)
      BY <1>4 DEF FrameInv, LineInv
<1>6. GoodLine(calls, l, "encode" \notin faults')
      BY <1>5, LineLoosens
<1>7. LineInv'
      BY <1>3, <1>4, <1>6 DEF LineInv
<1>8. GoodCalls(calls)'
      BY DEF FrameInv
<1> QED BY <1>1, <1>3, <1>7, <1>8

(* A step between two points of the encoder at which it handles no         *)
(* message.                                                                *)
LEMMA IdleKeepsPos ==
    ASSUME NEW n, NEW f, PosInv(n, f), UNCHANGED <<calls, accum, pts, aborted>>,
           encQ'.msgs = encQ.msgs, ~Busy, encPc' \notin {"notify", "handle", "post", "flushPost"},
           encPc' \in {"start", "opus"} => encPc \in {"start", "opus"},
           faults \subseteq faults', (Lost' <=> Lost), Line' = Line
    PROVE  /\ QueueInv(n)' /\ AccumInv(f)' /\ MessageInv(n, f)' /\ SegmentInv(n, f)'
           /\ TipInv(n, f)'
<1>1. ~Busy' /\ ~Partial /\ ~Partial' /\ Handled(n) = n /\ Handled(n)' = n
      /\ encPc \notin {"notify", "handle", "post", "flushPost"}
      BY DEF Busy, Partial, Handled
<1>2. QueueInv(n)'
      BY DEF PosInv, QueueInv
<1>3. AccumInv(f)'
      BY <1>1 DEF PosInv, AccumInv
<1>4. MessageInv(n, f)'
      BY <1>1 DEF PosInv, MessageInv
<1>5. SegmentInv(n, f)'
      BY <1>1 DEF PosInv, SegmentInv
<1>6. TipInv(n, f)'
      BY <1>1 DEF PosInv, TipInv
<1> QED BY <1>2, <1>3, <1>4, <1>5, <1>6

LEMMA NoSettingsYet ==
    ASSUME NEW c \in Seq(Calls)
    PROVE  SettingsAt(c, 1) = StartSettings
<1>1. \A t \in Settings : {j \in IndicesOf(c, t) : j < 1} = {}
  <2>1. DOMAIN c = 1..Len(c)
        BY LenProperties
  <2> QED BY <2>1 DEF IndicesOf
<1>2. SettingsAt(c, 1) = [t \in Settings |-> StartSettings[t]]
      BY <1>1 DEF SettingsAt
<1>3. StartSettings \in [Settings -> Int]
      BY SettingsTypes
<1> QED BY <1>2, <1>3

LEMMA IdleFrameInv ==
    ASSUME BaseInv, FrameInv,
           \/ EncStartProducer \/ EncCreateOpus \/ EncEof \/ EncStopSend \/ EncStopRecv
           \/ EncJoin \/ EncFinSend \/ EncFinRecv \/ EncFinish
    PROVE  FrameInv'
<1> USE DEF queues, jsVars, uvVars, prodVars, history
<1>1. PICK n \in 0..Len(calls), f \in Nat : PosInv(n, f)
      BY DEF FrameInv
<1>2. encQ \in QueueOf(Messages) /\ prodQ \in QueueOf(Packets) /\ calls \in Seq(Calls)
      BY CallsType DEF BaseInv, TypeOK, QueueTypes
<1>3. /\ SetErrSend(encQ).err_send /\ SetErrSend(encQ).msgs = encQ.msgs
      /\ SetErrSend(encQ).err_recv = encQ.err_recv
      /\ SetErrRecv(encQ).err_send = encQ.err_send /\ SetErrRecv(encQ).msgs = encQ.msgs
      /\ SetErrSend(prodQ).msgs = prodQ.msgs /\ SetErrRecv(prodQ).msgs = prodQ.msgs
      /\ SetErrSend(prodQ).err_recv = prodQ.err_recv
      /\ SetErrRecv(prodQ).err_send = prodQ.err_send
      BY <1>2 DEF QueueOf, SetErrSend, SetErrRecv
<1>4. ShutdownInv
      BY DEF BaseInv
<1>5. StopInv
      BY DEF FrameInv
<1> DEFINE Step == \/ EncStartProducer \/ EncCreateOpus \/ EncEof \/ EncStopSend
                   \/ EncStopRecv \/ EncJoin \/ EncFinSend \/ EncFinRecv \/ EncFinish
<1>6. /\ UNCHANGED <<calls, prodPkt, sent, accum, pts, aborted, js>>
      /\ prodQ'.msgs = prodQ.msgs /\ encQ'.msgs = encQ.msgs
      /\ (prodPc' = "send" <=> prodPc = "send") /\ faults \subseteq faults'
      /\ faults' \subseteq faults \cup {"start", "opus", "encode"}
      /\ encPc \notin {"notify", "handle", "post", "flushPost"}
      /\ encPc' \notin {"notify", "handle", "post", "flushPost", "start"}
      /\ encPc' = "opus" => encPc = "start"
      BY <1>3, <1>4
         DEF EncStartProducer, EncCreateOpus, EncEof, EncStopSend, EncStopRecv,
             EncJoin, EncFinSend, EncFinRecv, EncFinish, ShutdownInv, Fault
<1>7. (Lost' <=> Lost) /\ Line' = Line /\ LineInv' /\ GoodCalls(calls)'
      BY <1>6, LineKept
<1>8. /\ QueueInv(n)' /\ AccumInv(f)' /\ MessageInv(n, f)' /\ SegmentInv(n, f)'
      /\ TipInv(n, f)'
      BY <1>1, <1>6, <1>7, IdleKeepsPos DEF Busy
<1>9. ~Busy /\ ~Busy' /\ Handled(n) = n /\ Handled(n)' = n
      BY <1>6 DEF Busy, Handled
<1>10. ASSUME StopInv', SettingsInv(n)', EndInv(n)'
       PROVE  FrameInv'
  <2>1. PosInv(n, f)'
        BY <1>8, <1>10 DEF PosInv
  <2>2. n \in 0..Len(calls')
        BY <1>6
  <2> QED BY <1>7, <1>10, <2>1, <2>2 DEF FrameInv
<1>11. SettingsInv(n) /\ EndInv(n)
       BY <1>1 DEF PosInv
<1>12. CASE EncStartProducer
  <2>1. StopInv'
        BY <1>4, <1>5, <1>7, <1>12
           DEF StopInv, EncStartProducer, Fault, ShutdownInv, Stopping, Joining, Ending
  <2>2. SettingsInv(n)' /\ EndInv(n)'
        BY <1>12 DEF SettingsInv, EndInv, EncStartProducer, Fault, Stopping, Joining
  <2> QED BY <1>10, <2>1, <2>2
<1>13. CASE EncCreateOpus
  <2>1. StopInv'
        BY <1>5, <1>7, <1>13
           DEF StopInv, EncCreateOpus, Fault, Stopping, Joining, Ending
  <2>2. EndInv(n)'
        BY <1>13 DEF EndInv, EncCreateOpus, Fault, Stopping, Joining
  <2>3. n = 0
        BY <1>1, <1>13 DEF PosInv, MessageInv, EncCreateOpus
  <2>4. SettingsAt(calls, n + 1) = StartSettings
        BY <1>2, <2>3, NoSettingsYet
  <2>5. SettingsInv(n)'
        BY <1>9, <1>13, <2>4 DEF SettingsInv, EncCreateOpus, Fault
  <2> QED BY <1>10, <2>1, <2>2, <2>5
<1>14. CASE EncEof
  <2>1. StopInv'
        BY <1>5, <1>7, <1>14 DEF StopInv, EncEof, Stopping, Joining, Ending
  <2>2. encQ.err_send /\ (aborted \/ n = Len(calls))
    <3>1. Len(<<>>) = 0 /\ Len(calls) \in Nat
          BY <1>2, LenProperties
    <3> QED BY <1>1, <1>5, <1>14, <3>1
           DEF EncEof, RecvFails, StopInv, PosInv, QueueInv
  <2>3. EndInv(n)'
        BY <1>14, <2>2 DEF EndInv, EncEof
  <2>4. SettingsInv(n)'
        BY <1>9, <1>11, <1>14 DEF SettingsInv, EncEof
  <2> QED BY <1>10, <2>1, <2>3, <2>4
<1>15. CASE EncStopSend \/ EncStopRecv \/ EncJoin
  <2>1. StopInv'
        BY <1>3, <1>5, <1>7, <1>15
           DEF StopInv, EncStopSend, EncStopRecv, EncJoin, Stopping, Joining, Ending
  <2>2. SettingsInv(n)' /\ EndInv(n)'
        BY <1>9, <1>11, <1>15
           DEF SettingsInv, EndInv, EncStopSend, EncStopRecv, EncJoin, Stopping, Joining
  <2> QED BY <1>10, <2>1, <2>2
<1>16. CASE EncFinSend \/ EncFinRecv \/ EncFinish
  <2>1. StopInv'
        BY <1>3, <1>4, <1>5, <1>7, <1>16
           DEF StopInv, EncFinSend, EncFinRecv, EncFinish, ShutdownInv, Stopping,
               Joining, Ending
  <2>2. SettingsInv(n)' /\ EndInv(n)'
        BY <1>3, <1>9, <1>11, <1>16
           DEF SettingsInv, EndInv, EncFinSend, EncFinRecv, EncFinish, Stopping, Joining
  <2> QED BY <1>10, <2>1, <2>2
<1> QED BY <1>12, <1>13, <1>14, <1>15, <1>16

-----------------------------------------------------------------------------
(* The encoder thread receives a message and handles it.                   *)

(* StopInv looks at the encoder only to see whether it stops.              *)
LEMMA HandlingKeepsStop ==
    ASSUME StopInv, Lost' <=> Lost, UNCHANGED <<prodPc, js>>,
           prodQ'.err_send = prodQ.err_send, prodQ'.err_recv = prodQ.err_recv,
           encQ'.err_send = encQ.err_send, encQ'.err_recv = encQ.err_recv,
           encPc \in {"recv", "notify", "handle", "post", "flushPost"},
           encPc' \in {"recv", "notify", "handle", "post", "flushPost"},
           faults \subseteq faults', faults' \subseteq faults \cup {"encode"}
    PROVE  StopInv'
BY DEF StopInv, Stopping, Joining

LEMMA NotifyFrameInv ==
    ASSUME BaseInv, FrameInv, EncNotify
    PROVE  FrameInv'
<1>1. PICK n \in 0..Len(calls), f \in Nat : PosInv(n, f)
      BY DEF FrameInv
<1>2. /\ UNCHANGED <<queues, jsVars, encMsg, accum, pts, encPkt, ctl, prodVars, history>>
      /\ encPc = "notify" /\ encPc' = "handle"
      BY DEF EncNotify
<1> USE DEF queues, jsVars, prodVars, history
<1>3. (Lost' <=> Lost) /\ Line' = Line /\ LineInv' /\ GoodCalls(calls)'
      BY <1>2, LineKept
<1>4. StopInv'
      BY <1>2, <1>3, HandlingKeepsStop DEF FrameInv
<1>5. Busy /\ Busy' /\ (Partial' <=> Partial) /\ Handled(n)' = Handled(n)
      BY <1>2 DEF Busy, Partial, Handled
<1>6. QueueInv(n)' /\ AccumInv(f)'
      BY <1>1, <1>2, <1>5 DEF PosInv, QueueInv, AccumInv
<1>7. MessageInv(n, f)'
      BY <1>1, <1>2, <1>5 DEF PosInv, MessageInv
<1>8. SegmentInv(n, f)' /\ SettingsInv(n)'
      BY <1>1, <1>2, <1>5 DEF PosInv, SegmentInv, SettingsInv
<1>9. TipInv(n, f)'
      BY <1>1, <1>2, <1>3, <1>5 DEF PosInv, TipInv
<1>10. EndInv(n)'
      BY <1>2 DEF EndInv, Stopping, Joining
<1>11. PosInv(n, f)' /\ calls' = calls
      BY <1>2, <1>6, <1>7, <1>8, <1>9, <1>10 DEF PosInv
<1> QED BY <1>3, <1>4, <1>11 DEF FrameInv

LEMMA RecvFrameInv ==
    ASSUME BaseInv, FrameInv, EncRecv
    PROVE  FrameInv'
<1>1. PICK n \in 0..Len(calls), f \in Nat : PosInv(n, f)
      BY DEF FrameInv
<1>2. /\ UNCHANGED <<prodQ, jsVars, accum, pts, encPkt, ctl, prodVars, history>>
      /\ encPc = "recv" /\ encPc' = "notify"
      /\ encMsg' = Head(encQ.msgs) /\ encQ.msgs # <<>> /\ encQ' = Recv(encQ)
      BY DEF EncRecv, CanRecv
<1> USE DEF queues, jsVars, prodVars, history
<1>3. (Lost' <=> Lost) /\ Line' = Line /\ LineInv' /\ GoodCalls(calls)'
      BY <1>2, LineKept
<1>4. /\ encQ \in QueueOf(Messages) /\ encQ.msgs \in Seq(Messages)
      /\ calls \in Seq(Calls) /\ Len(calls) \in Nat
      BY CallsType, LenProperties DEF BaseInv, TypeOK, QueueTypes, QueueOf
<1>5. /\ encQ'.msgs = Tail(encQ.msgs)
      /\ encQ'.err_send = encQ.err_send /\ encQ'.err_recv = encQ.err_recv
      BY <1>2, <1>4 DEF QueueOf, Recv
<1>6. StopInv'
      BY <1>2, <1>3, <1>5, HandlingKeepsStop DEF FrameInv
<1>7. /\ Len(encQ.msgs) = Len(calls) - n
      /\ \A i \in 1..(Len(calls) - n) : encQ.msgs[i] = calls[n + i].msg
      BY <1>1, <1>2 DEF PosInv, QueueInv
<1>8. /\ Len(encQ.msgs) \in Nat \ {0} /\ Head(encQ.msgs) = encQ.msgs[1]
      /\ Len(Tail(encQ.msgs)) = Len(encQ.msgs) - 1
      /\ \A i \in 1..(Len(encQ.msgs) - 1) : Tail(encQ.msgs)[i] = encQ.msgs[i + 1]
      BY <1>2, <1>4, TailProperties
<1>9. n + 1 \in 1..Len(calls) /\ encMsg' = calls[n + 1].msg
      BY <1>2, <1>4, <1>7, <1>8
<1>10. QueueInv(n + 1)'
  <2> DEFINE s == Tail(encQ.msgs)
  <2>1. Len(s) = Len(calls) - (n + 1)
        BY <1>4, <1>7, <1>8
  <2>2. ASSUME NEW i \in 1..(Len(calls) - (n + 1))
        PROVE  s[i] = calls[(n + 1) + i].msg
    <3>1. /\ i \in 1..(Len(encQ.msgs) - 1) /\ i + 1 \in 1..(Len(calls) - n)
          /\ n + (i + 1) = (n + 1) + i
          BY <1>4, <1>7
    <3> QED BY <1>7, <1>8, <3>1
  <2> HIDE DEF s
  <2>3. calls' = calls
        BY <1>2
  <2> QED BY <2>1, <2>2, <2>3, <1>5 DEF QueueInv, s
<1>11. ~Busy /\ Busy' /\ ~Partial /\ Handled(n) = n /\ Handled(n + 1)' = n
       /\ (Partial' <=> encMsg'.type = "POST_PCM_BUFFER")
      BY <1>2 DEF Busy, Partial, Handled
<1>12. AccumInv(f)'
      BY <1>1, <1>2 DEF PosInv, AccumInv
<1>13. MessageInv(n + 1, f)'
  <2> DEFINE call == calls[n + 1]
  <2>1. f + Len(accum) = At(calls, n)
        BY <1>1, <1>11 DEF PosInv, MessageInv
  <2>2. At(calls, n + 1) = call.at /\ (n + 1) - 1 = n /\ n + 1 > 0 /\ n + 1 # 0
        BY DEF At
  <2>3. /\ call.msg.type # "POST_PCM_BUFFER" => call.at = At(calls, n)
        /\ call.msg.type = "POST_PCM_BUFFER" =>
              /\ At(calls, n) < call.at
              /\ call.msg.samples = Run(At(calls, n), call.at - At(calls, n))
    <3>1. GoodCalls(calls)
          BY DEF FrameInv
    <3> QED BY <1>9, <2>2, <3>1 DEF GoodCalls
  <2>4. call.at \in Nat
        BY <1>4, <1>9, CutsMember
  <2>5. encMsg' = call.msg /\ calls' = calls /\ accum' = accum /\ encPc' = "notify"
        BY <1>2, <1>9
  <2>6. At(calls, n) \in Nat
    <3>1. Len(accum) \in Nat
          BY LenProperties DEF BaseInv, TypeOK, EncTypes
    <3> QED BY <2>1, <3>1
  <2> HIDE DEF call
  <2> QED BY <1>11, <2>1, <2>2, <2>3, <2>4, <2>5, <2>6 DEF MessageInv, call
<1>14. SegmentInv(n + 1, f)'
      BY <1>1, <1>2, <1>11 DEF PosInv, SegmentInv
<1>15. SettingsInv(n + 1)'
      BY <1>1, <1>2, <1>11 DEF PosInv, SettingsInv
<1>16. TipInv(n + 1, f)'
      BY <1>1, <1>2, <1>3, <1>11 DEF PosInv, TipInv
<1>17. EndInv(n + 1)'
      BY <1>2 DEF EndInv, Stopping, Joining
<1>18. PosInv(n + 1, f)'
      BY <1>10, <1>12, <1>13, <1>14, <1>15, <1>16, <1>17 DEF PosInv
<1>19. n + 1 \in 0..Len(calls')
      BY <1>2, <1>9
<1> QED BY <1>3, <1>6, <1>18, <1>19 DEF FrameInv

(* What handling the call n to the end adds to the ends of segments and to *)
(* the settings.                                                           *)
LEMMA CallHandled ==
    ASSUME NEW c \in Seq(Calls), NEW n \in 1..Len(c)
    PROVE  /\ IsFlush(c, n) => CutsBy(c, n) = CutsBy(c, n - 1) \cup {c[n].at}
           /\ ~IsFlush(c, n) => CutsBy(c, n) = CutsBy(c, n - 1)
           /\ c[n].msg.type \notin Settings => SettingsAt(c, n + 1) = SettingsAt(c, n)
           /\ c[n].msg.type \in Settings =>
                 SettingsAt(c, n + 1) =
                 [SettingsAt(c, n) EXCEPT ![c[n].msg.type]
                    = CtlValue(c[n].msg.type, c[n].msg.value)]
<1>0. DOMAIN c = 1..Len(c) /\ Len(c) \in Nat /\ n \in Nat
      BY LenProperties
<1> DEFINE F(h) == {j \in 1..h : IsFlush(c, j)}
<1>1. ASSUME IsFlush(c, n)
      PROVE  CutsBy(c, n) = CutsBy(c, n - 1) \cup {c[n].at}
  <2>1. F(n) = F(n - 1) \cup {n}
        BY <1>1
  <2>2. {c[k].at : k \in F(n)} = {c[k].at : k \in F(n - 1)} \cup {c[n].at}
        BY <2>1
  <2> QED BY <2>2 DEF CutsBy
<1>2. ASSUME ~IsFlush(c, n)
      PROVE  CutsBy(c, n) = CutsBy(c, n - 1)
  <2>1. F(n) = F(n - 1)
        BY <1>2
  <2> QED BY <2>1 DEF CutsBy
<1> DEFINE E(t, k) == {j \in IndicesOf(c, t) : j < k}
<1>3. ASSUME NEW t \in Settings, c[n].msg.type # t
      PROVE  E(t, n + 1) = E(t, n)
  <2>1. n \notin IndicesOf(c, t)
        BY <1>3 DEF IndicesOf
  <2>2. IndicesOf(c, t) \subseteq 1..Len(c)
        BY <1>0 DEF IndicesOf
  <2> QED BY <2>1, <2>2
<1>4. ASSUME NEW t \in Settings, c[n].msg.type = t
      PROVE  E(t, n + 1) # {} /\ Max(E(t, n + 1)) = n
  <2>1. n \in E(t, n + 1)
        BY <1>0, <1>4 DEF IndicesOf
  <2>2. E(t, n + 1) \subseteq Int
        BY <1>0 DEF IndicesOf
  <2>3. \A x \in E(t, n + 1) : x <= n
        BY <2>2
  <2>4. Max(E(t, n + 1)) = n
        BY <2>1, <2>2, <2>3, MaxIs
  <2> QED BY <2>1, <2>4
<1> DEFINE V(t, k) == IF E(t, k) = {} THEN StartSettings[t]
                      ELSE CtlValue(t, c[Max(E(t, k))].msg.value)
<1>5. \A k : SettingsAt(c, k) = [t \in Settings |-> V(t, k)]
      BY DEF SettingsAt
<1>6. \A t \in Settings : c[n].msg.type # t => V(t, n + 1) = V(t, n)
      BY <1>3
<1>7. \A t \in Settings : c[n].msg.type = t => V(t, n + 1) = CtlValue(t, c[n].msg.value)
      BY <1>4
<1> HIDE DEF V, E, F
<1>8. c[n].msg.type \notin Settings => SettingsAt(c, n + 1) = SettingsAt(c, n)
      BY <1>5, <1>6
<1>9. c[n].msg.type \in Settings =>
         SettingsAt(c, n + 1) =
         [SettingsAt(c, n) EXCEPT ![c[n].msg.type]
            = CtlValue(c[n].msg.type, c[n].msg.value)]
      BY <1>5, <1>6, <1>7
<1> QED BY <1>1, <1>2, <1>8, <1>9

(* After a turn of the loop over a PCM buffer: the samples up to f are in  *)
(* frames, a further ones are in the accumulator, and either there is more *)
(* to take or the call is handled.                                         *)
LEMMA InputTaken ==
    ASSUME calls \in Seq(Calls), UNCHANGED calls, GoodCalls(calls),
           NEW n \in 1..Len(calls), NEW f \in Nat, NEW a \in Nat, a < FrameSize,
           calls[n].msg.type = "POST_PCM_BUFFER", encMsg'.type = "POST_PCM_BUFFER",
           accum' = Run(f, a), At(calls, n - 1) <= f + a, f + a <= At(calls, n),
           encMsg'.samples = Run(f + a, At(calls, n) - (f + a)),
           encPc' = AfterInput(encMsg'.samples)
    PROVE  /\ AccumInv(f)' /\ MessageInv(n, f)' /\ encPc' \in {"recv", "handle"}
           /\ CutsBy(calls, Handled(n))' = CutsBy(calls, n - 1)
           /\ SettingsAt(calls, Handled(n) + 1)' = SettingsAt(calls, n)
<1> DEFINE g == f + a
           r == At(calls, n) - (f + a)
<1>1. At(calls, n) = calls[n].at /\ calls[n].at \in Nat
      BY CutsMember DEF At
<1>2. g \in Nat /\ r \in Nat /\ At(calls, n) = g + r
      BY <1>1
<1>3. Len(accum') = a
      BY RunProperties
<1>4. Len(encMsg'.samples) = r /\ encMsg'.samples \in Seq(Nat)
      BY <1>2, RunProperties
<1> HIDE DEF r, g
<1>5. ~IsFlush(calls, n) /\ calls[n].msg.type \notin Settings
      BY DEF IsFlush, Settings
<1>6. CutsBy(calls, n) = CutsBy(calls, n - 1) /\ SettingsAt(calls, n + 1) = SettingsAt(calls, n)
      BY <1>5, CallHandled
<1>7. CASE encPc' = "recv"
  <2>1. r = 0
        BY <1>4, <1>7, EmptySeq DEF AfterInput
  <2>2. ~Busy' /\ ~Partial' /\ Handled(n)' = n
        BY <1>7 DEF Busy, Partial, Handled
  <2>3. AccumInv(f)'
        BY <1>3, <1>7 DEF AccumInv
  <2>4. f + a = At(calls, n)
        BY <1>2, <2>1 DEF g
  <2>5. MessageInv(n, f)'
        BY <1>3, <1>7, <2>2, <2>4 DEF MessageInv
  <2> QED BY <1>6, <1>7, <2>2, <2>3, <2>5
<1>8. CASE encPc' = "handle"
  <2>1. encMsg'.samples # <<>>
        BY <1>8 DEF AfterInput
  <2>2. r > 0
        BY <1>2, <1>4, <2>1, EmptySeq
  <2>3. Busy' /\ Partial' /\ Handled(n)' = n - 1 /\ n > 0
        BY <1>8 DEF Busy, Partial, Handled
  <2>4. AccumInv(f)'
        BY <1>3, <1>8 DEF AccumInv
  <2>5. f + a < At(calls, n)
        BY <1>2, <2>2 DEF g
  <2>6. MessageInv(n, f)'
        BY <1>3, <1>8, <2>3, <2>5 DEF MessageInv
  <2>7. (n - 1) + 1 = n
        OBVIOUS
  <2> QED BY <1>8, <2>3, <2>4, <2>6, <2>7
<1> QED BY <1>7, <1>8 DEF AfterInput

(* What a turn of the loop takes from the message.                         *)
LEMMA FillTakes ==
    ASSUME BaseInv, GoodCalls(calls), EncFill, NEW n \in 0..Len(calls), NEW f \in Nat,
           PosInv(n, f)
    PROVE  \E m \in Nat :
             LET g      == f + Len(accum)
                 filled == Run(f, Len(accum) + m)
             IN /\ m > 0 /\ Len(accum) + m <= FrameSize
                /\ At(calls, n - 1) <= g /\ g + m <= At(calls, n)
                /\ encMsg'.type = "POST_PCM_BUFFER" /\ calls[n].msg.type = "POST_PCM_BUFFER"
                /\ encMsg'.samples = Run(g + m, At(calls, n) - (g + m))
                /\ \/ /\ Len(accum) + m < FrameSize
                      /\ accum' = filled /\ encPc' = AfterInput(encMsg'.samples)
                      /\ UNCHANGED <<encPkt, faults>>
                   \/ /\ Len(accum) + m = FrameSize
                      /\ accum' = filled /\ encPkt' = Packet(filled) /\ encPc' = "post"
                      /\ UNCHANGED faults
                   \/ /\ Len(accum) + m = FrameSize /\ faults' = faults \cup {"encode"}
                      /\ accum' = <<>> /\ encPc' = AfterInput(encMsg'.samples)
                      /\ UNCHANGED encPkt
<1> DEFINE a == Len(accum)
           g == f + a
           s == encMsg.samples
           m == Min({Len(s), FrameSize - a})
<1>1. /\ encPc = "handle" /\ encMsg.type = "POST_PCM_BUFFER" /\ encMsg \in Messages
      /\ accum \in Seq(Nat) /\ calls \in Seq(Calls)
      BY CallsType DEF EncFill, BaseInv, TypeOK, EncTypes
<1>2. encMsg \in PcmMessages /\ s \in Seq(Nat)
      BY <1>1, MessageTypes DEF Messages, PcmMessages, SetMessages, FlushMessage,
                                ClearMessage, Settings
<1>3. a \in Nat /\ FrameSize \in Nat \ {0} /\ a < FrameSize /\ accum = Run(f, a)
      BY <1>1, FrameSizeAssumption, LenProperties DEF PosInv, AccumInv
<1>4. /\ n > 0 /\ calls[n].msg.type = "POST_PCM_BUFFER"
      /\ At(calls, n - 1) <= g /\ g < At(calls, n)
      /\ s = Run(g, At(calls, n) - g)
      BY <1>1 DEF PosInv, MessageInv, Partial, Busy
<1>5. n \in 1..Len(calls) /\ At(calls, n) \in Nat
      BY <1>1, <1>4, CutsMember DEF At
<1>6. g \in Nat /\ At(calls, n) - g \in Nat \ {0}
      BY <1>3, <1>4, <1>5
<1>7. Len(s) = At(calls, n) - g
      BY <1>4, <1>6, RunProperties
<1> HIDE DEF s
<1>8. /\ m \in Nat \ {0} /\ m <= Len(s) /\ a + m <= FrameSize
      BY <1>3, <1>6, <1>7, MinOfTwo
<1> HIDE DEF m
<1>9. m \in 0..(At(calls, n) - g)
      BY <1>6, <1>7, <1>8
<1> HIDE DEF g
<1>10. /\ SubSeq(s, 1, m) = Run(g, m)
       /\ SubSeq(s, m + 1, Len(s)) = Run(g + m, At(calls, n) - g - m)
  <2> DEFINE r == At(calls, n) - g
  <2>1. r \in Nat /\ m \in 0..r /\ g \in Nat /\ s = Run(g, r) /\ Len(s) = r
        BY <1>4, <1>6, <1>7, <1>9
  <2> HIDE DEF r
  <2>2. /\ SubSeq(Run(g, r), 1, m) = Run(g, m)
        /\ SubSeq(Run(g, r), m + 1, r) = Run(g + m, r - m)
        BY <2>1, RunSplits
  <2>3. /\ SubSeq(s, 1, m) = Run(g, m)
        /\ SubSeq(s, m + 1, Len(s)) = Run(g + m, r - m)
        BY <2>1, <2>2, Zenon
  <2> QED BY <2>3 DEF r
<1>11. accum \o SubSeq(s, 1, m) = Run(f, a + m)
  <2>1. g = f + a
        BY DEF g
  <2> HIDE DEF a
  <2>2. Run(f, a) \o Run(f + a, m) = Run(f, a + m)
        BY <1>3, <1>8, RunsJoin
  <2> QED BY <1>3, <1>10, <2>1, <2>2, Zenon
<1>12. Len(Run(f, a + m)) = a + m
  <2>1. a + m \in Nat
        BY <1>3, <1>8
  <2> HIDE DEF a
  <2> QED BY <2>1, RunProperties
<1>13. At(calls, n) - g - m = At(calls, n) - (g + m) /\ g + m <= At(calls, n)
      BY <1>5, <1>6, <1>7, <1>8
<1>14. /\ encMsg' = [encMsg EXCEPT !.samples = SubSeq(s, m + 1, Len(s))]
       /\ encMsg'.samples = SubSeq(s, m + 1, Len(s)) /\ encMsg'.type = "POST_PCM_BUFFER"
  <2>1. encMsg' = [encMsg EXCEPT !.samples = SubSeq(s, m + 1, Len(s))]
        BY DEF EncFill, Rest, s, m, a
  <2>2. [encMsg EXCEPT !.samples = SubSeq(s, m + 1, Len(s))].samples
          = SubSeq(s, m + 1, Len(s))
        BY <1>2 DEF PcmMessages
  <2>3. [encMsg EXCEPT !.samples = SubSeq(s, m + 1, Len(s))].type = "POST_PCM_BUFFER"
        BY <1>2 DEF PcmMessages
  <2> QED BY <2>1, <2>2, <2>3
<1> DEFINE filled == accum \o SubSeq(s, 1, m)
<1>15. \/ /\ Len(filled) < FrameSize
          /\ accum' = filled /\ encPc' = AfterInput(encMsg'.samples)
          /\ UNCHANGED <<encPkt, faults>>
       \/ /\ Len(filled) >= FrameSize
          /\ accum' = filled /\ encPkt' = Packet(filled) /\ encPc' = "post"
          /\ UNCHANGED faults
       \/ /\ Len(filled) >= FrameSize /\ Fault("encode")
          /\ accum' = <<>> /\ encPc' = AfterInput(encMsg'.samples)
          /\ UNCHANGED encPkt
  <2>1. Rest(m) = encMsg'.samples
        BY <1>14 DEF Rest, s
  <2>2. \/ /\ Len(filled) < FrameSize
           /\ accum' = filled /\ encPc' = AfterInput(Rest(m))
           /\ UNCHANGED <<encPkt, faults>>
        \/ /\ Len(filled) >= FrameSize
           /\ accum' = filled /\ encPkt' = Packet(filled) /\ encPc' = "post"
           /\ UNCHANGED faults
        \/ /\ Len(filled) >= FrameSize /\ Fault("encode")
           /\ accum' = <<>> /\ encPc' = AfterInput(Rest(m))
           /\ UNCHANGED encPkt
        BY DEF EncFill, s, m, a
  <2> HIDE DEF filled
  <2> QED BY <2>1, <2>2
<1>16. filled = Run(f, a + m) /\ Len(filled) = a + m
      BY <1>11, <1>12
<1> HIDE DEF filled
<1>17. \/ /\ a + m < FrameSize
          /\ accum' = filled /\ encPc' = AfterInput(encMsg'.samples)
          /\ UNCHANGED <<encPkt, faults>>
       \/ /\ a + m = FrameSize
          /\ accum' = filled /\ encPkt' = Packet(filled) /\ encPc' = "post"
          /\ UNCHANGED faults
       \/ /\ a + m = FrameSize /\ faults' = faults \cup {"encode"}
          /\ accum' = <<>> /\ encPc' = AfterInput(encMsg'.samples)
          /\ UNCHANGED encPkt
  <2>1. (a + m < FrameSize <=> Len(filled) < FrameSize)
        /\ (a + m = FrameSize <=> Len(filled) >= FrameSize)
        BY <1>3, <1>8, <1>16
  <2>2. Fault("encode") => faults' = faults \cup {"encode"}
        BY DEF Fault
  <2> HIDE DEF a
  <2> QED BY <1>15, <2>1, <2>2
<1>18. encMsg'.samples = Run(g + m, At(calls, n) - (g + m))
      BY <1>10, <1>13, <1>14
<1> HIDE DEF a
<1>19. /\ m > 0 /\ a + m <= FrameSize /\ m \in Nat
       /\ At(calls, n - 1) <= g /\ g + m <= At(calls, n)
      BY <1>4, <1>8, <1>13 DEF g
<1>20. g = f + a /\ a = Len(accum)
      BY DEF a, g
<1> QED BY <1>4, <1>14, <1>16, <1>17, <1>18, <1>19, <1>20

(* The last packet of a line that has one.                                 *)
LEMMA LineTip ==
    ASSUME LineInv, calls \in Seq(Calls), Line # <<>>
    PROVE  /\ Whole(calls, Line[Len(Line)])
           /\ UpTo(Line[Len(Line)]) \in Nat /\ Line[Len(Line)].pts \in Nat
<1>1. PICK l : l = Line
      OBVIOUS
<1>2. l \in Seq(Packets) /\ l # <<>> /\ \A i \in 1..Len(l) : Whole(calls, l[i])
      BY <1>1 DEF LineInv, GoodLine
<1>3. Len(l) \in 1..Len(l)
      BY <1>2, LastElement
<1>4. Whole(calls, l[Len(l)])
      BY <1>2, <1>3
<1>5. UpTo(l[Len(l)]) \in Nat /\ l[Len(l)].pts \in Nat
      BY <1>4, WholeTypes
<1> QED BY <1>1, <1>4, <1>5

LEMMA FillFrameInv ==
    ASSUME BaseInv, FrameInv, EncFill
    PROVE  FrameInv'
<1>1. PICK n \in 0..Len(calls), f \in Nat : PosInv(n, f)
      BY DEF FrameInv
<1>2. /\ UNCHANGED <<queues, jsVars, pts, ctl, prodVars, calls, asked>>
      /\ encPc = "handle" /\ encMsg.type = "POST_PCM_BUFFER"
      BY DEF EncFill
<1> USE DEF queues, jsVars, prodVars
<1>3. GoodCalls(calls) /\ StopInv
      BY DEF FrameInv
<1>4. PICK m \in Nat :
         /\ m > 0 /\ Len(accum) + m <= FrameSize
         /\ At(calls, n - 1) <= f + Len(accum) /\ f + Len(accum) + m <= At(calls, n)
         /\ encMsg'.type = "POST_PCM_BUFFER" /\ calls[n].msg.type = "POST_PCM_BUFFER"
         /\ encMsg'.samples
              = Run(f + Len(accum) + m, At(calls, n) - (f + Len(accum) + m))
         /\ \/ /\ Len(accum) + m < FrameSize
               /\ accum' = Run(f, Len(accum) + m)
               /\ encPc' = AfterInput(encMsg'.samples)
               /\ UNCHANGED <<encPkt, faults>>
            \/ /\ Len(accum) + m = FrameSize
               /\ accum' = Run(f, Len(accum) + m)
               /\ encPkt' = Packet(Run(f, Len(accum) + m)) /\ encPc' = "post"
               /\ UNCHANGED faults
            \/ /\ Len(accum) + m = FrameSize /\ faults' = faults \cup {"encode"}
               /\ accum' = <<>> /\ encPc' = AfterInput(encMsg'.samples)
               /\ UNCHANGED encPkt
      BY <1>1, <1>3, FillTakes
<1>5. PICK a : a = Len(accum)
      OBVIOUS
<1>6. /\ a \in Nat /\ FrameSize \in Nat \ {0} /\ a + m \in Nat /\ f + a \in Nat
      /\ calls \in Seq(Calls)
      BY <1>4, <1>5, FrameSizeAssumption, LenProperties, CallsType
         DEF BaseInv, TypeOK, EncTypes
<1>7. Busy /\ Partial /\ Handled(n) = n - 1
      BY <1>2 DEF Busy, Partial, Handled
<1>8. n \in 1..Len(calls) /\ At(calls, n) \in Nat /\ At(calls, n - 1) \in Nat
  <2>1. n \in 1..Len(calls)
        BY <1>1, <1>7 DEF PosInv, MessageInv
  <2>2. n - 1 = 0 \/ n - 1 \in 1..Len(calls)
        BY <2>1
  <2> QED BY <1>6, <2>1, <2>2, CutsMember DEF At
<1>9. faults \subseteq faults' /\ faults' \subseteq faults \cup {"encode"}
      BY <1>4
<1>10. (Lost' <=> Lost) /\ Line' = Line /\ LineInv' /\ GoodCalls(calls)'
      BY <1>2, <1>9, LineKept
<1>11. encPc' \in {"recv", "handle", "post"}
      BY <1>4 DEF AfterInput
<1>12. StopInv'
      BY <1>2, <1>3, <1>9, <1>10, <1>11, HandlingKeepsStop
<1>13. QueueInv(n)' /\ EndInv(n)'
      BY <1>1, <1>2, <1>11 DEF PosInv, QueueInv, EndInv, Stopping, Joining
<1>14. SegmentInv(n, f) /\ SettingsInv(n) /\ TipInv(n, f)
      BY <1>1 DEF PosInv
<1>15. ctl = SettingsAt(calls, n) \/ faults \cap {"start", "opus"} # {}
  <2>1. (n - 1) + 1 = n
        OBVIOUS
  <2> QED BY <1>2, <1>7, <1>14, <2>1 DEF SettingsInv
<1>16. CASE a + m < FrameSize
  <2>1. /\ accum' = Run(f, a + m) /\ encPc' = AfterInput(encMsg'.samples)
        /\ UNCHANGED <<encPkt, faults>>
        BY <1>4, <1>5, <1>6, <1>16
  <2>2. PICK b : b = a + m
        OBVIOUS
  <2>3. /\ b \in Nat /\ b < FrameSize /\ f + Len(accum) + m = f + b
        /\ f + Len(accum) <= f + b
        BY <1>5, <1>6, <1>16, <2>2
  <2>4. /\ accum' = Run(f, b) /\ At(calls, n - 1) <= f + b /\ f + b <= At(calls, n)
        /\ encMsg'.samples = Run(f + b, At(calls, n) - (f + b))
        BY <1>4, <1>5, <1>6, <1>8, <2>1, <2>2, <2>3
  <2>5. /\ AccumInv(f)' /\ MessageInv(n, f)' /\ encPc' \in {"recv", "handle"}
        /\ CutsBy(calls, Handled(n))' = CutsBy(calls, n - 1)
        /\ SettingsAt(calls, Handled(n) + 1)' = SettingsAt(calls, n)
        BY <1>2, <1>3, <1>4, <1>6, <1>8, <2>1, <2>3, <2>4, InputTaken
  <2>6. SegmentInv(n, f)'
        BY <1>2, <1>7, <1>14, <2>1, <2>5 DEF SegmentInv
  <2>7. SettingsInv(n)'
        BY <1>2, <1>15, <2>1, <2>5 DEF SettingsInv
  <2>8. TipInv(n, f)'
        BY <1>2, <1>7, <1>10, <1>14, <2>1, <2>5 DEF TipInv
  <2>9. PosInv(n, f)'
        BY <1>13, <2>5, <2>6, <2>7, <2>8 DEF PosInv
  <2> QED BY <1>2, <1>10, <1>12, <2>9 DEF FrameInv
<1>17. CASE a + m = FrameSize /\ encPc' = "post"
  <2>1. /\ accum' = Run(f, FrameSize) /\ encPkt' = Packet(Run(f, FrameSize))
        /\ UNCHANGED faults
        BY <1>4, <1>5, <1>6, <1>17 DEF AfterInput
  <2>2. Len(accum') = FrameSize
        BY <1>6, <2>1, RunProperties
  <2>3. Busy' /\ Partial' /\ Handled(n)' = n - 1
        BY <1>4, <1>17 DEF Busy, Partial, Handled
  <2>4. AccumInv(f)'
        BY <1>2, <1>17, <2>1, <2>2, <2>3 DEF AccumInv, Packet
  <2>5. /\ f + Len(accum) + m = f + FrameSize /\ At(calls, n - 1) < f + FrameSize
        /\ f + FrameSize <= At(calls, n)
        BY <1>4, <1>5, <1>6, <1>8, <1>17
  <2>6. encMsg'.samples = Run(f + FrameSize, At(calls, n) - (f + FrameSize))
        BY <1>4, <2>5
  <2>7. n > 0 /\ At(calls, n - 1) <= f + FrameSize
        BY <1>6, <1>8, <2>5
  <2>8. MessageInv(n, f)'
        BY <1>2, <1>4, <1>17, <2>2, <2>3, <2>5, <2>6, <2>7 DEF MessageInv
  <2>9. SegmentInv(n, f)'
        BY <1>2, <1>7, <1>14, <2>1, <2>3 DEF SegmentInv
  <2>10. SettingsInv(n)'
    <3>1. (n - 1) + 1 = n
          OBVIOUS
    <3> QED BY <1>2, <1>15, <2>1, <2>3, <3>1 DEF SettingsInv
  <2>11. TipInv(n, f)'
        BY <1>2, <1>7, <1>10, <1>14, <2>1, <2>3 DEF TipInv
  <2>12. PosInv(n, f)'
        BY <1>13, <2>4, <2>8, <2>9, <2>10, <2>11 DEF PosInv
  <2> QED BY <1>2, <1>10, <1>12, <2>12 DEF FrameInv
<1>18. CASE a + m = FrameSize /\ encPc' # "post"
  <2>1. /\ faults' = faults \cup {"encode"} /\ accum' = <<>>
        /\ encPc' = AfterInput(encMsg'.samples)
        BY <1>4, <1>5, <1>6, <1>18
  <2>2. PICK e : e = f + FrameSize
        OBVIOUS
  <2>3. /\ e \in Nat /\ f <= e /\ f + Len(accum) + m = e /\ e + 0 = e /\ 0 < FrameSize
        /\ f + Len(accum) <= e
        BY <1>4, <1>5, <1>6, <1>18, <2>2
  <2>4. accum' = Run(e, 0) /\ At(calls, n - 1) <= e + 0 /\ e + 0 <= At(calls, n)
    <3>1. Run(e, 0) = <<>>
          BY <2>3, RunProperties
    <3>2. At(calls, n - 1) <= f + Len(accum) /\ f + Len(accum) \in Nat
          BY <1>4, <1>5, <1>6
    <3> QED BY <1>4, <1>8, <2>1, <2>3, <3>1, <3>2
  <2>5. encMsg'.samples = Run(e + 0, At(calls, n) - (e + 0))
        BY <1>4, <2>3
  <2>6. /\ AccumInv(e)' /\ MessageInv(n, e)' /\ encPc' \in {"recv", "handle"}
        /\ CutsBy(calls, Handled(n))' = CutsBy(calls, n - 1)
        /\ SettingsAt(calls, Handled(n) + 1)' = SettingsAt(calls, n)
        BY <1>2, <1>3, <1>4, <1>6, <1>8, <2>1, <2>3, <2>4, <2>5, InputTaken
  <2>7. CutsBy(calls, n - 1) \subseteq Nat
        BY <1>6, <1>8, CutsMember DEF CutsBy
  <2>8. SegmentInv(n, e)'
    <3>1. \A x \in CutsBy(calls, n - 1) : x <= f
          BY <1>7, <1>14 DEF SegmentInv
    <3>2. \A x \in CutsBy(calls, n - 1) : x <= e
          BY <2>3, <2>7, <3>1
    <3> QED BY <1>2, <2>1, <2>6, <3>2 DEF SegmentInv
  <2>9. SettingsInv(n)'
        BY <1>2, <1>15, <2>1, <2>6 DEF SettingsInv
  <2>10. TipInv(n, e)'
    <3>1. CASE ~Lost /\ Line # <<>>
      <4> DEFINE p == Line[Len(Line)]
      <4>1. UpTo(p) \in Nat
            BY <1>6, <3>1, LineTip DEF FrameInv
      <4>2. /\ UpTo(p) <= f
            /\ pts = IF \E x \in CutsBy(calls, n - 1) : UpTo(p) <= x
                     THEN 0 ELSE p.pts + FRAME_SIZE_OUTPUT
            BY <1>7, <1>14, <3>1 DEF TipInv
      <4>3. UpTo(p) <= e
            BY <2>3, <4>1, <4>2
      <4> HIDE DEF p
      <4>4. p' = p
            BY <1>10 DEF p
      <4> QED BY <1>2, <1>10, <2>1, <2>6, <3>1, <4>2, <4>3, <4>4 DEF TipInv, p
    <3>2. CASE Lost
          BY <1>10, <3>2 DEF TipInv
    <3>3. CASE ~Lost /\ Line = <<>>
          BY <1>2, <1>10, <1>14, <2>1, <3>3 DEF TipInv
    <3> QED BY <3>1, <3>2, <3>3
  <2>11. PosInv(n, e)'
        BY <1>13, <2>6, <2>8, <2>9, <2>10 DEF PosInv
  <2> QED BY <1>2, <1>10, <1>12, <2>3, <2>11 DEF FrameInv
<1>19. a + m < FrameSize \/ a + m = FrameSize
      BY <1>4, <1>5, <1>6
<1> QED BY <1>16, <1>17, <1>18, <1>19

(* The packet that the encoder is about to post is the next of the line.   *)
LEMMA PacketIsWhole ==
    ASSUME BaseInv, FrameInv, NEW n \in 0..Len(calls), NEW f \in Nat, PosInv(n, f),
           encPc \in {"post", "flushPost"}
    PROVE  /\ n \in 1..Len(calls) /\ Len(accum) \in 1..FrameSize
           /\ From(encPkt) = f /\ UpTo(encPkt) = f + Len(accum)
           /\ encPkt.pts = pts /\ encPkt.ctl = ctl
           /\ Len(encPkt.samples) = Len(accum)
           /\ f + Len(accum) <= At(calls, n)
           /\ \A x : x \in CutsBy(calls, n - 1) <=> x \in Cuts(calls) /\ x <= f
           /\ Whole(calls, encPkt)
<1> DEFINE a == Len(accum)
<1>1. /\ accum = Run(f, a) /\ a <= FrameSize /\ encPkt = Packet(accum) /\ a > 0
      /\ a \in Nat /\ FrameSize \in Nat \ {0}
  <2>1. a \in Nat /\ FrameSize \in Nat \ {0} /\ a <= FrameSize
        BY FrameSizeAssumption, LenProperties DEF BaseInv, TypeOK, EncTypes
  <2>2. accum = Run(f, a) /\ encPkt = Packet(accum)
        BY DEF PosInv, AccumInv
  <2>3. a # 0
    <3>1. CASE encPc = "post"
          BY <2>1, <3>1 DEF PosInv, AccumInv
    <3>2. CASE encPc = "flushPost"
      <4>1. accum # <<>> /\ accum \in Seq(Nat)
            BY <3>2 DEF PosInv, AccumInv, BaseInv, TypeOK, EncTypes
      <4> QED BY <4>1, EmptySeq
    <3> QED BY <3>1, <3>2
  <2> QED BY <2>1, <2>2, <2>3
<1>2. /\ encPkt.samples = Run(f, a) /\ encPkt.pts = pts /\ encPkt.ctl = ctl
      /\ encPkt \in Packets
      BY <1>1 DEF Packet, BaseInv, TypeOK, EncTypes
<1> HIDE DEF a
<1>3. Len(encPkt.samples) = a /\ encPkt.samples[1] = f + 1
  <2>1. Len(Run(f, a)) = a /\ \A i \in 1..a : Run(f, a)[i] = f + i
        BY <1>1, RunProperties
  <2>2. 1 \in 1..a
        BY <1>1
  <2>3. Run(f, a)[1] = f + 1
        BY <2>1, <2>2
  <2> QED BY <1>2, <2>1, <2>3, Zenon
<1>4. From(encPkt) = f /\ UpTo(encPkt) = f + a
      BY <1>3 DEF From, UpTo
<1>5. calls \in Seq(Calls) /\ GoodCalls(calls) /\ Len(calls) \in Nat
      BY CallsType, LenProperties DEF BaseInv, FrameInv
<1>6. n \in 1..Len(calls) /\ f + a <= At(calls, n)
  <2>1. n > 0
        BY DEF PosInv, MessageInv, Busy
  <2>2. At(calls, n) \in Nat
        BY <1>5, <2>1, CutsMember DEF At
  <2>3. (~Partial => f + a = At(calls, n)) /\ (Partial => f + a <= At(calls, n))
        BY DEF PosInv, MessageInv, a
  <2> QED BY <1>1, <2>1, <2>2, <2>3
<1>7. At(calls, n) = calls[n].at /\ calls[n].at \in Nat
      BY <1>5, <1>6, CutsMember DEF At
<1>8. Handled(n) = n - 1
      BY DEF Handled, Busy
<1>9. \A x \in CutsBy(calls, n - 1) : x <= f /\ x \in Cuts(calls)
  <2> SUFFICES ASSUME NEW x \in CutsBy(calls, n - 1) PROVE x <= f /\ x \in Cuts(calls)
      OBVIOUS
  <2>1. PICK k \in 1..(n - 1) : IsFlush(calls, k) /\ x = calls[k].at
        BY DEF CutsBy
  <2>2. k \in 1..Len(calls)
        BY <1>6
  <2>3. x \in Cuts(calls)
        BY <1>5, <2>1, <2>2, CutsMember
  <2> QED BY <1>8, <2>3 DEF PosInv, SegmentInv
<1>10. \A x \in Cuts(calls) : x \in CutsBy(calls, n - 1) \/ (x \in Nat /\ f + a <= x)
  <2> SUFFICES ASSUME NEW x \in Cuts(calls)
               PROVE  x \in CutsBy(calls, n - 1) \/ (x \in Nat /\ f + a <= x)
      OBVIOUS
  <2>1. PICK k \in 1..Len(calls) : IsFlush(calls, k) /\ x = calls[k].at
        BY <1>5, CutsMember
  <2>2. CASE k < n
    <3>1. k \in 1..(n - 1)
          BY <2>2
    <3> QED BY <2>1, <3>1 DEF CutsBy
  <2>3. CASE n <= k
    <3>1. calls[n].at <= calls[k].at /\ calls[k].at \in Nat
          BY <1>5, <1>6, <2>3, CutsMember DEF GoodCalls
    <3> QED BY <1>1, <1>6, <1>7, <2>1, <3>1
  <2> QED BY <2>2, <2>3
<1>11. \A x : x \in CutsBy(calls, n - 1) <=> x \in Cuts(calls) /\ x <= f
       BY <1>1, <1>9, <1>10
<1>12. Whole(calls, encPkt)
  <2>1. f + a <= Accepted(calls)
    <3>1. calls # <<>> /\ Len(calls) \in 1..Len(calls)
          BY <1>5, <1>6, EmptySeq
    <3>2. calls[n].at <= calls[Len(calls)].at
          BY <1>5, <1>6, <3>1 DEF GoodCalls
    <3>3. Accepted(calls) = calls[Len(calls)].at /\ calls[Len(calls)].at \in Nat
          BY <1>5, <3>1, AcceptedIsLast, CutsMember
    <3> QED BY <1>1, <1>6, <1>7, <3>2, <3>3
  <2>2. \A x \in Cuts(calls) : ~(f < x /\ x < f + a)
    <3> SUFFICES ASSUME NEW x \in Cuts(calls), f < x, x < f + a PROVE FALSE
        OBVIOUS
    <3>1. x \in Nat
          BY <1>5, CutsMember
    <3>2. CASE x \in CutsBy(calls, n - 1)
          BY <1>9, <3>1, <3>2
    <3>3. CASE f + a <= x
          BY <1>1, <3>1, <3>3
    <3> QED BY <1>10, <3>2, <3>3
  <2>3. a \in 1..FrameSize
        BY <1>1
  <2> QED BY <1>2, <1>3, <1>4, <2>1, <2>2, <2>3 DEF Whole
<1>13. a \in 1..FrameSize
       BY <1>1
<1> QED BY <1>2, <1>3, <1>4, <1>6, <1>11, <1>12, <1>13 DEF a

LEMMA PacketIsExact ==
    ASSUME BaseInv, FrameInv, NEW n \in 0..Len(calls), NEW f \in Nat, PosInv(n, f),
           encPc \in {"post", "flushPost"}, "encode" \notin faults
    PROVE  Exact(calls, encPkt)
<1> DEFINE a == Len(accum)
<1>1. /\ n \in 1..Len(calls) /\ a \in 1..FrameSize
      /\ From(encPkt) = f /\ UpTo(encPkt) = f + a
      /\ encPkt.pts = pts /\ encPkt.ctl = ctl /\ Len(encPkt.samples) = a
      /\ f + a <= At(calls, n)
      /\ \A x : x \in CutsBy(calls, n - 1) <=> x \in Cuts(calls) /\ x <= f
      BY PacketIsWhole
<1>2. /\ encPc = "post" => a = FrameSize /\ Partial
      /\ encPc # "post" => a < FrameSize /\ encMsg.type = "FLUSH_OPUS_ENCODER" /\ ~Partial
      BY DEF PosInv, AccumInv, Partial
<1> HIDE DEF a
<1>3. calls \in Seq(Calls) /\ GoodCalls(calls) /\ Len(calls) \in Nat
      /\ FrameSize \in Nat \ {0}
      BY CallsType, LenProperties, FrameSizeAssumption DEF BaseInv, FrameInv
<1>4. Handled(n) = n - 1 /\ Busy
      BY DEF Handled, Busy
<1>5. At(calls, n) = calls[n].at /\ calls[n].at \in Nat
      BY <1>1, <1>3, CutsMember DEF At
<1>6. a < FrameSize => IsFlush(calls, n) /\ f + a = calls[n].at
  <2> SUFFICES ASSUME a < FrameSize PROVE IsFlush(calls, n) /\ f + a = calls[n].at
      OBVIOUS
  <2>1. encPc # "post"
        BY <1>1, <1>2, <1>3
  <2>2. ~Partial /\ encMsg.type = "FLUSH_OPUS_ENCODER"
        BY <1>2, <2>1
  <2>3. f + a = At(calls, n) /\ encMsg.type = calls[n].msg.type
        BY <1>4, <2>2 DEF PosInv, MessageInv, a
  <2> QED BY <1>5, <2>2, <2>3 DEF IsFlush
<1>7. Len(encPkt.samples) < FrameSize => UpTo(encPkt) \in Cuts(calls)
      BY <1>1, <1>3, <1>6, CutsMember
<1>8. \E b \in {0} \cup Cuts(calls), q \in Nat :
          /\ \A x \in Cuts(calls) : x <= From(encPkt) => x <= b
          /\ From(encPkt) = b + q * FrameSize
          /\ encPkt.pts = q * FRAME_SIZE_OUTPUT
      BY <1>1, <1>4 DEF PosInv, SegmentInv
<1>9. Closes(calls, encPkt, n)
      BY <1>1, <1>5, <1>6 DEF Closes
<1>10. ASSUME NEW j \in 1..(n - 1), Closes(calls, encPkt, j)
       PROVE  FALSE
  <2>1. j \in 1..Len(calls) /\ calls[j].at \in Nat /\ f + a <= calls[j].at
        BY <1>1, <1>3, <1>10, CutsMember DEF Closes
  <2>2. CASE encPc = "post"
    <3>1. At(calls, n - 1) < f + a
          BY <1>2, <2>2 DEF PosInv, MessageInv, a
    <3>2. n - 1 \in 1..Len(calls) /\ n - 1 # 0
          BY <1>1
    <3>3. At(calls, n - 1) = calls[n - 1].at /\ calls[n - 1].at \in Nat
          BY <1>3, <3>2, CutsMember DEF At
    <3>4. calls[j].at <= calls[n - 1].at
          BY <1>3, <2>1, <3>2 DEF GoodCalls
    <3> QED BY <1>1, <2>1, <3>1, <3>3, <3>4
  <2>3. CASE encPc # "post"
    <3>1. IsFlush(calls, j)
          BY <1>1, <1>2, <1>10, <2>3 DEF Closes
    <3>2. calls[j].at \in CutsBy(calls, n - 1)
          BY <3>1 DEF CutsBy
    <3>3. calls[j].at <= f
          BY <1>1, <3>2
    <3> QED BY <1>1, <2>1, <3>3
  <2> QED BY <2>2, <2>3
<1>11. encPkt.ctl = SettingsAt(calls, n)
  <2>1. faults \cap {"start", "opus"} = {}
        BY DEF FrameInv, StopInv, Stopping, Joining
  <2>2. (n - 1) + 1 = n
        OBVIOUS
  <2> QED BY <1>1, <1>4, <2>1, <2>2 DEF PosInv, SettingsInv
<1>12. \E k \in 1..Len(calls) :
          /\ Closes(calls, encPkt, k)
          /\ \A j \in 1..(k - 1) : ~Closes(calls, encPkt, j)
          /\ encPkt.ctl = SettingsAt(calls, k)
      BY <1>1, <1>9, <1>10, <1>11
<1> QED BY <1>7, <1>8, <1>12 DEF Exact

(* The blocking send adds it to the line, as long as the producer lives.   *)
LEMMA PacketPosted ==
    ASSUME BaseInv, FrameInv, NEW n \in 0..Len(calls), NEW f \in Nat, PosInv(n, f),
           encPc \in {"post", "flushPost"}, SendToProducer,
           UNCHANGED <<calls, faults, prodPc, prodPkt, sent>>
    PROVE  /\ LineInv' /\ (Lost' <=> Lost)
           /\ prodQ'.err_send = prodQ.err_send /\ prodQ'.err_recv = prodQ.err_recv
           /\ ~Lost => Line' # <<>> /\ Line'[Len(Line')] = encPkt
<1>1. Lost' <=> Lost
      BY DEF Lost
<1>2. prodQ \in QueueOf(Packets) /\ encPkt \in Packets /\ prodQ.msgs \in Seq(Packets)
      /\ sent \in Seq(Packets)
      BY DEF BaseInv, TypeOK, QueueTypes, EncTypes, ProdTypes, QueueOf
<1>3. prodQ'.err_send = prodQ.err_send /\ prodQ'.err_recv = prodQ.err_recv
      BY <1>2 DEF SendToProducer, Send, QueueOf
<1>4. CASE Lost
  <2>1. Line' = Line
        BY <1>1, <1>4 DEF Line
  <2> QED BY <1>1, <1>3, <1>4, <2>1 DEF FrameInv, LineInv
<1>5. CASE ~Lost
  <2>1. ~prodQ.err_send
        BY <1>5 DEF FrameInv, StopInv, Joining
  <2>2. prodQ'.msgs = Append(prodQ.msgs, encPkt)
        BY <1>2, <2>1 DEF SendToProducer, SendFails, Send, QueueOf
  <2>3. InHand \in Seq(Packets) /\ InHand' = InHand
        BY DEF InHand, BaseInv, TypeOK, ProdTypes
  <2>4. Line = sent \o (InHand \o prodQ.msgs)
        BY <1>5 DEF Line
  <2>5. Line' = sent \o (InHand \o Append(prodQ.msgs, encPkt))
        BY <1>1, <1>5, <2>2, <2>3 DEF Line
  <2>0. \A s, t \in Seq(Packets) : \A m \in Packets :
           s \o t \in Seq(Packets) /\ s \o Append(t, m) = Append(s \o t, m)
        BY AppendToConcat, ConcatProperties
  <2>6. InHand \o Append(prodQ.msgs, encPkt) = Append(InHand \o prodQ.msgs, encPkt)
        BY <1>2, <2>0, <2>3
  <2>7. InHand \o prodQ.msgs \in Seq(Packets)
        BY <1>2, <2>0, <2>3
  <2>8. sent \o Append(InHand \o prodQ.msgs, encPkt)
          = Append(sent \o (InHand \o prodQ.msgs), encPkt)
        BY <1>2, <2>0, <2>7
  <2>9. PICK l : l = Line
        OBVIOUS
  <2>10. Line' = Append(l, encPkt)
        BY <2>4, <2>5, <2>6, <2>8, <2>9, Zenon
  <2>11. GoodLine(calls, l, "encode" \notin faults) /\ l \in Seq(Packets)
        BY <2>9 DEF FrameInv, LineInv, GoodLine
  <2>12. Append(l, encPkt) # <<>> /\ Append(l, encPkt)[Len(Append(l, encPkt))] = encPkt
    <3>1. /\ Len(Append(l, encPkt)) = Len(l) + 1 /\ Len(l) \in Nat
          /\ Append(l, encPkt)[Len(l) + 1] = encPkt
          BY <1>2, <2>11, AppendProperties, LenProperties
    <3> QED BY <3>1, EmptySeq
  <2>13. /\ Whole(calls, encPkt) /\ From(encPkt) = f /\ encPkt.pts = pts
         /\ \A x : x \in CutsBy(calls, n - 1) <=> x \in Cuts(calls) /\ x <= f
        BY PacketIsWhole
  <2>14. "encode" \notin faults => Exact(calls, encPkt)
        BY PacketIsExact
  <2>15. Handled(n) = n - 1
        BY DEF Handled, Busy
  <2>16. l = <<>> => encPkt.pts = 0 /\ ("encode" \notin faults => From(encPkt) = 0)
        BY <1>5, <2>9, <2>13 DEF PosInv, TipInv
  <2>17. ASSUME l # <<>>
         PROVE  /\ Follows(calls, l[Len(l)], encPkt)
                /\ "encode" \notin faults => UpTo(l[Len(l)]) = From(encPkt)
    <3> DEFINE p == l[Len(l)]
    <3>1. /\ UpTo(p) <= f
          /\ pts = IF \E x \in CutsBy(calls, n - 1) : UpTo(p) <= x
                   THEN 0 ELSE p.pts + FRAME_SIZE_OUTPUT
          /\ "encode" \notin faults => UpTo(p) = f
          BY <1>5, <2>9, <2>15, <2>17 DEF PosInv, TipInv
    <3> HIDE DEF p
    <3>2. (\E x \in CutsBy(calls, n - 1) : UpTo(p) <= x)
          <=> (\E x \in Cuts(calls) : UpTo(p) <= x /\ x <= f)
          BY <2>13, Zenon
    <3>3. Follows(calls, p, encPkt)
          BY <2>13, <3>1, <3>2 DEF Follows
    <3> QED BY <2>13, <3>1, <3>3 DEF p
  <2>18. GoodLine(calls, Append(l, encPkt), "encode" \notin faults)
        BY <2>11, <2>13, <2>14, <2>16, <2>17, LineGrows
  <2>19. LineInv'
        BY <2>10, <2>18 DEF LineInv
  <2> QED BY <1>1, <1>3, <2>10, <2>12, <2>19
<1> QED BY <1>4, <1>5

LEMMA PostFrameInv ==
    ASSUME BaseInv, FrameInv, EncPost
    PROVE  FrameInv'
<1>1. PICK n \in 0..Len(calls), f \in Nat : PosInv(n, f)
      BY DEF FrameInv
<1>2. /\ UNCHANGED <<encQ, jsVars, encMsg, encPkt, ctl, prodVars, history>>
      /\ encPc = "post" /\ SendToProducer
      /\ pts' = pts + FRAME_SIZE_OUTPUT /\ accum' = <<>>
      /\ encPc' = AfterInput(encMsg.samples)
      BY DEF EncPost
<1> USE DEF jsVars, prodVars, history
<1>3. /\ n \in 1..Len(calls) /\ Len(accum) \in 1..FrameSize
      /\ From(encPkt) = f /\ UpTo(encPkt) = f + Len(accum)
      /\ encPkt.pts = pts
      /\ f + Len(accum) <= At(calls, n)
      BY <1>1, <1>2, PacketIsWhole
<1>4. /\ LineInv' /\ (Lost' <=> Lost)
      /\ prodQ'.err_send = prodQ.err_send /\ prodQ'.err_recv = prodQ.err_recv
      /\ ~Lost => Line' # <<>> /\ Line'[Len(Line')] = encPkt
      BY <1>1, <1>2, PacketPosted
<1>5. Busy /\ Partial /\ Handled(n) = n - 1 /\ Len(accum) = FrameSize
      /\ encMsg.type = "POST_PCM_BUFFER"
      BY <1>1, <1>2 DEF Busy, Partial, Handled, PosInv, AccumInv
<1>6. PICK e : e = f + FrameSize
      OBVIOUS
<1>7. e \in Nat /\ f < e /\ e = f + Len(accum) /\ e + 0 = e /\ FrameSize \in Nat \ {0}
      /\ UpTo(encPkt) = e /\ 0 < FrameSize
      BY <1>3, <1>5, <1>6, FrameSizeAssumption
<1>8. calls \in Seq(Calls) /\ GoodCalls(calls) /\ StopInv /\ pts \in Nat
      BY CallsType DEF BaseInv, FrameInv, TypeOK, EncTypes
<1>9. /\ calls[n].msg.type = "POST_PCM_BUFFER"
      /\ At(calls, n - 1) < e
      /\ encMsg.samples = Run(e, At(calls, n) - e)
      BY <1>1, <1>2, <1>5, <1>7 DEF PosInv, MessageInv
<1>10. At(calls, n - 1) \in Nat
  <2>1. n - 1 = 0 \/ n - 1 \in 1..Len(calls)
        BY <1>3
  <2> QED BY <1>8, <2>1, CutsMember DEF At
<1>11. /\ AccumInv(e)' /\ MessageInv(n, e)' /\ encPc' \in {"recv", "handle"}
       /\ CutsBy(calls, Handled(n))' = CutsBy(calls, n - 1)
       /\ SettingsAt(calls, Handled(n) + 1)' = SettingsAt(calls, n)
  <2>1. accum' = Run(e, 0)
        BY <1>2, <1>7, RunProperties
  <2>2. At(calls, n - 1) <= e + 0 /\ e + 0 <= At(calls, n)
        BY <1>3, <1>7, <1>9, <1>10
  <2>3. encMsg'.samples = Run(e + 0, At(calls, n) - (e + 0))
        BY <1>2, <1>7, <1>9
  <2>4. encPc' = AfterInput(encMsg'.samples) /\ encMsg'.type = "POST_PCM_BUFFER"
        BY <1>2, <1>5
  <2>5. calls' = calls
        BY <1>2
  <2> QED BY <1>3, <1>7, <1>8, <1>9, <2>1, <2>2, <2>3, <2>4, <2>5, InputTaken
<1>12. GoodCalls(calls)' /\ calls' = calls /\ faults' = faults
      BY <1>2, <1>8
<1>13. StopInv'
      BY <1>2, <1>4, <1>8, <1>11, HandlingKeepsStop
<1>14. QueueInv(n)' /\ EndInv(n)'
      BY <1>1, <1>2, <1>11 DEF PosInv, QueueInv, EndInv, Stopping, Joining
<1>15. CutsBy(calls, n - 1) \subseteq Nat /\ \A x \in CutsBy(calls, n - 1) : x <= f
  <2>1. \A k \in 1..(n - 1) : calls[k].at \in Nat
    <3>1. \A k \in 1..(n - 1) : k \in 1..Len(calls)
          BY <1>3
    <3> QED BY <1>8, <3>1, CutsMember
  <2> QED BY <1>1, <1>5, <2>1 DEF PosInv, SegmentInv, CutsBy
<1>16. SegmentInv(n, e)'
  <2>1. \A x \in CutsBy(calls, n - 1) : x <= e
        BY <1>7, <1>15
  <2>2. ASSUME "encode" \notin faults
        PROVE  \E b \in {0} \cup CutsBy(calls, n - 1), q \in Nat :
                  /\ \A x \in CutsBy(calls, n - 1) : x <= b
                  /\ e = b + q * FrameSize
                  /\ pts' = q * FRAME_SIZE_OUTPUT
    <3>1. PICK b \in {0} \cup CutsBy(calls, n - 1), q \in Nat :
                  /\ \A x \in CutsBy(calls, n - 1) : x <= b
                  /\ f = b + q * FrameSize
                  /\ pts = q * FRAME_SIZE_OUTPUT
          BY <1>1, <1>5, <2>2 DEF PosInv, SegmentInv
    <3>2. /\ (q + 1) * FrameSize = q * FrameSize + FrameSize /\ q * FrameSize \in Nat
          BY <1>7, Multiples
    <3>3. (q + 1) * FRAME_SIZE_OUTPUT = q * FRAME_SIZE_OUTPUT + FRAME_SIZE_OUTPUT
          BY Multiples DEF FRAME_SIZE_OUTPUT
    <3>4. b \in Nat
          BY <1>15
    <3>5. e = b + (q + 1) * FrameSize
          BY <1>6, <1>7, <3>1, <3>2, <3>4
    <3>6. pts' = (q + 1) * FRAME_SIZE_OUTPUT
          BY <1>2, <3>1, <3>3
    <3>7. q + 1 \in Nat
          OBVIOUS
    <3> QED BY <3>1, <3>5, <3>6, <3>7
  <2> QED BY <1>11, <1>12, <2>1, <2>2 DEF SegmentInv
<1>17. SettingsInv(n)'
  <2>1. (n - 1) + 1 = n
        OBVIOUS
  <2> QED BY <1>1, <1>2, <1>5, <1>11, <2>1 DEF PosInv, SettingsInv
<1>18. TipInv(n, e)'
  <2>1. ASSUME ~Lost
        PROVE  LET p == Line'[Len(Line')]
               IN /\ UpTo(p) <= e /\ UpTo(p) = e
                  /\ pts' = p.pts + FRAME_SIZE_OUTPUT
                  /\ \A x \in CutsBy(calls, n - 1) : ~(UpTo(p) <= x)
    <3>1. \A x \in CutsBy(calls, n - 1) : ~(e <= x)
          BY <1>7, <1>15
    <3>2. UpTo(encPkt) <= e /\ UpTo(encPkt) = e /\ pts' = encPkt.pts + FRAME_SIZE_OUTPUT
          BY <1>2, <1>3, <1>7
    <3> QED BY <1>4, <2>1, <3>1, <3>2
  <2>2. PICK l : l = Line'
        OBVIOUS
  <2>3. ~Lost => /\ l # <<>>
                 /\ UpTo(l[Len(l)]) <= e /\ UpTo(l[Len(l)]) = e
                 /\ pts' = l[Len(l)].pts + FRAME_SIZE_OUTPUT
                 /\ \A x \in CutsBy(calls, n - 1) : ~(UpTo(l[Len(l)]) <= x)
        BY <1>4, <2>1, <2>2
  <2> QED BY <1>4, <1>11, <2>2, <2>3 DEF TipInv
<1>19. PosInv(n, e)'
      BY <1>11, <1>14, <1>16, <1>17, <1>18 DEF PosInv
<1> QED BY <1>4, <1>7, <1>12, <1>13, <1>19 DEF FrameInv

(* After a flush: everything up to the end of the segment, e, is in        *)
(* frames, and the timestamps start again.                                 *)
LEMMA SegmentFlushed ==
    ASSUME calls \in Seq(Calls), UNCHANGED <<calls, ctl>>, NEW n \in 1..Len(calls),
           NEW e \in Nat, e = At(calls, n), IsFlush(calls, n), Busy, SettingsInv(n),
           \A x \in CutsBy(calls, n - 1) : x <= e, faults \subseteq faults',
           encPc \notin {"start", "opus"},
           accum' = <<>>, pts' = 0, encPc' = "recv"
    PROVE  /\ AccumInv(e)' /\ MessageInv(n, e)' /\ SegmentInv(n, e)' /\ SettingsInv(n)'
           /\ CutsBy(calls, Handled(n))' = CutsBy(calls, n - 1) \cup {e}
<1>1. Len(accum') = 0 /\ Run(e, 0) = <<>> /\ e + 0 = e /\ 0 < FrameSize
      BY EmptySeq, RunProperties, FrameSizeAssumption
<1>2. ~Busy' /\ ~Partial' /\ Handled(n)' = n /\ Handled(n) = n - 1 /\ (n - 1) + 1 = n
      BY DEF Busy, Partial, Handled
<1>3. At(calls, n) = calls[n].at
      BY DEF At
<1>4. calls[n].msg.type \notin Settings
      BY DEF IsFlush, Settings
<1>5. CutsBy(calls, n) = CutsBy(calls, n - 1) \cup {e}
      /\ SettingsAt(calls, n + 1) = SettingsAt(calls, n)
      BY <1>3, <1>4, CallHandled
<1>6. AccumInv(e)'
      BY <1>1 DEF AccumInv
<1>7. MessageInv(n, e)'
      BY <1>1, <1>2 DEF MessageInv
<1>8. SegmentInv(n, e)'
  <2>1. \A x \in CutsBy(calls, n) : x <= e
        BY <1>5
  <2>2. 0 * FrameSize = 0 /\ 0 * FRAME_SIZE_OUTPUT = 0
        BY Multiples, FrameSizeAssumption DEF FRAME_SIZE_OUTPUT
  <2>3. e = e + 0 * FrameSize /\ pts' = 0 * FRAME_SIZE_OUTPUT
        BY <2>2
  <2>4. e \in CutsBy(calls, n)
        BY <1>5
  <2>5. 0 \in Nat
        OBVIOUS
  <2> QED BY <1>2, <2>1, <2>3, <2>4, <2>5 DEF SegmentInv
<1>9. SettingsInv(n)'
      BY <1>2, <1>5 DEF SettingsInv
<1> QED BY <1>2, <1>5, <1>6, <1>7, <1>8, <1>9

(* What is known when a flush is handled.                                  *)
LEMMA FlushIsNext ==
    ASSUME BaseInv, FrameInv, NEW n \in 0..Len(calls), NEW f \in Nat, PosInv(n, f),
           encPc \in {"handle", "flushPost"}, encMsg.type = "FLUSH_OPUS_ENCODER"
    PROVE  /\ calls \in Seq(Calls) /\ n \in 1..Len(calls) /\ IsFlush(calls, n)
           /\ Busy /\ Handled(n) = n - 1
           /\ f + Len(accum) = At(calls, n) /\ f + Len(accum) \in Nat
           /\ CutsBy(calls, n - 1) \subseteq Nat
           /\ \A x \in CutsBy(calls, n - 1) : x <= f /\ x <= f + Len(accum)
<1>1. calls \in Seq(Calls) /\ Len(accum) \in Nat
      BY CallsType, LenProperties DEF BaseInv, TypeOK, EncTypes
<1>2. Busy /\ ~Partial /\ Handled(n) = n - 1
      BY DEF Busy, Partial, Handled
<1>3. n > 0 /\ encMsg.type = calls[n].msg.type /\ f + Len(accum) = At(calls, n)
      BY <1>2 DEF PosInv, MessageInv
<1>4. n \in 1..Len(calls) /\ IsFlush(calls, n)
      BY <1>3 DEF IsFlush
<1>5. CutsBy(calls, n - 1) \subseteq Nat
  <2>1. \A k \in 1..(n - 1) : k \in 1..Len(calls)
        BY <1>4
  <2>2. \A k \in 1..(n - 1) : calls[k].at \in Nat
        BY <1>1, <2>1, CutsMember
  <2> QED BY <2>2 DEF CutsBy
<1>6. \A x \in CutsBy(calls, n - 1) : x <= f
      BY <1>2 DEF PosInv, SegmentInv
<1>7. \A x \in CutsBy(calls, n - 1) : x <= f + Len(accum)
      BY <1>1, <1>5, <1>6
<1> QED BY <1>1, <1>2, <1>3, <1>4, <1>5, <1>6, <1>7

LEMMA FlushFrameInv ==
    ASSUME BaseInv, FrameInv, EncFlush
    PROVE  FrameInv'
<1>1. PICK n \in 0..Len(calls), f \in Nat : PosInv(n, f)
      BY DEF FrameInv
<1>2. /\ UNCHANGED <<queues, jsVars, uvVars, encMsg, ctl, prodVars, calls, asked>>
      /\ encPc = "handle" /\ encMsg.type = "FLUSH_OPUS_ENCODER"
      /\ \/ accum = <<>> /\ pts' = 0 /\ encPc' = "recv" /\ UNCHANGED <<accum, encPkt, faults>>
         \/ /\ accum # <<>> /\ encPkt' = Packet(accum) /\ encPc' = "flushPost"
            /\ UNCHANGED <<accum, pts, faults>>
         \/ /\ accum # <<>> /\ faults' = faults \cup {"encode"}
            /\ accum' = <<>> /\ pts' = 0 /\ encPc' = "recv" /\ UNCHANGED encPkt
      BY DEF EncFlush, Fault
<1> USE DEF queues, jsVars, prodVars
<1>3. PICK e : e = f + Len(accum)
      OBVIOUS
<1>4. /\ calls \in Seq(Calls) /\ n \in 1..Len(calls) /\ IsFlush(calls, n)
      /\ Busy /\ Handled(n) = n - 1 /\ e = At(calls, n) /\ e \in Nat
      /\ CutsBy(calls, n - 1) \subseteq Nat
      /\ \A x \in CutsBy(calls, n - 1) : x <= f /\ x <= e
      BY <1>1, <1>2, <1>3, FlushIsNext
<1>5. faults \subseteq faults' /\ faults' \subseteq faults \cup {"encode"}
      BY <1>2
<1>6. (Lost' <=> Lost) /\ Line' = Line /\ LineInv' /\ GoodCalls(calls)'
      BY <1>2, <1>5, LineKept
<1>7. StopInv'
      BY <1>2, <1>5, <1>6, HandlingKeepsStop DEF FrameInv
<1>8. QueueInv(n)' /\ EndInv(n)'
      BY <1>1, <1>2 DEF PosInv, QueueInv, EndInv, Stopping, Joining
<1>9. SegmentInv(n, f) /\ SettingsInv(n) /\ TipInv(n, f) /\ AccumInv(f) /\ MessageInv(n, f)
      BY <1>1 DEF PosInv
<1>10. f <= e
  <2>1. Len(accum) \in Nat
        BY LenProperties DEF BaseInv, TypeOK, EncTypes
  <2> QED BY <1>3, <2>1
<1>11. CASE accum # <<>> /\ encPkt' = Packet(accum) /\ encPc' = "flushPost"
            /\ UNCHANGED <<accum, pts, faults>>
  <2>1. Busy' /\ ~Partial' /\ ~Partial /\ Handled(n)' = n - 1
        BY <1>2, <1>11 DEF Busy, Partial, Handled
  <2>2. AccumInv(f)'
        BY <1>2, <1>9, <1>11 DEF AccumInv, Packet
  <2>3. MessageInv(n, f)'
        BY <1>2, <1>4, <1>9, <1>11, <2>1 DEF MessageInv
  <2>4. SegmentInv(n, f)' /\ SettingsInv(n)'
        BY <1>2, <1>4, <1>9, <1>11, <2>1 DEF SegmentInv, SettingsInv
  <2>5. TipInv(n, f)'
        BY <1>2, <1>4, <1>6, <1>9, <1>11, <2>1 DEF TipInv
  <2>6. PosInv(n, f)'
        BY <1>8, <2>2, <2>3, <2>4, <2>5 DEF PosInv
  <2> QED BY <1>2, <1>6, <1>7, <2>6 DEF FrameInv
<1>12. CASE pts' = 0 /\ encPc' = "recv" /\ accum' = <<>>
            /\ ((accum = <<>> /\ faults' = faults) \/ "encode" \in faults')
  <2>1. /\ AccumInv(e)' /\ MessageInv(n, e)' /\ SegmentInv(n, e)' /\ SettingsInv(n)'
        /\ CutsBy(calls, Handled(n))' = CutsBy(calls, n - 1) \cup {e}
        BY <1>2, <1>4, <1>5, <1>9, <1>12, SegmentFlushed
  <2>2. "encode" \notin faults' => e = f /\ faults' = faults
    <3>1. accum = <<>> => Len(accum) = 0
          BY EmptySeq
    <3> QED BY <1>3, <1>12, <3>1
  <2>3. TipInv(n, e)'
    <3>1. CASE ~Lost /\ Line # <<>>
      <4> DEFINE p == Line[Len(Line)]
      <4>1. UpTo(p) \in Nat
            BY <1>4, <3>1, LineTip DEF FrameInv
      <4>2. UpTo(p) <= f /\ ("encode" \notin faults => UpTo(p) = f)
            BY <1>9, <3>1 DEF TipInv
      <4>3. UpTo(p) <= e
            BY <1>4, <1>10, <4>1, <4>2
      <4>4. "encode" \notin faults' => UpTo(p) = e
            BY <2>2, <4>2
      <4> HIDE DEF p
      <4>5. p' = p
            BY <1>6 DEF p
      <4> QED BY <1>6, <1>12, <2>1, <3>1, <4>3, <4>4, <4>5 DEF TipInv, p
    <3>2. CASE Lost
          BY <1>6, <3>2 DEF TipInv
    <3>3. CASE ~Lost /\ Line = <<>>
          BY <1>6, <1>9, <1>12, <2>2, <3>3 DEF TipInv
    <3> QED BY <3>1, <3>2, <3>3
  <2>4. PosInv(n, e)'
        BY <1>8, <2>1, <2>3 DEF PosInv
  <2> QED BY <1>2, <1>4, <1>6, <1>7, <2>4 DEF FrameInv
<1> QED BY <1>2, <1>11, <1>12

LEMMA FlushPostFrameInv ==
    ASSUME BaseInv, FrameInv, EncFlushPost
    PROVE  FrameInv'
<1>1. PICK n \in 0..Len(calls), f \in Nat : PosInv(n, f)
      BY DEF FrameInv
<1>2. /\ UNCHANGED <<encQ, jsVars, encMsg, encPkt, ctl, prodVars, history>>
      /\ encPc = "flushPost" /\ SendToProducer
      /\ accum' = <<>> /\ pts' = 0 /\ encPc' = "recv"
      BY DEF EncFlushPost
<1> USE DEF jsVars, prodVars, history
<1>3. encMsg.type = "FLUSH_OPUS_ENCODER"
      BY <1>1, <1>2 DEF PosInv, AccumInv
<1>4. PICK e : e = f + Len(accum)
      OBVIOUS
<1>5. /\ calls \in Seq(Calls) /\ n \in 1..Len(calls) /\ IsFlush(calls, n)
      /\ Busy /\ Handled(n) = n - 1 /\ e = At(calls, n) /\ e \in Nat
      /\ CutsBy(calls, n - 1) \subseteq Nat
      /\ \A x \in CutsBy(calls, n - 1) : x <= f /\ x <= e
      BY <1>1, <1>2, <1>3, <1>4, FlushIsNext
<1>6. UpTo(encPkt) = e
      BY <1>1, <1>2, <1>4, PacketIsWhole
<1>7. /\ LineInv' /\ (Lost' <=> Lost)
      /\ prodQ'.err_send = prodQ.err_send /\ prodQ'.err_recv = prodQ.err_recv
      /\ ~Lost => Line' # <<>> /\ Line'[Len(Line')] = encPkt
      BY <1>1, <1>2, PacketPosted
<1>8. GoodCalls(calls)' /\ calls' = calls /\ faults' = faults
      BY <1>2 DEF FrameInv
<1>9. StopInv'
      BY <1>2, <1>7, HandlingKeepsStop DEF FrameInv
<1>10. QueueInv(n)' /\ EndInv(n)'
      BY <1>1, <1>2 DEF PosInv, QueueInv, EndInv, Stopping, Joining
<1>11. SettingsInv(n)
      BY <1>1 DEF PosInv
<1>12. /\ AccumInv(e)' /\ MessageInv(n, e)' /\ SegmentInv(n, e)' /\ SettingsInv(n)'
       /\ CutsBy(calls, Handled(n))' = CutsBy(calls, n - 1) \cup {e}
      BY <1>2, <1>5, <1>8, <1>11, SegmentFlushed
<1>13. TipInv(n, e)'
  <2>1. PICK l : l = Line'
        OBVIOUS
  <2>2. ~Lost => l # <<>> /\ UpTo(l[Len(l)]) = e
        BY <1>6, <1>7, <2>1
  <2>3. e <= e
        BY <1>5
  <2> QED BY <1>2, <1>7, <1>12, <2>1, <2>2, <2>3 DEF TipInv
<1>14. PosInv(n, e)'
      BY <1>10, <1>12, <1>13 DEF PosInv
<1> QED BY <1>5, <1>7, <1>8, <1>9, <1>14 DEF FrameInv

LEMMA ControlFrameInv ==
    ASSUME BaseInv, FrameInv, EncControl
    PROVE  FrameInv'
<1>1. PICK n \in 0..Len(calls), f \in Nat : PosInv(n, f)
      BY DEF FrameInv
<1> USE DEF jsVars, prodVars, history
<1>2. calls \in Seq(Calls) /\ GoodCalls(calls) /\ encMsg \in Messages
      BY CallsType DEF BaseInv, FrameInv, TypeOK, EncTypes
<1>3. /\ encPc = "handle" /\ encPc' = "recv"
      /\ encMsg.type \in Settings \cup {"CLEAR_PRODUCER_QUEUE"}
      /\ UNCHANGED <<encQ, jsVars, encMsg, accum, pts, encPkt, prodVars, history>>
      BY DEF EncControl
<1>4. Busy /\ ~Partial /\ Handled(n) = n - 1 /\ ~Busy' /\ ~Partial' /\ Handled(n)' = n
      BY <1>3 DEF Busy, Partial, Handled, Settings
<1>5. n \in 1..Len(calls) /\ encMsg = calls[n].msg /\ f + Len(accum) = At(calls, n)
      BY <1>1, <1>4 DEF PosInv, MessageInv
<1>6. encMsg.type \in Settings \cup {"POST_PCM_BUFFER", "FLUSH_OPUS_ENCODER"}
      BY <1>2, <1>5 DEF GoodCalls
<1>7. encMsg.type \in Settings
      BY <1>3, <1>6
<1>8. encMsg # ClearMessage
      BY <1>2, <1>7, MessageTypes
<1>9. /\ prodQ' = prodQ
      /\ ctl' = [ctl EXCEPT ![encMsg.type] = CtlValue(encMsg.type, encMsg.value)]
      BY <1>8 DEF EncControl
<1>10. (Lost' <=> Lost) /\ Line' = Line /\ LineInv' /\ GoodCalls(calls)'
      BY <1>3, <1>9, LineKept
<1>11. StopInv'
      BY <1>3, <1>9, <1>10, HandlingKeepsStop DEF FrameInv
<1>12. QueueInv(n)' /\ EndInv(n)' /\ AccumInv(f)'
      BY <1>1, <1>3 DEF PosInv, QueueInv, EndInv, AccumInv, Stopping, Joining
<1>13. MessageInv(n, f)'
      BY <1>3, <1>4, <1>5 DEF MessageInv
<1>14. ~IsFlush(calls, n)
      BY <1>5, <1>7 DEF IsFlush, Settings
<1>15. /\ CutsBy(calls, n) = CutsBy(calls, n - 1)
       /\ SettingsAt(calls, n + 1)
            = [SettingsAt(calls, n) EXCEPT ![encMsg.type]
                 = CtlValue(encMsg.type, encMsg.value)]
      BY <1>2, <1>5, <1>7, <1>14, CallHandled
<1>16. SegmentInv(n, f)' /\ TipInv(n, f)'
      BY <1>1, <1>3, <1>4, <1>10, <1>15 DEF PosInv, SegmentInv, TipInv
<1>17. SettingsInv(n)'
  <2>1. (n - 1) + 1 = n
        OBVIOUS
  <2> QED BY <1>1, <1>3, <1>4, <1>9, <1>15, <2>1 DEF PosInv, SettingsInv
<1>18. PosInv(n, f)'
      BY <1>12, <1>13, <1>16, <1>17 DEF PosInv
<1> QED BY <1>3, <1>10, <1>11, <1>18 DEF FrameInv

LEMMA EncoderFrameInv ==
    ASSUME BaseInv, FrameInv, Encoder
    PROVE  FrameInv'
BY IdleFrameInv, RecvFrameInv, NotifyFrameInv, FillFrameInv, PostFrameInv, FlushFrameInv,
   FlushPostFrameInv, ControlFrameInv DEF Encoder

-----------------------------------------------------------------------------
(* The producer thread.                                                    *)

LEMMA ProducerKeepsFrames ==
    ASSUME FrameInv, UNCHANGED <<encVars, encQ, jsVars, calls>>, LineInv', StopInv',
           faults \subseteq faults', faults' \subseteq faults \cup {"open", "write"},
           ~Lost' => Line' = Line
    PROVE  FrameInv'
<1> USE DEF jsVars, encVars
<1>1. PICK n \in 0..Len(calls), f \in Nat : PosInv(n, f)
      BY DEF FrameInv
<1>2. GoodCalls(calls)' /\ calls' = calls
      BY DEF FrameInv
<1>3. (Busy' <=> Busy) /\ (Partial' <=> Partial) /\ Handled(n)' = Handled(n)
      BY DEF Busy, Partial, Handled
<1>4. ("encode" \notin faults' <=> "encode" \notin faults) /\ (Lost => Lost')
      /\ (faults' \cap {"start", "opus"} = {} <=> faults \cap {"start", "opus"} = {})
      /\ (faults' = {} => faults = {})
      BY DEF Lost
<1>5. QueueInv(n)' /\ AccumInv(f)' /\ EndInv(n)'
      BY <1>1, <1>3, <1>4 DEF PosInv, QueueInv, AccumInv, EndInv, Packet
<1>6. MessageInv(n, f)'
      BY <1>1, <1>3 DEF PosInv, MessageInv
<1>7. SegmentInv(n, f)' /\ SettingsInv(n)'
      BY <1>1, <1>3, <1>4 DEF PosInv, SegmentInv, SettingsInv
<1>8. TipInv(n, f)'
      BY <1>1, <1>3, <1>4 DEF PosInv, TipInv
<1>9. PosInv(n, f)'
      BY <1>5, <1>6, <1>7, <1>8 DEF PosInv
<1> QED BY <1>2, <1>9 DEF FrameInv

(* A producer that fails loses what is on its way.                         *)
LEMMA LostLine ==
    ASSUME BaseInv, FrameInv, ~Lost, Lost', UNCHANGED <<calls, sent>>,
           "encode" \in faults <=> "encode" \in faults'
    PROVE  LineInv'
<1>1. sent \in Seq(Packets) /\ InHand \in Seq(Packets) /\ prodQ.msgs \in Seq(Packets)
      BY DEF BaseInv, TypeOK, QueueTypes, ProdTypes, QueueOf, InHand
<1>2. InHand \o prodQ.msgs \in Seq(Packets)
      BY <1>1, ConcatProperties
<1>3. GoodLine(calls, sent \o (InHand \o prodQ.msgs), "encode" \notin faults)
      BY DEF FrameInv, LineInv, Line
<1>4. GoodLine(calls, sent, "encode" \notin faults)
      BY <1>1, <1>2, <1>3, LinePrefix
<1>5. Line' = sent
      BY DEF Line
<1> QED BY <1>4, <1>5 DEF LineInv

LEMMA ProducerFrameInv ==
    ASSUME BaseInv, FrameInv, Producer
    PROVE  FrameInv'
<1> USE DEF queues, history
<1>1. /\ prodQ \in QueueOf(Packets) /\ prodQ.msgs \in Seq(Packets)
      /\ sent \in Seq(Packets) /\ prodPkt \in Packets
      BY DEF BaseInv, TypeOK, QueueTypes, ProdTypes, QueueOf
<1>2. StopInv /\ LineInv
      BY DEF FrameInv
<1>3. prodPc \in {"open", "recv", "send"} => ~Lost
      BY <1>2 DEF StopInv, Ending
<1>4. ASSUME UNCHANGED <<calls, faults, sent>>, Line' = Line
      PROVE  LineInv' /\ (Lost' <=> Lost)
      BY <1>2, <1>4 DEF LineInv, Lost
<1>5. CASE ProdOpen
  <2>1. CASE prodPc' = "recv" /\ UNCHANGED faults
    <3>1. /\ UNCHANGED <<encVars, encQ, prodQ, jsVars, calls, sent, prodPkt>>
          /\ prodPc = "open" /\ UNCHANGED faults
          BY <1>5, <2>1 DEF ProdOpen
    <3>2. Line' = Line
          BY <2>1, <3>1 DEF Line, InHand, Lost
    <3>3. StopInv'
          BY <1>2, <1>3, <2>1, <3>1 DEF StopInv, Lost, Ending, jsVars, encVars
    <3> QED BY <1>4, <3>1, <3>2, <3>3, ProducerKeepsFrames
  <2>2. CASE prodPc' = "exitSend" /\ Fault("open")
    <3>1. /\ UNCHANGED <<encVars, encQ, prodQ, jsVars, calls, sent>>
          /\ prodPc = "open" /\ faults' = faults \cup {"open"}
          BY <1>5, <2>2 DEF ProdOpen, Fault
    <3>2. ~Lost /\ Lost'
          BY <1>3, <3>1 DEF Lost
    <3>3. LineInv'
          BY <3>1, <3>2, LostLine
    <3>4. StopInv'
          BY <1>2, <2>2, <3>1, <3>2 DEF StopInv, Ending, jsVars, encVars
    <3> QED BY <3>1, <3>2, <3>3, <3>4, ProducerKeepsFrames
  <2> QED BY <1>5, <2>1, <2>2 DEF ProdOpen
<1>6. CASE ProdRecv
  <2>1. /\ UNCHANGED <<encVars, encQ, jsVars, calls, sent, faults>>
        /\ prodPc = "recv" /\ prodPc' = "send" /\ prodQ.msgs # <<>>
        /\ prodPkt' = Head(prodQ.msgs) /\ prodQ' = Recv(prodQ)
        BY <1>6 DEF ProdRecv, CanRecv
  <2>2. /\ prodQ'.msgs = Tail(prodQ.msgs)
        /\ prodQ'.err_send = prodQ.err_send /\ prodQ'.err_recv = prodQ.err_recv
        BY <1>1, <2>1 DEF Recv, QueueOf
  <2>3. ~Lost /\ ~Lost'
        BY <1>3, <2>1 DEF Lost
  <2>4. /\ Line = sent \o (<<>> \o prodQ.msgs)
        /\ Line' = sent \o (<<Head(prodQ.msgs)>> \o Tail(prodQ.msgs))
        BY <2>1, <2>2, <2>3 DEF Line, InHand
  <2>5. <<>> \o prodQ.msgs = prodQ.msgs
        BY <1>1, ConcatEmptySeq
  <2>6. <<Head(prodQ.msgs)>> \o Tail(prodQ.msgs) = prodQ.msgs
        BY <1>1, <2>1, HeadAndTail
  <2>7. Line' = Line
        BY <2>4, <2>5, <2>6, Zenon
  <2>8. StopInv'
        BY <1>2, <2>1, <2>2, <2>3 DEF StopInv, Ending, jsVars, encVars
  <2> QED BY <1>4, <2>1, <2>7, <2>8, ProducerKeepsFrames
<1>7. CASE ProdEof
  <2>1. /\ UNCHANGED <<encVars, encQ, prodQ, jsVars, calls, sent, faults, prodPkt>>
        /\ prodPc = "recv" /\ prodPc' = "exitSend" /\ prodQ.msgs = <<>>
        /\ prodQ.err_recv
        BY <1>7 DEF ProdEof, RecvFails
  <2>2. ~Lost /\ ~Lost'
        BY <1>3, <2>1 DEF Lost
  <2>3. Line' = Line
        BY <2>1, <2>2 DEF Line, InHand
  <2>4. StopInv'
        BY <1>2, <2>1, <2>2 DEF StopInv, Ending, jsVars, encVars
  <2> QED BY <1>4, <2>1, <2>3, <2>4, ProducerKeepsFrames
<1>8. CASE ProdSend
  <2>1. CASE sent' = Append(sent, prodPkt) /\ prodPc' = "recv" /\ UNCHANGED faults
    <3>1. /\ UNCHANGED <<encVars, encQ, prodQ, jsVars, calls, prodPkt, faults>>
          /\ prodPc = "send"
          BY <1>8, <2>1 DEF ProdSend
    <3>2. ~Lost /\ ~Lost'
          BY <1>3, <3>1 DEF Lost
    <3>3. /\ Line = sent \o (<<prodPkt>> \o prodQ.msgs)
          /\ Line' = Append(sent, prodPkt) \o (<<>> \o prodQ.msgs)
          BY <2>1, <3>1, <3>2 DEF Line, InHand
    <3>4. sent \o (<<prodPkt>> \o prodQ.msgs) = Append(sent, prodPkt) \o (<<>> \o prodQ.msgs)
      <4>1. PICK s, m, t : s = sent /\ m = prodPkt /\ t = prodQ.msgs
            OBVIOUS
      <4>2. s \in Seq(Packets) /\ m \in Packets /\ t \in Seq(Packets)
            BY <1>1, <4>1
      <4>3. s \o (<<m>> \o t) = Append(s, m) \o (<<>> \o t)
            BY <4>2, MoveFirst
      <4> QED BY <4>1, <4>3, Zenon
    <3>5. Line' = Line
          BY <3>3, <3>4, Zenon
    <3>6. LineInv'
          BY <1>2, <3>1, <3>5 DEF LineInv
    <3>7. StopInv'
          BY <1>2, <2>1, <3>1, <3>2 DEF StopInv, Ending, jsVars, encVars
    <3> QED BY <3>1, <3>5, <3>6, <3>7, ProducerKeepsFrames
  <2>2. CASE prodPc' = "exitSend" /\ Fault("write") /\ UNCHANGED sent
    <3>1. /\ UNCHANGED <<encVars, encQ, prodQ, jsVars, calls, sent>>
          /\ prodPc = "send" /\ faults' = faults \cup {"write"}
          BY <1>8, <2>2 DEF ProdSend, Fault
    <3>2. ~Lost /\ Lost'
          BY <1>3, <3>1 DEF Lost
    <3>3. LineInv'
          BY <3>1, <3>2, LostLine
    <3>4. StopInv'
          BY <1>2, <2>2, <3>1, <3>2 DEF StopInv, Ending, jsVars, encVars
    <3> QED BY <3>1, <3>2, <3>3, <3>4, ProducerKeepsFrames
  <2> QED BY <1>8, <2>1, <2>2 DEF ProdSend
<1>9. CASE ProdExitSend \/ ProdExitRecv
  <2>1. /\ UNCHANGED <<encVars, encQ, jsVars, calls, sent, faults, prodPkt>>
        /\ prodPc \in {"exitSend", "exitRecv"} /\ prodPc' \in {"exitRecv", "done"}
        /\ prodQ' \in {SetErrSend(prodQ), SetErrRecv(prodQ)}
        BY <1>9 DEF ProdExitSend, ProdExitRecv
  <2>2. prodQ'.msgs = prodQ.msgs
        BY <1>1, <2>1 DEF SetErrSend, SetErrRecv, QueueOf
  <2>3. Lost' <=> Lost
        BY <2>1 DEF Lost
  <2>4. InHand = <<>> /\ InHand' = <<>>
        BY <2>1 DEF InHand
  <2>5. Line' = Line
        BY <2>1, <2>2, <2>3, <2>4 DEF Line
  <2>6. StopInv'
        BY <1>2, <2>1, <2>2, <2>3 DEF StopInv, Ending, Joining, jsVars, encVars
  <2> QED BY <1>4, <2>1, <2>5, <2>6, ProducerKeepsFrames
<1> QED BY <1>5, <1>6, <1>7, <1>8, <1>9 DEF Producer

-----------------------------------------------------------------------------
(* Always.                                                                 *)

LEMMA NextFrameInv == BaseInv /\ FrameInv /\ [Next]_vars => FrameInv'
<1> SUFFICES ASSUME BaseInv, FrameInv, [Next]_vars PROVE FrameInv'
    OBVIOUS
<1>1. CASE UNCHANGED vars
  <2>1. /\ UNCHANGED <<encVars, encQ, jsVars, calls>> /\ UNCHANGED <<prodQ, prodVars, faults>>
        BY <1>1 DEF vars, queues, history
  <2>2. Line' = Line /\ LineInv' /\ StopInv'
    <3>1. (Lost' <=> Lost) /\ Line' = Line
          BY <2>1, LineUnchanged DEF Lost, prodVars
    <3> QED BY <2>1, <3>1 DEF FrameInv, LineInv, StopInv, encVars, jsVars, prodVars
  <2> QED BY <2>1, <2>2, ProducerKeepsFrames
<1> QED BY <1>1, JsFrameInv, EncoderFrameInv, ProducerFrameInv DEF Next, Terminated

LEMMA FrameInvariance == Spec => [](BaseInv /\ FrameInv)
<1>1. Spec => []AbortInv
      BY TypeCorrect, InitAbortInv, NextAbortInv, PTL DEF Spec
<1>2. TypeOK /\ ShutdownInv /\ AbortInv <=> BaseInv
      BY DEF BaseInv
<1> QED BY TypeCorrect, ShutdownInvariance, InitFrameInv, NextFrameInv, <1>1, <1>2, PTL DEF Spec

-----------------------------------------------------------------------------
(* What has been sent.                                                     *)

LEMMA SentIsGood ==
    ASSUME BaseInv, FrameInv
    PROVE  GoodLine(calls, sent, "encode" \notin faults)
<1>1. CASE Lost
      BY <1>1 DEF FrameInv, LineInv, Line
<1>2. CASE ~Lost
  <2>1. sent \in Seq(Packets) /\ InHand \in Seq(Packets) /\ prodQ.msgs \in Seq(Packets)
        BY DEF BaseInv, TypeOK, QueueTypes, ProdTypes, QueueOf, InHand
  <2>2. InHand \o prodQ.msgs \in Seq(Packets)
        BY <2>1, ConcatProperties
  <2>3. GoodLine(calls, sent \o (InHand \o prodQ.msgs), "encode" \notin faults)
        BY <1>2 DEF FrameInv, LineInv, Line
  <2> QED BY <2>1, <2>2, <2>3, LinePrefix
<1> QED BY <1>1, <1>2

(* Where a packet begins and ends.                                         *)
LEMMA WholeEnds ==
    ASSUME NEW c \in Seq(Calls), NEW p, Whole(c, p)
    PROVE  /\ Head(p.samples) = From(p) + 1 /\ Last(p.samples) = UpTo(p)
           /\ p.samples[Len(p.samples)] = UpTo(p)
           /\ p.samples = [i \in 1..(UpTo(p) - From(p)) |-> From(p) + i]
<1> DEFINE s == p.samples
<1>1. /\ s \in Seq(Nat) /\ Len(s) \in Nat \ {0} /\ From(p) \in Nat
      /\ UpTo(p) = From(p) + Len(s) /\ s = Run(From(p), Len(s))
  <2>1. Len(s) \in 1..FrameSize /\ s = Run(From(p), Len(s))
        BY DEF Whole
  <2>2. s \in Seq(Nat) /\ From(p) \in Nat /\ UpTo(p) = From(p) + Len(s) /\ Len(s) \in Nat
        BY WholeTypes
  <2> QED BY <2>1, <2>2, FrameSizeAssumption
<1>2. \A i \in 1..Len(s) : Run(From(p), Len(s))[i] = From(p) + i
      BY <1>1, RunProperties
<1>3. s[1] = From(p) + 1 /\ s[Len(s)] = From(p) + Len(s)
  <2>1. 1 \in 1..Len(s) /\ Len(s) \in 1..Len(s)
        BY <1>1
  <2> QED BY <1>1, <1>2, <2>1, Zenon
<1>4. Head(s) = s[1] /\ Last(s) = s[Len(s)]
      BY <1>1, EmptySeq, TailProperties DEF Last
<1>5. UpTo(p) - From(p) = Len(s)
      BY <1>1
<1>6. s = [i \in 1..(UpTo(p) - From(p)) |-> From(p) + i]
      BY <1>1, <1>5 DEF Run
<1> QED BY <1>1, <1>3, <1>4, <1>6

LEMMA LineIsPacketized ==
    ASSUME NEW c \in Seq(Calls), NEW l, GoodLine(c, l, TRUE)
    PROVE  Packetizes(l, c)
<1>1. l \in Seq(Packets) /\ DOMAIN l = 1..Len(l) /\ Len(l) \in Nat
      BY LenProperties DEF GoodLine
<1>2. ASSUME NEW i \in 1..Len(l)
      PROVE  StartOf(l, i) = From(l[i])
  <2>1. CASE i = 1
    <3>1. l # <<>>
          BY <1>1, EmptySeq
    <3> QED BY <2>1, <3>1 DEF GoodLine, StartOf
  <2>2. CASE i # 1
    <3>1. i - 1 \in 1..(Len(l) - 1) /\ i - 1 \in 1..Len(l) /\ (i - 1) + 1 = i
          BY <1>1, <2>2
    <3>2. UpTo(l[i - 1]) = From(l[(i - 1) + 1]) /\ Whole(c, l[i - 1])
          BY <3>1 DEF GoodLine
    <3>3. Last(l[i - 1].samples) = UpTo(l[i - 1])
          BY <3>2, WholeEnds
    <3> QED BY <2>2, <3>1, <3>2, <3>3 DEF StartOf
  <2> QED BY <2>1, <2>2
<1>3. ASSUME NEW i \in 1..Len(l)
      PROVE  /\ FrameEnd(c, From(l[i])) <= Accepted(c)
             /\ l[i] = FrameAt(c, From(l[i]))
  <2>1. Whole(c, l[i]) /\ Exact(c, l[i])
        BY DEF GoodLine
  <2>2. FrameEnd(c, From(l[i])) = UpTo(l[i]) /\ l[i] = FrameAt(c, From(l[i]))
        BY <2>1, ExactIsFrame
  <2>3. UpTo(l[i]) <= Accepted(c)
        BY <2>1, WholeTypes
  <2> QED BY <2>2, <2>3
<1> QED BY <1>1, <1>2, <1>3 DEF Packetizes

(* Every packet that leaves is the frame that the accepted calls ask for   *)
(* at its place, with its timestamp and its encoder settings, and none is  *)
(* missing, repeated or moved: whatever the interleaving of the threads, a *)
(* full queue, an abort, or a failure of the producer.                     *)
THEOREM FramesAreExact == Spec => []FramesFollowCalls
<1>1. BaseInv /\ FrameInv => FramesFollowCalls
  <2> SUFFICES ASSUME BaseInv, FrameInv, "encode" \notin faults
               PROVE  Packetizes(sent, calls)
      BY DEF FramesFollowCalls
  <2>1. calls \in Seq(Calls)
        BY CallsType DEF BaseInv
  <2>2. GoodLine(calls, sent, TRUE)
        BY SentIsGood
  <2> QED BY <2>1, <2>2, LineIsPacketized
<1> QED BY FrameInvariance, <1>1, PTL

(* The timestamps, encoder failures included: each follows its predecessor *)
(* by one frame, and starts again from zero exactly after a segment's end. *)
THEOREM TimestampsAreRegular == Spec => []TimestampsFollowSegments
<1>1. BaseInv /\ FrameInv => TimestampsFollowSegments
  <2> SUFFICES ASSUME BaseInv, FrameInv PROVE TimestampsFollowSegments
      OBVIOUS
  <2>1. calls \in Seq(Calls)
        BY CallsType DEF BaseInv
  <2>2. GoodLine(calls, sent, "encode" \notin faults)
        BY SentIsGood
  <2>3. sent # <<>> => sent[1].pts = 0
        BY <2>2 DEF GoodLine
  <2>4. ASSUME NEW i \in 1..(Len(sent) - 1)
        PROVE  LET p == sent[i]
                   q == sent[i + 1]
                   cut == \E c \in Cuts(calls) : Last(p.samples) <= c /\ c < Head(q.samples)
               IN q.pts = IF cut THEN 0 ELSE p.pts + FRAME_SIZE_OUTPUT
    <3>0. Len(sent) \in Nat
          BY <2>2, LenProperties DEF GoodLine
    <3>1. i \in 1..Len(sent) /\ i + 1 \in 1..Len(sent)
          BY <3>0
    <3>2. Whole(calls, sent[i]) /\ Whole(calls, sent[i + 1])
          /\ Follows(calls, sent[i], sent[i + 1])
          BY <2>2, <3>1 DEF GoodLine
    <3>3. /\ Last(sent[i].samples) = UpTo(sent[i])
          /\ Head(sent[i + 1].samples) = From(sent[i + 1]) + 1
          BY <2>1, <3>2, WholeEnds
    <3>4. From(sent[i + 1]) \in Nat
          BY <2>1, <3>2, WholeTypes
    <3>5. \A c \in Cuts(calls) : c < From(sent[i + 1]) + 1 <=> c <= From(sent[i + 1])
          BY <2>1, <3>4, CutsMember
    <3>6. (\E c \in Cuts(calls) : UpTo(sent[i]) <= c /\ c < From(sent[i + 1]) + 1)
          <=> (\E c \in Cuts(calls) : UpTo(sent[i]) <= c /\ c <= From(sent[i + 1]))
          BY <3>5, Zenon
    <3>7. sent[i + 1].pts
            = IF \E c \in Cuts(calls) : UpTo(sent[i]) <= c /\ c <= From(sent[i + 1])
              THEN 0 ELSE sent[i].pts + FRAME_SIZE_OUTPUT
          BY <3>2 DEF Follows
    <3> QED BY <3>3, <3>6, <3>7
  <2> QED BY <2>3, <2>4 DEF TimestampsFollowSegments
<1> QED BY FrameInvariance, <1>1, PTL

(* When the threads of a stream that nobody aborted and in which nothing   *)
(* failed have stopped, the encoder has handled all calls and the producer *)
(* has sent all packets.                                                   *)
LEMMA AllHandled ==
    ASSUME BaseInv, FrameInv, promise = "resolved", ~aborted, faults = {}
    PROVE  \E f \in Nat : PosInv(Len(calls), f) /\ ~Busy /\ ~Partial /\ encPc = "done"
                          /\ Line = sent /\ ~Lost
<1>1. encPc = "done" /\ prodPc \in {"none", "done"}
      BY DEF BaseInv, ShutdownInv, ShutdownOrder
<1>2. prodPc = "done"
      BY <1>1 DEF FrameInv, StopInv
<1>3. ~Lost
      BY DEF Lost
<1>4. prodQ.msgs = <<>> /\ InHand = <<>>
      BY <1>2, <1>3 DEF FrameInv, StopInv, Ending, InHand
<1>5. <<>> \o <<>> = <<>> /\ sent \o <<>> = sent
      BY ConcatEmptySeq DEF BaseInv, TypeOK, ProdTypes
<1>6. Line = sent \o (<<>> \o <<>>)
      BY <1>3, <1>4 DEF Line
<1>7. Line = sent
      BY <1>5, <1>6, Zenon
<1>8. PICK n \in 0..Len(calls), f \in Nat : PosInv(n, f)
      BY DEF FrameInv
<1>9. n = Len(calls)
      BY <1>1, <1>8 DEF PosInv, EndInv, Stopping, Joining
<1>10. ~Busy /\ ~Partial
      BY <1>1 DEF Busy, Partial
<1> QED BY <1>1, <1>3, <1>7, <1>8, <1>9, <1>10

(* Where the next frame would start.                                       *)
LEMMA NextStart ==
    ASSUME NEW c \in Seq(Calls), NEW exact, NEW l, GoodLine(c, l, exact)
    PROVE  StartOf(l, Len(l) + 1) = IF l = <<>> THEN 0 ELSE UpTo(l[Len(l)])
<1>1. l \in Seq(Packets) /\ Len(l) \in Nat
      BY LenProperties DEF GoodLine
<1>2. CASE l = <<>>
  <2>1. Len(l) + 1 = 1
        BY <1>2, EmptySeq
  <2> QED BY <1>2, <2>1 DEF StartOf
<1>3. CASE l # <<>>
  <2>1. Len(l) \in 1..Len(l) /\ Len(l) + 1 # 1 /\ (Len(l) + 1) - 1 = Len(l)
        BY <1>1, <1>3, EmptySeq
  <2>2. Whole(c, l[Len(l)])
        BY <2>1 DEF GoodLine
  <2>3. Last(l[Len(l)].samples) = UpTo(l[Len(l)])
        BY <2>2, WholeEnds
  <2> QED BY <1>3, <2>1, <2>3 DEF StartOf
<1> QED BY <1>2, <1>3

(* What end() promises: done() settles with every complete frame sent, and *)
(* with every setting in force.                                            *)
THEOREM EndIsGraceful == Spec => []GracefulEnd
<1>1. BaseInv /\ FrameInv => GracefulEnd
  <2> SUFFICES ASSUME BaseInv, FrameInv, promise = "resolved", ~aborted, faults = {}
               PROVE  /\ PacketizesAll(sent, calls)
                      /\ ctl = SettingsAt(calls, Len(calls) + 1)
      BY DEF GracefulEnd
  <2> DEFINE n == Len(calls)
  <2>1. PICK f \in Nat : PosInv(n, f) /\ ~Busy /\ ~Partial /\ encPc = "done"
                         /\ Line = sent /\ ~Lost
        BY AllHandled
  <2>2. calls \in Seq(Calls) /\ n \in Nat /\ FrameSize \in Nat \ {0} /\ Handled(n) = n
        BY <2>1, CallsType, FrameSizeAssumption, LenProperties DEF BaseInv, Handled
  <2>3. GoodLine(calls, sent, TRUE)
        BY SentIsGood
  <2>4. Packetizes(sent, calls)
        BY <2>2, <2>3, LineIsPacketized
  <2>5. StartOf(sent, Len(sent) + 1) = f
    <3>1. (sent = <<>> => f = 0) /\ (sent # <<>> => UpTo(sent[Len(sent)]) = f)
          BY <2>1 DEF PosInv, TipInv
    <3> QED BY <2>2, <2>3, <3>1, NextStart
  <2>6. \A x \in Cuts(calls) : x \in Nat /\ x <= f
    <3> SUFFICES ASSUME NEW x \in Cuts(calls) PROVE x \in Nat /\ x <= f
        OBVIOUS
    <3>1. PICK k \in 1..n : IsFlush(calls, k) /\ x = calls[k].at
          BY <2>2, CutsMember
    <3>2. x \in CutsBy(calls, Handled(n))
          BY <2>2, <3>1 DEF CutsBy
    <3>3. x \in Nat
          BY <2>2, CutsMember
    <3> QED BY <2>1, <3>2, <3>3 DEF PosInv, SegmentInv
  <2>7. FrameEnd(calls, f) = f + FrameSize
    <3> DEFINE S == {f + FrameSize} \cup {x \in Cuts(calls) : x > f}
    <3>1. S = {f + FrameSize}
          BY <2>2, <2>6
    <3>2. f + FrameSize \in S /\ S \subseteq Int /\ \A x \in S : f + FrameSize <= x
          BY <2>2, <3>1
    <3>3. Min(S) = f + FrameSize
          BY <3>2, MinIs
    <3> QED BY <3>3 DEF FrameEnd
  <2>8. Accepted(calls) < f + FrameSize
    <3>1. Len(accum) < FrameSize /\ f + Len(accum) = At(calls, n)
          BY <2>1 DEF PosInv, AccumInv, MessageInv
    <3>2. Len(accum) \in Nat
          BY LenProperties DEF BaseInv, TypeOK, EncTypes
    <3>3. At(calls, n) = Accepted(calls)
      <4>1. CASE calls = <<>>
            BY <4>1, EmptySeq DEF At, Accepted
      <4>2. CASE calls # <<>>
            BY <2>2, <4>2, AcceptedIsLast DEF At
      <4> QED BY <4>1, <4>2
    <3> HIDE DEF n
    <3> QED BY <2>2, <3>1, <3>2, <3>3
  <2>9. FrameEnd(calls, StartOf(sent, Len(sent) + 1)) > Accepted(calls)
    <3>1. Accepted(calls) \in Nat
          BY <2>2, AcceptedIsLast
    <3> QED BY <2>2, <2>5, <2>7, <2>8, <3>1
  <2>10. ctl = SettingsAt(calls, n + 1)
        BY <2>1, <2>2 DEF PosInv, SettingsInv
  <2> QED BY <2>4, <2>9, <2>10 DEF PacketizesAll
<1> QED BY FrameInvariance, <1>1, PTL

-----------------------------------------------------------------------------
(* The stream that the caller sees.                                        *)

SentFrames == [i \in DOMAIN sent |-> sent[i].samples]
Stream     == <<Accepted(calls), Cuts(calls), SentFrames, Phase>>

LEMMA PhaseIs ==
    ASSUME BaseInv
    PROVE  /\ Phase = "open" <=> ~encQ.err_send
           /\ Phase = "closed" <=> encQ.err_send /\ promise = "pending"
           /\ Phase = "done" <=> promise = "resolved"
           /\ promise = "resolved" => encQ.err_send /\ encPc = "done"
           /\ promise \in {"pending", "resolved"}
<1>1. promise \in {"pending", "resolved"} /\ encQ.err_send \in BOOLEAN
      BY DEF BaseInv, TypeOK, UvTypes, QueueTypes, QueueOf
<1>2. promise = "resolved" => encQ.err_send /\ encPc = "done"
      BY DEF BaseInv, ShutdownInv, ShutdownOrder
<1> QED BY <1>1, <1>2 DEF Phase

(* A step that closes the stream, or leaves it as it is.                   *)
LEMMA ClosingStep ==
    ASSUME BaseInv, BaseInv', UNCHANGED <<calls, sent, promise>>,
           encQ'.err_send = encQ.err_send \/ encQ'.err_send
    PROVE  Abstract!Close \/ UNCHANGED Stream
<1>1. UNCHANGED <<Accepted(calls), Cuts(calls), SentFrames>>
      BY DEF SentFrames
<1>2. CASE promise = "pending" /\ ~encQ.err_send /\ encQ'.err_send
  <2>1. Phase = "open"
        BY <1>2, PhaseIs
  <2>2. Phase' = "closed"
        BY <1>2 DEF Phase
  <2> QED BY <1>1, <2>1, <2>2 DEF Abstract!Close, SentFrames
<1>3. CASE ~(promise = "pending" /\ ~encQ.err_send /\ encQ'.err_send)
  <2>1. promise \in {"pending", "resolved"} /\ encQ.err_send \in BOOLEAN
        /\ encQ'.err_send \in BOOLEAN
        BY DEF BaseInv, TypeOK, UvTypes, QueueTypes, QueueOf
  <2>2. Phase' = Phase
        BY <1>3, <2>1 DEF Phase
  <2> QED BY <1>1, <2>2 DEF Stream
<1> QED BY <1>2, <1>3

(* A call of the API.                                                      *)
LEMMA PostStep ==
    ASSUME BaseInv, NEW m \in Messages, NEW x \in Nat, ~SendFails(encQ),
           PostToEncoder(m), Log(m, x), UNCHANGED <<sent, promise>>
    PROVE  \/ UNCHANGED Stream
           \/ /\ Phase = "open" /\ UNCHANGED <<SentFrames, Phase>>
              /\ Accepted(calls)' = Accepted(calls) + x /\ Accepted(calls) \in Nat
              /\ m.type = "FLUSH_OPUS_ENCODER" =>
                    Cuts(calls)' = Cuts(calls) \cup {Accepted(calls) + x}
              /\ m.type # "FLUSH_OPUS_ENCODER" => Cuts(calls)' = Cuts(calls)
<1> DEFINE call == [msg |-> m, at |-> Accepted(calls) + x]
<1>1. calls \in Seq(Calls) /\ Accepted(calls) \in Nat /\ encQ \in QueueOf(Messages)
      BY CallsType, AcceptedIsLast DEF BaseInv, TypeOK, QueueTypes
<1>2. ~encQ.err_send /\ Phase = "open"
      BY PhaseIs DEF SendFails
<1>3. encQ'.err_send = encQ.err_send
      BY EncQFields DEF BaseInv
<1>4. UNCHANGED <<SentFrames, Phase>>
      BY <1>3 DEF SentFrames, Phase
<1>5. CASE calls' = calls
  <2>1. UNCHANGED <<Accepted(calls), Cuts(calls)>>
        BY <1>5
  <2> QED BY <1>4, <2>1 DEF Stream
<1>6. CASE calls' = Append(calls, call)
  <2>1. call \in Calls /\ call.at = Accepted(calls) + x /\ call.msg = m
    <3>1. Accepted(calls) + x \in Nat
          BY <1>1
    <3> QED BY <3>1 DEF Calls
  <2>2. PICK d : d = calls'
        OBVIOUS
  <2>3. Extends(calls, call, d)
        BY <1>1, <1>6, <2>1, <2>2, CallAppended
  <2> HIDE DEF call
  <2>4. /\ d \in Seq(Calls) /\ Len(d) = Len(calls) + 1 /\ Len(calls) \in Nat
        /\ \A k \in 1..Len(calls) : d[k] = calls[k]
        /\ d[Len(calls) + 1] = call /\ Accepted(d) = call.at
        /\ Cuts(calls) \subseteq Cuts(d) /\ Cuts(d) \subseteq Cuts(calls) \cup {call.at}
        BY <2>3 DEF Extends
  <2>5. ASSUME m.type = "FLUSH_OPUS_ENCODER"
        PROVE  Cuts(d) = Cuts(calls) \cup {call.at}
    <3>1. Len(d) \in 1..Len(d) /\ IsFlush(d, Len(d)) /\ d[Len(d)].at = call.at
          BY <2>1, <2>4, <2>5 DEF IsFlush
    <3>2. call.at \in Cuts(d)
          BY <2>4, <3>1, CutsMember
    <3> QED BY <2>4, <3>2
  <2>6. ASSUME m.type # "FLUSH_OPUS_ENCODER"
        PROVE  Cuts(d) = Cuts(calls)
    <3>1. ASSUME NEW y \in Cuts(d) PROVE y \in Cuts(calls)
      <4>1. PICK k \in 1..Len(d) : IsFlush(d, k) /\ y = d[k].at
            BY <2>4, CutsMember
      <4>2. k # Len(calls) + 1
            BY <2>1, <2>4, <2>6, <4>1 DEF IsFlush
      <4>3. k \in 1..Len(calls) /\ IsFlush(calls, k) /\ y = calls[k].at
            BY <2>4, <4>1, <4>2 DEF IsFlush
      <4> QED BY <1>1, <4>3, CutsMember
    <3> QED BY <2>4, <3>1
  <2> QED BY <1>1, <1>2, <1>4, <2>1, <2>2, <2>4, <2>5, <2>6
<1> QED BY <1>5, <1>6 DEF Log

LEMMA JsStreamStep ==
    ASSUME BaseInv, BaseInv', JsCall \/ JsContinue \/ EventLoop
    PROVE  Abstract!Next \/ UNCHANGED Stream
<1> USE DEF jsVars, uvVars, prodVars, history, queues
<1>1. encQ \in QueueOf(Messages) /\ Accepted(calls) \in Nat
      BY CallsType, AcceptedIsLast DEF BaseInv, TypeOK, QueueTypes
<1>2. ASSUME NEW n \in ChunkSizes, Write(n)
      PROVE  Abstract!Accept \/ UNCHANGED Stream
  <2> DEFINE s == [i \in 1..n |-> Accepted(calls) + i]
             m == [type |-> "POST_PCM_BUFFER", samples |-> s]
  <2>1. n \in Nat /\ n > 0
        BY ProduceRtpAssumption
  <2>2. s \in Seq(Nat)
        BY <1>1, <2>1
  <2> HIDE DEF s
  <2>3. m \in Messages /\ m.type = "POST_PCM_BUFFER"
        BY <2>2 DEF Messages, PcmMessages
  <2>4. /\ PostToEncoder(m) /\ Log(m, n) /\ ~SendFails(encQ)
        /\ UNCHANGED <<sent, promise>>
        BY <1>2 DEF Write, s
  <2> HIDE DEF m
  <2>5. \/ UNCHANGED Stream
        \/ /\ Phase = "open" /\ UNCHANGED <<SentFrames, Phase>>
           /\ Accepted(calls)' = Accepted(calls) + n /\ Accepted(calls) \in Nat
           /\ Cuts(calls)' = Cuts(calls)
        BY <2>1, <2>3, <2>4, PostStep
  <2> QED BY <2>1, <2>5 DEF Abstract!Accept, SentFrames
<1>3. CASE EndSegment
  <2>1. /\ PostToEncoder(FlushMessage) /\ Log(FlushMessage, 0) /\ ~SendFails(encQ)
        /\ UNCHANGED <<sent, promise>>
        BY <1>3 DEF EndSegment
  <2>2. FlushMessage \in Messages /\ FlushMessage.type = "FLUSH_OPUS_ENCODER"
        BY MessageTypes DEF FlushMessage
  <2>3. Accepted(calls) + 0 = Accepted(calls)
        BY <1>1
  <2>4. \/ UNCHANGED Stream
        \/ /\ Phase = "open" /\ UNCHANGED <<SentFrames, Phase>>
           /\ Accepted(calls)' = Accepted(calls)
           /\ Cuts(calls)' = Cuts(calls) \cup {Accepted(calls)}
        BY <2>1, <2>2, <2>3, PostStep
  <2> QED BY <2>4 DEF Abstract!Cut, Abstract!Next, SentFrames
<1>4. ASSUME NEW t \in Settings, NEW v \in SettingValues[t], SetEncoder(t, v)
      PROVE  UNCHANGED Stream
  <2> DEFINE m == [type |-> t, value |-> v]
  <2>1. v \in Int
        BY ProduceRtpAssumption
  <2>2. m \in Messages /\ m.type = t /\ t # "FLUSH_OPUS_ENCODER"
        BY <2>1 DEF Messages, SetMessages, Settings
  <2>3. /\ PostToEncoder(m) /\ Log(m, 0) /\ ~SendFails(encQ)
        /\ UNCHANGED <<sent, promise>>
        BY <1>4 DEF SetEncoder
  <2> HIDE DEF m
  <2>4. Accepted(calls) + 0 = Accepted(calls)
        BY <1>1
  <2> QED BY <2>2, <2>3, <2>4, PostStep DEF Stream
<1>5. CASE \/ End \/ JsContinue \/ Abort \/ CallAfterClose
         \/ DrainCallback \/ DrainReturn \/ RemoveListener
  <2>1. UNCHANGED <<calls, sent, promise>>
        BY <1>5 DEF End, JsContinue, EndRecv, AbortRecv, AbortFlush, AbortClear, Abort,
                    CallAfterClose, DrainCallback, DrainReturn, RemoveListener
  <2>2. encQ'.err_send = encQ.err_send \/ encQ'.err_send
        BY <1>5, EncQFields
           DEF BaseInv, End, JsContinue, EndRecv, AbortRecv, AbortFlush, AbortClear, Abort,
               CallAfterClose, DrainCallback, DrainReturn, RemoveListener
  <2> QED BY <2>1, <2>2, ClosingStep DEF Abstract!Next
<1>6. CASE FinishCallback /\ exception
  <2>1. UNCHANGED <<encQ, calls, sent, promise>>
        BY <1>6 DEF FinishCallback
  <2> QED BY <2>1, ClosingStep DEF Abstract!Next
<1>7. CASE FinishCallback /\ ~exception
  <2>1. finPending /\ promise' = "resolved" /\ UNCHANGED <<queues, calls, sent>>
        BY <1>7 DEF FinishCallback
  <2>2. encPc = "done" /\ encQ.err_send
        BY <2>1 DEF BaseInv, ShutdownInv, ShutdownOrder
  <2>3. Phase' = "done" /\ Phase \in {"closed", "done"}
        BY <2>1, <2>2, PhaseIs DEF Phase
  <2>4. UNCHANGED <<Accepted(calls), Cuts(calls), SentFrames>>
        BY <2>1 DEF SentFrames
  <2> QED BY <2>3, <2>4 DEF Abstract!Finish, Abstract!Next, Stream, SentFrames
<1> QED
    BY <1>2, <1>3, <1>4, <1>5, <1>6, <1>7 DEF JsCall, EventLoop, Abstract!Next

(* A packet that leaves is a frame that AudioStream may deliver.           *)
LEMMA DeliverStep ==
    ASSUME BaseInv, FrameInv, BaseInv', FrameInv', prodPc = "send",
           sent' = Append(sent, prodPkt), UNCHANGED <<calls, encQ, promise>>
    PROVE  Abstract!Deliver
<1> DEFINE p == prodPkt
           s == From(p)
           e == UpTo(p)
<1>1. calls \in Seq(Calls) /\ sent \in Seq(Packets) /\ p \in Packets
      BY CallsType DEF BaseInv, TypeOK, ProdTypes
<1>2. PICK l : l = sent'
      OBVIOUS
<1>3. /\ l \in Seq(Packets) /\ Len(l) = Len(sent) + 1 /\ Len(sent) \in Nat
      /\ \A i \in 1..Len(sent) : l[i] = sent[i]
      /\ l[Len(sent) + 1] = p
  <2>1. l = Append(sent, prodPkt)
        BY <1>2
  <2> QED BY <1>1, <2>1, AppendProperties, LenProperties
<1>4. GoodLine(calls, l, "encode" \notin faults)
  <2>1. prodQ.msgs \in Seq(Packets) /\ l \in Seq(Packets) /\ <<>> \in Seq(Packets)
        BY <1>3, EmptySeq DEF BaseInv, TypeOK, QueueTypes, QueueOf
  <2>2. <<>> \o prodQ.msgs \in Seq(Packets)
        BY <2>1, ConcatProperties
  <2>3. ~Lost
        BY DEF FrameInv, StopInv, Ending
  <2>4. Line = sent \o (<<prodPkt>> \o prodQ.msgs)
        BY <2>3 DEF Line, InHand
  <2>5. PICK a, q, t : a = sent /\ q = p /\ t = prodQ.msgs
        OBVIOUS
  <2>6. a \in Seq(Packets) /\ q \in Packets /\ t \in Seq(Packets)
        BY <1>1, <2>1, <2>5
  <2>7. a \o (<<q>> \o t) = Append(a, q) \o (<<>> \o t)
        BY <2>6, MoveFirst
  <2>8. Line = l \o (<<>> \o prodQ.msgs)
        BY <1>2, <2>4, <2>5, <2>7, Zenon
  <2>9. GoodLine(calls, l \o (<<>> \o prodQ.msgs), "encode" \notin faults)
        BY <2>8 DEF FrameInv, LineInv
  <2> QED BY <2>1, <2>2, <2>9, LinePrefix
<1>5. Whole(calls, p)
  <2>1. Len(sent) + 1 \in 1..Len(l)
        BY <1>3
  <2> QED BY <1>3, <1>4, <2>1 DEF GoodLine
<1>6. /\ s \in Nat /\ e \in Nat /\ s < e /\ e <= Accepted(calls)
      /\ e = s + Len(p.samples) /\ Len(p.samples) <= FrameSize
      /\ Len(p.samples) \in Nat /\ Accepted(calls) \in Nat /\ FrameSize \in Nat
      BY <1>1, <1>5, WholeTypes, AcceptedIsLast, FrameSizeAssumption
<1>7. p.samples = [i \in 1..(e - s) |-> s + i]
      BY <1>1, <1>5, WholeEnds
<1>8. Abstract!SentUpTo \in Nat /\ Abstract!SentUpTo <= s
  <2>1. DOMAIN sent = 1..Len(sent)
        BY <1>1, LenProperties
  <2>2. SentFrames \in Seq(Seq(Nat)) /\ Len(SentFrames) = Len(sent)
    <3>1. \A i \in 1..Len(sent) : sent[i].samples \in Seq(Nat)
      <4>1. \A i \in 1..Len(sent) : sent[i] \in Packets
            BY <1>1, ElementOfSeq
      <4> QED BY <4>1 DEF Packets
    <3> QED BY <1>3, <2>1, <3>1 DEF SentFrames
  <2>3. CASE sent = <<>>
    <3>1. SentFrames = <<>>
          BY <2>2, <2>3, EmptySeq
    <3> QED BY <1>6, <3>1 DEF Abstract!SentUpTo, SentFrames
  <2>4. CASE sent # <<>>
    <3> DEFINE k == Len(sent)
               r == sent[k]
    <3>1. k \in 1..Len(sent) /\ k \in 1..Len(l) /\ k \in 1..(Len(l) - 1) /\ l[k] = r
          BY <1>1, <1>3, <2>4, EmptySeq
    <3>2. Whole(calls, r) /\ Follows(calls, r, p)
      <4>1. Whole(calls, l[k]) /\ Follows(calls, l[k], l[k + 1])
            BY <1>4, <3>1 DEF GoodLine
      <4> QED BY <1>3, <3>1, <4>1
    <3>3. r.samples[Len(r.samples)] = UpTo(r) /\ UpTo(r) \in Nat /\ UpTo(r) <= s
          BY <1>1, <3>2, WholeEnds, WholeTypes DEF Follows
    <3>4. SentFrames # <<>> /\ SentFrames[Len(SentFrames)] = r.samples
          BY <2>1, <2>2, <2>4, <3>1, EmptySeq DEF SentFrames
    <3> QED BY <3>3, <3>4 DEF Abstract!SentUpTo, SentFrames
  <2> QED BY <2>3, <2>4
<1>9. SentFrames' = Append(SentFrames, [i \in 1..(e - s) |-> s + i])
  <2> DEFINE F(q) == [i \in 1..Len(q) |-> q[i].samples]
  <2>1. SentFrames = F(sent) /\ SentFrames' = F(l)
    <3>1. DOMAIN sent = 1..Len(sent) /\ DOMAIN l = 1..Len(l)
          BY <1>1, <1>3, LenProperties
    <3> QED BY <1>2, <3>1 DEF SentFrames
  <2>2. F(l) = Append(F(sent), p.samples)
    <3> DEFINE T == Seq(Nat)
    <3>1. /\ \A i \in 1..Len(sent) : sent[i].samples \in T
          /\ \A i \in 1..Len(l) : l[i].samples \in T
          /\ p.samples \in T
      <4>1. \A i \in 1..Len(sent) : sent[i] \in Packets
            BY <1>1, ElementOfSeq
      <4>2. \A i \in 1..Len(l) : l[i] \in Packets
            BY <1>3, ElementOfSeq
      <4> QED BY <1>1, <4>1, <4>2 DEF Packets
    <3> HIDE DEF T
    <3>2. F(sent) \in Seq(T) /\ Len(F(sent)) = Len(sent)
          /\ \A i \in 1..Len(sent) : F(sent)[i] = sent[i].samples
          BY <1>3, <3>1
    <3>3. F(l) \in Seq(T) /\ Len(F(l)) = Len(sent) + 1
          /\ \A i \in 1..(Len(sent) + 1) : F(l)[i] = l[i].samples
          BY <1>3, <3>1
    <3> HIDE DEF F
    <3> DEFINE a == Append(F(sent), p.samples)
    <3>4. a \in Seq(T) /\ Len(a) = Len(sent) + 1
          /\ (\A i \in 1..Len(sent) : a[i] = F(sent)[i])
          /\ a[Len(sent) + 1] = p.samples
          BY <3>1, <3>2, AppendProperties
    <3> HIDE DEF a
    <3>5. \A i \in 1..Len(F(l)) : F(l)[i] = a[i]
      <4> SUFFICES ASSUME NEW i \in 1..(Len(sent) + 1) PROVE F(l)[i] = a[i]
          BY <3>3
      <4>1. CASE i \in 1..Len(sent)
            BY <1>3, <3>2, <3>3, <3>4, <4>1
      <4>2. CASE i = Len(sent) + 1
            BY <1>3, <3>3, <3>4, <4>2
      <4> QED BY <1>3, <4>1, <4>2
    <3>6. F(l) = a
          BY <3>3, <3>4, <3>5, SeqEqual
    <3> QED BY <3>6 DEF a
  <2> HIDE DEF F
  <2> QED BY <1>7, <2>1, <2>2, Zenon
<1>10. Phase # "done" /\ UNCHANGED <<Accepted(calls), Cuts(calls), Phase>>
  <2>1. encPc # "done"
        BY DEF BaseInv, ShutdownInv, ShutdownOrder
  <2>2. UNCHANGED Phase
        BY DEF Phase
  <2> QED BY <2>1, <2>2, PhaseIs
<1>11. \A c \in Cuts(calls) : ~(s < c /\ c < e)
       BY <1>5 DEF Whole
<1>12. e - s <= FrameSize
       BY <1>6
<1> HIDE DEF s, e
<1>13. s \in Abstract!SentUpTo..(Accepted(calls) - 1) /\ e \in (s + 1)..Accepted(calls)
       BY <1>6, <1>8
<1> QED BY <1>9, <1>10, <1>11, <1>12, <1>13 DEF Abstract!Deliver, SentFrames

LEMMA StreamStep ==
    BaseInv /\ FrameInv /\ (BaseInv /\ FrameInv)' /\ [Next]_vars
        => [Abstract!Next]_<<Accepted(calls), Cuts(calls),
                             [i \in DOMAIN sent |-> sent[i].samples], Phase>>
<1> SUFFICES ASSUME BaseInv, FrameInv, (BaseInv /\ FrameInv)', [Next]_vars
             PROVE  Abstract!Next \/ UNCHANGED Stream
    BY DEF Stream, SentFrames
<1> USE DEF jsVars, uvVars, prodVars, history, queues
<1>1. CASE UNCHANGED vars
  <2>1. UNCHANGED <<calls, sent, promise, encQ>>
        BY <1>1 DEF vars
  <2> QED BY <2>1, ClosingStep DEF Abstract!Next
<1>2. CASE JsCall \/ JsContinue \/ EventLoop
      BY <1>2, JsStreamStep
<1>3. CASE Encoder
  <2>1. UNCHANGED <<calls, sent, promise>>
        BY <1>3 DEF Encoder, EncStartProducer, EncCreateOpus, EncRecv, EncEof, EncNotify,
           EncFill, EncPost, EncFlush, EncFlushPost, EncControl, EncStopSend, EncStopRecv,
           EncJoin, EncFinSend, EncFinRecv, EncFinish
  <2>2. encQ'.err_send = encQ.err_send \/ encQ'.err_send
        BY <1>3, EncQFields
        DEF BaseInv, Encoder, EncStartProducer, EncCreateOpus, EncRecv, EncEof, EncNotify,
            EncFill, EncPost, EncFlush, EncFlushPost, EncControl, EncStopSend, EncStopRecv,
            EncJoin, EncFinSend, EncFinRecv, EncFinish
  <2> QED BY <2>1, <2>2, ClosingStep DEF Abstract!Next
<1>4. CASE Producer
  <2>1. UNCHANGED <<calls, promise, encQ>>
        BY <1>4 DEF Producer, ProdOpen, ProdRecv, ProdEof, ProdSend, ProdExitSend,
                    ProdExitRecv
  <2>2. CASE UNCHANGED sent
        BY <2>1, <2>2, ClosingStep DEF Abstract!Next
  <2>3. CASE ~UNCHANGED sent
    <3>1. prodPc = "send" /\ sent' = Append(sent, prodPkt)
          BY <1>4, <2>3 DEF Producer, ProdOpen, ProdRecv, ProdEof, ProdSend, ProdExitSend,
                            ProdExitRecv
    <3> QED BY <2>1, <3>1, DeliverStep DEF Abstract!Next
  <2> QED BY <2>2, <2>3
<1> QED BY <1>1, <1>2, <1>3, <1>4 DEF Next, Terminated

(* The threads, queues and callbacks together are one AudioStream: what    *)
(* was accepted leaves in order, at most once, in frames that never mix    *)
(* two segments; nothing is accepted once it is closed, and nothing sent   *)
(* once it is done.                                                        *)
THEOREM StreamImplements == Spec => ImplementsAudioStream
<1>1. Init => Abstract!Init
  <2> SUFFICES ASSUME Init PROVE Abstract!Init
      OBVIOUS
  <2>1. calls = <<>> /\ sent = <<>> /\ promise = "pending" /\ ~encQ.err_send
        BY DEF Init, InitJs, InitHandles, InitThreads, EmptyQueue
  <2>2. Accepted(calls) = 0
        BY <2>1 DEF Accepted
  <2>3. Cuts(calls) = {}
        BY <2>1 DEF Cuts, IndicesOf
  <2>4. [i \in DOMAIN sent |-> sent[i].samples] = <<>>
        BY <2>1
  <2>5. Phase = "open"
        BY <2>1 DEF Phase
  <2> QED BY <2>2, <2>3, <2>4, <2>5 DEF Abstract!Init
<1> QED
    BY FrameInvariance, <1>1, StreamStep, PTL
       DEF Spec, ImplementsAudioStream, Abstract!Spec, Abstract!vars

=============================================================================
