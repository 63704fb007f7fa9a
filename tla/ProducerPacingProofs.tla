------------------------ MODULE ProducerPacingProofs ------------------------
(***************************************************************************)
(* For every choice of the waiting times, oversleeping times and number of *)
(* packets: the safety properties of ProducerPacing.                       *)
(***************************************************************************)
EXTENDS ProducerPacing, TLAPS

(* The two conversions: the clock never runs backwards, and converting the *)
(* time slept back to ticks loses at most what one microsecond makes up    *)
(* for.                                                                    *)
LEMMA TicksMonotonic ==
    ASSUME NEW a \in Nat, NEW b \in Nat, a <= b
    PROVE  Ticks(a) \in Nat /\ Ticks(a) <= Ticks(b)
BY DEF Ticks

LEMMA MicrosType ==
    ASSUME NEW n \in Nat
    PROVE  Micros(n) \in Nat
BY DEF Micros

LEMMA SleepRounding ==
    ASSUME NEW us \in Nat, NEW n \in Nat
    PROVE  Ticks(us) + n <= Ticks(us + Micros(n) + 1)
BY DEF Ticks, Micros

LEMMA SleepRoundingExact ==
    ASSUME NEW us \in Nat, NEW n \in Nat
    PROVE  Ticks(us) + n <= Ticks(us + Micros(n)) + 1
BY DEF Ticks, Micros

LEMMA MicrosMonotonic ==
    ASSUME NEW a \in Nat, NEW b \in Nat, a <= b
    PROVE  Micros(a) <= Micros(b)
BY DEF Micros

-----------------------------------------------------------------------------
(* The inductive invariant.  Between packets, next_expected_pts, last_pts  *)
(* and rebase_pts agree on where the audio that was sent ends, and the     *)
(* packet last sent is at most MAX_FUTURE ahead of the next reading of the *)
(* clock.                                                                  *)
AtRecv ==
    pc = "recv" =>
        /\ sentPts = AV_NOPTS_VALUE <=> rebase_pts = AV_NOPTS_VALUE
        /\ rebase_pts = AV_NOPTS_VALUE => next_expected_pts = AV_NOPTS_VALUE
        /\ rebase_pts # AV_NOPTS_VALUE =>
              /\ next_expected_pts = sentPts + Duration
              /\ sentPts = last_pts + rebase_pts
              /\ sentPts <= Ticks(now + 1) + MAX_FUTURE

AtSend ==
    pc = "send" =>
        /\ rebase_pts # AV_NOPTS_VALUE
        /\ pkt = last_pts + rebase_pts
        /\ next_expected_pts \in {AV_NOPTS_VALUE, pkt}
        /\ sentPts <= pkt
        /\ pkt <= Ticks(now + sleep_for + 1) + MAX_FUTURE

IInv == /\ TypeOK
        /\ ~dropped
        /\ rebase_pts = AV_NOPTS_VALUE <=> last_pts = AV_NOPTS_VALUE
        /\ AtRecv /\ AtSend
        /\ BoundedFuture /\ SleepsOneFrame /\ SegmentStartsAtClock

LEMMA InitIInv == Init => IInv
<1> SUFFICES ASSUME Init PROVE IInv
    OBVIOUS
<1>1. TypeOK /\ ~dropped
      BY DEF Init, TypeOK, Timestamps
<1>2. 0 <= Micros(Duration)
      BY MicrosType DEF Duration
<1> QED
    BY <1>1, <1>2 DEF Init, IInv, AtRecv, AtSend, BoundedFuture, SleepsOneFrame,
                      SegmentStartsAtClock

(* A packet that continues its segment: it follows the one sent before by  *)
(* a frame, and sleeps until it is MAX_FUTURE ahead.                       *)
LEMMA ReceiveContinue ==
    ASSUME IInv, NEW p \in NextPts, NEW d \in Nat \ {0}, Receive(p, d),
           rebase_pts # AV_NOPTS_VALUE, p > last_pts
    PROVE  IInv'
<1> DEFINE t == Ticks(now + d)
           future == p + rebase_pts - t
<1>1. /\ last_pts \in Nat /\ rebase_pts \in Nat /\ now \in Nat
      /\ p = last_pts + Duration /\ sentPts = last_pts + rebase_pts
      /\ next_expected_pts = sentPts + Duration
      /\ sentPts <= Ticks(now + 1) + MAX_FUTURE
      BY DEF IInv, TypeOK, Timestamps, AtRecv, Receive, NextPts, AV_NOPTS_VALUE,
             Duration
<1>2. /\ pkt' = p + rebase_pts /\ sleep_for' = Sleep(future)
      /\ now' = now + d /\ last_pts' = p /\ pc' = "send"
      /\ received' = received + 1
      /\ UNCHANGED <<rebase_pts, next_expected_pts, dropped, sentPts, sentCount>>
      BY <1>1 DEF Receive, Continue, AV_NOPTS_VALUE
<1>3. t \in Nat /\ Ticks(now + 1) <= t
      BY <1>1, TicksMonotonic
<1>4. future <= MAX_FUTURE + Duration
      BY <1>1, <1>3, TicksMonotonic DEF Duration, MAX_FUTURE, OPUS_SAMPLE_RATE
<1>5. CASE future <= MAX_FUTURE
  <2>1. sleep_for' = 0
        BY <1>1, <1>2, <1>3, <1>5
           DEF Sleep, MAX_FUTURE, OPUS_SAMPLE_RATE, Duration
  <2>2. t <= Ticks(now + d + 0 + 1) /\ Ticks(now + d + 0 + 1) \in Nat
        BY <1>1, TicksMonotonic
  <2>3. 0 <= Micros(Duration)
        BY MicrosType DEF Duration
  <2> QED
      BY <1>1, <1>2, <1>3, <1>5, <2>1, <2>2, <2>3
         DEF IInv, TypeOK, AtRecv, AtSend, BoundedFuture, SleepsOneFrame,
             SegmentStartsAtClock, AV_NOPTS_VALUE, Timestamps, Duration,
             MAX_FUTURE, OPUS_SAMPLE_RATE
<1>6. CASE future > MAX_FUTURE
  <2> DEFINE n == future - MAX_FUTURE
  <2>1. n \in Nat /\ n <= Duration /\ Duration \in Nat
        BY <1>1, <1>3, <1>4, <1>6 DEF MAX_FUTURE, OPUS_SAMPLE_RATE, Duration
  <2>2. sleep_for' = Micros(n)
        BY <1>2, <1>6 DEF Sleep
  <2>3. Micros(n) \in Nat /\ Micros(n) <= Micros(Duration)
        BY <2>1, MicrosType, MicrosMonotonic
  <2>4. /\ t + n <= Ticks(now + d + Micros(n) + 1)
        /\ t + n <= Ticks(now + d + Micros(n)) + 1
        BY <1>1, <2>1, SleepRounding, SleepRoundingExact
  <2>5. /\ Ticks(now + d + Micros(n) + 1) \in Nat
        /\ Ticks(now + d + Micros(n)) \in Nat
        BY <1>1, <2>3, TicksMonotonic
  <2> QED
      BY <1>1, <1>2, <1>3, <1>6, <2>1, <2>2, <2>3, <2>4, <2>5
         DEF IInv, TypeOK, AtRecv, AtSend, BoundedFuture, SleepsOneFrame,
             SegmentStartsAtClock, AV_NOPTS_VALUE, Timestamps, Duration,
             MAX_FUTURE, OPUS_SAMPLE_RATE
<1> QED BY <1>1, <1>3, <1>5, <1>6 DEF MAX_FUTURE, OPUS_SAMPLE_RATE

(* The first packet of a segment: it is not before what was sent, not      *)
(* before the clock, and at most MAX_FUTURE ahead of it; it never sleeps.  *)
LEMMA ReceiveRebase ==
    ASSUME IInv, NEW p \in NextPts, NEW d \in Nat \ {0}, Receive(p, d),
           rebase_pts = AV_NOPTS_VALUE \/ p <= last_pts
    PROVE  IInv'
<1> DEFINE t == Ticks(now + d)
           base == SegmentBase(t)
<1>1. /\ now \in Nat /\ p = 0 /\ sentPts \in Timestamps
      /\ next_expected_pts \in Timestamps
      /\ sentPts # AV_NOPTS_VALUE =>
            /\ next_expected_pts = sentPts + Duration
            /\ sentPts <= Ticks(now + 1) + MAX_FUTURE
      /\ sentPts = AV_NOPTS_VALUE => next_expected_pts = AV_NOPTS_VALUE
      BY DEF IInv, TypeOK, Timestamps, AtRecv, Receive, NextPts, AV_NOPTS_VALUE,
             Duration
<1>2. /\ pkt' = 0 + base /\ sleep_for' = Sleep(0)
      /\ rebase_pts' = base /\ next_expected_pts' = AV_NOPTS_VALUE
      /\ now' = now + d /\ last_pts' = 0 /\ pc' = "send"
      /\ received' = received + 1
      /\ UNCHANGED <<dropped, sentPts, sentCount>>
      BY <1>1 DEF Receive, Rebase
<1>3. /\ t \in Nat /\ Ticks(now + 1) \in Nat /\ Ticks(now + 1) <= t
      /\ Ticks(now + d + 0 + 1) \in Nat /\ t <= Ticks(now + d + 0 + 1)
      BY <1>1, TicksMonotonic
<1>4. base \in Nat /\ t <= base /\ base <= t + MAX_FUTURE /\ sentPts <= base
      BY <1>1, <1>3 DEF SegmentBase, Timestamps, AV_NOPTS_VALUE, Duration,
                        MAX_FUTURE, OPUS_SAMPLE_RATE
<1>5. sleep_for' = 0 /\ 0 <= Micros(Duration)
      BY <1>2, MicrosType DEF Sleep, MAX_FUTURE, OPUS_SAMPLE_RATE, Duration
<1> QED
    BY <1>1, <1>2, <1>3, <1>4, <1>5
       DEF IInv, TypeOK, AtRecv, AtSend, BoundedFuture, SleepsOneFrame,
           SegmentStartsAtClock, AV_NOPTS_VALUE, Timestamps, Duration,
           MAX_FUTURE, OPUS_SAMPLE_RATE

LEMMA SendIInv ==
    ASSUME IInv, NEW j \in Nat, Send(j)
    PROVE  IInv' /\ sentPts' >= sentPts
<1>1. /\ pkt \in Nat /\ now \in Nat /\ sleep_for \in Nat /\ ~Late
      /\ rebase_pts \in Nat /\ last_pts \in Nat /\ sentPts \in Timestamps
      /\ pkt = last_pts + rebase_pts /\ sentPts <= pkt
      BY DEF IInv, TypeOK, AtSend, Send, Late, Timestamps, AV_NOPTS_VALUE
<1>2. /\ Ticks(now + sleep_for + 1) \in Nat
      /\ Ticks(now + sleep_for + 1) <= Ticks(now + sleep_for + j + 1)
      /\ Ticks(now + sleep_for + j + 1) \in Nat
      BY <1>1, TicksMonotonic
<1>3. CASE pc' = "recv"
  <2>1. /\ sentPts' = pkt /\ next_expected_pts' = pkt + Duration
        /\ sentCount' = sentCount + 1
        /\ now' = now + sleep_for + j /\ ~dropped'
        /\ UNCHANGED <<rebase_pts, last_pts, pkt, sleep_for, received>>
        BY <1>1, <1>3 DEF Send, IInv
  <2> QED
      BY <1>1, <1>2, <1>3, <2>1
         DEF IInv, TypeOK, AtRecv, AtSend, BoundedFuture, SleepsOneFrame,
             SegmentStartsAtClock, AV_NOPTS_VALUE, Timestamps, Duration,
             MAX_FUTURE, OPUS_SAMPLE_RATE, Send
<1>4. CASE pc' = "exit"
      BY <1>1, <1>4
         DEF IInv, TypeOK, AtRecv, AtSend, BoundedFuture, SleepsOneFrame,
             SegmentStartsAtClock, AV_NOPTS_VALUE, Timestamps, Duration, Send
<1> QED BY <1>3, <1>4 DEF Send

LEMMA NextIInv == IInv /\ [Next]_vars => IInv' /\ sentPts' >= sentPts
<1> SUFFICES ASSUME IInv, [Next]_vars
             PROVE  IInv' /\ sentPts' >= sentPts
    OBVIOUS
<1>1. sentPts \in Int
      BY DEF IInv, TypeOK, Timestamps, AV_NOPTS_VALUE
<1>2. ASSUME NEW p \in NextPts, NEW d \in Waits, Receive(p, d)
      PROVE  IInv' /\ sentPts' >= sentPts
  <2>1. d \in Nat \ {0}
        BY PacingAssumption
  <2>2. sentPts' = sentPts
        BY <1>2 DEF Receive
  <2>3. CASE rebase_pts = AV_NOPTS_VALUE \/ p <= last_pts
        BY <1>1, <1>2, <2>1, <2>2, <2>3, ReceiveRebase
  <2>4. CASE rebase_pts # AV_NOPTS_VALUE /\ p > last_pts
        BY <1>1, <1>2, <2>1, <2>2, <2>4, ReceiveContinue
  <2>5. p \in Int /\ last_pts \in Int
        BY DEF IInv, TypeOK, NextPts, Timestamps, AV_NOPTS_VALUE, Duration
  <2> QED BY <2>3, <2>4, <2>5
<1>3. ASSUME NEW j \in Oversleeps, Send(j)
      PROVE  IInv' /\ sentPts' >= sentPts
      BY <1>3, SendIInv, PacingAssumption
<1>4. CASE Eof
      BY <1>1, <1>4
         DEF Eof, IInv, TypeOK, AtRecv, AtSend, BoundedFuture, SleepsOneFrame,
             SegmentStartsAtClock
<1>5. CASE UNCHANGED vars
      BY <1>1, <1>5
         DEF vars, IInv, TypeOK, AtRecv, AtSend, BoundedFuture, SleepsOneFrame,
             SegmentStartsAtClock
<1> QED BY <1>2, <1>3, <1>4, <1>5 DEF Next, Terminated

LEMMA Invariance == Spec => []IInv
<1>1. IInv /\ [Next]_vars => IInv'
      BY NextIInv
<1> QED BY InitIInv, <1>1, PTL DEF Spec

-----------------------------------------------------------------------------

(* The variables keep their types; no time or timestamp becomes negative.  *)
THEOREM TypeCorrect == Spec => []TypeOK
BY Invariance, PTL DEF IInv

(* The drop check of the producer thread is dead code for the timestamps   *)
(* that the encoder posts.                                                 *)
THEOREM NoPacketIsDropped == Spec => []NothingDropped
<1>1. IInv => NothingDropped
      BY DEF IInv, TypeOK, AtSend, NothingDropped, Late
<1> QED BY Invariance, <1>1, PTL

(* The muxer never sees a timestamp that goes back.                        *)
THEOREM TimestampsNeverGoBack == Spec => NeverBackwards
<1>1. IInv /\ [Next]_vars => [sentPts' >= sentPts]_vars
      BY NextIInv
<1> QED BY Invariance, <1>1, PTL DEF Spec, NeverBackwards

(* A packet is written at most MAX_FUTURE and one tick of rounding ahead   *)
(* of the clock.                                                           *)
THEOREM PacingIsBounded == Spec => []BoundedFuture
BY Invariance, PTL DEF IInv

(* The producer thread never sleeps for longer than a frame takes, so the  *)
(* threads that feed it, or that wait for it, wait a frame per packet.     *)
THEOREM SleepIsOneFrame == Spec => []SleepsOneFrame
BY Invariance, PTL DEF IInv

(* A segment starts at the clock or at most MAX_FUTURE ahead of it, and    *)
(* its first packet leaves at once.                                        *)
THEOREM SegmentsStartOnTime == Spec => []SegmentStartsAtClock
BY Invariance, PTL DEF IInv
=============================================================================
