--------------------------- MODULE ProducerPacing ---------------------------
(***************************************************************************)
(* The clock arithmetic of the producer thread (ThreadMain of              *)
(* producer_thread.cc): the timestamps it gives to the packets of the      *)
(* encoder and the time it sleeps before it sends them.                    *)
(*                                                                         *)
(* Packets come with the timestamps that ProduceRtp establishes            *)
(* (TimestampsFollowSegments there): 0 for the first packet of a segment,  *)
(* and otherwise 960 more than the packet before.  `now' is the time since *)
(* stream_start in microseconds; timestamps count samples at 48 kHz.       *)
(***************************************************************************)
EXTENDS Integers

CONSTANTS Waits,      \* times between a send and the next clock reading
          Oversleeps, \* how much longer than asked a sleep may take
          MaxPackets  \* bound: packets received

(* Two clock readings with a packet sent between them differ: writing to a *)
(* socket takes more than a microsecond.                                   *)
ASSUME PacingAssumption == /\ Waits \subseteq Nat \ {0}
                           /\ Oversleeps \subseteq Nat
                           /\ MaxPackets \in Nat

AV_NOPTS_VALUE == -1             \* any number that is no timestamp
OPUS_SAMPLE_RATE == 48000
MAX_FUTURE == OPUS_SAMPLE_RATE \div 10
Duration == 960                  \* AVPacket.duration, set by the encoder

(* av_rescale rounds to nearest; 48000/1000000 = 12/250 and 1000000/48000  *)
(* = 125/6, so these are                                                   *)
(* (48000 us + 500000) \div 1000000 and (1000000 n + 24000) \div 48000.    *)
Ticks(us) == (12 * us + 125) \div 250
Micros(n) == (125 * n + 3) \div 6

VARIABLES
    now,
    pc,                 \* "recv", "send" (before av_usleep) or "exit"
    rebase_pts, last_pts, next_expected_pts,
    pkt,                \* pkt->pts after it was rebased
    sleep_for,          \* 0 when the packet need not wait
    dropped,            \* a packet was dropped by the next_expected_pts check
    received,           \* number of packets received
    sentPts, sentCount  \* the last timestamp sent, and how many were

vars == <<now, pc, rebase_pts, last_pts, next_expected_pts, pkt, sleep_for,
          dropped, received, sentPts, sentCount>>

Timestamps == Nat \cup {AV_NOPTS_VALUE}

TypeOK == /\ now \in Nat
          /\ pc \in {"recv", "send", "exit"}
          /\ rebase_pts \in Timestamps /\ last_pts \in Timestamps
          /\ next_expected_pts \in Timestamps /\ sentPts \in Timestamps
          /\ pkt \in Nat /\ sleep_for \in Nat
          /\ dropped \in BOOLEAN
          /\ received \in Nat /\ sentCount \in Nat

Init == /\ now = 0 /\ pc = "recv"
        /\ rebase_pts = AV_NOPTS_VALUE /\ last_pts = AV_NOPTS_VALUE
        /\ next_expected_pts = AV_NOPTS_VALUE
        /\ pkt = 0 /\ sleep_for = 0 /\ dropped = FALSE
        /\ received = 0 /\ sentPts = AV_NOPTS_VALUE /\ sentCount = 0

(* The timestamps that the encoder may post next. *)
NextPts == IF last_pts = AV_NOPTS_VALUE THEN {0} ELSE {0, last_pts + Duration}

(* Mutants of SegmentBase: without the limit; without a look at what was   *)
(* sent; and without a look at the clock.                                  *)
BugBaseUnlimited(t) ==
    IF next_expected_pts # AV_NOPTS_VALUE /\ next_expected_pts > t
    THEN next_expected_pts ELSE t
BugBaseClock(t) == t
BugBaseExpected(t) ==
    IF next_expected_pts # AV_NOPTS_VALUE THEN next_expected_pts ELSE t

(* Where a new segment starts: at the wall clock, or where the audio that  *)
(* was already sent ends, but at most MAX_FUTURE ahead of the clock.       *)
SegmentBase(t) ==
    IF next_expected_pts # AV_NOPTS_VALUE /\ next_expected_pts > t
    THEN IF next_expected_pts > t + MAX_FUTURE THEN t + MAX_FUTURE
                                               ELSE next_expected_pts
    ELSE t

(* Mutants of Sleep: of any packet; and until the packet is due. *)
BugSleepAlways(future) == Micros(future - MAX_FUTURE)
BugSleepUntilDue(future) == IF future > MAX_FUTURE THEN Micros(future) ELSE 0
Sleep(future) == IF future > MAX_FUTURE THEN Micros(future - MAX_FUTURE) ELSE 0

(* Receive a packet d microseconds after the previous step, rebase its     *)
(* timestamp and decide how long to sleep.                                 *)
Continue(p, t) ==
    /\ pkt' = p + rebase_pts
    /\ sleep_for' = Sleep(p + rebase_pts - t)
    /\ UNCHANGED <<rebase_pts, next_expected_pts>>

(* Mutant of Rebase: next_expected_pts of the old segment is kept. *)
BugRebase(p, t) ==
    /\ rebase_pts' = SegmentBase(t)
    /\ pkt' = p + SegmentBase(t)
    /\ sleep_for' = Sleep(p)
    /\ UNCHANGED next_expected_pts

Rebase(p, t) ==
    /\ rebase_pts' = SegmentBase(t)
    /\ next_expected_pts' = AV_NOPTS_VALUE
    /\ pkt' = p + SegmentBase(t)
    /\ sleep_for' = Sleep(p)      \* now_pts has become the new base as well

Receive(p, d) ==
    /\ pc = "recv" /\ received < MaxPackets
    /\ now' = now + d /\ received' = received + 1 /\ pc' = "send"
    /\ last_pts' = p
    /\ IF rebase_pts = AV_NOPTS_VALUE \/ p <= last_pts
       THEN Rebase(p, Ticks(now + d))
       ELSE Continue(p, Ticks(now + d))
    /\ UNCHANGED <<dropped, sentPts, sentCount>>

Late == next_expected_pts # AV_NOPTS_VALUE /\ pkt < next_expected_pts

(* Sleep (j longer than asked); then drop a packet that goes back in time, *)
(* or write it, which ends the thread when it fails.                       *)
Send(j) ==
    /\ pc = "send"
    /\ now' = now + sleep_for + j
    /\ dropped' = (dropped \/ Late)
    /\ next_expected_pts' = IF Late THEN next_expected_pts ELSE pkt + Duration
    /\ \/ /\ pc' = "recv"
          /\ sentPts' = IF Late THEN sentPts ELSE pkt
          /\ sentCount' = IF Late THEN sentCount ELSE sentCount + 1
       \/ pc' = "exit" /\ ~Late /\ UNCHANGED <<sentPts, sentCount>>
    /\ UNCHANGED <<rebase_pts, last_pts, pkt, sleep_for, received>>

(* The queue is closed and empty. *)
Eof == /\ pc = "recv" /\ pc' = "exit"
       /\ UNCHANGED <<now, rebase_pts, last_pts, next_expected_pts, pkt, sleep_for,
                      dropped, received, sentPts, sentCount>>

Terminated == pc = "exit" /\ UNCHANGED vars

Next == \/ \E p \in NextPts, d \in Waits : Receive(p, d)
        \/ \E j \in Oversleeps : Send(j)
        \/ Eof \/ Terminated

Spec == Init /\ [][Next]_vars

-----------------------------------------------------------------------------
(* Properties.                                                             *)

(* The check "pkt->pts < next_expected_pts" never drops anything: for the  *)
(* timestamps the encoder posts, a rebase always lands at or after what    *)
(* the check would compare with.  Audio is delayed, never discarded.       *)
NothingDropped == ~dropped /\ (pc = "send" => ~Late)

(* "Sending pts packets out of order will cause the muxer to stop": the    *)
(* timestamps handed to av_write_frame never go back, across segments too, *)
(* in spite of the rounding of both conversions.                           *)
NeverBackwards == [][sentPts' >= sentPts]_vars

(* A packet is at most MAX_FUTURE (and one tick of rounding) ahead of the  *)
(* clock when it is written.                                               *)
BoundedFuture ==
    pc = "send" => pkt <= Ticks(now + sleep_for) + MAX_FUTURE + 1

(* No sleep is longer than one frame: an encoder that waits                *)
(* for the producer to stop waits 20 ms for each packet, not longer.       *)
SleepsOneFrame == sleep_for <= Micros(Duration)

(* A new segment starts at the clock, or up to MAX_FUTURE ahead of it:     *)
(* late audio is never sent with old timestamps.                           *)
SegmentStartsAtClock ==
    pc = "send" /\ last_pts = 0 =>
        /\ pkt >= Ticks(now)
        /\ pkt <= Ticks(now) + MAX_FUTURE
        /\ sleep_for = 0

(* README.md: "The producer thread sends RTP packets at real-time speed":  *)
(* the audio sent is never more than MAX_FUTURE and one packet ahead of    *)
(* the clock.  The first packet of a segment is never delayed, so a run of *)
(* short segments leaves as fast as it comes.                              *)
RealTimeSpeed ==
    pc = "recv" => sentCount * Duration <= Ticks(now) + MAX_FUTURE + Duration
=============================================================================
