---------------------------- MODULE OpusDuration ----------------------------
(***************************************************************************)
(* opus_duration() of demuxer.cc, which gives a duration to the packets    *)
(* that the RTP demuxer delivers without one, in samples at 48 kHz, and    *)
(* the table of RFC 6716 that it encodes in shifts.                        *)
(***************************************************************************)
EXTENDS Integers

Byte == 0..255
AVERROR_INVALIDDATA == -1    \* any negative number

(* The first byte of a packet. *)
toc_config(toc) == toc \div 8
toc_count(toc)  == toc % 4

frame_size(config) ==
    CASE config < 12 -> IF config % 4 = 0 THEN 480 ELSE 960 * (config % 4)
      [] config \in 12..15 -> 480 * 2^(config % 2)
      [] config > 15 -> 120 * 2^(config % 4)

(* second is the second byte of a packet that has one. *)
opus_duration(toc, size, second) ==
    LET frame == frame_size(toc_config(toc))
    IN CASE toc_count(toc) = 3 /\ size < 2  -> AVERROR_INVALIDDATA
         [] toc_count(toc) = 3 /\ size >= 2 -> frame * (second % 64)
         [] toc_count(toc) \in {1, 2}       -> frame * 2
         [] toc_count(toc) = 0              -> frame

-----------------------------------------------------------------------------
(* The reference: RFC 6716, table 2 (durations of the four configurations  *)
(* of a mode, in samples) and section 3.2 (the number of frames).          *)

Silk   == <<480, 960, 1920, 2880>>
Hybrid == <<480, 960, 480, 960>>
Celt   == <<120, 240, 480, 960>>
TableSize(config) == LET mode == IF config < 12 THEN Silk
                                 ELSE IF config < 16 THEN Hybrid ELSE Celt
                     IN mode[(config % 4) + 1]
FrameCount(toc, second) == <<1, 2, 2, second % 64>>[toc_count(toc) + 1]

(* A packet holds at most 120 ms, and at least one frame. *)
WellFormed(toc, size, second) ==
    /\ size >= (IF toc_count(toc) = 3 THEN 2 ELSE 1)
    /\ FrameCount(toc, second) > 0
    /\ TableSize(toc_config(toc)) * FrameCount(toc, second) <= 5760

(* For a packet that obeys the RFC the function is right.                  *)
RightWhenWellFormed(toc, size, second) ==
    WellFormed(toc, size, second) =>
        opus_duration(toc, size, second)
            = TableSize(toc_config(toc)) * FrameCount(toc, second)

(* For any other it is rejected only when the second byte is missing; the  *)
(* duration may be zero or up to 3.78 s, and does not overflow.            *)
BoundedForAll(toc, size, second) ==
    /\ opus_duration(toc, size, second) < 0 <=> toc_count(toc) = 3 /\ size < 2
    /\ opus_duration(toc, size, second) <= 63 * 2880
=============================================================================
