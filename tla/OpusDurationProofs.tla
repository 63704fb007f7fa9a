------------------------- MODULE OpusDurationProofs -------------------------
(***************************************************************************)
(* opus_duration() agrees with RFC 6716 for every first and second byte.   *)
(***************************************************************************)
EXTENDS OpusDuration, TLAPS

LEMMA PowerOfTwo == 2^0 = 1 /\ 2^1 = 2 /\ 2^2 = 4 /\ 2^3 = 8
  BY SMT

(* The rows of the table. *)
LEMMA Rows ==
  /\ Silk[1] = 480 /\ Silk[2] = 960 /\ Silk[3] = 1920 /\ Silk[4] = 2880
  /\ Hybrid[1] = 480 /\ Hybrid[2] = 960 /\ Hybrid[3] = 480 /\ Hybrid[4] = 960
  /\ Celt[1] = 120 /\ Celt[2] = 240 /\ Celt[3] = 480 /\ Celt[4] = 960
  BY SMT DEF Silk, Hybrid, Celt

LEMMA TocParts ==
  ASSUME NEW toc \in Byte
  PROVE  toc_config(toc) \in 0..31 /\ toc_count(toc) \in 0..3
  BY SMT DEF Byte, toc_config, toc_count

(* The frame size of every configuration is the one of the table.          *)
LEMMA FrameSizeIsTable ==
  ASSUME NEW config \in 0..31
  PROVE  /\ frame_size(config) = TableSize(config)
         /\ frame_size(config) \in {120, 240, 480, 960, 1920, 2880}
<1>1. config % 4 = 0 \/ config % 4 = 1 \/ config % 4 = 2 \/ config % 4 = 3
  BY SMT
<1>2. CASE config < 12
  <2>1. TableSize(config) = Silk[(config % 4) + 1]
    BY <1>2 DEF TableSize
  <2>2. frame_size(config) = IF config % 4 = 0 THEN 480 ELSE 960 * (config % 4)
    BY <1>2, SMT DEF frame_size
  <2> QED
    BY <1>1, <2>1, <2>2, Rows, SMT
<1>3. CASE config \in 12..15
  <2>1. config = 12 \/ config = 13 \/ config = 14 \/ config = 15
    BY <1>3, SMT
  <2>2. TableSize(config) = Hybrid[(config % 4) + 1]
    BY <2>1, SMT DEF TableSize
  <2>3. frame_size(config) = 480 * 2^(config % 2)
    BY <2>1, SMT DEF frame_size
  <2>4. config % 4 = config - 12
    BY <2>1, SMT
  <2>5. config % 2 = IF config = 12 \/ config = 14 THEN 0 ELSE 1
    BY <2>1, SMT
  <2>6. 2^(config % 2) = IF config = 12 \/ config = 14 THEN 1 ELSE 2
    BY <2>5, PowerOfTwo
  <2>7. Hybrid[(config % 4) + 1] = IF config = 12 \/ config = 14 THEN 480 ELSE 960
    BY <2>1, <2>4, Rows, SMT
  <2> QED
    BY <2>1, <2>2, <2>3, <2>6, <2>7, SMT
<1>4. CASE config > 15
  <2>1. TableSize(config) = Celt[(config % 4) + 1]
    BY <1>4, SMT DEF TableSize
  <2>2. frame_size(config) = 120 * 2^(config % 4)
    BY <1>4, SMT DEF frame_size
  <2>3. CASE config % 4 = 0
    <3>1. 2^(config % 4) = 1
      BY <2>3, PowerOfTwo
    <3>2. Celt[(config % 4) + 1] = 120
      BY <2>3, Rows, SMT
    <3> QED
      BY <2>1, <2>2, <3>1, <3>2, SMT
  <2>4. CASE config % 4 = 1
    <3>1. 2^(config % 4) = 2
      BY <2>4, PowerOfTwo
    <3>2. Celt[(config % 4) + 1] = 240
      BY <2>4, Rows, SMT
    <3> QED
      BY <2>1, <2>2, <3>1, <3>2, SMT
  <2>5. CASE config % 4 = 2
    <3>1. 2^(config % 4) = 4
      BY <2>5, PowerOfTwo
    <3>2. Celt[(config % 4) + 1] = 480
      BY <2>5, Rows, SMT
    <3> QED
      BY <2>1, <2>2, <3>1, <3>2, SMT
  <2>6. CASE config % 4 = 3
    <3>1. 2^(config % 4) = 8
      BY <2>6, PowerOfTwo
    <3>2. Celt[(config % 4) + 1] = 960
      BY <2>6, Rows, SMT
    <3> QED
      BY <2>1, <2>2, <3>1, <3>2, SMT
  <2> QED
    BY <1>1, <2>3, <2>4, <2>5, <2>6
<1> QED
  BY <1>2, <1>3, <1>4, SMT

(* For every packet that obeys the RFC, the duration that demuxer.cc gives *)
(* it is the one of the RFC.                                               *)
THEOREM DurationIsRight ==
  ASSUME NEW toc \in Byte, NEW size \in Nat, NEW second \in Byte
  PROVE  RightWhenWellFormed(toc, size, second)
<1> DEFINE config == toc_config(toc)
<1>1. config \in 0..31 /\ toc_count(toc) \in 0..3
  BY TocParts
<1>2. frame_size(config) = TableSize(config)
  BY <1>1, FrameSizeIsTable
<1> HIDE DEF config
<1>3. opus_duration(toc, size, second) =
        CASE toc_count(toc) = 3 /\ size < 2  -> AVERROR_INVALIDDATA
          [] toc_count(toc) = 3 /\ size >= 2 -> frame_size(config) * (second % 64)
          [] toc_count(toc) \in {1, 2}       -> frame_size(config) * 2
          [] toc_count(toc) = 0              -> frame_size(config)
  BY DEF opus_duration, config
<1> QED
  BY <1>1, <1>2, <1>3, FrameSizeIsTable, SMT
     DEF RightWhenWellFormed, WellFormed, FrameCount, Byte, config

(* Whatever the bytes are, the duration is one that an int can hold, and   *)
(* only a packet whose frame count is missing counts as malformed.         *)
THEOREM DurationIsBounded ==
  ASSUME NEW toc \in Byte, NEW size \in Nat, NEW second \in Byte
  PROVE  BoundedForAll(toc, size, second)
<1>1. toc_config(toc) \in 0..31 /\ toc_count(toc) \in 0..3
  BY TocParts
<1>2. frame_size(toc_config(toc)) \in {120, 240, 480, 960, 1920, 2880}
  BY <1>1, FrameSizeIsTable
<1>3. second % 64 \in 0..63
  BY SMT DEF Byte
<1> DEFINE f == frame_size(toc_config(toc))
           n == second % 64
<1>4. 0 <= f * n /\ f * n <= 63 * 2880
  BY <1>2, <1>3, SMT
<1>5. f * 2 <= 2 * 2880 /\ f * 2 >= 0 /\ f <= 2880 /\ f >= 0
  BY <1>2, SMT
<1>6. opus_duration(toc, size, second) =
        CASE toc_count(toc) = 3 /\ size < 2  -> AVERROR_INVALIDDATA
          [] toc_count(toc) = 3 /\ size >= 2 -> f * n
          [] toc_count(toc) \in {1, 2}       -> f * 2
          [] toc_count(toc) = 0              -> f
  BY DEF opus_duration
<1>7. f \in Int /\ f * n \in Int /\ f * 2 \in Int
  BY <1>2, <1>3, SMT
<1> DEFINE product == f * n
           double  == f * 2
<1> HIDE DEF f, product, double
<1>8. CASE toc_count(toc) = 3 /\ size < 2
  <2>1. opus_duration(toc, size, second) = -1
    BY <1>6, <1>8 DEF AVERROR_INVALIDDATA
  <2> QED
    BY <1>8, <2>1, SMT DEF BoundedForAll
<1>9. CASE toc_count(toc) = 3 /\ size >= 2
  <2>1. opus_duration(toc, size, second) = product
    BY <1>6, <1>9, SMT DEF product
  <2>2. product >= 0 /\ product <= 63 * 2880 /\ product \in Int
    BY <1>4, <1>7 DEF product
  <2> QED
    BY <1>9, <2>1, <2>2, SMT DEF BoundedForAll
<1>10. CASE toc_count(toc) \in {1, 2}
  <2>1. opus_duration(toc, size, second) = double
    BY <1>6, <1>10, SMT DEF double
  <2>2. double >= 0 /\ double <= 2 * 2880 /\ double \in Int
    BY <1>5, <1>7 DEF double
  <2> QED
    BY <1>10, <2>1, <2>2, SMT DEF BoundedForAll
<1>11. CASE toc_count(toc) = 0
  <2>1. opus_duration(toc, size, second) = f
    BY <1>6, <1>11, SMT
  <2> QED
    BY <1>5, <1>7, <1>11, <2>1, SMT DEF BoundedForAll
<1> QED
  BY <1>1, <1>8, <1>9, <1>10, <1>11, SMT
=============================================================================
