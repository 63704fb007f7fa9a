---------------------------- MODULE OpusFraming ----------------------------
(***************************************************************************)
(* What a sequence of accepted API calls should sound like: the reference  *)
(* packetization that the encoder thread is compared with.  Nothing here   *)
(* is translated from the encoder's loop; frames are described by where    *)
(* they lie in the sample stream.                                          *)
(*                                                                         *)
(* A call is [msg, at]: the message that the encoder's queue accepted and  *)
(* the number of samples accepted up to and including it.  Samples are     *)
(* numbered 1, 2, ... in the order in which they were accepted.            *)
(***************************************************************************)
EXTENDS Integers, Sequences, FiniteSetsExt, SequencesExt

CONSTANTS FrameSize,        \* samples in a 20 ms frame
          InitialSettings   \* the encoder settings passed to produceRtp

ASSUME FrameSizeAssumption == FrameSize \in Nat \ {0}

FRAME_SIZE_OUTPUT == 960    \* 20 ms on the 48 kHz clock of Opus over RTP
OPUS_AUTO == -1000          \* opus_defines.h
Settings == {"SET_ENCODER_BITRATE", "SET_ENCODER_FEC",
             "SET_ENCODER_PACKET_LOSS_PERC"}

ASSUME SettingsAssumption == InitialSettings \in [Settings -> Int]

(* The value handed to opus_encoder_ctl when the encoder is created, and   *)
(* when a SET message is handled: only the bitrate has a default.          *)
StartSettings ==
    [InitialSettings EXCEPT !["SET_ENCODER_BITRATE"] = IF @ > 0 THEN @ ELSE 32000]
CtlValue(s, v) == IF s = "SET_ENCODER_BITRATE" /\ v <= 0 THEN OPUS_AUTO ELSE v

-----------------------------------------------------------------------------

Accepted(calls) == IF calls = <<>> THEN 0 ELSE Last(calls).at

IndicesOf(calls, type) == {k \in DOMAIN calls : calls[k].msg.type = type}

Cuts(calls) == {calls[k].at : k \in IndicesOf(calls, "FLUSH_OPUS_ENCODER")}

(* The segment of the sample after position s, and the end of a frame that *)
(* starts at s: a frame is full unless the segment ends first.             *)
SegmentStart(calls, s) == Max({0} \cup {c \in Cuts(calls) : c <= s})
FrameEnd(calls, s)     == Min({s + FrameSize} \cup {c \in Cuts(calls) : c > s})

(* The call that completes the frame from s, and the settings in force     *)
(* then: those of the last SET call before it.                             *)
ClosedBy(calls, s) ==
    LET e == FrameEnd(calls, s)
    IN Min({k \in DOMAIN calls :
              /\ calls[k].at >= e
              /\ e - s < FrameSize => calls[k].msg.type = "FLUSH_OPUS_ENCODER"})

SettingsAt(calls, k) ==
    [t \in Settings |->
        LET earlier == {j \in IndicesOf(calls, t) : j < k}
        IN IF earlier = {} THEN StartSettings[t]
           ELSE CtlValue(t, calls[Max(earlier)].msg.value)]

FrameAt(calls, s) ==
    [pts     |-> ((s - SegmentStart(calls, s)) \div FrameSize) * FRAME_SIZE_OUTPUT,
     samples |-> [i \in 1..(FrameEnd(calls, s) - s) |-> s + i],
     ctl     |-> SettingsAt(calls, ClosedBy(calls, s))]

(* A sequence of frames packetizes the calls when each of them starts      *)
(* where the one before it ends, and is complete: no call that comes later *)
(* can change it.  The packetization is whole when the calls do not        *)
(* complete another frame.                                                 *)
StartOf(frames, i) == IF i = 1 THEN 0 ELSE Last(frames[i - 1].samples)

Packetizes(frames, calls) ==
    \A i \in DOMAIN frames :
        LET s == StartOf(frames, i)
        IN /\ FrameEnd(calls, s) <= Accepted(calls)
           /\ frames[i] = FrameAt(calls, s)

PacketizesAll(frames, calls) ==
    /\ Packetizes(frames, calls)
    /\ FrameEnd(calls, StartOf(frames, Len(frames) + 1)) > Accepted(calls)

=============================================================================
