----------------------------- MODULE AudioSink -----------------------------
(***************************************************************************)
(* What consumeRtp promises its caller, without threads or queues.  The    *)
(* audio is a sequence of frames, each of which repeats the frame before   *)
(* it or begins after its end.  They are handed to onAudioData one by one, *)
(* in order and at most once.  Once the audio has ended nothing is added   *)
(* to it, and done() settles when nothing of it is left to hand over.      *)
(*                                                                         *)
(* Two failures are excused: a packet that cannot be decoded may put the   *)
(* next frames out of order, and after onAudioData has thrown an exception *)
(* frames may be thrown away.                                              *)
(***************************************************************************)
EXTENDS Integers, Sequences

CONSTANT Frame

VARIABLES frames,     \* the audio so far
          taken,      \* how many of the frames are dealt with
          delivered,  \* the frames onAudioData was called with
          phase,      \* "open", "ended" or "done"
          excuses     \* the failures that have happened

vars == <<frames, taken, delivered, phase, excuses>>

Init == /\ frames = <<>>
        /\ taken = 0
        /\ delivered = <<>>
        /\ phase = "open"
        /\ excuses = {}

(* Frame b may come after frame a. *)
After(b, a) == b = a \/ a.pts + a.dur <= b.pts

Extend == /\ phase = "open"
          /\ Len(frames') = Len(frames) + 1
          /\ LET b == frames'[Len(frames')]
             IN /\ b \in Frame
                /\ frames' = Append(frames, b)
                /\ \/ frames = <<>> \/ "decode" \in excuses
                   \/ After(b, frames[Len(frames)])
          /\ UNCHANGED <<taken, delivered, phase, excuses>>

Deliver == /\ phase # "done" /\ taken < Len(frames)
           /\ taken' = taken + 1
           /\ \/ /\ delivered' = Append(delivered, frames[taken + 1])
                 /\ excuses' \in {excuses, excuses \cup {"throw"}}
              \/ /\ "throw" \in excuses
                 /\ UNCHANGED <<delivered, excuses>>
           /\ UNCHANGED <<frames, phase>>

CannotDecode == /\ excuses' = excuses \cup {"decode"}
                /\ UNCHANGED <<frames, taken, delivered, phase>>

End == /\ phase = "open"
       /\ phase' = "ended"
       /\ UNCHANGED <<frames, taken, delivered, excuses>>

Finish == /\ phase = "ended" /\ taken = Len(frames)
          /\ phase' = "done"
          /\ UNCHANGED <<frames, taken, delivered, excuses>>

Next == Extend \/ Deliver \/ CannotDecode \/ End \/ Finish

Spec == Init /\ [][Next]_vars
=============================================================================
