---------------------------- MODULE AudioStream ----------------------------
(***************************************************************************)
(* What produceRtp promises its caller, without threads or queues: audio   *)
(* that was accepted leaves in order, at most once, in frames of at most   *)
(* 20 ms that never mix two segments; once the stream is closed nothing    *)
(* more is accepted; once it is done nothing more is sent.                 *)
(***************************************************************************)
EXTENDS Integers, Sequences

CONSTANT FrameSize

VARIABLES accepted,  \* number of samples accepted
          cuts,      \* the ends of segments, as numbers of samples
          sent,      \* the frames sent, each a sequence of sample numbers
          phase      \* "open", "closed" or "done"

vars == <<accepted, cuts, sent, phase>>

Init == /\ accepted = 0
        /\ cuts = {}
        /\ sent = <<>>
        /\ phase = "open"

(* The last sample that was sent. *)
SentUpTo == IF sent = <<>> THEN 0
            ELSE LET frame == sent[Len(sent)] IN frame[Len(frame)]

Accept == /\ phase = "open"
          /\ accepted' \in Nat
          /\ accepted' > accepted
          /\ UNCHANGED <<cuts, sent, phase>>

Cut == /\ phase = "open"
       /\ cuts' = cuts \cup {accepted}
       /\ UNCHANGED <<accepted, sent, phase>>

Deliver == /\ phase # "done"
           /\ \E s \in SentUpTo..(accepted - 1) :
                \E e \in (s + 1)..accepted :
                    /\ e - s <= FrameSize
                    /\ \A c \in cuts : ~(s < c /\ c < e)
                    /\ sent' = Append(sent, [i \in 1..(e - s) |-> s + i])
           /\ UNCHANGED <<accepted, cuts, phase>>

Close == /\ phase = "open"
         /\ phase' = "closed"
         /\ UNCHANGED <<accepted, cuts, sent>>

Finish == /\ phase = "closed"
          /\ phase' = "done"
          /\ UNCHANGED <<accepted, cuts, sent>>

Next == Accept \/ Cut \/ Deliver \/ Close \/ Finish

Spec == Init /\ [][Next]_vars
=============================================================================
