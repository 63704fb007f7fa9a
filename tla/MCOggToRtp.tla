----------------------------- MODULE MCOggToRtp -----------------------------
(* Instances of OggToRtp for TLC: the first and the last stream start      *)
(* before zero, the second after it.  The function of OpusDuration is      *)
(* compared with its table for every pair of bytes.                        *)
EXTENDS OggToRtp, OpusDuration

MCFirstPts == [s \in Stream |-> IF s = 2 THEN 2 ELSE -s]

ASSUME OpusDurationChecked ==
    \A toc, second \in Byte, size \in 1..2 :
        /\ RightWhenWellFormed(toc, size, second)
        /\ BoundedForAll(toc, size, second)
=============================================================================
