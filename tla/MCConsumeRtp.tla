---------------------------- MODULE MCConsumeRtp ----------------------------
(* Instances of ConsumeRtp for TLC.  The stream starts before zero, as     *)
(* some encoders make it; a 5 ms frame is followed by a shorter one, and   *)
(* the sender is silent before the last.                                   *)
EXTENDS ConsumeRtp

MCStream == {[pts |-> -2, dur |-> 2], [pts |-> 0, dur |-> 1], [pts |-> 1, dur |-> 2],
             [pts |-> 4, dur |-> 2]}
=============================================================================
