-------------------------- MODULE MCProducerPacing --------------------------
(* An instance of ProducerPacing for TLC: bursts, packets that arrive in   *)
(* real time, a frame and a half late, and after a pause longer than       *)
(* MAX_FUTURE.                                                             *)
EXTENDS ProducerPacing

MCWaits == {1, 20000, 31337, 130000}
MCOversleeps == {0, 750}
=============================================================================
