----------------------------- MODULE MCPortPool -----------------------------
(* Instances of PortPool for TLC: MAX_RTP_PORT is odd, so that its last    *)
(* port belongs to no pair.                                                *)
EXTENDS PortPool
=============================================================================
