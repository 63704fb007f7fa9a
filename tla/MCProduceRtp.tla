---------------------------- MODULE MCProduceRtp ----------------------------
(* Instances of ProduceRtp for TLC. *)
EXTENDS ProduceRtp

MCInitialSettings == [s \in Settings |-> 0]

(* One setter, called with the value that means "auto". *)
MCSettingValues  == [s \in Settings |-> IF s = "SET_ENCODER_BITRATE" THEN {0} ELSE {}]
NoSettingValues  == [s \in Settings |-> {}]
=============================================================================
