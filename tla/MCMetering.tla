----------------------------- MODULE MCMetering -----------------------------
(* Constants of Metering for TLC. *)
EXTENDS Metering

OneTwo == {1, 2}
One == {1}
=============================================================================
