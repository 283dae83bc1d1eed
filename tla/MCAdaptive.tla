----------------------------- MODULE MCAdaptive -----------------------------
(* Adaptive for TLC: short counters and a shallow queue. *)
EXTENDS Adaptive
=============================================================================
