------------------------------- MODULE MCRing -------------------------------
(* Ring for TLC: small instances. *)
EXTENDS Ring
=============================================================================
