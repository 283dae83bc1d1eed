--------------------------- MODULE MCRegistration ---------------------------
(* Registration for TLC: small instances. *)
EXTENDS Registration, TLC

\* Descriptors are only compared with each other.
FdSymmetry == Permutations(Fds)
=============================================================================
