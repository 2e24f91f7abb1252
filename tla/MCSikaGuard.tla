----------------------------- MODULE MCSikaGuard -----------------------------
(***************************************************************************)
(* Model checking of SikaGuard: accounts are interchangeable.              *)
(***************************************************************************)
EXTENDS SikaGuard, TLC

\* As 27, 18, 9: every round drops a candidate, and round 3 fills the seats.
Playoff == <<4, 3, 2>>

Symmetry == Permutations(Accounts)
=============================================================================
