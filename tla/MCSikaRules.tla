----------------------------- MODULE MCSikaRules -----------------------------
(***************************************************************************)
(* Model checking of SikaRules: producers are interchangeable.             *)
(***************************************************************************)
EXTENDS SikaRules, TLC

Symmetry == Permutations(BPs)
=============================================================================
