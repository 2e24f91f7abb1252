----------------------------- MODULE MCSikaPay -----------------------------
(***************************************************************************)
(* SikaPay for TLC: producers are interchangeable.                         *)
(***************************************************************************)
EXTENDS SikaPay, TLC

Symmetry == Permutations(BPs)

(* Stakes below zero cast votes below zero (update_votes).                 *)
VotesOfEitherSign == {-1, 2}

(* Once no refill is left, nothing depends on the age of the last one.      *)
RefillAge == IF total_minted < MaxMinted THEN since_fill ELSE 0

PayView ==
    <<producers, total_weight, bucketVars, total_minted, RefillAge, year, vestglb, vestVars, issueVars>>
=============================================================================
