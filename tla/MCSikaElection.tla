--------------------------- MODULE MCSikaElection ---------------------------
(***************************************************************************)
(* Model checking of SikaElection.                                         *)
(***************************************************************************)
EXTENDS SikaElection

(* Staking and unstaking of one SIKA; a row may be opened by either.       *)
UnitDeltas == {-1, 1}

(* A Representative may owe stake, other accounts may have some.           *)
UnitStakes == [a \in Accounts |-> IF a \in Reps THEN {-1, 0} ELSE {0, 1}]

SmallStakes == [a \in Accounts |-> {0, 1}]

PowersOfTwo == [y \in 0..MaxYear |-> 2^y]

(* Nothing that is checked depends on the bonus status, the compliance     *)
(* histories, the schedule or the recorded sum, nor on the weight that an  *)
(* account with neither ballot nor Representative has from its last vote.  *)
Cast ==
    [a \in Accounts |->
       IF voters[a].proxy = NoProxy /\ voters[a].producers = {}
       THEN [voters[a] EXCEPT !.last_vote_weight = 0] ELSE voters[a]]

ElectionView == <<producers, Cast, total_votes, year, shorted>>
=============================================================================
