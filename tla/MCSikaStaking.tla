--------------------------- MODULE MCSikaStaking ---------------------------
(***************************************************************************)
(* Model checking of SikaStaking.                                          *)
(***************************************************************************)
EXTENDS SikaStaking, TLC

CONSTANTS ama, kofi, esi

(* Two stakers, and a trader who can buy RAM once: enough for a fee that   *)
(* reaches the pool.                                                       *)
Means == (ama :> 1) @@ (kofi :> 0) @@ (esi :> 6)
UnitStakes == {<<1, 0>>}
(* One moves her stake between its parts, the other has undelegatebw put a *)
(* stake of another token in place and takes it back.                      *)
MixedUnstakes ==
    (ama :> {<<0, 1, SIKA>>, <<1, -1, SIKA>>})
    @@ (kofi :> {<<-1, 0, "CUSD">>, <<1, 0, "CUSD">>})
=============================================================================
