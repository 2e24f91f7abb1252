---------------------------- MODULE MCSikaTreas ----------------------------
(***************************************************************************)
(* Model checking of SikaTreas.                                            *)
(***************************************************************************)
EXTENDS SikaTreas, TLC

CONSTANTS ama, gh, us

Shares == ama :> 1
Settings ==
    {[params |-> [sweep_slice_bps |-> 10000, cost_recovery_cusd |-> 2,
                  max_subsidy_per_market_bps |-> 10000, fee_to_yield_bps |-> 5000],
      reserve_gold_bps |-> 5000]}
MenuChoices == {{"CGHS", "CUSD"}}
=============================================================================
