--------------------------- MODULE MCCurveClient ---------------------------
(* Small instances of CurveClient. *)
EXTENDS CurveClient

MCGlobal ==
  [initial_virtual_token_reserves |-> 8, initial_real_token_reserves |-> 5,
   token_total_supply |-> 16, pool_migration_fee |-> 1,
   buyback_basis_points |-> 5000, creator_fee_configurable |-> FALSE]

TierFees(p, c) == [lp_fee_bps |-> 20, protocol_fee_bps |-> p, creator_fee_bps |-> c]

MCFeeConfig ==
  [flat_fees |-> TierFees(500, 300),
   fee_tiers |-> <<[threshold |-> 0, fees |-> TierFees(1200, 900)],
                   [threshold |-> 20, fees |-> TierFees(700, 0)]>>,
   stable_fee_tiers |-> <<[threshold |-> 0, fees |-> TierFees(1000, 700)]>>,
   exotic_flat_fees |-> NoFees]

MCAmounts == {4, 10}

MCConfigurableGlobal == [MCGlobal EXCEPT !.creator_fee_configurable = TRUE]

(* On a curve that starts at 8 quote, with a creator rate of its own and with *)
(* U64_MAX = 17, the cost of 5 tokens wraps (19) once the first unit is paid  *)
(* in, and that of 3 (7) once a slippage of 200% is added.                    *)
MCWrapAmounts == {3, 5}
=============================================================================
