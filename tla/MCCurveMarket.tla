--------------------------- MODULE MCCurveMarket ---------------------------
(* Small instances of CurveMarket. *)
EXTENDS CurveMarket

MCGlobal ==
  [initial_virtual_token_reserves |-> 16, initial_real_token_reserves |-> 10,
   token_total_supply |-> 20, pool_migration_fee |-> 2,
   buyback_basis_points |-> 5000, creator_fee_configurable |-> TRUE]

TierFees(p, c) == [lp_fee_bps |-> 20, protocol_fee_bps |-> p, creator_fee_bps |-> c]

MCFeeConfig ==
  [flat_fees |-> TierFees(500, 300),
   fee_tiers |-> <<[threshold |-> 0, fees |-> TierFees(1200, 900)],
                   [threshold |-> 12, fees |-> TierFees(300, 0)]>>,
   stable_fee_tiers |-> <<[threshold |-> 0, fees |-> TierFees(1000, 2000)]>>,
   exotic_flat_fees |-> NoFees]

MCAmounts == {1, 4, 12, 16}
=============================================================================
