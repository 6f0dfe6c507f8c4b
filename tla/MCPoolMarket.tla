---------------------------- MODULE MCPoolMarket ----------------------------
(* A small instance of PoolMarket: a boosted pool. *)
EXTENDS PoolMarket

MCGlobal ==
  [initial_virtual_token_reserves |-> 8, initial_real_token_reserves |-> 5,
   token_total_supply |-> 16, pool_migration_fee |-> 1,
   buyback_basis_points |-> 5000, creator_fee_configurable |-> FALSE]

MCAmmGlobal == [creator_fee_configurable |-> FALSE, buyback_basis_points |-> 5000]

TierFees(lp, p, c) == [lp_fee_bps |-> lp, protocol_fee_bps |-> p, creator_fee_bps |-> c]

MCFeeConfig ==
  [flat_fees |-> TierFees(20, 500, 300),
   fee_tiers |-> <<[threshold |-> 0, fees |-> TierFees(20, 3000, 900)],
                   [threshold |-> 20, fees |-> TierFees(20, 700, 0)]>>,
   stable_fee_tiers |-> <<>>,
   exotic_flat_fees |-> NoFees]

MCCompletedCurve ==
  [virtual_token_reserves |-> 4, virtual_quote_reserves |-> 16,
   real_token_reserves |-> 0, real_quote_reserves |-> 9,
   token_total_supply |-> 16, complete |-> TRUE, creator |-> "creator",
   is_mayhem_mode |-> FALSE, is_cashback_coin |-> FALSE, quote_mint |-> "default",
   creator_fee_bps |-> 0, creator_fee |-> 0, protocol_fees |-> 0,
   post_complete_base_out |-> 3, post_complete_quote_in |-> 2]

=============================================================================
