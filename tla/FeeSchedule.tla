---------------------------- MODULE FeeSchedule ----------------------------
(***************************************************************************)
(* Which basis points a trade pays: src/math/fees.rs.  A schedule is       *)
(* picked by the quote mint and, for SOL-like and USDC quotes, by the      *)
(* market cap; the coin's own creator rate replaces the schedule's while   *)
(* the global gate is on.                                                  *)
(***************************************************************************)
EXTENDS QuoteMath, Sequences

DEFAULT_KEY == "default"                \* Pubkey::default()
NATIVE_MINT == "wSOL"
NATIVE_MINT_2022 == "wSOL2022"
USDC_MINT == "USDC"

Fees == [lp_fee_bps : Nat, protocol_fee_bps : Nat, creator_fee_bps : Nat]
NoFees == [lp_fee_bps |-> 0, protocol_fee_bps |-> 0, creator_fee_bps |-> 0]
FeeTier == [threshold : Nat, fees : Fees]
FeeConfigs == [flat_fees : Fees, fee_tiers : Seq(FeeTier),
               stable_fee_tiers : Seq(FeeTier), exotic_flat_fees : Fees]

FeeResult(fees) == [err |-> OK, fees |-> fees]
FeeError(e) == [err |-> e, fees |-> NoFees]

IsSolLikeQuoteMint(quote_mint) ==
  quote_mint \in {DEFAULT_KEY, NATIVE_MINT, NATIVE_MINT_2022}

ResolveQuoteMint(quote_mint) ==
  IF quote_mint = DEFAULT_KEY THEN NATIVE_MINT ELSE quote_mint

(* Both market caps: quote reserve * supply / base reserve. *)
MarketCap(supply, quote_reserve, base_reserve) ==
  (quote_reserve * supply) \div base_reserve

(* The last tier, in table order, whose threshold is reached; the first when *)
(* the market cap is below the first threshold.                              *)
CalculateFeeTier(tiers, market_cap) ==
  LET reached == {i \in DOMAIN tiers : tiers[i].threshold <= market_cap}
  IN  IF tiers = <<>> THEN FeeError("EmptyFeeTiers")
      ELSE IF market_cap < tiers[1].threshold THEN FeeResult(tiers[1].fees)
      ELSE FeeResult(tiers[CHOOSE i \in reached : \A j \in reached : j <= i].fees)

ConfiguredCreatorFeeBps(gate_on, stored_bps, schedule_bps) ==
  IF gate_on /\ stored_bps # 0 THEN stored_bps ELSE schedule_bps

FeesForQuoteMint(cfg, is_pump_pool, market_cap, quote_mint) ==
  IF ~is_pump_pool THEN FeeResult(cfg.flat_fees)
  ELSE IF IsSolLikeQuoteMint(quote_mint) THEN CalculateFeeTier(cfg.fee_tiers, market_cap)
  ELSE IF quote_mint = USDC_MINT THEN CalculateFeeTier(cfg.stable_fee_tiers, market_cap)
  ELSE FeeResult(IF cfg.exotic_flat_fees = NoFees THEN cfg.flat_fees
                                                  ELSE cfg.exotic_flat_fees)

(* The bps of a trade (the lp component is unused on a curve). *)
ComputeFeeBps(gate_on, cfg, is_pump_pool, quote_mint, stored_bps, market_cap) ==
  [FeesForQuoteMint(cfg, is_pump_pool, market_cap, quote_mint)
     EXCEPT !.fees.creator_fee_bps = ConfiguredCreatorFeeBps(gate_on, stored_bps, @)]

=============================================================================
