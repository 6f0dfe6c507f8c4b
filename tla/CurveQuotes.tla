---------------------------- MODULE CurveQuotes ----------------------------
(***************************************************************************)
(* The bonding-curve quoters: src/math/bonding_curve.rs and the            *)
(* *_bonding_curve_* methods of src/sdk/mod.rs.  A curve c is a record     *)
(* with the fields of the BondingCurve account the quoters read; Global    *)
(* and FeeConfig are the accounts of the same names.                       *)
(***************************************************************************)
EXTENDS FeeSchedule

CONSTANTS Global, FeeConfig,
  Pubkey               \* the addresses that creators and mints have

ASSUME PubkeyAssumption == {DEFAULT_KEY, NATIVE_MINT} \subseteq Pubkey

ASSUME GlobalAssumption ==
  /\ Global.initial_virtual_token_reserves \in Nat
  /\ Global.initial_real_token_reserves \in Nat
  /\ Global.token_total_supply \in Nat
  /\ Global.pool_migration_fee \in Nat
  /\ Global.buyback_basis_points \in 0 .. BPS
  /\ Global.creator_fee_configurable \in BOOLEAN

ASSUME FeeConfigAssumption == FeeConfig \in FeeConfigs

BondingCurve ==
  [virtual_token_reserves : Nat, virtual_quote_reserves : Nat,
   real_token_reserves : Nat, real_quote_reserves : Nat,
   token_total_supply : Nat, complete : BOOLEAN, creator : Pubkey,
   is_mayhem_mode : BOOLEAN, is_cashback_coin : BOOLEAN, quote_mint : Pubkey,
   creator_fee_bps : Nat, creator_fee : Nat, protocol_fees : Nat,
   post_complete_base_out : Nat, post_complete_quote_in : Nat]

-----------------------------------------------------------------------------
(* Fees on a curve trade *)

CurveTierSupply(c, mint_supply) ==
  IF c.is_mayhem_mode THEN c.token_total_supply ELSE mint_supply

CurveFeeBps(c, mint_supply) ==
  LET market_cap == MarketCap(CurveTierSupply(c, mint_supply),
                              c.virtual_quote_reserves, c.virtual_token_reserves)
  IN  [ComputeFeeBps(Global.creator_fee_configurable, FeeConfig, TRUE, c.quote_mint,
                     c.creator_fee_bps, market_cap)
         EXCEPT !.fees.creator_fee_bps = IF c.creator = DEFAULT_KEY THEN 0 ELSE @]

FeeOn(amount, fees) ==
  FeeAmount(amount, fees.protocol_fee_bps) + FeeAmount(amount, fees.creator_fee_bps)

(* Mutant: the creator's fee is forgotten. *)
WithProtocolFee(amount, fees) == amount + FeeAmount(amount, fees.protocol_fee_bps)

WithFees(amount, fees) == amount + FeeOn(amount, fees)

CurveBps(fees) == <<fees.protocol_fee_bps, fees.creator_fee_bps, 0>>

-----------------------------------------------------------------------------
(* v2 quoters *)

(* Mutant: the whole net is swapped, not the net less one. *)
BuyTokensExactInGenerous(c, mint_supply, sol_amount) ==
  LET bps   == CurveFeeBps(c, mint_supply)
      split == ExactInFeeAmounts(sol_amount, CurveBps(bps.fees))
  IN  IF sol_amount = 0 \/ c.virtual_token_reserves = 0 \/ split.err # OK THEN Ok(0)
      ELSE SwapExactInput(split.net, c.virtual_quote_reserves, c.virtual_token_reserves)

BuyTokensExactIn(c, mint_supply, sol_amount) ==
  LET bps   == CurveFeeBps(c, mint_supply)
      split == ExactInFeeAmounts(sol_amount, CurveBps(bps.fees))
  IN  IF sol_amount = 0 \/ c.virtual_token_reserves = 0 THEN Ok(0)
      ELSE IF c.virtual_quote_reserves = 0 THEN Err("EmptyReserves")
      ELSE IF bps.err # OK THEN Err(bps.err)
      ELSE IF split.err # OK THEN Ok(0)
      ELSE SwapExactInput(split.net - 1, c.virtual_quote_reserves, c.virtual_token_reserves)

BuyTokenAmountFromSolAmount(c, mint_supply, sol_amount) ==
  LET r == BuyTokensExactIn(c, mint_supply, sol_amount)
  IN  [r EXCEPT !.val = Least(@, c.real_token_reserves)]

BuySolAmountFromTokenAmount(c, mint_supply, token_amount) ==
  LET capped == Least(token_amount, c.real_token_reserves)
      bps    == CurveFeeBps(c, mint_supply)
      cost   == (capped * c.virtual_quote_reserves)
                  \div (c.virtual_token_reserves - capped) + 1
  IN  IF token_amount = 0 \/ c.virtual_token_reserves = 0 THEN Ok(0)
      ELSE IF capped >= c.virtual_token_reserves THEN Err("DepletedBondingCurve")
      ELSE IF bps.err # OK THEN Err(bps.err)
      ELSE Ok(AsU64(WithFees(cost, bps.fees)))

SellSolAmountFromTokenAmount(c, mint_supply, token_amount) ==
  LET bps == CurveFeeBps(c, mint_supply)
      out == (token_amount * c.virtual_quote_reserves)
               \div (c.virtual_token_reserves + token_amount)
  IN  IF token_amount = 0 \/ c.virtual_token_reserves = 0 THEN Ok(0)
      ELSE IF bps.err # OK THEN Err(bps.err)
      ELSE IF out < FeeOn(out, bps.fees) THEN Err("FeesExceedOutput")
      ELSE Ok(AsU64(out - FeeOn(out, bps.fees)))

-----------------------------------------------------------------------------
(* v3 quoters: the post-completion leg *)

(* Mutant: a complete curve still trades. *)
CurveOpenIgnoringComplete(c, allow_cashback) == c.is_cashback_coin => allow_cashback

CurveOpen(c, allow_cashback) == ~c.complete /\ (c.is_cashback_coin => allow_cashback)

(* Mutant: the cost is rounded down. *)
BuyQuoteRoundedDown(c, amount) ==
  IF amount = 0 THEN Err("ZeroAmount")
  ELSE IF c.virtual_token_reserves <= amount THEN Err("DepletedBondingCurve")
  ELSE Ok((amount * c.virtual_quote_reserves) \div (c.virtual_token_reserves - amount))

BuyQuote(c, amount) ==
  LET cost == (amount * c.virtual_quote_reserves)
                \div (c.virtual_token_reserves - amount) + 1
  IN  IF amount = 0 THEN Err("ZeroAmount")
      ELSE IF c.virtual_token_reserves <= amount THEN Err("DepletedBondingCurve")
      ELSE IF cost \notin U64 THEN Err("MathOverflow")
      ELSE Ok(cost)

(* The reserves migrate_v2 would deposit once a leg of curve_tokens for     *)
(* curve_net_quote completes the curve.                                     *)
PoolToBe(c, base_ata_amount, curve_tokens, curve_net_quote) ==
  LET raised == c.real_quote_reserves + curve_net_quote
      fee    == IF IsSolLikeQuoteMint(c.quote_mint) THEN Global.pool_migration_fee ELSE 0
      result(e) == [err |-> e, base |-> base_ata_amount - curve_tokens, quote |-> raised - fee]
  IN  IF base_ata_amount < curve_tokens \/ raised > U64_MAX \/ raised < fee
        THEN result("MathOverflow")
      ELSE IF base_ata_amount = curve_tokens \/ raised = fee
        THEN result("EmptyReserves")
      ELSE result(OK)

(* What `budget` buys from the pool-to-be; base_out = 0 is the code's None. *)
PostCompleteLegExactQuote(pool, fees, budget, whole_budget) ==
  LET split    == ExactInFeeAmounts(budget, CurveBps(fees))
      paid     == split.fees[1] + split.fees[2]
      quote_in == IF whole_budget THEN budget - paid ELSE split.net
      out      == SwapExactInput(quote_in - 1, pool.quote, pool.base)
      nothing  == [err |-> OK, base_out |-> 0, quote_in |-> 0, fee |-> 0, creator_fee |-> 0]
  IN  IF (budget * BPS) \div (BPS + (fees.protocol_fee_bps + fees.creator_fee_bps)) < 2
        THEN nothing
      ELSE IF split.err # OK THEN [nothing EXCEPT !.err = split.err]
      ELSE IF out.val = 0 THEN nothing
      ELSE [err |-> OK, base_out |-> out.val, quote_in |-> quote_in,
            fee |-> split.fees[1], creator_fee |-> split.fees[2]]

BuyV3SolAmountFromTokenAmount(c, mint_supply, base_ata_amount, token_amount) ==
  LET remaining == c.real_token_reserves
      bps       == CurveFeeBps(c, mint_supply)
      cost      == BuyQuote(c, remaining)
      pool      == PoolToBe(c, base_ata_amount, remaining, cost.val)
      past      == token_amount - remaining
      quote_in  == CeilDiv(pool.quote * past, pool.base - past)
      total     == WithFees(cost.val, bps.fees) + WithFees(quote_in, bps.fees)
  IN  IF ~CurveOpen(c, FALSE) THEN Err("VenueNotSupported")
      ELSE IF token_amount <= remaining \/ c.is_mayhem_mode
        THEN BuySolAmountFromTokenAmount(c, mint_supply, token_amount)
      ELSE IF bps.err # OK THEN Err(bps.err)
      ELSE IF cost.err # OK THEN Err(cost.err)
      ELSE IF pool.err # OK THEN Err(pool.err)
      ELSE IF pool.base <= past THEN Err("BaseOutExceedsReserve")
      ELSE IF quote_in \notin U64 \/ total \notin U64 THEN Err("MathOverflow")
      ELSE Ok(total)

(* <<tokens, quote charged>> of buy_exact_quote_in_v3. *)
BuyV3TokenAmountFromSolAmount(c, mint_supply, base_ata_amount, sol_amount) ==
  LET result(e, t, q) == [err |-> e, tokens |-> t, charged |-> q]
      tokens      == BuyTokensExactIn(c, mint_supply, sol_amount)
      bps         == CurveFeeBps(c, mint_supply)
      split       == ExactInFeeAmounts(sol_amount, CurveBps(bps.fees))
      remaining   == c.real_token_reserves
      net         == BuyQuote(c, remaining)
      curve_total == WithFees(net.val, bps.fees)
      budget_left == sol_amount - curve_total
      pool        == PoolToBe(c, base_ata_amount, remaining, net.val)
      leg         == PostCompleteLegExactQuote(pool, bps.fees, budget_left, FALSE)
  IN  IF ~CurveOpen(c, FALSE) THEN result("VenueNotSupported", 0, 0)
      ELSE IF tokens.err # OK THEN result(tokens.err, 0, 0)
      ELSE IF tokens.val = 0 THEN result(OK, 0, 0)
      ELSE IF tokens.val <= remaining
        THEN result(OK, tokens.val, split.net + (split.fees[1] + split.fees[2]))
      ELSE IF net.err # OK THEN result(net.err, 0, 0)
      ELSE IF curve_total \notin U64 \/ budget_left < 0 THEN result("MathOverflow", 0, 0)
      ELSE IF budget_left = 0 \/ c.is_mayhem_mode THEN result(OK, remaining, curve_total)
      ELSE IF pool.err # OK THEN result(pool.err, 0, 0)
      ELSE IF leg.err # OK THEN result(leg.err, 0, 0)
      ELSE result(OK, remaining + leg.base_out,
                  curve_total + (leg.quote_in + leg.fee + leg.creator_fee))

-----------------------------------------------------------------------------
(* Quotes with slippage *)

Quote(e, amount, min_out, input_amount_used, max_input) ==
  [err |-> e, amount |-> amount, min_out |-> min_out,
   input_amount_used |-> input_amount_used, max_input |-> max_input]

NoQuote(e) == Quote(e, 0, 0, 0, 0)

BuyQuoteBondingCurveSolIn(c, mint_supply, sol_amount, slippage_bps) ==
  LET out  == BuyTokenAmountFromSolAmount(c, mint_supply, sol_amount)
      used == IF out.val > 0 /\ out.val >= c.real_token_reserves
                THEN BuySolAmountFromTokenAmount(c, mint_supply, out.val)
                ELSE Ok(sol_amount)
  IN  IF out.err # OK THEN NoQuote(out.err)
      ELSE IF used.err # OK THEN NoQuote(used.err)
      ELSE Quote(OK, out.val, SubSlippage(out.val, slippage_bps), used.val, sol_amount)

BuyQuoteBondingCurveTokenOut(c, mint_supply, token_amount, slippage_bps) ==
  LET cost   == BuySolAmountFromTokenAmount(c, mint_supply, token_amount)
      tokens == Least(token_amount, c.real_token_reserves)
  IN  IF cost.err # OK THEN NoQuote(cost.err)
      ELSE Quote(OK, cost.val, tokens, tokens, AddSlippage(cost.val, slippage_bps))

(* Mutant: the whole budget is reported as used. *)
ExactInQuoteWholeBudget(r, sol_amount, slippage_bps) ==
  IF r.err # OK THEN NoQuote(r.err)
  ELSE Quote(OK, r.tokens, SubSlippage(r.tokens, slippage_bps), sol_amount, sol_amount)

(* The Quote of an exact-in result r. *)
ExactInQuote(r, sol_amount, slippage_bps) ==
  IF r.err # OK THEN NoQuote(r.err)
  ELSE Quote(OK, r.tokens, SubSlippage(r.tokens, slippage_bps), r.charged, sol_amount)

BuyQuoteBondingCurveV3SolIn(c, mint_supply, base_ata_amount, sol_amount, slippage_bps) ==
  ExactInQuote(BuyV3TokenAmountFromSolAmount(c, mint_supply, base_ata_amount, sol_amount),
               sol_amount, slippage_bps)

BuyQuoteBondingCurveV3TokenOut(c, mint_supply, base_ata_amount, token_amount, slippage_bps) ==
  LET cost   == BuyV3SolAmountFromTokenAmount(c, mint_supply, base_ata_amount, token_amount)
      tokens == IF c.is_mayhem_mode THEN Least(token_amount, c.real_token_reserves)
                                    ELSE token_amount
  IN  IF cost.err # OK THEN NoQuote(cost.err)
      ELSE Quote(OK, cost.val, tokens, tokens, AddSlippage(cost.val, slippage_bps))

SellQuoteBondingCurve(c, mint_supply, token_amount, slippage_bps) ==
  LET out == SellSolAmountFromTokenAmount(c, mint_supply, token_amount)
  IN  IF out.err # OK THEN NoQuote(out.err)
      ELSE Quote(OK, out.val, SubSlippage(out.val, slippage_bps), token_amount, token_amount)

(* Mutant: the tokens the completing buy took are forgotten. *)
EstimatedReservesWithoutLeg(c) ==
  [err |-> OK,
   base |-> c.token_total_supply - Global.initial_real_token_reserves,
   quote |-> c.real_quote_reserves + c.post_complete_quote_in
               - (IF IsSolLikeQuoteMint(c.quote_mint) THEN Global.pool_migration_fee ELSE 0)]

(* The pool migrate_v2 opens for a completed curve, from the curve alone. *)
EstimatedReserves(c) ==
  LET base   == c.token_total_supply - Global.initial_real_token_reserves
                  - c.post_complete_base_out
      fee    == IF IsSolLikeQuoteMint(c.quote_mint) THEN Global.pool_migration_fee ELSE 0
      raised == c.real_quote_reserves + c.post_complete_quote_in
  IN  IF base <= 0 \/ raised <= fee \/ raised > U64_MAX
        THEN [err |-> "EmptyReserves", base |-> 0, quote |-> 0]
        ELSE [err |-> OK, base |-> base, quote |-> raised - fee]

=============================================================================
