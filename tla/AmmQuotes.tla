----------------------------- MODULE AmmQuotes -----------------------------
(***************************************************************************)
(* The pool quoters: src/math/amm.rs, the *_amm_* and multi-hop methods of *)
(* src/sdk/mod.rs and the hop quoter of src/math/bonding_curve.rs.         *)
(*                                                                         *)
(* A pool p is a record with the fields of the Pool account the quoters    *)
(* read.  p.canonical stands for is_pump_pool: whether p.creator is the    *)
(* pool authority that pump derives from the base mint.                    *)
(***************************************************************************)
EXTENDS CurveQuotes

CONSTANTS
  AmmGlobal,       \* pump-amm's GlobalConfig: creator_fee_configurable and
                   \* buyback_basis_points
  AmmFeeConfig,    \* pump-amm's FeeConfig
  TOKEN_SUPPLY,    \* the fixed supply of a coin
  WHITELIST_PDA    \* Global.whitelist_pda, which never takes the leg

ASSUME AmmAssumption ==
  /\ AmmGlobal.creator_fee_configurable \in BOOLEAN
  /\ AmmGlobal.buyback_basis_points \in 0 .. BPS
  /\ AmmFeeConfig \in FeeConfigs
  /\ TOKEN_SUPPLY \in Nat

Pool ==
  [canonical : BOOLEAN, coin_creator : Pubkey, quote_mint : Pubkey,
   is_mayhem_mode : BOOLEAN, is_cashback_coin : BOOLEAN, creator_fee_bps : Nat,
   virtual_quote_reserves : Int, protocol_fees : Nat, creator_fees : Nat]

-----------------------------------------------------------------------------
(* Reserves *)

(* What the pool prices against: the vault plus boost less un-swept fees. *)
EffectiveQuoteReserve(p, quote_vault_balance) ==
  LET v == quote_vault_balance + p.virtual_quote_reserves
  IN  IF v \in U64 THEN Ok(v) ELSE Err("MathOverflow")

BUY_FLAG == 3
SELL_FLAG == 4

TradingEnabled(disable_flags, is_buy) ==
  (IF is_buy THEN BUY_FLAG ELSE SELL_FLAG) \notin disable_flags

FeeBucketsTotal(p) ==
  LET total == p.protocol_fees + p.creator_fees
  IN  IF total \in U64 THEN Ok(total) ELSE Err("MathOverflow")

(* What sales are paid out of: the vault less un-swept fees. *)
RealQuoteReserve(p, quote_vault_balance) ==
  LET buckets == FeeBucketsTotal(p)
  IN  IF buckets.err # OK \/ quote_vault_balance < buckets.val THEN Err("MathOverflow")
      ELSE Ok(quote_vault_balance - buckets.val)

FeeTierSupply(is_mayhem_mode, base_mint_supply) ==
  IF is_mayhem_mode THEN TOKEN_SUPPLY ELSE base_mint_supply

-----------------------------------------------------------------------------
(* AmmContext: what a quote is computed from *)

(* A live pool, whose reserves are its raw vault balances. *)
PoolContext(p, base_reserve, quote_vault_balance, base_mint_supply) ==
  LET effective == EffectiveQuoteReserve(p, quote_vault_balance)
      real      == RealQuoteReserve(p, quote_vault_balance)
  IN  [err |-> IF effective.err # OK THEN effective.err ELSE real.err,
       canonical |-> p.canonical, coin_creator |-> p.coin_creator,
       quote_mint |-> p.quote_mint, creator_fee_bps |-> p.creator_fee_bps,
       base_reserve |-> base_reserve, quote_reserve |-> effective.val,
       base_mint_supply |-> FeeTierSupply(p.is_mayhem_mode, base_mint_supply),
       real_quote_reserve |-> real.val]

(* The pool a completed curve will migrate to, assumed to have no boost. *)
CompleteCurveContext(c, base_mint_supply) ==
  LET reserves == EstimatedReserves(c)
  IN  [err |-> reserves.err,
       canonical |-> TRUE, coin_creator |-> c.creator,
       quote_mint |-> c.quote_mint, creator_fee_bps |-> c.creator_fee_bps,
       base_reserve |-> reserves.base, quote_reserve |-> reserves.quote,
       base_mint_supply |-> FeeTierSupply(c.is_mayhem_mode, base_mint_supply),
       real_quote_reserve |-> reserves.quote]

HasReserves(ctx) == ctx.base_reserve # 0 /\ ctx.quote_reserve # 0

(* compute_amm_fee_bps, with no creator slice on a creator-less coin. *)
AmmFeeBps(ctx) ==
  [ComputeFeeBps(AmmGlobal.creator_fee_configurable, AmmFeeConfig, ctx.canonical,
                 ctx.quote_mint, ctx.creator_fee_bps,
                 MarketCap(ctx.base_mint_supply, ctx.quote_reserve, ctx.base_reserve))
     EXCEPT !.fees.creator_fee_bps = IF ctx.coin_creator = DEFAULT_KEY THEN 0 ELSE @]

AmmBps(fees) == <<fees.lp_fee_bps, fees.protocol_fee_bps, fees.creator_fee_bps>>

(* A priced trade: raw quote moved against the reserves, tokens moved, the   *)
(* three fees <<lp, protocol, creator>>.                                     *)
Priced(raw, base, fees) == [err |-> OK, raw |-> raw, base |-> base, fees |-> fees]
NotPriced(e) == [err |-> e, raw |-> 0, base |-> 0, fees |-> <<0, 0, 0>>]

SumOf(fees) == fees[1] + fees[2] + fees[3]

-----------------------------------------------------------------------------
(* The three quoters *)

(* buy_quote_input: raw is the net the buyer pays besides the fees. *)
BuyQuoteInput(flags, ctx, quote_in) ==
  IF ~TradingEnabled(flags, TRUE) THEN NotPriced("TradingDisabled")
  ELSE IF ~HasReserves(ctx) THEN NotPriced("EmptyReserves")
  ELSE LET bps   == AmmFeeBps(ctx)
           split == ExactInFeeAmounts(quote_in, AmmBps(bps.fees))
           out   == SwapExactInput(split.net - 1, ctx.quote_reserve, ctx.base_reserve)
       IN  IF bps.err # OK THEN NotPriced(bps.err)
           ELSE IF split.err # OK THEN NotPriced(split.err)
           ELSE IF out.val = 0 THEN NotPriced("ZeroAmount")
           ELSE Priced(split.net, out.val, split.fees)

(* Mutant: the cost of the tokens is rounded down. *)
BuyBaseInputRoundedDown(flags, ctx, base_out) ==
  LET bps == AmmFeeBps(ctx)
      raw == (ctx.quote_reserve * base_out) \div (ctx.base_reserve - base_out)
  IN  IF ~TradingEnabled(flags, TRUE) \/ ~HasReserves(ctx) \/ bps.err # OK
         \/ base_out >= ctx.base_reserve THEN NotPriced("Refused")
      ELSE Priced(raw, base_out, ThreeFees(raw, AmmBps(bps.fees)))

(* buy_base_input *)
BuyBaseInput(flags, ctx, base_out) ==
  IF ~TradingEnabled(flags, TRUE) THEN NotPriced("TradingDisabled")
  ELSE IF ~HasReserves(ctx) THEN NotPriced("EmptyReserves")
  ELSE IF base_out >= ctx.base_reserve THEN NotPriced("BaseOutExceedsReserve")
  ELSE LET bps == AmmFeeBps(ctx)
           raw == CeilDiv(ctx.quote_reserve * base_out, ctx.base_reserve - base_out)
       IN  IF bps.err # OK THEN NotPriced(bps.err)
           ELSE Priced(raw, base_out, ThreeFees(raw, AmmBps(bps.fees)))

(* Mutant: whether the vault can pay is not looked at. *)
SellBaseInputUnchecked(flags, ctx, base_in) ==
  LET bps  == AmmFeeBps(ctx)
      raw  == (ctx.quote_reserve * base_in) \div (ctx.base_reserve + base_in)
      fees == ThreeFees(raw, AmmBps(bps.fees))
  IN  IF ~TradingEnabled(flags, FALSE) \/ ~HasReserves(ctx) \/ bps.err # OK
         \/ raw < SumOf(fees) THEN NotPriced("Refused")
      ELSE Priced(raw, base_in, fees)

(* sell_base_input: the seller gets raw less the fees. *)
SellBaseInput(flags, ctx, base_in) ==
  IF ~TradingEnabled(flags, FALSE) THEN NotPriced("TradingDisabled")
  ELSE IF ~HasReserves(ctx) THEN NotPriced("EmptyReserves")
  ELSE LET bps  == AmmFeeBps(ctx)
           raw  == (ctx.quote_reserve * base_in) \div (ctx.base_reserve + base_in)
           fees == ThreeFees(raw, AmmBps(bps.fees))
       IN  IF bps.err # OK THEN NotPriced(bps.err)
           ELSE IF raw < SumOf(fees) THEN NotPriced("FeesExceedOutput")
           ELSE IF ctx.real_quote_reserve < raw - fees[1]
             THEN NotPriced("InsufficientRealQuoteReserves")
           ELSE Priced(raw, base_in, fees)

TotalIn(t) == AsU64(t.raw + SumOf(t.fees))
FinalOut(t) == t.raw - SumOf(t.fees)

BuyQuoteAmmSolIn(flags, ctx, sol_amount, slippage_bps) ==
  LET t == BuyQuoteInput(flags, ctx, sol_amount)
  IN  IF ctx.err # OK THEN NoQuote(ctx.err)
      ELSE IF t.err # OK THEN NoQuote(t.err)
      ELSE Quote(OK, t.base, SubSlippage(t.base, slippage_bps), sol_amount,
                 AddSlippage(sol_amount, slippage_bps))

BuyQuoteAmmTokenOut(flags, ctx, token_amount, slippage_bps) ==
  LET t == BuyBaseInput(flags, ctx, token_amount)
  IN  IF ctx.err # OK THEN NoQuote(ctx.err)
      ELSE IF t.err # OK THEN NoQuote(t.err)
      ELSE Quote(OK, TotalIn(t), token_amount, token_amount,
                 AddSlippage(TotalIn(t), slippage_bps))

SellQuoteAmm(flags, ctx, token_amount, slippage_bps) ==
  LET t == SellBaseInput(flags, ctx, token_amount)
  IN  IF ctx.err # OK THEN NoQuote(ctx.err)
      ELSE IF t.err # OK THEN NoQuote(t.err)
      ELSE Quote(OK, FinalOut(t), SubSlippage(FinalOut(t), slippage_bps),
                 token_amount, token_amount)

(* quote_trade: on the curve, or on the pool once the curve is complete.    *)
(* pools holds the context of the pool if the caller supplied one.          *)
QuoteTrade(flags, c, pools, base_mint_supply, is_buy, base_amount, slippage_bps) ==
  LET ctx == CHOOSE ctx \in pools : TRUE
  IN  IF ~c.complete
        THEN IF is_buy
             THEN BuyQuoteBondingCurveTokenOut(c, base_mint_supply, base_amount, slippage_bps)
             ELSE SellQuoteBondingCurve(c, base_mint_supply, base_amount, slippage_bps)
      ELSE IF pools = {} THEN NoQuote("None")
      ELSE IF is_buy THEN BuyQuoteAmmTokenOut(flags, ctx, base_amount, slippage_bps)
      ELSE SellQuoteAmm(flags, ctx, base_amount, slippage_bps)

-----------------------------------------------------------------------------
(* Fee-less helpers *)

(* sell_quote of both venues. *)
SellQuote(base_reserve, quote_reserve, amount) ==
  MulDiv(amount, quote_reserve, base_reserve + amount)

(* buy_token_quote_with_sol of both venues. *)
BuyTokenQuoteWithSol(base_reserve, quote_reserve, sol_amount) ==
  MulDiv(sol_amount, base_reserve, quote_reserve + sol_amount)

(* Mutant: the quote that leaves is not taken off the reserve. *)
SellTokenQuoteOnFullReserve(base_reserve, quote_reserve, sol_amount) ==
  MulDiv(sol_amount, base_reserve, quote_reserve)

(* sell_token_quote_with_sol of both venues: tokens to sell for sol_amount. *)
SellTokenQuoteWithSol(base_reserve, quote_reserve, sol_amount) ==
  IF quote_reserve < sol_amount THEN Err("MathOverflow")
  ELSE MulDiv(sol_amount, base_reserve, quote_reserve - sol_amount)

-----------------------------------------------------------------------------
(* Multi-hop *)

AllLegs == [protocol |-> TRUE, creator |-> TRUE, lp |-> TRUE]
HopFees == [protocol : BOOLEAN, creator : BOOLEAN, lp : BOOLEAN]

OnLeg(charged, bps) == IF charged THEN bps ELSE 0

(* The rates a hop charges, in the order <<lp, protocol, creator>>. *)
LegBps(fees, legs) ==
  <<OnLeg(legs.lp, fees.lp_fee_bps), OnLeg(legs.protocol, fees.protocol_fee_bps),
    OnLeg(legs.creator, fees.creator_fee_bps)>>

(* Mutant: a hop's buy swaps the whole input, fees included. *)
HopBuyGrossNet(amount_in, bps, quote_reserve, base_reserve) ==
  LET split == ExactInFeeAmounts(amount_in, bps)
      out   == SwapExactInput(amount_in, quote_reserve, base_reserve)
  IN  IF split.err # OK \/ out.val = 0 THEN NotPriced("ZeroAmount")
      ELSE Priced(amount_in - SumOf(split.fees), out.val, split.fees)

(* A hop's buy spends the whole input: what the fees leave is swapped. *)
HopBuy(amount_in, bps, quote_reserve, base_reserve) ==
  LET split == ExactInFeeAmounts(amount_in, bps)
      net   == amount_in - SumOf(split.fees)
      out   == SwapExactInput(net - 1, quote_reserve, base_reserve)
  IN  IF split.err # OK THEN NotPriced(split.err)
      ELSE IF net <= 0 \/ out.val = 0 THEN NotPriced("ZeroAmount")
      ELSE Priced(net, out.val, split.fees)

HopSell(amount_in, bps, ctx) ==
  LET gross == SellQuote(ctx.base_reserve, ctx.quote_reserve, amount_in)
      fees  == ThreeFees(gross.val, bps)
  IN  IF gross.err # OK THEN NotPriced(gross.err)
      ELSE IF gross.val < fees[1] THEN NotPriced("FeesExceedOutput")
      ELSE IF ctx.real_quote_reserve < gross.val - fees[1]
        THEN NotPriced("InsufficientRealQuoteReserves")
      ELSE IF gross.val < SumOf(fees) THEN NotPriced("FeesExceedOutput")
      ELSE IF gross.val = SumOf(fees) THEN NotPriced("ZeroAmount")
      ELSE Priced(gross.val, amount_in, fees)

(* multi_hop_pool_hop.  The tier supply is the mint's: mayhem is refused. *)
MultiHopPoolHop(flags, p, base_reserve, quote_vault, supply, is_buy, amount_in, legs) ==
  IF ~TradingEnabled(flags, is_buy) THEN NotPriced("TradingDisabled")
  ELSE IF ~p.canonical \/ (legs.creator /\ p.is_cashback_coin) \/ p.is_mayhem_mode
    THEN NotPriced("VenueNotSupported")
  ELSE LET ctx == PoolContext(p, base_reserve, quote_vault, supply)
           bps == AmmFeeBps(ctx)
       IN  IF ctx.err # OK THEN NotPriced(ctx.err)
           ELSE IF ~HasReserves(ctx) THEN NotPriced("EmptyReserves")
           ELSE IF bps.err # OK THEN NotPriced(bps.err)
           ELSE IF is_buy
             THEN HopBuy(amount_in, LegBps(bps.fees, legs), ctx.quote_reserve, base_reserve)
           ELSE HopSell(amount_in, LegBps(bps.fees, legs), ctx)

(* multi_hop_curve_hop: the output, or the error. *)
MultiHopCurveHop(c, supply, base_ata, user, is_buy, amount_in, legs) ==
  LET fee_bps   == CurveFeeBps(c, supply)
      charged   == [fee_bps.fees EXCEPT !.protocol_fee_bps = OnLeg(legs.protocol, @),
                                        !.creator_fee_bps = OnLeg(legs.creator, @)]
      gross     == SellQuote(c.virtual_token_reserves, c.virtual_quote_reserves, amount_in)
      split     == ExactInFeeAmounts(amount_in, CurveBps(charged))
      net       == amount_in - (split.fees[1] + split.fees[2])
      tokens    == SwapExactInput(net - 1, c.virtual_quote_reserves, c.virtual_token_reserves)
      remaining == c.real_token_reserves
      curve_net == BuyQuote(c, remaining)
      left      == amount_in - WithFees(curve_net.val, charged)
      pool      == PoolToBe(c, base_ata, remaining, curve_net.val)
      leg       == PostCompleteLegExactQuote(pool, charged, left, TRUE)
  IN  IF ~CurveOpen(c, ~legs.creator) \/ c.is_mayhem_mode THEN Err("VenueNotSupported")
      ELSE IF fee_bps.err # OK THEN Err(fee_bps.err)
      ELSE IF ~is_buy
        THEN IF gross.err # OK THEN Err(gross.err)
             ELSE IF gross.val <= FeeOn(gross.val, charged) THEN Err("ZeroAmount")
             ELSE IF gross.val - FeeOn(gross.val, charged) \notin U64 THEN Err("MathOverflow")
             ELSE Ok(gross.val - FeeOn(gross.val, charged))
      ELSE IF split.err # OK THEN Err(split.err)
      ELSE IF net <= 0 THEN Err("ZeroAmount")
      ELSE IF tokens.err # OK THEN Err(tokens.err)
      ELSE IF tokens.val = 0 THEN Err("ZeroAmount")
      ELSE IF tokens.val <= remaining THEN Ok(tokens.val)
      ELSE IF user = WHITELIST_PDA THEN Err("PostCompleteLegNotAllowed")
      ELSE IF curve_net.err # OK THEN Err(curve_net.err)
      ELSE IF left <= 0 THEN Ok(remaining)
      ELSE IF pool.err # OK THEN Err(pool.err)
      ELSE IF leg.err # OK THEN Err(leg.err)
      ELSE Ok(remaining + leg.base_out)

(* HopFees::for_hop, hops counted from 1: the leg in the user's currency pays *)
(* the protocol fee, the leg of the far coin the creator and lp fees.         *)
ForHop(route_is_buy, i, hops) ==
  LET protocol_leg == IF route_is_buy THEN 1 ELSE hops
      target_leg   == IF route_is_buy THEN hops ELSE 1
  IN  [protocol |-> i = protocol_leg, creator |-> i = target_leg, lp |-> i = target_leg]

(* A RouteHop: a venue with the state it is priced on. *)
PoolHop(p, base_reserve, quote_vault_balance, supply) ==
  [kind |-> "Pool", venue |-> p, base |-> base_reserve, quote |-> quote_vault_balance,
   supply |-> supply]
CurveHop(c, supply, base_ata_amount) ==
  [kind |-> "Curve", venue |-> c, base |-> base_ata_amount, quote |-> 0, supply |-> supply]

HopOut(flags, hop, user, is_buy, amount, legs) ==
  IF hop.kind = "Curve"
    THEN MultiHopCurveHop(hop.venue, hop.supply, hop.base, user, is_buy, amount, legs)
    ELSE LET t == MultiHopPoolHop(flags, hop.venue, hop.base, hop.quote, hop.supply,
                                  is_buy, amount, legs)
         IN  [err |-> t.err, val |-> IF is_buy THEN t.base ELSE FinalOut(t)]

(* Mutant: every hop charges every fee. *)
QuoteMultiHopSwapAllFees(flags, user, hops, is_buy, amount_in, slippage_bps) ==
  LET out[i \in 0 .. Len(hops)] ==
        IF i = 0 THEN Ok(amount_in)
        ELSE IF out[i - 1].err # OK THEN out[i - 1]
        ELSE HopOut(flags, hops[i], user, is_buy, out[i - 1].val, AllLegs)
      last == out[Len(hops)]
  IN  IF amount_in = 0 THEN NoQuote("ZeroAmount")
      ELSE IF last.err # OK THEN NoQuote(last.err)
      ELSE Quote(OK, last.val, Greatest(SubSlippage(last.val, slippage_bps), 1),
                 amount_in, amount_in)

(* Each hop priced on its state before the trade; min_out at least 1. *)
QuoteMultiHopSwap(flags, user, hops, is_buy, amount_in, slippage_bps) ==
  LET out[i \in 0 .. Len(hops)] ==
        IF i = 0 THEN Ok(amount_in)
        ELSE IF out[i - 1].err # OK THEN out[i - 1]
        ELSE HopOut(flags, hops[i], user, is_buy, out[i - 1].val, ForHop(is_buy, i, Len(hops)))
      last == out[Len(hops)]
  IN  IF amount_in = 0 THEN NoQuote("ZeroAmount")
      ELSE IF last.err # OK THEN NoQuote(last.err)
      ELSE Quote(OK, last.val, Greatest(SubSlippage(last.val, slippage_bps), 1),
                 amount_in, amount_in)

=============================================================================
