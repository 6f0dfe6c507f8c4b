-------------------------- MODULE PoolClientProofs --------------------------
(***************************************************************************)
(* Theorems about PoolClient for every value of its constants: any pool    *)
(* and any curve, any amounts, slippages and fee tables.                   *)
(*                                                                         *)
(* CurveInv keeps the curve of C priceable and its ATA funded; Known says  *)
(* what a request has read: a pool whose virtual reserve balances its      *)
(* buckets, a priceable curve and, once built, the successful quote of     *)
(* both, torn or not.  PoolMarketProofs' invariant Inv carries over,       *)
(* because a route's hops are fills as any other.                          *)
(***************************************************************************)
EXTENDS PoolClient, PoolMarketProofs

(* A curve account the quoters can price, with counters that are integers.   *)
CurveRecord ==
  [virtual_token_reserves : Nat, virtual_quote_reserves : Nat,
   real_token_reserves : Nat, real_quote_reserves : Int,
   token_total_supply : Nat, complete : BOOLEAN, creator : Pubkey,
   is_mayhem_mode : BOOLEAN, is_cashback_coin : BOOLEAN, quote_mint : Pubkey,
   creator_fee_bps : Nat, creator_fee : Int, protocol_fees : Int,
   post_complete_base_out : Int, post_complete_quote_in : Int]

(* A curve with tokens beyond its real reserve and quote to price on.        *)
Priceable(c) ==
  /\ c \in CurveRecord
  /\ c.real_token_reserves < c.virtual_token_reserves
  /\ c.virtual_quote_reserves > 0

(* The ATA holds what the curve sells, out of the coin's supply. *)
Funded(c, ata) == ata \in Nat /\ c.real_token_reserves <= ata /\ ata <= SupplyOfC

(* C's curve stays priceable and its ATA funded.                             *)
CurveInv == Priceable(curve) /\ Funded(curve, base_ata)

(* A pool account as any state of the chain holds it. *)
BucketsOf(p) == p.protocol_fees + p.creator_fees
(* The virtual reserve is the boost less the un-swept buckets.               *)
Balanced(p) == p \in Pool /\ p.virtual_quote_reserves = Boost - BucketsOf(p)

(* The types of a request and of its quote.                                  *)
Phases == {"idle", "fetched_venues", "built", "landed"}
Quotes == [err : {"none", OK}, amount : Nat, min_out : Nat, input_amount_used : Nat,
           max_input : Nat]
Requests ==
  [phase : Phases, kind : Kinds, amount : Nat, slippage_bps : Nat,
   pool : Pool, curve : CurveRecord, disable_flags : SUBSET {BUY_FLAG, SELL_FLAG},
   base_reserve : Nat, quote_vault_balance : Nat, base_ata_amount : Nat,
   pool_then : Pool, quote : Quotes]

(* What a request knows. *)
Known(r) ==
  /\ r \in Requests
  /\ Priceable(r.curve) /\ Balanced(r.pool)
  /\ (r.phase \in Pending /\ r.kind \in Creates) => r.amount > 0
  /\ r.phase = "built" =>
       /\ r.quote_vault_balance + Boost <= U64_MAX
       /\ r.quote = QuoteOf(r, r.base_reserve, r.quote_vault_balance, r.base_ata_amount)
       /\ r.quote.err = OK
       /\ Balanced(r.pool_then)
       /\ EffectiveQuoteReserve(r.pool_then, r.quote_vault_balance)
            = Ok(r.quote_vault_balance + r.pool_then.virtual_quote_reserves)

(* The inductive invariant of PoolClient.                                    *)
ClientInv == Inv /\ CurveInv /\ Known(request)

-----------------------------------------------------------------------------
(* Multi-hop quotes *)

(* quote_multi_hop_swap over two hops: the second is fed what the first      *)
(* yields, and an error of either is the route's.                            *)
LEMMA TwoHops ==
  ASSUME NEW flags, NEW user, NEW h1, NEW h2, NEW is_buy, NEW n, NEW slip
  PROVE  LET o1 == HopOut(flags, h1, user, is_buy, n, ForHop(is_buy, 1, 2))
             o2 == HopOut(flags, h2, user, is_buy, o1.val, ForHop(is_buy, 2, 2))
             q  == QuoteMultiHopSwap(flags, user, <<h1, h2>>, is_buy, n, slip)
         IN  q = IF n = 0 THEN NoQuote("ZeroAmount")
                 ELSE IF o1.err # OK THEN NoQuote(o1.err)
                 ELSE IF o2.err # OK THEN NoQuote(o2.err)
                 ELSE Quote(OK, o2.val, Greatest(SubSlippage(o2.val, slip), 1), n, n)
<1> DEFINE hops == <<h1, h2>>
           o1 == HopOut(flags, h1, user, is_buy, n, ForHop(is_buy, 1, 2))
           o2 == HopOut(flags, h2, user, is_buy, o1.val, ForHop(is_buy, 2, 2))
           After(g, i) == IF i = 0 THEN Ok(n)
                          ELSE IF g[i - 1].err # OK THEN g[i - 1]
                          ELSE HopOut(flags, hops[i], user, is_buy, g[i - 1].val,
                                      ForHop(is_buy, i, Len(hops)))
           Chain(g) == g = [i \in 0 .. Len(hops) |-> After(g, i)]
           out == CHOOSE g : Chain(g)
           w == [i \in 0 .. 2 |-> IF i = 0 THEN Ok(n) ELSE IF i = 1 THEN o1
                                  ELSE IF o1.err # OK THEN o1 ELSE o2]
<1>1. Len(hops) = 2 /\ hops[1] = h1 /\ hops[2] = h2 /\ 0 .. 2 = {0, 1, 2}
  OBVIOUS
<1>2. Ok(n).err = OK /\ Ok(n).val = n
  BY DEF Ok
<1> HIDE DEF hops, o1, o2
<1>3. Chain(w)
  <2>1. \A i \in 0 .. 2 : w[i] = After(w, i)
    <3>1. w[0] = Ok(n) /\ w[1] = o1 /\ w[2] = IF o1.err # OK THEN o1 ELSE o2
      OBVIOUS
    <3> HIDE DEF w
    <3>2. After(w, 0) = Ok(n)
      OBVIOUS
    <3>3. After(w, 1) = o1
      BY <1>1, <1>2, <3>1 DEF o1
    <3>4. After(w, 2) = IF o1.err # OK THEN o1 ELSE o2
      BY <1>1, <3>1 DEF o2
    <3> HIDE DEF After
    <3> QED BY <1>1, <3>1, <3>2, <3>3, <3>4
  <2> HIDE DEF After
  <2>2. w = [i \in 0 .. 2 |-> After(w, i)]
    BY <2>1
  <2> QED BY <1>1, <2>2
<1>4. Chain(out)
  <2> HIDE DEF Chain, w
  <2> QED BY <1>3
<1>5. out[0] = Ok(n) /\ out[1] = o1 /\ out[2] = IF o1.err # OK THEN o1 ELSE o2
  <2> HIDE DEF out
  <2>0. \A i \in 0 .. 2 : out[i] = After(out, i)
    <3> HIDE DEF After
    <3> QED BY <1>1, <1>4
  <2>1. out[0] = Ok(n)
    <3>1. After(out, 0) = Ok(n)
      OBVIOUS
    <3> QED BY <1>1, <2>0, <3>1
  <2>2. out[1] = o1
    <3>1. After(out, 1) = o1
      BY <1>1, <1>2, <2>1 DEF o1
    <3> QED BY <1>1, <2>0, <3>1
  <2>3. out[2] = IF o1.err # OK THEN o1 ELSE o2
    <3>1. After(out, 2) = IF o1.err # OK THEN o1 ELSE o2
      BY <1>1, <2>2 DEF o2
    <3> QED BY <1>1, <2>0, <3>1
  <2> QED BY <2>1, <2>2, <2>3
<1>6. QuoteMultiHopSwap(flags, user, hops, is_buy, n, slip)
        = IF n = 0 THEN NoQuote("ZeroAmount")
          ELSE IF out[Len(hops)].err # OK THEN NoQuote(out[Len(hops)].err)
          ELSE Quote(OK, out[Len(hops)].val,
                     Greatest(SubSlippage(out[Len(hops)].val, slip), 1), n, n)
  BY DEF QuoteMultiHopSwap
<1> HIDE DEF out
<1>7. QuoteMultiHopSwap(flags, user, hops, is_buy, n, slip)
        = IF n = 0 THEN NoQuote("ZeroAmount")
          ELSE IF o1.err # OK THEN NoQuote(o1.err)
          ELSE IF o2.err # OK THEN NoQuote(o2.err)
          ELSE Quote(OK, o2.val, Greatest(SubSlippage(o2.val, slip), 1), n, n)
  BY <1>1, <1>5, <1>6
<1> QED BY <1>7 DEF hops, o1, o2

(* What a route of hops that yield o1 and o2 is quoted at. *)
SaysRoute(q, n, o1, o2, slip) ==
  q.err = OK =>
    /\ n # 0 /\ o1.err = OK /\ o2.err = OK
    /\ q = Quote(OK, o2.val, Greatest(SubSlippage(o2.val, slip), 1), n, n)

(* The route a request is quoted on. *)
LEMMA RouteQuote ==
  ASSUME NEW r, r.kind \in {"route_buy", "route_sell"}, NEW b, NEW v, NEW a,
         NEW is_buy \in BOOLEAN, is_buy <=> r.kind = "route_buy"
  PROVE  LET on_pool == PoolHop(r.pool, b, v, MintSupply)
             on_curve == CurveHop(r.curve, SupplyOfC, a)
             h1 == IF is_buy THEN on_pool ELSE on_curve
             h2 == IF is_buy THEN on_curve ELSE on_pool
             o1 == HopOut(r.disable_flags, h1, User, is_buy, r.amount, ForHop(is_buy, 1, 2))
             o2 == HopOut(r.disable_flags, h2, User, is_buy, o1.val, ForHop(is_buy, 2, 2))
         IN  SaysRoute(QuoteOf(r, b, v, a), r.amount, o1, o2, r.slippage_bps)
<1> DEFINE on_pool == PoolHop(r.pool, b, v, MintSupply)
           on_curve == CurveHop(r.curve, SupplyOfC, a)
           h1 == IF is_buy THEN on_pool ELSE on_curve
           h2 == IF is_buy THEN on_curve ELSE on_pool
           o1 == HopOut(r.disable_flags, h1, User, is_buy, r.amount, ForHop(is_buy, 1, 2))
           o2 == HopOut(r.disable_flags, h2, User, is_buy, o1.val, ForHop(is_buy, 2, 2))
           q  == QuoteMultiHopSwap(r.disable_flags, User, <<h1, h2>>, is_buy, r.amount,
                                   r.slippage_bps)
<1> SUFFICES SaysRoute(QuoteOf(r, b, v, a), r.amount, o1, o2, r.slippage_bps)
  BY Zenon
<1>1. RouteHops(r, b, v, a) = <<h1, h2>>
  BY DEF RouteHops
<1>2. QuoteOf(r, b, v, a) = q
  <2> HIDE DEF h1, h2
  <2> QED BY <1>1 DEF QuoteOf, Creates
<1>3. q = IF r.amount = 0 THEN NoQuote("ZeroAmount")
          ELSE IF o1.err # OK THEN NoQuote(o1.err)
          ELSE IF o2.err # OK THEN NoQuote(o2.err)
          ELSE Quote(OK, o2.val, Greatest(SubSlippage(o2.val, r.slippage_bps), 1),
                     r.amount, r.amount)
  <2> HIDE DEF h1, h2
  <2> QED BY TwoHops
<1> HIDE DEF q, o1, o2
<1>4. NoQuote("ZeroAmount").err # OK
      /\ (o1.err # OK => NoQuote(o1.err).err # OK)
      /\ (o2.err # OK => NoQuote(o2.err).err # OK)
  BY DEF NoQuote, Quote, OK
<1>5. q.err = OK =>
        /\ r.amount # 0 /\ o1.err = OK /\ o2.err = OK
        /\ q = Quote(OK, o2.val, Greatest(SubSlippage(o2.val, r.slippage_bps), 1),
                     r.amount, r.amount)
  BY <1>3, <1>4
<1> QED BY <1>2, <1>5 DEF SaysRoute

-----------------------------------------------------------------------------
(* What the quoters return, from any state a request may have read *)

(* compute_amm_fee_bps and the legs of a hop yield natural rates. *)
LEMMA AmmRates ==
  ASSUME NEW ctx, ctx.base_mint_supply \in Nat, ctx.quote_reserve \in Nat,
         ctx.base_reserve \in Nat, ctx.base_reserve > 0, ctx.creator_fee_bps \in Nat, NEW legs
  PROVE  /\ AmmBps(AmmFeeBps(ctx).fees) \in FeeTriple
         /\ LegBps(AmmFeeBps(ctx).fees, legs) \in FeeTriple
<1> DEFINE cap == MarketCap(ctx.base_mint_supply, ctx.quote_reserve, ctx.base_reserve)
           r == ComputeFeeBps(AmmGlobal.creator_fee_configurable, AmmFeeConfig,
                              ctx.canonical, ctx.quote_mint, ctx.creator_fee_bps, cap)
<1>1. cap \in Nat
  <2>1. ctx.quote_reserve * ctx.base_mint_supply \in Nat
    OBVIOUS
  <2> QED BY <2>1, DivBounds DEF MarketCap
<1>2. r.fees \in Fees
  <2> HIDE DEF cap
  <2> QED BY <1>1, AmmAssumption, ComputeFeeBpsType
<1>3. AmmFeeBps(ctx).fees
        = [r.fees EXCEPT !.creator_fee_bps = IF ctx.coin_creator = DEFAULT_KEY THEN 0 ELSE @]
  BY DEF AmmFeeBps
<1>4. AmmFeeBps(ctx).fees \in Fees
  <2> HIDE DEF r
  <2> QED BY <1>2, <1>3 DEF Fees
<1> QED BY <1>4 DEF AmmBps, LegBps, OnLeg, Fees, FeeTriple

(* The context of the pool a request read with vaults read later: its        *)
(* numbers are naturals, and it fails when the two do not add up.            *)
LEMMA ReadContext ==
  ASSUME NEW p \in Pool, NEW b \in Nat, NEW v \in Nat
  PROVE  LET ctx == PoolContext(p, b, v, MintSupply)
         IN  /\ ctx.base_mint_supply \in Nat /\ ctx.quote_reserve \in Nat
             /\ ctx.base_reserve = b /\ ctx.creator_fee_bps \in Nat
             /\ ctx.real_quote_reserve \in Nat
             /\ ctx.err = OK => /\ ctx.quote_reserve = v + p.virtual_quote_reserves
                                /\ EffectiveQuoteReserve(p, v)
                                     = Ok(v + p.virtual_quote_reserves)
<1>1. FeeTierSupply(p.is_mayhem_mode, MintSupply) \in Nat
  BY Deposits, PoolMarketAssumption, AmmAssumption DEF MintSupply, FeeTierSupply
<1>2. /\ EffectiveQuoteReserve(p, v).val \in Nat
      /\ EffectiveQuoteReserve(p, v).err = OK =>
           EffectiveQuoteReserve(p, v) = Ok(v + p.virtual_quote_reserves)
  BY U64Assumption DEF EffectiveQuoteReserve, Ok, Err, U64, OK
<1>3. RealQuoteReserve(p, v).val \in Nat
  BY DEF RealQuoteReserve, FeeBucketsTotal, Ok, Err, Pool, OK
<1>4. p.creator_fee_bps \in Nat
  BY DEF Pool
<1> DEFINE ctx == PoolContext(p, b, v, MintSupply)
<1>5. /\ ctx.base_mint_supply = FeeTierSupply(p.is_mayhem_mode, MintSupply)
      /\ ctx.quote_reserve = EffectiveQuoteReserve(p, v).val
      /\ ctx.base_reserve = b /\ ctx.creator_fee_bps = p.creator_fee_bps
      /\ ctx.real_quote_reserve = RealQuoteReserve(p, v).val
      /\ ctx.err = OK => EffectiveQuoteReserve(p, v).err = OK
  BY DEF PoolContext
<1> HIDE DEF ctx
<1>6. ctx.err = OK => ctx.quote_reserve = v + p.virtual_quote_reserves
  BY <1>2, <1>5 DEF Ok
<1> QED BY <1>1, <1>2, <1>3, <1>4, <1>5, <1>6 DEF ctx

(* A cost that is rounded up, with its fees. *)
LEMMA BuyCost ==
  ASSUME NEW ctx, ctx.quote_reserve \in Nat, ctx.base_reserve \in Nat, NEW flags,
         NEW n \in Nat, AmmBps(AmmFeeBps(ctx).fees) \in FeeTriple,
         BuyBaseInput(flags, ctx, n).err = OK
  PROVE  LET t == BuyBaseInput(flags, ctx, n)
         IN  t.raw \in Nat /\ t.fees \in FeeTriple /\ t.base = n
<1> DEFINE e == ctx.quote_reserve * n
           d == ctx.base_reserve - n
           raw == CeilDiv(e, d)
           fees == ThreeFees(raw, AmmBps(AmmFeeBps(ctx).fees))
<1>1. /\ ~ (n >= ctx.base_reserve)
      /\ BuyBaseInput(flags, ctx, n) = [err |-> OK, raw |-> raw, base |-> n, fees |-> fees]
  BY DEF BuyBaseInput, NotPriced, Priced, OK
<1>2. e \in Nat /\ d \in Nat /\ d > 0
  BY <1>1
<1> HIDE DEF e, d
<1>3. raw \in Nat
  BY <1>2, CeilDivLeast
<1> HIDE DEF raw
<1>4. fees \in FeeTriple
  BY <1>3, ThreeFeesType
<1> HIDE DEF fees
<1> QED BY <1>1, <1>3, <1>4

(* A hop's buy spends its whole input. *)
LEMMA HopBuyType ==
  ASSUME NEW n \in Nat, NEW bps \in FeeTriple, NEW q \in Nat, NEW b \in Nat, q > 0,
         HopBuy(n, bps, q, b).err = OK
  PROVE  LET t == HopBuy(n, bps, q, b)
         IN  t.raw \in Nat /\ t.base \in Nat /\ t.fees \in FeeTriple /\ t.raw + SumOf(t.fees) = n
<1> DEFINE split == ExactInFeeAmounts(n, bps)
           net   == n - SumOf(split.fees)
           out   == SwapExactInput(net - 1, q, b)
<1>1. /\ split.err = OK /\ ~ (net <= 0)
      /\ HopBuy(n, bps, q, b) = [err |-> OK, raw |-> net, base |-> out.val, fees |-> split.fees]
  BY DEF HopBuy, NotPriced, Priced, OK
<1>2. split.fees \in FeeTriple
  BY <1>1, ExactInSplit DEF FeeTriple
<1> HIDE DEF split
<1>3. SumOf(split.fees) \in Nat
  BY <1>2 DEF SumOf, FeeTriple
<1>4. net \in Nat /\ net > 0 /\ net + SumOf(split.fees) = n
  BY <1>1, <1>3
<1> DEFINE m == net - 1
<1>5. m \in Nat /\ m * b \in Nat /\ q + m \in Nat /\ q + m > 0
  BY <1>4
<1>6. out = SwapExactInput(m, q, b)
  OBVIOUS
<1> HIDE DEF net, m, out
<1>7. out.val \in Nat
  BY <1>5, <1>6, DivBounds DEF SwapExactInput, MulDiv, Ok
<1> QED BY <1>1, <1>2, <1>4, <1>7

(* A hop's sale pays something. *)
LEMMA HopSellType ==
  ASSUME NEW n \in Nat, NEW bps \in FeeTriple, NEW ctx, ctx.quote_reserve \in Nat,
         ctx.base_reserve \in Nat, ctx.base_reserve > 0, HopSell(n, bps, ctx).err = OK
  PROVE  LET t == HopSell(n, bps, ctx)
         IN  FinalOut(t) \in Nat /\ FinalOut(t) > 0 /\ t.raw \in Nat /\ t.fees \in FeeTriple
<1> DEFINE gross == SellQuote(ctx.base_reserve, ctx.quote_reserve, n)
           fees  == ThreeFees(gross.val, bps)
<1>1. n * ctx.quote_reserve \in Nat /\ ctx.base_reserve + n \in Nat /\ ctx.base_reserve + n > 0
  OBVIOUS
<1>2. gross.val \in Nat
  BY <1>1, DivBounds DEF SellQuote, MulDiv, Ok
<1>3. /\ ~ (gross.val < SumOf(fees)) /\ gross.val # SumOf(fees)
      /\ HopSell(n, bps, ctx) = [err |-> OK, raw |-> gross.val, base |-> n, fees |-> fees]
  <2> HIDE DEF gross, fees
  <2>1. /\ gross.err = OK /\ ~ (gross.val < fees[1])
        /\ ~ (ctx.real_quote_reserve < gross.val - fees[1])
        /\ ~ (gross.val < SumOf(fees)) /\ gross.val # SumOf(fees)
    BY DEF HopSell, NotPriced, OK, gross, fees
  <2> QED BY <2>1 DEF HopSell, Priced, gross, fees
<1> HIDE DEF gross
<1>4. fees \in FeeTriple
  BY <1>2, ThreeFeesType
<1> HIDE DEF fees
<1>5. SumOf(fees) \in Nat
  BY <1>4 DEF SumOf, FeeTriple
<1> QED BY <1>2, <1>3, <1>4, <1>5 DEF FinalOut

(* What a pool hop yields is a natural number, whatever pool was read with   *)
(* whatever vaults, and it is a hop of a context that does not fail.         *)
LEMMA PoolHopType ==
  ASSUME NEW p \in Pool, NEW b \in Nat, NEW v \in Nat, NEW flags, NEW is_buy \in BOOLEAN,
         NEW n \in Nat, NEW legs,
         MultiHopPoolHop(flags, p, b, v, MintSupply, is_buy, n, legs).err = OK
  PROVE  LET t == MultiHopPoolHop(flags, p, b, v, MintSupply, is_buy, n, legs)
             ctx == PoolContext(p, b, v, MintSupply)
             bps == LegBps(AmmFeeBps(ctx).fees, legs)
         IN  /\ TradingEnabled(flags, is_buy) /\ ~ (legs.creator /\ p.is_cashback_coin)
             /\ ~ p.is_mayhem_mode /\ ctx.err = OK /\ AmmFeeBps(ctx).err = OK
             /\ t = IF is_buy THEN HopBuy(n, bps, ctx.quote_reserve, b) ELSE HopSell(n, bps, ctx)
             /\ is_buy => t.base \in Nat
             /\ ~is_buy => FinalOut(t) \in Nat
<1> DEFINE t == MultiHopPoolHop(flags, p, b, v, MintSupply, is_buy, n, legs)
           ctx == PoolContext(p, b, v, MintSupply)
           bps == LegBps(AmmFeeBps(ctx).fees, legs)
<1>1. /\ ctx.base_mint_supply \in Nat /\ ctx.quote_reserve \in Nat
      /\ ctx.base_reserve = b /\ ctx.creator_fee_bps \in Nat
  BY ReadContext
<1> HIDE DEF ctx
<1>2. /\ TradingEnabled(flags, is_buy) /\ ~ (legs.creator /\ p.is_cashback_coin)
      /\ ~ p.is_mayhem_mode /\ ctx.err = OK /\ HasReserves(ctx) /\ AmmFeeBps(ctx).err = OK
      /\ t = IF is_buy THEN HopBuy(n, bps, ctx.quote_reserve, b) ELSE HopSell(n, bps, ctx)
  BY DEF MultiHopPoolHop, NotPriced, OK, ctx
<1>3. b > 0 /\ ctx.quote_reserve > 0
  BY <1>1, <1>2 DEF HasReserves
<1>4. bps \in FeeTriple
  BY <1>1, <1>3, AmmRates
<1> HIDE DEF bps, t
<1>5. is_buy => t.base \in Nat
  <2>1. CASE is_buy
    <3>1. HopBuy(n, bps, ctx.quote_reserve, b).err = OK
      BY <1>2, <2>1 DEF t
    <3>2. HopBuy(n, bps, ctx.quote_reserve, b).base \in Nat
      BY <1>1, <1>3, <1>4, <3>1, HopBuyType
    <3> QED BY <1>2, <2>1, <3>2
  <2> QED BY <2>1
<1>6. ~is_buy => FinalOut(t) \in Nat
  <2>1. CASE ~is_buy
    <3>1. HopSell(n, bps, ctx).err = OK
      BY <1>2, <2>1 DEF t
    <3>2. FinalOut(HopSell(n, bps, ctx)) \in Nat
      BY <1>1, <1>3, <1>4, <3>1, HopSellType
    <3> QED BY <1>2, <2>1, <3>2
  <2> QED BY <2>1
<1> QED BY <1>2, <1>5, <1>6 DEF t, ctx, bps

-----------------------------------------------------------------------------
(* The curve hop *)

(* What the fee schedule reads of a curve. *)
HasRates(c) ==
  /\ c.virtual_quote_reserves \in Nat /\ c.virtual_token_reserves \in Nat
  /\ c.virtual_token_reserves > 0 /\ c.creator_fee_bps \in Nat
  /\ c.token_total_supply \in Nat

(* curve_fee_bps of a curve with reserves, and the legs of it a hop charges. *)
LEMMA CurveRates ==
  ASSUME NEW c, HasRates(c), NEW legs
  PROVE  CurveFeeBps(c, SupplyOfC).fees \in Fees /\ HopRates(c, legs) \in Fees
<1> DEFINE cap == MarketCap(CurveTierSupply(c, SupplyOfC),
                            c.virtual_quote_reserves, c.virtual_token_reserves)
           r == ComputeFeeBps(Global.creator_fee_configurable, FeeConfig, TRUE, c.quote_mint,
                              c.creator_fee_bps, cap)
<1>1. /\ c.virtual_quote_reserves \in Nat /\ c.virtual_token_reserves \in Nat
      /\ c.virtual_token_reserves > 0 /\ c.creator_fee_bps \in Nat
  BY DEF HasRates
<1>2. CurveTierSupply(c, SupplyOfC) \in Nat
  BY GlobalAssumption DEF CurveTierSupply, SupplyOfC, HasRates
<1>3. cap \in Nat
  BY <1>1, <1>2, DivBounds DEF MarketCap
<1>4. r.fees \in Fees
  <2> HIDE DEF cap
  <2> QED BY <1>1, <1>3, FeeConfigAssumption, ComputeFeeBpsType
<1>5. CurveFeeBps(c, SupplyOfC).fees
        = [r.fees EXCEPT !.creator_fee_bps = IF c.creator = DEFAULT_KEY THEN 0 ELSE @]
  BY DEF CurveFeeBps
<1>6. CurveFeeBps(c, SupplyOfC).fees \in Fees
  <2> HIDE DEF r
  <2> QED BY <1>4, <1>5 DEF Fees
<1> QED BY <1>6 DEF HopRates, OnLeg, Fees

(* A priceable curve has what its rates are computed from.                   *)
LEMMA PriceableHasRates ==
  ASSUME NEW c, Priceable(c)
  PROVE  HasRates(c)
BY DEF HasRates, Priceable, CurveRecord

(* What a budget buys of a pool, swapped as a curve and a leg swap it.       *)
LEMMA SwapType ==
  ASSUME NEW n \in Nat, n > 0, NEW q \in Nat, NEW b \in Nat, q > 0, b > 0
  PROVE  /\ SwapExactInput(n - 1, q, b).err = OK
         /\ SwapExactInput(n - 1, q, b).val \in Nat
         /\ SwapExactInput(n - 1, q, b).val < b
<1> DEFINE m == n - 1
<1>1. m \in Nat /\ q + m # 0
  OBVIOUS
<1> HIDE DEF m
<1>2. SwapExactInput(m, q, b) = Ok((m * b) \div (q + m))
  BY <1>1 DEF SwapExactInput, MulDiv
<1>3. (m * b) \div (q + m) \in Nat /\ (m * b) \div (q + m) < b
  BY <1>1, SwapLeavesReserve
<1> QED BY <1>2, <1>3 DEF Ok, m

(* The two fees of an exact-in split on a curve leave a positive net.        *)
LEMMA CurveSplit ==
  ASSUME NEW fees \in Fees, NEW n \in Nat, ExactInFeeAmounts(n, CurveBps(fees)).err = OK
  PROVE  LET s == ExactInFeeAmounts(n, CurveBps(fees))
         IN  /\ s.fees[1] \in Nat /\ s.fees[2] \in Nat /\ s.fees[3] = 0
             /\ n - (s.fees[1] + s.fees[2]) \in Nat /\ n - (s.fees[1] + s.fees[2]) > 0
<1> DEFINE s == ExactInFeeAmounts(n, CurveBps(fees))
<1>1. CurveBps(fees) \in Nat \X Nat \X Nat /\ CurveBps(fees)[3] = 0
  BY DEF CurveBps, Fees
<1>2. /\ s.net \in Nat /\ s.net > 0 /\ s.fees \in Nat \X Nat \X Nat
      /\ s.net + (s.fees[1] + s.fees[2] + s.fees[3]) <= n
  BY <1>1, ExactInSplit
<1>3. PICK net0 \in Nat : s.fees = ThreeFees(net0, CurveBps(fees))
  BY <1>1, SplitFees
<1> HIDE DEF s
<1>4. s.fees[3] = FeeAmount(net0, 0)
  BY <1>1, <1>3 DEF ThreeFees
<1>5. FeeAmount(net0, 0) = 0
  <2>1. net0 * 0 = 0
    OBVIOUS
  <2>2. (0 + BPS - 1) \div BPS = 0
    BY DEF BPS
  <2> QED BY <2>1, <2>2 DEF FeeAmount, CeilDiv
<1> QED BY <1>2, <1>4, <1>5 DEF s

(* pool_to_be: what is left of the ATA and of the raise, both positive. *)
LEMMA PoolToBeGood ==
  ASSUME NEW c, Priceable(c), NEW ata \in Nat, NEW t \in Nat, NEW q \in Nat,
         PoolToBe(c, ata, t, q).err = OK
  PROVE  LET p == PoolToBe(c, ata, t, q)
         IN  /\ p.base \in Nat /\ p.base > 0 /\ p.base = ata - t
             /\ p.quote \in Nat /\ p.quote > 0
BY GlobalAssumption, U64Assumption DEF PoolToBe, OK, Priceable, CurveRecord

(* The leg of a hop, which swaps all its fees leave, never empties the       *)
(* pool-to-be.                                                               *)
LEMMA LegGood ==
  ASSUME NEW p, p.base \in Nat, p.base > 0, p.quote \in Nat, p.quote > 0,
         NEW fees \in Fees, NEW budget \in Nat,
         PostCompleteLegExactQuote(p, fees, budget, TRUE).err = OK
  PROVE  LET leg == PostCompleteLegExactQuote(p, fees, budget, TRUE)
         IN  /\ leg.base_out \in Nat /\ leg.base_out < p.base
             /\ leg.quote_in \in Nat /\ leg.fee \in Nat /\ leg.creator_fee \in Nat
<1> DEFINE split    == ExactInFeeAmounts(budget, CurveBps(fees))
           net      == budget - (split.fees[1] + split.fees[2])
           out      == SwapExactInput(net - 1, p.quote, p.base)
           nothing  == [err |-> OK, base_out |-> 0, quote_in |-> 0, fee |-> 0, creator_fee |-> 0]
           full     == [err |-> OK, base_out |-> out.val, quote_in |-> net,
                        fee |-> split.fees[1], creator_fee |-> split.fees[2]]
           leg      == PostCompleteLegExactQuote(p, fees, budget, TRUE)
<1>1. leg = nothing \/ (leg = full /\ split.err = OK)
  BY DEF PostCompleteLegExactQuote, OK
<1> SUFFICES /\ leg.base_out \in Nat /\ leg.base_out < p.base
             /\ leg.quote_in \in Nat /\ leg.fee \in Nat /\ leg.creator_fee \in Nat
  BY Zenon
<1> HIDE DEF leg
<1>2. CASE leg = nothing
  BY <1>2
<1>3. CASE leg = full /\ split.err = OK
  <2>1. split.fees[1] \in Nat /\ split.fees[2] \in Nat /\ net \in Nat /\ net > 0
    BY <1>3, CurveSplit
  <2> HIDE DEF split, net
  <2>2. out.val \in Nat /\ out.val < p.base
    BY <2>1, SwapType
  <2> HIDE DEF out
  <2> QED BY <1>3, <2>1, <2>2
<1> QED BY <1>1, <1>2, <1>3

(* buy_quote's value is a natural number, refused or not. *)
LEMMA BuyQuoteType ==
  ASSUME NEW c, Priceable(c), NEW amount \in Nat
  PROVE  BuyQuote(c, amount).val \in Nat
<1> DEFINE q == c.virtual_quote_reserves
           t == c.virtual_token_reserves
<1>1. q \in Nat /\ t \in Nat
  BY DEF Priceable, CurveRecord
<1>2. CASE amount < t
  <2>1. amount * q \in Nat /\ t - amount \in Nat /\ t - amount > 0
    BY <1>1, <1>2
  <2>2. (amount * q) \div (t - amount) \in Nat
    BY <2>1, DivBounds
  <2> QED BY <2>2 DEF BuyQuote, Err, Ok
<1>3. CASE ~ (amount < t)
  BY <1>1, <1>3 DEF BuyQuote, Err
<1> QED BY <1>2, <1>3

(* The fees of an amount on a curve are naturals. *)
LEMMA FeeOnType ==
  ASSUME NEW fees \in Fees, NEW amount \in Nat
  PROVE  /\ FeeAmount(amount, fees.protocol_fee_bps) \in Nat
         /\ FeeAmount(amount, fees.creator_fee_bps) \in Nat
         /\ FeeOn(amount, fees) \in Nat /\ WithFees(amount, fees) \in Nat
         /\ WithFees(amount, fees) = amount + FeeAmount(amount, fees.protocol_fee_bps)
                                            + FeeAmount(amount, fees.creator_fee_bps)
<1>1. /\ FeeAmount(amount, fees.protocol_fee_bps) \in Nat
      /\ FeeAmount(amount, fees.creator_fee_bps) \in Nat
  BY FeeAmountNat DEF Fees
<1> QED BY <1>1 DEF FeeOn, WithFees

(* What a curve hop yields is a natural number. *)
LEMMA CurveHopType ==
  ASSUME NEW c, Priceable(c), NEW a \in Nat, NEW user, NEW is_buy \in BOOLEAN,
         NEW n \in Nat, NEW legs,
         MultiHopCurveHop(c, SupplyOfC, a, user, is_buy, n, legs).err = OK
  PROVE  MultiHopCurveHop(c, SupplyOfC, a, user, is_buy, n, legs).val \in Nat
<1> DEFINE rates     == HopRates(c, legs)
           gross     == SellQuote(c.virtual_token_reserves, c.virtual_quote_reserves, n)
           split     == ExactInFeeAmounts(n, CurveBps(rates))
           net       == n - (split.fees[1] + split.fees[2])
           tokens    == SwapExactInput(net - 1, c.virtual_quote_reserves,
                                       c.virtual_token_reserves)
           remaining == c.real_token_reserves
           cost      == BuyQuote(c, remaining)
           left      == n - WithFees(cost.val, rates)
           ptb       == PoolToBe(c, a, remaining, cost.val)
           leg       == PostCompleteLegExactQuote(ptb, rates, left, TRUE)
           h         == MultiHopCurveHop(c, SupplyOfC, a, user, is_buy, n, legs)
<1>1. /\ rates \in Fees /\ remaining \in Nat /\ cost.val \in Nat
      /\ c.virtual_quote_reserves \in Nat /\ c.virtual_quote_reserves > 0
      /\ c.virtual_token_reserves \in Nat /\ c.virtual_token_reserves > 0
  <2>1. remaining \in Nat
    BY DEF Priceable, CurveRecord
  <2> QED BY <2>1, CurveRates, PriceableHasRates, BuyQuoteType DEF Priceable, CurveRecord
<1>2. \/ h.val \in U64
      \/ /\ split.err = OK
         /\ \/ h.val = tokens.val
            \/ h.val = remaining
            \/ ~ (left <= 0) /\ ptb.err = OK /\ leg.err = OK /\ h.val = remaining + leg.base_out
  BY DEF MultiHopCurveHop, Err, Ok, OK, HopRates
<1> HIDE DEF h
<1>3. CASE h.val \in U64
  BY <1>3 DEF U64, h
<1>4. CASE split.err = OK /\ h.val = tokens.val
  <2>1. net \in Nat /\ net > 0
    BY <1>1, <1>4, CurveSplit
  <2> HIDE DEF net
  <2>2. tokens.val \in Nat
    BY <1>1, <2>1, SwapType
  <2> QED BY <1>4, <2>2 DEF h
<1>5. CASE h.val = remaining
  BY <1>1, <1>5 DEF h
<1>6. CASE ~ (left <= 0) /\ ptb.err = OK /\ leg.err = OK /\ h.val = remaining + leg.base_out
  <2>1. WithFees(cost.val, rates) \in Nat
    BY <1>1, FeeOnType
  <2>2. left \in Nat
    BY <1>6, <2>1
  <2>3. ptb.base \in Nat /\ ptb.base > 0 /\ ptb.quote \in Nat /\ ptb.quote > 0
    BY <1>1, <1>6, PoolToBeGood
  <2> HIDE DEF ptb, left, rates
  <2>4. leg.base_out \in Nat
    BY <1>1, <1>6, <2>2, <2>3, LegGood
  <2> HIDE DEF leg, remaining
  <2>5. remaining + leg.base_out \in Nat
    BY <1>1, <2>4
  <2> QED BY <1>6, <2>5 DEF h
<1> QED BY <1>2, <1>3, <1>4, <1>5, <1>6

(* What a curve hop leaves behind, whichever way it went. *)
CurveMoved(hop) ==
  Priceable(hop.curve) /\ Funded(hop.curve, hop.base_ata) /\ hop.out \in Nat

(* The buyback slice of a fee. *)
LEMMA SliceType ==
  ASSUME NEW fee \in Nat
  PROVE  (fee * Global.buyback_basis_points) \div BPS \in Nat
<1>1. BPS \in Nat /\ BPS > 0
  BY DEF BPS
<1>2. fee * Global.buyback_basis_points \in Nat
  BY <1>1, GlobalAssumption
<1> QED BY <1>1, <1>2, DivBounds

(* A buying hop takes its tokens off the ATA and keeps the curve priceable.  *)
CurveTook(hop) == hop.base_ata = base_ata - hop.out /\ CurveMoved(hop)

(* A buy of `tokens` from the curve, and of leg_tokens from the pool-to-be.  *)
LEMMA CurveBoughtGood ==
  ASSUME CurveInv, NEW tokens \in Nat, NEW curve_net \in Nat, NEW leg_tokens \in Nat,
         NEW leg_net \in Nat, NEW fee \in Nat, NEW creator_fee \in Nat,
         tokens <= curve.real_token_reserves, tokens + leg_tokens <= base_ata,
         tokens = curve.real_token_reserves \/ leg_tokens = 0
  PROVE  CurveTook(CurveBought(tokens, curve_net, leg_tokens, leg_net, fee, creator_fee))
<1> DEFINE kept == fee - (fee * Global.buyback_basis_points) \div BPS
           c == [curve EXCEPT
                   !.virtual_token_reserves = @ - tokens, !.real_token_reserves = @ - tokens,
                   !.virtual_quote_reserves = @ + curve_net,
                   !.real_quote_reserves = @ + curve_net,
                   !.complete = tokens = curve.real_token_reserves,
                   !.post_complete_base_out = @ + leg_tokens,
                   !.post_complete_quote_in = @ + leg_net,
                   !.protocol_fees = @ + kept,
                   !.creator_fee = @ + creator_fee]
           hop == CurveBought(tokens, curve_net, leg_tokens, leg_net, fee, creator_fee)
<1>1. hop = [err |-> OK, out |-> tokens + leg_tokens, curve |-> c,
             base_ata |-> base_ata - (tokens + leg_tokens)]
  BY DEF CurveBought, CurveFill
<1>2. /\ curve \in CurveRecord /\ base_ata \in Nat /\ base_ata <= SupplyOfC
      /\ curve.real_token_reserves < curve.virtual_token_reserves
      /\ curve.virtual_quote_reserves > 0
      /\ curve.real_token_reserves <= base_ata /\ SupplyOfC \in Nat
  BY GlobalAssumption DEF CurveInv, Priceable, Funded, SupplyOfC
<1>3. kept \in Int
  BY SliceType
<1> HIDE DEF kept
<1>4. /\ curve.virtual_token_reserves - tokens \in Nat
      /\ curve.real_token_reserves - tokens \in Nat
      /\ curve.virtual_quote_reserves + curve_net \in Nat
      /\ curve.real_quote_reserves + curve_net \in Int
      /\ curve.post_complete_base_out + leg_tokens \in Int
      /\ curve.post_complete_quote_in + leg_net \in Int
      /\ curve.protocol_fees + kept \in Int
      /\ curve.creator_fee + creator_fee \in Int
  BY <1>2, <1>3 DEF CurveRecord
<1>5. c \in CurveRecord
  <2> DEFINE done == tokens = curve.real_token_reserves
  <2>1. done \in BOOLEAN
    OBVIOUS
  <2>2. c = [curve EXCEPT
               !.virtual_token_reserves = curve.virtual_token_reserves - tokens,
               !.real_token_reserves = curve.real_token_reserves - tokens,
               !.virtual_quote_reserves = curve.virtual_quote_reserves + curve_net,
               !.real_quote_reserves = curve.real_quote_reserves + curve_net,
               !.complete = done,
               !.post_complete_base_out = curve.post_complete_base_out + leg_tokens,
               !.post_complete_quote_in = curve.post_complete_quote_in + leg_net,
               !.protocol_fees = curve.protocol_fees + kept,
               !.creator_fee = curve.creator_fee + creator_fee]
    OBVIOUS
  <2> HIDE DEF c, done
  <2> QED BY <1>2, <1>4, <2>1, <2>2 DEF CurveRecord
<1>6. /\ c.virtual_token_reserves = curve.virtual_token_reserves - tokens
      /\ c.real_token_reserves = curve.real_token_reserves - tokens
      /\ c.virtual_quote_reserves = curve.virtual_quote_reserves + curve_net
  BY <1>2 DEF CurveRecord
<1> HIDE DEF c
<1>7. Priceable(c)
  BY <1>2, <1>4, <1>5, <1>6 DEF Priceable, CurveRecord
<1>8. Funded(c, base_ata - (tokens + leg_tokens))
  BY <1>2, <1>6 DEF Funded, CurveRecord
<1> HIDE DEF hop
<1>9. CurveTook(hop)
  BY <1>1, <1>2, <1>7, <1>8 DEF CurveTook, CurveMoved
<1> QED BY <1>9 DEF hop

(* A hop's buy of the curve, which may complete it and go on into the leg.   *)
LEMMA CurveHopBuyGood ==
  ASSUME CurveInv, NEW n \in Nat, NEW legs, CurveHopBuy(n, legs).err = OK
  PROVE  CurveTook(CurveHopBuy(n, legs))
<1> DEFINE rates     == HopRates(curve, legs)
           split     == ExactInFeeAmounts(n, CurveBps(rates))
           net       == n - (split.fees[1] + split.fees[2])
           tokens    == SwapExactInput(net - 1, curve.virtual_quote_reserves,
                                       curve.virtual_token_reserves).val
           remaining == curve.real_token_reserves
           cost      == BuyQuote(curve, remaining).val
           fee       == FeeAmount(cost, rates.protocol_fee_bps)
           creator   == FeeAmount(cost, rates.creator_fee_bps)
           ptb       == PoolToBe(curve, base_ata, remaining, cost)
           left      == n - (cost + fee + creator)
           leg       == PostCompleteLegExactQuote(ptb, rates, left, TRUE)
           hop       == CurveHopBuy(n, legs)
<1>1. /\ Priceable(curve) /\ Funded(curve, base_ata) /\ base_ata \in Nat
      /\ curve.virtual_quote_reserves \in Nat /\ curve.virtual_quote_reserves > 0
      /\ curve.virtual_token_reserves \in Nat /\ curve.virtual_token_reserves > 0
      /\ remaining \in Nat /\ remaining <= base_ata
  BY DEF CurveInv, Priceable, Funded, CurveRecord
<1>2. rates \in Fees /\ cost \in Nat
  BY <1>1, CurveRates, PriceableHasRates, BuyQuoteType
<1>3. /\ split.err = OK
      /\ \/ tokens <= remaining /\ hop = CurveBought(tokens, net, 0, 0, split.fees[1],
                                                     split.fees[2])
         \/ hop = CurveBought(remaining, cost, 0, 0, fee, creator)
         \/ /\ ~ (n <= cost + fee + creator) /\ ptb.err = OK /\ leg.err = OK
            /\ hop = CurveBought(remaining, cost, leg.base_out, leg.quote_in,
                                 fee + leg.fee, creator + leg.creator_fee)
  BY DEF CurveHopBuy, CurveFill, OK
<1>4. /\ split.fees[1] \in Nat /\ split.fees[2] \in Nat /\ net \in Nat /\ net > 0
  BY <1>2, <1>3, CurveSplit
<1>5. fee \in Nat /\ creator \in Nat
  BY <1>2, FeeOnType
<1> HIDE DEF hop
<1>6. CASE tokens <= remaining /\ hop = CurveBought(tokens, net, 0, 0, split.fees[1],
                                                    split.fees[2])
  <2>1. tokens \in Nat
    <3> HIDE DEF net, remaining
    <3> QED BY <1>1, <1>4, SwapType
  <2> HIDE DEF tokens, net, split
  <2>2. tokens + 0 <= base_ata
    BY <1>1, <1>6, <2>1
  <2> HIDE DEF remaining
  <2>3. /\ tokens <= curve.real_token_reserves /\ 0 \in Nat /\ net \in Nat
        /\ split.fees[1] \in Nat /\ split.fees[2] \in Nat
    BY <1>4, <1>6 DEF remaining
  <2>4. CurveTook(CurveBought(tokens, net, 0, 0, split.fees[1], split.fees[2]))
    <3> DEFINE f1 == split.fees[1]
               f2 == split.fees[2]
    <3>1. f1 \in Nat /\ f2 \in Nat
      BY <2>3
    <3> HIDE DEF f1, f2
    <3>2. CurveTook(CurveBought(tokens, net, 0, 0, f1, f2))
      BY <2>1, <2>2, <2>3, <3>1, CurveBoughtGood
    <3> QED BY <3>2 DEF f1, f2
  <2> QED BY <1>6, <2>4, Zenon DEF hop
<1>7. CASE hop = CurveBought(remaining, cost, 0, 0, fee, creator)
  <2> HIDE DEF cost, fee, creator
  <2>1. remaining + 0 <= base_ata /\ remaining <= curve.real_token_reserves
    BY <1>1
  <2>2. 0 \in Nat /\ remaining \in Nat /\ remaining = curve.real_token_reserves
    BY <1>1
  <2> HIDE DEF remaining
  <2>3. CurveTook(CurveBought(remaining, cost, 0, 0, fee, creator))
    BY <1>2, <1>5, <2>1, <2>2, CurveBoughtGood
  <2> QED BY <1>7, <2>3, Zenon DEF hop
<1>8. CASE /\ ~ (n <= cost + fee + creator) /\ ptb.err = OK /\ leg.err = OK
           /\ hop = CurveBought(remaining, cost, leg.base_out, leg.quote_in,
                                fee + leg.fee, creator + leg.creator_fee)
  <2>1. left \in Nat
    BY <1>2, <1>5, <1>8
  <2>2. /\ ptb.base \in Nat /\ ptb.base > 0 /\ ptb.quote \in Nat /\ ptb.quote > 0
        /\ ptb.base = base_ata - remaining
    BY <1>1, <1>2, <1>8, PoolToBeGood
  <2> HIDE DEF ptb, left, rates
  <2>3. /\ leg.base_out \in Nat /\ leg.base_out < ptb.base
        /\ leg.quote_in \in Nat /\ leg.fee \in Nat /\ leg.creator_fee \in Nat
    BY <1>2, <1>8, <2>1, <2>2, LegGood
  <2> HIDE DEF leg, cost, fee, creator
  <2>4. /\ remaining + leg.base_out <= base_ata /\ remaining <= curve.real_token_reserves
        /\ fee + leg.fee \in Nat /\ creator + leg.creator_fee \in Nat
    BY <1>1, <1>5, <2>2, <2>3
  <2>5. remaining \in Nat /\ remaining = curve.real_token_reserves
    BY <1>1
  <2> HIDE DEF remaining
  <2>6. CurveTook(CurveBought(remaining, cost, leg.base_out, leg.quote_in,
                              fee + leg.fee, creator + leg.creator_fee))
    BY <1>2, <2>3, <2>4, <2>5, CurveBoughtGood
  <2> QED BY <1>8, <2>6, Zenon DEF hop
<1> QED BY <1>3, <1>6, <1>7, <1>8

(* What a sale takes out of a reserve is less than the reserve. *)
LEMMA SaleBounds ==
  ASSUME NEW n \in Nat, NEW q \in Nat, NEW t \in Nat, t > 0, q > 0
  PROVE  (n * q) \div (t + n) \in Nat /\ (n * q) \div (t + n) < q
<1> DEFINE g == (n * q) \div (t + n)
           a == n * q
           b == t + n
<1>1. a \in Nat /\ b \in Nat /\ b > 0
  OBVIOUS
<1>2. g \in Nat /\ b * g <= a
  <2> HIDE DEF a, b
  <2>1. a \div b \in Nat /\ b * (a \div b) <= a
    BY <1>1, DivBounds
  <2> QED BY <2>1 DEF a, b
<1>3. g < q
  <2> HIDE DEF g
  <2>1. SUFFICES ASSUME q <= g PROVE FALSE
    BY <1>2
  <2>2. q * (t + n) <= g * (t + n)
    BY <1>2, <2>1, MulMono
  <2>3. q * (t + n) = q * t + n * q /\ q * t > 0
    OBVIOUS
  <2>4. (t + n) * g = g * (t + n)
    BY <1>2
  <2>5. q * t \in Nat /\ n * q \in Nat /\ g * (t + n) \in Nat
    BY <1>2
  <2> QED BY <1>2, <2>2, <2>3, <2>4, <2>5
<1> QED BY <1>2, <1>3

(* A hop's sale to the curve. *)
LEMMA CurveHopSellGood ==
  ASSUME CurveInv, NEW n \in Nat, NEW legs, CurveHopSell(n, legs).err = OK
  PROVE  LET hop == CurveHopSell(n, legs)
         IN  CurveMoved(hop) /\ hop.base_ata = base_ata + n
<1> DEFINE rates   == HopRates(curve, legs)
           gross   == (n * curve.virtual_quote_reserves) \div (curve.virtual_token_reserves + n)
           fee     == FeeAmount(gross, rates.protocol_fee_bps)
           creator == FeeAmount(gross, rates.creator_fee_bps)
           kept    == fee - (fee * Global.buyback_basis_points) \div BPS
           c == [curve EXCEPT
                   !.virtual_token_reserves = @ + n, !.real_token_reserves = @ + n,
                   !.virtual_quote_reserves = @ - gross, !.real_quote_reserves = @ - gross,
                   !.protocol_fees = @ + kept,
                   !.creator_fee = @ + creator]
           hop     == CurveHopSell(n, legs)
<1>1. /\ hop = [err |-> OK, out |-> gross - (fee + creator), curve |-> c,
                base_ata |-> base_ata + n]
      /\ ~ (gross <= fee + creator) /\ ~ (n > HeldC)
  BY DEF CurveHopSell, CurveFill, OK
<1>2. /\ curve \in CurveRecord /\ base_ata \in Nat /\ base_ata <= SupplyOfC
      /\ curve.real_token_reserves < curve.virtual_token_reserves
      /\ curve.virtual_quote_reserves > 0 /\ curve.virtual_quote_reserves \in Nat
      /\ curve.virtual_token_reserves \in Nat /\ curve.virtual_token_reserves > 0
      /\ curve.real_token_reserves <= base_ata /\ SupplyOfC \in Nat
      /\ Priceable(curve)
  BY GlobalAssumption DEF CurveInv, Priceable, Funded, SupplyOfC, CurveRecord
<1>3. gross \in Nat /\ gross < curve.virtual_quote_reserves
  BY <1>2, SaleBounds
<1>4. rates \in Fees
  BY <1>2, CurveRates, PriceableHasRates
<1> HIDE DEF gross, rates
<1>5. fee \in Nat /\ creator \in Nat
  BY <1>3, <1>4, FeeOnType
<1> HIDE DEF fee, creator
<1>6. kept \in Int
  BY <1>5, SliceType
<1> HIDE DEF kept
<1>7. c \in CurveRecord
  <2>1. /\ curve.virtual_token_reserves + n \in Nat /\ curve.real_token_reserves + n \in Nat
        /\ curve.virtual_quote_reserves - gross \in Nat
        /\ curve.real_quote_reserves - gross \in Int
        /\ curve.protocol_fees + kept \in Int /\ curve.creator_fee + creator \in Int
    BY <1>2, <1>3, <1>5, <1>6 DEF CurveRecord
  <2>2. c = [curve EXCEPT
               !.virtual_token_reserves = curve.virtual_token_reserves + n,
               !.real_token_reserves = curve.real_token_reserves + n,
               !.virtual_quote_reserves = curve.virtual_quote_reserves - gross,
               !.real_quote_reserves = curve.real_quote_reserves - gross,
               !.protocol_fees = curve.protocol_fees + kept,
               !.creator_fee = curve.creator_fee + creator]
    OBVIOUS
  <2> HIDE DEF c
  <2> QED BY <1>2, <2>1, <2>2 DEF CurveRecord
<1>8. /\ c.virtual_token_reserves = curve.virtual_token_reserves + n
      /\ c.real_token_reserves = curve.real_token_reserves + n
      /\ c.virtual_quote_reserves = curve.virtual_quote_reserves - gross
  BY <1>2 DEF CurveRecord
<1> HIDE DEF c, hop
<1>9. Priceable(c)
  BY <1>2, <1>3, <1>7, <1>8 DEF Priceable, CurveRecord
<1>10. n <= SupplyOfC - base_ata
  BY <1>1, <1>2 DEF HeldC
<1>11. Funded(c, base_ata + n)
  BY <1>2, <1>8, <1>10 DEF Funded, CurveRecord
<1>12. CurveMoved(hop) /\ hop.base_ata = base_ata + n
  BY <1>1, <1>3, <1>5, <1>9, <1>11 DEF CurveMoved
<1> QED BY <1>12 DEF hop

-----------------------------------------------------------------------------
(* The first buy of a coin that does not exist yet *)

(* The seed of a coin quoted in Q is derived from Q's pool. *)
LEMMA SeedOnQ ==
  ASSUME NEW p, NEW b, NEW v
  PROVE  LET seed == PumpQuoteInitialVirtualQuoteReserves(
                       MigratedCurveOfQ, Origins["create_on_q"], {<<p, b, v>>})
         IN  seed.err = OK =>
               seed = SeedFrom(Global.initial_virtual_sol_reserves, b,
                               v + p.virtual_quote_reserves)
<1> DEFINE S == {Global.initial_virtual_sol_reserves}
           Q == {<<p, b, v>>}
           target == CHOOSE t \in S : TRUE
           q == CHOOSE q \in Q : TRUE
           origin == Origins["create_on_q"]
           c == MigratedCurveOfQ
           seed == PumpQuoteInitialVirtualQuoteReserves(c, origin, Q)
<1>1. origin.depth = 0
  BY DEF Origins
<1>2. /\ c.quote_mint = DEFAULT_KEY
      /\ c.real_quote_reserves = 0 /\ c.virtual_quote_reserves = 0
      /\ c.real_token_reserves = 0 /\ c.virtual_token_reserves = 0
  BY PoolMarketAssumption, PoolClientAssumption DEF MigratedCurveOfQ, BondingCurve
<1> HIDE DEF origin, c
<1>3. SeedTargets(c, origin) = S
  BY <1>1, <1>2 DEF SeedTargets
<1>4. IsMigrated(c)
  BY <1>2 DEF IsMigrated
<1>5. target = Global.initial_virtual_sol_reserves /\ q = <<p, b, v>>
  OBVIOUS
<1>6. Q # {} /\ S # {}
  OBVIOUS
<1> HIDE DEF S, Q
<1>7. seed.err = OK => seed = SeedFrom(target, q[2], q[3] + q[1].virtual_quote_reserves)
  BY <1>3, <1>4, <1>6 DEF PumpQuoteInitialVirtualQuoteReserves, Err, OK
<1> HIDE DEF target, q
<1>8. seed.err = OK => seed = SeedFrom(Global.initial_virtual_sol_reserves, b,
                                       v + p.virtual_quote_reserves)
  BY <1>5, <1>7
<1> QED BY <1>8 DEF Q, c, origin

(* The seed of a coin quoted in C is derived from C's open curve. *)
LEMMA SeedOnC ==
  ASSUME NEW c
  PROVE  LET seed == PumpQuoteInitialVirtualQuoteReserves(c, Origins["create_on_c"], {})
         IN  seed.err = OK =>
               /\ ~c.complete
               /\ seed = SeedFrom(SeedOfC, c.virtual_token_reserves, c.virtual_quote_reserves)
<1> DEFINE S == {SeedOfC}
           target == CHOOSE t \in S : TRUE
           origin == Origins["create_on_c"]
           seed == PumpQuoteInitialVirtualQuoteReserves(c, origin, {})
<1>1. origin.depth = 1 /\ origin.seed = SeedOfC
  BY DEF Origins
<1> HIDE DEF origin
<1>2. SeedTargets(c, origin) = S
  BY <1>1 DEF SeedTargets
<1>3. target = SeedOfC /\ S # {}
  OBVIOUS
<1> HIDE DEF S
<1>4. seed.err = OK =>
        /\ ~c.complete
        /\ seed = SeedFrom(target, c.virtual_token_reserves, c.virtual_quote_reserves)
  BY <1>2, <1>3 DEF PumpQuoteInitialVirtualQuoteReserves, Err, OK
<1> HIDE DEF target
<1> QED BY <1>3, <1>4 DEF origin

(* A derived seed is a positive u64, computed by three divisions. *)
LEMMA SeedValue ==
  ASSUME NEW target \in Nat, NEW base \in Nat, NEW quote \in Int,
         SeedFrom(target, base, quote).err = OK
  PROVE  LET real   == Global.initial_real_token_reserves
             unsold == Global.initial_virtual_token_reserves - real
             wanted == (target * real) \div unsold
             raise  == (wanted * base) \div (quote + wanted)
         IN  /\ quote > 0
             /\ SeedFrom(target, base, quote).val = (raise * unsold) \div real
             /\ SeedFrom(target, base, quote).val \in Nat
             /\ SeedFrom(target, base, quote).val > 0
<1> DEFINE real    == Global.initial_real_token_reserves
           unsold  == Global.initial_virtual_token_reserves - real
           wanted  == MulDiv(target, real, unsold)
           raise   == SwapExactInput(wanted.val, quote, base)
           derived == MulDiv(raise.val, unsold, real)
           s       == SeedFrom(target, base, quote)
<1>1. /\ ~ (quote <= 0) /\ wanted.err = OK /\ raise.err = OK /\ derived.err = OK
      /\ derived.val \in U64 /\ derived.val # 0 /\ s = derived
  <2> HIDE DEF wanted, raise, derived
  <2> QED BY DEF SeedFrom, Err, OK, wanted, raise, derived, unsold, real
<1>2. real \in Nat /\ real > 0 /\ unsold \in Nat /\ unsold > 0
  BY GlobalAssumption, PoolClientAssumption
<1> HIDE DEF real, unsold
<1>3. wanted.val = (target * real) \div unsold
  BY <1>2 DEF MulDiv, Ok
<1>4. raise.val = (wanted.val * base) \div (quote + wanted.val)
  <2> HIDE DEF wanted
  <2> QED BY <1>1 DEF SwapExactInput, MulDiv, Ok, Err, OK
<1>5. derived.val = (raise.val * unsold) \div real
  <2> HIDE DEF raise
  <2> QED BY <1>2 DEF MulDiv, Ok
<1>6. derived.val \in Nat /\ derived.val > 0
  <2> HIDE DEF derived
  <2> QED BY <1>1, U64Assumption DEF U64
<1> HIDE DEF wanted, raise, derived
<1>7. quote > 0
  BY <1>1
<1> HIDE DEF s
<1>8. /\ quote > 0
      /\ s.val = (((((target * real) \div unsold) * base)
                     \div (quote + ((target * real) \div unsold))) * unsold) \div real
      /\ s.val \in Nat /\ s.val > 0
  BY <1>1, <1>3, <1>4, <1>5, <1>6, <1>7
<1> QED BY <1>8 DEF s, real, unsold

(* The account create_v2 initializes with a positive seed can be priced. *)
LEMMA NewCurveNumbers ==
  ASSUME NEW mint, NEW seed \in Nat
  PROVE  LET c == NewCurve(mint, seed)
         IN  /\ HasRates(c) /\ ~c.complete
             /\ c.virtual_token_reserves = Global.initial_virtual_token_reserves
             /\ c.virtual_quote_reserves = seed
             /\ c.real_token_reserves = Global.initial_real_token_reserves
<1>1. CurveOfC \in BondingCurve
  BY PoolClientAssumption
<1> DEFINE c == NewCurve(mint, seed)
<1>2. /\ c.virtual_token_reserves = Global.initial_virtual_token_reserves
      /\ c.virtual_quote_reserves = seed
      /\ c.real_token_reserves = Global.initial_real_token_reserves
      /\ c.complete = FALSE
      /\ c.creator_fee_bps = CurveOfC.creator_fee_bps
      /\ c.token_total_supply = CurveOfC.token_total_supply
  BY <1>1 DEF NewCurve, BondingCurve
<1> HIDE DEF c
<1>3. HasRates(c)
  BY <1>1, <1>2, GlobalAssumption, PoolClientAssumption DEF HasRates, BondingCurve
<1> QED BY <1>2, <1>3 DEF c

(* What a first buy of `tokens` is quoted at. *)
SaysFirstBuy(q, cost, fees, tokens, slip) ==
  /\ cost \in Nat /\ fees \in Fees
  /\ q.err = OK =>
       /\ q.amount = AsU64(WithFees(cost, fees))
       /\ q.max_input = AddSlippage(q.amount, slip)
       /\ q.min_out = tokens /\ q.input_amount_used = tokens

(* A quoted first buy: what the tokens cost on the curve to be, with fees.   *)
LEMMA FirstBuyQuote ==
  ASSUME NEW mint, NEW seed \in Nat, NEW flags, NEW n \in Nat, n > 0, NEW slip
  PROVE  LET q    == QuoteTrade(flags, NewCurve(mint, seed), {}, SupplyOfC, TRUE, n, slip)
             real == Global.initial_real_token_reserves
             tokens == Least(n, real)
             cost == (tokens * seed) \div (Global.initial_virtual_token_reserves - tokens) + 1
             fees == CurveFeeBps(NewCurve(mint, seed), SupplyOfC).fees
         IN  SaysFirstBuy(q, cost, fees, tokens, slip)
<1> DEFINE c      == NewCurve(mint, seed)
           real   == Global.initial_real_token_reserves
           virt   == Global.initial_virtual_token_reserves
           tokens == Least(n, real)
           cost   == (tokens * seed) \div (virt - tokens) + 1
           bps    == CurveFeeBps(c, SupplyOfC)
           r      == BuySolAmountFromTokenAmount(c, SupplyOfC, n)
           q      == QuoteTrade(flags, c, {}, SupplyOfC, TRUE, n, slip)
<1>1. /\ HasRates(c) /\ ~c.complete /\ c.virtual_token_reserves = virt
      /\ c.virtual_quote_reserves = seed /\ c.real_token_reserves = real
  BY NewCurveNumbers
<1> HIDE DEF c
<1>2. real \in Nat /\ real > 0 /\ virt \in Nat /\ real < virt
  BY GlobalAssumption, PoolClientAssumption
<1> HIDE DEF real, virt
<1>3. tokens \in Nat /\ tokens < virt
  BY <1>2 DEF Least
<1>4. cost \in Nat
  <2> DEFINE a == tokens * seed
             b == virt - tokens
  <2> HIDE DEF tokens
  <2>1. a \in Nat /\ b \in Nat /\ b > 0
    BY <1>2, <1>3
  <2> HIDE DEF a, b
  <2>2. a \div b \in Nat
    BY <2>1, DivBounds
  <2> QED BY <2>2 DEF a, b
<1>5. bps.fees \in Fees
  BY <1>1, CurveRates
<1>6. q = BuyQuoteBondingCurveTokenOut(c, SupplyOfC, n, slip)
  BY <1>1 DEF QuoteTrade
<1>7. q.err = OK =>
        /\ r.err = OK /\ q.amount = r.val /\ q.max_input = AddSlippage(r.val, slip)
        /\ q.min_out = tokens /\ q.input_amount_used = tokens
  <2> HIDE DEF r, tokens
  <2>1. tokens = Least(n, c.real_token_reserves)
    BY <1>1 DEF tokens
  <2> HIDE DEF q
  <2>2. q = IF r.err # OK THEN NoQuote(r.err)
            ELSE Quote(OK, r.val, tokens, tokens, AddSlippage(r.val, slip))
    BY <1>6, <2>1 DEF BuyQuoteBondingCurveTokenOut, r
  <2>3. NoQuote(r.err).err = r.err
    BY DEF NoQuote, Quote
  <2> QED BY <2>2, <2>3 DEF Quote
<1>8. r.err = OK => r.val = AsU64(WithFees(cost, bps.fees))
  <2> HIDE DEF bps
  <2>1. /\ n # 0 /\ c.virtual_token_reserves # 0
        /\ ~ (tokens >= c.virtual_token_reserves)
    BY <1>1, <1>2, <1>3
  <2>2. r = IF bps.err # OK THEN Err(bps.err) ELSE Ok(AsU64(WithFees(cost, bps.fees)))
    <3> HIDE DEF tokens
    <3>1. Least(n, c.real_token_reserves) = tokens
      BY <1>1 DEF tokens
    <3> QED BY <1>1, <2>1, <3>1 DEF BuySolAmountFromTokenAmount, bps
  <2> QED BY <2>2 DEF Err, Ok
<1> HIDE DEF r, q, bps, cost, tokens
<1>9. q.err = OK =>
        /\ q.amount = AsU64(WithFees(cost, bps.fees))
        /\ q.max_input = AddSlippage(q.amount, slip)
        /\ q.min_out = tokens /\ q.input_amount_used = tokens
  BY <1>7, <1>8
<1> QED BY <1>4, <1>5, <1>9 DEF SaysFirstBuy, q, bps, cost, tokens, c, real, virt

-----------------------------------------------------------------------------
(* What a successful quote says, of whatever it was taken *)

(* What a quoter that succeeded said: q is quote, on a context and a trade   *)
(* that do not fail, whose outcome is a natural number.                      *)
Answered(q, ctx, t, out, quote) ==
  ctx.err = OK /\ t.err = OK /\ out \in Nat /\ q = quote

(* A plain buy: the cost with fees, cast to u64, and its slipped limit.      *)
LEMMA PoolBuyQuote ==
  ASSUME NEW p \in Pool, NEW b \in Nat, NEW v \in Nat, NEW flags, NEW n \in Nat,
         NEW slip \in Nat,
         BuyQuoteAmmTokenOut(flags, PoolContext(p, b, v, MintSupply), n, slip).err = OK
  PROVE  LET ctx == PoolContext(p, b, v, MintSupply)
             t == BuyBaseInput(flags, ctx, n)
         IN  Answered(BuyQuoteAmmTokenOut(flags, ctx, n, slip), ctx, t, TotalIn(t),
                      Quote(OK, TotalIn(t), n, n, AddSlippage(TotalIn(t), slip)))
<1> DEFINE ctx == PoolContext(p, b, v, MintSupply)
           t == BuyBaseInput(flags, ctx, n)
           q == BuyQuoteAmmTokenOut(flags, ctx, n, slip)
<1>1. /\ ctx.base_mint_supply \in Nat /\ ctx.quote_reserve \in Nat
      /\ ctx.base_reserve = b /\ ctx.creator_fee_bps \in Nat
  BY ReadContext
<1> HIDE DEF ctx
<1>2. /\ ctx.err = OK /\ t.err = OK
      /\ q = Quote(OK, TotalIn(t), n, n, AddSlippage(TotalIn(t), slip))
  <2> HIDE DEF t
  <2>1. q = IF ctx.err # OK THEN NoQuote(ctx.err)
            ELSE IF t.err # OK THEN NoQuote(t.err)
            ELSE Quote(OK, TotalIn(t), n, n, AddSlippage(TotalIn(t), slip))
    BY DEF BuyQuoteAmmTokenOut, t
  <2>2. q.err = OK
    BY DEF ctx
  <2> HIDE DEF q
  <2>3. NoQuote(ctx.err).err = ctx.err /\ NoQuote(t.err).err = t.err
    BY DEF NoQuote, Quote
  <2> QED BY <2>1, <2>2, <2>3
<1>3. HasReserves(ctx)
  BY <1>2 DEF BuyBaseInput, NotPriced, OK
<1>4. b > 0
  BY <1>1, <1>3 DEF HasReserves
<1>5. AmmBps(AmmFeeBps(ctx).fees) \in FeeTriple
  BY <1>1, <1>4, AmmRates
<1>6. t.raw \in Nat /\ t.fees \in FeeTriple
  BY <1>1, <1>2, <1>5, BuyCost
<1> HIDE DEF t
<1>7. t.raw + SumOf(t.fees) \in Nat
  BY <1>6 DEF SumOf, FeeTriple
<1>8. TotalIn(t) \in Nat
  <2> DEFINE x == t.raw + SumOf(t.fees)
  <2>1. x \in Nat
    BY <1>7
  <2> HIDE DEF x
  <2>2. AsU64(x) \in Nat
    BY <2>1, AsU64Shrinks
  <2> QED BY <2>2 DEF TotalIn, x
<1> QED BY <1>2, <1>8 DEF Answered, t, ctx

(* An exact-in buy: tokens, and their slipped minimum. *)
LEMMA PoolExactInQuote ==
  ASSUME NEW p \in Pool, NEW b \in Nat, NEW v \in Nat, NEW flags, NEW n \in Nat,
         NEW slip \in Nat,
         BuyQuoteAmmSolIn(flags, PoolContext(p, b, v, MintSupply), n, slip).err = OK
  PROVE  LET ctx == PoolContext(p, b, v, MintSupply)
             t == BuyQuoteInput(flags, ctx, n)
         IN  Answered(BuyQuoteAmmSolIn(flags, ctx, n, slip), ctx, t, t.base,
                      Quote(OK, t.base, SubSlippage(t.base, slip), n, AddSlippage(n, slip)))
<1> DEFINE ctx == PoolContext(p, b, v, MintSupply)
           t == BuyQuoteInput(flags, ctx, n)
           q == BuyQuoteAmmSolIn(flags, ctx, n, slip)
           bps == AmmBps(AmmFeeBps(ctx).fees)
           split == ExactInFeeAmounts(n, bps)
<1>1. /\ ctx.base_mint_supply \in Nat /\ ctx.quote_reserve \in Nat
      /\ ctx.base_reserve = b /\ ctx.creator_fee_bps \in Nat
  BY ReadContext
<1> HIDE DEF ctx
<1>2. /\ ctx.err = OK /\ t.err = OK
      /\ q = Quote(OK, t.base, SubSlippage(t.base, slip), n, AddSlippage(n, slip))
  <2> HIDE DEF t
  <2>1. q = IF ctx.err # OK THEN NoQuote(ctx.err)
            ELSE IF t.err # OK THEN NoQuote(t.err)
            ELSE Quote(OK, t.base, SubSlippage(t.base, slip), n, AddSlippage(n, slip))
    BY DEF BuyQuoteAmmSolIn, t
  <2>2. q.err = OK
    BY DEF ctx
  <2> HIDE DEF q
  <2>3. NoQuote(ctx.err).err = ctx.err /\ NoQuote(t.err).err = t.err
    BY DEF NoQuote, Quote
  <2> QED BY <2>1, <2>2, <2>3
<1>3. /\ HasReserves(ctx) /\ split.err = OK
      /\ t.base = SwapExactInput(split.net - 1, ctx.quote_reserve, ctx.base_reserve).val
  BY <1>2 DEF BuyQuoteInput, NotPriced, Priced, OK
<1>4. b > 0 /\ ctx.quote_reserve > 0
  BY <1>1, <1>3 DEF HasReserves
<1>5. bps \in FeeTriple
  BY <1>1, <1>4, AmmRates
<1> HIDE DEF bps
<1>6. split.net \in Nat /\ split.net > 0
  BY <1>3, <1>5, ExactInSplit DEF FeeTriple
<1> HIDE DEF split, t
<1>7. t.base \in Nat
  <2> DEFINE net == split.net
             x == ctx.quote_reserve
  <2>1. /\ net \in Nat /\ net > 0 /\ x \in Nat /\ x > 0
        /\ t.base = SwapExactInput(net - 1, x, b).val
    BY <1>1, <1>3, <1>4, <1>6
  <2> HIDE DEF net, x
  <2>2. SwapExactInput(net - 1, x, b).val \in Nat
    BY <1>4, <2>1, SwapType
  <2> QED BY <2>1, <2>2
<1> QED BY <1>2, <1>7 DEF Answered, t, ctx

(* A sale: the proceeds, and their slipped minimum. *)
LEMMA PoolSellQuote ==
  ASSUME NEW p \in Pool, NEW b \in Nat, NEW v \in Nat, NEW flags, NEW n \in Nat,
         NEW slip \in Nat,
         SellQuoteAmm(flags, PoolContext(p, b, v, MintSupply), n, slip).err = OK
  PROVE  LET ctx == PoolContext(p, b, v, MintSupply)
             t == SellBaseInput(flags, ctx, n)
         IN  Answered(SellQuoteAmm(flags, ctx, n, slip), ctx, t, FinalOut(t),
                      Quote(OK, FinalOut(t), SubSlippage(FinalOut(t), slip), n, n))
<1> DEFINE ctx == PoolContext(p, b, v, MintSupply)
           t == SellBaseInput(flags, ctx, n)
           q == SellQuoteAmm(flags, ctx, n, slip)
           bps == AmmBps(AmmFeeBps(ctx).fees)
           raw == (ctx.quote_reserve * n) \div (ctx.base_reserve + n)
           fees == ThreeFees(raw, bps)
<1>1. /\ ctx.base_mint_supply \in Nat /\ ctx.quote_reserve \in Nat
      /\ ctx.base_reserve = b /\ ctx.creator_fee_bps \in Nat
  BY ReadContext
<1> HIDE DEF ctx
<1>2. /\ ctx.err = OK /\ t.err = OK
      /\ q = Quote(OK, FinalOut(t), SubSlippage(FinalOut(t), slip), n, n)
  <2> HIDE DEF t
  <2>1. q = IF ctx.err # OK THEN NoQuote(ctx.err)
            ELSE IF t.err # OK THEN NoQuote(t.err)
            ELSE Quote(OK, FinalOut(t), SubSlippage(FinalOut(t), slip), n, n)
    BY DEF SellQuoteAmm, t
  <2>2. q.err = OK
    BY DEF ctx
  <2> HIDE DEF q
  <2>3. NoQuote(ctx.err).err = ctx.err /\ NoQuote(t.err).err = t.err
    BY DEF NoQuote, Quote
  <2> QED BY <2>1, <2>2, <2>3
<1>3. /\ HasReserves(ctx) /\ ~ (raw < SumOf(fees))
      /\ t = [err |-> OK, raw |-> raw, base |-> n, fees |-> fees]
  <2> HIDE DEF raw, fees
  <2>1. HasReserves(ctx) /\ ~ (raw < SumOf(fees))
    BY <1>2 DEF SellBaseInput, NotPriced, OK, raw, fees
  <2> QED BY <1>2, <2>1 DEF SellBaseInput, NotPriced, Priced, OK, raw, fees
<1>4. b > 0
  BY <1>1, <1>3 DEF HasReserves
<1>5. bps \in FeeTriple
  BY <1>1, <1>4, AmmRates
<1>6. raw \in Nat
  <2> DEFINE x == ctx.quote_reserve * n
             y == ctx.base_reserve + n
  <2>1. x \in Nat /\ y \in Nat /\ y > 0
    BY <1>1, <1>4
  <2> HIDE DEF x, y
  <2>2. x \div y \in Nat
    BY <2>1, DivBounds
  <2> QED BY <2>2 DEF x, y
<1> HIDE DEF raw, bps
<1>7. fees \in FeeTriple
  BY <1>5, <1>6, ThreeFeesType
<1> HIDE DEF fees
<1>8. SumOf(fees) \in Nat
  BY <1>7 DEF SumOf, FeeTriple
<1> HIDE DEF t
<1>9. FinalOut(t) \in Nat
  BY <1>3, <1>6, <1>8 DEF FinalOut
<1> QED BY <1>2, <1>9 DEF Answered, t, ctx

(* Which quoter answers which request. *)
LEMMA QuoteByKind ==
  ASSUME NEW r, NEW b, NEW v, NEW a
  PROVE  LET ctx == PoolContext(r.pool, b, v, MintSupply)
             q == QuoteOf(r, b, v, a)
         IN  /\ r.kind = "buy" =>
                  q = BuyQuoteAmmTokenOut(r.disable_flags, ctx, r.amount, r.slippage_bps)
             /\ r.kind = "sell" =>
                  q = SellQuoteAmm(r.disable_flags, ctx, r.amount, r.slippage_bps)
             /\ r.kind = "exact_in" =>
                  q = BuyQuoteAmmSolIn(r.disable_flags, ctx, r.amount, r.slippage_bps)
             /\ r.kind \in Creates => q = QuoteFirstBuy(r, b, v)
<1> DEFINE ctx == PoolContext(r.pool, b, v, MintSupply)
           q == QuoteOf(r, b, v, a)
           trade(is_buy) == QuoteTrade(r.disable_flags, MigratedCurveOfQ, {ctx}, MintSupply,
                                       is_buy, r.amount, r.slippage_bps)
<1>1. MigratedCurveOfQ.complete
  BY PoolMarketAssumption DEF MigratedCurveOfQ, BondingCurve
<1>2. /\ trade(TRUE) = BuyQuoteAmmTokenOut(r.disable_flags, ctx, r.amount, r.slippage_bps)
      /\ trade(FALSE) = SellQuoteAmm(r.disable_flags, ctx, r.amount, r.slippage_bps)
  <2> DEFINE S == {ctx}
             x == CHOOSE y \in S : TRUE
  <2>1. x = ctx /\ S # {}
    OBVIOUS
  <2> HIDE DEF S, ctx
  <2>2. /\ QuoteTrade(r.disable_flags, MigratedCurveOfQ, S, MintSupply, TRUE, r.amount,
                      r.slippage_bps)
             = BuyQuoteAmmTokenOut(r.disable_flags, x, r.amount, r.slippage_bps)
        /\ QuoteTrade(r.disable_flags, MigratedCurveOfQ, S, MintSupply, FALSE, r.amount,
                      r.slippage_bps)
             = SellQuoteAmm(r.disable_flags, x, r.amount, r.slippage_bps)
    BY <1>1, <2>1 DEF QuoteTrade
  <2> HIDE DEF x
  <2> QED BY <2>1, <2>2 DEF S
<1>3. r.kind = "buy" => q = trade(TRUE)
  BY DEF QuoteOf, Creates
<1>4. r.kind = "sell" => q = trade(FALSE)
  BY DEF QuoteOf, Creates
<1>5. r.kind = "exact_in" =>
        q = BuyQuoteAmmSolIn(r.disable_flags, ctx, r.amount, r.slippage_bps)
  BY DEF QuoteOf, Creates
<1>6. r.kind \in Creates => q = QuoteFirstBuy(r, b, v)
  BY DEF QuoteOf
<1> HIDE DEF q, trade, ctx
<1> QED BY <1>2, <1>3, <1>4, <1>5, <1>6 DEF q, ctx

(* The first buy of a coin quoted in Q or in C. *)
LEMMA CreateQuote ==
  ASSUME NEW r, r.kind \in Creates, NEW b, NEW v, NEW a, QuoteOf(r, b, v, a).err = OK
  PROVE  LET on_q == r.kind = "create_on_q"
             seed == IF on_q
                       THEN SeedFrom(Global.initial_virtual_sol_reserves, b,
                                     v + r.pool.virtual_quote_reserves)
                       ELSE SeedFrom(SeedOfC, r.curve.virtual_token_reserves,
                                     r.curve.virtual_quote_reserves)
         IN  /\ seed.err = OK /\ (~on_q => ~r.curve.complete)
             /\ QuoteOf(r, b, v, a)
                  = QuoteTrade(r.disable_flags,
                               NewCurve(IF on_q THEN CurveOfC.quote_mint ELSE "C", seed.val), {},
                               SupplyOfC, TRUE, r.amount, r.slippage_bps)
<1> DEFINE on_q == r.kind = "create_on_q"
           derived == PumpQuoteInitialVirtualQuoteReserves(
                        IF on_q THEN MigratedCurveOfQ ELSE r.curve, Origins[r.kind],
                        IF on_q THEN {<<r.pool, b, v>>} ELSE {})
           seed == IF on_q
                     THEN SeedFrom(Global.initial_virtual_sol_reserves, b,
                                   v + r.pool.virtual_quote_reserves)
                     ELSE SeedFrom(SeedOfC, r.curve.virtual_token_reserves,
                                   r.curve.virtual_quote_reserves)
           trade(s) == QuoteTrade(r.disable_flags,
                                  NewCurve(IF on_q THEN CurveOfC.quote_mint ELSE "C", s.val),
                                  {}, SupplyOfC, TRUE, r.amount, r.slippage_bps)
           q == QuoteOf(r, b, v, a)
<1>1. q = IF derived.err # OK THEN NoQuote(derived.err) ELSE trade(derived)
  BY QuoteByKind DEF QuoteFirstBuy
<1>2. derived.err = OK /\ q = trade(derived)
  <2> HIDE DEF derived, trade
  <2>1. q.err = OK
    OBVIOUS
  <2> HIDE DEF q
  <2>2. NoQuote(derived.err).err = derived.err
    BY DEF NoQuote, Quote
  <2> QED BY <1>1, <2>1, <2>2
<1>3. derived = seed /\ (~on_q => ~r.curve.complete)
  <2>1. CASE r.kind = "create_on_q"
    <3>1. derived = PumpQuoteInitialVirtualQuoteReserves(
                      MigratedCurveOfQ, Origins["create_on_q"], {<<r.pool, b, v>>})
      BY <2>1
    <3>2. seed = SeedFrom(Global.initial_virtual_sol_reserves, b,
                          v + r.pool.virtual_quote_reserves)
      BY <2>1
    <3> HIDE DEF derived, seed
    <3> QED BY <1>2, <2>1, <3>1, <3>2, SeedOnQ
  <2>2. CASE r.kind = "create_on_c"
    <3>1. derived = PumpQuoteInitialVirtualQuoteReserves(r.curve, Origins["create_on_c"], {})
      BY <2>2
    <3>2. seed = SeedFrom(SeedOfC, r.curve.virtual_token_reserves,
                          r.curve.virtual_quote_reserves)
      BY <2>2
    <3> HIDE DEF derived, seed
    <3> QED BY <1>2, <2>2, <3>1, <3>2, SeedOnC
  <2> QED BY <2>1, <2>2 DEF Creates
<1> HIDE DEF derived, seed, q
<1>4. seed.err = OK /\ (~on_q => ~r.curve.complete) /\ q = trade(seed)
  BY <1>2, <1>3
<1> QED BY <1>4 DEF q, seed

(* The limits of a quote follow from its amount. *)
Limits(r, q) ==
  /\ q.err = OK /\ q.amount \in Nat
  /\ r.kind \in {"buy"} \cup Creates => q.max_input = AddSlippage(q.amount, r.slippage_bps)
  /\ r.kind \in {"exact_in", "sell"} => q.min_out = SubSlippage(q.amount, r.slippage_bps)
  /\ r.kind \in {"route_buy", "route_sell"} =>
       q.min_out = Greatest(SubSlippage(q.amount, r.slippage_bps), 1)

(* A quote made of naturals. *)
Says(q, x, m, y) ==
  /\ q \in Quotes /\ q.err = OK
  /\ q.amount = x /\ q.min_out = m /\ q.max_input = y

(* A quote of natural numbers says what it was made of.                      *)
LEMMA QuoteRecord ==
  ASSUME NEW x \in Nat, NEW m \in Nat, NEW u \in Nat, NEW y \in Nat
  PROVE  Says(Quote(OK, x, m, u, y), x, m, y)
BY DEF Says, Quote, Quotes

(* Whatever was read, torn or not: a quote that is returned is well formed.  *)
LEMMA QuoteSound ==
  ASSUME NEW r \in Requests, Priceable(r.curve), r.kind \in Creates => r.amount > 0,
         NEW b \in Nat, NEW v \in Nat, NEW a \in Nat, QuoteOf(r, b, v, a).err = OK
  PROVE  QuoteOf(r, b, v, a) \in Quotes /\ Limits(r, QuoteOf(r, b, v, a))
<1> DEFINE ctx == PoolContext(r.pool, b, v, MintSupply)
           q == QuoteOf(r, b, v, a)
           n == r.amount
           s == r.slippage_bps
           flags == r.disable_flags
<1>1. /\ r.pool \in Pool /\ n \in Nat /\ s \in Nat /\ r.kind \in Kinds
  BY DEF Requests
<1>2. q.err = OK
  OBVIOUS
<1>3. \A x \in Nat : AddSlippage(x, s) \in Nat /\ SubSlippage(x, s) \in Nat
                     /\ Greatest(SubSlippage(x, s), 1) \in Nat
  <2> SUFFICES ASSUME NEW x \in Nat
               PROVE  AddSlippage(x, s) \in Nat /\ SubSlippage(x, s) \in Nat
                      /\ Greatest(SubSlippage(x, s), 1) \in Nat
    OBVIOUS
  <2> HIDE DEF s
  <2>1. AddSlippage(x, s) \in Nat /\ SubSlippage(x, s) \in Nat
    BY <1>1, SlippageBounds
  <2> QED BY <2>1 DEF Greatest
<1>4. CASE r.kind = "buy"
  <2> DEFINE t == BuyBaseInput(flags, ctx, n)
             out == TotalIn(t)
  <2>1. q = BuyQuoteAmmTokenOut(flags, ctx, n, s)
    BY <1>4, QuoteByKind
  <2>2. BuyQuoteAmmTokenOut(flags, ctx, n, s).err = OK
    BY <1>2, <2>1
  <2>3. out \in Nat /\ q = Quote(OK, out, n, n, AddSlippage(out, s))
    <3> HIDE DEF n, s, flags, q
    <3>1. Answered(BuyQuoteAmmTokenOut(flags, ctx, n, s), ctx, t, out,
                   Quote(OK, out, n, n, AddSlippage(out, s)))
      BY <1>1, <2>2, PoolBuyQuote
    <3> QED BY <2>1, <3>1 DEF Answered
  <2> HIDE DEF out, q, n, s
  <2>4. AddSlippage(out, s) \in Nat /\ SubSlippage(out, s) \in Nat /\ AddSlippage(n, s) \in Nat
    BY <1>1, <1>3, <2>3
  <2>5. Says(q, out, n, AddSlippage(out, s))
    BY <1>1, <2>3, <2>4, QuoteRecord
  <2>6. Limits(r, q)
    BY <1>4, <2>3, <2>5 DEF Says, Limits, Creates, s
  <2> QED BY <2>5, <2>6 DEF Says, q
<1>5. CASE r.kind = "exact_in"
  <2> DEFINE t == BuyQuoteInput(flags, ctx, n)
             out == t.base
  <2>1. q = BuyQuoteAmmSolIn(flags, ctx, n, s)
    BY <1>5, QuoteByKind
  <2>2. BuyQuoteAmmSolIn(flags, ctx, n, s).err = OK
    BY <1>2, <2>1
  <2>3. out \in Nat /\ q = Quote(OK, out, SubSlippage(out, s), n, AddSlippage(n, s))
    <3> HIDE DEF n, s, flags, q
    <3>1. Answered(BuyQuoteAmmSolIn(flags, ctx, n, s), ctx, t, out,
                   Quote(OK, out, SubSlippage(out, s), n, AddSlippage(n, s)))
      BY <1>1, <2>2, PoolExactInQuote
    <3> QED BY <2>1, <3>1 DEF Answered
  <2> HIDE DEF out, q, n, s
  <2>4. AddSlippage(out, s) \in Nat /\ SubSlippage(out, s) \in Nat /\ AddSlippage(n, s) \in Nat
    BY <1>1, <1>3, <2>3
  <2>5. Says(q, out, SubSlippage(out, s), AddSlippage(n, s))
    BY <1>1, <2>3, <2>4, QuoteRecord
  <2>6. Limits(r, q)
    BY <1>5, <2>3, <2>5 DEF Says, Limits, Creates, s
  <2> QED BY <2>5, <2>6 DEF Says, q
<1>6. CASE r.kind = "sell"
  <2> DEFINE t == SellBaseInput(flags, ctx, n)
             out == FinalOut(t)
  <2>1. q = SellQuoteAmm(flags, ctx, n, s)
    BY <1>6, QuoteByKind
  <2>2. SellQuoteAmm(flags, ctx, n, s).err = OK
    BY <1>2, <2>1
  <2>3. out \in Nat /\ q = Quote(OK, out, SubSlippage(out, s), n, n)
    <3> HIDE DEF n, s, flags, q
    <3>1. Answered(SellQuoteAmm(flags, ctx, n, s), ctx, t, out,
                   Quote(OK, out, SubSlippage(out, s), n, n))
      BY <1>1, <2>2, PoolSellQuote
    <3> QED BY <2>1, <3>1 DEF Answered
  <2> HIDE DEF out, q, n, s
  <2>4. AddSlippage(out, s) \in Nat /\ SubSlippage(out, s) \in Nat /\ AddSlippage(n, s) \in Nat
    BY <1>1, <1>3, <2>3
  <2>5. Says(q, out, SubSlippage(out, s), n)
    BY <1>1, <2>3, <2>4, QuoteRecord
  <2>6. Limits(r, q)
    BY <1>6, <2>3, <2>5 DEF Says, Limits, Creates, s
  <2> QED BY <2>5, <2>6 DEF Says, q
<1>7. CASE r.kind \in {"route_buy", "route_sell"}
  <2> DEFINE is_buy == r.kind = "route_buy"
             on_pool == PoolHop(r.pool, b, v, MintSupply)
             on_curve == CurveHop(r.curve, SupplyOfC, a)
             h1 == IF is_buy THEN on_pool ELSE on_curve
             h2 == IF is_buy THEN on_curve ELSE on_pool
             o1 == HopOut(flags, h1, User, is_buy, n, ForHop(is_buy, 1, 2))
             o2 == HopOut(flags, h2, User, is_buy, o1.val, ForHop(is_buy, 2, 2))
  <2>1. /\ o1.err = OK /\ o2.err = OK
        /\ q = Quote(OK, o2.val, Greatest(SubSlippage(o2.val, s), 1), n, n)
    <3>1. is_buy \in BOOLEAN /\ (is_buy <=> r.kind = "route_buy")
      OBVIOUS
    <3> HIDE DEF is_buy
    <3>2. SaysRoute(q, n, o1, o2, s)
      BY <1>7, <3>1, RouteQuote
    <3> HIDE DEF q, o1, o2
    <3> QED BY <1>2, <3>2 DEF SaysRoute, q
  <2>2. ASSUME NEW hop \in {on_pool, on_curve}, NEW m \in Nat, NEW legs,
               HopOut(flags, hop, User, is_buy, m, legs).err = OK
        PROVE  HopOut(flags, hop, User, is_buy, m, legs).val \in Nat
    <3>0. is_buy \in BOOLEAN
      OBVIOUS
    <3> HIDE DEF is_buy, flags
    <3>1. CASE hop = on_pool
      <4> DEFINE t == MultiHopPoolHop(flags, r.pool, b, v, MintSupply, is_buy, m, legs)
      <4>1. HopOut(flags, hop, User, is_buy, m, legs)
              = [err |-> t.err, val |-> IF is_buy THEN t.base ELSE FinalOut(t)]
        BY <3>1 DEF HopOut, PoolHop
      <4>2. t.err = OK
        <5> HIDE DEF t
        <5> QED BY <2>2, <4>1
      <4>3. (is_buy => t.base \in Nat) /\ (~is_buy => FinalOut(t) \in Nat)
        <5> DEFINE p == r.pool
                   k == MultiHopPoolHop(flags, p, b, v, MintSupply, is_buy, m, legs)
        <5>1. p \in Pool /\ k.err = OK
          BY <1>1, <4>2
        <5> HIDE DEF p, q, n, s, on_pool, on_curve, h1, h2, o1, o2, t
        <5>2. (is_buy => k.base \in Nat) /\ (~is_buy => FinalOut(k) \in Nat)
          BY <3>0, <5>1, PoolHopType, Zenon
        <5> HIDE DEF k
        <5>3. k = t
          BY DEF k, p, t
        <5> QED BY <5>2, <5>3
      <4> HIDE DEF t
      <4> QED BY <4>1, <4>3
    <3>2. CASE hop = on_curve
      <4> DEFINE o == MultiHopCurveHop(r.curve, SupplyOfC, a, User, is_buy, m, legs)
      <4>1. HopOut(flags, hop, User, is_buy, m, legs) = o
        BY <3>2 DEF HopOut, CurveHop
      <4>2. o.err = OK
        BY <2>2, <4>1
      <4>3. o.val \in Nat
        BY <3>0, <4>2, CurveHopType
      <4> QED BY <4>1, <4>3
    <3> QED BY <2>2, <3>1, <3>2
  <2>3. h1 \in {on_pool, on_curve} /\ h2 \in {on_pool, on_curve}
    OBVIOUS
  <2> HIDE DEF h1, h2, on_pool, on_curve
  <2>4. o1.val \in Nat
    BY <1>1, <2>1, <2>2, <2>3
  <2>5. o2.val \in Nat
    <3> HIDE DEF o1
    <3> QED BY <2>1, <2>2, <2>3, <2>4
  <2> DEFINE out == o2.val
             least == Greatest(SubSlippage(out, s), 1)
  <2>6. out \in Nat /\ least \in Nat /\ q = Quote(OK, out, least, n, n)
    BY <1>3, <2>1, <2>5
  <2> HIDE DEF out, least, q, n
  <2>7. Says(q, out, least, n)
    BY <1>1, <2>6, QuoteRecord
  <2>8. least = Greatest(SubSlippage(q.amount, s), 1)
    BY <2>7 DEF Says, least
  <2>9. Limits(r, q)
    BY <1>7, <2>6, <2>7, <2>8 DEF Says, Limits, Creates
  <2> QED BY <2>7, <2>9 DEF Says, q
<1>8. CASE r.kind \in Creates
  <2> DEFINE on_q == r.kind = "create_on_q"
             seed == IF on_q
                       THEN SeedFrom(Global.initial_virtual_sol_reserves, b,
                                     v + r.pool.virtual_quote_reserves)
                       ELSE SeedFrom(SeedOfC, r.curve.virtual_token_reserves,
                                     r.curve.virtual_quote_reserves)
             mint == IF on_q THEN CurveOfC.quote_mint ELSE "C"
             real == Global.initial_real_token_reserves
             virt == Global.initial_virtual_token_reserves
             tokens == Least(n, real)
             cost == (tokens * seed.val) \div (virt - tokens) + 1
             fees == CurveFeeBps(NewCurve(mint, seed.val), SupplyOfC).fees
  <2>1. /\ seed.err = OK
        /\ q = QuoteTrade(flags, NewCurve(mint, seed.val), {}, SupplyOfC, TRUE, n, s)
    BY <1>8, CreateQuote, Zenon
  <2>2. seed.val \in Nat
    <3>1. /\ Global.initial_virtual_sol_reserves \in Nat /\ SeedOfC \in Nat
          /\ v + r.pool.virtual_quote_reserves \in Int
          /\ r.curve.virtual_token_reserves \in Nat /\ r.curve.virtual_quote_reserves \in Int
      BY <1>1, PoolClientAssumption DEF Pool, Priceable, CurveRecord
    <3>2. CASE on_q
      BY <2>1, <3>1, <3>2, SeedValue
    <3>3. CASE ~on_q
      BY <2>1, <3>1, <3>3, SeedValue
    <3> QED BY <3>2, <3>3
  <2> HIDE DEF seed, mint
  <2>3. /\ cost \in Nat /\ fees \in Fees /\ q.amount = AsU64(WithFees(cost, fees))
        /\ q.max_input = AddSlippage(q.amount, s)
        /\ q.min_out = tokens /\ q.input_amount_used = tokens
    <3>1. n \in Nat /\ n > 0
      BY <1>1, <1>8
    <3> DEFINE sv == seed.val
    <3>2. sv \in Nat
      BY <2>2
    <3>3. q = QuoteTrade(flags, NewCurve(mint, sv), {}, SupplyOfC, TRUE, n, s)
      BY <2>1
    <3> HIDE DEF sv, n, s, flags, q
    <3>4. QuoteTrade(flags, NewCurve(mint, sv), {}, SupplyOfC, TRUE, n, s).err = OK
      BY <1>2, <3>3
    <3>5. SaysFirstBuy(QuoteTrade(flags, NewCurve(mint, sv), {}, SupplyOfC, TRUE, n, s),
                       (Least(n, real) * sv) \div (virt - Least(n, real)) + 1,
                       CurveFeeBps(NewCurve(mint, sv), SupplyOfC).fees, Least(n, real), s)
      BY <3>1, <3>2, FirstBuyQuote
    <3> QED BY <3>3, <3>4, <3>5, Zenon DEF SaysFirstBuy, sv
  <2>4. tokens \in Nat
    BY <1>1, GlobalAssumption DEF Least
  <2> HIDE DEF cost, fees, tokens
  <2>5. WithFees(cost, fees) \in Nat
    BY <2>3, FeeOnType
  <2>6. q.amount \in Nat
    BY <2>3, <2>5, AsU64Shrinks
  <2>7. q = Quote(OK, q.amount, tokens, tokens, AddSlippage(q.amount, s))
    <3> DEFINE cost2 == BuySolAmountFromTokenAmount(NewCurve(mint, seed.val), SupplyOfC, n)
    <3>1. \E x, m, u, y : q = Quote(OK, x, m, u, y)
      BY <1>2, <2>1, NewCurveNumbers
         DEF QuoteTrade, BuyQuoteBondingCurveTokenOut, NoQuote, Quote
    <3>2. PICK x, m, u, y : q = Quote(OK, x, m, u, y)
      BY <3>1
    <3> HIDE DEF q
    <3>3. q.amount = x /\ q.min_out = m /\ q.input_amount_used = u /\ q.max_input = y
      BY <3>2 DEF Quote
    <3> QED BY <2>3, <3>2, <3>3
  <2> HIDE DEF q, n, s
  <2>8. q \in Quotes
    <3> DEFINE x == q.amount
               y == AddSlippage(x, s)
    <3>1. x \in Nat /\ y \in Nat /\ q = Quote(OK, x, tokens, tokens, y)
      BY <1>3, <2>6, <2>7
    <3> HIDE DEF x, y
    <3>2. Says(q, x, tokens, y)
      BY <2>4, <3>1, QuoteRecord
    <3> QED BY <3>2 DEF Says
  <2> QED BY <1>2, <1>8, <2>3, <2>6, <2>8 DEF Limits, Creates, q, s
<1> QED BY <1>1, <1>4, <1>5, <1>6, <1>7, <1>8 DEF Kinds

(* Every quote but that of a first buy on C reads a pool whose virtual       *)
(* reserve and later vault add up.                                           *)
LEMMA PoolIsRead ==
  ASSUME NEW r \in Requests, Balanced(r.pool), r.kind # "create_on_c",
         NEW b \in Nat, NEW v \in Nat, NEW a \in Nat, v + Boost <= U64_MAX,
         QuoteOf(r, b, v, a).err = OK
  PROVE  EffectiveQuoteReserve(r.pool, v) = Ok(v + r.pool.virtual_quote_reserves)
<1> DEFINE ctx == PoolContext(r.pool, b, v, MintSupply)
           q == QuoteOf(r, b, v, a)
           n == r.amount
           s == r.slippage_bps
           flags == r.disable_flags
<1>1. /\ r.pool \in Pool /\ n \in Nat /\ s \in Nat /\ r.kind \in Kinds
  BY DEF Requests
<1>2. q.err = OK
  OBVIOUS
<1>3. ctx.err = OK => EffectiveQuoteReserve(r.pool, v) = Ok(v + r.pool.virtual_quote_reserves)
  <2> DEFINE p == r.pool
             c == PoolContext(p, b, v, MintSupply)
  <2>1. p \in Pool
    BY <1>1
  <2> HIDE DEF p, q, n, s, flags
  <2>2. c.err = OK => EffectiveQuoteReserve(p, v) = Ok(v + p.virtual_quote_reserves)
    BY <2>1, ReadContext
  <2> HIDE DEF c
  <2>3. c = ctx
    BY DEF c, p
  <2> HIDE DEF ctx
  <2> QED BY <2>2, <2>3 DEF p
<1>4. CASE r.kind = "buy"
  <2>1. BuyQuoteAmmTokenOut(flags, ctx, n, s).err = OK
    BY <1>2, <1>4, QuoteByKind
  <2>2. ctx.err = OK
    <3> DEFINE t == BuyBaseInput(flags, ctx, n)
    <3> HIDE DEF n, s, flags, q
    <3>1. Answered(BuyQuoteAmmTokenOut(flags, ctx, n, s), ctx, t, TotalIn(t),
                   Quote(OK, TotalIn(t), n, n, AddSlippage(TotalIn(t), s)))
      BY <1>1, <2>1, PoolBuyQuote
    <3> QED BY <3>1 DEF Answered
  <2> QED BY <1>3, <2>2
<1>5. CASE r.kind = "exact_in"
  <2>1. BuyQuoteAmmSolIn(flags, ctx, n, s).err = OK
    BY <1>2, <1>5, QuoteByKind
  <2>2. ctx.err = OK
    <3> DEFINE t == BuyQuoteInput(flags, ctx, n)
    <3> HIDE DEF n, s, flags, q
    <3>1. Answered(BuyQuoteAmmSolIn(flags, ctx, n, s), ctx, t, t.base,
                   Quote(OK, t.base, SubSlippage(t.base, s), n, AddSlippage(n, s)))
      BY <1>1, <2>1, PoolExactInQuote
    <3> QED BY <3>1 DEF Answered
  <2> QED BY <1>3, <2>2
<1>6. CASE r.kind = "sell"
  <2>1. SellQuoteAmm(flags, ctx, n, s).err = OK
    BY <1>2, <1>6, QuoteByKind
  <2>2. ctx.err = OK
    <3> DEFINE t == SellBaseInput(flags, ctx, n)
    <3> HIDE DEF n, s, flags, q
    <3>1. Answered(SellQuoteAmm(flags, ctx, n, s), ctx, t, FinalOut(t),
                   Quote(OK, FinalOut(t), SubSlippage(FinalOut(t), s), n, n))
      BY <1>1, <2>1, PoolSellQuote
    <3> QED BY <3>1 DEF Answered
  <2> QED BY <1>3, <2>2
<1>7. CASE r.kind \in {"route_buy", "route_sell"}
  <2> DEFINE is_buy == r.kind = "route_buy"
             on_pool == PoolHop(r.pool, b, v, MintSupply)
             on_curve == CurveHop(r.curve, SupplyOfC, a)
             h1 == IF is_buy THEN on_pool ELSE on_curve
             h2 == IF is_buy THEN on_curve ELSE on_pool
             o1 == HopOut(flags, h1, User, is_buy, n, ForHop(is_buy, 1, 2))
             o2 == HopOut(flags, h2, User, is_buy, o1.val, ForHop(is_buy, 2, 2))
  <2>1. o1.err = OK /\ o2.err = OK
    <3>1. is_buy \in BOOLEAN /\ (is_buy <=> r.kind = "route_buy")
      OBVIOUS
    <3> HIDE DEF is_buy
    <3>2. SaysRoute(q, n, o1, o2, s)
      BY <1>7, <3>1, RouteQuote
    <3> HIDE DEF q, o1, o2
    <3> QED BY <1>2, <3>2 DEF SaysRoute, q
  <2>2. is_buy \in BOOLEAN
    OBVIOUS
  <2>3. \E m, legs : MultiHopPoolHop(flags, r.pool, b, v, MintSupply, is_buy, m, legs).err = OK
    <3>1. \A m, legs : HopOut(flags, on_pool, User, is_buy, m, legs).err
                         = MultiHopPoolHop(flags, r.pool, b, v, MintSupply, is_buy, m, legs).err
      BY DEF HopOut, PoolHop
    <3>2. h1 = on_pool \/ h2 = on_pool
      OBVIOUS
    <3> HIDE DEF h1, h2, on_pool
    <3> QED BY <2>1, <3>1, <3>2
  <2>4. ctx.err = OK
    <3> HIDE DEF is_buy, flags
    <3> QED BY <2>3 DEF MultiHopPoolHop, NotPriced, OK
  <2> QED BY <1>3, <2>4
<1>8. CASE r.kind = "create_on_q"
  <2> DEFINE e == v + r.pool.virtual_quote_reserves
             target == Global.initial_virtual_sol_reserves
             seed == SeedFrom(target, b, e)
  <2>1. seed.err = OK
    <3>1. r.kind \in Creates
      BY <1>8 DEF Creates
    <3>2. (IF r.kind = "create_on_q" THEN seed
           ELSE SeedFrom(SeedOfC, r.curve.virtual_token_reserves,
                         r.curve.virtual_quote_reserves)).err = OK
      BY <3>1, CreateQuote, Zenon
    <3> HIDE DEF seed
    <3> QED BY <1>8, <3>2
  <2>2. e \in Int /\ e <= v + Boost
    BY <1>1, PoolMarketAssumption DEF Pool, Balanced, BucketsOf
  <2>3. target \in Nat
    BY PoolClientAssumption
  <2> HIDE DEF e, target
  <2>4. e > 0
    BY <2>1, <2>2, <2>3, SeedValue
  <2>5. e \in U64
    BY <2>2, <2>4, U64Assumption, PoolMarketAssumption DEF U64
  <2> QED BY <2>5 DEF EffectiveQuoteReserve, e
<1> QED BY <1>1, <1>4, <1>5, <1>6, <1>7, <1>8 DEF Kinds, Creates

(* Two requests that read the same are quoted the same. *)
LEMMA SameQuote ==
  ASSUME NEW r, NEW s, r.kind = s.kind, r.amount = s.amount, r.slippage_bps = s.slippage_bps,
         r.pool = s.pool, r.curve = s.curve, r.disable_flags = s.disable_flags,
         NEW b, NEW v, NEW a
  PROVE  QuoteOf(r, b, v, a) = QuoteOf(s, b, v, a)
<1>1. RouteHops(r, b, v, a) = RouteHops(s, b, v, a)
  BY DEF RouteHops
<1>2. QuoteFirstBuy(r, b, v) = QuoteFirstBuy(s, b, v)
  BY Zenon DEF QuoteFirstBuy
<1> QED BY <1>1, <1>2, Zenon DEF QuoteOf

-----------------------------------------------------------------------------
(* The invariant is inductive *)

(* A request that has ended knows nothing it would act on. *)
LEMMA IdleKnown ==
  ASSUME NEW phase \in {"idle", "landed"}
  PROVE  Known([Idle EXCEPT !.phase = phase])
<1>1. CurveOfC \in CurveRecord
  <2>1. CurveOfC \in BondingCurve
    BY PoolClientAssumption
  <2> QED BY <2>1 DEF BondingCurve, CurveRecord
<1>2. Priceable(CurveOfC)
  BY <1>1, PoolClientAssumption DEF Priceable
<1>3. OpenPool \in Pool /\ Balanced(OpenPool)
  <2>1. OpenPool \in Pool
    BY Deposits
  <2> QED BY <2>1, PoolMarketAssumption DEF Balanced, OpenPool, BucketsOf
<1>4. NoQuote("none") \in Quotes
  BY DEF NoQuote, Quote, Quotes
<1> DEFINE r == [Idle EXCEPT !.phase = phase]
<1>5. /\ r = [phase |-> phase, kind |-> "sell", amount |-> 0, slippage_bps |-> 0,
              pool |-> OpenPool, curve |-> CurveOfC, disable_flags |-> {},
              base_reserve |-> 0, quote_vault_balance |-> 0, base_ata_amount |-> 0,
              pool_then |-> OpenPool, quote |-> NoQuote("none")]
  BY DEF Idle
<1> HIDE DEF r
<1>6. r \in Requests
  BY <1>1, <1>3, <1>4, <1>5 DEF Requests, Phases, Kinds
<1>7. r.phase \notin Pending /\ r.phase # "built" /\ r.curve = CurveOfC /\ r.pool = OpenPool
  BY <1>5 DEF Pending
<1> QED BY <1>2, <1>3, <1>6, <1>7 DEF Known, r

(* Idle is idle.                                                             *)
LEMMA IdleIdle == [Idle EXCEPT !.phase = "idle"] = Idle
BY DEF Idle

(* The invariant holds at the start.                                         *)
LEMMA ClientInitInv == ClientInit => ClientInv /\ Abstract!Init
<1> SUFFICES ASSUME ClientInit PROVE ClientInv /\ Abstract!Init
  OBVIOUS
<1>1. Inv /\ Abstract!Init
  BY InitInv DEF ClientInit
<1>2. Known(request)
  BY IdleKnown, IdleIdle DEF ClientInit
<1>3. CurveInv
  <2>1. Priceable(CurveOfC)
    BY IdleKnown, IdleIdle DEF Known, Idle
  <2>2. CurveOfC.real_token_reserves \in Nat
    BY <2>1 DEF Priceable, CurveRecord
  <2>3. Funded(curve, base_ata)
    BY <2>2, GlobalAssumption, PoolClientAssumption DEF ClientInit, Funded, SupplyOfC
  <2> QED BY <2>1, <2>3 DEF ClientInit, CurveInv
<1> QED BY <1>1, <1>2, <1>3 DEF ClientInv

(* What each kind of request does to the pool and to the curve of C when its *)
(* transaction executes, given that its fills are fills of the program.      *)
Executed(r) ==
  \/ /\ r.kind = "buy"
     /\ \E f \in {BuyFill(r.amount)} :
          Bought(f) /\ Charge(f) <= r.quote.max_input /\ ApplyBuy(f, 2)
     /\ UNCHANGED <<curve, base_ata>>
  \/ /\ r.kind = "exact_in"
     /\ \E f \in {BuyExactInFill(r.amount)} :
          Bought(f) /\ f.base >= r.quote.min_out /\ ApplyBuy(f, 2)
     /\ UNCHANGED <<curve, base_ata>>
  \/ /\ r.kind = "sell"
     /\ \E f \in {SellFill(r.amount)} :
          Sold(f) /\ Proceeds(f) >= r.quote.min_out /\ ApplySell(f, 2)
     /\ UNCHANGED <<curve, base_ata>>
  \/ /\ r.kind = "route_buy"
     /\ \E f \in {HopBuyFill(r.amount, ForHop(TRUE, 1, 2))} :
          \E hop \in {CurveHopBuy(f.base, ForHop(TRUE, 2, 2))} :
            /\ Bought(f) /\ CurveTook(hop) /\ hop.err = OK /\ hop.out >= r.quote.min_out
            /\ ApplyBuy(f, 3)
            /\ curve' = hop.curve /\ base_ata' = hop.base_ata
  \/ /\ r.kind = "route_sell"
     /\ \E hop \in {CurveHopSell(r.amount, ForHop(FALSE, 1, 2))} :
          \E f \in {HopSellFill(hop.out, ForHop(FALSE, 2, 2))} :
            /\ Sold(f) /\ CurveMoved(hop) /\ hop.err = OK /\ Proceeds(f) >= r.quote.min_out
            /\ ApplySell(f, 3)
            /\ curve' = hop.curve /\ base_ata' = hop.base_ata
  \/ /\ r.kind \in Creates /\ CanCreate(r)
     /\ UNCHANGED <<amm, curve, base_ata>>

(* Every fill that lands is a fill of the program. *)
LEMMA ExecuteExecuted ==
  ASSUME ClientInv, NEW r, r.amount \in Nat, Execute(r)
  PROVE  Executed(r)
<1> DEFINE n == r.amount
<1>1. n \in Nat /\ Inv /\ CurveInv
  BY DEF ClientInv
<1>2. CASE r.kind = "buy" /\ Buy(n, r.quote.max_input, 2) /\ UNCHANGED <<curve, base_ata>>
  <2>1. Charge(BuyFill(n)) <= r.quote.max_input /\ ApplyBuy(BuyFill(n), 2)
    BY <1>2 DEF Buy
  <2>2. BuyFill(n).err = OK
    BY <2>1 DEF ApplyBuy, CanBuy
  <2>3. Bought(BuyFill(n))
    BY <1>1, <2>2, BuyFillGood
  <2> QED BY <1>2, <2>1, <2>3 DEF Executed
<1>3. CASE r.kind = "exact_in" /\ BuyExactQuoteIn(n, r.quote.min_out)
           /\ UNCHANGED <<curve, base_ata>>
  <2>1. BuyExactInFill(n).base >= r.quote.min_out /\ ApplyBuy(BuyExactInFill(n), 2)
    BY <1>3 DEF BuyExactQuoteIn
  <2>2. BuyExactInFill(n).err = OK
    BY <2>1 DEF ApplyBuy, CanBuy
  <2>3. Bought(BuyExactInFill(n))
    BY <1>1, <2>2, BuyExactInFillGood
  <2> QED BY <1>3, <2>1, <2>3 DEF Executed
<1>4. CASE r.kind = "sell" /\ Sell(n, r.quote.min_out, 2) /\ UNCHANGED <<curve, base_ata>>
  <2>1. Proceeds(SellFill(n)) >= r.quote.min_out /\ ApplySell(SellFill(n), 2)
    BY <1>4 DEF Sell
  <2>2. SellFill(n).err = OK
    BY <2>1 DEF ApplySell, CanSell
  <2>3. Sold(SellFill(n))
    BY <1>1, <2>2, SellFillGood
  <2> QED BY <1>4, <2>1, <2>3 DEF Executed
<1>5. CASE r.kind = "route_buy" /\ RouteBuy(n, r.quote.min_out)
  <2> DEFINE l1 == ForHop(TRUE, 1, 2)
             l2 == ForHop(TRUE, 2, 2)
             f == HopBuyFill(n, l1)
             hop == CurveHopBuy(f.base, l2)
  <2>1. /\ hop.err = OK /\ hop.out >= r.quote.min_out /\ ApplyBuy(f, 3)
        /\ curve' = hop.curve /\ base_ata' = hop.base_ata
    BY <1>5 DEF RouteBuy
  <2>2. f.err = OK
    BY <2>1 DEF ApplyBuy, CanBuy
  <2>3. Bought(f)
    <3> HIDE DEF l1
    <3> QED BY <1>1, <2>2, HopBuyFillGood
  <2>4. CurveTook(hop)
    <3>1. f.base \in Nat
      BY <2>3 DEF Bought
    <3> HIDE DEF f, l2
    <3> QED BY <1>1, <2>1, <3>1, CurveHopBuyGood
  <2> QED BY <1>5, <2>1, <2>3, <2>4 DEF Executed
<1>6. CASE r.kind = "route_sell" /\ RouteSell(n, r.quote.min_out)
  <2> DEFINE l1 == ForHop(FALSE, 1, 2)
             l2 == ForHop(FALSE, 2, 2)
             hop == CurveHopSell(n, l1)
             f == HopSellFill(hop.out, l2)
  <2>1. /\ hop.err = OK /\ Proceeds(f) >= r.quote.min_out /\ ApplySell(f, 3)
        /\ curve' = hop.curve /\ base_ata' = hop.base_ata
    BY <1>6 DEF RouteSell
  <2>2. CurveMoved(hop)
    <3> HIDE DEF l1
    <3> QED BY <1>1, <2>1, CurveHopSellGood
  <2>3. f.err = OK
    BY <2>1 DEF ApplySell, CanSell
  <2>4. Sold(f)
    <3>1. hop.out \in Nat
      BY <2>2 DEF CurveMoved
    <3> HIDE DEF hop, l2
    <3> QED BY <1>1, <2>3, <3>1, HopSellFillGood
  <2> QED BY <1>6, <2>1, <2>2, <2>4 DEF Executed
<1>7. CASE r.kind \in Creates /\ CanCreate(r) /\ UNCHANGED <<amm, curve, base_ata>>
  BY <1>7 DEF Executed
<1> QED BY <1>2, <1>3, <1>4, <1>5, <1>6, <1>7 DEF Execute

(* What a step of the client or of others may do to the chain. *)
ChainSafe == StepSafe /\ CurveInv'

(* A transaction that leaves the curve alone keeps its invariant.            *)
LEMMA CurveStays ==
  ASSUME CurveInv, UNCHANGED <<curve, base_ata>>
  PROVE  CurveInv'
BY DEF CurveInv, Priceable, Funded, SupplyOfC

(* So does one that moves it by a hop of the program.                        *)
LEMMA CurveMoves ==
  ASSUME NEW hop, CurveMoved(hop), curve' = hop.curve, base_ata' = hop.base_ata
  PROVE  CurveInv'
BY DEF CurveInv, CurveMoved, Priceable, Funded, SupplyOfC

(* A step that leaves the pool's accounts alone is safe.                     *)
LEMMA PoolStays ==
  ASSUME Inv, UNCHANGED amm
  PROVE  StepSafe
<1>1. /\ UNCHANGED <<pool, base_vault, quote_vault, circulating, purse, paid_out>>
      /\ disable_flags' \subseteq {BUY_FLAG, SELL_FLAG}
  BY DEF amm, Inv, TypeOK
<1> QED BY <1>1, StillInv DEF StepSafe

(* A transaction that lands keeps the chain's invariants. *)
LEMMA ExecutedSafe ==
  ASSUME ClientInv, NEW r, Executed(r)
  PROVE  ChainSafe
<1> USE DEF ChainSafe
<1>1. Inv /\ CurveInv
  BY DEF ClientInv
<1>2. ASSUME NEW f, NEW v, Bought(f), ApplyBuy(f, v) PROVE StepSafe
  BY <1>1, <1>2, ApplyBuyInv DEF StepSafe
<1>3. ASSUME NEW f, NEW v, Sold(f), ApplySell(f, v) PROVE StepSafe
  BY <1>1, <1>3, ApplySellInv DEF StepSafe
<1>4. \/ \E f, v : Bought(f) /\ ApplyBuy(f, v)
      \/ \E f, v : Sold(f) /\ ApplySell(f, v)
      \/ UNCHANGED amm
  BY DEF Executed
<1>5. \/ \E hop : CurveMoved(hop) /\ curve' = hop.curve /\ base_ata' = hop.base_ata
      \/ UNCHANGED <<curve, base_ata>>
  BY DEF Executed, CurveTook
<1>6. StepSafe
  BY <1>1, <1>2, <1>3, <1>4, PoolStays
<1>7. CurveInv'
  BY <1>1, <1>5, CurveStays, CurveMoves
<1> QED BY <1>6, <1>7

(* A request reads the pool and the curve of C as they are. *)
LEMMA FetchVenuesKnown ==
  ASSUME ClientInv, NEW kind \in Kinds, NEW amount \in Nat, NEW slippage_bps \in Nat,
         kind \in Creates => amount > 0, FetchVenues(kind, amount, slippage_bps)
  PROVE  Known(request')
<1>1. /\ pool \in Pool /\ Balanced(pool) /\ Priceable(curve) /\ curve \in CurveRecord
      /\ disable_flags \in SUBSET {BUY_FLAG, SELL_FLAG}
  BY DEF ClientInv, Inv, TypeOK, Books, Balanced, BucketsOf, Buckets, CurveInv, Priceable
<1>2. /\ OpenPool \in Pool /\ NoQuote("none") \in Quotes
  BY Deposits DEF NoQuote, Quote, Quotes
<1>3. request' = [phase |-> "fetched_venues", kind |-> kind, amount |-> amount,
                  slippage_bps |-> slippage_bps, pool |-> pool, curve |-> curve,
                  disable_flags |-> disable_flags, base_reserve |-> 0,
                  quote_vault_balance |-> 0, base_ata_amount |-> 0,
                  pool_then |-> OpenPool, quote |-> NoQuote("none")]
  BY DEF FetchVenues, Idle
<1>4. request' \in Requests
  BY <1>1, <1>2, <1>3 DEF Requests, Phases
<1> QED BY <1>1, <1>3, <1>4 DEF Known

(* The second round: what it reads is well formed, and so is the quote.      *)
LEMMA FetchVaultsKnown ==
  ASSUME ClientInv, FetchVaults
  PROVE  Known(request')
<1> DEFINE q == QuoteOf(request, base_vault, quote_vault, base_ata)
           s == [request EXCEPT !.phase = "built", !.base_reserve = base_vault,
                                !.quote_vault_balance = quote_vault,
                                !.base_ata_amount = base_ata, !.pool_then = pool, !.quote = q]
<1>1. /\ request.phase = "fetched_venues"
      /\ request' = IF q.err = OK THEN s ELSE Idle
  BY DEF FetchVaults
<1>2. CASE q.err # OK
  <2>1. request' = [Idle EXCEPT !.phase = "idle"]
    <3> HIDE DEF q, s
    <3> QED BY <1>1, <1>2, IdleIdle
  <2> QED BY <2>1, IdleKnown
<1>3. CASE q.err = OK
  <2>1. request' = s
    <3> HIDE DEF q, s
    <3> QED BY <1>1, <1>3
  <2>2. /\ request \in Requests /\ Priceable(request.curve) /\ Balanced(request.pool)
        /\ (request.kind \in Creates => request.amount > 0)
    BY <1>1 DEF ClientInv, Known, Pending
  <2>3. /\ base_vault \in Nat /\ quote_vault \in Nat /\ base_ata \in Nat
        /\ pool \in Pool /\ Balanced(pool)
    BY DEF ClientInv, Inv, TypeOK, Books, Balanced, BucketsOf, Buckets, CurveInv, Funded
  <2>4. q \in Quotes
    <3>1. QuoteOf(request, base_vault, quote_vault, base_ata).err = OK
      BY <1>3
    <3> HIDE DEF q
    <3> QED BY <2>2, <2>3, <3>1, QuoteSound DEF q
  <2>5. q = QuoteOf(s, base_vault, quote_vault, base_ata)
    <3>1. /\ request.kind = s.kind /\ request.amount = s.amount
          /\ request.slippage_bps = s.slippage_bps /\ request.pool = s.pool
          /\ request.curve = s.curve /\ request.disable_flags = s.disable_flags
      BY <2>2 DEF Requests
    <3> HIDE DEF s
    <3> QED BY <3>1, SameQuote
  <2> HIDE DEF q
  <2>6. s \in Requests
    BY <2>2, <2>3, <2>4 DEF Requests, Phases
  <2>7. /\ s.phase = "built" /\ s.kind = request.kind /\ s.amount = request.amount
        /\ s.pool = request.pool /\ s.curve = request.curve
        /\ s.quote_vault_balance = quote_vault /\ s.base_reserve = base_vault
        /\ s.base_ata_amount = base_ata /\ s.pool_then = pool /\ s.quote = q
    BY <2>2 DEF Requests
  <2> HIDE DEF s
  <2>8. quote_vault + Boost <= U64_MAX
    <3>1. /\ purse \in Nat /\ paid_out \in Nat
          /\ purse + quote_vault + paid_out = Purse + (OpenQuote - Boost)
      BY DEF ClientInv, Inv, TypeOK, Conserved
    <3> QED BY <2>3, <3>1, Deposits, PoolMarketAssumption, U64Assumption
  <2>9. EffectiveQuoteReserve(pool, quote_vault) = Ok(quote_vault + pool.virtual_quote_reserves)
    <3>1. EffectiveQuoteReserve(pool, quote_vault) = Ok(Effective)
      BY LiveReserves DEF ClientInv, Booked
    <3> QED BY <3>1 DEF Effective
  <2> QED BY <1>3, <2>1, <2>2, <2>3, <2>5, <2>6, <2>7, <2>8, <2>9 DEF Known
<1> QED BY <1>2, <1>3

(* What the client or others do keeps ClientInv. *)
LEMMA ClientNextInv == ClientInv /\ [ClientNext]_vars => ClientInv' /\ StepSafe
<1> SUFFICES ASSUME ClientInv, [ClientNext]_vars PROVE ChainSafe /\ Known(request')
  <2>1. Known(request') => Known(request)'
    OBVIOUS
  <2> QED BY <2>1 DEF ClientInv, ChainSafe, StepSafe
<1>1. Inv /\ CurveInv /\ Known(request)
  BY DEF ClientInv
<1>2. UNCHANGED chain => ChainSafe
  BY <1>1, PoolStays, CurveStays DEF chain, ChainSafe
<1>3. request' = Idle => Known(request')
  BY IdleKnown, IdleIdle
<1>4. ASSUME NEW kind \in Kinds, NEW slippage_bps \in Slippages,
             NEW amount \in IF kind \in Creates THEN FirstBuys ELSE Amounts,
             FetchVenues(kind, amount, slippage_bps)
      PROVE  ChainSafe /\ Known(request')
  <2>1. (\A x \in Slippages : x \in Nat) /\ (\A x \in FirstBuys : x \in Nat \ {0})
        /\ (\A x \in Amounts : x \in Nat)
    BY PoolClientAssumption, PoolMarketAssumption, Zenon
  <2>2. slippage_bps \in Nat /\ amount \in Nat /\ (kind \in Creates => amount > 0)
    BY <2>1
  <2>3. UNCHANGED chain
    BY <1>4 DEF FetchVenues
  <2> QED BY <1>2, <1>4, <2>2, <2>3, FetchVenuesKnown
<1>5. CASE FetchVaults
  BY <1>2, <1>5, FetchVaultsKnown DEF FetchVaults
<1>6. CASE RpcFails \/ GiveUp
  BY <1>2, <1>3, <1>6 DEF RpcFails, GiveUp
<1>7. CASE Land
  <2>1. request.amount \in Nat
    BY <1>1 DEF Known, Requests
  <2>2. Executed(request)
    BY <1>7, <2>1, ExecuteExecuted DEF Land
  <2>3. Known(request')
    BY <1>7, IdleKnown DEF Land
  <2> QED BY <2>2, <2>3, ExecutedSafe
<1>8. CASE OthersOnPool
  <2>1. StepSafe
    BY <1>1, <1>8, NextInv DEF OthersOnPool
  <2>2. CurveInv' /\ Known(request')
    BY <1>1, <1>8, CurveStays DEF OthersOnPool
  <2> QED BY <2>1, <2>2 DEF ChainSafe
<1>9. ASSUME NEW amount \in Amounts, OthersOnCurve(amount) PROVE ChainSafe /\ Known(request')
  <2>1. amount \in Nat
    BY PoolMarketAssumption
  <2>2. PICK hop \in {CurveHopBuy(amount, AllLegs), CurveHopSell(amount, AllLegs)} :
          hop.err = OK /\ curve' = hop.curve /\ base_ata' = hop.base_ata
    BY <1>9 DEF OthersOnCurve
  <2>3. CurveMoved(hop)
    <3>1. CurveHopBuy(amount, AllLegs).err = OK => CurveMoved(CurveHopBuy(amount, AllLegs))
      BY <1>1, <2>1, CurveHopBuyGood DEF CurveTook
    <3>2. CurveHopSell(amount, AllLegs).err = OK => CurveMoved(CurveHopSell(amount, AllLegs))
      BY <1>1, <2>1, CurveHopSellGood
    <3> QED BY <2>2, <3>1, <3>2
  <2>4. CurveInv'
    BY <2>2, <2>3, CurveMoves
  <2>5. UNCHANGED amm /\ UNCHANGED request
    BY <1>9 DEF OthersOnCurve
  <2>6. StepSafe
    BY <1>1, <2>5, PoolStays
  <2> QED BY <1>1, <2>4, <2>5, <2>6 DEF ChainSafe
<1>10. CASE UNCHANGED vars
  BY <1>1, <1>2, <1>10 DEF vars, chain
<1> QED BY <1>4, <1>5, <1>6, <1>7, <1>8, <1>9, <1>10 DEF ClientNext

-----------------------------------------------------------------------------
(* The request and the chain, along every behaviour *)

(* ClientInv holds always, and the pool takes only the steps of a pool. *)
LEMMA ClientInductive == ClientSpec => []ClientInv
BY ClientInitInv, ClientNextInv, PTL DEF ClientSpec

(* Users who trade, route and create from quotes that may be torn or stale,  *)
(* among any other trades and sweeps, never make the pool break a promise of *)
(* AbstractPool.                                                             *)
THEOREM ClientsKeepPool == ClientSpec => ImplementsAbstractPool
<1>1. ClientInit => ClientInv /\ Abstract!Init
  BY ClientInitInv
<1>2. ClientInv /\ [ClientNext]_vars
        => ClientInv' /\ [Abstract!Trade \/ Abstract!PayFees]_(Abstract!abstract)
  BY ClientNextInv DEF StepSafe, Abstract!abstract
<1> QED BY <1>1, <1>2, PTL DEF ClientSpec, ImplementsAbstractPool, Abstract!Spec

(* However a pool and its vaults were read, one round trip apart, a quote is *)
(* off by no more than the fees that moved between the two reads.            *)
THEOREM TornReadsCountFees == ClientSpec => []TornByFeesOnly
<1>1. ASSUME ClientInv PROVE TornByFeesOnly
  <2> DEFINE r == request
             v == request.quote_vault_balance
  <2> SUFFICES ASSUME r.phase = "built", r.kind # "create_on_c"
               PROVE  EffectiveQuoteReserve(r.pool, v).val
                        = EffectiveQuoteReserve(r.pool_then, v).val
                            + (BucketsOf(r.pool_then) - BucketsOf(r.pool))
    BY DEF TornByFeesOnly, BucketsOf
  <2>1. Known(r)
    BY <1>1 DEF ClientInv
  <2>2. /\ r \in Requests /\ Balanced(r.pool) /\ Balanced(r.pool_then)
        /\ v + Boost <= U64_MAX
        /\ QuoteOf(r, r.base_reserve, v, r.base_ata_amount).err = OK
        /\ EffectiveQuoteReserve(r.pool_then, v) = Ok(v + r.pool_then.virtual_quote_reserves)
    BY <2>1 DEF Known
  <2>3. r.base_reserve \in Nat /\ v \in Nat /\ r.base_ata_amount \in Nat
    BY <2>2 DEF Requests
  <2> HIDE DEF r, v
  <2>4. EffectiveQuoteReserve(r.pool, v) = Ok(v + r.pool.virtual_quote_reserves)
    BY <2>2, <2>3, PoolIsRead
  <2>5. /\ BucketsOf(r.pool) \in Nat /\ BucketsOf(r.pool_then) \in Nat
        /\ r.pool.virtual_quote_reserves = Boost - BucketsOf(r.pool)
        /\ r.pool_then.virtual_quote_reserves = Boost - BucketsOf(r.pool_then)
    BY <2>2 DEF Balanced, Pool, BucketsOf
  <2> QED BY <2>2, <2>3, <2>4, <2>5, PoolMarketAssumption DEF Ok
<1> QED BY <1>1, ClientInductive, PTL

-----------------------------------------------------------------------------
(* What the first buy of a new coin costs when it executes *)

(* The seed of SeedFrom, unchecked. *)
Seed(target, base, quote) ==
  LET real   == Global.initial_real_token_reserves
      unsold == Global.initial_virtual_token_reserves - real
      wanted == (target * real) \div unsold
      raise  == (wanted * base) \div (quote + wanted)
  IN  (raise * unsold) \div real

(* The seed create_v2 derives when it executes.                              *)
SeedNow(r) ==
  IF r.kind = "create_on_q"
    THEN Seed(Global.initial_virtual_sol_reserves, base_vault, Effective)
    ELSE Seed(SeedOfC, curve.virtual_token_reserves, curve.virtual_quote_reserves)

(* The mint a new coin is quoted in, the tokens bought, their cost, its fees. *)
NewMint(r) == IF r.kind = "create_on_q" THEN CurveOfC.quote_mint ELSE "C"
FirstTokens(r) == Least(r.amount, Global.initial_real_token_reserves)
FirstCost(r, seed) ==
  (FirstTokens(r) * seed) \div (Global.initial_virtual_token_reserves - FirstTokens(r)) + 1
FirstFees(r, seed) == CurveFeeBps(NewCurve(NewMint(r), seed), SupplyOfC).fees

(* Over positive reserves the seed is a natural number.                      *)
LEMMA SeedIsNat ==
  ASSUME NEW target \in Nat, NEW base \in Nat, NEW quote \in Nat, quote > 0
  PROVE  Seed(target, base, quote) \in Nat
<1> DEFINE real   == Global.initial_real_token_reserves
           unsold == Global.initial_virtual_token_reserves - real
           wanted == (target * real) \div unsold
           raise  == (wanted * base) \div (quote + wanted)
<1>1. real \in Nat /\ real > 0 /\ unsold \in Nat /\ unsold > 0
  BY GlobalAssumption, PoolClientAssumption
<1> HIDE DEF real, unsold
<1>2. wanted \in Nat
  BY <1>1, DivBounds
<1> HIDE DEF wanted
<1>3. raise \in Nat
  <2>1. wanted * base \in Nat /\ quote + wanted \in Nat /\ quote + wanted > 0
    BY <1>2
  <2> QED BY <2>1, DivBounds
<1> HIDE DEF raise
<1>4. (raise * unsold) \div real \in Nat
  <2>1. raise * unsold \in Nat
    BY <1>1, <1>3
  <2> QED BY <1>1, <2>1, DivBounds
<1> QED BY <1>4 DEF Seed, raise, wanted, unsold, real

(* The reserves of a live pool, and of a live curve, are positive.           *)
LEMMA SeedNowIsNat ==
  ASSUME Inv, CurveInv, NEW r
  PROVE  SeedNow(r) \in Nat
<1>1. /\ base_vault \in Nat /\ Effective \in Nat /\ Effective > 0
      /\ curve.virtual_token_reserves \in Nat /\ curve.virtual_quote_reserves \in Nat
      /\ curve.virtual_quote_reserves > 0
  BY PoolNumbers DEF CurveInv, Priceable, CurveRecord
<1> QED BY <1>1, SeedIsNat, PoolClientAssumption DEF SeedNow

(* The cost of the tokens and the coin's rates are natural numbers. *)
LEMMA FirstCostType ==
  ASSUME NEW r, r.amount \in Nat, NEW seed \in Nat
  PROVE  /\ FirstCost(r, seed) \in Nat /\ FirstFees(r, seed) \in Fees
         /\ WithFees(FirstCost(r, seed), FirstFees(r, seed)) \in Nat
<1> DEFINE real == Global.initial_real_token_reserves
           virt == Global.initial_virtual_token_reserves
           tokens == FirstTokens(r)
           a == tokens * seed
           b == virt - tokens
<1>1. real \in Nat /\ virt \in Nat /\ real < virt
  BY GlobalAssumption, PoolClientAssumption
<1>2. tokens \in Nat /\ tokens <= real
  BY <1>1 DEF FirstTokens, Least
<1> HIDE DEF tokens
<1>3. a \in Nat /\ b \in Nat /\ b > 0
  BY <1>1, <1>2
<1>4. FirstCost(r, seed) = a \div b + 1
  BY DEF FirstCost, tokens
<1> HIDE DEF a, b
<1>5. FirstCost(r, seed) \in Nat
  <2>1. a \div b \in Nat
    BY <1>3, DivBounds
  <2> QED BY <1>4, <2>1
<1>6. FirstFees(r, seed) \in Fees
  BY NewCurveNumbers, CurveRates DEF FirstFees
<1> QED BY <1>5, <1>6, FeeOnType

(* create_v2 and buy_v2 charge the cost on the curve their seed makes. *)
LEMMA FirstBuyIs ==
  ASSUME Inv, CurveInv, NEW r, r.kind \in Creates, r.amount \in Nat
  PROVE  /\ FirstBuy(r).cost = WithFees(FirstCost(r, SeedNow(r)), FirstFees(r, SeedNow(r)))
         /\ FirstBuy(r).cost \in Nat
         /\ (FirstBuy(r).err = OK)
              <=> ~ (SeedNow(r) = 0 \/ (r.kind # "create_on_q" /\ curve.complete))
         /\ FirstBuy(r).held = IF r.kind = "create_on_q" THEN circulating ELSE HeldC
<1> DEFINE real == Global.initial_real_token_reserves
           unsold == Global.initial_virtual_token_reserves - real
           on_q == r.kind = "create_on_q"
           target == IF on_q THEN Global.initial_virtual_sol_reserves ELSE SeedOfC
           wanted == (target * real) \div unsold
           base == IF on_q THEN base_vault ELSE curve.virtual_token_reserves
           quote == IF on_q THEN Effective ELSE curve.virtual_quote_reserves
           raise == (wanted * base) \div (wanted + quote)
           seed == (raise * unsold) \div real
           cost == FirstCost(r, seed)
           fees == FirstFees(r, seed)
<1>1. FirstBuy(r) =
        [err |-> IF seed = 0 \/ (~on_q /\ curve.complete) THEN "Refused" ELSE OK,
         cost |-> cost + FeeAmount(cost, fees.protocol_fee_bps)
                       + FeeAmount(cost, fees.creator_fee_bps),
         held |-> IF on_q THEN circulating ELSE HeldC]
  BY Zenon DEF FirstBuy, FirstCost, FirstFees, FirstTokens, NewMint
<1>2. /\ quote \in Nat /\ target \in Nat /\ real \in Nat /\ unsold \in Nat /\ unsold > 0
  BY PoolNumbers, GlobalAssumption, PoolClientAssumption DEF CurveInv, Priceable, CurveRecord
<1>3. seed = SeedNow(r)
  <2>1. SeedNow(r) = Seed(target, base, quote)
    BY DEF SeedNow
  <2> HIDE DEF target, base, quote, real, unsold
  <2>2. wanted \in Nat
    <3>1. target * real \in Nat
      BY <1>2
    <3> QED BY <1>2, <3>1, DivBounds
  <2> HIDE DEF wanted
  <2>3. wanted + quote = quote + wanted
    BY <1>2, <2>2
  <2>4. Seed(target, base, quote)
          = (((wanted * base) \div (quote + wanted)) * unsold) \div real
    BY Zenon DEF Seed, wanted, unsold, real
  <2> QED BY <2>1, <2>3, <2>4
<1> HIDE DEF seed
<1>4. SeedNow(r) \in Nat
  BY SeedNowIsNat
<1>5. /\ cost \in Nat /\ fees \in Fees /\ WithFees(cost, fees) \in Nat
  BY <1>3, <1>4, FirstCostType
<1>6. WithFees(cost, fees) = cost + FeeAmount(cost, fees.protocol_fee_bps)
                                  + FeeAmount(cost, fees.creator_fee_bps)
  <2> HIDE DEF cost, fees
  <2> QED BY <1>5, FeeOnType
<1>7. FirstBuy(r).cost = WithFees(cost, fees)
  <2> HIDE DEF cost, fees
  <2> QED BY <1>1, <1>6
<1>8. (FirstBuy(r).err = OK) <=> ~ (seed = 0 \/ (~on_q /\ curve.complete))
  <2> HIDE DEF cost, fees
  <2> QED BY <1>1 DEF OK
<1>9. FirstBuy(r).held = IF on_q THEN circulating ELSE HeldC
  <2> HIDE DEF cost, fees
  <2> QED BY <1>1
<1> QED BY <1>3, <1>5, <1>7, <1>8, <1>9

-----------------------------------------------------------------------------
(* The user's limits *)

(* Only Land lands a request. *)
LEMMA LandsIsLand ==
  ASSUME [ClientNext]_vars, Lands
  PROVE  Land
<1>1. request.phase = "built" /\ request'.phase = "landed"
  BY DEF Lands
<1>2. Idle.phase = "idle"
  BY DEF Idle
<1>3. ASSUME NEW kind, NEW amount, NEW slippage_bps, FetchVenues(kind, amount, slippage_bps)
      PROVE  FALSE
  BY <1>1, <1>3 DEF FetchVenues, Pending
<1>4. ~FetchVaults /\ ~RpcFails
  BY <1>1 DEF FetchVaults, RpcFails
<1>5. ~GiveUp
  BY <1>1, <1>2 DEF GiveUp
<1>6. ~OthersOnPool /\ \A amount : ~OthersOnCurve(amount)
  BY <1>1 DEF OthersOnPool, OthersOnCurve
<1>7. ~UNCHANGED vars
  BY <1>1 DEF vars
<1> QED BY <1>3, <1>4, <1>5, <1>6, <1>7, Zenon DEF ClientNext

(* What a buy charges, and what a sale pays, the purse sees. *)
LEMMA PurseMoves ==
  ASSUME Inv, NEW f, NEW v
  PROVE  /\ (Bought(f) /\ ApplyBuy(f, v)) =>
              /\ purse - purse' = Charge(f) /\ Charge(f) \in Nat
              /\ circulating' - circulating = f.base
         /\ (Sold(f) /\ ApplySell(f, v)) =>
              /\ purse' - purse = Proceeds(f) /\ Proceeds(f) \in Nat
<1>1. purse \in Nat /\ circulating \in Nat
  BY DEF Inv, TypeOK
<1>2. Bought(f) => Charge(f) \in Nat /\ f.base \in Nat
  BY DEF Bought, Charge, SumOf, FeeTriple
<1>3. Sold(f) => Proceeds(f) \in Nat
  BY DEF Sold, Proceeds, SumOf, FeeTriple
<1> QED BY <1>1, <1>2, <1>3 DEF ApplyBuy, ApplySell

(* An exact-in buy never charges more than its budget. *)
LEMMA ExactInBudget ==
  ASSUME Inv, NEW n \in Nat, BuyExactInFill(n).err = OK
  PROVE  Charge(BuyExactInFill(n)) <= n
<1> DEFINE split == ExactInFeeAmounts(n, TradeBps(AllLegs))
           out == ((split.net - 1) * base_vault) \div (Effective + (split.net - 1))
<1>1. split.err = OK
  BY DEF BuyExactInFill, NotPriced, OK
<1>2. BuyExactInFill(n) = [err |-> OK, raw |-> split.net, base |-> out, fees |-> split.fees]
  BY DEF BuyExactInFill, NotPriced, Priced, OK
<1>3. split.net + (split.fees[1] + split.fees[2] + split.fees[3]) <= n
  BY <1>1, TradeBpsType, ExactInSplit DEF FeeTriple
<1> HIDE DEF split, out
<1> QED BY <1>2, <1>3 DEF Charge, SumOf

(* A hop's buy charges all of its budget. *)
LEMMA HopBudget ==
  ASSUME Inv, NEW n \in Nat, NEW legs, HopBuyFill(n, legs).err = OK
  PROVE  Charge(HopBuyFill(n, legs)) = n
<1> DEFINE split == ExactInFeeAmounts(n, TradeBps(legs))
           net == n - SumOf(split.fees)
           out == ((net - 1) * base_vault) \div (Effective + (net - 1))
<1>1. split.err = OK
  BY DEF HopBuyFill, NotPriced, OK
<1>2. HopBuyFill(n, legs) = [err |-> OK, raw |-> net, base |-> out, fees |-> split.fees]
  BY DEF HopBuyFill, NotPriced, Priced, OK
<1>3. split.fees \in FeeTriple
  BY <1>1, TradeBpsType, ExactInSplit DEF FeeTriple
<1> HIDE DEF split
<1>4. SumOf(split.fees) \in Nat
  BY <1>3 DEF SumOf, FeeTriple
<1> HIDE DEF out
<1> QED BY <1>2, <1>4 DEF Charge

(* The limits LimitsHold states, of a request that executes. *)
KeepsLimits(r) ==
  \/ /\ r.kind = "buy"
     /\ purse - purse' <= Slipped(r)
     /\ circulating' - circulating = r.amount
  \/ /\ r.kind = "exact_in"
     /\ purse - purse' <= r.amount
     /\ circulating' - circulating >= SubSlippage(r.quote.amount, r.slippage_bps)
  \/ /\ r.kind \in {"sell", "route_sell"}
     /\ purse' - purse >= SubSlippage(r.quote.amount, r.slippage_bps)
  \/ /\ r.kind = "route_buy"
     /\ purse - purse' = r.amount
     /\ base_ata - base_ata' >= SubSlippage(r.quote.amount, r.slippage_bps)
     /\ base_ata' < base_ata
  \/ /\ r.kind \in Creates
     /\ FirstBuy(r).cost <= Slipped(r)

(* The limits of a built request are those of its quote. *)
LEMMA BuiltLimits ==
  ASSUME NEW r, Known(r), r.phase = "built"
  PROVE  /\ r.amount \in Nat /\ r.quote.amount \in Nat /\ r.slippage_bps \in Nat
         /\ r \in Requests /\ Limits(r, r.quote)
<1>1. /\ r \in Requests /\ Priceable(r.curve)
      /\ (r.kind \in Creates => r.amount > 0)
      /\ r.quote = QuoteOf(r, r.base_reserve, r.quote_vault_balance, r.base_ata_amount)
      /\ r.quote.err = OK
  BY DEF Known, Pending
<1>2. /\ r.base_reserve \in Nat /\ r.quote_vault_balance \in Nat /\ r.base_ata_amount \in Nat
      /\ r.amount \in Nat /\ r.slippage_bps \in Nat
  BY <1>1 DEF Requests
<1>3. Limits(r, r.quote)
  BY <1>1, <1>2, QuoteSound
<1> QED BY <1>1, <1>2, <1>3 DEF Limits

(* A request that executes keeps them. *)
LEMMA LimitsKept ==
  ASSUME ClientInv, NEW r, Known(r), r.phase = "built", Executed(r)
  PROVE  KeepsLimits(r)
<1> DEFINE n == r.amount
           x == r.quote.amount
           s == r.slippage_bps
           sub == SubSlippage(x, s)
<1>1. /\ n \in Nat /\ x \in Nat /\ s \in Nat /\ r \in Requests
      /\ Limits(r, r.quote)
  BY BuiltLimits
<1>2. /\ Slipped(r) = (x * (BPS + s)) \div BPS
      /\ AddSlippage(x, s) \in Nat /\ AddSlippage(x, s) <= Slipped(r) /\ Slipped(r) \in Nat
      /\ sub \in Nat
  <2>1. Slipped(r) = (x * (BPS + s)) \div BPS
    BY DEF Slipped
  <2> HIDE DEF x, s
  <2> QED BY <1>1, <2>1, SlippageBounds
<1>3. Inv /\ CurveInv /\ base_ata \in Nat /\ curve.real_token_reserves \in Nat
  BY DEF ClientInv, CurveInv, Funded, Priceable, CurveRecord
<1>4. CASE r.kind = "buy"
  <2>1. PICK f \in {BuyFill(n)} : Bought(f) /\ Charge(f) <= r.quote.max_input /\ ApplyBuy(f, 2)
    BY <1>4 DEF Executed, Creates
  <2>2. f.base = n
    BY <2>1 DEF BuyFill, NotPriced, Priced, OK, ApplyBuy, CanBuy
  <2>3. r.quote.max_input = AddSlippage(x, s)
    BY <1>1, <1>4 DEF Limits
  <2>4. purse - purse' = Charge(f) /\ Charge(f) \in Nat /\ circulating' - circulating = f.base
    BY <1>3, <2>1, PurseMoves
  <2> HIDE DEF x, s
  <2>5. purse - purse' <= Slipped(r)
    BY <1>2, <2>1, <2>3, <2>4
  <2> QED BY <1>4, <2>2, <2>4, <2>5 DEF KeepsLimits
<1>5. CASE r.kind = "exact_in"
  <2>1. PICK f \in {BuyExactInFill(n)} :
               Bought(f) /\ f.base >= r.quote.min_out /\ ApplyBuy(f, 2)
    BY <1>5 DEF Executed, Creates
  <2>2. r.quote.min_out = sub
    BY <1>1, <1>5 DEF Limits
  <2>3. purse - purse' = Charge(f) /\ Charge(f) \in Nat /\ circulating' - circulating = f.base
    BY <1>3, <2>1, PurseMoves
  <2>4. Charge(f) <= n
    <3>1. BuyExactInFill(n).err = OK
      BY <2>1 DEF ApplyBuy, CanBuy
    <3> QED BY <1>1, <1>3, <2>1, <3>1, ExactInBudget
  <2> QED BY <1>5, <2>1, <2>2, <2>3, <2>4 DEF KeepsLimits
<1>6. CASE r.kind = "sell"
  <2>1. PICK f \in {SellFill(n)} :
               Sold(f) /\ Proceeds(f) >= r.quote.min_out /\ ApplySell(f, 2)
    BY <1>6 DEF Executed, Creates
  <2>2. r.quote.min_out = sub
    BY <1>1, <1>6 DEF Limits
  <2>3. purse' - purse = Proceeds(f)
    BY <1>3, <2>1, PurseMoves
  <2> QED BY <1>6, <2>1, <2>2, <2>3 DEF KeepsLimits
<1>7. CASE r.kind = "route_buy"
  <2>1. PICK f \in {HopBuyFill(n, ForHop(TRUE, 1, 2))} :
          \E hop \in {CurveHopBuy(f.base, ForHop(TRUE, 2, 2))} :
            /\ Bought(f) /\ CurveTook(hop) /\ hop.out >= r.quote.min_out
            /\ ApplyBuy(f, 3) /\ base_ata' = hop.base_ata
    BY <1>7 DEF Executed, Creates
  <2>2. PICK hop : /\ CurveTook(hop) /\ hop.out >= r.quote.min_out /\ base_ata' = hop.base_ata
    BY <2>1
  <2>3. r.quote.min_out = Greatest(sub, 1)
    BY <1>1, <1>7 DEF Limits
  <2> HIDE DEF sub
  <2>4. hop.out \in Nat /\ base_ata' = base_ata - hop.out /\ hop.out >= sub /\ hop.out >= 1
    BY <1>2, <2>2, <2>3 DEF CurveTook, CurveMoved, Greatest
  <2>5. base_ata - base_ata' >= sub /\ base_ata' < base_ata
    BY <1>2, <1>3, <2>4
  <2>6. purse - purse' = n
    <3>1. HopBuyFill(n, ForHop(TRUE, 1, 2)).err = OK
      BY <2>1 DEF ApplyBuy, CanBuy
    <3>2. Charge(f) = n
      BY <1>1, <1>3, <2>1, <3>1, HopBudget
    <3> QED BY <1>3, <2>1, <3>2, PurseMoves
  <2> QED BY <1>7, <2>5, <2>6 DEF KeepsLimits, sub
<1>8. CASE r.kind = "route_sell"
  <2>1. PICK f : Sold(f) /\ Proceeds(f) >= r.quote.min_out /\ ApplySell(f, 3)
    BY <1>8 DEF Executed, Creates
  <2>2. r.quote.min_out = Greatest(sub, 1)
    BY <1>1, <1>8 DEF Limits
  <2>3. purse' - purse = Proceeds(f) /\ Proceeds(f) \in Nat
    BY <1>3, <2>1, PurseMoves
  <2> HIDE DEF sub
  <2>4. purse' - purse >= sub
    BY <1>2, <2>1, <2>2, <2>3 DEF Greatest
  <2> QED BY <1>8, <2>4 DEF KeepsLimits, sub
<1>9. CASE r.kind \in Creates
  <2>1. CanCreate(r)
    BY <1>9 DEF Executed, Creates
  <2>2. FirstBuy(r).cost <= r.quote.max_input
    BY <2>1 DEF CanCreate
  <2>3. r.quote.max_input = AddSlippage(x, s)
    BY <1>1, <1>9 DEF Limits
  <2>4. FirstBuy(r).cost \in Nat
    BY <1>1, <1>3, <1>9, FirstBuyIs
  <2> HIDE DEF x, s
  <2>5. FirstBuy(r).cost <= Slipped(r)
    BY <1>2, <2>2, <2>3, <2>4
  <2> QED BY <1>9, <2>5 DEF KeepsLimits
<1>10. r.kind \in Kinds
  BY <1>1 DEF Requests
<1> QED BY <1>4, <1>5, <1>6, <1>7, <1>8, <1>9, <1>10 DEF Kinds

(* Whatever happened between the two rounds or after them, a plain trade, a  *)
(* two-hop route and the first buy of a new coin keep their user's limits.   *)
THEOREM LimitsAreKept == ClientSpec => LimitsHold
<1>1. ASSUME ClientInv, [ClientNext]_vars, Lands PROVE KeepsLimits(request)
  <2>1. Land
    BY <1>1, LandsIsLand
  <2>2. Known(request) /\ request.phase = "built" /\ Execute(request)
    BY <1>1, <2>1 DEF ClientInv, Land
  <2>3. request.amount \in Nat
    BY <2>2 DEF Known, Requests
  <2>4. Executed(request)
    BY <1>1, <2>2, <2>3, ExecuteExecuted
  <2> QED BY <1>1, <2>2, <2>4, LimitsKept
<1> DEFINE A == Lands => KeepsLimits(request)
<1>2. ClientInv /\ [ClientNext]_vars => A
  BY <1>1
<1> HIDE DEF A
<1>3. ClientSpec => [][A]_vars
  BY <1>2, ClientInductive, PTL DEF ClientSpec
<1> QED BY <1>3 DEF LimitsHold, A, KeepsLimits

-----------------------------------------------------------------------------
(* On the state a quote was taken of, the program's fills are the quoters' *)

(* What Open asks of a trade whatever its instruction. *)
Tradable(is_buy) == TradingEnabled(disable_flags, is_buy) /\ AmmFeeBps(Now).err = OK

(* buy_base_input prices the program's buy. *)
LEMMA FillOfBuy ==
  ASSUME Inv, NEW n \in Nat, n > 0, BuyBaseInput(disable_flags, Now, n).err = OK
  PROVE  BuyFill(n) = BuyBaseInput(disable_flags, Now, n) /\ Tradable(TRUE)
<1> DEFINE raw == CeilDiv(Effective * n, base_vault - n)
           fees == ThreeFees(raw, TradeBps(AllLegs))
<1>1. Now.base_reserve = base_vault /\ Now.quote_reserve = Effective
  BY LiveContext
<1>2. /\ TradingEnabled(disable_flags, TRUE) /\ AmmFeeBps(Now).err = OK /\ ~ (n >= base_vault)
      /\ BuyBaseInput(disable_flags, Now, n) = Priced(raw, n, fees)
  BY <1>1, AllLegsBps DEF BuyBaseInput, NotPriced, OK
<1>3. BuyFill(n) = Priced(raw, n, fees)
  BY <1>2, PoolNumbers DEF BuyFill
<1> QED BY <1>2, <1>3 DEF Tradable

(* buy_quote_input prices buy_exact_quote_in_v2. *)
LEMMA FillOfExactIn ==
  ASSUME Inv, NEW n \in Nat, BuyQuoteInput(disable_flags, Now, n).err = OK
  PROVE  BuyExactInFill(n) = BuyQuoteInput(disable_flags, Now, n) /\ Tradable(TRUE)
<1> DEFINE split == ExactInFeeAmounts(n, TradeBps(AllLegs))
           m == split.net - 1
           out == (m * base_vault) \div (Effective + m)
<1>1. Now.base_reserve = base_vault /\ Now.quote_reserve = Effective
  BY LiveContext
<1>2. /\ TradingEnabled(disable_flags, TRUE) /\ AmmFeeBps(Now).err = OK /\ split.err = OK
      /\ SwapExactInput(m, Effective, base_vault).val # 0
      /\ BuyQuoteInput(disable_flags, Now, n)
           = Priced(split.net, SwapExactInput(m, Effective, base_vault).val, split.fees)
  BY <1>1, AllLegsBps DEF BuyQuoteInput, NotPriced, OK
<1>3. SwapExactInput(m, Effective, base_vault).val = out
  <2>1. m \in Nat
    BY <1>2, TradeBpsType, ExactInSplit DEF FeeTriple
  <2>2. Effective + m # 0
    <3> HIDE DEF m
    <3> QED BY <2>1, PoolNumbers
  <2> HIDE DEF m
  <2> QED BY <2>2 DEF SwapExactInput, MulDiv, Ok
<1>4. BuyExactInFill(n) = Priced(split.net, out, split.fees)
  BY <1>2, <1>3 DEF BuyExactInFill
<1> HIDE DEF split, out, m
<1> QED BY <1>2, <1>3, <1>4 DEF Tradable

(* sell_base_input prices the program's sale. *)
LEMMA FillOfSell ==
  ASSUME Inv, NEW n \in Nat, n > 0, SellBaseInput(disable_flags, Now, n).err = OK
  PROVE  SellFill(n) = SellBaseInput(disable_flags, Now, n) /\ Tradable(FALSE)
<1> DEFINE raw == (Effective * n) \div (base_vault + n)
           fees == ThreeFees(raw, TradeBps(AllLegs))
<1>1. /\ Now.base_reserve = base_vault /\ Now.quote_reserve = Effective
      /\ Now.real_quote_reserve = Real
  BY LiveContext
<1>2. /\ TradingEnabled(disable_flags, FALSE) /\ AmmFeeBps(Now).err = OK
      /\ ~ (raw < SumOf(fees)) /\ ~ (Real < raw - fees[1])
      /\ SellBaseInput(disable_flags, Now, n) = Priced(raw, n, fees)
  BY <1>1, AllLegsBps, Zenon DEF SellBaseInput, NotPriced, OK
<1>3. SellFill(n) = Priced(raw, n, fees)
  <2> HIDE DEF fees
  <2> QED BY <1>2 DEF SellFill, fees
<1> QED BY <1>2, <1>3 DEF Tradable

(* A hop of multi_hop_swap that buys from the pool is the hop quoted. *)
LEMMA FillOfHopBuy ==
  ASSUME Inv, NEW n \in Nat, NEW legs,
         MultiHopPoolHop(disable_flags, pool, base_vault, quote_vault, MintSupply, TRUE, n,
                         legs).err = OK
  PROVE  /\ HopBuyFill(n, legs) = MultiHopPoolHop(disable_flags, pool, base_vault, quote_vault,
                                                  MintSupply, TRUE, n, legs)
         /\ Tradable(TRUE) /\ ~pool.is_mayhem_mode
<1> DEFINE t == MultiHopPoolHop(disable_flags, pool, base_vault, quote_vault, MintSupply, TRUE,
                                n, legs)
           bps == LegBps(AmmFeeBps(Now).fees, legs)
           split == ExactInFeeAmounts(n, TradeBps(legs))
           net == n - SumOf(split.fees)
           m == net - 1
           out == (m * base_vault) \div (Effective + m)
<1>1. Now.quote_reserve = Effective /\ pool \in Pool /\ base_vault \in Nat /\ quote_vault \in Nat
  BY LiveContext DEF Inv, TypeOK
<1>2. /\ TradingEnabled(disable_flags, TRUE) /\ ~ (legs.creator /\ pool.is_cashback_coin)
      /\ ~ pool.is_mayhem_mode /\ AmmFeeBps(Now).err = OK
      /\ t = HopBuy(n, bps, Effective, base_vault)
  <2>1. t.err = OK
    OBVIOUS
  <2> HIDE DEF t, bps
  <2>2. LET ctx == PoolContext(pool, base_vault, quote_vault, MintSupply)
            b == LegBps(AmmFeeBps(ctx).fees, legs)
        IN  /\ TradingEnabled(disable_flags, TRUE) /\ ~ (legs.creator /\ pool.is_cashback_coin)
            /\ ~ pool.is_mayhem_mode /\ AmmFeeBps(ctx).err = OK
            /\ t = HopBuy(n, b, ctx.quote_reserve, base_vault)
    BY <2>1 DEF MultiHopPoolHop, NotPriced, OK, t
  <2> QED BY <1>1, <2>2 DEF Now, bps
<1>3. bps = TradeBps(legs)
  BY DEF TradeBps, Now
<1>4. /\ split.err = OK /\ ~ (net <= 0) /\ SwapExactInput(m, Effective, base_vault).val # 0
      /\ t = Priced(net, SwapExactInput(m, Effective, base_vault).val, split.fees)
  <2>1. t.err = OK
    OBVIOUS
  <2> HIDE DEF t, bps
  <2> QED BY <1>2, <1>3, <2>1 DEF HopBuy, NotPriced, OK
<1>5. SwapExactInput(m, Effective, base_vault).val = out
  <2>1. m \in Nat
    <3>1. SumOf(split.fees) \in Nat
      <4>1. split.fees \in FeeTriple
        BY <1>4, TradeBpsType, ExactInSplit DEF FeeTriple
      <4> HIDE DEF split
      <4> QED BY <4>1 DEF SumOf, FeeTriple
    <3> HIDE DEF split
    <3> QED BY <1>4, <3>1
  <2> HIDE DEF m
  <2>2. Effective + m # 0
    BY <2>1, PoolNumbers
  <2> QED BY <2>2 DEF SwapExactInput, MulDiv, Ok
<1>6. HopBuyFill(n, legs) = Priced(net, out, split.fees)
  <2> HIDE DEF t
  <2> QED BY <1>2, <1>4, <1>5 DEF HopBuyFill
<1> HIDE DEF split, net, m, out, bps
<1> QED BY <1>2, <1>4, <1>5, <1>6 DEF Tradable

(* A hop of multi_hop_swap that sells to the pool is the hop quoted. *)
LEMMA FillOfHopSell ==
  ASSUME Inv, NEW n \in Nat, n > 0, NEW legs,
         MultiHopPoolHop(disable_flags, pool, base_vault, quote_vault, MintSupply, FALSE, n,
                         legs).err = OK
  PROVE  /\ HopSellFill(n, legs) = MultiHopPoolHop(disable_flags, pool, base_vault, quote_vault,
                                                   MintSupply, FALSE, n, legs)
         /\ Tradable(FALSE) /\ ~pool.is_mayhem_mode
         /\ Proceeds(HopSellFill(n, legs)) > 0
<1> DEFINE t == MultiHopPoolHop(disable_flags, pool, base_vault, quote_vault, MintSupply, FALSE,
                                n, legs)
           bps == LegBps(AmmFeeBps(Now).fees, legs)
           raw == (Effective * n) \div (base_vault + n)
           fees == ThreeFees(raw, TradeBps(legs))
<1>1. /\ Now.quote_reserve = Effective /\ Now.base_reserve = base_vault
      /\ Now.real_quote_reserve = Real
      /\ pool \in Pool /\ base_vault \in Nat /\ quote_vault \in Nat
  BY LiveContext DEF Inv, TypeOK
<1>2. /\ TradingEnabled(disable_flags, FALSE) /\ ~ (legs.creator /\ pool.is_cashback_coin)
      /\ ~ pool.is_mayhem_mode /\ AmmFeeBps(Now).err = OK
      /\ t = HopSell(n, bps, Now)
  <2>1. t.err = OK
    OBVIOUS
  <2> HIDE DEF t, bps
  <2>2. LET ctx == PoolContext(pool, base_vault, quote_vault, MintSupply)
            b == LegBps(AmmFeeBps(ctx).fees, legs)
        IN  /\ TradingEnabled(disable_flags, FALSE) /\ ~ (legs.creator /\ pool.is_cashback_coin)
            /\ ~ pool.is_mayhem_mode /\ AmmFeeBps(ctx).err = OK
            /\ t = HopSell(n, b, ctx)
    BY <2>1 DEF MultiHopPoolHop, NotPriced, OK, t
  <2> QED BY <1>1, <2>2 DEF Now, bps
<1>3. bps = TradeBps(legs)
  BY DEF TradeBps, Now
<1>4. SellQuote(base_vault, Effective, n).val = raw
  <2> DEFINE e == Effective
             b == base_vault
  <2>1. e \in Nat /\ b \in Nat /\ b > 0
    BY PoolNumbers
  <2> HIDE DEF e, b
  <2>2. n * e = e * n /\ b + n # 0
    BY <2>1
  <2>3. SellQuote(b, e, n).val = (e * n) \div (b + n)
    BY <2>2 DEF SellQuote, MulDiv, Ok
  <2> QED BY <2>3 DEF e, b
<1>5. raw \in Nat
  BY ProceedsGood
<1>6. /\ ~ (Real < raw - fees[1]) /\ ~ (raw < SumOf(fees)) /\ raw # SumOf(fees)
      /\ t = Priced(raw, n, fees)
  <2>1. t.err = OK
    OBVIOUS
  <2> HIDE DEF t, bps, raw
  <2>2. /\ HopSell(n, bps, Now).err = OK /\ t = HopSell(n, TradeBps(legs), Now)
    BY <1>2, <1>3, <2>1
  <2>3. SellQuote(Now.base_reserve, Now.quote_reserve, n).val = raw
    BY <1>1, <1>4
  <2> QED BY <1>1, <1>3, <2>2, <2>3 DEF HopSell, NotPriced, OK
<1>7. SumOf(fees) \in Nat
  <2> HIDE DEF raw
  <2>1. fees \in FeeTriple
    BY <1>5, TradeBpsType, ThreeFeesType
  <2> HIDE DEF fees
  <2> QED BY <2>1 DEF SumOf, FeeTriple
<1>8. HopSellFill(n, legs) = Priced(raw, n, fees)
  <2> HIDE DEF t, fees
  <2>1. ~ (raw <= SumOf(fees))
    BY <1>5, <1>6, <1>7
  <2> HIDE DEF raw
  <2> QED BY <1>2, <1>6, <2>1 DEF HopSellFill, raw, fees
<1>9. Proceeds(HopSellFill(n, legs)) > 0
  <2> HIDE DEF raw, fees, t
  <2> QED BY <1>5, <1>6, <1>7, <1>8 DEF Proceeds, Priced
<1> HIDE DEF raw, fees, bps
<1> QED BY <1>2, <1>6, <1>8, <1>9 DEF Tradable

(* The curve hop that executes is the one that was quoted, and yields        *)
(* something.                                                                *)
Matches(hop, o) == hop.err = OK /\ hop.out = o.val /\ o.val \in Nat /\ o.val > 0

(* What CurveBought yields.                                                  *)
LEMMA CurveBoughtOut ==
  ASSUME NEW tokens, NEW curve_net, NEW leg_tokens, NEW leg_net, NEW fee, NEW creator_fee
  PROVE  LET hop == CurveBought(tokens, curve_net, leg_tokens, leg_net, fee, creator_fee)
         IN  hop.err = OK /\ hop.out = tokens + leg_tokens
BY DEF CurveBought, CurveFill

(* The hop that executes on the state quoted yields the tokens quoted.       *)
LEMMA CurveHopBuyIs ==
  ASSUME CurveInv, NEW n \in Nat, NEW legs, NEW user,
         MultiHopCurveHop(curve, SupplyOfC, base_ata, user, TRUE, n, legs).err = OK
  PROVE  Matches(CurveHopBuy(n, legs),
                 MultiHopCurveHop(curve, SupplyOfC, base_ata, user, TRUE, n, legs))
<1> DEFINE rates     == HopRates(curve, legs)
           split     == ExactInFeeAmounts(n, CurveBps(rates))
           net       == n - (split.fees[1] + split.fees[2])
           tokens    == SwapExactInput(net - 1, curve.virtual_quote_reserves,
                                       curve.virtual_token_reserves)
           remaining == curve.real_token_reserves
           cost      == BuyQuote(curve, remaining)
           fee       == FeeAmount(cost.val, rates.protocol_fee_bps)
           creator   == FeeAmount(cost.val, rates.creator_fee_bps)
           total     == WithFees(cost.val, rates)
           left      == n - total
           ptb       == PoolToBe(curve, base_ata, remaining, cost.val)
           leg       == PostCompleteLegExactQuote(ptb, rates, left, TRUE)
           o         == MultiHopCurveHop(curve, SupplyOfC, base_ata, user, TRUE, n, legs)
           hop       == CurveHopBuy(n, legs)
           first     == CurveBought(tokens.val, net, 0, 0, split.fees[1], split.fees[2])
           last      == CurveBought(remaining, cost.val, 0, 0, fee, creator)
           past      == CurveBought(remaining, cost.val, leg.base_out, leg.quote_in,
                                    fee + leg.fee, creator + leg.creator_fee)
<1>1. /\ rates \in Fees /\ remaining \in Nat /\ cost.val \in Nat
      /\ Priceable(curve) /\ base_ata \in Nat
      /\ curve.virtual_quote_reserves \in Nat /\ curve.virtual_quote_reserves > 0
      /\ curve.virtual_token_reserves \in Nat /\ curve.virtual_token_reserves > 0
  <2>1. remaining \in Nat /\ Priceable(curve) /\ base_ata \in Nat
    BY DEF CurveInv, Priceable, CurveRecord, Funded
  <2> QED BY <2>1, CurveRates, PriceableHasRates, BuyQuoteType DEF Priceable, CurveRecord
<1>2. /\ CurveOpen(curve, ~legs.creator) /\ ~curve.is_mayhem_mode
      /\ split.err = OK /\ ~ (net <= 0) /\ tokens.val # 0
      /\ \/ tokens.val <= remaining /\ o = Ok(tokens.val)
         \/ /\ ~ (tokens.val <= remaining) /\ cost.err = OK
            /\ \/ left <= 0 /\ o = Ok(remaining)
               \/ /\ ~ (left <= 0) /\ ptb.err = OK /\ leg.err = OK
                  /\ o = Ok(remaining + leg.base_out)
  <2>1. o = IF ~CurveOpen(curve, ~legs.creator) \/ curve.is_mayhem_mode
              THEN Err("VenueNotSupported")
            ELSE IF CurveFeeBps(curve, SupplyOfC).err # OK
              THEN Err(CurveFeeBps(curve, SupplyOfC).err)
            ELSE IF split.err # OK THEN Err(split.err)
            ELSE IF net <= 0 THEN Err("ZeroAmount")
            ELSE IF tokens.err # OK THEN Err(tokens.err)
            ELSE IF tokens.val = 0 THEN Err("ZeroAmount")
            ELSE IF tokens.val <= remaining THEN Ok(tokens.val)
            ELSE IF user = WHITELIST_PDA THEN Err("PostCompleteLegNotAllowed")
            ELSE IF cost.err # OK THEN Err(cost.err)
            ELSE IF left <= 0 THEN Ok(remaining)
            ELSE IF ptb.err # OK THEN Err(ptb.err)
            ELSE IF leg.err # OK THEN Err(leg.err)
            ELSE Ok(remaining + leg.base_out)
    BY Zenon DEF MultiHopCurveHop, HopRates
  <2>2. o.err = OK
    OBVIOUS
  <2> HIDE DEF o, split, net, tokens, remaining, cost, left, ptb, leg
  <2> QED BY <2>1, <2>2 DEF Err, OK
<1>3. total \in Nat /\ total = cost.val + fee + creator /\ fee \in Nat /\ creator \in Nat
  <2> HIDE DEF cost, rates
  <2> QED BY <1>1, FeeOnType
<1>4. n - (cost.val + fee + creator) = left /\ (left <= 0 <=> n <= cost.val + fee + creator)
  <2> HIDE DEF total, cost, fee, creator
  <2> QED BY <1>1, <1>3
<1>5. hop = IF tokens.val <= remaining THEN first
            ELSE IF left <= 0 THEN last
            ELSE IF ptb.err # OK \/ leg.err # OK THEN CurveFill("Refused", 0, curve, base_ata)
            ELSE past
  <2> DEFINE due == cost.val + fee + creator
             leg2 == PostCompleteLegExactQuote(ptb, rates, n - due, TRUE)
  <2>1. hop = IF ~CurveOpen(curve, ~legs.creator) \/ curve.is_mayhem_mode \/ split.err # OK
                   \/ tokens.val = 0
                THEN CurveFill("Refused", 0, curve, base_ata)
              ELSE IF tokens.val <= remaining THEN first
              ELSE IF n <= due THEN last
              ELSE IF ptb.err # OK \/ leg2.err # OK
                THEN CurveFill("Refused", 0, curve, base_ata)
              ELSE CurveBought(remaining, cost.val, leg2.base_out, leg2.quote_in,
                               fee + leg2.fee, creator + leg2.creator_fee)
    BY Zenon DEF CurveHopBuy
  <2>2. n - due = left /\ (left <= 0 <=> n <= due)
    BY <1>4
  <2>3. leg2 = leg
    <3> HIDE DEF due, left, ptb, rates
    <3> QED BY <2>2
  <2> HIDE DEF due, leg2, left, leg, ptb, hop, first, last, tokens, remaining, split, cost
  <2> QED BY <1>2, <2>1, <2>2, <2>3 DEF past
<1> HIDE DEF hop, o
<1>6. net \in Nat /\ net > 0
  BY <1>1, <1>2, CurveSplit
<1>7. tokens.val \in Nat
  <2> HIDE DEF net
  <2> QED BY <1>1, <1>6, SwapType
<1>8. CASE tokens.val <= remaining
  <2>1. hop = first /\ o = Ok(tokens.val)
    <3> HIDE DEF tokens, remaining, first, last, past, left, ptb, leg
    <3> QED BY <1>2, <1>5, <1>8
  <2> DEFINE x == tokens.val
  <2>2. first.err = OK /\ first.out = x + 0
    <3> HIDE DEF x, net, split
    <3> QED BY CurveBoughtOut DEF x
  <2>3. x \in Nat /\ x # 0
    BY <1>2, <1>7
  <2> HIDE DEF x, first
  <2>4. Matches(hop, o)
    BY <2>1, <2>2, <2>3 DEF Matches, Ok, x
  <2> QED BY <2>4 DEF hop, o
<1>9. CASE ~ (tokens.val <= remaining)
  <2>0. remaining # 0
    <3>1. cost.err = OK
      <4> HIDE DEF tokens, cost, left, ptb, leg, remaining
      <4> QED BY <1>2, <1>9
    <3> QED BY <3>1 DEF BuyQuote, Err, OK
  <2>1. CASE left <= 0
    <3>1. hop = last /\ o = Ok(remaining)
      <4> HIDE DEF tokens, remaining, first, last, past, left, ptb, leg
      <4> QED BY <1>2, <1>5, <1>9, <2>1
    <3>2. last.err = OK /\ last.out = remaining + 0
      <4> HIDE DEF remaining, cost, fee, creator
      <4> QED BY CurveBoughtOut
    <3> HIDE DEF last, remaining
    <3>3. Matches(hop, o)
      BY <1>1, <2>0, <3>1, <3>2 DEF Matches, Ok, remaining
    <3> QED BY <3>3 DEF hop, o
  <2>2. CASE ~ (left <= 0)
    <3>1. ptb.err = OK /\ leg.err = OK
      <4> HIDE DEF tokens, remaining, first, last, past, left, ptb, leg
      <4> QED BY <1>2, <1>5, <1>9, <2>2
    <3>2. hop = past /\ o = Ok(remaining + leg.base_out)
      <4> HIDE DEF tokens, remaining, first, last, past, left, ptb, leg
      <4> QED BY <1>2, <1>5, <1>9, <2>2
    <3>3. ptb.base \in Nat /\ ptb.base > 0 /\ ptb.quote \in Nat /\ ptb.quote > 0
      <4> HIDE DEF remaining, cost
      <4> QED BY <1>1, <3>1, PoolToBeGood
    <3>4. left \in Nat
      <4> HIDE DEF total
      <4> QED BY <1>3, <2>2
    <3>5. leg.base_out \in Nat
      <4> HIDE DEF ptb, left, rates
      <4> QED BY <1>1, <3>1, <3>3, <3>4, LegGood
    <3>6. past.err = OK /\ past.out = remaining + leg.base_out
      <4> HIDE DEF remaining, cost, leg, fee, creator
      <4> QED BY CurveBoughtOut
    <3> HIDE DEF past, remaining, leg
    <3>7. remaining + leg.base_out \in Nat /\ remaining + leg.base_out > 0
      BY <1>1, <2>0, <3>5
    <3>8. Matches(hop, o)
      BY <3>2, <3>6, <3>7 DEF Matches, Ok
    <3> QED BY <3>8 DEF hop, o
  <2> QED BY <2>1, <2>2
<1> QED BY <1>8, <1>9

(* Likewise for a sale of tokens that exist.                                 *)
LEMMA CurveHopSellIs ==
  ASSUME CurveInv, NEW n \in Nat, n <= HeldC, NEW legs, NEW user,
         MultiHopCurveHop(curve, SupplyOfC, base_ata, user, FALSE, n, legs).err = OK
  PROVE  Matches(CurveHopSell(n, legs),
                 MultiHopCurveHop(curve, SupplyOfC, base_ata, user, FALSE, n, legs))
<1> DEFINE rates   == HopRates(curve, legs)
           q       == curve.virtual_quote_reserves
           t       == curve.virtual_token_reserves
           gross   == (n * q) \div (t + n)
           fee     == FeeAmount(gross, rates.protocol_fee_bps)
           creator == FeeAmount(gross, rates.creator_fee_bps)
           o       == MultiHopCurveHop(curve, SupplyOfC, base_ata, user, FALSE, n, legs)
           hop     == CurveHopSell(n, legs)
           quoted  == SellQuote(t, q, n)
<1>1. rates \in Fees /\ q \in Nat /\ q > 0 /\ t \in Nat /\ t > 0 /\ base_ata <= SupplyOfC
      /\ base_ata \in Nat
  <2>1. Priceable(curve)
    BY DEF CurveInv
  <2> QED BY <2>1, CurveRates, PriceableHasRates DEF CurveInv, Priceable, CurveRecord, Funded
<1>2. quoted.val = gross /\ gross \in Nat
  <2> HIDE DEF q, t
  <2>1. t + n # 0 /\ n * q \in Nat /\ t + n \in Nat /\ t + n > 0
    BY <1>1
  <2> QED BY <2>1, DivBounds DEF SellQuote, MulDiv, Ok
<1>3. /\ CurveOpen(curve, ~legs.creator) /\ ~curve.is_mayhem_mode
      /\ ~ (quoted.val <= FeeOn(quoted.val, rates))
      /\ o = Ok(quoted.val - FeeOn(quoted.val, rates))
  BY DEF MultiHopCurveHop, Err, OK, HopRates
<1> HIDE DEF quoted, gross
<1>4. FeeOn(gross, rates) = fee + creator /\ fee \in Nat /\ creator \in Nat
  <2> HIDE DEF rates
  <2> QED BY <1>1, <1>2, FeeOnType DEF FeeOn
<1> HIDE DEF o
<1>5. ~ (gross <= fee + creator) /\ o = Ok(gross - (fee + creator))
  <2> HIDE DEF fee, creator
  <2> QED BY <1>2, <1>3, <1>4
<1>6. ~ (n > HeldC)
  BY <1>1, GlobalAssumption DEF HeldC, SupplyOfC
<1>7. hop.err = OK /\ hop.out = gross - (fee + creator)
  <2> HIDE DEF fee, creator
  <2> QED BY <1>3, <1>5, <1>6 DEF CurveHopSell, CurveFill, gross, fee, creator
<1> HIDE DEF hop, fee, creator
<1>8. gross - (fee + creator) \in Nat /\ gross - (fee + creator) > 0
  BY <1>2, <1>4, <1>5
<1>9. Matches(hop, o)
  BY <1>5, <1>7, <1>8 DEF Matches, Ok
<1> QED BY <1>9 DEF hop, o

-----------------------------------------------------------------------------
(* A quote is exact on the state it was taken of *)

(* A built request whose state still stands is quoted on the state of now.   *)
Standing(r) == Known(r) /\ r.phase = "built" /\ Fresh(r)

(* Its quote is the quote of the chain as it is.                             *)
LEMMA FreshQuote ==
  ASSUME ClientInv, NEW r, Standing(r)
  PROVE  /\ r.quote = QuoteOf(r, base_vault, quote_vault, base_ata) /\ r.quote.err = OK
         /\ r.pool = pool /\ r.curve = curve /\ r.disable_flags = disable_flags
         /\ r.amount \in Nat /\ r.slippage_bps \in Nat /\ r.kind \in Kinds
         /\ (r.kind \in Creates => r.amount > 0)
         /\ Inv /\ CurveInv /\ pool \in Pool /\ base_vault \in Nat /\ quote_vault \in Nat
         /\ base_ata \in Nat
<1>1. r \in Requests /\ r.quote.err = OK /\ (r.kind \in Creates => r.amount > 0)
      /\ r.quote = QuoteOf(r, r.base_reserve, r.quote_vault_balance, r.base_ata_amount)
  BY DEF Standing, Known, Pending
<1>2. /\ r.pool = pool /\ r.curve = curve /\ r.disable_flags = disable_flags
      /\ r.base_reserve = base_vault /\ r.quote_vault_balance = quote_vault
      /\ r.base_ata_amount = base_ata
  BY DEF Standing, Fresh
<1>3. r.amount \in Nat /\ r.slippage_bps \in Nat /\ r.kind \in Kinds
  BY <1>1 DEF Requests
<1>4. Inv /\ CurveInv /\ pool \in Pool /\ base_vault \in Nat /\ quote_vault \in Nat
      /\ base_ata \in Nat
  BY DEF ClientInv, Inv, TypeOK, CurveInv, Funded
<1> QED BY <1>1, <1>2, <1>3, <1>4

(* The program would price the trade at what it was quoted.                  *)
PromisedBuy(n, q) ==
  /\ BuyFill(n).err = OK /\ Tradable(TRUE) /\ BuyFill(n).base = n
  /\ Charge(BuyFill(n)) \in Nat /\ q.amount = AsU64(Charge(BuyFill(n)))
PromisedExactIn(n, q) ==
  /\ BuyExactInFill(n).err = OK /\ Tradable(TRUE)
  /\ BuyExactInFill(n).base = q.amount /\ Charge(BuyExactInFill(n)) <= n
PromisedSell(n, q) ==
  /\ SellFill(n).err = OK /\ Tradable(FALSE) /\ SellFill(n).base = n
  /\ Proceeds(SellFill(n)) = q.amount

(* The amount of a plain buy is its charge, cast to u64. *)
LEMMA BuyPromised ==
  ASSUME ClientInv, NEW r, Standing(r), r.kind = "buy", r.amount > 0
  PROVE  PromisedBuy(r.amount, r.quote)
<1> DEFINE n == r.amount
           s == r.slippage_bps
           q == r.quote
           t == BuyBaseInput(disable_flags, Now, n)
           f == BuyFill(n)
<1>1. /\ q = QuoteOf(r, base_vault, quote_vault, base_ata) /\ q.err = OK
      /\ r.pool = pool /\ r.disable_flags = disable_flags /\ n \in Nat /\ s \in Nat
      /\ Inv /\ pool \in Pool /\ base_vault \in Nat /\ quote_vault \in Nat
  BY FreshQuote
<1>2. q = BuyQuoteAmmTokenOut(disable_flags, Now, n, s)
  BY <1>1, QuoteByKind DEF Now
<1> HIDE DEF q, n, s
<1>3. Answered(q, Now, t, TotalIn(t), Quote(OK, TotalIn(t), n, n, AddSlippage(TotalIn(t), s)))
  BY <1>1, <1>2, PoolBuyQuote DEF Now
<1>4. t.err = OK /\ q.amount = TotalIn(t)
  BY <1>3 DEF Answered, Quote
<1>5. n > 0
  BY DEF n
<1>6. f = t /\ Tradable(TRUE)
  BY <1>1, <1>4, <1>5, FillOfBuy
<1>7. f.err = OK /\ Bought(f)
  BY <1>1, <1>4, <1>6, BuyFillGood
<1>8. f.base = n
  BY <1>7 DEF BuyFill, NotPriced, Priced, OK
<1> HIDE DEF f, t
<1>9. Charge(f) \in Nat /\ TotalIn(t) = AsU64(Charge(f))
  BY <1>6, <1>7 DEF Bought, Charge, SumOf, FeeTriple, TotalIn
<1>10. PromisedBuy(n, q)
  BY <1>4, <1>6, <1>7, <1>8, <1>9 DEF PromisedBuy, f
<1> QED BY <1>10 DEF n, q

(* The amount of an exact-in buy is the tokens it yields. *)
LEMMA ExactInPromised ==
  ASSUME ClientInv, NEW r, Standing(r), r.kind = "exact_in"
  PROVE  PromisedExactIn(r.amount, r.quote)
<1> DEFINE n == r.amount
           s == r.slippage_bps
           q == r.quote
           t == BuyQuoteInput(disable_flags, Now, n)
           f == BuyExactInFill(n)
<1>1. /\ q = QuoteOf(r, base_vault, quote_vault, base_ata) /\ q.err = OK
      /\ r.pool = pool /\ r.disable_flags = disable_flags /\ n \in Nat /\ s \in Nat
      /\ Inv /\ pool \in Pool /\ base_vault \in Nat /\ quote_vault \in Nat
  BY FreshQuote
<1>2. q = BuyQuoteAmmSolIn(disable_flags, Now, n, s)
  BY <1>1, QuoteByKind DEF Now
<1> HIDE DEF q, n, s
<1>3. Answered(q, Now, t, t.base, Quote(OK, t.base, SubSlippage(t.base, s), n, AddSlippage(n, s)))
  BY <1>1, <1>2, PoolExactInQuote DEF Now
<1>4. t.err = OK /\ q.amount = t.base
  BY <1>3 DEF Answered, Quote
<1>5. f = t /\ Tradable(TRUE)
  BY <1>1, <1>4, FillOfExactIn
<1>6. Charge(f) <= n
  BY <1>1, <1>4, <1>5, ExactInBudget
<1>7. PromisedExactIn(n, q)
  BY <1>4, <1>5, <1>6 DEF PromisedExactIn
<1> QED BY <1>7 DEF n, q

(* The amount of a sale is its proceeds. *)
LEMMA SellPromised ==
  ASSUME ClientInv, NEW r, Standing(r), r.kind = "sell", r.amount > 0
  PROVE  PromisedSell(r.amount, r.quote)
<1> DEFINE n == r.amount
           s == r.slippage_bps
           q == r.quote
           t == SellBaseInput(disable_flags, Now, n)
           f == SellFill(n)
<1>1. /\ q = QuoteOf(r, base_vault, quote_vault, base_ata) /\ q.err = OK
      /\ r.pool = pool /\ r.disable_flags = disable_flags /\ n \in Nat /\ s \in Nat
      /\ Inv /\ pool \in Pool /\ base_vault \in Nat /\ quote_vault \in Nat
  BY FreshQuote
<1>2. q = SellQuoteAmm(disable_flags, Now, n, s)
  BY <1>1, QuoteByKind DEF Now
<1> HIDE DEF q, n, s
<1>3. Answered(q, Now, t, FinalOut(t), Quote(OK, FinalOut(t), SubSlippage(FinalOut(t), s), n, n))
  BY <1>1, <1>2, PoolSellQuote DEF Now
<1>4. t.err = OK /\ q.amount = FinalOut(t)
  BY <1>3 DEF Answered, Quote
<1>5. n > 0
  BY DEF n
<1>6. f = t /\ Tradable(FALSE)
  BY <1>1, <1>4, <1>5, FillOfSell
<1>7. f.err = OK
  BY <1>4, <1>6
<1>8. f.base = n
  BY <1>7 DEF SellFill, NotPriced, Priced, OK
<1> HIDE DEF f, t
<1>9. FinalOut(t) = Proceeds(f)
  BY <1>6 DEF FinalOut, Proceeds
<1>10. PromisedSell(n, q)
  BY <1>4, <1>6, <1>7, <1>8, <1>9 DEF PromisedSell, f
<1> QED BY <1>10 DEF n, q

(* Both hops of a route, priced at what it was quoted.                       *)
PromisedRouteBuy(n, q) ==
  \E f \in {HopBuyFill(n, ForHop(TRUE, 1, 2))} :
    \E hop \in {CurveHopBuy(f.base, ForHop(TRUE, 2, 2))} :
      /\ f.err = OK /\ Charge(f) = n /\ Tradable(TRUE) /\ ~pool.is_mayhem_mode
      /\ hop.err = OK /\ hop.out = q.amount /\ q.amount > 0
PromisedRouteSell(n, q) ==
  \E hop \in {CurveHopSell(n, ForHop(FALSE, 1, 2))} :
    \E f \in {HopSellFill(hop.out, ForHop(FALSE, 2, 2))} :
      /\ hop.err = OK /\ f.err = OK /\ Tradable(FALSE) /\ ~pool.is_mayhem_mode
      /\ Proceeds(f) = q.amount /\ q.amount > 0
PromisedCreate(r) ==
  /\ FirstBuy(r).err = OK /\ FirstBuy(r).cost \in Nat
  /\ r.quote.amount = AsU64(FirstBuy(r).cost)

(* What the route of a standing request was quoted at. *)
LEMMA StandingRoute ==
  ASSUME ClientInv, NEW r, Standing(r), r.kind \in {"route_buy", "route_sell"},
         NEW is_buy \in BOOLEAN, is_buy <=> r.kind = "route_buy"
  PROVE  LET on_pool == PoolHop(pool, base_vault, quote_vault, MintSupply)
             on_curve == CurveHop(curve, SupplyOfC, base_ata)
             h1 == IF is_buy THEN on_pool ELSE on_curve
             h2 == IF is_buy THEN on_curve ELSE on_pool
             o1 == HopOut(disable_flags, h1, User, is_buy, r.amount, ForHop(is_buy, 1, 2))
             o2 == HopOut(disable_flags, h2, User, is_buy, o1.val, ForHop(is_buy, 2, 2))
         IN  SaysRoute(r.quote, r.amount, o1, o2, r.slippage_bps)
<1> DEFINE q == QuoteOf(r, base_vault, quote_vault, base_ata)
           on_pool == PoolHop(r.pool, base_vault, quote_vault, MintSupply)
           on_curve == CurveHop(r.curve, SupplyOfC, base_ata)
           h1 == IF is_buy THEN on_pool ELSE on_curve
           h2 == IF is_buy THEN on_curve ELSE on_pool
           o1 == HopOut(r.disable_flags, h1, User, is_buy, r.amount, ForHop(is_buy, 1, 2))
           o2 == HopOut(r.disable_flags, h2, User, is_buy, o1.val, ForHop(is_buy, 2, 2))
<1>1. SaysRoute(q, r.amount, o1, o2, r.slippage_bps)
  BY RouteQuote
<1>2. r.quote = q /\ r.pool = pool /\ r.curve = curve /\ r.disable_flags = disable_flags
  BY FreshQuote
<1> HIDE DEF q
<1> QED BY <1>1, <1>2

(* A route that buys: the pool's hop feeds the curve's. *)
LEMMA RouteBuyPromised ==
  ASSUME ClientInv, NEW r, Standing(r), r.kind = "route_buy"
  PROVE  PromisedRouteBuy(r.amount, r.quote)
<1> DEFINE n == r.amount
           s == r.slippage_bps
           q == r.quote
           l1(b) == ForHop(b, 1, 2)
           l2(b) == ForHop(b, 2, 2)
           t == MultiHopPoolHop(disable_flags, pool, base_vault, quote_vault, MintSupply, TRUE, n,
                                l1(TRUE))
           o == MultiHopCurveHop(curve, SupplyOfC, base_ata, User, TRUE, t.base, l2(TRUE))
           f == HopBuyFill(n, l1(TRUE))
           hop == CurveHopBuy(f.base, l2(TRUE))
<1>1. /\ q = QuoteOf(r, base_vault, quote_vault, base_ata) /\ q.err = OK
      /\ r.pool = pool /\ r.curve = curve /\ r.disable_flags = disable_flags
      /\ n \in Nat /\ s \in Nat
      /\ Inv /\ CurveInv /\ pool \in Pool /\ base_vault \in Nat /\ quote_vault \in Nat
  BY FreshQuote
<1>2. t.err = OK /\ o.err = OK
      /\ q = Quote(OK, o.val, Greatest(SubSlippage(o.val, s), 1), n, n)
  <2> DEFINE is_buy == r.kind = "route_buy"
             on_pool == PoolHop(pool, base_vault, quote_vault, MintSupply)
             on_curve == CurveHop(curve, SupplyOfC, base_ata)
             h1 == IF is_buy THEN on_pool ELSE on_curve
             h2 == IF is_buy THEN on_curve ELSE on_pool
             o1 == HopOut(disable_flags, h1, User, is_buy, n, l1(is_buy))
             o2 == HopOut(disable_flags, h2, User, is_buy, o1.val, l2(is_buy))
  <2>1. is_buy \in BOOLEAN /\ (is_buy <=> r.kind = "route_buy") /\ is_buy = TRUE
    OBVIOUS
  <2>2. SaysRoute(q, n, o1, o2, s)
    <3> HIDE DEF is_buy
    <3>1. r.kind \in {"route_buy", "route_sell"} /\ is_buy \in BOOLEAN
          /\ (is_buy <=> r.kind = "route_buy")
      BY <2>1
    <3> QED BY <3>1, StandingRoute
  <2>3. h1 = on_pool /\ h2 = on_curve
    BY <2>1
  <2>4. o1.err = t.err /\ o1.val = t.base
    <3> HIDE DEF is_buy, h1, h2, t, l1
    <3>1. o1 = HopOut(disable_flags, on_pool, User, TRUE, n, l1(TRUE))
      BY <2>1, <2>3
    <3> HIDE DEF o1
    <3> QED BY <3>1 DEF HopOut, PoolHop, t
  <2>5. o2 = o
    <3> HIDE DEF is_buy, h1, h2, t, o1, l2
    <3>1. o2 = HopOut(disable_flags, on_curve, User, TRUE, t.base, l2(TRUE))
      BY <2>1, <2>3, <2>4
    <3> QED BY <3>1 DEF HopOut, CurveHop
  <2> HIDE DEF q, o, t, o1, o2
  <2> QED BY <1>1, <2>2, <2>4, <2>5 DEF SaysRoute
<1> HIDE DEF q, n, s, l1, l2
<1>3. f = t /\ Tradable(TRUE) /\ ~pool.is_mayhem_mode
  BY <1>1, <1>2, FillOfHopBuy
<1>4. f.err = OK
  BY <1>2, <1>3
<1>5. Charge(f) = n /\ Bought(f)
  BY <1>1, <1>4, HopBudget, HopBuyFillGood
<1>6. Matches(hop, o)
  <2>1. t.base \in Nat /\ f.base = t.base
    BY <1>3, <1>5 DEF Bought
  <2> HIDE DEF f, t
  <2> QED BY <1>1, <1>2, <2>1, CurveHopBuyIs
<1> HIDE DEF f, hop, o, t
<1>7. q.amount = o.val
  BY <1>2 DEF Quote
<1>8. /\ f.err = OK /\ Charge(f) = n /\ hop.err = OK /\ hop.out = q.amount /\ q.amount > 0
  BY <1>4, <1>5, <1>6, <1>7 DEF Matches
<1>9. PromisedRouteBuy(n, q)
  BY <1>3, <1>8 DEF PromisedRouteBuy, f, hop, l1, l2
<1> QED BY <1>9 DEF n, q

(* A route that sells: the curve's hop feeds the pool's. *)
LEMMA RouteSellPromised ==
  ASSUME ClientInv, NEW r, Standing(r), r.kind = "route_sell", r.amount <= HeldC
  PROVE  PromisedRouteSell(r.amount, r.quote)
<1> DEFINE n == r.amount
           s == r.slippage_bps
           q == r.quote
           l1(b) == ForHop(b, 1, 2)
           l2(b) == ForHop(b, 2, 2)
           o == MultiHopCurveHop(curve, SupplyOfC, base_ata, User, FALSE, n, l1(FALSE))
           t == MultiHopPoolHop(disable_flags, pool, base_vault, quote_vault, MintSupply, FALSE,
                                o.val, l2(FALSE))
           hop == CurveHopSell(n, l1(FALSE))
           f == HopSellFill(hop.out, l2(FALSE))
<1>1. /\ q = QuoteOf(r, base_vault, quote_vault, base_ata) /\ q.err = OK
      /\ r.pool = pool /\ r.curve = curve /\ r.disable_flags = disable_flags
      /\ n \in Nat /\ s \in Nat
      /\ Inv /\ CurveInv /\ pool \in Pool /\ base_vault \in Nat /\ quote_vault \in Nat
  BY FreshQuote
<1>2. t.err = OK /\ o.err = OK
      /\ q = Quote(OK, FinalOut(t), Greatest(SubSlippage(FinalOut(t), s), 1), n, n)
  <2> DEFINE is_buy == r.kind = "route_buy"
             on_pool == PoolHop(pool, base_vault, quote_vault, MintSupply)
             on_curve == CurveHop(curve, SupplyOfC, base_ata)
             h1 == IF is_buy THEN on_pool ELSE on_curve
             h2 == IF is_buy THEN on_curve ELSE on_pool
             o1 == HopOut(disable_flags, h1, User, is_buy, n, l1(is_buy))
             o2 == HopOut(disable_flags, h2, User, is_buy, o1.val, l2(is_buy))
  <2>1. is_buy \in BOOLEAN /\ (is_buy <=> r.kind = "route_buy") /\ is_buy = FALSE
    OBVIOUS
  <2>2. SaysRoute(q, n, o1, o2, s)
    <3> HIDE DEF is_buy
    <3>1. r.kind \in {"route_buy", "route_sell"} /\ is_buy \in BOOLEAN
          /\ (is_buy <=> r.kind = "route_buy")
      BY <2>1
    <3> QED BY <3>1, StandingRoute
  <2>3. h1 = on_curve /\ h2 = on_pool
    BY <2>1
  <2>4. o1 = o
    <3> HIDE DEF is_buy, h1, h2, l1
    <3>1. o1 = HopOut(disable_flags, on_curve, User, FALSE, n, l1(FALSE))
      BY <2>1, <2>3
    <3> QED BY <3>1 DEF HopOut, CurveHop
  <2>5. o2.err = t.err /\ o2.val = FinalOut(t)
    <3> HIDE DEF is_buy, h1, h2, t, o, o1, l2
    <3>1. o2 = HopOut(disable_flags, on_pool, User, FALSE, o.val, l2(FALSE))
      BY <2>1, <2>3, <2>4
    <3> HIDE DEF o2
    <3> QED BY <3>1 DEF HopOut, PoolHop, t
  <2> HIDE DEF q, o, t, o1, o2
  <2> QED BY <1>1, <2>2, <2>4, <2>5 DEF SaysRoute
<1> HIDE DEF q, s, l1, l2
<1>3. Matches(hop, o)
  <2>1. n <= HeldC
    OBVIOUS
  <2> HIDE DEF n
  <2> QED BY <1>1, <1>2, <2>1, CurveHopSellIs
<1> HIDE DEF hop, o, n
<1>4. hop.err = OK /\ hop.out = o.val /\ o.val \in Nat /\ o.val > 0
  BY <1>3 DEF Matches
<1>5. /\ f = t /\ Tradable(FALSE) /\ ~pool.is_mayhem_mode /\ Proceeds(f) > 0
  BY <1>1, <1>2, <1>4, FillOfHopSell
<1> HIDE DEF f, t
<1>6. f.err = OK /\ q.amount = Proceeds(f)
  BY <1>2, <1>5 DEF Quote, FinalOut, Proceeds
<1>7. PromisedRouteSell(n, q)
  BY <1>4, <1>5, <1>6 DEF PromisedRouteSell, f, hop, l1, l2
<1> QED BY <1>7 DEF n, q

(* The first buy of a new coin costs what it was quoted at. *)
LEMMA CreatePromised ==
  ASSUME ClientInv, NEW r, Standing(r), r.kind \in Creates
  PROVE  PromisedCreate(r)
<1> DEFINE on_q == r.kind = "create_on_q"
           n == r.amount
           s == r.slippage_bps
           q == r.quote
           on_pool == SeedFrom(Global.initial_virtual_sol_reserves, base_vault,
                               quote_vault + pool.virtual_quote_reserves)
           on_curve == SeedFrom(SeedOfC, curve.virtual_token_reserves,
                                curve.virtual_quote_reserves)
           seed == IF on_q THEN on_pool ELSE on_curve
           mint == IF on_q THEN CurveOfC.quote_mint ELSE "C"
           trade == QuoteTrade(disable_flags, NewCurve(mint, seed.val), {}, SupplyOfC, TRUE, n, s)
<1>1. /\ q = QuoteOf(r, base_vault, quote_vault, base_ata) /\ q.err = OK
      /\ r.pool = pool /\ r.curve = curve /\ r.disable_flags = disable_flags
      /\ n \in Nat /\ s \in Nat /\ n > 0 /\ Inv /\ CurveInv
  BY FreshQuote
<1>2. seed.err = OK /\ (~on_q => ~curve.complete) /\ q = trade
  <2> HIDE DEF q, n, s
  <2> QED BY <1>1, CreateQuote DEF n, s
<1>3. seed.val = SeedNow(r) /\ SeedNow(r) \in Nat /\ SeedNow(r) > 0
  <2>1. CASE on_q
    <3>1. /\ base_vault \in Nat /\ Effective \in Nat /\ Effective \in Int
          /\ Global.initial_virtual_sol_reserves \in Nat
      BY <1>1, PoolNumbers, PoolClientAssumption
    <3>2. seed = SeedFrom(Global.initial_virtual_sol_reserves, base_vault, Effective)
      BY <2>1 DEF Effective
    <3> HIDE DEF seed
    <3>3. /\ seed.val = Seed(Global.initial_virtual_sol_reserves, base_vault, Effective)
          /\ seed.val \in Nat /\ seed.val > 0
      BY <1>2, <3>1, <3>2, SeedValue DEF Seed
    <3> QED BY <2>1, <3>3 DEF SeedNow
  <2>2. CASE ~on_q
    <3>1. /\ curve.virtual_token_reserves \in Nat /\ curve.virtual_quote_reserves \in Int
          /\ SeedOfC \in Nat
      BY <1>1, PoolClientAssumption DEF CurveInv, Priceable, CurveRecord
    <3>2. seed = SeedFrom(SeedOfC, curve.virtual_token_reserves, curve.virtual_quote_reserves)
      BY <2>2
    <3> HIDE DEF seed
    <3>3. /\ seed.val = Seed(SeedOfC, curve.virtual_token_reserves,
                             curve.virtual_quote_reserves)
          /\ seed.val \in Nat /\ seed.val > 0
      BY <1>2, <3>1, <3>2, SeedValue DEF Seed
    <3> QED BY <2>2, <3>3 DEF SeedNow
  <2> QED BY <2>1, <2>2
<1> HIDE DEF seed
<1>4. mint = NewMint(r)
  BY DEF NewMint
<1> HIDE DEF mint, n, s, q
<1>5. SaysFirstBuy(trade, FirstCost(r, seed.val), FirstFees(r, seed.val), FirstTokens(r), s)
  <2>1. SaysFirstBuy(QuoteTrade(disable_flags, NewCurve(NewMint(r), seed.val), {}, SupplyOfC,
                                TRUE, n, s),
                     FirstCost(r, seed.val), FirstFees(r, seed.val), FirstTokens(r), s)
    BY <1>1, <1>3, FirstBuyQuote DEF FirstCost, FirstFees, FirstTokens, n
  <2> QED BY <1>4, <2>1
<1> HIDE DEF trade
<1>6. q.amount = AsU64(WithFees(FirstCost(r, SeedNow(r)), FirstFees(r, SeedNow(r))))
  BY <1>1, <1>2, <1>3, <1>5 DEF SaysFirstBuy
<1>7. /\ FirstBuy(r).cost = WithFees(FirstCost(r, SeedNow(r)), FirstFees(r, SeedNow(r)))
      /\ FirstBuy(r).cost \in Nat
      /\ (FirstBuy(r).err = OK)
           <=> ~ (SeedNow(r) = 0 \/ (r.kind # "create_on_q" /\ curve.complete))
  BY <1>1, FirstBuyIs DEF n
<1>8. FirstBuy(r).err = OK
  BY <1>2, <1>3, <1>7
<1> QED BY <1>6, <1>7, <1>8 DEF PromisedCreate, q

-----------------------------------------------------------------------------
(* The promise of a quote *)

(* No account holds more than its mint's supply, which fits a u64. *)
LEMMA HoldingsFit ==
  ASSUME ClientInv
  PROVE  /\ purse \in Nat /\ purse <= U64_MAX
         /\ circulating \in Nat /\ circulating <= U64_MAX
         /\ HeldC \in Nat /\ HeldC <= U64_MAX
<1>1. /\ purse \in Nat /\ quote_vault \in Nat /\ paid_out \in Nat /\ circulating \in Nat
      /\ base_vault \in Nat /\ base_ata \in Nat /\ base_ata <= SupplyOfC
      /\ base_vault + circulating = MintSupply
      /\ purse + quote_vault + paid_out = Purse + (OpenQuote - Boost)
  BY DEF ClientInv, Inv, TypeOK, Conserved, CurveInv, Funded
<1>2. OpenQuote \in Nat /\ OpenBase \in Nat /\ U64_MAX \in Nat /\ SupplyOfC \in Nat
      /\ SupplyOfC <= U64_MAX
  BY Deposits, U64Assumption, GlobalAssumption, PoolClientAssumption DEF SupplyOfC
<1>3. /\ Boost \in Nat /\ Purse \in Nat /\ Held \in Nat
      /\ OpenQuote + Purse <= U64_MAX /\ OpenBase + Held <= U64_MAX
  BY PoolMarketAssumption
<1>4. purse <= U64_MAX
  BY <1>1, <1>2, <1>3
<1>5. circulating <= U64_MAX
  BY <1>1, <1>2, <1>3 DEF MintSupply
<1>6. HeldC \in Nat /\ HeldC <= U64_MAX
  BY <1>1, <1>2 DEF HeldC
<1> QED BY <1>1, <1>4, <1>5, <1>6

(* A cost that fits a u64 is the quoted amount, and within the limit if and  *)
(* only if the slipped amount, cast to u64, is no less.                      *)
LEMMA LimitAdmits ==
  ASSUME NEW r, Known(r), r.phase = "built", r.kind \in {"buy"} \cup Creates,
         NEW cost \in Nat, cost <= U64_MAX, r.quote.amount = AsU64(cost)
  PROVE  cost <= r.quote.max_input <=> r.quote.amount <= AsU64(Slipped(r))
<1>1. r.quote.max_input = AsU64(Slipped(r))
  BY BuiltLimits DEF Limits, AddSlippage, Slipped
<1>2. r.quote.amount = cost
  BY AsU64Shrinks
<1> QED BY <1>1, <1>2

(* On the chain state a quote was taken of, the program executes the trade   *)
(* that was promised ...                                                     *)
LEMMA StandingAccepted ==
  ASSUME ClientInv, NEW r, Standing(r), Promised(r)
  PROVE  Accepts(r)
<1> DEFINE n == r.amount
           x == r.quote.amount
           s == r.slippage_bps
<1>1. /\ n \in Nat /\ x \in Nat /\ s \in Nat /\ Known(r) /\ r.phase = "built"
      /\ Limits(r, r.quote) /\ Inv /\ CurveInv /\ r.kind \in Kinds
  BY BuiltLimits, FreshQuote DEF Standing
<1>2. \A is_buy \in BOOLEAN : Tradable(is_buy) =>
        /\ ~pool.is_cashback_coin => Open(is_buy, 2)
        /\ ~pool.is_mayhem_mode => Open(is_buy, 3)
  BY DEF Tradable, Open, Now
<1>3. SubSlippage(x, s) \in Nat /\ SubSlippage(x, s) <= x
  <2> HIDE DEF x, s
  <2> QED BY <1>1, SlippageBounds
<1>4. x > 0 => Greatest(SubSlippage(x, s), 1) <= x
  <2> DEFINE m == SubSlippage(x, s)
  <2> HIDE DEF x, m
  <2> QED BY <1>1, <1>3 DEF Greatest, m
<1>5. CASE r.kind = "buy"
  <2> DEFINE f == BuyFill(n)
  <2>1. PromisedBuy(n, r.quote)
    BY <1>5, BuyPromised DEF Promised
  <2>2. /\ f.err = OK /\ Tradable(TRUE) /\ Charge(f) \in Nat /\ x = AsU64(Charge(f))
        /\ Charge(f) <= purse
    BY <1>5, <2>1 DEF PromisedBuy, Promised
  <2> HIDE DEF f
  <2>3. Charge(f) <= U64_MAX
    BY <2>2, HoldingsFit, U64Assumption
  <2>4. Charge(f) <= r.quote.max_input
    BY <1>1, <1>5, <2>2, <2>3, LimitAdmits DEF Promised
  <2>5. CanBuy(f, 2)
    BY <1>2, <1>5, <2>2 DEF CanBuy, Promised
  <2> QED BY <1>5, <2>4, <2>5 DEF Accepts, f
<1>6. CASE r.kind = "exact_in"
  <2> DEFINE f == BuyExactInFill(n)
  <2>1. PromisedExactIn(n, r.quote)
    BY <1>6, ExactInPromised
  <2>2. f.err = OK /\ Tradable(TRUE) /\ f.base = x /\ Charge(f) <= purse
    BY <1>6, <2>1 DEF PromisedExactIn, Promised
  <2> HIDE DEF f
  <2>3. f.base >= r.quote.min_out
    BY <1>1, <1>3, <1>6, <2>2 DEF Limits
  <2>4. CanBuy(f, 2)
    BY <1>2, <1>6, <2>2 DEF CanBuy, Promised
  <2> QED BY <1>6, <2>3, <2>4 DEF Accepts, f
<1>7. CASE r.kind = "sell"
  <2> DEFINE f == SellFill(n)
  <2>1. PromisedSell(n, r.quote)
    BY <1>7, SellPromised DEF Promised
  <2>2. /\ f.err = OK /\ Tradable(FALSE) /\ f.base = n /\ Proceeds(f) = x /\ n <= circulating
    BY <1>7, <2>1 DEF PromisedSell, Promised
  <2> HIDE DEF f
  <2>3. Proceeds(f) >= r.quote.min_out
    BY <1>1, <1>3, <1>7, <2>2 DEF Limits
  <2>4. CanSell(f, 2)
    BY <1>2, <1>7, <2>2 DEF CanSell, Promised
  <2> QED BY <1>7, <2>3, <2>4 DEF Accepts, f
<1>8. CASE r.kind = "route_buy"
  <2>1. PromisedRouteBuy(n, r.quote)
    BY <1>8, RouteBuyPromised
  <2>2. PICK f \in {HopBuyFill(n, ForHop(TRUE, 1, 2))} :
          \E hop \in {CurveHopBuy(f.base, ForHop(TRUE, 2, 2))} :
            /\ f.err = OK /\ Charge(f) = n /\ Tradable(TRUE) /\ ~pool.is_mayhem_mode
            /\ hop.err = OK /\ hop.out = x /\ x > 0
    BY <2>1 DEF PromisedRouteBuy
  <2>3. PICK hop \in {CurveHopBuy(f.base, ForHop(TRUE, 2, 2))} :
            /\ f.err = OK /\ Charge(f) = n /\ Tradable(TRUE) /\ ~pool.is_mayhem_mode
            /\ hop.err = OK /\ hop.out = x /\ x > 0
    BY <2>2
  <2>4. CanBuy(f, 3)
    BY <1>2, <1>8, <2>3 DEF CanBuy, Promised
  <2>5. hop.out >= r.quote.min_out
    BY <1>1, <1>4, <1>8, <2>3 DEF Limits
  <2> QED BY <1>8, <2>2, <2>3, <2>4, <2>5, Zenon DEF Accepts
<1>9. CASE r.kind = "route_sell"
  <2>1. PromisedRouteSell(n, r.quote)
    BY <1>9, RouteSellPromised DEF Promised
  <2>2. PICK hop \in {CurveHopSell(n, ForHop(FALSE, 1, 2))} :
          \E f \in {HopSellFill(hop.out, ForHop(FALSE, 2, 2))} :
            /\ hop.err = OK /\ f.err = OK /\ Tradable(FALSE) /\ ~pool.is_mayhem_mode
            /\ Proceeds(f) = x /\ x > 0
    BY <2>1 DEF PromisedRouteSell
  <2>3. PICK f \in {HopSellFill(hop.out, ForHop(FALSE, 2, 2))} :
            /\ hop.err = OK /\ f.err = OK /\ Tradable(FALSE) /\ ~pool.is_mayhem_mode
            /\ Proceeds(f) = x /\ x > 0
    BY <2>2
  <2>4. Open(FALSE, 3)
    BY <1>2, <2>3
  <2>5. Proceeds(f) >= r.quote.min_out
    BY <1>1, <1>4, <1>9, <2>3 DEF Limits
  <2> QED BY <1>9, <2>2, <2>3, <2>4, <2>5, Zenon DEF Accepts
<1>10. CASE r.kind \in Creates
  <2> DEFINE b == FirstBuy(r)
  <2>1. PromisedCreate(r)
    BY <1>10, CreatePromised
  <2>2. b.err = OK /\ b.cost \in Nat /\ x = AsU64(b.cost) /\ b.cost <= b.held
    BY <1>10, <2>1 DEF PromisedCreate, Promised
  <2>3. b.held \in Nat /\ b.held <= U64_MAX
    <3>1. b.held = IF r.kind = "create_on_q" THEN circulating ELSE HeldC
      BY <1>1, <1>10, FirstBuyIs
    <3> HIDE DEF b
    <3> QED BY <3>1, HoldingsFit
  <2> HIDE DEF b
  <2>4. b.cost <= U64_MAX
    BY <2>2, <2>3, U64Assumption
  <2>5. b.cost <= r.quote.max_input
    BY <1>1, <1>10, <2>2, <2>4, LimitAdmits DEF Promised
  <2> QED BY <1>10, <2>2, <2>5 DEF Accepts, CanCreate, b
<1> QED BY <1>1, <1>5, <1>6, <1>7, <1>8, <1>9, <1>10 DEF Kinds

(* A budget that splits into a net and fees is not empty.                    *)
LEMMA BudgetPositive ==
  ASSUME Inv, NEW n \in Nat, NEW legs, ExactInFeeAmounts(n, TradeBps(legs)).err = OK
  PROVE  n > 0
<1> DEFINE split == ExactInFeeAmounts(n, TradeBps(legs))
<1>1. /\ split.net \in Nat /\ split.net > 0 /\ split.fees \in FeeTriple
      /\ split.net + (split.fees[1] + split.fees[2] + split.fees[3]) <= n
  BY TradeBpsType, ExactInSplit DEF FeeTriple
<1> HIDE DEF split
<1> QED BY <1>1 DEF FeeTriple

(* ... and no other.                                                         *)
LEMMA StandingRefused ==
  ASSUME ClientInv, NEW r, Standing(r), Accepts(r)
  PROVE  Promised(r)
<1> DEFINE n == r.amount
           x == r.quote.amount
<1>1. /\ n \in Nat /\ x \in Nat /\ Known(r) /\ r.phase = "built"
      /\ Inv /\ CurveInv /\ r.kind \in Kinds /\ (r.kind \in Creates => n > 0)
  BY BuiltLimits, FreshQuote DEF Standing
<1>2. CASE r.kind = "buy"
  <2> DEFINE f == BuyFill(n)
  <2>1. f.err = OK /\ Open(TRUE, 2) /\ Charge(f) <= purse /\ Charge(f) <= r.quote.max_input
    BY <1>2 DEF Accepts, CanBuy, Creates
  <2>2. n > 0
    BY <1>1, <2>1 DEF BuyFill, NotPriced, OK
  <2>3. x = AsU64(Charge(f)) /\ Charge(f) \in Nat
    BY <1>2, <2>2, BuyPromised DEF PromisedBuy
  <2> HIDE DEF f
  <2>4. Charge(f) <= U64_MAX
    BY <2>1, <2>3, HoldingsFit, U64Assumption
  <2>5. x <= AsU64(Slipped(r))
    BY <1>1, <1>2, <2>1, <2>3, <2>4, LimitAdmits
  <2> QED BY <1>2, <2>1, <2>2, <2>5 DEF Promised, Open, Creates, f
<1>3. CASE r.kind = "exact_in"
  <2> DEFINE f == BuyExactInFill(n)
             split == ExactInFeeAmounts(n, TradeBps(AllLegs))
  <2>1. f.err = OK /\ Open(TRUE, 2) /\ Charge(f) <= purse
    BY <1>3 DEF Accepts, CanBuy, Creates
  <2>2. split.err = OK
    BY <2>1 DEF BuyExactInFill, NotPriced, OK
  <2>3. n > 0
    BY <1>1, <2>2, BudgetPositive
  <2> HIDE DEF f
  <2> QED BY <1>3, <2>1, <2>3 DEF Promised, Open, Creates, f
<1>4. CASE r.kind = "sell"
  <2> DEFINE f == SellFill(n)
  <2>1. f.err = OK /\ Open(FALSE, 2) /\ f.base <= circulating
    BY <1>4 DEF Accepts, CanSell, Creates
  <2>2. n > 0
    BY <1>1, <2>1 DEF SellFill, NotPriced, OK
  <2>3. f.base = n
    BY <1>4, <2>2, SellPromised DEF PromisedSell
  <2> HIDE DEF f
  <2> QED BY <1>4, <2>1, <2>2, <2>3 DEF Promised, Open, Creates
<1>5. CASE r.kind = "route_buy"
  <2> DEFINE f == HopBuyFill(n, ForHop(TRUE, 1, 2))
             split == ExactInFeeAmounts(n, TradeBps(ForHop(TRUE, 1, 2)))
  <2>1. CanBuy(f, 3)
    BY <1>5 DEF Accepts, Creates
  <2>2. f.err = OK /\ Charge(f) <= purse
    BY <2>1 DEF CanBuy
  <2>3. Charge(f) = n
    BY <1>1, <2>2, HopBudget
  <2>4. split.err = OK
    BY <2>2 DEF HopBuyFill, NotPriced, OK
  <2>5. n > 0
    BY <1>1, <2>4, BudgetPositive
  <2> HIDE DEF f
  <2> QED BY <1>5, <2>2, <2>3, <2>5 DEF Promised, Creates
<1>6. CASE r.kind = "route_sell"
  <2> DEFINE hop == CurveHopSell(n, ForHop(FALSE, 1, 2))
             rates == HopRates(curve, ForHop(FALSE, 1, 2))
             gross == (n * curve.virtual_quote_reserves)
                        \div (curve.virtual_token_reserves + n)
  <2>1. hop.err = OK
    BY <1>6 DEF Accepts, Creates
  <2>2. ~ (n > HeldC)
        /\ ~ (gross <= FeeAmount(gross, rates.protocol_fee_bps)
                        + FeeAmount(gross, rates.creator_fee_bps))
    BY <2>1 DEF CurveHopSell, CurveFill, OK
  <2>3. n <= HeldC
    <3> HIDE DEF n
    <3> QED BY <1>1, <2>2, HoldingsFit
  <2>4. n > 0
    <3> SUFFICES ASSUME n = 0 PROVE FALSE
      BY <1>1
    <3>1. /\ rates \in Fees /\ curve.virtual_quote_reserves \in Nat
          /\ curve.virtual_token_reserves \in Nat /\ curve.virtual_token_reserves > 0
      <4>1. Priceable(curve)
        BY <1>1 DEF CurveInv
      <4>2. HasRates(curve)
        BY <4>1, PriceableHasRates
      <4>3. rates \in Fees
        BY <4>2, CurveRates
      <4> QED BY <4>2, <4>3 DEF HasRates
    <3> HIDE DEF rates
    <3>2. gross \in Nat
      BY <1>1, <3>1, DivBounds
    <3>3. FeeAmount(gross, rates.protocol_fee_bps) \in Nat
          /\ FeeAmount(gross, rates.creator_fee_bps) \in Nat
      <4> HIDE DEF gross
      <4> QED BY <3>1, <3>2, FeeAmountNat DEF Fees
    <3>4. gross = 0
      BY <3>1
    <3> HIDE DEF gross
    <3> QED BY <2>2, <3>2, <3>3, <3>4
  <2> HIDE DEF hop
  <2> QED BY <1>6, <2>3, <2>4 DEF Promised, Creates
<1>7. CASE r.kind \in Creates
  <2> DEFINE b == FirstBuy(r)
  <2>1. b.cost <= b.held /\ b.cost <= r.quote.max_input
    BY <1>7 DEF Accepts, Creates, CanCreate
  <2>2. b.cost \in Nat /\ x = AsU64(b.cost)
    BY <1>7, CreatePromised DEF PromisedCreate
  <2>3. b.held \in Nat /\ b.held <= U64_MAX
    <3>1. b.held = IF r.kind = "create_on_q" THEN circulating ELSE HeldC
      BY <1>1, <1>7, FirstBuyIs
    <3> HIDE DEF b
    <3> QED BY <3>1, HoldingsFit
  <2> HIDE DEF b
  <2>4. b.cost <= U64_MAX
    BY <2>1, <2>2, <2>3, U64Assumption
  <2>5. x <= AsU64(Slipped(r))
    BY <1>1, <1>7, <2>1, <2>2, <2>4, LimitAdmits
  <2> QED BY <1>1, <1>7, <2>1, <2>5 DEF Promised, Creates, b
<1> QED BY <1>1, <1>2, <1>3, <1>4, <1>5, <1>6, <1>7 DEF Kinds

(* On the chain state a quote was taken of the program executes the plain    *)
(* trade, the route or the creation if and only if the user can pay and the  *)
(* limits do not wrap a u64: no other refusal is hidden from the quote.      *)
THEOREM QuietTradesLand == ClientSpec => []QuietTradeLands
<1>1. ASSUME ClientInv PROVE QuietTradeLands
  <2>1. Known(request)
    BY <1>1 DEF ClientInv
  <2> QED BY <1>1, <2>1, StandingAccepted, StandingRefused DEF QuietTradeLands, Standing
<1> QED BY <1>1, ClientInductive, PTL

(* What the trade a request asks for moves, when it is what it was quoted.   *)
MovesAsQuoted(r) ==
  \/ /\ r.kind = "buy"
     /\ purse - purse' = r.quote.amount
  \/ /\ r.kind = "exact_in"
     /\ circulating' - circulating = r.quote.amount
     /\ purse - purse' <= r.amount
  \/ /\ r.kind \in {"sell", "route_sell"}
     /\ purse' - purse = r.quote.amount
  \/ /\ r.kind = "route_buy"
     /\ purse - purse' = r.amount
     /\ base_ata - base_ata' = r.quote.amount
  \/ /\ r.kind \in Creates
     /\ FirstBuy(r).cost = r.quote.amount

(* On the chain state a quote was taken of, what executes is what it says.   *)
LEMMA StandingMoves ==
  ASSUME ClientInv, NEW r, Standing(r), Executed(r)
  PROVE  MovesAsQuoted(r)
<1> DEFINE n == r.amount
           x == r.quote.amount
<1>1. /\ n \in Nat /\ x \in Nat /\ Inv /\ CurveInv /\ r.kind \in Kinds
      /\ base_ata \in Nat
  BY BuiltLimits, FreshQuote DEF Standing
<1>2. CASE r.kind = "buy"
  <2> DEFINE f == BuyFill(n)
  <2>1. Bought(f) /\ ApplyBuy(f, 2)
    BY <1>2 DEF Executed, Creates
  <2>2. f.err = OK /\ Charge(f) <= purse
    BY <2>1 DEF ApplyBuy, CanBuy
  <2>3. n > 0
    BY <1>1, <2>2 DEF BuyFill, NotPriced, OK
  <2>4. x = AsU64(Charge(f)) /\ Charge(f) \in Nat
    BY <1>2, <2>3, BuyPromised DEF PromisedBuy
  <2> HIDE DEF f
  <2>5. purse - purse' = Charge(f)
    BY <1>1, <2>1, PurseMoves
  <2>6. Charge(f) <= U64_MAX
    BY <2>2, <2>4, HoldingsFit, U64Assumption
  <2>7. x = Charge(f)
    BY <2>4, <2>6, AsU64Shrinks
  <2> QED BY <1>2, <2>5, <2>7 DEF MovesAsQuoted
<1>3. CASE r.kind = "exact_in"
  <2> DEFINE f == BuyExactInFill(n)
  <2>1. Bought(f) /\ ApplyBuy(f, 2)
    BY <1>3 DEF Executed, Creates
  <2>2. f.base = x /\ Charge(f) <= n
    BY <1>3, ExactInPromised DEF PromisedExactIn
  <2> HIDE DEF f
  <2>3. purse - purse' = Charge(f) /\ circulating' - circulating = f.base
    BY <1>1, <2>1, PurseMoves
  <2> QED BY <1>3, <2>2, <2>3 DEF MovesAsQuoted
<1>4. CASE r.kind = "sell"
  <2> DEFINE f == SellFill(n)
  <2>1. Sold(f) /\ ApplySell(f, 2)
    BY <1>4 DEF Executed, Creates
  <2>2. f.err = OK
    BY <2>1 DEF ApplySell, CanSell
  <2>3. n > 0
    BY <1>1, <2>2 DEF SellFill, NotPriced, OK
  <2>4. Proceeds(f) = x
    BY <1>4, <2>3, SellPromised DEF PromisedSell
  <2> HIDE DEF f
  <2>5. purse' - purse = Proceeds(f)
    BY <1>1, <2>1, PurseMoves
  <2> QED BY <1>4, <2>4, <2>5 DEF MovesAsQuoted
<1>5. CASE r.kind = "route_buy"
  <2> DEFINE f == HopBuyFill(n, ForHop(TRUE, 1, 2))
             hop == CurveHopBuy(f.base, ForHop(TRUE, 2, 2))
  <2>1. Bought(f) /\ CurveTook(hop) /\ ApplyBuy(f, 3) /\ base_ata' = hop.base_ata
    BY <1>5 DEF Executed, Creates
  <2>2. Charge(f) = n /\ hop.out = x
    BY <1>5, RouteBuyPromised DEF PromisedRouteBuy
  <2> HIDE DEF f, hop
  <2>3. purse - purse' = Charge(f)
    BY <1>1, <2>1, PurseMoves
  <2>4. base_ata - base_ata' = x
    <3>1. base_ata' = base_ata - x
      BY <2>1, <2>2 DEF CurveTook
    <3> HIDE DEF x
    <3> QED BY <1>1, <3>1
  <2> QED BY <1>5, <2>2, <2>3, <2>4 DEF MovesAsQuoted
<1>6. CASE r.kind = "route_sell"
  <2> DEFINE hop == CurveHopSell(n, ForHop(FALSE, 1, 2))
             f == HopSellFill(hop.out, ForHop(FALSE, 2, 2))
  <2>1. Sold(f) /\ ApplySell(f, 3) /\ hop.err = OK
    BY <1>6 DEF Executed, Creates
  <2>2. n <= HeldC
    <3>1. ~ (n > HeldC)
      BY <2>1 DEF CurveHopSell, CurveFill, OK
    <3> HIDE DEF n
    <3> QED BY <1>1, <3>1, HoldingsFit
  <2>3. Proceeds(f) = x
    BY <1>6, <2>2, RouteSellPromised DEF PromisedRouteSell
  <2> HIDE DEF f, hop
  <2>4. purse' - purse = Proceeds(f)
    BY <1>1, <2>1, PurseMoves
  <2> QED BY <1>6, <2>3, <2>4 DEF MovesAsQuoted
<1>7. CASE r.kind \in Creates
  <2> DEFINE b == FirstBuy(r)
  <2>1. b.cost <= b.held
    BY <1>7 DEF Executed, Creates, CanCreate
  <2>2. b.cost \in Nat /\ x = AsU64(b.cost)
    BY <1>7, CreatePromised DEF PromisedCreate
  <2>3. b.held \in Nat /\ b.held <= U64_MAX
    <3>1. b.held = IF r.kind = "create_on_q" THEN circulating ELSE HeldC
      BY <1>1, <1>7, FirstBuyIs
    <3> HIDE DEF b
    <3> QED BY <3>1, HoldingsFit
  <2> HIDE DEF b
  <2>4. b.cost <= U64_MAX
    BY <2>1, <2>2, <2>3, U64Assumption
  <2>5. x = b.cost
    BY <2>2, <2>4, AsU64Shrinks
  <2> QED BY <1>7, <2>5 DEF MovesAsQuoted, b
<1> QED BY <1>1, <1>2, <1>3, <1>4, <1>5, <1>6, <1>7 DEF Kinds

(* ... and then it moves exactly what was quoted, over both hops of a route  *)
(* and on the curve of a coin that did not exist when it was quoted.         *)
THEOREM FreshQuotesAreExact == ClientSpec => QuotedExactly
<1>1. ASSUME ClientInv, [ClientNext]_vars, Lands, Fresh(request) PROVE MovesAsQuoted(request)
  <2>1. Land
    BY <1>1, LandsIsLand
  <2>2. Known(request) /\ request.phase = "built" /\ Execute(request)
    BY <1>1, <2>1 DEF ClientInv, Land
  <2>3. request.amount \in Nat
    BY <2>2 DEF Known, Requests
  <2>4. Executed(request)
    BY <1>1, <2>2, <2>3, ExecuteExecuted
  <2>5. Standing(request)
    BY <1>1, <2>2 DEF Standing
  <2> QED BY <1>1, <2>4, <2>5, StandingMoves
<1> DEFINE A == Lands /\ Fresh(request) => MovesAsQuoted(request)
<1>2. ClientInv /\ [ClientNext]_vars => A
  BY <1>1
<1> HIDE DEF A
<1>3. ClientSpec => [][A]_vars
  BY <1>2, ClientInductive, PTL DEF ClientSpec
<1> QED BY <1>3 DEF QuotedExactly, A, MovesAsQuoted
=============================================================================
