-------------------------- MODULE PoolMarketProofs --------------------------
(***************************************************************************)
(* Theorems about PoolMarket for every value of its constants: any curve   *)
(* that migrated, any boost below the deposit, any fee tables and buyback  *)
(* slice, any amounts.                                                     *)
(*                                                                         *)
(* The inductive invariant Inv adds to Booked that the quote is conserved, *)
(* which bounds the effective reserve by a u64, and that neither side of   *)
(* the pool is ever empty, without which the quoters would divide by zero. *)
(* What each trade moves is first reduced to Bought or Sold, which say no  *)
(* more of the prices than the products they keep.                         *)
(***************************************************************************)
EXTENDS PoolMarket, QuoteMathProofs

Books ==
  /\ pool.virtual_quote_reserves = Boost - Buckets
  /\ Buckets <= quote_vault

NotEmpty == base_vault > 0 /\ Effective > 0

Inv == TypeOK /\ Conserved /\ Books /\ NotEmpty

FeeTriple == Nat \X Nat \X Nat

(* What a buy moves, whichever instruction made it. *)
Bought(f) ==
  /\ f.raw \in Nat /\ f.base \in Nat /\ f.fees \in FeeTriple
  /\ f.base < base_vault
  /\ Effective * base_vault <= (Effective + f.raw) * (base_vault - f.base)

(* What a sale moves. *)
Sold(f) ==
  /\ f.raw \in Nat /\ f.base \in Nat /\ f.fees \in FeeTriple
  /\ f.raw < Effective
  /\ SumOf(f.fees) <= f.raw
  /\ f.raw - f.fees[1] <= Real
  /\ Effective * base_vault <= (Effective - f.raw) * (base_vault + f.base)

-----------------------------------------------------------------------------
(* The migration deposits something on both sides. *)
LEMMA Deposits ==
  /\ OpenBase \in Nat /\ OpenBase > 0
  /\ OpenQuote \in Nat /\ OpenQuote > 0
  /\ OpenPool \in Pool
<1>1. /\ OpenBase \in Int /\ OpenBase > 0
      /\ OpenQuote \in Int /\ OpenQuote > 0
  BY PoolMarketAssumption, GlobalAssumption
     DEF OpenBase, OpenQuote, EstimatedReserves, BondingCurve, OK
<1>2. ResolveQuoteMint(CompletedCurve.quote_mint) \in Pubkey
  BY PoolMarketAssumption, PubkeyAssumption DEF ResolveQuoteMint, BondingCurve
<1>3. OpenPool \in Pool
  BY <1>2, PoolMarketAssumption DEF OpenPool, Pool, BondingCurve
<1> QED BY <1>1, <1>3

(* The pool's numbers, as numbers. *)
LEMMA PoolNumbers ==
  ASSUME Inv
  PROVE  /\ pool.protocol_fees \in Nat /\ pool.creator_fees \in Nat
         /\ pool.virtual_quote_reserves \in Int
         /\ Buckets \in Nat /\ Effective \in Nat /\ Real \in Nat
         /\ Effective = Real + Boost
         /\ base_vault \in Nat /\ base_vault > 0 /\ Effective > 0
BY PoolMarketAssumption
   DEF Inv, TypeOK, Pool, Books, NotEmpty, Buckets, Effective, Real

(* compute_amm_fee_bps: whatever legs a trade charges, its rates are         *)
(* natural numbers.                                                          *)
LEMMA TradeBpsType ==
  ASSUME Inv, NEW legs
  PROVE  TradeBps(legs) \in FeeTriple
<1> DEFINE ctx == PoolContext(pool, base_vault, quote_vault, MintSupply)
           cap == MarketCap(ctx.base_mint_supply, ctx.quote_reserve, ctx.base_reserve)
           r == ComputeFeeBps(AmmGlobal.creator_fee_configurable, AmmFeeConfig,
                              ctx.canonical, ctx.quote_mint, ctx.creator_fee_bps, cap)
<1>1. /\ ctx.base_mint_supply \in Nat /\ ctx.base_reserve = base_vault
      /\ ctx.quote_reserve \in Nat /\ ctx.creator_fee_bps \in Nat
  <2>1. MintSupply \in Nat
    BY Deposits, PoolMarketAssumption DEF MintSupply
  <2>2. FeeTierSupply(pool.is_mayhem_mode, MintSupply) \in Nat
    BY <2>1, AmmAssumption DEF FeeTierSupply
  <2>3. EffectiveQuoteReserve(pool, quote_vault).val \in Nat
    BY U64Assumption DEF EffectiveQuoteReserve, Ok, Err, U64
  <2>4. pool.creator_fee_bps \in Nat
    BY DEF Inv, TypeOK, Pool
  <2> QED BY <2>2, <2>3, <2>4 DEF PoolContext
<1>2. cap \in Nat
  <2> HIDE DEF ctx
  <2>1. ctx.quote_reserve * ctx.base_mint_supply \in Nat
    BY <1>1
  <2>2. ctx.base_reserve \in Nat /\ ctx.base_reserve > 0
    BY <1>1, PoolNumbers
  <2> QED BY <2>1, <2>2, DivBounds DEF MarketCap
<1>3. r.fees \in Fees
  <2> HIDE DEF cap, ctx
  <2> QED BY <1>1, <1>2, AmmAssumption, ComputeFeeBpsType
<1>4. AmmFeeBps(ctx).fees
        = [r.fees EXCEPT !.creator_fee_bps = IF ctx.coin_creator = DEFAULT_KEY THEN 0 ELSE @]
  BY DEF AmmFeeBps
<1>5. AmmFeeBps(ctx).fees \in Fees
  <2> HIDE DEF r
  <2> QED BY <1>3, <1>4 DEF Fees
<1>6. TradeBps(legs) = LegBps(AmmFeeBps(ctx).fees, legs)
  BY DEF TradeBps
<1> HIDE DEF ctx
<1> QED BY <1>5, <1>6 DEF LegBps, OnLeg, Fees, FeeTriple

LEMMA ThreeFeesType ==
  ASSUME NEW amount \in Nat, NEW bps \in FeeTriple
  PROVE  ThreeFees(amount, bps) \in FeeTriple
BY FeeAmountNat DEF ThreeFees, FeeTriple

-----------------------------------------------------------------------------
(* The fills *)

(* buy, buy_v2: the cost is rounded up. *)
LEMMA BuyFillGood ==
  ASSUME Inv, NEW amount \in Nat, BuyFill(amount).err = OK
  PROVE  Bought(BuyFill(amount))
<1> DEFINE e == Effective
           b == base_vault
           raw == CeilDiv(e * amount, b - amount)
           fees == ThreeFees(raw, TradeBps(AllLegs))
<1>1. e \in Nat /\ b \in Nat
  BY PoolNumbers
<1>2. amount < b /\ BuyFill(amount) = [err |-> OK, raw |-> raw, base |-> amount, fees |-> fees]
  BY <1>1 DEF BuyFill, NotPriced, Priced, OK
<1> HIDE DEF e, b
<1>3. raw \in Nat /\ e * amount <= raw * (b - amount)
  <2> DEFINE x == e * amount
             d == b - amount
             y == x + d - 1
  <2>1. x \in Nat /\ d \in Nat /\ d > 0 /\ y \in Nat
    BY <1>1, <1>2
  <2> HIDE DEF x, d
  <2>2. y \div d \in Nat /\ y < d * (y \div d) + d
    <3> HIDE DEF y
    <3> QED BY <2>1, DivBounds
  <2>3. x <= (y \div d) * d
    <3> DEFINE k == y \div d
    <3> HIDE DEF k
    <3>1. k \in Nat /\ y < d * k + d
      BY <2>2 DEF k
    <3>2. d * k = k * d /\ k * d \in Nat
      BY <2>1, <3>1
    <3> QED BY <2>1, <3>1, <3>2 DEF k
  <2> QED BY <2>2, <2>3 DEF x, d, CeilDiv
<1>4. fees \in FeeTriple
  <2> HIDE DEF raw
  <2> QED BY <1>3, TradeBpsType, ThreeFeesType
<1> HIDE DEF raw, fees
<1>5. amount * e <= raw * (b - amount)
  BY <1>1, <1>3
<1>6. e * b <= (e + raw) * (b - amount)
  BY <1>1, <1>2, <1>3, <1>5, BuyKeepsProduct
<1> QED BY <1>2, <1>3, <1>4, <1>6 DEF Bought, e, b

(* A swap of net - 1 that takes net keeps the product: both exact-in buys.   *)
LEMMA SwapGood ==
  ASSUME Inv, NEW net \in Nat, net > 0
  PROVE  LET out == ((net - 1) * base_vault) \div (Effective + (net - 1))
         IN  /\ out \in Nat /\ out < base_vault
             /\ Effective * base_vault <= (Effective + net) * (base_vault - out)
<1> DEFINE e == Effective
           b == base_vault
           n == net - 1
           out == (n * b) \div (e + n)
<1>1. e \in Nat /\ b \in Nat /\ e > 0 /\ b > 0 /\ n \in Nat /\ net = n + 1
  BY PoolNumbers
<1> HIDE DEF e, b, n
<1>2. out \in Nat /\ out < b
  BY <1>1, SwapLeavesReserve
<1>3. out * (e + n) <= n * b
  <2>1. n * b \in Nat /\ e + n \in Nat /\ e + n > 0
    BY <1>1
  <2>2. (e + n) * out <= n * b
    BY <2>1, DivBounds
  <2> HIDE DEF out
  <2> QED BY <1>1, <1>2, <2>2
<1> HIDE DEF out
<1>4. e * b <= (e + (n + 1)) * (b - out)
  BY <1>1, <1>2, <1>3, ExactInKeepsProduct
<1> QED BY <1>1, <1>2, <1>4 DEF e, b, n, out

(* buy_exact_quote_in_v2 *)
LEMMA BuyExactInFillGood ==
  ASSUME Inv, NEW budget \in Nat, BuyExactInFill(budget).err = OK
  PROVE  Bought(BuyExactInFill(budget))
<1> DEFINE split == ExactInFeeAmounts(budget, TradeBps(AllLegs))
           out == ((split.net - 1) * base_vault) \div (Effective + (split.net - 1))
<1>1. split.err = OK
  BY DEF BuyExactInFill, NotPriced, OK
<1>2. BuyExactInFill(budget) = [err |-> OK, raw |-> split.net, base |-> out, fees |-> split.fees]
  BY DEF BuyExactInFill, NotPriced, Priced, OK
<1>3. split.net \in Nat /\ split.net > 0 /\ split.fees \in FeeTriple
  BY <1>1, TradeBpsType, ExactInSplit DEF FeeTriple
<1> HIDE DEF split
<1>4. /\ out \in Nat /\ out < base_vault
      /\ Effective * base_vault <= (Effective + split.net) * (base_vault - out)
  BY <1>3, SwapGood
<1> HIDE DEF out
<1> QED BY <1>2, <1>3, <1>4 DEF Bought

(* A buying hop of multi_hop_swap *)
LEMMA HopBuyFillGood ==
  ASSUME Inv, NEW budget \in Nat, NEW legs, HopBuyFill(budget, legs).err = OK
  PROVE  Bought(HopBuyFill(budget, legs))
<1> DEFINE split == ExactInFeeAmounts(budget, TradeBps(legs))
           net == budget - SumOf(split.fees)
           out == ((net - 1) * base_vault) \div (Effective + (net - 1))
<1>1. split.err = OK
  BY DEF HopBuyFill, NotPriced, OK
<1>2. HopBuyFill(budget, legs) = [err |-> OK, raw |-> net, base |-> out, fees |-> split.fees]
  BY DEF HopBuyFill, NotPriced, Priced, OK
<1>3. /\ split.net \in Nat /\ split.net > 0 /\ split.fees \in FeeTriple
      /\ split.net + SumOf(split.fees) <= budget
  BY <1>1, TradeBpsType, ExactInSplit DEF FeeTriple, SumOf
<1> HIDE DEF split
<1>4. net \in Nat /\ net > 0
  <2>1. SumOf(split.fees) \in Nat
    BY <1>3 DEF SumOf, FeeTriple
  <2> QED BY <1>3, <2>1
<1> HIDE DEF net
<1>5. /\ out \in Nat /\ out < base_vault
      /\ Effective * base_vault <= (Effective + net) * (base_vault - out)
  BY <1>4, SwapGood
<1> HIDE DEF out
<1> QED BY <1>2, <1>3, <1>4, <1>5 DEF Bought

(* Proceeds that are rounded down keep the product and are less than the     *)
(* reserve.                                                                  *)
LEMMA ProceedsGood ==
  ASSUME Inv, NEW amount \in Nat
  PROVE  LET raw == (Effective * amount) \div (base_vault + amount)
         IN  /\ raw \in Nat /\ raw < Effective
             /\ Effective * base_vault <= (Effective - raw) * (base_vault + amount)
<1> DEFINE e == Effective
           b == base_vault
           raw == (e * amount) \div (b + amount)
<1>1. e \in Nat /\ b \in Nat /\ e > 0 /\ b > 0
  BY PoolNumbers
<1> HIDE DEF e, b
<1>2. raw \in Nat /\ (b + amount) * raw <= e * amount
  <2>1. e * amount \in Nat /\ b + amount \in Nat /\ b + amount > 0
    BY <1>1
  <2> QED BY <2>1, DivBounds
<1> HIDE DEF raw
<1>3. raw * (b + amount) <= amount * e
  BY <1>1, <1>2
<1>4. e * b <= (e - raw) * (b + amount) /\ raw <= e
  BY <1>1, <1>2, <1>3, SellKeepsProduct
<1>5. raw # e
  <2> SUFFICES ASSUME raw = e PROVE FALSE
    OBVIOUS
  <2>1. e * b > 0
    BY <1>1
  <2> QED BY <1>1, <1>4, <2>1
<1> QED BY <1>1, <1>2, <1>4, <1>5 DEF e, b, raw

(* sell, sell_v2 *)
LEMMA SellFillGood ==
  ASSUME Inv, NEW amount \in Nat, SellFill(amount).err = OK
  PROVE  Sold(SellFill(amount))
<1> DEFINE raw == (Effective * amount) \div (base_vault + amount)
           fees == ThreeFees(raw, TradeBps(AllLegs))
<1>1. /\ raw \in Nat /\ raw < Effective
      /\ Effective * base_vault <= (Effective - raw) * (base_vault + amount)
  BY ProceedsGood
<1>2. fees \in FeeTriple
  <2> HIDE DEF raw
  <2> QED BY <1>1, TradeBpsType, ThreeFeesType
<1>3. /\ ~ (raw < SumOf(fees)) /\ ~ (Real < raw - fees[1])
      /\ SellFill(amount) = [err |-> OK, raw |-> raw, base |-> amount, fees |-> fees]
  BY DEF SellFill, NotPriced, Priced, OK
<1> HIDE DEF raw, fees
<1>4. SumOf(fees) <= raw /\ raw - fees[1] <= Real
  <2>1. fees[1] \in Nat /\ SumOf(fees) \in Nat /\ Real \in Nat
    BY <1>2, PoolNumbers DEF FeeTriple, SumOf
  <2> QED BY <1>1, <1>3, <2>1
<1> QED BY <1>1, <1>2, <1>3, <1>4 DEF Sold

(* A selling hop of multi_hop_swap *)
LEMMA HopSellFillGood ==
  ASSUME Inv, NEW amount \in Nat, NEW legs, HopSellFill(amount, legs).err = OK
  PROVE  Sold(HopSellFill(amount, legs))
<1> DEFINE raw == (Effective * amount) \div (base_vault + amount)
           fees == ThreeFees(raw, TradeBps(legs))
<1>1. /\ raw \in Nat /\ raw < Effective
      /\ Effective * base_vault <= (Effective - raw) * (base_vault + amount)
  BY ProceedsGood
<1>2. fees \in FeeTriple
  <2> HIDE DEF raw
  <2> QED BY <1>1, TradeBpsType, ThreeFeesType
<1>3. /\ ~ (raw <= SumOf(fees)) /\ ~ (Real < raw - fees[1])
      /\ HopSellFill(amount, legs) = [err |-> OK, raw |-> raw, base |-> amount, fees |-> fees]
  BY DEF HopSellFill, NotPriced, Priced, OK
<1> HIDE DEF raw, fees
<1>4. SumOf(fees) <= raw /\ raw - fees[1] <= Real
  <2>1. fees[1] \in Nat /\ SumOf(fees) \in Nat /\ Real \in Nat
    BY <1>2, PoolNumbers DEF FeeTriple, SumOf
  <2> QED BY <1>1, <1>3, <2>1
<1> QED BY <1>1, <1>2, <1>3, <1>4 DEF Sold

-----------------------------------------------------------------------------
(* The buyback slice never exceeds the protocol fee: what stays in the vault *)
(* and what is paid out are naturals that add up to the fees.                *)
LEMMA FeesSplit ==
  ASSUME NEW f, f.fees \in FeeTriple, NEW v
  PROVE  /\ KeptProtocol(f, v) \in Nat /\ KeptCreator(f, v) \in Nat
         /\ FeesPaidOut(f, v) \in Nat
         /\ f.fees[1] \in Nat /\ f.fees[2] \in Nat /\ f.fees[3] \in Nat
         /\ f.fees[2] + f.fees[3] = Kept(f, v) + FeesPaidOut(f, v)
<1> DEFINE b == AmmGlobal.buyback_basis_points
           fee == f.fees[2]
           slice == (fee * b) \div BPS
<1>1. fee \in Nat /\ f.fees[1] \in Nat /\ f.fees[3] \in Nat
  BY DEF FeeTriple
<1>2. b \in Nat /\ b <= BPS
  <2>1. BPS \in Nat
    BY DEF BPS
  <2> QED BY <2>1, AmmAssumption
<1>3. BuybackSlice(fee) = slice \/ BuybackSlice(fee) = 0
  BY DEF BuybackSlice
<1> HIDE DEF b, fee
<1>4. slice \in Nat /\ BPS * slice <= fee * b
  <2>1. fee * b \in Nat /\ BPS \in Nat /\ BPS > 0
    BY <1>1, <1>2 DEF BPS
  <2> QED BY <2>1, DivBounds
<1>5. slice <= fee
  <2>1. fee * b <= fee * BPS
    BY <1>1, <1>2 DEF BPS
  <2> HIDE DEF slice
  <2>2. slice * BPS <= fee * BPS /\ BPS \in Nat /\ BPS > 0
    BY <1>1, <1>2, <1>4, <2>1 DEF BPS
  <2> QED BY <1>1, <1>4, <2>2, MulCancel
<1> HIDE DEF slice
<1>6. KeptProtocol(f, v) \in Nat /\ KeptProtocol(f, v) <= fee
  BY <1>1, <1>3, <1>4, <1>5 DEF KeptProtocol, fee
<1>7. KeptCreator(f, v) \in Nat /\ KeptCreator(f, v) <= f.fees[3]
  BY <1>1 DEF KeptCreator
<1> QED BY <1>1, <1>6, <1>7 DEF FeesPaidOut, Kept, fee

(* What BookFees writes. *)
LEMMA BookFeesType ==
  ASSUME Inv, NEW f, NEW v, f.fees \in FeeTriple, pool' = BookFees(f, v)
  PROVE  /\ pool' \in Pool
         /\ pool'.protocol_fees = pool.protocol_fees + KeptProtocol(f, v)
         /\ pool'.creator_fees = pool.creator_fees + KeptCreator(f, v)
         /\ pool'.virtual_quote_reserves = pool.virtual_quote_reserves - Kept(f, v)
<1> DEFINE a == KeptProtocol(f, v)
           c == KeptCreator(f, v)
           k == Kept(f, v)
<1>1. a \in Nat /\ c \in Nat /\ k \in Nat
  BY FeesSplit DEF Kept
<1>2. pool \in Pool
  BY DEF Inv, TypeOK
<1>3. pool' = [pool EXCEPT !.protocol_fees = @ + a, !.creator_fees = @ + c,
                           !.virtual_quote_reserves = @ - k]
  BY DEF BookFees
<1> HIDE DEF a, c, k
<1>4. /\ pool'.protocol_fees = pool.protocol_fees + a
      /\ pool'.creator_fees = pool.creator_fees + c
      /\ pool'.virtual_quote_reserves = pool.virtual_quote_reserves - k
  BY <1>2, <1>3 DEF Pool
<1>5. /\ pool.protocol_fees + a \in Nat /\ pool.creator_fees + c \in Nat
      /\ pool.virtual_quote_reserves - k \in Int
  BY <1>1, <1>2 DEF Pool
<1>6. pool' \in Pool
  BY <1>2, <1>3, <1>5 DEF Pool
<1> QED BY <1>4, <1>6 DEF a, c, k

-----------------------------------------------------------------------------
(* The invariant is inductive, and every action is an action of the abstract *)
(* pool                                                                      *)

(* The pool as migrate_v2 leaves it. *)
LEMMA InitInv == Init => Inv /\ Abstract!Init
<1> SUFFICES ASSUME Init PROVE Inv /\ Abstract!Init
  OBVIOUS
<1>1. /\ pool \in Pool /\ pool.protocol_fees = 0 /\ pool.creator_fees = 0
      /\ pool.virtual_quote_reserves = Boost
  BY Deposits DEF Init, OpenPool
<1>2. /\ base_vault = OpenBase /\ quote_vault = OpenQuote - Boost
      /\ disable_flags = {} /\ circulating = Held /\ purse = Purse /\ paid_out = 0
  BY DEF Init
<1>3. Buckets = 0 /\ Effective = OpenQuote /\ Real = OpenQuote - Boost
  BY <1>1, <1>2, Deposits, PoolMarketAssumption DEF Buckets, Effective, Real
<1>4. TypeOK
  BY <1>1, <1>2, Deposits, PoolMarketAssumption DEF TypeOK
<1>5. Conserved
  BY <1>2, Deposits, PoolMarketAssumption DEF Conserved, MintSupply
<1>6. Books /\ NotEmpty
  BY <1>1, <1>2, <1>3, Deposits, PoolMarketAssumption DEF Books, NotEmpty
<1>7. Abstract!Init
  BY <1>2, <1>3, Deposits, PoolMarketAssumption DEF Abstract!Init
<1> QED BY <1>4, <1>5, <1>6, <1>7 DEF Inv

(* Every buy. *)
LEMMA ApplyBuyInv ==
  ASSUME Inv, NEW f, NEW v, Bought(f), ApplyBuy(f, v)
  PROVE  Inv' /\ Abstract!Trade
<1> DEFINE kept == Kept(f, v)
           out == FeesPaidOut(f, v)
           lp == f.fees[1]
<1>1. /\ f.raw \in Nat /\ f.base \in Nat /\ f.base < base_vault
      /\ Effective * base_vault <= (Effective + f.raw) * (base_vault - f.base)
      /\ f.fees \in FeeTriple
  BY DEF Bought
<1>2. /\ kept \in Nat /\ out \in Nat /\ lp \in Nat
      /\ KeptProtocol(f, v) \in Nat /\ KeptCreator(f, v) \in Nat
      /\ kept = KeptProtocol(f, v) + KeptCreator(f, v)
      /\ Charge(f) = f.raw + lp + kept + out /\ Charge(f) \in Nat
  BY <1>1, FeesSplit DEF Kept, Charge, SumOf
<1>3. /\ pool' \in Pool
      /\ pool'.protocol_fees = pool.protocol_fees + KeptProtocol(f, v)
      /\ pool'.creator_fees = pool.creator_fees + KeptCreator(f, v)
      /\ pool'.virtual_quote_reserves = pool.virtual_quote_reserves - kept
  <2>1. pool' = BookFees(f, v)
    BY DEF ApplyBuy
  <2> QED BY <1>1, <2>1, BookFeesType
<1>4. /\ base_vault' = base_vault - f.base
      /\ quote_vault' = quote_vault + (Charge(f) - out)
      /\ circulating' = circulating + f.base
      /\ purse' = purse - Charge(f) /\ Charge(f) <= purse
      /\ paid_out' = paid_out + out
      /\ disable_flags' = disable_flags
  BY DEF ApplyBuy, CanBuy
<1> HIDE DEF kept, out, lp
<1>5. /\ quote_vault \in Nat /\ circulating \in Nat /\ purse \in Nat /\ paid_out \in Nat
      /\ disable_flags \subseteq {BUY_FLAG, SELL_FLAG}
  BY DEF Inv, TypeOK
<1>6. /\ Buckets' = Buckets + kept
      /\ Effective' = Effective + f.raw + lp
      /\ Real' = Real + f.raw + lp
  <2>1. quote_vault' = quote_vault + f.raw + lp + kept
    BY <1>1, <1>2, <1>4, <1>5
  <2>2. Buckets' = Buckets + kept
    BY <1>2, <1>3, PoolNumbers DEF Buckets
  <2>3. Effective' = Effective + f.raw + lp
    BY <2>1, <1>1, <1>2, <1>3, <1>5, PoolNumbers DEF Effective
  <2>4. Real' = Real + f.raw + lp
    BY <2>1, <2>2, <1>1, <1>2, <1>5, PoolNumbers DEF Real
  <2> QED BY <2>2, <2>3, <2>4
<1>7. TypeOK'
  BY <1>1, <1>2, <1>3, <1>4, <1>5, PoolNumbers DEF TypeOK
<1>8. Conserved'
  <2>1. MintSupply \in Int /\ MintSupply' = MintSupply
    BY Deposits, PoolMarketAssumption DEF MintSupply, OpenBase
  <2>2. Conserved
    BY DEF Inv
  <2>3. (base_vault + circulating = MintSupply)'
    BY <2>1, <2>2, <1>1, <1>4, <1>5, PoolNumbers DEF Conserved
  <2>4. (purse + quote_vault + paid_out = Purse + (OpenQuote - Boost))'
    BY <2>2, <1>2, <1>4, <1>5 DEF Conserved, OpenQuote
  <2> QED BY <2>3, <2>4 DEF Conserved
<1>9. Books' /\ NotEmpty'
  <2>1. Books
    BY DEF Inv
  <2>2. (pool.virtual_quote_reserves = Boost - Buckets)'
    BY <2>1, <1>2, <1>3, <1>6, PoolNumbers, PoolMarketAssumption DEF Books
  <2>3. (Buckets <= quote_vault)'
    BY <2>1, <1>1, <1>2, <1>4, <1>5, <1>6, PoolNumbers DEF Books
  <2>4. NotEmpty'
    BY <1>1, <1>2, <1>4, <1>6, PoolNumbers DEF NotEmpty
  <2> QED BY <2>2, <2>3, <2>4 DEF Books
<1>10. base_vault * Effective <= base_vault' * Effective'
  <2> DEFINE e == Effective
             b == base_vault
             d == base_vault - f.base
  <2>1. e \in Nat /\ b \in Nat /\ d \in Nat /\ base_vault' = d
    BY <1>1, <1>4, PoolNumbers
  <2>2. e * b <= (e + f.raw) * d
    BY <1>1
  <2>3. Effective' = e + f.raw + lp
    BY <1>6
  <2> HIDE DEF e, b, d
  <2>4. (e + f.raw) * d <= (e + f.raw + lp) * d
    BY <1>1, <1>2, <2>1, MulMono
  <2>5. b * e <= d * (e + f.raw + lp)
    BY <1>1, <1>2, <2>1, <2>2, <2>4
  <2> QED BY <2>1, <2>3, <2>5 DEF e, b
<1>11. Abstract!Trade
  <2>1. base_vault' \in Nat /\ base_vault' > 0
    BY <1>1, <1>4, PoolNumbers
  <2>2. Effective' - Effective = Real' - Real /\ Real' \in Nat
    BY <1>1, <1>2, <1>6, PoolNumbers
  <2>3. Buckets' \in Nat /\ Buckets <= Buckets'
    BY <1>2, <1>6, PoolNumbers
  <2> QED BY <1>10, <2>1, <2>2, <2>3 DEF Abstract!Trade
<1> QED BY <1>7, <1>8, <1>9, <1>11 DEF Inv

(* Every sale. *)
LEMMA ApplySellInv ==
  ASSUME Inv, NEW f, NEW v, Sold(f), ApplySell(f, v)
  PROVE  Inv' /\ Abstract!Trade
<1> DEFINE kept == Kept(f, v)
           out == FeesPaidOut(f, v)
           lp == f.fees[1]
<1>1. /\ f.raw \in Nat /\ f.base \in Nat
      /\ f.raw < Effective /\ SumOf(f.fees) <= f.raw /\ f.raw - lp <= Real
      /\ Effective * base_vault <= (Effective - f.raw) * (base_vault + f.base)
      /\ f.fees \in FeeTriple
  BY DEF Sold
<1>2. /\ kept \in Nat /\ out \in Nat /\ lp \in Nat
      /\ KeptProtocol(f, v) \in Nat /\ KeptCreator(f, v) \in Nat
      /\ kept = KeptProtocol(f, v) + KeptCreator(f, v)
      /\ Proceeds(f) = f.raw - (lp + kept + out) /\ Proceeds(f) \in Nat
  BY <1>1, FeesSplit DEF Kept, Proceeds, SumOf
<1>3. /\ pool' \in Pool
      /\ pool'.protocol_fees = pool.protocol_fees + KeptProtocol(f, v)
      /\ pool'.creator_fees = pool.creator_fees + KeptCreator(f, v)
      /\ pool'.virtual_quote_reserves = pool.virtual_quote_reserves - kept
  <2>1. pool' = BookFees(f, v)
    BY DEF ApplySell
  <2> QED BY <1>1, <2>1, BookFeesType
<1>4. /\ base_vault' = base_vault + f.base
      /\ quote_vault' = quote_vault - (Proceeds(f) + out)
      /\ circulating' = circulating - f.base /\ f.base <= circulating
      /\ purse' = purse + Proceeds(f)
      /\ paid_out' = paid_out + out
      /\ disable_flags' = disable_flags
  BY DEF ApplySell, CanSell
<1> HIDE DEF kept, out, lp
<1>5. /\ quote_vault \in Nat /\ circulating \in Nat /\ purse \in Nat /\ paid_out \in Nat
      /\ disable_flags \subseteq {BUY_FLAG, SELL_FLAG}
  BY DEF Inv, TypeOK
<1>6. /\ Buckets' = Buckets + kept
      /\ Effective' = Effective - f.raw + lp
      /\ Real' = Real - f.raw + lp /\ Real' \in Nat
      /\ quote_vault' = Real' + Buckets' /\ quote_vault' \in Nat
  <2>1. quote_vault' = quote_vault - f.raw + lp + kept
    BY <1>1, <1>2, <1>4, <1>5
  <2>2. Buckets' = Buckets + kept
    BY <1>2, <1>3, PoolNumbers DEF Buckets
  <2>3. Effective' = Effective - f.raw + lp
    BY <2>1, <1>1, <1>2, <1>3, <1>5, PoolNumbers DEF Effective
  <2>4. Real' = Real - f.raw + lp
    BY <2>1, <2>2, <1>1, <1>2, <1>5, PoolNumbers DEF Real
  <2>5. Real' \in Nat
    BY <2>4, <1>1, <1>2, PoolNumbers
  <2>6. quote_vault' = Real' + Buckets'
    BY <2>1, <2>2, <2>4, <1>1, <1>2, <1>5, PoolNumbers DEF Real
  <2>7. quote_vault' \in Nat
    BY <2>1, <1>1, <1>2, <1>5, PoolNumbers DEF Real
  <2> QED BY <2>2, <2>3, <2>4, <2>5, <2>6, <2>7
<1>7. TypeOK'
  BY <1>1, <1>2, <1>3, <1>4, <1>5, <1>6, PoolNumbers DEF TypeOK
<1>8. Conserved'
  <2>1. MintSupply \in Int /\ MintSupply' = MintSupply
    BY Deposits, PoolMarketAssumption DEF MintSupply, OpenBase
  <2>2. Conserved
    BY DEF Inv
  <2>3. (base_vault + circulating = MintSupply)'
    BY <2>1, <2>2, <1>1, <1>4, <1>5, PoolNumbers DEF Conserved
  <2>4. (purse + quote_vault + paid_out = Purse + (OpenQuote - Boost))'
    BY <2>2, <1>2, <1>4, <1>5 DEF Conserved, OpenQuote
  <2> QED BY <2>3, <2>4 DEF Conserved
<1>9. Books' /\ NotEmpty'
  <2>1. Books
    BY DEF Inv
  <2>2. (pool.virtual_quote_reserves = Boost - Buckets)'
    BY <2>1, <1>2, <1>3, <1>6, PoolNumbers, PoolMarketAssumption DEF Books
  <2>3. (Buckets <= quote_vault)'
    BY <1>2, <1>6, PoolNumbers
  <2>4. NotEmpty'
    BY <1>1, <1>2, <1>4, <1>6, PoolNumbers DEF NotEmpty
  <2> QED BY <2>2, <2>3, <2>4 DEF Books
<1>10. base_vault * Effective <= base_vault' * Effective'
  <2> DEFINE e == Effective
             b == base_vault
             d == base_vault + f.base
             g == Effective - f.raw
  <2>1. e \in Nat /\ b \in Nat /\ d \in Nat /\ g \in Nat /\ base_vault' = d
    BY <1>1, <1>4, PoolNumbers
  <2>2. e * b <= g * d
    BY <1>1
  <2>3. Effective' = g + lp
    BY <1>6
  <2> HIDE DEF e, b, d, g
  <2>4. g * d <= (g + lp) * d
    BY <1>2, <2>1, MulMono
  <2>5. b * e <= d * (g + lp)
    BY <1>2, <2>1, <2>2, <2>4
  <2> QED BY <2>1, <2>3, <2>5 DEF e, b
<1>11. Abstract!Trade
  <2>1. base_vault' \in Nat /\ base_vault' > 0
    BY <1>1, <1>4, PoolNumbers
  <2>2. Effective' - Effective = Real' - Real /\ Real' \in Nat
    BY <1>1, <1>2, <1>6, PoolNumbers
  <2>3. Buckets' \in Nat /\ Buckets <= Buckets'
    BY <1>2, <1>6, PoolNumbers
  <2> QED BY <1>10, <2>1, <2>2, <2>3 DEF Abstract!Trade
<1> QED BY <1>7, <1>8, <1>9, <1>11 DEF Inv

(* A sweep pays a bucket out and releases its share of the virtual reserve.  *)
LEMMA SweepInv ==
  ASSUME Inv, SweepCreatorFee \/ SweepProtocolFee
  PROVE  Inv' /\ Abstract!PayFees
<1>1. PICK paid \in Nat :
        /\ paid > 0 /\ pool' \in Pool
        /\ Buckets' = Buckets - paid /\ Buckets' \in Nat
        /\ pool'.virtual_quote_reserves = pool.virtual_quote_reserves + paid
        /\ quote_vault' = quote_vault - paid
        /\ paid_out' = paid_out + paid
        /\ UNCHANGED <<base_vault, disable_flags, circulating, purse>>
  <2>1. CASE SweepCreatorFee
    <3> DEFINE paid == pool.creator_fees
    <3>1. paid \in Nat /\ pool.protocol_fees \in Nat /\ pool.virtual_quote_reserves \in Int
      BY PoolNumbers
    <3>2. pool \in Pool
      BY DEF Inv, TypeOK
    <3>3. /\ pool' = [pool EXCEPT !.creator_fees = 0, !.virtual_quote_reserves = @ + paid]
          /\ paid > 0
      BY <2>1 DEF SweepCreatorFee
    <3> HIDE DEF paid
    <3>4. /\ pool'.creator_fees = 0 /\ pool'.protocol_fees = pool.protocol_fees
          /\ pool'.virtual_quote_reserves = pool.virtual_quote_reserves + paid
      BY <3>2, <3>3 DEF Pool
    <3>5. pool' \in Pool
      <4>1. pool.virtual_quote_reserves + paid \in Int
        BY <3>1
      <4> QED BY <3>2, <3>3, <4>1 DEF Pool
    <3>6. Buckets' = Buckets - paid /\ Buckets' \in Nat
      BY <3>1, <3>4 DEF Buckets, paid
    <3>7. /\ quote_vault' = quote_vault - paid /\ paid_out' = paid_out + paid
          /\ UNCHANGED <<base_vault, disable_flags, circulating, purse>>
      BY <2>1 DEF SweepCreatorFee, paid
    <3> QED BY <3>1, <3>3, <3>4, <3>5, <3>6, <3>7
  <2>2. CASE SweepProtocolFee
    <3> DEFINE paid == pool.protocol_fees
    <3>1. paid \in Nat /\ pool.creator_fees \in Nat /\ pool.virtual_quote_reserves \in Int
      BY PoolNumbers
    <3>2. pool \in Pool
      BY DEF Inv, TypeOK
    <3>3. /\ pool' = [pool EXCEPT !.protocol_fees = 0, !.virtual_quote_reserves = @ + paid]
          /\ paid > 0
      BY <2>2 DEF SweepProtocolFee
    <3> HIDE DEF paid
    <3>4. /\ pool'.protocol_fees = 0 /\ pool'.creator_fees = pool.creator_fees
          /\ pool'.virtual_quote_reserves = pool.virtual_quote_reserves + paid
      BY <3>2, <3>3 DEF Pool
    <3>5. pool' \in Pool
      <4>1. pool.virtual_quote_reserves + paid \in Int
        BY <3>1
      <4> QED BY <3>2, <3>3, <4>1 DEF Pool
    <3>6. Buckets' = Buckets - paid /\ Buckets' \in Nat
      BY <3>1, <3>4 DEF Buckets, paid
    <3>7. /\ quote_vault' = quote_vault - paid /\ paid_out' = paid_out + paid
          /\ UNCHANGED <<base_vault, disable_flags, circulating, purse>>
      BY <2>2 DEF SweepProtocolFee, paid
    <3> QED BY <3>1, <3>3, <3>4, <3>5, <3>6, <3>7
  <2> QED BY <2>1, <2>2
<1>2. /\ quote_vault \in Nat /\ circulating \in Nat /\ purse \in Nat /\ paid_out \in Nat
      /\ disable_flags \subseteq {BUY_FLAG, SELL_FLAG}
      /\ Books /\ Conserved /\ paid <= Buckets
  <2>1. paid <= Buckets
    BY <1>1, PoolNumbers
  <2> QED BY <2>1 DEF Inv, TypeOK
<1>3. quote_vault' \in Nat /\ Buckets' <= quote_vault'
  BY <1>1, <1>2, PoolNumbers DEF Books
<1>4. Effective' = Effective /\ Real' = Real
  <2>1. Effective' = Effective
    BY <1>1, <1>2, PoolNumbers DEF Effective
  <2>2. Real' = Real
    BY <1>1, <1>2, PoolNumbers DEF Real
  <2> QED BY <2>1, <2>2
<1>5. TypeOK'
  BY <1>1, <1>2, <1>3, PoolNumbers DEF TypeOK
<1>6. Conserved'
  BY <1>1, <1>2 DEF Conserved, MintSupply, OpenBase, OpenQuote
<1>7. Books' /\ NotEmpty'
  <2>1. Books'
    BY <1>1, <1>2, <1>3, PoolNumbers, PoolMarketAssumption DEF Books
  <2>2. NotEmpty'
    BY <1>1, <1>4, PoolNumbers DEF NotEmpty
  <2> QED BY <2>1, <2>2
<1>8. Abstract!PayFees
  <2>1. Buckets' \in Nat /\ Buckets' < Buckets
    BY <1>1, PoolNumbers
  <2> QED BY <1>1, <1>4, <2>1 DEF Abstract!PayFees
<1> QED BY <1>5, <1>6, <1>7, <1>8 DEF Inv

(* A step that moves neither the pool nor its vaults nor the holdings. *)
LEMMA StillInv ==
  ASSUME Inv, UNCHANGED <<pool, base_vault, quote_vault, circulating, purse, paid_out>>,
         disable_flags' \subseteq {BUY_FLAG, SELL_FLAG}
  PROVE  Inv' /\ UNCHANGED <<base_vault, Effective, Real, Buckets>>
<1>1. TypeOK'
  BY DEF Inv, TypeOK
<1>2. UNCHANGED <<base_vault, Effective, Real, Buckets>>
  BY DEF Effective, Real, Buckets
<1>3. Conserved'
  BY DEF Inv, Conserved, MintSupply, OpenBase, OpenQuote
<1>4. Books' /\ NotEmpty'
  BY <1>2 DEF Inv, Books, NotEmpty
<1> QED BY <1>1, <1>2, <1>3, <1>4 DEF Inv

(* What an action may do. *)
StepSafe == Inv' /\ (Abstract!Trade \/ Abstract!PayFees
                       \/ UNCHANGED <<base_vault, Effective, Real, Buckets>>)

LEMMA NextInv == Inv /\ [Next]_amm => StepSafe
<1> SUFFICES ASSUME Inv, [Next]_amm PROVE StepSafe
  OBVIOUS
<1> USE DEF StepSafe
<1>0. Amounts \subseteq Nat
  BY PoolMarketAssumption
<1>1. ASSUME NEW v \in {1, 2}, NEW amount \in Amounts, Buy(amount, Purse, v) PROVE StepSafe
  <2>1. ApplyBuy(BuyFill(amount), v)
    BY <1>1 DEF Buy
  <2>2. BuyFill(amount).err = OK
    BY <2>1 DEF ApplyBuy, CanBuy
  <2>3. Bought(BuyFill(amount))
    BY <1>0, <2>2, BuyFillGood
  <2> QED BY <2>1, <2>3, ApplyBuyInv
<1>2. ASSUME NEW amount \in Amounts, BuyExactQuoteIn(amount, 0) PROVE StepSafe
  <2>1. ApplyBuy(BuyExactInFill(amount), 2)
    BY <1>2 DEF BuyExactQuoteIn
  <2>2. BuyExactInFill(amount).err = OK
    BY <2>1 DEF ApplyBuy, CanBuy
  <2>3. Bought(BuyExactInFill(amount))
    BY <1>0, <2>2, BuyExactInFillGood
  <2> QED BY <2>1, <2>3, ApplyBuyInv
<1>3. ASSUME NEW v \in {1, 2}, NEW amount \in Amounts, Sell(amount, 0, v) PROVE StepSafe
  <2>1. ApplySell(SellFill(amount), v)
    BY <1>3 DEF Sell
  <2>2. SellFill(amount).err = OK
    BY <2>1 DEF ApplySell, CanSell
  <2>3. Sold(SellFill(amount))
    BY <1>0, <2>2, SellFillGood
  <2> QED BY <2>1, <2>3, ApplySellInv
<1>4. ASSUME NEW amount \in Amounts, NEW legs \in HopLegs,
             ApplyBuy(HopBuyFill(amount, legs), 3)
      PROVE  StepSafe
  <2>1. HopBuyFill(amount, legs).err = OK
    BY <1>4 DEF ApplyBuy, CanBuy
  <2>2. Bought(HopBuyFill(amount, legs))
    BY <1>0, <2>1, HopBuyFillGood
  <2> QED BY <1>4, <2>2, ApplyBuyInv
<1>5. ASSUME NEW amount \in Amounts, NEW legs \in HopLegs,
             ApplySell(HopSellFill(amount, legs), 3)
      PROVE  StepSafe
  <2>1. HopSellFill(amount, legs).err = OK
    BY <1>5 DEF ApplySell, CanSell
  <2>2. Sold(HopSellFill(amount, legs))
    BY <1>0, <2>1, HopSellFillGood
  <2> QED BY <1>5, <2>2, ApplySellInv
<1>6. CASE SweepCreatorFee \/ SweepProtocolFee
  BY <1>6, SweepInv
<1>7. ASSUME NEW flag \in {BUY_FLAG, SELL_FLAG}, Toggle(flag) PROVE StepSafe
  <2>1. disable_flags \subseteq {BUY_FLAG, SELL_FLAG}
    BY DEF Inv, TypeOK
  <2>2. disable_flags' \subseteq {BUY_FLAG, SELL_FLAG}
    BY <1>7, <2>1 DEF Toggle
  <2>3. UNCHANGED <<pool, base_vault, quote_vault, circulating, purse, paid_out>>
    BY <1>7 DEF Toggle
  <2> QED BY <2>2, <2>3, StillInv
<1>8. CASE UNCHANGED amm
  <2>1. /\ UNCHANGED <<pool, base_vault, quote_vault, circulating, purse, paid_out>>
        /\ disable_flags' \subseteq {BUY_FLAG, SELL_FLAG}
    BY <1>8 DEF amm, Inv, TypeOK
  <2> QED BY <2>1, StillInv
<1> HIDE DEF StepSafe
<1> QED BY <1>1, <1>2, <1>3, <1>4, <1>5, <1>6, <1>7, <1>8 DEF Next

(* Both reserves the client computes from a live pool are those of the pool. *)
LEMMA LiveReserves == Inv => Booked
<1> SUFFICES ASSUME Inv PROVE Booked
  OBVIOUS
<1>1. Books
  BY DEF Inv
<1>2. /\ quote_vault \in Nat /\ purse \in Nat /\ paid_out \in Nat
      /\ purse + quote_vault + paid_out = Purse + (OpenQuote - Boost)
  BY DEF Inv, TypeOK, Conserved
<1>3. quote_vault + Boost <= U64_MAX /\ U64_MAX \in Nat
  BY <1>2, Deposits, PoolMarketAssumption, U64Assumption
<1>4. Effective \in U64 /\ Buckets \in U64
  BY <1>1, <1>2, <1>3, PoolNumbers, PoolMarketAssumption DEF U64, Books, Effective
<1>5. EffectiveQuoteReserve(pool, quote_vault) = Ok(Effective)
  BY <1>4 DEF EffectiveQuoteReserve, Effective
<1>6. FeeBucketsTotal(pool) = Ok(Buckets)
  BY <1>4 DEF FeeBucketsTotal, Buckets
<1>7. RealQuoteReserve(pool, quote_vault) = Ok(quote_vault - Buckets)
  <2>1. ~ (quote_vault < Buckets)
    BY <1>1, <1>2, PoolNumbers DEF Books
  <2> QED BY <1>6, <2>1 DEF RealQuoteReserve, Ok, OK
<1>8. quote_vault - Buckets = Effective - Boost
  BY <1>2, PoolNumbers, PoolMarketAssumption DEF Real
<1> QED BY <1>1, <1>5, <1>7, <1>8 DEF Booked, Books

-----------------------------------------------------------------------------
(* Theorems *)

(* The invariant of the module's header. *)
THEOREM Invariance == Spec => []Inv
<1>1. Inv /\ [Next]_amm => Inv'
  BY NextInv DEF StepSafe
<1> QED BY InitInv, <1>1, PTL DEF Spec

(* No subtraction of a trade or a sweep underflows, whatever the order of    *)
(* v1, v2 and multi-hop trades, sweeps and pauses.                           *)
THEOREM TypeCorrect == Spec => []TypeOK
<1>1. Inv => TypeOK
  BY DEF Inv
<1> QED BY Invariance, <1>1, PTL

(* No token and no unit of quote is created or lost. *)
THEOREM Conservation == Spec => []Conserved
<1>1. Inv => Conserved
  BY DEF Inv
<1> QED BY Invariance, <1>1, PTL

(* virtual_quote_reserves is the boost less the un-swept fees, and neither   *)
(* reserve the client computes from a live pool ever overflows.              *)
THEOREM BooksBalance == Spec => []Booked
BY Invariance, LiveReserves, PTL

(* The pool with its vault, buckets and signed virtual reserve is the pool   *)
(* AbstractPool promises.                                                    *)
THEOREM Refinement == Spec => ImplementsAbstractPool
<1>1. Init => Abstract!Init
  BY InitInv
<1>2. Inv /\ [Next]_amm => [Abstract!Trade \/ Abstract!PayFees]_(Abstract!abstract)
  BY NextInv DEF StepSafe, Abstract!abstract
<1> QED BY <1>1, <1>2, Invariance, PTL DEF Spec, ImplementsAbstractPool, Abstract!Spec

(***************************************************************************)
(* What the pool quoters and their fee-less helpers promise of every       *)
(* reachable pool.  Inv gives the reserves a quote is computed from;       *)
(* Settings adds what migrate_v2 fixed once and for all.                   *)
(***************************************************************************)
(* The fields of the Pool account that no trade or sweep writes. *)
Settings ==
  /\ pool.canonical = OpenPool.canonical
  /\ pool.coin_creator = OpenPool.coin_creator
  /\ pool.quote_mint = OpenPool.quote_mint
  /\ pool.is_mayhem_mode = OpenPool.is_mayhem_mode
  /\ pool.is_cashback_coin = OpenPool.is_cashback_coin
  /\ pool.creator_fee_bps = OpenPool.creator_fee_bps

(* The pool stays the one that migrate_v2 opened. *)
LEMMA SettingsKept ==
  /\ Init => Settings
  /\ Inv /\ Settings /\ [Next]_amm => Settings'
<1>1. Init => Settings
  BY DEF Init, Settings
<1>2. ASSUME Inv, Settings, [Next]_amm PROVE Settings'
  <2>1. pool \in Pool
    BY <1>2 DEF Inv, TypeOK
  <2>2. ASSUME NEW f, NEW v, pool' = BookFees(f, v) PROVE Settings'
    BY <1>2, <2>1, <2>2 DEF Settings, BookFees, Pool, OpenPool
  <2>3. CASE SweepCreatorFee
    BY <1>2, <2>1, <2>3 DEF Settings, SweepCreatorFee, Pool, OpenPool
  <2>4. CASE SweepProtocolFee
    BY <1>2, <2>1, <2>4 DEF Settings, SweepProtocolFee, Pool, OpenPool
  <2>5. CASE UNCHANGED pool
    BY <1>2, <2>5 DEF Settings, OpenPool
  <2> QED
    BY <1>2, <2>2, <2>3, <2>4, <2>5
       DEF Next, Buy, BuyExactQuoteIn, Sell, ApplyBuy, ApplySell, Toggle, amm
<1> QED BY <1>1, <1>2

(* PoolContext of a live pool never fails, and prices on the true reserves.  *)
LEMMA LiveContext ==
  ASSUME Inv
  PROVE  /\ Now.err = OK
         /\ Now.canonical = pool.canonical /\ Now.coin_creator = pool.coin_creator
         /\ Now.quote_mint = pool.quote_mint /\ Now.creator_fee_bps = pool.creator_fee_bps
         /\ Now.base_reserve = base_vault /\ Now.quote_reserve = Effective
         /\ Now.base_mint_supply = FeeTierSupply(pool.is_mayhem_mode, MintSupply)
         /\ Now.real_quote_reserve = Effective - Boost
         /\ Real = Effective - Boost
         /\ HasReserves(Now)
<1>1. /\ EffectiveQuoteReserve(pool, quote_vault) = Ok(Effective)
      /\ RealQuoteReserve(pool, quote_vault) = Ok(Effective - Boost)
  BY LiveReserves DEF Booked
<1>2. base_vault # 0 /\ Effective # 0 /\ Real = Effective - Boost
  BY PoolNumbers, PoolMarketAssumption
<1> QED BY <1>1, <1>2 DEF Now, PoolContext, Ok, HasReserves

(* The rates of all three legs are the rates of the plain quoters.           *)
LEMMA AllLegsBps == AmmBps(AmmFeeBps(Now).fees) = TradeBps(AllLegs)
BY DEF AmmBps, TradeBps, LegBps, AllLegs, OnLeg, Now

(* Looking up rates fails for want of a fee tier only. *)
LEMMA FeeErrors ==
  ASSUME NEW ctx
  PROVE  AmmFeeBps(ctx).err \in {OK, "EmptyFeeTiers"}
<1> DEFINE cap == MarketCap(ctx.base_mint_supply, ctx.quote_reserve, ctx.base_reserve)
           found == FeesForQuoteMint(AmmFeeConfig, ctx.canonical, cap, ctx.quote_mint)
           r == ComputeFeeBps(AmmGlobal.creator_fee_configurable, AmmFeeConfig, ctx.canonical,
                              ctx.quote_mint, ctx.creator_fee_bps, cap)
<1>1. found.err \in {OK, "EmptyFeeTiers"} /\ DOMAIN found = {"err", "fees"}
  <2> HIDE DEF cap
  <2> QED BY DEF FeesForQuoteMint, CalculateFeeTier, FeeResult, FeeError, OK
<1>2. r.err = found.err /\ DOMAIN r = {"err", "fees"}
  <2>1. r = [found EXCEPT !.fees.creator_fee_bps =
               ConfiguredCreatorFeeBps(AmmGlobal.creator_fee_configurable, ctx.creator_fee_bps, @)]
    BY DEF ComputeFeeBps
  <2> HIDE DEF found
  <2> QED BY <1>1, <2>1
<1>3. AmmFeeBps(ctx).err = r.err
  <2>1. AmmFeeBps(ctx) = [r EXCEPT !.fees.creator_fee_bps =
                            IF ctx.coin_creator = DEFAULT_KEY THEN 0 ELSE @]
    BY DEF AmmFeeBps
  <2> HIDE DEF r
  <2> QED BY <1>2, <2>1
<1> QED BY <1>1, <1>2, <1>3

-----------------------------------------------------------------------------
(* Fee-less helpers *)

(* A quotient that is rounded down is the greatest natural number whose      *)
(* product with the divisor the dividend covers.                             *)
LEMMA DivGreatest ==
  ASSUME NEW a \in Nat, NEW b \in Nat, b > 0, NEW n \in Nat, n * b <= a
  PROVE  n <= a \div b
<1> DEFINE d == a \div b
<1>1. d \in Nat /\ a < b * d + b
  BY DivBounds
<1> HIDE DEF d
<1>2. n <= d
  <2> SUFFICES ASSUME d + 1 <= n PROVE FALSE
    BY <1>1
  <2>1. (d + 1) * b <= n * b
    BY <1>1, MulMono
  <2> QED BY <1>1, <2>1
<1> QED BY <1>2 DEF d

(* The tokens n buys without fees cost no more than n. *)
LEMMA BoughtIsCovered ==
  ASSUME NEW b \in Nat, NEW e \in Nat, b > 0, e > 0, NEW n \in Nat
  PROVE  LET bought == BuyTokenQuoteWithSol(b, e, n).val
         IN  CeilDiv(e * bought, b - bought) <= n
<1> DEFINE x == (n * b) \div (e + n)
<1>1. x \in Nat /\ x < b
  BY SwapLeavesReserve
<1>2. (e + n) * x <= n * b
  <2>1. n * b \in Nat /\ e + n \in Nat /\ e + n > 0
    OBVIOUS
  <2> QED BY <2>1, DivBounds
<1>3. BuyTokenQuoteWithSol(b, e, n).val = x
  BY DEF BuyTokenQuoteWithSol, MulDiv, Ok
<1> HIDE DEF x
<1>4. e * x \in Nat /\ b - x \in Nat /\ b - x > 0 /\ e * x <= n * (b - x)
  BY <1>1, <1>2
<1>5. CeilDiv(e * x, b - x) <= n
  <2> DEFINE p == e * x
             d == b - x
  <2>1. p \in Nat /\ d \in Nat /\ d > 0 /\ p <= n * d
    BY <1>4
  <2> HIDE DEF p, d
  <2>2. CeilDiv(p, d) <= n
    BY <2>1, CeilDivLeast
  <2> QED BY <2>2 DEF p, d
<1> QED BY <1>3, <1>5

(* The tokens to sell for n fetch at most n, one more at least n.            *)
LEMMA SoldIsTight ==
  ASSUME NEW b \in Nat, NEW e \in Nat, b > 0, NEW n \in Nat, n < e
  PROVE  LET sold == SellTokenQuoteWithSol(b, e, n).val
         IN  /\ SellQuote(b, e, sold).val <= n
             /\ n <= SellQuote(b, e, sold + 1).val
<1> DEFINE x == (n * b) \div (e - n)
<1>1. x \in Nat /\ (e - n) * x <= n * b /\ n * b < (e - n) * x + (e - n)
  <2>1. n * b \in Nat /\ e - n \in Nat /\ e - n > 0
    OBVIOUS
  <2> QED BY <2>1, DivBounds
<1>2. SellTokenQuoteWithSol(b, e, n).val = x
  BY DEF SellTokenQuoteWithSol, MulDiv, Ok
<1> HIDE DEF x
<1>3. /\ x * e \in Nat /\ b + x \in Nat /\ b + x > 0 /\ x * e <= n * (b + x)
      /\ (x + 1) * e \in Nat /\ b + (x + 1) \in Nat /\ b + (x + 1) > 0
  BY <1>1
<1>4. n * (b + (x + 1)) <= (x + 1) * e
  <2>1. (e - n) * x + (e - n) = (x + 1) * e - n * (x + 1)
    BY <1>1
  <2>2. n * (b + (x + 1)) = n * b + n * (x + 1)
    BY <1>1
  <2>3. n * b \in Nat /\ n * (x + 1) \in Nat
    BY <1>1
  <2> QED BY <1>1, <1>3, <2>1, <2>2, <2>3
<1>5. (x * e) \div (b + x) <= n
  <2> DEFINE p == x * e
             d == b + x
  <2>1. p \in Nat /\ d \in Nat /\ d > 0 /\ p <= n * d
    BY <1>3
  <2> HIDE DEF p, d
  <2>2. p \div d <= n
    BY <2>1, DivLeast
  <2> QED BY <2>2 DEF p, d
<1>6. n <= ((x + 1) * e) \div (b + (x + 1))
  <2> DEFINE p == (x + 1) * e
             d == b + (x + 1)
  <2>1. p \in Nat /\ d \in Nat /\ d > 0 /\ n * d <= p
    BY <1>3, <1>4
  <2> HIDE DEF p, d
  <2>2. n <= p \div d
    BY <2>1, DivGreatest
  <2> QED BY <2>2 DEF p, d
<1>7. /\ SellQuote(b, e, x).val = (x * e) \div (b + x)
      /\ SellQuote(b, e, x + 1).val = ((x + 1) * e) \div (b + (x + 1))
  BY <1>3 DEF SellQuote, MulDiv, Ok
<1> QED BY <1>2, <1>5, <1>6, <1>7

(* buy_token_quote_with_sol and sell_token_quote_with_sol never name a trade *)
(* that is better for the user than the amount asked for, on any pool any    *)
(* mix of trades and sweeps can leave.                                       *)
THEOREM HelpersAreSafe == Spec => []HelpersFavourPool
<1>1. Inv => HelpersFavourPool
  <2> SUFFICES ASSUME Inv, NEW n \in Amounts
               PROVE  LET bought == BuyTokenQuoteWithSol(base_vault, Effective, n).val
                          sold   == SellTokenQuoteWithSol(base_vault, Effective, n)
                      IN  /\ CeilDiv(Effective * bought, base_vault - bought) <= n
                          /\ (sold.err = OK /\ n < Effective) =>
                               /\ SellQuote(base_vault, Effective, sold.val).val <= n
                               /\ n <= SellQuote(base_vault, Effective, sold.val + 1).val
    BY Zenon DEF HelpersFavourPool
  <2> DEFINE b == base_vault
             e == Effective
  <2>1. b \in Nat /\ b > 0 /\ e \in Nat /\ e > 0 /\ n \in Nat
    BY PoolNumbers, PoolMarketAssumption
  <2> HIDE DEF b, e
  <2>2. LET bought == BuyTokenQuoteWithSol(b, e, n).val
        IN  CeilDiv(e * bought, b - bought) <= n
    BY <2>1, BoughtIsCovered
  <2>3. n < e => LET sold == SellTokenQuoteWithSol(b, e, n).val
                 IN  /\ SellQuote(b, e, sold).val <= n
                     /\ n <= SellQuote(b, e, sold + 1).val
    BY <2>1, SoldIsTight
  <2> QED BY <2>2, <2>3 DEF b, e
<1> QED BY <1>1, Invariance, PTL

-----------------------------------------------------------------------------
(* The plain quoters *)

(* The sale that sell_base_input prices on a live pool. *)
LEMMA LiveSale ==
  ASSUME Inv, NEW n \in Nat
  PROVE  LET raw  == (Effective * n) \div (base_vault + n)
             fees == ThreeFees(raw, TradeBps(AllLegs))
         IN  /\ raw \in Nat /\ raw < Effective /\ fees \in FeeTriple
             /\ SellBaseInput({}, Now, n) =
                  IF AmmFeeBps(Now).err # OK THEN NotPriced(AmmFeeBps(Now).err)
                  ELSE IF raw < SumOf(fees) THEN NotPriced("FeesExceedOutput")
                  ELSE IF Effective - Boost < raw - fees[1]
                    THEN NotPriced("InsufficientRealQuoteReserves")
                  ELSE Priced(raw, n, fees)
<1> DEFINE raw == (Effective * n) \div (base_vault + n)
           fees == ThreeFees(raw, TradeBps(AllLegs))
<1>1. raw \in Nat /\ raw < Effective
  BY ProceedsGood
<1>2. fees \in FeeTriple
  <2> HIDE DEF raw
  <2> QED BY <1>1, TradeBpsType, ThreeFeesType
<1>3. TradingEnabled({}, FALSE)
  BY DEF TradingEnabled
<1>4. SellBaseInput({}, Now, n) =
        IF AmmFeeBps(Now).err # OK THEN NotPriced(AmmFeeBps(Now).err)
        ELSE IF raw < SumOf(fees) THEN NotPriced("FeesExceedOutput")
        ELSE IF Effective - Boost < raw - fees[1]
          THEN NotPriced("InsufficientRealQuoteReserves")
        ELSE Priced(raw, n, fees)
  BY <1>3, LiveContext, AllLegsBps, Zenon DEF SellBaseInput
<1> QED BY <1>1, <1>2, <1>4

(* The fee rates before the migration are those of the pool it opens, as    *)
(* long as nothing has traded.                                               *)
LEMMA SameRates ==
  ASSUME Inv, Settings, Untraded
  PROVE  AmmFeeBps(BeforeMigration) = AmmFeeBps(Now)
<1> DEFINE c == CompletedCurve
           was == BeforeMigration
<1>1. /\ was.canonical = TRUE /\ was.coin_creator = c.creator /\ was.quote_mint = c.quote_mint
      /\ was.creator_fee_bps = c.creator_fee_bps
      /\ was.base_reserve = OpenBase /\ was.quote_reserve = OpenQuote
      /\ was.base_mint_supply = FeeTierSupply(c.is_mayhem_mode, MintSupply)
  BY DEF BeforeMigration, CompleteCurveContext, OpenBase, OpenQuote
<1>2. /\ Now.canonical = TRUE /\ Now.coin_creator = c.creator
      /\ Now.quote_mint = ResolveQuoteMint(c.quote_mint)
      /\ Now.creator_fee_bps = c.creator_fee_bps
      /\ Now.base_reserve = OpenBase /\ Now.quote_reserve = OpenQuote
      /\ Now.base_mint_supply = FeeTierSupply(c.is_mayhem_mode, MintSupply)
  BY LiveContext DEF Settings, OpenPool, Untraded
<1>3. \A cap : FeesForQuoteMint(AmmFeeConfig, TRUE, cap, ResolveQuoteMint(c.quote_mint))
                 = FeesForQuoteMint(AmmFeeConfig, TRUE, cap, c.quote_mint)
  <2>1. CASE c.quote_mint = DEFAULT_KEY
    BY <2>1 DEF FeesForQuoteMint, ResolveQuoteMint, IsSolLikeQuoteMint, NATIVE_MINT, DEFAULT_KEY
  <2>2. CASE c.quote_mint # DEFAULT_KEY
    BY <2>2 DEF ResolveQuoteMint
  <2> QED BY <2>1, <2>2
<1> HIDE DEF was, c
<1> DEFINE cap == MarketCap(Now.base_mint_supply, Now.quote_reserve, Now.base_reserve)
<1>4. MarketCap(was.base_mint_supply, was.quote_reserve, was.base_reserve) = cap
  BY <1>1, <1>2
<1> HIDE DEF cap
<1>5. ComputeFeeBps(AmmGlobal.creator_fee_configurable, AmmFeeConfig, was.canonical,
                    was.quote_mint, was.creator_fee_bps, cap)
        = ComputeFeeBps(AmmGlobal.creator_fee_configurable, AmmFeeConfig, Now.canonical,
                        Now.quote_mint, Now.creator_fee_bps, cap)
  BY <1>1, <1>2, <1>3 DEF ComputeFeeBps
<1>6. AmmFeeBps(was) = AmmFeeBps(Now)
  BY <1>1, <1>2, <1>4, <1>5 DEF AmmFeeBps, cap
<1> QED BY <1>6 DEF was

(* Only the boost, which is not in the vault, is ever unpayable, and a quote *)
(* taken of the completed curve is the quote of the pool it opens.           *)
THEOREM BoostAloneIsUnpayable == Spec => []OnlyBoostIsUnpayable
<1>1. ASSUME Inv, Settings PROVE OnlyBoostIsUnpayable
  <2> SUFFICES ASSUME NEW n \in Amounts
      PROVE LET raw  == (Effective * n) \div (base_vault + n)
                fees == ThreeFees(raw, TradeBps(AllLegs))
                sale == SellBaseInput({}, Now, n)
            IN  /\ (sale.err = "InsufficientRealQuoteReserves")
                     <=> /\ AmmFeeBps(Now).err = OK
                         /\ raw >= SumOf(fees) /\ Effective - (raw - fees[1]) < Boost
                /\ Untraded =>
                     /\ BuyBaseInput({}, BeforeMigration, n) = BuyBaseInput({}, Now, n)
                     /\ BuyQuoteInput({}, BeforeMigration, n) = BuyQuoteInput({}, Now, n)
                     /\ \/ SellBaseInput({}, BeforeMigration, n) = sale
                        \/ sale.err = "InsufficientRealQuoteReserves"
    BY Zenon DEF OnlyBoostIsUnpayable
  <2> DEFINE raw  == (Effective * n) \div (base_vault + n)
             fees == ThreeFees(raw, TradeBps(AllLegs))
             sale == SellBaseInput({}, Now, n)
             bps  == AmmFeeBps(Now)
  <2>1. /\ raw \in Nat /\ raw < Effective /\ fees \in FeeTriple
        /\ sale = IF bps.err # OK THEN NotPriced(bps.err)
                  ELSE IF raw < SumOf(fees) THEN NotPriced("FeesExceedOutput")
                  ELSE IF Effective - Boost < raw - fees[1]
                    THEN NotPriced("InsufficientRealQuoteReserves")
                  ELSE Priced(raw, n, fees)
    BY <1>1, PoolMarketAssumption, LiveSale
  <2>2. bps.err \in {OK, "EmptyFeeTiers"}
    BY FeeErrors
  <2>3. Effective \in Nat /\ Boost \in Nat /\ fees[1] \in Nat /\ SumOf(fees) \in Nat
    <3> HIDE DEF raw
    <3>1. fees[1] \in Nat /\ fees[2] \in Nat /\ fees[3] \in Nat
      BY <2>1 DEF FeeTriple
    <3> QED BY <1>1, <3>1, PoolNumbers, PoolMarketAssumption DEF SumOf
  <2>4. Untraded =>
          /\ BuyBaseInput({}, BeforeMigration, n) = BuyBaseInput({}, Now, n)
          /\ BuyQuoteInput({}, BeforeMigration, n) = BuyQuoteInput({}, Now, n)
          /\ \/ SellBaseInput({}, BeforeMigration, n) = sale
             \/ sale.err = "InsufficientRealQuoteReserves"
    <3> SUFFICES ASSUME Untraded
        PROVE /\ BuyBaseInput({}, BeforeMigration, n) = BuyBaseInput({}, Now, n)
              /\ BuyQuoteInput({}, BeforeMigration, n) = BuyQuoteInput({}, Now, n)
              /\ \/ SellBaseInput({}, BeforeMigration, n) = sale
                 \/ sale.err = "InsufficientRealQuoteReserves"
      OBVIOUS
    <3> DEFINE was == BeforeMigration
    <3>1. AmmFeeBps(was) = bps
      BY <1>1, SameRates
    <3>2. /\ was.base_reserve = Now.base_reserve /\ was.quote_reserve = Now.quote_reserve
          /\ was.real_quote_reserve = Effective
          /\ Now.base_reserve = base_vault /\ Now.quote_reserve = Effective
          /\ Now.base_reserve # 0 /\ Now.quote_reserve # 0
      BY <1>1, LiveContext
         DEF BeforeMigration, CompleteCurveContext, OpenBase, OpenQuote, Untraded, HasReserves
    <3> HIDE DEF was
    <3>3. HasReserves(was) /\ HasReserves(Now)
      BY <3>2 DEF HasReserves
    <3>4. BuyBaseInput({}, was, n) = BuyBaseInput({}, Now, n)
      BY <3>1, <3>2, <3>3 DEF BuyBaseInput
    <3>5. BuyQuoteInput({}, was, n) = BuyQuoteInput({}, Now, n)
      BY <3>1, <3>2, <3>3 DEF BuyQuoteInput
    <3>6. SellBaseInput({}, was, n) =
            IF bps.err # OK THEN NotPriced(bps.err)
            ELSE IF raw < SumOf(fees) THEN NotPriced("FeesExceedOutput")
            ELSE IF Effective < raw - fees[1] THEN NotPriced("InsufficientRealQuoteReserves")
            ELSE Priced(raw, n, fees)
      <4>1. TradingEnabled({}, FALSE)
        BY DEF TradingEnabled
      <4>2. AmmBps(bps.fees) = TradeBps(AllLegs)
        BY AllLegsBps
      <4> HIDE DEF bps
      <4> QED BY <3>1, <3>2, <3>3, <4>1, <4>2, Zenon DEF SellBaseInput
    <3> HIDE DEF raw, fees, bps, sale
    <3>7. ~ (Effective < raw - fees[1])
      BY <2>1, <2>3
    <3>8. SellBaseInput({}, was, n) = sale \/ sale.err = "InsufficientRealQuoteReserves"
      BY <2>1, <3>6, <3>7 DEF NotPriced
    <3> QED BY <3>4, <3>5, <3>8 DEF was
  <2>5. (sale.err = "InsufficientRealQuoteReserves")
          <=> /\ bps.err = OK
              /\ raw >= SumOf(fees) /\ Effective - (raw - fees[1]) < Boost
    <3> HIDE DEF raw, fees, bps, sale
    <3>1. (Effective - Boost < raw - fees[1]) <=> (Effective - (raw - fees[1]) < Boost)
      BY <2>1, <2>3
    <3>2. (raw < SumOf(fees)) <=> ~ (raw >= SumOf(fees))
      BY <2>1, <2>3
    <3> QED BY <2>1, <2>2, <3>1, <3>2 DEF NotPriced, Priced, OK
  <2> QED BY <2>4, <2>5
<1>2. Init => Inv /\ Settings
  BY InitInv, SettingsKept
<1>3. Inv /\ Settings /\ [Next]_amm => Inv' /\ Settings'
  BY NextInv, SettingsKept DEF StepSafe
<1> QED BY <1>1, <1>2, <1>3, PTL DEF Spec

-----------------------------------------------------------------------------
(* One hop *)

(* Rates of at most 100 % leave an exact-in budget a gap of one unit at      *)
(* most: rounding the net down loses less than one unit and its fees, which  *)
(* are rounded up.                                                           *)
LEMMA GapOfOne ==
  ASSUME NEW n \in Nat, NEW bps \in FeeTriple, SumOf(bps) <= BPS
  PROVE  n - SumOf(ThreeFees(UnshavedNet(n, bps), bps)) <= UnshavedNet(n, bps) + 1
<1> DEFINE t == SumOf(bps)
           d == BPS + t
           u == (n * BPS) \div d
<1>1. bps[1] \in Nat /\ bps[2] \in Nat /\ bps[3] \in Nat
  BY DEF FeeTriple
<1>2. t \in Nat /\ t <= BPS /\ d \in Nat /\ d > 0 /\ n * BPS \in Nat
  BY <1>1 DEF SumOf, BPS
<1>3. UnshavedNet(n, bps) = u
  BY DEF UnshavedNet, SumOf
<1>4. u \in Nat /\ n * BPS < d * u + d
  <2> DEFINE a == n * BPS
  <2>1. a \in Nat /\ a \div d \in Nat /\ a < d * (a \div d) + d
    <3> HIDE DEF a, d
    <3>1. a \in Nat
      BY <1>2 DEF a
    <3> QED BY <1>2, <3>1, DivBounds
  <2> QED BY <2>1
<1> HIDE DEF u
<1> DEFINE f1 == FeeAmount(u, bps[1])
           f2 == FeeAmount(u, bps[2])
           f3 == FeeAmount(u, bps[3])
<1>5. ASSUME NEW b \in Nat PROVE FeeAmount(u, b) \in Nat /\ u * b <= BPS * FeeAmount(u, b)
  <2> DEFINE a == u * b
  <2>1. a \in Nat /\ BPS \in Nat /\ BPS > 0
    BY <1>4 DEF BPS
  <2> HIDE DEF a
  <2>2. CeilDiv(a, BPS) \in Nat /\ a <= BPS * CeilDiv(a, BPS)
    BY <2>1, CeilDivLeast
  <2> QED BY <2>2 DEF FeeAmount, a
<1>6. /\ f1 \in Nat /\ u * bps[1] <= BPS * f1
      /\ f2 \in Nat /\ u * bps[2] <= BPS * f2
      /\ f3 \in Nat /\ u * bps[3] <= BPS * f3
  BY <1>1, <1>5
<1>7. SumOf(ThreeFees(u, bps)) = f1 + f2 + f3
  BY DEF SumOf, ThreeFees
<1> HIDE DEF f1, f2, f3
<1>8. u * t <= BPS * (f1 + f2 + f3)
  <2>1. u * t = u * bps[1] + u * bps[2] + u * bps[3]
    BY <1>1, <1>4 DEF SumOf
  <2>2. BPS * (f1 + f2 + f3) = BPS * f1 + BPS * f2 + BPS * f3
    BY <1>6 DEF BPS
  <2>3. /\ u * bps[1] \in Nat /\ u * bps[2] \in Nat /\ u * bps[3] \in Nat
        /\ BPS * f1 \in Nat /\ BPS * f2 \in Nat /\ BPS * f3 \in Nat
    BY <1>1, <1>4, <1>6 DEF BPS
  <2> QED BY <1>6, <2>1, <2>2, <2>3
<1> DEFINE f == f1 + f2 + f3
           ut == u * t
<1>9. d * u = BPS * u + ut
  BY <1>2, <1>4 DEF BPS
<1>10. ut \in Nat /\ f \in Nat
  BY <1>2, <1>4, <1>6
<1> HIDE DEF t, f, ut, d
<1>11. n * BPS < BPS * u + BPS * f + 2 * BPS
  <2>1. d <= 2 * BPS /\ ut <= BPS * f
    BY <1>2, <1>8 DEF d, f, ut, BPS
  <2> QED BY <1>2, <1>4, <1>9, <1>10, <2>1 DEF BPS
<1>12. n < u + f + 2
  BY <1>4, <1>10, <1>11 DEF BPS
<1>13. n - f <= u + 1
  BY <1>4, <1>10, <1>12
<1> QED BY <1>3, <1>7, <1>13 DEF f

(* A swap of more never yields less. *)
LEMMA SwapMonotone ==
  ASSUME NEW m \in Nat, NEW n \in Nat, m <= n, NEW e \in Nat, NEW b \in Nat, e > 0
  PROVE  /\ SwapExactInput(m, e, b).val = (m * b) \div (e + m)
         /\ SwapExactInput(n, e, b).val = (n * b) \div (e + n)
         /\ SwapExactInput(m, e, b).val \in Nat /\ SwapExactInput(n, e, b).val \in Nat
         /\ SwapExactInput(m, e, b).val <= SwapExactInput(n, e, b).val
<1> DEFINE x == (m * b) \div (e + m)
<1>1. /\ SwapExactInput(m, e, b).val = x
      /\ SwapExactInput(n, e, b).val = (n * b) \div (e + n)
  BY DEF SwapExactInput, MulDiv, Ok
<1>2. /\ m * b \in Nat /\ e + m \in Nat /\ e + m > 0
      /\ n * b \in Nat /\ e + n \in Nat /\ e + n > 0
  OBVIOUS
<1>3. x \in Nat /\ (e + m) * x <= m * b /\ (n * b) \div (e + n) \in Nat
  BY <1>2, DivBounds
<1> HIDE DEF x
<1>4. x <= b
  <2>1. m * b <= b * (e + m)
    OBVIOUS
  <2>2. x * (e + m) <= b * (e + m)
    BY <1>2, <1>3, <2>1
  <2> QED BY <1>2, <1>3, <2>2, MulCancel
<1>5. x * (e + n) <= n * b
  <2> DEFINE k == n - m
  <2>1. k \in Nat /\ n = m + k
    OBVIOUS
  <2> HIDE DEF k
  <2>2. x * k <= b * k
    BY <1>3, <1>4, <2>1, MulMono
  <2>3. x * (e + n) = (e + m) * x + x * k /\ n * b = m * b + b * k
    BY <1>3, <2>1
  <2>4. x * k \in Nat /\ b * k \in Nat /\ (e + m) * x \in Nat
    BY <1>3, <2>1
  <2> QED BY <1>2, <1>3, <2>2, <2>3, <2>4
<1>6. x <= (n * b) \div (e + n)
  <2> DEFINE p == n * b
             d == e + n
  <2>1. p \in Nat /\ d \in Nat /\ d > 0 /\ x * d <= p
    BY <1>2, <1>5
  <2> HIDE DEF p, d
  <2>2. x <= p \div d
    BY <1>3, <2>1, DivGreatest
  <2> QED BY <2>2 DEF p, d
<1> QED BY <1>1, <1>3, <1>6 DEF x

(* A hop's buy swaps at least what a plain exact-in buy of the same budget   *)
(* would, which stops at the rounded net.                                    *)
LEMMA HopBuyIsNoWorse ==
  ASSUME NEW n \in Nat, NEW bps \in FeeTriple, NEW e \in Nat, NEW b \in Nat, e > 0,
         ExactInFeeAmounts(n, bps).err = OK,
         SwapExactInput(ExactInFeeAmounts(n, bps).net - 1, e, b).val # 0
  PROVE  /\ HopBuy(n, bps, e, b).err = OK
         /\ SwapExactInput(ExactInFeeAmounts(n, bps).net - 1, e, b).val
              <= HopBuy(n, bps, e, b).base
<1> DEFINE split == ExactInFeeAmounts(n, bps)
           net   == n - SumOf(split.fees)
           low   == split.net - 1
           high  == net - 1
<1>1. split.net \in Nat /\ split.net > 0 /\ split.fees \in FeeTriple
      /\ split.net + SumOf(split.fees) <= n
  BY ExactInSplit DEF FeeTriple, SumOf
<1>2. HopBuy(n, bps, e, b) = IF split.err # OK THEN NotPriced(split.err)
                             ELSE IF net <= 0 \/ SwapExactInput(high, e, b).val = 0
                               THEN NotPriced("ZeroAmount")
                             ELSE Priced(net, SwapExactInput(high, e, b).val, split.fees)
  BY Zenon DEF HopBuy
<1>3. split.err = OK /\ SwapExactInput(low, e, b).val # 0
  OBVIOUS
<1> HIDE DEF split
<1>4. SumOf(split.fees) \in Nat
  BY <1>1 DEF SumOf, FeeTriple
<1>5. low \in Nat /\ high \in Nat /\ low <= high /\ ~ (net <= 0)
  BY <1>1, <1>4
<1> HIDE DEF low, high, net
<1>6. /\ SwapExactInput(low, e, b).val \in Nat /\ SwapExactInput(high, e, b).val \in Nat
      /\ SwapExactInput(low, e, b).val <= SwapExactInput(high, e, b).val
  BY <1>5, SwapMonotone
<1>7. SwapExactInput(high, e, b).val # 0
  BY <1>3, <1>6
<1>8. HopBuy(n, bps, e, b) = Priced(net, SwapExactInput(high, e, b).val, split.fees)
  BY <1>2, <1>3, <1>5, <1>7
<1> QED BY <1>6, <1>8 DEF Priced, low, split

(* Bought plainly, what a hop's buy yields costs no more than its budget.    *)
LEMMA HopBuyIsAffordable ==
  ASSUME NEW n \in Nat, NEW bps \in FeeTriple, NEW e \in Nat, NEW b \in Nat, e > 0, b > 0,
         SumOf(bps) <= BPS, HopBuy(n, bps, e, b).err = OK
  PROVE  LET out == HopBuy(n, bps, e, b).base
             raw == CeilDiv(e * out, b - out)
         IN  /\ out \in Nat /\ out < b
             /\ raw + SumOf(ThreeFees(raw, bps)) <= n
<1> DEFINE split == ExactInFeeAmounts(n, bps)
           net   == n - SumOf(split.fees)
           k     == net - 1
           u     == UnshavedNet(n, bps)
           out   == SwapExactInput(k, e, b).val
           raw   == CeilDiv(e * out, b - out)
<1>1. split.err = OK /\ ~ (net <= 0) /\ HopBuy(n, bps, e, b).base = out
  BY DEF HopBuy, NotPriced, Priced, OK
<1>2. split.fees = ThreeFees(u, bps)
  <2> HIDE DEF u
  <2> QED BY <1>1 DEF ExactInFeeAmounts, ShaveNet, OK, u
<1>3. u \in Nat
  <2>1. n * BPS \in Nat /\ BPS + (bps[1] + bps[2] + bps[3]) \in Nat
        /\ BPS + (bps[1] + bps[2] + bps[3]) > 0
    BY DEF BPS, FeeTriple
  <2> QED BY <2>1, DivBounds DEF UnshavedNet
<1>4. net <= u + 1
  BY <1>2, GapOfOne
<1>5. split.fees \in FeeTriple
  BY <1>1, ExactInSplit DEF FeeTriple
<1> HIDE DEF split, u
<1>6. SumOf(split.fees) \in Nat
  BY <1>5 DEF SumOf, FeeTriple
<1>7. k \in Nat /\ k <= u /\ k + SumOf(split.fees) <= n
  BY <1>1, <1>3, <1>4, <1>6
<1> HIDE DEF k, net
<1>8. BuyTokenQuoteWithSol(b, e, k).val = out
  BY DEF BuyTokenQuoteWithSol, SwapExactInput
<1>9. out \in Nat /\ out < b
  <2>1. out = (k * b) \div (e + k)
    BY <1>7, SwapMonotone
  <2> HIDE DEF out
  <2> QED BY <1>7, <2>1, SwapLeavesReserve
<1>10. raw <= k
  <2> HIDE DEF out
  <2> QED BY <1>7, <1>8, BoughtIsCovered
<1> HIDE DEF out
<1>11. raw \in Nat
  <2> DEFINE p == e * out
             d == b - out
  <2>1. p \in Nat /\ d \in Nat /\ d > 0
    BY <1>9
  <2> HIDE DEF p, d
  <2>2. CeilDiv(p, d) \in Nat
    BY <2>1, CeilDivLeast
  <2> QED BY <2>2 DEF p, d
<1> HIDE DEF raw
<1>12. SumOf(ThreeFees(raw, bps)) \in Nat
       /\ SumOf(ThreeFees(raw, bps)) <= SumOf(ThreeFees(u, bps))
  <2>1. raw <= u
    BY <1>3, <1>7, <1>10, <1>11
  <2>2. ASSUME NEW i \in {1, 2, 3}
        PROVE  /\ FeeAmount(raw, bps[i]) \in Nat /\ FeeAmount(u, bps[i]) \in Nat
               /\ FeeAmount(raw, bps[i]) <= FeeAmount(u, bps[i])
    <3>1. bps[i] \in Nat
      BY DEF FeeTriple
    <3> QED BY <1>3, <1>11, <2>1, <3>1, FeeAmountMono, FeeAmountNat
  <2> QED BY <2>2 DEF SumOf, ThreeFees
<1>13. raw + SumOf(ThreeFees(raw, bps)) <= n
  BY <1>2, <1>6, <1>7, <1>10, <1>11, <1>12
<1> QED BY <1>1, <1>9, <1>13 DEF raw

(* What quote_multi_hop_swap says of a route of one hop that yields o.       *)
SaysHop(q, n, o, slip) ==
  q = IF o.err # OK THEN NoQuote(o.err)
      ELSE Quote(OK, o.val, Greatest(SubSlippage(o.val, slip), 1), n, n)

(* quote_multi_hop_swap over one hop charges that hop every fee.             *)
LEMMA OneHop ==
  ASSUME NEW flags, NEW user, NEW h, NEW is_buy, NEW n \in Nat, n > 0, NEW slip
  PROVE  SaysHop(QuoteMultiHopSwap(flags, user, <<h>>, is_buy, n, slip), n,
                 HopOut(flags, h, user, is_buy, n, AllLegs), slip)
<1> DEFINE hops == <<h>>
           o == HopOut(flags, h, user, is_buy, n, AllLegs)
           After(g, i) == IF i = 0 THEN Ok(n)
                          ELSE IF g[i - 1].err # OK THEN g[i - 1]
                          ELSE HopOut(flags, hops[i], user, is_buy, g[i - 1].val,
                                      ForHop(is_buy, i, Len(hops)))
           Chain(g) == g = [i \in 0 .. Len(hops) |-> After(g, i)]
           out == CHOOSE g : Chain(g)
           w == [i \in 0 .. 1 |-> IF i = 0 THEN Ok(n) ELSE o]
<1>1. Len(hops) = 1 /\ hops[1] = h /\ 0 .. 1 = {0, 1}
  OBVIOUS
<1>2. Ok(n).err = OK /\ Ok(n).val = n /\ ForHop(is_buy, 1, 1) = AllLegs
  BY DEF Ok, ForHop, AllLegs
<1> HIDE DEF hops
<1>3. Chain(w)
  <2>1. w[0] = Ok(n) /\ w[1] = o
    <3> HIDE DEF o
    <3> QED OBVIOUS
  <2>2. After(w, 0) = w[0] /\ After(w, 1) = w[1]
    <3> HIDE DEF w
    <3> QED BY <1>1, <1>2, <2>1
  <2> HIDE DEF After
  <2>3. w = [i \in 0 .. 1 |-> After(w, i)]
    <3>1. w = [i \in 0 .. 1 |-> w[i]]
      OBVIOUS
    <3> HIDE DEF w
    <3> QED BY <1>1, <2>2, <3>1
  <2> HIDE DEF w
  <2> QED BY <1>1, <2>3
<1>4. Chain(out)
  <2> HIDE DEF Chain, w
  <2> QED BY <1>3
<1>5. out[1] = o
  <2> HIDE DEF out, o
  <2>0. \A i \in 0 .. 1 : out[i] = After(out, i)
    <3> HIDE DEF After
    <3> QED BY <1>1, <1>4
  <2>1. out[0] = Ok(n)
    <3>1. After(out, 0) = Ok(n)
      OBVIOUS
    <3> QED BY <1>1, <2>0, <3>1
  <2>2. After(out, 1) = o
    BY <1>1, <1>2, <2>1 DEF o
  <2> QED BY <1>1, <2>0, <2>2
<1>6. QuoteMultiHopSwap(flags, user, hops, is_buy, n, slip)
        = IF n = 0 THEN NoQuote("ZeroAmount")
          ELSE IF out[Len(hops)].err # OK THEN NoQuote(out[Len(hops)].err)
          ELSE Quote(OK, out[Len(hops)].val,
                     Greatest(SubSlippage(out[Len(hops)].val, slip), 1), n, n)
  BY DEF QuoteMultiHopSwap
<1> HIDE DEF out, o
<1>7. SaysHop(QuoteMultiHopSwap(flags, user, hops, is_buy, n, slip), n, o, slip)
  BY <1>1, <1>5, <1>6 DEF SaysHop
<1> QED BY <1>7 DEF hops, o

(* The pool hop of a coin that multi_hop_swap takes, on the live pool. *)
LEMMA LiveHop ==
  ASSUME Inv, Settings, ~pool.is_mayhem_mode, ~pool.is_cashback_coin, NEW is_buy \in BOOLEAN,
         NEW n
  PROVE  MultiHopPoolHop(disable_flags, pool, base_vault, quote_vault, MintSupply, is_buy, n,
                         AllLegs)
           = IF ~TradingEnabled(disable_flags, is_buy) THEN NotPriced("TradingDisabled")
             ELSE IF AmmFeeBps(Now).err # OK THEN NotPriced(AmmFeeBps(Now).err)
             ELSE IF is_buy THEN HopBuy(n, TradeBps(AllLegs), Effective, base_vault)
             ELSE HopSell(n, TradeBps(AllLegs), Now)
<1>1. pool.canonical = TRUE
  BY DEF Settings, OpenPool
<1>2. PoolContext(pool, base_vault, quote_vault, MintSupply) = Now
  BY DEF Now
<1>3. LegBps(AmmFeeBps(Now).fees, AllLegs) = TradeBps(AllLegs)
  BY <1>2 DEF TradeBps
<1>4. Now.err = OK /\ HasReserves(Now) /\ Now.quote_reserve = Effective
  BY LiveContext
<1> QED BY <1>1, <1>2, <1>3, <1>4 DEF MultiHopPoolHop

(* A buying hop against the plain buys of the same pool. *)
LEMMA HopBuysPlainly ==
  ASSUME Inv, Settings, ~pool.is_mayhem_mode, ~pool.is_cashback_coin, NEW n \in Nat
  PROVE  LET t     == MultiHopPoolHop(disable_flags, pool, base_vault, quote_vault, MintSupply,
                                      TRUE, n, AllLegs)
             plain == BuyQuoteInput(disable_flags, Now, n)
             cost  == BuyBaseInput(disable_flags, Now, t.base)
         IN  /\ plain.err = OK => t.err = OK /\ plain.base <= t.base
             /\ t.err = OK => t.base \in Nat
             /\ (t.err = OK /\ SumOf(TradeBps(AllLegs)) <= BPS) =>
                  cost.err = OK /\ cost.raw + SumOf(cost.fees) <= n
<1> DEFINE t     == MultiHopPoolHop(disable_flags, pool, base_vault, quote_vault, MintSupply,
                                    TRUE, n, AllLegs)
           plain == BuyQuoteInput(disable_flags, Now, n)
           cost  == BuyBaseInput(disable_flags, Now, t.base)
           e     == Effective
           b     == base_vault
           bps   == TradeBps(AllLegs)
           split == ExactInFeeAmounts(n, bps)
           hop   == HopBuy(n, bps, e, b)
<1> SUFFICES /\ plain.err = OK => t.err = OK /\ plain.base <= t.base
             /\ t.err = OK => t.base \in Nat
             /\ (t.err = OK /\ SumOf(bps) <= BPS) =>
                  cost.err = OK /\ cost.raw + SumOf(cost.fees) <= n
  BY Zenon
<1>1. /\ e \in Nat /\ e > 0 /\ b \in Nat /\ b > 0 /\ bps \in FeeTriple
      /\ Now.base_reserve = b /\ Now.quote_reserve = e /\ HasReserves(Now)
      /\ AmmBps(AmmFeeBps(Now).fees) = bps
  BY PoolNumbers, TradeBpsType, LiveContext, AllLegsBps
<1>2. t = IF ~TradingEnabled(disable_flags, TRUE) THEN NotPriced("TradingDisabled")
          ELSE IF AmmFeeBps(Now).err # OK THEN NotPriced(AmmFeeBps(Now).err)
          ELSE hop
  BY LiveHop
<1> HIDE DEF e, b, bps, t
<1>3. t.err = OK => /\ TradingEnabled(disable_flags, TRUE) /\ AmmFeeBps(Now).err = OK
                    /\ t = hop /\ hop.err = OK
  <2> HIDE DEF hop
  <2> QED BY <1>2 DEF NotPriced, OK
<1>4. ASSUME plain.err = OK PROVE t.err = OK /\ plain.base <= t.base
  <2> DEFINE x == SwapExactInput(split.net - 1, e, b).val
  <2>1. /\ TradingEnabled(disable_flags, TRUE) /\ AmmFeeBps(Now).err = OK
        /\ split.err = OK /\ x # 0 /\ plain.base = x
    BY <1>1, <1>4 DEF BuyQuoteInput, NotPriced, Priced, OK
  <2>2. hop.err = OK /\ x <= hop.base
    BY <1>1, <2>1, HopBuyIsNoWorse
  <2> HIDE DEF x, hop, plain
  <2> QED BY <1>2, <2>1, <2>2
<1>5. ASSUME t.err = OK PROVE t.base \in Nat
  <2>1. hop.base \in Nat
    <3> DEFINE net == n - SumOf(split.fees)
    <3>1. split.err = OK /\ ~ (net <= 0) /\ hop.base = SwapExactInput(net - 1, e, b).val
      BY <1>3, <1>5 DEF HopBuy, NotPriced, Priced, OK
    <3>2. split.fees \in FeeTriple
      BY <1>1, <3>1, ExactInSplit DEF FeeTriple
    <3> HIDE DEF split
    <3>3. net \in Nat /\ net > 0
      BY <3>1, <3>2 DEF SumOf, FeeTriple
    <3> HIDE DEF net, hop
    <3> QED BY <1>1, <3>1, <3>3, SwapMonotone
  <2> QED BY <1>3, <1>5, <2>1
<1>6. ASSUME t.err = OK, SumOf(bps) <= BPS
      PROVE  cost.err = OK /\ cost.raw + SumOf(cost.fees) <= n
  <2> DEFINE out == t.base
             raw == CeilDiv(e * out, b - out)
  <2>1. out \in Nat /\ out < b /\ raw + SumOf(ThreeFees(raw, bps)) <= n
    <3> HIDE DEF hop
    <3>1. LET o == hop.base
              r == CeilDiv(e * o, b - o)
          IN  o \in Nat /\ o < b /\ r + SumOf(ThreeFees(r, bps)) <= n
      BY <1>1, <1>3, <1>6, HopBuyIsAffordable DEF hop
    <3> QED BY <1>3, <1>6, <3>1
  <2>2. cost = Priced(raw, out, ThreeFees(raw, bps))
    <3>1. ~ (out >= b)
      BY <1>1, <2>1
    <3> HIDE DEF out
    <3> QED BY <1>1, <1>3, <1>6, <3>1 DEF BuyBaseInput, out
  <2> HIDE DEF out, raw, cost
  <2> QED BY <2>1, <2>2 DEF Priced
<1> HIDE DEF plain, cost
<1> QED BY <1>4, <1>5, <1>6

(* A selling hop is the plain sale, except that it refuses to pay nothing.   *)
LEMMA HopSellsPlainly ==
  ASSUME Inv, Settings, ~pool.is_mayhem_mode, ~pool.is_cashback_coin, NEW n \in Nat
  PROVE  LET t     == MultiHopPoolHop(disable_flags, pool, base_vault, quote_vault, MintSupply,
                                      FALSE, n, AllLegs)
             plain == SellBaseInput(disable_flags, Now, n)
         IN  /\ (plain.err = OK /\ FinalOut(plain) > 0) <=> t.err = OK
             /\ t.err = OK => FinalOut(t) = FinalOut(plain)
<1> DEFINE t     == MultiHopPoolHop(disable_flags, pool, base_vault, quote_vault, MintSupply,
                                    FALSE, n, AllLegs)
           plain == SellBaseInput(disable_flags, Now, n)
           bps   == TradeBps(AllLegs)
           raw   == (Effective * n) \div (base_vault + n)
           fees  == ThreeFees(raw, bps)
           hop   == HopSell(n, bps, Now)
<1> SUFFICES /\ (plain.err = OK /\ FinalOut(plain) > 0) <=> t.err = OK
             /\ t.err = OK => FinalOut(t) = FinalOut(plain)
  BY Zenon
<1>1. /\ Now.base_reserve = base_vault /\ Now.quote_reserve = Effective
      /\ Now.real_quote_reserve = Real /\ HasReserves(Now)
      /\ AmmBps(AmmFeeBps(Now).fees) = bps /\ bps \in FeeTriple
  BY LiveContext, AllLegsBps, TradeBpsType
<1>2. t = IF ~TradingEnabled(disable_flags, FALSE) THEN NotPriced("TradingDisabled")
          ELSE IF AmmFeeBps(Now).err # OK THEN NotPriced(AmmFeeBps(Now).err)
          ELSE hop
  BY LiveHop
<1>3. raw \in Nat
  BY ProceedsGood
<1>4. SellQuote(base_vault, Effective, n).err = OK /\ SellQuote(base_vault, Effective, n).val = raw
  <2> DEFINE e == Effective
             b == base_vault
  <2>1. e \in Nat /\ b \in Nat /\ b > 0
    BY PoolNumbers
  <2> HIDE DEF e, b
  <2>2. n * e = e * n /\ b + n # 0
    BY <2>1
  <2>3. SellQuote(b, e, n).err = OK /\ SellQuote(b, e, n).val = (e * n) \div (b + n)
    BY <2>2 DEF SellQuote, MulDiv, Ok
  <2> QED BY <2>3 DEF e, b
<1> HIDE DEF raw, bps
<1>5. fees[1] \in Nat /\ SumOf(fees) \in Nat /\ fees[1] <= SumOf(fees)
  <2>1. fees \in FeeTriple
    BY <1>1, <1>3, ThreeFeesType
  <2> HIDE DEF fees
  <2> QED BY <2>1 DEF SumOf, FeeTriple
<1>6. plain = IF ~TradingEnabled(disable_flags, FALSE) THEN NotPriced("TradingDisabled")
              ELSE IF AmmFeeBps(Now).err # OK THEN NotPriced(AmmFeeBps(Now).err)
              ELSE IF raw < SumOf(fees) THEN NotPriced("FeesExceedOutput")
              ELSE IF Real < raw - fees[1] THEN NotPriced("InsufficientRealQuoteReserves")
              ELSE Priced(raw, n, fees)
  BY <1>1, Zenon DEF SellBaseInput, raw
<1>7. hop = IF raw < fees[1] THEN NotPriced("FeesExceedOutput")
            ELSE IF Real < raw - fees[1] THEN NotPriced("InsufficientRealQuoteReserves")
            ELSE IF raw < SumOf(fees) THEN NotPriced("FeesExceedOutput")
            ELSE IF raw = SumOf(fees) THEN NotPriced("ZeroAmount")
            ELSE Priced(raw, n, fees)
  BY <1>1, <1>4, Zenon DEF HopSell
<1> HIDE DEF fees, hop, plain, t
<1>8. /\ Priced(raw, n, fees).err = OK
      /\ FinalOut(Priced(raw, n, fees)) = raw - SumOf(fees)
      /\ NotPriced("TradingDisabled").err # OK /\ NotPriced("FeesExceedOutput").err # OK
      /\ NotPriced("InsufficientRealQuoteReserves").err # OK /\ NotPriced("ZeroAmount").err # OK
      /\ AmmFeeBps(Now).err # OK => NotPriced(AmmFeeBps(Now).err).err # OK
  BY DEF Priced, NotPriced, FinalOut, OK
<1>9. CASE TradingEnabled(disable_flags, FALSE) /\ AmmFeeBps(Now).err = OK /\ raw >= SumOf(fees)
           /\ ~ (Real < raw - fees[1])
  <2>1. plain = Priced(raw, n, fees)
    BY <1>3, <1>5, <1>6, <1>9
  <2>2. t = IF raw = SumOf(fees) THEN NotPriced("ZeroAmount") ELSE Priced(raw, n, fees)
    BY <1>2, <1>3, <1>5, <1>7, <1>9
  <2>3. (raw - SumOf(fees) > 0) <=> raw # SumOf(fees)
    BY <1>3, <1>5, <1>9
  <2> QED BY <1>8, <2>1, <2>2, <2>3
<1>10. CASE ~ (TradingEnabled(disable_flags, FALSE) /\ AmmFeeBps(Now).err = OK
               /\ raw >= SumOf(fees) /\ ~ (Real < raw - fees[1]))
  <2>0. (raw >= SumOf(fees)) <=> ~ (raw < SumOf(fees))
    BY <1>3, <1>5
  <2>1. plain.err # OK
    BY <1>6, <1>8, <1>10, <2>0, Zenon
  <2>2. t.err # OK
    BY <1>2, <1>7, <1>8, <1>10, <2>0, Zenon
  <2> QED BY <2>1, <2>2
<1> QED BY <1>9, <1>10

(* What a one-hop route is quoted at, and what the plain trade is. *)
LEMMA QuotesOfHop ==
  ASSUME Inv, NEW n \in Nat, n > 0, NEW is_buy \in BOOLEAN
  PROVE  LET t == MultiHopPoolHop(disable_flags, pool, base_vault, quote_vault, MintSupply,
                                  is_buy, n, AllLegs)
             q == QuoteMultiHopSwap(disable_flags, "user",
                                    <<PoolHop(pool, base_vault, quote_vault, MintSupply)>>,
                                    is_buy, n, 0)
         IN  /\ q.err = t.err
             /\ q.amount = IF t.err # OK THEN 0 ELSE IF is_buy THEN t.base ELSE FinalOut(t)
<1> DEFINE t == MultiHopPoolHop(disable_flags, pool, base_vault, quote_vault, MintSupply,
                                is_buy, n, AllLegs)
           h == PoolHop(pool, base_vault, quote_vault, MintSupply)
           q == QuoteMultiHopSwap(disable_flags, "user", <<h>>, is_buy, n, 0)
           o == HopOut(disable_flags, h, "user", is_buy, n, AllLegs)
<1>1. o.err = t.err /\ o.val = IF is_buy THEN t.base ELSE FinalOut(t)
  <2>1. /\ h.kind = "Pool" /\ h.venue = pool /\ h.base = base_vault /\ h.quote = quote_vault
        /\ h.supply = MintSupply
    BY DEF PoolHop
  <2> HIDE DEF h
  <2>2. o = [err |-> t.err, val |-> IF is_buy THEN t.base ELSE FinalOut(t)]
    BY <2>1, Zenon DEF HopOut
  <2> HIDE DEF o, t
  <2> QED BY <2>2
<1>2. SaysHop(q, n, o, 0)
  <2> HIDE DEF h
  <2> QED BY OneHop
<1> HIDE DEF t, q, o
<1>3. /\ q.err = t.err
      /\ q.amount = IF t.err # OK THEN 0 ELSE IF is_buy THEN t.base ELSE FinalOut(t)
  BY <1>1, <1>2 DEF SaysHop, NoQuote, Quote, OK
<1> QED BY <1>3 DEF t, q, h

(* What the plain trades of the same amount are quoted at.                   *)
LEMMA QuotesOfPlain ==
  ASSUME Inv, NEW n
  PROVE  LET bought == BuyQuoteInput(disable_flags, Now, n)
             sold   == SellBaseInput(disable_flags, Now, n)
             buy    == BuyQuoteAmmSolIn(disable_flags, Now, n, 0)
             sell   == SellQuoteAmm(disable_flags, Now, n, 0)
         IN  /\ buy.err = bought.err
             /\ buy.amount = IF bought.err # OK THEN 0 ELSE bought.base
             /\ sell.err = sold.err
             /\ sell.amount = IF sold.err # OK THEN 0 ELSE FinalOut(sold)
<1> DEFINE bought == BuyQuoteInput(disable_flags, Now, n)
           sold   == SellBaseInput(disable_flags, Now, n)
           buy    == BuyQuoteAmmSolIn(disable_flags, Now, n, 0)
           sell   == SellQuoteAmm(disable_flags, Now, n, 0)
<1>1. Now.err = OK
  BY LiveContext
<1>2. /\ buy = IF bought.err # OK THEN NoQuote(bought.err)
               ELSE Quote(OK, bought.base, SubSlippage(bought.base, 0), n, AddSlippage(n, 0))
      /\ sell = IF sold.err # OK THEN NoQuote(sold.err)
                ELSE Quote(OK, FinalOut(sold), SubSlippage(FinalOut(sold), 0), n, n)
  BY <1>1, Zenon DEF BuyQuoteAmmSolIn, SellQuoteAmm
<1> HIDE DEF bought, sold, buy, sell
<1>3. /\ buy.err = bought.err
      /\ buy.amount = IF bought.err # OK THEN 0 ELSE bought.base
      /\ sell.err = sold.err
      /\ sell.amount = IF sold.err # OK THEN 0 ELSE FinalOut(sold)
  BY <1>2 DEF NoQuote, Quote, OK
<1> QED BY <1>3 DEF bought, sold, buy, sell

(* On every reachable pool a route of one hop is the plain trade, up to the  *)
(* one unit of the budget an exact-in buy may leave unspent.                 *)
THEOREM OneHopIsThePlainTrade == Spec => []OneHopIsPlain
<1>1. ASSUME Inv, Settings PROVE OneHopIsPlain
  <2> SUFFICES
        ASSUME NEW n \in Amounts, ~pool.is_mayhem_mode, ~pool.is_cashback_coin, n > 0,
               NEW buy \in {QuoteMultiHopSwap(disable_flags, "user",
                              <<PoolHop(pool, base_vault, quote_vault, MintSupply)>>, TRUE, n, 0)},
               NEW sell \in {QuoteMultiHopSwap(disable_flags, "user",
                               <<PoolHop(pool, base_vault, quote_vault, MintSupply)>>, FALSE, n, 0)},
               NEW plain_buy \in {BuyQuoteAmmSolIn(disable_flags, Now, n, 0)},
               NEW plain_sell \in {SellQuoteAmm(disable_flags, Now, n, 0)},
               NEW cost \in {BuyBaseInput(disable_flags, Now, buy.amount)}
        PROVE  /\ plain_buy.err = OK => buy.err = OK
               /\ buy.amount >= plain_buy.amount
               /\ (buy.err = OK /\ SumOf(TradeBps(AllLegs)) <= BPS) =>
                    cost.err = OK /\ cost.raw + SumOf(cost.fees) <= n
               /\ (plain_sell.err = OK /\ plain_sell.amount > 0) = (sell.err = OK)
               /\ sell.err = OK => sell.amount = plain_sell.amount
    BY Zenon DEF OneHopIsPlain
  <2> DEFINE b == MultiHopPoolHop(disable_flags, pool, base_vault, quote_vault, MintSupply,
                                  TRUE, n, AllLegs)
             s == MultiHopPoolHop(disable_flags, pool, base_vault, quote_vault, MintSupply,
                                  FALSE, n, AllLegs)
             bought == BuyQuoteInput(disable_flags, Now, n)
             sold == SellBaseInput(disable_flags, Now, n)
             paid == BuyBaseInput(disable_flags, Now, b.base)
  <2>1. n \in Nat
    BY PoolMarketAssumption
  <2>2. /\ buy.err = b.err /\ buy.amount = IF b.err # OK THEN 0 ELSE b.base
        /\ sell.err = s.err /\ sell.amount = IF s.err # OK THEN 0 ELSE FinalOut(s)
    BY <1>1, <2>1, QuotesOfHop
  <2>3. /\ plain_buy.err = bought.err
        /\ plain_buy.amount = IF bought.err # OK THEN 0 ELSE bought.base
        /\ plain_sell.err = sold.err
        /\ plain_sell.amount = IF sold.err # OK THEN 0 ELSE FinalOut(sold)
    BY <1>1, QuotesOfPlain
  <2>4. /\ bought.err = OK => b.err = OK /\ bought.base <= b.base
        /\ b.err = OK => b.base \in Nat
        /\ (b.err = OK /\ SumOf(TradeBps(AllLegs)) <= BPS) =>
             paid.err = OK /\ paid.raw + SumOf(paid.fees) <= n
    BY <1>1, <2>1, HopBuysPlainly
  <2>5. /\ (sold.err = OK /\ FinalOut(sold) > 0) <=> s.err = OK
        /\ s.err = OK => FinalOut(s) = FinalOut(sold)
    BY <1>1, <2>1, HopSellsPlainly
  <2>6. b.err = OK => cost = paid
    BY <2>2
  <2> HIDE DEF b, s, bought, sold, paid
  <2>7. (plain_sell.err = OK /\ plain_sell.amount > 0) <=> sell.err = OK
    BY <2>2, <2>3, <2>5
  <2>8. buy.amount >= plain_buy.amount
    BY <2>2, <2>3, <2>4
  <2>9. sell.err = OK => sell.amount = plain_sell.amount
    BY <2>2, <2>3, <2>5
  <2>10. /\ plain_buy.err = OK => buy.err = OK
         /\ (buy.err = OK /\ SumOf(TradeBps(AllLegs)) <= BPS) =>
              cost.err = OK /\ cost.raw + SumOf(cost.fees) <= n
    BY <2>2, <2>3, <2>4, <2>6
  <2> QED BY <2>7, <2>8, <2>9, <2>10
<1>2. Init => Inv /\ Settings
  BY InitInv, SettingsKept
<1>3. Inv /\ Settings /\ [Next]_amm => Inv' /\ Settings'
  BY NextInv, SettingsKept DEF StepSafe
<1> QED BY <1>1, <1>2, <1>3, PTL DEF Spec
=============================================================================
