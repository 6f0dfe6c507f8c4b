------------------------- MODULE CurveMarketProofs -------------------------
(***************************************************************************)
(* Theorems about CurveMarket for every value of its constants: any supply *)
(* and reserves create_v2 accepts, any fee tables, any flags.              *)
(*                                                                         *)
(* The inductive invariant Inv ties the four places that count tokens and  *)
(* the four that count quote together.  Its heart is Reserves: while the   *)
(* curve is not migrated both virtual reserves differ from the real ones   *)
(* by the creation offsets, and their product never fell below the         *)
(* product at creation.  Selling everything would return the virtual       *)
(* tokens to at most their creation value, hence leave at least the        *)
(* creation quote, which is why the raise always covers a sale.            *)
(***************************************************************************)
EXTENDS CurveMarket, QuoteMathProofs

Reserves ==
  /\ curve.virtual_token_reserves = curve.real_token_reserves
       + (Global.initial_virtual_token_reserves - Global.initial_real_token_reserves)
  /\ curve.virtual_quote_reserves = curve.real_quote_reserves + InitialQuote
  /\ Global.initial_virtual_token_reserves * InitialQuote
       <= curve.virtual_quote_reserves * curve.virtual_token_reserves
  /\ base_ata = curve.real_token_reserves + (Supply - Global.initial_real_token_reserves)
                  - curve.post_complete_base_out + donated
  /\ pool = NoPool

Flags ==
  /\ curve.token_total_supply = Supply
  /\ curve.real_token_reserves <= Global.initial_real_token_reserves
  /\ curve.complete <=> curve.real_token_reserves = 0
  /\ ~curve.complete => curve.post_complete_base_out = 0 /\ curve.post_complete_quote_in = 0
  /\ pool.open => curve.complete

Inv == TypeOK /\ Flags /\ (~pool.open => Reserves) /\ Conserved /\ Backed

-----------------------------------------------------------------------------
(* Fees and fills *)

(* curve_fee_bps: the rates of a curve that is not migrated are naturals. *)
LEMMA CurveFeeBpsType ==
  ASSUME NEW c \in BondingCurve, c.virtual_token_reserves > 0
  PROVE  CurveFeeBps(c, MintSupply).fees \in Fees
<1> DEFINE cap == MarketCap(CurveTierSupply(c, MintSupply),
                            c.virtual_quote_reserves, c.virtual_token_reserves)
           r == ComputeFeeBps(Global.creator_fee_configurable, FeeConfig, TRUE, c.quote_mint,
                              c.creator_fee_bps, cap)
<1>1. CurveTierSupply(c, MintSupply) \in Nat
  BY GlobalAssumption DEF CurveTierSupply, MintSupply, Supply, BondingCurve
<1>2. cap \in Nat
  <2>1. /\ c.virtual_quote_reserves \in Nat
        /\ c.virtual_token_reserves \in Nat
    BY DEF BondingCurve
  <2> QED BY <1>1, <2>1, DivBounds DEF MarketCap
<1>3. r.fees \in Fees
  <2>1. c.creator_fee_bps \in Nat
    BY DEF BondingCurve
  <2> HIDE DEF cap
  <2> QED BY <1>2, <2>1, FeeConfigAssumption, ComputeFeeBpsType
<1>4. CurveFeeBps(c, MintSupply).fees
        = [r.fees EXCEPT !.creator_fee_bps = IF c.creator = DEFAULT_KEY THEN 0 ELSE @]
  BY DEF CurveFeeBps
<1> HIDE DEF r
<1> QED BY <1>3, <1>4 DEF Fees

(* What every successful buy of a curve that is still trading moves. *)
GoodBuy(c, ata, f) ==
  /\ f.curve_tokens \in Nat /\ f.curve_quote \in Nat
  /\ f.pool_tokens \in Nat /\ f.pool_quote \in Nat
  /\ f.fee \in Nat /\ f.creator_fee \in Nat
  /\ f.curve_tokens <= c.real_token_reserves
  /\ TokensOf(f) <= ata
  /\ f.curve_tokens # c.real_token_reserves => f.pool_tokens = 0 /\ f.pool_quote = 0
  /\ c.virtual_quote_reserves * c.virtual_token_reserves
       <= (c.virtual_quote_reserves + f.curve_quote)
            * (c.virtual_token_reserves - f.curve_tokens)
  /\ ~c.complete

(* A curve a buy can be applied to. *)
Buyable(c, ata) ==
  /\ c \in BondingCurve /\ ata \in Nat
  /\ c.real_token_reserves < c.virtual_token_reserves
  /\ c.real_token_reserves <= ata

(* buy_quote: a positive cost, rounded up. *)
LEMMA BuyQuoteGood ==
  ASSUME NEW c \in BondingCurve, NEW amount \in Nat, BuyQuote(c, amount).err = OK
  PROVE  /\ BuyQuote(c, amount).val \in Nat
         /\ amount < c.virtual_token_reserves
         /\ c.virtual_quote_reserves * c.virtual_token_reserves
              <= (c.virtual_quote_reserves + BuyQuote(c, amount).val)
                   * (c.virtual_token_reserves - amount)
<1> DEFINE q == c.virtual_quote_reserves
           t == c.virtual_token_reserves
           d == (amount * q) \div (t - amount)
<1>1. q \in Nat /\ t \in Nat
  BY DEF BondingCurve
<1>2. amount < t /\ BuyQuote(c, amount).val = d + 1
  BY <1>1 DEF BuyQuote, Err, Ok, OK
<1> HIDE DEF q, t
<1>3. d \in Nat /\ amount * q < (t - amount) * d + (t - amount)
  <2> DEFINE a == amount * q
             b == t - amount
  <2>1. a \in Nat /\ b \in Nat /\ b > 0
    BY <1>1, <1>2
  <2> HIDE DEF a, b
  <2>2. a \div b \in Nat /\ a < b * (a \div b) + b
    BY <2>1, DivBounds
  <2> QED BY <2>2 DEF a, b
<1>4. amount * q <= (d + 1) * (t - amount)
  BY <1>1, <1>2, <1>3
<1> HIDE DEF d
<1>5. q * t <= (q + (d + 1)) * (t - amount)
  BY <1>1, <1>2, <1>3, <1>4, BuyKeepsProduct
<1> QED BY <1>2, <1>3, <1>5 DEF q, t

(* Fees of a cost, as naturals. *)
LEMMA FeesOfCost ==
  ASSUME NEW fees \in Fees, NEW amount \in Nat
  PROVE  ProtocolFee(amount, fees) \in Nat /\ CreatorFee(amount, fees) \in Nat
BY FeeAmountNat DEF ProtocolFee, CreatorFee, Fees

(* pool_to_be: what is left of the ATA and of the raise, both positive. *)
LEMMA PoolToBeGood ==
  ASSUME NEW c \in BondingCurve, NEW ata \in Nat, NEW t \in Nat, NEW q \in Nat,
         PoolToBe(c, ata, t, q).err = OK
  PROVE  LET p == PoolToBe(c, ata, t, q)
         IN  /\ p.base \in Nat /\ p.base > 0 /\ p.base = ata - t
             /\ p.quote \in Nat /\ p.quote > 0
BY GlobalAssumption, U64Assumption DEF PoolToBe, OK, BondingCurve

(* buy_v2 and buy_v3. *)
LEMMA BuyFillGood ==
  ASSUME NEW c, NEW ata, Buyable(c, ata), NEW amount \in Nat, NEW v,
         BuyFill(c, ata, amount, v).err = OK
  PROVE  GoodBuy(c, ata, BuyFill(c, ata, amount, v))
<1> DEFINE remaining == c.real_token_reserves
           tokens    == Least(amount, remaining)
           bps       == CurveFeeBps(c, MintSupply)
           cost      == BuyQuote(c, tokens)
           ptb       == PoolToBe(c, ata, remaining, cost.val)
           past      == amount - remaining
           leg       == CeilDiv(ptb.quote * past, ptb.base - past)
           f         == BuyFill(c, ata, amount, v)
<1>1. c \in BondingCurve /\ ata \in Nat /\ remaining \in Nat /\ c.virtual_token_reserves \in Nat
      /\ c.virtual_token_reserves > 0 /\ remaining <= ata
  BY DEF Buyable, BondingCurve
<1>2. tokens \in Nat /\ tokens <= remaining
  BY <1>1 DEF Least
<1>3. bps.fees \in Fees
  BY <1>1, CurveFeeBpsType
<1>4. ~c.complete /\ cost.err = OK
  BY DEF BuyFill, NoFill, Fill, OK, CurveOpen
<1>5. /\ cost.val \in Nat
      /\ c.virtual_quote_reserves * c.virtual_token_reserves
           <= (c.virtual_quote_reserves + cost.val) * (c.virtual_token_reserves - tokens)
  <2> HIDE DEF tokens
  <2> QED BY <1>1, <1>2, <1>4, BuyQuoteGood
<1> HIDE DEF cost, bps, tokens
<1>6. ProtocolFee(cost.val, bps.fees) \in Nat /\ CreatorFee(cost.val, bps.fees) \in Nat
  BY <1>3, <1>5, FeesOfCost
<1>7. CASE v = 2 \/ c.is_mayhem_mode \/ amount <= remaining
  <2>1. f = Fill(OK, tokens, cost.val, 0, 0,
                 ProtocolFee(cost.val, bps.fees), CreatorFee(cost.val, bps.fees))
    BY <1>7 DEF BuyFill, NoFill, Fill, OK, CurveOpen, cost, bps, tokens
  <2> QED BY <1>1, <1>2, <1>4, <1>5, <1>6, <2>1 DEF GoodBuy, Fill, TokensOf
<1>8. CASE ~ (v = 2 \/ c.is_mayhem_mode \/ amount <= remaining)
  <2>1. tokens = remaining /\ past \in Nat /\ past > 0
    BY <1>1, <1>8 DEF tokens, Least
  <2>2. ptb.err = OK /\ ~ (ptb.base <= past)
    BY <1>8 DEF BuyFill, NoFill, Fill, OK, CurveOpen, cost, bps, tokens
  <2>3. f = Fill(OK, tokens, cost.val, past, leg,
                 ProtocolFee(cost.val, bps.fees) + ProtocolFee(leg, bps.fees),
                 CreatorFee(cost.val, bps.fees) + CreatorFee(leg, bps.fees))
    BY <1>8 DEF BuyFill, NoFill, Fill, OK, CurveOpen, cost, bps, tokens
  <2>4. ptb.base = ata - remaining /\ ptb.base \in Nat /\ ptb.quote \in Nat
    BY <1>1, <1>5, <2>2, PoolToBeGood
  <2> HIDE DEF ptb
  <2>5. leg \in Nat
    <3>1. ptb.base - past \in Nat /\ ptb.base - past > 0
      BY <2>1, <2>2, <2>4
    <3>2. ptb.quote * past \in Nat
      BY <2>1, <2>4
    <3> DEFINE b == ptb.base - past
               a == ptb.quote * past
    <3> HIDE DEF a, b
    <3>3. (a + b - 1) \div b \in Nat
      <4>1. a + b - 1 \in Nat
        BY <3>1, <3>2 DEF a, b
      <4> QED BY <3>1, <4>1, DivBounds DEF b
    <3> QED BY <3>3 DEF CeilDiv, a, b
  <2> HIDE DEF leg
  <2>6. ProtocolFee(leg, bps.fees) \in Nat /\ CreatorFee(leg, bps.fees) \in Nat
    BY <1>3, <2>5, FeesOfCost
  <2>7. tokens + past <= ata
    BY <1>1, <2>1, <2>2, <2>4
  <2> HIDE DEF past
  <2> QED BY <1>1, <1>2, <1>4, <1>5, <1>6, <2>1, <2>3, <2>5, <2>6, <2>7 
          DEF GoodBuy, Fill, TokensOf
<1> QED BY <1>7, <1>8

(* post_complete_leg_exact_quote never empties the pool-to-be. *)
LEMMA LegGood ==
  ASSUME NEW p, p.base \in Nat, p.base > 0, p.quote \in Nat, p.quote > 0,
         NEW fees \in Fees, NEW budget \in Nat,
         PostCompleteLegExactQuote(p, fees, budget, FALSE).err = OK
  PROVE  LET leg == PostCompleteLegExactQuote(p, fees, budget, FALSE)
         IN  /\ leg.base_out \in Nat /\ leg.base_out < p.base
             /\ leg.quote_in \in Nat /\ leg.fee \in Nat /\ leg.creator_fee \in Nat
<1> DEFINE split    == ExactInFeeAmounts(budget, CurveBps(fees))
           out      == SwapExactInput(split.net - 1, p.quote, p.base)
           nothing  == [err |-> OK, base_out |-> 0, quote_in |-> 0, fee |-> 0, creator_fee |-> 0]
           full     == [err |-> OK, base_out |-> out.val, quote_in |-> split.net,
                        fee |-> split.fees[1], creator_fee |-> split.fees[2]]
           leg      == PostCompleteLegExactQuote(p, fees, budget, FALSE)
<1>1. leg = nothing \/ (leg = full /\ split.err = OK)
  BY DEF PostCompleteLegExactQuote, OK
<1> SUFFICES /\ leg.base_out \in Nat /\ leg.base_out < p.base
             /\ leg.quote_in \in Nat /\ leg.fee \in Nat /\ leg.creator_fee \in Nat
  BY Zenon
<1> HIDE DEF leg
<1>2. CASE leg = nothing
  BY <1>2
<1>3. CASE leg = full /\ split.err = OK
  <2>1. CurveBps(fees) \in Nat \X Nat \X Nat
    BY DEF CurveBps, Fees
  <2>2. split.net \in Nat /\ split.net > 0 /\ split.fees \in Nat \X Nat \X Nat
    BY <1>3, <2>1, ExactInSplit
  <2> HIDE DEF split
  <2>3. split.net - 1 \in Nat
    BY <2>2
  <2>4. out.val = ((split.net - 1) * p.base) \div (p.quote + (split.net - 1))
    BY <2>3 DEF SwapExactInput, MulDiv, Ok
  <2>5. out.val \in Nat /\ out.val < p.base
    <3> DEFINE n == split.net - 1
               b == p.base
               q == p.quote
    <3>1. n \in Nat /\ b \in Nat /\ b > 0 /\ q \in Nat /\ q > 0
      BY <2>3
    <3>2. out.val = (n * b) \div (q + n)
      BY <2>4
    <3> HIDE DEF n, b, q
    <3>3. (n * b) \div (q + n) \in Nat /\ (n * b) \div (q + n) < b
      BY <3>1, SwapLeavesReserve
    <3> HIDE DEF out
    <3>4. out.val \in Nat /\ out.val < b
      BY <3>2, <3>3
    <3> QED BY <3>4 DEF b
  <2> HIDE DEF out
  <2> QED BY <1>3, <2>2, <2>5
<1> QED BY <1>1, <1>2, <1>3

(* buy_exact_quote_in_v2 and buy_exact_quote_in_v3. *)
LEMMA BuyExactInFillGood ==
  ASSUME NEW c, NEW ata, Buyable(c, ata), NEW budget \in Nat, NEW v,
         BuyExactInFill(c, ata, budget, v).err = OK
  PROVE  GoodBuy(c, ata, BuyExactInFill(c, ata, budget, v))
<1> DEFINE remaining == c.real_token_reserves
           q         == c.virtual_quote_reserves
           t         == c.virtual_token_reserves
           bps       == CurveFeeBps(c, MintSupply)
           split     == ExactInFeeAmounts(budget, CurveBps(bps.fees))
           tokens    == SwapExactInput(split.net - 1, q, t)
           cost      == BuyQuote(c, remaining)
           fee       == ProtocolFee(cost.val, bps.fees)
           creator   == CreatorFee(cost.val, bps.fees)
           left      == budget - (cost.val + fee + creator)
           ptb       == PoolToBe(c, ata, remaining, cost.val)
           leg       == PostCompleteLegExactQuote(ptb, bps.fees, left, FALSE)
           f         == BuyExactInFill(c, ata, budget, v)
<1>1. /\ c \in BondingCurve /\ ata \in Nat /\ remaining \in Nat /\ t \in Nat /\ q \in Nat
      /\ remaining < t /\ t > 0 /\ remaining <= ata
  BY DEF Buyable, BondingCurve
<1>2. bps.fees \in Fees
  BY <1>1, CurveFeeBpsType
<1>3. ~c.complete /\ split.err = OK /\ tokens.val # 0
  BY DEF BuyExactInFill, NoFill, Fill, OK, CurveOpen
<1> HIDE DEF bps
<1>4. split.net \in Nat /\ split.net > 0 /\ split.fees \in Nat \X Nat \X Nat
  <2>1. CurveBps(bps.fees) \in Nat \X Nat \X Nat
    BY <1>2 DEF CurveBps, Fees
  <2> QED BY <1>3, <2>1, ExactInSplit
<1>5. CASE tokens.val <= remaining
  <2>1. f = Fill(OK, tokens.val, split.net, 0, 0, split.fees[1], split.fees[2])
    BY <1>3, <1>5 DEF BuyExactInFill, NoFill, Fill, OK, CurveOpen, bps
  <2> HIDE DEF split
  <2>2. split.net - 1 \in Nat
    BY <1>4
  <2> DEFINE n == split.net - 1
  <2>3. q + n > 0 /\ tokens.val = (n * t) \div (q + n)
    BY <1>1, <1>3, <2>2 DEF SwapExactInput, MulDiv, Ok, Err
  <2> HIDE DEF n, tokens, q, t
  <2>4. n \in Nat /\ n * t \in Nat /\ q + n \in Nat
    BY <1>1, <2>2 DEF n
  <2>5. tokens.val \in Nat /\ (q + n) * tokens.val <= n * t
    BY <2>3, <2>4, DivBounds
  <2>6. tokens.val <= t
    BY <1>1, <1>5, <2>5
  <2>7. tokens.val * (q + n) <= n * t
    BY <1>1, <2>4, <2>5
  <2>8. q * t <= (q + (n + 1)) * (t - tokens.val)
    BY <1>1, <2>4, <2>5, <2>6, <2>7, ExactInKeepsProduct
  <2>9. n + 1 = split.net
    BY <1>4 DEF n
  <2>10. q * t <= (q + split.net) * (t - tokens.val)
    BY <2>8, <2>9
  <2> QED BY <1>1, <1>3, <1>4, <1>5, <2>1, <2>5, <2>10 DEF GoodBuy, Fill, TokensOf, q, t
<1>6. CASE ~ (tokens.val <= remaining)
  <2>1. cost.err = OK /\ ~ (left < 0)
    BY <1>3, <1>6 DEF BuyExactInFill, NoFill, Fill, OK, CurveOpen, bps
  <2>2. /\ cost.val \in Nat
        /\ q * t <= (q + cost.val) * (t - remaining)
    BY <1>1, <2>1, BuyQuoteGood
  <2> HIDE DEF cost
  <2>3. fee \in Nat /\ creator \in Nat
    BY <1>2, <2>2, FeesOfCost
  <2>4. left \in Nat
    <3> HIDE DEF fee, creator
    <3> QED BY <2>1, <2>2, <2>3
  <2>5. CASE v = 2 \/ c.is_mayhem_mode \/ left = 0
    <3>1. f = Fill(OK, remaining, cost.val, 0, 0, fee, creator)
      BY <1>3, <1>6, <2>1, <2>5 DEF BuyExactInFill, NoFill, Fill, OK, CurveOpen, bps, cost
    <3> HIDE DEF fee, creator
    <3> QED BY <1>1, <1>3, <2>2, <2>3, <3>1 DEF GoodBuy, Fill, TokensOf
  <2>6. CASE ~ (v = 2 \/ c.is_mayhem_mode \/ left = 0)
    <3>1. ptb.err = OK /\ leg.err = OK
      BY <1>3, <1>6, <2>1, <2>6 DEF BuyExactInFill, NoFill, Fill, OK, CurveOpen, bps, cost
    <3>2. f = Fill(OK, remaining, cost.val, leg.base_out, leg.quote_in,
                   fee + leg.fee, creator + leg.creator_fee)
      BY <1>3, <1>6, <2>1, <2>6, <3>1 DEF BuyExactInFill, NoFill, Fill, OK, CurveOpen, bps, cost
    <3>3. /\ ptb.base \in Nat /\ ptb.base > 0 /\ ptb.base = ata - remaining
          /\ ptb.quote \in Nat /\ ptb.quote > 0
      BY <1>1, <2>2, <3>1, PoolToBeGood
    <3> HIDE DEF ptb, left
    <3>4. /\ leg.base_out \in Nat /\ leg.base_out < ptb.base
          /\ leg.quote_in \in Nat /\ leg.fee \in Nat /\ leg.creator_fee \in Nat
      BY <1>2, <2>4, <3>1, <3>3, LegGood
    <3> HIDE DEF leg, fee, creator, q, t
    <3>5. /\ fee + leg.fee \in Nat /\ creator + leg.creator_fee \in Nat
          /\ remaining + leg.base_out <= ata
      BY <1>1, <2>3, <3>3, <3>4
    <3> QED BY <1>1, <1>3, <2>2, <3>2, <3>4, <3>5 DEF GoodBuy, Fill, TokensOf, q, t
  <2> QED BY <2>5, <2>6
<1> QED BY <1>5, <1>6

(* The buyback slice never exceeds the protocol fee, so what a trade keeps   *)
(* and what it pays out are both naturals and add up to its fees.            *)
LEMMA FeesSplit ==
  ASSUME NEW f, f.fee \in Nat, f.creator_fee \in Nat, NEW v
  PROVE  /\ KeptProtocol(f, v) \in Nat /\ KeptCreator(f, v) \in Nat
         /\ FeesPaidOut(f, v) \in Nat
         /\ f.fee + f.creator_fee = KeptProtocol(f, v) + KeptCreator(f, v) + FeesPaidOut(f, v)
<1> DEFINE b == Global.buyback_basis_points
           slice == (f.fee * b) \div BPS
<1>0. b \in Nat /\ b <= BPS
  <2>1. BPS \in Nat
    BY DEF BPS
  <2> QED BY <2>1, GlobalAssumption
<1> HIDE DEF b
<1>1. b \in Nat /\ b <= BPS /\ BPS \in Nat /\ BPS > 0 /\ f.fee * b \in Nat
  BY <1>0 DEF BPS
<1>2. slice \in Nat /\ BPS * slice <= f.fee * b
  BY <1>1, DivBounds
<1>3. f.fee * b <= f.fee * BPS
  BY <1>1
<1>4. slice <= f.fee
  <2> HIDE DEF slice
  <2>1. slice * BPS <= f.fee * BPS
    BY <1>1, <1>2, <1>3 DEF BPS
  <2> QED BY <1>1, <1>2, <2>1, MulCancel
<1> HIDE DEF slice
<1>5. BuybackSlice(f.fee) = slice
  BY DEF BuybackSlice, slice, b
<1>6. KeptProtocol(f, v) \in Nat /\ KeptProtocol(f, v) <= f.fee
  BY <1>2, <1>4, <1>5 DEF KeptProtocol
<1>7. KeptCreator(f, v) \in Nat /\ KeptCreator(f, v) <= f.creator_fee
  BY DEF KeptCreator
<1> QED BY <1>6, <1>7 DEF FeesPaidOut

-----------------------------------------------------------------------------
(* The invariant is inductive *)

(* Traded amounts are natural numbers. *)
LEMMA AmountsNat == Amounts \subseteq Nat
BY MarketAssumption, U64Assumption DEF U64

(* create_v2 establishes it. *)
LEMMA InitInv == Init => Inv
<1> USE GlobalAssumption, MarketAssumption
<1> SUFFICES ASSUME Init PROVE Inv
  OBVIOUS
<1> USE DEF Init, InitialBondingCurve, NoPool
<1>0. Purse \in Nat
  BY U64Assumption DEF U64
<1>1. TypeOK
  <2>1. ResolveQuoteMint(QuoteMint) \in Pubkey
    BY PubkeyAssumption DEF ResolveQuoteMint
  <2> QED BY <1>0, <2>1 DEF TypeOK, BondingCurve, Supply
<1>2. Flags
  BY DEF Flags
<1>3. Reserves
  BY DEF Reserves, Supply
<1>4. Conserved /\ Backed
  BY <1>0 DEF Conserved, Backed, Supply
<1> QED BY <1>1, <1>2, <1>3, <1>4 DEF Inv

(* A curve that is still trading can be bought from. *)
LEMMA TradingCurve ==
  ASSUME Inv, ~curve.complete
  PROVE  Buyable(curve, base_ata) /\ ~pool.open /\ Reserves
<1> USE GlobalAssumption, MarketAssumption
<1>1. ~pool.open /\ Reserves
  BY DEF Inv, Flags
<1> QED BY <1>1 DEF Inv, TypeOK, Flags, Reserves, Buyable, BondingCurve, Supply

(* Every buy preserves the invariant. *)
LEMMA ApplyBuyInv ==
  ASSUME Inv, NEW f, NEW v, GoodBuy(curve, base_ata, f), ApplyBuy(f, v)
  PROVE  Inv'
<1> USE GlobalAssumption, MarketAssumption
<1>1. ~pool.open /\ Reserves
  BY TradingCurve DEF GoodBuy
<1>2. /\ KeptProtocol(f, v) \in Nat /\ KeptCreator(f, v) \in Nat
      /\ FeesPaidOut(f, v) \in Nat
      /\ f.fee + f.creator_fee = KeptProtocol(f, v) + KeptCreator(f, v) + FeesPaidOut(f, v)
  BY FeesSplit DEF GoodBuy
<1>3. /\ f.curve_tokens \in Nat /\ f.curve_quote \in Nat
      /\ f.pool_tokens \in Nat /\ f.pool_quote \in Nat
      /\ f.fee \in Nat /\ f.creator_fee \in Nat
      /\ f.curve_tokens <= curve.real_token_reserves
      /\ f.curve_tokens + f.pool_tokens <= base_ata
      /\ f.curve_tokens # curve.real_token_reserves => f.pool_tokens = 0 /\ f.pool_quote = 0
  BY DEF GoodBuy, TokensOf
<1>4. curve \in BondingCurve
  BY DEF Inv, TypeOK
<1>5. /\ curve'.virtual_token_reserves = curve.virtual_token_reserves - f.curve_tokens
      /\ curve'.real_token_reserves = curve.real_token_reserves - f.curve_tokens
      /\ curve'.virtual_quote_reserves = curve.virtual_quote_reserves + f.curve_quote
      /\ curve'.real_quote_reserves = curve.real_quote_reserves + f.curve_quote
      /\ curve'.complete <=> f.curve_tokens = curve.real_token_reserves
      /\ curve'.protocol_fees = curve.protocol_fees + KeptProtocol(f, v)
      /\ curve'.creator_fee = curve.creator_fee + KeptCreator(f, v)
      /\ curve'.post_complete_base_out = curve.post_complete_base_out + f.pool_tokens
      /\ curve'.post_complete_quote_in = curve.post_complete_quote_in + f.pool_quote
      /\ curve'.token_total_supply = curve.token_total_supply
  BY <1>4 DEF ApplyBuy, BondingCurve
<1>6. /\ base_ata' = base_ata - (f.curve_tokens + f.pool_tokens)
      /\ circulating' = circulating + (f.curve_tokens + f.pool_tokens)
      /\ ChargeOf(f) <= purse
      /\ purse' = purse - ChargeOf(f)
      /\ quote_vault' = quote_vault + (ChargeOf(f) - FeesPaidOut(f, v))
      /\ paid_out' = paid_out + FeesPaidOut(f, v)
      /\ pool' = pool /\ donated' = donated
      /\ ChargeOf(f) = f.curve_quote + f.pool_quote + f.fee + f.creator_fee
  BY DEF ApplyBuy, TokensOf, ChargeOf
<1>7. TypeOK'
  <2>1. curve' \in BondingCurve
    <3>1. /\ curve.virtual_token_reserves - f.curve_tokens \in Nat
          /\ curve.real_token_reserves - f.curve_tokens \in Nat
      BY <1>1, <1>3, <1>4 DEF Reserves, BondingCurve
    <3> DEFINE done == f.curve_tokens = curve.real_token_reserves
    <3>2. done \in BOOLEAN
      OBVIOUS
    <3>3. curve' = [curve EXCEPT
            !.virtual_token_reserves = curve.virtual_token_reserves - f.curve_tokens,
            !.real_token_reserves    = curve.real_token_reserves - f.curve_tokens,
            !.virtual_quote_reserves = curve.virtual_quote_reserves + f.curve_quote,
            !.real_quote_reserves    = curve.real_quote_reserves + f.curve_quote,
            !.complete               = done,
            !.protocol_fees          = curve.protocol_fees + KeptProtocol(f, v),
            !.creator_fee            = curve.creator_fee + KeptCreator(f, v),
            !.post_complete_base_out = curve.post_complete_base_out + f.pool_tokens,
            !.post_complete_quote_in = curve.post_complete_quote_in + f.pool_quote]
      BY DEF ApplyBuy
    <3> HIDE DEF done
    <3>4. /\ curve.virtual_quote_reserves + f.curve_quote \in Nat
          /\ curve.real_quote_reserves + f.curve_quote \in Nat
          /\ curve.protocol_fees + KeptProtocol(f, v) \in Nat
          /\ curve.creator_fee + KeptCreator(f, v) \in Nat
          /\ curve.post_complete_base_out + f.pool_tokens \in Nat
          /\ curve.post_complete_quote_in + f.pool_quote \in Nat
      BY <1>2, <1>3, <1>4 DEF BondingCurve
    <3> QED BY <1>4, <3>1, <3>2, <3>3, <3>4 DEF BondingCurve
  <2>2. /\ base_ata' \in Nat /\ circulating' \in Nat /\ purse' \in Nat
        /\ quote_vault' \in Nat /\ paid_out' \in Nat
        /\ pool' \in [open : BOOLEAN, base : Nat, quote : Nat] /\ donated' \in Nat
    BY <1>2, <1>3, <1>6 DEF Inv, TypeOK
  <2> QED BY <2>1, <2>2 DEF TypeOK
<1>8. Flags'
  <2>1. /\ curve.real_token_reserves \in Nat
        /\ curve.real_token_reserves <= Global.initial_real_token_reserves
        /\ curve.token_total_supply = Supply
        /\ ~curve.complete
        /\ curve.post_complete_base_out = 0 /\ curve.post_complete_quote_in = 0
    BY <1>4 DEF Inv, Flags, GoodBuy, BondingCurve
  <2>2. curve'.real_token_reserves <= Global.initial_real_token_reserves
    BY <1>3, <1>5, <2>1
  <2>3. curve'.complete <=> curve'.real_token_reserves = 0
    BY <1>3, <1>5, <2>1
  <2>4. ~curve'.complete =>
          curve'.post_complete_base_out = 0 /\ curve'.post_complete_quote_in = 0
    BY <1>3, <1>5, <2>1
  <2> QED BY <1>1, <1>5, <1>6, <2>1, <2>2, <2>3, <2>4 DEF Flags
<1>9. Reserves'
  <2>1. Global.initial_virtual_token_reserves * InitialQuote
          <= curve'.virtual_quote_reserves * curve'.virtual_token_reserves
    <3>1. /\ curve.virtual_quote_reserves * curve.virtual_token_reserves
               <= curve'.virtual_quote_reserves * curve'.virtual_token_reserves
          /\ Global.initial_virtual_token_reserves * InitialQuote
               <= curve.virtual_quote_reserves * curve.virtual_token_reserves
      BY <1>1, <1>5 DEF GoodBuy, Reserves
    <3>2. /\ curve.virtual_quote_reserves * curve.virtual_token_reserves \in Int
          /\ curve'.virtual_quote_reserves * curve'.virtual_token_reserves \in Int
          /\ Global.initial_virtual_token_reserves * InitialQuote \in Int
      BY <1>4, <1>7 DEF BondingCurve, TypeOK
    <3> QED BY <3>1, <3>2
  <2> QED BY <1>1, <1>3, <1>4, <1>5, <1>6, <2>1 DEF Inv, Reserves, TypeOK, BondingCurve, Supply
<1>10. Conserved'
  BY <1>2, <1>3, <1>6 DEF Inv, Conserved, TypeOK
<1>11. Backed'
  <2>1. /\ curve.real_quote_reserves \in Nat /\ curve.post_complete_quote_in \in Nat
        /\ curve.protocol_fees \in Nat /\ curve.creator_fee \in Nat
    BY <1>4 DEF BondingCurve
  <2>2. quote_vault = curve.real_quote_reserves + curve.post_complete_quote_in
                        + curve.protocol_fees + curve.creator_fee
    BY <1>1 DEF Inv, Backed
  <2>3. quote_vault' = curve'.real_quote_reserves + curve'.post_complete_quote_in
                        + curve'.protocol_fees + curve'.creator_fee
    <3>1. quote_vault \in Nat
      BY DEF Inv, TypeOK
    <3>2. quote_vault' = quote_vault + f.curve_quote + f.pool_quote
                           + KeptProtocol(f, v) + KeptCreator(f, v)
      BY <1>2, <1>3, <1>6, <3>1
    <3> QED BY <1>2, <1>3, <1>5, <2>1, <2>2, <3>2
  <2> QED BY <1>1, <1>6, <2>3 DEF Backed
<1> QED BY <1>7, <1>8, <1>9, <1>10, <1>11 DEF Inv

(* The raise covers the sale of any tokens users hold: the sale returns the  *)
(* virtual tokens to at most their creation value, so the virtual quote      *)
(* stays at least InitialQuote and the real quote at least zero.             *)
LEMMA SaleIsCovered ==
  ASSUME Inv, ~curve.complete, NEW amount \in Nat, amount > 0, amount <= circulating
  PROVE  LET gross == (amount * curve.virtual_quote_reserves)
                        \div (curve.virtual_token_reserves + amount)
         IN  /\ gross \in Nat
             /\ gross <= curve.real_quote_reserves
             /\ curve.real_token_reserves + amount <= Global.initial_real_token_reserves
             /\ curve.virtual_quote_reserves * curve.virtual_token_reserves
                  <= (curve.virtual_quote_reserves - gross)
                       * (curve.virtual_token_reserves + amount)
<1> DEFINE q == curve.virtual_quote_reserves
           t == curve.virtual_token_reserves
           t0 == Global.initial_virtual_token_reserves
           a == amount * q
           b == t + amount
           g == a \div b
<1>1. /\ q \in Nat /\ t \in Nat /\ curve.real_quote_reserves \in Nat
      /\ curve.real_token_reserves \in Nat /\ circulating \in Nat /\ donated \in Nat
      /\ base_ata \in Nat
  BY DEF Inv, TypeOK, BondingCurve
<1>2. ~pool.open /\ Reserves
  BY TradingCurve
<1>3. curve.real_token_reserves + amount <= Global.initial_real_token_reserves
  <2>1. curve.post_complete_base_out = 0 /\ base_ata + circulating = Supply
    BY <1>1, <1>2, GlobalAssumption DEF Inv, Flags, Reserves, Conserved, NoPool, Supply
  <2> QED BY <1>1, <1>2, <2>1, GlobalAssumption DEF Reserves, Supply
<1>4. b <= t0 /\ q = curve.real_quote_reserves + InitialQuote /\ t0 * InitialQuote <= q * t
  BY <1>1, <1>2, <1>3, GlobalAssumption DEF Reserves
<1>5. a \in Nat /\ b \in Nat /\ b > 0 /\ t0 \in Nat /\ InitialQuote \in Nat /\ t0 > 0
  BY <1>1, GlobalAssumption, MarketAssumption
<1> HIDE DEF q, t, t0
<1>6. g \in Nat /\ b * g <= a
  <2> HIDE DEF a, b
  <2> QED BY <1>5, DivBounds
<1> HIDE DEF g
<1>7. g * (t + amount) <= amount * q
  BY <1>1, <1>6
<1>8. g <= q /\ q * t <= (q - g) * (t + amount)
  BY <1>1, <1>5, <1>6, <1>7, SellKeepsProduct
<1>9. InitialQuote <= q - g
  <2> DEFINE k == q - g
  <2>1. k \in Nat /\ q * t <= k * b
    BY <1>1, <1>6, <1>8
  <2> HIDE DEF k, b
  <2>2. b * k <= t0 * k
    BY <1>4, <1>5, <2>1, MulMono
  <2>3. InitialQuote * t0 <= k * t0
    BY <1>1, <1>4, <1>5, <2>1, <2>2
  <2>4. InitialQuote <= k
    BY <1>5, <2>1, <2>3, MulCancel
  <2> QED BY <2>4 DEF k
<1>10. g <= curve.real_quote_reserves
  BY <1>1, <1>4, <1>5, <1>6, <1>9
<1> QED BY <1>3, <1>6, <1>8, <1>10 DEF g, a, b, q, t

(* Every sale preserves the invariant. *)
LEMMA SellInv ==
  ASSUME Inv, NEW amount \in Nat, NEW min, NEW v, Sell(amount, min, v)
  PROVE  Inv' /\ ~curve.complete /\ ~curve'.complete
         /\ curve.virtual_quote_reserves * curve.virtual_token_reserves
               <= curve'.virtual_quote_reserves * curve'.virtual_token_reserves
<1> USE GlobalAssumption, MarketAssumption
<1> DEFINE f == SellFill(curve, amount, v)
           bps == CurveFeeBps(curve, MintSupply)
           g == (amount * curve.virtual_quote_reserves)
                  \div (curve.virtual_token_reserves + amount)
<1>1. amount <= circulating /\ f.err = OK
  BY DEF Sell
<1>2. /\ ~curve.complete /\ amount > 0
      /\ ~ (g < ProtocolFee(g, bps.fees) + CreatorFee(g, bps.fees))
      /\ f = Fill(OK, amount, g, 0, 0, ProtocolFee(g, bps.fees), CreatorFee(g, bps.fees))
  BY <1>1 DEF SellFill, NoFill, Fill, OK, CurveOpen
<1>3. ~pool.open /\ Reserves /\ curve \in BondingCurve /\ curve.virtual_token_reserves > 0
  BY <1>2, TradingCurve DEF Buyable, BondingCurve
<1>4. bps.fees \in Fees
  BY <1>3, CurveFeeBpsType
<1>5. /\ g \in Nat
      /\ g <= curve.real_quote_reserves
      /\ curve.real_token_reserves + amount <= Global.initial_real_token_reserves
      /\ curve.virtual_quote_reserves * curve.virtual_token_reserves
           <= (curve.virtual_quote_reserves - g) * (curve.virtual_token_reserves + amount)
  BY <1>1, <1>2, SaleIsCovered
<1> HIDE DEF g, bps
<1>6. ProtocolFee(g, bps.fees) \in Nat /\ CreatorFee(g, bps.fees) \in Nat
  BY <1>4, <1>5, FeesOfCost
<1>7. /\ f.fee \in Nat /\ f.creator_fee \in Nat /\ f.curve_quote = g
      /\ f.fee + f.creator_fee <= g
  BY <1>2, <1>5, <1>6 DEF Fill
<1> HIDE DEF f
<1>8. /\ KeptProtocol(f, v) \in Nat /\ KeptCreator(f, v) \in Nat
      /\ FeesPaidOut(f, v) \in Nat
      /\ f.fee + f.creator_fee = KeptProtocol(f, v) + KeptCreator(f, v) + FeesPaidOut(f, v)
  BY <1>7, FeesSplit
<1>9. /\ curve'.virtual_token_reserves = curve.virtual_token_reserves + amount
      /\ curve'.real_token_reserves = curve.real_token_reserves + amount
      /\ curve'.virtual_quote_reserves = curve.virtual_quote_reserves - g
      /\ curve'.real_quote_reserves = curve.real_quote_reserves - g
      /\ curve'.complete = curve.complete
      /\ curve'.protocol_fees = curve.protocol_fees + KeptProtocol(f, v)
      /\ curve'.creator_fee = curve.creator_fee + KeptCreator(f, v)
      /\ curve'.post_complete_base_out = curve.post_complete_base_out
      /\ curve'.post_complete_quote_in = curve.post_complete_quote_in
      /\ curve'.token_total_supply = curve.token_total_supply
  BY <1>3, <1>7 DEF Sell, BondingCurve, f
<1>10. /\ base_ata' = base_ata + amount
       /\ circulating' = circulating - amount
       /\ purse' = purse + (g - (f.fee + f.creator_fee))
       /\ quote_vault' = quote_vault - (g - (f.fee + f.creator_fee) + FeesPaidOut(f, v))
       /\ paid_out' = paid_out + FeesPaidOut(f, v)
       /\ pool' = pool /\ donated' = donated
  BY <1>7 DEF Sell, ProceedsOf, f
<1>11. /\ curve.real_quote_reserves \in Nat /\ curve.post_complete_quote_in \in Nat
       /\ curve.protocol_fees \in Nat /\ curve.creator_fee \in Nat
       /\ curve.virtual_token_reserves \in Nat /\ curve.virtual_quote_reserves \in Nat
       /\ curve.real_token_reserves \in Nat
  BY <1>3 DEF BondingCurve
<1>12. /\ quote_vault = curve.real_quote_reserves + curve.post_complete_quote_in
                          + curve.protocol_fees + curve.creator_fee
       /\ quote_vault' = curve'.real_quote_reserves + curve'.post_complete_quote_in
                          + curve'.protocol_fees + curve'.creator_fee
  <2>1. quote_vault = curve.real_quote_reserves + curve.post_complete_quote_in
                        + curve.protocol_fees + curve.creator_fee
    BY <1>3 DEF Inv, Backed
  <2>2. quote_vault' = quote_vault - (g - (KeptProtocol(f, v) + KeptCreator(f, v)))
    BY <1>5, <1>7, <1>8, <1>10, <1>11, <2>1
  <2> QED BY <1>5, <1>8, <1>9, <1>11, <2>1, <2>2
<1>13. TypeOK'
  <2>1. curve' \in BondingCurve
    <3>1. /\ curve.virtual_token_reserves + amount \in Nat
          /\ curve.real_token_reserves + amount \in Nat
          /\ curve.virtual_quote_reserves - g \in Nat
          /\ curve.real_quote_reserves - g \in Nat
          /\ curve.protocol_fees + KeptProtocol(f, v) \in Nat
          /\ curve.creator_fee + KeptCreator(f, v) \in Nat
      BY <1>3, <1>5, <1>8, <1>11 DEF Reserves
    <3>2. curve' = [curve EXCEPT
            !.virtual_token_reserves = curve.virtual_token_reserves + amount,
            !.real_token_reserves    = curve.real_token_reserves + amount,
            !.virtual_quote_reserves = curve.virtual_quote_reserves - g,
            !.real_quote_reserves    = curve.real_quote_reserves - g,
            !.protocol_fees          = curve.protocol_fees + KeptProtocol(f, v),
            !.creator_fee            = curve.creator_fee + KeptCreator(f, v)]
      BY <1>7 DEF Sell, f
    <3> QED BY <1>3, <3>1, <3>2 DEF BondingCurve
  <2>2. /\ base_ata' \in Nat /\ circulating' \in Nat /\ purse' \in Nat /\ paid_out' \in Nat
        /\ pool' \in [open : BOOLEAN, base : Nat, quote : Nat] /\ donated' \in Nat
    BY <1>1, <1>5, <1>7, <1>8, <1>10 DEF Inv, TypeOK
  <2>3. quote_vault' \in Nat
    BY <1>12, <2>1 DEF BondingCurve
  <2> QED BY <2>1, <2>2, <2>3 DEF TypeOK
<1>14. Flags'
  BY <1>2, <1>3, <1>5, <1>9, <1>10, <1>11 DEF Inv, Flags
<1>15. curve.virtual_quote_reserves * curve.virtual_token_reserves
         <= curve'.virtual_quote_reserves * curve'.virtual_token_reserves
  BY <1>5, <1>9
<1>16. Reserves'
  <2>1. Global.initial_virtual_token_reserves * InitialQuote
          <= curve'.virtual_quote_reserves * curve'.virtual_token_reserves
    <3>1. Global.initial_virtual_token_reserves * InitialQuote
               <= curve.virtual_quote_reserves * curve.virtual_token_reserves
      BY <1>3 DEF Reserves
    <3>2. /\ curve.virtual_quote_reserves * curve.virtual_token_reserves \in Int
          /\ curve'.virtual_quote_reserves * curve'.virtual_token_reserves \in Int
          /\ Global.initial_virtual_token_reserves * InitialQuote \in Int
      BY <1>11, <1>13 DEF BondingCurve, TypeOK
    <3> QED BY <1>15, <3>1, <3>2
  <2> QED BY <1>3, <1>5, <1>9, <1>10, <1>11, <2>1 DEF Inv, Reserves, TypeOK, BondingCurve, Supply
<1>17. Conserved'
  <2>1. /\ base_ata + circulating + pool.base = Supply
        /\ purse + quote_vault + pool.quote + paid_out = Purse
        /\ base_ata \in Nat /\ circulating \in Nat /\ pool.base \in Nat
        /\ purse \in Nat /\ quote_vault \in Nat /\ pool.quote \in Nat /\ paid_out \in Nat
    BY DEF Inv, Conserved, TypeOK
  <2>2. /\ base_ata' + circulating' + pool'.base = Supply
        /\ purse' + quote_vault' + pool'.quote + paid_out' = Purse
    BY <1>5, <1>7, <1>8, <1>10, <2>1
  <2> QED BY <2>2 DEF Conserved, Supply
<1>18. Backed'
  BY <1>3, <1>10, <1>12 DEF Backed
<1>19. ~curve'.complete
  BY <1>2, <1>9
<1> QED BY <1>2, <1>13, <1>14, <1>15, <1>16, <1>17, <1>18, <1>19 DEF Inv

(* migrate_v2 preserves it, and opens the pool that was estimated. *)
LEMMA MigrateInv ==
  ASSUME Inv, Migrate
  PROVE  /\ Inv'
         /\ donated = 0 => /\ pool'.base
                               = Supply - Global.initial_real_token_reserves
                                   - curve.post_complete_base_out
                           /\ pool'.base > 0
<1> USE GlobalAssumption, MarketAssumption
<1> DEFINE raised == curve.real_quote_reserves + curve.post_complete_quote_in
           fee == IF IsSolLikeQuoteMint(curve.quote_mint) THEN Global.pool_migration_fee ELSE 0
<1>1. /\ curve.complete /\ ~pool.open /\ fee < raised /\ 0 < base_ata
      /\ pool' = [open |-> TRUE, base |-> base_ata, quote |-> raised - fee]
      /\ curve' = [curve EXCEPT !.virtual_token_reserves = 0, !.virtual_quote_reserves = 0,
                                !.real_quote_reserves = 0]
      /\ base_ata' = 0
      /\ quote_vault' = quote_vault - raised
      /\ paid_out' = paid_out + fee
      /\ circulating' = circulating /\ donated' = donated /\ purse' = purse
  BY DEF Migrate
<1>2. /\ curve \in BondingCurve /\ raised \in Nat /\ fee \in Nat /\ base_ata \in Nat
      /\ curve.real_quote_reserves \in Nat /\ curve.post_complete_quote_in \in Nat
      /\ curve.protocol_fees \in Nat /\ curve.creator_fee \in Nat
  BY DEF Inv, TypeOK, BondingCurve
<1> HIDE DEF fee
<1>3. /\ Reserves /\ pool = NoPool
      /\ quote_vault = raised + curve.protocol_fees + curve.creator_fee
  BY <1>1 DEF Inv, Backed, Reserves
<1>4. /\ curve'.real_quote_reserves = 0
      /\ curve'.complete = curve.complete
      /\ curve'.real_token_reserves = curve.real_token_reserves
      /\ curve'.token_total_supply = curve.token_total_supply
      /\ curve'.protocol_fees = curve.protocol_fees
      /\ curve'.creator_fee = curve.creator_fee
  BY <1>1, <1>2 DEF BondingCurve
<1>5. TypeOK'
  <2>1. curve' \in BondingCurve
    BY <1>1, <1>2 DEF BondingCurve
  <2>2. quote_vault' \in Nat /\ raised - fee \in Nat
    BY <1>1, <1>2, <1>3
  <2> HIDE DEF raised
  <2> QED BY <1>1, <1>2, <2>1, <2>2 DEF TypeOK, Inv
<1>6. Flags'
  BY <1>1, <1>4 DEF Inv, Flags
<1>7. pool'.open /\ pool'.base = base_ata /\ pool'.quote = raised - fee
  BY <1>1
<1>8. Conserved'
  <2>1. /\ base_ata + circulating = Supply
        /\ purse + quote_vault + paid_out = Purse
        /\ circulating \in Nat /\ purse \in Nat /\ paid_out \in Nat
    BY <1>2, <1>3 DEF Inv, Conserved, TypeOK, NoPool, Supply
  <2> HIDE DEF raised
  <2>2. /\ base_ata' + circulating' + pool'.base = Supply
        /\ purse' + quote_vault' + pool'.quote + paid_out' = Purse
    BY <1>1, <1>2, <1>3, <1>7, <2>1 DEF Supply
  <2> QED BY <2>2 DEF Conserved, Supply
<1>9. Backed'
  BY <1>1, <1>2, <1>3, <1>4, <1>7 DEF Backed
<1>10. donated = 0 => base_ata = Supply - Global.initial_real_token_reserves
                                  - curve.post_complete_base_out
  <2>1. curve.real_token_reserves = 0 /\ curve.post_complete_base_out \in Nat
    BY <1>1, <1>2 DEF Inv, Flags, BondingCurve
  <2> QED BY <1>3, <2>1 DEF Reserves, Supply
<1> QED BY <1>1, <1>5, <1>6, <1>7, <1>8, <1>9, <1>10 DEF Inv

(* A sweep moves one bucket out of the curve and preserves the invariant.    *)
LEMMA SweepInv ==
  ASSUME Inv, SweepCreatorFee \/ SweepProtocolFee
  PROVE  /\ Inv'
         /\ curve'.virtual_quote_reserves = curve.virtual_quote_reserves
         /\ curve'.virtual_token_reserves = curve.virtual_token_reserves
         /\ curve'.complete = curve.complete /\ pool' = pool
         /\ curve'.post_complete_base_out = curve.post_complete_base_out
<1> USE GlobalAssumption, MarketAssumption
<1>0. /\ curve \in BondingCurve
      /\ curve.protocol_fees \in Nat /\ curve.creator_fee \in Nat
      /\ curve.real_quote_reserves \in Nat /\ curve.post_complete_quote_in \in Nat
      /\ quote_vault \in Nat /\ paid_out \in Nat
  BY DEF Inv, TypeOK, BondingCurve
<1>1. PICK moved \in Nat :
        /\ moved = curve.creator_fee + curve.protocol_fees
                     - (curve'.creator_fee + curve'.protocol_fees)
        /\ quote_vault' = quote_vault - moved
        /\ paid_out' = paid_out + moved
        /\ curve' \in BondingCurve
        /\ curve'.creator_fee \in Nat /\ curve'.protocol_fees \in Nat
  <2>1. CASE SweepCreatorFee
    <3>1. /\ curve' \in BondingCurve
          /\ curve'.creator_fee = 0 /\ curve'.protocol_fees = curve.protocol_fees
      BY <1>0, <2>1 DEF SweepCreatorFee, BondingCurve
    <3> QED BY <1>0, <2>1, <3>1 DEF SweepCreatorFee
  <2>2. CASE SweepProtocolFee
    <3>1. /\ curve' \in BondingCurve
          /\ curve'.protocol_fees = 0 /\ curve'.creator_fee = curve.creator_fee
      BY <1>0, <2>2 DEF SweepProtocolFee, BondingCurve
    <3> QED BY <1>0, <2>2, <3>1 DEF SweepProtocolFee
  <2> QED BY <2>1, <2>2
<1>2. /\ curve'.virtual_token_reserves = curve.virtual_token_reserves
      /\ curve'.real_token_reserves = curve.real_token_reserves
      /\ curve'.virtual_quote_reserves = curve.virtual_quote_reserves
      /\ curve'.real_quote_reserves = curve.real_quote_reserves
      /\ curve'.complete = curve.complete
      /\ curve'.post_complete_base_out = curve.post_complete_base_out
      /\ curve'.post_complete_quote_in = curve.post_complete_quote_in
      /\ curve'.token_total_supply = curve.token_total_supply
      /\ base_ata' = base_ata /\ pool' = pool /\ circulating' = circulating
      /\ donated' = donated /\ purse' = purse
  BY <1>0 DEF SweepCreatorFee, SweepProtocolFee, BondingCurve
<1>3. Flags' /\ (~pool'.open => Reserves')
  BY <1>2 DEF Inv, Flags, Reserves
<1>4. Backed'
  <2>1. CASE pool.open
    BY <1>0, <1>1, <1>2, <2>1 DEF Inv, Backed
  <2>2. CASE ~pool.open
    BY <1>0, <1>1, <1>2, <2>2 DEF Inv, Backed
  <2> QED BY <2>1, <2>2
<1>5. TypeOK'
  <2>1. quote_vault' \in Nat
    BY <1>1, <1>2, <1>4, <1>0 DEF Backed
  <2> QED BY <1>0, <1>1, <1>2, <2>1 DEF Inv, TypeOK
<1>6. Conserved'
  BY <1>0, <1>1, <1>2 DEF Inv, Conserved, TypeOK
<1> QED BY <1>2, <1>3, <1>4, <1>5, <1>6 DEF Inv

(* A transfer to the base ATA preserves it. *)
LEMMA DonateInv ==
  ASSUME Inv, NEW amount \in Nat, Donate(amount)
  PROVE  Inv'
<1> USE GlobalAssumption, MarketAssumption
<1>1. /\ ~pool.open /\ amount <= circulating
      /\ base_ata' = base_ata + amount /\ circulating' = circulating - amount
      /\ donated' = donated + amount
      /\ curve' = curve /\ quote_vault' = quote_vault /\ pool' = pool
      /\ purse' = purse /\ paid_out' = paid_out
  BY DEF Donate
<1>2. TypeOK'
  BY <1>1 DEF Inv, TypeOK
<1>3. Reserves'
  BY <1>1 DEF Inv, TypeOK, Reserves, BondingCurve, Supply
<1>4. Flags' /\ Conserved' /\ Backed'
  BY <1>1 DEF Inv, TypeOK, Flags, Conserved, Backed
<1> QED BY <1>1, <1>2, <1>3, <1>4 DEF Inv

(* What one step never does, read off an invariant state. *)
StepSafe ==
  /\ ~pool'.open =>
       curve.virtual_quote_reserves * curve.virtual_token_reserves
         <= curve'.virtual_quote_reserves * curve'.virtual_token_reserves
  /\ curve.complete =>
       /\ curve'.complete
       /\ pool.open => pool' = pool
       /\ circulating' + donated' = circulating + donated
       /\ curve'.post_complete_base_out = curve.post_complete_base_out
  /\ (pool'.open /\ ~pool.open /\ donated = 0)
       => /\ EstimatedReserves(curve).err = OK
          /\ pool'.base = EstimatedReserves(curve).base
          /\ pool'.quote = EstimatedReserves(curve).quote

(* Buys, of either version and either kind. *)
LEMMA BuyStep ==
  ASSUME Inv, NEW f, NEW v, ApplyBuy(f, v), ~curve.complete,
         Buyable(curve, base_ata) => GoodBuy(curve, base_ata, f)
  PROVE  Inv' /\ StepSafe
<1>1. GoodBuy(curve, base_ata, f) /\ ~pool.open
  BY TradingCurve
<1>2. Inv'
  BY <1>1, ApplyBuyInv
<1>3. curve \in BondingCurve
  BY DEF Inv, TypeOK
<1>4. /\ curve'.virtual_token_reserves = curve.virtual_token_reserves - f.curve_tokens
      /\ curve'.virtual_quote_reserves = curve.virtual_quote_reserves + f.curve_quote
      /\ pool' = pool
  BY <1>3 DEF ApplyBuy, BondingCurve
<1>5. StepSafe
  BY <1>1, <1>4 DEF StepSafe, GoodBuy
<1> QED BY <1>2, <1>5

(* The estimate of a completed coin's pool is what migrate_v2 deposits. *)
LEMMA MigrateStep ==
  ASSUME Inv, Migrate
  PROVE  Inv' /\ StepSafe
<1> USE GlobalAssumption, MarketAssumption
<1> DEFINE raised == curve.real_quote_reserves + curve.post_complete_quote_in
           fee == IF IsSolLikeQuoteMint(curve.quote_mint) THEN Global.pool_migration_fee ELSE 0
           base == curve.token_total_supply - Global.initial_real_token_reserves
                     - curve.post_complete_base_out
<1>1. Inv'
  BY MigrateInv
<1>2. /\ curve.complete /\ ~pool.open /\ fee < raised
      /\ pool'.open /\ pool'.quote = raised - fee
      /\ curve' = [curve EXCEPT !.virtual_token_reserves = 0, !.virtual_quote_reserves = 0,
                                !.real_quote_reserves = 0]
      /\ circulating' = circulating /\ donated' = donated
  BY DEF Migrate
<1>3. curve \in BondingCurve /\ raised \in Nat /\ fee \in Nat
  BY DEF Inv, TypeOK, BondingCurve
<1>4. curve'.complete /\ curve'.post_complete_base_out = curve.post_complete_base_out
  BY <1>2, <1>3 DEF BondingCurve
<1>5. ~ (raised > U64_MAX)
  <2>1. /\ purse + quote_vault + pool.quote + paid_out = Purse
        /\ purse \in Nat /\ quote_vault \in Nat /\ pool.quote \in Nat /\ paid_out \in Nat
    BY DEF Inv, Conserved, TypeOK
  <2>2. /\ quote_vault = raised + curve.protocol_fees + curve.creator_fee
        /\ curve.protocol_fees \in Nat /\ curve.creator_fee \in Nat
    BY <1>2, <1>3 DEF Inv, Backed, BondingCurve
  <2>3. Purse \in Nat /\ Purse <= U64_MAX /\ U64_MAX \in Nat
    BY U64Assumption DEF U64
  <2> HIDE DEF raised
  <2> QED BY <1>3, <2>1, <2>2, <2>3
<1>6. donated = 0 => base > 0 /\ pool'.base = base
  <2>1. curve.token_total_supply = Supply
    BY DEF Inv, Flags
  <2> QED BY <2>1, MigrateInv
<1>7. donated = 0 => EstimatedReserves(curve) = [err |-> OK, base |-> base, quote |-> raised - fee]
  <2> SUFFICES ASSUME donated = 0
               PROVE  EstimatedReserves(curve) = [err |-> OK, base |-> base, quote |-> raised - fee]
    OBVIOUS
  <2>1. ~ (base <= 0 \/ raised <= fee \/ raised > U64_MAX)
    <3>1. base \in Int
      BY <1>3 DEF BondingCurve
    <3> HIDE DEF base, raised, fee
    <3> QED BY <1>2, <1>3, <1>5, <1>6, <3>1
  <2> QED BY <2>1 DEF EstimatedReserves
<1> HIDE DEF base, raised, fee
<1>8. StepSafe
  BY <1>2, <1>4, <1>6, <1>7 DEF StepSafe
<1> QED BY <1>1, <1>8

(* Every step preserves the invariant and is safe. *)
LEMMA NextInv ==
  ASSUME Inv, [Next]_market
  PROVE  Inv' /\ StepSafe
<1> USE AmountsNat
<1>0. /\ curve.virtual_quote_reserves * curve.virtual_token_reserves \in Int
      /\ circulating \in Nat /\ donated \in Nat
  BY DEF Inv, TypeOK, BondingCurve
<1>1. ASSUME NEW v \in {2, 3}, NEW amount \in Amounts, Buy(amount, Purse, v)
      PROVE  Inv' /\ StepSafe
  <2> DEFINE f == BuyFill(curve, base_ata, amount, v)
  <2>1. ApplyBuy(f, v) /\ f.err = OK
    BY <1>1 DEF Buy, ApplyBuy
  <2>2. ~curve.complete
    BY <2>1 DEF BuyFill, NoFill, Fill, OK, CurveOpen
  <2>3. Buyable(curve, base_ata) => GoodBuy(curve, base_ata, f)
    BY <2>1, BuyFillGood
  <2> HIDE DEF f
  <2> QED BY <2>1, <2>2, <2>3, BuyStep
<1>2. ASSUME NEW v \in {2, 3}, NEW amount \in Amounts, BuyExactQuoteIn(amount, 0, v)
      PROVE  Inv' /\ StepSafe
  <2> DEFINE f == BuyExactInFill(curve, base_ata, amount, v)
  <2>1. ApplyBuy(f, v) /\ f.err = OK
    BY <1>2 DEF BuyExactQuoteIn, ApplyBuy
  <2>2. ~curve.complete
    BY <2>1 DEF BuyExactInFill, NoFill, Fill, OK, CurveOpen
  <2>3. Buyable(curve, base_ata) => GoodBuy(curve, base_ata, f)
    BY <2>1, BuyExactInFillGood
  <2> HIDE DEF f
  <2> QED BY <2>1, <2>2, <2>3, BuyStep
<1>3. ASSUME NEW v \in {2, 3}, NEW amount \in Amounts, Sell(amount, 0, v)
      PROVE  Inv' /\ StepSafe
  <2>1. /\ Inv' /\ ~curve.complete
        /\ curve.virtual_quote_reserves * curve.virtual_token_reserves
               <= curve'.virtual_quote_reserves * curve'.virtual_token_reserves
    BY <1>3, SellInv
  <2>2. pool' = pool
    BY <1>3 DEF Sell
  <2> QED BY <2>1, <2>2 DEF StepSafe
<1>4. CASE Migrate
  BY <1>4, MigrateStep
<1>5. CASE SweepCreatorFee \/ SweepProtocolFee
  <2>1. circulating' = circulating /\ donated' = donated
    BY <1>5 DEF SweepCreatorFee, SweepProtocolFee
  <2> QED BY <1>0, <1>5, <2>1, SweepInv DEF StepSafe
<1>6. ASSUME NEW amount \in Amounts, Donate(amount)
      PROVE  Inv' /\ StepSafe
  <2>1. amount \in Nat
    OBVIOUS
  <2>2. Inv'
    BY <1>6, <2>1, DonateInv
  <2> QED BY <1>0, <1>6, <2>1, <2>2 DEF Donate, StepSafe
<1>7. CASE UNCHANGED market
  <2>1. Inv'
    BY <1>7 DEF market, Inv, TypeOK, Flags, Reserves, Conserved, Backed
  <2> QED BY <1>0, <1>7, <2>1 DEF market, StepSafe
<1> QED BY <1>1, <1>2, <1>3, <1>4, <1>5, <1>6, <1>7 DEF Next

-----------------------------------------------------------------------------
(* Theorems *)

(* The inductive invariant holds in every reachable state. *)
THEOREM Invariance == Spec => []Inv
<1>1. Inv /\ [Next]_market => Inv'
  BY NextInv
<1> QED BY InitInv, <1>1, PTL DEF Spec

(* Every counter of the curve, its ATA, its vault and the pool stays a       *)
(* natural number: no trade the quoters price, in any order, makes the       *)
(* unsigned subtraction of a reserve underflow.                              *)
THEOREM TypeCorrect == Spec => []TypeOK
<1>1. Inv => TypeOK
  BY DEF Inv
<1> QED BY Invariance, <1>1, PTL

(* No token and no unit of quote is created or lost by trades, sweeps and    *)
(* migration.                                                                *)
THEOREM Conservation == Spec => []Conserved
<1>1. Inv => Conserved
  BY DEF Inv
<1> QED BY Invariance, <1>1, PTL

(* The quote the curve holds is always exactly the raise, the                *)
(* post-completion quote and the fee buckets, so a sweep or a migration      *)
(* never pays from another counter's quote.                                  *)
THEOREM Backing == Spec => []Backed
<1>1. Inv => Backed
  BY DEF Inv
<1> QED BY Invariance, <1>1, PTL

(* While the curve trades, the raise covers the sale of everything users     *)
(* hold, although sell_sol_amount_from_token_amount never looks at it.       *)
THEOREM Solvency == Spec => []EveryHolderCanSell
<1>1. Inv => EveryHolderCanSell
  <2> SUFFICES ASSUME Inv, ~curve.complete, circulating > 0
               PROVE  SellFill(curve, circulating, 2).curve_quote <= curve.real_quote_reserves
    BY DEF EveryHolderCanSell
  <2> DEFINE g == (circulating * curve.virtual_quote_reserves)
                    \div (curve.virtual_token_reserves + circulating)
  <2>1. circulating \in Nat /\ curve.real_quote_reserves \in Nat
    BY DEF Inv, TypeOK, BondingCurve
  <2>2. g <= curve.real_quote_reserves
    BY <2>1, SaleIsCovered
  <2>3. \/ SellFill(curve, circulating, 2).curve_quote = g
        \/ SellFill(curve, circulating, 2).curve_quote = 0
    BY DEF SellFill, NoFill, Fill
  <2> HIDE DEF g
  <2> QED BY <2>1, <2>2, <2>3
<1> QED BY Invariance, <1>1, PTL

(* Rounding always favours the curve, whatever the sequence of trades: the   *)
(* product of the virtual reserves never falls before the migration.         *)
THEOREM RoundingFavoursCurve == Spec => ProductNeverFalls
<1>1. Inv /\ [Next]_market =>
        [~pool'.open =>
           curve.virtual_quote_reserves * curve.virtual_token_reserves
             <= curve'.virtual_quote_reserves * curve'.virtual_token_reserves]_market
  BY NextInv DEF StepSafe
<1> QED BY Invariance, <1>1, PTL DEF Spec, ProductNeverFalls

(* A completed curve never trades again. *)
THEOREM CompletionIsFinal == Spec => CompleteIsFinal
<1>1. Inv /\ [Next]_market =>
        [curve.complete =>
           /\ curve'.complete
           /\ pool.open => pool' = pool
           /\ circulating' + donated' = circulating + donated
           /\ curve'.post_complete_base_out = curve.post_complete_base_out]_market
  BY NextInv DEF StepSafe
<1> QED BY Invariance, <1>1, PTL DEF Spec, CompleteIsFinal

(* Without donations, the pool opens exactly where estimated_reserves said,  *)
(* the pool part of a completing v3 buy included.                            *)
THEOREM EstimateIsExact == Spec => OpensWhereTheLegStopped
<1>1. Inv /\ [Next]_market =>
        [(pool'.open /\ ~pool.open /\ donated = 0)
           => /\ EstimatedReserves(curve).err = OK
              /\ pool'.base = EstimatedReserves(curve).base
              /\ pool'.quote = EstimatedReserves(curve).quote]_market
  BY NextInv DEF StepSafe
<1> QED BY Invariance, <1>1, PTL DEF Spec, OpensWhereTheLegStopped

-----------------------------------------------------------------------------
(* What the exact-in quoters promise on every curve that trading reaches,    *)
(* for every budget: the charge stays within the budget, across the curve    *)
(* and the pool leg, and asking the token-out quoter for the tokens bought   *)
(* never costs more.                                                         *)
(*                                                                           *)
(* Both follow from one fact, CompletionFits: a net that swaps to at least   *)
(* the remaining supply covers the cost of the remaining supply, although    *)
(* the swap rounds down and the cost rounds up, because exact-in swaps one   *)
(* unit less than the net.                                                   *)

(* A curve the quoters price: trading, with something left to sell. *)
Quotable(c) ==
  /\ c \in BondingCurve /\ ~c.complete
  /\ 0 < c.real_token_reserves
  /\ c.real_token_reserves < c.virtual_token_reserves

(* The three rates of a curve trade. *)
LEMMA CurveBpsType ==
  ASSUME NEW fees \in Fees
  PROVE  CurveBps(fees) \in Nat \X Nat \X Nat
BY DEF CurveBps, Fees

(* Fees are naturals and grow with the amount. *)
LEMMA FeeOnMono ==
  ASSUME NEW fees \in Fees, NEW small \in Nat, NEW large \in Nat, small <= large
  PROVE  /\ FeeOn(small, fees) \in Nat /\ FeeOn(large, fees) \in Nat
         /\ FeeOn(small, fees) <= FeeOn(large, fees)
<1>1. fees.protocol_fee_bps \in Nat /\ fees.creator_fee_bps \in Nat
  BY DEF Fees
<1>2. /\ FeeAmount(small, fees.protocol_fee_bps) <= FeeAmount(large, fees.protocol_fee_bps)
      /\ FeeAmount(small, fees.creator_fee_bps) <= FeeAmount(large, fees.creator_fee_bps)
  BY <1>1, FeeAmountMono
<1>3. /\ FeeAmount(small, fees.protocol_fee_bps) \in Nat
      /\ FeeAmount(small, fees.creator_fee_bps) \in Nat
      /\ FeeAmount(large, fees.protocol_fee_bps) \in Nat
      /\ FeeAmount(large, fees.creator_fee_bps) \in Nat
  BY <1>1, FeeAmountNat
<1> QED BY <1>2, <1>3 DEF FeeOn

(* A cost below the net of a split pays, with its fees, at most the budget:  *)
(* the split charged its fees on a net that is no smaller.                   *)
LEMMA CostFitsSplit ==
  ASSUME NEW budget \in Nat, NEW fees \in Fees,
         ExactInFeeAmounts(budget, CurveBps(fees)).err = OK,
         NEW cost \in Nat, cost <= ExactInFeeAmounts(budget, CurveBps(fees)).net
  PROVE  LET s == ExactInFeeAmounts(budget, CurveBps(fees))
         IN  /\ WithFees(cost, fees) \in Nat
             /\ WithFees(cost, fees) <= s.net + (s.fees[1] + s.fees[2])
             /\ s.net \in Nat /\ s.net > 0 /\ s.fees[1] \in Nat /\ s.fees[2] \in Nat
             /\ s.net + (s.fees[1] + s.fees[2]) <= budget
<1> DEFINE s == ExactInFeeAmounts(budget, CurveBps(fees))
<1>1. /\ s.net \in Nat /\ s.net > 0 /\ s.fees \in Nat \X Nat \X Nat
      /\ s.net + (s.fees[1] + s.fees[2] + s.fees[3]) <= budget
  BY CurveBpsType, ExactInSplit
<1>2. PICK net0 \in Nat : s.net <= net0 /\ s.fees = ThreeFees(net0, CurveBps(fees))
  BY CurveBpsType, SplitFees
<1> HIDE DEF s
<1>3. s.fees[1] + s.fees[2] = FeeOn(net0, fees)
  BY <1>2 DEF ThreeFees, CurveBps, FeeOn
<1>4. /\ FeeOn(cost, fees) \in Nat /\ FeeOn(net0, fees) \in Nat
      /\ FeeOn(cost, fees) <= FeeOn(net0, fees)
  <2>1. cost <= net0
    BY <1>1, <1>2 DEF s
  <2> QED BY <1>2, <2>1, FeeOnMono
<1>5. /\ WithFees(cost, fees) \in Nat
      /\ WithFees(cost, fees) <= s.net + (s.fees[1] + s.fees[2])
  BY <1>1, <1>3, <1>4 DEF WithFees, s
<1>6. s.net + (s.fees[1] + s.fees[2]) <= budget
  BY <1>1
<1> QED BY <1>1, <1>5, <1>6 DEF s

(* CompletionFits, in the quoters' arithmetic: when n swaps to at least      *)
(* `tokens`, those tokens cost at most n + 1.                                *)
LEMMA SwapCoversCost ==
  ASSUME NEW q \in Nat, NEW t \in Nat, NEW n \in Nat, q + n > 0,
         NEW tokens \in Nat, tokens < t, tokens <= (n * t) \div (q + n)
  PROVE  /\ (tokens * q) \div (t - tokens) \in Nat
         /\ (tokens * q) \div (t - tokens) <= n
<1> DEFINE out == (n * t) \div (q + n)
<1>1. n * t \in Nat /\ q + n \in Nat /\ tokens * q \in Nat /\ t - tokens \in Nat /\ t - tokens > 0
  OBVIOUS
<1>2. out \in Nat /\ (q + n) * out <= n * t
  BY <1>1, DivBounds
<1>3. tokens <= out
  OBVIOUS
<1> HIDE DEF out
<1>4. tokens * (q + n) <= n * t
  <2>1. tokens * (q + n) <= out * (q + n)
    BY <1>1, <1>2, <1>3, MulMono
  <2> QED BY <1>1, <1>2, <2>1
<1>5. tokens * q <= n * (t - tokens)
  BY <1>4
<1> DEFINE a == tokens * q
           b == t - tokens
<1>6. a \in Nat /\ b \in Nat /\ b > 0 /\ a <= n * b
  BY <1>1, <1>5
<1> HIDE DEF a, b
<1>7. a \div b \in Nat /\ a \div b <= n
  BY <1>6, DivBounds, DivLeast
<1> QED BY <1>7 DEF a, b

-----------------------------------------------------------------------------
(* The quoters on one curve *)

(* buy_tokens_exact_in yields tokens only from a successful split.           *)
LEMMA ExactInTokens ==
  ASSUME NEW c \in BondingCurve, NEW budget \in Nat,
         BuyTokensExactIn(c, MintSupply, budget).err = OK,
         BuyTokensExactIn(c, MintSupply, budget).val # 0
  PROVE  LET bps   == CurveFeeBps(c, MintSupply)
             split == ExactInFeeAmounts(budget, CurveBps(bps.fees))
             n     == split.net - 1
             q     == c.virtual_quote_reserves
         IN  /\ bps.err = OK /\ bps.fees \in Fees /\ split.err = OK
             /\ split.net \in Nat /\ n \in Nat /\ q \in Nat /\ q + n > 0
             /\ BuyTokensExactIn(c, MintSupply, budget).val \in Nat
             /\ BuyTokensExactIn(c, MintSupply, budget).val
                  = (n * c.virtual_token_reserves) \div (q + n)
<1> DEFINE bps   == CurveFeeBps(c, MintSupply)
           split == ExactInFeeAmounts(budget, CurveBps(bps.fees))
           n     == split.net - 1
           q     == c.virtual_quote_reserves
           t     == c.virtual_token_reserves
           r     == BuyTokensExactIn(c, MintSupply, budget)
<1>1. q \in Nat /\ t \in Nat /\ t > 0
  BY DEF BuyTokensExactIn, Ok, BondingCurve
<1>2. bps.fees \in Fees
  BY <1>1, CurveFeeBpsType
<1>3. q # 0 /\ bps.err = OK /\ split.err = OK /\ r = SwapExactInput(n, q, t)
  BY DEF BuyTokensExactIn, Ok, Err, OK
<1>4. split.net \in Nat /\ split.net > 0
  BY <1>2, <1>3, CurveBpsType, ExactInSplit
<1> HIDE DEF bps, split, q, t, r
<1>5. n \in Nat /\ q + n > 0 /\ q + n \in Nat
  BY <1>1, <1>3, <1>4
<1> HIDE DEF n
<1>6. r.val = (n * t) \div (q + n)
  BY <1>3, <1>5 DEF SwapExactInput, MulDiv, Ok
<1>7. n * t \in Nat
  BY <1>1, <1>5
<1>8. r.val \in Nat
  BY <1>5, <1>6, <1>7, DivBounds
<1> QED BY <1>1, <1>2, <1>3, <1>4, <1>5, <1>6, <1>8 DEF bps, split, n, q, t, r

(* Any tokens a budget reaches, the remaining supply among them, cost at     *)
(* most the net of the split, and with their fees at most the budget.        *)
LEMMA CompletionFits ==
  ASSUME NEW c, Quotable(c), NEW budget \in U64,
         BuyTokensExactIn(c, MintSupply, budget).err = OK,
         NEW tokens \in Nat, tokens > 0, tokens <= c.real_token_reserves,
         BuyTokensExactIn(c, MintSupply, budget).val \in Nat =>
           tokens <= BuyTokensExactIn(c, MintSupply, budget).val,
         BuyTokensExactIn(c, MintSupply, budget).val # 0
  PROVE  LET fees  == CurveFeeBps(c, MintSupply).fees
             split == ExactInFeeAmounts(budget, CurveBps(fees))
             cost  == BuyQuote(c, tokens)
             asked == BuySolAmountFromTokenAmount(c, MintSupply, tokens)
         IN  /\ cost.err = OK /\ cost.val \in Nat
             /\ WithFees(cost.val, fees) \in Nat
             /\ WithFees(cost.val, fees) <= split.net + (split.fees[1] + split.fees[2])
             /\ split.net + (split.fees[1] + split.fees[2]) \in Nat
             /\ split.net + (split.fees[1] + split.fees[2]) <= budget
             /\ asked.err = OK /\ asked.val \in Nat
             /\ asked.val <= WithFees(cost.val, fees)
<1> DEFINE bps   == CurveFeeBps(c, MintSupply)
           fees  == bps.fees
           split == ExactInFeeAmounts(budget, CurveBps(fees))
           n     == split.net - 1
           q     == c.virtual_quote_reserves
           t     == c.virtual_token_reserves
           d     == (tokens * q) \div (t - tokens)
           out   == BuyTokensExactIn(c, MintSupply, budget)
<1>0. budget \in Nat /\ budget <= U64_MAX /\ U64_MAX \in Nat
  BY U64Assumption DEF U64
<1>1. /\ bps.err = OK /\ fees \in Fees /\ split.err = OK
      /\ split.net \in Nat /\ n \in Nat /\ q \in Nat /\ q + n > 0
      /\ out.val \in Nat /\ out.val = (n * t) \div (q + n)
  BY <1>0, ExactInTokens DEF Quotable
<1>2. /\ t \in Nat /\ tokens < t /\ c.real_token_reserves \in Nat
      /\ Least(tokens, c.real_token_reserves) = tokens
  BY DEF Quotable, BondingCurve, Least
<1>3. d \in Nat /\ d <= n
  <2> HIDE DEF bps, split, n, q, t, out
  <2>1. tokens <= (n * t) \div (q + n)
    BY <1>1 DEF out
  <2> QED BY <1>1, <1>2, <2>1, SwapCoversCost
<1> HIDE DEF d
<1>4. d + 1 \in Nat /\ d + 1 <= split.net
  <2> HIDE DEF split
  <2> QED BY <1>1, <1>3
<1>5. /\ WithFees(d + 1, fees) \in Nat
      /\ WithFees(d + 1, fees) <= split.net + (split.fees[1] + split.fees[2])
      /\ split.fees[1] \in Nat /\ split.fees[2] \in Nat
      /\ split.net + (split.fees[1] + split.fees[2]) <= budget
  <2> HIDE DEF bps
  <2> QED BY <1>0, <1>1, <1>4, CostFitsSplit
<1> HIDE DEF split, bps
<1>6. d + 1 \in U64
  BY <1>0, <1>1, <1>4, <1>5 DEF U64
<1>7. BuyQuote(c, tokens) = Ok(d + 1)
  BY <1>2, <1>6 DEF BuyQuote, d, q, t
<1>8. BuySolAmountFromTokenAmount(c, MintSupply, tokens) = Ok(AsU64(WithFees(d + 1, fees)))
  BY <1>1, <1>2 DEF BuySolAmountFromTokenAmount, d, q, t, bps
<1>9. AsU64(WithFees(d + 1, fees)) \in Nat /\ AsU64(WithFees(d + 1, fees)) <= WithFees(d + 1, fees)
  BY <1>5, AsU64Shrinks
<1> QED BY <1>1, <1>4, <1>5, <1>7, <1>8, <1>9 DEF Ok, split, bps

(* The pool leg of an exact-in buy stays within what the curve part left of  *)
(* the budget, and its tokens are never dearer when asked for by amount.     *)
LEMMA LegFits ==
  ASSUME NEW p, p.base \in Nat, p.base > 0, p.quote \in Nat, p.quote > 0,
         NEW fees \in Fees, NEW budget \in Nat,
         PostCompleteLegExactQuote(p, fees, budget, FALSE).err = OK
  PROVE  LET leg   == PostCompleteLegExactQuote(p, fees, budget, FALSE)
             paid  == leg.quote_in + leg.fee + leg.creator_fee
             asked == CeilDiv(p.quote * leg.base_out, p.base - leg.base_out)
         IN  /\ leg.base_out \in Nat /\ leg.base_out < p.base
             /\ paid \in Nat /\ paid <= budget
             /\ leg.base_out > 0 =>
                  /\ asked \in Nat /\ asked <= paid
                  /\ WithFees(asked, fees) \in Nat /\ WithFees(asked, fees) <= paid
<1> DEFINE split    == ExactInFeeAmounts(budget, CurveBps(fees))
           n        == split.net - 1
           out      == SwapExactInput(n, p.quote, p.base)
           nothing  == [err |-> OK, base_out |-> 0, quote_in |-> 0, fee |-> 0, creator_fee |-> 0]
           full     == [err |-> OK, base_out |-> out.val, quote_in |-> split.net,
                        fee |-> split.fees[1], creator_fee |-> split.fees[2]]
           leg      == PostCompleteLegExactQuote(p, fees, budget, FALSE)
           paid     == leg.quote_in + leg.fee + leg.creator_fee
           asked    == CeilDiv(p.quote * leg.base_out, p.base - leg.base_out)
<1> SUFFICES /\ leg.base_out \in Nat /\ leg.base_out < p.base
             /\ paid \in Nat /\ paid <= budget
             /\ leg.base_out > 0 =>
                  /\ asked \in Nat /\ asked <= paid
                  /\ WithFees(asked, fees) \in Nat /\ WithFees(asked, fees) <= paid
  BY Zenon
<1>1. leg = nothing \/ (leg = full /\ split.err = OK)
  BY DEF PostCompleteLegExactQuote, OK
<1>2. leg.base_out \in Nat /\ leg.base_out < p.base
  BY LegGood
<1> HIDE DEF leg
<1>3. CASE leg = nothing
  <2>1. /\ leg.base_out = 0
        /\ leg.quote_in = 0 /\ leg.fee = 0 /\ leg.creator_fee = 0
    BY <1>3
  <2> HIDE DEF asked
  <2> QED BY <1>2, <2>1
<1>4. CASE leg = full /\ split.err = OK
  <2>1. /\ split.net \in Nat /\ split.net > 0 /\ split.fees[1] \in Nat /\ split.fees[2] \in Nat
        /\ split.net + (split.fees[1] + split.fees[2]) <= budget
    <3>1. 0 <= split.net
      BY <1>4, CurveBpsType, ExactInSplit
    <3> QED BY <1>4, <3>1, CostFitsSplit
  <2>2. /\ leg.quote_in = split.net /\ leg.fee = split.fees[1]
        /\ leg.creator_fee = split.fees[2] /\ leg.base_out = out.val
    BY <1>4
  <2>3. ASSUME leg.base_out > 0
        PROVE  /\ asked \in Nat /\ asked <= split.net
               /\ WithFees(asked, fees) \in Nat
               /\ WithFees(asked, fees) <= split.net + (split.fees[1] + split.fees[2])
    <3> DEFINE B == p.base
               Q == p.quote
               o == leg.base_out
    <3>1. B \in Nat /\ Q \in Nat /\ Q > 0 /\ n \in Nat /\ o \in Nat /\ o < B
      BY <1>2, <2>1
    <3>2. o = (n * B) \div (Q + n)
      BY <2>2, <3>1 DEF SwapExactInput, MulDiv, Ok
    <3> HIDE DEF B, Q, o, n
    <3>3. n * B \in Nat /\ Q + n \in Nat /\ Q + n > 0 /\ Q * o \in Nat
      BY <3>1
    <3>4. (Q + n) * o <= n * B
      BY <3>2, <3>3, DivBounds
    <3>5. Q * o <= n * (B - o)
      BY <3>1, <3>4
    <3>6. CeilDiv(Q * o, B - o) \in Nat /\ CeilDiv(Q * o, B - o) <= n
      <4>1. B - o \in Nat /\ B - o > 0
        BY <3>1
      <4> QED BY <3>1, <3>3, <3>5, <4>1, CeilDivLeast
    <3>7. asked \in Nat /\ asked <= n
      BY <3>6 DEF B, Q, o
    <3> HIDE DEF asked
    <3>8. asked <= split.net
      <4> HIDE DEF split
      <4> QED BY <2>1, <3>7 DEF n
    <3> QED BY <1>4, <3>7, <3>8, CostFitsSplit
  <2> HIDE DEF split, asked, out
  <2>4. paid = split.net + (split.fees[1] + split.fees[2])
    BY <2>1, <2>2
  <2> HIDE DEF paid
  <2>5. leg.base_out > 0 => asked <= paid
    BY <2>1, <2>3, <2>4
  <2> QED BY <1>2, <2>1, <2>3, <2>4, <2>5
<1> QED BY <1>1, <1>3, <1>4

(* The fee schedule fails in one way only. *)
LEMMA CurveFeeBpsErr ==
  ASSUME NEW c
  PROVE  CurveFeeBps(c, MintSupply).err \in {OK, "EmptyFeeTiers"}
<1> DEFINE cap == MarketCap(CurveTierSupply(c, MintSupply),
                            c.virtual_quote_reserves, c.virtual_token_reserves)
           r == FeesForQuoteMint(FeeConfig, TRUE, cap, c.quote_mint)
<1>1. r.err \in {OK, "EmptyFeeTiers"}
  BY DEF FeesForQuoteMint, CalculateFeeTier, FeeResult, FeeError
<1>2. CurveFeeBps(c, MintSupply).err = r.err
  <2> HIDE DEF cap
  <2> QED BY DEF CurveFeeBps, ComputeFeeBps, FeesForQuoteMint, CalculateFeeTier,
                 FeeResult, FeeError
<1> QED BY <1>1, <1>2

(* buy_v3_token_amount_from_sol_amount on a curve that trades.               *)
LEMMA ExactInV3Good ==
  ASSUME NEW c, Quotable(c), NEW ata \in Nat, NEW budget \in U64
  PROVE  LET r    == BuyV3TokenAmountFromSolAmount(c, MintSupply, ata, budget)
             ask  == BuyV3SolAmountFromTokenAmount(c, MintSupply, ata, r.tokens)
             cost == BuyQuote(c, c.real_token_reserves)
         IN  /\ r.tokens \in Nat /\ r.charged \in Nat /\ r.charged <= budget
             /\ (r.err = OK /\ r.tokens > 0) => (ask.err = OK /\ ask.val <= r.charged)
             /\ r.err = "MathOverflow" =>
                  /\ cost.val \in Nat /\ cost.val <= budget
                  /\ PoolToBe(c, ata, c.real_token_reserves, cost.val).err = "MathOverflow"
<1> DEFINE tokens    == BuyTokensExactIn(c, MintSupply, budget)
           bps       == CurveFeeBps(c, MintSupply)
           split     == ExactInFeeAmounts(budget, CurveBps(bps.fees))
           remaining == c.real_token_reserves
           cost      == BuyQuote(c, remaining)
           total     == WithFees(cost.val, bps.fees)
           left      == budget - total
           tobe      == PoolToBe(c, ata, remaining, cost.val)
           leg       == PostCompleteLegExactQuote(tobe, bps.fees, left, FALSE)
           r         == BuyV3TokenAmountFromSolAmount(c, MintSupply, ata, budget)
           ask       == BuyV3SolAmountFromTokenAmount(c, MintSupply, ata, r.tokens)
           Goal == /\ r.tokens \in Nat /\ r.charged \in Nat /\ r.charged <= budget
                   /\ (r.err = OK /\ r.tokens > 0) => (ask.err = OK /\ ask.val <= r.charged)
                   /\ r.err = "MathOverflow" =>
                        /\ cost.val \in Nat /\ cost.val <= budget
                        /\ tobe.err = "MathOverflow"
<1> SUFFICES Goal
  BY Zenon
<1>0. budget \in Nat /\ budget <= U64_MAX /\ U64_MAX \in Nat
  BY U64Assumption DEF U64
<1>1. c \in BondingCurve /\ ata \in Nat /\ remaining \in Nat /\ remaining > 0
  BY DEF Quotable, BondingCurve
<1>2. CASE ~CurveOpen(c, FALSE)
  <2>1. r = [err |-> "VenueNotSupported", tokens |-> 0, charged |-> 0]
    BY <1>2 DEF BuyV3TokenAmountFromSolAmount
  <2> QED BY <1>0, <2>1 DEF OK
<1>3. CASE CurveOpen(c, FALSE) /\ tokens.err # OK
  <2>1. r = [err |-> tokens.err, tokens |-> 0, charged |-> 0]
    BY <1>3 DEF BuyV3TokenAmountFromSolAmount
  <2>2. tokens.err \in {"EmptyReserves", "EmptyFeeTiers"}
    <3>1. c.virtual_quote_reserves \in Nat /\ split.err = OK =>
            SwapExactInput(split.net - 1, c.virtual_quote_reserves, c.virtual_token_reserves).err
              \in {OK, "MathOverflow"}
      BY DEF SwapExactInput, MulDiv, Ok, Err
    <3>2. CASE split.err = OK /\ bps.err = OK /\ c.virtual_quote_reserves # 0
      <4>1. split.net \in Nat /\ split.net > 0
        <5>1. bps.fees \in Fees
          BY <1>1, CurveFeeBpsType DEF Quotable, BondingCurve
        <5> QED BY <1>0, <3>2, <5>1, CurveBpsType, ExactInSplit
      <4>2. c.virtual_quote_reserves \in Nat
        BY <1>1 DEF BondingCurve
      <4> HIDE DEF split
      <4>3. SwapExactInput(split.net - 1, c.virtual_quote_reserves, c.virtual_token_reserves).err = OK
        BY <3>2, <4>1, <4>2 DEF SwapExactInput, MulDiv, Ok
      <4>4. tokens.err = OK
        BY <3>2, <4>3 DEF BuyTokensExactIn, Ok, split
      <4> QED BY <1>3, <4>4
    <3>3. CASE ~ (split.err = OK /\ bps.err = OK /\ c.virtual_quote_reserves # 0)
      <4>1. bps.err \in {OK, "EmptyFeeTiers"}
        BY CurveFeeBpsErr
      <4> HIDE DEF split, bps
      <4>2. \/ tokens = Ok(0) \/ tokens = Err("EmptyReserves") \/ (tokens = Err(bps.err) /\ bps.err # OK)
        BY <3>3 DEF BuyTokensExactIn, split, bps
      <4> HIDE DEF tokens
      <4> QED BY <1>3, <4>1, <4>2 DEF Ok, Err
    <3> QED BY <3>2, <3>3
  <2> HIDE DEF tokens
  <2> QED BY <1>0, <1>3, <2>1, <2>2 DEF OK
<1>4. CASE CurveOpen(c, FALSE) /\ tokens.err = OK /\ tokens.val = 0
  <2>1. r = [err |-> OK, tokens |-> 0, charged |-> 0]
    BY <1>4 DEF BuyV3TokenAmountFromSolAmount
  <2> QED BY <1>0, <2>1 DEF OK
<1>5. CASE CurveOpen(c, FALSE) /\ tokens.err = OK /\ tokens.val # 0
  <2>1. /\ tokens.val \in Nat /\ tokens.val > 0
        /\ bps.err = OK /\ bps.fees \in Fees
    BY <1>0, <1>1, <1>5, ExactInTokens
  <2>2. CASE tokens.val <= remaining
    <3>1. r = [err |-> OK, tokens |-> tokens.val,
               charged |-> split.net + (split.fees[1] + split.fees[2])]
      BY <1>5, <2>2 DEF BuyV3TokenAmountFromSolAmount
    <3>2. ask = BuySolAmountFromTokenAmount(c, MintSupply, tokens.val)
      BY <1>5, <2>2, <3>1 DEF BuyV3SolAmountFromTokenAmount
    <3> DEFINE own == BuyQuote(c, tokens.val)
    <3>3. /\ WithFees(own.val, bps.fees) \in Nat
          /\ WithFees(own.val, bps.fees) <= r.charged
          /\ r.charged \in Nat /\ r.charged <= budget
          /\ ask.err = OK /\ ask.val \in Nat /\ ask.val <= WithFees(own.val, bps.fees)
      BY <1>5, <2>1, <2>2, <3>1, <3>2, CompletionFits
    <3>4. r.err = OK /\ r.tokens \in Nat
      BY <2>1, <3>1
    <3> HIDE DEF own, r, ask, bps
    <3> QED BY <3>3, <3>4 DEF OK
  <2>3. CASE ~ (tokens.val <= remaining)
    <3>1. /\ cost.err = OK /\ cost.val \in Nat
          /\ total \in Nat /\ total <= budget
          /\ BuySolAmountFromTokenAmount(c, MintSupply, remaining).err = OK
          /\ BuySolAmountFromTokenAmount(c, MintSupply, remaining).val \in Nat
          /\ BuySolAmountFromTokenAmount(c, MintSupply, remaining).val <= total
      <4> DEFINE asked == BuySolAmountFromTokenAmount(c, MintSupply, remaining)
                 fits  == split.net + (split.fees[1] + split.fees[2])
      <4>1. remaining <= tokens.val
        BY <1>1, <2>1, <2>3
      <4>2. /\ cost.err = OK /\ cost.val \in Nat
            /\ total \in Nat /\ total <= fits /\ fits \in Nat /\ fits <= budget
            /\ asked.err = OK /\ asked.val \in Nat /\ asked.val <= total
        BY <1>1, <1>5, <4>1, CompletionFits
      <4> HIDE DEF fits, total, asked, cost
      <4> QED BY <1>0, <4>2 DEF asked
    <3>2. left \in Nat /\ total \in U64 /\ ~ (left < 0)
      <4> HIDE DEF total
      <4> QED BY <1>0, <3>1 DEF U64
    <3>3. cost.val <= budget
      <4>1. FeeOn(cost.val, bps.fees) \in Nat
        BY <2>1, <3>1, FeeOnMono
      <4> HIDE DEF cost, bps
      <4> QED BY <1>0, <3>1, <4>1 DEF WithFees
    <3>4. CASE left = 0 \/ c.is_mayhem_mode
      <4>1. r = [err |-> OK, tokens |-> remaining, charged |-> total]
        BY <1>5, <2>3, <3>1, <3>2, <3>4 DEF BuyV3TokenAmountFromSolAmount
      <4>2. ask = BuySolAmountFromTokenAmount(c, MintSupply, remaining)
        BY <1>1, <1>5, <4>1 DEF BuyV3SolAmountFromTokenAmount
      <4>3. r.err = OK /\ r.charged = total /\ r.tokens \in Nat
        BY <1>1, <4>1
      <4> HIDE DEF r, ask, total
      <4> QED BY <3>1, <4>2, <4>3 DEF OK
    <3>5. CASE ~ (left = 0 \/ c.is_mayhem_mode) /\ tobe.err # OK
      <4>1. r = [err |-> tobe.err, tokens |-> 0, charged |-> 0]
        BY <1>5, <2>3, <3>1, <3>2, <3>5 DEF BuyV3TokenAmountFromSolAmount
      <4> HIDE DEF tobe, cost, total
      <4> QED BY <1>0, <3>1, <3>3, <3>5, <4>1
    <3>6. CASE ~ (left = 0 \/ c.is_mayhem_mode) /\ tobe.err = OK /\ leg.err # OK
      <4>1. r = [err |-> leg.err, tokens |-> 0, charged |-> 0]
        BY <1>5, <2>3, <3>1, <3>2, <3>6 DEF BuyV3TokenAmountFromSolAmount
      <4>2. leg.err = "ZeroAmount"
        BY <3>6 DEF PostCompleteLegExactQuote, ExactInFeeAmounts, ShaveNet, OK
      <4> HIDE DEF tobe, leg, cost, total
      <4> QED BY <1>0, <3>6, <4>1, <4>2 DEF OK
    <3>7. CASE ~ (left = 0 \/ c.is_mayhem_mode) /\ tobe.err = OK /\ leg.err = OK
      <4> DEFINE paid  == leg.quote_in + leg.fee + leg.creator_fee
                 asked == CeilDiv(tobe.quote * leg.base_out, tobe.base - leg.base_out)
      <4>1. r = [err |-> OK, tokens |-> remaining + leg.base_out, charged |-> total + paid]
        BY <1>5, <2>3, <3>1, <3>2, <3>7 DEF BuyV3TokenAmountFromSolAmount
      <4>2. /\ tobe.base \in Nat /\ tobe.base > 0 /\ tobe.quote \in Nat /\ tobe.quote > 0
        BY <1>1, <3>1, <3>7, PoolToBeGood
      <4>3. /\ leg.base_out \in Nat /\ leg.base_out < tobe.base
            /\ paid \in Nat /\ paid <= left
            /\ leg.base_out > 0 =>
                  /\ asked \in Nat /\ asked <= paid
                  /\ WithFees(asked, bps.fees) \in Nat /\ WithFees(asked, bps.fees) <= paid
        <5> HIDE DEF tobe, left, bps
        <5> QED BY <2>1, <3>2, <3>7, <4>2, LegFits
      <4>4. total + paid \in Nat /\ total + paid <= budget
        <5> HIDE DEF total, paid
        <5> QED BY <1>0, <3>1, <4>3
      <4>5. ask.err = OK /\ ask.val <= total + paid
        <5>1. CASE leg.base_out = 0
          <6>1. r.tokens = remaining
            <7> HIDE DEF leg, tobe, left, total
            <7> QED BY <1>1, <4>1, <5>1
          <6> HIDE DEF r
          <6>2. ask = BuySolAmountFromTokenAmount(c, MintSupply, remaining)
            BY <1>1, <1>5, <6>1 DEF BuyV3SolAmountFromTokenAmount
          <6> HIDE DEF total, paid, ask
          <6> QED BY <3>1, <4>3, <6>2
        <5>2. CASE leg.base_out > 0
          <6>1. r.tokens = remaining + leg.base_out
            BY <4>1
          <6> DEFINE past == r.tokens - remaining
                     want == CeilDiv(tobe.quote * past, tobe.base - past)
                     sum  == total + WithFees(want, bps.fees)
          <6>2. past = leg.base_out /\ ~ (r.tokens <= remaining)
            <7> HIDE DEF leg, r
            <7> QED BY <1>1, <4>3, <5>2, <6>1
          <6>3. want = asked
            <7> HIDE DEF past, tobe, leg
            <7> QED BY <6>2
          <6>4. ~ (tobe.base <= past) /\ want \in U64 /\ sum \in U64 /\ sum <= total + paid
            <7> HIDE DEF past, want, asked, tobe, leg, total, paid, left, bps
            <7> QED BY <1>0, <3>1, <4>2, <4>3, <4>4, <5>2, <6>2, <6>3 DEF sum, U64
          <6>5. ask = Ok(sum)
            <7> HIDE DEF r
            <7> QED BY <1>5, <2>1, <3>1, <3>7, <6>2, <6>4 DEF BuyV3SolAmountFromTokenAmount
          <6> HIDE DEF sum, ask, total, paid
          <6> QED BY <6>4, <6>5 DEF Ok
        <5> HIDE DEF leg, ask, total, paid, tobe
        <5> QED BY <4>3, <5>1, <5>2
      <4>6. r.err = OK /\ r.charged = total + paid /\ r.tokens \in Nat
        <5> HIDE DEF total, paid, leg
        <5> QED BY <1>1, <4>1, <4>3
      <4> HIDE DEF r, ask, total, paid
      <4> QED BY <4>4, <4>5, <4>6 DEF OK
    <3> QED BY <3>4, <3>5, <3>6, <3>7
  <2> QED BY <2>2, <2>3
<1> QED BY <1>2, <1>3, <1>4, <1>5

(* The v2 exact-in quote: a partial fill is charged the cost of the          *)
(* remaining supply, which the budget covers; any other fill the budget.     *)
LEMMA ExactInV2Good ==
  ASSUME NEW c \in BondingCurve, c.complete => c.real_token_reserves = 0,
         ~c.complete => Quotable(c), NEW budget \in U64
  PROVE  BuyQuoteBondingCurveSolIn(c, MintSupply, budget, 0).input_amount_used <= budget
<1> DEFINE r    == BuyTokensExactIn(c, MintSupply, budget)
           out  == BuyTokenAmountFromSolAmount(c, MintSupply, budget)
           R    == c.real_token_reserves
           cost == BuySolAmountFromTokenAmount(c, MintSupply, out.val)
           qt   == BuyQuoteBondingCurveSolIn(c, MintSupply, budget, 0)
           full == out.err = OK /\ out.val > 0 /\ out.val >= R /\ cost.err = OK
<1>0. budget \in Nat
  BY U64Assumption DEF U64
<1>1. \/ qt.input_amount_used = 0
      \/ qt.input_amount_used = budget
      \/ full /\ qt.input_amount_used = cost.val
  BY DEF BuyQuoteBondingCurveSolIn, NoQuote, Quote, Ok
<1>2. ASSUME full PROVE cost.val <= budget
  <2>1. R \in Nat
    BY DEF BondingCurve
  <2>2. out.err = r.err /\ out.val = Least(r.val, R)
    BY DEF BuyTokenAmountFromSolAmount, BuyTokensExactIn, SwapExactInput, MulDiv, Ok, Err
  <2>3. r.val # 0 => r.val \in Nat
    BY <1>0, <1>2, <2>2, ExactInTokens
  <2> HIDE DEF r, out
  <2>4. r.val \in Nat /\ r.val > 0 /\ R > 0 /\ R <= r.val /\ out.val = R
    <3>1. r.val # 0
      BY <1>2, <2>1, <2>2 DEF Least
    <3> QED BY <1>2, <2>1, <2>2, <2>3, <3>1 DEF Least
  <2>5. Quotable(c) /\ r.err = OK
    BY <1>2, <2>2, <2>4
  <2> DEFINE fees  == CurveFeeBps(c, MintSupply).fees
             total == WithFees(BuyQuote(c, R).val, fees)
             fits  == ExactInFeeAmounts(budget, CurveBps(fees)).net
                        + (ExactInFeeAmounts(budget, CurveBps(fees)).fees[1]
                             + ExactInFeeAmounts(budget, CurveBps(fees)).fees[2])
  <2>6. /\ total \in Nat /\ total <= fits /\ fits \in Nat /\ fits <= budget
        /\ cost.val \in Nat /\ cost.val <= total
    BY <2>1, <2>4, <2>5, CompletionFits DEF r
  <2> HIDE DEF total, fits, cost
  <2> QED BY <1>0, <2>6
<1> HIDE DEF qt, cost, out
<1> QED BY <1>0, <1>1, <1>2 DEF qt

-----------------------------------------------------------------------------
(* Quotes and fills: what the program moves, against what was quoted *)

(* The curve part of a buy of `amount` tokens before any cast.               *)
CostOf(c, amount) ==
  LET tokens == Least(amount, c.real_token_reserves)
      cost   == (tokens * c.virtual_quote_reserves) \div (c.virtual_token_reserves - tokens) + 1
  IN  WithFees(cost, CurveFeeBps(c, MintSupply).fees)

(* buy_quote, without its check that the cost fits a u64, is positive.       *)
LEMMA CostGood ==
  ASSUME NEW c, Quotable(c), NEW amount \in Nat, amount > 0
  PROVE  LET tokens == Least(amount, c.real_token_reserves)
             d == (tokens * c.virtual_quote_reserves) \div (c.virtual_token_reserves - tokens)
             fees == CurveFeeBps(c, MintSupply).fees
         IN  /\ tokens \in Nat /\ tokens > 0 /\ tokens < c.virtual_token_reserves
             /\ d \in Nat /\ fees \in Fees
             /\ FeeOn(d + 1, fees) \in Nat
             /\ CostOf(c, amount) = (d + 1) + FeeOn(d + 1, fees)
             /\ CostOf(c, amount) \in Nat
<1> DEFINE tokens == Least(amount, c.real_token_reserves)
           q == c.virtual_quote_reserves
           b == c.virtual_token_reserves - tokens
           a == tokens * q
           d == a \div b
           fees == CurveFeeBps(c, MintSupply).fees
<1>1. /\ tokens \in Nat /\ tokens > 0 /\ tokens < c.virtual_token_reserves
      /\ q \in Nat /\ c.virtual_token_reserves \in Nat
  BY DEF Quotable, BondingCurve, Least
<1>2. fees \in Fees
  BY <1>1, CurveFeeBpsType DEF Quotable
<1>3. a \in Nat /\ b \in Nat /\ b > 0
  <2> HIDE DEF tokens, q
  <2> QED BY <1>1
<1> HIDE DEF a, b
<1>4. d \in Nat
  BY <1>3, DivBounds
<1> HIDE DEF d, fees
<1>5. FeeOn(d + 1, fees) \in Nat
  BY <1>2, <1>4, FeeOnMono
<1>6. CostOf(c, amount) = (d + 1) + FeeOn(d + 1, fees)
  BY DEF CostOf, WithFees, d, a, b, fees
<1> HIDE DEF tokens
<1>7. CostOf(c, amount) \in Nat
  BY <1>4, <1>5, <1>6
<1> QED BY <1>1, <1>2, <1>4, <1>5, <1>6, <1>7 DEF d, a, b, fees, tokens

(* buy_v3: as long as its own cast loses nothing, what was quoted for an     *)
(* amount of tokens is what the program charges, leg for leg.                *)
LEMMA BuyQuoteIsFill ==
  ASSUME NEW c, Quotable(c), NEW ata \in Nat, NEW amount \in Nat, amount > 0, NEW slip,
         CurveOpen(c, FALSE), CostOf(c, amount) <= U64_MAX,
         BuyQuoteBondingCurveV3TokenOut(c, MintSupply, ata, amount, slip).err = OK
  PROVE  LET q == BuyQuoteBondingCurveV3TokenOut(c, MintSupply, ata, amount, slip)
             f == BuyFill(c, ata, amount, 3)
         IN  /\ f.err = OK
             /\ q.amount = ChargeOf(f) /\ q.min_out = TokensOf(f)
<1> DEFINE R      == c.real_token_reserves
           tokens == Least(amount, R)
           d      == (tokens * c.virtual_quote_reserves) \div (c.virtual_token_reserves - tokens)
           bps    == CurveFeeBps(c, MintSupply)
           cost   == BuyQuote(c, tokens)
           ask    == BuyV3SolAmountFromTokenAmount(c, MintSupply, ata, amount)
           q      == BuyQuoteBondingCurveV3TokenOut(c, MintSupply, ata, amount, slip)
           f      == BuyFill(c, ata, amount, 3)
<1> SUFFICES f.err = OK /\ q.amount = ChargeOf(f) /\ q.min_out = TokensOf(f)
  BY Zenon
<1>1. /\ tokens \in Nat /\ tokens > 0 /\ tokens < c.virtual_token_reserves
      /\ d \in Nat /\ bps.fees \in Fees
      /\ FeeOn(d + 1, bps.fees) \in Nat
      /\ CostOf(c, amount) = (d + 1) + FeeOn(d + 1, bps.fees)
      /\ U64_MAX \in Nat
  BY CostGood, U64Assumption
<1>2. R \in Nat /\ R < c.virtual_token_reserves /\ c.virtual_token_reserves \in Nat
  BY DEF Quotable, BondingCurve
<1> HIDE DEF d
<1>3. d + 1 \in U64
  BY <1>1 DEF U64
<1>4. cost = Ok(d + 1)
  <2> HIDE DEF tokens
  <2> QED BY <1>1, <1>2, <1>3 DEF BuyQuote, d
<1>5. WithFees(d + 1, bps.fees) = (d + 1) + FeeOn(d + 1, bps.fees)
  BY DEF WithFees
<1>6. /\ ask.err = OK /\ q.amount = ask.val
      /\ q.min_out = IF c.is_mayhem_mode THEN tokens ELSE amount
  BY DEF BuyQuoteBondingCurveV3TokenOut, NoQuote, Quote, OK
<1> HIDE DEF q
<1>7. FeeOn(d + 1, bps.fees) = ProtocolFee(d + 1, bps.fees) + CreatorFee(d + 1, bps.fees)
  BY DEF FeeOn, ProtocolFee, CreatorFee
<1>8. ProtocolFee(d + 1, bps.fees) \in Nat /\ CreatorFee(d + 1, bps.fees) \in Nat
  BY <1>1, FeesOfCost
<1>9. CASE amount <= R \/ c.is_mayhem_mode
  <2>1. ask = BuySolAmountFromTokenAmount(c, MintSupply, amount)
    BY <1>9 DEF BuyV3SolAmountFromTokenAmount
  <2>2. bps.err = OK /\ ask = Ok(AsU64(WithFees(d + 1, bps.fees)))
    BY <1>1, <1>2, <1>6, <2>1 DEF BuySolAmountFromTokenAmount, Err, Ok, OK, d
  <2>3. ask.val = (d + 1) + FeeOn(d + 1, bps.fees)
    <3> HIDE DEF bps, ask
    <3> QED BY <1>1, <1>5, <2>2, AsU64Shrinks DEF Ok
  <2>4. f = Fill(OK, tokens, d + 1, 0, 0, ProtocolFee(d + 1, bps.fees),
                 CreatorFee(d + 1, bps.fees))
    BY <1>4, <1>9, <2>2 DEF BuyFill, CurveOpen, Ok, OK
  <2>5. q.min_out = tokens
    BY <1>2, <1>6, <1>9 DEF Least
  <2> HIDE DEF tokens, bps, ask, f
  <2>6. ChargeOf(f) = (d + 1) + FeeOn(d + 1, bps.fees) /\ TokensOf(f) = tokens /\ f.err = OK
    BY <1>1, <1>7, <1>8, <2>4 DEF Fill, ChargeOf, TokensOf
  <2> QED BY <1>6, <2>3, <2>5, <2>6
<1>10. CASE ~ (amount <= R \/ c.is_mayhem_mode)
  <2> DEFINE tobe == PoolToBe(c, ata, R, d + 1)
             past == amount - R
             leg  == CeilDiv(tobe.quote * past, tobe.base - past)
             total == WithFees(d + 1, bps.fees) + WithFees(leg, bps.fees)
  <2>1. tokens = R /\ past \in Nat /\ past > 0
    BY <1>2, <1>10 DEF Least
  <2>2. BuyQuote(c, R) = Ok(d + 1)
    <3> HIDE DEF tokens
    <3> QED BY <1>4, <2>1
  <2>3. /\ bps.err = OK /\ tobe.err = OK /\ ~ (tobe.base <= past)
        /\ ask = Ok(total)
    <3> HIDE DEF tokens, bps
    <3>1. BuyQuote(c, R).err = OK /\ BuyQuote(c, R).val = d + 1
      BY <2>2 DEF Ok
    <3> QED BY <1>6, <1>10, <3>1 DEF BuyV3SolAmountFromTokenAmount, Err, Ok, OK, bps
  <2>4. f = Fill(OK, R, d + 1, past, leg,
                 ProtocolFee(d + 1, bps.fees) + ProtocolFee(leg, bps.fees),
                 CreatorFee(d + 1, bps.fees) + CreatorFee(leg, bps.fees))
    <3>1. cost.err = OK /\ cost.val = d + 1
      BY <1>4 DEF Ok
    <3> HIDE DEF cost, bps
    <3> QED BY <1>10, <2>1, <2>3, <3>1 DEF BuyFill, CurveOpen, cost, bps
  <2>5. tobe.base \in Nat /\ tobe.quote \in Nat
    BY <1>1, <1>2, <2>3, PoolToBeGood DEF Quotable
  <2>6. leg \in Nat
    <3> HIDE DEF tobe, past
    <3>1. tobe.quote * past \in Nat /\ tobe.base - past \in Nat /\ tobe.base - past > 0
      BY <2>1, <2>3, <2>5
    <3> QED BY <3>1, CeilDivLeast
  <2> HIDE DEF leg, tobe
  <2>7. /\ ProtocolFee(leg, bps.fees) \in Nat /\ CreatorFee(leg, bps.fees) \in Nat
        /\ WithFees(leg, bps.fees) = leg + (ProtocolFee(leg, bps.fees) + CreatorFee(leg, bps.fees))
    BY <1>1, <2>6, FeesOfCost DEF WithFees, FeeOn, ProtocolFee, CreatorFee
  <2>8. ask.val = total
    BY <2>3 DEF Ok
  <2>9. ChargeOf(f) = total
    <3> HIDE DEF bps, ask, past
    <3> QED BY <1>1, <1>5, <1>7, <1>8, <2>4, <2>6, <2>7 DEF Fill, ChargeOf
  <2>10. f.err = OK /\ TokensOf(f) = amount
    <3>1. f.err = OK /\ TokensOf(f) = R + past
      BY <2>4 DEF Fill, TokensOf
    <3> HIDE DEF f
    <3> QED BY <1>2, <3>1
  <2> HIDE DEF f, ask, total
  <2> QED BY <1>6, <1>10, <2>8, <2>9, <2>10
<1> QED BY <1>9, <1>10

(* A buy the program fills has passed those checks already. *)
LEMMA FilledBuy ==
  ASSUME NEW c, Quotable(c), NEW ata \in Nat, c.real_token_reserves <= ata,
         NEW amount \in Nat, BuyFill(c, ata, amount, 3).err = OK
  PROVE  /\ CurveOpen(c, FALSE) /\ amount > 0
         /\ CostOf(c, amount) \in Nat /\ ChargeOf(BuyFill(c, ata, amount, 3)) \in Nat
         /\ CostOf(c, amount) <= ChargeOf(BuyFill(c, ata, amount, 3))
<1> DEFINE R      == c.real_token_reserves
           tokens == Least(amount, R)
           d      == (tokens * c.virtual_quote_reserves) \div (c.virtual_token_reserves - tokens)
           bps    == CurveFeeBps(c, MintSupply)
           cost   == BuyQuote(c, tokens)
           f      == BuyFill(c, ata, amount, 3)
<1>1. CurveOpen(c, FALSE) /\ amount > 0 /\ cost.err = OK
  BY DEF BuyFill, NoFill, Fill, CurveOpen, OK
<1>2. /\ tokens \in Nat /\ tokens > 0 /\ tokens < c.virtual_token_reserves
      /\ d \in Nat /\ bps.fees \in Fees
      /\ CostOf(c, amount) = (d + 1) + FeeOn(d + 1, bps.fees)
      /\ CostOf(c, amount) \in Nat
  BY <1>1, CostGood
<1>3. cost.val = d + 1
  <2> HIDE DEF tokens
  <2> QED BY <1>1 DEF BuyQuote, Err, Ok, OK
<1>4. GoodBuy(c, ata, f)
  BY BuyFillGood DEF Quotable, Buyable
<1>5. \/ /\ f.fee = ProtocolFee(cost.val, bps.fees)
         /\ f.creator_fee = CreatorFee(cost.val, bps.fees)
      \/ \E leg \in Nat : /\ f.fee = ProtocolFee(cost.val, bps.fees) + ProtocolFee(leg, bps.fees)
                          /\ f.creator_fee = CreatorFee(cost.val, bps.fees) + CreatorFee(leg, bps.fees)
  <2> DEFINE tobe == PoolToBe(c, ata, R, cost.val)
             past == amount - R
             leg  == CeilDiv(tobe.quote * past, tobe.base - past)
  <2>1. \/ f = Fill(OK, tokens, cost.val, 0, 0,
                    ProtocolFee(cost.val, bps.fees), CreatorFee(cost.val, bps.fees))
        \/ f = Fill(OK, tokens, cost.val, past, leg,
                    ProtocolFee(cost.val, bps.fees) + ProtocolFee(leg, bps.fees),
                    CreatorFee(cost.val, bps.fees) + CreatorFee(leg, bps.fees))
    BY DEF BuyFill, NoFill, Fill, OK
  <2> HIDE DEF leg, cost, bps
  <2>2. f.pool_quote \in Nat
    BY <1>4 DEF GoodBuy
  <2> HIDE DEF tokens, f, past, tobe
  <2> QED BY <2>1, <2>2 DEF Fill
<1>6. f.curve_quote = cost.val
  BY DEF BuyFill, NoFill, Fill, OK
<1> HIDE DEF f, d, bps, cost
<1>7. ProtocolFee(d + 1, bps.fees) \in Nat /\ CreatorFee(d + 1, bps.fees) \in Nat
      /\ FeeOn(d + 1, bps.fees) = ProtocolFee(d + 1, bps.fees) + CreatorFee(d + 1, bps.fees)
  BY <1>2, FeesOfCost DEF FeeOn, ProtocolFee, CreatorFee
<1>8. f.fee >= ProtocolFee(d + 1, bps.fees) /\ f.creator_fee >= CreatorFee(d + 1, bps.fees)
  BY <1>2, <1>3, <1>5, <1>7, FeesOfCost
<1>9. ChargeOf(f) \in Nat /\ CostOf(c, amount) <= ChargeOf(f)
  <2>1. f.pool_quote \in Nat /\ f.fee \in Nat /\ f.creator_fee \in Nat
    BY <1>4 DEF GoodBuy
  <2> QED BY <1>2, <1>3, <1>6, <1>7, <1>8, <2>1 DEF ChargeOf
<1> QED BY <1>1, <1>2, <1>9 DEF f

(* The cases of buy_exact_quote_in_v3, its parts named. *)
LEMMA ExactInFillIs ==
  ASSUME NEW c, NEW ata, NEW budget
  PROVE  LET R       == c.real_token_reserves
             bps     == CurveFeeBps(c, MintSupply)
             split   == ExactInFeeAmounts(budget, CurveBps(bps.fees))
             swap    == SwapExactInput(split.net - 1, c.virtual_quote_reserves,
                                       c.virtual_token_reserves)
             cost    == BuyQuote(c, R)
             fee     == ProtocolFee(cost.val, bps.fees)
             creator == CreatorFee(cost.val, bps.fees)
             left    == budget - (cost.val + fee + creator)
             ptb     == PoolToBe(c, ata, R, cost.val)
             leg     == PostCompleteLegExactQuote(ptb, bps.fees, left, FALSE)
         IN  BuyExactInFill(c, ata, budget, 3) =
               IF ~CurveOpen(c, FALSE) \/ budget = 0 THEN NoFill("Refused")
               ELSE IF bps.err # OK \/ split.err # OK THEN NoFill("Refused")
               ELSE IF swap.val = 0 THEN NoFill("Refused")
               ELSE IF swap.val <= R
                 THEN Fill(OK, swap.val, split.net, 0, 0, split.fees[1], split.fees[2])
               ELSE IF cost.err # OK \/ left < 0 THEN NoFill("Refused")
               ELSE IF c.is_mayhem_mode \/ left = 0
                 THEN Fill(OK, R, cost.val, 0, 0, fee, creator)
               ELSE IF ptb.err # OK \/ leg.err # OK THEN NoFill("Refused")
               ELSE Fill(OK, R, cost.val, leg.base_out, leg.quote_in,
                         fee + leg.fee, creator + leg.creator_fee)
<1>1. (3 = 2) = FALSE
  OBVIOUS
<1>2. CurveOpen(c, 3 = 2) <=> CurveOpen(c, FALSE)
  BY DEF CurveOpen
<1> QED BY <1>1, <1>2 DEF BuyExactInFill

(* buy_exact_quote_in_v3: what was quoted for a budget is what the program   *)
(* charges and delivers.                                                     *)
LEMMA ExactInQuoteIsFill ==
  ASSUME NEW c, Quotable(c), NEW ata \in Nat, NEW budget \in U64, NEW slip,
         CurveOpen(c, FALSE), BuyTokensExactIn(c, MintSupply, budget).val # 0,
         BuyQuoteBondingCurveV3SolIn(c, MintSupply, ata, budget, slip).err = OK
  PROVE  LET q == BuyQuoteBondingCurveV3SolIn(c, MintSupply, ata, budget, slip)
             f == BuyExactInFill(c, ata, budget, 3)
         IN  /\ f.err = OK
             /\ q.amount = TokensOf(f) /\ q.input_amount_used = ChargeOf(f)
<1> DEFINE R     == c.real_token_reserves
           bps   == CurveFeeBps(c, MintSupply)
           split == ExactInFeeAmounts(budget, CurveBps(bps.fees))
           swap  == SwapExactInput(split.net - 1, c.virtual_quote_reserves,
                                   c.virtual_token_reserves)
           out   == BuyTokensExactIn(c, MintSupply, budget)
           cost  == BuyQuote(c, R)
           fee   == ProtocolFee(cost.val, bps.fees)
           creator == CreatorFee(cost.val, bps.fees)
           total == WithFees(cost.val, bps.fees)
           left  == budget - total
           rest  == budget - (cost.val + fee + creator)
           tobe  == PoolToBe(c, ata, R, cost.val)
           leg   == PostCompleteLegExactQuote(tobe, bps.fees, left, FALSE)
           then  == PostCompleteLegExactQuote(tobe, bps.fees, rest, FALSE)
           r     == BuyV3TokenAmountFromSolAmount(c, MintSupply, ata, budget)
           q     == BuyQuoteBondingCurveV3SolIn(c, MintSupply, ata, budget, slip)
           f     == BuyExactInFill(c, ata, budget, 3)
<1> SUFFICES f.err = OK /\ q.amount = TokensOf(f) /\ q.input_amount_used = ChargeOf(f)
  BY Zenon
<1>0. budget \in Nat /\ c \in BondingCurve /\ R \in Nat /\ R > 0
  BY U64Assumption DEF U64, Quotable, BondingCurve
<1>1. r.err = OK /\ q.amount = r.tokens /\ q.input_amount_used = r.charged
  BY DEF BuyQuoteBondingCurveV3SolIn, ExactInQuote, NoQuote, Quote, OK
<1>2. out.err = OK
  BY <1>1 DEF BuyV3TokenAmountFromSolAmount
<1>3. /\ bps.err = OK /\ bps.fees \in Fees /\ split.err = OK /\ out.val \in Nat
      /\ split.net \in Nat /\ split.fees \in Nat \X Nat \X Nat
  <2>1. bps.err = OK /\ bps.fees \in Fees /\ split.err = OK /\ out.val \in Nat
    BY <1>0, <1>2, ExactInTokens
  <2> QED BY <1>0, <2>1, CurveBpsType, ExactInSplit
<1>4. out = swap /\ budget # 0 /\ out.val # 0
  BY <1>2 DEF BuyTokensExactIn, Ok, Err, OK
<1>5. f = IF ~CurveOpen(c, FALSE) \/ budget = 0 THEN NoFill("Refused")
           ELSE IF bps.err # OK \/ split.err # OK THEN NoFill("Refused")
           ELSE IF swap.val = 0 THEN NoFill("Refused")
           ELSE IF swap.val <= R
             THEN Fill(OK, swap.val, split.net, 0, 0, split.fees[1], split.fees[2])
           ELSE IF cost.err # OK \/ rest < 0 THEN NoFill("Refused")
           ELSE IF c.is_mayhem_mode \/ rest = 0
             THEN Fill(OK, R, cost.val, 0, 0, fee, creator)
           ELSE IF tobe.err # OK \/ then.err # OK THEN NoFill("Refused")
           ELSE Fill(OK, R, cost.val, then.base_out, then.quote_in,
                     fee + then.fee, creator + then.creator_fee)
  BY ExactInFillIs, Zenon
<1> HIDE DEF q, f
<1>6. CASE out.val <= R
  <2>1. r = [err |-> OK, tokens |-> out.val, charged |-> split.net + (split.fees[1] + split.fees[2])]
    BY <1>1, <1>2, <1>6 DEF BuyV3TokenAmountFromSolAmount
  <2>2. f = Fill(OK, out.val, split.net, 0, 0, split.fees[1], split.fees[2])
    <3> HIDE DEF bps, split, swap, out
    <3> QED BY <1>3, <1>4, <1>5, <1>6
  <2> HIDE DEF split, out, r
  <2> QED BY <1>1, <1>3, <2>1, <2>2 DEF Fill, TokensOf, ChargeOf
<1>7. CASE ~ (out.val <= R)
  <2>1. cost.err = OK /\ ~ (left < 0)
    BY <1>1, <1>2, <1>7 DEF BuyV3TokenAmountFromSolAmount, OK
  <2>2. cost.val \in Nat
    BY <1>0, <2>1, BuyQuoteGood
  <2>3. fee \in Nat /\ creator \in Nat
    BY <1>3, <2>2, FeesOfCost
  <2>4. total = cost.val + fee + creator /\ total = cost.val + (fee + creator)
    BY <2>2, <2>3 DEF WithFees, FeeOn, ProtocolFee, CreatorFee
  <2>5. left = budget - (cost.val + fee + creator)
    BY <2>4
  <2> HIDE DEF fee, creator
  <2>6. CASE left = 0 \/ c.is_mayhem_mode
    <3>1. r = [err |-> OK, tokens |-> R, charged |-> total]
      BY <1>1, <1>2, <1>7, <2>1, <2>6 DEF BuyV3TokenAmountFromSolAmount, OK
    <3>2. f = Fill(OK, R, cost.val, 0, 0, fee, creator)
      <4>1. rest = left
        BY <2>5
      <4> HIDE DEF bps, split, swap, out, cost, rest, left, total, tobe, then
      <4> QED BY <1>3, <1>4, <1>5, <1>7, <2>1, <2>6, <4>1
    <3> HIDE DEF r, total, cost
    <3> QED BY <1>0, <1>1, <2>2, <2>3, <2>4, <3>1, <3>2 DEF Fill, TokensOf, ChargeOf
  <2>7. CASE ~ (left = 0 \/ c.is_mayhem_mode)
    <3>1. /\ tobe.err = OK /\ leg.err = OK
          /\ r = [err |-> OK, tokens |-> R + leg.base_out,
                  charged |-> total + (leg.quote_in + leg.fee + leg.creator_fee)]
      BY <1>1, <1>2, <1>7, <2>1, <2>7 DEF BuyV3TokenAmountFromSolAmount, OK
    <3>2. rest = left /\ then = leg
      BY <2>5
    <3>3. f = Fill(OK, R, cost.val, leg.base_out, leg.quote_in,
                   fee + leg.fee, creator + leg.creator_fee)
      <4>1. rest # 0 /\ ~ (rest < 0) /\ tobe.err = OK /\ then.err = OK
        BY <2>1, <2>7, <3>1, <3>2
      <4> HIDE DEF bps, split, swap, out, cost, rest, left, total, tobe, then, leg
      <4>2. f = Fill(OK, R, cost.val, then.base_out, then.quote_in,
                     fee + then.fee, creator + then.creator_fee)
        BY <1>3, <1>4, <1>5, <1>7, <2>1, <2>7, <4>1
      <4> QED BY <3>2, <4>2
    <3>4. /\ leg.base_out \in Nat /\ leg.quote_in \in Nat /\ leg.fee \in Nat
          /\ leg.creator_fee \in Nat
      <4>1. tobe.base \in Nat /\ tobe.base > 0 /\ tobe.quote \in Nat /\ tobe.quote > 0
        BY <1>0, <2>2, <3>1, PoolToBeGood
      <4>2. left \in Nat
        <5> HIDE DEF total, left
        <5> QED BY <1>0, <2>1, <2>2, <2>3, <2>4, <2>5
      <4> HIDE DEF tobe, left
      <4> QED BY <1>3, <3>1, <4>1, <4>2, LegGood
    <3> HIDE DEF r, total, cost, leg
    <3> QED BY <1>0, <1>1, <2>2, <2>3, <2>4, <3>1, <3>3, <3>4 DEF Fill, TokensOf, ChargeOf
  <2> QED BY <2>6, <2>7
<1> QED BY <1>6, <1>7

(* An exact-in buy the program fills charges at most its budget, on any      *)
(* curve: quotes do not enter.                                               *)
LEMMA FilledExactIn ==
  ASSUME NEW c, Quotable(c), NEW ata \in Nat, NEW budget \in U64,
         BuyExactInFill(c, ata, budget, 3).err = OK
  PROVE  /\ CurveOpen(c, FALSE)
         /\ BuyTokensExactIn(c, MintSupply, budget).err = OK =>
              BuyTokensExactIn(c, MintSupply, budget).val # 0
         /\ ChargeOf(BuyExactInFill(c, ata, budget, 3)) <= budget
<1> DEFINE R     == c.real_token_reserves
           bps   == CurveFeeBps(c, MintSupply)
           split == ExactInFeeAmounts(budget, CurveBps(bps.fees))
           swap  == SwapExactInput(split.net - 1, c.virtual_quote_reserves,
                                   c.virtual_token_reserves)
           cost  == BuyQuote(c, R)
           fee   == ProtocolFee(cost.val, bps.fees)
           creator == CreatorFee(cost.val, bps.fees)
           left  == budget - (cost.val + fee + creator)
           tobe  == PoolToBe(c, ata, R, cost.val)
           leg   == PostCompleteLegExactQuote(tobe, bps.fees, left, FALSE)
           f     == BuyExactInFill(c, ata, budget, 3)
<1>0. budget \in Nat /\ c \in BondingCurve /\ R \in Nat /\ R > 0 /\ c.virtual_token_reserves # 0
  BY U64Assumption DEF U64, Quotable, BondingCurve
<1>6. f = IF ~CurveOpen(c, FALSE) \/ budget = 0 THEN NoFill("Refused")
           ELSE IF bps.err # OK \/ split.err # OK THEN NoFill("Refused")
           ELSE IF swap.val = 0 THEN NoFill("Refused")
           ELSE IF swap.val <= R
             THEN Fill(OK, swap.val, split.net, 0, 0, split.fees[1], split.fees[2])
           ELSE IF cost.err # OK \/ left < 0 THEN NoFill("Refused")
           ELSE IF c.is_mayhem_mode \/ left = 0
             THEN Fill(OK, R, cost.val, 0, 0, fee, creator)
           ELSE IF tobe.err # OK \/ leg.err # OK THEN NoFill("Refused")
           ELSE Fill(OK, R, cost.val, leg.base_out, leg.quote_in,
                     fee + leg.fee, creator + leg.creator_fee)
  BY ExactInFillIs, Zenon
<1> HIDE DEF f
<1>1. /\ CurveOpen(c, FALSE) /\ budget # 0
      /\ bps.err = OK /\ split.err = OK /\ swap.val # 0
      /\ ~ (swap.val <= R) =>
           /\ cost.err = OK /\ ~ (left < 0)
           /\ ~ (c.is_mayhem_mode \/ left = 0) => tobe.err = OK /\ leg.err = OK
  <2>1. f.err = OK
    BY DEF f
  <2> HIDE DEF bps, split, swap, cost, left, fee, creator, tobe, leg
  <2> QED BY <1>6, <2>1 DEF NoFill, Fill, OK
<1>2. BuyTokensExactIn(c, MintSupply, budget).err = OK =>
        BuyTokensExactIn(c, MintSupply, budget).val # 0
  BY <1>0, <1>1 DEF BuyTokensExactIn, Err, OK
<1>3. bps.fees \in Fees
  BY <1>0, CurveFeeBpsType DEF Quotable, BondingCurve
<1>4. CASE swap.val <= R
  <2>1. f = Fill(OK, swap.val, split.net, 0, 0, split.fees[1], split.fees[2])
    <3> HIDE DEF bps, split, swap
    <3> QED BY <1>1, <1>4, <1>6
  <2>2. /\ split.net \in Nat /\ split.fees[1] \in Nat /\ split.fees[2] \in Nat
        /\ split.net + (split.fees[1] + split.fees[2]) <= budget
    <3>1. split.net \in Nat /\ 0 <= split.net
      BY <1>0, <1>1, <1>3, CurveBpsType, ExactInSplit
    <3> QED BY <1>0, <1>1, <1>3, <3>1, CostFitsSplit
  <2> HIDE DEF split, swap
  <2>3. ChargeOf(f) <= budget
    BY <1>0, <2>1, <2>2 DEF Fill, ChargeOf
  <2> QED BY <1>1, <1>2, <2>3 DEF f
<1>5. CASE ~ (swap.val <= R)
  <2>1. cost.err = OK /\ ~ (left < 0)
    BY <1>1, <1>5
  <2>2. cost.val \in Nat /\ fee \in Nat /\ creator \in Nat
    <3>1. cost.val \in Nat
      BY <1>0, <2>1, BuyQuoteGood
    <3> QED BY <1>3, <3>1, FeesOfCost
  <2>3. left \in Nat
    <3> HIDE DEF fee, creator, cost
    <3> QED BY <1>0, <2>1, <2>2
  <2>4. CASE c.is_mayhem_mode \/ left = 0
    <3>1. f = Fill(OK, R, cost.val, 0, 0, fee, creator)
      <4> HIDE DEF bps, split, swap, cost, left, fee, creator
      <4> QED BY <1>1, <1>5, <1>6, <2>1, <2>4
    <3> HIDE DEF fee, creator, cost
    <3>2. ChargeOf(f) <= budget
      BY <1>0, <2>2, <2>3, <3>1 DEF Fill, ChargeOf
    <3> QED BY <1>1, <1>2, <3>2 DEF f
  <2>5. CASE ~ (c.is_mayhem_mode \/ left = 0)
    <3>1. /\ tobe.err = OK /\ leg.err = OK
          /\ f = Fill(OK, R, cost.val, leg.base_out, leg.quote_in,
                      fee + leg.fee, creator + leg.creator_fee)
      <4>1. tobe.err = OK /\ leg.err = OK
        BY <1>1, <1>5, <2>5
      <4>2. f = Fill(OK, R, cost.val, leg.base_out, leg.quote_in,
                     fee + leg.fee, creator + leg.creator_fee)
        <5> HIDE DEF bps, split, swap, cost, left, fee, creator, tobe, leg
        <5> QED BY <1>1, <1>5, <1>6, <2>1, <2>5, <4>1
      <4> QED BY <4>1, <4>2
    <3>2. tobe.base \in Nat /\ tobe.base > 0 /\ tobe.quote \in Nat /\ tobe.quote > 0
      BY <1>0, <2>2, <3>1, PoolToBeGood
    <3>3. /\ leg.quote_in \in Nat /\ leg.fee \in Nat /\ leg.creator_fee \in Nat
          /\ leg.quote_in + leg.fee + leg.creator_fee <= left
      <4> HIDE DEF tobe, left
      <4> QED BY <1>3, <2>3, <3>1, <3>2, LegGood, LegFits
    <3> HIDE DEF fee, creator, cost, leg
    <3>4. ChargeOf(f) <= budget
      BY <1>0, <2>2, <2>3, <3>1, <3>3 DEF Fill, ChargeOf
    <3> QED BY <1>1, <1>2, <3>4 DEF f
  <2> QED BY <2>4, <2>5
<1> QED BY <1>4, <1>5

(* sell_v3: a quoted sale is not refused for its fees, and pays at least     *)
(* what was quoted, exactly that unless the quoter's cast wrapped.           *)
LEMMA SellQuoteIsFill ==
  ASSUME NEW c \in BondingCurve, c.virtual_token_reserves > 0,
         NEW amount \in Nat, amount > 0, NEW slip,
         CurveOpen(c, FALSE), SellQuoteBondingCurve(c, MintSupply, amount, slip).err = OK
  PROVE  LET q == SellQuoteBondingCurve(c, MintSupply, amount, slip)
             f == SellFill(c, amount, 3)
         IN  /\ f.err = OK
             /\ ProceedsOf(f) \in Nat
             /\ q.amount \in Nat /\ q.amount <= ProceedsOf(f)
             /\ ProceedsOf(f) <= U64_MAX => q.amount = ProceedsOf(f)
<1> DEFINE bps == CurveFeeBps(c, MintSupply)
           num == amount * c.virtual_quote_reserves
           den == c.virtual_token_reserves + amount
           g   == num \div den
           ask == SellSolAmountFromTokenAmount(c, MintSupply, amount)
           q   == SellQuoteBondingCurve(c, MintSupply, amount, slip)
           f   == SellFill(c, amount, 3)
<1> SUFFICES /\ f.err = OK
             /\ ProceedsOf(f) \in Nat
             /\ q.amount \in Nat /\ q.amount <= ProceedsOf(f)
             /\ ProceedsOf(f) <= U64_MAX => q.amount = ProceedsOf(f)
  BY Zenon
<1>1. num \in Nat /\ den \in Nat /\ den > 0 /\ c.virtual_token_reserves # 0
  BY DEF BondingCurve
<1>2. bps.fees \in Fees
  BY CurveFeeBpsType
<1>3. ask.err = OK /\ q.amount = ask.val
  BY DEF SellQuoteBondingCurve, NoQuote, Quote, OK
<1> HIDE DEF q
<1>4. /\ bps.err = OK /\ ~ (g < FeeOn(g, bps.fees))
      /\ ask = Ok(AsU64(g - FeeOn(g, bps.fees)))
  BY <1>1, <1>3 DEF SellSolAmountFromTokenAmount, Err, Ok, OK
<1> HIDE DEF num, den
<1>5. g \in Nat
  BY <1>1, DivBounds
<1> HIDE DEF g, bps
<1>6. /\ ProtocolFee(g, bps.fees) \in Nat /\ CreatorFee(g, bps.fees) \in Nat
      /\ FeeOn(g, bps.fees) = ProtocolFee(g, bps.fees) + CreatorFee(g, bps.fees)
  BY <1>2, <1>5, FeesOfCost DEF FeeOn, ProtocolFee, CreatorFee
<1>7. f = Fill(OK, amount, g, 0, 0, ProtocolFee(g, bps.fees), CreatorFee(g, bps.fees))
  BY <1>4, <1>6 DEF SellFill, CurveOpen, OK, g, bps, num, den
<1>8. f.err = OK /\ ProceedsOf(f) = g - FeeOn(g, bps.fees)
  BY <1>6, <1>7 DEF Fill, ProceedsOf
<1>9. g - FeeOn(g, bps.fees) \in Nat
  BY <1>4, <1>5, <1>6
<1> HIDE DEF f
<1> QED BY <1>3, <1>4, <1>8, <1>9, AsU64Shrinks DEF Ok

(* What the token-out quoter asks is a natural number. *)
LEMMA AskNat ==
  ASSUME NEW c, Quotable(c), NEW ata \in Nat, NEW amount \in Nat,
         BuyV3SolAmountFromTokenAmount(c, MintSupply, ata, amount).err = OK
  PROVE  BuyV3SolAmountFromTokenAmount(c, MintSupply, ata, amount).val \in Nat
<1> DEFINE R    == c.real_token_reserves
           ask  == BuyV3SolAmountFromTokenAmount(c, MintSupply, ata, amount)
           own  == BuySolAmountFromTokenAmount(c, MintSupply, amount)
<1>1. R \in Nat /\ R < c.virtual_token_reserves
  BY DEF Quotable, BondingCurve
<1>2. CASE amount <= R \/ c.is_mayhem_mode
  <2>1. ask = own /\ own.err = OK
    BY <1>2 DEF BuyV3SolAmountFromTokenAmount, Err, OK
  <2>2. CASE amount = 0
    BY <2>1, <2>2 DEF BuySolAmountFromTokenAmount, Ok
  <2>3. CASE amount > 0
    <3> DEFINE tokens == Least(amount, R)
               d == (tokens * c.virtual_quote_reserves) \div (c.virtual_token_reserves - tokens)
               fees == CurveFeeBps(c, MintSupply).fees
    <3>1. /\ tokens \in Nat /\ tokens < c.virtual_token_reserves
          /\ CostOf(c, amount) \in Nat
      BY <2>3, CostGood
    <3>2. own = Ok(AsU64(CostOf(c, amount)))
      BY <1>1, <2>1, <2>3, <3>1 DEF BuySolAmountFromTokenAmount, CostOf, Err, Ok, OK
    <3> HIDE DEF ask, own
    <3> QED BY <2>1, <3>1, <3>2, AsU64Shrinks DEF Ok, ask
  <2> QED BY <2>2, <2>3
<1>3. CASE ~ (amount <= R \/ c.is_mayhem_mode)
  <2>1. ask.val \in U64
    BY <1>3 DEF BuyV3SolAmountFromTokenAmount, Err, Ok, OK
  <2> HIDE DEF ask
  <2> QED BY <2>1, U64Assumption DEF U64, ask
<1> QED BY <1>2, <1>3

-----------------------------------------------------------------------------
(* Theorems *)

(* What the invariant says of the curve the quoters are asked about. *)
LEMMA CurveIsQuotable ==
  ASSUME Inv
  PROVE  /\ curve \in BondingCurve /\ base_ata \in Nat
         /\ curve.complete => curve.real_token_reserves = 0
         /\ ~curve.complete => Quotable(curve)
<1>1. /\ curve \in BondingCurve /\ base_ata \in Nat
      /\ curve.complete <=> curve.real_token_reserves = 0
  BY DEF Inv, TypeOK, Flags
<1>2. ~curve.complete => Quotable(curve)
  BY <1>1, TradingCurve DEF Quotable, Buyable, BondingCurve
<1> QED BY <1>1, <1>2

(* A budget within the users' quote never overflows the raise of the         *)
(* pool-to-be: the users' purse and the raise are parts of one supply.       *)
LEMMA RaiseFits ==
  ASSUME Inv, ~curve.complete, NEW cost \in Nat, cost <= purse,
         PoolToBe(curve, base_ata, curve.real_token_reserves, cost).err = "MathOverflow"
  PROVE  /\ IsSolLikeQuoteMint(curve.quote_mint)
         /\ curve.real_quote_reserves + cost < Global.pool_migration_fee
<1> DEFINE fee == IF IsSolLikeQuoteMint(curve.quote_mint) THEN Global.pool_migration_fee ELSE 0
           raised == curve.real_quote_reserves + cost
<1>1. /\ curve.real_quote_reserves \in Nat /\ curve.post_complete_quote_in \in Nat
      /\ curve.protocol_fees \in Nat /\ curve.creator_fee \in Nat
      /\ purse \in Nat /\ quote_vault \in Nat /\ pool.quote \in Nat /\ paid_out \in Nat
  BY DEF Inv, TypeOK, BondingCurve
<1>2. ~pool.open /\ Buyable(curve, base_ata)
  BY TradingCurve
<1>3. /\ quote_vault = curve.real_quote_reserves + curve.post_complete_quote_in
                         + curve.protocol_fees + curve.creator_fee
      /\ purse + quote_vault + pool.quote + paid_out = Purse
      /\ Purse \in Nat /\ Purse <= U64_MAX /\ U64_MAX \in Nat
  BY <1>2, MarketAssumption, U64Assumption DEF Inv, Backed, Conserved, U64
<1>4. ~ (raised > U64_MAX) /\ raised \in Nat
  BY <1>1, <1>3
<1>5. ~ (base_ata < curve.real_token_reserves)
  BY <1>2 DEF Buyable, BondingCurve
<1>6. raised < fee
  <2> HIDE DEF raised, fee
  <2> QED BY <1>4, <1>5 DEF PoolToBe, OK, raised, fee
<1> QED BY <1>1, <1>6, GlobalAssumption

(* Whatever was traded before, an exact-in quote never charges more than     *)
(* its budget, and buy_v3_token_amount_from_sol_amount's checked             *)
(* subtraction of the curve part never fails; an overflow error is a raise   *)
(* below the migration fee, or a budget beyond what users hold.              *)
THEOREM QuotesWithinBudget == Spec => []QuotesKeepBudget
<1>1. Inv => QuotesKeepBudget
  <2> SUFFICES ASSUME Inv, NEW n \in Amounts
               PROVE  LET v2 == BuyQuoteBondingCurveSolIn(curve, MintSupply, n, 0)
                          v3 == BuyQuoteBondingCurveV3SolIn(curve, MintSupply, base_ata, n, 0)
                          raise == curve.real_quote_reserves
                                     + BuyQuote(curve, curve.real_token_reserves).val
                      IN  /\ v2.input_amount_used <= n
                          /\ v3.input_amount_used <= n
                          /\ (v3.err = "MathOverflow" /\ n <= purse) =>
                               /\ IsSolLikeQuoteMint(curve.quote_mint)
                               /\ raise < Global.pool_migration_fee
    BY DEF QuotesKeepBudget
  <2> DEFINE v3 == BuyQuoteBondingCurveV3SolIn(curve, MintSupply, base_ata, n, 0)
             r  == BuyV3TokenAmountFromSolAmount(curve, MintSupply, base_ata, n)
             cost == BuyQuote(curve, curve.real_token_reserves)
  <2>1. n \in U64 /\ n \in Nat /\ purse \in Nat
    BY MarketAssumption, U64Assumption DEF U64, Inv, TypeOK
  <2>2. BuyQuoteBondingCurveSolIn(curve, MintSupply, n, 0).input_amount_used <= n
    BY <2>1, CurveIsQuotable, ExactInV2Good
  <2>3. v3.err = r.err /\ (v3.input_amount_used = 0 \/ v3.input_amount_used = r.charged)
    BY DEF BuyQuoteBondingCurveV3SolIn, ExactInQuote, NoQuote, Quote
  <2>4. CASE curve.complete
    <3>1. r = [err |-> "VenueNotSupported", tokens |-> 0, charged |-> 0]
      BY <2>4 DEF BuyV3TokenAmountFromSolAmount, CurveOpen
    <3> HIDE DEF v3
    <3> QED BY <2>1, <2>2, <2>3, <3>1 DEF v3
  <2>5. CASE ~curve.complete
    <3>1. /\ r.charged \in Nat /\ r.charged <= n
          /\ r.err = "MathOverflow" =>
               /\ cost.val \in Nat /\ cost.val <= n
               /\ PoolToBe(curve, base_ata, curve.real_token_reserves, cost.val).err = "MathOverflow"
      BY <2>1, <2>5, CurveIsQuotable, ExactInV3Good
    <3> HIDE DEF v3, r, cost
    <3>2. (v3.err = "MathOverflow" /\ n <= purse) =>
             /\ IsSolLikeQuoteMint(curve.quote_mint)
             /\ curve.real_quote_reserves + cost.val < Global.pool_migration_fee
      BY <2>1, <2>3, <2>5, <3>1, RaiseFits
    <3> QED BY <2>1, <2>2, <2>3, <3>1, <3>2 DEF v3, cost
  <2> QED BY <2>4, <2>5
<1> QED BY Invariance, <1>1, PTL

(* Whatever was traded before, the token-out quoter asks at most what an     *)
(* exact-in buy is charged for the same tokens, on the curve and across its  *)
(* completion.                                                               *)
THEOREM RequoteIsNeverDearer == Spec => []RequoteNeverDearer
<1>1. Inv => RequoteNeverDearer
  <2> SUFFICES ASSUME Inv, NEW n \in Amounts
               PROVE  LET r == BuyV3TokenAmountFromSolAmount(curve, MintSupply, base_ata, n)
                          q == BuyV3SolAmountFromTokenAmount(curve, MintSupply, base_ata, r.tokens)
                      IN  (r.err = OK /\ r.tokens > 0) => (q.err = OK /\ q.val <= r.charged)
    BY DEF RequoteNeverDearer
  <2>1. n \in U64
    BY MarketAssumption
  <2>2. CASE curve.complete
    BY <2>2 DEF BuyV3TokenAmountFromSolAmount, CurveOpen, OK
  <2>3. CASE ~curve.complete
    BY <2>1, <2>3, CurveIsQuotable, ExactInV3Good
  <2> QED BY <2>2, <2>3
<1> QED BY Invariance, <1>1, PTL
=============================================================================
