----------------------------- MODULE PoolMarket -----------------------------
(***************************************************************************)
(* One coin's canonical pump-amm pool on chain, from the state migrate_v2  *)
(* left it in.  The program is not in the repository: its trades are       *)
(* modelled from the quoters that mirror its prices (src/math/amm.rs) and  *)
(* from what the builders' comments and tests/v3_trades.rs say moves.      *)
(*                                                                         *)
(* A v1 trade pays its protocol and creator fees out.  A v2 trade and a    *)
(* hop of multi_hop_swap leave them in the quote vault, less the buyback   *)
(* slice, until a sweep: pool.protocol_fees and pool.creator_fees count    *)
(* them and pool.virtual_quote_reserves, which starts as the boost,        *)
(* falls by as much, below zero on a pool without boost.                   *)
(***************************************************************************)
EXTENDS AmmQuotes

CONSTANTS
  CompletedCurve,     \* the BondingCurve account that migrate_v2 found
  Boost,              \* how much of the deposit init_boost moved to the boost vault
  Purse,              \* bound: the quote all users together own
  Held,               \* the tokens they own
  Amounts             \* bound: token amounts and quote budgets users trade

(* What migrate_v2 deposited: CurveMarket's theorem EstimateIsExact. *)
OpenBase == EstimatedReserves(CompletedCurve).base
OpenQuote == EstimatedReserves(CompletedCurve).quote

(* The Pool account it wrote. *)
OpenPool ==
  [canonical |-> TRUE, coin_creator |-> CompletedCurve.creator,
   quote_mint |-> ResolveQuoteMint(CompletedCurve.quote_mint),
   is_mayhem_mode |-> CompletedCurve.is_mayhem_mode,
   is_cashback_coin |-> CompletedCurve.is_cashback_coin,
   creator_fee_bps |-> CompletedCurve.creator_fee_bps,
   virtual_quote_reserves |-> Boost, protocol_fees |-> 0, creator_fees |-> 0]

ASSUME PoolMarketAssumption ==
  /\ CompletedCurve \in BondingCurve /\ CompletedCurve.complete
  /\ EstimatedReserves(CompletedCurve).err = OK
  /\ Boost \in Nat /\ Boost < OpenQuote
  /\ Purse \in Nat /\ Held \in Nat
  /\ OpenQuote + Purse <= U64_MAX /\ OpenBase + Held <= U64_MAX  \* supplies are u64
  /\ Amounts \subseteq Nat

VARIABLES
  pool,           \* the Pool account
  base_vault,     \* balance of pool_base_token_account
  quote_vault,    \* balance of pool_quote_token_account
  disable_flags,  \* the bits set in GlobalConfig.disable_flags
  circulating,    \* tokens users hold
  purse,          \* quote users hold
  paid_out        \* quote paid to fee recipients

amm == <<pool, base_vault, quote_vault, disable_flags, circulating, purse, paid_out>>

MintSupply == OpenBase + Held

Init ==
  /\ pool = OpenPool
  /\ base_vault = OpenBase
  /\ quote_vault = OpenQuote - Boost
  /\ disable_flags = {}
  /\ circulating = Held
  /\ purse = Purse
  /\ paid_out = 0

Buckets == pool.protocol_fees + pool.creator_fees
Effective == quote_vault + pool.virtual_quote_reserves
Real == quote_vault - Buckets

-----------------------------------------------------------------------------
(* The program's prices *)

(* The rates of a trade that charges the legs `legs`. *)
TradeBps(legs) ==
  LegBps(AmmFeeBps(PoolContext(pool, base_vault, quote_vault, MintSupply)).fees, legs)

(* Whether the program takes the trade at all: v2 refuses a cashback coin's  *)
(* pool, multi_hop_swap (v = 3) a mayhem coin's too.                         *)
Open(is_buy, v) ==
  /\ TradingEnabled(disable_flags, is_buy)
  /\ AmmFeeBps(PoolContext(pool, base_vault, quote_vault, MintSupply)).err = OK
  /\ v = 2 => ~pool.is_cashback_coin
  /\ v = 3 => ~pool.is_mayhem_mode

(* buy, buy_v2: `amount` tokens. *)
BuyFill(amount) ==
  LET raw == CeilDiv(Effective * amount, base_vault - amount)
  IN  IF amount = 0 \/ base_vault <= amount THEN NotPriced("Refused")
      ELSE Priced(raw, amount, ThreeFees(raw, TradeBps(AllLegs)))

(* buy_exact_quote_in_v2: at most `budget`. *)
BuyExactInFill(budget) ==
  LET split == ExactInFeeAmounts(budget, TradeBps(AllLegs))
      out   == ((split.net - 1) * base_vault) \div (Effective + (split.net - 1))
  IN  IF split.err # OK \/ out = 0 THEN NotPriced("Refused")
      ELSE Priced(split.net, out, split.fees)

(* sell, sell_v2 *)
SellFill(amount) ==
  LET raw  == (Effective * amount) \div (base_vault + amount)
      fees == ThreeFees(raw, TradeBps(AllLegs))
  IN  IF amount = 0 \/ raw < SumOf(fees) \/ Real < raw - fees[1] THEN NotPriced("Refused")
      ELSE Priced(raw, amount, fees)

(* The legs a hop may charge: see ForHop. *)
HopLegs == {legs \in HopFees : legs.creator = legs.lp}

(* A hop of multi_hop_swap that buys: all of `budget` is spent. *)
HopBuyFill(budget, legs) ==
  LET split == ExactInFeeAmounts(budget, TradeBps(legs))
      net   == budget - SumOf(split.fees)
      out   == ((net - 1) * base_vault) \div (Effective + (net - 1))
  IN  IF legs.creator /\ pool.is_cashback_coin THEN NotPriced("Refused")
      ELSE IF split.err # OK \/ out = 0 THEN NotPriced("Refused")
      ELSE Priced(net, out, split.fees)

(* A hop of multi_hop_swap that sells. *)
HopSellFill(amount, legs) ==
  LET raw  == (Effective * amount) \div (base_vault + amount)
      fees == ThreeFees(raw, TradeBps(legs))
  IN  IF legs.creator /\ pool.is_cashback_coin THEN NotPriced("Refused")
      ELSE IF amount = 0 \/ raw <= SumOf(fees) \/ Real < raw - fees[1] THEN NotPriced("Refused")
      ELSE Priced(raw, amount, fees)

-----------------------------------------------------------------------------
(* Where the fees go.  No buyback slice is taken of a mayhem coin's pool. *)

BuybackSlice(fee) ==
  IF pool.is_mayhem_mode THEN 0 ELSE (fee * AmmGlobal.buyback_basis_points) \div BPS

KeptProtocol(f, v) == IF v = 1 THEN 0 ELSE f.fees[2] - BuybackSlice(f.fees[2])
KeptCreator(f, v) == IF v = 1 THEN 0 ELSE f.fees[3]
Kept(f, v) == KeptProtocol(f, v) + KeptCreator(f, v)
FeesPaidOut(f, v) == (f.fees[2] + f.fees[3]) - Kept(f, v)

(* Mutant: the fees that stay in the vault keep counting as reserve. *)
BookFeesAsReserve(f, v) ==
  [pool EXCEPT !.protocol_fees = @ + KeptProtocol(f, v),
               !.creator_fees = @ + KeptCreator(f, v)]

BookFees(f, v) ==
  [pool EXCEPT !.protocol_fees = @ + KeptProtocol(f, v),
               !.creator_fees = @ + KeptCreator(f, v),
               !.virtual_quote_reserves = @ - Kept(f, v)]

Charge(f) == f.raw + SumOf(f.fees)
Proceeds(f) == f.raw - SumOf(f.fees)

CanBuy(f, v) == f.err = OK /\ Open(TRUE, v) /\ Charge(f) <= purse
CanSell(f, v) == f.err = OK /\ Open(FALSE, v) /\ f.base <= circulating

ApplyBuy(f, v) ==
  /\ CanBuy(f, v)
  /\ pool' = BookFees(f, v)
  /\ base_vault' = base_vault - f.base
  /\ quote_vault' = quote_vault + (Charge(f) - FeesPaidOut(f, v))
  /\ circulating' = circulating + f.base
  /\ purse' = purse - Charge(f)
  /\ paid_out' = paid_out + FeesPaidOut(f, v)
  /\ UNCHANGED disable_flags

ApplySell(f, v) ==
  /\ CanSell(f, v)
  /\ pool' = BookFees(f, v)
  /\ base_vault' = base_vault + f.base
  /\ quote_vault' = quote_vault - (Proceeds(f) + FeesPaidOut(f, v))
  /\ circulating' = circulating - f.base
  /\ purse' = purse + Proceeds(f)
  /\ paid_out' = paid_out + FeesPaidOut(f, v)
  /\ UNCHANGED disable_flags

-----------------------------------------------------------------------------
(* Actions *)

Buy(amount, max_quote_amount_in, v) ==
  \E f \in {BuyFill(amount)} : Charge(f) <= max_quote_amount_in /\ ApplyBuy(f, v)

BuyExactQuoteIn(budget, min_base_amount_out) ==
  \E f \in {BuyExactInFill(budget)} : f.base >= min_base_amount_out /\ ApplyBuy(f, 2)

Sell(amount, min_quote_amount_out, v) ==
  \E f \in {SellFill(amount)} : Proceeds(f) >= min_quote_amount_out /\ ApplySell(f, v)

(* Mutant: the payment is taken off both buckets. *)
SweepCreatorFeeTwice ==
  /\ pool.creator_fees > 0
  /\ pool' = [pool EXCEPT !.creator_fees = 0, !.protocol_fees = @ - pool.creator_fees,
                          !.virtual_quote_reserves = @ + pool.creator_fees]
  /\ quote_vault' = quote_vault - pool.creator_fees
  /\ paid_out' = paid_out + pool.creator_fees
  /\ UNCHANGED <<base_vault, disable_flags, circulating, purse>>

(* sweep_creator_fee / sweep_protocol_fee, by anyone at any time. *)
SweepCreatorFee ==
  /\ pool.creator_fees > 0
  /\ pool' = [pool EXCEPT !.creator_fees = 0,
                          !.virtual_quote_reserves = @ + pool.creator_fees]
  /\ quote_vault' = quote_vault - pool.creator_fees
  /\ paid_out' = paid_out + pool.creator_fees
  /\ UNCHANGED <<base_vault, disable_flags, circulating, purse>>

(* Mutant: the bucket is paid but its share of the reserve is not released. *)
SweepProtocolFeeKeepingVirtual ==
  /\ pool.protocol_fees > 0
  /\ pool' = [pool EXCEPT !.protocol_fees = 0]
  /\ quote_vault' = quote_vault - pool.protocol_fees
  /\ paid_out' = paid_out + pool.protocol_fees
  /\ UNCHANGED <<base_vault, disable_flags, circulating, purse>>

SweepProtocolFee ==
  /\ pool.protocol_fees > 0
  /\ pool' = [pool EXCEPT !.protocol_fees = 0,
                          !.virtual_quote_reserves = @ + pool.protocol_fees]
  /\ quote_vault' = quote_vault - pool.protocol_fees
  /\ paid_out' = paid_out + pool.protocol_fees
  /\ UNCHANGED <<base_vault, disable_flags, circulating, purse>>

(* The admin sets or clears the buy or the sell bit. *)
Toggle(flag) ==
  /\ disable_flags' = IF flag \in disable_flags THEN disable_flags \ {flag}
                                                ELSE disable_flags \cup {flag}
  /\ UNCHANGED <<pool, base_vault, quote_vault, circulating, purse, paid_out>>

Next ==
  \/ \E v \in {1, 2}, amount \in Amounts : Buy(amount, Purse, v)
  \/ \E amount \in Amounts : BuyExactQuoteIn(amount, 0)
  \/ \E v \in {1, 2}, amount \in Amounts : Sell(amount, 0, v)
  \/ \E amount \in Amounts, legs \in HopLegs : ApplyBuy(HopBuyFill(amount, legs), 3)
  \/ \E amount \in Amounts, legs \in HopLegs : ApplySell(HopSellFill(amount, legs), 3)
  \/ SweepCreatorFee
  \/ SweepProtocolFee
  \/ \E flag \in {BUY_FLAG, SELL_FLAG} : Toggle(flag)

Spec == Init /\ [][Next]_amm

-----------------------------------------------------------------------------
(* Properties *)

(* Type invariant: no subtraction in a trade or a sweep underflows, although *)
(* virtual_quote_reserves may be negative.                                   *)
TypeOK ==
  /\ pool \in Pool
  /\ base_vault \in Nat /\ quote_vault \in Nat
  /\ disable_flags \subseteq {BUY_FLAG, SELL_FLAG}
  /\ circulating \in Nat /\ purse \in Nat /\ paid_out \in Nat

(* No trade or sweep creates or loses a token or a unit of quote. *)
Conserved ==
  /\ base_vault + circulating = MintSupply
  /\ purse + quote_vault + paid_out = Purse + (OpenQuote - Boost)

(* README.md, "AMM pricing": virtual_quote_reserves is the boost less the    *)
(* un-swept fee buckets, whatever mix of v1, v2 and multi-hop trades and     *)
(* sweeps came before, and the vault always covers the buckets: neither      *)
(* effective_quote_reserve nor real_quote_reserve fails on a live pool.      *)
Booked ==
  /\ pool.virtual_quote_reserves = Boost - Buckets
  /\ Buckets <= quote_vault
  /\ EffectiveQuoteReserve(pool, quote_vault) = Ok(Effective)
  /\ RealQuoteReserve(pool, quote_vault) = Ok(Effective - Boost)

(* The pool of PoolMarket is the pool AbstractPool promises: trades never    *)
(* lower the product, price and solvency move together, and sweeps, in the   *)
(* middle of any trading, move neither.                                      *)
Abstract == INSTANCE AbstractPool
              WITH base <- base_vault, eff <- Effective, real <- Real, owed <- Buckets

ImplementsAbstractPool == Abstract!Spec

Now == PoolContext(pool, base_vault, quote_vault, MintSupply)

BeforeMigration == CompleteCurveContext(CompletedCurve, MintSupply)
Untraded == base_vault = OpenBase /\ Effective = OpenQuote

(* sell_base_input refuses a sale for want of real quote exactly when the    *)
(* pool has rates for it and it would take the effective reserve below the   *)
(* boost, which is not in the vault; in particular an unboosted pool pays    *)
(* every sale it prices, however many fees lie un-swept in its vault.  The   *)
(* quotes taken of the completed curve before the migration, which assume a  *)
(* pool without boost, are those of the pool it opens, save for these sales. *)
OnlyBoostIsUnpayable ==
  \A n \in Amounts :
    LET raw  == (Effective * n) \div (base_vault + n)
        fees == ThreeFees(raw, TradeBps(AllLegs))
        sale == SellBaseInput({}, Now, n)
    IN  /\ (sale.err = "InsufficientRealQuoteReserves")
             <=> /\ AmmFeeBps(Now).err = OK
                 /\ raw >= SumOf(fees) /\ Effective - (raw - fees[1]) < Boost
        /\ Untraded =>
             /\ BuyBaseInput({}, BeforeMigration, n) = BuyBaseInput({}, Now, n)
             /\ BuyQuoteInput({}, BeforeMigration, n) = BuyQuoteInput({}, Now, n)
             /\ \/ SellBaseInput({}, BeforeMigration, n) = sale
                \/ sale.err = "InsufficientRealQuoteReserves"

(* The fee-less helpers err on the pool's side on every reachable pool: what *)
(* buy_token_quote_with_sol says an amount buys never costs more than it,    *)
(* and the tokens sell_token_quote_with_sol names never fetch more than the  *)
(* amount asked for, while one token more fetches at least that.             *)
HelpersFavourPool ==
  \A n \in Amounts :
    LET bought == BuyTokenQuoteWithSol(base_vault, Effective, n).val
        sold   == SellTokenQuoteWithSol(base_vault, Effective, n)
    IN  /\ CeilDiv(Effective * bought, base_vault - bought) <= n
        /\ (sold.err = OK /\ n < Effective) =>
             /\ SellQuote(base_vault, Effective, sold.val).val <= n
             /\ n <= SellQuote(base_vault, Effective, sold.val + 1).val

(* A one-hop multi_hop_swap is the plain trade: a sale is quoted the same,   *)
(* and a buy, which spends what an exact-in buy would leave of its budget,   *)
(* is quoted at least as many tokens and is never refused where the plain    *)
(* one is quoted; but no more tokens than buy_base_input sells for the       *)
(* budget, whatever the fees (of at most 100 %) round to.                    *)
OneHopIsPlain ==
  \A n \in Amounts :
    LET hops == <<PoolHop(pool, base_vault, quote_vault, MintSupply)>>
    IN  (~pool.is_mayhem_mode /\ ~pool.is_cashback_coin /\ n > 0) =>
          \A buy \in {QuoteMultiHopSwap(disable_flags, "user", hops, TRUE, n, 0)},
             sell \in {QuoteMultiHopSwap(disable_flags, "user", hops, FALSE, n, 0)},
             plain_buy \in {BuyQuoteAmmSolIn(disable_flags, Now, n, 0)},
             plain_sell \in {SellQuoteAmm(disable_flags, Now, n, 0)} :
            \A cost \in {BuyBaseInput(disable_flags, Now, buy.amount)} :
              /\ plain_buy.err = OK => buy.err = OK
              /\ buy.amount >= plain_buy.amount
              /\ (buy.err = OK /\ SumOf(TradeBps(AllLegs)) <= BPS) =>
                   cost.err = OK /\ cost.raw + SumOf(cost.fees) <= n
              /\ (plain_sell.err = OK /\ plain_sell.amount > 0) = (sell.err = OK)
              /\ sell.err = OK => sell.amount = plain_sell.amount

=============================================================================
