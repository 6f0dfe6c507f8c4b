---------------------------- MODULE CurveMarket ----------------------------
(***************************************************************************)
(* One coin on chain, from create_v2 to its pump-amm pool: the bonding     *)
(* curve account, its base ATA and quote balance, and the pool migrate_v2  *)
(* opens.  The programs are not in the repository.  Their trades are       *)
(* modelled from what the SDK says they do: the quoters mirror their       *)
(* prices (src/math/bonding_curve.rs), the builders pass the arguments     *)
(* (src/sdk/pump_v2.rs, src/sdk/pump_v3.rs: partial_fill always on), and   *)
(* the comments there say where each fee goes.                             *)
(*                                                                         *)
(* A v2 trade pays its fees out in the trade; a v3 trade leaves them in    *)
(* the curve's buckets, less the buyback slice, until a sweep.  A v2 buy,  *)
(* and any buy of a mayhem curve, stops at the remaining supply; another   *)
(* v3 buy continues into the pool the migration will create.               *)
(***************************************************************************)
EXTENDS CurveQuotes

CONSTANTS
  Creator,            \* the coin's creator, DEFAULT_KEY for a creator-less coin
  QuoteMint,          \* the quote mint the curve stores
  Mayhem, Cashback,   \* the coin's flags
  CreatorFeeBps,      \* the coin's configured creator rate, 0 for none
  InitialQuote,       \* initial_virtual_quote_reserves
  Purse,              \* bound: the quote all users together own
  Amounts,            \* bound: token amounts and quote budgets users trade
  Donations           \* whether users may send tokens to the curve's base ATA

ASSUME MarketAssumption ==
  /\ Creator \in Pubkey /\ QuoteMint \in Pubkey
  /\ Mayhem \in BOOLEAN /\ Cashback \in BOOLEAN /\ Donations \in BOOLEAN
  /\ CreatorFeeBps \in Nat /\ InitialQuote \in Nat
  /\ Purse \in U64                \* a mint's whole supply is a u64
  /\ Amounts \subseteq U64        \* amounts and budgets are u64
  \* create_v2 refuses other parameters: initial real < total supply,
  \* initial virtual > initial real
  /\ 0 < Global.initial_real_token_reserves
  /\ Global.initial_real_token_reserves < Global.token_total_supply
  /\ Global.initial_real_token_reserves < Global.initial_virtual_token_reserves
  /\ 0 < InitialQuote

VARIABLES
  curve,        \* the BondingCurve account
  base_ata,     \* balance of the curve's base ATA
  quote_vault,  \* quote the curve account holds
  pool,         \* the canonical pool's opening reserves, NoPool before migrate_v2
  circulating,  \* tokens users hold
  donated,      \* tokens users sent to the curve's base ATA
  purse,        \* quote users hold
  paid_out      \* quote paid to fee recipients, creator vault and migration

market == <<curve, base_ata, quote_vault, pool, circulating, donated, purse, paid_out>>

NoPool == [open |-> FALSE, base |-> 0, quote |-> 0]
Supply == Global.token_total_supply
MintSupply == Supply     \* nobody burns the coin in the model

(* The curve create_v2 initialises. *)
InitialBondingCurve ==
  [virtual_token_reserves |-> Global.initial_virtual_token_reserves,
   virtual_quote_reserves |-> InitialQuote,
   real_token_reserves    |-> Global.initial_real_token_reserves,
   real_quote_reserves    |-> 0,
   token_total_supply     |-> Supply,
   complete               |-> FALSE,
   creator                |-> Creator,
   is_mayhem_mode         |-> Mayhem,
   is_cashback_coin       |-> Cashback,
   quote_mint             |-> ResolveQuoteMint(QuoteMint),
   creator_fee_bps        |-> CreatorFeeBps,
   creator_fee            |-> 0,
   protocol_fees          |-> 0,
   post_complete_base_out |-> 0,
   post_complete_quote_in |-> 0]

Init ==
  /\ curve = InitialBondingCurve
  /\ base_ata = Supply
  /\ quote_vault = 0
  /\ pool = NoPool
  /\ circulating = 0
  /\ donated = 0
  /\ purse = Purse
  /\ paid_out = 0

-----------------------------------------------------------------------------
(* What a trade moves, leg by leg. *)

Fill(e, curve_tokens, curve_quote, pool_tokens, pool_quote, fee, creator_fee) ==
  [err |-> e, curve_tokens |-> curve_tokens, curve_quote |-> curve_quote,
   pool_tokens |-> pool_tokens, pool_quote |-> pool_quote,
   fee |-> fee, creator_fee |-> creator_fee]

NoFill(e) == Fill(e, 0, 0, 0, 0, 0, 0)

TokensOf(f) == f.curve_tokens + f.pool_tokens
ChargeOf(f) == f.curve_quote + f.pool_quote + f.fee + f.creator_fee

ProtocolFee(amount, fees) == FeeAmount(amount, fees.protocol_fee_bps)
CreatorFee(amount, fees) == FeeAmount(amount, fees.creator_fee_bps)

(* buy_v2 / buy_v3 of `amount` tokens. *)
BuyFill(c, ata, amount, v) ==
  LET remaining == c.real_token_reserves
      tokens    == Least(amount, remaining)
      bps       == CurveFeeBps(c, MintSupply)
      cost      == BuyQuote(c, tokens)
      pool_tobe == PoolToBe(c, ata, remaining, cost.val)
      past      == amount - remaining
      leg       == CeilDiv(pool_tobe.quote * past, pool_tobe.base - past)
  IN  IF ~CurveOpen(c, v = 2) \/ amount = 0 THEN NoFill("Refused")
      ELSE IF bps.err # OK \/ cost.err # OK THEN NoFill("Refused")
      ELSE IF v = 2 \/ c.is_mayhem_mode \/ amount <= remaining
        THEN Fill(OK, tokens, cost.val, 0, 0,
                  ProtocolFee(cost.val, bps.fees), CreatorFee(cost.val, bps.fees))
      ELSE IF pool_tobe.err # OK \/ pool_tobe.base <= past THEN NoFill("Refused")
      ELSE Fill(OK, tokens, cost.val, past, leg,
                ProtocolFee(cost.val, bps.fees) + ProtocolFee(leg, bps.fees),
                CreatorFee(cost.val, bps.fees) + CreatorFee(leg, bps.fees))

(* buy_exact_quote_in_v2 / _v3 spending up to `budget`. *)
BuyExactInFill(c, ata, budget, v) ==
  LET remaining == c.real_token_reserves
      bps       == CurveFeeBps(c, MintSupply)
      split     == ExactInFeeAmounts(budget, CurveBps(bps.fees))
      tokens    == SwapExactInput(split.net - 1, c.virtual_quote_reserves,
                                  c.virtual_token_reserves)
      cost      == BuyQuote(c, remaining)
      fee       == ProtocolFee(cost.val, bps.fees)
      creator   == CreatorFee(cost.val, bps.fees)
      left      == budget - (cost.val + fee + creator)
      pool_tobe == PoolToBe(c, ata, remaining, cost.val)
      leg       == PostCompleteLegExactQuote(pool_tobe, bps.fees, left, FALSE)
  IN  IF ~CurveOpen(c, v = 2) \/ budget = 0 THEN NoFill("Refused")
      ELSE IF bps.err # OK \/ split.err # OK THEN NoFill("Refused")
      ELSE IF tokens.val = 0 THEN NoFill("Refused")
      ELSE IF tokens.val <= remaining
        THEN Fill(OK, tokens.val, split.net, 0, 0, split.fees[1], split.fees[2])
      ELSE IF cost.err # OK \/ left < 0 THEN NoFill("Refused")
      ELSE IF v = 2 \/ c.is_mayhem_mode \/ left = 0
        THEN Fill(OK, remaining, cost.val, 0, 0, fee, creator)
      ELSE IF pool_tobe.err # OK \/ leg.err # OK THEN NoFill("Refused")
      ELSE Fill(OK, remaining, cost.val, leg.base_out, leg.quote_in,
                fee + leg.fee, creator + leg.creator_fee)

(* Mutant: the proceeds are rounded up. *)
SellFillRoundedUp(c, amount, v) ==
  LET bps   == CurveFeeBps(c, MintSupply)
      gross == CeilDiv(amount * c.virtual_quote_reserves, c.virtual_token_reserves + amount)
      fee     == ProtocolFee(gross, bps.fees)
      creator == CreatorFee(gross, bps.fees)
  IN  IF ~CurveOpen(c, v = 2) \/ amount = 0 THEN NoFill("Refused")
      ELSE IF bps.err # OK \/ gross < fee + creator THEN NoFill("Refused")
      ELSE Fill(OK, amount, gross, 0, 0, fee, creator)

(* sell_v2 / sell_v3 of `amount` tokens: curve_quote is the gross proceeds. *)
SellFill(c, amount, v) ==
  LET bps   == CurveFeeBps(c, MintSupply)
      gross == (amount * c.virtual_quote_reserves) \div (c.virtual_token_reserves + amount)
      fee     == ProtocolFee(gross, bps.fees)
      creator == CreatorFee(gross, bps.fees)
  IN  IF ~CurveOpen(c, v = 2) \/ amount = 0 THEN NoFill("Refused")
      ELSE IF bps.err # OK \/ gross < fee + creator THEN NoFill("Refused")
      ELSE Fill(OK, amount, gross, 0, 0, fee, creator)

ProceedsOf(f) == f.curve_quote - (f.fee + f.creator_fee)

(* The part of the protocol fee a v3 trade pays to the buyback recipient. *)
BuybackSlice(fee) == (fee * Global.buyback_basis_points) \div BPS

(* Fees leave the curve in a v2 trade and fill the buckets in a v3 trade. *)
KeptProtocol(f, v) == IF v = 3 THEN f.fee - BuybackSlice(f.fee) ELSE 0
KeptCreator(f, v) == IF v = 3 THEN f.creator_fee ELSE 0
FeesPaidOut(f, v) == (f.fee + f.creator_fee) - (KeptProtocol(f, v) + KeptCreator(f, v))

-----------------------------------------------------------------------------
(* Actions *)

ApplyBuy(f, v) ==
  /\ f.err = OK
  /\ ChargeOf(f) <= purse
  /\ curve' = [curve EXCEPT
       !.virtual_token_reserves = @ - f.curve_tokens,
       !.real_token_reserves    = @ - f.curve_tokens,
       !.virtual_quote_reserves = @ + f.curve_quote,
       !.real_quote_reserves    = @ + f.curve_quote,
       !.complete               = f.curve_tokens = curve.real_token_reserves,
       !.protocol_fees          = @ + KeptProtocol(f, v),
       !.creator_fee            = @ + KeptCreator(f, v),
       !.post_complete_base_out = @ + f.pool_tokens,
       !.post_complete_quote_in = @ + f.pool_quote]
  /\ base_ata' = base_ata - TokensOf(f)
  /\ circulating' = circulating + TokensOf(f)
  /\ purse' = purse - ChargeOf(f)
  /\ quote_vault' = quote_vault + (ChargeOf(f) - FeesPaidOut(f, v))
  /\ paid_out' = paid_out + FeesPaidOut(f, v)
  /\ UNCHANGED <<pool, donated>>

Buy(amount, max_quote_cost, v) ==
  LET f == BuyFill(curve, base_ata, amount, v)
  IN  ChargeOf(f) <= max_quote_cost /\ ApplyBuy(f, v)

(* A partial fill (v2, or a mayhem curve) skips the min_tokens_out check. *)
BuyExactQuoteIn(budget, min_tokens_out, v) ==
  LET f == BuyExactInFill(curve, base_ata, budget, v)
      partial == (v = 2 \/ curve.is_mayhem_mode) /\ f.curve_tokens = curve.real_token_reserves
  IN  (TokensOf(f) >= min_tokens_out \/ partial) /\ ApplyBuy(f, v)

Sell(amount, min_quote_out, v) ==
  LET f == SellFill(curve, amount, v)
  IN  /\ amount <= circulating
      /\ f.err = OK
      /\ ProceedsOf(f) >= min_quote_out
      /\ curve' = [curve EXCEPT
           !.virtual_token_reserves = @ + amount,
           !.real_token_reserves    = @ + amount,
           !.virtual_quote_reserves = @ - f.curve_quote,
           !.real_quote_reserves    = @ - f.curve_quote,
           !.protocol_fees          = @ + KeptProtocol(f, v),
           !.creator_fee            = @ + KeptCreator(f, v)]
      /\ base_ata' = base_ata + amount
      /\ circulating' = circulating - amount
      /\ purse' = purse + ProceedsOf(f)
      /\ quote_vault' = quote_vault - (ProceedsOf(f) + FeesPaidOut(f, v))
      /\ paid_out' = paid_out + FeesPaidOut(f, v)
      /\ UNCHANGED <<pool, donated>>

(* Mutant: the migration fee is paid and deposited as well. *)
MigrateDepositingFee ==
  LET raised == curve.real_quote_reserves + curve.post_complete_quote_in
  IN  /\ curve.complete /\ ~pool.open
      /\ pool' = [open |-> TRUE, base |-> base_ata, quote |-> raised]
      /\ curve' = [curve EXCEPT !.virtual_token_reserves = 0, !.virtual_quote_reserves = 0,
                                !.real_quote_reserves = 0]
      /\ base_ata' = 0
      /\ quote_vault' = quote_vault - raised
      /\ paid_out' = paid_out + Global.pool_migration_fee
      /\ UNCHANGED <<circulating, donated, purse>>

(* migrate_v2: the whole base ATA and the raised quote, less the migration  *)
(* fee on a SOL curve, open the pool; the curve's reserves are reset.       *)
Migrate ==
  LET raised == curve.real_quote_reserves + curve.post_complete_quote_in
      fee == IF IsSolLikeQuoteMint(curve.quote_mint) THEN Global.pool_migration_fee ELSE 0
  IN  /\ curve.complete /\ ~pool.open
      /\ fee < raised /\ 0 < base_ata
      /\ pool' = [open |-> TRUE, base |-> base_ata, quote |-> raised - fee]
      /\ curve' = [curve EXCEPT !.virtual_token_reserves = 0, !.virtual_quote_reserves = 0,
                                !.real_quote_reserves = 0]
      /\ base_ata' = 0
      /\ quote_vault' = quote_vault - raised
      /\ paid_out' = paid_out + fee
      /\ UNCHANGED <<circulating, donated, purse>>

(* sweep_creator_fee / sweep_protocol_fee, by anyone at any time. *)
SweepCreatorFee ==
  /\ curve.creator_fee > 0
  /\ curve' = [curve EXCEPT !.creator_fee = 0]
  /\ quote_vault' = quote_vault - curve.creator_fee
  /\ paid_out' = paid_out + curve.creator_fee
  /\ UNCHANGED <<base_ata, pool, circulating, donated, purse>>

(* Mutant: the bucket is paid out but not reset. *)
SweepProtocolFeeKeepingBucket ==
  /\ curve.protocol_fees > 0
  /\ quote_vault' = quote_vault - curve.protocol_fees
  /\ paid_out' = paid_out + curve.protocol_fees
  /\ UNCHANGED <<curve, base_ata, pool, circulating, donated, purse>>

SweepProtocolFee ==
  /\ curve.protocol_fees > 0
  /\ curve' = [curve EXCEPT !.protocol_fees = 0]
  /\ quote_vault' = quote_vault - curve.protocol_fees
  /\ paid_out' = paid_out + curve.protocol_fees
  /\ UNCHANGED <<base_ata, pool, circulating, donated, purse>>

(* A plain token transfer into the curve's base ATA. *)
Donate(amount) ==
  /\ Donations /\ ~pool.open
  /\ 0 < amount /\ amount <= circulating
  /\ base_ata' = base_ata + amount
  /\ circulating' = circulating - amount
  /\ donated' = donated + amount
  /\ UNCHANGED <<curve, quote_vault, pool, purse, paid_out>>

Next ==
  \/ \E v \in {2, 3}, amount \in Amounts : Buy(amount, Purse, v)
  \/ \E v \in {2, 3}, amount \in Amounts : BuyExactQuoteIn(amount, 0, v)
  \/ \E v \in {2, 3}, amount \in Amounts : Sell(amount, 0, v)
  \/ Migrate
  \/ SweepCreatorFee
  \/ SweepProtocolFee
  \/ \E amount \in Amounts : Donate(amount)

Spec == Init /\ [][Next]_market

-----------------------------------------------------------------------------
(* Properties *)

(* Type invariant: every counter and balance stays a natural number, so no   *)
(* subtraction in a trade, a sweep or the migration underflows.              *)
TypeOK ==
  /\ curve \in BondingCurve
  /\ base_ata \in Nat /\ quote_vault \in Nat
  /\ pool \in [open : BOOLEAN, base : Nat, quote : Nat]
  /\ circulating \in Nat /\ donated \in Nat
  /\ purse \in Nat /\ paid_out \in Nat

(* No trade, sweep or migration creates or loses a token or a unit of quote. *)
Conserved ==
  /\ base_ata + circulating + pool.base = Supply
  /\ purse + quote_vault + pool.quote + paid_out = Purse

(* The quote the curve holds is exactly what its counters say: the raise,    *)
(* the post-completion leg's quote and both un-swept fee buckets.  A sweep   *)
(* or a migration therefore never pays one counter out of another.           *)
Backed ==
  quote_vault = curve.real_quote_reserves
                  + (IF pool.open THEN 0 ELSE curve.post_complete_quote_in)
                  + curve.protocol_fees + curve.creator_fee

(* sell_sol_amount_from_token_amount prices a sale on the virtual reserves   *)
(* and never looks at real_quote_reserves.  Still, whatever sequence of v2   *)
(* and v3 trades came before, the raise covers the sale of every token       *)
(* users hold.                                                               *)
EveryHolderCanSell ==
  (~curve.complete /\ circulating > 0) =>
     SellFill(curve, circulating, 2).curve_quote <= curve.real_quote_reserves

(* estimated_reserves prices a completed coin before its pool exists, from   *)
(* counters of the curve account alone.  It agrees with the pool migrate_v2  *)
(* then opens (the pool part of a completing v3 buy included), as long as    *)
(* nobody sent tokens to the curve's ATA.                                    *)
OpensWhereTheLegStopped ==
  [][(pool'.open /\ ~pool.open /\ donated = 0)
       => /\ EstimatedReserves(curve).err = OK
          /\ pool'.base = EstimatedReserves(curve).base
          /\ pool'.quote = EstimatedReserves(curve).quote]_market

(* Rounding always favours the curve: no trade lowers the product of the     *)
(* virtual reserves.                                                         *)
ProductNeverFalls ==
  [][~pool'.open =>
       curve.virtual_quote_reserves * curve.virtual_token_reserves
         <= curve'.virtual_quote_reserves * curve'.virtual_token_reserves]_market

(* A completed curve never trades again, whatever the transactions in        *)
(* flight: its reserves only change once more, when they become the pool.    *)
CompleteIsFinal ==
  [][curve.complete =>
       /\ curve'.complete
       /\ pool.open => pool' = pool
       /\ circulating' + donated' = circulating + donated
       /\ curve'.post_complete_base_out = curve.post_complete_base_out]_market

(* The exact-in quoters on every curve trading can reach: what they say is   *)
(* charged stays within the budget, and the checked subtraction of the       *)
(* curve part from the budget (buy_v3_token_amount_from_sol_amount) never    *)
(* fails, because the budget bought more than the remaining supply.  For a   *)
(* budget users really hold, the only MathOverflow is that of pool_to_be:    *)
(* a raise that does not cover the migration fee.                            *)
QuotesKeepBudget ==
  \A n \in Amounts :
    LET v2 == BuyQuoteBondingCurveSolIn(curve, MintSupply, n, 0)
        v3 == BuyQuoteBondingCurveV3SolIn(curve, MintSupply, base_ata, n, 0)
        raise == curve.real_quote_reserves + BuyQuote(curve, curve.real_token_reserves).val
    IN  /\ v2.input_amount_used <= n
        /\ v3.input_amount_used <= n
        /\ (v3.err = "MathOverflow" /\ n <= purse) =>
             IsSolLikeQuoteMint(curve.quote_mint) /\ raise < Global.pool_migration_fee

(* What synthetic_migration_tests.rs asserts for four budgets on one curve:  *)
(* the token-out quoter never asks more for the tokens an exact-in buy       *)
(* yields than that buy is charged, on the curve or across its completion.   *)
RequoteNeverDearer ==
  \A n \in Amounts :
    \A r \in {BuyV3TokenAmountFromSolAmount(curve, MintSupply, base_ata, n)} :
      LET q == BuyV3SolAmountFromTokenAmount(curve, MintSupply, base_ata, r.tokens)
      IN  (r.err = OK /\ r.tokens > 0) => (q.err = OK /\ q.val <= r.charged)

(* What the comment on estimated_reserves says it returns as the base: the   *)
(* balance of the curve's base ATA, which migrate_v2 deposits.  The code     *)
(* computes it from the supply counters, so a transfer to the ATA breaks it. *)
EstimatesTheAtaBalance ==
  (curve.complete /\ ~pool.open) => EstimatedReserves(curve).base = base_ata

=============================================================================
