----------------------------- MODULE PoolClient -----------------------------
(***************************************************************************)
(* A user of the SDK trading a graduated coin Q on its pool, and a coin C  *)
(* that is quoted in Q through the two-hop route pool(Q), curve(C):        *)
(* fetch_multi_hop_quote_state, quote_multi_hop_swap and                   *)
(* build_multi_hop_swap of src/async_client.rs, and the plain pool quotes  *)
(* and v2 pool instructions on the same state; and the creation of a coin   *)
(* quoted in Q or in C with its first buy, from fetch_pump_quote_create.    *)
(*                                                                         *)
(* The venues' accounts and disable_flags are read in a first round trip,  *)
(* the vaults and the curve's base ATA in a second.  Anyone may trade,     *)
(* sweep or switch trading off between the two, or before the transaction  *)
(* executes.                                                               *)
(***************************************************************************)
EXTENDS PoolMarket

CONSTANTS
  CurveOfC,           \* C's BondingCurve account at the start
  SeedOfC,            \* its initial_virtual_quote_reserves
  QuoteControl,       \* the entries [mint, initial_virtual_quote_reserves]
  FirstBuys,          \* amounts a coin's creator buys with its creation
  Slippages,          \* slippage_bps the user chooses
  MaxMoves            \* bound: transactions executed before no new one starts

(* Q is quoted in SOL, C in Q.  create_v2 leaves part of the virtual tokens  *)
(* unsold, and neither a trade nor the completion of C takes them.           *)
ASSUME PoolClientAssumption ==
  /\ CompletedCurve.quote_mint = DEFAULT_KEY
  /\ CurveOfC \in BondingCurve
  /\ CurveOfC.real_token_reserves < CurveOfC.virtual_token_reserves
  /\ CurveOfC.real_token_reserves <= Global.initial_real_token_reserves
  /\ CurveOfC.virtual_quote_reserves > 0
  /\ 0 < Global.initial_real_token_reserves
  /\ Global.initial_real_token_reserves < Global.initial_virtual_token_reserves
  /\ Global.initial_real_token_reserves <= Global.token_total_supply
  /\ Global.token_total_supply <= U64_MAX
  /\ Global.initial_virtual_sol_reserves \in Nat
  /\ SeedOfC \in Nat
  /\ Global.max_curve_depth \in Nat
  /\ FirstBuys \subseteq Nat \ {0}
  /\ Slippages \subseteq Nat
  /\ MaxMoves \in Nat

VARIABLES
  curve,              \* C's BondingCurve account
  base_ata,           \* balance of its base ATA
  request,            \* what the user's current request knows
  moves               \* transactions executed, for the bound

vars == <<amm, curve, base_ata, request, moves>>
chain == <<amm, curve, base_ata, moves>>

Creates == {"create_on_q", "create_on_c"}
Kinds == {"buy", "exact_in", "sell", "route_buy", "route_sell"} \cup Creates
Pending == {"fetched_venues", "built"}
User == "user"

Idle ==
  [phase |-> "idle", kind |-> "sell", amount |-> 0, slippage_bps |-> 0,
   pool |-> OpenPool, curve |-> CurveOfC, disable_flags |-> {},
   base_reserve |-> 0, quote_vault_balance |-> 0, base_ata_amount |-> 0,
   pool_then |-> OpenPool, quote |-> NoQuote("none")]

ClientInit ==
  /\ Init
  /\ curve = CurveOfC
  /\ base_ata = CurveOfC.real_token_reserves
                  + (Global.token_total_supply - Global.initial_real_token_reserves)
  /\ request = Idle
  /\ moves = 0

SupplyOfC == Global.token_total_supply
HeldC == SupplyOfC - base_ata

-----------------------------------------------------------------------------
(* The curve hop, as the pump program executes it inside multi_hop_swap. *)

HopRates(c, legs) ==
  LET fees == CurveFeeBps(c, SupplyOfC).fees
  IN  [fees EXCEPT !.protocol_fee_bps = OnLeg(legs.protocol, @),
                   !.creator_fee_bps = OnLeg(legs.creator, @)]

CurveFill(e, out, c, ata) == [err |-> e, out |-> out, curve |-> c, base_ata |-> ata]

(* curve_net and leg_net are what the two legs add to the reserves. *)
CurveBought(tokens, curve_net, leg_tokens, leg_net, fee, creator_fee) ==
  CurveFill(OK, tokens + leg_tokens,
    [curve EXCEPT
       !.virtual_token_reserves = @ - tokens, !.real_token_reserves = @ - tokens,
       !.virtual_quote_reserves = @ + curve_net, !.real_quote_reserves = @ + curve_net,
       !.complete = tokens = curve.real_token_reserves,
       !.post_complete_base_out = @ + leg_tokens,
       !.post_complete_quote_in = @ + leg_net,
       !.protocol_fees = @ + (fee - (fee * Global.buyback_basis_points) \div BPS),
       !.creator_fee = @ + creator_fee],
    base_ata - (tokens + leg_tokens))

CurveHopBuy(amount, legs) ==
  LET rates     == HopRates(curve, legs)
      split     == ExactInFeeAmounts(amount, CurveBps(rates))
      net       == amount - (split.fees[1] + split.fees[2])
      tokens    == SwapExactInput(net - 1, curve.virtual_quote_reserves,
                                  curve.virtual_token_reserves).val
      remaining == curve.real_token_reserves
      cost      == BuyQuote(curve, remaining).val
      fee       == FeeAmount(cost, rates.protocol_fee_bps)
      creator   == FeeAmount(cost, rates.creator_fee_bps)
      pool_tobe == PoolToBe(curve, base_ata, remaining, cost)
      leg       == PostCompleteLegExactQuote(pool_tobe, rates,
                                             amount - (cost + fee + creator), TRUE)
  IN  IF ~CurveOpen(curve, ~legs.creator) \/ curve.is_mayhem_mode \/ split.err # OK \/ tokens = 0
        THEN CurveFill("Refused", 0, curve, base_ata)
      ELSE IF tokens <= remaining
        THEN CurveBought(tokens, net, 0, 0, split.fees[1], split.fees[2])
      ELSE IF amount <= cost + fee + creator
        THEN CurveBought(remaining, cost, 0, 0, fee, creator)
      ELSE IF pool_tobe.err # OK \/ leg.err # OK THEN CurveFill("Refused", 0, curve, base_ata)
      ELSE CurveBought(remaining, cost, leg.base_out, leg.quote_in,
                       fee + leg.fee, creator + leg.creator_fee)

CurveHopSell(amount, legs) ==
  LET rates   == HopRates(curve, legs)
      gross   == (amount * curve.virtual_quote_reserves)
                   \div (curve.virtual_token_reserves + amount)
      fee     == FeeAmount(gross, rates.protocol_fee_bps)
      creator == FeeAmount(gross, rates.creator_fee_bps)
  IN  IF ~CurveOpen(curve, ~legs.creator) \/ curve.is_mayhem_mode \/ gross <= fee + creator
         \/ amount > HeldC
        THEN CurveFill("Refused", 0, curve, base_ata)
      ELSE CurveFill(OK, gross - (fee + creator),
             [curve EXCEPT
                !.virtual_token_reserves = @ + amount, !.real_token_reserves = @ + amount,
                !.virtual_quote_reserves = @ - gross, !.real_quote_reserves = @ - gross,
                !.protocol_fees = @ + (fee - (fee * Global.buyback_basis_points) \div BPS),
                !.creator_fee = @ + creator],
             base_ata + amount)

(* Both hops of a route, in one transaction: all or nothing. *)
RouteBuy(amount, min_out) ==
  \E f \in {HopBuyFill(amount, ForHop(TRUE, 1, 2))} :
    \E hop \in {CurveHopBuy(f.base, ForHop(TRUE, 2, 2))} :
      /\ hop.err = OK /\ hop.out >= min_out
      /\ ApplyBuy(f, 3)
      /\ curve' = hop.curve /\ base_ata' = hop.base_ata

RouteSell(amount, min_out) ==
  \E hop \in {CurveHopSell(amount, ForHop(FALSE, 1, 2))} :
    \E f \in {HopSellFill(hop.out, ForHop(FALSE, 2, 2))} :
      /\ hop.err = OK /\ Proceeds(f) >= min_out
      /\ ApplySell(f, 3)
      /\ curve' = hop.curve /\ base_ata' = hop.base_ata

-----------------------------------------------------------------------------
(* A new coin quoted in a pump coin *)

(* What the seed calculation reads of Q and of C beside the curve account.   *)
MigratedCurveOfQ ==
  [CompletedCurve EXCEPT !.virtual_token_reserves = 0, !.virtual_quote_reserves = 0,
                         !.real_token_reserves = 0, !.real_quote_reserves = 0]
Origins == [create_on_q |-> [depth |-> 0, seed |-> 0], create_on_c |-> [depth |-> 1, seed |-> SeedOfC]]

(* The target: what a curve of the quote coin's own kind is seeded with.     *)
SeedTargets(c, origin) ==
  IF origin.depth > 0 THEN {origin.seed}
  ELSE IF c.quote_mint = DEFAULT_KEY THEN {Global.initial_virtual_sol_reserves}
  ELSE IF c.quote_mint \in {NATIVE_MINT} \cup Global.whitelisted_quote_mints
    THEN {Global.initial_virtual_quote_reserves}
  ELSE {m.initial_virtual_quote_reserves : m \in {m \in QuoteControl : m.mint = c.quote_mint}}

IsMigrated(c) ==
  /\ c.real_quote_reserves = 0 /\ c.virtual_quote_reserves = 0
  /\ c.real_token_reserves = 0 /\ c.virtual_token_reserves = 0

(* base and quote: the reserves the quote coin is priced on.                 *)
SeedFrom(target, base, quote) ==
  LET real    == Global.initial_real_token_reserves
      unsold  == Global.initial_virtual_token_reserves - real
      wanted  == MulDiv(target, real, unsold)
      raise   == SwapExactInput(wanted.val, quote, base)
      derived == MulDiv(raise.val, unsold, real)
  IN  IF quote <= 0 \/ unsold < 0 \/ wanted.err # OK \/ raise.err # OK \/ derived.err # OK
         \/ derived.val \notin U64 THEN Err("MathOverflow")
      ELSE IF derived.val = 0 THEN Err("QuoteReservesOutOfRange")
      ELSE derived

(* quote_pool is {<<pool, base vault, quote vault>>}, or {} for None.        *)
PumpQuoteInitialVirtualQuoteReserves(c, origin, quote_pool) ==
  LET targets == SeedTargets(c, origin)
      target  == CHOOSE t \in targets : TRUE
      q       == CHOOSE q \in quote_pool : TRUE
  IN  IF origin.depth + 1 > Global.max_curve_depth THEN Err("CurveDepthExceeded")
      ELSE IF c.is_mayhem_mode \/ targets = {} THEN Err("QuoteCurveNotEligible")
      ELSE IF IsMigrated(c)
        THEN IF quote_pool = {} THEN Err("QuotePoolAccountsRequired")
             ELSE SeedFrom(target, q[2], q[3] + q[1].virtual_quote_reserves)
      ELSE IF c.complete THEN Err("QuoteCurveAwaitingMigration")
      ELSE SeedFrom(target, c.virtual_token_reserves, c.virtual_quote_reserves)

(* initial_bonding_curve: what create_v2 initializes with that seed.         *)
NewCurve(quote_mint, seed) ==
  [CurveOfC EXCEPT
     !.virtual_token_reserves = Global.initial_virtual_token_reserves,
     !.virtual_quote_reserves = seed,
     !.real_token_reserves = Global.initial_real_token_reserves, !.real_quote_reserves = 0,
     !.complete = FALSE, !.quote_mint = quote_mint, !.creator_fee = 0, !.protocol_fees = 0]

(* The first buy of the new coin, quoted on the curve to be.                 *)
QuoteFirstBuy(r, base_reserve, quote_vault_balance) ==
  LET on_q == r.kind = "create_on_q"
      seed == PumpQuoteInitialVirtualQuoteReserves(
                IF on_q THEN MigratedCurveOfQ ELSE r.curve, Origins[r.kind],
                IF on_q THEN {<<r.pool, base_reserve, quote_vault_balance>>} ELSE {})
  IN  IF seed.err # OK THEN NoQuote(seed.err)
      ELSE QuoteTrade(r.disable_flags,
                      NewCurve(IF on_q THEN CurveOfC.quote_mint ELSE "C", seed.val), {},
                      SupplyOfC, TRUE, r.amount, r.slippage_bps)

(* What create_v2 derives and buy_v2 charges when they execute: the raise    *)
(* of the target, spent on the reserves of that moment, prices the coin.     *)
FirstBuy(r) ==
  LET on_q    == r.kind = "create_on_q"
      real    == Global.initial_real_token_reserves
      unsold  == Global.initial_virtual_token_reserves - real
      target  == IF on_q THEN Global.initial_virtual_sol_reserves ELSE SeedOfC
      wanted  == (target * real) \div unsold
      raise   == (wanted * IF on_q THEN base_vault ELSE curve.virtual_token_reserves)
                   \div (wanted + IF on_q THEN Effective ELSE curve.virtual_quote_reserves)
      seed    == (raise * unsold) \div real
      new     == NewCurve(IF on_q THEN CurveOfC.quote_mint ELSE "C", seed)
      tokens  == Least(r.amount, real)
      cost    == (tokens * seed) \div (Global.initial_virtual_token_reserves - tokens) + 1
      fees    == CurveFeeBps(new, SupplyOfC).fees
  IN  [err |-> IF seed = 0 \/ (~on_q /\ curve.complete) THEN "Refused" ELSE OK,
       cost |-> cost + FeeAmount(cost, fees.protocol_fee_bps)
                     + FeeAmount(cost, fees.creator_fee_bps),
       held |-> IF on_q THEN circulating ELSE HeldC]

(* It is paid in coins held outside the venues modelled here.                *)
CanCreate(r) ==
  \E b \in {FirstBuy(r)} : b.err = OK /\ b.cost <= b.held /\ b.cost <= r.quote.max_input

-----------------------------------------------------------------------------
(* The request *)

RouteHops(r, base_reserve, quote_vault_balance, base_ata_amount) ==
  LET hops == <<PoolHop(r.pool, base_reserve, quote_vault_balance, MintSupply),
                CurveHop(r.curve, SupplyOfC, base_ata_amount)>>
  IN  IF r.kind = "route_buy" THEN hops ELSE <<hops[2], hops[1]>>

(* The quote of what both rounds fetched. *)
QuoteOf(r, base_reserve, quote_vault_balance, base_ata_amount) ==
  LET ctx == PoolContext(r.pool, base_reserve, quote_vault_balance, MintSupply)
  IN  IF r.kind \in Creates THEN QuoteFirstBuy(r, base_reserve, quote_vault_balance)
      ELSE IF r.kind \in {"buy", "sell"}
        THEN QuoteTrade(r.disable_flags, MigratedCurveOfQ, {ctx}, MintSupply,
                        r.kind = "buy", r.amount, r.slippage_bps)
      ELSE IF r.kind = "exact_in"
        THEN BuyQuoteAmmSolIn(r.disable_flags, ctx, r.amount, r.slippage_bps)
      ELSE QuoteMultiHopSwap(r.disable_flags, User,
             RouteHops(r, base_reserve, quote_vault_balance, base_ata_amount),
             r.kind = "route_buy", r.amount, r.slippage_bps)

FetchVenues(kind, amount, slippage_bps) ==
  /\ request.phase \notin Pending /\ moves < MaxMoves
  /\ request' = [Idle EXCEPT !.phase = "fetched_venues", !.kind = kind, !.amount = amount,
                             !.slippage_bps = slippage_bps, !.pool = pool, !.curve = curve,
                             !.disable_flags = disable_flags]
  /\ UNCHANGED chain

(* An error of the quoter ends the request.  fetch_pump_quote_create reads   *)
(* Q's curve, which a migrated coin never changes, one round before the pool;*)
(* on an open curve C it makes no second round, and reads nothing in it here. *)
FetchVaults ==
  /\ request.phase = "fetched_venues"
  /\ \E quote \in {QuoteOf(request, base_vault, quote_vault, base_ata)} :
       request' = IF quote.err = OK
                    THEN [request EXCEPT !.phase = "built", !.base_reserve = base_vault,
                                         !.quote_vault_balance = quote_vault,
                                         !.base_ata_amount = base_ata, !.pool_then = pool,
                                         !.quote = quote]
                    ELSE Idle
  /\ UNCHANGED chain

RpcFails ==
  /\ request.phase = "fetched_venues"
  /\ request' = Idle
  /\ UNCHANGED chain

(* Mutant: a multi-hop buy is sent without its min_out. *)
ExecuteNoMinimum(r) ==
  \/ r.kind = "buy" /\ Buy(r.amount, r.quote.max_input, 2) /\ UNCHANGED <<curve, base_ata>>
  \/ r.kind = "exact_in" /\ BuyExactQuoteIn(r.amount, r.quote.min_out)
                         /\ UNCHANGED <<curve, base_ata>>
  \/ r.kind = "sell" /\ Sell(r.amount, r.quote.min_out, 2) /\ UNCHANGED <<curve, base_ata>>
  \/ r.kind = "route_buy" /\ RouteBuy(r.amount, 1)
  \/ r.kind = "route_sell" /\ RouteSell(r.amount, r.quote.min_out)
  \/ r.kind \in Creates /\ CanCreate(r) /\ UNCHANGED <<amm, curve, base_ata>>

(* The instruction the builders made of the quote, executed. *)
Execute(r) ==
  \/ r.kind = "buy" /\ Buy(r.amount, r.quote.max_input, 2) /\ UNCHANGED <<curve, base_ata>>
  \/ r.kind = "exact_in" /\ BuyExactQuoteIn(r.amount, r.quote.min_out)
                         /\ UNCHANGED <<curve, base_ata>>
  \/ r.kind = "sell" /\ Sell(r.amount, r.quote.min_out, 2) /\ UNCHANGED <<curve, base_ata>>
  \/ r.kind = "route_buy" /\ RouteBuy(r.amount, r.quote.min_out)
  \/ r.kind = "route_sell" /\ RouteSell(r.amount, r.quote.min_out)
  \/ r.kind \in Creates /\ CanCreate(r) /\ UNCHANGED <<amm, curve, base_ata>>

(* Whether it would succeed now. *)
Accepts(r) ==
  \/ /\ r.kind = "buy"
     /\ \E f \in {BuyFill(r.amount)} : CanBuy(f, 2) /\ Charge(f) <= r.quote.max_input
  \/ /\ r.kind = "exact_in"
     /\ \E f \in {BuyExactInFill(r.amount)} : CanBuy(f, 2) /\ f.base >= r.quote.min_out
  \/ /\ r.kind = "sell"
     /\ \E f \in {SellFill(r.amount)} : CanSell(f, 2) /\ Proceeds(f) >= r.quote.min_out
  \/ /\ r.kind = "route_buy"
     /\ \E f \in {HopBuyFill(r.amount, ForHop(TRUE, 1, 2))} :
          \E hop \in {CurveHopBuy(f.base, ForHop(TRUE, 2, 2))} :
            CanBuy(f, 3) /\ hop.err = OK /\ hop.out >= r.quote.min_out
  \/ /\ r.kind = "route_sell"
     /\ \E hop \in {CurveHopSell(r.amount, ForHop(FALSE, 1, 2))} :
          \E f \in {HopSellFill(hop.out, ForHop(FALSE, 2, 2))} :
            hop.err = OK /\ f.err = OK /\ Open(FALSE, 3) /\ Proceeds(f) >= r.quote.min_out
  \/ r.kind \in Creates /\ CanCreate(r)

Land ==
  /\ request.phase = "built"
  /\ request' = [Idle EXCEPT !.phase = "landed"]
  /\ moves' = moves + 1
  /\ Execute(request)

(* The transaction is refused, or its blockhash expires. *)
GiveUp ==
  /\ request.phase = "built"
  /\ request' = Idle
  /\ UNCHANGED chain

(* Others: on the pool, or on C with Q they hold. *)
OthersOnPool ==
  /\ moves < MaxMoves /\ moves' = moves + 1
  /\ Next
  /\ UNCHANGED <<curve, base_ata, request>>

OthersOnCurve(amount) ==
  /\ moves < MaxMoves /\ moves' = moves + 1
  /\ \E hop \in {CurveHopBuy(amount, AllLegs), CurveHopSell(amount, AllLegs)} :
       hop.err = OK /\ curve' = hop.curve /\ base_ata' = hop.base_ata
  /\ UNCHANGED <<amm, request>>

ClientNext ==
  \/ \E kind \in Kinds, slippage_bps \in Slippages :
       \E amount \in IF kind \in Creates THEN FirstBuys ELSE Amounts :
         FetchVenues(kind, amount, slippage_bps)
  \/ FetchVaults
  \/ RpcFails
  \/ Land
  \/ GiveUp
  \/ OthersOnPool
  \/ \E amount \in Amounts : OthersOnCurve(amount)

ClientSpec == ClientInit /\ [][ClientNext]_vars

-----------------------------------------------------------------------------
(* Properties *)

Fresh(r) ==
  /\ r.pool = pool /\ r.curve = curve /\ r.disable_flags = disable_flags
  /\ r.base_reserve = base_vault /\ r.quote_vault_balance = quote_vault
  /\ r.base_ata_amount = base_ata

(* add_slippage casts the slipped cost to u64 with `as`. *)
Slipped(r) == (r.quote.amount * (BPS + r.slippage_bps)) \div BPS

(* What a quote taken of the present state promises.                         *)
Promised(r) ==
  /\ r.amount > 0
  /\ r.kind \in {"buy", "exact_in", "sell"} => ~pool.is_cashback_coin
  /\ r.kind = "buy" => Charge(BuyFill(r.amount)) <= purse
  /\ r.kind = "exact_in" => Charge(BuyExactInFill(r.amount)) <= purse
  /\ r.kind = "route_buy" => r.amount <= purse
  /\ r.kind = "sell" => r.amount <= circulating
  /\ r.kind = "route_sell" => r.amount <= HeldC
  /\ r.kind \in Creates => FirstBuy(r).cost <= FirstBuy(r).held
  /\ r.kind \in {"buy"} \cup Creates => r.quote.amount <= AsU64(Slipped(r))

(* While nobody else moves, on the chain state the quote was taken of, the   *)
(* program executes the trade if and only if the user can pay its true cost, *)
(* which buy_base_input casts to u64.  It refuses a trade of nothing, which  *)
(* the quoters price; a v2 trade of a cashback coin, whose quote never says  *)
(* so; and a buy whose slipped cost add_slippage wraps to a                  *)
(* max_quote_amount_in below its cost; nothing else that is quoted.          *)
QuietTradeLands ==
  request.phase = "built" /\ Fresh(request) => (Accepts(request) <=> Promised(request))

Lands == request.phase = "built" /\ request'.phase = "landed"

(* ... and then it moves exactly what was quoted, over both hops of a route  *)
(* and on the curve of a coin that did not exist when it was quoted.         *)
QuotedExactly ==
  [][Lands /\ Fresh(request) =>
       \/ /\ request.kind = "buy"
          /\ purse - purse' = request.quote.amount
       \/ /\ request.kind = "exact_in"
          /\ circulating' - circulating = request.quote.amount
          /\ purse - purse' <= request.amount
       \/ /\ request.kind \in {"sell", "route_sell"}
          /\ purse' - purse = request.quote.amount
       \/ /\ request.kind = "route_buy"
          /\ purse - purse' = request.amount
          /\ base_ata - base_ata' = request.quote.amount
       \/ /\ request.kind \in Creates
          /\ FirstBuy(request).cost = request.quote.amount]_vars

(* Whatever happened between the two rounds or after them, a transaction     *)
(* that lands keeps the user's limits, the wrapped ones included: the wrap   *)
(* can only lower what a buy may cost.                                       *)
LimitsHold ==
  [][Lands =>
       \/ /\ request.kind = "buy"
          /\ purse - purse' <= Slipped(request)
          /\ circulating' - circulating = request.amount
       \/ /\ request.kind = "exact_in"
          /\ purse - purse' <= request.amount
          /\ circulating' - circulating >= SubSlippage(request.quote.amount, request.slippage_bps)
       \/ /\ request.kind \in {"sell", "route_sell"}
          /\ purse' - purse >= SubSlippage(request.quote.amount, request.slippage_bps)
       \/ /\ request.kind = "route_buy"
          /\ purse - purse' = request.amount
          /\ base_ata - base_ata' >= SubSlippage(request.quote.amount, request.slippage_bps)
          /\ base_ata' < base_ata
       \/ /\ request.kind \in Creates
          /\ FirstBuy(request).cost <= Slipped(request)]_vars

(* The pool is read one round trip before its vaults.  The reserve a request *)
(* is quoted on is the true one at the second read, plus the fees booked and *)
(* less the fees swept between the two: the error is never more than the     *)
(* fees that moved, and trades that pay their fees out cause none.  Creating *)
(* a coin quoted in C reads no pool.                                         *)
TornByFeesOnly ==
  (request.phase = "built" /\ request.kind # "create_on_c") =>
    LET BucketsOf(p) == p.protocol_fees + p.creator_fees
        ReserveOf(p) == EffectiveQuoteReserve(p, request.quote_vault_balance).val
    IN  ReserveOf(request.pool)
          = ReserveOf(request.pool_then) + (BucketsOf(request.pool_then) - BucketsOf(request.pool))

=============================================================================
