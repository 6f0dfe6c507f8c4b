---------------------------- MODULE CurveClient ----------------------------
(***************************************************************************)
(* Clients trading on one curve through AsyncPumpClient: build_buy_v3,     *)
(* build_buy_exact_quote_in_v3 and build_sell_v3 of src/async_client.rs,   *)
(* then send_and_confirm_transaction.                                      *)
(*                                                                         *)
(* fetch_curve_quote_state awaits two fetches.  Anyone may trade, sweep    *)
(* or migrate between the two, between the quote and the moment the        *)
(* transaction executes, or instead of it: those are the steps of Next     *)
(* that leave the clients alone.                                           *)
(***************************************************************************)
EXTENDS CurveMarket

CONSTANTS
  Clients,            \* users of the SDK
  Slippages           \* slippage_bps they choose

ASSUME ClientAssumption == Slippages \subseteq Nat

VARIABLE client       \* what each client's current request knows

vars == <<market, client>>

Kinds == {"buy", "exact_in", "sell"}
Phases == {"idle", "fetched_curve", "built", "landed"}
Pending == {"fetched_curve", "built"}

Idle ==
  [phase |-> "idle", kind |-> "sell", amount |-> 0, slippage_bps |-> 0,
   curve |-> InitialBondingCurve, base_ata_amount |-> 0, quote |-> NoQuote("none")]

ClientInit == Init /\ client = [u \in Clients |-> Idle]

(* The quote a request takes of its snapshot. *)
QuoteOf(r, base_ata_amount) ==
  IF r.kind = "buy"
    THEN BuyQuoteBondingCurveV3TokenOut(r.curve, MintSupply, base_ata_amount,
                                        r.amount, r.slippage_bps)
  ELSE IF r.kind = "exact_in"
    THEN BuyQuoteBondingCurveV3SolIn(r.curve, MintSupply, base_ata_amount,
                                     r.amount, r.slippage_bps)
  ELSE SellQuoteBondingCurve(r.curve, MintSupply, r.amount, r.slippage_bps)

(* build_* is called; the first get_many of fetch_curve_quote_state returns. *)
FetchCurve(u, kind, amount, slippage_bps) ==
  /\ client[u].phase \notin Pending
  /\ client' = [client EXCEPT ![u] =
       [Idle EXCEPT !.phase = "fetched_curve", !.kind = kind, !.amount = amount,
                    !.slippage_bps = slippage_bps, !.curve = curve]]
  /\ UNCHANGED market

(* Mutant: a transaction is built from a quote that failed. *)
FetchAtaIgnoringError(u) ==
  /\ client[u].phase = "fetched_curve"
  /\ client' = [client EXCEPT ![u].phase = "built", ![u].base_ata_amount = base_ata,
                              ![u].quote = QuoteOf(client[u], base_ata)]
  /\ UNCHANGED market

(* The second get_many returns; quoting and building do not await.  An      *)
(* error of the quoter ends the request.                                    *)
FetchAta(u) ==
  /\ client[u].phase = "fetched_curve"
  /\ \E quote \in {QuoteOf(client[u], base_ata)} :
       client' = [client EXCEPT
         ![u] = IF quote.err = OK
                  THEN [@ EXCEPT !.phase = "built", !.base_ata_amount = base_ata,
                                 !.quote = quote]
                  ELSE Idle]
  /\ UNCHANGED market

(* An RPC call fails: the error propagates out of build_*. *)
RpcFails(u) ==
  /\ client[u].phase = "fetched_curve"
  /\ client' = [client EXCEPT ![u] = Idle]
  /\ UNCHANGED market

(* Mutant: no limits are passed. *)
ExecuteUnlimited(r) ==
  \/ r.kind = "buy" /\ Buy(r.amount, Purse, 3)
  \/ r.kind = "exact_in" /\ BuyExactQuoteIn(r.amount, 0, 3)
  \/ r.kind = "sell" /\ Sell(r.amount, 0, 3)

(* The instruction build_* returned, executed by the program. *)
Execute(r) ==
  \/ r.kind = "buy" /\ Buy(r.amount, r.quote.max_input, 3)
  \/ r.kind = "exact_in" /\ BuyExactQuoteIn(r.amount, r.quote.min_out, 3)
  \/ r.kind = "sell" /\ Sell(r.amount, r.quote.min_out, 3)

FillOf(r) ==
  IF r.kind = "buy" THEN BuyFill(curve, base_ata, r.amount, 3)
  ELSE IF r.kind = "exact_in" THEN BuyExactInFill(curve, base_ata, r.amount, 3)
  ELSE SellFill(curve, r.amount, 3)

WithinLimits(r, f) ==
  /\ f.err = OK
  /\ r.kind # "sell" => ChargeOf(f) <= purse
  /\ r.kind = "buy" => ChargeOf(f) <= r.quote.max_input
  /\ r.kind = "exact_in" =>
       \/ TokensOf(f) >= r.quote.min_out
       \/ curve.is_mayhem_mode /\ f.curve_tokens = curve.real_token_reserves
  /\ r.kind = "sell" => r.amount <= circulating /\ ProceedsOf(f) >= r.quote.min_out

(* Whether it would succeed now. *)
Accepts(r) == WithinLimits(r, FillOf(r))

Land(u) ==
  /\ client[u].phase = "built"
  /\ client' = [client EXCEPT ![u] = [Idle EXCEPT !.phase = "landed"]]
  /\ Execute(client[u])

Reject(u) ==
  /\ client[u].phase = "built" /\ ~Accepts(client[u])
  /\ client' = [client EXCEPT ![u] = Idle]
  /\ UNCHANGED market

(* Mutant: an expired transaction is rebuilt from the old curve, for ever. *)
ExpireRetrying(u) ==
  /\ client[u].phase = "built"
  /\ client' = [client EXCEPT ![u].phase = "fetched_curve"]
  /\ UNCHANGED market

(* The blockhash build_transaction fetched is too old. *)
Expire(u) ==
  /\ client[u].phase = "built"
  /\ client' = [client EXCEPT ![u] = Idle]
  /\ UNCHANGED market

Others == Next /\ UNCHANGED client

ClientNext ==
  \/ \E u \in Clients, kind \in Kinds, amount \in Amounts, slippage_bps \in Slippages :
       FetchCurve(u, kind, amount, slippage_bps)
  \/ \E u \in Clients : FetchAta(u)
  \/ \E u \in Clients : RpcFails(u)
  \/ \E u \in Clients : Land(u)
  \/ \E u \in Clients : Reject(u)
  \/ \E u \in Clients : Expire(u)
  \/ Others

(* Every await resolves (RpcClient calls time out), and a signed             *)
(* transaction executes, is refused or expires with its blockhash.           *)
ClientFairness ==
  \A u \in Clients : /\ WF_vars(RpcFails(u) \/ FetchAta(u))
                     /\ WF_vars(Expire(u) \/ Reject(u) \/ Land(u))

ClientSpec == ClientInit /\ [][ClientNext]_vars /\ ClientFairness

-----------------------------------------------------------------------------
(* Properties *)

(* Type invariant; a transaction is only ever built from a quote that        *)
(* succeeded.                                                                *)
ClientTypeOK ==
  client \in [Clients ->
    [phase : Phases, kind : Kinds, amount : {0} \cup Amounts, slippage_bps : {0} \cup Slippages,
     curve : BondingCurve, base_ata_amount : Nat,
     quote : [err : {"none", OK}, amount : Nat, min_out : Nat,
              input_amount_used : Nat, max_input : Nat]]]

Fresh(r) == r.curve = curve /\ r.base_ata_amount = base_ata

(* The curve part of a buy and the slipped cost, before the quoter casts     *)
(* them to u64 with `as`.                                                    *)
CurvePart(r) ==
  LET tokens == Least(r.amount, curve.real_token_reserves)
      cost   == (tokens * curve.virtual_quote_reserves)
                  \div (curve.virtual_token_reserves - tokens) + 1
  IN  WithFees(cost, CurveFeeBps(curve, MintSupply).fees)

Slipped(r) == (r.quote.amount * (BPS + r.slippage_bps)) \div BPS

(* What a quote taken of the present state promises. *)
Promised(r) ==
  /\ r.amount > 0
  /\ r.kind = "buy" => /\ CurvePart(r) <= purse /\ r.quote.amount <= purse
                       /\ r.quote.amount <= AsU64(Slipped(r))
  /\ r.kind = "exact_in" => r.quote.input_amount_used <= purse /\ r.quote.amount > 0
  /\ r.kind = "sell" => /\ ~curve.complete /\ ~curve.is_cashback_coin
                        /\ r.amount <= circulating

(* While nobody else moves, a trade quoted from the chain's present state is *)
(* accepted if and only if the user can pay for it and no `as u64` of the    *)
(* quoter wrapped its cost or its slippage limit; of the sales, which the    *)
(* client builds for every curve, the program moreover refuses those to      *)
(* completed curves and of cashback coins, and no others.                    *)
QuietTradeLands ==
  \A u \in Clients :
    client[u].phase = "built" /\ Fresh(client[u]) =>
      (Accepts(client[u]) <=> Promised(client[u]))

Lands(u) == client[u].phase = "built" /\ client'[u].phase = "landed"

(* ... and then it moves exactly what was quoted. *)
QuotedExactly ==
  [][\A u \in Clients :
       LET r == client[u]
       IN  Lands(u) /\ Fresh(r) =>
             IF r.kind = "sell"
               THEN purse' - purse = r.quote.amount
             ELSE IF r.kind = "buy"
               THEN /\ purse - purse' = r.quote.amount
                    /\ circulating' - circulating = r.quote.min_out
             ELSE /\ purse - purse' = r.quote.input_amount_used
                  /\ circulating' - circulating = r.quote.amount]_vars

(* Whatever happened between the two fetches or after them, a transaction    *)
(* that lands keeps the user's limits: a buy costs at most the quote plus    *)
(* slippage (an exact-in buy at most its budget), a sale pays at least the   *)
(* quote less slippage, and fewer tokens than promised only come from the    *)
(* partial fill that completes a mayhem curve.                               *)
LimitsHold ==
  [][\A u \in Clients :
       LET r == client[u]
       IN  Lands(u) =>
             IF r.kind = "sell"
               THEN purse' - purse >= SubSlippage(r.quote.amount, r.slippage_bps)
             ELSE /\ purse - purse' <= IF r.kind = "buy"
                                         THEN AddSlippage(r.quote.amount, r.slippage_bps)
                                         ELSE r.amount
                  /\ \/ circulating' - circulating >= r.quote.min_out
                     \/ curve.is_mayhem_mode /\ curve'.complete]_vars

(* Every request ends: quoted and landed, refused, expired or failed. *)
EveryRequestEnds ==
  \A u \in Clients : (client[u].phase \in Pending) ~> (client[u].phase \notin Pending)

(* docs/getting-started.md says fetch_curve_quote_state reads the curve and  *)
(* its base ATA in one round trip.  Of the two read in one state, without    *)
(* donations, the second is determined by the first.                         *)
OneSnapshot ==
  \A u \in Clients :
    LET r == client[u]
    IN  (r.phase = "built" /\ ~r.curve.complete) =>
          r.base_ata_amount = r.curve.real_token_reserves
                                + (Supply - Global.initial_real_token_reserves)
=============================================================================
