------------------------- MODULE CurveClientProofs -------------------------
(***************************************************************************)
(* Clients that quote from stale or torn snapshots still only take the     *)
(* steps of CurveMarket, so everything proved of the market holds however  *)
(* many clients race on it.                                                *)
(***************************************************************************)
EXTENDS CurveClient, CurveMarketProofs

(* A pending request trades an amount chosen when it started. *)
RequestsKnown ==
  /\ DOMAIN client = Clients
  /\ \A u \in Clients : client[u].phase \in Pending => client[u].amount \in Amounts

(* The records a request is kept in have a phase and an amount. *)
LEMMA IdleFields ==
  /\ Idle.phase = "idle"
  /\ [Idle EXCEPT !.phase = "landed"].phase = "landed"
  /\ "idle" \notin Pending /\ "landed" \notin Pending
BY DEF Idle, Pending

(* RequestsKnown holds initially and is preserved by every client step. *)
LEMMA RequestsKnownInductive ==
  /\ ClientInit => RequestsKnown
  /\ RequestsKnown /\ [ClientNext]_vars => RequestsKnown'
<1>1. ClientInit => RequestsKnown
  BY IdleFields DEF ClientInit, RequestsKnown
<1>2. ASSUME RequestsKnown, [ClientNext]_vars PROVE RequestsKnown'
  <2>1. ASSUME NEW u \in Clients, NEW kind \in Kinds, NEW amount \in Amounts,
               NEW s \in Slippages, FetchCurve(u, kind, amount, s)
        PROVE  RequestsKnown'
    <3> DEFINE r == [Idle EXCEPT !.phase = "fetched_curve", !.kind = kind, !.amount = amount,
                                 !.slippage_bps = s, !.curve = curve]
    <3>1. r.amount = amount
      BY DEF Idle
    <3>2. client' = [client EXCEPT ![u] = r]
      BY <2>1 DEF FetchCurve
    <3> HIDE DEF r
    <3> QED BY <1>2, <3>1, <3>2 DEF RequestsKnown
  <2>2. ASSUME NEW u \in Clients, FetchAta(u)
        PROVE  RequestsKnown'
    <3> DEFINE q == QuoteOf(client[u], base_ata)
               r == [client[u] EXCEPT !.phase = "built", !.base_ata_amount = base_ata,
                                      !.quote = q]
    <3>1. client[u].phase = "fetched_curve"
          /\ (client' = [client EXCEPT ![u] = r] \/ client' = [client EXCEPT ![u] = Idle])
      BY <2>2 DEF FetchAta
    <3>2. r.amount = client[u].amount /\ client[u].amount \in Amounts
      BY <1>2, <3>1 DEF RequestsKnown, Pending
    <3> HIDE DEF r
    <3> QED BY <1>2, <3>1, <3>2, IdleFields DEF RequestsKnown
  <2>3. ASSUME NEW u \in Clients,
               \/ client' = [client EXCEPT ![u] = Idle]
               \/ client' = [client EXCEPT ![u] = [Idle EXCEPT !.phase = "landed"]]
        PROVE  RequestsKnown'
    <3> DEFINE landed == [Idle EXCEPT !.phase = "landed"]
    <3>1. landed.phase = "landed"
      BY IdleFields
    <3> HIDE DEF landed
    <3> QED BY <1>2, <2>3, <3>1, IdleFields DEF RequestsKnown, landed
  <2>4. CASE UNCHANGED client
    BY <1>2, <2>4 DEF RequestsKnown
  <2> QED BY <1>2, <2>1, <2>2, <2>3, <2>4
          DEF ClientNext, RpcFails, Land, Reject, Expire, Others, vars
<1> QED BY <1>1, <1>2

(* A client's step is a step of the market or leaves the market alone: the   *)
(* limits a transaction carries only restrict what the market allows.        *)
LEMMA ClientStep ==
  ASSUME Inv, RequestsKnown, [ClientNext]_vars
  PROVE  [Next]_market
<1>1. ASSUME NEW u \in Clients, Land(u)
      PROVE  Next
  <2> DEFINE r == client[u]
  <2>1. r.amount \in Amounts /\ Execute(r)
    BY <1>1 DEF RequestsKnown, Land, Pending
  <2> HIDE DEF r
  <2>2. purse <= Purse
    <3>1. /\ purse + quote_vault + pool.quote + paid_out = Purse
          /\ purse \in Nat /\ quote_vault \in Nat /\ pool.quote \in Nat /\ paid_out \in Nat
      BY DEF Inv, Conserved, TypeOK
    <3> QED BY <3>1
  <2>3. CASE Buy(r.amount, r.quote.max_input, 3)
    <3> DEFINE f == BuyFill(curve, base_ata, r.amount, 3)
    <3>1. ApplyBuy(f, 3) /\ f.err = OK /\ ChargeOf(f) <= purse
      BY <2>3 DEF Buy, ApplyBuy
    <3>2. Buyable(curve, base_ata) /\ r.amount \in Nat
      <4>1. ~curve.complete
        BY <3>1 DEF BuyFill, NoFill, Fill, OK, CurveOpen
      <4> QED BY <2>1, <4>1, TradingCurve, AmountsNat
    <3>3. GoodBuy(curve, base_ata, f)
      BY <3>1, <3>2, BuyFillGood
    <3> HIDE DEF f
    <3>4. ChargeOf(f) \in Nat
      BY <3>3 DEF GoodBuy, ChargeOf
    <3>5. ChargeOf(f) <= Purse
      BY <2>2, <3>1, <3>4, MarketAssumption, U64Assumption DEF Inv, TypeOK, U64
    <3>6. Buy(r.amount, Purse, 3)
      BY <3>1, <3>5 DEF Buy, f
    <3> QED BY <2>1, <3>6 DEF Next
  <2>4. CASE BuyExactQuoteIn(r.amount, r.quote.min_out, 3)
    <3> DEFINE f == BuyExactInFill(curve, base_ata, r.amount, 3)
    <3>1. ApplyBuy(f, 3) /\ f.err = OK
      BY <2>4 DEF BuyExactQuoteIn, ApplyBuy
    <3>2. Buyable(curve, base_ata) /\ r.amount \in Nat
      <4>1. ~curve.complete
        BY <3>1 DEF BuyExactInFill, NoFill, Fill, OK, CurveOpen
      <4> QED BY <2>1, <4>1, TradingCurve, AmountsNat
    <3>3. GoodBuy(curve, base_ata, f)
      BY <3>1, <3>2, BuyExactInFillGood
    <3> HIDE DEF f
    <3>4. TokensOf(f) >= 0
      BY <3>3 DEF GoodBuy, TokensOf
    <3>5. BuyExactQuoteIn(r.amount, 0, 3)
      BY <3>1, <3>4 DEF BuyExactQuoteIn, f
    <3> QED BY <2>1, <3>5 DEF Next
  <2>5. CASE Sell(r.amount, r.quote.min_out, 3)
    <3> DEFINE f == SellFill(curve, r.amount, 3)
    <3>1. ProceedsOf(f) >= 0
      <4>1. f.err = OK
        BY <2>5 DEF Sell
      <4>2. ~curve.complete
        BY <4>1 DEF SellFill, NoFill, Fill, OK, CurveOpen
      <4>3. r.amount \in Nat /\ r.amount # 0 /\ r.amount <= circulating
        BY <2>1, <2>5, <4>1, AmountsNat DEF Sell, SellFill, NoFill, Fill, OK, CurveOpen
      <4> DEFINE g == (r.amount * curve.virtual_quote_reserves)
                        \div (curve.virtual_token_reserves + r.amount)
                 bps == CurveFeeBps(curve, MintSupply)
      <4>4. g \in Nat
        BY <4>2, <4>3, SaleIsCovered
      <4>5. bps.fees \in Fees
        BY <4>2, TradingCurve, CurveFeeBpsType DEF Buyable, BondingCurve
      <4>6. /\ f.curve_quote = g /\ f.fee = ProtocolFee(g, bps.fees)
            /\ f.creator_fee = CreatorFee(g, bps.fees)
            /\ ~ (g < ProtocolFee(g, bps.fees) + CreatorFee(g, bps.fees))
        BY <4>1 DEF SellFill, NoFill, Fill, OK, CurveOpen
      <4> HIDE DEF g, bps, f
      <4>7. f.fee \in Nat /\ f.creator_fee \in Nat
        BY <4>4, <4>5, <4>6, FeesOfCost
      <4> QED BY <4>4, <4>6, <4>7 DEF ProceedsOf
    <3> HIDE DEF f
    <3>2. Sell(r.amount, 0, 3)
      BY <2>5, <3>1 DEF Sell, f
    <3> QED BY <2>1, <3>2 DEF Next
  <2> QED BY <2>1, <2>3, <2>4, <2>5 DEF Execute
<1> QED BY <1>1 DEF ClientNext, FetchCurve, FetchAta, RpcFails, Reject, Expire, Others, vars

(* AsyncPumpClient's requests, racing with each other and with the rest of   *)
(* the chain, implement the serial market.                                   *)
LEMMA ClientsStayInMarket == ClientSpec => Spec
<1>1. ClientInit => Init /\ Inv /\ RequestsKnown
  BY InitInv, RequestsKnownInductive DEF ClientInit
<1>2. Inv /\ RequestsKnown /\ [ClientNext]_vars => [Next]_market /\ Inv' /\ RequestsKnown'
  BY ClientStep, NextInv, RequestsKnownInductive
<1> QED BY <1>1, <1>2, PTL DEF ClientSpec, Spec

(* So no race of stale quotes leaves a holder whose tokens the raise cannot  *)
(* pay for.                                                                  *)
THEOREM ClientsSolvency == ClientSpec => []EveryHolderCanSell
BY ClientsStayInMarket, Solvency, PTL

-----------------------------------------------------------------------------
(* What a request knows *)

(* A curve account some client may have read: of this coin, and either       *)
(* complete and sold out or one the quoters can price.                       *)
Snapshot(c) ==
  /\ c \in BondingCurve /\ c.is_mayhem_mode = Mayhem
  /\ c.complete => c.real_token_reserves = 0
  /\ ~c.complete => Quotable(c)

Quotes == [err : {"none", OK}, amount : Nat, min_out : Nat,
           input_amount_used : Nat, max_input : Nat]

Requests ==
  [phase : Phases, kind : Kinds, amount : {0} \cup Amounts, slippage_bps : {0} \cup Slippages,
   curve : BondingCurve, base_ata_amount : Nat, quote : Quotes]

(* A request's numbers are naturals, its snapshot is a curve of this coin,   *)
(* and a transaction is built from the successful quote of that snapshot,    *)
(* torn or not.                                                              *)
Known(r) ==
  /\ r \in Requests /\ Snapshot(r.curve)
  /\ r.phase \in Pending => r.amount \in Amounts
  /\ r.phase = "built" => r.quote = QuoteOf(r, r.base_ata_amount) /\ r.quote.err = OK

ClientInv ==
  /\ client \in [Clients -> Requests]
  /\ \A u \in Clients : Known(client[u])
  /\ curve.is_mayhem_mode = Mayhem

(* The curve that create_v2 initialises is a snapshot, and so is the one     *)
(* every invariant state holds.                                              *)
LEMMA Snapshots ==
  /\ Snapshot(InitialBondingCurve)
  /\ Inv /\ curve.is_mayhem_mode = Mayhem => Snapshot(curve)
<1>1. Snapshot(InitialBondingCurve)
  <2>1. ResolveQuoteMint(QuoteMint) \in Pubkey
    BY PubkeyAssumption, MarketAssumption DEF ResolveQuoteMint
  <2> QED BY <2>1, GlobalAssumption, MarketAssumption
          DEF Snapshot, InitialBondingCurve, Quotable, BondingCurve, Supply
<1>2. Inv /\ curve.is_mayhem_mode = Mayhem => Snapshot(curve)
  BY CurveIsQuotable DEF Snapshot
<1> QED BY <1>1, <1>2

(* A request that has not started, or that has landed, knows nothing yet. *)
LEMMA IdleKnown == Known(Idle) /\ Known([Idle EXCEPT !.phase = "landed"])
<1>1. NoQuote("none") \in Quotes
  BY DEF NoQuote, Quote, Quotes
<1>2. Idle \in Requests /\ [Idle EXCEPT !.phase = "landed"] \in Requests
  BY <1>1, Snapshots DEF Idle, Requests, Phases, Kinds, Snapshot
<1> QED BY <1>2, Snapshots DEF Known, Idle, Pending

(* Every successful quote of a snapshot is made of natural numbers.          *)
LEMMA QuoteType ==
  ASSUME NEW r \in Requests, Snapshot(r.curve), r.amount \in Amounts, NEW ata \in Nat,
         QuoteOf(r, ata).err = OK
  PROVE  QuoteOf(r, ata) \in Quotes
<1> DEFINE c == r.curve
           n == r.amount
           s == r.slippage_bps
           q == QuoteOf(r, ata)
<1>1. /\ n \in U64 /\ n \in Nat /\ s \in Nat /\ c \in BondingCurve
      /\ c.real_token_reserves \in Nat
  <2>1. n \in U64 /\ n \in Nat
    BY MarketAssumption, AmountsNat
  <2>2. s \in Nat
    <3>1. s = 0 \/ s \in Slippages
      BY DEF Requests
    <3>2. \A x \in Slippages : x \in Nat
      BY ClientAssumption, Zenon
    <3> HIDE DEF s
    <3> QED BY <3>1, <3>2
  <2>3. c \in BondingCurve /\ c.real_token_reserves \in Nat
    BY DEF Snapshot, BondingCurve
  <2> QED BY <2>1, <2>2, <2>3
<1>2. CASE r.kind = "buy"
  <2> DEFINE ask == BuyV3SolAmountFromTokenAmount(c, MintSupply, ata, n)
             t   == IF c.is_mayhem_mode THEN Least(n, c.real_token_reserves) ELSE n
  <2>1. ask.err = OK /\ q = Quote(OK, ask.val, t, t, AddSlippage(ask.val, s))
    BY <1>2 DEF QuoteOf, BuyQuoteBondingCurveV3TokenOut, NoQuote, Quote, OK
  <2>2. Quotable(c)
    BY <2>1 DEF Snapshot, BuyV3SolAmountFromTokenAmount, CurveOpen, Err, OK
  <2>3. ask.val \in Nat
    BY <1>1, <2>1, <2>2, AskNat
  <2>4. t \in Nat
    BY <1>1 DEF Least
  <2> HIDE DEF ask, t, q
  <2>5. AddSlippage(ask.val, s) \in Nat
    BY <1>1, <2>3, SlippageBounds
  <2> QED BY <2>1, <2>3, <2>4, <2>5 DEF Quote, Quotes, q
<1>3. CASE r.kind = "exact_in"
  <2> DEFINE b == BuyV3TokenAmountFromSolAmount(c, MintSupply, ata, n)
  <2>1. b.err = OK /\ q = Quote(OK, b.tokens, SubSlippage(b.tokens, s), b.charged, n)
    BY <1>3 DEF QuoteOf, BuyQuoteBondingCurveV3SolIn, ExactInQuote, NoQuote, Quote, OK
  <2>2. Quotable(c)
    BY <2>1 DEF Snapshot, BuyV3TokenAmountFromSolAmount, CurveOpen, OK
  <2>3. b.tokens \in Nat /\ b.charged \in Nat
    BY <1>1, <2>2, ExactInV3Good
  <2> HIDE DEF b, q
  <2>4. SubSlippage(b.tokens, s) \in Nat
    BY <1>1, <2>3, SlippageBounds
  <2> QED BY <1>1, <2>1, <2>3, <2>4 DEF Quote, Quotes, q
<1>4. CASE r.kind = "sell"
  <2> DEFINE out == SellSolAmountFromTokenAmount(c, MintSupply, n)
  <2>1. out.err = OK /\ q = Quote(OK, out.val, SubSlippage(out.val, s), n, n)
    BY <1>4 DEF QuoteOf, SellQuoteBondingCurve, NoQuote, Quote, OK
  <2>2. out.val \in Nat
    <3>1. CASE n = 0 \/ c.virtual_token_reserves = 0
      BY <3>1 DEF SellSolAmountFromTokenAmount, Ok
    <3>2. CASE ~ (n = 0 \/ c.virtual_token_reserves = 0)
      <4> DEFINE num == n * c.virtual_quote_reserves
                 den == c.virtual_token_reserves + n
                 g == num \div den
                 fees == CurveFeeBps(c, MintSupply).fees
      <4>1. num \in Nat /\ den \in Nat /\ den > 0 /\ c.virtual_token_reserves > 0
        BY <1>1, <3>2 DEF BondingCurve
      <4>2. ~ (g < FeeOn(g, fees)) /\ out = Ok(AsU64(g - FeeOn(g, fees)))
        BY <2>1, <3>2 DEF SellSolAmountFromTokenAmount, Err, Ok, OK
      <4>3. fees \in Fees
        BY <1>1, <4>1, CurveFeeBpsType
      <4> HIDE DEF num, den, fees
      <4>4. g \in Nat
        BY <4>1, DivBounds
      <4> HIDE DEF g, out
      <4>5. g - FeeOn(g, fees) \in Nat
        BY <4>2, <4>3, <4>4, FeeOnMono
      <4> QED BY <4>2, <4>5, AsU64Shrinks DEF Ok
    <3> QED BY <3>1, <3>2
  <2> HIDE DEF out, q
  <2>3. SubSlippage(out.val, s) \in Nat
    BY <1>1, <2>2, SlippageBounds
  <2> QED BY <1>1, <2>1, <2>2, <2>3 DEF Quote, Quotes, q
<1> QED BY <1>2, <1>3, <1>4 DEF Requests, Kinds

(* Trades, sweeps, migration and donations never change the coin's flags.    *)
LEMMA FlagsFixed ==
  ASSUME curve \in BondingCurve, [Next]_market
  PROVE  curve'.is_mayhem_mode = curve.is_mayhem_mode
<1>1. ASSUME NEW f, NEW v, ApplyBuy(f, v)
      PROVE  curve'.is_mayhem_mode = curve.is_mayhem_mode
  BY <1>1 DEF ApplyBuy, BondingCurve
<1>2. ASSUME NEW amount, NEW min, NEW v, Sell(amount, min, v)
      PROVE  curve'.is_mayhem_mode = curve.is_mayhem_mode
  BY <1>2 DEF Sell, BondingCurve
<1>3. CASE Migrate
  BY <1>3 DEF Migrate, BondingCurve
<1>4. CASE SweepCreatorFee
  BY <1>4 DEF SweepCreatorFee, BondingCurve
<1>5. CASE SweepProtocolFee
  BY <1>5 DEF SweepProtocolFee, BondingCurve
<1>6. CASE \E amount \in Amounts : Donate(amount)
  BY <1>6 DEF Donate
<1>7. CASE UNCHANGED market
  BY <1>7 DEF market
<1>8. CASE \E v \in {2, 3}, amount \in Amounts : Buy(amount, Purse, v)
  BY <1>1, <1>8 DEF Buy
<1>9. CASE \E v \in {2, 3}, amount \in Amounts : BuyExactQuoteIn(amount, 0, v)
  BY <1>1, <1>9 DEF BuyExactQuoteIn
<1>10. CASE \E v \in {2, 3}, amount \in Amounts : Sell(amount, 0, v)
  BY <1>2, <1>10
<1> QED BY <1>3, <1>4, <1>5, <1>6, <1>7, <1>8, <1>9, <1>10 DEF Next

(* ClientInv holds initially ... *)
LEMMA ClientInvInit == ClientInit => ClientInv
<1> SUFFICES ASSUME ClientInit PROVE ClientInv
  OBVIOUS
<1>1. Idle \in Requests /\ Known(Idle)
  BY IdleKnown DEF Known
<1>2. curve.is_mayhem_mode = Mayhem
  BY DEF ClientInit, Init, InitialBondingCurve
<1> QED BY <1>1, <1>2 DEF ClientInit, ClientInv

(* ... and every step of a client or of the chain preserves it.              *)
LEMMA ClientInvStep ==
  ASSUME Inv, ClientInv, [ClientNext]_vars, [Next]_market
  PROVE  ClientInv'
<1>1. curve'.is_mayhem_mode = Mayhem
  BY FlagsFixed DEF Inv, TypeOK, ClientInv
<1>2. ASSUME NEW u \in Clients, NEW r, Known(r), client' = [client EXCEPT ![u] = r]
      PROVE  ClientInv'
  <2>1. r \in Requests
    BY <1>2 DEF Known
  <2>2. /\ client' \in [Clients -> Requests]
        /\ \A w \in Clients : client'[w] = IF w = u THEN r ELSE client[w]
    BY <1>2, <2>1 DEF ClientInv
  <2>3. \A w \in Clients : Known(client'[w])
    BY <1>2, <2>2 DEF ClientInv
  <2>4. \A w \in Clients : Known(client[w])'
    BY <2>3 DEF Known
  <2> QED BY <1>1, <2>2, <2>4 DEF ClientInv
<1>3. ASSUME NEW u \in Clients, NEW kind \in Kinds, NEW amount \in Amounts,
             NEW s \in Slippages, FetchCurve(u, kind, amount, s)
      PROVE  ClientInv'
  <2> DEFINE r == [Idle EXCEPT !.phase = "fetched_curve", !.kind = kind, !.amount = amount,
                               !.slippage_bps = s, !.curve = curve]
  <2>1. Snapshot(curve) /\ curve \in BondingCurve
    BY Snapshots DEF ClientInv, Snapshot
  <2>2. Idle \in Requests
    BY IdleKnown DEF Known
  <2>3. r \in Requests
    BY <2>1, <2>2 DEF Requests, Phases
  <2>4. r.phase = "fetched_curve" /\ r.amount = amount /\ r.curve = curve
    BY <2>2 DEF Requests
  <2> HIDE DEF r
  <2>5. Known(r)
    BY <2>1, <2>3, <2>4 DEF Known
  <2> QED BY <1>2, <1>3, <2>5 DEF FetchCurve, r
<1>4. ASSUME NEW u \in Clients, FetchAta(u)
      PROVE  ClientInv'
  <2> DEFINE r0 == client[u]
             q  == QuoteOf(r0, base_ata)
             r  == [r0 EXCEPT !.phase = "built", !.base_ata_amount = base_ata, !.quote = q]
  <2>1. /\ r0 \in Requests /\ Snapshot(r0.curve) /\ r0.amount \in Amounts /\ base_ata \in Nat
    BY <1>4 DEF ClientInv, Known, FetchAta, Pending, Inv, TypeOK
  <2>2. CASE q.err = OK
    <3>1. q \in Quotes
      BY <2>1, <2>2, QuoteType
    <3> HIDE DEF q
    <3>2. r \in Requests
      BY <2>1, <3>1 DEF Requests, Phases
    <3>3. /\ r.kind = r0.kind /\ r.amount = r0.amount /\ r.curve = r0.curve
          /\ r.slippage_bps = r0.slippage_bps /\ r.quote = q /\ r.base_ata_amount = base_ata
      BY <2>1 DEF Requests
    <3> HIDE DEF r
    <3>4. QuoteOf(r, base_ata) = q
      BY <3>3 DEF QuoteOf, q
    <3>5. Known(r)
      BY <2>1, <2>2, <3>2, <3>3, <3>4 DEF Known
    <3>6. client' = [client EXCEPT ![u] = r]
      BY <1>4, <2>2 DEF FetchAta, q, r
    <3> QED BY <1>2, <3>5, <3>6
  <2>3. CASE q.err # OK
    <3>1. client' = [client EXCEPT ![u] = Idle]
      BY <1>4, <2>3 DEF FetchAta
    <3> QED BY <1>2, <3>1, IdleKnown
  <2> QED BY <2>2, <2>3
<1>5. ASSUME NEW u \in Clients, RpcFails(u) \/ Land(u) \/ Reject(u) \/ Expire(u)
      PROVE  ClientInv'
  <2> DEFINE landed == [Idle EXCEPT !.phase = "landed"]
  <2>1. Known(Idle) /\ Known(landed)
    BY IdleKnown
  <2> HIDE DEF landed
  <2>2. client' = [client EXCEPT ![u] = Idle] \/ client' = [client EXCEPT ![u] = landed]
    BY <1>5 DEF RpcFails, Land, Reject, Expire, landed
  <2> QED BY <1>2, <2>1, <2>2
<1>6. CASE client' = client
  BY <1>1, <1>6 DEF ClientInv, Known
<1> QED BY <1>3, <1>4, <1>5, <1>6 DEF ClientNext, Others, vars

-----------------------------------------------------------------------------
(* What a transaction moves when it lands *)

(* The balances an invariant state holds fit a u64: they are parts of one    *)
(* mint's supply.                                                            *)
LEMMA PurseFits ==
  ASSUME Inv
  PROVE  /\ purse \in Nat /\ purse <= Purse /\ Purse \in Nat
         /\ Purse <= U64_MAX /\ U64_MAX \in Nat
         /\ circulating \in Nat
<1>1. /\ purse + quote_vault + pool.quote + paid_out = Purse
      /\ purse \in Nat /\ quote_vault \in Nat /\ pool.quote \in Nat /\ paid_out \in Nat
      /\ circulating \in Nat
  BY DEF Inv, Conserved, TypeOK
<1>2. Purse \in U64
  BY MarketAssumption
<1> QED BY <1>1, <1>2, U64Assumption DEF U64

(* The slippage limits a built transaction carries are those of its quote.   *)
LEMMA QuoteLimits ==
  ASSUME NEW r, Known(r), r.phase = "built"
  PROVE  /\ r.amount \in Amounts /\ r.amount \in U64 /\ r.amount \in Nat
         /\ r.slippage_bps \in Nat /\ r.curve \in BondingCurve
         /\ r.quote.err = OK /\ r.quote.amount \in Nat /\ r.quote.min_out \in Nat
         /\ r.kind = "buy" => /\ r.quote.max_input = AddSlippage(r.quote.amount, r.slippage_bps)
                              /\ r.quote.min_out <= r.amount
         /\ r.kind = "exact_in" =>
              r.quote.min_out = SubSlippage(r.quote.amount, r.slippage_bps)
         /\ r.kind = "sell" => r.quote.min_out = SubSlippage(r.quote.amount, r.slippage_bps)
<1> DEFINE c == r.curve
           n == r.amount
           s == r.slippage_bps
           ata == r.base_ata_amount
<1>1. n \in Amounts /\ n \in U64 /\ n \in Nat
  BY MarketAssumption, AmountsNat DEF Known, Pending
<1>2. s \in Nat
  <2>1. s = 0 \/ s \in Slippages
    BY DEF Known, Requests
  <2>2. \A x \in Slippages : x \in Nat
    BY ClientAssumption, Zenon
  <2> HIDE DEF s
  <2> QED BY <2>1, <2>2
<1>3. /\ c \in BondingCurve /\ c.real_token_reserves \in Nat
      /\ r.quote.amount \in Nat /\ r.quote.min_out \in Nat
  BY DEF Known, Requests, Quotes, BondingCurve
<1>4. r.quote = QuoteOf(r, ata) /\ r.quote.err = OK
  BY DEF Known
<1>5. ASSUME r.kind = "buy"
      PROVE  r.quote.max_input = AddSlippage(r.quote.amount, s) /\ r.quote.min_out <= n
  <2> DEFINE ask == BuyV3SolAmountFromTokenAmount(c, MintSupply, ata, n)
             t   == IF c.is_mayhem_mode THEN Least(n, c.real_token_reserves) ELSE n
  <2>1. r.quote = Quote(OK, ask.val, t, t, AddSlippage(ask.val, s))
    BY <1>4, <1>5 DEF QuoteOf, BuyQuoteBondingCurveV3TokenOut, NoQuote, Quote, OK
  <2>2. t <= n
    BY <1>1, <1>3 DEF Least
  <2> HIDE DEF ask, t
  <2> QED BY <2>1, <2>2 DEF Quote
<1>6. ASSUME r.kind = "exact_in"
      PROVE  r.quote.min_out = SubSlippage(r.quote.amount, s)
  <2> DEFINE b == BuyV3TokenAmountFromSolAmount(c, MintSupply, ata, n)
  <2>1. r.quote = Quote(OK, b.tokens, SubSlippage(b.tokens, s), b.charged, n)
    BY <1>4, <1>6 DEF QuoteOf, BuyQuoteBondingCurveV3SolIn, ExactInQuote, NoQuote, Quote, OK
  <2> HIDE DEF b
  <2> QED BY <2>1 DEF Quote
<1>7. ASSUME r.kind = "sell"
      PROVE  r.quote.min_out = SubSlippage(r.quote.amount, s)
  <2> DEFINE out == SellSolAmountFromTokenAmount(c, MintSupply, n)
  <2>1. r.quote = Quote(OK, out.val, SubSlippage(out.val, s), n, n)
    BY <1>4, <1>7 DEF QuoteOf, SellQuoteBondingCurve, NoQuote, Quote, OK
  <2> HIDE DEF out
  <2> QED BY <2>1 DEF Quote
<1> QED BY <1>1, <1>2, <1>3, <1>4, <1>5, <1>6, <1>7

(* A v3 buy fills the whole amount, unless it is the partial fill that       *)
(* completes a mayhem curve.                                                 *)
LEMMA BuyFillTokens ==
  ASSUME NEW c \in BondingCurve, NEW ata, NEW amount \in Nat,
         BuyFill(c, ata, amount, 3).err = OK
  PROVE  LET f == BuyFill(c, ata, amount, 3)
         IN  \/ TokensOf(f) = amount
             \/ c.is_mayhem_mode /\ f.curve_tokens = c.real_token_reserves
<1> DEFINE R == c.real_token_reserves
           tokens == Least(amount, R)
           cost == BuyQuote(c, tokens)
           bps == CurveFeeBps(c, MintSupply)
           past == amount - R
           pool_tobe == PoolToBe(c, ata, R, cost.val)
           leg == CeilDiv(pool_tobe.quote * past, pool_tobe.base - past)
           f == BuyFill(c, ata, amount, 3)
<1>1. R \in Nat
  BY DEF BondingCurve
<1>2. \/ /\ c.is_mayhem_mode \/ amount <= R
         /\ f = Fill(OK, tokens, cost.val, 0, 0,
                     ProtocolFee(cost.val, bps.fees), CreatorFee(cost.val, bps.fees))
      \/ /\ ~(c.is_mayhem_mode \/ amount <= R)
         /\ f = Fill(OK, tokens, cost.val, past, leg,
                     ProtocolFee(cost.val, bps.fees) + ProtocolFee(leg, bps.fees),
                     CreatorFee(cost.val, bps.fees) + CreatorFee(leg, bps.fees))
  <2> HIDE DEF cost, bps, pool_tobe, leg
  <2> QED BY DEF BuyFill, NoFill, Fill, OK, cost, bps, pool_tobe, leg
<1> HIDE DEF f, cost, bps, leg
<1>3. CASE c.is_mayhem_mode \/ amount <= R
  <2>1. f.curve_tokens = tokens /\ f.pool_tokens = 0
    BY <1>2, <1>3 DEF Fill
  <2> QED BY <1>1, <1>3, <2>1 DEF TokensOf, Least, f
<1>4. CASE ~(c.is_mayhem_mode \/ amount <= R)
  <2>1. f.curve_tokens = tokens /\ f.pool_tokens = past
    BY <1>2, <1>4 DEF Fill
  <2> QED BY <1>1, <1>4, <2>1 DEF TokensOf, Least, f
<1> QED BY <1>3, <1>4

(* A sale the program fills pays a natural number. *)
LEMMA SaleFilled ==
  ASSUME Inv, NEW amount \in Nat, amount <= circulating, SellFill(curve, amount, 3).err = OK
  PROVE  /\ CurveOpen(curve, FALSE) /\ amount > 0
         /\ ProceedsOf(SellFill(curve, amount, 3)) \in Nat
<1> DEFINE f == SellFill(curve, amount, 3)
           g == (amount * curve.virtual_quote_reserves)
                  \div (curve.virtual_token_reserves + amount)
           bps == CurveFeeBps(curve, MintSupply)
<1>1. CurveOpen(curve, 3 = 2) /\ amount # 0
  BY DEF SellFill, NoFill, Fill, OK
<1>2. CurveOpen(curve, FALSE) /\ ~curve.complete /\ amount > 0
  BY <1>1 DEF CurveOpen
<1>3. g \in Nat
  BY <1>1, <1>2, SaleIsCovered
<1>4. bps.fees \in Fees
  BY <1>2, TradingCurve, CurveFeeBpsType DEF Buyable, BondingCurve
<1>5. /\ f.curve_quote = g /\ f.fee = ProtocolFee(g, bps.fees)
      /\ f.creator_fee = CreatorFee(g, bps.fees)
      /\ ~ (g < ProtocolFee(g, bps.fees) + CreatorFee(g, bps.fees))
  BY DEF SellFill, NoFill, Fill, OK
<1> HIDE DEF g, bps, f
<1>6. f.fee \in Nat /\ f.creator_fee \in Nat
  BY <1>3, <1>4, <1>5, FeesOfCost
<1>7. ProceedsOf(f) \in Nat
  BY <1>3, <1>5, <1>6 DEF ProceedsOf
<1> QED BY <1>2, <1>7 DEF f

(* Only Land makes a built transaction a landed one. *)
LEMMA LandsIsLand ==
  ASSUME ClientInv, [ClientNext]_vars, NEW u \in Clients, Lands(u)
  PROVE  Land(u)
<1>1. client \in [Clients -> Requests] /\ client[u].phase = "built" /\ client'[u].phase = "landed"
  BY DEF ClientInv, Lands
<1>2. ASSUME NEW w \in Clients, NEW r, client' = [client EXCEPT ![w] = r], r.phase # "landed"
      PROVE  FALSE
  BY <1>1, <1>2
<1>3. ASSUME NEW w \in Clients, NEW kind \in Kinds, NEW amount \in Amounts,
             NEW s \in Slippages, FetchCurve(w, kind, amount, s)
      PROVE  FALSE
  <2> DEFINE r == [Idle EXCEPT !.phase = "fetched_curve", !.kind = kind, !.amount = amount,
                               !.slippage_bps = s, !.curve = curve]
  <2>1. client' = [client EXCEPT ![w] = r] /\ r.phase = "fetched_curve"
    BY <1>3 DEF FetchCurve, Idle
  <2> HIDE DEF r
  <2> QED BY <1>2, <2>1
<1>4. ASSUME NEW w \in Clients, FetchAta(w)
      PROVE  FALSE
  <2> DEFINE q == QuoteOf(client[w], base_ata)
             r == [client[w] EXCEPT !.phase = "built", !.base_ata_amount = base_ata, !.quote = q]
  <2>1. client[w] \in Requests
    BY <1>1
  <2>2. client' = [client EXCEPT ![w] = r] \/ client' = [client EXCEPT ![w] = Idle]
    BY <1>4 DEF FetchAta
  <2>3. r.phase = "built" /\ Idle.phase = "idle"
    BY <2>1, IdleFields DEF Requests
  <2> HIDE DEF r
  <2> QED BY <1>2, <2>2, <2>3
<1>5. ASSUME NEW w \in Clients, RpcFails(w) \/ Reject(w) \/ Expire(w)
      PROVE  FALSE
  BY <1>2, <1>5, IdleFields DEF RpcFails, Reject, Expire
<1>6. ASSUME NEW w \in Clients, w # u, Land(w)
      PROVE  FALSE
  BY <1>1, <1>6 DEF Land
<1>7. CASE UNCHANGED client
  BY <1>1, <1>7
<1> QED BY <1>3, <1>4, <1>5, <1>6, <1>7 DEF ClientNext, Others, vars

(* An exact-in buy the program fills takes tokens off the curve.             *)
LEMMA FilledExactInDelivers ==
  ASSUME NEW c, Quotable(c), NEW ata, NEW budget, BuyExactInFill(c, ata, budget, 3).err = OK
  PROVE  BuyExactInFill(c, ata, budget, 3).curve_tokens # 0
<1> DEFINE R     == c.real_token_reserves
           bps   == CurveFeeBps(c, MintSupply)
           split == ExactInFeeAmounts(budget, CurveBps(bps.fees))
           swap  == SwapExactInput(split.net - 1, c.virtual_quote_reserves,
                                   c.virtual_token_reserves)
           cost  == BuyQuote(c, R)
           fee   == ProtocolFee(cost.val, bps.fees)
           creator == CreatorFee(cost.val, bps.fees)
           left  == budget - (cost.val + fee + creator)
           tobe  == PoolToBe(c, ata, R, cost.val)
           leg   == PostCompleteLegExactQuote(tobe, bps.fees, left, FALSE)
           f     == BuyExactInFill(c, ata, budget, 3)
<1>1. f = IF ~CurveOpen(c, FALSE) \/ budget = 0 THEN NoFill("Refused")
           ELSE IF bps.err # OK \/ split.err # OK THEN NoFill("Refused")
           ELSE IF swap.val = 0 THEN NoFill("Refused")
           ELSE IF swap.val <= R
             THEN Fill(OK, swap.val, split.net, 0, 0, split.fees[1], split.fees[2])
           ELSE IF cost.err # OK \/ left < 0 THEN NoFill("Refused")
           ELSE IF c.is_mayhem_mode \/ left = 0
             THEN Fill(OK, R, cost.val, 0, 0, fee, creator)
           ELSE IF tobe.err # OK \/ leg.err # OK THEN NoFill("Refused")
           ELSE Fill(OK, R, cost.val, leg.base_out, leg.quote_in,
                     fee + leg.fee, creator + leg.creator_fee)
  BY ExactInFillIs, Zenon
<1>2. f.err = OK /\ R # 0
  BY DEF Quotable, BondingCurve
<1> HIDE DEF f, R, bps, split, swap, cost, fee, creator, left, tobe, leg
<1>3. f.curve_tokens # 0
  BY <1>1, <1>2 DEF NoFill, Fill, OK
<1> QED BY <1>3 DEF f

(* While nobody else moves, the program accepts what was promised, and       *)
(* nothing else.                                                             *)
LEMMA QuietTrades ==
  ASSUME Inv, ClientInv
  PROVE  QuietTradeLands
<1> SUFFICES ASSUME NEW u \in Clients, client[u].phase = "built", Fresh(client[u])
             PROVE  WithinLimits(client[u], FillOf(client[u])) <=> Promised(client[u])
  BY DEF QuietTradeLands, Accepts
<1> DEFINE r == client[u]
<1>1. /\ Known(r) /\ r \in Requests /\ r.phase = "built"
      /\ r.amount \in U64 /\ r.amount \in Nat /\ r.slippage_bps \in Nat
      /\ r.quote.err = OK /\ r.quote.amount \in Nat
      /\ r.quote = QuoteOf(r, base_ata) /\ r.curve = curve
  BY QuoteLimits DEF ClientInv, Known, Fresh
<1>2. /\ base_ata \in Nat /\ curve \in BondingCurve
      /\ ~curve.complete => /\ Quotable(curve) /\ curve.virtual_token_reserves > 0
                            /\ curve.real_token_reserves <= base_ata
  BY CurveIsQuotable, TradingCurve DEF Quotable, Buyable, BondingCurve
<1> HIDE DEF r
<1>3. CASE r.kind = "buy"
  <2> DEFINE q == BuyQuoteBondingCurveV3TokenOut(curve, MintSupply, base_ata, r.amount,
                                                 r.slippage_bps)
             f == BuyFill(curve, base_ata, r.amount, 3)
  <2>1. r.quote = q /\ q.err = OK
    BY <1>1, <1>3 DEF QuoteOf
  <2>2. /\ CurveOpen(curve, FALSE) /\ Quotable(curve)
        /\ curve.real_token_reserves <= base_ata
    <3>1. BuyV3SolAmountFromTokenAmount(curve, MintSupply, base_ata, r.amount).err = OK
      BY <2>1 DEF BuyQuoteBondingCurveV3TokenOut, NoQuote, Quote
    <3>2. CurveOpen(curve, FALSE)
      BY <3>1 DEF BuyV3SolAmountFromTokenAmount, Err, OK
    <3> QED BY <1>2, <3>2 DEF CurveOpen
  <2>3. CostOf(curve, r.amount) = CurvePart(r)
    BY DEF CostOf, CurvePart
  <2>4. r.quote.max_input = AsU64(Slipped(r))
    BY <1>1, <1>3, QuoteLimits DEF Slipped, AddSlippage
  <2>5. FillOf(r) = f
    BY <1>3 DEF FillOf
  <2>6. ASSUME r.amount > 0, CurvePart(r) <= purse
        PROVE  f.err = OK /\ r.quote.amount = ChargeOf(f)
    <3> DEFINE s == r.slippage_bps
               n == r.amount
    <3>1. q = BuyQuoteBondingCurveV3TokenOut(curve, MintSupply, base_ata, n, s) /\ q.err = OK
      BY <2>1
    <3>2. /\ n \in Nat /\ n > 0 /\ Quotable(curve) /\ base_ata \in Nat
          /\ CurveOpen(curve, FALSE)
      BY <1>1, <1>2, <2>2, <2>6
    <3>3. CostOf(curve, n) <= U64_MAX
      <4>1. CostOf(curve, r.amount) \in Nat
        BY <1>1, <2>2, <2>6, CostGood
      <4> QED BY <2>3, <2>6, <4>1, PurseFits
    <3> HIDE DEF s, n, q
    <3>4. f.err = OK /\ q.amount = ChargeOf(f)
      BY <3>1, <3>2, <3>3, BuyQuoteIsFill DEF n
    <3> HIDE DEF f
    <3> QED BY <2>1, <3>4
  <2>7. ASSUME f.err = OK, ChargeOf(f) <= purse
        PROVE  r.amount > 0 /\ CurvePart(r) <= purse
    <3>1. /\ r.amount > 0 /\ CostOf(curve, r.amount) \in Nat /\ ChargeOf(f) \in Nat
          /\ CostOf(curve, r.amount) <= ChargeOf(f)
      BY <1>1, <1>2, <2>2, <2>7, FilledBuy
    <3> HIDE DEF f
    <3> QED BY <2>3, <2>7, <3>1, PurseFits
  <2> HIDE DEF q, f
  <2> QED BY <1>3, <2>4, <2>5, <2>6, <2>7 DEF WithinLimits, Promised, r
<1>4. CASE r.kind = "exact_in"
  <2> DEFINE q == BuyQuoteBondingCurveV3SolIn(curve, MintSupply, base_ata, r.amount,
                                              r.slippage_bps)
             b == BuyV3TokenAmountFromSolAmount(curve, MintSupply, base_ata, r.amount)
             out == BuyTokensExactIn(curve, MintSupply, r.amount)
             f == BuyExactInFill(curve, base_ata, r.amount, 3)
  <2>1. r.quote = q /\ q.err = OK
    BY <1>1, <1>4 DEF QuoteOf
  <2>2. b.err = OK /\ q.amount = b.tokens
    BY <2>1 DEF BuyQuoteBondingCurveV3SolIn, ExactInQuote, NoQuote, Quote, OK
  <2>3. CurveOpen(curve, FALSE) /\ Quotable(curve)
    <3>1. CurveOpen(curve, FALSE)
      BY <2>2 DEF BuyV3TokenAmountFromSolAmount, OK
    <3> QED BY <1>2, <3>1 DEF CurveOpen
  <2>4. out.err = OK /\ (out.val = 0 => r.quote.amount = 0)
    <3>1. out.err # OK => b.err = out.err
      BY <2>3 DEF BuyV3TokenAmountFromSolAmount
    <3>2. out.err = OK /\ out.val = 0 => b.tokens = 0
      BY <2>3 DEF BuyV3TokenAmountFromSolAmount
    <3> QED BY <2>1, <2>2, <3>1, <3>2
  <2>5. r.amount = 0 => out.val = 0
    BY DEF BuyTokensExactIn, Ok
  <2>6. FillOf(r) = f
    BY <1>4 DEF FillOf
  <2>7. r.quote.min_out <= r.quote.amount
    <3>1. r.quote.min_out = SubSlippage(r.quote.amount, r.slippage_bps)
      BY <1>1, <1>4, QuoteLimits
    <3> QED BY <1>1, <3>1, SlippageBounds
  <2>8. out.val # 0 => /\ f.err = OK /\ r.quote.amount = TokensOf(f)
                       /\ r.quote.input_amount_used = ChargeOf(f)
    <3> DEFINE s == r.slippage_bps
               n == r.amount
    <3>1. q = BuyQuoteBondingCurveV3SolIn(curve, MintSupply, base_ata, n, s) /\ q.err = OK
      BY <2>1
    <3>2. n \in U64 /\ Quotable(curve) /\ base_ata \in Nat /\ CurveOpen(curve, FALSE)
      BY <1>1, <1>2, <2>3
    <3> HIDE DEF s, n, q
    <3>3. out.val # 0 => /\ f.err = OK /\ q.amount = TokensOf(f)
                         /\ q.input_amount_used = ChargeOf(f)
      BY <3>1, <3>2, ExactInQuoteIsFill DEF n
    <3> HIDE DEF f, out
    <3> QED BY <2>1, <3>3
  <2>9. f.err = OK => out.val # 0
    BY <1>1, <1>2, <2>3, <2>4, FilledExactIn
  <2>10. f.err = OK => TokensOf(f) > 0
    <3>1. ASSUME f.err = OK PROVE GoodBuy(curve, base_ata, f)
      BY <1>1, <1>2, <2>3, <3>1, TradingCurve, BuyExactInFillGood DEF CurveOpen
    <3>2. f.err = OK => f.curve_tokens # 0
      BY <2>3, FilledExactInDelivers
    <3> HIDE DEF f
    <3> QED BY <3>1, <3>2 DEF GoodBuy, TokensOf
  <2> HIDE DEF q, f, b, out
  <2> QED BY <1>1, <1>4, <2>4, <2>5, <2>6, <2>7, <2>8, <2>9, <2>10 DEF WithinLimits, Promised, r
<1>5. CASE r.kind = "sell"
  <2> DEFINE q == SellQuoteBondingCurve(curve, MintSupply, r.amount, r.slippage_bps)
             f == SellFill(curve, r.amount, 3)
  <2>1. r.quote = q /\ q.err = OK
    BY <1>1, <1>5 DEF QuoteOf
  <2>2. FillOf(r) = f
    BY <1>5 DEF FillOf
  <2>3. ASSUME Promised(r) PROVE f.err = OK /\ ProceedsOf(f) >= r.quote.min_out
    <3>1. r.amount > 0 /\ CurveOpen(curve, FALSE) /\ curve.virtual_token_reserves > 0
      BY <1>2, <1>5, <2>3 DEF Promised, CurveOpen
    <3>2. f.err = OK /\ ProceedsOf(f) \in Nat /\ q.amount <= ProceedsOf(f)
      BY <1>1, <1>2, <2>1, <3>1, SellQuoteIsFill
    <3>3. r.quote.min_out \in Nat /\ r.quote.min_out <= r.quote.amount
      <4>1. r.quote.min_out = SubSlippage(r.quote.amount, r.slippage_bps)
        BY <1>1, <1>5, QuoteLimits
      <4> QED BY <1>1, <4>1, SlippageBounds
    <3> HIDE DEF q, f
    <3> QED BY <1>1, <2>1, <3>2, <3>3
  <2>4. ASSUME f.err = OK, r.amount <= circulating
        PROVE  ~curve.complete /\ ~curve.is_cashback_coin /\ r.amount > 0
    BY <1>1, <2>4, SaleFilled DEF CurveOpen
  <2> HIDE DEF q, f
  <2> QED BY <1>5, <2>2, <2>3, <2>4 DEF WithinLimits, Promised, r
<1>6. r.kind \in Kinds
  BY <1>1 DEF Requests
<1> QED BY <1>3, <1>4, <1>5, <1>6 DEF Kinds, r

(* What a landing transaction does to the market, by kind.                   *)
LEMMA Landing ==
  ASSUME Inv, ClientInv, Inv', NEW u \in Clients, Land(u)
  PROVE  LET r == client[u]
             buy == BuyFill(curve, base_ata, r.amount, 3)
             exact_in == BuyExactInFill(curve, base_ata, r.amount, 3)
             sell == SellFill(curve, r.amount, 3)
         IN  \/ /\ r.kind = "buy" /\ buy.err = OK /\ GoodBuy(curve, base_ata, buy)
                /\ Quotable(curve) /\ curve.real_token_reserves <= base_ata
                /\ ChargeOf(buy) <= r.quote.max_input /\ ChargeOf(buy) <= purse
                /\ purse - purse' = ChargeOf(buy)
                /\ circulating' - circulating = TokensOf(buy)
                /\ curve'.complete = (buy.curve_tokens = curve.real_token_reserves)
             \/ /\ r.kind = "exact_in" /\ exact_in.err = OK /\ GoodBuy(curve, base_ata, exact_in)
                /\ Quotable(curve)
                /\ \/ TokensOf(exact_in) >= r.quote.min_out
                   \/ /\ curve.is_mayhem_mode
                      /\ exact_in.curve_tokens = curve.real_token_reserves
                /\ purse - purse' = ChargeOf(exact_in)
                /\ circulating' - circulating = TokensOf(exact_in)
                /\ curve'.complete = (exact_in.curve_tokens = curve.real_token_reserves)
             \/ /\ r.kind = "sell" /\ sell.err = OK
                /\ CurveOpen(curve, FALSE) /\ r.amount > 0
                /\ ProceedsOf(sell) \in Nat /\ ProceedsOf(sell) >= r.quote.min_out
                /\ ProceedsOf(sell) <= U64_MAX
                /\ purse' - purse = ProceedsOf(sell)
<1> DEFINE r == client[u]
           buy == BuyFill(curve, base_ata, r.amount, 3)
           exact_in == BuyExactInFill(curve, base_ata, r.amount, 3)
           sell == SellFill(curve, r.amount, 3)
<1>1. /\ Execute(r) /\ r.amount \in Nat
      /\ curve \in BondingCurve /\ base_ata \in Nat
  BY QuoteLimits DEF Land, ClientInv, Inv, TypeOK
<1>2. /\ purse \in Nat /\ circulating \in Nat /\ purse' \in Nat /\ purse' <= Purse
      /\ Purse \in Nat /\ Purse <= U64_MAX /\ U64_MAX \in Nat
  <2>1. purse' + quote_vault' + pool'.quote + paid_out' = Purse
    BY DEF Inv, Conserved
  <2>2. purse' \in Nat /\ quote_vault' \in Nat /\ pool'.quote \in Nat /\ paid_out' \in Nat
    BY DEF Inv, TypeOK
  <2> QED BY <2>1, <2>2, PurseFits
<1> HIDE DEF r
<1>3. ASSUME NEW f, GoodBuy(curve, base_ata, f), ApplyBuy(f, 3)
      PROVE  /\ Quotable(curve) /\ curve.real_token_reserves <= base_ata
             /\ ChargeOf(f) <= purse /\ purse - purse' = ChargeOf(f)
             /\ circulating' - circulating = TokensOf(f)
             /\ curve'.complete = (f.curve_tokens = curve.real_token_reserves)
  <2>1. ChargeOf(f) \in Nat /\ TokensOf(f) \in Nat /\ ~curve.complete
    BY <1>3 DEF GoodBuy, ChargeOf, TokensOf
  <2>2. Quotable(curve) /\ curve.real_token_reserves <= base_ata
    BY <2>1, CurveIsQuotable, TradingCurve DEF Buyable
  <2>3. /\ ChargeOf(f) <= purse
        /\ purse' = purse - ChargeOf(f) /\ circulating' = circulating + TokensOf(f)
    BY <1>3 DEF ApplyBuy
  <2>4. curve'.complete = (f.curve_tokens = curve.real_token_reserves)
    BY <1>1, <1>3 DEF ApplyBuy, BondingCurve
  <2> QED BY <1>2, <2>1, <2>2, <2>3, <2>4
<1>4. CASE r.kind = "buy"
  <2>1. /\ ApplyBuy(buy, 3) /\ buy.err = OK /\ ChargeOf(buy) <= r.quote.max_input
    BY <1>1, <1>4 DEF Execute, Buy, ApplyBuy
  <2>2. GoodBuy(curve, base_ata, buy)
    <3>1. ~curve.complete
      BY <2>1 DEF BuyFill, NoFill, Fill, OK, CurveOpen
    <3> QED BY <1>1, <2>1, <3>1, TradingCurve, BuyFillGood
  <2> HIDE DEF buy
  <2> QED BY <1>3, <1>4, <2>1, <2>2 DEF r, buy
<1>5. CASE r.kind = "exact_in"
  <2>1. /\ ApplyBuy(exact_in, 3) /\ exact_in.err = OK
        /\ \/ TokensOf(exact_in) >= r.quote.min_out
           \/ /\ 3 = 2 \/ curve.is_mayhem_mode
              /\ exact_in.curve_tokens = curve.real_token_reserves
    BY <1>1, <1>5 DEF Execute, BuyExactQuoteIn, ApplyBuy
  <2>2. GoodBuy(curve, base_ata, exact_in)
    <3>1. ~curve.complete
      BY <2>1 DEF BuyExactInFill, NoFill, Fill, OK, CurveOpen
    <3> QED BY <1>1, <2>1, <3>1, TradingCurve, BuyExactInFillGood
  <2> HIDE DEF exact_in
  <2> QED BY <1>3, <1>5, <2>1, <2>2 DEF r, exact_in
<1>6. CASE r.kind = "sell"
  <2>1. /\ r.amount <= circulating /\ sell.err = OK /\ ProceedsOf(sell) >= r.quote.min_out
        /\ purse' = purse + ProceedsOf(sell)
    BY <1>1, <1>6 DEF Execute, Sell
  <2>2. CurveOpen(curve, FALSE) /\ r.amount > 0 /\ ProceedsOf(sell) \in Nat
    BY <1>1, <2>1, SaleFilled
  <2> HIDE DEF sell
  <2>3. ProceedsOf(sell) <= U64_MAX /\ purse' - purse = ProceedsOf(sell)
    BY <1>2, <2>1, <2>2
  <2> QED BY <1>6, <2>1, <2>2, <2>3 DEF r, sell
<1> QED BY <1>1, <1>4, <1>5, <1>6 DEF Execute

(* A landing transaction keeps the limits of its request. *)
LEMMA LimitsKept ==
  ASSUME Inv, ClientInv, Inv', NEW u \in Clients, Land(u)
  PROVE  LET r == client[u]
         IN  IF r.kind = "sell"
               THEN purse' - purse >= SubSlippage(r.quote.amount, r.slippage_bps)
             ELSE /\ purse - purse' <= IF r.kind = "buy"
                                         THEN AddSlippage(r.quote.amount, r.slippage_bps)
                                         ELSE r.amount
                  /\ \/ circulating' - circulating >= r.quote.min_out
                     \/ curve.is_mayhem_mode /\ curve'.complete
<1> DEFINE r == client[u]
           buy == BuyFill(curve, base_ata, r.amount, 3)
           exact_in == BuyExactInFill(curve, base_ata, r.amount, 3)
           sell == SellFill(curve, r.amount, 3)
<1>1. /\ r.amount \in Nat /\ r.amount \in U64 /\ r.quote.min_out \in Nat
      /\ r.kind = "buy" => /\ r.quote.max_input = AddSlippage(r.quote.amount, r.slippage_bps)
                           /\ r.quote.min_out <= r.amount
      /\ r.kind = "sell" => r.quote.min_out = SubSlippage(r.quote.amount, r.slippage_bps)
  BY QuoteLimits DEF Land, ClientInv
<1>2. curve \in BondingCurve /\ base_ata \in Nat
  BY DEF Inv, TypeOK
<1>3. CASE r.kind = "buy"
  <2>1. /\ buy.err = OK /\ ChargeOf(buy) <= r.quote.max_input
        /\ purse - purse' = ChargeOf(buy)
        /\ circulating' - circulating = TokensOf(buy)
        /\ curve'.complete = (buy.curve_tokens = curve.real_token_reserves)
    <3> HIDE DEF buy, exact_in, sell
    <3> QED BY <1>3, Landing DEF buy
  <2>2. TokensOf(buy) = r.amount
          \/ (curve.is_mayhem_mode /\ buy.curve_tokens = curve.real_token_reserves)
    BY <1>1, <1>2, <2>1, BuyFillTokens
  <2> HIDE DEF r, buy
  <2> QED BY <1>1, <1>3, <2>1, <2>2 DEF r
<1>4. CASE r.kind = "exact_in"
  <2>1. /\ exact_in.err = OK /\ Quotable(curve)
        /\ \/ TokensOf(exact_in) >= r.quote.min_out
           \/ curve.is_mayhem_mode /\ exact_in.curve_tokens = curve.real_token_reserves
        /\ purse - purse' = ChargeOf(exact_in)
        /\ circulating' - circulating = TokensOf(exact_in)
        /\ curve'.complete = (exact_in.curve_tokens = curve.real_token_reserves)
    <3> HIDE DEF buy, exact_in, sell
    <3> QED BY <1>4, Landing DEF exact_in
  <2>2. ChargeOf(exact_in) <= r.amount
    BY <1>1, <1>2, <2>1, FilledExactIn
  <2> HIDE DEF r, exact_in
  <2> QED BY <1>1, <1>4, <2>1, <2>2 DEF r
<1>5. CASE r.kind = "sell"
  <2>1. ProceedsOf(sell) >= r.quote.min_out /\ purse' - purse = ProceedsOf(sell)
    <3> HIDE DEF buy, exact_in, sell
    <3> QED BY <1>5, Landing DEF sell
  <2> HIDE DEF r, sell
  <2> QED BY <1>1, <1>5, <2>1 DEF r
<1>6. r.kind \in {"buy", "exact_in", "sell"}
  BY DEF Land, Execute
<1> QED BY <1>3, <1>4, <1>5, <1>6

(* A transaction landing on the snapshot it was quoted from moves exactly    *)
(* what was quoted.                                                          *)
LEMMA FreshIsExact ==
  ASSUME Inv, ClientInv, Inv', NEW u \in Clients, Land(u), Fresh(client[u])
  PROVE  LET r == client[u]
         IN  IF r.kind = "sell"
               THEN purse' - purse = r.quote.amount
             ELSE IF r.kind = "buy"
               THEN /\ purse - purse' = r.quote.amount
                    /\ circulating' - circulating = r.quote.min_out
             ELSE /\ purse - purse' = r.quote.input_amount_used
                  /\ circulating' - circulating = r.quote.amount
<1> DEFINE r == client[u]
           n == r.amount
           s == r.slippage_bps
           buy == BuyFill(curve, base_ata, n, 3)
           exact_in == BuyExactInFill(curve, base_ata, n, 3)
           sell == SellFill(curve, n, 3)
<1>1. n \in Nat /\ n \in U64 /\ r.quote = QuoteOf(r, base_ata) /\ r.quote.err = OK /\ r.curve = curve
  BY QuoteLimits DEF Land, ClientInv, Known, Fresh
<1>2. curve \in BondingCurve /\ base_ata \in Nat /\ purse <= U64_MAX /\ U64_MAX \in Nat
      /\ purse \in Nat
  BY PurseFits DEF Inv, TypeOK
<1>3. CASE r.kind = "buy"
  <2> DEFINE q == BuyQuoteBondingCurveV3TokenOut(curve, MintSupply, base_ata, n, s)
  <2>1. /\ buy.err = OK /\ Quotable(curve) /\ curve.real_token_reserves <= base_ata
        /\ ChargeOf(buy) <= purse
        /\ purse - purse' = ChargeOf(buy)
        /\ circulating' - circulating = TokensOf(buy)
    <3> HIDE DEF buy, exact_in, sell
    <3> QED BY <1>3, Landing DEF buy
  <2>2. /\ CurveOpen(curve, FALSE) /\ n > 0
        /\ CostOf(curve, n) \in Nat /\ ChargeOf(buy) \in Nat
        /\ CostOf(curve, n) <= ChargeOf(buy)
    BY <1>1, <1>2, <2>1, FilledBuy
  <2>3. CostOf(curve, n) <= U64_MAX
    <3> HIDE DEF buy
    <3> QED BY <1>2, <2>1, <2>2
  <2>4. r.quote = q /\ q.err = OK
    BY <1>1, <1>3 DEF QuoteOf
  <2> HIDE DEF n, s
  <2>5. q.amount = ChargeOf(buy) /\ q.min_out = TokensOf(buy)
    <3>1. q = BuyQuoteBondingCurveV3TokenOut(curve, MintSupply, base_ata, n, s)
      OBVIOUS
    <3>2. /\ n \in Nat /\ n > 0 /\ Quotable(curve) /\ base_ata \in Nat
          /\ CurveOpen(curve, FALSE) /\ q.err = OK
      BY <1>1, <1>2, <2>1, <2>2, <2>4
    <3> HIDE DEF q
    <3> QED BY <2>3, <3>1, <3>2, BuyQuoteIsFill
  <2> HIDE DEF q, buy
  <2> QED BY <1>3, <2>1, <2>4, <2>5
<1>4. CASE r.kind = "exact_in"
  <2> DEFINE q == BuyQuoteBondingCurveV3SolIn(curve, MintSupply, base_ata, n, s)
             b == BuyV3TokenAmountFromSolAmount(curve, MintSupply, base_ata, n)
  <2>1. /\ exact_in.err = OK /\ Quotable(curve)
        /\ purse - purse' = ChargeOf(exact_in)
        /\ circulating' - circulating = TokensOf(exact_in)
    <3> HIDE DEF buy, exact_in, sell
    <3> QED BY <1>4, Landing DEF exact_in
  <2>2. CurveOpen(curve, FALSE)
        /\ (BuyTokensExactIn(curve, MintSupply, n).err = OK =>
              BuyTokensExactIn(curve, MintSupply, n).val # 0)
    BY <1>1, <1>2, <2>1, FilledExactIn
  <2>3. r.quote = q /\ q.err = OK
    BY <1>1, <1>4 DEF QuoteOf
  <2>4. BuyTokensExactIn(curve, MintSupply, n).err = OK
    <3>1. b.err = OK
      BY <2>3 DEF BuyQuoteBondingCurveV3SolIn, ExactInQuote, NoQuote, Quote, OK
    <3>2. BuyTokensExactIn(curve, MintSupply, n).err # OK =>
            b.err = BuyTokensExactIn(curve, MintSupply, n).err
      BY <2>2 DEF BuyV3TokenAmountFromSolAmount
    <3> QED BY <3>1, <3>2
  <2> HIDE DEF n, s
  <2>5. q.amount = TokensOf(exact_in) /\ q.input_amount_used = ChargeOf(exact_in)
    BY <1>1, <1>2, <2>1, <2>2, <2>3, <2>4, ExactInQuoteIsFill
  <2> HIDE DEF q, exact_in
  <2> QED BY <1>4, <2>1, <2>3, <2>5
<1>5. CASE r.kind = "sell"
  <2> DEFINE q == SellQuoteBondingCurve(curve, MintSupply, n, s)
  <2>1. /\ sell.err = OK /\ CurveOpen(curve, FALSE) /\ n > 0
        /\ ProceedsOf(sell) <= U64_MAX /\ purse' - purse = ProceedsOf(sell)
    <3> HIDE DEF buy, exact_in, sell
    <3> QED BY <1>5, Landing DEF sell
  <2>2. r.quote = q /\ q.err = OK
    BY <1>1, <1>5 DEF QuoteOf
  <2>3. curve.virtual_token_reserves > 0
    BY <1>2, <2>1, CurveIsQuotable DEF CurveOpen, Quotable, BondingCurve
  <2> HIDE DEF n, s
  <2>4. q.amount = ProceedsOf(sell)
    BY <1>1, <1>2, <2>1, <2>2, <2>3, SellQuoteIsFill
  <2> HIDE DEF q, sell
  <2> QED BY <1>5, <2>1, <2>2, <2>4
<1>6. r.kind \in {"buy", "exact_in", "sell"}
  BY DEF Land, Execute
<1> QED BY <1>3, <1>4, <1>5, <1>6

-----------------------------------------------------------------------------
(* Theorems about the requests *)

(* The conjunction is inductive. *)
LEMMA ClientInductive ==
  /\ ClientInit => Inv /\ RequestsKnown /\ ClientInv
  /\ Inv /\ RequestsKnown /\ ClientInv /\ [ClientNext]_vars
       => Inv' /\ RequestsKnown' /\ ClientInv'
<1>1. ClientInit => Inv /\ RequestsKnown /\ ClientInv
  BY InitInv, RequestsKnownInductive, ClientInvInit DEF ClientInit
<1>2. ASSUME Inv, RequestsKnown, ClientInv, [ClientNext]_vars
      PROVE  Inv' /\ RequestsKnown' /\ ClientInv'
  <2>1. [Next]_market
    BY <1>2, ClientStep
  <2> QED BY <1>2, <2>1, NextInv, RequestsKnownInductive, ClientInvStep
<1> QED BY <1>1, <1>2

(* Every request keeps its types, and a transaction is only ever built from  *)
(* a quote that succeeded, whatever the market did between the two fetches.  *)
THEOREM ClientTypes == ClientSpec => []ClientTypeOK
<1>1. ClientInv => ClientTypeOK
  BY DEF ClientInv, ClientTypeOK, Requests, Quotes
<1> QED BY <1>1, ClientInductive, PTL DEF ClientSpec

(* A trade quoted from the chain's present state is accepted by the program  *)
(* if its user can pay for it and no cast of the quoter wrapped round, and   *)
(* only then: a wrapped cost or limit, a sale to a completed curve or of a   *)
(* cashback coin is refused.                                                 *)
THEOREM QuietTradesLand == ClientSpec => []QuietTradeLands
<1>1. Inv /\ ClientInv => QuietTradeLands
  BY QuietTrades
<1> QED BY <1>1, ClientInductive, PTL DEF ClientSpec

(* A transaction that lands on the state it was quoted from moves exactly    *)
(* what build_* quoted.                                                      *)
THEOREM FreshQuotesAreExact == ClientSpec => QuotedExactly
<1> DEFINE A == \A u \in Clients :
       LET r == client[u]
       IN  Lands(u) /\ Fresh(r) =>
             IF r.kind = "sell"
               THEN purse' - purse = r.quote.amount
             ELSE IF r.kind = "buy"
               THEN /\ purse - purse' = r.quote.amount
                    /\ circulating' - circulating = r.quote.min_out
             ELSE /\ purse - purse' = r.quote.input_amount_used
                  /\ circulating' - circulating = r.quote.amount
<1>1. Inv /\ ClientInv /\ Inv' /\ [ClientNext]_vars => A
  BY FreshIsExact, LandsIsLand
<1> HIDE DEF A
<1>2. ClientSpec => [][A]_vars
  BY <1>1, ClientInductive, PTL DEF ClientSpec
<1> QED BY <1>2 DEF QuotedExactly, A

(* However stale or torn the snapshot, a transaction that lands keeps the    *)
(* user's limits; fewer tokens than promised only come from the partial fill *)
(* that completes a mayhem curve.                                            *)
THEOREM LimitsAreKept == ClientSpec => LimitsHold
<1> DEFINE A == \A u \in Clients :
       LET r == client[u]
       IN  Lands(u) =>
             IF r.kind = "sell"
               THEN purse' - purse >= SubSlippage(r.quote.amount, r.slippage_bps)
             ELSE /\ purse - purse' <= IF r.kind = "buy"
                                         THEN AddSlippage(r.quote.amount, r.slippage_bps)
                                         ELSE r.amount
                  /\ \/ circulating' - circulating >= r.quote.min_out
                     \/ curve.is_mayhem_mode /\ curve'.complete
<1>1. Inv /\ ClientInv /\ Inv' /\ [ClientNext]_vars => A
  BY LimitsKept, LandsIsLand
<1> HIDE DEF A
<1>2. ClientSpec => [][A]_vars
  BY <1>1, ClientInductive, PTL DEF ClientSpec
<1> QED BY <1>2 DEF LimitsHold, A
=============================================================================
