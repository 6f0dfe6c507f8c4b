# A TLA+ model of the pump Rust client

`pump_rust_client` quotes and builds trades for two Solana programs: *pump*
(bonding curves, where a coin starts) and *pump-amm* (pools, where it lives
after its curve completes). The client mirrors the programs' integer arithmetic
off chain, quotes with it, and puts the quote plus slippage into a transaction
that executes later, on a chain everybody else is changing. This project models
the quoters, the chain they are supposed to agree with, the clients that race
it, and the instruction lists the builders make, run on the accounts they name.
TLC checks the models on small instances and TLAPS proves the central results
for all of them.

Paths below are relative to the repository.

## Inventory

| component | state | operations | interacts with | hard part |
|---|---|---|---|---|
| quote arithmetic (`src/math/utils.rs`, `fees.rs`) | none | `mul_div`, `swap_exact_input`, slippage, `fee_amount`, `exact_in_fee_amounts` | every quoter | three fees rounded up may overshoot the budget; truncating casts |
| fee schedule (`src/math/fees.rs`) | `FeeConfig`, `Global` (read) | tier lookup, schedule by quote mint, configured creator rate | quoters | tier boundary moves with every trade |
| curve quoters (`src/math/bonding_curve.rs`, `src/sdk/mod.rs`) | `BondingCurve` (read) | v2 and v3 buy (exact in, exact out), sell, post-completion leg, `estimated_reserves` | `AsyncPumpClient`, the programs they mirror | two quoters round in opposite directions; a buy may continue past the curve |
| pump program (not in the repository) | curve account, base ATA, quote balance, fee buckets | create, buy, sell, sweep, migrate | everybody | solvency after any sequence of roundings; fees kept next to the raise |
| async client, v3 (`src/async_client.rs`, `src/sdk/pump_v3.rs`) | a snapshot per request | fetch, quote, build, send | RPC node, chain | two awaits per snapshot, stale quotes, expiry, partial fills |
| AMM quoters (`src/math/amm.rs`) | `Pool`, vault balances (read) | buy, sell, exact in, fee-less helpers | pump-amm | buckets inside the vault, signed virtual (boost) reserves, truncating casts |
| pump-amm program (not in the repository) | pool account, two vaults, fee buckets, boost vault | v1, v2 and multi-hop trades, sweeps, disabling | everybody | what is priced is not what can be paid |
| multi-hop (`src/async_client.rs`, `src/sdk/pump_amm_ix.rs`) | route, per-venue snapshot | discover, validate, quote | both programs | one await per hop; chain of quotes changes meanwhile; `MAX_HOPS`; fees charged once per hop |
| trade transactions (`src/sdk/trade_tx.rs`, `src/token.rs`) | user's ATAs | wrap, trade, unwrap | token programs | closes an account that had a balance |
| coin creation, creator fees (`src/sdk/pump_v2.rs`, `pump_fees_ix.rs`) | `Global`, `QuoteControl`, quote coin | create, initial reserves, sweep, collect, distribute, share updates | pump, pump-fees | ordering inside a transaction; a seed read in three round trips |
| instruction builders (`src/sdk/*.rs`) | none | one list per operation | all programs | accounts that must exist, derived addresses that must match |
| decoding, PDA hashes, IDL glue | none | – | – | pure data |
| `src/bin/*` | processes, files | test validator set-up | – | I/O |

What makes each correct:

* a quote that is taken of the present state is exactly what the program does;
* a quote that is stale still protects the user: no trade lands outside its limits;
* exact-in quotes never charge more than the budget and never fail by one unit;
* the curve and the pool never owe more than they hold, whatever trades came before;
* an instruction list built of the present state lands, or is refused for a reason
  the documentation names; one that lands late costs the user no more than it said;
* creator fees are never stranded;
* what is said of a coin between completion and migration is what the migration does;
* every request ends.

`PROJECT.json` lists the hazards behind these at their source lines.

## Modules

* **QuoteMath** – `utils.rs` and the fee arithmetic. A `QuoteResult` is a record
  with an `err` field. Amounts are `u64`, products `u128`; a product of two `u64`
  fits, so only the way back is modelled: `AsU64` truncates like `as u64`, and
  `U64` is what `u64::try_from` accepts. `U64_MAX` is a constant.
* **FeeSchedule** – which basis points a trade pays. Both
  `compute_bonding_curve_fee_bps` and `compute_amm_fee_bps` are `ComputeFeeBps`
  with a different market cap.
* **CurveQuotes** – the quoters of `bonding_curve.rs`, the `*_bonding_curve_*`
  methods of `PumpSdk`, and `estimated_reserves`, early returns in source order.
  The multi-hop mode of the post-completion leg (`whole_budget`) is a parameter.
* **CurveMarket** – one coin on chain. `Buy`, `BuyExactQuoteIn` and `Sell` take the
  instruction's version (2 or 3) and limits; `Migrate`, the two sweeps and `Donate`
  complete the life of a curve. The programs are not in the repository: prices come
  from the quoters that mirror them (the `*Fill` operators split a trade into curve
  part, pool part and the two fees), the flow of money from the comments at the
  builders (`pump_v3.rs:3-14`, `pump_v2.rs` migrate and distribute), and these
  actions are marked external. A v2 trade pays fees out at once; a v3 trade leaves
  them in the curve's buckets, less the buyback slice. A v2 buy and any mayhem buy
  stop at the remaining supply; another v3 buy continues into the pool-to-be.
  `purse` is all quote outside the coin, `circulating` all tokens outside the
  curve: users are not told apart, because the curve does not.
* **CurveClient** – users of `AsyncPumpClient` on that market. A request goes
  `idle -> fetched_curve -> built -> landed | idle`: the two `get_many` of
  `fetch_curve_quote_state` are two steps; quoting and building do not await and
  are part of the second. The built transaction lands (`Execute` is the market's
  action with the limits the builder passed), is refused, or expires. `Others` is
  any step of the market by anyone else.
* **RouteDiscovery** – `multi_hop_swap` requests over coins quoted in coins. The
  chain part is what `discover_route` can see: what is at each mint's curve address
  (nothing, somebody's system account, an open or a complete curve), the depth
  `create_v2` records, and which canonical pools exist. A request is
  `walking -> routed -> fetched -> built -> landed`, one step per await: one fetch
  per hop of `discover_route`, then the two rounds of `fetch_multi_hop_quote_state`;
  the loop head and the return belong to the step before the next await.
  `multi_hop_route`, the fee legs, what each venue refuses and the choice of the
  buyback recipient are operators. Amounts are left out: a quote that fails on an
  amount is `RequestFails`. `Executable` (external) is what the comments at
  `multi_hop_swap_instruction` say the program checks, stated through mints rather
  than hop indices.
* **AmmQuotes** – `math/amm.rs`: `buy_quote_input`, `buy_base_input`,
  `sell_base_input`, the fee-less helpers, the two sources of an `AmmContext` (a pool
  with its vaults, or a completed curve before its migration), the slippage wrappers
  of `PumpSdk`, `quote_trade`, and multi-hop quoting: `HopFees`, both hop quoters and
  the chain of them.
* **AbstractPool** – what a pool promises: a constant-product pool of two counters, the
  amount it can pay and the fees it owes.
* **PoolMarket** – one canonical pool on chain, from what `migrate_v2` deposited. v1
  trades pay fees out; v2 trades and hops leave them in the vault and lower the signed
  `virtual_quote_reserves`; sweeps move them out; an administrator may disable
  trading. External, from the quoters, the builders' comments and
  `tests/v3_trades.rs`. Implements AbstractPool with base vault, effective reserve,
  real reserve and buckets.
* **PoolClient** – a user on that pool and on the curve of a coin C quoted in its coin
  Q: plain pool trades, the route pool(Q) – curve(C) in both directions, and the
  creation of a coin quoted in Q or C with its first buy (`fetch_pump_quote_create`).
  A request is `idle -> fetched_venues -> built -> landed | idle`; venues and
  `disable_flags` come from the first round trip, vault balances from the second.
  `fetch_pump_quote_create` makes three (curve, pool, vaults) and its first two are
  taken together, because nothing that moves here changes Q's completed curve.
* **Instructions** – every builder of `pump_v2.rs`, `pump_v3.rs`, `pump_amm_ix.rs`,
  `pump_fees_ix.rs`, `pump_legacy.rs`, `trade_tx.rs` and `token.rs`: an instruction is
  its name, the accounts that depend on the arguments, its remaining accounts in order
  and its data. An address is its seeds. A random choice of a fee recipient is the set
  of instructions that may be returned.
* **Wallet** – those lists as transactions. A user builds a list from fetched state;
  others trade, sweep, graduate the coin, set up fee sharing; the list then runs all
  or nothing against the accounts that exist by then, or is dropped. See *External
  facts* below.
* **QuoteMathProofs**, **CurveMarketProofs**, **CurveClientProofs**,
  **RouteDiscoveryProofs**, **PoolMarketProofs**, **PoolClientProofs**,
  **WalletProofs**, **WalletLandingProofs** – theorems.
* **MCCurveMarket**, **MCCurveClient**, **MCRouteDiscovery**, **MCPoolMarket**,
  **MCPoolClient**, **MCWallet** – constants for TLC.

Operators whose comment begins with "Mutant" are deliberate faults of the
definition that follows them; each breaks a property and shows that the property
depends on the code.

**External facts.** Wallet needs from the programs which accounts an instruction
needs, when it is refused and what it moves. Taken from comments and tests: a SOL
curve moves lamports, a pool moves wSOL or the quote token; a v2 trade creates the
buyback and creator-vault token accounts itself, a v3 trade wants the buyback one
made by the list, a pool trade wants it to exist already (it is refused if the
recipient it drew has none), as it wants the fee recipient's, which all listed
recipients have in every quote; a v1 pool trade does not read the cashback and pool_v2
accounts when the creator fee rounds to zero, and then takes the first of them for the
buyback recipient; a mayhem coin pays the
reserved recipient and no buyback slice; a trade is refused with a buyback recipient
that is not authorised, a new cashback coin and an agent initialisation always; and
distribution and share updates are refused while the curve (share updates: or the
pool) holds unswept creator fees. Amounts are tokens of it: a protocol fee of 2, half
of it the buyback slice, and a creator fee of 1 that rounds to 0 at the lower price.
Venue reserves are left out: CurveMarket and PoolMarket are about those.

## Runs

| run | shows |
|---|---|
| `curve_sol` | On a SOL coin whose fee tier drops as the price rises, with donations to the base ATA: books balance (`Conserved`, `Backed`), every holder can sell (`EveryHolderCanSell`), no trade lowers the product (`ProductNeverFalls`), a completed curve is final (`CompleteIsFinal`), the migration opens the pool `estimated_reserves` announced (`OpensWhereTheLegStopped`), exact-in quotes keep their budget (`QuotesKeepBudget`) and re-quoting what they yield is never dearer (`RequoteNeverDearer`, a unit test's claim on every reachable curve). |
| `client_race` | One client among others: an undisturbed quote lands if and only if its user can pay (`QuietTradeLands`) and moves what it said (`QuotedExactly`), limits hold under any race (`LimitsHold`), every request ends (`EveryRequestEnds`). |
| `client_wrap` | A USDC coin with a configured creator rate, near `u64::MAX`: where the cost or the slipped limit wraps in the quoter's casts, the program refuses what the user cannot pay and what costs more than the wrapped limit, and executes everything else; what lands keeps the limits the user asked for. |
| `client_mayhem` | Limits on a creator-less USDC mayhem curve with donations to the base ATA, where the only shortfall below `min_out` is the partial fill that completes the curve (books, solvency and exact-in budgets are proved for every coin). |
| `ata_donation` | Finding: the comment on `estimated_reserves` says it returns the base ATA balance; a transfer to the ATA shows it does not. |
| `torn_snapshot` | Finding: `docs/getting-started.md` says the snapshot takes one round trip; a trade between the two that it takes pairs values of different states. |
| `route_race` | A request walks Q, C, D (each quoted in the one before) while coins are created, sell out and migrate: routes are rooted and connect whatever completes during the walk, every built swap is one the program accepts unless a curve on it completed since, every refusal of `discover_route` has its reason, every request ends. |
| `route_truncated` | The same where the chain is longer than `MAX_HOPS`, with mayhem and cashback coins: routes stay within the bound and a truncated one still executes. |
| `route_long` | Finding: comments say a route starts at the root currency or at `stop_at`; on a chain of nine coins the code's `MAX_HOPS` of 8 makes it start at a coin. |
| `pool_market` | A boosted pool under every mix of v1, v2 and multi-hop trades, sweeps and disabling: virtual reserves are the boost less the buckets and the vault covers them (`Booked`), the quoters refuse exactly the sales that only the boost could pay and quote a completed curve like the pool it opens (`OnlyBoostIsUnpayable`), the fee-less helpers round for the pool (`HelpersFavourPool`), a one-hop swap sells like the plain sale, buys at least what `buy_quote_input` does for the same budget and never more than `buy_base_input` sells for it (`OneHopIsPlain`), and the pool implements AbstractPool. |
| `pool_race` | One user on pool, route and creation among others: an undisturbed quote lands if and only if its user can pay and no limit wrapped, and is exact over both hops and on a curve that did not exist when quoted, limits hold under any race, and a read torn between pool and vaults is wrong by exactly the fees that moved (`TornByFeesOnly`, of every request that reads the pool, the creation of a coin quoted in Q included; only that of a coin quoted in C does not). |
| `wallet` | Every list of the builders, on SOL, USDC, mayhem, cashback, shared and graduated coins: a fresh list lands if and only if no documented refusal applies (`FreshListLands`); wrapping round a pool trade leaves no wSOL account and keeps the threshold in SOL, however late it lands (`WsolRoundTrip`); a distribution sweeps before it pays (`SweptInTime`); in every state the sweeps, and then the collects or the transfer and the distribution, run without error and pay each owner its even share of all the creator fees there are (`CreatorCanCashOut`). |

**Bounds.** Token supply 20 (16 for the client), 10 (5) of it for sale, so a curve
completes after a few trades and the pool-to-be is deep enough that a
post-completion leg is affordable; `Amounts` holds small trades, one that exceeds
the remaining supply as a token amount and one that exceeds it as a budget, so
that both kinds of v3 buy cross the completion and take the
leg; `Purse` is enough to complete the curve and take the leg. Fees are in the
percent range so that every rounding case (0, 1 and more units of fee, shaved and
unshaved nets) occurs on two-digit amounts; the tier threshold lies inside the
price range. `U64_MAX` is far above any amount of
the curve runs but `client_wrap`, where it is 17: five tokens then cost 19 once a first
unit is paid in, three cost 7 and 21 with the slippage of 200 %, and trades land under
limits that wrapped (its purse is too small to complete the curve: a cost that wraps is
one nobody can pay). That the program refuses every v3 sale of a cashback coin is only
proved (`QuietTradesLand`). `U64_MAX` is 24 in `pool_race`, so that with `Amounts` of 4 and
11 and slippages of 25 % and 120 % the truncating casts of `add_slippage` and of the
exact-out quoters do wrap: the properties say what is left then (a wrapped limit refuses
a trade, it never lets a dearer one through).
There, three transactions are enough to tear a read, complete C's curve through its
post-completion leg and still execute; `pool_market` has a boost of 6 that a sale of 9
tokens reaches. `wallet` has three transactions: one to build fees, one to
disturb a list, and the list; its user has only a USDC account, or also wSOL and a coin
from before.
Routes: three coins in a chain (one a cashback coin) give
every mix of curve and pool hops, buys and sells, with one, two and three hops;
`MAX_HOPS` is 3 or 2 there and 8, as in the code, in `route_long`; `Fundable` and
`Completable` limit which accounts others disturb. Deadlock checking is off in
`curve_sol` and `ata_donation`, where a migrated coin with swept buckets has nothing left to do, and in `pool_race` and
`wallet`, which stop at `MaxMoves`.

**Fairness** (`ClientFairness`). Weak fairness of "the second fetch returns or
fails": RPC calls have a timeout and the client returns their error. Weak fairness
of "executes, is refused or expires": a signed transaction carries the blockhash
`build_transaction` fetched and is invalid after it ages out. RouteDiscovery's
`Fairness` is the same for its awaits and its swap. Nothing is assumed of
the other users, and nothing of whether a trade succeeds. The pool and wallet runs
assume no fairness: they check safety only.

## Proofs

`Inv` in CurveMarketProofs is the inductive invariant: the types; `Flags` (the
account's immutable fields, and `complete` exactly when no token is left);
`Reserves`, until the pool opens: virtual minus real token reserves is constant,
virtual quote is initial plus real quote, and the product of the virtual reserves
is at least the initial one; `Conserved`; `Backed`. The product is what solvency
needs and none of the checked invariants says it: with `circulating` tokens out,
virtual reserves are at most what was sold below the initial ones, so selling all
of them back at a product no smaller than the initial leaves at least the initial
virtual quote, hence takes at most the real one.

QuoteMathProofs has the arithmetic: bounds of `\div`, and that each of the three
trade formulas keeps the product (`SellKeepsProduct`, `BuyKeepsProduct`,
`ExactInKeepsProduct`), that an exact-in split spends at most its budget
(`ExactInSplit`), and types of the fee schedule.

`Inv` in PoolMarketProofs: the types; `Conserved`; `Books` (virtual reserves are the
boost less the two buckets, and the buckets are in the vault); `NotEmpty` (neither
the base vault nor the effective reserve is empty). `NotEmpty` keeps every division
defined and every buy affordable; conservation bounds the effective reserve by the
quote there is, hence by `u64`, which is what makes the casts of the quoters
harmless under `PoolMarketAssumption`. Each trade, of any version and of a hop, is
first shown to be a `Bought` or a `Sold` step (what leaves the pool is at most what
the product allows), and invariant and refinement are proved of those two.

**Quotes on the curve** (the second part of CurveMarketProofs). An exact-in quote never charges more
than its budget because `ExactInSplit` spends at most it; where the budget reaches
past the last token the charge is that of the remaining supply, and the step to show
is that it is no larger (`CompletionFits`): the exact-in quoter swaps one unit less
than the net, so a net that swaps to at least the remaining supply covers what the
exact-out quoter asks for that supply. Re-quoting is the same argument on the tokens
quoted.

**Clients of the curve** (CurveClientProofs). A client's transaction is a trade of the
market by construction, so what is proved of the market carries over once its amounts are
known to be the market's (`RequestsKnown`); the theorems about quotes and limits need
`ClientInv`: `Known` says that a request holds a curve account of this coin, complete
and sold out or one the quoters can price (`Snapshot`), and once built the successful quote
of that account and of the ATA balance, torn or not. On the state quoted, the quoter's
branch (partial fill, completion, post-completion leg) is the branch of the program's
`*Fill`, so the fill is the quote and a slipped limit admits it; conversely an
accepted trade shows that its cost was paid, hence that no cast wrapped it. `LimitsHold` compares the
limits derived from that quote with the fill of a state that may be another one.

**Routes** (RouteDiscoveryProofs). `Inv`: a coin's quote coin has a curve one level
up (`DepthInv`) and curves never vanish (`Grows`); the venues of a walk form a chain
(`Chained`: each is a created coin, one level above the next, and quoted in it), and a
returned route is that chain read backwards (`Returning`). Hence a walk cannot meet
`MAX_HOPS` before a root unless coins stand that deep; a route connects, for a buy and
for a sale; the hops read in round 1 are those venues, and a pool among them exists
(`Reading`), because a complete curve another coin was quoted in has been migrated, and
one that was not makes the read fail. For `RefusalsJustified`: a walk stands at no coin
it was asked to stop at (`Unstopped`), and one that ends at a root has met the whole
quote chain (`WholeChain`), the least set of mints closed under "is quoted in".

**Quotes on the pool** (the second part of PoolMarketProofs). `Settings` says which fields of the pool
never change. A live pool's context is its effective and real reserve (`LiveContext`).
For `OneHopIsPlain`: an exact-in split of a budget leaves a gap of at most one unit
between net plus fees and the budget if the rates are at most 100 % (`GapOfOne`), and
the hop, which swaps the gap too, swaps one unit less than its net, so that what it
buys costs no more than the budget (`HopBuyIsAffordable`).

**Clients of the pool** (PoolClientProofs). `ClientInv`: the pool's `Inv`; `CurveInv`, that
the curve of C can be priced and its ATA holds what it sells; `Known`, that a request holds
such a curve, a pool whose virtual reserve is the boost less its buckets, now and when the
vault was read, and once built the successful quote of them. Every landing fill, of a plain
trade or of one hop of a route, is a `Bought`, `Sold` or `CurveTook` step (`Executed`); the
`Promised*` lemmas say that on the state quoted those fills are the quotes.

**Wallets** (WalletProofs). A list is run by a recursive function of the position, so what
it does is an induction along the list (`Along`, from the least element of a set of
naturals, which needs no theorem with an operator parameter); the same goes for the
payments of a trade and the shares of a distribution. `Inv` is `Sound` of the chain and
`Built` of the user's list. `Sound`: balances are naturals; a pool is the one its curve
opens, so that the vault a pool builder derives is the one the program pays into; the
creator is a wallet or the coin's own sharing config, the quote is not the coin; a shared
coin has holders. No property says this, and all need it: a sweep into a vault only
brings a fee to its owner if curve and pool name the same creator. `Frame` says what
nothing changes of a coin, so the accounts a list was built with are still the coin's when
it lands late. `Built` says of a pending list what its builder put in it: a wrap, one
trade and an unwrap; or a sweep before the payout. For `CreatorCanCashOut`, `Cash` is the
relation of two states between which fees moved towards the vaults and nothing else did:
sweeps, account creations and the transfer keep it; what is left is one payout from one
vault (`DistributePayout`) or one collect per vault (`MoveTakes`).

**Fresh lists** (WalletLandingProofs). `FreshListLands` is an equivalence, so every refusal
of every program has to be met or excluded. A prelude of account creations runs without
error and leaves the chain with the accounts it opens (`Opened`), no balance touched. On
such a chain a trade is taken exactly when its accounts are the coin's, those it does not
create exist, its limit admits the price and the purse pays (the `...Outcome` lemmas);
sweeps, collects, distributions and share updates run on the chain the instructions before
them leave (`SweepLands` to `UpdateSharesLands`). Per builder, a `...Lands` lemma shows that
what its list names and opens is what the program wants, for each quote, side, venue and
flag, and what remains is `Refused`. The invariant is `Inv` with `Landing`: beside the
property itself, `FeesOpen`, that every listed fee recipient's accounts are open. That is
not a property of one list but of the history: they stay open because a transaction closes
only the user's own wSOL account (`Frame`), and the user is no fee recipient.

Theorems, for every supply, schedule, purse and set of amounts that satisfies the
modules' assumptions:

* CurveMarketProofs: `TypeCorrect`, `Conservation`, `Backing`, `Solvency` (the
  invariants), `RoundingFavoursCurve`, `CompletionIsFinal`, `EstimateIsExact` (the
  action properties), and of the quoters `QuotesWithinBudget`, `RequoteIsNeverDearer`;
* CurveClientProofs: `ClientsSolvency`: solvency with any number of clients racing on the
  market;
  `ClientTypes`, `QuietTradesLand`, `FreshQuotesAreExact`, `LimitsAreKept`;
* RouteDiscoveryProofs: `RouteTypes`, `RoutesConnect`, `BuiltSwapsAreExecutable`, and, if
  `max_curve_depth < MAX_HOPS`, `RootedRoutes` and `RefusalsAreJustified`. That is the
  exact condition `route_long` breaks; without it a truncated walk also refuses a stop
  that is on the chain;
* PoolMarketProofs: `TypeCorrect`, `BooksBalance`, `Conservation`, and `Refinement`,
  that the pool implements AbstractPool: with the buckets taken out, no trade lowers
  the product, priced and payable reserve move together, and sweeps move no price;
  `HelpersAreSafe`, `BoostAloneIsUnpayable`, `OneHopIsThePlainTrade`;
* PoolClientProofs: `ClientsKeepPool` (the pool implements AbstractPool with its clients
  too), `QuietTradesLand`, `FreshQuotesAreExact`, `LimitsAreKept`, `TornReadsCountFees`;
* WalletProofs: `WalletTypeOK`, `SweptInTimeHolds`, `WsolRoundTripHolds`,
  `CreatorCanCashOutHolds`, for every list of every builder and every interleaving;
* WalletLandingProofs: `FreshListLandsHolds`, for the list of every builder.

`create_v2`'s own parameter checks are assumptions of CurveMarket
(`MarketAssumption`): initial real reserves positive and below both the virtual
reserves and the supply, positive initial quote. `Amounts` are `u64`, as every
instruction's arguments are. PoolClient assumes of C what a created curve has
(`PoolClientAssumption`). Wallet assumes what Solana guarantees of addresses (a wallet is
no derived address) and the programs of a coin (its creator is a wallet or its sharing
config, a config has at least one holder, its quote is SOL or USDC and not the coin
itself), that the fee and buyback recipients of `Global` and `GlobalConfig` are wallets
other than the user, and that a price is at least the fees taken out of it
(`WalletAssumption`).

**What the proofs changed.** Some properties held on the instances checked but not for
every value of the constants; each now says what is true and is checked in that form.

* `QuotesKeepBudget`: for a budget users really hold the only overflow of the v3 quoter is
  that of a raise below the migration fee, whose pool-to-be does not exist; a curve hop of
  a route is refused there too (`CurveHopBuy`).
* Both `QuietTradeLands` name what is refused although it was quoted: a trade of zero, a
  slipped limit that wrapped, a cost the user cannot pay (the true one, of which the
  quote may be a wrapped remainder), a v2 trade of a cashback coin, a v3 sale to a
  completed curve or of a cashback coin. Each is an equivalence: there is nothing else.
* `OnlyBoostIsUnpayable` speaks of sales the pool has rates for.
* `TornByFeesOnly` speaks of requests that read the pool.
* `OneHopIsPlain` said that a hop quotes exactly when the plain buy does. It does not: a
  budget whose split leaves a gap of one unit can quote over a hop and yield nothing as
  a plain buy. It now says which of the two is never worse, and bounds the other.
* `RefusalsJustified` uses the least closed set for "is on the quote chain", and covers
  requests refused at the loop head too.
* `CreatorCanCashOut` counted what all payees gain together, which one holder paid in
  another's place also satisfies. It now gives each payee's exact share, once for each
  time it is listed, and exactly what remains. It also counted as owed what the pool's
  vault holds of a coin without a pool, which nothing can collect yet.

* `FreshListLands` named refusals too coarsely: a pool trade needs the account of the
  buyback recipient its list drew, not of every listed one, and a v1 list is shifted only
  if the pool has an account before the one it reads.

Only model-checked: `EveryRequestEnds` and `EverySwapEnds` (liveness under fairness,
which this prover cannot treat).

## Comments that differ from the code

Three are runs of their own (`ata_donation`, `torn_snapshot`, `route_long`). Others met
on the way, where the model follows the code: `add_slippage` "saturates"
(`src/math/utils.rs:25`) but truncates, which `client_wrap` and `pool_race` exercise; the comment at
`user_trade_atas` (`src/sdk/pump_v2.rs:1228`) speaks of the creator vault's account where
the code makes the creator's own (harmless: v2 trades create the vault's); "a freshly
migrated pool has no boost" (`src/sdk/mod.rs:342`) where `tests/v3_trades.rs:607` has
one, and `OnlyBoostIsUnpayable` says what that changes.

## Plan

1. *(done)* arithmetic, fee schedule, curve quoters, the market of one coin, the
   v3 client, their theorems.
2. *(done)* routes: `discover_route`, `multi_hop_route`, the multi-hop client without
   amounts, and when its routes are rooted.
3. *(done)* AmmQuotes, PoolMarket and its refinement, PoolClient with multi-hop amounts
   and the creation of coins quoted in coins.
4. *(done)* Instructions and Wallet.
5. *(done)* theorems about every safety property of the curve, the routes, the pool and
   their clients.
6. *(done)* theorems about Wallet.

## Not modelled

* Decoding of accounts in older layouts (`src/accounts.rs`, `src/account_wrapper.rs`):
  bytes in, a record out; a model would restate it byte by byte.
* Hashes and bumps of PDAs: an address equals another exactly when program and seeds
  do. Accounts that no argument changes, signer and writable flags, serialisation.
* The extra accounts of `create_v2` for a coin quoted in a pump coin, and the look-up
  `initial_virtual_quote_reserves`, whose result is a constant of CurveMarket.
* RPC transport, logging, the developer binaries (process spawning and files).
* Mint supply is constant: no action of the modelled code burns a coin. Rent and
  transaction fees are outside the amounts. In Wallet one token is traded at a time.
