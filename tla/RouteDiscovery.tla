--------------------------- MODULE RouteDiscovery ---------------------------
(***************************************************************************)
(* multi_hop_swap requests of AsyncPumpClient: discover_route, the two     *)
(* fetches of fetch_multi_hop_quote_state, the route check, the fee legs   *)
(* and the built swap, over coins that are created, complete and migrate   *)
(* while the client awaits.                                                *)
(*                                                                         *)
(* A coin is named by its mint; its curve stores the quote it was created  *)
(* with, which never changes.  Prices are left to the quote modules: here  *)
(* a quote fails because of the venue, or for reasons of amount, which is  *)
(* the failure any request may meet.                                       *)
(***************************************************************************)
EXTENDS FeeSchedule, SequencesExt

CONSTANTS
  Coins,           \* mints that create_v2 may give a bonding curve
  Roots,           \* currencies, which have none
  StoredQuote,     \* the quote each coin is created in: a root, a coin or the zero key
  MayhemCoins, CashbackCoins,
  MaxCurveDepth,   \* Global.max_curve_depth
  MAX_HOPS,        \* 8 in the code
  Fundable,        \* bound: curve addresses somebody may send lamports to
  Completable,     \* bound: coins whose curve may sell out
  Users,
  NONE             \* no stop_at

Mints == Coins \cup Roots

ASSUME RouteAssumption ==
  /\ NATIVE_MINT \in Roots /\ Coins \cap Roots = {}
  /\ DEFAULT_KEY \notin Mints /\ NONE \notin Mints
  /\ StoredQuote \in [Coins -> Mints \cup {DEFAULT_KEY}]
  /\ MayhemCoins \subseteq Coins /\ CashbackCoins \subseteq Coins
  /\ Fundable \subseteq Mints /\ Completable \subseteq Coins
  /\ MaxCurveDepth \in Nat /\ MAX_HOPS \in Nat \ {0}

VARIABLES
  account,     \* what is at each mint's bonding-curve address
  depth,       \* BondingCurve.depth
  pools,       \* coins whose canonical pool exists
  req          \* each user's request

chain == <<account, depth, pools>>
vars == <<account, depth, pools, req>>

HasCurve(m) == account[m] \in {"open", "complete"}
QuoteMintOf(coin) == ResolveQuoteMint(StoredQuote[coin])

Phases == {"idle", "walking", "routed", "fetched", "built", "landed", "failed"}
Pending == {"walking", "routed", "fetched", "built"}

Idle == [phase |-> "idle", err |-> OK, out |-> NONE, stop |-> NONE, is_buy |-> TRUE,
         mint |-> NONE, venues |-> <<>>, hops |-> <<>>, recipient |-> "none"]

Init ==
  /\ account = [m \in Mints |-> "absent"]
  /\ depth = [c \in Coins |-> 0]
  /\ pools = {}
  /\ req = [u \in Users |-> Idle]

-----------------------------------------------------------------------------
(* The chain *)

(* Anyone can fund a system account at a curve address. *)
FundCurveAddress(m) ==
  /\ m \in Fundable /\ account[m] = "absent"
  /\ account' = [account EXCEPT ![m] = "system"]
  /\ UNCHANGED <<depth, pools, req>>

(* Whether a coin may be quoted in pump coin q, from                        *)
(* pump_quote_initial_virtual_quote_reserves.                               *)
EligibleQuote(q) ==
  /\ HasCurve(q)
  /\ depth[q] + 1 <= MaxCurveDepth
  /\ q \notin MayhemCoins
  /\ account[q] = "complete" => q \in pools

CreateV2(c) ==
  LET q == QuoteMintOf(c)
  IN  /\ ~HasCurve(c)
      /\ q \in Coins => EligibleQuote(q)
      /\ account' = [account EXCEPT ![c] = "open"]
      /\ depth' = [depth EXCEPT ![c] = IF q \in Coins THEN depth[q] + 1 ELSE 0]
      /\ UNCHANGED <<pools, req>>

Complete(c) ==
  /\ c \in Completable /\ account[c] = "open"
  /\ account' = [account EXCEPT ![c] = "complete"]
  /\ UNCHANGED <<depth, pools, req>>

MigrateV2(c) ==
  /\ account[c] = "complete" /\ c \notin pools
  /\ pools' = pools \cup {c}
  /\ UNCHANGED <<account, depth, req>>

-----------------------------------------------------------------------------
(* Routes *)

PoolVenue(c) == [kind |-> "Pool", coin |-> c]
CurveVenue(c) == [kind |-> "Curve", coin |-> c]

Failed(r, e) == [Idle EXCEPT !.phase = "failed", !.err = e, !.out = r.out, !.stop = r.stop]

(* Mutant: the venues are left in walk order. *)
ReturnedUnreversed(r) ==
  IF r.venues = <<>> THEN Failed(r, "AccountNotFound")
  ELSE IF r.stop # NONE /\ r.mint # r.stop THEN Failed(r, "MultiHopDiscontinuousPath")
  ELSE [r EXCEPT !.phase = "routed"]

(* discover_route returns; build_multi_hop_swap_from then compares in_mint   *)
(* with the coin it asked to stop at.  r.mint becomes the route's in_mint.  *)
Returned(r) ==
  IF r.venues = <<>> THEN Failed(r, "AccountNotFound")
  ELSE IF r.stop # NONE /\ r.mint # r.stop THEN Failed(r, "MultiHopDiscontinuousPath")
  ELSE [r EXCEPT !.phase = "routed", !.venues = Reverse(r.venues)]

(* Mutant: the bound is never reached. *)
LoopForever(r) ==
  IF r.mint # r.stop THEN [r EXCEPT !.phase = "walking"] ELSE Returned(r)

(* The head of discover_route's loop: fetch the next curve, or return. *)
LoopHead(r) ==
  IF r.mint # r.stop /\ Len(r.venues) < MAX_HOPS
    THEN [r EXCEPT !.phase = "walking"]
    ELSE Returned(r)

(* The venue the curve at r.mint stands for, as it is now. *)
VenueAt(coin) == IF account[coin] = "complete" THEN PoolVenue(coin) ELSE CurveVenue(coin)

(* Mutant: an account the pump program does not own is decoded as a curve. *)
HopUnfiltered(r) ==
  IF account[r.mint] = "absent" THEN Returned(r)
  ELSE IF ~HasCurve(r.mint) THEN Failed(r, "Decode")
  ELSE LoopHead([r EXCEPT !.venues = Append(@, VenueAt(r.mint)),
                          !.mint = QuoteMintOf(r.mint)])

(* Mutant: a curve that awaits its migration ends the walk. *)
HopSkippingUnmigrated(r) ==
  IF ~HasCurve(r.mint) \/ (account[r.mint] = "complete" /\ r.mint \notin pools)
    THEN Returned(r)
  ELSE LoopHead([r EXCEPT !.venues = Append(@, VenueAt(r.mint)),
                          !.mint = QuoteMintOf(r.mint)])

(* The fetch of r.mint's curve returned. *)
HopOf(r) ==
  IF ~HasCurve(r.mint) THEN Returned(r)
  ELSE LoopHead([r EXCEPT !.venues = Append(@, VenueAt(r.mint)),
                          !.mint = QuoteMintOf(r.mint)])

(* MultiHopRoute::path: the input mint and the venues in path order. *)
PathMint(r) == IF r.is_buy THEN r.mint ELSE r.out
PathVenues(r) == IF r.is_buy THEN r.venues ELSE Reverse(r.venues)

(* The mint a route delivers. *)
PathEnd(r) == IF r.is_buy THEN r.out ELSE r.mint

(* The mint reached after the first i hops of one direction. *)
Reached(in_mint, hops, is_buy, i) ==
  IF i = 0 THEN in_mint ELSE IF is_buy THEN hops[i].coin ELSE QuoteMintOf(hops[i].coin)

(* The direction (is_buy) a hop takes from a mint: it buys when it is fed   *)
(* its quote and sells when it is fed its base; no other mint enters it.    *)
Way(mint, hop) ==
  IF mint = QuoteMintOf(hop.coin) THEN {TRUE} ELSE IF mint = hop.coin THEN {FALSE} ELSE {}

(* multi_hop_route: every hop takes the direction of the first.  The first  *)
(* that does not is a jump or a turn.                                       *)
MultiHopRoute(in_mint, hops) ==
  LET is_buy == in_mint = QuoteMintOf(hops[1].coin)
      way(i) == Way(Reached(in_mint, hops, is_buy, i - 1), hops[i])
      astray == {i \in DOMAIN hops : way(i) # {is_buy}}
      first  == CHOOSE i \in astray : \A j \in astray : i <= j
      error(e) == [err |-> e, mint |-> in_mint, dirs |-> {}]
  IN  IF hops = <<>> THEN error("MultiHopDiscontinuousPath")
      ELSE IF astray = {}
        THEN [err |-> OK, mint |-> Reached(in_mint, hops, is_buy, Len(hops)), dirs |-> {is_buy}]
      ELSE error(IF way(first) = {} THEN "MultiHopDiscontinuousPath"
                                    ELSE "MultiHopMixedDirection")

(* HopFees::for_hop, hops counted from 1. *)
ProtocolLeg(is_buy, hops) == IF is_buy THEN 1 ELSE hops

(* Mutant: the target is the last hop whatever the direction. *)
TargetLegLast(is_buy, hops) == hops

TargetLeg(is_buy, hops) == IF is_buy THEN hops ELSE 1

(* What a venue refuses in quote_multi_hop_swap: a mayhem coin, a cashback   *)
(* coin on the leg that charges the creator and, of a curve, a complete one. *)
PoolHopSupported(hop, charges_creator) ==
  /\ hop.coin \in CashbackCoins => ~charges_creator
  /\ hop.coin \notin MayhemCoins

CurveHopSupported(hop, charges_creator) ==
  /\ hop.state = "open"
  /\ hop.coin \in CashbackCoins => ~charges_creator
  /\ hop.coin \notin MayhemCoins

RouteSupported(hops, is_buy) ==
  \A i \in DOMAIN hops :
    \E charges_creator \in {i = TargetLeg(is_buy, Len(hops))} :
      IF hops[i].kind = "Pool" THEN PoolHopSupported(hops[i], charges_creator)
                               ELSE CurveHopSupported(hops[i], charges_creator)

(* Mutant: the recipient is taken from the first hop's config. *)
RecipientOfFirst(hops, is_buy) ==
  IF hops[1].kind = "Pool" THEN "GlobalConfig" ELSE "Global"

(* The config whose buyback recipient the swap names. *)
RecipientOf(hops, is_buy) ==
  IF hops[ProtocolLeg(is_buy, Len(hops))].kind = "Pool" THEN "GlobalConfig" ELSE "Global"

-----------------------------------------------------------------------------
(* Requests *)

(* build_multi_hop_swap (stop = NONE) or build_multi_hop_swap_from. *)
Request(u, out, stop, is_buy) ==
  /\ req[u].phase \notin Pending
  /\ req' = [req EXCEPT ![u] = LoopHead([Idle EXCEPT !.out = out, !.stop = stop,
                                                     !.is_buy = is_buy, !.mint = out])]
  /\ UNCHANGED chain

Walk(u) ==
  /\ req[u].phase = "walking"
  /\ req' = [req EXCEPT ![u] = HopOf(@)]
  /\ UNCHANGED chain

(* Round 1 of fetch_multi_hop_quote_state: every venue, then the route.     *)
FetchVenues(u) ==
  /\ req[u].phase = "routed"
  /\ \E r \in {req[u]}, venues \in {PathVenues(req[u])} :
       LET hops == [i \in DOMAIN venues |->
                      [kind |-> venues[i].kind, coin |-> venues[i].coin,
                       state |-> account[venues[i].coin]]]
           route == MultiHopRoute(PathMint(r), hops)
       IN  req' = [req EXCEPT ![u] =
             IF \E i \in DOMAIN venues : venues[i].kind = "Pool" /\ venues[i].coin \notin pools
               THEN Failed(r, "AccountNotFound")
             ELSE IF route.err # OK THEN Failed(r, route.err)
             ELSE [r EXCEPT !.phase = "fetched", !.hops = hops]]
  /\ UNCHANGED chain

(* Round 2: balances, which exist with their venue; the quote and the swap  *)
(* are made from round 1's accounts.                                        *)
FetchBalances(u) ==
  /\ req[u].phase = "fetched"
  /\ \E r \in {req[u]}, dirs \in {MultiHopRoute(PathMint(req[u]), req[u].hops).dirs} :
       \E is_buy \in dirs :
         req' = [req EXCEPT ![u] =
           IF RouteSupported(r.hops, is_buy)
             THEN [r EXCEPT !.phase = "built", !.recipient = RecipientOf(r.hops, is_buy)]
             ELSE Failed(r, "VenueNotSupported")]
  /\ UNCHANGED chain

(* An RPC error, or a quote error on the amounts. *)
RequestFails(u) ==
  /\ req[u].phase \in {"walking", "routed", "fetched"}
  /\ req' = [req EXCEPT ![u] = Failed(@, "Rpc")]
  /\ UNCHANGED chain

CurveCoins(r) == {r.hops[i].coin : i \in {j \in DOMAIN r.hops : r.hops[j].kind = "Curve"}}
PoolCoins(r) == {r.hops[i].coin : i \in {j \in DOMAIN r.hops : r.hops[j].kind = "Pool"}}

(* What the program checks of a swap: one contiguous path in one direction  *)
(* from the user's mint, venues that trade and support their fee legs, and  *)
(* a buyback recipient listed by the venue that trades the user's currency. *)
Executable(r) ==
  LET route == MultiHopRoute(PathMint(r), r.hops)
      far == {i \in DOMAIN r.hops : r.hops[i].coin = r.out}
      near == {i \in DOMAIN r.hops : QuoteMintOf(r.hops[i].coin) = r.mint}
  IN  /\ route.err = OK /\ route.mint = PathEnd(r) /\ route.dirs = {r.is_buy}
      /\ \A c \in CurveCoins(r) : account[c] = "open"
      /\ PoolCoins(r) \subseteq pools
      /\ \A i \in DOMAIN r.hops : r.hops[i].coin \notin MayhemCoins
      /\ \A i \in far : r.hops[i].coin \notin CashbackCoins
      /\ \A i \in near : r.recipient = IF r.hops[i].kind = "Pool" THEN "GlobalConfig"
                                                                  ELSE "Global"

(* The swap executes; a buy may complete curves it goes through. *)
Land(u) ==
  /\ req[u].phase = "built" /\ Executable(req[u])
  /\ \E done \in SUBSET (CurveCoins(req[u]) \cap Completable) :
       /\ done # {} => req[u].is_buy
       /\ account' = [m \in Mints |-> IF m \in done THEN "complete" ELSE account[m]]
  /\ req' = [req EXCEPT ![u] = [Idle EXCEPT !.phase = "landed"]]
  /\ UNCHANGED <<depth, pools>>

(* Mutant: a swap that did not land is routed anew, for ever. *)
DroppedRetrying(u) ==
  /\ req[u].phase = "built"
  /\ req' = [req EXCEPT ![u] = LoopHead([@ EXCEPT !.venues = <<>>, !.hops = <<>>,
                                                  !.mint = req[u].out])]
  /\ UNCHANGED chain

(* The program refuses it, or its blockhash expires. *)
Dropped(u) ==
  /\ req[u].phase = "built"
  /\ req' = [req EXCEPT ![u] = Failed(@, "Dropped")]
  /\ UNCHANGED chain

Next ==
  \/ \E m \in Mints : FundCurveAddress(m)
  \/ \E c \in Coins : CreateV2(c) \/ Complete(c) \/ MigrateV2(c)
  \/ \E u \in Users, out \in Coins, stop \in Mints \cup {NONE}, is_buy \in BOOLEAN :
       Request(u, out, stop, is_buy)
  \/ \E u \in Users : Walk(u) \/ FetchVenues(u) \/ FetchBalances(u) \/ RequestFails(u)
                        \/ Land(u) \/ Dropped(u)

(* Every await returns or errs, and a sent transaction executes, is refused *)
(* or expires.                                                              *)
Fairness ==
  \A u \in Users :
    /\ WF_vars(Walk(u) \/ FetchVenues(u) \/ FetchBalances(u) \/ RequestFails(u))
    /\ WF_vars(Land(u) \/ Dropped(u))

Spec == Init /\ [][Next]_vars /\ Fairness

-----------------------------------------------------------------------------
(* Properties *)

Venue == [kind : {"Pool", "Curve"}, coin : Coins]
Hop == [kind : {"Pool", "Curve"}, coin : Coins,
        state : {"absent", "system", "open", "complete"}]
Errors == {OK, "AccountNotFound", "MultiHopDiscontinuousPath", "MultiHopMixedDirection",
           "VenueNotSupported", "Rpc", "Dropped"}
Requests ==
  [phase : Phases, err : Errors, out : Coins \cup {NONE}, stop : Mints \cup {NONE},
   is_buy : BOOLEAN, mint : Mints \cup {NONE}, venues : Seq(Venue), hops : Seq(Hop),
   recipient : {"none", "Global", "GlobalConfig"}]

(* Type invariant; MAX_HOPS bounds every route. *)
TypeOK ==
  /\ account \in [Mints -> {"absent", "system", "open", "complete"}]
  /\ depth \in [Coins -> Nat]
  /\ pools \subseteq Coins
  /\ req \in [Users -> Requests]
  /\ \A u \in Users : Len(req[u].venues) <= MAX_HOPS

(* A returned route starts at the root currency or at the coin it was asked  *)
(* to stop at, as the comments on discover_route and MultiHopRoute say: the  *)
(* caller's amount_in is an amount of that currency.                         *)
StartsAtRoot ==
  \A u \in Users :
    req[u].phase \in {"routed", "fetched", "built"} => req[u].mint \in Roots \cup {req[u].stop}

(* Whatever completes or migrates during the walk, the venues connect        *)
(* in_mint to out_mint: multi_hop_route accepts the path of a buy and of a   *)
(* sale, with the direction asked for and the right mint at its end.         *)
RouteConnects ==
  \A u \in Users :
    req[u].phase \in {"routed", "fetched", "built"} =>
      \A is_buy \in BOOLEAN :
        \E r \in {[req[u] EXCEPT !.is_buy = is_buy]} :
          \E route \in {MultiHopRoute(PathMint(r), PathVenues(r))} :
            route.err = OK /\ route.dirs = {is_buy} /\ route.mint = PathEnd(r)

(* A built swap is one the program executes, unless a curve on its path      *)
(* completed meanwhile: no pool is missing although discover_route names it  *)
(* without looking, each venue supports the fees of its leg, and the         *)
(* recipient is listed by the venue that trades the user's currency.         *)
BuiltIsExecutable ==
  \A u \in Users :
    (req[u].phase = "built" /\ \A c \in CurveCoins(req[u]) : account[c] = "open")
      => Executable(req[u])

(* A set of mints that holds the quote of each of its coins. *)
ClosedUnderQuotes(S) == \A c \in S \cap Coins : QuoteMintOf(c) \in S

(* The quote chain of a mint: what every such set around it has to hold.    *)
QuoteChain(m) ==
  {x \in Mints : \A S \in SUBSET Mints : m \in S /\ ClosedUnderQuotes(S) => x \in S}

(* A reason to end a request before it has a route. *)
Justified(r) ==
  \/ r.err = "Rpc"
  \/ r.err = "AccountNotFound" /\ (r.out = r.stop \/ ~HasCurve(r.out))
  \/ r.err = "MultiHopDiscontinuousPath" /\ r.stop \notin QuoteChain(r.out)

(* discover_route refuses only for a reason: "not found" when out_mint has   *)
(* no curve (or is where it should stop), "discontinuous" when the coin to   *)
(* stop at is not on the quote chain.  Lamports sent to a curve address      *)
(* break no discovery.                                                       *)
RefusalsJustified ==
  [][\A u \in Users :
       (/\ req[u].phase \notin {"routed", "fetched", "built"}
        /\ req'[u].phase = "failed" /\ req'[u] # req[u])
         => Justified(req'[u])]_vars

(* Every request ends. *)
EverySwapEnds ==
  \A u \in Users : (req[u].phase \in Pending) ~> (req[u].phase \notin Pending)

=============================================================================
