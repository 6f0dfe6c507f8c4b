------------------------ MODULE RouteDiscoveryProofs ------------------------
(***************************************************************************)
(* Routes found while coins are created, complete and migrate.  For any    *)
(* set of coins, users and interleaving, the venues a request holds are a  *)
(* quote chain, every route of them connects, and a built swap stays       *)
(* executable until a curve on its path completes.  If max_curve_depth is  *)
(* below MAX_HOPS, every route also starts at a root currency or at the    *)
(* coin it should stop at.                                                 *)
(***************************************************************************)
EXTENDS RouteDiscovery, TLAPS

CurveStates == {"absent", "system", "open", "complete"}

ChainTypes ==
  /\ account \in [Mints -> CurveStates]
  /\ \A m \in Roots : account[m] \in {"absent", "system"}
  /\ depth \in [Coins -> Nat]
  /\ pools \subseteq Coins

(* What create_v2 guarantees: the quote coin of a coin exists, one level up. *)
DepthInv ==
  \A c \in Coins : HasCurve(c) =>
    /\ depth[c] <= MaxCurveDepth
    /\ QuoteMintOf(c) \in Coins =>
         /\ HasCurve(QuoteMintOf(c))
         /\ depth[c] = depth[QuoteMintOf(c)] + 1

ChainInv == ChainTypes /\ DepthInv

(* The venues w of a walk from out to mint, in the order it met them: each   *)
(* is a created coin, one level above the next, and quoted in it.            *)
Chained(w, out, mint) ==
  /\ w = <<>> => mint = out
  /\ w # <<>> => w[1].coin = out
  /\ \A i \in 1 .. Len(w) :
       /\ HasCurve(w[i].coin) /\ depth[w[i].coin] + i = depth[out] + 1
       /\ QuoteMintOf(w[i].coin) = IF i = Len(w) THEN mint ELSE w[i + 1].coin

Typed(r) == r \in Requests /\ Len(r.venues) <= MAX_HOPS

Walking(r) ==
  r.phase = "walking" =>
    /\ r.out \in Coins /\ r.mint \in Mints /\ Len(r.venues) < MAX_HOPS
    /\ Chained(r.venues, r.out, r.mint)

(* A returned route is a chain, read backwards; only MAX_HOPS may end it     *)
(* before a root or the coin to stop at.                                     *)
Returning(r) ==
  r.phase \in {"routed", "fetched", "built"} =>
    /\ r.out \in Coins /\ r.mint \in Mints /\ r.venues # <<>>
    /\ Chained(Reverse(r.venues), r.out, r.mint)
    /\ MaxCurveDepth < MAX_HOPS => r.mint \in Roots \cup {r.stop}

(* The hops read in round 1 are those venues, in path order; a pool among    *)
(* them exists.                                                              *)
Reading(r) ==
  r.phase \in {"fetched", "built"} =>
    /\ Len(r.hops) = Len(r.venues)
    /\ \A i \in 1 .. Len(r.hops) :
         /\ r.hops[i].coin = PathVenues(r)[i].coin
         /\ r.hops[i].kind = "Pool" => r.hops[i].coin \in pools

Building(r) ==
  r.phase = "built" =>
    RouteSupported(r.hops, r.is_buy) /\ r.recipient = RecipientOf(r.hops, r.is_buy)

RequestInv(r) == Typed(r) /\ Walking(r) /\ Returning(r) /\ Reading(r) /\ Building(r)

Inv ==
  /\ ChainInv
  /\ req \in [Users -> Requests]
  /\ \A u \in Users : RequestInv(req[u])

-----------------------------------------------------------------------------
(* Paths *)

(* The resolved quote of a coin is a mint, never the zero key. *)
LEMMA QuoteIsMint == \A c \in Coins : QuoteMintOf(c) \in Mints
  BY RouteAssumption DEF QuoteMintOf, ResolveQuoteMint, Mints

(* No coin is quoted in itself: it would stand one level above itself.       *)
LEMMA NotOwnQuote ==
  ASSUME ChainInv, NEW c \in Coins, HasCurve(c)
  PROVE  QuoteMintOf(c) # c
<1>1. depth[c] \in Nat
  BY DEF ChainInv, ChainTypes
<1>2. QuoteMintOf(c) \in Coins => depth[c] = depth[QuoteMintOf(c)] + 1
  BY DEF ChainInv, DepthInv
<1> QED BY <1>1, <1>2

(* Reversing twice gives every venue back. *)
LEMMA Reversed ==
  ASSUME NEW S, NEW s \in Seq(S)
  PROVE  /\ Reverse(s) \in Seq(S) /\ Len(Reverse(s)) = Len(s) /\ Len(s) \in Nat
         /\ Reverse(Reverse(s)) = s
         /\ \A i \in 1 .. Len(s) : Reverse(s)[i] = s[(Len(s) - i) + 1]
         /\ Reverse(s) = <<>> <=> s = <<>>
<1>1. \A i \in 1 .. Len(s) : (Len(s) - i) + 1 \in 1 .. Len(s)
  OBVIOUS
<1>2. Reverse(s) \in [1 .. Len(s) -> S] /\ Len(s) \in Nat
  BY <1>1 DEF Reverse
<1>3. Reverse(s) \in Seq(S) /\ Len(Reverse(s)) = Len(s)
  BY <1>2
<1>4. \A i \in 1 .. Len(s) : Reverse(s)[i] = s[(Len(s) - i) + 1]
  BY DEF Reverse
<1>5. Reverse(Reverse(s)) = s
  <2> DEFINE t == Reverse(s)
  <2>1. t \in Seq(S) /\ Len(t) = Len(s)
    BY <1>3
  <2>2. \A i \in 1 .. Len(s) : t[(Len(s) - i) + 1] = s[i]
    BY <1>1, <1>4
  <2> HIDE DEF t
  <2>3. Reverse(t) = [i \in 1 .. Len(s) |-> s[i]]
    BY <2>1, <2>2 DEF Reverse
  <2>4. s = [i \in 1 .. Len(s) |-> s[i]]
    OBVIOUS
  <2> QED BY <2>3, <2>4 DEF t
<1>6. Reverse(s) = <<>> <=> s = <<>>
  BY <1>3
<1> QED BY <1>2, <1>3, <1>4, <1>5, <1>6

(* multi_hop_route on a path that enters every hop by its quote. *)
LEMMA BuyPath ==
  ASSUME NEW S, NEW hops \in Seq(S), hops # <<>>, NEW in_mint,
         in_mint = QuoteMintOf(hops[1].coin),
         \A i \in 2 .. Len(hops) : QuoteMintOf(hops[i].coin) = hops[i - 1].coin
  PROVE  MultiHopRoute(in_mint, hops)
           = [err |-> OK, mint |-> hops[Len(hops)].coin, dirs |-> {TRUE}]
<1> DEFINE is_buy == in_mint = QuoteMintOf(hops[1].coin)
           way(i) == Way(Reached(in_mint, hops, is_buy, i - 1), hops[i])
           astray == {i \in DOMAIN hops : way(i) # {is_buy}}
<1>1. Len(hops) \in Nat /\ Len(hops) > 0 /\ DOMAIN hops = 1 .. Len(hops)
  OBVIOUS
<1>2. is_buy = TRUE
  OBVIOUS
<1> HIDE DEF is_buy
<1>3. ASSUME NEW i \in 1 .. Len(hops)
      PROVE  way(i) = {TRUE}
  <2>1. Reached(in_mint, hops, TRUE, i - 1) = QuoteMintOf(hops[i].coin)
    <3>1. CASE i = 1
      BY <3>1 DEF Reached
    <3>2. CASE i # 1
      <4>1. i \in 2 .. Len(hops) /\ i - 1 # 0
        BY <1>1, <3>2
      <4> QED BY <4>1 DEF Reached
    <3> QED BY <3>1, <3>2
  <2> QED BY <1>2, <2>1 DEF Way
<1>4. astray = {}
  BY <1>1, <1>2, <1>3
<1>5. Reached(in_mint, hops, is_buy, Len(hops)) = hops[Len(hops)].coin
  BY <1>1, <1>2 DEF Reached
<1> QED BY <1>2, <1>4, <1>5 DEF MultiHopRoute, is_buy

(* ... and on one that enters every hop by its base. *)
LEMMA SalePath ==
  ASSUME NEW S, NEW hops \in Seq(S), hops # <<>>, NEW in_mint,
         in_mint = hops[1].coin,
         \A i \in 2 .. Len(hops) : hops[i].coin = QuoteMintOf(hops[i - 1].coin),
         \A i \in 1 .. Len(hops) : QuoteMintOf(hops[i].coin) # hops[i].coin
  PROVE  MultiHopRoute(in_mint, hops)
           = [err |-> OK, mint |-> QuoteMintOf(hops[Len(hops)].coin), dirs |-> {FALSE}]
<1> DEFINE is_buy == in_mint = QuoteMintOf(hops[1].coin)
           way(i) == Way(Reached(in_mint, hops, is_buy, i - 1), hops[i])
           astray == {i \in DOMAIN hops : way(i) # {is_buy}}
<1>1. Len(hops) \in Nat /\ Len(hops) > 0 /\ DOMAIN hops = 1 .. Len(hops)
  OBVIOUS
<1>2. is_buy = FALSE
  <2>1. QuoteMintOf(hops[1].coin) # hops[1].coin
    BY <1>1
  <2> QED BY <2>1
<1> HIDE DEF is_buy
<1>3. ASSUME NEW i \in 1 .. Len(hops)
      PROVE  way(i) = {FALSE}
  <2>1. Reached(in_mint, hops, FALSE, i - 1) = hops[i].coin
    <3>1. CASE i = 1
      BY <3>1 DEF Reached
    <3>2. CASE i # 1
      <4>1. i \in 2 .. Len(hops) /\ i - 1 # 0
        BY <1>1, <3>2
      <4> QED BY <4>1 DEF Reached
    <3> QED BY <3>1, <3>2
  <2>2. hops[i].coin # QuoteMintOf(hops[i].coin)
    OBVIOUS
  <2> QED BY <1>2, <2>1, <2>2 DEF Way
<1>4. astray = {}
  BY <1>1, <1>2, <1>3
<1>5. Reached(in_mint, hops, is_buy, Len(hops)) = QuoteMintOf(hops[Len(hops)].coin)
  BY <1>1, <1>2 DEF Reached
<1> QED BY <1>2, <1>4, <1>5 DEF MultiHopRoute, is_buy

(* Hops in the path order of a returned route connect, in the direction      *)
(* asked for and to the mint it delivers.                                    *)
LEMMA Connects ==
  ASSUME ChainInv, NEW r \in Requests, r.out \in Coins, r.venues # <<>>,
         Chained(Reverse(r.venues), r.out, r.mint),
         NEW S, NEW hops \in Seq(S), Len(hops) = Len(r.venues),
         \A i \in 1 .. Len(hops) : hops[i].coin = PathVenues(r)[i].coin
  PROVE  MultiHopRoute(PathMint(r), hops)
           = [err |-> OK, mint |-> PathEnd(r), dirs |-> {r.is_buy}]
<1> DEFINE v == r.venues
           w == Reverse(v)
           n == Len(v)
<1>1. /\ v \in Seq(Venue) /\ w \in Seq(Venue) /\ Len(w) = n /\ n \in Nat /\ n > 0
      /\ \A i \in 1 .. n : w[i] = v[(n - i) + 1] /\ (n - i) + 1 \in 1 .. n
      /\ hops # <<>> /\ w # <<>>
  <2>1. v \in Seq(Venue) /\ v # <<>>
    BY DEF Requests
  <2> HIDE DEF v
  <2>2. /\ w \in Seq(Venue) /\ Len(w) = n /\ n \in Nat /\ w # <<>>
        /\ \A i \in 1 .. n : w[i] = v[(n - i) + 1]
    BY <2>1, Reversed
  <2>3. n > 0
    BY <2>1
  <2>4. Len(hops) = n
    BY DEF v
  <2> HIDE DEF w, n
  <2>5. \A i \in 1 .. n : (n - i) + 1 \in 1 .. n
    BY <2>2
  <2>6. hops # <<>>
    BY <2>3, <2>4
  <2> QED BY <2>1, <2>2, <2>3, <2>5, <2>6
<1>2. /\ w[1].coin = r.out
      /\ \A i \in 1 .. n : /\ HasCurve(w[i].coin)
                           /\ QuoteMintOf(w[i].coin) = IF i = n THEN r.mint ELSE w[i + 1].coin
  BY <1>1 DEF Chained
<1> HIDE DEF w
<1>3. CASE r.is_buy
  <2>1. \A i \in 1 .. n : hops[i].coin = v[i].coin
    BY <1>1, <1>3 DEF PathVenues
  <2>2. \A i \in 1 .. n : hops[i].coin = w[(n - i) + 1].coin
    <3>1. \A i \in 1 .. n : w[(n - i) + 1] = v[i]
      <4> HIDE DEF v, n
      <4>1. \A i \in 1 .. n : (n - i) + 1 \in 1 .. n /\ (n - ((n - i) + 1)) + 1 = i
        BY <1>1
      <4> QED BY <1>1, <4>1
    <3> QED BY <2>1, <3>1
  <2> HIDE DEF v, n
  <2>3. r.mint = QuoteMintOf(hops[1].coin)
    <3>1. (n - 1) + 1 = n /\ 1 \in 1 .. n /\ n \in 1 .. n
      BY <1>1
    <3> QED BY <1>2, <2>2, <3>1
  <2>4. \A i \in 2 .. n : QuoteMintOf(hops[i].coin) = hops[i - 1].coin
    <3> SUFFICES ASSUME NEW i \in 2 .. n
                 PROVE  QuoteMintOf(hops[i].coin) = hops[i - 1].coin
      OBVIOUS
    <3> DEFINE j == (n - i) + 1
    <3>1. j \in 1 .. n /\ j # n /\ j + 1 = (n - (i - 1)) + 1 /\ i \in 1 .. n /\ i - 1 \in 1 .. n
      BY <1>1
    <3>2. hops[i].coin = w[j].coin /\ hops[i - 1].coin = w[j + 1].coin
      BY <2>2, <3>1
    <3> HIDE DEF j
    <3> QED BY <1>2, <3>1, <3>2
  <2>5. hops[n].coin = r.out
    <3>1. (n - n) + 1 = 1 /\ n \in 1 .. n
      BY <1>1
    <3> QED BY <1>2, <2>2, <3>1
  <2>6. Len(hops) = n
    BY DEF n, v
  <2>7. MultiHopRoute(r.mint, hops) = [err |-> OK, mint |-> r.out, dirs |-> {TRUE}]
    <3>1. \A i \in 2 .. Len(hops) : QuoteMintOf(hops[i].coin) = hops[i - 1].coin
      BY <2>4, <2>6
    <3>2. hops # <<>> /\ hops[Len(hops)].coin = r.out
      BY <1>1, <2>5, <2>6
    <3> DEFINE m == r.mint
    <3>3. m = QuoteMintOf(hops[1].coin)
      BY <2>3
    <3> HIDE DEF m
    <3>4. MultiHopRoute(m, hops) = [err |-> OK, mint |-> hops[Len(hops)].coin, dirs |-> {TRUE}]
      BY <3>1, <3>2, <3>3, BuyPath
    <3> QED BY <3>2, <3>4 DEF m
  <2> QED BY <1>3, <2>7 DEF PathMint, PathEnd, Requests
<1>4. CASE ~r.is_buy
  <2>1. \A i \in 1 .. n : hops[i].coin = w[i].coin
    BY <1>1, <1>4 DEF PathVenues, w
  <2>2. \A i \in 1 .. n : w[i].coin \in Coins
    <3>1. \A i \in 1 .. n : w[i] \in Venue
      BY <1>1
    <3> QED BY <3>1 DEF Venue
  <2> HIDE DEF v, n
  <2>3. \A i \in 1 .. n : QuoteMintOf(hops[i].coin) # hops[i].coin
    BY <1>2, <2>1, <2>2, NotOwnQuote
  <2>4. \A i \in 2 .. n : hops[i].coin = QuoteMintOf(hops[i - 1].coin)
    <3> SUFFICES ASSUME NEW i \in 2 .. n
                 PROVE  hops[i].coin = QuoteMintOf(hops[i - 1].coin)
      OBVIOUS
    <3>1. i - 1 \in 1 .. n /\ i - 1 # n /\ (i - 1) + 1 = i /\ i \in 1 .. n
      BY <1>1
    <3> QED BY <1>2, <2>1, <3>1
  <2>5. QuoteMintOf(hops[n].coin) = r.mint /\ hops[1].coin = r.out
    <3>1. 1 \in 1 .. n /\ n \in 1 .. n
      BY <1>1
    <3> QED BY <1>2, <2>1, <3>1
  <2>6. Len(hops) = n
    BY DEF n, v
  <2>7. MultiHopRoute(r.out, hops) = [err |-> OK, mint |-> r.mint, dirs |-> {FALSE}]
    <3>1. /\ \A i \in 2 .. Len(hops) : hops[i].coin = QuoteMintOf(hops[i - 1].coin)
          /\ \A i \in 1 .. Len(hops) : QuoteMintOf(hops[i].coin) # hops[i].coin
      BY <2>3, <2>4, <2>6
    <3>2. hops # <<>> /\ QuoteMintOf(hops[Len(hops)].coin) = r.mint
      BY <1>1, <2>5, <2>6
    <3> DEFINE m == r.out
    <3>3. m = hops[1].coin
      BY <2>5
    <3> HIDE DEF m
    <3>4. MultiHopRoute(m, hops)
            = [err |-> OK, mint |-> QuoteMintOf(hops[Len(hops)].coin), dirs |-> {FALSE}]
      BY <3>1, <3>2, <3>3, SalePath
    <3> QED BY <3>2, <3>4 DEF m
  <2>8. r.is_buy = FALSE
    BY <1>4 DEF Requests
  <2> QED BY <2>7, <2>8 DEF PathMint, PathEnd
<1> QED BY <1>3, <1>4

-----------------------------------------------------------------------------
(* The chain *)

(* Curves stay, and so do their depths; pools stay. *)
Grows ==
  /\ \A m \in Mints : HasCurve(m) => HasCurve(m)' /\ (m \in Coins => depth'[m] = depth[m])
  /\ pools \subseteq pools'

(* A step that leaves every curve a curve and the depths alone keeps ChainInv. *)
LEMMA ChainKept ==
  ASSUME ChainInv, account' \in [Mints -> CurveStates], depth' = depth,
         \A m \in Mints : HasCurve(m)' = HasCurve(m),
         \A m \in Roots : account'[m] \in {"absent", "system"},
         pools \subseteq pools', pools' \subseteq Coins
  PROVE  ChainInv' /\ Grows
<1>1. ChainTypes'
  BY DEF ChainTypes, ChainInv
<1>2. Grows
  BY DEF Grows
<1>3. DepthInv'
  <2>1. SUFFICES ASSUME NEW d \in Coins, HasCurve(d)'
                 PROVE  /\ depth[d] <= MaxCurveDepth
                        /\ QuoteMintOf(d) \in Coins =>
                             /\ HasCurve(QuoteMintOf(d))'
                             /\ depth[d] = depth[QuoteMintOf(d)] + 1
    BY DEF DepthInv, QuoteMintOf
  <2>2. HasCurve(d)
    BY <2>1 DEF Mints
  <2>3. QED BY <2>2 DEF ChainInv, DepthInv, Mints
<1>4. QED BY <1>1, <1>2, <1>3 DEF ChainInv

(* create_v2 stands a coin one level above its quote coin. *)
LEMMA CreateStep ==
  ASSUME ChainInv, NEW c \in Coins, CreateV2(c)
  PROVE  ChainInv' /\ Grows
<1> DEFINE q == QuoteMintOf(c)
<1>1. q \in Mints
  BY QuoteIsMint
<1>2. /\ account' = [account EXCEPT ![c] = "open"]
      /\ depth' = [depth EXCEPT ![c] = IF q \in Coins THEN depth[q] + 1 ELSE 0]
      /\ ~HasCurve(c) /\ (q \in Coins => EligibleQuote(q)) /\ pools' = pools
  BY DEF CreateV2
<1>3. ChainTypes'
  BY <1>2, RouteAssumption DEF ChainInv, ChainTypes, Mints, CurveStates
<1>4. Grows
  BY <1>2 DEF Grows, HasCurve, ChainInv, ChainTypes, Mints
<1>5. DepthInv'
  <2>1. SUFFICES ASSUME NEW d \in Coins, HasCurve(d)'
                 PROVE  /\ depth'[d] <= MaxCurveDepth
                        /\ QuoteMintOf(d) \in Coins =>
                             /\ HasCurve(QuoteMintOf(d))'
                             /\ depth'[d] = depth'[QuoteMintOf(d)] + 1
    BY DEF DepthInv, QuoteMintOf
  <2>2. CASE d = c
    <3>1. CASE q \in Coins
      <4>1. HasCurve(q) /\ depth[q] + 1 <= MaxCurveDepth /\ q # c
        BY <1>2, <3>1 DEF EligibleQuote
      <4>2. HasCurve(q)' /\ depth'[q] = depth[q]
        BY <1>1, <3>1, <4>1, <1>4 DEF Grows
      <4>3. depth'[c] = depth[q] + 1
        BY <1>2, <3>1 DEF ChainInv, ChainTypes
      <4>4. QED BY <2>2, <4>1, <4>2, <4>3
    <3>2. CASE q \notin Coins
      <4>1. depth'[c] = 0
        BY <1>2, <3>2 DEF ChainInv, ChainTypes
      <4>2. QED BY <2>2, <3>2, <4>1, RouteAssumption
    <3>3. QED BY <3>1, <3>2
  <2>3. CASE d # c
    <3>1. HasCurve(d) /\ depth'[d] = depth[d]
      BY <1>2, <2>1, <2>3 DEF HasCurve, ChainInv, ChainTypes, Mints
    <3>2. /\ depth[d] <= MaxCurveDepth
          /\ QuoteMintOf(d) \in Coins =>
               HasCurve(QuoteMintOf(d)) /\ depth[d] = depth[QuoteMintOf(d)] + 1
      BY <3>1 DEF ChainInv, DepthInv
    <3>3. QED BY <1>4, <3>1, <3>2 DEF Grows, Mints
  <2>4. QED BY <2>2, <2>3
<1>6. QED BY <1>3, <1>4, <1>5 DEF ChainInv

(* Every step of the system keeps the chain's invariant, and what exists on  *)
(* the chain stays.                                                          *)
LEMMA ChainStep ==
  ASSUME ChainInv, [Next]_vars
  PROVE  ChainInv' /\ Grows
<1>1. CASE UNCHANGED chain
  <2>1. account' = account /\ depth' = depth /\ pools' = pools
    BY <1>1 DEF chain
  <2>2. QED BY <2>1, ChainKept DEF ChainInv, ChainTypes, HasCurve
<1>2. ASSUME NEW m \in Mints, FundCurveAddress(m) PROVE ChainInv' /\ Grows
  <2>1. account' = [account EXCEPT ![m] = "system"] /\ account[m] = "absent"
        /\ depth' = depth /\ pools' = pools
    BY <1>2 DEF FundCurveAddress
  <2>2. QED BY <2>1, ChainKept DEF ChainInv, ChainTypes, CurveStates, HasCurve, Mints
<1>3. ASSUME NEW c \in Coins, CreateV2(c) PROVE ChainInv' /\ Grows
  BY <1>3, CreateStep
<1>4. ASSUME NEW c \in Coins, Complete(c) PROVE ChainInv' /\ Grows
  <2>1. account' = [account EXCEPT ![c] = "complete"] /\ account[c] = "open"
        /\ depth' = depth /\ pools' = pools
    BY <1>4 DEF Complete
  <2>2. QED BY <2>1, ChainKept, RouteAssumption
            DEF ChainInv, ChainTypes, CurveStates, HasCurve, Mints
<1>5. ASSUME NEW c \in Coins, MigrateV2(c) PROVE ChainInv' /\ Grows
  <2>1. account' = account /\ depth' = depth /\ pools' = pools \cup {c}
    BY <1>5 DEF MigrateV2
  <2>2. QED BY <2>1, ChainKept DEF ChainInv, ChainTypes, HasCurve
<1>6. ASSUME NEW u \in Users, Land(u) PROVE ChainInv' /\ Grows
  <2>1. PICK done \in SUBSET (CurveCoins(req[u]) \cap Completable) :
          account' = [m \in Mints |-> IF m \in done THEN "complete" ELSE account[m]]
    BY <1>6 DEF Land
  <2>2. \A c \in CurveCoins(req[u]) : account[c] = "open"
    BY <1>6 DEF Land, Executable
  <2>3. depth' = depth /\ pools' = pools
    BY <1>6 DEF Land
  <2>4. \A m \in done : m \in Coins /\ account[m] = "open"
    BY <2>1, <2>2, RouteAssumption
  <2>5. account' \in [Mints -> CurveStates] /\ \A m \in Mints : HasCurve(m)' = HasCurve(m)
    BY <2>1, <2>4 DEF ChainInv, ChainTypes, CurveStates, HasCurve
  <2>6. \A m \in Roots : account'[m] \in {"absent", "system"}
    BY <2>1, <2>4, RouteAssumption DEF ChainInv, ChainTypes, Mints
  <2>7. QED BY <2>3, <2>5, <2>6, ChainKept DEF ChainInv, ChainTypes
<1>7. QED
  BY <1>1, <1>2, <1>3, <1>4, <1>5, <1>6
     DEF Next, Request, Walk, FetchVenues, FetchBalances, RequestFails, Dropped, vars, chain

-----------------------------------------------------------------------------
(* The walk *)

(* A request not yet made, or landed. *)
LEMMA IdleInv == RequestInv(Idle) /\ RequestInv([Idle EXCEPT !.phase = "landed"])
<1>1. <<>> \in Seq(Venue) /\ <<>> \in Seq(Hop) /\ Len(<<>>) = 0 /\ MAX_HOPS \in Nat
  BY RouteAssumption
<1>2. Idle \in Requests /\ [Idle EXCEPT !.phase = "landed"] \in Requests
  BY <1>1 DEF Requests, Idle, Phases, Errors
<1> QED BY <1>1, <1>2 DEF RequestInv, Typed, Walking, Returning, Reading, Building, Idle

(* A failed request keeps nothing of its route. *)
LEMMA FailedInv ==
  ASSUME NEW r \in Requests, NEW e \in Errors
  PROVE  RequestInv(Failed(r, e))
<1>1. /\ r.out \in Coins \cup {NONE} /\ r.stop \in Mints \cup {NONE}
      /\ <<>> \in Seq(Venue) /\ <<>> \in Seq(Hop) /\ Len(<<>>) = 0 /\ MAX_HOPS \in Nat
  BY RouteAssumption DEF Requests
<1>2. Failed(r, e) \in Requests /\ Failed(r, e).phase = "failed" /\ Failed(r, e).venues = <<>>
  BY <1>1 DEF Failed, Idle, Requests, Phases
<1> QED BY <1>1, <1>2 DEF RequestInv, Typed, Walking, Returning, Reading, Building

(* Leaving the loop at a root, at stop_at or at MAX_HOPS returns a chain.    *)
LEMMA ReturnedInv ==
  ASSUME NEW r \in Requests, r.out \in Coins, r.mint \in Mints,
         Chained(r.venues, r.out, r.mint), Len(r.venues) <= MAX_HOPS,
         (r.venues # <<>> /\ MaxCurveDepth < MAX_HOPS) => r.mint \in Roots \cup {r.stop}
  PROVE  RequestInv(Returned(r))
<1>1. CASE r.venues = <<>> \/ (r.stop # NONE /\ r.mint # r.stop)
  BY <1>1, FailedInv DEF Returned, Errors
<1>2. CASE ~(r.venues = <<>> \/ (r.stop # NONE /\ r.mint # r.stop))
  <2> DEFINE v == r.venues
             n == [r EXCEPT !.phase = "routed", !.venues = Reverse(v)]
  <2>1. Returned(r) = n
    BY <1>2 DEF Returned
  <2>2. /\ v \in Seq(Venue) /\ Reverse(v) \in Seq(Venue) /\ Len(Reverse(v)) = Len(v)
        /\ Reverse(Reverse(v)) = v /\ Reverse(v) # <<>>
    <3>1. v \in Seq(Venue)
      BY DEF Requests
    <3> QED BY <1>2, <3>1, Reversed
  <2>3. /\ n \in Requests /\ n.phase = "routed" /\ n.venues = Reverse(v)
        /\ n.out = r.out /\ n.mint = r.mint /\ n.stop = r.stop
    <3> DEFINE w == Reverse(v)
    <3>1. w \in Seq(Venue)
      BY <2>2
    <3> HIDE DEF w
    <3>2. LET k == [r EXCEPT !.phase = "routed", !.venues = w]
          IN  /\ k \in Requests /\ k.phase = "routed" /\ k.venues = w
              /\ k.out = r.out /\ k.mint = r.mint /\ k.stop = r.stop
      BY <3>1 DEF Requests, Phases
    <3> QED BY <3>2 DEF w
  <2> HIDE DEF n
  <2>4. Returning(n)
    BY <1>2, <2>2, <2>3 DEF Returning
  <2> QED BY <2>1, <2>2, <2>3, <2>4 DEF RequestInv, Typed, Walking, Reading, Building
<1> QED BY <1>1, <1>2

(* A walk of MAX_HOPS venues has left the coins behind, if no coin stands    *)
(* that deep.                                                                *)
LEMMA EndsAtRoot ==
  ASSUME ChainInv, MaxCurveDepth < MAX_HOPS, NEW w \in Seq(Venue), NEW out \in Coins, NEW mint,
         Chained(w, out, mint), Len(w) = MAX_HOPS
  PROVE  mint \notin Coins
<1> DEFINE n == Len(w)
           last == w[n].coin
<1>1. n \in Nat /\ n = MAX_HOPS /\ n > 0 /\ MAX_HOPS \in Nat /\ MaxCurveDepth \in Nat
  BY RouteAssumption
<1>2. 1 \in 1 .. n /\ n \in 1 .. n /\ w # <<>>
  BY <1>1
<1>3. w[1].coin = out /\ HasCurve(w[1].coin)
  BY <1>2 DEF Chained
<1>4. HasCurve(last) /\ depth[last] + n = depth[out] + 1 /\ QuoteMintOf(last) = mint
  BY <1>2 DEF Chained
<1>5. last \in Coins
  <2>1. w[n] \in Venue
    BY <1>1, <1>2
  <2> QED BY <2>1 DEF Venue
<1> HIDE DEF last, n
<1> SUFFICES ASSUME mint \in Coins PROVE FALSE
  OBVIOUS
<1>6. depth[last] = depth[mint] + 1 /\ depth[out] <= MaxCurveDepth
  BY <1>3, <1>4, <1>5 DEF ChainInv, DepthInv
<1>7. depth[last] \in Nat /\ depth[mint] \in Nat /\ depth[out] \in Nat
  BY <1>5 DEF ChainInv, ChainTypes
<1> DEFINE a == depth[last]
           b == depth[mint]
           c == depth[out]
<1>8. /\ a \in Nat /\ b \in Nat /\ c \in Nat
      /\ a + n = c + 1 /\ a = b + 1 /\ c <= MaxCurveDepth
  BY <1>4, <1>6, <1>7
<1> HIDE DEF a, b, c
<1> QED BY <1>1, <1>8

(* The loop head: within the depth bound MAX_HOPS is reached only at a root. *)
LEMMA LoopHeadInv ==
  ASSUME ChainInv, NEW r \in Requests, r.out \in Coins, r.mint \in Mints,
         Chained(r.venues, r.out, r.mint), Len(r.venues) <= MAX_HOPS
  PROVE  RequestInv(LoopHead(r))
<1>1. CASE r.mint # r.stop /\ Len(r.venues) < MAX_HOPS
  <2> DEFINE n == [r EXCEPT !.phase = "walking"]
  <2>1. /\ n \in Requests /\ n.phase = "walking" /\ n.venues = r.venues
        /\ n.out = r.out /\ n.mint = r.mint
    BY DEF Requests, Phases
  <2>2. LoopHead(r) = n
    BY <1>1 DEF LoopHead
  <2> HIDE DEF n
  <2> QED BY <1>1, <2>1, <2>2 DEF RequestInv, Typed, Walking, Returning, Reading, Building
<1>2. CASE r.mint = r.stop
  BY <1>2, ReturnedInv DEF LoopHead
<1>3. CASE r.mint # r.stop /\ ~(Len(r.venues) < MAX_HOPS)
  <2> DEFINE w == r.venues
  <2>1. w \in Seq(Venue) /\ Len(w) = MAX_HOPS
    BY <1>3, RouteAssumption DEF Requests
  <2>2. MaxCurveDepth < MAX_HOPS => r.mint \in Roots
    <3> HIDE DEF w
    <3>1. Chained(w, r.out, r.mint)
      BY DEF w
    <3> QED BY <2>1, <3>1, EndsAtRoot DEF Mints
  <2> QED BY <1>3, <2>2, ReturnedInv DEF LoopHead
<1> QED BY <1>1, <1>2, <1>3

(* One more venue at the end of a walk. *)
LEMMA ChainedAppend ==
  ASSUME ChainInv, NEW w \in Seq(Venue), NEW out \in Coins, NEW mint \in Coins,
         Chained(w, out, mint), HasCurve(mint), NEW v \in Venue, v.coin = mint
  PROVE  Chained(Append(w, v), out, QuoteMintOf(mint))
<1> DEFINE n == Len(w)
           x == Append(w, v)
<1>1. /\ n \in Nat /\ Len(x) = n + 1 /\ x # <<>> /\ x[n + 1] = v
      /\ \A i \in 1 .. n : x[i] = w[i]
  OBVIOUS
<1>2. /\ n = 0 => mint = out
      /\ n # 0 => w[1].coin = out
      /\ \A i \in 1 .. n : /\ HasCurve(w[i].coin) /\ depth[w[i].coin] + i = depth[out] + 1
                           /\ QuoteMintOf(w[i].coin) = IF i = n THEN mint ELSE w[i + 1].coin
  BY <1>1 DEF Chained
<1>3. \A i \in 1 .. n : w[i].coin \in Coins
  <2>1. \A i \in 1 .. n : w[i] \in Venue
    OBVIOUS
  <2> QED BY <2>1 DEF Venue
<1> HIDE DEF n, x
<1>4. x[1].coin = out
  <2>1. CASE n = 0
    BY <1>1, <1>2, <2>1
  <2>2. CASE n # 0
    BY <1>1, <1>2, <2>2
  <2> QED BY <2>1, <2>2
<1>5. depth[mint] + (n + 1) = depth[out] + 1
  <2>1. CASE n = 0
    <3>1. mint = out /\ depth[mint] \in Nat
      BY <1>2, <2>1 DEF ChainInv, ChainTypes
    <3> QED BY <2>1, <3>1
  <2>2. CASE n # 0
    <3> DEFINE last == w[n].coin
    <3>1. n \in 1 .. n
      BY <1>1, <2>2
    <3>2. /\ HasCurve(last) /\ last \in Coins /\ depth[last] + n = depth[out] + 1
          /\ QuoteMintOf(last) = mint
      BY <1>2, <1>3, <3>1
    <3> HIDE DEF last
    <3>3. depth[last] = depth[mint] + 1
      BY <3>2 DEF ChainInv, DepthInv
    <3>4. depth[mint] \in Nat /\ depth[out] \in Nat
      BY DEF ChainInv, ChainTypes
    <3> DEFINE a == depth[mint]
               b == depth[out]
    <3>5. a \in Nat /\ b \in Nat /\ n \in Nat /\ (a + 1) + n = b + 1
      BY <1>1, <3>2, <3>3, <3>4
    <3> HIDE DEF a, b
    <3>6. a + (n + 1) = b + 1
      BY <3>5
    <3> QED BY <3>6 DEF a, b
  <2> QED BY <2>1, <2>2
<1>6. ASSUME NEW i \in 1 .. Len(x)
      PROVE  /\ HasCurve(x[i].coin) /\ depth[x[i].coin] + i = depth[out] + 1
             /\ QuoteMintOf(x[i].coin)
                  = IF i = Len(x) THEN QuoteMintOf(mint) ELSE x[i + 1].coin
  <2>1. CASE i = n + 1
    BY <1>1, <1>5, <2>1
  <2>2. CASE i # n + 1
    <3>1. i \in 1 .. n
      BY <1>1, <2>2
    <3>2. x[i] = w[i] /\ i # Len(x)
      BY <1>1, <2>2, <3>1
    <3>3. x[i + 1].coin = IF i = n THEN mint ELSE w[i + 1].coin
      <4>1. CASE i = n
        BY <1>1, <4>1
      <4>2. CASE i # n
        <5>1. i + 1 \in 1 .. n
          BY <1>1, <3>1, <4>2
        <5> QED BY <1>1, <4>2, <5>1
      <4> QED BY <4>1, <4>2
    <3> QED BY <1>2, <3>1, <3>2, <3>3
  <2> QED BY <2>1, <2>2
<1> QED BY <1>1, <1>4, <1>6 DEF Chained, x

(* One fetch of the walk: the curve read gives a venue and the next mint. *)
LEMMA HopInv ==
  ASSUME ChainInv, NEW r, RequestInv(r), r.phase = "walking"
  PROVE  RequestInv(HopOf(r))
<1>1. /\ r \in Requests /\ r.out \in Coins /\ r.mint \in Mints
      /\ Chained(r.venues, r.out, r.mint)
      /\ Len(r.venues) < MAX_HOPS /\ MAX_HOPS \in Nat /\ Len(r.venues) \in Nat
      /\ r.venues \in Seq(Venue)
  BY RouteAssumption DEF RequestInv, Typed, Walking, Requests
<1>2. CASE ~HasCurve(r.mint)
  <2>1. r.venues # <<>> => r.mint \in Roots
    <3> SUFFICES ASSUME r.venues # <<>>, r.mint \in Coins
                 PROVE  FALSE
      BY <1>1 DEF Mints
    <3> DEFINE n == Len(r.venues)
               last == r.venues[n].coin
    <3>1. n \in 1 .. n /\ r.venues[n] \in Venue
      BY <1>1
    <3>2. HasCurve(last) /\ QuoteMintOf(last) = r.mint /\ last \in Coins
      BY <1>1, <3>1 DEF Chained, Venue
    <3> HIDE DEF last
    <3> QED BY <1>2, <3>2 DEF ChainInv, DepthInv
  <2>2. QED BY <1>1, <1>2, <2>1, ReturnedInv DEF HopOf
<1>3. CASE HasCurve(r.mint)
  <2> DEFINE v == VenueAt(r.mint)
             w == Append(r.venues, v)
             q == QuoteMintOf(r.mint)
             n == [r EXCEPT !.venues = w, !.mint = q]
  <2>1. r.mint \in Coins
    BY <1>1, <1>3 DEF HasCurve, ChainInv, ChainTypes, Mints
  <2>2. v \in Venue /\ v.coin = r.mint
    BY <2>1 DEF VenueAt, PoolVenue, CurveVenue, Venue
  <2>3. HopOf(r) = LoopHead(n)
    BY <1>3 DEF HopOf
  <2> HIDE DEF v
  <2>4. Chained(w, r.out, q)
    BY <1>1, <1>3, <2>1, <2>2, ChainedAppend
  <2>5. w \in Seq(Venue) /\ Len(w) <= MAX_HOPS
    BY <1>1, <2>2
  <2>6. q \in Mints
    BY <2>1, QuoteIsMint
  <2> HIDE DEF w, q
  <2>7. n \in Requests /\ n.venues = w /\ n.mint = q /\ n.out = r.out
    BY <1>1, <2>5, <2>6 DEF Requests
  <2> HIDE DEF n
  <2> QED BY <1>1, <2>3, <2>4, <2>5, <2>6, <2>7, LoopHeadInv
<1> QED BY <1>2, <1>3

-----------------------------------------------------------------------------
(* The requests *)

(* What others do on chain disturbs no request. *)
LEMMA RequestKept ==
  ASSUME Grows, NEW u \in Users, RequestInv(req[u]), req'[u] = req[u]
  PROVE  RequestInv(req[u])'
<1> DEFINE r == req[u]
<1>1. r \in Requests /\ r.venues \in Seq(Venue) /\ r.hops \in Seq(Hop)
  BY DEF RequestInv, Typed, Requests
<1>2. ASSUME NEW w \in Seq(Venue), r.out \in Coins, Chained(w, r.out, r.mint)
      PROVE  Chained(w, r.out, r.mint)'
  <2> SUFFICES ASSUME NEW i \in 1 .. Len(w)
               PROVE  HasCurve(w[i].coin)' /\ depth'[w[i].coin] + i = depth'[r.out] + 1
    BY <1>2 DEF Chained, QuoteMintOf
  <2>1. w[i].coin \in Coins /\ HasCurve(w[i].coin) /\ depth[w[i].coin] + i = depth[r.out] + 1
    <3>1. w[i] \in Venue
      OBVIOUS
    <3> QED BY <1>2, <3>1 DEF Chained, Venue
  <2>2. HasCurve(r.out)
    <3>1. w # <<>> /\ 1 \in 1 .. Len(w)
      OBVIOUS
    <3> QED BY <1>2, <3>1 DEF Chained
  <2> QED BY <1>2, <2>1, <2>2 DEF Grows, Mints
<1>3. Typed(r)'
  BY DEF RequestInv, Typed
<1>4. Walking(r)'
  BY <1>1, <1>2 DEF RequestInv, Walking
<1>5. Returning(r)'
  <2>1. Reverse(r.venues) \in Seq(Venue)
    BY <1>1, Reversed
  <2> QED BY <1>2, <2>1 DEF RequestInv, Returning
<1>6. Reading(r)'
  BY DEF RequestInv, Reading, Grows, PathVenues
<1>7. Building(r)'
  BY DEF RequestInv, Building
<1> QED BY <1>3, <1>4, <1>5, <1>6, <1>7 DEF RequestInv

(* A step of user u alone. *)
LEMMA UserStep ==
  ASSUME Inv, UNCHANGED chain, NEW u \in Users, NEW n, RequestInv(n),
         req' = [req EXCEPT ![u] = n]
  PROVE  Inv'
<1>1. account' = account /\ depth' = depth /\ pools' = pools
  BY DEF chain
<1>2. ChainInv' /\ Grows
  BY <1>1, ChainKept DEF Inv, ChainInv, ChainTypes, HasCurve
<1>3. req'[u] = n /\ req' \in [Users -> Requests]
  BY DEF Inv, RequestInv, Typed
<1>4. RequestInv(req[u])'
  BY <1>1, <1>3 DEF RequestInv, Typed, Walking, Returning, Reading, Building, Chained, HasCurve,
                    QuoteMintOf, PathVenues, RouteSupported, PoolHopSupported,
                    CurveHopSupported, RecipientOf
<1>5. \A v \in Users \ {u} : RequestInv(req[v])'
  BY <1>2, RequestKept DEF Inv
<1>6. QED BY <1>2, <1>3, <1>4, <1>5 DEF Inv

(* Before anything is created nothing is to be kept. *)
LEMMA InitInv == Init => Inv
<1> SUFFICES ASSUME Init PROVE Inv
  OBVIOUS
<1>1. ChainInv
  BY RouteAssumption
     DEF Init, ChainInv, ChainTypes, CurveStates, DepthInv, HasCurve, Mints
<1>2. RequestInv(Idle) /\ Idle \in Requests
  BY IdleInv DEF RequestInv, Typed
<1>3. req \in [Users -> Requests] /\ \A u \in Users : req[u] = Idle
  BY <1>2 DEF Init
<1> QED BY <1>1, <1>2, <1>3 DEF Inv

(* Round 1 pairs each venue with the state of its curve account. *)
LEMMA HopsRead ==
  ASSUME ChainTypes, NEW v \in Seq(Venue)
  PROVE  [i \in DOMAIN v |-> [kind |-> v[i].kind, coin |-> v[i].coin,
                              state |-> account[v[i].coin]]] \in Seq(Hop)
<1>1. ASSUME NEW i \in 1 .. Len(v)
      PROVE  [kind |-> v[i].kind, coin |-> v[i].coin, state |-> account[v[i].coin]] \in Hop
  <2>1. v[i] \in Venue
    OBVIOUS
  <2>2. v[i].kind \in {"Pool", "Curve"} /\ v[i].coin \in Coins
    BY <2>1 DEF Venue
  <2>3. account[v[i].coin] \in CurveStates
    BY <2>2 DEF ChainTypes, Mints
  <2>4. QED BY <2>2, <2>3 DEF Hop, CurveStates
<1>2. DOMAIN v = 1 .. Len(v) /\ Len(v) \in Nat
  OBVIOUS
<1> DEFINE h == [i \in 1 .. Len(v) |-> [kind |-> v[i].kind, coin |-> v[i].coin,
                                        state |-> account[v[i].coin]]]
<1>3. h \in [1 .. Len(v) -> Hop]
  BY <1>1
<1>4. h \in Seq(Hop)
  BY <1>2, <1>3
<1>5. QED BY <1>2, <1>4

(* The venues of a returned route, in path order, form a sequence. *)
LEMMA PathVenuesType ==
  ASSUME NEW r \in Requests
  PROVE  PathVenues(r) \in Seq(Venue) /\ Len(PathVenues(r)) = Len(r.venues)
<1>1. r.venues \in Seq(Venue)
  BY DEF Requests
<1> QED BY <1>1, Reversed DEF PathVenues

(* Round 1: every venue is read, and the route connects. *)
LEMMA FetchVenuesInv ==
  ASSUME Inv, NEW u \in Users, FetchVenues(u)
  PROVE  Inv'
<1> DEFINE r == req[u]
           venues == PathVenues(r)
           hops == [i \in DOMAIN venues |->
                      [kind |-> venues[i].kind, coin |-> venues[i].coin,
                       state |-> account[venues[i].coin]]]
           route == MultiHopRoute(PathMint(r), hops)
           missing == \E i \in DOMAIN venues : venues[i].kind = "Pool" /\ venues[i].coin \notin pools
           n == [r EXCEPT !.phase = "fetched", !.hops = hops]
<1>1. /\ ChainInv /\ r \in Requests /\ Len(r.venues) <= MAX_HOPS /\ r.phase = "routed"
      /\ r.out \in Coins /\ r.mint \in Mints /\ r.venues # <<>>
      /\ Chained(Reverse(r.venues), r.out, r.mint)
      /\ MaxCurveDepth < MAX_HOPS => r.mint \in Roots \cup {r.stop}
  BY DEF FetchVenues, Inv, RequestInv, Typed, Returning
<1>2. venues \in Seq(Venue) /\ Len(venues) = Len(r.venues) /\ DOMAIN venues = 1 .. Len(venues)
  <2> HIDE DEF r
  <2>1. venues \in Seq(Venue) /\ Len(venues) = Len(r.venues)
    BY <1>1, PathVenuesType
  <2> HIDE DEF venues
  <2> QED BY <2>1
<1>3. hops \in Seq(Hop) /\ Len(hops) = Len(venues)
  <2> HIDE DEF venues
  <2>1. hops \in Seq(Hop)
    BY <1>1, <1>2, HopsRead DEF ChainInv
  <2>2. DOMAIN hops = 1 .. Len(venues) /\ Len(venues) \in Nat
    BY <1>2
  <2> HIDE DEF hops
  <2> QED BY <2>1, <2>2
<1>4. \A i \in 1 .. Len(hops) : hops[i].coin = venues[i].coin /\ hops[i].kind = venues[i].kind
  <2>1. \A i \in 1 .. Len(venues) : hops[i].coin = venues[i].coin /\ hops[i].kind = venues[i].kind
    BY <1>2
  <2> HIDE DEF hops, venues
  <2> QED BY <1>3, <2>1
<1>5. \/ missing /\ req' = [req EXCEPT ![u] = Failed(r, "AccountNotFound")]
      \/ route.err # OK
      \/ ~missing /\ req' = [req EXCEPT ![u] = n]
  BY DEF FetchVenues
<1>6. UNCHANGED chain
  BY DEF FetchVenues
<1> HIDE DEF hops
<1>7. route = [err |-> OK, mint |-> PathEnd(r), dirs |-> {r.is_buy}]
  <2> HIDE DEF r
  <2>1. Len(hops) = Len(r.venues)
    BY <1>2, <1>3
  <2>2. \A i \in 1 .. Len(hops) : hops[i].coin = PathVenues(r)[i].coin
    BY <1>4
  <2> HIDE DEF venues
  <2> QED BY <1>1, <1>3, <2>1, <2>2, Connects
<1>8. /\ n \in Requests /\ n.phase = "fetched" /\ n.hops = hops /\ n.venues = r.venues
      /\ n.out = r.out /\ n.mint = r.mint /\ n.stop = r.stop /\ n.is_buy = r.is_buy
  <2> HIDE DEF r
  <2> QED BY <1>1, <1>3 DEF Requests, Phases
<1>9. CASE ~missing /\ req' = [req EXCEPT ![u] = n]
  <2>1. \A i \in 1 .. Len(venues) : venues[i].kind = "Pool" => venues[i].coin \in pools
    BY <1>2, <1>9
  <2>2. PathVenues(n) = venues
    BY <1>8 DEF PathVenues
  <2> HIDE DEF n, r, venues
  <2>3. Returning(n) /\ Typed(n)
    BY <1>1, <1>8 DEF Returning, Typed
  <2>4. Reading(n)
    BY <1>2, <1>3, <1>4, <1>8, <2>1, <2>2 DEF Reading
  <2>5. RequestInv(n)
    BY <1>8, <2>3, <2>4 DEF RequestInv, Walking, Building
  <2> QED BY <1>6, <1>9, <2>5, UserStep
<1>10. CASE req' = [req EXCEPT ![u] = Failed(r, "AccountNotFound")]
  <2>1. RequestInv(Failed(r, "AccountNotFound"))
    BY <1>1, FailedInv DEF Errors
  <2> QED BY <1>6, <1>10, <2>1, UserStep
<1> QED BY <1>5, <1>7, <1>9, <1>10

(* The route a fetched or built request holds connects. *)
LEMMA HopsConnect ==
  ASSUME ChainInv, NEW r, RequestInv(r), r.phase \in {"fetched", "built"}
  PROVE  MultiHopRoute(PathMint(r), r.hops)
           = [err |-> OK, mint |-> PathEnd(r), dirs |-> {r.is_buy}]
<1>1. /\ r \in Requests /\ r.out \in Coins /\ r.venues # <<>>
      /\ Chained(Reverse(r.venues), r.out, r.mint)
      /\ r.hops \in Seq(Hop) /\ Len(r.hops) = Len(r.venues)
      /\ \A i \in 1 .. Len(r.hops) : r.hops[i].coin = PathVenues(r)[i].coin
  BY DEF RequestInv, Typed, Returning, Reading, Requests
<1> QED BY <1>1, Connects

(* Round 2: the swap is built when every venue supports its leg. *)
LEMMA FetchBalancesInv ==
  ASSUME Inv, NEW u \in Users, FetchBalances(u)
  PROVE  Inv'
<1> DEFINE r == req[u]
           n == [r EXCEPT !.phase = "built", !.recipient = RecipientOf(r.hops, r.is_buy)]
<1>1. ChainInv /\ RequestInv(r) /\ r \in Requests /\ r.phase = "fetched" /\ UNCHANGED chain
  BY DEF FetchBalances, Inv, RequestInv, Typed
<1>2. MultiHopRoute(PathMint(r), r.hops).dirs = {r.is_buy}
  <2> HIDE DEF r
  <2>1. MultiHopRoute(PathMint(r), r.hops)
          = [err |-> OK, mint |-> PathEnd(r), dirs |-> {r.is_buy}]
    BY <1>1, HopsConnect
  <2> QED BY <2>1
<1>3. \/ req' = [req EXCEPT ![u] = Failed(r, "VenueNotSupported")]
      \/ RouteSupported(r.hops, r.is_buy) /\ req' = [req EXCEPT ![u] = n]
  BY <1>2 DEF FetchBalances
<1>4. CASE req' = [req EXCEPT ![u] = Failed(r, "VenueNotSupported")]
  <2>1. RequestInv(Failed(r, "VenueNotSupported"))
    BY <1>1, FailedInv DEF Errors
  <2> QED BY <1>1, <1>4, <2>1, UserStep
<1>5. CASE RouteSupported(r.hops, r.is_buy) /\ req' = [req EXCEPT ![u] = n]
  <2>1. RecipientOf(r.hops, r.is_buy) \in {"none", "Global", "GlobalConfig"}
    BY DEF RecipientOf
  <2>2. /\ n \in Requests /\ n.phase = "built" /\ n.hops = r.hops /\ n.venues = r.venues
        /\ n.out = r.out /\ n.mint = r.mint /\ n.stop = r.stop /\ n.is_buy = r.is_buy
        /\ n.recipient = RecipientOf(r.hops, r.is_buy)
    BY <1>1, <2>1 DEF Requests, Phases
  <2>3. PathVenues(n) = PathVenues(r)
    BY <2>2 DEF PathVenues
  <2> HIDE DEF n, r
  <2>4. RequestInv(n)
    BY <1>1, <1>5, <2>2, <2>3
       DEF RequestInv, Typed, Walking, Returning, Reading, Building
  <2> QED BY <1>1, <1>5, <2>4, UserStep
<1> QED BY <1>3, <1>4, <1>5

(* A new request stands at the coin it is for. *)
LEMMA Asked ==
  ASSUME NEW out \in Coins, NEW stop \in Mints \cup {NONE}, NEW is_buy \in BOOLEAN
  PROVE  LET r == [Idle EXCEPT !.out = out, !.stop = stop, !.is_buy = is_buy, !.mint = out]
         IN  /\ r \in Requests /\ r.out \in Coins /\ r.mint \in Mints
             /\ r.venues = <<>> /\ Len(r.venues) <= MAX_HOPS
             /\ Chained(r.venues, r.out, r.mint)
<1> DEFINE r == [Idle EXCEPT !.out = out, !.stop = stop, !.is_buy = is_buy, !.mint = out]
           idle == Idle
<1>1. idle \in Requests /\ Len(idle.venues) <= MAX_HOPS /\ idle.venues = <<>>
  BY IdleInv DEF RequestInv, Typed, Idle
<1>2. out \in Coins \cup {NONE} /\ out \in Mints \cup {NONE} /\ out \in Mints
  BY DEF Mints
<1> HIDE DEF idle
<1>3. LET k == [idle EXCEPT !.out = out, !.stop = stop, !.is_buy = is_buy, !.mint = out]
      IN  k \in Requests /\ k.out = out /\ k.mint = out /\ k.venues = idle.venues
  BY <1>1, <1>2 DEF Requests
<1>4. r \in Requests /\ r.out = out /\ r.mint = out /\ r.venues = <<>> /\ Len(r.venues) <= MAX_HOPS
  BY <1>1, <1>3 DEF idle
<1> HIDE DEF r
<1>5. Chained(r.venues, r.out, r.mint)
  BY <1>4 DEF Chained
<1> QED BY <1>2, <1>4, <1>5 DEF r

(* Every step keeps Inv. *)
LEMMA StepInv ==
  ASSUME Inv, [Next]_vars
  PROVE  Inv'
<1>1. ChainInv' /\ Grows
  BY ChainStep DEF Inv
<1>2. CASE UNCHANGED req
  BY <1>1, <1>2, RequestKept DEF Inv
<1>3. ASSUME NEW u \in Users, NEW out \in Coins, NEW stop \in Mints \cup {NONE},
             NEW is_buy \in BOOLEAN, Request(u, out, stop, is_buy)
      PROVE  Inv'
  <2> DEFINE r == [Idle EXCEPT !.out = out, !.stop = stop, !.is_buy = is_buy, !.mint = out]
  <2>1. /\ r \in Requests /\ r.out \in Coins /\ r.mint \in Mints /\ Len(r.venues) <= MAX_HOPS
        /\ Chained(r.venues, r.out, r.mint)
    BY Asked
  <2> HIDE DEF r
  <2>3. RequestInv(LoopHead(r))
    BY <2>1, LoopHeadInv DEF Inv
  <2>4. req' = [req EXCEPT ![u] = LoopHead(r)] /\ UNCHANGED chain
    BY <1>3 DEF Request, r
  <2> QED BY <2>3, <2>4, UserStep
<1>4. ASSUME NEW u \in Users, Walk(u) PROVE Inv'
  <2>1. RequestInv(HopOf(req[u]))
    BY <1>4, HopInv DEF Walk, Inv
  <2>2. req' = [req EXCEPT ![u] = HopOf(req[u])] /\ UNCHANGED chain
    BY <1>4 DEF Walk
  <2> QED BY <2>1, <2>2, UserStep
<1>5. ASSUME NEW u \in Users, RequestFails(u) \/ Dropped(u) PROVE Inv'
  <2>1. PICK e \in Errors : req' = [req EXCEPT ![u] = Failed(req[u], e)] /\ UNCHANGED chain
    BY <1>5 DEF RequestFails, Dropped, Errors
  <2>2. RequestInv(Failed(req[u], e))
    BY FailedInv DEF Inv, RequestInv, Typed
  <2> QED BY <2>1, <2>2, UserStep
<1>6. ASSUME NEW u \in Users, Land(u) PROVE Inv'
  <2> DEFINE landed == [Idle EXCEPT !.phase = "landed"]
  <2>1. req' = [req EXCEPT ![u] = landed]
    BY <1>6 DEF Land
  <2>2. landed \in Requests /\ RequestInv(landed)'
    <3>1. /\ landed \in Requests /\ landed.phase = "landed" /\ landed.venues = <<>>
          /\ Len(landed.venues) <= MAX_HOPS
      BY IdleInv DEF RequestInv, Typed, Idle
    <3> HIDE DEF landed
    <3> QED BY <3>1 DEF RequestInv, Typed, Walking, Returning, Reading, Building
  <2> HIDE DEF landed
  <2>3. /\ req' \in [Users -> Requests] /\ req'[u] = landed
        /\ \A v \in Users \ {u} : req'[v] = req[v]
    BY <2>1, <2>2 DEF Inv
  <2>4. \A v \in Users \ {u} : RequestInv(req[v])'
    BY <1>1, <2>3, RequestKept DEF Inv
  <2>5. RequestInv(req[u])'
    BY <2>2, <2>3
  <2> QED BY <1>1, <2>3, <2>4, <2>5 DEF Inv
<1> QED
  BY <1>2, <1>3, <1>4, <1>5, <1>6, FetchVenuesInv, FetchBalancesInv
     DEF Next, FundCurveAddress, CreateV2, Complete, MigrateV2, vars

-----------------------------------------------------------------------------
(* Built swaps *)

(* Path order against walk order. *)
LEMMA PathOrder ==
  ASSUME NEW r \in Requests, r.venues # <<>>
  PROVE  LET w == Reverse(r.venues)
             n == Len(r.venues)
         IN  /\ n \in Nat /\ n > 0 /\ w \in Seq(Venue) /\ Len(w) = n
             /\ \A i \in 1 .. n : PathVenues(r)[i] = w[IF r.is_buy THEN (n - i) + 1 ELSE i]
<1> DEFINE v == r.venues
           w == Reverse(v)
           n == Len(v)
<1>1. v \in Seq(Venue) /\ v # <<>>
  BY DEF Requests
<1>2. PathVenues(r) = IF r.is_buy THEN v ELSE w
  BY DEF PathVenues
<1> HIDE DEF v
<1>3. /\ w \in Seq(Venue) /\ Len(w) = n /\ n \in Nat
      /\ \A i \in 1 .. n : w[i] = v[(n - i) + 1]
  BY <1>1, Reversed
<1>4. n > 0
  BY <1>1
<1> HIDE DEF w, n
<1>5. \A i \in 1 .. n : (n - i) + 1 \in 1 .. n /\ (n - ((n - i) + 1)) + 1 = i
  BY <1>3
<1>6. \A i \in 1 .. n : v[i] = w[(n - i) + 1]
  BY <1>3, <1>5
<1>7. \A i \in 1 .. n : PathVenues(r)[i] = w[IF r.is_buy THEN (n - i) + 1 ELSE i]
  BY <1>2, <1>6
<1> QED BY <1>3, <1>4, <1>7 DEF v, w, n

(* Only the last venue of a walk is quoted in the mint the walk ends at: a   *)
(* coin further up that is quoted in it would stand at another depth.        *)
LEMMA LastOnly ==
  ASSUME ChainInv, NEW w \in Seq(Venue), NEW out \in Coins, NEW mint,
         Chained(w, out, mint),
         NEW k \in 1 .. Len(w), QuoteMintOf(w[k].coin) = mint
  PROVE  k = Len(w)
<1> DEFINE n == Len(w)
<1>1. n \in Nat /\ n \in 1 .. n
  OBVIOUS
<1>2. \A i \in 1 .. n : w[i].coin \in Coins
  <2>1. \A i \in 1 .. n : w[i] \in Venue
    OBVIOUS
  <2> QED BY <2>1 DEF Venue
<1> SUFFICES ASSUME k # n PROVE FALSE
  OBVIOUS
<1>3. k + 1 \in 1 .. n
  BY <1>1
<1>4. w[k + 1].coin = mint /\ depth[w[k + 1].coin] + (k + 1) = depth[out] + 1
  BY <1>3 DEF Chained
<1>5. /\ HasCurve(w[n].coin) /\ QuoteMintOf(w[n].coin) = mint
      /\ depth[w[n].coin] + n = depth[out] + 1
  BY <1>1 DEF Chained
<1>6. mint \in Coins
  BY <1>2, <1>3, <1>4
<1>7. depth[w[n].coin] = depth[mint] + 1
  BY <1>1, <1>2, <1>5, <1>6 DEF ChainInv, DepthInv
<1>8. depth[mint] \in Nat /\ depth[out] \in Nat
  BY <1>6 DEF ChainInv, ChainTypes
<1> DEFINE a == depth[mint]
           b == depth[out]
<1>9. a + (k + 1) = b + 1 /\ (a + 1) + n = b + 1
  BY <1>4, <1>5, <1>7
<1>10. a \in Nat /\ b \in Nat
  BY <1>8
<1> HIDE DEF a, b, n
<1> QED BY <1>1, <1>9, <1>10

(* What the program checks holds of every built swap, up to the curves that  *)
(* complete after round 1.                                                   *)
LEMMA BuiltExecutable ==
  ASSUME Inv, NEW u \in Users, req[u].phase = "built",
         \A c \in CurveCoins(req[u]) : account[c] = "open"
  PROVE  Executable(req[u])
<1> DEFINE r == req[u]
           w == Reverse(r.venues)
           n == Len(r.venues)
           At(i) == IF r.is_buy THEN (n - i) + 1 ELSE i
<1>1. /\ ChainInv /\ RequestInv(r) /\ r \in Requests /\ r.out \in Coins /\ r.venues # <<>>
      /\ Chained(w, r.out, r.mint)
      /\ r.hops \in Seq(Hop) /\ Len(r.hops) = n
      /\ \A i \in 1 .. n : /\ r.hops[i].coin = PathVenues(r)[i].coin
                           /\ r.hops[i].kind = "Pool" => r.hops[i].coin \in pools
      /\ RouteSupported(r.hops, r.is_buy) /\ r.recipient = RecipientOf(r.hops, r.is_buy)
  BY DEF Inv, RequestInv, Typed, Returning, Reading, Building, Requests
<1>2. /\ n \in Nat /\ n > 0 /\ w \in Seq(Venue) /\ Len(w) = n
      /\ \A i \in 1 .. n : PathVenues(r)[i] = w[At(i)]
  <2> HIDE DEF r
  <2> QED BY <1>1, PathOrder
<1>3. MultiHopRoute(PathMint(r), r.hops)
        = [err |-> OK, mint |-> PathEnd(r), dirs |-> {r.is_buy}]
  <2> HIDE DEF r
  <2>1. r.phase \in {"fetched", "built"}
    BY DEF r
  <2> QED BY <1>1, <2>1, HopsConnect
<1>4. DOMAIN r.hops = 1 .. n
  <2> DEFINE h == r.hops
  <2>1. h \in Seq(Hop) /\ Len(h) = n
    BY <1>1
  <2> HIDE DEF h, n
  <2>2. DOMAIN h = 1 .. n
    BY <2>1
  <2> QED BY <2>2 DEF h
<1> HIDE DEF r, w, n
<1>5. \A i \in 1 .. n : r.hops[i].coin = w[At(i)].coin /\ At(i) \in 1 .. n
  <2>1. \A i \in 1 .. n : (n - i) + 1 \in 1 .. n
    BY <1>2
  <2> QED BY <1>1, <1>2, <2>1
<1>6. PoolCoins(r) \subseteq pools
  BY <1>1, <1>4 DEF PoolCoins
<1>7. \A i \in 1 .. n : /\ r.hops[i].coin \notin MayhemCoins
                        /\ i = TargetLeg(r.is_buy, n) => r.hops[i].coin \notin CashbackCoins
  BY <1>1, <1>4 DEF RouteSupported, PoolHopSupported, CurveHopSupported
<1>8. \A i \in DOMAIN r.hops : r.hops[i].coin = r.out => r.hops[i].coin \notin CashbackCoins
  <2> DEFINE t == TargetLeg(r.is_buy, n)
  <2>1. t \in 1 .. n /\ At(t) = 1
    BY <1>2 DEF TargetLeg
  <2>2. w[1].coin = r.out
    <3>1. w # <<>>
      BY <1>2
    <3> QED BY <1>1, <3>1 DEF Chained
  <2> HIDE DEF t
  <2>3. r.hops[t].coin = r.out
    BY <1>5, <2>1, <2>2
  <2>4. r.hops[t].coin \notin CashbackCoins
    BY <1>7, <2>1 DEF t
  <2> QED BY <2>3, <2>4
<1>9. ASSUME NEW i \in DOMAIN r.hops, QuoteMintOf(r.hops[i].coin) = r.mint
      PROVE  r.recipient = IF r.hops[i].kind = "Pool" THEN "GlobalConfig" ELSE "Global"
  <2>1. i \in 1 .. n
    BY <1>4
  <2>2. At(i) \in 1 .. Len(w) /\ QuoteMintOf(w[At(i)].coin) = r.mint
    BY <1>2, <1>5, <1>9, <2>1
  <2>3. At(i) = n
    <3> DEFINE k == At(i)
    <3>1. k \in 1 .. Len(w) /\ QuoteMintOf(w[k].coin) = r.mint
      BY <2>2
    <3> HIDE DEF k
    <3>2. k = Len(w)
      BY <1>1, <1>2, <3>1, LastOnly
    <3> QED BY <1>2, <3>2 DEF k
  <2>4. i = ProtocolLeg(r.is_buy, n)
    <3>1. CASE r.is_buy
      BY <1>2, <2>1, <2>3, <3>1 DEF ProtocolLeg
    <3>2. CASE ~r.is_buy
      BY <2>3, <3>2 DEF ProtocolLeg
    <3> QED BY <3>1, <3>2
  <2> QED BY <1>1, <2>4 DEF RecipientOf
<1>10. \A c \in CurveCoins(r) : account[c] = "open"
  BY DEF r
<1>11. Executable(r)
  BY <1>3, <1>4, <1>6, <1>7, <1>8, <1>9, <1>10 DEF Executable
<1> QED BY <1>11 DEF r

(* Both path orders of a returned route connect. *)
LEMMA BothWaysConnect ==
  ASSUME Inv
  PROVE  RouteConnects
<1> SUFFICES ASSUME NEW u \in Users, req[u].phase \in {"routed", "fetched", "built"},
                    NEW is_buy \in BOOLEAN
             PROVE  LET r == [req[u] EXCEPT !.is_buy = is_buy]
                        route == MultiHopRoute(PathMint(r), PathVenues(r))
                    IN  route.err = OK /\ route.dirs = {is_buy} /\ route.mint = PathEnd(r)
  BY DEF RouteConnects
<1> DEFINE r == [req[u] EXCEPT !.is_buy = is_buy]
           route == MultiHopRoute(PathMint(r), PathVenues(r))
<1>1. /\ req[u] \in Requests /\ req[u].out \in Coins /\ req[u].venues # <<>>
      /\ Chained(Reverse(req[u].venues), req[u].out, req[u].mint) /\ ChainInv
  BY DEF Inv, RequestInv, Typed, Returning
<1>2. /\ r \in Requests /\ r.out = req[u].out /\ r.venues = req[u].venues
      /\ r.mint = req[u].mint /\ r.is_buy = is_buy
  BY <1>1 DEF Requests
<1> HIDE DEF r
<1>3. PathVenues(r) \in Seq(Venue) /\ Len(PathVenues(r)) = Len(r.venues)
  BY <1>2, PathVenuesType
<1>4. route = [err |-> OK, mint |-> PathEnd(r), dirs |-> {r.is_buy}]
  BY <1>1, <1>2, <1>3, Connects
<1> HIDE DEF route
<1>5. route.err = OK /\ route.dirs = {is_buy} /\ route.mint = PathEnd(r)
  BY <1>2, <1>4
<1> QED BY <1>5 DEF route, r

-----------------------------------------------------------------------------
(* Theorems *)

(* Every reachable state satisfies the invariant. *)
LEMMA Invariance == Spec => []Inv
<1>1. Init => Inv
  BY InitInv
<1>2. Inv /\ [Next]_vars => Inv'
  BY StepInv
<1> QED BY <1>1, <1>2, PTL DEF Spec

(* Requests keep their types, and no walk passes more than MAX_HOPS venues,  *)
(* however deep the coins are nested.                                        *)
THEOREM RouteTypes == Spec => []TypeOK
<1>1. Inv => TypeOK
  <2> SUFFICES ASSUME Inv PROVE TypeOK
    OBVIOUS
  <2>1. /\ account \in [Mints -> CurveStates] /\ depth \in [Coins -> Nat]
        /\ pools \subseteq Coins
    BY DEF Inv, ChainInv, ChainTypes
  <2>2. \A u \in Users : req[u] \in Requests /\ Len(req[u].venues) <= MAX_HOPS
    BY DEF Inv, RequestInv, Typed
  <2>3. req \in [Users -> Requests]
    BY DEF Inv
  <2> QED BY <2>1, <2>2, <2>3 DEF TypeOK, CurveStates
<1> QED BY <1>1, Invariance, PTL

(* While max_curve_depth is below MAX_HOPS every route discover_route        *)
(* returns starts at a root currency or at the coin it was asked to stop at, *)
(* whatever completes or migrates during the walk.                           *)
THEOREM RootedRoutes ==
  ASSUME MaxCurveDepth < MAX_HOPS
  PROVE  Spec => []StartsAtRoot
<1>1. Inv => StartsAtRoot
  BY DEF Inv, RequestInv, Returning, StartsAtRoot
<1> QED BY <1>1, Invariance, PTL

(* Whatever completes or migrates during the walk, the venues discover_route *)
(* returns connect in_mint to out_mint, for a buy and for a sale.            *)
THEOREM RoutesConnect == Spec => []RouteConnects
<1>1. Inv => RouteConnects
  BY BothWaysConnect
<1> QED BY <1>1, Invariance, PTL

(* A built multi-hop swap stays one the program executes until a curve on    *)
(* its path completes: every pool it names exists, every venue supports the  *)
(* fees of its leg, and the buyback recipient is listed by the venue that    *)
(* trades the user's currency.                                               *)
THEOREM BuiltSwapsAreExecutable == Spec => []BuiltIsExecutable
<1>1. Inv => BuiltIsExecutable
  BY BuiltExecutable DEF BuiltIsExecutable
<1> QED BY <1>1, Invariance, PTL

-----------------------------------------------------------------------------
(* Refusals *)

(* A walk stands at no coin it was asked to stop at. *)
Unstopped(r) ==
  r.phase = "walking" =>
    /\ r.mint # r.stop
    /\ \A i \in 1 .. Len(r.venues) : r.venues[i].coin # r.stop

(* A walk that ends at a root has met the whole quote chain. *)
LEMMA WholeChain ==
  ASSUME NEW w \in Seq(Venue), w # <<>>, NEW out \in Coins, NEW mint \in Mints, mint \notin Coins,
         Chained(w, out, mint), NEW x \in QuoteChain(out)
  PROVE  x = mint \/ \E i \in 1 .. Len(w) : x = w[i].coin
<1> DEFINE n == Len(w)
           W == {mint} \cup {w[i].coin : i \in 1 .. n}
<1>1. n \in Nat /\ 1 \in 1 .. n
  OBVIOUS
<1>2. \A i \in 1 .. n : w[i].coin \in Coins
  <2>1. \A i \in 1 .. n : w[i] \in Venue
    OBVIOUS
  <2> QED BY <2>1 DEF Venue
<1>3. /\ w[1].coin = out
      /\ \A i \in 1 .. n : QuoteMintOf(w[i].coin) = IF i = n THEN mint ELSE w[i + 1].coin
  BY DEF Chained
<1> HIDE DEF n
<1>4. W \in SUBSET Mints /\ out \in W
  BY <1>1, <1>2, <1>3 DEF Mints
<1>5. ClosedUnderQuotes(W)
  <2> SUFFICES ASSUME NEW i \in 1 .. n PROVE QuoteMintOf(w[i].coin) \in W
    BY DEF ClosedUnderQuotes
  <2>1. i # n => i + 1 \in 1 .. n
    BY <1>1
  <2> QED BY <1>3, <2>1
<1>6. x \in W
  <2> HIDE DEF W
  <2> QED BY <1>4, <1>5 DEF QuoteChain
<1> QED BY <1>6 DEF n

(* The loop is left with a reason, or for a route. *)
LEMMA ReturnedJustified ==
  ASSUME NEW r \in Requests, r.out \in Coins, r.mint \in Mints,
         Chained(r.venues, r.out, r.mint),
         \A i \in 1 .. Len(r.venues) : r.venues[i].coin # r.stop,
         r.venues = <<>> => r.out = r.stop \/ ~HasCurve(r.out),
         (r.venues # <<>> /\ r.mint # r.stop) => r.mint \notin Coins
  PROVE  /\ Returned(r).phase = "failed" => Justified(Returned(r))
         /\ Unstopped(Returned(r))
<1>1. ASSUME NEW e
      PROVE  /\ Failed(r, e).phase = "failed" /\ Failed(r, e).err = e
             /\ Failed(r, e).out = r.out /\ Failed(r, e).stop = r.stop
  BY DEF Failed, Idle
<1>2. CASE r.venues = <<>>
  <2>1. Returned(r) = Failed(r, "AccountNotFound")
    BY <1>2 DEF Returned
  <2> QED BY <1>1, <1>2, <2>1 DEF Justified, Unstopped
<1>3. CASE r.venues # <<>> /\ r.stop # NONE /\ r.mint # r.stop
  <2>1. Returned(r) = Failed(r, "MultiHopDiscontinuousPath")
    BY <1>3 DEF Returned
  <2>2. r.stop \notin QuoteChain(r.out)
    <3> DEFINE w == r.venues
    <3>1. /\ w \in Seq(Venue) /\ w # <<>> /\ Chained(w, r.out, r.mint)
          /\ \A i \in 1 .. Len(w) : w[i].coin # r.stop
      BY <1>3 DEF Requests
    <3> HIDE DEF w
    <3> QED BY <1>3, <3>1, WholeChain
  <2> QED BY <1>1, <2>1, <2>2 DEF Justified, Unstopped
<1>4. CASE r.venues # <<>> /\ ~(r.stop # NONE /\ r.mint # r.stop)
  <2> DEFINE w == Reverse(r.venues)
  <2>1. Returned(r) = [r EXCEPT !.phase = "routed", !.venues = w]
    BY <1>4 DEF Returned
  <2> HIDE DEF w
  <2>2. Returned(r).phase = "routed"
    BY <2>1 DEF Requests
  <2> QED BY <2>2 DEF Unstopped
<1> QED BY <1>2, <1>3, <1>4

(* The loop head walks on past no stop, or returns with a reason. *)
LEMMA LoopHeadJustified ==
  ASSUME ChainInv, MaxCurveDepth < MAX_HOPS, NEW r \in Requests, r.out \in Coins, r.mint \in Mints,
         Chained(r.venues, r.out, r.mint), Len(r.venues) <= MAX_HOPS,
         \A i \in 1 .. Len(r.venues) : r.venues[i].coin # r.stop
  PROVE  /\ LoopHead(r).phase = "failed" => Justified(LoopHead(r))
         /\ Unstopped(LoopHead(r))
<1>1. CASE r.mint # r.stop /\ Len(r.venues) < MAX_HOPS
  <2> DEFINE n == [r EXCEPT !.phase = "walking"]
  <2>1. n.phase = "walking" /\ n.venues = r.venues /\ n.mint = r.mint /\ n.stop = r.stop
    BY DEF Requests
  <2>2. LoopHead(r) = n
    BY <1>1 DEF LoopHead
  <2> HIDE DEF n
  <2> QED BY <1>1, <2>1, <2>2 DEF Unstopped
<1>2. CASE ~(r.mint # r.stop /\ Len(r.venues) < MAX_HOPS)
  <2> DEFINE w == r.venues
  <2>1. w \in Seq(Venue) /\ Len(w) \in Nat /\ MAX_HOPS \in Nat \ {0} /\ Chained(w, r.out, r.mint)
    BY RouteAssumption DEF Requests
  <2>2. LoopHead(r) = Returned(r)
    BY <1>2 DEF LoopHead
  <2>3. w = <<>> => r.out = r.stop
    <3> HIDE DEF w
    <3>1. w = <<>> => Len(w) = 0 /\ r.mint = r.out
      BY <2>1 DEF Chained
    <3> QED BY <1>2, <2>1, <3>1 DEF w
  <2>4. r.mint # r.stop => r.mint \notin Coins
    <3> SUFFICES ASSUME r.mint # r.stop PROVE r.mint \notin Coins
      OBVIOUS
    <3>1. Len(w) = MAX_HOPS
      BY <1>2, <2>1
    <3> HIDE DEF w
    <3> QED BY <2>1, <3>1, EndsAtRoot
  <2> QED BY <2>2, <2>3, <2>4, ReturnedJustified
<1> QED BY <1>1, <1>2

(* One fetch of the walk. *)
LEMMA HopJustified ==
  ASSUME ChainInv, MaxCurveDepth < MAX_HOPS, NEW r, RequestInv(r), Unstopped(r),
         r.phase = "walking"
  PROVE  /\ HopOf(r).phase = "failed" => Justified(HopOf(r))
         /\ Unstopped(HopOf(r))
<1>1. /\ r \in Requests /\ r.out \in Coins /\ r.mint \in Mints
      /\ Chained(r.venues, r.out, r.mint)
      /\ Len(r.venues) < MAX_HOPS /\ MAX_HOPS \in Nat /\ Len(r.venues) \in Nat
      /\ r.venues \in Seq(Venue)
      /\ r.mint # r.stop /\ \A i \in 1 .. Len(r.venues) : r.venues[i].coin # r.stop
  BY RouteAssumption DEF RequestInv, Typed, Walking, Requests, Unstopped
<1>2. CASE ~HasCurve(r.mint)
  <2>1. r.venues # <<>> => r.mint \notin Coins
    <3> SUFFICES ASSUME r.venues # <<>>, r.mint \in Coins
                 PROVE  FALSE
      OBVIOUS
    <3> DEFINE n == Len(r.venues)
               last == r.venues[n].coin
    <3>1. n \in 1 .. n /\ r.venues[n] \in Venue
      BY <1>1
    <3>2. HasCurve(last) /\ QuoteMintOf(last) = r.mint /\ last \in Coins
      BY <1>1, <3>1 DEF Chained, Venue
    <3> HIDE DEF last
    <3> QED BY <1>2, <3>2 DEF ChainInv, DepthInv
  <2>2. r.venues = <<>> => ~HasCurve(r.out)
    BY <1>1, <1>2 DEF Chained
  <2>3. HopOf(r) = Returned(r)
    BY <1>2 DEF HopOf
  <2> QED BY <1>1, <2>1, <2>2, <2>3, ReturnedJustified
<1>3. CASE HasCurve(r.mint)
  <2> DEFINE v == VenueAt(r.mint)
             w == Append(r.venues, v)
             q == QuoteMintOf(r.mint)
             n == [r EXCEPT !.venues = w, !.mint = q]
  <2>1. r.mint \in Coins
    BY <1>1, <1>3 DEF HasCurve, ChainInv, ChainTypes, Mints
  <2>2. v \in Venue /\ v.coin = r.mint
    BY <2>1 DEF VenueAt, PoolVenue, CurveVenue, Venue
  <2>3. HopOf(r) = LoopHead(n)
    BY <1>3 DEF HopOf
  <2> HIDE DEF v
  <2>4. Chained(w, r.out, q)
    BY <1>1, <1>3, <2>1, <2>2, ChainedAppend
  <2>5. w \in Seq(Venue) /\ Len(w) <= MAX_HOPS
    BY <1>1, <2>2
  <2>6. q \in Mints
    BY <2>1, QuoteIsMint
  <2>7. \A i \in 1 .. Len(w) : w[i].coin # r.stop
    <3> SUFFICES ASSUME NEW i \in 1 .. Len(w) PROVE w[i].coin # r.stop
      OBVIOUS
    <3>1. w[i] = IF i = Len(r.venues) + 1 THEN v ELSE r.venues[i]
      BY <1>1
    <3>2. i # Len(r.venues) + 1 => i \in 1 .. Len(r.venues)
      BY <1>1
    <3> QED BY <1>1, <2>2, <3>1, <3>2
  <2> HIDE DEF w, q
  <2>8. n \in Requests /\ n.venues = w /\ n.mint = q /\ n.out = r.out /\ n.stop = r.stop
    BY <1>1, <2>5, <2>6 DEF Requests
  <2> HIDE DEF n
  <2> QED BY <1>1, <2>3, <2>4, <2>5, <2>6, <2>7, <2>8, LoopHeadJustified
<1> QED BY <1>2, <1>3

(* Before it has a route a request ends for a reason only. *)
Explained(u) ==
  (/\ req[u].phase \notin {"routed", "fetched", "built"}
   /\ req'[u].phase = "failed" /\ req'[u] # req[u])
    => Justified(req'[u])

(* Every step explains the refusals it makes, and no walk passes its stop.   *)
LEMMA StepJustified ==
  ASSUME Inv, MaxCurveDepth < MAX_HOPS, \A v \in Users : Unstopped(req[v]), [Next]_vars,
         NEW u \in Users
  PROVE  Explained(u) /\ Unstopped(req'[u])
<1>1. CASE req'[u] = req[u]
  BY <1>1 DEF Explained
<1>2. /\ req \in [Users -> Requests] /\ ChainInv /\ RequestInv(req[u]) /\ Unstopped(req[u])
      /\ req[u] \in Requests
  BY DEF Inv
<1>3. ASSUME NEW n, n.phase = "failed" => Justified(n), Unstopped(n),
             req' = [req EXCEPT ![u] = n]
      PROVE  Explained(u) /\ Unstopped(req'[u])
  BY <1>2, <1>3 DEF Explained
<1>4. ASSUME NEW out \in Coins, NEW stop \in Mints \cup {NONE}, NEW is_buy \in BOOLEAN,
             Request(u, out, stop, is_buy)
      PROVE  Explained(u) /\ Unstopped(req'[u])
  <2> DEFINE r == [Idle EXCEPT !.out = out, !.stop = stop, !.is_buy = is_buy, !.mint = out]
  <2>1. /\ r \in Requests /\ r.out \in Coins /\ r.mint \in Mints
        /\ r.venues = <<>> /\ Len(r.venues) <= MAX_HOPS
        /\ Chained(r.venues, r.out, r.mint)
    BY Asked
  <2>2. req' = [req EXCEPT ![u] = LoopHead(r)]
    BY <1>4 DEF Request
  <2> HIDE DEF r
  <2>3. \A i \in 1 .. Len(r.venues) : r.venues[i].coin # r.stop
    BY <2>1
  <2>4. /\ LoopHead(r).phase = "failed" => Justified(LoopHead(r))
        /\ Unstopped(LoopHead(r))
    BY <1>2, <2>1, <2>3, LoopHeadJustified
  <2> QED BY <1>3, <2>2, <2>4
<1>5. CASE Walk(u)
  <2>1. req' = [req EXCEPT ![u] = HopOf(req[u])] /\ req[u].phase = "walking"
    BY <1>5 DEF Walk
  <2>2. /\ HopOf(req[u]).phase = "failed" => Justified(HopOf(req[u]))
        /\ Unstopped(HopOf(req[u]))
    BY <1>2, <2>1, HopJustified
  <2> QED BY <1>3, <2>1, <2>2
<1>6. CASE RequestFails(u)
  <2> DEFINE n == Failed(req[u], "Rpc")
  <2>1. n.phase = "failed" /\ n.err = "Rpc"
    BY DEF Failed, Idle
  <2>2. req' = [req EXCEPT ![u] = n]
    BY <1>6 DEF RequestFails
  <2> HIDE DEF n
  <2> QED BY <1>3, <2>1, <2>2 DEF Justified, Unstopped
<1>7. ASSUME req[u].phase \in {"routed", "fetched", "built"}, NEW n, n.phase # "walking",
             req' = [req EXCEPT ![u] = n]
      PROVE  Explained(u) /\ Unstopped(req'[u])
  BY <1>2, <1>7 DEF Explained, Unstopped
<1>8. \A r, e : Failed(r, e).phase = "failed"
  BY DEF Failed, Idle
<1>9. CASE FetchVenues(u)
  <2>1. PICK n : /\ req' = [req EXCEPT ![u] = n] /\ req[u].phase = "routed"
                 /\ \/ \E e : n = Failed(req[u], e)
                    \/ \E hops : n = [req[u] EXCEPT !.phase = "fetched", !.hops = hops]
    BY <1>9, Zenon DEF FetchVenues
  <2>2. n.phase # "walking"
    BY <1>2, <1>8, <2>1 DEF Requests
  <2> QED BY <1>7, <2>1, <2>2
<1>10. CASE FetchBalances(u)
  <2>1. PICK n : /\ req' = [req EXCEPT ![u] = n] /\ req[u].phase = "fetched"
                 /\ \/ \E e : n = Failed(req[u], e)
                    \/ \E x : n = [req[u] EXCEPT !.phase = "built", !.recipient = x]
    BY <1>10, Zenon DEF FetchBalances
  <2>2. n.phase # "walking"
    BY <1>2, <1>8, <2>1 DEF Requests
  <2> QED BY <1>7, <2>1, <2>2
<1>11. CASE Land(u)
  <2> DEFINE n == [Idle EXCEPT !.phase = "landed"]
  <2>1. n.phase = "landed"
    BY DEF Idle
  <2>2. req' = [req EXCEPT ![u] = n] /\ req[u].phase = "built"
    BY <1>11 DEF Land
  <2> HIDE DEF n
  <2> QED BY <1>7, <2>1, <2>2
<1>12. CASE Dropped(u)
  <2>1. req' = [req EXCEPT ![u] = Failed(req[u], "Dropped")] /\ req[u].phase = "built"
    BY <1>12 DEF Dropped
  <2> QED BY <1>7, <1>8, <2>1
<1>13. ASSUME NEW v \in Users, v # u,
              \/ \E out \in Coins, stop \in Mints \cup {NONE}, is_buy \in BOOLEAN :
                   Request(v, out, stop, is_buy)
              \/ Walk(v) \/ FetchVenues(v) \/ FetchBalances(v) \/ RequestFails(v)
              \/ Land(v) \/ Dropped(v)
       PROVE  req'[u] = req[u]
  <2>1. PICK n : req' = [req EXCEPT ![v] = n]
    BY <1>13, Zenon DEF Request, Walk, FetchVenues, FetchBalances, RequestFails, Land, Dropped
  <2> QED BY <1>2, <1>13, <2>1
<1>14. CASE UNCHANGED req
  BY <1>1, <1>14
<1> QED
  BY <1>1, <1>4, <1>5, <1>6, <1>9, <1>10, <1>11, <1>12, <1>13, <1>14
     DEF Next, FundCurveAddress, CreateV2, Complete, MigrateV2, vars

(* While max_curve_depth is below MAX_HOPS discover_route refuses a request  *)
(* only for a failed call, for a coin without a curve (or asked to stop at   *)
(* itself), or for a stop that is not on the coin's quote chain, whatever    *)
(* lamports lie at curve addresses and whatever completes during the walk.   *)
THEOREM RefusalsAreJustified ==
  ASSUME MaxCurveDepth < MAX_HOPS
  PROVE  Spec => RefusalsJustified
<1> DEFINE Bounded == \A u \in Users : Unstopped(req[u])
<1>1. Init => Bounded
  <2>1. Idle.phase # "walking"
    BY DEF Idle
  <2> QED BY <2>1 DEF Init, Unstopped
<1>2. Inv /\ Bounded /\ [Next]_vars => Bounded'
  BY StepJustified DEF Unstopped
<1>3. Inv /\ Bounded /\ [Next]_vars
        => [\A u \in Users :
             (/\ req[u].phase \notin {"routed", "fetched", "built"}
              /\ req'[u].phase = "failed" /\ req'[u] # req[u])
               => Justified(req'[u])]_vars
  BY StepJustified DEF Explained
<1> HIDE DEF Bounded
<1> QED BY <1>1, <1>2, <1>3, Invariance, PTL DEF Spec, RefusalsJustified

=============================================================================
