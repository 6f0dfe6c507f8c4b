-------------------------- MODULE MCRouteDiscovery --------------------------
(* Small instances of RouteDiscovery. *)
EXTENDS RouteDiscovery

(* Q on SOL, C quoted in Q, D quoted in C, M on USDC. *)
MCStoredQuote == [c \in Coins |->
  CASE c = "Q" -> DEFAULT_KEY [] c = "C" -> "Q" [] c = "D" -> "C" [] c = "M" -> USDC_MINT]

(* Nine coins, each quoted in the one before; the first in USDC. *)
Names == <<"c1", "c2", "c3", "c4", "c5", "c6", "c7", "c8", "c9">>
LongCoins == ToSet(Names)
LongStoredQuote == [c \in LongCoins |->
  LET i == CHOOSE j \in DOMAIN Names : Names[j] = c
  IN  IF i = 1 THEN USDC_MINT ELSE Names[i - 1]]
=============================================================================
