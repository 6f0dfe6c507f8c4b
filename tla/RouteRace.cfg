CONSTANTS
  U64_MAX = 100000
  Coins = {"Q", "C", "D"}
  Roots = {"wSOL", "USDC"}
  StoredQuote <- MCStoredQuote
  MayhemCoins = {}
  CashbackCoins = {"C"}
  MaxCurveDepth = 2
  MAX_HOPS = 3
  Fundable = {"Q", "wSOL"}
  Completable = {"Q", "C", "D"}
  Users = {"alice"}
  NONE = "none"
SPECIFICATION Spec
INVARIANTS StartsAtRoot RouteConnects BuiltIsExecutable
PROPERTIES RefusalsJustified EverySwapEnds
