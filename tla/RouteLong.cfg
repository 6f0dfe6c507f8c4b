CONSTANTS
  U64_MAX = 100000
  Coins <- LongCoins
  Roots = {"wSOL", "USDC"}
  StoredQuote <- LongStoredQuote
  MayhemCoins = {}
  CashbackCoins = {}
  MaxCurveDepth = 8
  MAX_HOPS = 8
  Fundable = {}
  Completable = {}
  Users = {"alice"}
  NONE = "none"
SPECIFICATION Spec
INVARIANT StartsAtRoot
