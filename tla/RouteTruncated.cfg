CONSTANTS
  U64_MAX = 100000
  Coins = {"Q", "C", "D", "M"}
  Roots = {"wSOL", "USDC"}
  StoredQuote <- MCStoredQuote
  MayhemCoins = {"M"}
  CashbackCoins = {"C"}
  MaxCurveDepth = 2
  MAX_HOPS = 2
  Fundable = {"wSOL"}
  Completable = {"C", "D"}
  Users = {"alice"}
  NONE = "none"
SPECIFICATION Spec
INVARIANTS TypeOK BuiltIsExecutable
