CONSTANTS
  U64_MAX = 24
  Global <- MCGlobal
  FeeConfig <- MCFeeConfig
  AmmGlobal <- MCAmmGlobal
  AmmFeeConfig <- MCFeeConfig
  TOKEN_SUPPLY = 16
  WHITELIST_PDA = "whitelist"
  Pubkey = {"default", "wSOL", "USDC", "creator", "Q", "C"}
  CompletedCurve <- MCCompletedCurve
  Boost = 1
  Purse = 14
  Held = 12
  Amounts = {4, 11}
  CurveOfC <- MCCurveOfC
  SeedOfC = 3
  QuoteControl = {}
  FirstBuys = {1, 6}
  Slippages = {2500, 12000}
  MaxMoves = 3
SPECIFICATION ClientSpec
INVARIANTS QuietTradeLands TornByFeesOnly
PROPERTIES QuotedExactly LimitsHold
CHECK_DEADLOCK FALSE
