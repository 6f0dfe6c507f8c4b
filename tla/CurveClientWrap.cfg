CONSTANTS
  U64_MAX = 17
  Global <- MCConfigurableGlobal
  FeeConfig <- MCFeeConfig
  Pubkey = {"default", "wSOL", "USDC", "creator"}
  Creator = "creator"
  QuoteMint = "USDC"
  Mayhem = FALSE
  Cashback = FALSE
  CreatorFeeBps = 250
  InitialQuote = 8
  Purse = 15
  Amounts <- MCWrapAmounts
  Donations = FALSE
  Clients = {"alice"}
  Slippages = {0, 20000}
SPECIFICATION ClientSpec
INVARIANTS QuietTradeLands
PROPERTIES LimitsHold
