CONSTANTS
  U64_MAX = 100000
  Global <- MCGlobal
  FeeConfig <- MCFeeConfig
  Pubkey = {"default", "wSOL", "USDC", "creator"}
  Creator = "default"
  QuoteMint = "USDC"
  Mayhem = TRUE
  Cashback = FALSE
  CreatorFeeBps = 0
  InitialQuote = 2
  Purse = 12
  Amounts <- MCAmounts
  Donations = TRUE
  Clients = {"alice"}
  Slippages = {2500}
SPECIFICATION ClientSpec
PROPERTIES QuotedExactly LimitsHold
