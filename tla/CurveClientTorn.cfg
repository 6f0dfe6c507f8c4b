CONSTANTS
  U64_MAX = 100000
  Global <- MCGlobal
  FeeConfig <- MCFeeConfig
  Pubkey = {"default", "wSOL", "USDC", "creator"}
  Creator = "creator"
  QuoteMint = "default"
  Mayhem = FALSE
  Cashback = FALSE
  CreatorFeeBps = 0
  InitialQuote = 2
  Purse = 12
  Amounts <- MCAmounts
  Donations = FALSE
  Clients = {"alice"}
  Slippages = {2500}
SPECIFICATION ClientSpec
INVARIANTS OneSnapshot
