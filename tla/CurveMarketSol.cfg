CONSTANTS
  U64_MAX = 100000
  Global <- MCGlobal
  FeeConfig <- MCFeeConfig
  Pubkey = {"default", "wSOL", "USDC", "creator"}
  Creator = "creator"
  QuoteMint = "default"
  Mayhem = FALSE
  Cashback = FALSE
  CreatorFeeBps = 0
  InitialQuote = 5
  Purse = 20
  Amounts <- MCAmounts
  Donations = TRUE
SPECIFICATION Spec
INVARIANTS TypeOK Conserved Backed EveryHolderCanSell QuotesKeepBudget RequoteNeverDearer
PROPERTIES OpensWhereTheLegStopped ProductNeverFalls CompleteIsFinal
CHECK_DEADLOCK FALSE
