CONSTANTS
  User <- MCUser
  Creator <- MCCreator
  Mint <- MCMint
  USDC <- MCUSDC
  Coins <- MCCoins
  NewCoins <- MCNewCoins
  Holdings <- MCHoldings
  Holders <- MCHolders
  PumpGlobal <- MCGlobal
  AmmConfig <- MCAmmConfig
  Prices = {4, 6}
  StartPrice = 6
  Slippages = {0, 3}
  Funds = 20
  MaxMoves = 3
SPECIFICATION Spec
INVARIANTS TypeOK FreshListLands SweptInTime CreatorCanCashOut
PROPERTY WsolRoundTrip
CHECK_DEADLOCK FALSE
