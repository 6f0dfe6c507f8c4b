CONSTANTS
  U64_MAX = 40
  Global <- MCGlobal
  FeeConfig <- MCFeeConfig
  AmmGlobal <- MCAmmGlobal
  AmmFeeConfig <- MCFeeConfig
  TOKEN_SUPPLY = 16
  WHITELIST_PDA = "whitelist"
  Pubkey = {"default", "wSOL", "USDC", "creator", "Q"}
  CompletedCurve <- MCCompletedCurve
  Boost = 6
  Purse = 8
  Held = 12
  Amounts = {4, 9}
SPECIFICATION Spec
INVARIANTS TypeOK Booked OnlyBoostIsUnpayable HelpersFavourPool OneHopIsPlain
PROPERTIES ImplementsAbstractPool
