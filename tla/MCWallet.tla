------------------------------- MODULE MCWallet --------------------------------
(* A small instance of Wallet: SOL, USDC, cashback and mayhem coins, one of   *)
(* each fee recipient, and a user with and without open token accounts.       *)
EXTENDS Wallet

MCUser == <<"user">>
MCCreator == <<"creator">>
MCMint == <<"coin">>
MCUSDC == <<"USDC">>

MCGlobal == [fee_recipient |-> <<"fees">>, fee_recipients |-> <<DEFAULT_KEY>>,
             reserved_fee_recipient |-> DEFAULT_KEY, reserved_fee_recipients |-> <<<<"reserved">>>>,
             buyback_fee_recipients |-> <<DEFAULT_KEY, <<"buyback">>>>]
MCAmmConfig == [protocol_fee_recipients |-> <<<<"fees">>, DEFAULT_KEY>>,
                buyback_fee_recipients |-> <<<<"buyback">>>>]

Coin(quote, mayhem, cashback) ==
  [NoCurve EXCEPT !.exists = TRUE, !.quote_mint = quote, !.creator = Creator,
                  !.is_mayhem_mode = mayhem, !.is_cashback_coin = cashback]

Graduated(coin) == [coin EXCEPT !.complete = TRUE]

MCCoins == {NoCurve, Coin(DEFAULT_KEY, FALSE, FALSE), Coin(USDC, FALSE, FALSE),
            Coin(USDC, FALSE, TRUE), Coin(DEFAULT_KEY, TRUE, FALSE),
            [Coin(DEFAULT_KEY, FALSE, FALSE) EXCEPT !.creator = SharingConfig(Mint)],
            Graduated(Coin(DEFAULT_KEY, FALSE, FALSE)), Graduated(Coin(DEFAULT_KEY, FALSE, TRUE))}
MCNewCoins == {Coin(DEFAULT_KEY, FALSE, FALSE), Coin(USDC, TRUE, FALSE),
               Coin(NATIVE_MINT, FALSE, TRUE)}

UsdcAta == AssociatedToken(User, SPL_TOKEN, USDC)
MCHoldings == {UsdcAta :> 20, (UserWsolAta(User) :> 12) @@ (UsdcAta :> 0) @@ (BaseAta(User) :> 1)}

MCHolders == {<<MCCreator>>, <<MCCreator, <<"partner">>>>}
=============================================================================
