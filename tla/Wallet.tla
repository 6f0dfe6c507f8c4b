-------------------------------- MODULE Wallet ---------------------------------
(* A user's wallet and the instruction lists it sends.  The user builds a     *)
(* list with the builders of Instructions from the state it fetched; others   *)
(* trade, sweep, graduate the coin or move its fees to a sharing config; then *)
(* the list runs on the chain as it is by then, all of it or none of it, or   *)
(* is dropped.                                                                *)
(*                                                                            *)
(* chain.ledger gives every account that exists its balance: lamports for a   *)
(* wallet or a PDA, tokens for an associated account.  A wSOL account has its *)
(* unsynced lamports beside it.  The programs are external: what is modelled  *)
(* of them is which accounts an instruction needs, when they refuse it and    *)
(* what it moves, as the builders' comments and the integration tests say.    *)
(* One token is traded at a time and the venues' own reserves are not         *)
(* tracked (CurveMarket and PoolMarket are about those).  Rent is left out.   *)
EXTENDS Instructions

CONSTANTS User, Creator,  \* wallets
          Mint, USDC,     \* the coin, and a token it may be quoted in
          Coins,          \* the curves the chain may start with
          NewCoins,       \* the coins the user may create
          Holdings,       \* the user's token accounts at the start
          Holders,        \* the shareholder lists a sharing config may have
          PumpGlobal, AmmConfig,
          Prices, StartPrice, Slippages, Funds, MaxMoves

VARIABLES chain, job, moves

vars == <<chain, job, moves>>

k == [user |-> User, base_mint |-> Mint, base_program |-> TOKEN_2022,
      quote_program |-> SPL_TOKEN]

NoCurve == [exists |-> FALSE, quote_mint |-> DEFAULT_KEY, creator |-> DEFAULT_KEY,
            is_mayhem_mode |-> FALSE, is_cashback_coin |-> FALSE, complete |-> FALSE,
            creator_fee |-> 0]

Curve == [exists : BOOLEAN, quote_mint : {c.quote_mint : c \in Coins \cup NewCoins},
          creator : {c.creator : c \in Coins \cup NewCoins},
          is_mayhem_mode : BOOLEAN, is_cashback_coin : BOOLEAN, complete : BOOLEAN,
          creator_fee : Nat]

(* A wallet is no derived address, so it is neither an associated account of *)
(* its own nor a vault; a coin is created before its sharing config.  Its    *)
(* creator is a wallet or that config, its holders and the fee recipients    *)
(* are wallets, and the user is no fee recipient.  A price covers its fees.  *)
Seeds == {"ata", "unsynced", "creator-vault", "amm-creator-vault", "sharing-config", "pool-v2"}
IsDerived(address) == address[1] \in Seeds

Quotes == {NATIVE_MINT, USDC}
ListedFeeRecipients == FeeRecipients(PumpGlobal, FALSE) \cup FeeRecipients(PumpGlobal, TRUE)
                       \cup ProtocolFeeRecipients(AmmConfig)
ListedBuybackRecipients == BuybackFeeRecipients(PumpGlobal) \cup BuybackFeeRecipients(AmmConfig)

ASSUME WalletAssumption ==
  /\ Prices \subseteq Nat /\ StartPrice \in Prices /\ \A p \in Prices : p > 2
  /\ Slippages \subseteq Nat /\ Funds \in Nat /\ MaxMoves \in Nat
  /\ \A held \in Holdings : held \in [DOMAIN held -> Nat]
  /\ \A holders \in Holders : holders \in Seq(ToSet(holders)) \ {<<>>}
  /\ Coins \cup NewCoins \subseteq Curve
  /\ \A coin \in Coins \cup NewCoins : coin.complete => coin.exists
  /\ ~IsDerived(User) /\ ~IsDerived(Creator)
  /\ \A coin \in NewCoins : ~IsDerived(coin.creator)
  /\ \A coin \in Coins : coin.exists =>
       coin.creator = SharingConfig(Mint) \/ ~IsDerived(coin.creator)
  /\ \A holders \in Holders : \A i \in DOMAIN holders : ~IsDerived(holders[i])
  /\ \A coin \in Coins \cup NewCoins : ResolveQuoteMint(coin.quote_mint) \in Quotes
  /\ Mint \notin Quotes
  /\ \A r \in ListedFeeRecipients \cup ListedBuybackRecipients : r # User /\ ~IsDerived(r)

Quote(w) == ResolveQuoteMint(w.curve.quote_mint)
QuoteAta(w, owner) == AssociatedToken(owner, SPL_TOKEN, Quote(w))
BaseAta(owner) == AssociatedToken(owner, TOKEN_2022, Mint)
PoolKey(w) == CanonicalPool(Mint, Quote(w))

NoPool == [exists |-> FALSE, coin_creator |-> DEFAULT_KEY, is_cashback_coin |-> FALSE,
           creator_fees |-> 0]

(* The pool the migration of w's curve creates.                              *)
PoolOf(w) ==
  [exists |-> TRUE, index |-> 0, creator |-> PoolAuthority(Mint), base_mint |-> Mint,
   quote_mint |-> Quote(w), coin_creator |-> w.curve.creator,
   is_cashback_coin |-> w.curve.is_cashback_coin,
   pool_base_token_account |-> BaseAta(PoolKey(w)),
   pool_quote_token_account |-> QuoteAta(w, PoolKey(w)), creator_fees |-> 0]

(* ---- accounts ---- *)
Has(w, account) == account \in DOMAIN w.ledger
Bal(w, account) == IF Has(w, account) THEN w.ledger[account] ELSE 0
Credit(w, account, n) ==
  [w EXCEPT !.ledger = [a \in DOMAIN @ \cup {account} |->
                          Bal(w, a) + IF a = account THEN n ELSE 0]]
Open(w, accounts) == [w EXCEPT !.ledger = [a \in DOMAIN @ \cup accounts |-> Bal(w, a)]]
Debit(w, account, n) == [w EXCEPT !.ledger[account] = @ - n]
Move(w, from, to, n) == Credit(Debit(w, from, n), to, n)
Unsynced(account) == <<"unsynced", account>>

(* Each payee with something to receive is credited, its account made if it  *)
(* is missing.                                                               *)
Paid(w, payments) ==
  LET paid[i \in 0..Len(payments)] ==
        IF i = 0 THEN w
        ELSE LET v == paid[i - 1]
                 p == payments[i]
             IN  IF p[2] = 0 THEN v ELSE Credit(v, p[1], p[2])
  IN  paid

Pay(w, payments) == Paid(w, payments)[Len(payments)]

(* require!: w with the error, or what the rest of the handler makes of it.   *)
Refuse(w, condition, error, rest) == IF condition THEN [w EXCEPT !.err = error] ELSE rest

(* ---- the system, token and associated-token programs ---- *)
ProgramOf(mint) == IF mint = Mint THEN TOKEN_2022 ELSE SPL_TOKEN

ExecCreateAta(w, ix) ==
  Refuse(w, ix.a.program # ProgramOf(ix.a.mint), "IncorrectProgramId",
         Credit(w, ix.a.account, 0))

ExecTransfer(w, ix) ==
  Refuse(w, Bal(w, ix.a.from) < ix.args.amount, "InsufficientFunds",
         Move(w, ix.a.from, Unsynced(ix.a.to), ix.args.amount))

ExecSyncNative(w, ix) ==
  Refuse(w, ~Has(w, ix.a.account), "InvalidAccountData",
         Move(w, Unsynced(ix.a.account), ix.a.account, Bal(w, Unsynced(ix.a.account))))

ExecCloseAccount(w, ix) ==
  LET gone == {ix.a.account, Unsynced(ix.a.account)}
      paid == Credit(w, ix.a.destination,
                     Bal(w, ix.a.account) + Bal(w, Unsynced(ix.a.account)))
  IN  Refuse(w, ~Has(w, ix.a.account), "InvalidAccountData",
             [paid EXCEPT !.ledger = [a \in DOMAIN @ \ gone |-> @[a]]])

(* ---- trades ---- *)
Sells == {"sell", "sell_v2", "sell_v3", "sell_amm", "sell_amm_v2"}
ExactIns == {"buy_exact_quote_in_v2", "buy_exact_quote_in_v3", "buy_exact_quote_in_amm_v2",
             "multi_hop_swap"}

(* A mayhem coin takes no buyback slice; the creator fee rounds to zero on   *)
(* the cheaper trades.                                                       *)
FeesAt(w) == [protocol |-> IF w.curve.is_mayhem_mode THEN 2 ELSE 1,
              buyback |-> IF w.curve.is_mayhem_mode THEN 0 ELSE 1,
              creator |-> IF w.price > 4 THEN 1 ELSE 0]
TotalFees(w) == 2 + FeesAt(w).creator
Cost(w) == w.price + TotalFees(w)
Proceeds(w) == w.price - TotalFees(w)

LimitBroken(w, ix, buying) ==
  IF ~buying THEN Proceeds(w) < ix.args.limit
  ELSE IF ix.op \in ExactIns THEN ix.args.amount < Cost(w)
  ELSE Cost(w) > ix.args.limit

(* One token against the quote in purse: the accounts that must exist, the   *)
(* limit and the funds, then the trade and its payments.                     *)
Bought(w, base, purse) == Credit(Debit(w, purse, Cost(w)), base, 1)
Sold(w, base, purse) == Credit(Debit(w, base, 1), purse, Proceeds(w))

Trade(w, ix, buying, needed, base, purse, payments) ==
  Refuse(w, \E a \in needed \cup {base} : ~Has(w, a), "AccountNotInitialized",
  Refuse(w, LimitBroken(w, ix, buying), "SlippageExceeded",
  Refuse(w, IF buying THEN Bal(w, purse) < Cost(w) ELSE Bal(w, base) < 1, "InsufficientFunds",
         Pay(IF buying THEN Bought(w, base, purse) ELSE Sold(w, base, purse), payments))))

OnCurve(w, a, rest) ==
  Refuse(w, ~w.curve.exists, "AccountNotInitialized",
  Refuse(w, w.curve.complete, "BondingCurveComplete",
  Refuse(w, a.bonding_curve # BondingCurvePda(Mint), "ConstraintSeeds", rest)))

(* buy_v2, buy_exact_quote_in_v2, sell_v2: every fee is paid in the trade.   *)
(* The program makes the buyback recipient's and the vault's accounts.       *)
ExecCurveV2(w, ix) ==
  LET a == ix.a
      f == FeesAt(w)
      native == Quote(w) = NATIVE_MINT
      Acct(wallet, ata) == IF native THEN wallet ELSE ata
      cashback == Acct(a.user_volume_accumulator, a.associated_user_volume_accumulator)
  IN  OnCurve(w, a,
      Refuse(w, a.quote_mint # Quote(w) \/ a.creator_vault # CreatorVault(w.curve.creator),
             "ConstraintSeeds",
      Refuse(w, a.fee_recipient \notin FeeRecipients(PumpGlobal, w.curve.is_mayhem_mode)
                \/ a.buyback_fee_recipient \notin BuybackFeeRecipients(PumpGlobal),
             "NotAuthorized",
      Trade(w, ix, ix.op \notin Sells,
        IF native THEN {}
        ELSE {a.associated_quote_user, a.associated_quote_fee_recipient,
              a.associated_quote_bonding_curve}
             \cup (IF w.curve.is_cashback_coin THEN {cashback} ELSE {}),
        a.associated_base_user, Acct(a.user, a.associated_quote_user),
        <<<<Acct(a.fee_recipient, a.associated_quote_fee_recipient), f.protocol>>,
          <<Acct(a.buyback_fee_recipient, a.associated_quote_buyback_fee_recipient), f.buyback>>,
          <<IF w.curve.is_cashback_coin THEN cashback
            ELSE Acct(a.creator_vault, a.associated_creator_vault), f.creator>>>>))))

(* buy, sell: the legacy trades of a SOL curve.                              *)
ExecLegacy(w, ix) ==
  LET a == ix.a
      f == FeesAt(w)
  IN  OnCurve(w, a,
      Refuse(w, Quote(w) # NATIVE_MINT \/ a.creator_vault # CreatorVault(w.curve.creator),
             "ConstraintSeeds",
      Refuse(w, a.fee_recipient \notin FeeRecipients(PumpGlobal, w.curve.is_mayhem_mode)
                \/ Last(ix.rest) \notin BuybackFeeRecipients(PumpGlobal), "NotAuthorized",
      Refuse(w, ix.op \in Sells /\ w.curve.is_cashback_coin /\ Len(ix.rest) # 3,
             "NotEnoughAccountKeys",
      Trade(w, ix, ix.op \notin Sells, {}, a.associated_base_user, a.user,
        <<<<a.fee_recipient, f.protocol>>, <<Last(ix.rest), f.buyback>>,
          <<IF w.curve.is_cashback_coin THEN a.user_volume_accumulator ELSE a.creator_vault,
            f.creator>>>>)))))

(* Adds the creator fee of the trade to the bucket of the venue.             *)
KeepOnCurve(w, traded) ==
  IF traded.err # "none" THEN traded
  ELSE [traded EXCEPT !.curve.creator_fee = @ + FeesAt(w).creator]
KeepInPool(w, traded) ==
  IF traded.err # "none" THEN traded
  ELSE [traded EXCEPT !.pool.creator_fees = @ + FeesAt(w).creator]

(* buy_v3, buy_exact_quote_in_v3, sell_v3: the creator fee stays on the      *)
(* curve; only the buyback slice is paid out.                                *)
ExecCurveV3(w, ix) ==
  LET a == ix.a
      native == Quote(w) = NATIVE_MINT
  IN  OnCurve(w, a,
      Refuse(w, w.curve.is_cashback_coin, "CashbackCoin",
      Refuse(w, a.quote_mint # Quote(w), "ConstraintSeeds",
      KeepOnCurve(w, Trade(w, ix, ix.op \notin Sells,
        IF native THEN {} ELSE {a.associated_quote_user, a.buyback_fee_recipient},
        a.associated_base_user, IF native THEN a.user ELSE a.associated_quote_user,
        <<<<a.buyback_fee_recipient, FeesAt(w).buyback>>>>)))))

(* buy_amm, sell_amm.  The cashback and pool_v2 accounts are read only when  *)
(* the creator fee is not zero; otherwise the buyback recipient comes first. *)
SkippedAccounts(w, buying) ==
  IF FeesAt(w).creator = 0 THEN 0
  ELSE (IF w.pool.coin_creator = DEFAULT_KEY THEN 0 ELSE 1)
       + IF ~w.pool.is_cashback_coin THEN 0 ELSE IF buying THEN 1 ELSE 2

ExecAmm(w, ix) ==
  LET a == ix.a
      f == FeesAt(w)
      buying == ix.op \notin Sells
      skipped == SkippedAccounts(w, buying)
      buyback_ata == ix.rest[skipped + 2]
  IN  Refuse(w, ~w.pool.exists \/ a.pool # PoolKey(w), "AccountNotInitialized",
      Refuse(w, a.coin_creator_vault_authority # CoinCreatorVaultAuthority(w.pool.coin_creator),
             "ConstraintSeeds",
      Refuse(w, a.protocol_fee_recipient \notin ProtocolFeeRecipients(AmmConfig), "NotAuthorized",
      Refuse(w, ix.rest[skipped + 1] \notin BuybackFeeRecipients(AmmConfig),
             "BuybackFeeRecipientNotAuthorized",
      Trade(w, ix, buying,
        {a.user_quote_token_account, a.protocol_fee_recipient_token_account, buyback_ata},
        a.user_base_token_account, a.user_quote_token_account,
        <<<<a.protocol_fee_recipient_token_account, f.protocol>>, <<buyback_ata, f.buyback>>,
          <<IF w.pool.is_cashback_coin THEN ix.rest[1] ELSE a.coin_creator_vault_ata,
            f.creator>>>>)))))

(* The v2 pool trades: the creator fee stays in the pool.                    *)
ExecAmmV2(w, ix) ==
  LET a == ix.a
  IN  Refuse(w, ~w.pool.exists \/ a.pool # PoolKey(w), "AccountNotInitialized",
      Refuse(w, w.pool.is_cashback_coin, "CashbackCoin",
      KeepInPool(w, Trade(w, ix, ix.op \notin Sells,
        {a.user_quote_token_account, a.buyback_fee_recipient},
        a.user_base_token_account, a.user_quote_token_account,
        <<<<a.buyback_fee_recipient, FeesAt(w).buyback>>>>))))

(* multi_hop_swap over one hop.  The SOL end of a curve hop moves lamports   *)
(* and only wants the wSOL account to exist.                                 *)
ExecMultiHop(w, ix) ==
  LET a == ix.a
      hop == ix.rest[1]
      on_curve == hop.venue = BondingCurvePda(Mint)
      traded == Trade(w, ix, a.user_in_token_account = QuoteAta(w, User),
        {a.user_in_token_account, a.user_out_token_account, a.buyback_fee_recipient},
        BaseAta(User),
        IF on_curve /\ Quote(w) = NATIVE_MINT THEN a.user ELSE QuoteAta(w, User),
        <<<<a.buyback_fee_recipient, FeesAt(w).buyback>>>>)
  IN  Refuse(w, IF on_curve THEN ~w.curve.exists \/ w.curve.complete
                ELSE ~w.pool.exists \/ hop.venue # PoolKey(w), "AccountNotInitialized",
      Refuse(w, w.curve.is_cashback_coin, "CashbackCoin",
      Refuse(w, on_curve /\ w.curve.is_mayhem_mode, "MayhemCurve",
      IF on_curve THEN KeepOnCurve(w, traded) ELSE KeepInPool(w, traded))))

(* ---- creation and migration ---- *)
ExecCreate(w, ix) ==
  LET coin == [w EXCEPT !.curve = [NoCurve EXCEPT !.exists = TRUE, !.creator = ix.args.creator]]
  IN  Refuse(w, w.curve.exists, "AlreadyInUse",
             Credit(coin, ix.a.associated_bonding_curve, 0))

(* The stored quote is the zero key on a SOL curve.                          *)
ExecCreateV2(w, ix) ==
  LET coin == [NoCurve EXCEPT !.exists = TRUE, !.creator = ix.args.creator,
                 !.is_mayhem_mode = ix.args.is_mayhem_mode,
                 !.quote_mint = IF ix.rest = <<>> THEN DEFAULT_KEY ELSE ix.rest[1]]
      opened == {ix.a.associated_bonding_curve} \cup (ToSet(ix.rest) \ {USDC})
  IN  Refuse(w, w.curve.exists, "AlreadyInUse",
      Refuse(w, ix.args.is_cashback_coin, "CashbackDeprecated",
             Open([w EXCEPT !.curve = coin], opened)))

ExecMigrateV2(w, ix) ==
  Refuse(w, ~w.curve.complete, "BondingCurveNotComplete",
  Refuse(w, w.pool.exists, "AlreadyInUse",
  Refuse(w, ix.a.pool # PoolKey(w) \/ Len(ix.rest) # 2, "ConstraintSeeds",
         Open([w EXCEPT !.pool = PoolOf(w)],
              {ix.a.pool_base_token_account, ix.a.pool_quote_token_account}))))

(* ---- creator fees ---- *)
(* The creator vault in the quote: lamports of a SOL coin, tokens otherwise. *)
VaultAccount(w, creator) ==
  IF Quote(w) = NATIVE_MINT THEN CreatorVault(creator) ELSE QuoteAta(w, CreatorVault(creator))
AmmVaultAccount(w, creator) == QuoteAta(w, CoinCreatorVaultAuthority(creator))

(* A transfer of everything from holds, if it exists.                        *)
MoveAll(w, from, to) == IF Bal(w, from) = 0 THEN w ELSE Move(w, from, to, Bal(w, from))

ExecSweepCreatorFee(w, ix) ==
  LET n == w.curve.creator_fee
  IN  Refuse(w, ~w.curve.exists, "AccountNotInitialized",
      Refuse(w, ix.a.recipient # CreatorVault(w.curve.creator), "ConstraintSeeds",
      IF n = 0 THEN w
      ELSE Credit([w EXCEPT !.curve.creator_fee = 0],
                  IF Quote(w) = NATIVE_MINT THEN ix.a.recipient
                  ELSE ix.a.associated_quote_recipient, n)))

ExecSweepPoolCreatorFee(w, ix) ==
  Refuse(w, ~w.pool.exists, "AccountNotInitialized",
  Refuse(w, ix.a.recipient # CoinCreatorVaultAuthority(w.pool.coin_creator), "ConstraintSeeds",
         Credit([w EXCEPT !.pool.creator_fees = 0], ix.a.recipient_token_account,
                w.pool.creator_fees)))

ExecCollectCreatorFee(w, ix) ==
  LET native == ix.a.quote_mint = NATIVE_MINT
  IN  Refuse(w, ~native /\ ~Has(w, ix.a.creator_token_account), "AccountNotInitialized",
             IF native THEN MoveAll(w, ix.a.creator_vault, ix.a.creator)
             ELSE MoveAll(w, ix.a.creator_vault_token_account, ix.a.creator_token_account))

ExecCollectCoinCreatorFee(w, ix) ==
  Refuse(w, ~Has(w, ix.a.coin_creator_token_account), "AccountNotInitialized",
         MoveAll(w, ix.a.coin_creator_vault_ata, ix.a.coin_creator_token_account))

(* wSOL arrives in the pump vault as lamports.                               *)
ToPumpVault(w, creator) == MoveAll(w, AmmVaultAccount(w, creator), VaultAccount(w, creator))

ExecTransferToPump(w, ix) == ToPumpVault(w, ix.a.coin_creator)

(* The vault split evenly among the holders; what does not divide stays.     *)
Distribute(w, holders) ==
  LET vault == VaultAccount(w, w.curve.creator)
      share == Bal(w, vault) \div Len(holders)
      AccountOf(h) == IF Quote(w) = NATIVE_MINT THEN h ELSE QuoteAta(w, h)
  IN  IF share = 0 THEN w
      ELSE Pay(Debit(w, vault, share * Len(holders)),
               [i \in DOMAIN holders |-> <<AccountOf(holders[i]), share>>])

(* The holders' wallets, and on a token quote their accounts, as the sharing *)
(* config lists them.                                                        *)
HolderAccounts(w) ==
  w.shareholders
  \o IF Quote(w) = NATIVE_MINT THEN <<>>
     ELSE [i \in DOMAIN w.shareholders |-> QuoteAta(w, w.shareholders[i])]

SharesChecked(w, vault, given, rest) ==
  Refuse(w, w.curve.creator # SharingConfig(Mint) \/ vault # CreatorVault(w.curve.creator),
         "ConstraintSeeds",
  Refuse(w, w.curve.creator_fee > 0, "CreatorFeesNotSwept",
  Refuse(w, ~IsPrefix(HolderAccounts(w), given), "NotEnoughRemainingAccounts",
  Refuse(w, /\ Quote(w) # NATIVE_MINT
            /\ \E i \in DOMAIN w.shareholders : ~Has(w, QuoteAta(w, w.shareholders[i])),
         "AccountNotInitialized", rest))))

ExecDistribute(w, ix) ==
  LET ata == ix.a.creator_vault_quote_token_account
      token == Quote(w) # NATIVE_MINT
  IN  SharesChecked(w, ix.a.creator_vault, ix.rest,
      Refuse(w, token /\ ~ix.args.initialize_ata /\ ~Has(w, ata), "AccountNotInitialized",
             Distribute(IF token THEN Credit(w, ata, 0) ELSE w, w.shareholders)))

(* update_fee_shares and _v2 pay the current holders before the rewrite.  On *)
(* a complete curve the pool comes last and its bucket must be empty.        *)
ExecUpdateFeeShares(w, ix) ==
  SharesChecked(w, ix.a.keys.pump_creator_vault, ix.rest,
  Refuse(w, ix.a.quote_mint # Quote(w), "ConstraintSeeds",
  Refuse(w, w.curve.complete /\ Last(ix.rest) # PoolKey(w), "NotEnoughRemainingAccounts",
  Refuse(w, w.pool.exists /\ w.pool.creator_fees > 0, "PoolCreatorFeesNotSwept",
         [Distribute(ToPumpVault(w, w.curve.creator), w.shareholders) EXCEPT
            !.shareholders = ix.args.shareholders]))))

ExecClaimCashback(w, ix) ==
  IF ix.a.quote_mint = NATIVE_MINT THEN MoveAll(w, ix.a.user_volume_accumulator, ix.a.user)
  ELSE MoveAll(w, ix.a.associated_user_volume_accumulator, ix.a.associated_quote_user)

(* ---- a transaction ---- *)
Exec(w, ix) ==
  CASE ix.op = "create_ata" -> ExecCreateAta(w, ix)
    [] ix.op = "transfer" -> ExecTransfer(w, ix)
    [] ix.op = "sync_native" -> ExecSyncNative(w, ix)
    [] ix.op = "close_account" -> ExecCloseAccount(w, ix)
    [] ix.op \in {"buy_v2", "buy_exact_quote_in_v2", "sell_v2"} -> ExecCurveV2(w, ix)
    [] ix.op \in {"buy", "sell"} -> ExecLegacy(w, ix)
    [] ix.op \in {"buy_v3", "buy_exact_quote_in_v3", "sell_v3"} -> ExecCurveV3(w, ix)
    [] ix.op \in {"buy_amm", "sell_amm"} -> ExecAmm(w, ix)
    [] ix.op \in {"buy_amm_v2", "buy_exact_quote_in_amm_v2", "sell_amm_v2"} -> ExecAmmV2(w, ix)
    [] ix.op = "multi_hop_swap" -> ExecMultiHop(w, ix)
    [] ix.op = "create" -> ExecCreate(w, ix)
    [] ix.op = "create_v2" -> ExecCreateV2(w, ix)
    [] ix.op = "agent_initialize" -> [w EXCEPT !.err = "AgentInitializationNotSupported"]
    [] ix.op = "extend_account" -> w
    [] ix.op = "migrate_v2" -> ExecMigrateV2(w, ix)
    [] ix.op = "sweep_creator_fee" -> ExecSweepCreatorFee(w, ix)
    [] ix.op = "sweep_pool_creator_fee" -> ExecSweepPoolCreatorFee(w, ix)
    [] ix.op = "collect_creator_fee_v2" -> ExecCollectCreatorFee(w, ix)
    [] ix.op = "collect_coin_creator_fee" -> ExecCollectCoinCreatorFee(w, ix)
    [] ix.op = "transfer_creator_fees_to_pump_v2" -> ExecTransferToPump(w, ix)
    [] ix.op = "distribute_creator_fees_v2" -> ExecDistribute(w, ix)
    [] ix.op \in {"update_fee_shares", "update_fee_shares_v2"} -> ExecUpdateFeeShares(w, ix)
    [] ix.op = "claim_cashback_v2" -> ExecClaimCashback(w, ix)

(* The instructions in order; after an error nothing more is executed.       *)
Trace(w, list) ==
  LET state[i \in 0..Len(list)] ==
        IF i = 0 THEN w
        ELSE LET v == state[i - 1] IN IF v.err # "none" THEN v ELSE Exec(v, list[i])
  IN  state

Run(w, list) == Trace(w, list)[Len(list)]

(* ---- the user ---- *)
Idle == [kind |-> "idle", list |-> <<>>, purse |-> User, spend |-> 0, limit |-> 0,
         buying |-> FALSE, fresh |-> FALSE]

pool == [key |-> PoolKey(chain), state |-> chain.pool]
OnPool == chain.pool.exists
OnOpenCurve == chain.curve.exists /\ ~chain.curve.complete

(* The purse of a curve trade and of a pool trade.                           *)
CurvePurse(w) == IF Quote(w) = NATIVE_MINT THEN User ELSE QuoteAta(w, User)
PoolPurse(w) == QuoteAta(w, User)

Build(kind, lists, purse, spend, limit, buying) ==
  /\ job = Idle
  /\ moves < MaxMoves
  /\ \E list \in lists :
       job' = [kind |-> kind, list |-> list, purse |-> purse, spend |-> spend,
               limit |-> limit, buying |-> buying, fresh |-> TRUE]
  /\ UNCHANGED <<chain, moves>>

MaxCost(slippage) == Cost(chain) + slippage
MinProceeds(slippage) == IF Proceeds(chain) > slippage THEN Proceeds(chain) - slippage ELSE 1

(* wraps: the list moves its whole limit into wSOL before it trades.         *)
BuildBuy(kind, Lists(_), purse, wraps) ==
  \E s \in Slippages :
    Build(kind, Lists(MaxCost(s)), purse, IF wraps THEN MaxCost(s) ELSE Cost(chain),
          MaxCost(s), TRUE)

BuildSell(kind, Lists(_)) ==
  \E s \in Slippages : Build(kind, Lists(MinProceeds(s)), BaseAta(User), 1, MinProceeds(s), FALSE)

BuildExactIn(kind, lists, purse) == Build(kind, lists, purse, Cost(chain), 1, TRUE)

BuildOther(kind, lists) == Build(kind, lists, User, 0, 0, FALSE)

BuildTradeTx ==
  /\ chain.curve.exists
  /\ LET Lists(is_buy, limit) ==
           TradeTxInstructions(PumpGlobal, AmmConfig, chain.curve,
                               IF OnPool THEN {pool} ELSE {}, k, is_buy, 1, limit)
         wraps == chain.curve.complete /\ Quote(chain) = NATIVE_MINT
     IN  \/ BuildBuy("trade_tx", LAMBDA limit : Lists(TRUE, limit), CurvePurse(chain), wraps)
         \/ BuildSell("trade_tx", LAMBDA limit : Lists(FALSE, limit))

BuildCurveV2ExactIn ==
  /\ OnOpenCurve
  /\ BuildExactIn("v2", BuyExactQuoteInV2Instructions(PumpGlobal, chain.curve, k, Cost(chain), 1),
                  CurvePurse(chain))

BuildV3 ==
  /\ OnOpenCurve
  /\ \E b \in BuybackFeeRecipients(PumpGlobal) :
       LET q == chain.curve.quote_mint
       IN  \/ BuildBuy("v3", LAMBDA limit : {BuyV3Instructions(k, q, b, 1, limit)},
                       CurvePurse(chain), FALSE)
           \/ BuildSell("v3", LAMBDA limit : {SellV3Instructions(k, q, b, 1, limit)})
           \/ BuildExactIn("v3", {BuyExactQuoteInV3Instructions(k, q, b, Cost(chain), 1)},
                           CurvePurse(chain))

BuildAmm ==
  /\ OnPool
  /\ \/ BuildBuy("amm", LAMBDA limit :
          BuyAmmInstructions(pool.key, AmmConfig, pool.state, k, 1, limit), PoolPurse(chain), FALSE)
     \/ BuildSell("amm", LAMBDA limit :
          SellAmmInstructions(pool.key, AmmConfig, pool.state, k, 1, limit))

BuildAmmV2 ==
  /\ OnPool
  /\ \E b \in BuybackFeeRecipients(AmmConfig) :
       \/ BuildBuy("amm_v2", LAMBDA limit : {BuyAmmV2Instructions(pool.state, k, b, 1, limit)},
                   PoolPurse(chain), FALSE)
       \/ BuildSell("amm_v2", LAMBDA limit : {SellAmmV2Instructions(pool.state, k, b, 1, limit)})
       \/ BuildExactIn("amm_v2_singular",
            {<<BuyExactQuoteInAmmV2Instruction(pool.state, k, b, Cost(chain), 1)>>},
            PoolPurse(chain))

(* One hop over the curve while it is open, over the pool afterwards.        *)
BuildMultiHop ==
  /\ OnOpenCurve \/ OnPool
  /\ \E b \in BuybackFeeRecipients(PumpGlobal) :
       LET hop == IF OnPool THEN MultiHopPool(pool.state)
                  ELSE MultiHopCurve(Mint, chain.curve.quote_mint, k.base_program, k.quote_program)
           purse == IF OnPool THEN PoolPurse(chain) ELSE CurvePurse(chain)
       IN  \/ BuildExactIn("multi_hop",
                MultiHopSwapInstructions(User, Quote(chain), k.quote_program, k.base_program,
                                         <<hop>>, b, Cost(chain), 1), purse)
           \/ BuildSell("multi_hop", LAMBDA limit :
                MultiHopSwapInstructions(User, Mint, k.base_program, k.quote_program,
                                         <<hop>>, b, 1, limit))

BuildCreateCoin ==
  /\ ~chain.curve.exists
  /\ \E coin \in NewCoins, agent \in {{}, {100}} :
       LET w == [chain EXCEPT !.curve = coin]
       IN  BuildBuy(IF agent = {} THEN "create" ELSE "create_agent", LAMBDA limit :
             CreateCoinInstructions(PumpGlobal, k, coin, 1, limit, agent), CurvePurse(w), FALSE)

BuildLegacy ==
  \E f \in FeeRecipients(PumpGlobal, chain.curve.is_mayhem_mode),
     b \in BuybackFeeRecipients(PumpGlobal) :
    \/ /\ ~chain.curve.exists
       /\ BuildOther("legacy_create", {<<CreateInstruction(k, Creator)>>})
    \/ /\ OnOpenCurve
       /\ Quote(chain) = NATIVE_MINT
       /\ \/ BuildBuy("legacy", LAMBDA limit :
               {<<BuyInstruction(k, chain.curve.creator, f, b, 1, limit)>>}, User, FALSE)
          \/ BuildSell("legacy", LAMBDA limit :
               {<<SellInstruction(k, chain.curve.creator, f, b, 1, limit,
                                  chain.curve.is_cashback_coin)>>})

(* What the creator or the crank sends for the coin as it was fetched.       *)
Sweeps ==
  <<SweepCreatorFeeInstruction(User, Mint, chain.curve.creator, chain.curve.quote_mint, SPL_TOKEN)>>
  \o IF OnPool THEN <<SweepPoolCreatorFeeInstruction(User, chain.pool, SPL_TOKEN)>> ELSE <<>>

Collects ==
  CollectCreatorFeeV2Instructions(User, chain.curve.creator, chain.curve.quote_mint,
                                  SPL_TOKEN, TRUE)
  \o IF OnPool THEN CollectCoinCreatorFeeInstructions(User, chain.curve.creator, Quote(chain),
                                                      SPL_TOKEN, TRUE)
     ELSE <<>>

Distribution ==
  (IF OnPool THEN <<TransferCreatorFeesToPumpV2Instruction(User, chain.curve.creator,
                                                           Quote(chain), SPL_TOKEN)>>
   ELSE <<>>)
  \o DistributeCreatorFeesV2Instructions(User, Mint, chain.curve.creator, chain.curve.quote_mint,
                                         SPL_TOKEN, TRUE, TRUE, chain.shareholders)

Shared == chain.curve.creator = SharingConfig(Mint)

BuildCreatorFees ==
  /\ chain.curve.exists
  /\ \/ BuildOther("sweep", {Sweeps})
     \/ BuildOther("collect", {Collects})
     \/ /\ Shared
        /\ BuildOther("distribute", {Distribution})
     \/ /\ Shared
        /\ \E holders \in Holders :
             LET creates == [i \in DOMAIN chain.shareholders |->
                   CreateAta(User, chain.shareholders[i], Quote(chain), SPL_TOKEN)]
             IN  BuildOther("update_shares",
                   {Sweeps \o creates \o <<u>> : u \in
                     {UpdateFeeSharesV2Instruction(User, Mint, chain.curve, SPL_TOKEN,
                                                   chain.shareholders, holders)}
                     \cup IF Quote(chain) # NATIVE_MINT THEN {}
                          ELSE {UpdateFeeSharesInstruction(User, Mint, chain.curve,
                                                           chain.shareholders, holders)}})

BuildUpkeep ==
  /\ chain.curve.exists
  /\ \/ BuildOther("extend", {<<ExtendAccountIx(Mint, User)>>})
     \/ BuildOther("claim",
          {<<ClaimCashbackV2Instruction(User, chain.curve.quote_mint, SPL_TOKEN)>>})
     \/ /\ chain.curve.complete /\ ~OnPool
        /\ BuildOther("migrate", {<<MigrateV2Instruction(k, Quote(chain))>>})

(* The transaction is all or nothing: an error leaves the chain as it was.   *)
Outcome == Run(chain, job.list)

(* Mutant: a refused transaction that keeps what ran before its error.        *)
LandAnyway ==
  /\ job # Idle
  /\ moves < MaxMoves
  /\ chain' = Outcome
  /\ job' = Idle
  /\ moves' = moves + 1

Land ==
  /\ job # Idle
  /\ Outcome.err = "none"
  /\ moves < MaxMoves
  /\ chain' = Outcome
  /\ job' = Idle
  /\ moves' = moves + 1

(* Refused, or never included before its blockhash expired.                  *)
Dropped ==
  /\ job # Idle
  /\ job' = Idle
  /\ UNCHANGED <<chain, moves>>

(* ---- everyone else ---- *)
Others(w) ==
  /\ moves < MaxMoves
  /\ chain' = w
  /\ job' = [job EXCEPT !.fresh = FALSE]
  /\ moves' = moves + 1

(* A trade by someone else moves the price; a v3 or v2 pool trade leaves its *)
(* creator fee in the venue.                                                 *)
OthersTrade ==
  /\ chain.curve.exists
  /\ \E p \in Prices \ {chain.price} : \E fee \in 0..1 :
       LET w == [chain EXCEPT !.price = p]
           bucketed == ~chain.curve.is_cashback_coin
       IN  \/ /\ OnOpenCurve
              /\ fee = 1 => bucketed /\ chain.curve.creator_fee = 0
              /\ Others([w EXCEPT !.curve.creator_fee = @ + fee])
           \/ /\ OnPool
              /\ fee = 1 => bucketed /\ chain.pool.creator_fees = 0
              /\ Others([w EXCEPT !.pool.creator_fees = @ + fee])

OthersComplete ==
  /\ OnOpenCurve
  /\ Others([chain EXCEPT !.curve.complete = TRUE])

OthersMigrate ==
  /\ chain.curve.complete /\ ~OnPool
  /\ Others(Run(chain, <<MigrateV2Instruction(k, Quote(chain))>>))

(* pump-fees sharing setup: refused while either bucket holds fees.          *)
SetUpSharing ==
  /\ chain.curve.exists
  /\ ~Shared
  /\ chain.curve.creator_fee = 0 /\ chain.pool.creator_fees = 0
  /\ \E holders \in Holders :
       Others([chain EXCEPT !.curve.creator = SharingConfig(Mint),
                            !.pool.coin_creator = IF OnPool THEN SharingConfig(Mint) ELSE @,
                            !.shareholders = holders])

(* The accounts of the listed recipients: the fee recipients' are open in    *)
(* every quote, the buyback recipients' may not be.                          *)
QuoteAtas(wallets) == {AssociatedToken(r, SPL_TOKEN, q) : r \in wallets, q \in Quotes}
ListedFeeAtas == QuoteAtas(ListedFeeRecipients)
ListedBuybackAtas == QuoteAtas(ListedBuybackRecipients)

Init ==
  /\ \E curve \in Coins, held \in Holdings, holders \in Holders,
        buyback \in {{}, ListedBuybackAtas} :
       LET w == [curve |-> curve]
           venues == IF ~curve.exists THEN {}
                     ELSE {BondingCurvePda(Mint)} \cup IF curve.complete THEN {PoolKey(w)} ELSE {}
           accounts == {User} \cup DOMAIN held \cup buyback \cup ListedFeeAtas
                       \cup {BaseAta(v) : v \in venues}
                       \cup {QuoteAta(w, v) : v \in venues}
       IN  chain = [curve |-> curve, pool |-> IF curve.complete THEN PoolOf(w) ELSE NoPool,
                    price |-> StartPrice,
                    shareholders |-> IF curve.creator = SharingConfig(Mint) THEN holders ELSE <<>>,
                    err |-> "none",
                    ledger |-> [a \in accounts |->
                      IF a = User THEN Funds ELSE IF a \in DOMAIN held THEN held[a] ELSE 0]]
  /\ job = Idle
  /\ moves = 0

Next ==
  \/ BuildTradeTx \/ BuildCurveV2ExactIn \/ BuildV3 \/ BuildAmm \/ BuildAmmV2 \/ BuildMultiHop
  \/ BuildCreateCoin \/ BuildLegacy \/ BuildCreatorFees \/ BuildUpkeep
  \/ Land \/ Dropped
  \/ OthersTrade \/ OthersComplete \/ OthersMigrate \/ SetUpSharing

Spec == Init /\ [][Next]_vars

-----------------------------------------------------------------------------
(* Balances never go below zero, whatever list lands; a closed account takes *)
(* its unsynced lamports with it; only chain state without an error is kept. *)
TypeOK ==
  /\ \A a \in DOMAIN chain.ledger : chain.ledger[a] \in Nat
  /\ chain.curve.creator_fee \in Nat /\ chain.pool.creator_fees \in Nat
  /\ chain.price \in Prices /\ chain.err = "none"
  /\ moves \in 0..MaxMoves

(* What the comments and the README say will be refused, and the user's      *)
(* being short of what the list spends.  A pool trade wants the account of   *)
(* the buyback recipient it drew; a v1 one is shifted by the accounts before *)
(* it when the creator fee rounds to zero.                                   *)
BuybackAccount(ix) ==
  IF ix.op \in {"buy_amm", "sell_amm"} THEN Last(ix.rest) ELSE ix.a.buyback_fee_recipient
PoolTrades == {"buy_amm", "sell_amm", "buy_amm_v2", "buy_exact_quote_in_amm_v2", "sell_amm_v2"}
BuybackMissing(list) ==
  \E i \in DOMAIN list : list[i].op \in PoolTrades /\ ~Has(chain, BuybackAccount(list[i]))
Shifted == /\ FeesAt(chain).creator = 0
           /\ chain.pool.is_cashback_coin \/ chain.pool.coin_creator # DEFAULT_KEY

KnownRefusal ==
  \/ job.spend > Bal(chain, job.purse)
  \/ chain.curve.is_cashback_coin /\ job.kind \in {"v3", "amm_v2", "amm_v2_singular", "multi_hop"}
  \/ chain.curve.is_mayhem_mode /\ ~OnPool /\ job.kind = "multi_hop"
  \/ OnPool /\ job.kind \in {"amm", "trade_tx"} /\ (Shifted \/ BuybackMissing(job.list))
  \/ job.kind \in {"amm_v2", "amm_v2_singular"} /\ BuybackMissing(job.list)
  \/ job.kind \in {"amm_v2_singular", "legacy"} /\ ~Has(chain, BaseAta(User))
  \/ job.kind = "create" /\ job.list[1].args.is_cashback_coin
  \/ job.kind = "create_agent"

(* A list sent while nothing has moved since its state was fetched lands,    *)
(* exactly when none of these refusals applies: the builders' preludes make  *)
(* every account their instructions need, in the right order, and their      *)
(* derived accounts are the ones the programs expect, on every quote, venue  *)
(* and kind of coin.                                                         *)
FreshListLands == job.fresh => (Outcome.err = "none" <=> ~KnownRefusal)

SolOf(w) == Bal(w, User) + Bal(w, UserWsolAta(User)) + Bal(w, Unsynced(UserWsolAta(User)))

(* trade_tx on a wSOL pool, however late it lands: no wSOL account is left   *)
(* behind, the wSOL held before comes back as lamports, and the trade costs  *)
(* at most (pays at least) its threshold of SOL in all.                      *)
WsolRoundTrip ==
  [][(Land /\ job.kind = "trade_tx" /\ chain.pool.exists /\ Quote(chain) = NATIVE_MINT) =>
       /\ ~Has(chain', UserWsolAta(User))
       /\ IF job.buying THEN SolOf(chain') + job.limit >= SolOf(chain)
          ELSE SolOf(chain') >= SolOf(chain) + job.limit]_vars

(* A list that distributes fees is never refused over unswept creator fees,  *)
(* even when others have traded since it was built: it sweeps first, in the  *)
(* same transaction.  The same for a share update that prepends the sweeps,  *)
(* unless the coin gained its pool in between.                               *)
SweptInTime ==
  /\ job.kind \in {"distribute", "update_shares"} => Outcome.err # "CreatorFeesNotSwept"
  /\ job.kind = "update_shares" /\ Outcome.err = "PoolCreatorFeesNotSwept"
       => ~\E i \in DOMAIN job.list : job.list[i].op = "sweep_pool_creator_fee"

(* What the coin owes its creator in the quote: the two fee buckets, the vault *)
(* of the curve and, once the coin has a pool, that of the pool; and what a   *)
(* payee has of the quote in hand.                                            *)
Owed(w) == w.curve.creator_fee + w.pool.creator_fees + Bal(w, VaultAccount(w, w.curve.creator))
           + IF w.pool.exists THEN Bal(w, AmmVaultAccount(w, w.curve.creator)) ELSE 0
InHand(w, payee) == Bal(w, payee) + Bal(w, QuoteAta(w, payee))

CashOut == Sweeps \o IF Shared THEN Distribution ELSE Collects
Payees == IF Shared THEN chain.shareholders ELSE <<chain.curve.creator>>

(* No creator fee is ever stranded: in every state the sweeps, followed by   *)
(* the collects or by the transfer and the distribution, run without error;  *)
(* each payee (the creator, or a holder once for each time it is listed) has *)
(* an even share of all that was owed, and no more than what does not divide *)
(* is owed afterwards.                                                       *)
CreatorCanCashOut ==
  chain.curve.exists =>
    LET after == Run(chain, CashOut)
        share == Owed(chain) \div Len(Payees)
    IN  /\ after.err = "none"
        /\ Owed(after) = Owed(chain) % Len(Payees)
        /\ \A p \in ToSet(Payees) :
             InHand(after, p) = InHand(chain, p)
                                + share * Cardinality({i \in DOMAIN Payees : Payees[i] = p})
=============================================================================
