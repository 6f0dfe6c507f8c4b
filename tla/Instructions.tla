------------------------------ MODULE Instructions -----------------------------
(* The instruction builders of PumpSdk (sdk/pump_v2.rs, pump_v3.rs,           *)
(* pump_amm_ix.rs, pump_fees_ix.rs, pump_legacy.rs, trade_tx.rs, token.rs),   *)
(* as pure operators from keys and fetched state to the instructions a        *)
(* transaction carries.                                                       *)
(*                                                                            *)
(* An instruction is its name, the accounts that depend on the arguments      *)
(* (a), the remaining accounts in order (rest) and the data (args).  Program  *)
(* ids, the global PDAs and the writable and signer flags are left out: they  *)
(* are the same in every call.  An address is a tuple headed by its seed.  A  *)
(* builder that draws a fee recipient at random returns the set of the        *)
(* instructions (or lists) it can return; the empty set is Rust's None.       *)
EXTENDS Naturals, SequencesExt

DEFAULT_KEY == <<"default">>
NATIVE_MINT == <<"wSOL">>
SPL_TOKEN == "spl"
TOKEN_2022 == "t22"

(* ---- pda.rs ---- *)
AssociatedToken(owner, program, mint) == <<"ata", owner, program, mint>>
BondingCurvePda(mint) == <<"bonding-curve", mint>>
BondingCurveV2Pda(mint) == <<"bonding-curve-v2", mint>>
CreatorVault(creator) == <<"creator-vault", creator>>
PoolAuthority(mint) == <<"pool-authority", mint>>
UserVolumeAccumulator(user) == <<"user-volume", user>>
SharingConfig(mint) == <<"sharing-config", mint>>
PoolPda(index, creator, base, quote) == <<"pool", index, creator, base, quote>>
CanonicalPool(base, quote) == PoolPda(0, PoolAuthority(base), base, quote)
CoinCreatorVaultAuthority(creator) == <<"amm-creator-vault", creator>>
AmmUserVolumeAccumulator(user) == <<"amm-user-volume", user>>
PoolV2Pda(mint) == <<"pool-v2", mint>>
BoostVaultAuthority(pool) == <<"boost", pool>>
BoostVault(pool, quote, program) == AssociatedToken(BoostVaultAuthority(pool), program, quote)

(* ---- token.rs ---- *)
Ix(op, a, rest, args) == [op |-> op, a |-> a, rest |-> rest, args |-> args]
NoArgs == [amount |-> 0, limit |-> 0]
Amounts(amount, limit) == [amount |-> amount, limit |-> limit]

CreateAta(payer, owner, mint, program) ==
  Ix("create_ata", [payer |-> payer, mint |-> mint, program |-> program,
                    account |-> AssociatedToken(owner, program, mint)], <<>>, NoArgs)

UserWsolAta(user) == AssociatedToken(user, SPL_TOKEN, NATIVE_MINT)

WrapSolInstructions(user, lamports) ==
  <<Ix("transfer", [from |-> user, to |-> UserWsolAta(user)], <<>>, Amounts(lamports, 0)),
    Ix("sync_native", [account |-> UserWsolAta(user)], <<>>, NoArgs)>>

UnwrapSolInstruction(user) ==
  Ix("close_account", [account |-> UserWsolAta(user), destination |-> user, owner |-> user],
     <<>>, NoArgs)

(* ---- sdk/mod.rs: the listed fee recipients, any of which may be drawn ---- *)
FeeRecipients(global, mayhem) ==
  LET primary == IF mayhem THEN global.reserved_fee_recipient ELSE global.fee_recipient
      listed == IF mayhem THEN global.reserved_fee_recipients ELSE global.fee_recipients
  IN  ({primary} \cup ToSet(listed)) \ {DEFAULT_KEY}

BuybackFeeRecipients(global) == ToSet(global.buyback_fee_recipients) \ {DEFAULT_KEY}

ProtocolFeeRecipients(config) == ToSet(config.protocol_fee_recipients) \ {DEFAULT_KEY}

PumpFeeRecipientsPair(global, mayhem) ==
  FeeRecipients(global, mayhem) \X BuybackFeeRecipients(global)

AmmFeeRecipientsPair(config) ==
  ProtocolFeeRecipients(config) \X BuybackFeeRecipients(config)

(* ---- sdk/pump_v2.rs ---- *)
ResolveQuoteMint(quote) == IF quote = DEFAULT_KEY THEN NATIVE_MINT ELSE quote

(* k holds the keys every trade takes: the user, the base mint and the two   *)
(* token programs.  A v2 trade's base program is always Token-2022.          *)
V2TradeAccounts(k, curve_quote, creator, fee_recipient, buyback) ==
  LET quote == ResolveQuoteMint(curve_quote)
      curve == BondingCurvePda(k.base_mint)
      QuoteAta(owner) == AssociatedToken(owner, k.quote_program, quote)
      BaseAta(owner) == AssociatedToken(owner, TOKEN_2022, k.base_mint)
  IN  [base_mint |-> k.base_mint, quote_mint |-> quote, quote_program |-> k.quote_program,
       fee_recipient |-> fee_recipient,
       associated_quote_fee_recipient |-> QuoteAta(fee_recipient),
       buyback_fee_recipient |-> buyback,
       associated_quote_buyback_fee_recipient |-> QuoteAta(buyback),
       bonding_curve |-> curve,
       associated_base_bonding_curve |-> BaseAta(curve),
       associated_quote_bonding_curve |-> QuoteAta(curve),
       user |-> k.user,
       associated_base_user |-> BaseAta(k.user),
       associated_quote_user |-> QuoteAta(k.user),
       creator_vault |-> CreatorVault(creator),
       associated_creator_vault |-> QuoteAta(CreatorVault(creator)),
       sharing_config |-> SharingConfig(k.base_mint),
       user_volume_accumulator |-> UserVolumeAccumulator(k.user),
       associated_user_volume_accumulator |-> QuoteAta(UserVolumeAccumulator(k.user))]

V2Trade(op, global, curve, k, args) ==
  {Ix(op, V2TradeAccounts(k, curve.quote_mint, curve.creator, r[1], r[2]), <<>>, args) :
     r \in PumpFeeRecipientsPair(global, curve.is_mayhem_mode)}

BuyV2Instruction(global, curve, k, amount, max_quote_tokens) ==
  V2Trade("buy_v2", global, curve, k, Amounts(amount, max_quote_tokens))

BuyExactQuoteInV2Instruction(global, curve, k, spendable, min_tokens_out) ==
  V2Trade("buy_exact_quote_in_v2", global, curve, k, Amounts(spendable, min_tokens_out))

SellV2Instruction(global, curve, k, amount, min_sol_output) ==
  V2Trade("sell_v2", global, curve, k, Amounts(amount, min_sol_output))

(* Mutant: the prelude that forgets the account the quote is paid from or to. *)
UserTradeAtasWithoutQuote(k, curve, include_base) ==
  LET Create(owner) == <<CreateAta(k.user, owner, curve.quote_mint, k.quote_program)>>
  IN  (IF include_base THEN <<CreateAta(k.user, k.user, k.base_mint, TOKEN_2022)>> ELSE <<>>)
      \o IF curve.quote_mint \in {DEFAULT_KEY, NATIVE_MINT} THEN <<>>
         ELSE Create(curve.creator) \o Create(BondingCurvePda(k.base_mint))

(* The creator's own account, not the vault's, is what the third create is   *)
(* for; the trade itself makes the vault's.                                  *)
UserTradeAtas(k, curve, include_base) ==
  LET Create(owner) == <<CreateAta(k.user, owner, curve.quote_mint, k.quote_program)>>
  IN  (IF include_base THEN <<CreateAta(k.user, k.user, k.base_mint, TOKEN_2022)>> ELSE <<>>)
      \o IF curve.quote_mint \in {DEFAULT_KEY, NATIVE_MINT} THEN <<>>
         ELSE Create(k.user) \o Create(curve.creator) \o Create(BondingCurvePda(k.base_mint))
              \o IF curve.is_cashback_coin THEN Create(UserVolumeAccumulator(k.user)) ELSE <<>>

BuyV2Instructions(global, curve, k, amount, max_quote_tokens) ==
  {Append(UserTradeAtas(k, curve, TRUE), ix) :
     ix \in BuyV2Instruction(global, curve, k, amount, max_quote_tokens)}

BuyExactQuoteInV2Instructions(global, curve, k, spendable, min_tokens_out) ==
  {Append(UserTradeAtas(k, curve, TRUE), ix) :
     ix \in BuyExactQuoteInV2Instruction(global, curve, k, spendable, min_tokens_out)}

SellV2Instructions(global, curve, k, amount, min_sol_output) ==
  {Append(UserTradeAtas(k, curve, FALSE), ix) :
     ix \in SellV2Instruction(global, curve, k, amount, min_sol_output)}

(* Name, symbol and uri are left out; coin holds what the program stores.    *)
CreateV2Instruction(k, coin) ==
  LET curve == BondingCurvePda(k.base_mint)
      quote == ResolveQuoteMint(coin.quote_mint)
  IN  Ix("create_v2",
         [mint |-> k.base_mint, bonding_curve |-> curve, user |-> k.user,
          associated_bonding_curve |-> AssociatedToken(curve, TOKEN_2022, k.base_mint)],
         IF quote = NATIVE_MINT THEN <<>>
         ELSE <<quote, AssociatedToken(curve, k.quote_program, quote)>>,
         coin)

AgentInitializeInstruction(k, creator, buyback_bps) ==
  Ix("agent_initialize", [authority |-> k.user, mint |-> k.base_mint],
     <<SharingConfig(k.base_mint)>>, [authority |-> creator, buyback_bps |-> buyback_bps])

(* agent_bps is {} when no tokenized agent is asked for.                     *)
CreateV2AndBuyInstruction(global, k, coin, amount, max_quote_tokens, agent_bps) ==
  LET preview == [coin EXCEPT !.quote_mint = ResolveQuoteMint(coin.quote_mint)]
  IN  {<<CreateV2Instruction(k, coin)>> \o buy
         \o SetToSeq({AgentInitializeInstruction(k, coin.creator, bps) : bps \in agent_bps}) :
       buy \in BuyV2Instructions(global, preview, k, amount, max_quote_tokens)}

CreateCoinInstructions(global, k, coin, amount, max_quote_tokens, agent_bps) ==
  CreateV2AndBuyInstruction(global, k, coin, amount, max_quote_tokens, agent_bps)

ExtendAccountIx(mint, user) ==
  Ix("extend_account", [account |-> BondingCurvePda(mint), user |-> user], <<>>, NoArgs)

MigrateV2Instruction(k, quote) ==
  LET authority == PoolAuthority(k.base_mint)
      pool == PoolPda(0, authority, k.base_mint, quote)
      BaseAta(owner) == AssociatedToken(owner, k.base_program, k.base_mint)
      QuoteAta(owner) == AssociatedToken(owner, k.quote_program, quote)
      curve == BondingCurvePda(k.base_mint)
  IN  Ix("migrate_v2",
         [base_mint |-> k.base_mint, quote_mint |-> quote, bonding_curve |-> curve,
          associated_base_bonding_curve |-> BaseAta(curve),
          associated_quote_bonding_curve |-> QuoteAta(curve), user |-> k.user,
          pool |-> pool, pool_authority |-> authority,
          pool_authority_mint_account |-> BaseAta(authority),
          pool_authority_quote_account |-> QuoteAta(authority),
          pool_base_token_account |-> BaseAta(pool),
          pool_quote_token_account |-> QuoteAta(pool)],
         <<BoostVaultAuthority(pool), BoostVault(pool, quote, k.quote_program)>>, NoArgs)

ClaimCashbackV2Instruction(user, curve_quote, program) ==
  LET quote == ResolveQuoteMint(curve_quote)
      accumulator == UserVolumeAccumulator(user)
  IN  Ix("claim_cashback_v2",
         [user |-> user, user_volume_accumulator |-> accumulator, quote_mint |-> quote,
          associated_user_volume_accumulator |-> AssociatedToken(accumulator, program, quote),
          associated_quote_user |-> AssociatedToken(user, program, quote)], <<>>, NoArgs)

CollectCreatorFeeV2Instruction(creator, curve_quote, program) ==
  LET quote == ResolveQuoteMint(curve_quote)
      vault == CreatorVault(creator)
  IN  Ix("collect_creator_fee_v2",
         [creator |-> creator, creator_vault |-> vault, quote_mint |-> quote,
          creator_token_account |-> AssociatedToken(creator, program, quote),
          creator_vault_token_account |-> AssociatedToken(vault, program, quote)], <<>>, NoArgs)

CollectCreatorFeeV2Instructions(payer, creator, curve_quote, program, create_creator_ata) ==
  (IF create_creator_ata
   THEN <<CreateAta(payer, creator, ResolveQuoteMint(curve_quote), program)>> ELSE <<>>)
  \o <<CollectCreatorFeeV2Instruction(creator, curve_quote, program)>>

DistributeCreatorFeesV2Instruction(payer, mint, creator, curve_quote, program, initialize_ata, shareholders) ==
  LET quote == ResolveQuoteMint(curve_quote)
      vault == CreatorVault(creator)
      AtaOf(holder) == AssociatedToken(holder, program, quote)
  IN  Ix("distribute_creator_fees_v2",
         [payer |-> payer, mint |-> mint, bonding_curve |-> BondingCurvePda(mint),
          sharing_config |-> SharingConfig(mint), creator_vault |-> vault,
          creator_vault_quote_token_account |-> AtaOf(vault), quote_mint |-> quote],
         shareholders \o IF quote = NATIVE_MINT THEN <<>>
                         ELSE [i \in DOMAIN shareholders |-> AtaOf(shareholders[i])],
         [initialize_ata |-> initialize_ata])

(* ---- sdk/pump_v3.rs ---- *)
V3Accounts(k, curve_quote, buyback) ==
  LET quote == ResolveQuoteMint(curve_quote)
      curve == BondingCurvePda(k.base_mint)
      QuoteAta(owner) == AssociatedToken(owner, k.quote_program, quote)
      BaseAta(owner) == AssociatedToken(owner, k.base_program, k.base_mint)
  IN  [base_mint |-> k.base_mint, quote_mint |-> quote, bonding_curve |-> curve,
       associated_base_bonding_curve |-> BaseAta(curve),
       associated_quote_bonding_curve |-> QuoteAta(curve), user |-> k.user,
       associated_base_user |-> BaseAta(k.user), associated_quote_user |-> QuoteAta(k.user),
       user_volume_accumulator |-> UserVolumeAccumulator(k.user),
       buyback_fee_recipient |-> IF quote # NATIVE_MINT THEN QuoteAta(buyback) ELSE buyback]

WithUserAtas(k, curve_quote, buyback, include_base, trade) ==
  LET quote == ResolveQuoteMint(curve_quote)
  IN  (IF include_base THEN <<CreateAta(k.user, k.user, k.base_mint, k.base_program)>> ELSE <<>>)
      \o (IF quote = NATIVE_MINT THEN <<>>
          ELSE <<CreateAta(k.user, k.user, quote, k.quote_program),
                 CreateAta(k.user, buyback, quote, k.quote_program)>>)
      \o <<trade>>

BuyV3Instructions(k, quote, buyback, amount, max_quote_cost) ==
  WithUserAtas(k, quote, buyback, TRUE,
    Ix("buy_v3", V3Accounts(k, quote, buyback), <<>>, Amounts(amount, max_quote_cost)))

BuyExactQuoteInV3Instructions(k, quote, buyback, spendable, min_tokens_out) ==
  WithUserAtas(k, quote, buyback, TRUE,
    Ix("buy_exact_quote_in_v3", V3Accounts(k, quote, buyback), <<>>,
       Amounts(spendable, min_tokens_out)))

SellV3Instructions(k, quote, buyback, amount, min_quote_out) ==
  WithUserAtas(k, quote, buyback, FALSE,
    Ix("sell_v3", V3Accounts(k, quote, buyback), <<>>, Amounts(amount, min_quote_out)))

(* Mutant: the sweep that pays the creator's wallet instead of its vault.     *)
SweepCreatorFeeInstructionToWallet(payer, mint, creator, curve_quote, program) ==
  LET quote == ResolveQuoteMint(curve_quote)
      curve == BondingCurvePda(mint)
  IN  Ix("sweep_creator_fee",
         [payer |-> payer, base_mint |-> mint, quote_mint |-> quote, bonding_curve |-> curve,
          associated_quote_bonding_curve |-> AssociatedToken(curve, program, quote),
          recipient |-> creator,
          associated_quote_recipient |-> AssociatedToken(creator, program, quote)],
         <<>>, NoArgs)

SweepCreatorFeeInstruction(payer, mint, creator, curve_quote, program) ==
  LET quote == ResolveQuoteMint(curve_quote)
      curve == BondingCurvePda(mint)
      recipient == CreatorVault(creator)
  IN  Ix("sweep_creator_fee",
         [payer |-> payer, base_mint |-> mint, quote_mint |-> quote, bonding_curve |-> curve,
          associated_quote_bonding_curve |-> AssociatedToken(curve, program, quote),
          recipient |-> recipient,
          associated_quote_recipient |-> AssociatedToken(recipient, program, quote)],
         <<>>, NoArgs)

(* Mutant: the distribution that sweeps only after it has distributed.       *)
DistributeCreatorFeesV2InstructionsSweptLast(payer, mint, creator, quote, program, initialize_ata, create_creator_vault_ata, shareholders) ==
  [i \in DOMAIN shareholders |->
     CreateAta(payer, shareholders[i], ResolveQuoteMint(quote), program)]
  \o <<DistributeCreatorFeesV2Instruction(payer, mint, creator, quote, program,
                                          initialize_ata, shareholders),
       SweepCreatorFeeInstruction(payer, mint, creator, quote, program)>>

(* pump_v2.rs: the sweep first, since the program distributes no coin whose  *)
(* curve still holds creator fees.                                           *)
DistributeCreatorFeesV2Instructions(payer, mint, creator, quote, program, initialize_ata, create_creator_vault_ata, shareholders) ==
  LET Create(owner) == CreateAta(payer, owner, ResolveQuoteMint(quote), program)
  IN  <<SweepCreatorFeeInstruction(payer, mint, creator, quote, program)>>
      \o (IF create_creator_vault_ata THEN <<Create(CreatorVault(creator))>> ELSE <<>>)
      \o [i \in DOMAIN shareholders |-> Create(shareholders[i])]
      \o <<DistributeCreatorFeesV2Instruction(payer, mint, creator, quote, program,
                                              initialize_ata, shareholders)>>

(* ---- sdk/pump_amm_ix.rs ---- *)
PoolAddress(pool) == PoolPda(pool.index, pool.creator, pool.base_mint, pool.quote_mint)

AmmTradeAccounts(pool_key, pool, k, protocol_fee_recipient) ==
  LET authority == CoinCreatorVaultAuthority(pool.coin_creator)
      QuoteAta(owner) == AssociatedToken(owner, k.quote_program, pool.quote_mint)
      BaseAta(owner) == AssociatedToken(owner, k.base_program, pool.base_mint)
  IN  [pool |-> pool_key, user |-> k.user,
       base_mint |-> pool.base_mint, quote_mint |-> pool.quote_mint,
       user_base_token_account |-> BaseAta(k.user),
       user_quote_token_account |-> QuoteAta(k.user),
       pool_base_token_account |-> BaseAta(pool_key),
       pool_quote_token_account |-> QuoteAta(pool_key),
       protocol_fee_recipient |-> protocol_fee_recipient,
       protocol_fee_recipient_token_account |-> QuoteAta(protocol_fee_recipient),
       coin_creator_vault_authority |-> authority,
       coin_creator_vault_ata |-> QuoteAta(authority)]

(* What the program may read past the named accounts: on a cashback coin the *)
(* user's accumulator (its account only, on a buy), pool_v2 when the pool    *)
(* has a coin creator, then the buyback recipient and its account.           *)
AmmRemaining(pool, k, buyback, is_buy) ==
  LET accumulator == AmmUserVolumeAccumulator(k.user)
      QuoteAta(owner) == AssociatedToken(owner, k.quote_program, pool.quote_mint)
  IN  (IF ~pool.is_cashback_coin THEN <<>>
       ELSE <<QuoteAta(accumulator)>> \o IF is_buy THEN <<>> ELSE <<accumulator>>)
      \o (IF pool.coin_creator = DEFAULT_KEY THEN <<>> ELSE <<PoolV2Pda(pool.base_mint)>>)
      \o <<buyback, QuoteAta(buyback)>>

AmmTrade(op, pool_key, config, pool, k, args) ==
  {Ix(op, AmmTradeAccounts(pool_key, pool, k, r[1]),
      AmmRemaining(pool, k, r[2], op = "buy_amm"), args) : r \in AmmFeeRecipientsPair(config)}

BuyAmmInstruction(pool_key, config, pool, k, base_amount_out, max_quote_amount_in) ==
  AmmTrade("buy_amm", pool_key, config, pool, k, Amounts(base_amount_out, max_quote_amount_in))

SellAmmInstruction(pool_key, config, pool, k, base_amount_in, min_quote_amount_out) ==
  AmmTrade("sell_amm", pool_key, config, pool, k, Amounts(base_amount_in, min_quote_amount_out))

BuyAmmInstructions(pool_key, config, pool, k, base_amount_out, max_quote_amount_in) ==
  {<<CreateAta(k.user, k.user, pool.base_mint, k.base_program), ix>> :
     ix \in BuyAmmInstruction(pool_key, config, pool, k, base_amount_out, max_quote_amount_in)}

SellAmmInstructions(pool_key, config, pool, k, base_amount_in, min_quote_amount_out) ==
  {<<CreateAta(k.user, k.user, pool.quote_mint, k.quote_program), ix>> :
     ix \in SellAmmInstruction(pool_key, config, pool, k, base_amount_in, min_quote_amount_out)}

AmmV2Instruction(op, pool, k, buyback, args) ==
  LET QuoteAta(owner) == AssociatedToken(owner, k.quote_program, pool.quote_mint)
  IN  Ix(op, [pool |-> PoolAddress(pool), user |-> k.user,
              base_mint |-> pool.base_mint, quote_mint |-> pool.quote_mint,
              user_base_token_account |-> AssociatedToken(k.user, k.base_program, pool.base_mint),
              user_quote_token_account |-> QuoteAta(k.user),
              pool_base_token_account |-> pool.pool_base_token_account,
              pool_quote_token_account |-> pool.pool_quote_token_account,
              user_volume_accumulator |-> AmmUserVolumeAccumulator(k.user),
              buyback_fee_recipient |-> QuoteAta(buyback)], <<>>, args)

BuyAmmV2Instructions(pool, k, buyback, base_amount_out, max_quote_amount_in) ==
  <<CreateAta(k.user, k.user, pool.base_mint, k.base_program),
    AmmV2Instruction("buy_amm_v2", pool, k, buyback,
                     Amounts(base_amount_out, max_quote_amount_in))>>

BuyExactQuoteInAmmV2Instruction(pool, k, buyback, spendable_quote_in, min_base_amount_out) ==
  AmmV2Instruction("buy_exact_quote_in_amm_v2", pool, k, buyback,
                   Amounts(spendable_quote_in, min_base_amount_out))

SellAmmV2Instructions(pool, k, buyback, base_amount_in, min_quote_amount_out) ==
  <<CreateAta(k.user, k.user, pool.quote_mint, k.quote_program),
    AmmV2Instruction("sell_amm_v2", pool, k, buyback,
                     Amounts(base_amount_in, min_quote_amount_out))>>

CollectCoinCreatorFeeInstruction(creator, quote, program) ==
  LET authority == CoinCreatorVaultAuthority(creator)
  IN  Ix("collect_coin_creator_fee",
         [coin_creator |-> creator, quote_mint |-> quote,
          coin_creator_vault_authority |-> authority,
          coin_creator_vault_ata |-> AssociatedToken(authority, program, quote),
          coin_creator_token_account |-> AssociatedToken(creator, program, quote)], <<>>, NoArgs)

CollectCoinCreatorFeeInstructions(payer, creator, quote, program, create_coin_creator_ata) ==
  (IF create_coin_creator_ata THEN <<CreateAta(payer, creator, quote, program)>> ELSE <<>>)
  \o <<CollectCoinCreatorFeeInstruction(creator, quote, program)>>

SweepPoolCreatorFeeInstruction(payer, pool, program) ==
  LET recipient == CoinCreatorVaultAuthority(pool.coin_creator)
  IN  Ix("sweep_pool_creator_fee",
         [payer |-> payer, pool |-> PoolAddress(pool), quote_mint |-> pool.quote_mint,
          pool_quote_token_account |-> pool.pool_quote_token_account, recipient |-> recipient,
          recipient_token_account |-> AssociatedToken(recipient, program, pool.quote_mint)],
         <<>>, NoArgs)

TransferCreatorFeesToPumpV2Instruction(payer, creator, quote, program) ==
  LET authority == CoinCreatorVaultAuthority(creator)
      vault == CreatorVault(creator)
  IN  Ix("transfer_creator_fees_to_pump_v2",
         [payer |-> payer, quote_mint |-> quote, coin_creator |-> creator,
          coin_creator_vault_authority |-> authority,
          coin_creator_vault_ata |-> AssociatedToken(authority, program, quote),
          pump_creator_vault |-> vault,
          pump_creator_vault_ata |-> AssociatedToken(vault, program, quote)], <<>>, NoArgs)

MultiHopPool(pool) ==
  [base_mint |-> pool.base_mint, quote_mint |-> pool.quote_mint, venue |-> PoolAddress(pool),
   base_vault |-> pool.pool_base_token_account, quote_vault |-> pool.pool_quote_token_account]

MultiHopCurve(mint, curve_quote, base_program, quote_program) ==
  LET venue == BondingCurvePda(mint)
      quote == ResolveQuoteMint(curve_quote)
  IN  [base_mint |-> mint, quote_mint |-> quote, venue |-> venue,
       base_vault |-> AssociatedToken(venue, base_program, mint),
       quote_vault |-> AssociatedToken(venue, quote_program, quote)]

(* The mint reached after the first i hops, entering each by its quote.      *)
Reached(in_mint, hops, is_buy, i) ==
  IF i = 0 THEN in_mint ELSE IF is_buy THEN hops[i].base_mint ELSE hops[i].quote_mint

(* The directions (is_buy) in which the hops form a route from in_mint; a    *)
(* route of no hops, or one that jumps or turns, has none.                   *)
MultiHopRoute(in_mint, hops) ==
  {is_buy \in BOOLEAN :
     /\ hops # <<>>
     /\ \A i \in DOMAIN hops :
          Reached(in_mint, hops, is_buy, i - 1)
            = IF is_buy THEN hops[i].quote_mint ELSE hops[i].base_mint}

MultiHopSwapInstructions(user, in_mint, in_program, out_program, hops, buyback, amount_in, min_amount_out) ==
  IF amount_in = 0 \/ min_amount_out = 0 THEN {}
  ELSE {LET out_mint == Reached(in_mint, hops, is_buy, Len(hops))
            fee_mint == IF is_buy THEN in_mint ELSE out_mint
            fee_program == IF is_buy THEN in_program ELSE out_program
            on_sol_curve == /\ is_buy
                            /\ in_mint = NATIVE_MINT
                            /\ hops[1].venue = BondingCurvePda(hops[1].base_mint)
        IN  <<CreateAta(user, buyback, fee_mint, fee_program)>>
            \o (IF on_sol_curve THEN <<CreateAta(user, user, in_mint, in_program)>> ELSE <<>>)
            \o <<CreateAta(user, user, out_mint, out_program),
                 Ix("multi_hop_swap",
                    [user |-> user,
                     user_in_token_account |-> AssociatedToken(user, in_program, in_mint),
                     user_out_token_account |-> AssociatedToken(user, out_program, out_mint),
                     buyback_fee_recipient |-> AssociatedToken(buyback, fee_program, fee_mint)],
                    hops, Amounts(amount_in, min_amount_out))>> :
        is_buy \in MultiHopRoute(in_mint, hops)}

(* ---- sdk/pump_fees_ix.rs ---- *)
FeeSharesKeys(mint) ==
  LET config == SharingConfig(mint)
  IN  [sharing_config |-> config, pump_creator_vault |-> CreatorVault(config),
       coin_creator_vault_authority |-> CoinCreatorVaultAuthority(config)]

PoolIfComplete(mint, curve) ==
  IF curve.complete THEN <<CanonicalPool(mint, ResolveQuoteMint(curve.quote_mint))>> ELSE <<>>

UpdateFeeSharesInstruction(authority, mint, curve, current, shareholders) ==
  LET keys == FeeSharesKeys(mint)
  IN  Ix("update_fee_shares",
         [authority |-> authority, mint |-> mint, keys |-> keys, quote_mint |-> NATIVE_MINT,
          coin_creator_vault_ata |->
            AssociatedToken(keys.coin_creator_vault_authority, SPL_TOKEN, NATIVE_MINT)],
         current \o PoolIfComplete(mint, curve), [shareholders |-> shareholders])

UpdateFeeSharesV2Instruction(authority, mint, curve, program, current, shareholders) ==
  LET keys == FeeSharesKeys(mint)
      quote == ResolveQuoteMint(curve.quote_mint)
      AtaOf(owner) == AssociatedToken(owner, program, quote)
  IN  Ix("update_fee_shares_v2",
         [authority |-> authority, mint |-> mint, keys |-> keys, quote_mint |-> quote,
          pump_creator_vault_ata |-> AtaOf(keys.pump_creator_vault),
          coin_creator_vault_ata |-> AtaOf(keys.coin_creator_vault_authority)],
         current
         \o (IF quote = NATIVE_MINT THEN <<>>
             ELSE [i \in DOMAIN current |-> AtaOf(current[i])])
         \o PoolIfComplete(mint, curve), [shareholders |-> shareholders])

(* ---- sdk/pump_legacy.rs ---- *)
LegacyAccounts(k, creator, fee_recipient) ==
  LET curve == BondingCurvePda(k.base_mint)
      BaseAta(owner) == AssociatedToken(owner, k.base_program, k.base_mint)
  IN  [fee_recipient |-> fee_recipient, base_mint |-> k.base_mint, bonding_curve |-> curve,
       associated_base_bonding_curve |-> BaseAta(curve), associated_base_user |-> BaseAta(k.user),
       user |-> k.user, creator_vault |-> CreatorVault(creator),
       user_volume_accumulator |-> UserVolumeAccumulator(k.user)]

CreateInstruction(k, creator) ==
  LET curve == BondingCurvePda(k.base_mint)
  IN  Ix("create",
         [mint |-> k.base_mint, bonding_curve |-> curve, user |-> k.user,
          associated_bonding_curve |-> AssociatedToken(curve, SPL_TOKEN, k.base_mint)],
         <<>>, [creator |-> creator])

BuyInstruction(k, creator, fee_recipient, buyback, amount, max_sol_cost) ==
  Ix("buy", LegacyAccounts(k, creator, fee_recipient),
     <<BondingCurveV2Pda(k.base_mint), buyback>>, Amounts(amount, max_sol_cost))

SellInstruction(k, creator, fee_recipient, buyback, amount, min_sol_output, is_cashback_coin) ==
  Ix("sell", LegacyAccounts(k, creator, fee_recipient),
     (IF is_cashback_coin THEN <<UserVolumeAccumulator(k.user)>> ELSE <<>>)
     \o <<BondingCurveV2Pda(k.base_mint), buyback>>, Amounts(amount, min_sol_output))

(* ---- sdk/trade_tx.rs ---- *)
(* Mutant: the AMM trade that leaves the change wrapped.                     *)
AmmTradeTxStillWrapped(pool_key, config, pool, k, is_buy, base_amount, threshold) ==
  {<<CreateAta(k.user, k.user, pool.base_mint, k.base_program),
     CreateAta(k.user, k.user, pool.quote_mint, k.quote_program)>>
   \o (IF is_buy /\ pool.quote_mint = NATIVE_MINT
       THEN WrapSolInstructions(k.user, threshold) ELSE <<>>)
   \o <<trade>> :
   trade \in AmmTrade(IF is_buy THEN "buy_amm" ELSE "sell_amm", pool_key, config, pool, k,
                      Amounts(base_amount, threshold))}

AmmTradeTx(pool_key, config, pool, k, is_buy, base_amount, threshold) ==
  LET native == pool.quote_mint = NATIVE_MINT
      Create(mint, program) == <<CreateAta(k.user, k.user, mint, program)>>
  IN  {(IF is_buy THEN Create(pool.base_mint, k.base_program) ELSE <<>>)
       \o Create(pool.quote_mint, k.quote_program)
       \o (IF is_buy /\ native THEN WrapSolInstructions(k.user, threshold) ELSE <<>>)
       \o <<trade>>
       \o (IF native THEN <<UnwrapSolInstruction(k.user)>> ELSE <<>>) :
       trade \in AmmTrade(IF is_buy THEN "buy_amm" ELSE "sell_amm", pool_key, config, pool, k,
                          Amounts(base_amount, threshold))}

(* pools is the set holding the fetched PumpPoolCtx [key, state], {} when it *)
(* was not supplied: a complete curve is then not tradable.                  *)
TradeTxInstructions(global, config, curve, pools, k, is_buy, base_amount, threshold) ==
  IF curve.complete
  THEN UNION {AmmTradeTx(p.key, config, p.state, k, is_buy, base_amount, threshold) : p \in pools}
  ELSE IF is_buy THEN BuyV2Instructions(global, curve, k, base_amount, threshold)
  ELSE SellV2Instructions(global, curve, k, base_amount, threshold)
=============================================================================
